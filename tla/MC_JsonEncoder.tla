--------------------------- MODULE MC_JsonEncoder ---------------------------
(* Timelines of up to three frames, results that are retained, evicted in part or   *)
(* empty, and sizes that let a document be too long for an array or for a buffer.   *)
EXTENDS JsonEncoder

MCPieceSize ==
    [kind \in {"head", "value", "frames", "frame", "snapshot", "bucket", "entry", "key",
               "entry end", ",", "]}", "}"} |->
        IF kind \in {"frame", "head"} THEN 3 ELSE IF kind \in {"key", "frames"} THEN 2 ELSE 1]

MCFrames(id) == [id : {id}, chains : {<<0, 0>>, <<2, 0>>, <<1, 1>>}]

\* The frames before number 5 have been evicted.
MCTimelines ==
    {<<>>} \cup UNION { {<<f>> : f \in MCFrames(5)},
                        {<<f, g>> : f \in MCFrames(5), g \in MCFrames(6)},
                        {<<f, g, h>> : f \in MCFrames(5), g \in MCFrames(6), h \in MCFrames(7)} }

MCRequests ==
    {[kind |-> "timeline", first |-> 0, count |-> 0]} \cup
    [kind : {"result"}, first : 4..6, count : 0..3]
=============================================================================
