--------------------------- MODULE MCSrsFlvMuxer ---------------------------
(* Instances of SrsFlvMuxer for TLC.                                       *)
EXTENDS SrsFlvMuxer

CONSTANTS s1, s2, p1, p2

OneSet == {s1}
TwoSps == {s1, s2}
OnePps == {p1}
TwoPps == {p1, p2}
SamplesOf(v, a) == [t \in Track |-> IF t = "video" THEN v ELSE a]
TwoAndTwo == SamplesOf(2, 2)
TwoAndNone == SamplesOf(2, 0)
OneAndNone == SamplesOf(1, 0)
Clean == {}
Overlapped == {"failed", "disconnect"}
=============================================================================
