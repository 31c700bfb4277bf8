--------------------------- MODULE MCSoftEncoder ---------------------------
(* Constants of SoftEncoder.tla for TLC. *)
EXTENDS SoftEncoder

\* Wide, high, small and large pictures.
FourSizes == {[w |-> 4, h |-> 2], [w |-> 2, h |-> 4], [w |-> 2, h |-> 2], [w |-> 4, h |-> 4]}

HighOutput == [w |-> 2, h |-> 4]
=============================================================================
