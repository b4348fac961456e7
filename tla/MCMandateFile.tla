--------------------------- MODULE MCMandateFile ---------------------------
(* Model values for the run of MandateFile.                                *)
EXTENDS MandateFile

CONSTANTS m1, c1, c2, c3

OneMandate == {m1}
ThreeCalls == {c1, c2, c3}
=============================================================================
