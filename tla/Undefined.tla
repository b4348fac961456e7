------------------------------- MODULE Undefined -------------------------------
(* undefined and null, of the modules one run checks together.             *)
CONSTANT None
=============================================================================
