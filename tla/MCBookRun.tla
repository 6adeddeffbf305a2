------------------------------ MODULE MCBookRun ------------------------------
(* Readings rounded up to the one frame, down, up from the half, and up.   *)
EXTENDS BookRun
MCDuration == {1, 5, 6, 7}
=============================================================================
