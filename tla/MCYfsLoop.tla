---------------------------- MODULE MCYfsLoop ----------------------------
(***************************************************************************)
(* A small instance of YfsLoop for TLC: one call of every way to end and   *)
(* to test the answer.                                                     *)
(***************************************************************************)
EXTENDS YfsLoop, TLC

MCCalls == {"CREATE", "WRITE", "RMDIR", "STAT", "UNLINK", "DUMMY", "DUMMY2", "SHUTDOWN"}
=============================================================================
