----------------------------- MODULE MCClockRef -----------------------------
(***************************************************************************)
(* Threads for ClockRef; they are interchangeable, but the run that checks *)
(* liveness makes no use of it.                                            *)
(***************************************************************************)
EXTENDS ClockRef

MCThread == {"t1", "t2"}
=============================================================================
