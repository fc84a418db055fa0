------------------------------ MODULE LineWalk ------------------------------
(***************************************************************************)
(* What a taker's loop expects of a walk over one side of the order book:  *)
(* the lines of the side, each once, best first, and then the end.         *)
(***************************************************************************)
EXTENDS Sequences

CONSTANT Line

VARIABLES
  given,   \* the lines handed out so far
  left     \* the lines still to come

Init == given = <<>> /\ left \in Seq(Line)

Give ==
  /\ left # <<>>
  /\ given' = Append(given, Head(left))
  /\ left'  = Tail(left)

Safety == Init /\ [][Give]_<<given, left>>

\* The walk goes on until every line was handed out.
Spec == Safety /\ WF_<<given, left>>(Give)
=============================================================================
