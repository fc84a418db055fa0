----------------------------- MODULE MCAdapter -----------------------------
(***************************************************************************)
(* One aggregator and a chain of a few slots.  At each slot all accounts   *)
(* are there, or one is missing, or one is too short.                      *)
(***************************************************************************)
EXTENDS Adapter

MCFaults ==
  {[missing |-> {}, short |-> {}]}
    \cup {[missing |-> {acc}, short |-> {}] : acc \in Account}
    \cup {[missing |-> {}, short |-> {acc}] : acc \in Account}
=============================================================================
