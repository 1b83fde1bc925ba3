--------------------------- MODULE MCQueueSystem ---------------------------
(***************************************************************************)
(* QueueSystem for TLC.  Calls are interchangeable, and so are agents: no  *)
(* action names one of them, and every choice among them is left open.     *)
(***************************************************************************)
EXTENDS QueueSystem, TLC

Symmetry == Permutations(Calls) \union Permutations(Agents)
=============================================================================
