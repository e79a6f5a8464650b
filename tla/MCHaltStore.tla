----------------------------- MODULE MCHaltStore -----------------------------
(* Instances of HaltStore: a stop of everything, a stop of one agent. *)
EXTENDS HaltStore, TLC

CONSTANTS all, agent, g1, g2

NoneCovered == (all :> {})
OneCovered == (all :> {g1})
TwoCovered == (all :> {g1, g2}) @@ (agent :> {g1})
Symmetric == Permutations(Proc) \cup Permutations(Thread) \cup Permutations(Stop)
=============================================================================
