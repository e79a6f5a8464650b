----------------------------- MODULE MCSessions ------------------------------
(* Model values for the runs of Sessions: a shuttle that declares itself    *)
(* agent "a", and two clients with a token for "a" acting for a user.       *)
EXTENDS Sessions

CONSTANTS sh, h1, h2, k1

Credential(kind, agent, user, key) ==
  [kind |-> kind, agent |-> agent, user |-> user, key |-> key]

MCCred ==
  [c \in {sh, h1, h2} |->
     IF c = sh THEN Credential("agent", "a", NoUser, NoKey)
     ELSE Credential("jwt", "a", "u", k1)]

\* No validator; one that is the only source; one with allow_legacy on top.
MCPostures ==
  {p \in [validator : BOOLEAN, legacy : BOOLEAN, require : BOOLEAN] :
     p.legacy => p.validator /\ ~p.require}
==============================================================================
