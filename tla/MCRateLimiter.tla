--------------------------- MODULE MCRateLimiter ---------------------------
(* Instances of RateLimiter: the limits of two policies, one or two maps. *)
EXTENDS RateLimiter, TLC

CONSTANTS strict, loose

Lim(m, t) == [perMinute |-> m, total |-> t]
Before == (strict :> Lim(1, 2)) @@ (loose :> Lim(2, 3))
Later == (strict :> Lim(1, 1)) @@ (loose :> Lim(2, 3))
OneReload == {Before, Later}
TotalOne == {(strict :> Lim(0, 1))}
LoopsOnly == {(strict :> Lim(0, 0))}
Unlimited == {(loose :> NoLimit)}
Symmetric == Permutations(Thread) \cup Permutations(Agent)
=============================================================================
