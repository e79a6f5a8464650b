----------------------------- MODULE MCToolPins ------------------------------
(* Instances of ToolPins: one upstream with two tools, one with a single one. *)
EXTENDS ToolPins, TLC

CONSTANTS s1, s2, a, b, c

OneServer == (a :> s1) @@ (b :> s1)
TwoServers == (a :> s1) @@ (b :> s1) @@ (c :> s2)
=============================================================================
