------------------------------- MODULE MCClient -------------------------------
(* Small instances of Client for TLC. *)
EXTENDS Client, TLC

CONSTANTS s1, s2, c1, c2

OneCommand == c1 :> s1
TwoCommands == (c1 :> s1) @@ (c2 :> s1)
TwoSessions == (c1 :> s1) @@ (c2 :> s2)
=============================================================================
