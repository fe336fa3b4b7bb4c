---------------------------- MODULE MCSessionControl ----------------------------
(* Small instances of SessionControl for TLC. *)
EXTENDS SessionControl, TLC

CONSTANTS s1, c1, a1, m1, k1

OnePolicy == {[maxDuration |-> 1, maxSessions |-> 1, maxCommands |-> 1,
               maxTimeout |-> 1, allowRemoteApproval |-> TRUE]}
OneRequest == s1 :> [agent |-> a1, machine |-> m1, key |-> k1, duration |-> 1]
OneOrder == c1 :> [session |-> s1, key |-> k1, timeout |-> 1]
=============================================================================
