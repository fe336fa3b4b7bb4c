---------------------------- MODULE MCSessionStore ----------------------------
(* Small instances of SessionStore for TLC. *)
EXTENDS SessionStore, TLC

CONSTANTS s1, s2, s3, c1, c2, c3, a1, a2, m1, m2, k1, k2, d1, d2

OnePolicy == {[maxDuration |-> 1, maxSessions |-> 2, maxCommands |-> 1,
               maxTimeout |-> 1, allowRemoteApproval |-> TRUE]}

\* A machine owner who edits the profile between two connections.
TwoPolicies == OnePolicy \cup
    {[maxDuration |-> 2, maxSessions |-> 1, maxCommands |-> 2,
      maxTimeout |-> 2, allowRemoteApproval |-> FALSE]}

Ask(a, m, k, d) == [agent |-> a, machine |-> m, key |-> k, duration |-> d]
Run(s, k, d) == [session |-> s, key |-> k, timeout |-> d]

\* Three calls with one key: a retry, and a different request under that key.
SameKeyRequest == (s1 :> Ask(a1, m1, k1, 1)) @@ (s2 :> Ask(a1, m1, k1, 1))
                  @@ (s3 :> Ask(a1, m1, k1, 2))
\* One Session, for the runs about Commands.
OneRequest == (s1 :> Ask(a1, m1, k1, 2))
OneShortRequest == s1 :> Ask(a1, m1, k1, 1)
\* Two Agents on one Machine.
TwoAgentsRequest == (s1 :> Ask(a1, m1, k1, 1)) @@ (s2 :> Ask(a2, m1, k1, 1))

NoOrder == [c \in {} |-> c]
\* A Command, its retry, and another one.
RetriedOrder == (c1 :> Run(s1, k1, 1)) @@ (c2 :> Run(s1, k1, 1)) @@ (c3 :> Run(s1, k2, 2))
OneOrder == (c1 :> Run(s1, k1, 1))
=============================================================================
