--------------------------------- MODULE RateLimits ---------------------------------
(*****************************************************************************)
(* The limiters of FixedWindows as the code keeps them: with a binary heap   *)
(* of the windows' ends, the earliest first, by which pruneExpired finds     *)
(* those that are over.  `expirations[s][i]` has its parent at i \div 2.     *)
(* The recursive operators keep this module out of the proofs.               *)
(*****************************************************************************)
EXTENDS FixedWindows, SequencesExt

VARIABLE expirations      \* of each scope: the heap of its windows' ends

limitsVars == <<windowsVars, expirations>>

LimitsInit == WindowsInit /\ expirations = [s \in Scopes |-> <<>>]

-----------------------------------------------------------------------------
(* The heap *)

RECURSIVE SiftUp(_, _, _)
SiftUp(heap, i, e) ==
    IF i = 1 \/ heap[i \div 2].resetsAt <= e.resetsAt THEN [heap EXCEPT ![i] = e]
    ELSE SiftUp([heap EXCEPT ![i] = heap[i \div 2]], i \div 2, e)

addExpiration(heap, e) == SiftUp(Append(heap, e), Len(heap) + 1, e)

RECURSIVE SiftDown(_, _, _)
SiftDown(heap, i, e) ==
    LET left == 2 * i
        child == IF left < Len(heap) /\ heap[left + 1].resetsAt < heap[left].resetsAt
                 THEN left + 1 ELSE left
    IN IF left > Len(heap) \/ heap[child].resetsAt >= e.resetsAt THEN [heap EXCEPT ![i] = e]
       ELSE SiftDown([heap EXCEPT ![i] = heap[child]], child, e)

removeNextExpiration(heap) ==
    IF Len(heap) = 1 THEN <<>> ELSE SiftDown(Front(heap), 1, Last(heap))

RECURSIVE pruneExpired(_, _)
pruneExpired(l, t) ==
    IF l.expirations = <<>> \/ Head(l.expirations).resetsAt > t THEN l
    ELSE LET expired == Head(l.expirations) IN
         pruneExpired([expirations |-> removeNextExpiration(l.expirations),
                       windows |-> [k \in {key \in DOMAIN l.windows :
                                              key = expired.key =>
                                                  l.windows[key].resetsAt # expired.resetsAt}
                                       |-> l.windows[k]]], t)

Limiter(s) == [windows |-> windows[s], expirations |-> expirations[s]]

\* A variant with a defect: a window outlives its end by a millisecond.
LeftTooLong(s) == pruneExpired(Limiter(s), now - 1)

\* What is left of a scope's windows and of its heap at this time.
LeftOf(s) == pruneExpired(Limiter(s), now)

-----------------------------------------------------------------------------
(* The route, with the heap *)

\* Where consumePrepared has begun a window, its end goes into the heap.
HeapAfter(s, u, live, heap) ==
    IF Allowed(u, live) /\ Key(s, u) \notin DOMAIN live[s]
    THEN addExpiration(heap, [key |-> Key(s, u), resetsAt |-> now + WindowLength])
    ELSE IF s \in Asked(u, live) THEN heap ELSE expirations[s]

HeapPing(p, u) ==
    LET live == [s \in Scopes |-> LeftOf(s).windows] IN
    /\ AskLimiter(p, u, live)
    /\ expirations' = [s \in Scopes |-> HeapAfter(s, u, live, LeftOf(s).expirations)]

LimitsNext ==
    \/ Tick /\ UNCHANGED expirations
    \/ \E p \in PingIds : PingSteps(p) /\ UNCHANGED expirations
    \/ \E p \in PingIds, u \in Users : HeapPing(p, u)

-----------------------------------------------------------------------------
(* What the heap promises *)

LimitsTypeOK ==
    /\ WindowsTypeOK
    /\ \A s \in Scopes : expirations[s] \in Seq([key : Keys(s), resetsAt : 0..MaxTime])

\* The heap knows the end of every window, once, and the earliest first.
HeapsAgree ==
    \A s \in Scopes :
        LET heap == expirations[s] IN
        /\ {<<heap[i].key, heap[i].resetsAt>> : i \in DOMAIN heap}
               = {<<k, windows[s][k].resetsAt>> : k \in DOMAIN windows[s]}
        /\ Len(heap) = Cardinality(DOMAIN windows[s])
        /\ \A i \in 2..Len(heap) : heap[i \div 2].resetsAt <= heap[i].resetsAt

\* By it the limiters drop exactly the windows that have ended: to their
\* callers they are those of FixedWindows.
ImplementsWindows == []HeapsAgree /\ WindowsSpec
=============================================================================
