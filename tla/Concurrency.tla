-------------------------------- MODULE Concurrency --------------------------------
(* ScopedConcurrencyLimiter: slots of an Organization and of each user.  A    *)
(* user is one of one Organization, as the limiter's keys are.                *)
EXTENDS Naturals

CONSTANTS
    Users, Organizations,
    OrganizationOf,               \* the Organization of each user
    OrganizationSlots, UserSlots  \* the limits of each

NoSlots == [organization |-> [o \in Organizations |-> 0], user |-> [u \in Users |-> 0]]

MayAcquire(taken, u) ==
    /\ taken.organization[OrganizationOf[u]] < OrganizationSlots
    /\ taken.user[u] < UserSlots
Acquired(taken, u) ==
    [taken EXCEPT !.organization[OrganizationOf[u]] = @ + 1, !.user[u] = @ + 1]

\* release: without a slot of the user's there is none to give back.
Released(taken, u) ==
    IF taken.user[u] = 0 THEN taken
    ELSE [taken EXCEPT !.organization[OrganizationOf[u]] = IF @ = 0 THEN 0 ELSE @ - 1,
                       !.user[u] = @ - 1]
=============================================================================
