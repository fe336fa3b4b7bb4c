-------------------------------- MODULE FixedWindows --------------------------------
(*****************************************************************************)
(* What ScopedRateLimiter promises, as the ping route uses it, and the slots *)
(* that route takes for the pings that wait for an answer.                   *)
(*                                                                           *)
(* A scope's FixedWindowRateLimiter counts calls in a window per tracked     *)
(* key.  Here windows that have ended are dropped at once when the limiter   *)
(* is asked; RateLimits has the heap by which the code finds them.           *)
(*****************************************************************************)
EXTENDS Integers, FiniteSets, Concurrency

CONSTANTS
    OrganizationLimit, UserLimit,            \* calls in one window
    WindowLength, MaxTrackedKeys,
    MaxTime,        \* Number.MAX_SAFE_INTEGER, of the monotonic clock
    MaxPings        \* bound on the pings under way

\* The constructor refuses limits and lengths that are no positive integers.
ASSUME LimitsArePositive ==
    {OrganizationLimit, UserLimit, WindowLength, MaxTrackedKeys} \subseteq Nat \ {0}
ASSUME WindowsBounds ==
    /\ {MaxTime, MaxPings} \subseteq Nat
    /\ OrganizationOf \in [Users -> Organizations]

VARIABLES
    now,          \* monotonicMilliseconds()
    windows,      \* of each scope: the window of every tracked key
    calls,        \* history: the calls let in, those of the last window's length
    ping,         \* the pings under way
    pingSlots     \* pingConcurrency

windowsVars == <<now, windows, calls, ping, pingSlots>>

Scopes == {"users", "organizations"}
Limit(s) == IF s = "users" THEN UserLimit ELSE OrganizationLimit
Keys(s) == IF s = "users" THEN Users ELSE Organizations
Key(s, u) == IF s = "users" THEN u ELSE OrganizationOf[u]

PingIds == 1..MaxPings
NoPing == [user |-> "none", stage |-> "free"]

WindowsInit ==
    /\ now = 0
    /\ windows = [s \in Scopes |-> [k \in {} |-> 0]]
    /\ calls = {}
    /\ ping = [p \in PingIds |-> NoPing]
    /\ pingSlots = NoSlots

-----------------------------------------------------------------------------
(* The limiters *)

\* prepare refuses a clock whose windows would end beyond the safe integers.
Prepared(t) == t \in 0..(MaxTime - WindowLength)

Pruned(w, t) == [k \in {key \in DOMAIN w : w[key].resetsAt > t} |-> w[k]]

canAllowPrepared(s, w, k) ==
    IF k \in DOMAIN w THEN w[k].count < Limit(s)
    ELSE Cardinality(DOMAIN w) < MaxTrackedKeys

consumePrepared(w, k, t) ==
    IF k \in DOMAIN w THEN [w EXCEPT ![k].count = @ + 1]
    ELSE [key \in DOMAIN w \cup {k} |->
             IF key = k THEN [count |-> 1, resetsAt |-> t + WindowLength] ELSE w[key]]

\* ScopedRateLimiter.allow, `live` being what is left of the windows of each
\* scope when it is pruned: the Organization is asked, and its limiter pruned,
\* only for a user who is within the user's limit.
ByUser(u, live) == Prepared(now) /\ canAllowPrepared("users", live["users"], u)
Allowed(u, live) ==
    /\ ByUser(u, live)
    /\ canAllowPrepared("organizations", live["organizations"], OrganizationOf[u])
Asked(u, live) ==
    {s \in Scopes : Prepared(now) /\ (s = "organizations" => ByUser(u, live))}

\* A variant with a defect: the user's call is counted before the Organization
\* is asked.
consumeUserFirst(u, live) ==
    [s \in Scopes |-> IF Allowed(u, live) \/ (s = "users" /\ ByUser(u, live))
                      THEN consumePrepared(live[s], Key(s, u), now)
                      ELSE IF s \in Asked(u, live) THEN live[s] ELSE windows[s]]

\* Only a call that both scopes let in is counted, in both.
consume(u, live) ==
    [s \in Scopes |-> IF Allowed(u, live) THEN consumePrepared(live[s], Key(s, u), now)
                      ELSE IF s \in Asked(u, live) THEN live[s] ELSE windows[s]]

Tick ==
    /\ now < MaxTime
    /\ now' = now + 1
    /\ UNCHANGED <<windows, calls, ping, pingSlots>>

-----------------------------------------------------------------------------
(* The ping route *)

NextFree(p) == ping[p] = NoPing /\ \A q \in 1..(p - 1) : ping[q] # NoPing

\* One more call of the user's at this time, and the calls that still matter.
Recorded(u) ==
    {c \in calls : c.at + WindowLength > now} \cup
    {[user |-> u, at |-> now,
      number |-> Cardinality({c \in calls : c.user = u /\ c.at = now}) + 1]}

\* The route asks the limiter, and then reads the Machine's row.
AskLimiter(p, u, live) ==
    /\ NextFree(p)
    /\ windows' = consume(u, live)
    /\ IF Allowed(u, live)
       THEN /\ ping' = [ping EXCEPT ![p] = [user |-> u, stage |-> "reading"]]
            /\ calls' = Recorded(u)
       ELSE UNCHANGED <<ping, calls>>
    /\ UNCHANGED <<now, pingSlots>>

BeginPing(p, u) == AskLimiter(p, u, [s \in Scopes |-> Pruned(windows[s], now)])

\* No such Machine, it is offline, its user has no slot left, or the connection
\* breaks as the ping is sent; otherwise the ping waits.
SendPing(p) ==
    /\ ping[p].stage = "reading"
    /\ \/ ping' = [ping EXCEPT ![p] = NoPing] /\ UNCHANGED pingSlots
       \/ /\ MayAcquire(pingSlots, ping[p].user)
          /\ pingSlots' = Acquired(pingSlots, ping[p].user)
          /\ ping' = [ping EXCEPT ![p].stage = "waiting"]
    /\ UNCHANGED <<now, windows, calls>>

\* The command line's route asks no limiter and takes no slot.
CliPing(p, u) ==
    /\ NextFree(p)
    /\ ping' = [ping EXCEPT ![p] = [user |-> u, stage |-> "unlimited"]]
    /\ UNCHANGED <<now, windows, calls, pingSlots>>

\* The answer or the timeout, whichever is first, takes the other's handler
\* away; a slot is given back.
PingSettles(p) ==
    /\ ping[p].stage \in {"waiting", "unlimited"}
    /\ pingSlots' = IF ping[p].stage = "waiting" THEN Released(pingSlots, ping[p].user)
                    ELSE pingSlots
    /\ ping' = [ping EXCEPT ![p] = NoPing]
    /\ UNCHANGED <<now, windows, calls>>

PingSteps(p) == SendPing(p) \/ PingSettles(p) \/ \E u \in Users : CliPing(p, u)

WindowsNext ==
    \/ Tick
    \/ \E p \in PingIds : PingSteps(p) \/ \E u \in Users : BeginPing(p, u)

\* The limiters keep count as if windows disappeared at their end, and the
\* route takes and gives back slots.
WindowsSpec == WindowsInit /\ [][WindowsNext]_windowsVars

-----------------------------------------------------------------------------
(* What the limits promise *)

PingRows == {NoPing} \cup [user : Users, stage : {"reading", "waiting", "unlimited"}]

WindowsTypeOK ==
    /\ now \in 0..MaxTime
    /\ \A s \in Scopes :
          /\ DOMAIN windows[s] \subseteq Keys(s)
          /\ windows[s] \in [DOMAIN windows[s] -> [count : 1..Limit(s), resetsAt : 0..MaxTime]]
          /\ IsFiniteSet(DOMAIN windows[s])
          /\ Cardinality(DOMAIN windows[s]) <= MaxTrackedKeys
    /\ calls \subseteq [user : Users, at : 0..MaxTime, number : Nat]
    /\ IsFiniteSet(calls)
    /\ ping \in [PingIds -> PingRows]
    /\ pingSlots \in [organization : [Organizations -> Nat], user : [Users -> Nat]]

Calls(s, k, from) == {c \in calls : Key(s, c.user) = k /\ c.at >= from}

\* A window that is open has counted exactly the calls that were let in since
\* it began: one the other scope's limiter refused is in none.
WindowsCount ==
    \A s \in Scopes : \A k \in DOMAIN windows[s] :
        LET window == windows[s][k] IN
        window.resetsAt > now =>
            window.count = Cardinality(Calls(s, k, window.resetsAt - WindowLength))

\* However the calls fall around the ends of windows, no stretch of a window's
\* length lets in two full windows of them.
BurstsAreBounded ==
    \A s \in Scopes : \A k \in {Key(s, c.user) : c \in calls} :
        Cardinality(Calls(s, k, now - WindowLength + 1)) <= 2 * Limit(s) - 1

\* Every slot that is taken is a ping that waits, of the user and of the
\* Organization it is counted for.
PingsHoldSlots ==
    /\ \A u \in Users :
          pingSlots.user[u] = Cardinality({p \in PingIds : ping[p].stage = "waiting"
                                                           /\ ping[p].user = u})
    /\ \A o \in Organizations :
          pingSlots.organization[o] = Cardinality({p \in PingIds :
              ping[p].stage = "waiting" /\ OrganizationOf[ping[p].user] = o})

\* The two limiters of a scope agree with the calls they have let in and with
\* the bound they exist for, and the slots with the pings.
LimitsHold == WindowsCount /\ BurstsAreBounded /\ PingsHoldSlots
=============================================================================
