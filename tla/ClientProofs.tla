----------------------------- MODULE ClientProofs -----------------------------
(*****************************************************************************)
(* What the Client keeps to, for any number of Sessions and Commands and any *)
(* capacities: a Command runs once, its result is final and true, a closed   *)
(* Session is a finished one, a halted Client has nothing running, and a     *)
(* quarantined one never holds authority again.                              *)
(*                                                                           *)
(* The inductive invariant ties four things the code keeps apart: the        *)
(* journal and the live Commands, the live Commands and their processes, a   *)
(* closure and the Session it ends, the quarantine and the Client's life.    *)
(*****************************************************************************)
EXTENDS Client, FiniteSetTheorems, SequenceTheorems, TLAPS

Journaled == {c \in Commands : journal[c] # "none"}

\* The journal has finitely many entries, so that its results can be listed,
\* and a closure under way has a reason.
TypeInv ==
    /\ TypeOK
    /\ IsFiniteSet(Journaled)
    /\ \A s \in Sessions : closing[s].reason = "none" => closing[s] = NotClosing

\* A live Command is journaled as running, one that was spawned is not about to
\* be spawned again, and a shell that runs is waited for, or given up for good.
CommandInv(c) ==
    /\ control[c].step # "none" => journal[c] = "running"
    /\ c \in spawned => journal[c] # "none" /\ control[c].step # "preparing"
    /\ leader[c] = "running" =>
          \/ control[c].step = "running"
          \/ mode # "running" /\ journal[c] = "execution_unknown" /\ quarantined

\* A Session that is being closed stays closed until its closure ends, the
\* closure waits for every live Command of the Session, and a Session the
\* Client remembers closing is not open.
SessionInv(s) ==
    /\ mode = "running" /\ s \in armed => session[s] # "none"
    /\ mode = "running" /\ closing[s] # NotClosing =>
          session[s] = "closing" \/ (session[s] = "none" /\ handler = <<"close", s>>)
    /\ closing[s] # NotClosing => LiveCommandsOf(s) \subseteq closing[s].waits
    /\ WasClosed(s) => session[s] # "open"

\* A Client that has halted finished its Commands first, and one that runs is
\* not under quarantine.
ModeInv ==
    /\ mode = "halted" => \A c \in Commands : control[c].step = "none"
    /\ quarantined => mode # "running"

ClientInv ==
    /\ TypeInv
    /\ ModeInv
    /\ \A c \in Commands : CommandInv(c)
    /\ \A s \in Sessions : SessionInv(s)

-----------------------------------------------------------------------------
(* Messages *)

\* What the Client sends is a message.
LEMMA MessagesSent ==
    /\ \A s \in Sessions : Opened(s) \in Messages /\ OpenFailed(s) \in Messages
    /\ \A s \in Sessions, r \in CloseReasons \cup {"already_closed"} : Closed(s, r) \in Messages
    /\ \A c \in Commands : Started(c) \in Messages
    /\ \A c \in Commands, r \in Results : Completed(c, r) \in Messages
BY DEF Messages

\* A report of a closure differs from every other message, and from the report
\* of another closure.
LEMMA ClosedIsApart ==
    ASSUME NEW s, NEW r
    PROVE  /\ \A u : Closed(s, r) # Opened(u) /\ Closed(s, r) # OpenFailed(u)
           /\ \A c : Closed(s, r) # Started(c)
           /\ \A c, v : Closed(s, r) # Completed(c, v)
           /\ \A u, v : Closed(s, r) = Closed(u, v) => s = u /\ r = v
<1>1. /\ \A u, v : Closed(u, v).type = "session.closed"
      /\ \A u, v : Closed(u, v).id = u /\ Closed(u, v).value = v
      /\ \A u : Opened(u).type = "session.opened"
      /\ \A u : OpenFailed(u).type = "session.open_failed"
      /\ \A c : Started(c).type = "command.started"
      /\ \A c, v : Completed(c, v).type = "command.completed"
  BY DEF Closed, Opened, OpenFailed, Started, Completed
<1> QED BY <1>1

\* The elements of a queue.
LEMMA Elements ==
    ASSUME NEW q \in Seq(Messages), NEW r \in Seq(Messages), NEW message
    PROVE  /\ q \o r \in Seq(Messages)
           /\ (\E i \in DOMAIN (q \o r) : (q \o r)[i] = message) =>
                 \/ \E i \in DOMAIN q : q[i] = message
                 \/ \E i \in DOMAIN r : r[i] = message
<1>1. /\ q \o r \in Seq(Messages)
      /\ Len(q \o r) = Len(q) + Len(r)
      /\ \A i \in 1..Len(q) + Len(r) :
            (q \o r)[i] = IF i <= Len(q) THEN q[i] ELSE r[i - Len(q)]
  BY ConcatProperties
<1>2. /\ Len(q) \in Nat /\ DOMAIN q = 1..Len(q)
      /\ Len(r) \in Nat /\ DOMAIN r = 1..Len(r)
      /\ DOMAIN (q \o r) = 1..Len(q \o r)
  BY <1>1, LenProperties
<1>3. ASSUME NEW i \in DOMAIN (q \o r), (q \o r)[i] = message
      PROVE  \/ \E j \in DOMAIN q : q[j] = message
             \/ \E j \in DOMAIN r : r[j] = message
  <2>1. CASE i <= Len(q)
    <3>1. i \in DOMAIN q BY <1>1, <1>2, <2>1
    <3>2. q[i] = message BY <1>1, <1>2, <1>3, <2>1
    <3> QED BY <3>1, <3>2
  <2>2. CASE ~(i <= Len(q))
    <3>1. i - Len(q) \in DOMAIN r BY <1>1, <1>2, <2>2
    <3>2. r[i - Len(q)] = message BY <1>1, <1>2, <1>3, <2>2
    <3> QED BY <3>1, <3>2
  <2> QED BY <2>1, <2>2
<1> QED BY <1>1, <1>3

\* ClientMessageBuffer keeps its limit and makes nothing up.
LEMMA NewestIsBounded ==
    ASSUME NEW q \in Seq(Messages)
    PROVE  /\ Newest(q) \in Seq(Messages)
           /\ Len(Newest(q)) <= BufferLimit
           /\ \A message : (\E i \in DOMAIN Newest(q) : Newest(q)[i] = message) =>
                 \E i \in DOMAIN q : q[i] = message
<1> DEFINE m == 1 + (IF Len(q) > BufferLimit THEN Len(q) - BufferLimit ELSE 0)
<1>1. BufferLimit \in Nat \ {0} BY LimitsType
<1>2. /\ Len(q) \in Nat /\ DOMAIN q = 1..Len(q)
      /\ \A i \in 1..Len(q) : q[i] \in Messages
  BY LenProperties, ElementOfSeq
<1>3. m \in Int /\ m >= 1 /\ Len(q) - m + 1 <= BufferLimit
  BY <1>1, <1>2
<1>4. Newest(q) = SubSeq(q, m, Len(q)) BY DEF Newest
<1> HIDE DEF m
<1>5. \A i \in m..Len(q) : q[i] \in Messages BY <1>2, <1>3
<1>6. /\ Newest(q) \in Seq(Messages)
      /\ Len(Newest(q)) = IF m <= Len(q) THEN Len(q) - m + 1 ELSE 0
      /\ \A i \in 1..Len(q) - m + 1 : Newest(q)[i] = q[m + i - 1]
  <2>1. Len(q) \in Int BY <1>2
  <2> QED BY <1>3, <1>4, <1>5, <2>1, SubSeqProperties
<1>7. DOMAIN Newest(q) = 1..Len(Newest(q)) BY <1>6, LenProperties
<1>8. ASSUME NEW i \in DOMAIN Newest(q) PROVE \E j \in DOMAIN q : q[j] = Newest(q)[i]
  <2>1. i \in 1..Len(q) - m + 1 BY <1>2, <1>3, <1>6, <1>7
  <2>2. m + i - 1 \in DOMAIN q BY <1>2, <1>3, <2>1
  <2> QED BY <1>6, <2>1, <2>2
<1> QED BY <1>1, <1>2, <1>3, <1>6, <1>8

WireType ==
    /\ buffer \in Seq(Messages) /\ Len(buffer) <= BufferLimit
    /\ out \in Seq(Messages)
    /\ answered \subseteq Commands

\* Delivering a message keeps the queues in shape and reports nothing else.
LEMMA Delivered ==
    ASSUME TypeOK, NEW message \in Messages, Deliver(<<message>>)
    PROVE  /\ WireType'
           /\ \A other : Reported(other)' => Reported(other) \/ other = message
<1>1. <<message>> \in Seq(Messages) /\ \A i \in DOMAIN <<message>> : <<message>>[i] = message
  OBVIOUS
<1>2. /\ buffer \in Seq(Messages) /\ Len(buffer) <= BufferLimit /\ out \in Seq(Messages)
      /\ answered \subseteq Commands
  BY DEF TypeOK
<1>3. answered' = answered BY DEF Deliver
<1> DEFINE one == <<message>>
<1> HIDE DEF one
<1>4. one \in Seq(Messages) /\ \A i \in DOMAIN one : one[i] = message BY <1>1 DEF one
<1>5. CASE conn = "authenticated"
  <2>1. out' = out \o one /\ buffer' = buffer BY <1>5 DEF Deliver, one
  <2>2. out' \in Seq(Messages) BY <1>2, <1>4, <2>1, Elements
  <2>3. ASSUME NEW other, \E i \in DOMAIN out' : out'[i] = other
        PROVE  (\E i \in DOMAIN out : out[i] = other) \/ other = message
    BY <1>2, <1>4, <2>1, <2>3, Elements
  <2> QED BY <1>2, <1>3, <2>1, <2>2, <2>3 DEF WireType, Reported
<1>6. CASE conn # "authenticated"
  <2>1. buffer' = Newest(buffer \o one) /\ out' = out BY <1>6 DEF Deliver, one
  <2>2. buffer \o one \in Seq(Messages) BY <1>2, <1>4, Elements
  <2>3. buffer' \in Seq(Messages) /\ Len(buffer') <= BufferLimit
    BY <2>1, <2>2, NewestIsBounded
  <2>4. ASSUME NEW other, \E i \in DOMAIN buffer' : buffer'[i] = other
        PROVE  (\E i \in DOMAIN buffer : buffer[i] = other) \/ other = message
    <3>1. \E i \in DOMAIN (buffer \o one) : (buffer \o one)[i] = other
      BY <2>1, <2>2, <2>4, NewestIsBounded
    <3> QED BY <1>2, <1>4, <3>1, Elements
  <2> QED BY <1>2, <1>3, <2>1, <2>3, <2>4 DEF WireType, Reported
<1> QED BY <1>5, <1>6

\* A step that delivers nothing keeps the queues.
LEMMA NothingDelivered ==
    ASSUME TypeOK, UNCHANGED <<buffer, out, answered>>
    PROVE  WireType' /\ \A other : Reported(other)' => Reported(other)
BY DEF TypeOK, WireType, Reported

\* So does a step that loses what is on the wire.
LEMMA WireLost ==
    ASSUME TypeOK, buffer' = buffer \/ buffer' = <<>>, out' = <<>>, answered' = answered
    PROVE  WireType' /\ \A other : Reported(other)' => Reported(other)
<1>1. <<>> \in Seq(Messages) /\ Len(<<>>) = 0 /\ DOMAIN <<>> = {} BY EmptySeq
<1>2. 0 <= BufferLimit BY LimitsType
<1> QED BY <1>1, <1>2 DEF TypeOK, WireType, Reported

\* A finite set can be listed.
LEMMA ListingLists ==
    ASSUME NEW S, IsFiniteSet(S)
    PROVE  Cardinality(S) \in Nat /\ Listing(S) \in [1..Cardinality(S) -> S]
<1>1. Cardinality(S) \in Nat /\ ExistsBijection(1..Cardinality(S), S)
  BY FS_CardinalityType
<1>2. PICK g \in Bijection(1..Cardinality(S), S) : TRUE
  BY <1>1 DEF ExistsBijection
<1>3. /\ g \in [1..Cardinality(S) -> S]
      /\ \A x \in S : \E i \in 1..Cardinality(S) : g[i] = x
  BY <1>2 DEF Bijection, Injection, Surjection
<1>4. DOMAIN g = 1..Cardinality(S) BY <1>3
<1>5. \E f \in [1..Cardinality(S) -> S] : \A x \in S : \E i \in DOMAIN f : f[i] = x
  BY <1>3, <1>4
<1> QED BY <1>1, <1>5 DEF Listing

\* What is reported on a new connection are results.
LEMMA ReconciliationReports ==
    ASSUME TypeInv
    PROVE  /\ Reconciliation \in Seq(Messages)
           /\ \A i \in DOMAIN Reconciliation :
                 \E c \in Commands, r \in Results : Reconciliation[i] = Completed(c, r)
<1> DEFINE S == {c \in Commands : journal[c] \in Results}
           order == Listing(S)
           n == Cardinality(S)
<1>1. IsFiniteSet(S)
  <2>1. S \in SUBSET Journaled BY DEF Journaled, Results
  <2> QED BY <2>1, FS_Subset DEF TypeInv
<1>2. n \in Nat /\ order \in [1..n -> S] BY <1>1, ListingLists
<1>3. Reconciliation = [i \in 1..n |-> Completed(order[i], journal[order[i]])]
  BY <1>2 DEF Reconciliation
<1> DEFINE message == [i \in 1..n |-> Completed(order[i], journal[order[i]])]
<1> HIDE DEF order, n
<1>4. ASSUME NEW i \in 1..n
      PROVE  \E c \in Commands, r \in Results :
                Reconciliation[i] = Completed(c, r) /\ Completed(c, r) \in Messages
  <2>1. order[i] \in Commands /\ journal[order[i]] \in Results BY <1>2
  <2> QED BY <1>3, <2>1, MessagesSent
<1>5. Reconciliation \in [1..n -> Messages] BY <1>3, <1>4
<1>6. Reconciliation \in Seq(Messages) BY <1>2, <1>5, SeqDef
<1>7. DOMAIN Reconciliation = 1..n BY <1>3
<1> QED BY <1>4, <1>6, <1>7

-----------------------------------------------------------------------------
(* What the shared parts of the handlers do *)

Controls == [step : {"none", "preparing", "running"}, cancelled : BOOLEAN, timedOut : BOOLEAN]
Closures == [waits : SUBSET Commands, reason : CloseReasons \cup {"none"}, timer : BOOLEAN]
KillStates == {"no", "killing", "proved", "failed"}

\* A cancellation ends no Command and starts none.
LEMMA CancelKeepsSteps ==
    ASSUME TypeOK, NEW C, Cancel(C)
    PROVE  /\ control' \in [Commands -> Controls]
           /\ kill' \in [Commands -> KillStates]
           /\ \A c \in Commands : control'[c].step = control[c].step
           /\ \A s \in Sessions : LiveCommandsOf(s)' = LiveCommandsOf(s)
<1>1. control \in [Commands -> Controls] /\ kill \in [Commands -> KillStates]
  BY DEF TypeOK, Controls, KillStates
<1>2. ASSUME NEW c \in Commands
      PROVE  /\ [control[c] EXCEPT !.cancelled = TRUE] \in Controls
             /\ [control[c] EXCEPT !.cancelled = TRUE].step = control[c].step
  BY <1>1 DEF Controls
<1>3. \A c \in Commands : control'[c].step = control[c].step BY <1>1, <1>2 DEF Cancel
<1>4. control' \in [Commands -> Controls] BY <1>1, <1>2 DEF Cancel
<1>5. kill' \in [Commands -> KillStates] BY <1>1 DEF Cancel, KillStates
<1>6. \A s \in Sessions : LiveCommandsOf(s)' = LiveCommandsOf(s) BY <1>3 DEF LiveCommandsOf
<1> QED BY <1>3, <1>4, <1>5, <1>6

\* closedSessions takes a Session in and makes none up.
LEMMA Remembered ==
    ASSUME TypeOK, NEW s \in Sessions, closedSessions' = Remember(s)
    PROVE  /\ closedSessions' \in Seq(Sessions)
           /\ \A t \in Sessions : WasClosed(t)' => WasClosed(t) \/ t = s
<1>1. closedSessions \in Seq(Sessions) BY DEF TypeOK
<1>2. CASE WasClosed(s) BY <1>1, <1>2 DEF Remember, WasClosed
<1>3. ASSUME NEW q \in Seq(Sessions), closedSessions' = Append(q, s),
             \A i \in DOMAIN q : \E j \in DOMAIN closedSessions : closedSessions[j] = q[i]
      PROVE  /\ closedSessions' \in Seq(Sessions)
             /\ \A t \in Sessions : WasClosed(t)' => WasClosed(t) \/ t = s
  <2>1. /\ closedSessions' \in Seq(Sessions) /\ Len(closedSessions') = Len(q) + 1
        /\ \A i \in 1..Len(q) : closedSessions'[i] = q[i]
        /\ closedSessions'[Len(q) + 1] = s
    BY <1>3, AppendProperties
  <2>2. /\ DOMAIN closedSessions' = 1..Len(closedSessions') /\ DOMAIN q = 1..Len(q)
        /\ Len(q) \in Nat
    BY <2>1, LenProperties
  <2>3. ASSUME NEW i \in DOMAIN closedSessions'
        PROVE  closedSessions'[i] = s \/ \E j \in DOMAIN closedSessions : closedSessions[j] = closedSessions'[i]
    <3>1. CASE i = Len(q) + 1 BY <2>1, <3>1
    <3>2. CASE i # Len(q) + 1
      <4>1. i \in 1..Len(q) BY <2>1, <2>2, <3>2
      <4> QED BY <1>3, <2>1, <2>2, <4>1
    <3> QED BY <3>1, <3>2
  <2> QED BY <2>1, <2>3 DEF WasClosed
<1>4. CASE ~WasClosed(s) /\ Len(closedSessions) < ClosedLimit
  BY <1>1, <1>3, <1>4 DEF Remember
<1>5. CASE ~WasClosed(s) /\ ~(Len(closedSessions) < ClosedLimit)
  <2>1. closedSessions # <<>>
    <3>1. Len(<<>>) = 0 /\ 0 < ClosedLimit BY EmptySeq, LimitsType
    <3> QED BY <1>5, <3>1
  <2>2. /\ Tail(closedSessions) \in Seq(Sessions)
        /\ Len(Tail(closedSessions)) = Len(closedSessions) - 1
        /\ \A i \in 1..Len(Tail(closedSessions)) : Tail(closedSessions)[i] = closedSessions[i + 1]
    BY <1>1, <2>1, HeadTailProperties
  <2>3. /\ DOMAIN Tail(closedSessions) = 1..Len(Tail(closedSessions))
        /\ DOMAIN closedSessions = 1..Len(closedSessions) /\ Len(closedSessions) \in Nat
    BY <1>1, <2>2, LenProperties
  <2>4. \A i \in DOMAIN Tail(closedSessions) : i + 1 \in DOMAIN closedSessions
    BY <2>2, <2>3
  <2>5. \A i \in DOMAIN Tail(closedSessions) :
           \E j \in DOMAIN closedSessions : closedSessions[j] = Tail(closedSessions)[i]
    BY <2>2, <2>3, <2>4
  <2>6. closedSessions' = Append(Tail(closedSessions), s) BY <1>5 DEF Remember
  <2> QED BY <1>3, <2>2, <2>5, <2>6
<1> QED BY <1>2, <1>4, <1>5

\* What the first part of closeSession does, whether it begins a closure or
\* joins the one under way.
LEMMA CloseSessionSteps ==
    ASSUME TypeInv, NEW s \in Sessions, NEW reason \in CloseReasons, NEW byTimer \in BOOLEAN,
           CloseSession(s, reason, byTimer)
    PROVE  /\ closing' \in [Sessions -> Closures]
           /\ closing'[s] # NotClosing
           /\ \A t \in Sessions : closing'[t].reason = "none" => closing'[t] = NotClosing
           /\ \A t \in Sessions \ {s} : closing'[t] = closing[t] /\ session'[t] = session[t]
           /\ session' \in [Sessions -> {"none", "open", "closing"}]
           /\ session'[s] # session[s] => session[s] = "open" /\ session'[s] = "closing"
           /\ closing[s] = NotClosing =>
                 session'[s] # "open" /\ closing'[s].waits = LiveCommandsOf(s)
           /\ closing[s] # NotClosing => closing'[s].waits = closing[s].waits
           /\ closedSessions' \in Seq(Sessions)
           /\ \A t \in Sessions : WasClosed(t)' =>
                 WasClosed(t) \/ (t = s /\ closing[s] = NotClosing)
           /\ control' \in [Commands -> Controls]
           /\ kill' \in [Commands -> KillStates]
           /\ \A c \in Commands : control'[c].step = control[c].step
           /\ \A t \in Sessions : LiveCommandsOf(t)' = LiveCommandsOf(t)
<1>1. /\ TypeOK /\ closing \in [Sessions -> Closures]
      /\ session \in [Sessions -> {"none", "open", "closing"}]
      /\ closedSessions \in Seq(Sessions)
      /\ control \in [Commands -> Controls] /\ kill \in [Commands -> KillStates]
      /\ \A t \in Sessions : closing[t].reason = "none" => closing[t] = NotClosing
  BY DEF TypeInv, TypeOK, Closures, Controls, KillStates
<1>2. CASE closing[s] # NotClosing
  <2>1. /\ closing' = [closing EXCEPT ![s].timer = @ \/ byTimer]
        /\ UNCHANGED <<closedSessions, session, control, kill>>
    BY <1>2 DEF CloseSession
  <2>2. /\ [closing[s] EXCEPT !.timer = @ \/ byTimer] \in Closures
        /\ [closing[s] EXCEPT !.timer = @ \/ byTimer].reason = closing[s].reason
        /\ [closing[s] EXCEPT !.timer = @ \/ byTimer].waits = closing[s].waits
    <3> DEFINE old == closing[s]  timer == old.timer \/ byTimer
    <3>1. old \in Closures /\ timer \in BOOLEAN BY <1>1
    <3> HIDE DEF old, timer
    <3>2. [old EXCEPT !.timer = timer] \in Closures BY <3>1 DEF Closures
    <3>3. [old EXCEPT !.timer = timer].reason = old.reason
          /\ [old EXCEPT !.timer = timer].waits = old.waits
      BY <3>1 DEF Closures
    <3> QED BY <3>2, <3>3 DEF old, timer
  <2>3. closing'[s] = [closing[s] EXCEPT !.timer = @ \/ byTimer] BY <1>1, <2>1
  <2>4. closing[s].reason # "none" BY <1>1, <1>2
  <2>5. closing'[s] # NotClosing BY <2>2, <2>3, <2>4 DEF NotClosing
  <2>6. \A t \in Sessions \ {s} : closing'[t] = closing[t] BY <1>1, <2>1
  <2>7. closing' \in [Sessions -> Closures] BY <1>1, <2>1, <2>2
  <2> QED BY <1>1, <1>2, <2>1, <2>2, <2>3, <2>4, <2>5, <2>6, <2>7 DEF WasClosed, LiveCommandsOf
<1>3. CASE closing[s] = NotClosing
  <2> DEFINE closure == [waits |-> LiveCommandsOf(s), reason |-> reason, timer |-> byTimer]
  <2>1. /\ closedSessions' = Remember(s)
        /\ session' = [session EXCEPT ![s] = IF @ = "open" THEN "closing" ELSE @]
        /\ Cancel(LiveCommandsOf(s))
        /\ closing' = [closing EXCEPT ![s] = closure]
    BY <1>3 DEF CloseSession
  <2>2. closure \in Closures /\ closure.reason # "none" /\ closure.waits = LiveCommandsOf(s)
    BY DEF Closures, LiveCommandsOf, CloseReasons
  <2>3. closure # NotClosing BY <2>2 DEF NotClosing
  <2> HIDE DEF closure
  <2>4. closing'[s] = closure /\ \A t \in Sessions \ {s} : closing'[t] = closing[t]
    BY <1>1, <2>1
  <2>5. closing' \in [Sessions -> Closures] BY <1>1, <2>1, <2>2
  <2>6. /\ session' \in [Sessions -> {"none", "open", "closing"}]
        /\ \A t \in Sessions \ {s} : session'[t] = session[t]
        /\ session'[s] = IF session[s] = "open" THEN "closing" ELSE session[s]
    BY <1>1, <2>1
  <2>7. /\ closedSessions' \in Seq(Sessions)
        /\ \A t \in Sessions : WasClosed(t)' => WasClosed(t) \/ t = s
    BY <1>1, <2>1, Remembered
  <2>8. /\ control' \in [Commands -> Controls]
        /\ kill' \in [Commands -> KillStates]
        /\ \A c \in Commands : control'[c].step = control[c].step
        /\ \A t \in Sessions : LiveCommandsOf(t)' = LiveCommandsOf(t)
    BY <1>1, <2>1, CancelKeepsSteps
  <2>9. \A t \in Sessions : closing'[t].reason = "none" => closing'[t] = NotClosing
    BY <1>1, <2>2, <2>4
  <2> QED BY <1>3, <2>2, <2>3, <2>4, <2>5, <2>6, <2>7, <2>8, <2>9
<1> QED BY <1>2, <1>3

\* One entry more or less leaves the journal finite.
LEMMA JournalStaysFinite ==
    ASSUME TypeInv, NEW c \in Commands, NEW state \in JournalStates,
           journal' = [journal EXCEPT ![c] = state]
    PROVE  journal' \in [Commands -> JournalStates] /\ IsFiniteSet(Journaled)'
<1>1. journal \in [Commands -> JournalStates] /\ IsFiniteSet(Journaled)
  BY DEF TypeInv, TypeOK
<1>2. journal' \in [Commands -> JournalStates] BY <1>1
<1>3. IsFiniteSet(Journaled \cup {c}) BY <1>1, FS_AddElement
<1>4. Journaled' \in SUBSET (Journaled \cup {c}) BY <1>1 DEF Journaled
<1>5. IsFiniteSet(Journaled') BY <1>3, <1>4, FS_Subset
<1> QED BY <1>2, <1>5

-----------------------------------------------------------------------------
(* Types *)

Handlers == {Idle} \cup {<<"close", s>> : s \in Sessions} \cup {<<"cancel", c>> : c \in Commands}

\* The parts of the type invariant, as its steps need them.
LifeType ==
    /\ mode \in {"running", "stopping", "dropping", "halted", "crashed"}
    /\ conn \in {"down", "authenticated", "closing"}
    /\ handler \in Handlers
    /\ quarantined \in BOOLEAN
SessionsType ==
    /\ session \in [Sessions -> {"none", "open", "closing"}]
    /\ armed \subseteq Sessions
    /\ lapsed \subseteq Sessions
    /\ closedSessions \in Seq(Sessions)
ClosingType ==
    /\ closing \in [Sessions -> Closures]
    /\ \A s \in Sessions : closing[s].reason = "none" => closing[s] = NotClosing
CommandsType ==
    /\ control \in [Commands -> Controls]
    /\ kill \in [Commands -> KillStates]
    /\ leader \in [Commands -> {"none", "running", "closed"}]
    /\ members \subseteq Commands
    /\ spawned \subseteq Commands
JournalType == journal \in [Commands -> JournalStates] /\ IsFiniteSet(Journaled)

\* They are the type invariant.
LEMMA TypeParts ==
    TypeInv <=> LifeType /\ SessionsType /\ ClosingType /\ CommandsType /\ JournalType /\ WireType
BY DEF TypeInv, TypeOK, LifeType, SessionsType, ClosingType, CommandsType, JournalType, WireType,
       Handlers, Closures, Controls, KillStates

\* The same of the next state.
LEMMA TypePartsNext ==
    TypeInv' <=> LifeType' /\ SessionsType' /\ ClosingType' /\ CommandsType' /\ JournalType' /\ WireType'
BY TypeParts, PTL

\* What is not touched keeps its type.
LEMMA TypesUnchanged ==
    ASSUME TypeInv
    PROVE  /\ UNCHANGED <<mode, conn, handler, quarantined>> => LifeType'
           /\ UNCHANGED <<session, armed, lapsed, closedSessions>> => SessionsType'
           /\ UNCHANGED closing => ClosingType'
           /\ UNCHANGED <<control, kill, leader, members, spawned>> => CommandsType'
           /\ UNCHANGED journal => JournalType'
           /\ UNCHANGED <<buffer, out, answered>> => WireType'
<1>1. /\ LifeType /\ SessionsType /\ ClosingType /\ CommandsType /\ JournalType /\ WireType
  BY TypeParts
<1>2. UNCHANGED <<mode, conn, handler, quarantined>> => LifeType' BY <1>1 DEF LifeType
<1>3. UNCHANGED <<session, armed, lapsed, closedSessions>> => SessionsType'
  BY <1>1 DEF SessionsType
<1>4. UNCHANGED closing => ClosingType' BY <1>1 DEF ClosingType
<1>5. UNCHANGED <<control, kill, leader, members, spawned>> => CommandsType'
  BY <1>1 DEF CommandsType
<1>6. UNCHANGED journal => JournalType' BY <1>1 DEF JournalType, Journaled
<1>7. UNCHANGED <<buffer, out, answered>> => WireType' BY <1>1 DEF WireType
<1> QED BY <1>2, <1>3, <1>4, <1>5, <1>6, <1>7

\* The Client starts with nothing.
LEMMA TypeInit == Init => TypeInv
<1> SUFFICES ASSUME Init PROVE TypeInv OBVIOUS
<1>1. /\ <<>> \in Seq(Sessions) /\ <<>> \in Seq(Messages) /\ Len(<<>>) = 0 /\ 0 <= BufferLimit
  BY EmptySeq, LimitsType
<1>2. NotClosing \in Closures /\ NoControl \in Controls
  BY DEF NotClosing, Closures, NoControl, Controls
<1>3. LifeType BY DEF Init, LifeType, Handlers
<1>4. SessionsType BY <1>1 DEF Init, SessionsType
<1>5. ClosingType BY <1>2 DEF Init, ClosingType
<1>6. CommandsType BY <1>2 DEF Init, CommandsType, KillStates
<1>7. JournalType
  <2>1. Journaled = {} BY DEF Init, Journaled
  <2> QED BY <2>1, FS_EmptySet DEF Init, JournalType, JournalStates
<1>8. WireType BY <1>1 DEF Init, WireType
<1> QED BY <1>3, <1>4, <1>5, <1>6, <1>7, <1>8, TypeParts

\* What writing a result does.
LEMMA Finished ==
    ASSUME TypeInv, NEW c \in Commands, NEW result \in Results, Finish(c, result)
    PROVE  /\ JournalType' /\ WireType'
           /\ journal' = [journal EXCEPT ![c] = result]
           /\ \A other : Reported(other)' => Reported(other) \/ other = Completed(c, result)
<1>1. journal' = [journal EXCEPT ![c] = result] /\ Deliver(<<Completed(c, result)>>)
  BY DEF Finish
<1>2. result \in JournalStates BY DEF JournalStates
<1>3. JournalType' BY <1>1, <1>2, JournalStaysFinite DEF JournalType
<1>4. Completed(c, result) \in Messages /\ TypeOK BY MessagesSent DEF TypeInv
<1> QED BY <1>1, <1>3, <1>4, Delivered

\* The status a Command ends with is a result.
LEMMA OutcomeIsResult ==
    ASSUME NEW c, NEW natural \in {"succeeded", "failed"}
    PROVE  Outcome(c, natural) \in Results \ {"execution_unknown"}
BY DEF Outcome, Results

\* Forgetting keeps the types of what is forgotten.
LEMMA ForgetKeepsTypes ==
    ASSUME TypeInv, Forget
    PROVE  SessionsType' /\ ClosingType' /\ CommandsType' /\ WireType' /\ conn' = "down" /\ handler' = Idle
<1>1. /\ <<>> \in Seq(Sessions) /\ <<>> \in Seq(Messages) /\ Len(<<>>) = 0 /\ 0 <= BufferLimit
  BY EmptySeq, LimitsType
<1>2. NotClosing \in Closures /\ NoControl \in Controls
  BY DEF NotClosing, Closures, NoControl, Controls
<1>3. SessionsType /\ CommandsType /\ WireType BY TypeParts
<1>4. SessionsType' BY <1>1, <1>3 DEF Forget, SessionsType
<1>5. ClosingType' BY <1>2 DEF Forget, ClosingType
<1>6. CommandsType' BY <1>2, <1>3 DEF Forget, CommandsType, KillStates
<1>7. WireType' BY <1>1, <1>3 DEF Forget, WireType
<1> QED BY <1>4, <1>5, <1>6, <1>7 DEF Forget

\* The connection comes, goes and carries messages.
LEMMA ConnectionTypes ==
    ASSUME TypeInv, Authenticated \/ ConnectionLost \/ Revoked \/ ServerReceives
    PROVE  TypeInv'
<1>1. LifeType /\ WireType /\ TypeOK BY TypeParts DEF TypeInv
<1>2. CASE Authenticated
  <2>1. LifeType' BY <1>1, <1>2 DEF Authenticated, LifeType, volatileVars
  <2>2. WireType'
    <3>1. out \o buffer \in Seq(Messages) BY <1>1, Elements DEF WireType
    <3>2. Reconciliation \in Seq(Messages) BY ReconciliationReports
    <3>3. out' = (out \o buffer) \o Reconciliation BY <1>2 DEF Authenticated
    <3>4. out' \in Seq(Messages) BY <3>1, <3>2, <3>3, Elements
    <3>5. <<>> \in Seq(Messages) /\ Len(<<>>) = 0 /\ 0 <= BufferLimit BY EmptySeq, LimitsType
    <3> QED BY <1>1, <1>2, <3>4, <3>5 DEF Authenticated, WireType
  <2> QED BY <1>2, <2>1, <2>2, TypesUnchanged, TypePartsNext
          DEF Authenticated, volatileVars, processVars
<1>3. CASE ConnectionLost \/ Revoked
  <2>1. LifeType' BY <1>1, <1>3 DEF ConnectionLost, Revoked, LifeType, volatileVars
  <2>2. WireType' BY <1>1, <1>3, WireLost DEF ConnectionLost, Revoked
  <2> QED BY <1>3, <2>1, <2>2, TypesUnchanged, TypePartsNext
          DEF ConnectionLost, Revoked, volatileVars, processVars
<1>4. CASE ServerReceives
  <2>1. out # <<>> /\ out' = Tail(out) BY <1>4 DEF ServerReceives
  <2>2. out' \in Seq(Messages) BY <1>1, <2>1, HeadTailProperties DEF WireType
  <2>3. WireType' BY <1>1, <1>4, <2>2 DEF ServerReceives, WireType
  <2> QED BY <1>4, <2>3, TypesUnchanged, TypePartsNext
          DEF ServerReceives, volatileVars, processVars
<1> QED BY <1>2, <1>3, <1>4

\* Sessions open, lapse and close.
LEMMA SessionTypes ==
    ASSUME TypeInv, NEW s \in Sessions,
           openSession(s) \/ CloseAsked(s) \/ Closure(s) \/ Lapse(s)
    PROVE  TypeInv'
<1>1. LifeType /\ SessionsType /\ ClosingType /\ CommandsType /\ WireType /\ TypeOK
  BY TypeParts DEF TypeInv
<1>2. CASE openSession(s)
  <2>1. SessionsType' BY <1>1, <1>2 DEF openSession, SessionsType
  <2>2. \E message \in Messages : Deliver(<<message>>)
    BY <1>2, MessagesSent DEF openSession
  <2>3. WireType' BY <1>1, <2>2, Delivered
  <2> QED BY <1>2, <2>1, <2>3, TypesUnchanged, TypePartsNext DEF openSession, processVars
<1>3. ASSUME NEW reason \in CloseReasons, NEW byTimer \in BOOLEAN,
             CloseSession(s, reason, byTimer)
      PROVE  /\ ClosingType'
             /\ armed' \subseteq armed /\ UNCHANGED lapsed => SessionsType'
             /\ UNCHANGED processVars => CommandsType'
  <2>1. /\ closing' \in [Sessions -> Closures]
        /\ \A t \in Sessions : closing'[t].reason = "none" => closing'[t] = NotClosing
        /\ session' \in [Sessions -> {"none", "open", "closing"}]
        /\ closedSessions' \in Seq(Sessions)
        /\ control' \in [Commands -> Controls]
        /\ kill' \in [Commands -> KillStates]
    BY <1>3, CloseSessionSteps
  <2> QED BY <1>1, <2>1 DEF ClosingType, SessionsType, CommandsType, processVars
<1>4. CASE CloseAsked(s)
  <2>1. LifeType' BY <1>1, <1>4 DEF CloseAsked, HandleClose, LifeType, Handlers
  <2>2. /\ \E reason \in CloseReasons : CloseSession(s, reason, FALSE)
        /\ UNCHANGED <<armed, lapsed, processVars>>
    BY <1>4 DEF CloseAsked, HandleClose
  <2>3. ClosingType' /\ SessionsType' /\ CommandsType' BY <1>3, <2>2
  <2> QED BY <1>4, <2>1, <2>3, TypesUnchanged, TypePartsNext DEF CloseAsked, HandleClose, DeliverNothing
<1>5. CASE ExpiryTimer(s)
  <2>1. CloseSession(s, "expired", TRUE) /\ armed' \subseteq armed /\ UNCHANGED <<lapsed, processVars>>
    BY <1>5 DEF ExpiryTimer
  <2>2. ClosingType' /\ SessionsType' /\ CommandsType' BY <1>3, <2>1 DEF CloseReasons
  <2> QED BY <1>5, <2>2, TypesUnchanged, TypePartsNext DEF ExpiryTimer, DeliverNothing
<1>6. ASSUME ClosureEnds(s)
      PROVE  /\ SessionsType' /\ ClosingType' /\ CommandsType' /\ JournalType'
             /\ handler' \in Handlers
  <2>1. NotClosing \in Closures BY DEF NotClosing, Closures
  <2>2. ClosingType' BY <1>1, <1>6, <2>1 DEF ClosureEnds, ClosingType
  <2>3. SessionsType' BY <1>1, <1>6 DEF ClosureEnds, SessionsType
  <2>4. handler' \in Handlers BY <1>1, <1>6 DEF ClosureEnds, LifeType, Handlers
  <2> QED BY <1>6, <2>2, <2>3, <2>4, TypesUnchanged DEF ClosureEnds, processVars
<1>7. CASE CloseSucceeds(s)
  <2>1. closing[s].reason \in CloseReasons
    BY <1>1, <1>7 DEF CloseSucceeds, ClosureEnds, ClosingType, Closures
  <2>2. WireType' BY <1>1, <1>7, <2>1, Delivered, MessagesSent DEF CloseSucceeds
  <2>3. LifeType' BY <1>1, <1>6, <1>7 DEF CloseSucceeds, LifeType
  <2> QED BY <1>6, <1>7, <2>2, <2>3, TypePartsNext DEF CloseSucceeds
<1>8. CASE CloseFails(s)
  <2>1. WireType' BY <1>8, TypesUnchanged DEF CloseFails, DeliverNothing
  <2>2. LifeType'
    BY <1>1, <1>6, <1>8
       DEF CloseFails, LifeType, TerminalFailure, quarantineLocalAuthority
  <2> QED BY <1>6, <1>8, <2>1, <2>2, TypePartsNext DEF CloseFails
<1>9. CASE Lapse(s)
  <2>1. SessionsType' BY <1>1, <1>9 DEF Lapse, SessionsType, volatileVars
  <2> QED BY <1>9, <2>1, TypesUnchanged, TypePartsNext
          DEF Lapse, volatileVars, wireVars, processVars
<1> QED BY <1>2, <1>4, <1>5, <1>7, <1>8, <1>9 DEF Closure

\* Commands start, run, end and are acknowledged.
LEMMA CommandTypes ==
    ASSUME TypeInv, NEW c \in Commands,
           \/ startCommand(c) \/ cancelCommand(c) \/ Acknowledged(c)
           \/ Preparation(c) \/ Termination(c) \/ CancelReturns(c)
           \/ \E natural \in {"succeeded", "failed"} : Exit(c, natural)
           \/ GroupEnds(c) \/ Timeout(c) \/ CrashReceiving(c)
    PROVE  TypeInv'
<1>1. LifeType /\ SessionsType /\ CommandsType /\ JournalType /\ WireType /\ TypeOK
  BY TypeParts DEF TypeInv
<1>2. /\ NoControl \in Controls
      /\ \A b \in BOOLEAN : [control[c] EXCEPT !.timedOut = b, !.cancelled = b] \in Controls
      /\ \A step \in {"preparing", "running"} : [control[c] EXCEPT !.step = step] \in Controls
  BY <1>1 DEF NoControl, Controls, CommandsType
<1>3. "failed" \in Results /\ "cancelled" \in Results /\ "execution_unknown" \in Results
  BY DEF Results
<1>4. CASE startCommand(c)
  <2>1. CASE journal[c] # "none" /\ startKnown(c)
    <3>1. WireType'
      <4>1. CASE journal[c] \in Results
        <5>1. Deliver(<<Completed(c, journal[c])>>) BY <2>1, <4>1 DEF startKnown
        <5> QED BY <1>1, <4>1, <5>1, Delivered, MessagesSent
      <4>2. CASE journal[c] \notin Results
        BY <2>1, <4>2, TypesUnchanged DEF startKnown, DeliverNothing
      <4> QED BY <4>1, <4>2
    <3> QED BY <1>4, <2>1, <3>1, TypesUnchanged, TypePartsNext
            DEF startCommand, startKnown, processVars
  <2>2. CASE startNew(c) /\ CanRun(c)
    <3>1. control' = [control EXCEPT ![c].step = "preparing"] /\ kill' = [kill EXCEPT ![c] = "no"]
          /\ journal' = [journal EXCEPT ![c] = "running"] /\ Deliver(<<Started(c)>>)
      BY <2>2 DEF startNew
    <3>2. CommandsType'
      BY <1>1, <1>2, <1>4, <3>1 DEF CommandsType, KillStates, startCommand, processVars
    <3>3. JournalType' BY <3>1, JournalStaysFinite DEF JournalType, JournalStates
    <3>4. WireType' BY <1>1, <3>1, Delivered, MessagesSent
    <3> QED BY <1>4, <3>2, <3>3, <3>4, TypesUnchanged, TypePartsNext DEF startCommand
  <2>3. CASE startNew(c) /\ ~CanRun(c)
    <3>1. JournalType' /\ WireType' BY <1>3, <2>3, Finished DEF startNew, failCommand
    <3> QED BY <1>4, <2>3, <3>1, TypesUnchanged, TypePartsNext
            DEF startCommand, startNew, processVars
  <2> QED BY <1>4, <2>1, <2>2, <2>3 DEF startCommand, startKnown
<1>5. CASE cancelCommand(c)
  <2>1. CASE control[c].step # "none"
    <3>1. Cancel({c}) /\ handler' = <<"cancel", c>> /\ DeliverNothing /\ UNCHANGED journal
      BY <1>5, <2>1 DEF cancelCommand
    <3>2. control' \in [Commands -> Controls] /\ kill' \in [Commands -> KillStates]
      BY <1>1, <3>1, CancelKeepsSteps
    <3>3. CommandsType' BY <1>1, <1>5, <3>2 DEF CommandsType, cancelCommand, processVars
    <3>4. LifeType' BY <1>1, <1>5, <3>1 DEF LifeType, Handlers, cancelCommand
    <3> QED BY <1>5, <3>1, <3>3, <3>4, TypesUnchanged, TypePartsNext
            DEF cancelCommand, DeliverNothing
  <2>2. CASE control[c].step = "none"
    <3>1. UNCHANGED <<control, kill, handler>> BY <1>5, <2>2 DEF cancelCommand
    <3>2. JournalType' /\ WireType'
      <4>1. CASE journal[c] \in Results
        <5>1. Deliver(<<Completed(c, journal[c])>>) /\ UNCHANGED journal
          BY <1>5, <2>2, <4>1 DEF cancelCommand
        <5> QED BY <1>1, <4>1, <5>1, Delivered, MessagesSent, TypesUnchanged
      <4>2. CASE journal[c] \notin Results
        BY <1>3, <1>5, <2>2, <4>2, Finished DEF cancelCommand
      <4> QED BY <4>1, <4>2
    <3> QED BY <1>5, <3>1, <3>2, TypesUnchanged, TypePartsNext DEF cancelCommand, processVars
  <2> QED BY <2>1, <2>2
<1>6. CASE Acknowledged(c)
  <2>1. JournalType' BY <1>6, JournalStaysFinite DEF Acknowledged, JournalType, JournalStates
  <2>2. CommandsType' BY <1>1, <1>6 DEF Acknowledged, CommandsType, volatileVars
  <2> QED BY <1>6, <2>1, <2>2, TypesUnchanged, TypePartsNext
          DEF Acknowledged, volatileVars, wireVars
<1>7. CASE Spawned(c)
  <2>1. CommandsType' BY <1>1, <1>2, <1>7 DEF Spawned, CommandsType
  <2> QED BY <1>7, <2>1, TypesUnchanged, TypePartsNext
          DEF Spawned, commandUnchanged, DeliverNothing
<1>8. ASSUME NEW result \in Results, Finish(c, result), control' = [control EXCEPT ![c] = NoControl]
      PROVE  JournalType' /\ WireType' /\ control' \in [Commands -> Controls]
  BY <1>1, <1>2, <1>8, Finished DEF CommandsType
<1>9. CASE NotSpawned(c)
  <2>1. JournalType' /\ WireType' /\ control' \in [Commands -> Controls]
    BY <1>8, <1>9, OutcomeIsResult DEF NotSpawned
  <2>2. CommandsType' BY <1>1, <1>9, <2>1 DEF NotSpawned, CommandsType, processVars
  <2> QED BY <1>9, <2>1, <2>2, TypesUnchanged, TypePartsNext DEF NotSpawned, commandUnchanged
<1>10. ASSUME NEW natural \in {"succeeded", "failed"}, Exit(c, natural) PROVE TypeInv'
  <2>1. JournalType' /\ WireType' /\ control' \in [Commands -> Controls]
    BY <1>8, <1>10, OutcomeIsResult DEF Exit
  <2>2. CommandsType' BY <1>1, <1>10, <2>1 DEF Exit, CommandsType
  <2> QED BY <1>10, <2>1, <2>2, TypesUnchanged, TypePartsNext DEF Exit, commandUnchanged
<1>11. CASE GroupEnds(c)
  <2>1. CommandsType' BY <1>1, <1>11 DEF GroupEnds, CommandsType, volatileVars
  <2> QED BY <1>11, <2>1, TypesUnchanged, TypePartsNext DEF GroupEnds, volatileVars, wireVars
<1>12. CASE Timeout(c)
  <2>1. [control EXCEPT ![c].timedOut = TRUE, ![c].cancelled = TRUE] \in [Commands -> Controls]
    BY <1>1 DEF CommandsType, Controls
  <2>2. CommandsType' BY <1>1, <1>12, <2>1 DEF Timeout, CommandsType, KillStates, processVars
  <2> QED BY <1>12, <2>2, TypesUnchanged, TypePartsNext
          DEF Timeout, commandUnchanged, DeliverNothing
<1>13. CASE KillProved(c)
  <2>1. CommandsType' BY <1>1, <1>13 DEF KillProved, CommandsType, KillStates, processVars
  <2> QED BY <1>13, <2>1, TypesUnchanged, TypePartsNext
          DEF KillProved, commandUnchanged, DeliverNothing
<1>14. CASE KillFailed(c)
  <2>1. kill' \in [Commands -> KillStates] BY <1>1, <1>14 DEF KillFailed, CommandsType, KillStates
  <2>2. CASE control[c].step = "running"
    <3>1. JournalType' /\ WireType' /\ control' \in [Commands -> Controls]
      BY <1>3, <1>8, <1>14, <2>2 DEF KillFailed
    <3>2. CommandsType' BY <1>1, <1>14, <2>1, <3>1 DEF KillFailed, CommandsType, processVars
    <3>3. LifeType'
      BY <1>1, <1>14, <2>2
         DEF KillFailed, LifeType, TerminalFailure, quarantineLocalAuthority
    <3> QED BY <1>14, <3>1, <3>2, <3>3, TypesUnchanged, TypePartsNext DEF KillFailed
  <2>3. CASE control[c].step # "running"
    <3>1. DeliverNothing /\ UNCHANGED <<mode, conn, control, journal, quarantined>>
      BY <1>14, <2>3 DEF KillFailed
    <3>2. CommandsType' BY <1>1, <1>14, <2>1, <3>1 DEF KillFailed, CommandsType, processVars
    <3> QED BY <1>14, <3>1, <3>2, TypesUnchanged, TypePartsNext DEF KillFailed, DeliverNothing
  <2> QED BY <2>2, <2>3
<1>15. CASE CancelReturns(c)
  <2>1. LifeType' BY <1>1, <1>15 DEF CancelReturns, LifeType, Handlers
  <2> QED BY <1>15, <2>1, TypesUnchanged, TypePartsNext DEF CancelReturns, processVars
<1>16. CASE CrashReceiving(c)
  <2>1. JournalType' BY <1>16, JournalStaysFinite DEF CrashReceiving, JournalType, JournalStates
  <2>2. LifeType'
    <3>1. conn' = "down" /\ handler' = Idle /\ mode' = "crashed" /\ UNCHANGED quarantined
      BY <1>16 DEF CrashReceiving, Forget
    <3> QED BY <1>1, <3>1 DEF LifeType, Handlers
  <2> QED BY <1>16, <2>1, <2>2, ForgetKeepsTypes, TypePartsNext DEF CrashReceiving
<1> QED BY <1>4, <1>5, <1>6, <1>7, <1>9, <1>10, <1>11, <1>12, <1>13, <1>14, <1>15, <1>16
        DEF Preparation, Termination

\* The Client stops, crashes and starts again.
LEMMA LifeTypes ==
    ASSUME TypeInv, StopGracefully \/ dropLocalAuthority \/ Dropped \/ Crash \/ Restart
    PROVE  TypeInv'
<1>1. LifeType /\ SessionsType /\ CommandsType /\ JournalType /\ TypeOK
  BY TypeParts DEF TypeInv
<1>2. CASE StopGracefully
  <2>1. LifeType' BY <1>1, <1>2 DEF StopGracefully, LifeType, volatileVars
  <2> QED BY <1>2, <2>1, TypesUnchanged, TypePartsNext
          DEF StopGracefully, volatileVars, processVars
<1>3. CASE dropLocalAuthority
  <2>1. control' \in [Commands -> Controls] /\ kill' \in [Commands -> KillStates]
    BY <1>1, <1>3, CancelKeepsSteps DEF dropLocalAuthority
  <2>2. CommandsType' BY <1>1, <1>3, <2>1 DEF dropLocalAuthority, CommandsType, processVars
  <2>3. SessionsType' BY <1>1, <1>3 DEF dropLocalAuthority, SessionsType
  <2>4. LifeType' BY <1>1, <1>3 DEF dropLocalAuthority, LifeType, wireVars
  <2> QED BY <1>3, <2>2, <2>3, <2>4, TypesUnchanged, TypePartsNext
          DEF dropLocalAuthority, wireVars
<1>4. CASE Dropped
  <2>1. LifeType' BY <1>1, <1>4 DEF Dropped, LifeType, wireVars
  <2>2. SessionsType' BY <1>1, <1>4 DEF Dropped, SessionsType
  <2> QED BY <1>4, <2>1, <2>2, TypesUnchanged, TypePartsNext DEF Dropped, wireVars, processVars
<1>5. ASSUME Forget, mode' \in {"running", "crashed"} PROVE LifeType'
  BY <1>1, <1>5, ForgetKeepsTypes DEF LifeType, Handlers, Forget
<1>6. CASE Crash
  BY <1>5, <1>6, ForgetKeepsTypes, TypesUnchanged, TypePartsNext DEF Crash
<1>7. CASE Restart
  <2>1. journal' \in [Commands -> JournalStates]
    BY <1>1, <1>7 DEF Restart, JournalType, JournalStates, Results
  <2>2. Journaled' = Journaled BY <1>1, <1>7 DEF Restart, Journaled, JournalType
  <2>3. JournalType' BY <1>1, <2>1, <2>2 DEF JournalType
  <2> QED BY <1>5, <1>7, <2>3, ForgetKeepsTypes, TypePartsNext DEF Restart
<1> QED BY <1>2, <1>3, <1>4, <1>6, <1>7

\* Every step keeps the types.
LEMMA TypeStep == TypeInv /\ [Next]_vars => TypeInv'
<1> SUFFICES ASSUME TypeInv, [Next]_vars PROVE TypeInv' OBVIOUS
<1>1. CASE UNCHANGED vars
  BY <1>1, TypesUnchanged, TypePartsNext DEF vars, wireVars, volatileVars, processVars
<1>2. CASE Next
  BY <1>2, ConnectionTypes, SessionTypes, CommandTypes, LifeTypes DEF Next, Handle
<1> QED BY <1>1, <1>2

\* TypeOK of Client holds, whatever the numbers of Sessions and Commands and
\* the capacities are: what the code keeps is of the shapes it declares and the
\* message buffer never outgrows its limit.
THEOREM ClientTypes == Spec => []TypeOK
<1>1. TypeInv => TypeOK BY DEF TypeInv
<1> QED BY <1>1, TypeInit, TypeStep, PTL DEF Spec

-----------------------------------------------------------------------------
(* The inductive invariant *)

\* The Client does not come back to life, nor out of quarantine.
LifeGoesOn ==
    /\ mode' \in {"running", "halted"} => mode' = mode
    /\ quarantined => quarantined'
    /\ quarantined' => mode' # "running"

\* A step that a Command, or a Session, does not notice.
CommandKept(c) ==
    /\ control'[c].step = control[c].step
    /\ journal'[c] = journal[c]
    /\ leader'[c] = leader[c]
    /\ c \in spawned' => c \in spawned
SessionKept(s) ==
    /\ session'[s] = session[s]
    /\ closing'[s] = closing[s]
    /\ s \in armed' => s \in armed
    /\ WasClosed(s)' => WasClosed(s)
    /\ handler = <<"close", s>> => handler' = <<"close", s>>

\* A Command that does not notice a step keeps its part of the invariant,
LEMMA CommandInvKept ==
    ASSUME ClientInv, LifeGoesOn, NEW c \in Commands, CommandKept(c)
    PROVE  CommandInv(c)'
BY DEF ClientInv, CommandInv, LifeGoesOn, CommandKept

\* No Command begins, so none joins those a closure waits for.
NoneBegins == \A c \in Commands : control[c].step = "none" => control'[c].step = "none"

\* and so does a Session, while no Command begins,
LEMMA SessionInvKept ==
    ASSUME ClientInv, LifeGoesOn, NEW s \in Sessions, SessionKept(s), NoneBegins
    PROVE  SessionInv(s)'
<1>1. LiveCommandsOf(s)' \subseteq LiveCommandsOf(s) BY DEF NoneBegins, LiveCommandsOf
<1> QED BY <1>1 DEF ClientInv, SessionInv, LifeGoesOn, SessionKept

\* and so does the Client's own life.
LEMMA ModeInvKept ==
    ASSUME ClientInv, LifeGoesOn, NoneBegins
    PROVE  ModeInv'
BY DEF ClientInv, ModeInv, LifeGoesOn, NoneBegins

\* A step that touches neither Commands nor Sessions.
LEMMA NothingTouched ==
    ASSUME ClientInv, TypeInv', LifeGoesOn,
           \A c \in Commands : CommandKept(c), \A s \in Sessions : SessionKept(s)
    PROVE  ClientInv'
<1>1. NoneBegins BY DEF NoneBegins, CommandKept
<1> QED BY <1>1, CommandInvKept, SessionInvKept, ModeInvKept DEF ClientInv

\* A Client that is gone remembers no Session and no live Command.
LEMMA ForgottenKeepsInv ==
    ASSUME ClientInv, TypeInv', Forget, mode' # "halted", quarantined' => mode' # "running",
           \A c \in Commands : journal'[c] = "none" => journal[c] = "none"
    PROVE  ClientInv'
<1>1. /\ \A s \in Sessions : ~WasClosed(s)' /\ closing'[s] = NotClosing
      /\ armed' = {}
      /\ \A c \in Commands : control'[c].step = "none" /\ leader'[c] = "none"
      /\ spawned' = spawned
  BY EmptySeq DEF Forget, WasClosed, NoControl
<1>2. ModeInv' BY DEF ModeInv
<1>3. \A c \in Commands : CommandInv(c)' BY <1>1 DEF ClientInv, CommandInv
<1>4. \A s \in Sessions : SessionInv(s)' BY <1>1 DEF SessionInv
<1> QED BY <1>2, <1>3, <1>4 DEF ClientInv

\* The invariant holds when the Client starts.
LEMMA ClientInit == Init => ClientInv
<1> SUFFICES ASSUME Init PROVE ClientInv OBVIOUS
<1>1. \A s \in Sessions : ~WasClosed(s) BY EmptySeq DEF Init, WasClosed
<1>2. ModeInv BY DEF Init, ModeInv, NoControl
<1>3. \A c \in Commands : CommandInv(c) BY DEF Init, CommandInv, NoControl
<1>4. \A s \in Sessions : SessionInv(s) BY <1>1 DEF Init, SessionInv, NotClosing
<1> QED BY <1>2, <1>3, <1>4, TypeInit DEF ClientInv

\* The connection, a deadline and the group's last process touch neither, nor
\* do the timers and terminations that only mark a Command.
LEMMA OutsideKeepsInv ==
    ASSUME ClientInv, TypeInv',
           \/ Authenticated \/ ConnectionLost \/ Revoked \/ ServerReceives
           \/ \E s \in Sessions : Lapse(s)
           \/ \E c \in Commands : GroupEnds(c) \/ Timeout(c) \/ KillProved(c) \/ CancelReturns(c)
           \/ StopGracefully
    PROVE  ClientInv'
<1> DEFINE Untouched ==
              /\ mode' = mode \/ mode' = "stopping"
              /\ UNCHANGED <<quarantined, session, armed, closing, closedSessions,
                             journal, leader, spawned>>
              /\ \A s \in Sessions : handler = <<"close", s>> => handler' = <<"close", s>>
              /\ \A c \in Commands : control'[c].step = control[c].step
<1>1. ASSUME Authenticated \/ ConnectionLost \/ Revoked \/ ServerReceives \/ StopGracefully
      PROVE  Untouched
  BY <1>1 DEF Authenticated, ConnectionLost, Revoked, ServerReceives, StopGracefully,
              volatileVars, processVars
<1>2. ASSUME NEW s \in Sessions, Lapse(s) PROVE Untouched
  BY <1>2 DEF Lapse, volatileVars, processVars
<1>3. ASSUME NEW c \in Commands, GroupEnds(c) PROVE Untouched
  BY <1>3 DEF GroupEnds, volatileVars
<1>4. ASSUME NEW c \in Commands, KillProved(c) PROVE Untouched
  BY <1>4 DEF KillProved, commandUnchanged, processVars
<1>5. ASSUME NEW c \in Commands, CancelReturns(c) PROVE Untouched
  BY <1>5 DEF CancelReturns, processVars
<1>6. ASSUME NEW c \in Commands, Timeout(c) PROVE Untouched
  <2>1. \A d \in Commands : control'[d].step = control[d].step
    <3>1. control \in [Commands -> Controls] BY TypeParts DEF ClientInv, CommandsType
    <3>2. control' = [control EXCEPT ![c].timedOut = TRUE, ![c].cancelled = TRUE]
      BY <1>6 DEF Timeout
    <3> QED BY <3>1, <3>2 DEF Controls
  <2> QED BY <1>6, <2>1 DEF Timeout, commandUnchanged, processVars
<1>7. Untouched BY <1>1, <1>2, <1>3, <1>4, <1>5, <1>6
<1>8. LifeGoesOn BY <1>7 DEF ClientInv, ModeInv, LifeGoesOn
<1>9. \A c \in Commands : CommandKept(c) BY <1>7 DEF CommandKept
<1>10. \A s \in Sessions : SessionKept(s) BY <1>7 DEF SessionKept, WasClosed
<1> QED BY <1>8, <1>9, <1>10, NothingTouched

\* A Session opens only when the Client does not remember closing it, and its
\* closure is not under way.
LEMMA OpenKeepsInv ==
    ASSUME ClientInv, TypeInv', NEW s \in Sessions, openSession(s)
    PROVE  ClientInv'
<1>1. UNCHANGED <<mode, handler, closing, closedSessions, control, leader, spawned, journal, quarantined>>
  BY DEF openSession, processVars
<1>2. LifeGoesOn /\ NoneBegins BY <1>1 DEF ClientInv, ModeInv, LifeGoesOn, NoneBegins
<1>3. \A c \in Commands : CommandInv(c)' BY <1>1, <1>2, CommandInvKept DEF CommandKept
<1>4. ASSUME NEW t \in Sessions, session'[t] = session[t], t \in armed' => t \in armed
      PROVE  SessionInv(t)'
  BY <1>1, <1>2, <1>4, SessionInvKept DEF SessionKept, WasClosed
<1>5. CASE UNCHANGED <<session, armed>>
  BY <1>2, <1>3, <1>4, <1>5, ModeInvKept DEF ClientInv
<1>6. CASE /\ ~WasClosed(s) /\ session[s] = "none"
           /\ session' = [session EXCEPT ![s] = "open"] /\ armed' = armed \cup {s}
  <2>1. session \in [Sessions -> {"none", "open", "closing"}]
    BY TypeParts DEF ClientInv, SessionsType
  <2>2. session'[s] = "open" /\ \A t \in Sessions \ {s} : session'[t] = session[t]
    BY <1>6, <2>1
  <2>3. mode = "running" /\ handler = Idle BY DEF openSession, Receptive
  <2>4. closing[s] = NotClosing
    BY <1>6, <2>3 DEF ClientInv, SessionInv, Idle
  <2>5. SessionInv(s)'
    BY <1>1, <1>6, <2>2, <2>4 DEF SessionInv, WasClosed
  <2>6. \A t \in Sessions \ {s} : SessionInv(t)' BY <1>4, <1>6, <2>2
  <2> QED BY <1>2, <1>3, <2>5, <2>6, ModeInvKept DEF ClientInv
<1> QED BY <1>5, <1>6 DEF openSession

\* closeSession marks the Session before its first await.
LEMMA CloseKeepsInv ==
    ASSUME ClientInv, TypeInv', NEW s \in Sessions, CloseAsked(s) \/ ExpiryTimer(s)
    PROVE  ClientInv'
<1>1. PICK reason \in CloseReasons, byTimer \in BOOLEAN : CloseSession(s, reason, byTimer)
  BY DEF CloseAsked, HandleClose, ExpiryTimer, CloseReasons
<1>2. UNCHANGED <<mode, leader, spawned, journal, quarantined>>
  BY DEF CloseAsked, HandleClose, ExpiryTimer, processVars
<1>3. TypeInv BY DEF ClientInv
<1>4. /\ closing'[s] # NotClosing
      /\ \A t \in Sessions \ {s} : closing'[t] = closing[t] /\ session'[t] = session[t]
      /\ session'[s] # session[s] => session[s] = "open" /\ session'[s] = "closing"
      /\ closing[s] = NotClosing =>
            session'[s] # "open" /\ closing'[s].waits = LiveCommandsOf(s)
      /\ closing[s] # NotClosing => closing'[s].waits = closing[s].waits
  BY <1>1, <1>3, CloseSessionSteps
<1>5. /\ \A t \in Sessions : WasClosed(t)' =>
            WasClosed(t) \/ (t = s /\ closing[s] = NotClosing)
      /\ \A c \in Commands : control'[c].step = control[c].step
      /\ \A t \in Sessions : LiveCommandsOf(t)' = LiveCommandsOf(t)
  BY <1>1, <1>3, CloseSessionSteps
<1>6. LifeGoesOn /\ NoneBegins BY <1>2, <1>5 DEF ClientInv, ModeInv, LifeGoesOn, NoneBegins
<1>7. \A c \in Commands : CommandInv(c)' BY <1>2, <1>5, <1>6, CommandInvKept DEF CommandKept
<1>8. /\ armed' \subseteq armed /\ \A t \in Sessions \ {s} : handler = <<"close", t>> => handler' = handler
      /\ \/ handler = Idle /\ handler' = <<"close", s>>
         \/ handler' = handler /\ s \in armed /\ s \notin armed'
  <2>1. CASE CloseAsked(s)
    <3>1. handler = Idle /\ handler' = <<"close", s>> /\ armed' = armed
      BY <2>1 DEF CloseAsked, HandleClose, Receptive
    <3>2. \A t \in Sessions : <<"close", t>> # Idle BY DEF Idle
    <3> QED BY <3>1, <3>2
  <2>2. CASE ExpiryTimer(s) BY <2>2 DEF ExpiryTimer
  <2> QED BY <2>1, <2>2
<1>9. \A t \in Sessions \ {s} : SessionInv(t)'
  BY <1>4, <1>5, <1>6, <1>8, SessionInvKept DEF SessionKept
<1>10. SessionInv(s)'
  <2>1. SessionInv(s) /\ session \in [Sessions -> {"none", "open", "closing"}]
    BY <1>3, TypeParts DEF ClientInv, SessionsType
  <2>2. (mode = "running" /\ s \in armed => session[s] # "none")'
    BY <1>2, <1>4, <1>8, <2>1 DEF SessionInv
  <2>3. (mode = "running" /\ closing[s] # NotClosing =>
            session[s] = "closing" \/ (session[s] = "none" /\ handler = <<"close", s>>))'
    <3>1. CASE closing[s] = NotClosing
      BY <1>2, <1>4, <1>8, <2>1, <3>1 DEF SessionInv
    <3>2. CASE closing[s] # NotClosing
      BY <1>2, <1>4, <1>8, <2>1, <3>2 DEF SessionInv, Idle
    <3> QED BY <3>1, <3>2
  <2>4. (LiveCommandsOf(s) \subseteq closing[s].waits)'
    BY <1>4, <1>5, <2>1 DEF SessionInv
  <2>5. (WasClosed(s) => session[s] # "open")'
    BY <1>4, <1>5, <2>1 DEF SessionInv
  <2> QED BY <2>2, <2>3, <2>4, <2>5 DEF SessionInv
<1> QED BY <1>6, <1>7, <1>9, <1>10, ModeInvKept DEF ClientInv

\* A closure that ends leaves its Session gone.
LEMMA ClosureKeepsInv ==
    ASSUME ClientInv, TypeInv', NEW s \in Sessions, CloseSucceeds(s) \/ CloseFails(s)
    PROVE  ClientInv'
<1>1. ClosureEnds(s) BY DEF CloseSucceeds, CloseFails
<1>2. UNCHANGED <<closedSessions, control, leader, spawned, journal>>
  BY <1>1 DEF ClosureEnds, processVars
<1>3. LifeGoesOn
  <2>1. \/ UNCHANGED <<mode, quarantined>>
        \/ TerminalFailure
    BY DEF CloseSucceeds, CloseFails
  <2>2. mode \in {"running", "stopping", "dropping"} BY <1>1 DEF ClosureEnds, Alive
  <2> QED BY <2>1, <2>2
         DEF ClientInv, ModeInv, LifeGoesOn, TerminalFailure, quarantineLocalAuthority
<1>4. NoneBegins BY <1>2 DEF NoneBegins
<1>5. \A c \in Commands : CommandInv(c)' BY <1>2, <1>3, CommandInvKept DEF CommandKept
<1>6. session \in [Sessions -> {"none", "open", "closing"}] /\ closing \in [Sessions -> Closures]
  BY TypeParts DEF ClientInv, SessionsType, ClosingType
<1>7. ASSUME NEW t \in Sessions \ {s} PROVE SessionInv(t)'
  <2>1. /\ session'[t] = session[t] /\ closing'[t] = closing[t] /\ armed' \subseteq armed
        /\ handler = <<"close", t>> => handler' = handler
    BY <1>1, <1>6 DEF ClosureEnds
  <2> QED BY <1>2, <1>3, <1>4, <2>1, SessionInvKept DEF SessionKept, WasClosed
<1>8. SessionInv(s)'
  <2>1. session'[s] = "none" /\ closing'[s] = NotClosing /\ s \notin armed'
    BY <1>1, <1>6 DEF ClosureEnds
  <2> QED BY <2>1 DEF SessionInv
<1> QED BY <1>3, <1>4, <1>5, <1>7, <1>8, ModeInvKept DEF ClientInv

\* A step of one Command that the Sessions and the other Commands do not notice.
LEMMA OneTouched ==
    ASSUME ClientInv, TypeInv', LifeGoesOn, NoneBegins, NEW c \in Commands,
           \A d \in Commands \ {c} : CommandKept(d), CommandInv(c)',
           UNCHANGED <<session, armed, closing, closedSessions, handler>>
    PROVE  ClientInv'
<1>1. \A s \in Sessions : SessionInv(s)'
  BY SessionInvKept DEF SessionKept, WasClosed
<1>2. \A d \in Commands : CommandInv(d)' BY CommandInvKept
<1> QED BY <1>1, <1>2, ModeInvKept DEF ClientInv

\* A Command starts only when the journal has no entry of it, in an open Session.
LEMMA StartKeepsInv ==
    ASSUME ClientInv, TypeInv', NEW c \in Commands, startCommand(c)
    PROVE  ClientInv'
<1>1. /\ UNCHANGED <<mode, handler, session, armed, closing, closedSessions, quarantined>>
      /\ UNCHANGED <<leader, spawned>>
      /\ mode = "running"
  BY DEF startCommand, processVars, Receptive
<1>2. LifeGoesOn BY <1>1 DEF ClientInv, ModeInv, LifeGoesOn
<1>3. journal \in [Commands -> JournalStates] /\ control \in [Commands -> Controls]
  BY TypeParts DEF ClientInv, JournalType, CommandsType
<1>4. CommandInv(c) BY DEF ClientInv
<1>5. CASE startKnown(c)
  <2>1. UNCHANGED <<control, journal>> BY <1>5 DEF startKnown
  <2> QED BY <1>1, <1>2, <2>1, NothingTouched DEF CommandKept, SessionKept, WasClosed
<1>6. CASE startNew(c) /\ ~CanRun(c)
  <2>1. journal[c] = "none" /\ journal' = [journal EXCEPT ![c] = "failed"] /\ UNCHANGED control
    BY <1>6 DEF startNew, failCommand, Finish
  <2>2. \A d \in Commands \ {c} : CommandKept(d) BY <1>1, <1>3, <2>1 DEF CommandKept
  <2>3. CommandInv(c)' BY <1>1, <1>3, <1>4, <2>1 DEF CommandInv
  <2>4. NoneBegins BY <2>1 DEF NoneBegins
  <2> QED BY <1>1, <1>2, <2>2, <2>3, <2>4, OneTouched
<1>7. CASE startNew(c) /\ CanRun(c)
  <2> DEFINE s == SessionOf[c]
  <2>1. /\ journal[c] = "none" /\ session[s] = "open"
        /\ journal' = [journal EXCEPT ![c] = "running"]
        /\ control' = [control EXCEPT ![c].step = "preparing"]
    BY <1>7 DEF startNew, CanRun
  <2>2. s \in Sessions BY SessionOfType
  <2>3. control'[c].step = "preparing" /\ \A d \in Commands \ {c} : control'[d] = control[d]
    BY <1>3, <2>1 DEF Controls
  <2>4. \A d \in Commands \ {c} : CommandInv(d)'
    BY <1>1, <1>2, <1>3, <2>1, <2>3, CommandInvKept DEF CommandKept
  <2>5. CommandInv(c)' BY <1>1, <1>3, <1>4, <2>1, <2>3 DEF CommandInv
  <2>6. closing[s] = NotClosing BY <1>1, <2>1, <2>2 DEF ClientInv, SessionInv
  <2>7. ASSUME NEW t \in Sessions PROVE SessionInv(t)'
    <3>1. SessionInv(t) BY DEF ClientInv
    <3>2. CASE t = s BY <1>1, <2>6, <3>1, <3>2 DEF SessionInv, WasClosed
    <3>3. CASE t # s
      <4>1. LiveCommandsOf(t)' \subseteq LiveCommandsOf(t)
        BY <2>3, <3>3 DEF LiveCommandsOf
      <4> QED BY <1>1, <3>1, <4>1 DEF SessionInv, WasClosed
    <3> QED BY <3>2, <3>3
  <2>8. ModeInv' BY <1>1 DEF ClientInv, ModeInv
  <2> QED BY <2>4, <2>5, <2>7, <2>8 DEF ClientInv
<1> QED BY <1>5, <1>6, <1>7 DEF startCommand

\* A result is written for a Command that is over.
LEMMA EndingKeepsInv ==
    ASSUME ClientInv, TypeInv', NEW c \in Commands, NEW result \in Results,
           UNCHANGED <<session, armed, closing, closedSessions, handler, spawned>>,
           LifeGoesOn, Finish(c, result), control' = [control EXCEPT ![c] = NoControl],
           \A d \in Commands \ {c} : leader'[d] = leader[d],
           leader'[c] = "running" =>
               mode' # "running" /\ result = "execution_unknown" /\ quarantined'
    PROVE  ClientInv'
<1>1. journal \in [Commands -> JournalStates] /\ control \in [Commands -> Controls]
  BY TypeParts DEF ClientInv, JournalType, CommandsType
<1>2. journal' = [journal EXCEPT ![c] = result] BY DEF Finish
<1>3. journal'[c] = result /\ \A d \in Commands \ {c} : journal'[d] = journal[d]
  BY <1>1, <1>2
<1>4. control'[c].step = "none" /\ \A d \in Commands \ {c} : control'[d] = control[d]
  BY <1>1 DEF NoControl
<1>5. NoneBegins BY <1>4 DEF NoneBegins
<1>6. \A d \in Commands \ {c} : CommandKept(d) BY <1>3, <1>4 DEF CommandKept
<1>7. CommandInv(c)' BY <1>3, <1>4 DEF CommandInv, Results
<1> QED BY <1>5, <1>6, <1>7, OneTouched

\* A Command is spawned, ends, fails to end, is cancelled and acknowledged.
LEMMA CommandKeepsInv ==
    ASSUME ClientInv, TypeInv', NEW c \in Commands,
           \/ cancelCommand(c) \/ Acknowledged(c) \/ Preparation(c) \/ KillFailed(c)
           \/ \E natural \in {"succeeded", "failed"} : Exit(c, natural)
    PROVE  ClientInv'
<1>1. /\ journal \in [Commands -> JournalStates] /\ control \in [Commands -> Controls]
      /\ leader \in [Commands -> {"none", "running", "closed"}]
      /\ spawned \subseteq Commands
  BY TypeParts DEF ClientInv, JournalType, CommandsType
<1>2. CommandInv(c) BY DEF ClientInv
<1>3. CASE cancelCommand(c)
  <2>1. /\ UNCHANGED <<mode, session, armed, closing, closedSessions, leader, spawned, quarantined>>
        /\ handler = Idle
    BY <1>3 DEF cancelCommand, processVars, Receptive
  <2>2. LifeGoesOn BY <2>1 DEF ClientInv, ModeInv, LifeGoesOn
  <2>3. \A s \in Sessions : <<"close", s>> # Idle BY DEF Idle
  <2>4. CASE UNCHANGED journal /\ \A d \in Commands : control'[d].step = control[d].step
    BY <2>1, <2>2, <2>3, <2>4, NothingTouched DEF CommandKept, SessionKept, WasClosed
  <2>5. CASE control[c].step # "none"
    <3>1. Cancel({c}) /\ UNCHANGED journal BY <1>3, <2>5 DEF cancelCommand
    <3> QED BY <2>4, <3>1, CancelKeepsSteps DEF ClientInv, TypeInv
  <2>6. CASE control[c].step = "none" /\ journal[c] \in Results
    BY <1>3, <2>4, <2>6 DEF cancelCommand
  <2>7. CASE control[c].step = "none" /\ journal[c] \notin Results
    <3> DEFINE result == IF journal[c] = "none" THEN "cancelled" ELSE "execution_unknown"
    <3>1. Finish(c, result) /\ UNCHANGED <<control, handler>> BY <1>3, <2>7 DEF cancelCommand
    <3>2. journal' = [journal EXCEPT ![c] = result] BY <3>1 DEF Finish
    <3>3. journal'[c] = result /\ \A d \in Commands \ {c} : journal'[d] = journal[d]
      BY <1>1, <3>2
    <3>4. \A d \in Commands \ {c} : CommandKept(d) BY <2>1, <3>1, <3>3 DEF CommandKept
    <3>5. mode = "running" BY <1>3 DEF cancelCommand, Receptive
    <3>6. CommandInv(c)' BY <1>2, <2>1, <2>7, <3>1, <3>3, <3>5 DEF CommandInv
    <3> QED BY <2>1, <2>2, <3>1, <3>4, <3>6, OneTouched DEF NoneBegins
  <2> QED BY <2>5, <2>6, <2>7
<1>4. CASE Acknowledged(c)
  <2>1. /\ UNCHANGED <<mode, session, armed, closing, closedSessions, handler, leader, control, quarantined>>
        /\ mode = "running" /\ journal[c] \in Results
        /\ journal' = [journal EXCEPT ![c] = "none"] /\ spawned' = spawned \ {c}
    BY <1>4 DEF Acknowledged, volatileVars, Receptive
  <2>2. LifeGoesOn /\ NoneBegins BY <2>1 DEF ClientInv, ModeInv, LifeGoesOn, NoneBegins
  <2>3. \A d \in Commands \ {c} : CommandKept(d) BY <1>1, <2>1 DEF CommandKept
  <2>4. CommandInv(c)' BY <1>1, <1>2, <2>1 DEF CommandInv, Results
  <2> QED BY <2>1, <2>2, <2>3, <2>4, OneTouched
<1>5. CASE Spawned(c)
  <2>1. UNCHANGED <<mode, session, armed, closing, closedSessions, handler, journal, quarantined>>
    BY <1>5 DEF Spawned, commandUnchanged
  <2>2. /\ control'[c].step = "running" /\ leader'[c] = "running"
        /\ spawned' = spawned \cup {c} /\ control[c].step = "preparing"
        /\ \A d \in Commands \ {c} : control'[d] = control[d] /\ leader'[d] = leader[d]
    BY <1>1, <1>5 DEF Spawned, Controls
  <2>3. LifeGoesOn /\ NoneBegins BY <2>1, <2>2 DEF ClientInv, ModeInv, LifeGoesOn, NoneBegins
  <2>4. \A d \in Commands \ {c} : CommandKept(d) BY <2>1, <2>2 DEF CommandKept
  <2>5. CommandInv(c)' BY <1>2, <2>1, <2>2 DEF CommandInv
  <2> QED BY <2>1, <2>3, <2>4, <2>5, OneTouched
<1>6. CASE NotSpawned(c)
  <2>1. /\ UNCHANGED <<mode, session, armed, closing, closedSessions, handler, quarantined>>
        /\ UNCHANGED <<leader, spawned>> /\ control[c].step = "preparing"
        /\ control' = [control EXCEPT ![c] = NoControl]
        /\ Finish(c, Outcome(c, "failed"))
    BY <1>6 DEF NotSpawned, commandUnchanged, processVars
  <2>2. leader[c] # "running" BY <1>2, <2>1 DEF CommandInv
  <2>3. LifeGoesOn BY <2>1 DEF ClientInv, ModeInv, LifeGoesOn
  <2>4. Outcome(c, "failed") \in Results BY OutcomeIsResult
  <2> QED BY <2>1, <2>2, <2>3, <2>4, EndingKeepsInv
<1>7. ASSUME NEW natural \in {"succeeded", "failed"}, Exit(c, natural) PROVE ClientInv'
  <2>1. /\ UNCHANGED <<mode, session, armed, closing, closedSessions, handler, spawned, quarantined>>
        /\ leader' = [leader EXCEPT ![c] = "closed"]
        /\ control' = [control EXCEPT ![c] = NoControl]
        /\ Finish(c, Outcome(c, natural))
    BY <1>7 DEF Exit, commandUnchanged
  <2>2. leader'[c] # "running" /\ \A d \in Commands \ {c} : leader'[d] = leader[d]
    BY <1>1, <2>1
  <2>3. LifeGoesOn BY <2>1 DEF ClientInv, ModeInv, LifeGoesOn
  <2>4. Outcome(c, natural) \in Results BY OutcomeIsResult
  <2> QED BY <2>1, <2>2, <2>3, <2>4, EndingKeepsInv
<1>8. CASE KillFailed(c)
  <2>1. UNCHANGED <<session, armed, closing, closedSessions, handler, leader, spawned>>
    BY <1>8 DEF KillFailed, processVars
  <2>2. CASE control[c].step = "running"
    <3>1. /\ control' = [control EXCEPT ![c] = NoControl]
          /\ Finish(c, "execution_unknown")
          /\ TerminalFailure /\ mode \in {"running", "stopping", "dropping"}
      BY <1>8, <2>2 DEF KillFailed, Alive
    <3>2. quarantined' /\ mode' # "running" /\ LifeGoesOn
      BY <3>1 DEF TerminalFailure, quarantineLocalAuthority, LifeGoesOn
    <3>3. "execution_unknown" \in Results BY DEF Results
    <3> QED BY <2>1, <3>1, <3>2, <3>3, EndingKeepsInv
  <2>3. CASE control[c].step # "running"
    <3>1. UNCHANGED <<mode, control, journal, quarantined>> BY <1>8, <2>3 DEF KillFailed
    <3>2. LifeGoesOn BY <3>1 DEF ClientInv, ModeInv, LifeGoesOn
    <3> QED BY <2>1, <3>1, <3>2, NothingTouched DEF CommandKept, SessionKept, WasClosed
  <2> QED BY <2>2, <2>3
<1> QED BY <1>3, <1>4, <1>5, <1>6, <1>7, <1>8 DEF Preparation

\* The Client drops everything, and comes back knowing its journal.
LEMMA LifeKeepsInv ==
    ASSUME ClientInv, TypeInv',
           \/ dropLocalAuthority \/ Dropped \/ Crash \/ Restart
           \/ \E c \in Commands : CrashReceiving(c)
    PROVE  ClientInv'
<1>1. journal \in [Commands -> JournalStates]
  BY TypeParts DEF ClientInv, JournalType
<1>2. CASE dropLocalAuthority
  <2>1. /\ UNCHANGED <<armed, closing, closedSessions, leader, spawned, journal, quarantined>>
        /\ mode' = "dropping" /\ \A s \in Sessions : session'[s] = "none"
    BY <1>2 DEF dropLocalAuthority, processVars
  <2>2. /\ \A c \in Commands : control'[c].step = control[c].step
        /\ \A s \in Sessions : LiveCommandsOf(s)' = LiveCommandsOf(s)
    BY <1>2, CancelKeepsSteps DEF dropLocalAuthority, ClientInv, TypeInv
  <2>3. LifeGoesOn /\ NoneBegins
    BY <2>1, <2>2 DEF LifeGoesOn, NoneBegins
  <2>4. \A c \in Commands : CommandInv(c)' BY <2>1, <2>2, <2>3, CommandInvKept DEF CommandKept
  <2>5. \A s \in Sessions : SessionInv(s)'
    BY <2>1, <2>2 DEF ClientInv, SessionInv
  <2> QED BY <2>3, <2>4, <2>5, ModeInvKept DEF ClientInv
<1>3. CASE Dropped
  <2>1. /\ UNCHANGED <<handler, session, closing, closedSessions, control, leader, spawned, journal, quarantined>>
        /\ mode' = "halted" /\ armed' = {} /\ mode = "dropping"
        /\ \A c \in Commands : control[c].step = "none"
    BY <1>3 DEF Dropped, IsFinished, processVars
  <2>2. \A c \in Commands : CommandInv(c)' BY <2>1 DEF ClientInv, CommandInv
  <2>3. \A s \in Sessions : SessionInv(s)'
    BY <2>1 DEF ClientInv, SessionInv, LiveCommandsOf, WasClosed
  <2>4. ModeInv' BY <2>1 DEF ModeInv
  <2> QED BY <2>2, <2>3, <2>4 DEF ClientInv
<1>4. CASE Crash
  BY <1>4, ForgottenKeepsInv DEF Crash
<1>5. CASE Restart
  <2>1. /\ Forget /\ mode' = "running" /\ ~quarantined
        /\ journal' = [c \in Commands |->
              IF journal[c] \in {"received", "running"} THEN "execution_unknown" ELSE journal[c]]
    BY <1>5 DEF Restart, assertLocalAuthorityNotQuarantined
  <2>2. ~quarantined' BY <2>1 DEF Forget
  <2>3. \A c \in Commands : journal'[c] = "none" => journal[c] = "none" BY <2>1
  <2> QED BY <2>1, <2>2, <2>3, ForgottenKeepsInv
<1>6. ASSUME NEW c \in Commands, CrashReceiving(c) PROVE ClientInv'
  BY <1>1, <1>6, ForgottenKeepsInv DEF CrashReceiving
<1> QED BY <1>2, <1>3, <1>4, <1>5, <1>6

\* Every step keeps the invariant.
LEMMA ClientStep == ClientInv /\ [Next]_vars => ClientInv'
<1> SUFFICES ASSUME ClientInv, [Next]_vars PROVE ClientInv' OBVIOUS
<1>1. TypeInv' BY TypeStep DEF ClientInv
<1>2. CASE UNCHANGED vars
  <2>1. LifeGoesOn
    BY <1>2 DEF ClientInv, ModeInv, LifeGoesOn, vars
  <2> QED
    BY <1>1, <1>2, <2>1, NothingTouched
       DEF CommandKept, SessionKept, WasClosed, vars, volatileVars, processVars
<1>3. CASE Next
  BY <1>1, <1>3, OutsideKeepsInv, OpenKeepsInv, CloseKeepsInv, ClosureKeepsInv,
     StartKeepsInv, CommandKeepsInv, LifeKeepsInv
     DEF Next, Handle, Closure, Termination
<1> QED BY <1>2, <1>3

\* ClientInv holds in every state of the Client.
THEOREM ClientInvariant == Spec => []ClientInv
BY ClientInit, ClientStep, PTL DEF Spec

-----------------------------------------------------------------------------
(* What the Client promises *)

\* ResultsAreTrue: a result is of a Command nothing works on any more, and only
\* execution_unknown is said of a shell that may still run.
THEOREM ClientResultsAreTrue == Spec => []ResultsAreTrue
<1>1. ClientInv => ResultsAreTrue
  BY DEF ClientInv, CommandInv, ResultsAreTrue, Results
<1> QED BY <1>1, ClientInvariant, PTL

\* HaltedMeansStopped: a Client that halted outside quarantine left no shell of
\* its own running, however often it crashed and was terminated before.
THEOREM ClientHaltedMeansStopped == Spec => []HaltedMeansStopped
<1>1. ClientInv => HaltedMeansStopped
  BY DEF ClientInv, CommandInv, ModeInv, HaltedMeansStopped
<1> QED BY <1>1, ClientInvariant, PTL

\* RunsOnce: a shell is spawned once between two acknowledgements, through
\* repeated command.start messages, crashes and restarts.
THEOREM ClientRunsOnce == Spec => RunsOnce
<1>1. ClientInv => \A c \in Commands : Spawned(c) => c \notin spawned
  BY DEF ClientInv, CommandInv, Spawned
<1> QED BY <1>1, ClientInvariant, PTL DEF RunsOnce

\* What a step does to a result in the journal.
LEMMA ResultStays ==
    ASSUME ClientInv, Next, NEW c \in Commands, journal[c] \in Results
    PROVE  journal'[c] \in {journal[c], "none"}
<1>1. journal \in [Commands -> JournalStates] BY TypeParts DEF ClientInv, JournalType
<1>2. \A d \in Commands : control[d].step # "none" => journal[d] = "running"
  BY DEF ClientInv, CommandInv
<1>3. "none" \notin Results /\ "running" \notin Results /\ "received" \notin Results
  BY DEF Results
<1>4. ASSUME NEW d \in Commands, NEW state, journal[d] \notin Results,
             journal' = [journal EXCEPT ![d] = state]
      PROVE  journal'[c] = journal[c]
  BY <1>1, <1>4
<1>5. CASE UNCHANGED journal BY <1>5
<1>6. ASSUME NEW d \in Commands, startCommand(d) PROVE journal'[c] = journal[c]
  <2>1. CASE startNew(d)
    BY <1>3, <1>4, <2>1 DEF startNew, failCommand, Finish
  <2>2. CASE startKnown(d) BY <2>2 DEF startKnown
  <2> QED BY <1>6, <2>1, <2>2 DEF startCommand
<1>7. ASSUME NEW d \in Commands, cancelCommand(d) PROVE journal'[c] = journal[c]
  <2>1. CASE UNCHANGED journal BY <2>1
  <2>2. CASE journal[d] \notin Results
    BY <1>4, <1>7, <2>2 DEF cancelCommand, Finish
  <2> QED BY <1>7, <2>1, <2>2 DEF cancelCommand
<1>8. ASSUME NEW d \in Commands, Preparation(d) \/ KillFailed(d)
      PROVE  journal'[c] = journal[c]
  <2>1. CASE UNCHANGED journal BY <2>1
  <2>2. ASSUME NEW result, Finish(d, result), control[d].step # "none"
        PROVE  journal'[c] = journal[c]
    BY <1>2, <1>3, <1>4, <2>2 DEF Finish
  <2> QED BY <1>8, <2>1, <2>2 DEF Preparation, Spawned, NotSpawned, KillFailed
<1>9. ASSUME NEW d \in Commands, NEW natural, Exit(d, natural)
      PROVE  journal'[c] = journal[c]
  BY <1>2, <1>3, <1>4, <1>9 DEF Exit, Finish
<1>10. ASSUME NEW d \in Commands, Acknowledged(d) PROVE journal'[c] \in {journal[c], "none"}
  BY <1>1, <1>10 DEF Acknowledged
<1>11. ASSUME NEW d \in Commands, CrashReceiving(d) PROVE journal'[c] = journal[c]
  BY <1>3, <1>4, <1>11 DEF CrashReceiving
<1>12. CASE Restart BY <1>3, <1>12 DEF Restart
<1>13. ASSUME \/ Authenticated \/ ConnectionLost \/ Revoked \/ ServerReceives
              \/ StopGracefully \/ dropLocalAuthority \/ Dropped \/ Crash
       PROVE  UNCHANGED journal
  BY <1>13 DEF Authenticated, ConnectionLost, Revoked, ServerReceives, StopGracefully,
               dropLocalAuthority, Dropped, Crash
<1>14. ASSUME NEW s \in Sessions, openSession(s) \/ CloseAsked(s) \/ Closure(s) \/ Lapse(s)
       PROVE  UNCHANGED journal
  BY <1>14 DEF openSession, CloseAsked, HandleClose, Closure, ExpiryTimer, CloseSucceeds, CloseFails,
               ClosureEnds, Lapse
<1>15. ASSUME NEW d \in Commands, GroupEnds(d) \/ Timeout(d) \/ KillProved(d) \/ CancelReturns(d)
       PROVE  UNCHANGED journal
  BY <1>15 DEF GroupEnds, Timeout, KillProved, CancelReturns
<1> QED BY <1>5, <1>6, <1>7, <1>8, <1>9, <1>10, <1>11, <1>12, <1>13, <1>14, <1>15
        DEF Next, Handle, Termination

\* ResultIsFinal: a result in the journal goes only when it is acknowledged.
THEOREM ClientResultIsFinal == Spec => ResultIsFinal
<1>1. ClientInv /\ [Next]_vars =>
         [\A c \in Commands : journal[c] \in Results => journal'[c] \in {journal[c], "none"}]_vars
  BY ResultStays
<1> QED BY <1>1, ClientInvariant, PTL DEF ResultIsFinal, Spec

\* A Command becomes live only by starting in an open Session, while the Client
\* runs.
LEMMA BeginsOnlyByStart ==
    ASSUME ClientInv, Next, NEW c \in Commands, control[c].step = "none", control'[c].step # "none"
    PROVE  mode = "running" /\ session[SessionOf[c]] = "open"
<1>1. TypeOK /\ control \in [Commands -> Controls] BY TypeParts DEF ClientInv, CommandsType, TypeInv
<1>2. control' # control OBVIOUS
<1>3. ASSUME NEW C, Cancel(C) PROVE FALSE BY <1>1, <1>3, CancelKeepsSteps
<1>4. ASSUME NEW s \in Sessions, NEW reason, NEW byTimer, CloseSession(s, reason, byTimer)
      PROVE  FALSE
  BY <1>2, <1>3, <1>4 DEF CloseSession
<1>5. ASSUME Authenticated \/ ConnectionLost \/ Revoked \/ ServerReceives
             \/ StopGracefully \/ Dropped
      PROVE  FALSE
  BY <1>2, <1>5 DEF Authenticated, ConnectionLost, Revoked, ServerReceives, StopGracefully,
                    Dropped, volatileVars
<1>6. ASSUME NEW s \in Sessions, openSession(s) \/ CloseAsked(s) \/ Closure(s) \/ Lapse(s)
      PROVE  FALSE
  BY <1>2, <1>4, <1>6 DEF openSession, CloseAsked, HandleClose, Closure, ExpiryTimer, CloseSucceeds,
                          CloseFails, ClosureEnds, Lapse, volatileVars
<1>7. ~Forget BY DEF Forget, NoControl
<1>8. \A d \in Commands : ~CrashReceiving(d) /\ ~Crash /\ ~Restart
  BY <1>7 DEF CrashReceiving, Crash, Restart
<1>9. ~dropLocalAuthority BY <1>3 DEF dropLocalAuthority
<1>10. ASSUME NEW d \in Commands,
              cancelCommand(d) \/ Acknowledged(d) \/ GroupEnds(d) \/ KillProved(d) \/ CancelReturns(d)
       PROVE  FALSE
  BY <1>2, <1>3, <1>10 DEF cancelCommand, Acknowledged, GroupEnds, KillProved, CancelReturns,
                           volatileVars
<1>11. ASSUME NEW d \in Commands, control[d].step # "none",
              \E e : control' = [control EXCEPT ![d] = e]
       PROVE  FALSE
  BY <1>1, <1>11
<1>12. ASSUME NEW d \in Commands, Preparation(d) \/ KillFailed(d) \/ Timeout(d)
                                  \/ \E natural \in {"succeeded", "failed"} : Exit(d, natural)
       PROVE  FALSE
  <2>1. control[d].step # "none" \/ control' = control
    BY <1>12 DEF Preparation, Spawned, NotSpawned, KillFailed, Timeout, Exit
  <2>2. \E e : control' = [control EXCEPT ![d] = e] \/ control' = control
    BY <1>12 DEF Preparation, Spawned, NotSpawned, KillFailed, Timeout, Exit
  <2> QED BY <1>2, <1>11, <2>1, <2>2
<1>13. ASSUME NEW d \in Commands, startCommand(d)
       PROVE  mode = "running" /\ session[SessionOf[c]] = "open"
  <2>1. CanRun(d) /\ control' = [control EXCEPT ![d].step = "preparing"]
    BY <1>2, <1>13 DEF startCommand, startNew, startKnown
  <2>2. d = c BY <1>1, <2>1
  <2> QED BY <1>13, <2>1, <2>2 DEF CanRun, startCommand, Receptive
<1> QED BY <1>5, <1>6, <1>8, <1>9, <1>10, <1>12, <1>13 DEF Next, Handle, Termination

\* A report of a closure is put on its way by the closure itself, ...
LEMMA ReportedByClosure ==
    ASSUME ClientInv, Next, NEW s \in Sessions, NEW reason \in CloseReasons,
           Reported(Closed(s, reason))', ~Reported(Closed(s, reason))
    PROVE  CloseSucceeds(s)
<1> DEFINE report == Closed(s, reason)
<1>1. TypeInv /\ TypeOK /\ WireType BY TypeParts DEF ClientInv, TypeInv
<1>2. Reported(report)' /\ ~Reported(report) OBVIOUS
<1>3. /\ \A u : report # Opened(u) /\ report # OpenFailed(u)
      /\ \A c : report # Started(c)
      /\ \A c, v : report # Completed(c, v)
      /\ \A u, v : report = Closed(u, v) => s = u /\ reason = v
  BY ClosedIsApart
<1> HIDE DEF report
<1>4. ASSUME NEW message \in Messages, Deliver(<<message>>), message # report PROVE FALSE
  BY <1>1, <1>2, <1>4, Delivered
<1>5. ~(UNCHANGED <<buffer, out, answered>>) BY <1>1, <1>2, NothingDelivered
<1>6. ASSUME NEW c \in Commands, NEW result \in Results, Finish(c, result) PROVE FALSE
  BY <1>3, <1>4, <1>6, MessagesSent DEF Finish
<1>7. ASSUME buffer' = buffer \/ buffer' = <<>>, out' = <<>>, answered' = answered PROVE FALSE
  BY <1>1, <1>2, <1>7, WireLost
<1>8. ~ConnectionLost /\ ~Revoked BY <1>7 DEF ConnectionLost, Revoked
<1>9. ~Crash /\ ~Restart /\ \A c \in Commands : ~CrashReceiving(c)
  BY <1>7 DEF Crash, Restart, CrashReceiving, Forget
<1>10. ~Authenticated
  <2>1. ASSUME Authenticated PROVE FALSE
    <3>1. /\ buffer \in Seq(Messages) /\ out \in Seq(Messages) /\ out \o buffer \in Seq(Messages)
          /\ Reconciliation \in Seq(Messages)
      BY <1>1, Elements, ReconciliationReports DEF WireType
    <3>2. out' = (out \o buffer) \o Reconciliation /\ buffer' = <<>>
      BY <2>1 DEF Authenticated
    <3>3. PICK queue \in {buffer', out'} : \E i \in DOMAIN queue : queue[i] = report
      BY <1>2 DEF Reported
    <3>4. queue = out' BY <3>2, <3>3, EmptySeq
    <3>5. \/ \E i \in DOMAIN (out \o buffer) : (out \o buffer)[i] = report
          \/ \E i \in DOMAIN Reconciliation : Reconciliation[i] = report
      BY <3>1, <3>2, <3>3, <3>4, Elements
    <3>6. \/ \E i \in DOMAIN out : out[i] = report
          \/ \E i \in DOMAIN buffer : buffer[i] = report
      BY <1>1, <1>3, <3>1, <3>5, Elements, ReconciliationReports
    <3> QED BY <1>2, <3>6 DEF Reported
  <2> QED BY <2>1
<1>11. ~ServerReceives
  <2>1. ASSUME ServerReceives PROVE FALSE
    <3>1. out # <<>> /\ out' = Tail(out) /\ buffer' = buffer /\ out \in Seq(Messages)
      BY <1>1, <2>1 DEF ServerReceives, WireType
    <3>2. /\ Tail(out) \in Seq(Messages) /\ Len(Tail(out)) = Len(out) - 1
          /\ \A i \in 1..Len(Tail(out)) : Tail(out)[i] = out[i + 1]
      BY <3>1, HeadTailProperties
    <3>3. /\ DOMAIN out = 1..Len(out) /\ Len(out) \in Nat
          /\ DOMAIN Tail(out) = 1..Len(Tail(out))
      BY <3>1, <3>2, LenProperties
    <3>4. \A i \in DOMAIN out' : i + 1 \in DOMAIN out /\ out'[i] = out[i + 1]
      BY <3>1, <3>2, <3>3
    <3>5. ASSUME NEW i \in DOMAIN out', out'[i] = report PROVE Reported(report)
      <4>1. i + 1 \in DOMAIN out /\ out[i + 1] = report BY <3>4, <3>5
      <4> QED BY <4>1 DEF Reported
    <3>6. \A i \in DOMAIN buffer' : buffer'[i] = report => Reported(report)
      BY <3>1 DEF Reported
    <3>7. Reported(report)' => (\E i \in DOMAIN out' : out'[i] = report)
                               \/ (\E i \in DOMAIN buffer' : buffer'[i] = report)
      BY DEF Reported
    <3> QED BY <1>2, <3>5, <3>6, <3>7
  <2> QED BY <2>1
<1>12. ASSUME NEW t \in Sessions, openSession(t) PROVE FALSE
  <2>1. PICK message \in {Closed(t, "already_closed"), Opened(t), OpenFailed(t)} :
           Deliver(<<message>>)
    BY <1>12 DEF openSession
  <2>2. message \in Messages BY MessagesSent
  <2>3. message # report BY <1>3 DEF CloseReasons
  <2> QED BY <1>4, <2>1, <2>2, <2>3
<1>13. ASSUME NEW t \in Sessions, CloseAsked(t) \/ ExpiryTimer(t) \/ CloseFails(t) \/ Lapse(t)
       PROVE  FALSE
  BY <1>5, <1>13 DEF CloseAsked, HandleClose, ExpiryTimer, CloseFails, Lapse, DeliverNothing, wireVars
<1>14. ASSUME NEW t \in Sessions, CloseSucceeds(t) PROVE t = s
  <2>1. closing[t].reason \in CloseReasons
    BY <1>1, <1>14, TypeParts DEF CloseSucceeds, ClosureEnds, ClosingType, Closures
  <2>2. Closed(t, closing[t].reason) \in Messages BY <2>1, MessagesSent
  <2>3. report = Closed(t, closing[t].reason) BY <1>4, <1>14, <2>2 DEF CloseSucceeds
  <2> QED BY <1>3, <2>3
<1>15. ASSUME NEW c \in Commands, startCommand(c) PROVE FALSE
  <2>1. ~Deliver(<<Started(c)>>) BY <1>3, <1>4, MessagesSent
  <2>2. journal[c] \in Results => ~Deliver(<<Completed(c, journal[c])>>)
    BY <1>3, <1>4, MessagesSent
  <2>3. ~failCommand(c) BY <1>6 DEF failCommand, Results
  <2> QED BY <1>5, <1>15, <2>1, <2>2, <2>3 DEF startCommand, startNew, startKnown, DeliverNothing
<1>16. ASSUME NEW c \in Commands, cancelCommand(c) PROVE FALSE
  <2>1. journal[c] \in Results => ~Deliver(<<Completed(c, journal[c])>>)
    BY <1>3, <1>4, MessagesSent
  <2>2. ~Finish(c, "cancelled") /\ ~Finish(c, "execution_unknown") BY <1>6 DEF Results
  <2> QED BY <1>5, <1>16, <2>1, <2>2 DEF cancelCommand, DeliverNothing
<1>17. ASSUME NEW c \in Commands, NotSpawned(c) \/ KillFailed(c)
                                  \/ \E natural \in {"succeeded", "failed"} : Exit(c, natural)
       PROVE  FALSE
  <2>1. ~Finish(c, "execution_unknown") BY <1>6 DEF Results
  <2>2. \A natural \in {"succeeded", "failed"} : ~Finish(c, Outcome(c, natural))
    BY <1>6, OutcomeIsResult
  <2> QED BY <1>5, <1>17, <2>1, <2>2 DEF NotSpawned, KillFailed, Exit, DeliverNothing
<1>18. ASSUME NEW c \in Commands,
              Acknowledged(c) \/ Spawned(c) \/ KillProved(c) \/ CancelReturns(c)
              \/ GroupEnds(c) \/ Timeout(c)
       PROVE  FALSE
  BY <1>5, <1>18 DEF Acknowledged, Spawned, KillProved, CancelReturns, GroupEnds, Timeout,
                     DeliverNothing, wireVars
<1>19. ~StopGracefully /\ ~dropLocalAuthority /\ ~Dropped
  BY <1>5 DEF StopGracefully, dropLocalAuthority, Dropped, wireVars
<1> QED BY <1>8, <1>9, <1>10, <1>11, <1>12, <1>13, <1>14, <1>15, <1>16, <1>17, <1>18, <1>19
        DEF Next, Handle, Closure, Preparation, Termination

\* ... which ends when none of its Session's Commands is live.
LEMMA ClosureLeavesNone ==
    ASSUME ClientInv, NEW s \in Sessions, CloseSucceeds(s)
    PROVE  LiveCommandsOf(s)' = {}
<1>1. LiveCommandsOf(s) \subseteq closing[s].waits
  BY DEF ClientInv, SessionInv, CloseSucceeds, ClosureEnds
<1>2. /\ \A c \in closing[s].waits : control[c].step = "none"
      /\ control' = control
  BY DEF CloseSucceeds, ClosureEnds, IsFinished
<1> QED BY <1>1, <1>2 DEF LiveCommandsOf

\* ClosedMeansFinished: a Session is reported closed when it has no live
\* Command, and gets none while the Client remembers closing it.
THEOREM ClientClosedMeansFinished == Spec => ClosedMeansFinished
<1> DEFINE Step ==
       \A s \in Sessions :
          /\ \A reason \in CloseReasons :
                Reported(Closed(s, reason))' /\ ~Reported(Closed(s, reason)) =>
                    LiveCommandsOf(s)' = {}
          /\ WasClosed(s) => LiveCommandsOf(s)' \subseteq LiveCommandsOf(s)
<1>1. ASSUME ClientInv, Next PROVE Step
  <2>1. ASSUME NEW s \in Sessions, NEW reason \in CloseReasons,
               Reported(Closed(s, reason))', ~Reported(Closed(s, reason))
        PROVE  LiveCommandsOf(s)' = {}
    BY <1>1, <2>1, ReportedByClosure, ClosureLeavesNone
  <2>2. ASSUME NEW s \in Sessions, WasClosed(s)
        PROVE  LiveCommandsOf(s)' \subseteq LiveCommandsOf(s)
    <3>1. session[s] # "open" BY <1>1, <2>2 DEF ClientInv, SessionInv
    <3> QED BY <1>1, <3>1, BeginsOnlyByStart DEF LiveCommandsOf
  <2> QED BY <2>1, <2>2
<1>2. ClientInv /\ [Next]_vars => [Step]_vars BY <1>1
<1> QED BY <1>2, ClientInvariant, PTL DEF ClosedMeansFinished, Spec

\* A quarantined Client opens nothing, and stays quarantined.
LEMMA QuarantineStep ==
    ASSUME ClientInv, Next, quarantined
    PROVE  /\ quarantined' /\ mode' # "running"
           /\ \A s \in Sessions : session'[s] = "open" => session[s] = "open"
           /\ \A c \in Commands : control[c].step = "none" => control'[c].step = "none"
<1>1. mode # "running" BY DEF ClientInv, ModeInv
<1>2. ~Receptive BY <1>1 DEF Receptive
<1>3. session \in [Sessions -> {"none", "open", "closing"}]
  BY TypeParts DEF ClientInv, SessionsType
<1> DEFINE Kept == /\ quarantined' /\ mode' # "running"
                   /\ \A s \in Sessions : session'[s] = "open" => session[s] = "open"
<1>4. ASSUME ConnectionLost \/ ServerReceives \/ dropLocalAuthority \/ Dropped \/ Crash
      PROVE  Kept
  BY <1>1, <1>4 DEF ConnectionLost, ServerReceives, dropLocalAuthority, Dropped, Crash, Forget,
                    volatileVars
<1>5. ASSUME NEW s \in Sessions, ExpiryTimer(s) PROVE Kept
  BY <1>1, <1>3, <1>5 DEF ExpiryTimer, CloseSession
<1>6. ASSUME NEW s \in Sessions, CloseSucceeds(s) \/ CloseFails(s) PROVE Kept
  BY <1>1, <1>3, <1>6
     DEF CloseSucceeds, CloseFails, ClosureEnds, TerminalFailure, quarantineLocalAuthority
<1>7. ASSUME NEW s \in Sessions, Lapse(s) PROVE Kept
  BY <1>1, <1>7 DEF Lapse, volatileVars
<1>8. ASSUME NEW c \in Commands,
             Preparation(c) \/ KillProved(c) \/ CancelReturns(c) \/ Timeout(c)
             \/ \E natural \in {"succeeded", "failed"} : Exit(c, natural)
      PROVE  Kept
  BY <1>1, <1>8 DEF Preparation, Spawned, NotSpawned, KillProved, CancelReturns, Timeout, Exit,
                    commandUnchanged
<1>9. ASSUME NEW c \in Commands, KillFailed(c) PROVE Kept
  BY <1>1, <1>9 DEF KillFailed, TerminalFailure, quarantineLocalAuthority
<1>10. ASSUME NEW c \in Commands, GroupEnds(c) PROVE Kept
  BY <1>1, <1>10 DEF GroupEnds, volatileVars
<1>11. /\ ~Authenticated /\ ~Revoked /\ ~StopGracefully /\ ~Restart
       /\ \A s \in Sessions : ~openSession(s) /\ ~CloseAsked(s)
       /\ \A c \in Commands : /\ ~startCommand(c) /\ ~cancelCommand(c) /\ ~Acknowledged(c)
                              /\ ~CrashReceiving(c)
  BY <1>1, <1>2 DEF Authenticated, Revoked, StopGracefully, Restart,
     assertLocalAuthorityNotQuarantined, openSession, CloseAsked, HandleClose, startCommand, cancelCommand,
     Acknowledged, CrashReceiving
<1>12. Kept
  BY <1>4, <1>5, <1>6, <1>7, <1>8, <1>9, <1>10, <1>11 DEF Next, Handle, Closure, Termination
<1>13. \A c \in Commands : control[c].step = "none" => control'[c].step = "none"
  BY <1>1, BeginsOnlyByStart
<1> QED BY <1>12, <1>13

\* QuarantineHolds: nothing a quarantined profile does, a restart included,
\* gives it authority again.
THEOREM ClientQuarantineHolds == Spec => QuarantineHolds
<1> DEFINE Step ==
       quarantined => /\ quarantined'
                      /\ mode' = "running" => mode = "running"
                      /\ \A s \in Sessions : session'[s] = "open" => session[s] = "open"
                      /\ \A c \in Commands : control[c].step = "none" => control'[c].step = "none"
<1>1. ClientInv /\ [Next]_vars => [Step]_vars BY QuarantineStep
<1> QED BY <1>1, ClientInvariant, PTL DEF QuarantineHolds, Spec

=============================================================================
