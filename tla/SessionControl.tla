----------------------------- MODULE SessionControl -----------------------------
(*****************************************************************************)
(* The Server and a Client with the wire between them.                       *)
(*                                                                           *)
(* SessionStore's reports are now what the Client really sent, and the       *)
(* Client handles what the Server really sent: after each database statement *)
(* the Server's messages go out one by one, and what it sends while the      *)
(* Machine is unreachable is gone.  A reconnect is reconciled from two reads *)
(* of the database (reconnectState) and from the Client's journal.           *)
(*                                                                           *)
(* One Machine; the Sessions were just created by an Operator.  Role changes *)
(* and revocations are in SessionStore alone.  Server and Client clocks      *)
(* agree, and a connection has ended for the Server once a new one is        *)
(* authenticated.                                                            *)
(*****************************************************************************)
EXTENDS Naturals, Sequences, FiniteSets

CONSTANTS
    Sessions, Commands, Agents, Machines, Keys, Policies, Request, Order, MaxClock, None,
    SessionLimit, CommandLimit, BufferLimit, ClosedLimit, WireLimit,
    FaultKinds,       \* which of "break", "crash", "stop" and "repeat" happen
    MaxFaults,        \* bound on how many of them do
    SendLimit         \* bound on batches of messages an operation adds to

ASSUME BoundsType ==
    /\ {MaxFaults, SendLimit} \subseteq Nat
    /\ {SessionLimit, CommandLimit, BufferLimit, ClosedLimit, WireLimit} \subseteq Nat \ {0}

\* requestSession's and createCommand's parameters, as the schema admits them.
ASSUME RequestType ==
    Request \in [Sessions -> [agent : Agents, machine : Machines, key : Keys,
                              duration : Nat \ {0}]]
ASSUME OrderType ==
    Order \in [Commands -> [session : Sessions, key : Keys, timeout : Nat \ {0}]]

\* Every Session has its row from the start, and a table has finitely many.
ASSUME SessionsAreFinite == IsFiniteSet(Sessions)

VARIABLES
    \* of SessionStore
    clock, agentRole, machineAuthority, sessionStatus, createdAt, expiresAt,
    maxConcurrentCommands, commandStatus, approved, request, create, admin,
    \* of Client
    mode, conn, handler, session, armed, lapsed, closing, closedSessions, control, kill,
    leader, members, journal, quarantined, buffer, out, answered, spawned,
    \* of the gateway and the wire
    linkUp,           \* the Machine's connection works
    toMachine,        \* sent by the Server and not yet handled
    sending,          \* messages that operations have still to send, in batches
    reconnect,        \* how far the reconciliation of a new connection is
    snapshot,         \* Session rows it read
    faults            \* how often a bounded action was taken

Store == INSTANCE SessionStore WITH Admins <- {}

\* What SessionStore asks of its other constants.
ASSUME StoreType ==
    /\ Policies \subseteq Store!LocalPolicy
    /\ MaxClock \in Nat
    /\ None \notin Sessions \cup Commands \cup Policies \cup Machines \cup Agents

SessionOf == [c \in Commands |-> Order[c].session]
Machine == INSTANCE Client WITH Admissible <- Sessions

storeVars == <<clock, agentRole, machineAuthority, sessionStatus, createdAt, expiresAt,
               maxConcurrentCommands, commandStatus, approved, request, create, admin>>
memoryVars == <<handler, session, armed, closing, closedSessions, control, kill>>
clientVars == <<mode, conn, buffer, out, answered, memoryVars, lapsed, leader, members, spawned,
                journal, quarantined>>
wireVars == <<linkUp, toMachine, sending, reconnect, snapshot>>
vars == <<storeVars, clientVars, wireVars, faults>>

Open(s) == [type |-> "session.open", id |-> s, value |-> "none"]
Close(s, reason) == [type |-> "session.close", id |-> s, value |-> reason]
Start(c) == [type |-> "command.start", id |-> c, value |-> "none"]
Stop(c) == [type |-> "command.cancel", id |-> c, value |-> "none"]
Acknowledge(c) == [type |-> "command.acknowledged", id |-> c, value |-> "none"]
Authentication == [type |-> "authenticated", id |-> "machine", value |-> "none"]

ServerMessages ==
    {Authentication}
    \cup {Open(s) : s \in Sessions} \cup {Close(s, r) : s \in Sessions, r \in {"expired", "closed"}}
    \cup {m[c] : m \in {[c \in Commands |-> Start(c)], [c \in Commands |-> Stop(c)],
                        [c \in Commands |-> Acknowledge(c)]}, c \in Commands}

\* Both sides and the messages between them stay well formed: only statuses and
\* messages the protocol knows are ever stored or sent.  (message hook)
TypeOK ==
    /\ Store!TypeOK /\ Machine!TypeOK
    /\ linkUp \in BOOLEAN
    /\ toMachine \in Seq(ServerMessages)
    /\ sending \subseteq Seq(ServerMessages)
    /\ reconnect \in {"none", "sessions", "commands"}
    /\ snapshot \in [Sessions -> Store!SessionStatuses \cup {"none"}]
    /\ faults \in 0..MaxFaults

\* Connected, and every Session inserted for an Operator, as the Local Policy
\* admits it; its session.open is the next thing to send.
Init ==
    /\ clock = 0
    /\ agentRole = [a \in Agents |-> "operator"]
    /\ \E policy \in Policies :
          /\ \A s \in Sessions : Request[s].duration <= policy.maxDuration
          /\ machineAuthority = [m \in Machines |-> [online |-> TRUE, policy |-> policy]]
          /\ maxConcurrentCommands = [s \in Sessions |-> policy.maxCommands]
          /\ request = [s \in Sessions |-> [step |-> "deliver", operator |-> TRUE,
                                            policy |-> policy, stamp |-> 0, answer |-> s]]
    /\ sessionStatus = [s \in Sessions |-> "opening"]
    /\ createdAt = [s \in Sessions |-> 0]
    /\ expiresAt = [s \in Sessions |-> Request[s].duration]
    /\ commandStatus = [c \in Commands |-> "none"]
    /\ approved = {}
    /\ create = [c \in Commands |-> Store!NewCreate]
    /\ admin = <<>>
    /\ mode = "running" /\ conn = "authenticated"
    /\ handler = Machine!Idle
    /\ session = [s \in Sessions |-> "none"]
    /\ armed = {} /\ lapsed = {}
    /\ closing = [s \in Sessions |-> Machine!NotClosing]
    /\ closedSessions = <<>>
    /\ control = [c \in Commands |-> Machine!NoControl]
    /\ kill = [c \in Commands |-> "no"]
    /\ leader = [c \in Commands |-> "none"]
    /\ members = {} /\ spawned = {}
    /\ journal = [c \in Commands |-> "none"]
    /\ quarantined = FALSE
    /\ buffer = <<>> /\ out = <<>> /\ answered = {}
    /\ linkUp = TRUE /\ toMachine = <<>> /\ sending = {}
    /\ reconnect = "none"
    /\ snapshot = [s \in Sessions |-> "none"]
    /\ faults = 0

-----------------------------------------------------------------------------
(* The Server's operations and what each sends *)

Fault(kind) == kind \in FaultKinds /\ faults < MaxFaults /\ faults' = faults + 1

\* gateway.send: on the connection there is, or nowhere.
Transmit(message) ==
    /\ Len(toMachine) < WireLimit
    /\ toMachine' = IF linkUp THEN Append(toMachine, message) ELSE toMachine

sendOnly == UNCHANGED <<clientVars, linkUp, reconnect, snapshot, faults>>
serverOnly == UNCHANGED <<clientVars, linkUp, toMachine, reconnect, snapshot>>
WillSend(messages) ==
    /\ messages \in sending \/ Cardinality(sending) < SendLimit
    /\ sending' = sending \cup {messages}

DeliverOpen(s) == Store!DeliverOpen(s) /\ Transmit(Open(s)) /\ sendOnly /\ UNCHANGED sending
DeliverStart(c) == Store!DeliverStart(c) /\ Transmit(Start(c)) /\ sendOnly /\ UNCHANGED sending

CreateStep(c) ==
    /\ \/ Store!commandByIdempotency(c) \/ Store!ReadSession(c) \/ Store!DecideCommand(c)
       \/ Store!CountCommands(c) \/ Store!createCommand(c)
    /\ UNCHANGED <<sending, faults>> /\ serverOnly

\* A repeated approval sends session.open again.
SuperviseAgain(s) ==
    /\ sessionStatus[s] \in {"opening", "active"}
    /\ WillSend(<<Open(s)>>) /\ Fault("repeat")
    /\ UNCHANGED storeVars /\ serverOnly

CompleteSession(s) ==
    /\ Store!CompleteSession(s)
    /\ WillSend(<<Close(s, "closed")>>) /\ serverOnly /\ UNCHANGED faults

\* One command.cancel for each Command just told to stop, then session.close.
StopsAndClose(s, reason) ==
    LET order == Machine!Listing(Store!ActiveCommandsOf(s)) IN
    Append([i \in DOMAIN order |-> Stop(order[i])], Close(s, reason))

CancelSession(s) ==
    /\ Store!CancelSession(s)
    /\ WillSend(StopsAndClose(s, "closed")) /\ serverOnly /\ UNCHANGED faults

\* finishSession on a Session already over changes nothing and closes it again.
FinishAgain(s) ==
    /\ sessionStatus[s] \in Store!TerminalSessionStatuses
    /\ WillSend(<<Close(s, "closed")>>) /\ Fault("repeat")
    /\ UNCHANGED storeVars /\ serverOnly

\* A Command already over is told to stop all the same.
CancelCommand(c) ==
    /\ \/ Store!requestCommandCancellation(c) /\ UNCHANGED faults
       \/ commandStatus[c] \in Store!ResultStatuses /\ UNCHANGED storeVars /\ Fault("repeat")
    /\ WillSend(<<Stop(c)>>) /\ serverOnly

\* The batches of one sweep, one for each Session it found.
Sweep ==
    LET granted == {s \in Sessions : /\ sessionStatus[s] \in {"opening", "active"}
                                     /\ Store!Expired(s)}
    IN  /\ Store!expireSessions
        /\ sending' = sending \cup {StopsAndClose(s, "expired") : s \in granted}
        /\ serverOnly /\ UNCHANGED faults

Tick == Store!Tick /\ UNCHANGED <<sending, faults>> /\ serverOnly

-----------------------------------------------------------------------------
(* The wire *)

\* The next message of an operation's batch.
Send ==
    /\ \E batch \in sending :
          /\ Transmit(Head(batch))
          /\ sending' = (sending \ {batch}) \cup (IF Len(batch) > 1 THEN {Tail(batch)} ELSE {})
    /\ UNCHANGED storeVars /\ sendOnly

\* The connection ends, with what was on its way in both directions.
LinkLost ==
    /\ linkUp' = FALSE /\ toMachine' = <<>> /\ reconnect' = "none"
    /\ snapshot' = [s \in Sessions |-> "none"]
    /\ UNCHANGED sending
    /\ \E m \in Machines : Store!setMachineOffline(m)

ClientIsCutOff ==
    /\ conn' = "down" /\ out' = <<>>
    /\ UNCHANGED <<mode, buffer, answered, memoryVars, lapsed, leader, members, spawned,
                   journal, quarantined>>

\* The network breaks.
Break ==
    /\ linkUp /\ mode = "running" /\ conn # "closing"
    /\ Fault("break")
    /\ LinkLost /\ ClientIsCutOff

\* A connection the Client closed ends.
Hangup ==
    /\ linkUp
    /\ conn = "closing" \/ mode # "running"
    /\ LinkLost /\ ClientIsCutOff
    /\ UNCHANGED faults

\* The gateway authenticates a new connection.
Reconnect ==
    /\ ~linkUp /\ mode = "running" /\ conn = "down"
    /\ linkUp' = TRUE
    /\ toMachine' = <<Authentication>>
    /\ reconnect' = "sessions"
    /\ \E m \in Machines : Store!putMachineAuthority(m, machineAuthority[m].policy)
    /\ UNCHANGED <<clientVars, sending, snapshot, faults>>

-----------------------------------------------------------------------------
(* Reconciliation: two reads of the database, then every message at once *)

Reconciled == {"opening", "active", "cancellation_requested"}

\* A variant with a defect: Sessions being wound down are not reconciled.
GrantedSessions == {s \in Sessions : sessionStatus[s] \in {"opening", "active"}}

SessionsToReconcile == {s \in Sessions : sessionStatus[s] \in Reconciled}

\* reconnectState's first query.
ReadSessions ==
    /\ reconnect = "sessions"
    /\ reconnect' = IF SessionsToReconcile = {} THEN "none" ELSE "commands"
    /\ snapshot' = [s \in Sessions |->
          IF s \in SessionsToReconcile THEN sessionStatus[s] ELSE "none"]
    /\ UNCHANGED <<storeVars, clientVars, linkUp, toMachine, sending, faults>>

\* A variant with a defect: only Sessions are sent again.
ReconnectSessionsOnly ==
    LET order == Machine!Listing({s \in Sessions : snapshot[s] \in {"opening", "active"}}) IN
    [i \in DOMAIN order |-> Open(order[i])]

\* sessionReconnectMessages, over the Sessions read before and the Commands now.
ReconnectMessages ==
    LET granted == {s \in Sessions : snapshot[s] \in {"opening", "active"}}
        withdrawn == {s \in Sessions : snapshot[s] = "cancellation_requested"}
        found == {c \in Commands : /\ Store!SessionOf[c] \in granted \cup withdrawn
                                   /\ commandStatus[c] \in Store!ActiveCommandStatuses}
        stopping == {c \in found : commandStatus[c] = "cancellation_requested"}
        starting == {c \in found \ stopping : Store!SessionOf[c] \in granted}
        Each(S, Message(_)) == LET order == Machine!Listing(S) IN
                               [i \in DOMAIN order |-> Message(order[i])]
    IN  Each(granted, Open) \o Each(starting, Start) \o Each(stopping, Stop)
        \o Each(withdrawn, LAMBDA s : Close(s, IF Store!Expired(s) THEN "expired" ELSE "closed"))

ReadCommands ==
    /\ reconnect = "commands"
    /\ toMachine' = toMachine \o ReconnectMessages
    /\ reconnect' = "none"
    /\ snapshot' = [s \in Sessions |-> "none"]
    /\ UNCHANGED <<storeVars, clientVars, linkUp, sending, faults>>

-----------------------------------------------------------------------------
(* Messages handled *)

\* The update of a report's handler, if its WHERE clause finds the row.
Record(report) ==
    \/ report.type = "session.opened" /\ Store!markSessionOpened(report.id)
    \/ report.type = "session.open_failed" /\ Store!markSessionFailed(report.id)
    \/ report.type = "session.closed" /\ Store!markSessionClosed(report.id, report.value)
    \/ report.type = "command.started" /\ Store!markCommandStarted(report.id)
    \/ report.type = "command.completed" /\ Store!markCommandCompleted(report.id, report.value)

\* A variant with a defect: a result of a Command that runs is not taken.
RecordableUnlessRunning(report) ==
    CASE report.type \in {"session.opened", "session.open_failed"} ->
            sessionStatus[report.id] = "opening"
      [] report.type = "session.closed" -> sessionStatus[report.id] \in Reconciled
      [] OTHER -> commandStatus[report.id] \in {"queued", "delivered"}

Recordable(report) ==
    CASE report.type \in {"session.opened", "session.open_failed"} ->
            sessionStatus[report.id] = "opening"
      [] report.type = "session.closed" -> sessionStatus[report.id] \in Reconciled
      [] report.type = "command.started" -> commandStatus[report.id] \in {"queued", "delivered"}
      [] OTHER -> commandStatus[report.id] \in Store!ActiveCommandStatuses

\* A result is acknowledged, in the same turn, whether or not it was the first.
ServerReceives ==
    /\ linkUp
    /\ Machine!ServerReceives
    /\ LET report == Head(out) IN
          /\ IF Recordable(report) THEN Record(report) ELSE UNCHANGED storeVars
          /\ IF report.type = "command.completed"
             THEN toMachine' = Append(toMachine, Acknowledge(report.id)) ELSE UNCHANGED toMachine
    /\ UNCHANGED <<linkUp, sending, reconnect, snapshot, faults>>

\* An acknowledgement of a result the journal no longer holds changes nothing.
AcknowledgedAgain(c) ==
    /\ Machine!Receptive
    /\ journal[c] \notin Machine!Results
    /\ UNCHANGED clientVars

Handle(message) ==
    \/ message = Authentication /\ Machine!Authenticated
    \/ message.type = "session.open" /\ Machine!openSession(message.id)
    \/ message.type = "session.close" /\ Machine!HandleClose(message.id, message.value)
    \/ message.type = "command.start" /\ Machine!startCommand(message.id)
    \/ message.type = "command.cancel" /\ Machine!cancelCommand(message.id)
    \/ /\ message.type = "command.acknowledged"
       /\ Machine!Acknowledged(message.id) \/ AcknowledgedAgain(message.id)

ClientReceives ==
    /\ toMachine # <<>>
    /\ toMachine' = Tail(toMachine)
    /\ Handle(Head(toMachine))
    /\ UNCHANGED <<storeVars, linkUp, sending, reconnect, snapshot, faults>>

-----------------------------------------------------------------------------
(* What the Client does by itself *)

clientOnly == UNCHANGED <<storeVars, wireVars, faults>>

Lapse(s) == Store!Expired(s) /\ Machine!Lapse(s) /\ clientOnly

\* The event loop: closures, preparations, terminations and the shutdown go on.
Settling ==
    /\ \/ \E s \in Sessions : Machine!Closure(s)
       \/ \E c \in Commands : \/ Machine!Preparation(c) \/ Machine!Termination(c)
                              \/ Machine!CancelReturns(c)
       \/ Machine!dropLocalAuthority \/ Machine!Dropped
    /\ clientOnly

\* What the Command's process and its timer do.
ProcessEvent(c) ==
    /\ \/ Machine!Timeout(c) /\ Fault("timeout")
       \/ Machine!GroupEnds(c) /\ UNCHANGED faults
       \/ /\ \E natural \in {"succeeded", "failed"} : Machine!Exit(c, natural)
          /\ UNCHANGED faults
    /\ UNCHANGED <<storeVars, wireVars>>

StopGracefully ==
    /\ Fault("stop")
    /\ Machine!StopGracefully
    /\ UNCHANGED <<storeVars, wireVars>>

\* A crash, at any point or while a command.start is journaled, ends the
\* connection too.
Crash ==
    /\ Fault("crash")
    /\ \/ Machine!Crash
       \/ \E c \in Commands : /\ toMachine # <<>> /\ Head(toMachine) = Start(c)
                              /\ Machine!CrashReceiving(c)
    /\ IF linkUp THEN LinkLost ELSE UNCHANGED <<storeVars, wireVars>>

Restart == ~linkUp /\ Machine!Restart /\ clientOnly

-----------------------------------------------------------------------------

Connecting == Hangup \/ Reconnect \/ ReadSessions \/ ReadCommands

Next ==
    \/ \E s \in Sessions :
          \/ DeliverOpen(s) \/ SuperviseAgain(s)
          \/ CompleteSession(s) \/ CancelSession(s) \/ FinishAgain(s)
          \/ Lapse(s)
    \/ \E c \in Commands : CreateStep(c) \/ DeliverStart(c) \/ CancelCommand(c) \/ ProcessEvent(c)
    \/ Sweep \/ Tick
    \/ Send \/ ServerReceives \/ ClientReceives
    \/ Break \/ Connecting
    \/ Settling \/ StopGracefully \/ Crash \/ Restart

Spec == Init /\ [][Next]_vars

\* Messages are delivered while the connection lasts, a Client that runs
\* reconnects, and its event loop goes on.  Nothing is assumed of Agents,
\* Humans, the clock and the Commands' processes.
FairSpec ==
    /\ Spec
    /\ WF_vars(Send) /\ WF_vars(ServerReceives) /\ WF_vars(ClientReceives)
    /\ WF_vars(Connecting) /\ WF_vars(Settling)

-----------------------------------------------------------------------------
(* Properties *)

\* While the Server takes a Command to be running, the Client's journal holds
\* it: the one copy of its result is not deleted before the Server has it,
\* through breaks, crashes and repeated acknowledgements.
\* (markCommandCompleted, CommandJournal.acknowledge, reconcileJournalResults)
RunningMeansJournaled ==
    \A c \in Commands : commandStatus[c] = "running" => journal[c] # "none"

\* No message is on its way or being handled, on a connection that works.
Quiet ==
    /\ linkUp /\ conn = "authenticated" /\ mode = "running"
    /\ toMachine = <<>> /\ sending = {} /\ out = <<>> /\ reconnect = "none" /\ handler = Machine!Idle
    /\ \A s \in Sessions : request[s].step = "done" /\ closing[s] = Machine!NotClosing
    /\ \A c \in Commands : create[c].step # "deliver"

\* When nothing is on its way, the Server and the Client agree: every Session
\* was answered, one that may run Commands is open at the Client or has run out
\* there, and a Command the Server still waits for is under way.  Whatever a
\* break or a crash lost, reconciliation made good.
\* (sessionReconnectMessages, reconcileJournalResults, openSession)
QuietMeansAgreed == Quiet =>
    /\ \A s \in Sessions :
          /\ sessionStatus[s] # "opening"
          /\ sessionStatus[s] # "cancellation_requested"
          /\ sessionStatus[s] = "active" /\ s \notin lapsed => session[s] = "open"
    /\ \A c \in Commands :
          /\ commandStatus[c] \in Store!ActiveCommandStatuses
          /\ sessionStatus[Store!SessionOf[c]] = "active"
          => control[c].step # "none"

\* A Session told to end is ended by the Machine's answer, although messages
\* are lost and the Client restarts, as long as the Client comes back.
\* (session.close, sessionReconnectMessages, closeSession)
WithdrawalIsAnswered ==
    \A s \in Sessions : sessionStatus[s] = "cancellation_requested" ~>
        sessionStatus[s] \in Store!TerminalSessionStatuses \/ mode # "running"

\* Every result in the journal reaches the Server in the end: one dropped from
\* the buffer, lost with a connection or left by a crash is sent again.
\* (reconcileJournalResults, ClientMessageBuffer)
ResultsReachTheServer ==
    \A c \in Commands : journal[c] \in Machine!Results ~>
        commandStatus[c] \in Store!ResultStatuses \/ mode # "running"

-----------------------------------------------------------------------------
(* What the documentation says and the code does not keep *)

\* docs/design: "Disconnects do not silently repeat Commands."  createCommand
\* sends command.start after the row is there; a reconnect in between sends it
\* too, and once that run is acknowledged the journal does not know the Command
\* any more.
SucceededMeansStopped ==
    \A c \in Commands : commandStatus[c] = "succeeded" => leader[c] # "running"

\* docs/sessions: a Machine that reconnects reconciles its active Session ids
\* with the Server and fails closed for stale authority.
ReconciledMeansAgreed == Quiet =>
    \A s \in Sessions : sessionStatus[s] \in Store!TerminalSessionStatuses => session[s] = "none"

=============================================================================
