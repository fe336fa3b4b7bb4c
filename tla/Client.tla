--------------------------------- MODULE Client ---------------------------------
(*****************************************************************************)
(* The Client (apps/client): the process that holds a Machine's local        *)
(* authority.  It opens and closes Sessions on the Server's word, runs each  *)
(* Command as a detached process group, keeps a durable journal of Commands, *)
(* and shuts itself down, for good when it must, if it cannot prove that a   *)
(* process it was told to stop has stopped.                                  *)
(*                                                                           *)
(* Every event-loop turn that runs to its next await is one action.          *)
(* Messages are handled one at a time (messageQueue): a handler that awaits  *)
(* holds the next message back, while timers, process exits and the socket   *)
(* go on.  What the Server sends is unconstrained here.  Command output and  *)
(* heartbeats are left out.                                                  *)
(*****************************************************************************)
EXTENDS Naturals, Sequences, FiniteSets

CONSTANTS
    Sessions, Commands,
    SessionOf,        \* the Session each command.start names
    Admissible,       \* Sessions whose contract the Local Policy admits
    SessionLimit,     \* Local Policy: maxConcurrentSessions
    CommandLimit,     \* the contract's maxConcurrentCommands
    BufferLimit,      \* capacity of ClientMessageBuffer
    ClosedLimit,      \* capacity of closedSessions
    WireLimit         \* bound on messages sent and not yet received

ASSUME SessionOfType == SessionOf \in [Commands -> Sessions]
ASSUME LimitsType == {SessionLimit, CommandLimit, BufferLimit, ClosedLimit, WireLimit} \subseteq Nat \ {0}

VARIABLES
    mode,             \* life of the process
    conn,             \* its socket
    handler,          \* what the message being handled awaits
    session,          \* sessions: the live Session objects
    armed,            \* Sessions whose expiryTimer is set
    lapsed,           \* Sessions whose local deadline has passed
    closing,          \* closingSessions: the closures under way
    closedSessions,
    control,          \* commands: the PendingCommand of each live Command
    kill,             \* terminateProcessTree for the Command's process
    leader,           \* the Command's shell process, as the Client sees it
    members,          \* Commands whose process group still has processes
    journal,          \* durable: the commands table of commands.sqlite
    quarantined,      \* durable: authority-quarantine.json exists
    buffer,           \* bufferedMessages
    out,              \* messages sent and not yet received
    answered,         \* Commands the Server received a result of
    spawned           \* Commands run since a result of theirs was last acknowledged

volatileVars == <<handler, session, armed, closing, closedSessions, control, kill>>
processVars == <<leader, members, spawned>>
wireVars == <<conn, buffer, out, answered>>
vars == <<mode, wireVars, volatileVars, lapsed, processVars, journal, quarantined>>

-----------------------------------------------------------------------------

Results == {"succeeded", "failed", "cancelled", "timed_out", "execution_unknown"}
JournalStates == {"none", "received", "running"} \cup Results

NotClosing == [waits |-> {}, reason |-> "none", timer |-> FALSE]
NoControl == [step |-> "none", cancelled |-> FALSE, timedOut |-> FALSE]
Idle == <<>>

Opened(s) == [type |-> "session.opened", id |-> s, value |-> "opened"]
OpenFailed(s) == [type |-> "session.open_failed", id |-> s, value |-> "failed"]
Closed(s, reason) == [type |-> "session.closed", id |-> s, value |-> reason]
Started(c) == [type |-> "command.started", id |-> c, value |-> "running"]
Completed(c, result) == [type |-> "command.completed", id |-> c, value |-> result]

CloseReasons == {"expired", "closed"}
Messages ==
    {Opened(s) : s \in Sessions} \cup {OpenFailed(s) : s \in Sessions}
    \cup {Closed(s, r) : s \in Sessions, r \in CloseReasons \cup {"already_closed"}}
    \cup {Started(c) : c \in Commands}
    \cup {Completed(c, r) : c \in Commands, r \in Results}

\* The Client's memory, journal and queues hold only what the code can put
\* there, and the buffer never outgrows its limit.  (Client, CommandJournal)
TypeOK ==
    /\ mode \in {"running", "stopping", "dropping", "halted", "crashed"}
    /\ conn \in {"down", "authenticated", "closing"}
    /\ handler \in {Idle} \cup {<<"close", s>> : s \in Sessions} \cup {<<"cancel", c>> : c \in Commands}
    /\ session \in [Sessions -> {"none", "open", "closing"}]
    /\ armed \subseteq Sessions
    /\ lapsed \subseteq Sessions
    /\ closing \in [Sessions -> [waits : SUBSET Commands,
                                 reason : CloseReasons \cup {"none"}, timer : BOOLEAN]]
    /\ closedSessions \in Seq(Sessions)
    /\ control \in [Commands -> [step : {"none", "preparing", "running"},
                                 cancelled : BOOLEAN, timedOut : BOOLEAN]]
    /\ kill \in [Commands -> {"no", "killing", "proved", "failed"}]
    /\ leader \in [Commands -> {"none", "running", "closed"}]
    /\ members \subseteq Commands
    /\ journal \in [Commands -> JournalStates]
    /\ quarantined \in BOOLEAN
    /\ buffer \in Seq(Messages) /\ Len(buffer) <= BufferLimit
    /\ out \in Seq(Messages)
    /\ answered \subseteq Commands
    /\ spawned \subseteq Commands

Init ==
    /\ mode = "running"
    /\ conn = "down"
    /\ handler = Idle
    /\ session = [s \in Sessions |-> "none"]
    /\ armed = {} /\ lapsed = {}
    /\ closing = [s \in Sessions |-> NotClosing]
    /\ closedSessions = <<>>
    /\ control = [c \in Commands |-> NoControl]
    /\ kill = [c \in Commands |-> "no"]
    /\ leader = [c \in Commands |-> "none"]
    /\ members = {} /\ spawned = {}
    /\ journal = [c \in Commands |-> "none"]
    /\ quarantined = FALSE
    /\ buffer = <<>> /\ out = <<>> /\ answered = {}

-----------------------------------------------------------------------------
(* Delivery *)

\* A variant with a defect: the buffer has no limit.
Everything(q) == q

\* The newest entries of a full buffer stay.
Newest(q) == SubSeq(q, 1 + (IF Len(q) > BufferLimit THEN Len(q) - BufferLimit ELSE 0), Len(q))

\* deliver: on the socket if it is authenticated and open, else in the buffer.
Deliver(messages) ==
    /\ IF conn = "authenticated"
       THEN out' = out \o messages /\ UNCHANGED buffer
       ELSE buffer' = Newest(buffer \o messages) /\ UNCHANGED out
    /\ UNCHANGED answered

DeliverNothing == UNCHANGED <<buffer, out, answered>>

Alive == mode \in {"running", "stopping", "dropping"}

\* A message can be handled: the queue is free and its socket is still the one.
\* The bound WireLimit keeps the Client from running ahead of its reader.
Receptive ==
    /\ mode = "running" /\ handler = Idle
    /\ conn \in {"authenticated", "closing"}
    /\ Len(out) < WireLimit

\* The elements of a finite set in some order.
Listing(S) ==
    CHOOSE f \in [1..Cardinality(S) -> S] : \A x \in S : \E i \in DOMAIN f : f[i] = x

\* A variant with a defect: only what a restart concluded is reported.
ReconciliationOfUnknown ==
    LET order == Listing({c \in Commands : journal[c] = "execution_unknown"}) IN
    [i \in DOMAIN order |-> Completed(order[i], journal[order[i]])]

\* Every result the journal holds.
Reconciliation ==
    LET order == Listing({c \in Commands : journal[c] \in Results}) IN
    [i \in DOMAIN order |-> Completed(order[i], journal[order[i]])]

-----------------------------------------------------------------------------
(* The connection *)

\* "authenticated": what was buffered goes first, then every journaled result.
Authenticated ==
    /\ mode = "running" /\ handler = Idle /\ conn = "down"
    /\ Len(out) < WireLimit
    /\ conn' = "authenticated"
    /\ out' = out \o buffer \o Reconciliation
    /\ buffer' = <<>>
    /\ UNCHANGED <<mode, answered, volatileVars, lapsed, processVars, journal, quarantined>>

ConnectionLost ==
    /\ conn # "down" \/ out # <<>>
    /\ conn' = "down" /\ out' = <<>>
    /\ UNCHANGED <<mode, buffer, answered, volatileVars, lapsed, processVars, journal, quarantined>>

\* Close code 4004: the Machine was revoked.
Revoked ==
    /\ mode = "running" /\ conn # "down"
    /\ conn' = "down" /\ out' = <<>>
    /\ mode' = "stopping"
    /\ UNCHANGED <<buffer, answered, volatileVars, lapsed, processVars, journal, quarantined>>

ServerReceives ==
    /\ out # <<>>
    /\ out' = Tail(out)
    /\ answered' = answered \cup
          {c \in Commands : \E r \in Results : Head(out) = Completed(c, r)}
    /\ UNCHANGED <<mode, conn, buffer, volatileVars, lapsed, processVars, journal, quarantined>>

-----------------------------------------------------------------------------
(* Cancelling *)

LiveCommandsOf(s) == {c \in Commands : SessionOf[c] = s /\ control[c].step # "none"}

\* PendingCommand.cancel on each of C: a process that runs is terminated, once;
\* a Command still preparing is aborted.
Cancel(C) ==
    /\ control' = [c \in Commands |->
          IF c \in C THEN [control[c] EXCEPT !.cancelled = TRUE] ELSE control[c]]
    /\ kill' = [c \in Commands |->
          IF c \in C /\ control[c].step = "running" /\ kill[c] = "no"
          THEN "killing" ELSE kill[c]]

\* A variant with a defect: the failure is not written down.
TerminalFailureUnmarked ==
    /\ IF mode = "running"
       THEN mode' = "stopping" /\ conn' = "down"
       ELSE UNCHANGED <<mode, conn>>
    /\ UNCHANGED quarantined

\* The file that keeps a Profile from ever starting again; one that is there
\* already stays.
quarantineLocalAuthority == quarantined' = TRUE
assertLocalAuthorityNotQuarantined == ~quarantined

\* beginTerminalFailure: quarantine, then shut down unless already doing so.
TerminalFailure ==
    /\ quarantineLocalAuthority
    /\ IF mode = "running"
       THEN mode' = "stopping" /\ conn' = "down"
       ELSE UNCHANGED <<mode, conn>>

-----------------------------------------------------------------------------
(* Sessions *)

OpenSessions == {s \in Sessions : session[s] # "none"}
WasClosed(s) == \E i \in DOMAIN closedSessions : closedSessions[i] = s

\* The Local Policy and the time that is left admit another Session.
localSessionDecision(s) ==
    s \in Admissible \ lapsed /\ Cardinality(OpenSessions) < SessionLimit

openSession(s) ==
    /\ Receptive
    /\ \/ /\ WasClosed(s)
          /\ Deliver(<<Closed(s, "already_closed")>>)
          /\ UNCHANGED <<session, armed>>
       \/ /\ ~WasClosed(s) /\ session[s] = "open"
          /\ Deliver(<<Opened(s)>>)
          /\ UNCHANGED <<session, armed>>
       \/ /\ ~WasClosed(s) /\ session[s] = "none"
          /\ localSessionDecision(s)
          /\ session' = [session EXCEPT ![s] = "open"]
          /\ armed' = armed \cup {s}
          /\ Deliver(<<Opened(s)>>)
       \/ /\ ~WasClosed(s)
          /\ \/ session[s] = "closing"
             \/ session[s] = "none" /\ ~localSessionDecision(s)
          /\ Deliver(<<OpenFailed(s)>>)
          /\ UNCHANGED <<session, armed>>
    /\ UNCHANGED <<mode, conn, handler, lapsed, closing, closedSessions, control, kill,
                   processVars, journal, quarantined>>

\* closedSessions.add and the eviction of the oldest entry.
Remember(s) ==
    IF WasClosed(s) THEN closedSessions
    ELSE IF Len(closedSessions) < ClosedLimit THEN Append(closedSessions, s)
    ELSE Append(Tail(closedSessions), s)

\* closeSession up to its first await; a closure under way is joined.
CloseSession(s, reason, byTimer) ==
    IF closing[s] # NotClosing
    THEN /\ closing' = [closing EXCEPT ![s].timer = @ \/ byTimer]
         /\ UNCHANGED <<closedSessions, session, control, kill>>
    ELSE /\ closedSessions' = Remember(s)
         /\ session' = [session EXCEPT ![s] = IF @ = "open" THEN "closing" ELSE @]
         /\ Cancel(LiveCommandsOf(s))
         /\ closing' = [closing EXCEPT ![s] =
               [waits |-> LiveCommandsOf(s), reason |-> reason, timer |-> byTimer]]

HandleClose(s, reason) ==
    /\ Receptive
    /\ CloseSession(s, reason, FALSE)
    /\ handler' = <<"close", s>>
    /\ DeliverNothing
    /\ UNCHANGED <<mode, conn, armed, lapsed, processVars, journal, quarantined>>

\* The Server closes a Session that is over, or one whose time is.
CloseAsked(s) == \E reason \in CloseReasons : HandleClose(s, reason)

\* A variant with a defect: deadlines are kept only while the Server is there.
ExpiryTimerOnline(s) ==
    /\ Alive /\ conn = "authenticated"
    /\ s \in armed \cap lapsed
    /\ armed' = armed \ {s}
    /\ CloseSession(s, "expired", TRUE)
    /\ DeliverNothing
    /\ UNCHANGED <<mode, conn, handler, lapsed, processVars, journal, quarantined>>

\* The expiry timer of a Session.
ExpiryTimer(s) ==
    /\ Alive
    /\ s \in armed \cap lapsed
    /\ armed' = armed \ {s}
    /\ CloseSession(s, "expired", TRUE)
    /\ DeliverNothing
    /\ UNCHANGED <<mode, conn, handler, lapsed, processVars, journal, quarantined>>

Lapse(s) ==
    /\ s \notin lapsed
    /\ lapsed' = lapsed \cup {s}
    /\ UNCHANGED <<mode, wireVars, volatileVars, processVars, journal, quarantined>>

\* Every cancellation the closure started has settled.
CancelsSettled(s) == \A c \in closing[s].waits : kill[c] # "killing"
SomeKillFailed(s) == \E c \in closing[s].waits : kill[c] = "failed"

ClosureEnds(s) ==
    /\ Alive /\ closing[s] # NotClosing
    /\ session' = [session EXCEPT ![s] = "none"]
    /\ armed' = armed \ {s}
    /\ closing' = [closing EXCEPT ![s] = NotClosing]
    /\ handler' = IF handler = <<"close", s>> THEN Idle ELSE handler
    /\ UNCHANGED <<lapsed, closedSessions, control, kill, processVars, journal>>

\* A variant with a defect: the closure does not wait until its Commands finished.
CloseUnwaited(s) ==
    /\ CancelsSettled(s) /\ ~SomeKillFailed(s)
    /\ ClosureEnds(s)
    /\ Deliver(<<Closed(s, closing[s].reason)>>)
    /\ UNCHANGED <<mode, conn, quarantined>>

\* PendingCommand.markFinished has been called.
IsFinished(c) == control[c].step = "none"

CloseSucceeds(s) ==
    /\ CancelsSettled(s) /\ ~SomeKillFailed(s)
    /\ \A c \in closing[s].waits : IsFinished(c)
    /\ ClosureEnds(s)
    /\ Deliver(<<Closed(s, closing[s].reason)>>)
    /\ UNCHANGED <<mode, conn, quarantined>>

\* The closure rejects: its message handler closes the socket (4002), its timer
\* treats it as a terminal failure.
CloseFails(s) ==
    /\ CancelsSettled(s) /\ SomeKillFailed(s)
    /\ ClosureEnds(s)
    /\ DeliverNothing
    /\ IF closing[s].timer
       THEN TerminalFailure
       ELSE /\ conn' = IF conn = "authenticated" /\ handler = <<"close", s>>
                       THEN "closing" ELSE conn
            /\ UNCHANGED <<mode, quarantined>>

-----------------------------------------------------------------------------
(* Commands *)

\* journal.complete and sendCompletion.
Finish(c, result) ==
    /\ journal' = [journal EXCEPT ![c] = result]
    /\ Deliver(<<Completed(c, result)>>)

\* The status of a Command whose process ended as `natural`.
Outcome(c, natural) ==
    IF control[c].timedOut THEN "timed_out"
    ELSE IF control[c].cancelled THEN "cancelled"
    ELSE natural

\* commandTimeoutMilliseconds > 0
HasTime(s) == s \notin lapsed

CanRun(c) ==
    LET s == SessionOf[c] IN
    /\ session[s] = "open" /\ HasTime(s)
    /\ Cardinality(LiveCommandsOf(s)) < CommandLimit

failCommand(c) == Finish(c, "failed")

\* journal.receive finds no entry.  A Command starts only in an open Session
\* with room for it; else it fails for good.
startNew(c) ==
    /\ journal[c] = "none"
    /\ \/ /\ CanRun(c)
          /\ control' = [control EXCEPT ![c].step = "preparing"]
          /\ journal' = [journal EXCEPT ![c] = "running"]
          /\ kill' = [kill EXCEPT ![c] = "no"]
          /\ Deliver(<<Started(c)>>)
       \/ /\ ~CanRun(c)
          /\ failCommand(c)
          /\ UNCHANGED <<control, kill>>

\* A Command already journaled is never run again: its result is repeated, or
\* it is still under way.
startKnown(c) ==
    /\ journal[c] # "none"
    /\ IF journal[c] \in Results
       THEN Deliver(<<Completed(c, journal[c])>>)
       ELSE DeliverNothing
    /\ UNCHANGED <<control, kill, journal>>

\* Bound: a Command is not started anew while its former process is still being
\* terminated.
startCommand(c) ==
    /\ Receptive
    /\ kill[c] # "killing" \/ journal[c] # "none"
    /\ startNew(c) \/ startKnown(c)
    /\ UNCHANGED <<mode, conn, handler, session, armed, lapsed, closing, closedSessions,
                   processVars, quarantined>>

commandUnchanged == UNCHANGED <<mode, conn, handler, session, armed, lapsed, closing,
                                closedSessions, quarantined>>

\* The executor resolved the working directory and spawned the shell.
Spawned(c) ==
    /\ Alive
    /\ control[c].step = "preparing" /\ ~control[c].cancelled
    /\ control' = [control EXCEPT ![c].step = "running"]
    /\ leader' = [leader EXCEPT ![c] = "running"]
    /\ members' = members \cup {c}
    /\ spawned' = spawned \cup {c}
    /\ DeliverNothing
    /\ UNCHANGED <<kill, journal>> /\ commandUnchanged

\* Preparation failed, or was aborted before a process existed.
NotSpawned(c) ==
    /\ Alive
    /\ control[c].step = "preparing"
    /\ control' = [control EXCEPT ![c] = NoControl]
    /\ Finish(c, Outcome(c, "failed"))
    /\ UNCHANGED <<kill, processVars>> /\ commandUnchanged

\* The shell's close event and the continuation of startCommand.
Exit(c, natural) ==
    /\ Alive
    /\ control[c].step = "running" /\ leader[c] = "running"
    /\ leader' = [leader EXCEPT ![c] = "closed"]
    /\ control' = [control EXCEPT ![c] = NoControl]
    /\ Finish(c, Outcome(c, natural))
    /\ UNCHANGED <<kill, members, spawned>> /\ commandUnchanged

\* The last process of the group ends, before or after the shell's close event.
GroupEnds(c) ==
    /\ c \in members
    /\ members' = members \ {c}
    /\ UNCHANGED <<mode, wireVars, volatileVars, lapsed, leader, spawned, journal, quarantined>>

\* The Command's own timer: whatever comes of the termination is ignored here.
Timeout(c) ==
    /\ Alive
    /\ control[c].step # "none" /\ ~control[c].timedOut
    /\ control' = [control EXCEPT ![c].timedOut = TRUE, ![c].cancelled = TRUE]
    /\ kill' = [kill EXCEPT ![c] = IF control[c].step = "running" /\ @ = "no"
                                   THEN "killing" ELSE @]
    /\ DeliverNothing
    /\ UNCHANGED <<processVars, journal>> /\ commandUnchanged

\* terminateProcessTree saw both the group and the shell end.
KillProved(c) ==
    /\ Alive
    /\ kill[c] = "killing" /\ leader[c] # "running" /\ c \notin members
    /\ kill' = [kill EXCEPT ![c] = "proved"]
    /\ DeliverNothing
    /\ UNCHANGED <<control, processVars, journal>> /\ commandUnchanged

\* A variant with a defect: a termination that failed is reported as if proved.
KillFailedAsCancelled(c) ==
    /\ Alive
    /\ kill[c] = "killing" /\ (leader[c] = "running" \/ c \in members)
    /\ kill' = [kill EXCEPT ![c] = "failed"]
    /\ IF control[c].step = "running"
       THEN /\ control' = [control EXCEPT ![c] = NoControl]
            /\ Finish(c, "cancelled")
            /\ TerminalFailure
       ELSE /\ DeliverNothing
            /\ UNCHANGED <<mode, conn, control, journal, quarantined>>
    /\ UNCHANGED <<handler, session, armed, lapsed, closing, closedSessions, processVars>>

\* It gave up on one of them.  A Command still waiting for its shell ends as
\* execution_unknown and the Client quarantines itself.
KillFailed(c) ==
    /\ Alive
    /\ kill[c] = "killing" /\ (leader[c] = "running" \/ c \in members)
    /\ kill' = [kill EXCEPT ![c] = "failed"]
    /\ IF control[c].step = "running"
       THEN /\ control' = [control EXCEPT ![c] = NoControl]
            /\ Finish(c, "execution_unknown")
            /\ TerminalFailure
       ELSE /\ DeliverNothing
            /\ UNCHANGED <<mode, conn, control, journal, quarantined>>
    /\ UNCHANGED <<handler, session, armed, lapsed, closing, closedSessions, processVars>>

\* A variant with a defect: the journal is not asked for an earlier result.
cancelCommandBlindly(c) ==
    /\ Receptive
    /\ \/ /\ control[c].step # "none"
          /\ Cancel({c})
          /\ handler' = <<"cancel", c>>
          /\ DeliverNothing /\ UNCHANGED journal
       \/ /\ control[c].step = "none"
          /\ Finish(c, "cancelled")
          /\ UNCHANGED <<control, kill, handler>>
    /\ UNCHANGED <<mode, conn, session, armed, lapsed, closing, closedSessions,
                   processVars, quarantined>>

cancelCommand(c) ==
    /\ Receptive
    /\ \/ /\ control[c].step # "none"
          /\ Cancel({c})
          /\ handler' = <<"cancel", c>>
          /\ DeliverNothing /\ UNCHANGED journal
       \/ /\ control[c].step = "none"
          /\ IF journal[c] \in Results
             THEN Deliver(<<Completed(c, journal[c])>>) /\ UNCHANGED journal
             ELSE Finish(c, IF journal[c] = "none" THEN "cancelled" ELSE "execution_unknown")
          /\ UNCHANGED <<control, kill, handler>>
    /\ UNCHANGED <<mode, conn, session, armed, lapsed, closing, closedSessions,
                   processVars, quarantined>>

\* A variant with a defect: a failed termination settles nothing.
CancelReturnsProved(c) ==
    /\ Alive
    /\ handler = <<"cancel", c>>
    /\ kill[c] = "proved" \/ (kill[c] = "no" /\ control[c].step = "none")
    /\ handler' = Idle
    /\ UNCHANGED <<mode, wireVars, session, armed, lapsed, closing, closedSessions,
                   control, kill, processVars, journal, quarantined>>

\* The handler of command.cancel gets its answer; a failure closes the socket.
CancelReturns(c) ==
    /\ Alive
    /\ handler = <<"cancel", c>>
    /\ kill[c] \in {"proved", "failed"} \/ (kill[c] = "no" /\ control[c].step = "none")
    /\ handler' = Idle
    /\ conn' = IF kill[c] = "failed" /\ conn = "authenticated" THEN "closing" ELSE conn
    /\ UNCHANGED <<mode, buffer, out, answered, session, armed, lapsed, closing, closedSessions,
                   control, kill, processVars, journal, quarantined>>

\* command.acknowledged, sent once the Server has a result for the Command.
Acknowledged(c) ==
    /\ Receptive
    /\ c \in answered /\ journal[c] \in Results
    /\ journal' = [journal EXCEPT ![c] = "none"]
    /\ spawned' = spawned \ {c}
    /\ UNCHANGED <<mode, wireVars, volatileVars, lapsed, leader, members, quarantined>>

-----------------------------------------------------------------------------
(* Stopping, crashing, restarting *)

\* SIGTERM or SIGINT.
StopGracefully ==
    /\ mode = "running"
    /\ mode' = "stopping" /\ conn' = "down"
    /\ UNCHANGED <<buffer, out, answered, volatileVars, lapsed, processVars, journal, quarantined>>

\* A variant with a defect: Commands are left to end by themselves.
dropSessionsOnly ==
    /\ mode = "stopping" /\ handler = Idle
    /\ mode' = "dropping"
    /\ session' = [s \in Sessions |-> "none"]
    /\ UNCHANGED <<wireVars, handler, armed, lapsed, closing, closedSessions, control, kill,
                   processVars, journal, quarantined>>

\* Once the message under way is handled, everything is cancelled.
dropLocalAuthority ==
    /\ mode = "stopping" /\ handler = Idle
    /\ mode' = "dropping"
    /\ session' = [s \in Sessions |-> "none"]
    /\ Cancel({c \in Commands : control[c].step # "none"})
    /\ UNCHANGED <<wireVars, handler, armed, lapsed, closing, closedSessions,
                   processVars, journal, quarantined>>

Dropped ==
    /\ mode = "dropping"
    /\ \A c \in Commands : IsFinished(c) /\ kill[c] # "killing"
    /\ mode' = "halted"
    /\ armed' = {}
    /\ UNCHANGED <<wireVars, handler, session, lapsed, closing, closedSessions, control, kill,
                   processVars, journal, quarantined>>

\* What a process that is gone forgets.  Its Commands' groups are detached:
\* nobody watches them any more.
Forget ==
    /\ conn' = "down" /\ buffer' = <<>> /\ out' = <<>>
    /\ handler' = Idle
    /\ session' = [s \in Sessions |-> "none"]
    /\ armed' = {}
    /\ closing' = [s \in Sessions |-> NotClosing]
    /\ closedSessions' = <<>>
    /\ control' = [c \in Commands |-> NoControl]
    /\ kill' = [c \in Commands |-> "no"]
    /\ leader' = [c \in Commands |-> "none"] /\ members' = {}
    /\ UNCHANGED <<answered, lapsed, spawned, quarantined>>

Crash ==
    /\ Alive
    /\ mode' = "crashed"
    /\ Forget /\ UNCHANGED journal

\* A crash between journal.receive and journal.markRunning.
CrashReceiving(c) ==
    /\ Receptive /\ journal[c] = "none"
    /\ journal' = [journal EXCEPT ![c] = "received"]
    /\ mode' = "crashed"
    /\ Forget

\* A variant with a defect: the quarantine file is not looked for.
RestartUnchecked ==
    /\ mode \in {"halted", "crashed"}
    /\ mode' = "running"
    /\ journal' = [c \in Commands |->
          IF journal[c] \in {"received", "running"} THEN "execution_unknown" ELSE journal[c]]
    /\ Forget

\* A variant with a defect: unfinished entries are deleted, not concluded.
RestartForgetting ==
    /\ mode \in {"halted", "crashed"} /\ ~quarantined
    /\ mode' = "running"
    /\ journal' = [c \in Commands |->
          IF journal[c] \in {"received", "running"} THEN "none" ELSE journal[c]]
    /\ Forget

\* The constructor's quarantine check and recoverInterrupted.
Restart ==
    /\ mode \in {"halted", "crashed"} /\ assertLocalAuthorityNotQuarantined
    /\ mode' = "running"
    /\ journal' = [c \in Commands |->
          IF journal[c] \in {"received", "running"} THEN "execution_unknown" ELSE journal[c]]
    /\ Forget

-----------------------------------------------------------------------------

Handle ==
    \/ \E s \in Sessions : openSession(s) \/ CloseAsked(s)
    \/ \E c \in Commands : startCommand(c) \/ cancelCommand(c) \/ Acknowledged(c)

Closure(s) == ExpiryTimer(s) \/ CloseSucceeds(s) \/ CloseFails(s)
Preparation(c) == Spawned(c) \/ NotSpawned(c)
Termination(c) == KillProved(c) \/ KillFailed(c)

Next ==
    \/ Authenticated \/ ConnectionLost \/ Revoked \/ ServerReceives
    \/ Handle
    \/ \E s \in Sessions : Closure(s) \/ Lapse(s)
    \/ \E c \in Commands :
          \/ Preparation(c) \/ Termination(c) \/ CancelReturns(c)
          \/ \E natural \in {"succeeded", "failed"} : Exit(c, natural)
          \/ GroupEnds(c) \/ Timeout(c) \/ CrashReceiving(c)
    \/ StopGracefully \/ dropLocalAuthority \/ Dropped
    \/ Crash \/ Restart

Spec == Init /\ [][Next]_vars

\* The event loop goes on: timers fire, a preparation resolves or rejects, and a
\* termination is given up in the end.  Nothing is assumed of the processes, the
\* connection or the Server.
FairSpec ==
    /\ Spec
    /\ \A s \in Sessions : WF_vars(Closure(s))
    /\ \A c \in Commands : /\ WF_vars(Preparation(c)) /\ WF_vars(Termination(c))
                           /\ WF_vars(CancelReturns(c))
    /\ WF_vars(dropLocalAuthority) /\ WF_vars(Dropped)

-----------------------------------------------------------------------------
(* Properties *)

Reported(message) ==
    \E queue \in {buffer, out} : \E i \in DOMAIN queue : queue[i] = message

\* However starts, retries, cancellations, crashes and restarts interleave, the
\* shell of a Command is spawned at most once before a result of it is
\* acknowledged.
\* (startCommand, CommandJournal.receive, recoverInterrupted)
RunsOnce == [][\A c \in Commands : Spawned(c) => c \notin spawned]_vars

\* The result in the journal, once written, is the Command's only one until the
\* Server acknowledges it: an exit, a failed termination, a late cancellation
\* and a restart never overwrite each other.  (CommandJournal.complete)
ResultIsFinal ==
    [][\A c \in Commands : journal[c] \in Results => journal'[c] \in {journal[c], "none"}]_vars

\* A Command has a result other than execution_unknown only when the shell it
\* ran has exited, or never existed; and a result only when nothing of the
\* Client works on the Command any more.  (startCommand, cancelCommand)
ResultsAreTrue ==
    \A c \in Commands : journal[c] \in Results =>
        /\ control[c].step = "none"
        /\ journal[c] # "execution_unknown" => leader[c] # "running"

\* When closeSession reports a Session closed, none of its Commands is live,
\* and none becomes so as long as the Client remembers closing it.
\* (closeSession, openSession, startCommand)
ClosedMeansFinished ==
    [][\A s \in Sessions :
          /\ \A reason \in CloseReasons :
                Reported(Closed(s, reason))' /\ ~Reported(Closed(s, reason)) =>
                    LiveCommandsOf(s)' = {}
          /\ WasClosed(s) => LiveCommandsOf(s)' \subseteq LiveCommandsOf(s)]_vars

\* A Client that stopped by itself or was stopped leaves no shell it started
\* running, unless its profile is quarantined.  (dropLocalAuthority,
\* beginTerminalFailure)
HaltedMeansStopped ==
    mode = "halted" => quarantined \/ \A c \in Commands : leader[c] # "running"

\* A profile under quarantine never holds authority again: nothing is opened
\* or started from then on, and it does not come back after a restart.
\* (assertLocalAuthorityNotQuarantined, handle)
QuarantineHolds ==
    [][quarantined => /\ quarantined'
                      /\ mode' = "running" => mode = "running"
                      /\ \A s \in Sessions : session'[s] = "open" => session[s] = "open"
                      /\ \A c \in Commands : control[c].step = "none" => control'[c].step = "none"]_vars

\* A Session whose deadline passed ends, whatever its Commands' processes do.
\* (expiryTimer, closeSession)
LapsedEnds == \A s \in Sessions : s \in lapsed ~> session[s] = "none"

\* A message never blocks the ones behind it for ever, and a Client that is
\* stopping stops: closures, cancellations and the shutdown do not wait for
\* each other in a circle.  (messageQueue, stop, beginTerminalShutdown)
HandlerReturns == handler # Idle ~> handler = Idle
StoppingHalts == mode = "stopping" ~> mode \in {"halted", "crashed"}

-----------------------------------------------------------------------------
(* What the documentation says and the code does not keep *)

\* docs/troubleshooting: "Graceful Session closure and cancellation terminate
\* the active process group."  A termination a timer started is not awaited by
\* the closure once the shell itself has exited.
ClosedMeansGroupsEnded ==
    \A s \in Sessions, c \in Commands :
        Reported(Closed(s, "closed")) /\ SessionOf[c] = s /\ kill[c] = "failed" =>
            c \notin members \/ quarantined

=============================================================================
