------------------------------ MODULE SessionStore ------------------------------
(*****************************************************************************)
(* The Server's Session authority: the rows of apps/server's PostgreSQL      *)
(* tables and every operation that changes them.                             *)
(*                                                                           *)
(* A database statement or transaction is one action.  A service call that   *)
(* awaits between statements (SessionService.requestSession, createCommand,  *)
(* the administrator's role change and Agent deletion) is a process whose    *)
(* steps are separated exactly at its awaits, so what it read may be stale   *)
(* when it writes.  What the Machine reports is unconstrained here: a report *)
(* may arrive late, twice or for anything.                                   *)
(*                                                                           *)
(* One Organization; columns that no property tells apart (title, purpose,   *)
(* command text, exit code, timestamps of the timeline) are left out.        *)
(*****************************************************************************)
EXTENDS Naturals, FiniteSets

CONSTANTS
    Sessions,     \* Session ids; each is the randomUUID of one requestSession call
    Commands,     \* Command ids; each is the randomUUID of one createCommand call
    Agents, Machines, Keys,
    Admins,       \* administrator calls that change a role, delete or revoke
    Policies,     \* Local Policies a Client may report when it connects
    Request,      \* what each requestSession call asks for
    Order,        \* what each createCommand call asks for
    MaxClock,     \* bound on the clock
    None

LocalPolicy == [maxDuration : Nat, maxSessions : Nat, maxCommands : Nat,
                maxTimeout : Nat, allowRemoteApproval : BOOLEAN]

ASSUME RequestType ==
    Request \in [Sessions -> [agent : Agents, machine : Machines, key : Keys,
                              duration : Nat \ {0}]]
ASSUME OrderType ==
    Order \in [Commands -> [session : Sessions, key : Keys, timeout : Nat \ {0}]]
ASSUME PoliciesType == Policies \subseteq LocalPolicy
ASSUME MaxClockType == MaxClock \in Nat
ASSUME NoneType ==
    None \notin Sessions \cup Commands \cup Policies \cup Machines \cup Agents

VARIABLES
    clock,            \* seconds of the Server's clock
    agentRole,        \* control database: role of each Agent, or "deleted"
    machineAuthority, \* machineAuthorities rows, or None
    sessionStatus, createdAt, expiresAt, maxConcurrentCommands,  \* sessions rows
    commandStatus,    \* commands rows
    approved,         \* Sessions a Human approved (the session.approved events)
    request,          \* progress of each requestSession call
    create,           \* progress of each createCommand call
    admin             \* progress of each administrator call

sessionVars == <<sessionStatus, createdAt, expiresAt, maxConcurrentCommands>>
callVars == <<request, create, admin>>
vars == <<clock, agentRole, machineAuthority, sessionVars, commandStatus,
          approved, callVars>>

-----------------------------------------------------------------------------
(* Statuses *)

ActiveSessionStatuses == {"pending_approval", "opening", "active"}
TerminalSessionStatuses == {"completed", "cancelled", "revoked", "expired", "failed"}
SessionStatuses ==
    ActiveSessionStatuses \cup {"cancellation_requested"} \cup TerminalSessionStatuses

ActiveCommandStatuses == {"queued", "delivered", "running", "cancellation_requested"}
ResultStatuses == {"succeeded", "failed", "cancelled", "timed_out", "execution_unknown"}
CommandStatuses == ActiveCommandStatuses \cup ResultStatuses

NoRow == "none"
Roles == {"standard", "operator"}

SessionOf == [c \in Commands |-> Order[c].session]
AgentOf(s) == Request[s].agent
MachineOf(s) == Request[s].machine

RequestSteps == {"idle", "replay", "machine", "count", "insert", "deliver", "done"}
CreateSteps == {"idle", "session", "machine", "count", "insert", "deliver", "done"}
AdminSteps == {"idle", "update", "revoke", "delete", "done"}

NewRequest == [step |-> "idle", operator |-> FALSE, policy |-> None,
               stamp |-> 0, answer |-> None]
NewCreate == [step |-> "idle", deadline |-> 0, answer |-> None]
NewAdmin == [step |-> "idle", agent |-> None, from |-> "standard", to |-> "standard"]

MachineAuthority == [online : BOOLEAN, policy : Policies]
RequestCall == [step : RequestSteps, operator : BOOLEAN, policy : Policies \cup {None},
                stamp : Nat, answer : Sessions \cup {None}]
CreateCall == [step : CreateSteps, deadline : Nat, answer : Commands \cup {None}]
AdminCall == [step : AdminSteps, agent : Agents \cup {None},
              from : Roles \cup {"deleted"}, to : Roles \cup {"deleted"}]

\* Every row, role and call record holds only what its columns and steps admit.
\* (sessions, commands and machineAuthorities tables)
TypeOK ==
    /\ clock \in Nat
    /\ agentRole \in [Agents -> Roles \cup {"deleted"}]
    /\ machineAuthority \in [Machines -> MachineAuthority \cup {None}]
    /\ sessionStatus \in [Sessions -> SessionStatuses \cup {NoRow}]
    /\ createdAt \in [Sessions -> Nat]
    /\ expiresAt \in [Sessions -> Nat]
    /\ maxConcurrentCommands \in [Sessions -> Nat]
    /\ commandStatus \in [Commands -> CommandStatuses \cup {NoRow}]
    /\ approved \subseteq Sessions
    /\ request \in [Sessions -> RequestCall]
    /\ create \in [Commands -> CreateCall]
    /\ admin \in [Admins -> AdminCall]

Init ==
    /\ clock = 0
    /\ agentRole \in [Agents -> Roles]
    /\ machineAuthority = [m \in Machines |-> None]
    /\ sessionStatus = [s \in Sessions |-> NoRow]
    /\ createdAt = [s \in Sessions |-> 0]
    /\ expiresAt = [s \in Sessions |-> 0]
    /\ maxConcurrentCommands = [s \in Sessions |-> 0]
    /\ commandStatus = [c \in Commands |-> NoRow]
    /\ approved = {}
    /\ request = [s \in Sessions |-> NewRequest]
    /\ create = [c \in Commands |-> NewCreate]
    /\ admin = [d \in Admins |-> NewAdmin]

-----------------------------------------------------------------------------
(* State the operations read *)

HasSession(s) == sessionStatus[s] # NoRow
HasCommand(c) == commandStatus[c] # NoRow

\* The row that already holds this call's idempotency key.
SessionsWithKey(s) ==
    {t \in Sessions : /\ HasSession(t)
                      /\ Request[t].agent = Request[s].agent
                      /\ Request[t].key = Request[s].key}
CommandsWithKey(c) ==
    {d \in Commands : /\ HasCommand(d)
                      /\ Order[d].session = Order[c].session
                      /\ Order[d].key = Order[c].key}

countActiveSessions(m) ==
    Cardinality({t \in Sessions : /\ MachineOf(t) = m
                                  /\ sessionStatus[t] \in ActiveSessionStatuses})
ActiveCommandsOf(s) ==
    {c \in Commands : SessionOf[c] = s /\ commandStatus[c] \in ActiveCommandStatuses}
countActiveCommands(s) == Cardinality(ActiveCommandsOf(s))

\* A variant with a defect: only Commands already running are told to stop.
CancelRunningCommandsOf(S) ==
    [c \in Commands |->
        IF SessionOf[c] \in S /\ commandStatus[c] = "running"
        THEN "cancellation_requested" ELSE commandStatus[c]]

\* The commands rows once the active Commands of the Sessions S are told to stop.
CancelCommandsOf(S) ==
    [c \in Commands |->
        IF SessionOf[c] \in S /\ commandStatus[c] \in ActiveCommandStatuses
        THEN "cancellation_requested" ELSE commandStatus[c]]

-----------------------------------------------------------------------------
(* requestSession: authenticate, look for a replay, read the Machine, count, *)
(* insert, deliver                                                           *)

RequestUnchanged == UNCHANGED <<clock, agentRole, machineAuthority,
                                commandStatus, approved, create, admin>>

\* The OAuth principal of the call: an existing Agent, with its role as of now.
BeginRequest(s) ==
    /\ request[s].step = "idle"
    /\ agentRole[AgentOf(s)] # "deleted"
    /\ request' = [request EXCEPT ![s].step = "replay",
                                  ![s].operator = (agentRole[AgentOf(s)] = "operator")]
    /\ RequestUnchanged /\ UNCHANGED sessionVars

Answer(s, t) == request' = [request EXCEPT ![s].step = "done", ![s].answer = t]
Deny(s) == Answer(s, None)

\* A row with the same key answers the call if it records the same request.
AnswerFrom(s, t) == IF Request[t] = Request[s] THEN Answer(s, t) ELSE Deny(s)

sessionByIdempotency(s) ==
    /\ request[s].step = "replay"
    /\ \/ \E t \in SessionsWithKey(s) : AnswerFrom(s, t)
       \/ /\ SessionsWithKey(s) = {}
          /\ request' = [request EXCEPT ![s].step = "machine"]
    /\ RequestUnchanged /\ UNCHANGED sessionVars

ReadMachineAuthority(s) ==
    LET authority == machineAuthority[MachineOf(s)] IN
    /\ request[s].step = "machine"
    /\ IF /\ authority # None
          /\ authority.online
          /\ Request[s].duration <= authority.policy.maxDuration
       THEN request' = [request EXCEPT ![s].step = "count",
                                       ![s].policy = authority.policy]
       ELSE Deny(s)
    /\ RequestUnchanged /\ UNCHANGED sessionVars

\* Counting the Machine's Sessions, the remaining checks of the policy read
\* before, and the time stamp of the row to insert.  The bound MaxClock lets a
\* Session be stamped only while its longest life ends before the clock stops.
CountSessions(s) ==
    LET policy == request[s].policy IN
    /\ request[s].step = "count"
    /\ clock + 2 * Request[s].duration <= MaxClock
    /\ IF /\ countActiveSessions(MachineOf(s)) < policy.maxSessions
          /\ policy.maxCommands >= 1
          /\ request[s].operator \/ policy.allowRemoteApproval
       THEN request' = [request EXCEPT ![s].step = "insert", ![s].stamp = clock]
       ELSE Deny(s)
    /\ RequestUnchanged /\ UNCHANGED sessionVars

\* A variant with a defect: no unique index on the key.
createSessionWithoutIndex(s) ==
    /\ request[s].step = "insert"
    /\ sessionStatus' = [sessionStatus EXCEPT
          ![s] = IF request[s].operator THEN "opening" ELSE "pending_approval"]
    /\ createdAt' = [createdAt EXCEPT ![s] = request[s].stamp]
    /\ expiresAt' = [expiresAt EXCEPT ![s] = request[s].stamp + Request[s].duration]
    /\ maxConcurrentCommands' =
          [maxConcurrentCommands EXCEPT ![s] = request[s].policy.maxCommands]
    /\ request' = [request EXCEPT ![s].step = "deliver", ![s].answer = s]
    /\ RequestUnchanged

\* The unique index on (organization, agent, key) decides between two calls
\* that both found no replay; the loser is answered from the winner's row.
createSession(s) ==
    /\ request[s].step = "insert"
    /\ \/ /\ \E t \in SessionsWithKey(s) : AnswerFrom(s, t)
          /\ UNCHANGED sessionVars
       \/ /\ SessionsWithKey(s) = {}
          /\ sessionStatus' = [sessionStatus EXCEPT
                ![s] = IF request[s].operator THEN "opening" ELSE "pending_approval"]
          /\ createdAt' = [createdAt EXCEPT ![s] = request[s].stamp]
          /\ expiresAt' = [expiresAt EXCEPT ![s] = request[s].stamp + Request[s].duration]
          /\ maxConcurrentCommands' =
                [maxConcurrentCommands EXCEPT ![s] = request[s].policy.maxCommands]
          /\ request' = [request EXCEPT ![s].step = "deliver", ![s].answer = s]
    /\ RequestUnchanged

\* After the audit event: session.open is sent if the row was created opening.
DeliverOpen(s) ==
    /\ request[s].step = "deliver"
    /\ request' = [request EXCEPT ![s].step = "done"]
    /\ RequestUnchanged /\ UNCHANGED sessionVars

RequestStep(s) ==
    \/ BeginRequest(s) \/ sessionByIdempotency(s) \/ ReadMachineAuthority(s)
    \/ CountSessions(s) \/ createSession(s) \/ DeliverOpen(s)

-----------------------------------------------------------------------------
(* createCommand: look for a replay, read the Session, read the Machine and  *)
(* decide, count, insert, deliver                                            *)

CreateUnchanged == UNCHANGED <<clock, agentRole, machineAuthority, sessionVars,
                               approved, request, admin>>

AnswerCommand(c, d) == create' = [create EXCEPT ![c].step = "done", ![c].answer = d]
DenyCommand(c) == AnswerCommand(c, None)
AnswerCommandFrom(c, d) ==
    IF Order[d] = Order[c] THEN AnswerCommand(c, d) ELSE DenyCommand(c)

\* The call names a Session, whose id an Agent knows only from its row.
commandByIdempotency(c) ==
    /\ create[c].step = "idle"
    /\ HasSession(SessionOf[c])
    /\ agentRole[AgentOf(SessionOf[c])] # "deleted"
    /\ \/ \E d \in CommandsWithKey(c) : AnswerCommandFrom(c, d)
       \/ /\ CommandsWithKey(c) = {}
          /\ create' = [create EXCEPT ![c].step = "session"]
    /\ CreateUnchanged /\ UNCHANGED commandStatus

\* The snapshot of the Session the decision is taken on.
ReadSession(c) ==
    LET s == SessionOf[c] IN
    /\ create[c].step = "session"
    /\ IF sessionStatus[s] = "active"
       THEN create' = [create EXCEPT ![c].step = "machine", ![c].deadline = expiresAt[s]]
       ELSE DenyCommand(c)
    /\ CreateUnchanged /\ UNCHANGED commandStatus

\* commandDecision over that snapshot, the current policy and the time.
commandDecision(deadline, timeout, policy) ==
    /\ deadline > clock
    /\ timeout <= policy.maxTimeout
    /\ timeout <= deadline - clock

DecideCommand(c) ==
    LET authority == machineAuthority[MachineOf(SessionOf[c])] IN
    /\ create[c].step = "machine"
    /\ IF /\ authority # None
          /\ commandDecision(create[c].deadline, Order[c].timeout, authority.policy)
       THEN create' = [create EXCEPT ![c].step = "count"]
       ELSE DenyCommand(c)
    /\ CreateUnchanged /\ UNCHANGED commandStatus

CountCommands(c) ==
    LET s == SessionOf[c] IN
    /\ create[c].step = "count"
    /\ IF countActiveCommands(s) < maxConcurrentCommands[s]
       THEN create' = [create EXCEPT ![c].step = "insert"]
       ELSE DenyCommand(c)
    /\ CreateUnchanged /\ UNCHANGED commandStatus

\* A variant with a defect: no unique index on the key.
createCommandWithoutIndex(c) ==
    /\ create[c].step = "insert"
    /\ commandStatus' = [commandStatus EXCEPT ![c] = "queued"]
    /\ create' = [create EXCEPT ![c].step = "deliver", ![c].answer = c]
    /\ CreateUnchanged

\* The insert takes no lock on the Session and looks at nothing but the key.
createCommand(c) ==
    /\ create[c].step = "insert"
    /\ \/ /\ \E d \in CommandsWithKey(c) : AnswerCommandFrom(c, d)
          /\ UNCHANGED commandStatus
       \/ /\ CommandsWithKey(c) = {}
          /\ commandStatus' = [commandStatus EXCEPT ![c] = "queued"]
          /\ create' = [create EXCEPT ![c].step = "deliver", ![c].answer = c]
    /\ CreateUnchanged

DeliverStart(c) ==
    /\ create[c].step = "deliver"
    /\ create' = [create EXCEPT ![c].step = "done"]
    /\ CreateUnchanged /\ UNCHANGED commandStatus

CreateStep(c) ==
    \/ commandByIdempotency(c) \/ ReadSession(c) \/ DecideCommand(c)
    \/ CountCommands(c) \/ createCommand(c) \/ DeliverStart(c)

-----------------------------------------------------------------------------
(* Human supervision: decideSession, one transaction on the locked row *)

callsUnchanged == UNCHANGED callVars
authorityUnchanged == UNCHANGED <<clock, agentRole, machineAuthority>>

\* A variant with a defect: the new expiry is counted from the old one.
ApproveFromOldExpiry(s) ==
    /\ sessionStatus[s] = "pending_approval"
    /\ expiresAt[s] > clock
    /\ sessionStatus' = [sessionStatus EXCEPT ![s] = "opening"]
    /\ expiresAt' = [expiresAt EXCEPT ![s] = clock + expiresAt[s]]
    /\ approved' = approved \cup {s}
    /\ UNCHANGED <<createdAt, maxConcurrentCommands, commandStatus>>
    /\ authorityUnchanged /\ callsUnchanged

\* A variant with a defect: a repeated approval grants the time once more.
ApproveAgain(s) ==
    /\ sessionStatus[s] \in ActiveSessionStatuses
    /\ expiresAt[s] > clock
    /\ sessionStatus' = [sessionStatus EXCEPT
          ![s] = IF @ = "pending_approval" THEN "opening" ELSE @]
    /\ expiresAt' = [expiresAt EXCEPT ![s] = clock + (expiresAt[s] - createdAt[s])]
    /\ approved' = approved \cup {s}
    /\ UNCHANGED <<createdAt, maxConcurrentCommands, commandStatus>>
    /\ authorityUnchanged /\ callsUnchanged

\* The expiry the Agent asked for starts again at the Human's decision.
ApproveSession(s) ==
    /\ sessionStatus[s] = "pending_approval"
    /\ expiresAt[s] > clock
    /\ sessionStatus' = [sessionStatus EXCEPT ![s] = "opening"]
    /\ expiresAt' = [expiresAt EXCEPT ![s] = clock + (expiresAt[s] - createdAt[s])]
    /\ approved' = approved \cup {s}
    /\ UNCHANGED <<createdAt, maxConcurrentCommands, commandStatus>>
    /\ authorityUnchanged /\ callsUnchanged

DenySession(s) ==
    /\ sessionStatus[s] = "pending_approval"
    /\ expiresAt[s] > clock
    /\ sessionStatus' = [sessionStatus EXCEPT ![s] = "cancelled"]
    /\ UNCHANGED <<createdAt, expiresAt, maxConcurrentCommands, commandStatus, approved>>
    /\ authorityUnchanged /\ callsUnchanged

\* Either decision on a request that ran out before the sweep saw it.
DecideTooLate(s) ==
    /\ sessionStatus[s] = "pending_approval"
    /\ expiresAt[s] <= clock
    /\ sessionStatus' = [sessionStatus EXCEPT ![s] = "expired"]
    /\ UNCHANGED <<createdAt, expiresAt, maxConcurrentCommands, commandStatus, approved>>
    /\ authorityUnchanged /\ callsUnchanged

decideSession(s) == ApproveSession(s) \/ DenySession(s) \/ DecideTooLate(s)

-----------------------------------------------------------------------------
(* The Agent ends its Session or a Command *)

otherColumnsUnchanged == UNCHANGED <<createdAt, expiresAt, maxConcurrentCommands, approved>>

CompleteSession(s) ==
    /\ HasSession(s)
    /\ sessionStatus[s] \notin TerminalSessionStatuses
    /\ ActiveCommandsOf(s) = {}
    /\ sessionStatus' = [sessionStatus EXCEPT ![s] = "completed"]
    /\ UNCHANGED commandStatus
    /\ otherColumnsUnchanged /\ authorityUnchanged /\ callsUnchanged

CancelSession(s) ==
    /\ HasSession(s)
    /\ sessionStatus[s] \notin TerminalSessionStatuses
    /\ sessionStatus' = [sessionStatus EXCEPT ![s] = "cancellation_requested"]
    /\ commandStatus' = CancelCommandsOf({s})
    /\ otherColumnsUnchanged /\ authorityUnchanged /\ callsUnchanged

finishSession(s) == CompleteSession(s) \/ CancelSession(s)

requestCommandCancellation(c) ==
    /\ commandStatus[c] \in ActiveCommandStatuses
    /\ commandStatus' = [commandStatus EXCEPT ![c] = "cancellation_requested"]
    /\ UNCHANGED sessionStatus
    /\ otherColumnsUnchanged /\ authorityUnchanged /\ callsUnchanged

-----------------------------------------------------------------------------
(* What the Machine reports, in whatever order it arrives *)

reportUnchanged == otherColumnsUnchanged /\ authorityUnchanged /\ callsUnchanged

\* A variant with a defect: any active status is taken for opening.
markAnySessionOpened(s) ==
    /\ sessionStatus[s] \in ActiveSessionStatuses
    /\ sessionStatus' = [sessionStatus EXCEPT ![s] = "active"]
    /\ UNCHANGED commandStatus /\ reportUnchanged

markSessionOpened(s) ==
    /\ sessionStatus[s] = "opening"
    /\ sessionStatus' = [sessionStatus EXCEPT ![s] = "active"]
    /\ UNCHANGED commandStatus /\ reportUnchanged

markSessionFailed(s) ==
    /\ sessionStatus[s] = "opening"
    /\ sessionStatus' = [sessionStatus EXCEPT ![s] = "failed"]
    /\ UNCHANGED commandStatus /\ reportUnchanged

\* A variant with a defect: the Machine's reason is stored as the status.
markSessionClosedAs(s, reason) ==
    /\ sessionStatus[s] \in {"opening", "active", "cancellation_requested"}
    /\ sessionStatus' = [sessionStatus EXCEPT ![s] = reason]
    /\ UNCHANGED commandStatus /\ reportUnchanged

markSessionClosed(s, reason) ==
    /\ sessionStatus[s] \in {"opening", "active", "cancellation_requested"}
    /\ sessionStatus' = [sessionStatus EXCEPT
          ![s] = IF reason = "expired" THEN "expired" ELSE "cancelled"]
    /\ UNCHANGED commandStatus /\ reportUnchanged

markCommandStarted(c) ==
    /\ commandStatus[c] \in {"queued", "delivered"}
    /\ commandStatus' = [commandStatus EXCEPT ![c] = "running"]
    /\ UNCHANGED sessionStatus /\ reportUnchanged

markCommandCompleted(c, status) ==
    /\ commandStatus[c] \in ActiveCommandStatuses
    /\ commandStatus' = [commandStatus EXCEPT ![c] = status]
    /\ UNCHANGED sessionStatus /\ reportUnchanged

-----------------------------------------------------------------------------
(* The expiry sweep and revocation *)

Expired(s) == expiresAt[s] <= clock

\* A variant with a defect: Sessions the Machine never opened are forgotten.
expireActiveSessions ==
    LET pending == {s \in Sessions : sessionStatus[s] = "pending_approval" /\ Expired(s)}
        granted == {s \in Sessions : sessionStatus[s] = "active" /\ Expired(s)}
    IN
    /\ pending \cup granted # {}
    /\ sessionStatus' = [s \in Sessions |->
          CASE s \in pending -> "expired"
            [] s \in granted -> "cancellation_requested"
            [] OTHER -> sessionStatus[s]]
    /\ commandStatus' = CancelCommandsOf(granted)
    /\ otherColumnsUnchanged /\ authorityUnchanged /\ callsUnchanged

\* One transaction over every Session that has run out.
expireSessions ==
    LET pending == {s \in Sessions : sessionStatus[s] = "pending_approval" /\ Expired(s)}
        granted == {s \in Sessions : sessionStatus[s] \in {"opening", "active"} /\ Expired(s)}
    IN
    /\ pending \cup granted # {}
    /\ sessionStatus' = [s \in Sessions |->
          CASE s \in pending -> "expired"
            [] s \in granted -> "cancellation_requested"
            [] OTHER -> sessionStatus[s]]
    /\ commandStatus' = CancelCommandsOf(granted)
    /\ otherColumnsUnchanged /\ authorityUnchanged /\ callsUnchanged

\* The row changes of revokeSessions over a scope of Sessions.
RevokeAll(scope) ==
    LET revoked == {s \in scope : sessionStatus[s] \in ActiveSessionStatuses} IN
    /\ sessionStatus' = [s \in Sessions |->
          IF s \in revoked THEN "revoked" ELSE sessionStatus[s]]
    /\ commandStatus' = CancelCommandsOf(revoked)
    /\ otherColumnsUnchanged

\* A Machine's revocation also deletes its authority row in the transaction.
RevokeMachine(m) ==
    /\ RevokeAll({s \in Sessions : MachineOf(s) = m})
    /\ machineAuthority' = [machineAuthority EXCEPT ![m] = None]
    /\ UNCHANGED <<clock, agentRole>> /\ callsUnchanged

-----------------------------------------------------------------------------
(* Administrator calls on an Agent: read the Agent, then write it, then (for *)
(* a downgrade) revoke; a deletion revokes first and deletes after           *)

AdminUnchanged == UNCHANGED <<clock, machineAuthority, request, create>>

BeginRoleChange(d, a, role) ==
    /\ admin[d].step = "idle"
    /\ agentRole[a] # "deleted"
    /\ admin' = [admin EXCEPT ![d] =
          [step |-> "update", agent |-> a, from |-> agentRole[a], to |-> role]]
    /\ AdminUnchanged /\ UNCHANGED <<agentRole, sessionVars, commandStatus, approved>>

\* The role is written now; whether it was a downgrade is judged by the role
\* read before.
UpdateAgentRole(d) ==
    LET call == admin[d] IN
    /\ call.step = "update"
    /\ IF agentRole[call.agent] = "deleted"
       THEN /\ admin' = [admin EXCEPT ![d].step = "done"]
            /\ UNCHANGED agentRole
       ELSE /\ agentRole' = [agentRole EXCEPT ![call.agent] = call.to]
            /\ admin' = [admin EXCEPT ![d].step =
                 IF call.from = "operator" /\ call.to = "standard" THEN "revoke" ELSE "done"]
    /\ AdminUnchanged /\ UNCHANGED <<sessionVars, commandStatus, approved>>

BeginDelete(d, a) ==
    /\ admin[d].step = "idle"
    /\ agentRole[a] # "deleted"
    /\ admin' = [admin EXCEPT ![d] =
          [step |-> "revoke", agent |-> a, from |-> agentRole[a], to |-> "deleted"]]
    /\ AdminUnchanged /\ UNCHANGED <<agentRole, sessionVars, commandStatus, approved>>

RevokeAgentSessions(d) ==
    /\ admin[d].step = "revoke"
    /\ RevokeAll({s \in Sessions : AgentOf(s) = admin[d].agent})
    /\ admin' = [admin EXCEPT ![d].step =
          IF admin[d].to = "deleted" THEN "delete" ELSE "done"]
    /\ AdminUnchanged /\ UNCHANGED agentRole

deleteOrganizationAgent(d) ==
    /\ admin[d].step = "delete"
    /\ agentRole' = [agentRole EXCEPT ![admin[d].agent] = "deleted"]
    /\ admin' = [admin EXCEPT ![d].step = "done"]
    /\ AdminUnchanged /\ UNCHANGED <<sessionVars, commandStatus, approved>>

AdminStep(d) ==
    \/ \E a \in Agents, role \in Roles : BeginRoleChange(d, a, role)
    \/ \E a \in Agents : BeginDelete(d, a)
    \/ UpdateAgentRole(d) \/ RevokeAgentSessions(d) \/ deleteOrganizationAgent(d)

-----------------------------------------------------------------------------
(* The gateway's hooks *)

putMachineAuthority(m, policy) ==
    /\ machineAuthority' = [machineAuthority EXCEPT ![m] = [online |-> TRUE, policy |-> policy]]
    /\ UNCHANGED <<clock, agentRole, sessionVars, commandStatus, approved>> /\ callsUnchanged

setMachineOffline(m) ==
    /\ machineAuthority[m] # None
    /\ machineAuthority' = [machineAuthority EXCEPT ![m].online = FALSE]
    /\ UNCHANGED <<clock, agentRole, sessionVars, commandStatus, approved>> /\ callsUnchanged

-----------------------------------------------------------------------------

Tick ==
    /\ clock < MaxClock
    /\ clock' = clock + 1
    /\ UNCHANGED <<agentRole, machineAuthority, sessionVars, commandStatus, approved>>
    /\ callsUnchanged

Report(s) ==
    \/ markSessionOpened(s) \/ markSessionFailed(s)
    \/ \E reason \in {"expired", "closed"} : markSessionClosed(s, reason)

ReportCommand(c) ==
    \/ markCommandStarted(c)
    \/ \E status \in ResultStatuses : markCommandCompleted(c, status)

Next ==
    \/ \E s \in Sessions :
          RequestStep(s) \/ decideSession(s) \/ finishSession(s) \/ Report(s)
    \/ \E c \in Commands :
          CreateStep(c) \/ requestCommandCancellation(c) \/ ReportCommand(c)
    \/ \E d \in Admins : AdminStep(d)
    \/ \E m \in Machines :
          \/ RevokeMachine(m) \/ setMachineOffline(m)
          \/ \E policy \in Policies : putMachineAuthority(m, policy)
    \/ expireSessions
    \/ Tick

Spec == Init /\ [][Next]_vars

\* Time passes, and the sweep is a timer that fires every ten seconds.
FairSpec == Spec /\ WF_vars(Tick) /\ WF_vars(expireSessions)

-----------------------------------------------------------------------------
(* Properties *)

\* Sessions somebody stands behind: an Agent that was an Operator when its call
\* was authenticated, or the Human who approved.
Mandate == {s \in Sessions : HasSession(s) /\ request[s].operator} \cup approved

\* A Session holds authority (opening, active, or being wound down after it did)
\* only with a mandate, however role changes, approvals, late reports and
\* retries interleave; and a request still pending has none.
\* (SessionService.requestSession, decideSession, markSessionOpened)
AuthorityIsMandated ==
    \A s \in Sessions :
        /\ sessionStatus[s] \in {"opening", "active"} => s \in Mandate
        /\ sessionStatus[s] = "pending_approval" => s \notin Mandate

\* Calls that carry the same Agent and idempotency key are never answered with
\* two different Sessions, and a call is only ever answered with a Session that
\* was requested exactly as it asks, even when several calls with the key run
\* at once.  (sessionByIdempotency, createSession's unique index)
ReplayAgreement ==
    \A s \in Sessions : LET t == request[s].answer IN
        t # None =>
            /\ HasSession(t)
            /\ Request[t] = Request[s]
            /\ \A u \in SessionsWithKey(s) : u = t

\* Likewise for Commands of one Session.  (commandByIdempotency, createCommand)
CommandReplayAgreement ==
    \A c \in Commands : LET d == create[c].answer IN
        d # None =>
            /\ HasCommand(d)
            /\ Order[d] = Order[c]
            /\ \A e \in CommandsWithKey(c) : e = d

\* Authority never lasts longer from now than the Agent asked for, and what it
\* asked for fits the Local Policy its call read; waiting for a Human neither
\* lengthens nor adds to it.  (requestSession's expiresAt, decideSession)
AuthorityWindow ==
    \A s \in Sessions : HasSession(s) =>
        /\ expiresAt[s] <= clock + Request[s].duration
        /\ Request[s].duration <= request[s].policy.maxDuration

\* createCommand decides on a copy of the Session read some awaits earlier.  The
\* status in that copy may be stale when the row is written; the deadline never
\* is, so a Command's timeout always fits its Session's real expiry.
\* (commandDecision, decideSession)
DeadlineReadIsCurrent ==
    \A c \in Commands :
        /\ create[c].step \in {"machine", "count", "insert", "deliver"} =>
              create[c].deadline = expiresAt[SessionOf[c]]
        /\ HasCommand(c) => Order[c].timeout <= expiresAt[SessionOf[c]]

\* Every Session leaves its pending, opening and active statuses in the end,
\* whatever Agent, Human and Machine do or fail to do.  (expireSessions)
AuthorityEnds ==
    \A s \in Sessions :
        sessionStatus[s] \in ActiveSessionStatuses ~>
            sessionStatus[s] \notin ActiveSessionStatuses

\* The abstract specification this module implements: phases only move
\* forward, grants have a mandate, withdrawing a grant stops its work.
PhaseOf(status) ==
    CASE status = NoRow -> "none"
      [] status = "pending_approval" -> "requested"
      [] status \in {"opening", "active"} -> "granted"
      [] status = "cancellation_requested" -> "ending"
      [] OTHER -> "ended"
WorkOf(status) ==
    CASE status = NoRow -> "none"
      [] status \in {"queued", "delivered", "running"} -> "accepted"
      [] status = "cancellation_requested" -> "stopping"
      [] OTHER -> "ended"

Lifecycle == INSTANCE SessionLifecycle WITH
    phase <- [s \in Sessions |-> PhaseOf(sessionStatus[s])],
    mandate <- Mandate,
    work <- [c \in Commands |-> WorkOf(commandStatus[c])]

ImplementsLifecycle == Lifecycle!Spec

-----------------------------------------------------------------------------
(* What the documentation says and the interleavings of the code do not keep *)

\* docs/sessions: session_complete "requires every Command to be terminal".
\* createCommand may insert into a Session completed since it was read.
CompletedMeansCommandsTerminal ==
    \A c \in Commands : sessionStatus[SessionOf[c]] = "completed" =>
        commandStatus[c] \notin ActiveCommandStatuses

\* docs/design: a role downgrade revokes active authority, and a Standard Agent
\* waits for a Human.  A call authenticated as Operator may insert after both.
StandardAgentsHoldNoOperatorSessions ==
    \A s \in Sessions :
        /\ sessionStatus[s] \in {"opening", "active"}
        /\ agentRole[AgentOf(s)] = "standard"
        /\ \A d \in Admins : admin[d].agent # AgentOf(s) \/ admin[d].step = "done"
        => s \in approved

=============================================================================
