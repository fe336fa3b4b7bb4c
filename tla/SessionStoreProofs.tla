--------------------------- MODULE SessionStoreProofs ---------------------------
(*****************************************************************************)
(* Theorems about SessionStore, for every set of Sessions, Commands, Agents, *)
(* Machines and Policies and for every bound on the clock.                   *)
(*                                                                           *)
(* TypeOK is not inductive: an approval computes clock + (expiresAt -        *)
(* createdAt), a natural number only because a pending row still spans the   *)
(* duration it was asked for, and an insert copies a limit out of a policy   *)
(* that was read three steps before.  RowsInv says so.                       *)
(*                                                                           *)
(* For the safety properties every step is one of four kinds (lemma          *)
(* StepKinds): a row is inserted, a Human approves, a requestSession call    *)
(* moves on without writing, or nothing that exists gains authority.  Each   *)
(* invariant is shown to survive the four kinds rather than thirty actions.  *)
(*****************************************************************************)
EXTENDS SessionStore, TLAPS

-----------------------------------------------------------------------------
(* The inductive invariant *)

\* What a requestSession call holds between its awaits, and what its row keeps.
RowInv(s) ==
    /\ request[s].step \in {"idle", "replay", "machine", "count", "insert"} => ~HasSession(s)
    /\ request[s].step \in {"count", "insert", "deliver"} \/ HasSession(s) =>
          /\ request[s].policy \in Policies
          /\ Request[s].duration <= request[s].policy.maxDuration
    /\ request[s].stamp <= clock
    /\ HasSession(s) => expiresAt[s] <= clock + Request[s].duration
    /\ sessionStatus[s] = "pending_approval" =>
          expiresAt[s] = createdAt[s] + Request[s].duration

RowsInv == \A s \in Sessions : RowInv(s)

\* An administrator call under way is about an Agent.
AdminInv ==
    \A d \in Admins : admin[d].step \in {"update", "revoke", "delete"} => admin[d].agent \in Agents

TypeInv == TypeOK /\ RowsInv /\ AdminInv

LEMMA InitTypeInv == Init => TypeInv
  BY DEF Init, TypeInv, TypeOK, RowsInv, RowInv, AdminInv, HasSession, NoRow,
         NewRequest, NewCreate, NewAdmin, RequestSteps, CreateSteps, AdminSteps, Roles,
         RequestCall, CreateCall, AdminCall

-----------------------------------------------------------------------------
(* requestSession *)

\* The record of a call whose step moves on, alone or with one more of its fields.
LEMMA StepMoves ==
  ASSUME NEW call \in RequestCall, NEW step \in RequestSteps
  PROVE  [call EXCEPT !.step = step] \in RequestCall
BY DEF RequestCall

\* ... with the role that was read.
LEMMA OperatorMoves ==
  ASSUME NEW call \in RequestCall, NEW step \in RequestSteps, NEW operator \in BOOLEAN
  PROVE  [call EXCEPT !.step = step, !.operator = operator] \in RequestCall
BY DEF RequestCall

\* ... with the Machine's policy.
LEMMA PolicyMoves ==
  ASSUME NEW call \in RequestCall, NEW step \in RequestSteps, NEW policy \in Policies
  PROVE  [call EXCEPT !.step = step, !.policy = policy] \in RequestCall
BY DEF RequestCall

\* ... with the time of the count.
LEMMA StampMoves ==
  ASSUME NEW call \in RequestCall, NEW step \in RequestSteps, NEW stamp \in Nat
  PROVE  [call EXCEPT !.step = step, !.stamp = stamp] \in RequestCall
BY DEF RequestCall

\* ... with an answer.
LEMMA AnswerMoves ==
  ASSUME NEW call \in RequestCall, NEW step \in RequestSteps, NEW answer \in Sessions \cup {None}
  PROVE  [call EXCEPT !.step = step, !.answer = answer] \in RequestCall
BY DEF RequestCall

\* A call that moves on while the rows stay as they are.
LEMMA RequestMoves ==
  ASSUME RowsInv, request \in [Sessions -> RequestCall], NEW s \in Sessions,
         NEW call \in RequestCall, request' = [request EXCEPT ![s] = call],
         UNCHANGED <<clock, sessionVars>>,
         call.step \in {"idle", "replay", "machine", "count", "insert"} => ~HasSession(s),
         call.step \in {"count", "insert", "deliver"} \/ HasSession(s) =>
            call.policy \in Policies /\ Request[s].duration <= call.policy.maxDuration,
         call.stamp <= clock
  PROVE  request' \in [Sessions -> RequestCall] /\ RowsInv'
<1>1. request' \in [Sessions -> RequestCall] OBVIOUS
<1>2. clock' = clock /\ sessionStatus' = sessionStatus /\ createdAt' = createdAt
      /\ expiresAt' = expiresAt
  BY DEF sessionVars
<1>3. RowInv(s)'
  <2>1. request'[s] = call OBVIOUS
  <2>2. RowInv(s) BY DEF RowsInv
  <2> QED BY <1>2, <2>1, <2>2 DEF RowInv, HasSession
<1>4. ASSUME NEW t \in Sessions, t # s PROVE RowInv(t)'
  <2>1. request'[t] = request[t] BY <1>4
  <2>2. RowInv(t) BY DEF RowsInv
  <2> QED BY <1>2, <2>1, <2>2 DEF RowInv, HasSession
<1> QED BY <1>1, <1>3, <1>4 DEF RowsInv

\* A call that is answered, whatever with, keeps to its types.
LEMMA AnswerTyped ==
  ASSUME request \in [Sessions -> RequestCall], NEW s \in Sessions,
         NEW t \in Sessions \cup {None}, Answer(s, t)
  PROVE  \E call \in RequestCall :
            /\ request' = [request EXCEPT ![s] = call]
            /\ call.step = "done" /\ call.policy = request[s].policy
            /\ call.stamp = request[s].stamp
<1> DEFINE old == request[s]
           call == [old EXCEPT !.step = "done", !.answer = t]
<1>1. request' = [request EXCEPT ![s] = call] BY DEF Answer
<1>2. old \in RequestCall /\ "done" \in RequestSteps BY DEF RequestSteps
<1> HIDE DEF old
<1>3. call \in RequestCall BY <1>2, AnswerMoves
<1>4. call.step = "done" /\ call.policy = old.policy /\ call.stamp = old.stamp
  BY <1>2 DEF RequestCall
<1> HIDE DEF call
<1> QED BY <1>1, <1>3, <1>4 DEF old

\* An answer, before the insert or instead of it, leaves a call with no row.
LEMMA AnswerRows ==
  ASSUME TypeInv, NEW s \in Sessions, NEW t \in Sessions \cup {None}, Answer(s, t),
         request[s].step \notin {"deliver", "done"}, UNCHANGED <<clock, sessionVars>>
  PROVE  request' \in [Sessions -> RequestCall] /\ RowsInv'
<1>1. RowsInv /\ request \in [Sessions -> RequestCall] BY DEF TypeInv, TypeOK
<1>2. PICK call \in RequestCall :
         /\ request' = [request EXCEPT ![s] = call]
         /\ call.step = "done" /\ call.policy = request[s].policy
         /\ call.stamp = request[s].stamp
  BY <1>1, AnswerTyped
<1>3. request[s].step \in RequestSteps BY <1>1 DEF RequestCall
<1>4. request[s].stamp <= clock /\ ~HasSession(s) BY <1>1, <1>3 DEF RowsInv, RowInv, RequestSteps
<1> QED BY <1>1, <1>2, <1>4, RequestMoves

\* A call that finds a row with its key ends with an answer, whichever it is.
LEMMA ReplayAnswers ==
  ASSUME NEW s \in Sessions, \E t \in SessionsWithKey(s) : AnswerFrom(s, t)
  PROVE  \E t \in Sessions \cup {None} : Answer(s, t)
<1>1. PICK t \in SessionsWithKey(s) : AnswerFrom(s, t)
  OBVIOUS
<1>2. t \in Sessions BY DEF SessionsWithKey
<1>3. Answer(s, t) \/ Answer(s, None) BY <1>1 DEF AnswerFrom, Deny
<1> QED BY <1>2, <1>3

\* The steps that write no row: the call moves on and keeps to its types.
LEMMA RequestReads ==
  ASSUME TypeInv, NEW s \in Sessions,
         \/ BeginRequest(s) \/ sessionByIdempotency(s) \/ ReadMachineAuthority(s)
         \/ CountSessions(s) \/ DeliverOpen(s)
  PROVE  TypeInv'
<1>1. TypeOK /\ RowsInv /\ AdminInv BY DEF TypeInv
<1>2. request \in [Sessions -> RequestCall] BY <1>1 DEF TypeOK
<1>3. UNCHANGED <<clock, agentRole, machineAuthority, commandStatus, approved,
                  create, admin, sessionVars>>
  BY DEF BeginRequest, sessionByIdempotency, ReadMachineAuthority, CountSessions,
         DeliverOpen, RequestUnchanged
<1>4. SUFFICES request' \in [Sessions -> RequestCall] /\ RowsInv'
  BY <1>1, <1>3 DEF TypeInv, TypeOK, AdminInv, sessionVars
<1> DEFINE old == request[s]
<1>5. /\ old \in RequestCall /\ old.stamp <= clock
      /\ old.step \in {"idle", "replay", "machine", "count", "insert"} => ~HasSession(s)
      /\ old.step \in {"count", "insert", "deliver"} =>
            old.policy \in Policies /\ Request[s].duration <= old.policy.maxDuration
  BY <1>1, <1>2 DEF RowsInv, RowInv
<1>6. ASSUME NEW call \in RequestCall, request' = [request EXCEPT ![s] = call],
             call.step \in {"idle", "replay", "machine", "count", "insert"} => ~HasSession(s),
             call.step \in {"count", "insert", "deliver"} \/ HasSession(s) =>
                call.policy \in Policies /\ Request[s].duration <= call.policy.maxDuration,
             call.stamp <= clock
      PROVE  request' \in [Sessions -> RequestCall] /\ RowsInv'
  BY <1>1, <1>2, <1>3, <1>6, RequestMoves
<1>7. ASSUME NEW t \in Sessions \cup {None}, Answer(s, t), old.step \notin {"deliver", "done"}
      PROVE  request' \in [Sessions -> RequestCall] /\ RowsInv'
  BY <1>3, <1>7, AnswerRows
<1>8. {"replay", "machine", "count", "insert", "done"} \subseteq RequestSteps BY DEF RequestSteps
<1>9. CASE BeginRequest(s)
  <2> DEFINE operator == agentRole[AgentOf(s)] = "operator"
             call == [old EXCEPT !.step = "replay", !.operator = operator]
  <2>1. operator \in BOOLEAN /\ old.step = "idle"
        /\ request' = [request EXCEPT ![s].step = "replay", ![s].operator = operator]
    BY <1>9 DEF BeginRequest
  <2> HIDE DEF operator
  <2>2. request' = [request EXCEPT ![s] = call] BY <1>2, <2>1
  <2> HIDE DEF old
  <2>3. call \in RequestCall BY <1>5, <1>8, <2>1, OperatorMoves
  <2>4. call.step = "replay" /\ call.stamp = old.stamp BY <1>5 DEF RequestCall
  <2> HIDE DEF call
  <2> QED BY <1>5, <1>6, <2>1, <2>2, <2>3, <2>4
<1>10. CASE sessionByIdempotency(s)
  <2>1. old.step = "replay" BY <1>10 DEF sessionByIdempotency
  <2>2. CASE \E t \in SessionsWithKey(s) : AnswerFrom(s, t)
    BY <1>7, <2>1, <2>2, ReplayAnswers
  <2>3. CASE request' = [request EXCEPT ![s].step = "machine"]
    <3> DEFINE call == [old EXCEPT !.step = "machine"]
    <3>1. request' = [request EXCEPT ![s] = call] BY <1>2, <2>3
    <3> HIDE DEF old
    <3>2. call \in RequestCall BY <1>5, <1>8, StepMoves
    <3>3. call.step = "machine" /\ call.stamp = old.stamp BY <1>5 DEF RequestCall
    <3> HIDE DEF call
    <3> QED BY <1>5, <1>6, <2>1, <3>1, <3>2, <3>3
  <2> QED BY <1>10, <2>2, <2>3 DEF sessionByIdempotency
<1>11. CASE ReadMachineAuthority(s)
  <2> DEFINE authority == machineAuthority[MachineOf(s)]
  <2>1. old.step = "machine" BY <1>11 DEF ReadMachineAuthority
  <2>2. CASE /\ authority # None
             /\ Request[s].duration <= authority.policy.maxDuration
             /\ request' = [request EXCEPT ![s].step = "count", ![s].policy = authority.policy]
    <3>1. MachineOf(s) \in Machines BY RequestType DEF MachineOf
    <3>2. machineAuthority \in [Machines -> MachineAuthority \cup {None}] BY <1>1 DEF TypeOK
    <3>3. authority \in MachineAuthority BY <2>2, <3>1, <3>2
    <3> DEFINE policy == authority.policy
               call == [old EXCEPT !.step = "count", !.policy = policy]
    <3>4. policy \in Policies BY <3>3 DEF MachineAuthority
    <3>5. Request[s].duration <= policy.maxDuration
          /\ request' = [request EXCEPT ![s].step = "count", ![s].policy = policy]
      BY <2>2
    <3> HIDE DEF policy
    <3>6. request' = [request EXCEPT ![s] = call] BY <1>2, <3>5
    <3> HIDE DEF old
    <3>7. call \in RequestCall BY <1>5, <1>8, <3>4, PolicyMoves
    <3>8. call.step = "count" /\ call.policy = policy /\ call.stamp = old.stamp
      BY <1>5 DEF RequestCall
    <3> HIDE DEF call
    <3> QED BY <1>5, <1>6, <2>1, <3>4, <3>5, <3>6, <3>7, <3>8
  <2>3. CASE Deny(s) BY <1>7, <2>1, <2>3 DEF Deny
  <2> QED BY <1>11, <2>2, <2>3 DEF ReadMachineAuthority
<1>12. CASE CountSessions(s)
  <2>1. old.step = "count" BY <1>12 DEF CountSessions
  <2>2. CASE request' = [request EXCEPT ![s].step = "insert", ![s].stamp = clock]
    <3> DEFINE call == [old EXCEPT !.step = "insert", !.stamp = clock]
    <3>1. clock \in Nat BY <1>1 DEF TypeOK
    <3>2. request' = [request EXCEPT ![s] = call] BY <1>2, <2>2
    <3> HIDE DEF old
    <3>3. call \in RequestCall BY <1>5, <1>8, <3>1, StampMoves
    <3>4. call.step = "insert" /\ call.policy = old.policy /\ call.stamp = clock
      BY <1>5 DEF RequestCall
    <3> HIDE DEF call
    <3>5. call.stamp <= clock BY <3>1, <3>4
    <3> QED BY <1>5, <1>6, <2>1, <3>2, <3>3, <3>4, <3>5
  <2>3. CASE Deny(s) BY <1>7, <2>1, <2>3 DEF Deny
  <2> QED BY <1>12, <2>2, <2>3 DEF CountSessions
<1>13. CASE DeliverOpen(s)
  <2> DEFINE call == [old EXCEPT !.step = "done"]
  <2>1. old.step = "deliver" /\ request' = [request EXCEPT ![s].step = "done"]
    BY <1>13 DEF DeliverOpen
  <2>2. request' = [request EXCEPT ![s] = call] BY <1>2, <2>1
  <2> HIDE DEF old
  <2>3. call \in RequestCall BY <1>5, <1>8, StepMoves
  <2>4. call.step = "done" /\ call.policy = old.policy /\ call.stamp = old.stamp
    BY <1>5 DEF RequestCall
  <2> HIDE DEF call
  <2> QED BY <1>5, <1>6, <2>1, <2>2, <2>3, <2>4
<1> QED BY <1>9, <1>10, <1>11, <1>12, <1>13

\* What a Local Policy consists of.
LEMMA PolicyFields ==
  ASSUME NEW p \in Policies
  PROVE  /\ p.maxDuration \in Nat /\ p.maxSessions \in Nat
         /\ p.maxCommands \in Nat /\ p.maxTimeout \in Nat
  BY PoliciesType DEF LocalPolicy

\* The insert: the row spans the duration asked for, from a stamp in the past.
LEMMA CreateSessionTypeInv ==
  ASSUME TypeInv, NEW s \in Sessions, createSession(s)
  PROVE  TypeInv'
<1>1. TypeOK /\ RowsInv /\ AdminInv BY DEF TypeInv
<1>2. request \in [Sessions -> RequestCall] /\ request[s].step = "insert"
  BY <1>1 DEF TypeOK, createSession
<1>3. UNCHANGED <<clock, agentRole, machineAuthority, commandStatus, approved, create, admin>>
  BY DEF createSession, RequestUnchanged
<1>4. CASE UNCHANGED sessionVars /\ \E t \in SessionsWithKey(s) : AnswerFrom(s, t)
  <2>1. PICK t \in Sessions \cup {None} : Answer(s, t) BY <1>4, ReplayAnswers
  <2>2. request' \in [Sessions -> RequestCall] /\ RowsInv'
    BY <1>2, <1>3, <1>4, <2>1, AnswerRows
  <2> QED BY <1>1, <1>3, <1>4, <2>2 DEF TypeInv, TypeOK, AdminInv, sessionVars
<1>5. CASE ~ \E t \in SessionsWithKey(s) : AnswerFrom(s, t)
  <2> DEFINE policy == request[s].policy
             status == IF request[s].operator THEN "opening" ELSE "pending_approval"
  <2>1. policy \in Policies /\ Request[s].duration <= policy.maxDuration
        /\ request[s].stamp <= clock
    BY <1>1, <1>2 DEF RowsInv, RowInv
  <2>2. policy.maxCommands \in Nat BY <2>1, PolicyFields
  <2>3. status \in {"opening", "pending_approval"} OBVIOUS
  <2>4. Request[s].duration \in Nat /\ request[s].stamp \in Nat /\ clock \in Nat
    BY <1>1, <1>2, RequestType DEF RequestCall, TypeOK
  <2>5. /\ sessionStatus' = [sessionStatus EXCEPT ![s] = status]
        /\ createdAt' = [createdAt EXCEPT ![s] = request[s].stamp]
        /\ expiresAt' = [expiresAt EXCEPT ![s] = request[s].stamp + Request[s].duration]
        /\ maxConcurrentCommands' = [maxConcurrentCommands EXCEPT ![s] = policy.maxCommands]
        /\ request' = [request EXCEPT ![s].step = "deliver", ![s].answer = s]
    BY <1>5 DEF createSession
  <2> HIDE DEF status
  <2>6. request' \in [Sessions -> RequestCall]
    <3> DEFINE old == request[s]
               call == [old EXCEPT !.step = "deliver", !.answer = s]
    <3>1. request' = [request EXCEPT ![s] = call] BY <1>2, <2>5
    <3>2. old \in RequestCall /\ "deliver" \in RequestSteps BY <1>2 DEF RequestSteps
    <3> HIDE DEF old
    <3>3. call \in RequestCall BY <3>2, AnswerMoves
    <3> HIDE DEF call
    <3> QED BY <1>2, <3>1, <3>3
  <2>7. TypeOK'
    BY <1>1, <1>3, <2>2, <2>3, <2>4, <2>5, <2>6
       DEF TypeOK, SessionStatuses, ActiveSessionStatuses
  <2>8. RowInv(s)'
    BY <1>1, <1>2, <1>3, <2>1, <2>3, <2>4, <2>5
       DEF RowInv, HasSession, RequestCall, TypeOK
  <2>9. ASSUME NEW t \in Sessions, t # s PROVE RowInv(t)'
    BY <1>1, <1>2, <1>3, <2>5, <2>9 DEF RowsInv, RowInv, HasSession, RequestCall, TypeOK
  <2> QED BY <1>1, <1>3, <2>7, <2>8, <2>9 DEF TypeInv, RowsInv, AdminInv
<1> QED BY <1>4, <1>5 DEF createSession

-----------------------------------------------------------------------------
(* createCommand *)

LEMMA CreateStepTypeInv ==
  ASSUME TypeInv, NEW c \in Commands, CreateStep(c)
  PROVE  TypeInv'
<1>1. TypeOK /\ RowsInv /\ AdminInv BY DEF TypeInv
<1>2. UNCHANGED <<clock, agentRole, machineAuthority, sessionVars, approved, request, admin>>
  BY DEF CreateStep, commandByIdempotency, ReadSession, DecideCommand, CountCommands,
         createCommand, DeliverStart, CreateUnchanged
<1>3. RowsInv' /\ AdminInv'
  BY <1>1, <1>2 DEF RowsInv, RowInv, AdminInv, HasSession, sessionVars
<1>4. commandStatus' \in [Commands -> CommandStatuses \cup {NoRow}]
  BY <1>1 DEF TypeOK, CreateStep, commandByIdempotency, ReadSession, DecideCommand,
         CountCommands, createCommand, DeliverStart, CommandStatuses, ActiveCommandStatuses
<1>5. create \in [Commands -> CreateCall]
  BY <1>1 DEF TypeOK
<1>6. SUFFICES create' \in [Commands -> CreateCall]
  BY <1>1, <1>2, <1>3, <1>4 DEF TypeInv, TypeOK, sessionVars
<1>7. ASSUME NEW step \in CreateSteps, create' = [create EXCEPT ![c].step = step]
      PROVE  create' \in [Commands -> CreateCall]
  BY <1>5, <1>7 DEF CreateCall
<1>8. ASSUME NEW d \in Commands \cup {None}, AnswerCommand(c, d)
      PROVE  create' \in [Commands -> CreateCall]
  BY <1>5, <1>8 DEF AnswerCommand, CreateCall, CreateSteps
<1>9. ASSUME \E d \in CommandsWithKey(c) : AnswerCommandFrom(c, d)
      PROVE  create' \in [Commands -> CreateCall]
  <2>1. PICK d \in CommandsWithKey(c) : AnswerCommandFrom(c, d) BY <1>9
  <2>2. d \in Commands BY DEF CommandsWithKey
  <2>3. AnswerCommand(c, d) \/ AnswerCommand(c, None)
    BY <2>1 DEF AnswerCommandFrom, DenyCommand
  <2> QED BY <1>8, <2>2, <2>3
<1>10. {"session", "count", "insert", "deliver", "done"} \subseteq CreateSteps
  BY DEF CreateSteps
<1>11. CASE ReadSession(c)
  <2> DEFINE deadline == expiresAt[SessionOf[c]]
  <2>1. deadline \in Nat BY <1>1, OrderType DEF TypeOK, SessionOf
  <2>2. \/ create' = [create EXCEPT ![c].step = "machine", ![c].deadline = deadline]
        \/ AnswerCommand(c, None)
    BY <1>11 DEF ReadSession, DenyCommand
  <2> HIDE DEF deadline
  <2>3. CASE create' = [create EXCEPT ![c].step = "machine", ![c].deadline = deadline]
    BY <1>5, <2>1, <2>3 DEF CreateCall, CreateSteps
  <2> QED BY <1>8, <2>2, <2>3
<1>12. \/ \E d \in CommandsWithKey(c) : AnswerCommandFrom(c, d)
       \/ \E step \in CreateSteps : create' = [create EXCEPT ![c].step = step]
       \/ AnswerCommand(c, None)
       \/ create' = [create EXCEPT ![c].step = "deliver", ![c].answer = c]
       \/ ReadSession(c)
  <2>1. CASE commandByIdempotency(c) BY <1>10, <2>1 DEF commandByIdempotency
  <2>2. CASE DecideCommand(c) BY <1>10, <2>2 DEF DecideCommand, DenyCommand
  <2>3. CASE CountCommands(c) BY <1>10, <2>3 DEF CountCommands, DenyCommand
  <2>4. CASE createCommand(c) BY <2>4 DEF createCommand
  <2>5. CASE DeliverStart(c) BY <1>10, <2>5 DEF DeliverStart
  <2> QED BY <2>1, <2>2, <2>3, <2>4, <2>5 DEF CreateStep
<1>13. CASE create' = [create EXCEPT ![c].step = "deliver", ![c].answer = c]
  BY <1>5, <1>13 DEF CreateCall, CreateSteps
<1> QED BY <1>7, <1>8, <1>9, <1>11, <1>12, <1>13

-----------------------------------------------------------------------------
(* Everything else moves statuses of rows that exist *)

StatusTypes ==
    /\ sessionStatus \in [Sessions -> SessionStatuses \cup {NoRow}]
    /\ commandStatus \in [Commands -> CommandStatuses \cup {NoRow}]

\* No row appears or disappears, and none becomes pending again.
RowsKept ==
    \A s \in Sessions :
        /\ HasSession(s)' <=> HasSession(s)
        /\ sessionStatus'[s] = "pending_approval" => sessionStatus[s] = "pending_approval"

LEMMA StatusMovesTypeInv ==
  ASSUME TypeInv, StatusTypes', RowsKept,
         UNCHANGED <<clock, agentRole, machineAuthority>>,
         UNCHANGED <<createdAt, expiresAt, maxConcurrentCommands, approved>>,
         UNCHANGED <<request, create, admin>>
  PROVE  TypeInv'
<1>1. TypeOK' BY DEF TypeInv, TypeOK, StatusTypes
<1>2. RowsInv' BY DEF TypeInv, RowsInv, RowInv, RowsKept, HasSession
<1>3. AdminInv' BY DEF TypeInv, AdminInv
<1> QED BY <1>1, <1>2, <1>3 DEF TypeInv

LEMMA CancelCommandsTyped ==
  ASSUME commandStatus \in [Commands -> CommandStatuses \cup {NoRow}], NEW S
  PROVE  CancelCommandsOf(S) \in [Commands -> CommandStatuses \cup {NoRow}]
  BY DEF CancelCommandsOf, CommandStatuses, ActiveCommandStatuses

\* An approval restarts the span the row was created with.
LEMMA ApproveTypeInv ==
  ASSUME TypeInv, NEW s \in Sessions, ApproveSession(s)
  PROVE  TypeInv'
<1>1. TypeOK /\ RowsInv /\ AdminInv BY DEF TypeInv
<1>2. /\ UNCHANGED <<clock, agentRole, machineAuthority, createdAt,
                     maxConcurrentCommands, commandStatus>>
      /\ UNCHANGED <<request, create, admin>>
      /\ sessionStatus[s] = "pending_approval"
      /\ sessionStatus' = [sessionStatus EXCEPT ![s] = "opening"]
      /\ expiresAt' = [expiresAt EXCEPT ![s] = clock + (expiresAt[s] - createdAt[s])]
      /\ approved' = approved \cup {s}
  BY DEF ApproveSession, authorityUnchanged, callsUnchanged, callVars
<1>3. /\ clock \in Nat /\ Request[s].duration \in Nat /\ createdAt[s] \in Nat
      /\ expiresAt[s] = createdAt[s] + Request[s].duration
  BY <1>1, <1>2, RequestType DEF TypeOK, RowsInv, RowInv
<1>4. expiresAt' = [expiresAt EXCEPT ![s] = clock + Request[s].duration]
  <2>1. ASSUME NEW x \in Nat, NEW y \in Nat, NEW z, z = x + y PROVE z - x = y
    BY <2>1
  <2>2. expiresAt[s] - createdAt[s] = Request[s].duration BY <1>3, <2>1
  <2> QED BY <1>2, <2>2
<1>5. TypeOK'
  BY <1>1, <1>2, <1>3, <1>4 DEF TypeOK, SessionStatuses, ActiveSessionStatuses
<1>6. RowsInv'
  BY <1>1, <1>2, <1>3, <1>4 DEF RowsInv, RowInv, HasSession, TypeOK, NoRow
<1> QED BY <1>1, <1>2, <1>5, <1>6 DEF TypeInv, AdminInv

LEMMA SessionStatusStep ==
  ASSUME TypeInv, NEW s \in Sessions,
         \/ DenySession(s) \/ DecideTooLate(s) \/ finishSession(s)
         \/ markSessionOpened(s) \/ markSessionFailed(s)
         \/ \E reason \in {"expired", "closed"} : markSessionClosed(s, reason)
  PROVE  TypeInv'
<1>1. /\ sessionStatus \in [Sessions -> SessionStatuses \cup {NoRow}]
      /\ commandStatus \in [Commands -> CommandStatuses \cup {NoRow}]
  BY DEF TypeInv, TypeOK
<1>2. /\ UNCHANGED <<clock, agentRole, machineAuthority>>
      /\ UNCHANGED <<createdAt, expiresAt, maxConcurrentCommands, approved>>
      /\ UNCHANGED <<request, create, admin>>
  BY DEF DenySession, DecideTooLate, finishSession, CompleteSession, CancelSession,
         markSessionOpened, markSessionFailed, markSessionClosed, reportUnchanged,
         otherColumnsUnchanged, authorityUnchanged, callsUnchanged, callVars
<1>3. commandStatus' \in {commandStatus, CancelCommandsOf({s})}
  BY DEF DenySession, DecideTooLate, finishSession, CompleteSession, CancelSession,
         markSessionOpened, markSessionFailed, markSessionClosed
<1>4. \E status \in SessionStatuses \ {"pending_approval"} :
         /\ sessionStatus[s] # NoRow
         /\ sessionStatus' = [sessionStatus EXCEPT ![s] = status]
  BY DEF DenySession, DecideTooLate, finishSession, CompleteSession, CancelSession,
         markSessionOpened, markSessionFailed, markSessionClosed, HasSession, NoRow,
         SessionStatuses, ActiveSessionStatuses, TerminalSessionStatuses
<1>5. StatusTypes' BY <1>1, <1>3, <1>4, CancelCommandsTyped DEF StatusTypes
<1>6. NoRow \notin SessionStatuses
  BY DEF NoRow, SessionStatuses, ActiveSessionStatuses, TerminalSessionStatuses
<1>7. RowsKept BY <1>1, <1>4, <1>6 DEF RowsKept, HasSession
<1> QED BY <1>2, <1>5, <1>7, StatusMovesTypeInv

LEMMA CommandStatusStep ==
  ASSUME TypeInv, NEW c \in Commands,
         requestCommandCancellation(c) \/ ReportCommand(c)
  PROVE  TypeInv'
<1>1. StatusTypes BY DEF TypeInv, TypeOK, StatusTypes
<1>2. /\ UNCHANGED <<clock, agentRole, machineAuthority, sessionStatus>>
      /\ UNCHANGED <<createdAt, expiresAt, maxConcurrentCommands, approved>>
      /\ UNCHANGED <<request, create, admin>>
  BY DEF requestCommandCancellation, ReportCommand, markCommandStarted,
         markCommandCompleted, reportUnchanged, otherColumnsUnchanged,
         authorityUnchanged, callsUnchanged, callVars
<1>3. \E status \in CommandStatuses : commandStatus' = [commandStatus EXCEPT ![c] = status]
  BY DEF requestCommandCancellation, ReportCommand, markCommandStarted,
         markCommandCompleted, CommandStatuses, ActiveCommandStatuses, ResultStatuses
<1>4. StatusTypes' BY <1>1, <1>2, <1>3 DEF StatusTypes
<1>5. RowsKept BY <1>2 DEF RowsKept, HasSession
<1> QED BY <1>2, <1>4, <1>5, StatusMovesTypeInv

LEMMA ExpireTypeInv == TypeInv /\ expireSessions => TypeInv'
<1> SUFFICES ASSUME TypeInv, expireSessions PROVE TypeInv'
  OBVIOUS
<1>1. StatusTypes BY DEF TypeInv, TypeOK, StatusTypes
<1>2. /\ UNCHANGED <<clock, agentRole, machineAuthority>>
      /\ UNCHANGED <<createdAt, expiresAt, maxConcurrentCommands, approved>>
      /\ UNCHANGED <<request, create, admin>>
  BY DEF expireSessions, otherColumnsUnchanged, authorityUnchanged, callsUnchanged, callVars
<1>3. StatusTypes'
  BY <1>1, CancelCommandsTyped
     DEF StatusTypes, expireSessions, SessionStatuses, ActiveSessionStatuses,
         TerminalSessionStatuses
<1>4. RowsKept
  BY <1>1 DEF StatusTypes, expireSessions, RowsKept, HasSession, NoRow, SessionStatuses,
         ActiveSessionStatuses, TerminalSessionStatuses
<1> QED BY <1>2, <1>3, <1>4, StatusMovesTypeInv

\* Revoking a scope, whatever the rest of the transaction or call does.
LEMMA RevokeAllRows ==
  ASSUME TypeInv, NEW scope, RevokeAll(scope)
  PROVE  StatusTypes' /\ RowsKept
<1>1. StatusTypes BY DEF TypeInv, TypeOK, StatusTypes
<1>2. StatusTypes'
  BY <1>1, CancelCommandsTyped
     DEF StatusTypes, RevokeAll, SessionStatuses, TerminalSessionStatuses
<1>3. RowsKept
  BY <1>1 DEF StatusTypes, RevokeAll, RowsKept, HasSession, NoRow, ActiveSessionStatuses
<1> QED BY <1>2, <1>3

LEMMA MachineStepTypeInv ==
  ASSUME TypeInv, NEW m \in Machines,
         \/ RevokeMachine(m) \/ setMachineOffline(m)
         \/ \E policy \in Policies : putMachineAuthority(m, policy)
  PROVE  TypeInv'
<1>1. TypeOK /\ RowsInv /\ AdminInv BY DEF TypeInv
<1>2. UNCHANGED <<clock, agentRole>> /\ UNCHANGED <<request, create, admin>>
      /\ UNCHANGED <<createdAt, expiresAt, maxConcurrentCommands, approved>>
  BY DEF RevokeMachine, RevokeAll, setMachineOffline, putMachineAuthority, sessionVars,
         otherColumnsUnchanged, callsUnchanged, callVars
<1>3. machineAuthority' \in [Machines -> MachineAuthority \cup {None}]
  <2>1. machineAuthority \in [Machines -> MachineAuthority \cup {None}]
    BY <1>1 DEF TypeOK
  <2>2. CASE RevokeMachine(m) BY <2>1, <2>2 DEF RevokeMachine
  <2>3. CASE setMachineOffline(m)
    <3>1. machineAuthority[m] \in MachineAuthority BY <2>1, <2>3 DEF setMachineOffline
    <3>2. [machineAuthority[m] EXCEPT !.online = FALSE] \in MachineAuthority
      BY <3>1 DEF MachineAuthority
    <3>3. machineAuthority' = [machineAuthority EXCEPT
              ![m] = [machineAuthority[m] EXCEPT !.online = FALSE]]
      BY <2>3 DEF setMachineOffline
    <3> QED BY <2>1, <3>2, <3>3
  <2>4. ASSUME NEW policy \in Policies, putMachineAuthority(m, policy)
        PROVE  machineAuthority' \in [Machines -> MachineAuthority \cup {None}]
    BY <2>1, <2>4 DEF putMachineAuthority, MachineAuthority
  <2> QED BY <2>2, <2>3, <2>4
<1>4. StatusTypes' /\ RowsKept
  <2>1. CASE RevokeMachine(m) BY <2>1, RevokeAllRows DEF RevokeMachine
  <2>2. CASE ~RevokeMachine(m)
    BY <1>1, <2>2 DEF setMachineOffline, putMachineAuthority, sessionVars, StatusTypes,
         RowsKept, HasSession, TypeOK
  <2> QED BY <2>1, <2>2
<1>5. RowsInv' BY <1>1, <1>2, <1>4 DEF RowsInv, RowInv, RowsKept, HasSession
<1> QED BY <1>1, <1>2, <1>3, <1>4, <1>5 DEF TypeInv, TypeOK, StatusTypes, AdminInv

LEMMA AdminStepTypeInv ==
  ASSUME TypeInv, NEW d \in Admins, AdminStep(d)
  PROVE  TypeInv'
<1>1. TypeOK /\ RowsInv /\ AdminInv BY DEF TypeInv
<1>2. UNCHANGED <<clock, machineAuthority, request, create>>
      /\ UNCHANGED <<createdAt, expiresAt, maxConcurrentCommands, approved>>
  BY DEF AdminStep, BeginRoleChange, BeginDelete, UpdateAgentRole, RevokeAgentSessions,
         deleteOrganizationAgent, RevokeAll, AdminUnchanged, sessionVars, otherColumnsUnchanged
<1>3. StatusTypes' /\ RowsKept
  <2>1. CASE RevokeAgentSessions(d) BY <2>1, RevokeAllRows DEF RevokeAgentSessions
  <2>2. CASE ~RevokeAgentSessions(d)
    <3>1. UNCHANGED <<sessionVars, commandStatus>>
      BY <2>2 DEF AdminStep, BeginRoleChange, BeginDelete, UpdateAgentRole,
           deleteOrganizationAgent, AdminUnchanged
    <3> QED BY <1>1, <3>1 DEF sessionVars, StatusTypes, RowsKept, HasSession, TypeOK
  <2> QED BY <2>1, <2>2
<1>4. RowsInv' BY <1>1, <1>2, <1>3 DEF RowsInv, RowInv, RowsKept, HasSession
<1>5. /\ agentRole \in [Agents -> Roles \cup {"deleted"}]
      /\ admin \in [Admins -> AdminCall]
  BY <1>1 DEF TypeOK
<1>6. ASSUME admin[d].step \in {"update", "revoke", "delete"}
      PROVE  admin[d].agent \in Agents
  BY <1>1, <1>6 DEF AdminInv
<1>7. ASSUME NEW call \in AdminCall, admin' = [admin EXCEPT ![d] = call],
             call.step \in {"update", "revoke", "delete"} => call.agent \in Agents
      PROVE  admin' \in [Admins -> AdminCall] /\ AdminInv'
  BY <1>1, <1>5, <1>7 DEF AdminInv
<1>8. ASSUME NEW step \in {"revoke", "delete", "done"},
             admin' = [admin EXCEPT ![d].step = step],
             admin[d].agent \in Agents
      PROVE  admin' \in [Admins -> AdminCall] /\ AdminInv'
  <2> DEFINE old == admin[d]
             call == [old EXCEPT !.step = step]
  <2>1. old \in AdminCall /\ step \in AdminSteps BY <1>5 DEF AdminSteps
  <2>2. admin' = [admin EXCEPT ![d] = call] BY <1>8
  <2>3. old.agent \in Agents BY <1>8
  <2> HIDE DEF old
  <2>4. /\ old = [step |-> old.step, agent |-> old.agent, from |-> old.from, to |-> old.to]
        /\ old.from \in Roles \cup {"deleted"} /\ old.to \in Roles \cup {"deleted"}
    BY <2>1 DEF AdminCall
  <2>5. call = [step |-> step, agent |-> old.agent, from |-> old.from, to |-> old.to] BY <2>4
  <2> HIDE DEF call
  <2>6. call \in AdminCall /\ call.agent = old.agent BY <2>1, <2>3, <2>4, <2>5 DEF AdminCall
  <2> QED BY <1>7, <2>2, <2>3, <2>6
<1>9. /\ agentRole' \in [Agents -> Roles \cup {"deleted"}]
      /\ admin' \in [Admins -> AdminCall]
      /\ AdminInv'
  <2>1. ASSUME NEW a \in Agents, NEW role \in Roles, BeginRoleChange(d, a, role)
        PROVE  <1>9!:
    <3>1. [step |-> "update", agent |-> a, from |-> agentRole[a], to |-> role] \in AdminCall
      BY <1>5 DEF AdminCall, AdminSteps
    <3> QED BY <1>5, <1>7, <2>1, <3>1 DEF BeginRoleChange
  <2>2. ASSUME NEW a \in Agents, BeginDelete(d, a)
        PROVE  <1>9!:
    <3>1. [step |-> "revoke", agent |-> a, from |-> agentRole[a], to |-> "deleted"] \in AdminCall
      BY <1>5 DEF AdminCall, AdminSteps
    <3> QED BY <1>5, <1>7, <2>2, <3>1 DEF BeginDelete
  <2>3. CASE UpdateAgentRole(d)
    <3>1. admin[d].to \in Roles \cup {"deleted"} BY <1>5 DEF AdminCall
    <3>2. admin[d].agent \in Agents BY <1>6, <2>3 DEF UpdateAgentRole
    <3>3. agentRole' \in [Agents -> Roles \cup {"deleted"}]
      BY <1>5, <2>3, <3>1 DEF UpdateAgentRole
    <3>4. \E step \in {"revoke", "delete", "done"} : admin' = [admin EXCEPT ![d].step = step]
      BY <2>3 DEF UpdateAgentRole
    <3> QED BY <1>8, <3>2, <3>3, <3>4
  <2>4. CASE RevokeAgentSessions(d)
    <3>1. admin[d].agent \in Agents BY <1>6, <2>4 DEF RevokeAgentSessions
    <3>2. \E step \in {"revoke", "delete", "done"} : admin' = [admin EXCEPT ![d].step = step]
      BY <2>4 DEF RevokeAgentSessions
    <3> QED BY <1>5, <1>8, <2>4, <3>1, <3>2 DEF RevokeAgentSessions
  <2>5. CASE deleteOrganizationAgent(d)
    <3>1. admin[d].agent \in Agents BY <1>6, <2>5 DEF deleteOrganizationAgent
    <3>2. agentRole' \in [Agents -> Roles \cup {"deleted"}]
      BY <1>5, <2>5 DEF deleteOrganizationAgent
    <3>3. admin' = [admin EXCEPT ![d].step = "done"] BY <2>5 DEF deleteOrganizationAgent
    <3> QED BY <1>8, <3>1, <3>2, <3>3
  <2> QED BY <2>1, <2>2, <2>3, <2>4, <2>5 DEF AdminStep
<1> QED BY <1>1, <1>2, <1>3, <1>4, <1>9 DEF TypeInv, TypeOK, StatusTypes

-----------------------------------------------------------------------------
(* The theorem *)

LEMMA TypeInvStep == TypeInv /\ [Next]_vars => TypeInv'
<1> SUFFICES ASSUME TypeInv, [Next]_vars PROVE TypeInv'
  OBVIOUS
<1>1. ASSUME NEW s \in Sessions, RequestStep(s) PROVE TypeInv'
  <2>1. CASE createSession(s) BY <2>1, CreateSessionTypeInv
  <2> QED BY <1>1, <2>1, RequestReads DEF RequestStep
<1>2. ASSUME NEW s \in Sessions, decideSession(s) \/ finishSession(s) \/ Report(s)
      PROVE  TypeInv'
  <2>1. CASE ApproveSession(s) BY <2>1, ApproveTypeInv
  <2> QED BY <1>2, <2>1, SessionStatusStep DEF decideSession, Report
<1>3. ASSUME NEW c \in Commands,
             CreateStep(c) \/ requestCommandCancellation(c) \/ ReportCommand(c)
      PROVE  TypeInv'
  BY <1>3, CreateStepTypeInv, CommandStatusStep
<1>4. ASSUME NEW d \in Admins, AdminStep(d) PROVE TypeInv'
  BY <1>4, AdminStepTypeInv
<1>5. ASSUME NEW m \in Machines,
             \/ RevokeMachine(m) \/ setMachineOffline(m)
             \/ \E policy \in Policies : putMachineAuthority(m, policy)
      PROVE  TypeInv'
  BY <1>5, MachineStepTypeInv
<1>6. CASE expireSessions BY <1>6, ExpireTypeInv
<1>7. CASE Tick
  <2>1. /\ clock' = clock + 1 /\ clock \in Nat
        /\ UNCHANGED <<agentRole, machineAuthority, sessionVars, commandStatus, approved>>
        /\ UNCHANGED <<request, create, admin>>
    BY <1>7 DEF Tick, callsUnchanged, callVars, TypeInv, TypeOK
  <2>2. TypeOK' BY <2>1 DEF TypeInv, TypeOK, sessionVars
  <2>3. ASSUME NEW s \in Sessions PROVE RowInv(s)'
    <3>1. RowInv(s) BY DEF TypeInv, RowsInv
    <3>2. expiresAt[s] \in Nat /\ Request[s].duration \in Nat /\ request[s].stamp \in Nat
      BY RequestType DEF TypeInv, TypeOK, RequestCall
    <3> QED BY <2>1, <3>1, <3>2 DEF RowInv, HasSession, sessionVars
  <2>4. AdminInv' BY <2>1 DEF TypeInv, AdminInv
  <2> QED BY <2>2, <2>3, <2>4 DEF TypeInv, RowsInv
<1>8. CASE UNCHANGED vars
  BY <1>8 DEF vars, sessionVars, callVars, TypeInv, TypeOK, RowsInv, RowInv, AdminInv, HasSession
<1> QED BY <1>1, <1>2, <1>3, <1>4, <1>5, <1>6, <1>7, <1>8 DEF Next

\* Every reachable state is well typed.
THEOREM TypeInvariant == Spec => []TypeInv
  BY InitTypeInv, TypeInvStep, PTL DEF Spec

\* The columns, statuses and call records of the Server keep their types through
\* every operation of SessionDatabase and SessionService.
THEOREM TypeCorrect == Spec => []TypeOK
<1>1. TypeInv => TypeOK BY DEF TypeInv
<1> QED BY <1>1, TypeInvariant, PTL

-----------------------------------------------------------------------------
(* Kinds of steps *)

Granted(s) == sessionStatus[s] \in {"opening", "active"}
Pending(s) == sessionStatus[s] = "pending_approval"

\* A requestSession call that writes no row.
RequestRead(s) ==
    \/ BeginRequest(s) \/ sessionByIdempotency(s) \/ ReadMachineAuthority(s)
    \/ CountSessions(s) \/ DeliverOpen(s)

RowsUnchanged == UNCHANGED <<sessionStatus, createdAt, expiresAt, approved>>

\* Rows stay, none becomes pending, and only what was granted is granted.
NothingGranted ==
    /\ RowsKept
    /\ \A s \in Sessions : Granted(s)' => Granted(s)
    /\ UNCHANGED <<expiresAt, approved, request>>

LEMMA RequestReadKeepsRows ==
  ASSUME NEW s \in Sessions, RequestRead(s)
  PROVE  RowsUnchanged /\ UNCHANGED <<create, commandStatus>>
  BY DEF RequestRead, BeginRequest, sessionByIdempotency, ReadMachineAuthority,
         CountSessions, DeliverOpen, RequestUnchanged, sessionVars, RowsUnchanged

\* The four kinds of step.
LEMMA StepKinds ==
  ASSUME TypeInv, [Next]_vars
  PROVE  \/ \E s \in Sessions : createSession(s) \/ ApproveSession(s) \/ RequestRead(s)
         \/ NothingGranted
<1>1. StatusTypes BY DEF TypeInv, TypeOK, StatusTypes
<1>2. RowsUnchanged /\ UNCHANGED request => NothingGranted
  BY DEF RowsUnchanged, NothingGranted, RowsKept, Granted, HasSession
<1>3. ASSUME NEW s \in Sessions, decideSession(s) \/ finishSession(s) \/ Report(s),
             ~ApproveSession(s)
      PROVE  NothingGranted
  <2>1. UNCHANGED <<expiresAt, approved, request>>
    BY <1>3 DEF decideSession, DenySession, DecideTooLate, finishSession, CompleteSession,
         CancelSession, Report, markSessionOpened, markSessionFailed, markSessionClosed,
         reportUnchanged, otherColumnsUnchanged, callsUnchanged, callVars
  <2>2. \E status \in SessionStatuses \ {"pending_approval"} :
           /\ sessionStatus[s] # NoRow
           /\ status \in {"opening", "active"} => Granted(s)
           /\ sessionStatus' = [sessionStatus EXCEPT ![s] = status]
    BY <1>3 DEF decideSession, DenySession, DecideTooLate, finishSession, CompleteSession,
         CancelSession, Report, markSessionOpened, markSessionFailed, markSessionClosed,
         HasSession, NoRow, SessionStatuses, ActiveSessionStatuses, TerminalSessionStatuses,
         Granted
  <2>3. NoRow \notin SessionStatuses
    BY DEF NoRow, SessionStatuses, ActiveSessionStatuses, TerminalSessionStatuses
  <2> QED BY <1>1, <2>1, <2>2, <2>3 DEF NothingGranted, RowsKept, HasSession, Granted, StatusTypes
<1>4. ASSUME NEW c \in Commands,
             CreateStep(c) \/ requestCommandCancellation(c) \/ ReportCommand(c)
      PROVE  NothingGranted
  BY <1>2, <1>4 DEF CreateStep, commandByIdempotency, ReadSession, DecideCommand,
       CountCommands, createCommand, DeliverStart, CreateUnchanged,
       requestCommandCancellation, ReportCommand, markCommandStarted,
       markCommandCompleted, reportUnchanged, otherColumnsUnchanged,
       callsUnchanged, callVars, sessionVars, RowsUnchanged
<1>5. ASSUME NEW scope, RevokeAll(scope), UNCHANGED request
      PROVE  NothingGranted
  <2>1. RowsKept BY <1>5, RevokeAllRows
  <2>2. \A s \in Sessions : Granted(s)' => Granted(s)
    BY <1>1, <1>5 DEF RevokeAll, Granted, StatusTypes
  <2> QED BY <1>5, <2>1, <2>2 DEF NothingGranted, RevokeAll, otherColumnsUnchanged
<1>6. ASSUME NEW d \in Admins, AdminStep(d) PROVE NothingGranted
  <2>1. UNCHANGED request
    BY <1>6 DEF AdminStep, BeginRoleChange, BeginDelete, UpdateAgentRole,
         RevokeAgentSessions, deleteOrganizationAgent, AdminUnchanged
  <2>2. CASE RevokeAgentSessions(d) BY <1>5, <2>1, <2>2 DEF RevokeAgentSessions
  <2>3. CASE ~RevokeAgentSessions(d)
    BY <1>2, <1>6, <2>1, <2>3 DEF AdminStep, BeginRoleChange, BeginDelete, UpdateAgentRole,
         deleteOrganizationAgent, sessionVars, RowsUnchanged
  <2> QED BY <2>2, <2>3
<1>7. ASSUME NEW m \in Machines,
             \/ RevokeMachine(m) \/ setMachineOffline(m)
             \/ \E policy \in Policies : putMachineAuthority(m, policy)
      PROVE  NothingGranted
  <2>1. UNCHANGED request
    BY <1>7 DEF RevokeMachine, setMachineOffline, putMachineAuthority, callsUnchanged, callVars
  <2>2. CASE RevokeMachine(m) BY <1>5, <2>1, <2>2 DEF RevokeMachine
  <2>3. CASE ~RevokeMachine(m)
    BY <1>2, <1>7, <2>1, <2>3 DEF setMachineOffline, putMachineAuthority, sessionVars,
         RowsUnchanged
  <2> QED BY <2>2, <2>3
<1>8. CASE expireSessions
  <2>1. UNCHANGED <<expiresAt, approved, request>>
    BY <1>8 DEF expireSessions, otherColumnsUnchanged, callsUnchanged, callVars
  <2>2. RowsKept /\ \A s \in Sessions : Granted(s)' => Granted(s)
    BY <1>1, <1>8 DEF expireSessions, RowsKept, Granted, HasSession, NoRow, StatusTypes,
         SessionStatuses, ActiveSessionStatuses, TerminalSessionStatuses
  <2> QED BY <2>1, <2>2 DEF NothingGranted
<1>9. CASE Tick \/ UNCHANGED vars
  BY <1>2, <1>9 DEF Tick, callsUnchanged, callVars, vars, sessionVars, RowsUnchanged
<1>10. ASSUME NEW s \in Sessions, RequestStep(s) PROVE createSession(s) \/ RequestRead(s)
  BY <1>10 DEF RequestStep, RequestRead
<1> QED BY <1>3, <1>4, <1>6, <1>7, <1>8, <1>9, <1>10 DEF Next

\* What a call that writes no row changes: only its own record, whose operator
\* flag and answer are those of before once the row exists.
LEMMA RequestReadRecord ==
  ASSUME TypeInv, NEW s \in Sessions, RequestRead(s), NEW u \in Sessions
  PROVE  /\ HasSession(u) => request'[u].operator = request[u].operator
         /\ \/ request'[u].answer = request[u].answer
            \/ request'[u].answer = None
            \/ /\ request'[u].answer \in SessionsWithKey(u)
               /\ Request[request'[u].answer] = Request[u]
<1>1. request \in [Sessions -> RequestCall] BY DEF TypeInv, TypeOK
<1>2. ASSUME NEW t \in Sessions \cup {None}, Answer(s, t)
      PROVE  /\ request'[u].operator = request[u].operator
             /\ request'[u].answer = IF u = s THEN t ELSE request[u].answer
  BY <1>1, <1>2 DEF Answer, RequestCall
<1>3. CASE Deny(s)
  BY <1>2, <1>3 DEF Deny
<1>4. CASE BeginRequest(s)
  <2>1. ~HasSession(s) BY <1>4 DEF BeginRequest, TypeInv, RowsInv, RowInv
  <2> DEFINE operator == agentRole[AgentOf(s)] = "operator"
  <2>2. request' = [request EXCEPT ![s].step = "replay", ![s].operator = operator]
    BY <1>4 DEF BeginRequest
  <2> HIDE DEF operator
  <2> QED BY <1>1, <2>1, <2>2 DEF RequestCall
<1>5. CASE sessionByIdempotency(s)
  <2>1. CASE \E t \in SessionsWithKey(s) : AnswerFrom(s, t)
    <3>1. PICK t \in SessionsWithKey(s) : AnswerFrom(s, t) BY <2>1
    <3>2. CASE Request[t] = Request[s]
      <4>1. t \in Sessions BY DEF SessionsWithKey
      <4>2. Answer(s, t) BY <3>1, <3>2 DEF AnswerFrom
      <4> QED BY <1>2, <3>2, <4>1, <4>2
    <3>3. CASE Request[t] # Request[s] BY <1>3, <3>1, <3>3 DEF AnswerFrom
    <3> QED BY <3>2, <3>3
  <2>2. CASE request' = [request EXCEPT ![s].step = "machine"]
    BY <1>1, <2>2 DEF RequestCall
  <2> QED BY <1>5, <2>1, <2>2 DEF sessionByIdempotency
<1>6. CASE ReadMachineAuthority(s)
  <2> DEFINE policy == machineAuthority[MachineOf(s)].policy
  <2>1. \/ request' = [request EXCEPT ![s].step = "count", ![s].policy = policy]
        \/ Deny(s)
    BY <1>6 DEF ReadMachineAuthority
  <2> HIDE DEF policy
  <2>2. CASE request' = [request EXCEPT ![s].step = "count", ![s].policy = policy]
    BY <1>1, <2>2 DEF RequestCall
  <2> QED BY <1>3, <2>1, <2>2
<1>7. CASE CountSessions(s)
  <2>1. CASE request' = [request EXCEPT ![s].step = "insert", ![s].stamp = clock]
    BY <1>1, <2>1 DEF RequestCall
  <2> QED BY <1>3, <1>7, <2>1 DEF CountSessions
<1>8. CASE DeliverOpen(s)
  BY <1>1, <1>8 DEF DeliverOpen, RequestCall
<1> QED BY <1>4, <1>5, <1>6, <1>7, <1>8 DEF RequestRead

\* The insert either answers from a row with the key or writes this call's row.
LEMMA CreateSessionCases ==
  ASSUME TypeInv, NEW s \in Sessions, createSession(s)
  PROVE  \/ /\ RowsUnchanged
            /\ \E t \in Sessions \cup {None} :
                  /\ request' = [request EXCEPT ![s].step = "done", ![s].answer = t]
                  /\ t # None => t \in SessionsWithKey(s) /\ Request[t] = Request[s]
         \/ /\ SessionsWithKey(s) = {} /\ ~HasSession(s) /\ UNCHANGED approved
            /\ sessionStatus' = [sessionStatus EXCEPT
                  ![s] = IF request[s].operator THEN "opening" ELSE "pending_approval"]
            /\ request' = [request EXCEPT ![s].step = "deliver", ![s].answer = s]
            /\ \A u \in Sessions : u # s => expiresAt'[u] = expiresAt[u]
<1>1. CASE UNCHANGED sessionVars /\ \E t \in SessionsWithKey(s) : AnswerFrom(s, t)
  <2>1. PICK t \in SessionsWithKey(s) : AnswerFrom(s, t) BY <1>1
  <2>2. t \in Sessions BY DEF SessionsWithKey
  <2>3. t # None BY <2>2, NoneType
  <2>4. RowsUnchanged
    BY <1>1 DEF createSession, RequestUnchanged, sessionVars, RowsUnchanged
  <2>5. CASE Request[t] = Request[s]
    BY <2>1, <2>2, <2>4, <2>5 DEF AnswerFrom, Answer
  <2>6. CASE Request[t] # Request[s]
    BY <2>1, <2>4, <2>6 DEF AnswerFrom, Deny, Answer
  <2> QED BY <2>5, <2>6
<1>2. CASE ~ \E t \in SessionsWithKey(s) : AnswerFrom(s, t)
  <2>1. ~HasSession(s) BY DEF createSession, TypeInv, RowsInv, RowInv
  <2>2. expiresAt \in [Sessions -> Nat] BY DEF TypeInv, TypeOK
  <2> QED BY <1>2, <2>1, <2>2 DEF createSession, RequestUnchanged
<1> QED BY <1>1, <1>2 DEF createSession

\* Neither outcome touches the role the call was authenticated with.
LEMMA CreateSessionOperator ==
  ASSUME TypeInv, NEW s \in Sessions, createSession(s), NEW u \in Sessions
  PROVE  request'[u].operator = request[u].operator
<1>1. request \in [Sessions -> RequestCall] BY DEF TypeInv, TypeOK
<1>2. ASSUME NEW t, NEW step, request' = [request EXCEPT ![s].step = step, ![s].answer = t]
      PROVE  request'[u].operator = request[u].operator
  BY <1>1, <1>2 DEF RequestCall
<1>3. CASE \E t \in Sessions \cup {None} :
              request' = [request EXCEPT ![s].step = "done", ![s].answer = t]
  BY <1>2, <1>3
<1>4. CASE request' = [request EXCEPT ![s].step = "deliver", ![s].answer = s]
  BY <1>2, <1>4
<1> QED BY <1>3, <1>4, CreateSessionCases

-----------------------------------------------------------------------------
(* Authority has a mandate *)

MandateInv ==
    /\ \A s \in approved : HasSession(s)
    /\ AuthorityIsMandated

LEMMA MandateStep == TypeInv /\ MandateInv /\ [Next]_vars => MandateInv'
<1> SUFFICES ASSUME TypeInv, MandateInv, [Next]_vars PROVE MandateInv'
  OBVIOUS
<1>1. StatusTypes /\ approved \subseteq Sessions /\ request \in [Sessions -> RequestCall]
  BY DEF TypeInv, TypeOK, StatusTypes
<1>2. CASE NothingGranted
  BY <1>1, <1>2 DEF NothingGranted, RowsKept, Granted, MandateInv, AuthorityIsMandated,
       Mandate, HasSession, NoRow
<1>3. ASSUME NEW s \in Sessions, RequestRead(s) PROVE MandateInv'
  <2>1. RowsUnchanged BY <1>3, RequestReadKeepsRows
  <2>2. \A u \in Sessions : HasSession(u) => request'[u].operator = request[u].operator
    BY <1>3, RequestReadRecord
  <2> QED BY <1>1, <2>1, <2>2 DEF RowsUnchanged, MandateInv, AuthorityIsMandated, Mandate,
            HasSession, NoRow
<1>4. ASSUME NEW s \in Sessions, ApproveSession(s) PROVE MandateInv'
  <2>1. /\ UNCHANGED request /\ approved' = approved \cup {s}
        /\ sessionStatus[s] = "pending_approval"
        /\ sessionStatus' = [sessionStatus EXCEPT ![s] = "opening"]
    BY <1>4 DEF ApproveSession, callsUnchanged, callVars
  <2> QED BY <1>1, <2>1 DEF MandateInv, AuthorityIsMandated, Mandate, HasSession, NoRow,
            StatusTypes
<1>5. ASSUME NEW s \in Sessions, createSession(s) PROVE MandateInv'
  <2>1. CASE RowsUnchanged /\ \E t \in Sessions \cup {None} :
                request' = [request EXCEPT ![s].step = "done", ![s].answer = t]
    <3>1. \A u \in Sessions : request'[u].operator = request[u].operator
      BY <1>5, CreateSessionOperator
    <3> QED BY <1>1, <2>1, <3>1 DEF RowsUnchanged, MandateInv, AuthorityIsMandated, Mandate,
              HasSession, NoRow
  <2>2. CASE /\ ~HasSession(s) /\ UNCHANGED approved
             /\ sessionStatus' = [sessionStatus EXCEPT
                  ![s] = IF request[s].operator THEN "opening" ELSE "pending_approval"]
             /\ request' = [request EXCEPT ![s].step = "deliver", ![s].answer = s]
    <3>1. \A u \in Sessions : request'[u].operator = request[u].operator
      BY <1>5, CreateSessionOperator
    <3>2. s \notin approved BY <2>2 DEF MandateInv
    <3>3. \A u \in Sessions : u # s => sessionStatus'[u] = sessionStatus[u]
      BY <1>1, <2>2 DEF StatusTypes
    <3>4. sessionStatus'[s] = IF request[s].operator THEN "opening" ELSE "pending_approval"
      BY <1>1, <2>2 DEF StatusTypes
    <3>5. \A u \in Sessions : u # s => (u \in Mandate' <=> u \in Mandate)
      BY <2>2, <3>1, <3>3 DEF Mandate, HasSession
    <3>6. s \in Mandate' <=> request[s].operator
      <4>1. HasSession(s)' BY <3>4 DEF HasSession, NoRow
      <4>2. s \in Mandate' <=> request'[s].operator
        BY <2>2, <3>2, <4>1 DEF Mandate
      <4> QED BY <3>1, <4>2
    <3>7. \A u \in approved' : HasSession(u)'
      BY <1>1, <2>2, <3>2, <3>3 DEF MandateInv, HasSession
    <3>8. AuthorityIsMandated'
      BY <3>3, <3>4, <3>5, <3>6 DEF MandateInv, AuthorityIsMandated
    <3> QED BY <3>7, <3>8 DEF MandateInv
  <2> QED BY <1>5, <2>1, <2>2, CreateSessionCases
<1> QED BY <1>2, <1>3, <1>4, <1>5, StepKinds

\* No Session is opening or active unless its Agent was an Operator when its
\* call was authenticated or a Human approved it, and no pending one has a
\* mandate: whatever role changes, approvals, reports and retries interleave.
THEOREM AuthorityMandated == Spec => []AuthorityIsMandated
<1>1. Init => MandateInv
  BY DEF Init, MandateInv, AuthorityIsMandated, HasSession, NoRow
<1>2. MandateInv => AuthorityIsMandated BY DEF MandateInv
<1> QED BY <1>1, <1>2, MandateStep, TypeInvariant, PTL DEF Spec

-----------------------------------------------------------------------------
(* The window of authority *)

\* A Session never extends further from now than its Agent asked for, and what
\* it asked for fits the Local Policy its call read.
THEOREM WindowBounded == Spec => []AuthorityWindow
<1>1. TypeInv => AuthorityWindow
  BY DEF TypeInv, RowsInv, RowInv, AuthorityWindow
<1> QED BY <1>1, TypeInvariant, PTL

-----------------------------------------------------------------------------
(* Retries under one idempotency key *)

SameKey(s, t) == Request[s].agent = Request[t].agent /\ Request[s].key = Request[t].key

\* One row per key, and every answer given names a row for the same request.
ReplayInv ==
    /\ \A s, t \in Sessions : HasSession(s) /\ HasSession(t) /\ SameKey(s, t) => s = t
    /\ \A s \in Sessions : request[s].answer # None =>
          /\ HasSession(request[s].answer)
          /\ Request[request[s].answer] = Request[s]

LEMMA ReplayStep == TypeInv /\ ReplayInv /\ [Next]_vars => ReplayInv'
<1> SUFFICES ASSUME TypeInv, ReplayInv, [Next]_vars PROVE ReplayInv'
  OBVIOUS
<1>1. StatusTypes /\ request \in [Sessions -> RequestCall]
  BY DEF TypeInv, TypeOK, StatusTypes
<1>2. \A s \in Sessions : request[s].answer \in Sessions \cup {None}
  BY <1>1 DEF RequestCall
<1>3. CASE NothingGranted
  BY <1>2, <1>3 DEF NothingGranted, RowsKept, ReplayInv
<1>4. ASSUME NEW s \in Sessions, RequestRead(s) PROVE ReplayInv'
  <2>1. UNCHANGED sessionStatus
    BY <1>4, RequestReadKeepsRows DEF RowsUnchanged
  <2>2. ASSUME NEW u \in Sessions, request'[u].answer # None
        PROVE  /\ HasSession(request'[u].answer)
               /\ Request[request'[u].answer] = Request[u]
    BY <1>4, <2>2, RequestReadRecord DEF ReplayInv, SessionsWithKey
  <2> QED BY <2>1, <2>2 DEF ReplayInv, HasSession
<1>5. ASSUME NEW s \in Sessions, ApproveSession(s) PROVE ReplayInv'
  <2>1. UNCHANGED request
    BY <1>5 DEF ApproveSession, callsUnchanged, callVars
  <2>2. \A u \in Sessions : HasSession(u)' <=> HasSession(u)
    BY <1>1, <1>5 DEF ApproveSession, HasSession, NoRow, StatusTypes
  <2> QED BY <1>2, <2>1, <2>2 DEF ReplayInv
<1>6. ASSUME NEW s \in Sessions, createSession(s) PROVE ReplayInv'
  <2>1. ASSUME RowsUnchanged, NEW t \in Sessions \cup {None},
               request' = [request EXCEPT ![s].step = "done", ![s].answer = t],
               t # None => t \in SessionsWithKey(s) /\ Request[t] = Request[s]
        PROVE  ReplayInv'
    <3>1. \A u \in Sessions : request'[u].answer = IF u = s THEN t ELSE request[u].answer
      BY <1>1, <2>1 DEF RequestCall
    <3>2. UNCHANGED sessionStatus BY <2>1 DEF RowsUnchanged
    <3>3. t # None => HasSession(t) /\ Request[t] = Request[s]
      BY <2>1 DEF SessionsWithKey
    <3> QED BY <3>1, <3>2, <3>3 DEF ReplayInv, HasSession
  <2>2. ASSUME SessionsWithKey(s) = {},
               sessionStatus' = [sessionStatus EXCEPT
                  ![s] = IF request[s].operator THEN "opening" ELSE "pending_approval"],
               request' = [request EXCEPT ![s].step = "deliver", ![s].answer = s]
        PROVE  ReplayInv'
    <3>1. \A u \in Sessions : request'[u].answer = IF u = s THEN s ELSE request[u].answer
      BY <1>1, <2>2 DEF RequestCall
    <3>2. \A u \in Sessions : HasSession(u)' <=> (HasSession(u) \/ u = s)
      BY <1>1, <2>2 DEF HasSession, StatusTypes, NoRow
    <3>3. \A u \in Sessions : HasSession(u) => ~SameKey(s, u)
      BY <2>2 DEF SessionsWithKey, SameKey
    <3>4. \A u, v \in Sessions : SameKey(u, v) <=> SameKey(v, u)
      BY DEF SameKey
    <3> QED BY <1>2, <3>1, <3>2, <3>3, <3>4 DEF ReplayInv
  <2> QED BY <1>6, <2>1, <2>2, CreateSessionCases
<1> QED BY <1>3, <1>4, <1>5, <1>6, StepKinds

\* Calls with one key are all answered from one row, which records exactly the
\* request each of them makes, however many run at once.
THEOREM ReplaysAgree == Spec => []ReplayAgreement
<1>1. Init => ReplayInv
  BY DEF Init, ReplayInv, HasSession, NoRow, NewRequest
<1>2. TypeInv /\ ReplayInv => ReplayAgreement
  <2> SUFFICES ASSUME TypeInv, ReplayInv, NEW s \in Sessions, request[s].answer # None
               PROVE  /\ HasSession(request[s].answer)
                      /\ Request[request[s].answer] = Request[s]
                      /\ \A u \in SessionsWithKey(s) : u = request[s].answer
    BY DEF ReplayAgreement
  <2>1. request[s].answer \in Sessions
    BY DEF TypeInv, TypeOK, RequestCall
  <2>2. HasSession(request[s].answer) /\ Request[request[s].answer] = Request[s]
    BY DEF ReplayInv
  <2> QED BY <2>1, <2>2 DEF ReplayInv, SessionsWithKey, SameKey
<1> QED BY <1>1, <1>2, ReplayStep, TypeInvariant, PTL DEF Spec

-----------------------------------------------------------------------------
(* The deadline a Command is decided on *)

\* A call past its read of the Session holds the expiry of a granted row, which
\* no later step moves.
DeadlineInv(c) ==
    LET s == SessionOf[c] IN
    /\ create[c].step \in {"machine", "count", "insert", "deliver"} \/ HasCommand(c) =>
          HasSession(s) /\ ~Pending(s)
    /\ create[c].step \in {"machine", "count", "insert", "deliver"} =>
          create[c].deadline = expiresAt[s]
    /\ create[c].step \in {"count", "insert", "deliver"} =>
          Order[c].timeout <= create[c].deadline
    /\ HasCommand(c) => Order[c].timeout <= expiresAt[s]

DeadlinesInv == \A c \in Commands : DeadlineInv(c)

\* Rows that were granted once keep their expiry, and stay granted or ended.
ExpiriesFixed ==
    \A s \in Sessions : HasSession(s) /\ ~Pending(s) =>
        HasSession(s)' /\ ~Pending(s)' /\ expiresAt'[s] = expiresAt[s]

LEMMA ExpiriesFixedStep == TypeInv /\ [Next]_vars => ExpiriesFixed
<1> SUFFICES ASSUME TypeInv, [Next]_vars PROVE ExpiriesFixed
  OBVIOUS
<1>1. StatusTypes /\ expiresAt \in [Sessions -> Nat]
  BY DEF TypeInv, TypeOK, StatusTypes
<1>2. CASE NothingGranted
  BY <1>2 DEF NothingGranted, RowsKept, ExpiriesFixed, Pending
<1>3. ASSUME NEW s \in Sessions, RequestRead(s) PROVE ExpiriesFixed
  BY <1>3, RequestReadKeepsRows DEF RowsUnchanged, ExpiriesFixed, HasSession, Pending
<1>4. ASSUME NEW s \in Sessions, ApproveSession(s) PROVE ExpiriesFixed
  BY <1>1, <1>4 DEF ApproveSession, ExpiriesFixed, HasSession, Pending, StatusTypes
<1>5. ASSUME NEW s \in Sessions, createSession(s) PROVE ExpiriesFixed
  BY <1>1, <1>5, CreateSessionCases
     DEF RowsUnchanged, ExpiriesFixed, HasSession, Pending, StatusTypes
<1> QED BY <1>2, <1>3, <1>4, <1>5, StepKinds

\* No step but those of its own call creates a Command or moves its call.
LEMMA OtherCommandsKept ==
  ASSUME TypeInv, [Next]_vars, NEW c \in Commands, ~CreateStep(c)
  PROVE  create'[c] = create[c] /\ (HasCommand(c)' <=> HasCommand(c))
<1>1. /\ create \in [Commands -> CreateCall]
      /\ commandStatus \in [Commands -> CommandStatuses \cup {NoRow}]
  BY DEF TypeInv, TypeOK
<1>2. NoRow \notin CommandStatuses
  BY DEF NoRow, CommandStatuses, ActiveCommandStatuses, ResultStatuses
<1>3. ASSUME NEW S, commandStatus' = CancelCommandsOf(S)
      PROVE  HasCommand(c)' <=> HasCommand(c)
  BY <1>3 DEF CancelCommandsOf, HasCommand, ActiveCommandStatuses, NoRow
<1>4. ASSUME NEW d \in Commands, d # c, CreateStep(d)
      PROVE  create'[c] = create[c] /\ (HasCommand(c)' <=> HasCommand(c))
  BY <1>1, <1>4 DEF CreateStep, commandByIdempotency, ReadSession, DecideCommand,
       CountCommands, createCommand, DeliverStart, AnswerCommandFrom, DenyCommand,
       AnswerCommand, HasCommand
<1>5. ASSUME NEW s \in Sessions, RequestStep(s)
      PROVE  UNCHANGED <<create, commandStatus>>
  BY <1>5 DEF RequestStep, BeginRequest, sessionByIdempotency, ReadMachineAuthority,
       CountSessions, createSession, DeliverOpen, RequestUnchanged
<1>6. ASSUME NEW s \in Sessions, decideSession(s) \/ finishSession(s) \/ Report(s)
      PROVE  UNCHANGED create /\ commandStatus' \in {commandStatus, CancelCommandsOf({s})}
  BY <1>6 DEF decideSession, ApproveSession, DenySession, DecideTooLate, finishSession,
       CompleteSession, CancelSession, Report, markSessionOpened, markSessionFailed,
       markSessionClosed, reportUnchanged, callsUnchanged, callVars
<1>7. ASSUME NEW d \in Commands, requestCommandCancellation(d) \/ ReportCommand(d)
      PROVE  UNCHANGED create /\ (HasCommand(c)' <=> HasCommand(c))
  BY <1>1, <1>2, <1>7 DEF requestCommandCancellation, ReportCommand, markCommandStarted,
       markCommandCompleted, reportUnchanged, callsUnchanged, callVars, HasCommand,
       CommandStatuses, ActiveCommandStatuses, ResultStatuses, NoRow
<1>8. ASSUME NEW d \in Admins, AdminStep(d)
      PROVE  /\ UNCHANGED create
             /\ \/ UNCHANGED commandStatus
                \/ \E S : commandStatus' = CancelCommandsOf(S)
  BY <1>8 DEF AdminStep, BeginRoleChange, BeginDelete, UpdateAgentRole, RevokeAll,
       RevokeAgentSessions, deleteOrganizationAgent, AdminUnchanged
<1>9. ASSUME NEW m \in Machines,
             \/ RevokeMachine(m) \/ setMachineOffline(m)
             \/ \E policy \in Policies : putMachineAuthority(m, policy)
      PROVE  /\ UNCHANGED create
             /\ \/ UNCHANGED commandStatus
                \/ \E S : commandStatus' = CancelCommandsOf(S)
  BY <1>9 DEF RevokeMachine, RevokeAll, setMachineOffline, putMachineAuthority,
       callsUnchanged, callVars
<1>10. ASSUME expireSessions
       PROVE  UNCHANGED create /\ \E S : commandStatus' = CancelCommandsOf(S)
  BY <1>10 DEF expireSessions, callsUnchanged, callVars
<1>11. CASE Tick \/ UNCHANGED vars
  BY <1>11 DEF Tick, vars, callsUnchanged, callVars, HasCommand
<1>12. UNCHANGED commandStatus => (HasCommand(c)' <=> HasCommand(c))
  BY DEF HasCommand
<1> QED BY <1>3, <1>4, <1>5, <1>6, <1>7, <1>8, <1>9, <1>10, <1>11, <1>12 DEF Next

LEMMA DeadlineStep == TypeInv /\ DeadlinesInv /\ [Next]_vars => DeadlinesInv'
<1> SUFFICES ASSUME TypeInv, DeadlinesInv, [Next]_vars, NEW c \in Commands
             PROVE  DeadlineInv(c)'
  BY DEF DeadlinesInv
<1> DEFINE s == SessionOf[c]
<1>1. /\ s \in Sessions
      /\ create \in [Commands -> CreateCall]
      /\ commandStatus \in [Commands -> CommandStatuses \cup {NoRow}]
      /\ expiresAt \in [Sessions -> Nat] /\ clock \in Nat /\ Order[c].timeout \in Nat
  <2>1. Order[c] \in [session : Sessions, key : Keys, timeout : Nat \ {0}]
    BY OrderType
  <2>2. s \in Sessions /\ Order[c].timeout \in Nat BY <2>1 DEF SessionOf
  <2> QED BY <2>2 DEF TypeInv, TypeOK
<1>2. DeadlineInv(c) BY DEF DeadlinesInv
<1>3. ExpiriesFixed BY ExpiriesFixedStep
<1>4. ASSUME create'[c] = create[c], HasCommand(c)' => HasCommand(c)
      PROVE  DeadlineInv(c)'
  BY <1>1, <1>2, <1>3, <1>4 DEF DeadlineInv, ExpiriesFixed
<1>5. ASSUME create'[c].step \in {"idle", "session", "done"}, HasCommand(c)' => HasCommand(c)
      PROVE  DeadlineInv(c)'
  <2>1. /\ create'[c].step \notin {"machine", "count", "insert", "deliver"}
        /\ create'[c].step \notin {"count", "insert", "deliver"}
    BY <1>5
  <2>2. HasCommand(c)' => /\ HasSession(s)' /\ ~Pending(s)'
                          /\ Order[c].timeout <= expiresAt'[s]
    BY <1>1, <1>2, <1>3, <1>5 DEF DeadlineInv, ExpiriesFixed
  <2> QED BY <2>1, <2>2 DEF DeadlineInv
<1>6. CASE CreateStep(c)
  <2>1. ASSUME UNCHANGED commandStatus, NEW x \in Commands \cup {None}, AnswerCommand(c, x)
        PROVE  DeadlineInv(c)'
    <3>1. create'[c].step = "done" BY <1>1, <2>1 DEF AnswerCommand
    <3> QED BY <1>5, <2>1, <3>1 DEF HasCommand
  <2>2. ASSUME UNCHANGED commandStatus, \E x \in CommandsWithKey(c) : AnswerCommandFrom(c, x)
        PROVE  DeadlineInv(c)'
    BY <2>1, <2>2 DEF AnswerCommandFrom, DenyCommand, CommandsWithKey
  <2>3. CASE commandByIdempotency(c)
    <3>1. CASE create' = [create EXCEPT ![c].step = "session"]
      <4>1. create'[c].step = "session" BY <1>1, <3>1
      <4> QED BY <1>5, <2>3, <4>1 DEF commandByIdempotency, HasCommand
    <3> QED BY <2>2, <2>3, <3>1 DEF commandByIdempotency
  <2>4. CASE ReadSession(c)
    <3>1. UNCHANGED <<commandStatus, sessionStatus, expiresAt>>
      BY <2>4 DEF ReadSession, CreateUnchanged, sessionVars
    <3>2. CASE sessionStatus[s] = "active"
      <4>1. create'[c].step = "machine" /\ create'[c].deadline = expiresAt[s]
        BY <1>1, <2>4, <3>2 DEF ReadSession, CreateCall
      <4>2. HasSession(s)' /\ ~Pending(s)'
        BY <3>1, <3>2 DEF HasSession, Pending, NoRow
      <4> QED BY <1>2, <3>1, <4>1, <4>2 DEF DeadlineInv, HasCommand
    <3>3. CASE sessionStatus[s] # "active"
      BY <2>1, <2>4, <3>1, <3>3 DEF ReadSession, DenyCommand
    <3> QED BY <3>2, <3>3
  <2>5. CASE DecideCommand(c)
    <3>1. UNCHANGED <<commandStatus, sessionStatus, expiresAt>>
      BY <2>5 DEF DecideCommand, CreateUnchanged, sessionVars
    <3> DEFINE policy == machineAuthority[MachineOf(s)].policy
    <3>2. CASE /\ commandDecision(create[c].deadline, Order[c].timeout, policy)
               /\ create' = [create EXCEPT ![c].step = "count"]
      <4>1. create[c].deadline \in Nat BY <1>1 DEF CreateCall
      <4>2. Order[c].timeout <= create[c].deadline
        <5>1. ASSUME NEW x \in Nat, NEW y \in Nat, NEW z \in Nat, x <= y - z PROVE x <= y
          BY <5>1
        <5>2. Order[c].timeout <= create[c].deadline - clock
          BY <3>2 DEF commandDecision
        <5> QED BY <1>1, <4>1, <5>1, <5>2
      <4>3. create'[c].step = "count" /\ create'[c].deadline = create[c].deadline
        BY <1>1, <3>2 DEF CreateCall
      <4>4. create[c].step = "machine" BY <2>5 DEF DecideCommand
      <4> QED BY <1>2, <3>1, <4>2, <4>3, <4>4 DEF DeadlineInv, HasCommand, HasSession, Pending
    <3>3. CASE DenyCommand(c)
      BY <2>1, <3>1, <3>3 DEF DenyCommand
    <3> QED BY <2>5, <3>2, <3>3 DEF DecideCommand
  <2>6. CASE CountCommands(c)
    <3>1. UNCHANGED <<commandStatus, sessionStatus, expiresAt>>
      BY <2>6 DEF CountCommands, CreateUnchanged, sessionVars
    <3>2. CASE create' = [create EXCEPT ![c].step = "insert"]
      <4>1. create'[c].step = "insert" /\ create'[c].deadline = create[c].deadline
            /\ create[c].step = "count"
        BY <1>1, <2>6, <3>2 DEF CreateCall, CountCommands
      <4> QED BY <1>2, <3>1, <4>1 DEF DeadlineInv, HasCommand, HasSession, Pending
    <3> QED BY <2>1, <2>6, <3>1, <3>2 DEF CountCommands, DenyCommand
  <2>7. CASE createCommand(c)
    <3>1. create[c].step = "insert" /\ UNCHANGED <<sessionStatus, expiresAt>>
      BY <2>7 DEF createCommand, CreateUnchanged, sessionVars
    <3>2. CASE create' = [create EXCEPT ![c].step = "deliver", ![c].answer = c]
      <4>1. create'[c].step = "deliver" /\ create'[c].deadline = create[c].deadline
        BY <1>1, <3>2 DEF CreateCall
      <4> QED BY <1>2, <3>1, <4>1 DEF DeadlineInv, HasSession, Pending
    <3> QED BY <2>2, <2>7, <3>2 DEF createCommand
  <2>8. CASE DeliverStart(c)
    <3>1. create'[c].step = "done" BY <1>1, <2>8 DEF DeliverStart
    <3> QED BY <1>5, <2>8, <3>1 DEF DeliverStart, HasCommand
  <2> QED BY <1>6, <2>3, <2>4, <2>5, <2>6, <2>7, <2>8 DEF CreateStep
<1>7. CASE ~CreateStep(c)
  BY <1>4, <1>7, OtherCommandsKept
<1> QED BY <1>6, <1>7

\* createCommand decides on a Session it read some awaits before; whatever
\* happened since, the deadline it used is the Session's deadline.
THEOREM DeadlineCurrent == Spec => []DeadlineReadIsCurrent
<1>1. Init => DeadlinesInv
  BY DEF Init, DeadlinesInv, DeadlineInv, HasCommand, NoRow, NewCreate
<1>2. DeadlinesInv => DeadlineReadIsCurrent
  BY DEF DeadlinesInv, DeadlineInv, DeadlineReadIsCurrent
<1> QED BY <1>1, <1>2, DeadlineStep, TypeInvariant, PTL DEF Spec

-----------------------------------------------------------------------------
(* Retries of a Command *)

SameOrderKey(c, d) == Order[c].session = Order[d].session /\ Order[c].key = Order[d].key

CommandReplayInv ==
    /\ \A c, d \in Commands : HasCommand(c) /\ HasCommand(d) /\ SameOrderKey(c, d) => c = d
    /\ \A c \in Commands : create[c].answer # None =>
          /\ HasCommand(create[c].answer)
          /\ Order[create[c].answer] = Order[c]

\* A step of the call c writes c's row under a free key, or none.
LEMMA CreateStepEffect ==
  ASSUME TypeInv, NEW c \in Commands, CreateStep(c)
  PROVE  /\ \A d \in Commands : d # c =>
              create'[d] = create[d] /\ commandStatus'[d] = commandStatus[d]
         /\ \/ /\ UNCHANGED commandStatus
               /\ \/ create'[c].answer \in {create[c].answer, None}
                  \/ /\ create'[c].answer \in CommandsWithKey(c)
                     /\ Order[create'[c].answer] = Order[c]
            \/ CommandsWithKey(c) = {} /\ HasCommand(c)' /\ create'[c].answer = c
<1>1. /\ create \in [Commands -> CreateCall]
      /\ commandStatus \in [Commands -> CommandStatuses \cup {NoRow}]
  BY DEF TypeInv, TypeOK
<1>2. \A d \in Commands : d # c =>
          create'[d] = create[d] /\ commandStatus'[d] = commandStatus[d]
  BY <1>1 DEF CreateStep, commandByIdempotency, ReadSession, DecideCommand,
       CountCommands, createCommand, DeliverStart, AnswerCommandFrom, DenyCommand,
       AnswerCommand
<1>3. ASSUME NEW x, AnswerCommand(c, x) PROVE create'[c].answer = x
  BY <1>1, <1>3 DEF AnswerCommand, CreateCall
<1>4. ASSUME UNCHANGED commandStatus, \E d \in CommandsWithKey(c) : AnswerCommandFrom(c, d)
      PROVE  \/ create'[c].answer = None
             \/ /\ create'[c].answer \in CommandsWithKey(c)
                /\ Order[create'[c].answer] = Order[c]
  BY <1>3, <1>4 DEF AnswerCommandFrom, DenyCommand
<1>5. ASSUME NEW step, create' = [create EXCEPT ![c].step = step]
      PROVE  create'[c].answer = create[c].answer
  BY <1>1, <1>5 DEF CreateCall
<1>6. CASE commandByIdempotency(c)
  BY <1>2, <1>4, <1>5, <1>6 DEF commandByIdempotency
<1>7. CASE ReadSession(c)
  <2> DEFINE deadline == expiresAt[SessionOf[c]]
  <2>1. UNCHANGED commandStatus BY <1>7 DEF ReadSession
  <2>2. \/ create' = [create EXCEPT ![c].step = "machine", ![c].deadline = deadline]
        \/ AnswerCommand(c, None)
    BY <1>7 DEF ReadSession, DenyCommand
  <2> HIDE DEF deadline
  <2>3. CASE create' = [create EXCEPT ![c].step = "machine", ![c].deadline = deadline]
    <3>1. create'[c].answer = create[c].answer BY <1>1, <2>3 DEF CreateCall
    <3> QED BY <1>2, <2>1, <3>1
  <2> QED BY <1>2, <1>3, <2>1, <2>2, <2>3
<1>8. CASE DecideCommand(c)
  BY <1>2, <1>3, <1>5, <1>8 DEF DecideCommand, DenyCommand
<1>9. CASE CountCommands(c)
  BY <1>2, <1>3, <1>5, <1>9 DEF CountCommands, DenyCommand
<1>10. CASE createCommand(c)
  <2>1. CASE UNCHANGED commandStatus /\ \E d \in CommandsWithKey(c) : AnswerCommandFrom(c, d)
    BY <1>2, <1>4, <2>1
  <2>2. CASE /\ CommandsWithKey(c) = {}
             /\ commandStatus' = [commandStatus EXCEPT ![c] = "queued"]
             /\ create' = [create EXCEPT ![c].step = "deliver", ![c].answer = c]
    <3>1. HasCommand(c)' BY <1>1, <2>2 DEF HasCommand, NoRow
    <3>2. create'[c].answer = c BY <1>1, <2>2 DEF CreateCall
    <3> QED BY <1>2, <2>2, <3>1, <3>2
  <2> QED BY <1>10, <2>1, <2>2 DEF createCommand
<1>11. CASE DeliverStart(c)
  BY <1>2, <1>5, <1>11 DEF DeliverStart
<1> QED BY <1>6, <1>7, <1>8, <1>9, <1>10, <1>11 DEF CreateStep

LEMMA CommandReplayStep == TypeInv /\ CommandReplayInv /\ [Next]_vars => CommandReplayInv'
<1> SUFFICES ASSUME TypeInv, CommandReplayInv, [Next]_vars PROVE CommandReplayInv'
  OBVIOUS
<1>1. \A c \in Commands : create[c].answer \in Commands \cup {None}
  BY DEF TypeInv, TypeOK, CreateCall
<1>2. CASE \A c \in Commands : ~CreateStep(c)
  <2>1. \A c \in Commands : create'[c] = create[c] /\ (HasCommand(c)' <=> HasCommand(c))
    BY <1>2, OtherCommandsKept
  <2> QED BY <1>1, <2>1 DEF CommandReplayInv
<1>3. ASSUME NEW c \in Commands, CreateStep(c) PROVE CommandReplayInv'
  <2>1. \A d \in Commands : d # c =>
            create'[d] = create[d] /\ (HasCommand(d)' <=> HasCommand(d))
    BY <1>3, CreateStepEffect DEF HasCommand
  <2>2. CASE /\ UNCHANGED commandStatus
             /\ \/ create'[c].answer \in {create[c].answer, None}
                \/ /\ create'[c].answer \in CommandsWithKey(c)
                   /\ Order[create'[c].answer] = Order[c]
    <3>1. \A d \in Commands : HasCommand(d)' <=> HasCommand(d) BY <2>2 DEF HasCommand
    <3>2. create'[c].answer # None =>
            /\ create'[c].answer \in Commands /\ HasCommand(create'[c].answer)
            /\ Order[create'[c].answer] = Order[c]
      BY <1>1, <2>2 DEF CommandReplayInv, CommandsWithKey
    <3> QED BY <1>1, <2>1, <3>1, <3>2 DEF CommandReplayInv
  <2>3. CASE CommandsWithKey(c) = {} /\ HasCommand(c)' /\ create'[c].answer = c
    <3>1. \A d \in Commands : HasCommand(d) => ~SameOrderKey(c, d)
      BY <2>3 DEF CommandsWithKey, SameOrderKey
    <3>2. \A d, e \in Commands : SameOrderKey(d, e) <=> SameOrderKey(e, d)
      BY DEF SameOrderKey
    <3>3. ASSUME NEW d \in Commands, NEW e \in Commands,
                 HasCommand(d)', HasCommand(e)', SameOrderKey(d, e)
          PROVE  d = e
      <4>1. CASE d # c /\ e # c BY <2>1, <3>3, <4>1 DEF CommandReplayInv
      <4>2. CASE d = c /\ e # c BY <2>1, <3>1, <3>3, <4>2
      <4>3. CASE d # c /\ e = c BY <2>1, <3>1, <3>2, <3>3, <4>3
      <4> QED BY <4>1, <4>2, <4>3
    <3>4. ASSUME NEW d \in Commands, create'[d].answer # None
          PROVE  \E e \in Commands : create'[d].answer = e /\ HasCommand(e)' /\ Order[e] = Order[d]
      <4>1. CASE d = c BY <2>3, <4>1
      <4>2. CASE d # c
        <5>1. create'[d] = create[d] BY <2>1, <4>2
        <5>2. create[d].answer \in Commands BY <1>1, <3>4, <5>1
        <5>3. HasCommand(create[d].answer) /\ Order[create[d].answer] = Order[d]
          BY <3>4, <5>1 DEF CommandReplayInv
        <5>4. \A e \in Commands : HasCommand(e) => HasCommand(e)' BY <2>1, <2>3
        <5> QED BY <5>1, <5>2, <5>3, <5>4
      <4> QED BY <4>1, <4>2
    <3>5. \A d \in Commands : create'[d].answer # None =>
              HasCommand(create[d].answer)' /\ Order[create'[d].answer] = Order[d]
      BY <3>4 DEF HasCommand
    <3> QED BY <3>3, <3>5 DEF CommandReplayInv, SameOrderKey
  <2> QED BY <1>3, <2>2, <2>3, CreateStepEffect
<1> QED BY <1>2, <1>3

\* Calls with one key in one Session are all answered from one Command row.
THEOREM CommandReplaysAgree == Spec => []CommandReplayAgreement
<1>1. Init => CommandReplayInv
  BY DEF Init, CommandReplayInv, HasCommand, NoRow, NewCreate
<1>2. TypeInv /\ CommandReplayInv => CommandReplayAgreement
  <2> SUFFICES ASSUME TypeInv, CommandReplayInv, NEW c \in Commands, create[c].answer # None
               PROVE  /\ HasCommand(create[c].answer)
                      /\ Order[create[c].answer] = Order[c]
                      /\ \A d \in CommandsWithKey(c) : d = create[c].answer
    BY DEF CommandReplayAgreement
  <2>1. create[c].answer \in Commands BY DEF TypeInv, TypeOK, CreateCall
  <2> QED BY <2>1 DEF CommandReplayInv, CommandsWithKey, SameOrderKey
<1> QED BY <1>1, <1>2, CommandReplayStep, TypeInvariant, PTL DEF Spec

=============================================================================
