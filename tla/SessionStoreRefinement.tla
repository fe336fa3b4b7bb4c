------------------------- MODULE SessionStoreRefinement -------------------------
(*****************************************************************************)
(* SessionStore implements SessionLifecycle: the rows and calls of the       *)
(* Server, seen through PhaseOf, Mandate and WorkOf, only ever do what the   *)
(* abstract specification of temporary authority allows.                     *)
(*                                                                           *)
(* Accepting work needs a mandate; a call holds one from the moment it reads *)
(* an active Session (CallsMandated), whatever becomes of the Session while  *)
(* the call awaits.                                                          *)
(*****************************************************************************)
EXTENDS SessionStoreProofs

Phase == [s \in Sessions |-> PhaseOf(sessionStatus[s])]
Work == [c \in Commands |-> WorkOf(commandStatus[c])]

\* A call past its read of the Session stands on a Session with a mandate.
CallsMandated ==
    \A c \in Commands :
        create[c].step \in {"machine", "count", "insert"} => SessionOf[c] \in Mandate

RefinementInv == TypeInv /\ MandateInv /\ DeadlinesInv /\ CallsMandated

-----------------------------------------------------------------------------
(* How a change of status looks from above *)

LEMMA PhaseCases ==
  /\ PhaseOf(NoRow) = "none"
  /\ PhaseOf("pending_approval") = "requested"
  /\ PhaseOf("opening") = "granted" /\ PhaseOf("active") = "granted"
  /\ PhaseOf("cancellation_requested") = "ending"
  /\ \A status \in TerminalSessionStatuses : PhaseOf(status) = "ended"
  /\ \A status \in SessionStatuses \cup {NoRow} : PhaseOf(status) \in Lifecycle!Phases
  BY DEF PhaseOf, NoRow, TerminalSessionStatuses, SessionStatuses, ActiveSessionStatuses,
         Lifecycle!Phases

LEMMA WorkCases ==
  /\ WorkOf(NoRow) = "none"
  /\ WorkOf("queued") = "accepted" /\ WorkOf("delivered") = "accepted"
  /\ WorkOf("running") = "accepted" /\ WorkOf("cancellation_requested") = "stopping"
  /\ \A status \in ResultStatuses : WorkOf(status) = "ended"
  /\ \A status \in CommandStatuses \cup {NoRow} : WorkOf(status) \in Lifecycle!WorkPhases
  BY DEF WorkOf, NoRow, ResultStatuses, CommandStatuses, ActiveCommandStatuses,
         Lifecycle!WorkPhases

\* Steps that grant nothing leave the mandates as they are.
LEMMA MandateSteady ==
  ASSUME RefinementInv, NothingGranted \/ \E s \in Sessions : RequestRead(s)
  PROVE  Mandate' = Mandate
<1>1. CASE NothingGranted
  BY <1>1 DEF NothingGranted, RowsKept, Mandate
<1>2. ASSUME NEW s \in Sessions, RequestRead(s) PROVE Mandate' = Mandate
  <2>1. RowsUnchanged BY <1>2, RequestReadKeepsRows
  <2>2. \A u \in Sessions : HasSession(u) => request'[u].operator = request[u].operator
    BY <1>2, RequestReadRecord DEF RefinementInv
  <2> QED BY <2>1, <2>2 DEF RowsUnchanged, Mandate, HasSession
<1> QED BY <1>1, <1>2

\* A row inserted opening adds its Session, one inserted pending does not.
LEMMA MandateOfCreate ==
  ASSUME RefinementInv, NEW s \in Sessions, createSession(s)
  PROVE  Mandate' = IF HasSession(s)' /\ ~HasSession(s) /\ request[s].operator
                    THEN Mandate \cup {s} ELSE Mandate
<1>1. StatusTypes BY DEF RefinementInv, TypeInv, TypeOK, StatusTypes
<1>2. \A u \in Sessions : request'[u].operator = request[u].operator
  BY CreateSessionOperator DEF RefinementInv
<1>3. UNCHANGED approved
  BY CreateSessionCases DEF RefinementInv, RowsUnchanged
<1>4. \A u \in Sessions : u # s => (HasSession(u)' <=> HasSession(u))
  BY <1>1, CreateSessionCases DEF RefinementInv, RowsUnchanged, HasSession, StatusTypes
<1>5. HasSession(s) => HasSession(s)'
  BY <1>1, CreateSessionCases DEF RefinementInv, RowsUnchanged, HasSession, StatusTypes
<1> QED BY <1>2, <1>3, <1>4, <1>5 DEF Mandate

LEMMA MandateOfApprove ==
  ASSUME RefinementInv, NEW s \in Sessions, ApproveSession(s)
  PROVE  Mandate' = Mandate \cup {s}
<1>1. StatusTypes BY DEF RefinementInv, TypeInv, TypeOK, StatusTypes
<1>2. /\ UNCHANGED request /\ approved' = approved \cup {s}
      /\ sessionStatus[s] = "pending_approval"
      /\ sessionStatus' = [sessionStatus EXCEPT ![s] = "opening"]
  BY DEF ApproveSession, callsUnchanged, callVars
<1>3. \A u \in Sessions : HasSession(u)' <=> HasSession(u)
  BY <1>1, <1>2 DEF StatusTypes, HasSession, NoRow
<1> QED BY <1>2, <1>3 DEF Mandate

\* Mandates are never taken back.
LEMMA MandateGrows ==
  ASSUME RefinementInv, [Next]_vars
  PROVE  Mandate \subseteq Mandate'
  BY MandateSteady, MandateOfCreate, MandateOfApprove, StepKinds DEF RefinementInv

LEMMA CallsMandatedStep == RefinementInv /\ [Next]_vars => CallsMandated'
<1> SUFFICES ASSUME RefinementInv, [Next]_vars, NEW c \in Commands,
                    create'[c].step \in {"machine", "count", "insert"}
             PROVE  SessionOf[c] \in Mandate'
  BY DEF CallsMandated
<1>1. /\ create \in [Commands -> CreateCall] /\ SessionOf[c] \in Sessions
      /\ Mandate \subseteq Mandate'
  BY MandateGrows, OrderType DEF RefinementInv, TypeInv, TypeOK, SessionOf
<1>2. CASE create[c].step \in {"machine", "count", "insert"}
  BY <1>1, <1>2 DEF RefinementInv, CallsMandated
<1>3. CASE create[c].step \notin {"machine", "count", "insert"}
  <2>1. CreateStep(c) BY <1>3, OtherCommandsKept DEF RefinementInv
  <2>2. ReadSession(c) /\ sessionStatus[SessionOf[c]] = "active"
    BY <1>1, <1>3, <2>1
       DEF CreateStep, commandByIdempotency, ReadSession, DecideCommand, CountCommands,
           createCommand, DeliverStart, AnswerCommandFrom, DenyCommand, AnswerCommand, CreateCall
  <2> QED BY <1>1, <2>2 DEF RefinementInv, MandateInv, AuthorityIsMandated
<1> QED BY <1>2, <1>3

LEMMA RefinementInvStep == RefinementInv /\ [Next]_vars => RefinementInv'
  BY TypeInvStep, MandateStep, DeadlineStep, CallsMandatedStep DEF RefinementInv

-----------------------------------------------------------------------------
(* Every step is a step of SessionLifecycle or leaves what it sees alone *)

Seen == <<Phase, Mandate, Work>>

\* One row changes its status: the phases follow.
LEMMA PhaseUpdate ==
  ASSUME StatusTypes, NEW s \in Sessions, NEW status,
         sessionStatus' = [sessionStatus EXCEPT ![s] = status]
  PROVE  Phase' = [Phase EXCEPT ![s] = PhaseOf(status)]
  BY DEF Phase, StatusTypes

LEMMA PhaseGranted ==
  ASSUME StatusTypes, NEW s \in Sessions, NEW status \in {"opening", "active"},
         sessionStatus' = [sessionStatus EXCEPT ![s] = status]
  PROVE  Phase' = [Phase EXCEPT ![s] = "granted"]
<1>1. Phase' = [Phase EXCEPT ![s] = PhaseOf(status)] BY PhaseUpdate
<1>2. PhaseOf(status) = "granted" BY PhaseCases
<1> QED BY <1>1, <1>2

LEMMA PhaseEnded ==
  ASSUME StatusTypes, NEW s \in Sessions, NEW status \in TerminalSessionStatuses,
         sessionStatus' = [sessionStatus EXCEPT ![s] = status]
  PROVE  Phase' = [Phase EXCEPT ![s] = "ended"]
<1>1. Phase' = [Phase EXCEPT ![s] = PhaseOf(status)] BY PhaseUpdate
<1>2. PhaseOf(status) = "ended" BY PhaseCases
<1> QED BY <1>1, <1>2

LEMMA WorkUpdate ==
  ASSUME StatusTypes, NEW c \in Commands, NEW status,
         commandStatus' = [commandStatus EXCEPT ![c] = status]
  PROVE  Work' = [Work EXCEPT ![c] = WorkOf(status)]
  BY DEF Work, StatusTypes

\* Telling the active Commands of S to stop.
LEMMA WorkStopped ==
  ASSUME StatusTypes, NEW S, commandStatus' = CancelCommandsOf(S)
  PROVE  Work' = [c \in Commands |->
                    IF SessionOf[c] \in S /\ Work[c] = "accepted" THEN "stopping" ELSE Work[c]]
<1>1. ASSUME NEW c \in Commands
      PROVE  Work'[c] = IF SessionOf[c] \in S /\ Work[c] = "accepted"
                        THEN "stopping" ELSE Work[c]
  <2> DEFINE status == commandStatus[c]
  <2>1. /\ Work[c] = WorkOf(status) /\ Work'[c] = WorkOf(commandStatus'[c])
        /\ commandStatus'[c] = IF SessionOf[c] \in S /\ status \in ActiveCommandStatuses
                               THEN "cancellation_requested" ELSE status
    BY DEF Work, CancelCommandsOf
  <2>2. WorkOf(status) = "accepted" <=> status \in {"queued", "delivered", "running"}
    BY DEF WorkOf, NoRow
  <2>3. status \in {"queued", "delivered", "running"} => status \in ActiveCommandStatuses
    BY DEF ActiveCommandStatuses
  <2>4. CASE SessionOf[c] \in S /\ status \in {"queued", "delivered", "running"}
    BY <2>1, <2>2, <2>3, <2>4, WorkCases
  <2>5. CASE SessionOf[c] \in S /\ status = "cancellation_requested"
    BY <2>1, <2>2, <2>5
  <2>6. CASE SessionOf[c] \notin S \/ status \notin ActiveCommandStatuses
    BY <2>1, <2>2, <2>3, <2>6
  <2>7. status \in ActiveCommandStatuses =>
          status \in {"queued", "delivered", "running"} \/ status = "cancellation_requested"
    BY DEF ActiveCommandStatuses
  <2> QED BY <2>4, <2>5, <2>6, <2>7
<1> QED BY <1>1 DEF Work

LEMMA CreateSessionSeen ==
  ASSUME RefinementInv, NEW s \in Sessions, createSession(s)
  PROVE  Lifecycle!Propose(s) \/ Lifecycle!Grant(s) \/ UNCHANGED Seen
<1>1. StatusTypes BY DEF RefinementInv, TypeInv, TypeOK, StatusTypes
<1>2. UNCHANGED Work BY DEF createSession, RequestUnchanged, Work
<1>3. CASE RowsUnchanged
  <2>1. Mandate' = Mandate BY <1>3, MandateOfCreate DEF RowsUnchanged, HasSession
  <2> QED BY <1>2, <1>3, <2>1 DEF RowsUnchanged, Seen, Phase
<1>4. CASE /\ ~HasSession(s)
           /\ sessionStatus' = [sessionStatus EXCEPT
                 ![s] = IF request[s].operator THEN "opening" ELSE "pending_approval"]
  <2>1. Phase[s] = "none" BY <1>4, PhaseCases DEF Phase, HasSession
  <2>2. HasSession(s)' BY <1>1, <1>4 DEF HasSession, StatusTypes, NoRow
  <2>3. CASE request[s].operator
    <3>1. Phase' = [Phase EXCEPT ![s] = "granted"]
      <4>1. sessionStatus' = [sessionStatus EXCEPT ![s] = "opening"] BY <1>4, <2>3
      <4> QED BY <1>1, <4>1, PhaseGranted
    <3>2. Mandate' = Mandate \cup {s} BY <1>4, <2>2, <2>3, MandateOfCreate
    <3> QED BY <1>2, <2>1, <3>1, <3>2 DEF Lifecycle!Grant, Phase, Work
  <2>4. CASE ~request[s].operator
    <3>1. Phase' = [Phase EXCEPT ![s] = "requested"]
      <4>1. sessionStatus' = [sessionStatus EXCEPT ![s] = "pending_approval"] BY <1>4, <2>4
      <4>2. Phase' = [Phase EXCEPT ![s] = PhaseOf("pending_approval")] BY <1>1, <4>1, PhaseUpdate
      <4>3. PhaseOf("pending_approval") = "requested" BY PhaseCases
      <4> QED BY <4>2, <4>3
    <3>2. Mandate' = Mandate BY <1>4, <2>4, MandateOfCreate
    <3> QED BY <1>2, <2>1, <3>1, <3>2 DEF Lifecycle!Propose, Phase, Work
  <2> QED BY <2>3, <2>4
<1> QED BY <1>3, <1>4, CreateSessionCases DEF RefinementInv

LEMMA ApproveSeen ==
  ASSUME RefinementInv, NEW s \in Sessions, ApproveSession(s)
  PROVE  Lifecycle!Grant(s)
<1>1. StatusTypes BY DEF RefinementInv, TypeInv, TypeOK, StatusTypes
<1>2. Phase[s] = "requested" BY PhaseCases DEF ApproveSession, Phase
<1>3. Phase' = [Phase EXCEPT ![s] = "granted"]
  <2>1. sessionStatus' = [sessionStatus EXCEPT ![s] = "opening"] BY DEF ApproveSession
  <2> QED BY <1>1, <2>1, PhaseGranted
<1>4. Mandate' = Mandate \cup {s} BY MandateOfApprove
<1>5. UNCHANGED Work BY DEF ApproveSession, Work
<1> QED BY <1>2, <1>3, <1>4, <1>5 DEF Lifecycle!Grant, Phase, Work

LEMMA DecideSeen ==
  ASSUME RefinementInv, NEW s \in Sessions, DenySession(s) \/ DecideTooLate(s)
  PROVE  Lifecycle!Refuse(s)
<1>1. StatusTypes BY DEF RefinementInv, TypeInv, TypeOK, StatusTypes
<1>2. Phase[s] = "requested" BY PhaseCases DEF DenySession, DecideTooLate, Phase
<1>3. Phase' = [Phase EXCEPT ![s] = "ended"]
  <2>1. \E status \in TerminalSessionStatuses :
            sessionStatus' = [sessionStatus EXCEPT ![s] = status]
    BY DEF DenySession, DecideTooLate, TerminalSessionStatuses
  <2> QED BY <1>1, <2>1, PhaseEnded
<1>4. UNCHANGED Work BY DEF DenySession, DecideTooLate, Work
<1>5. UNCHANGED <<request, approved>>
  BY DEF DenySession, DecideTooLate, callsUnchanged, callVars
<1>6. \A u \in Sessions : HasSession(u)' <=> HasSession(u)
  BY <1>1 DEF DenySession, DecideTooLate, StatusTypes, HasSession, NoRow
<1>7. Mandate' = Mandate BY <1>5, <1>6 DEF Mandate
<1> QED BY <1>2, <1>3, <1>4, <1>7 DEF Lifecycle!Refuse, Phase, Work

LEMMA CompleteSeen ==
  ASSUME RefinementInv, NEW s \in Sessions, CompleteSession(s)
  PROVE  Lifecycle!Complete(s)
<1>1. StatusTypes BY DEF RefinementInv, TypeInv, TypeOK, StatusTypes
<1>2. Phase[s] \in {"requested", "granted", "ending"}
  BY <1>1, PhaseCases
     DEF CompleteSession, Phase, StatusTypes, HasSession, SessionStatuses, ActiveSessionStatuses
<1>3. Phase' = [Phase EXCEPT ![s] = "ended"]
  <2>1. \E status \in TerminalSessionStatuses :
            sessionStatus' = [sessionStatus EXCEPT ![s] = status]
    BY DEF CompleteSession, TerminalSessionStatuses
  <2> QED BY <1>1, <2>1, PhaseEnded
<1>4. UNCHANGED Work BY DEF CompleteSession, Work
<1>5. ASSUME NEW c \in Commands, SessionOf[c] = s PROVE Work[c] \in {"none", "ended"}
  <2>1. commandStatus[c] \in ResultStatuses \cup {NoRow}
    BY <1>1, <1>5 DEF CompleteSession, ActiveCommandsOf, StatusTypes, CommandStatuses
  <2> QED BY <2>1, WorkCases DEF Work
<1>6. UNCHANGED <<request, approved>>
  BY DEF CompleteSession, otherColumnsUnchanged, callsUnchanged, callVars
<1>7. \A u \in Sessions : HasSession(u)' <=> HasSession(u)
  BY <1>1 DEF CompleteSession, StatusTypes, HasSession, NoRow
<1>8. Mandate' = Mandate BY <1>6, <1>7 DEF Mandate
<1> QED BY <1>2, <1>3, <1>4, <1>5, <1>8 DEF Lifecycle!Complete, Phase, Work

LEMMA ReportSeen ==
  ASSUME RefinementInv, NEW s \in Sessions, Report(s)
  PROVE  Lifecycle!MachineEnds(s) \/ UNCHANGED Seen
<1>1. StatusTypes BY DEF RefinementInv, TypeInv, TypeOK, StatusTypes
<1>2. /\ UNCHANGED Work /\ UNCHANGED <<request, approved>>
      /\ \A u \in Sessions : HasSession(u)' <=> HasSession(u)
  BY <1>1 DEF Report, markSessionOpened, markSessionFailed, markSessionClosed,
         reportUnchanged, otherColumnsUnchanged, callsUnchanged, callVars, StatusTypes,
         HasSession, NoRow, Work
<1>3. Mandate' = Mandate BY <1>2 DEF Mandate
<1>4. CASE markSessionOpened(s)
  <2>1. Phase' = [Phase EXCEPT ![s] = "granted"]
    <3>1. sessionStatus' = [sessionStatus EXCEPT ![s] = "active"]
      BY <1>4 DEF markSessionOpened
    <3> QED BY <1>1, <3>1, PhaseGranted
  <2>2. Phase[s] = "granted" BY <1>4, PhaseCases DEF markSessionOpened, Phase
  <2> QED BY <1>2, <1>3, <2>1, <2>2 DEF Seen, Phase
<1>5. CASE ~markSessionOpened(s)
  <2>1. \E status \in TerminalSessionStatuses :
            sessionStatus' = [sessionStatus EXCEPT ![s] = status]
    BY <1>5 DEF Report, markSessionFailed, markSessionClosed, TerminalSessionStatuses
  <2>2. Phase' = [Phase EXCEPT ![s] = "ended"]
    BY <1>1, <2>1, PhaseEnded
  <2>3. Phase[s] \in {"granted", "ending"}
    BY <1>5, PhaseCases DEF Report, markSessionFailed, markSessionClosed, Phase
  <2> QED BY <1>2, <1>3, <2>2, <2>3 DEF Lifecycle!MachineEnds, Phase, Work
<1> QED BY <1>4, <1>5

\* Withdrawing the Sessions S in one statement or transaction.
LEMMA WithdrawSeen ==
  ASSUME RefinementInv, NEW S \in SUBSET Sessions, StatusTypes', RowsKept,
         \A s \in Sessions :
            IF s \in S
            THEN /\ sessionStatus[s] \notin TerminalSessionStatuses \cup {NoRow}
                 /\ sessionStatus'[s] \in TerminalSessionStatuses \cup {"cancellation_requested"}
                 /\ sessionStatus[s] = "cancellation_requested" =>
                       sessionStatus'[s] = "cancellation_requested"
            ELSE sessionStatus'[s] = sessionStatus[s],
         NEW T \in SUBSET S, commandStatus' = CancelCommandsOf(T),
         \A s \in S \ T : sessionStatus[s] = "pending_approval",
         \A c \in Commands : sessionStatus[SessionOf[c]] = "pending_approval" => ~HasCommand(c),
         UNCHANGED <<request, approved>>
  PROVE  Lifecycle!Withdraw(S)
<1>1. StatusTypes BY DEF RefinementInv, TypeInv, TypeOK, StatusTypes
<1>2. Mandate' = Mandate BY DEF Mandate, RowsKept
<1>3. \A s \in S : Phase[s] \in {"requested", "granted", "ending"}
  BY <1>1, PhaseCases DEF Phase, StatusTypes, SessionStatuses, ActiveSessionStatuses
<1>4. Phase' \in [Sessions -> Lifecycle!Phases]
  BY PhaseCases DEF Phase, StatusTypes
<1>5. ASSUME NEW s \in Sessions
      PROVE  IF s \in S
             THEN /\ Phase'[s] \in {"ending", "ended"}
                  /\ Phase[s] = "ending" => Phase'[s] = "ending"
             ELSE Phase'[s] = Phase[s]
  <2>1. Phase[s] = PhaseOf(sessionStatus[s]) /\ Phase'[s] = PhaseOf(sessionStatus'[s])
    BY DEF Phase
  <2>2. PhaseOf(sessionStatus[s]) = "ending" => sessionStatus[s] = "cancellation_requested"
    BY DEF PhaseOf
  <2> QED BY <2>1, <2>2, PhaseCases
<1>6. Work' = [c \in Commands |->
                  IF SessionOf[c] \in S /\ Work[c] = "accepted" THEN "stopping" ELSE Work[c]]
  <2>1. Work' = [c \in Commands |->
                  IF SessionOf[c] \in T /\ Work[c] = "accepted" THEN "stopping" ELSE Work[c]]
    BY <1>1, WorkStopped
  <2>2. \A c \in Commands : SessionOf[c] \in S \ T => Work[c] = "none"
    BY WorkCases DEF HasCommand, Work
  <2> QED BY <2>1, <2>2
<1> QED BY <1>2, <1>3, <1>4, <1>5, <1>6 DEF Lifecycle!Withdraw, Phase, Work

\* What the Sessions a scope, a sweep or a cancellation withdraws have in common.
LEMMA CancelSeen ==
  ASSUME RefinementInv, NEW s \in Sessions, CancelSession(s)
  PROVE  Lifecycle!Withdraw({s})
<1>1. StatusTypes /\ StatusTypes'
  BY CancelCommandsTyped DEF RefinementInv, TypeInv, TypeOK, StatusTypes, CancelSession,
     SessionStatuses
<1>2. RowsKept
  BY <1>1 DEF CancelSession, RowsKept, HasSession, StatusTypes, NoRow
<1>3. UNCHANGED <<request, approved>>
  BY DEF CancelSession, otherColumnsUnchanged, callsUnchanged, callVars
<1>4. \A u \in Sessions :
        IF u \in {s}
        THEN /\ sessionStatus[u] \notin TerminalSessionStatuses \cup {NoRow}
             /\ sessionStatus'[u] \in TerminalSessionStatuses \cup {"cancellation_requested"}
             /\ sessionStatus[u] = "cancellation_requested" =>
                   sessionStatus'[u] = "cancellation_requested"
        ELSE sessionStatus'[u] = sessionStatus[u]
  BY <1>1 DEF CancelSession, HasSession, StatusTypes
<1>5. \A c \in Commands : sessionStatus[SessionOf[c]] = "pending_approval" => ~HasCommand(c)
  BY DEF RefinementInv, DeadlinesInv, DeadlineInv, Pending
<1>6. commandStatus' = CancelCommandsOf({s}) BY DEF CancelSession
<1> QED BY <1>1, <1>2, <1>3, <1>4, <1>5, <1>6, WithdrawSeen

LEMMA ExpireSeen ==
  ASSUME RefinementInv, expireSessions
  PROVE  \E S \in SUBSET Sessions : Lifecycle!Withdraw(S)
<1> DEFINE pending == {s \in Sessions : sessionStatus[s] = "pending_approval" /\ Expired(s)}
           granted == {s \in Sessions : sessionStatus[s] \in {"opening", "active"} /\ Expired(s)}
<1>1. StatusTypes BY DEF RefinementInv, TypeInv, TypeOK, StatusTypes
<1>2. /\ sessionStatus' = [s \in Sessions |->
            CASE s \in pending -> "expired"
              [] s \in granted -> "cancellation_requested"
              [] OTHER -> sessionStatus[s]]
      /\ commandStatus' = CancelCommandsOf(granted)
      /\ UNCHANGED <<request, approved>>
  BY DEF expireSessions, otherColumnsUnchanged, callsUnchanged, callVars
<1>3. ASSUME NEW s \in Sessions
      PROVE  /\ s \in pending => sessionStatus'[s] = "expired"
             /\ s \in granted => sessionStatus'[s] = "cancellation_requested"
             /\ s \notin pending \cup granted => sessionStatus'[s] = sessionStatus[s]
  BY <1>2
<1>4. StatusTypes'
  <2>1. DOMAIN sessionStatus' = Sessions BY <1>2
  <2>2. \A s \in Sessions : sessionStatus'[s] \in SessionStatuses \cup {NoRow}
    BY <1>1, <1>3 DEF StatusTypes, SessionStatuses, TerminalSessionStatuses
  <2> QED BY <1>1, <1>2, <2>2, CancelCommandsTyped DEF StatusTypes
<1>5. RowsKept
  BY <1>1, <1>3 DEF RowsKept, HasSession, NoRow
<1>6. \A s \in Sessions :
        IF s \in pending \cup granted
        THEN /\ sessionStatus[s] \notin TerminalSessionStatuses \cup {NoRow}
             /\ sessionStatus'[s] \in TerminalSessionStatuses \cup {"cancellation_requested"}
             /\ sessionStatus[s] = "cancellation_requested" =>
                   sessionStatus'[s] = "cancellation_requested"
        ELSE sessionStatus'[s] = sessionStatus[s]
  BY <1>3 DEF TerminalSessionStatuses, NoRow
<1>7. \A c \in Commands : sessionStatus[SessionOf[c]] = "pending_approval" => ~HasCommand(c)
  BY DEF RefinementInv, DeadlinesInv, DeadlineInv, Pending
<1>8. pending \cup granted \in SUBSET Sessions /\ granted \in SUBSET (pending \cup granted)
  OBVIOUS
<1>9. \A s \in (pending \cup granted) \ granted : sessionStatus[s] = "pending_approval"
  OBVIOUS
<1> HIDE DEF pending, granted
<1>10. Lifecycle!Withdraw(pending \cup granted)
  BY <1>2, <1>4, <1>5, <1>6, <1>7, <1>8, <1>9, WithdrawSeen
<1> QED BY <1>8, <1>10

LEMMA RevokeSeen ==
  ASSUME RefinementInv, NEW scope \in SUBSET Sessions, RevokeAll(scope), UNCHANGED request
  PROVE  \E S \in SUBSET Sessions : Lifecycle!Withdraw(S)
<1> DEFINE revoked == {s \in scope : sessionStatus[s] \in ActiveSessionStatuses}
<1>1. StatusTypes' /\ RowsKept BY RevokeAllRows DEF RefinementInv
<1>2. /\ \A s \in Sessions :
            sessionStatus'[s] = IF s \in revoked THEN "revoked" ELSE sessionStatus[s]
      /\ commandStatus' = CancelCommandsOf(revoked)
      /\ UNCHANGED approved
  BY DEF RevokeAll, otherColumnsUnchanged
<1>3. \A s \in Sessions :
        IF s \in revoked
        THEN /\ sessionStatus[s] \notin TerminalSessionStatuses \cup {NoRow}
             /\ sessionStatus'[s] \in TerminalSessionStatuses \cup {"cancellation_requested"}
             /\ sessionStatus[s] = "cancellation_requested" =>
                   sessionStatus'[s] = "cancellation_requested"
        ELSE sessionStatus'[s] = sessionStatus[s]
  BY <1>2 DEF ActiveSessionStatuses, TerminalSessionStatuses, NoRow
<1>4. \A c \in Commands : sessionStatus[SessionOf[c]] = "pending_approval" => ~HasCommand(c)
  BY DEF RefinementInv, DeadlinesInv, DeadlineInv, Pending
<1>5. revoked \in SUBSET Sessions /\ revoked \in SUBSET revoked
      /\ \A s \in revoked \ revoked : sessionStatus[s] = "pending_approval"
  OBVIOUS
<1> HIDE DEF revoked
<1>6. Lifecycle!Withdraw(revoked)
  BY <1>1, <1>2, <1>3, <1>4, <1>5, WithdrawSeen
<1> QED BY <1>5, <1>6

\* createCommand inserts work under a mandate, even if the Session has ended.
LEMMA CreateStepSeen ==
  ASSUME RefinementInv, NEW c \in Commands, CreateStep(c)
  PROVE  Lifecycle!Accept(c) \/ UNCHANGED Seen
<1>1. StatusTypes BY DEF RefinementInv, TypeInv, TypeOK, StatusTypes
<1>2. UNCHANGED <<sessionStatus, request, approved>>
  BY DEF CreateStep, commandByIdempotency, ReadSession, DecideCommand, CountCommands,
         createCommand, DeliverStart, CreateUnchanged, sessionVars
<1>3. UNCHANGED <<Phase, Mandate>> BY <1>2 DEF Phase, Mandate, HasSession
<1>4. CASE UNCHANGED commandStatus BY <1>3, <1>4 DEF Seen, Work
<1>5. CASE /\ createCommand(c) /\ CommandsWithKey(c) = {}
           /\ commandStatus' = [commandStatus EXCEPT ![c] = "queued"]
  <2>1. ~HasCommand(c) BY <1>5 DEF CommandsWithKey
  <2>2. Work[c] = "none" BY <2>1, WorkCases DEF HasCommand, Work
  <2>3. Work' = [Work EXCEPT ![c] = WorkOf("queued")] BY <1>1, <1>5, WorkUpdate
  <2>4. Work' = [Work EXCEPT ![c] = "accepted"] BY <2>3, WorkCases
  <2>5. SessionOf[c] \in Mandate BY <1>5 DEF createCommand, RefinementInv, CallsMandated
  <2> QED BY <1>3, <2>2, <2>4, <2>5 DEF Lifecycle!Accept, Phase, Work
<1> QED BY <1>4, <1>5 DEF CreateStep, commandByIdempotency, ReadSession, DecideCommand,
         CountCommands, createCommand, DeliverStart

LEMMA CommandSeen ==
  ASSUME RefinementInv, NEW c \in Commands, requestCommandCancellation(c) \/ ReportCommand(c)
  PROVE  Lifecycle!Stop(c) \/ Lifecycle!EndWork(c) \/ UNCHANGED Seen
<1>1. StatusTypes BY DEF RefinementInv, TypeInv, TypeOK, StatusTypes
<1>2. UNCHANGED <<sessionStatus, request, approved>>
  BY DEF requestCommandCancellation, ReportCommand, markCommandStarted, markCommandCompleted,
         reportUnchanged, otherColumnsUnchanged, callsUnchanged, callVars
<1>3. UNCHANGED <<Phase, Mandate>> BY <1>2 DEF Phase, Mandate, HasSession
<1>4. Work[c] = WorkOf(commandStatus[c]) BY DEF Work
<1>5. commandStatus[c] \in ActiveCommandStatuses => Work[c] \in {"accepted", "stopping"}
  BY <1>4, WorkCases DEF ActiveCommandStatuses
<1>6. CASE requestCommandCancellation(c)
  <2>1. commandStatus' = [commandStatus EXCEPT ![c] = "cancellation_requested"]
    BY <1>6 DEF requestCommandCancellation
  <2>2. Work' = [Work EXCEPT ![c] = WorkOf("cancellation_requested")]
    BY <1>1, <2>1, WorkUpdate
  <2>3. Work' = [Work EXCEPT ![c] = "stopping"] BY <2>2, WorkCases
  <2>4. Work[c] \in {"accepted", "stopping"} BY <1>5, <1>6 DEF requestCommandCancellation
  <2>5. CASE Work[c] = "accepted" BY <1>3, <2>3, <2>5 DEF Lifecycle!Stop, Phase, Work
  <2>6. CASE Work[c] = "stopping" BY <1>3, <2>3, <2>6 DEF Seen, Work
  <2> QED BY <2>4, <2>5, <2>6
<1>7. CASE markCommandStarted(c)
  <2>1. commandStatus' = [commandStatus EXCEPT ![c] = "running"]
    BY <1>7 DEF markCommandStarted
  <2>2. Work' = [Work EXCEPT ![c] = WorkOf("running")] BY <1>1, <2>1, WorkUpdate
  <2>3. Work[c] = "accepted" BY <1>4, <1>7, WorkCases DEF markCommandStarted
  <2>4. Work' = Work BY <2>2, <2>3, WorkCases DEF Work
  <2> QED BY <1>3, <2>4 DEF Seen
<1>8. ASSUME NEW status \in ResultStatuses, markCommandCompleted(c, status)
      PROVE  Lifecycle!EndWork(c)
  <2>1. commandStatus' = [commandStatus EXCEPT ![c] = status]
    BY <1>8 DEF markCommandCompleted
  <2>2. Work' = [Work EXCEPT ![c] = WorkOf(status)] BY <1>1, <2>1, WorkUpdate
  <2>3. Work' = [Work EXCEPT ![c] = "ended"] BY <2>2, WorkCases
  <2>4. Work[c] \in {"accepted", "stopping"} BY <1>5, <1>8 DEF markCommandCompleted
  <2> QED BY <1>3, <2>3, <2>4 DEF Lifecycle!EndWork, Phase, Work
<1> QED BY <1>6, <1>7, <1>8 DEF ReportCommand

-----------------------------------------------------------------------------
(* The theorem *)

LEMMA StepSeen == RefinementInv /\ [Next]_vars => [Lifecycle!Next]_(Lifecycle!vars)
<1> SUFFICES ASSUME RefinementInv, [Next]_vars
             PROVE  Lifecycle!Next \/ UNCHANGED Seen
  BY DEF Lifecycle!vars, Seen, Phase, Work
<1>1. ASSUME NEW s \in Sessions, RequestStep(s) PROVE Lifecycle!Next \/ UNCHANGED Seen
  <2>1. CASE createSession(s) BY <2>1, CreateSessionSeen DEF Lifecycle!Next
  <2>2. CASE RequestRead(s)
    <3>1. RowsUnchanged /\ UNCHANGED commandStatus BY <2>2, RequestReadKeepsRows
    <3>2. Mandate' = Mandate BY <2>2, MandateSteady
    <3> QED BY <3>1, <3>2 DEF RowsUnchanged, Seen, Phase, Work
  <2> QED BY <1>1, <2>1, <2>2 DEF RequestStep, RequestRead
<1>2. ASSUME NEW s \in Sessions, decideSession(s) \/ finishSession(s) \/ Report(s)
      PROVE  Lifecycle!Next \/ UNCHANGED Seen
  <2>1. CASE ApproveSession(s) BY <2>1, ApproveSeen DEF Lifecycle!Next
  <2>2. CASE DenySession(s) \/ DecideTooLate(s) BY <2>2, DecideSeen DEF Lifecycle!Next
  <2>3. CASE CompleteSession(s) BY <2>3, CompleteSeen DEF Lifecycle!Next
  <2>4. CASE CancelSession(s)
    <3>1. {s} \in SUBSET Sessions OBVIOUS
    <3> QED BY <2>4, <3>1, CancelSeen DEF Lifecycle!Next
  <2>5. CASE Report(s) BY <2>5, ReportSeen DEF Lifecycle!Next
  <2> QED BY <1>2, <2>1, <2>2, <2>3, <2>4, <2>5 DEF decideSession, finishSession
<1>3. ASSUME NEW c \in Commands,
             CreateStep(c) \/ requestCommandCancellation(c) \/ ReportCommand(c)
      PROVE  Lifecycle!Next \/ UNCHANGED Seen
  BY <1>3, CreateStepSeen, CommandSeen DEF Lifecycle!Next
<1>4. ASSUME UNCHANGED <<sessionStatus, commandStatus, request, approved>>
      PROVE  UNCHANGED Seen
  BY <1>4 DEF Seen, Phase, Work, Mandate, HasSession
<1>5. ASSUME NEW d \in Admins, AdminStep(d) PROVE Lifecycle!Next \/ UNCHANGED Seen
  <2>1. UNCHANGED request
    BY <1>5 DEF AdminStep, BeginRoleChange, BeginDelete, UpdateAgentRole,
         RevokeAgentSessions, deleteOrganizationAgent, AdminUnchanged
  <2>2. CASE RevokeAgentSessions(d)
    <3>1. RevokeAll({s \in Sessions : AgentOf(s) = admin[d].agent})
      BY <2>2 DEF RevokeAgentSessions
    <3>2. {s \in Sessions : AgentOf(s) = admin[d].agent} \in SUBSET Sessions OBVIOUS
    <3> QED BY <2>1, <3>1, <3>2, RevokeSeen DEF Lifecycle!Next
  <2>3. CASE ~RevokeAgentSessions(d)
    BY <1>4, <1>5, <2>1, <2>3 DEF AdminStep, BeginRoleChange, BeginDelete, UpdateAgentRole,
         deleteOrganizationAgent, sessionVars
  <2> QED BY <2>2, <2>3
<1>6. ASSUME NEW m \in Machines,
             \/ RevokeMachine(m) \/ setMachineOffline(m)
             \/ \E policy \in Policies : putMachineAuthority(m, policy)
      PROVE  Lifecycle!Next \/ UNCHANGED Seen
  <2>1. UNCHANGED request
    BY <1>6 DEF RevokeMachine, setMachineOffline, putMachineAuthority, callsUnchanged, callVars
  <2>2. CASE RevokeMachine(m)
    <3>1. RevokeAll({s \in Sessions : MachineOf(s) = m}) BY <2>2 DEF RevokeMachine
    <3>2. {s \in Sessions : MachineOf(s) = m} \in SUBSET Sessions OBVIOUS
    <3> QED BY <2>1, <3>1, <3>2, RevokeSeen DEF Lifecycle!Next
  <2>3. CASE ~RevokeMachine(m)
    BY <1>4, <1>6, <2>1, <2>3 DEF setMachineOffline, putMachineAuthority, sessionVars
  <2> QED BY <2>2, <2>3
<1>7. CASE expireSessions BY <1>7, ExpireSeen DEF Lifecycle!Next
<1>8. CASE Tick \/ UNCHANGED vars
  BY <1>4, <1>8 DEF Tick, callsUnchanged, callVars, vars, sessionVars
<1> QED BY <1>1, <1>2, <1>3, <1>5, <1>6, <1>7, <1>8 DEF Next

\* The Server's rows and calls implement the abstract specification: phases
\* only move forward, grants have a mandate, and the step that withdraws a
\* grant tells all its accepted work to stop.
THEOREM StoreImplementsLifecycle == Spec => ImplementsLifecycle
<1>1. Init => RefinementInv
  BY InitTypeInv
     DEF Init, RefinementInv, MandateInv, AuthorityIsMandated, CallsMandated, HasSession,
         NoRow, NewCreate, DeadlinesInv, DeadlineInv, HasCommand
<1>2. Init => Lifecycle!Init
  <2> SUFFICES ASSUME Init PROVE Lifecycle!Init
    OBVIOUS
  <2>1. Mandate = {} BY DEF Init, Mandate, HasSession
  <2>2. \A s \in Sessions : PhaseOf(sessionStatus[s]) = "none" BY PhaseCases DEF Init
  <2>3. \A c \in Commands : WorkOf(commandStatus[c]) = "none" BY WorkCases DEF Init
  <2> QED BY <2>1, <2>2, <2>3 DEF Lifecycle!Init
<1> QED BY <1>1, <1>2, RefinementInvStep, StepSeen, PTL
           DEF Spec, ImplementsLifecycle, Lifecycle!Spec

=============================================================================
