---------------------------- MODULE ControlProofs ----------------------------
(*****************************************************************************)
(* The Server and the Client together, for any number of Sessions and        *)
(* Commands: the one copy of a result is in the journal for as long as the   *)
(* Server takes the Command to be running; and when nothing is on its way,   *)
(* the two agree.                                                            *)
(*                                                                           *)
(* The first invariant, ControlInv, says what may be on its way: nobody      *)
(* speaks of a Command without a row, nothing is acknowledged that is not    *)
(* over, and nothing is reported started that is neither journaled nor over. *)
(* These sets only grow, so a message that was right when it was sent is     *)
(* right when it arrives, however late.                                      *)
(*                                                                           *)
(* The second, QuietInv, says what must be on its way: for everything the    *)
(* Server waits for there is a witness that it will be settled - a message,  *)
(* a handler, a reconciliation - or the connection will be replaced, and the *)
(* reconciliation of the next one is the witness.                            *)
(*                                                                           *)
(* Between the two: each step of the system is one that SessionStore and     *)
(* Client allow by themselves, so what is proved of them holds here.         *)
(*****************************************************************************)
EXTENDS SessionControl, FiniteSetTheorems, SequenceTheorems, TLAPS

-----------------------------------------------------------------------------
(* The invariant *)

\* Commands with a row, with a result in it, and with an entry in the journal.
Known == {c \in Commands : commandStatus[c] # "none"}
Over == {c \in Commands : commandStatus[c] \in Store!ResultStatuses}
Journaled == {c \in Commands : journal[c] # "none"}

\* What an operation of the Server may still have to send, and what it may
\* have sent.
Instructions ==
    {Open(s) : s \in Sessions} \cup {Close(s, r) : s \in Sessions, r \in {"expired", "closed"}}
    \cup {Stop(c) : c \in Known}
Downward ==
    {Authentication} \cup Instructions
    \cup {Start(c) : c \in Known} \cup {Acknowledge(c) : c \in Over}

\* What the Client may have reported.
Upward ==
    {Machine!Opened(s) : s \in Sessions} \cup {Machine!OpenFailed(s) : s \in Sessions}
    \cup {Machine!Closed(s, r) : s \in Sessions, r \in {"expired", "closed", "none", "already_closed"}}
    \cup {Machine!Started(c) : c \in Known \cap (Journaled \cup Over)}
    \cup {Machine!Completed(c, r) : c \in Known, r \in Machine!Results}

Controls == [step : {"none", "preparing", "running"}, cancelled : BOOLEAN, timedOut : BOOLEAN]
Closures == [waits : SUBSET Commands, reason : {"expired", "closed", "none"}, timer : BOOLEAN]

RowsInv ==
    /\ commandStatus \in [Commands -> Store!CommandStatuses \cup {"none"}]
    /\ expiresAt \in [Sessions -> Nat]
    /\ create \in [Commands -> Store!CreateCall]
    /\ \A c \in Commands : create[c].step = "deliver" => c \in Known
    /\ IsFiniteSet(Known)

MachineInv ==
    /\ journal \in [Commands -> Machine!JournalStates]
    /\ control \in [Commands -> Controls]
    /\ closing \in [Sessions -> Closures]
    /\ \A c \in Commands : control[c].step # "none" => c \in Known
    /\ Journaled \subseteq Known

WireInv ==
    /\ toMachine \in Seq(Downward)
    /\ sending \subseteq Seq(Instructions) \ {<<>>}
    /\ out \in Seq(Upward) /\ buffer \in Seq(Upward)

ControlInv == RowsInv /\ MachineInv /\ WireInv /\ RunningMeansJournaled

-----------------------------------------------------------------------------
(* Queues *)

\* A queue of what was allowed is one of what is allowed by now.
LEMMA SeqGrows ==
    ASSUME NEW A, NEW B, A \subseteq B, NEW q \in Seq(A)
    PROVE  q \in Seq(B)
<1>1. Len(q) \in Nat /\ q \in [1..Len(q) -> A] BY LenProperties
<1>2. q \in [1..Len(q) -> B] BY <1>1
<1> QED BY <1>1, <1>2, SeqDef

\* Messages are taken from the front and put at the end.
LEMMA QueueMoves ==
    ASSUME NEW A, NEW q \in Seq(A)
    PROVE  /\ <<>> \in Seq(A)
           /\ q # <<>> => Head(q) \in A /\ Tail(q) \in Seq(A)
           /\ \A m \in A : Append(q, m) \in Seq(A) /\ <<m>> \in Seq(A)
           /\ \A r \in Seq(A) : q \o r \in Seq(A)
<1>1. <<>> \in Seq(A) BY EmptySeq
<1>2. q # <<>> => Head(q) \in A /\ Tail(q) \in Seq(A) BY HeadTailProperties
<1>3. \A m \in A : Append(q, m) \in Seq(A) BY AppendProperties
<1>4. \A m \in A : <<m>> \in Seq(A) OBVIOUS
<1>5. \A r \in Seq(A) : q \o r \in Seq(A) BY ConcatProperties
<1> QED BY <1>1, <1>2, <1>3, <1>4, <1>5

\* A message is in a queue.
In(m, q) == \E i \in 1..Len(q) : q[i] = m

\* What an empty queue, one message, a longer queue and two of them hold.
LEMMA QueueHolds ==
    ASSUME NEW A, NEW q \in Seq(A), NEW m
    PROVE  /\ ~In(m, <<>>)
           /\ \A x \in A : In(m, Append(q, x)) <=> In(m, q) \/ m = x
           /\ \A x : In(m, <<x>>) <=> m = x
           /\ q # <<>> => (In(m, q) <=> m = Head(q) \/ In(m, Tail(q)))
<1>1. ~In(m, <<>>) BY DEF In
<1>2. ASSUME NEW x \in A PROVE In(m, Append(q, x)) <=> In(m, q) \/ m = x
  <2>1. /\ Len(q) \in Nat /\ Len(Append(q, x)) = Len(q) + 1
        /\ \A i \in 1..Len(q) : Append(q, x)[i] = q[i]
        /\ Append(q, x)[Len(q) + 1] = x
    BY AppendProperties, LenProperties
  <2> QED BY <2>1 DEF In
<1>3. \A x : In(m, <<x>>) <=> m = x BY DEF In
<1>4. ASSUME q # <<>> PROVE In(m, q) <=> m = Head(q) \/ In(m, Tail(q))
  <2>1. /\ Len(q) \in Nat /\ Len(q) >= 1 /\ Len(Tail(q)) = Len(q) - 1 /\ Head(q) = q[1]
        /\ \A i \in 1..Len(q) - 1 : Tail(q)[i] = q[i + 1]
    BY <1>4, HeadTailProperties, LenProperties, EmptySeq
  <2>2. ASSUME NEW i \in 1..Len(q), i # 1, q[i] = m PROVE In(m, Tail(q))
    <3>1. i - 1 \in 1..Len(Tail(q)) /\ Tail(q)[i - 1] = q[(i - 1) + 1] /\ (i - 1) + 1 = i
      BY <2>1, <2>2
    <3> QED BY <2>2, <3>1 DEF In
  <2>3. ASSUME NEW i \in 1..Len(Tail(q)), Tail(q)[i] = m PROVE In(m, q)
    <3>1. i + 1 \in 1..Len(q) /\ q[i + 1] = m BY <2>1, <2>3
    <3> QED BY <3>1 DEF In
  <2> QED BY <2>1, <2>2, <2>3 DEF In
<1> QED BY <1>1, <1>2, <1>3, <1>4

\* Two queues.
LEMMA BothHold ==
    ASSUME NEW A, NEW q \in Seq(A), NEW r \in Seq(A), NEW m
    PROVE  In(m, q \o r) <=> In(m, q) \/ In(m, r)
<1>1. /\ Len(q) \in Nat /\ Len(r) \in Nat /\ Len(q \o r) = Len(q) + Len(r)
      /\ \A i \in 1..Len(q) + Len(r) :
            (q \o r)[i] = IF i <= Len(q) THEN q[i] ELSE r[i - Len(q)]
  BY ConcatProperties, LenProperties
<1>2. ASSUME In(m, q \o r) PROVE In(m, q) \/ In(m, r)
  <2>1. PICK i \in 1..Len(q) + Len(r) : (q \o r)[i] = m BY <1>1, <1>2 DEF In
  <2>2. CASE i <= Len(q)
    <3>1. i \in 1..Len(q) /\ q[i] = m BY <1>1, <2>1, <2>2
    <3> QED BY <3>1 DEF In
  <2>3. CASE ~(i <= Len(q))
    <3>1. i - Len(q) \in 1..Len(r) /\ r[i - Len(q)] = m BY <1>1, <2>1, <2>3
    <3> QED BY <3>1 DEF In
  <2> QED BY <2>2, <2>3
<1>3. ASSUME In(m, q) PROVE In(m, q \o r)
  <2>1. PICK i \in 1..Len(q) : q[i] = m BY <1>3 DEF In
  <2>2. i \in 1..Len(q \o r) /\ (q \o r)[i] = m BY <1>1, <2>1
  <2> QED BY <2>2 DEF In
<1>4. ASSUME In(m, r) PROVE In(m, q \o r)
  <2>1. PICK i \in 1..Len(r) : r[i] = m BY <1>4 DEF In
  <2>2. /\ i + Len(q) \in 1..Len(q \o r) /\ ~(i + Len(q) <= Len(q))
        /\ (i + Len(q)) - Len(q) = i
    BY <1>1, <2>1
  <2>3. (q \o r)[i + Len(q)] = r[i] BY <1>1, <2>2
  <2> QED BY <2>1, <2>2, <2>3 DEF In
<1> QED BY <1>2, <1>3, <1>4

\* ClientMessageBuffer makes nothing up.
LEMMA NewestKeeps ==
    ASSUME NEW A, NEW q \in Seq(A)
    PROVE  Machine!Newest(q) \in Seq(A)
<1> DEFINE m == 1 + (IF Len(q) > BufferLimit THEN Len(q) - BufferLimit ELSE 0)
<1>1. BufferLimit \in Nat \ {0} BY BoundsType
<1>2. Len(q) \in Nat /\ \A i \in 1..Len(q) : q[i] \in A BY LenProperties, ElementOfSeq
<1>3. m \in Int /\ m >= 1 BY <1>1, <1>2
<1>4. Machine!Newest(q) = SubSeq(q, m, Len(q)) BY DEF Machine!Newest
<1> HIDE DEF m
<1>5. \A i \in m..Len(q) : q[i] \in A BY <1>2, <1>3
<1>6. Len(q) \in Int BY <1>2
<1> QED BY <1>3, <1>4, <1>5, <1>6, SubSeqProperties

\* The Client counts as the Server does.
LEMMA SameCount == \A S : Machine!Cardinality(S) = Cardinality(S)
BY DEF Machine!Cardinality, Cardinality

\* A finite set can be listed.
LEMMA ListingLists ==
    ASSUME NEW S, IsFiniteSet(S)
    PROVE  /\ Cardinality(S) \in Nat /\ Machine!Listing(S) \in [1..Cardinality(S) -> S]
           /\ \A x \in S : \E i \in DOMAIN Machine!Listing(S) : Machine!Listing(S)[i] = x
<1>1. Cardinality(S) \in Nat /\ ExistsBijection(1..Cardinality(S), S)
  BY FS_CardinalityType
<1>2. PICK g \in Bijection(1..Cardinality(S), S) : TRUE
  BY <1>1 DEF ExistsBijection
<1>3. /\ g \in [1..Cardinality(S) -> S]
      /\ \A x \in S : \E i \in 1..Cardinality(S) : g[i] = x
  BY <1>2 DEF Bijection, Injection, Surjection
<1>4. DOMAIN g = 1..Cardinality(S) BY <1>3
<1>5. \E f \in [1..Cardinality(S) -> S] : \A x \in S : \E i \in DOMAIN f : f[i] = x
  BY <1>3, <1>4
<1> QED BY <1>1, <1>5, SameCount DEF Machine!Listing

\* What may be said of a Command may be said for good.
LEMMA MessagesGrow ==
    ASSUME Known \subseteq Known', Over \subseteq Over', Journaled \subseteq Journaled' \cup Over'
    PROVE  /\ Instructions \subseteq Instructions'
           /\ Downward \subseteq Downward'
           /\ Upward \subseteq Upward'
<1>1. Instructions \subseteq Instructions' BY DEF Instructions
<1>2. Downward \subseteq Downward' BY <1>1 DEF Downward
<1>3. Upward \subseteq Upward' BY DEF Upward
<1> QED BY <1>1, <1>2, <1>3

\* The queues keep to it, too.
LEMMA QueuesGrow ==
    ASSUME WireInv, Known \subseteq Known', Over \subseteq Over',
           Journaled \subseteq Journaled' \cup Over'
    PROVE  /\ toMachine \in Seq(Downward')
           /\ sending \subseteq Seq(Instructions') \ {<<>>}
           /\ out \in Seq(Upward') /\ buffer \in Seq(Upward')
<1>1. /\ Instructions \subseteq Instructions' /\ Downward \subseteq Downward'
      /\ Upward \subseteq Upward'
  BY MessagesGrow
<1>2. toMachine \in Seq(Downward) /\ out \in Seq(Upward) /\ buffer \in Seq(Upward)
  BY DEF WireInv
<1>3. toMachine \in Seq(Downward') /\ out \in Seq(Upward') /\ buffer \in Seq(Upward')
  BY <1>1, <1>2, SeqGrows
<1>4. ASSUME NEW batch \in sending PROVE batch \in Seq(Instructions')
  <2>1. batch \in Seq(Instructions) BY <1>4 DEF WireInv
  <2> QED BY <1>1, <2>1, SeqGrows
<1> QED BY <1>3, <1>4 DEF WireInv

-----------------------------------------------------------------------------
(* The Server's rows *)

\* The rows of Commands stay, results stay, and none becomes running.
RowsStep ==
    /\ RowsInv'
    /\ Known \subseteq Known' /\ Over \subseteq Over'
    /\ \A c \in Commands : commandStatus'[c] = "running" => commandStatus[c] = "running"

\* A step that leaves Commands and their calls alone.
LEMMA RowsRest ==
    ASSUME RowsInv, UNCHANGED <<commandStatus, expiresAt, create>>
    PROVE  RowsStep
BY DEF RowsInv, RowsStep, Known, Over

\* Commands told to stop keep their rows.
LEMMA RowsStopped ==
    ASSUME RowsInv, NEW S, commandStatus' = Store!CancelCommandsOf(S),
           UNCHANGED <<expiresAt, create>>
    PROVE  RowsStep
<1>1. commandStatus \in [Commands -> Store!CommandStatuses \cup {"none"}] BY DEF RowsInv
<1>2. ASSUME NEW c \in Commands
      PROVE  commandStatus'[c] \in {commandStatus[c]} \cup
                (IF commandStatus[c] \in Store!ActiveCommandStatuses
                 THEN {"cancellation_requested"} ELSE {})
  BY DEF Store!CancelCommandsOf
<1>3. commandStatus' \in [Commands -> Store!CommandStatuses \cup {"none"}]
  BY <1>1 DEF Store!CancelCommandsOf, Store!CommandStatuses, Store!ActiveCommandStatuses
<1>4. Known' = Known
  BY <1>1, <1>2 DEF Known, Store!CommandStatuses, Store!ActiveCommandStatuses
<1>5. Over \subseteq Over'
  BY <1>1, <1>2 DEF Over, Store!CommandStatuses, Store!ActiveCommandStatuses, Store!ResultStatuses
<1>6. \A c \in Commands : commandStatus'[c] = "running" => commandStatus[c] = "running"
  BY <1>2
<1> QED BY <1>3, <1>4, <1>5, <1>6 DEF RowsInv, RowsStep

\* One Command's status moves to one that is not running.
LEMMA RowMoves ==
    ASSUME RowsInv, NEW c \in Commands, c \notin Over,
           NEW status \in Store!CommandStatuses \ {"running"},
           commandStatus' = [commandStatus EXCEPT ![c] = status], expiresAt' = expiresAt,
           create' \in [Commands -> Store!CreateCall],
           \A d \in Commands : create'[d].step = "deliver" => d = c \/ create[d].step = "deliver"
    PROVE  RowsStep
<1>1. commandStatus \in [Commands -> Store!CommandStatuses \cup {"none"}] BY DEF RowsInv
<1>2. status # "none"
  BY DEF Store!CommandStatuses, Store!ActiveCommandStatuses, Store!ResultStatuses
<1>3. Known' = Known \cup {c} BY <1>1, <1>2 DEF Known
<1>4. IsFiniteSet(Known') BY <1>3, FS_AddElement DEF RowsInv
<1>5. Over \subseteq Over' BY <1>1 DEF Over
<1>6. commandStatus' \in [Commands -> Store!CommandStatuses \cup {"none"}] BY <1>1
<1>7. \A d \in Commands : create'[d].step = "deliver" => d \in Known'
  BY <1>3 DEF RowsInv
<1>8. \A d \in Commands : commandStatus'[d] = "running" => commandStatus[d] = "running"
  BY <1>1
<1> QED BY <1>3, <1>4, <1>5, <1>6, <1>7, <1>8 DEF RowsInv, RowsStep

\* A createCommand call inserts its own row, or none.
LEMMA CreateStepRows ==
    ASSUME RowsInv, NEW c \in Commands,
           \/ Store!commandByIdempotency(c) \/ Store!ReadSession(c) \/ Store!DecideCommand(c)
           \/ Store!CountCommands(c) \/ Store!createCommand(c) \/ Store!DeliverStart(c)
    PROVE  RowsStep
<1>1. create \in [Commands -> Store!CreateCall] /\ create[c] \in Store!CreateCall
  BY DEF RowsInv
<1>2. expiresAt' = expiresAt
  BY DEF Store!commandByIdempotency, Store!ReadSession, Store!DecideCommand, Store!CountCommands,
     Store!createCommand, Store!DeliverStart, Store!CreateUnchanged, Store!sessionVars
<1>3. ASSUME commandStatus' = commandStatus, NEW call \in Store!CreateCall,
             call.step # "deliver", create' = [create EXCEPT ![c] = call]
      PROVE  RowsStep
  <2>1. create' \in [Commands -> Store!CreateCall] BY <1>1, <1>3
  <2>2. \A d \in Commands : create'[d].step = "deliver" => create[d].step = "deliver"
    BY <1>1, <1>3
  <2>3. Known' = Known /\ Over' = Over BY <1>3 DEF Known, Over
  <2> QED BY <1>2, <1>3, <2>1, <2>2, <2>3 DEF RowsInv, RowsStep
<1>4. ASSUME commandStatus' = commandStatus, NEW step \in Store!CreateSteps \ {"deliver"},
             create' = [create EXCEPT ![c].step = step]
      PROVE  RowsStep
  <2>1. [create[c] EXCEPT !.step = step] \in Store!CreateCall BY <1>1 DEF Store!CreateCall
  <2>2. [create[c] EXCEPT !.step = step].step = step BY <1>1 DEF Store!CreateCall
  <2> QED BY <1>3, <1>4, <2>1, <2>2
<1>5. ASSUME commandStatus' = commandStatus, NEW d \in Commands \cup {None},
             Store!AnswerCommand(c, d)
      PROVE  RowsStep
  <2> DEFINE call == [create[c] EXCEPT !.step = "done", !.answer = d]
  <2>1. call \in Store!CreateCall /\ call.step = "done"
    BY <1>1 DEF Store!CreateCall, Store!CreateSteps
  <2>2. create' = [create EXCEPT ![c] = call] BY <1>1, <1>5 DEF Store!AnswerCommand
  <2> HIDE DEF call
  <2> QED BY <1>3, <1>5, <2>1, <2>2
<1>6. ASSUME commandStatus' = commandStatus,
             \E d \in Store!CommandsWithKey(c) : Store!AnswerCommandFrom(c, d)
      PROVE  RowsStep
  BY <1>5, <1>6 DEF Store!AnswerCommandFrom, Store!DenyCommand, Store!CommandsWithKey
<1>7. CASE Store!commandByIdempotency(c)
  BY <1>4, <1>6, <1>7 DEF Store!commandByIdempotency, Store!CreateSteps
<1>8. CASE Store!ReadSession(c)
  <2>1. commandStatus' = commandStatus BY <1>8 DEF Store!ReadSession
  <2> DEFINE deadline == expiresAt[Store!SessionOf[c]]
             call == [create[c] EXCEPT !.step = "machine", !.deadline = deadline]
  <2>2. CASE create' = [create EXCEPT ![c] = call]
    <3>1. deadline \in Nat BY OrderType DEF RowsInv, Store!SessionOf
    <3>2. call \in Store!CreateCall /\ call.step = "machine"
      BY <1>1, <3>1 DEF Store!CreateCall, Store!CreateSteps
    <3> HIDE DEF call
    <3> QED BY <1>3, <2>1, <2>2, <3>2
  <2>3. CASE Store!DenyCommand(c) BY <1>5, <2>1, <2>3 DEF Store!DenyCommand
  <2>4. create' = [create EXCEPT ![c] = call] \/ Store!DenyCommand(c)
    BY <1>1, <1>8 DEF Store!ReadSession
  <2> QED BY <2>2, <2>3, <2>4
<1>9. CASE Store!DecideCommand(c)
  BY <1>4, <1>5, <1>9 DEF Store!DecideCommand, Store!DenyCommand, Store!CreateSteps
<1>10. CASE Store!CountCommands(c)
  BY <1>4, <1>5, <1>10 DEF Store!CountCommands, Store!DenyCommand, Store!CreateSteps
<1>11. CASE Store!createCommand(c)
  <2>1. CASE UNCHANGED commandStatus /\ \E d \in Store!CommandsWithKey(c) : Store!AnswerCommandFrom(c, d)
    BY <1>6, <2>1
  <2>2. CASE /\ Store!CommandsWithKey(c) = {}
             /\ commandStatus' = [commandStatus EXCEPT ![c] = "queued"]
             /\ create' = [create EXCEPT ![c].step = "deliver", ![c].answer = c]
    <3> DEFINE call == [create[c] EXCEPT !.step = "deliver", !.answer = c]
    <3>1. call \in Store!CreateCall BY <1>1 DEF Store!CreateCall, Store!CreateSteps
    <3>2. create' = [create EXCEPT ![c] = call] BY <1>1, <2>2
    <3> HIDE DEF call
    <3>3. create' \in [Commands -> Store!CreateCall] BY <1>1, <3>1, <3>2
    <3>4. \A d \in Commands : d # c => create'[d] = create[d] BY <1>1, <3>2
    <3>5. c \notin Over
      BY <2>2 DEF Store!CommandsWithKey, Store!HasCommand, Store!NoRow, Over, Store!ResultStatuses
    <3>6. "queued" \in Store!CommandStatuses \ {"running"}
      BY DEF Store!CommandStatuses, Store!ActiveCommandStatuses
    <3> QED BY <1>2, <2>2, <3>3, <3>4, <3>5, <3>6, RowMoves
  <2> QED BY <1>11, <2>1, <2>2 DEF Store!createCommand
<1>12. CASE Store!DeliverStart(c)
  BY <1>4, <1>12 DEF Store!DeliverStart, Store!CreateSteps
<1> QED BY <1>7, <1>8, <1>9, <1>10, <1>11, <1>12

-----------------------------------------------------------------------------
(* Steps of the Server *)

\* What a step owes the invariant when it leaves the Client alone.
ServerStep ==
    /\ RowsStep
    /\ UNCHANGED <<journal, control, closing, out, buffer>>
    /\ toMachine' \in Seq(Downward')
    /\ sending' \subseteq Seq(Instructions') \ {<<>>}

\* It keeps the invariant.
LEMMA ServerStepKeeps ==
    ASSUME ControlInv, ServerStep
    PROVE  ControlInv'
<1>1. RowsInv' /\ Known \subseteq Known' /\ Over \subseteq Over' BY DEF ServerStep, RowsStep
<1>2. journal' = journal /\ control' = control /\ closing' = closing
      /\ out' = out /\ buffer' = buffer
  BY DEF ServerStep
<1>3. Journaled' = Journaled BY <1>2 DEF Journaled
<1>4. out \in Seq(Upward') /\ buffer \in Seq(Upward')
  BY <1>1, <1>3, QueuesGrow DEF ControlInv
<1>5. WireInv' BY <1>2, <1>4 DEF WireInv, ServerStep
<1>6. MachineInv' BY <1>1, <1>2, <1>3 DEF MachineInv, ControlInv
<1>7. RunningMeansJournaled'
  BY <1>2 DEF RunningMeansJournaled, ControlInv, ServerStep, RowsStep
<1> QED BY <1>1, <1>5, <1>6, <1>7 DEF ControlInv

\* What is sent of a known Command, or of a Session, is allowed.
LEMMA Transmitted ==
    ASSUME WireInv, NEW message \in Downward', Transmit(message),
           Known \subseteq Known', Over \subseteq Over', Journaled' = Journaled
    PROVE  toMachine' \in Seq(Downward')
<1>1. toMachine \in Seq(Downward') BY QueuesGrow
<1>2. Append(toMachine, message) \in Seq(Downward') BY <1>1, QueueMoves
<1> QED BY <1>1, <1>2 DEF Transmit

\* A batch that is added to those to send.
LEMMA BatchAdded ==
    ASSUME WireInv, NEW batch \in Seq(Instructions') \ {<<>>}, WillSend(batch),
           Known \subseteq Known', Over \subseteq Over', Journaled' = Journaled
    PROVE  sending' \subseteq Seq(Instructions') \ {<<>>}
<1>1. sending \subseteq Seq(Instructions') \ {<<>>} BY QueuesGrow
<1> QED BY <1>1 DEF WillSend

\* command.cancel for each Command of a Session, then session.close.
LEMMA StopsAndCloseSent ==
    ASSUME RowsInv, NEW s \in Sessions, NEW reason \in {"expired", "closed"}, Known \subseteq Known'
    PROVE  StopsAndClose(s, reason) \in Seq(Instructions') \ {<<>>}
<1> DEFINE S == Store!ActiveCommandsOf(s)
           n == Cardinality(S)
           order == Machine!Listing(S)
           stops == [i \in 1..n |-> Stop(order[i])]
<1>1. S \subseteq Known
  BY DEF Store!ActiveCommandsOf, Store!ActiveCommandStatuses, Known
<1>2. IsFiniteSet(S) BY <1>1, FS_Subset DEF RowsInv
<1>3. n \in Nat /\ order \in [1..n -> S] BY <1>2, ListingLists
<1>4. StopsAndClose(s, reason) = Append(stops, Close(s, reason)) BY <1>3 DEF StopsAndClose
<1> HIDE DEF order, n, S
<1>5. \A i \in 1..n : Stop(order[i]) \in Instructions' BY <1>1, <1>3 DEF Instructions
<1>6. stops \in [1..n -> Instructions'] BY <1>5
<1>7. stops \in Seq(Instructions') BY <1>3, <1>6, SeqDef
<1>8. Close(s, reason) \in Instructions' BY DEF Instructions
<1> HIDE DEF stops
<1>9. Append(stops, Close(s, reason)) \in Seq(Instructions') BY <1>7, <1>8, QueueMoves
<1>10. Append(stops, Close(s, reason)) # <<>> BY <1>7, <1>8, AppendProperties
<1> QED BY <1>4, <1>9, <1>10

\* The wire and the batches stay as they are.
LEMMA WireRests ==
    ASSUME WireInv, Known \subseteq Known', Over \subseteq Over', Journaled' = Journaled
    PROVE  /\ toMachine' = toMachine => toMachine' \in Seq(Downward')
           /\ sending' = sending => sending' \subseteq Seq(Instructions') \ {<<>>}
BY QueuesGrow

\* Delivering a new Session or Command, and the steps of createCommand.
LEMMA CallSteps ==
    ASSUME ControlInv,
           \/ \E s \in Sessions : DeliverOpen(s)
           \/ \E c \in Commands : CreateStep(c) \/ DeliverStart(c)
    PROVE  ServerStep
<1>0. RowsInv /\ WireInv BY DEF ControlInv
<1> USE DEF clientVars, memoryVars, storeVars
<1>1. ASSUME NEW s \in Sessions, DeliverOpen(s) PROVE ServerStep
  <2>1. RowsStep
    BY <1>0, <1>1, RowsRest DEF DeliverOpen, Store!DeliverOpen, Store!RequestUnchanged, Store!sessionVars
  <2>2. Journaled' = Journaled BY <1>1 DEF DeliverOpen, sendOnly, Journaled
  <2>3. Open(s) \in Downward' BY DEF Downward, Instructions
  <2>4. toMachine' \in Seq(Downward')
    BY <1>0, <1>1, <2>1, <2>2, <2>3, Transmitted DEF DeliverOpen, RowsStep
  <2>5. sending' = sending BY <1>1 DEF DeliverOpen
  <2>6. sending' \subseteq Seq(Instructions') \ {<<>>}
    BY <1>0, <2>1, <2>2, <2>5, WireRests DEF RowsStep
  <2> QED BY <1>1, <2>1, <2>4, <2>6 DEF ServerStep, DeliverOpen, sendOnly
<1>2. ASSUME NEW c \in Commands, CreateStep(c) PROVE ServerStep
  <2>1. RowsStep BY <1>0, <1>2, CreateStepRows DEF CreateStep
  <2>2. Journaled' = Journaled BY <1>2 DEF CreateStep, serverOnly, Journaled
  <2>3. toMachine' = toMachine /\ sending' = sending BY <1>2 DEF CreateStep, serverOnly
  <2>4. toMachine' \in Seq(Downward') /\ sending' \subseteq Seq(Instructions') \ {<<>>}
    BY <1>0, <2>1, <2>2, <2>3, WireRests DEF RowsStep
  <2> QED BY <1>2, <2>1, <2>4 DEF ServerStep, CreateStep, serverOnly
<1>3. ASSUME NEW c \in Commands, DeliverStart(c) PROVE ServerStep
  <2>1. RowsStep BY <1>0, <1>3, CreateStepRows DEF DeliverStart
  <2>2. Journaled' = Journaled BY <1>3 DEF DeliverStart, sendOnly, Journaled
  <2>3. c \in Known BY <1>0, <1>3 DEF DeliverStart, Store!DeliverStart, RowsInv
  <2>4. Start(c) \in Downward' BY <2>1, <2>3 DEF Downward, RowsStep
  <2>5. toMachine' \in Seq(Downward')
    BY <1>0, <1>3, <2>1, <2>2, <2>4, Transmitted DEF DeliverStart, RowsStep
  <2>6. sending' = sending BY <1>3 DEF DeliverStart
  <2>7. sending' \subseteq Seq(Instructions') \ {<<>>}
    BY <1>0, <2>1, <2>2, <2>6, WireRests DEF RowsStep
  <2> QED BY <1>3, <2>1, <2>5, <2>7 DEF ServerStep, DeliverStart, sendOnly
<1> QED BY <1>1, <1>2, <1>3

\* The Agent's and the Human's further calls, the sweep and the clock.
LEMMA OperationSteps ==
    ASSUME ControlInv,
           \/ \E s \in Sessions : \/ SuperviseAgain(s) \/ CompleteSession(s)
                                  \/ CancelSession(s) \/ FinishAgain(s)
           \/ \E c \in Commands : CancelCommand(c)
           \/ Sweep \/ Tick
    PROVE  ServerStep
<1>0. RowsInv /\ WireInv BY DEF ControlInv
<1> USE DEF clientVars, memoryVars, storeVars, serverOnly
<1>1. ASSUME RowsStep, serverOnly, NEW batch \in Seq(Instructions') \ {<<>>}, WillSend(batch)
      PROVE  ServerStep
  <2>1. Journaled' = Journaled BY <1>1 DEF Journaled
  <2>2. sending' \subseteq Seq(Instructions') \ {<<>>}
    BY <1>0, <1>1, <2>1, BatchAdded DEF RowsStep
  <2>3. toMachine' \in Seq(Downward') BY <1>0, <1>1, <2>1, WireRests DEF RowsStep
  <2> QED BY <1>1, <2>2, <2>3 DEF ServerStep
<1>2. \A m \in Instructions' : <<m>> \in Seq(Instructions') \ {<<>>} OBVIOUS
<1>3. \A s \in Sessions : Open(s) \in Instructions' /\ Close(s, "closed") \in Instructions'
  BY DEF Instructions
<1> USE DEF Store!otherColumnsUnchanged, Store!callsUnchanged, Store!callVars
<1>4. ASSUME NEW s \in Sessions, SuperviseAgain(s) PROVE ServerStep
  BY <1>0, <1>1, <1>2, <1>3, <1>4, RowsRest DEF SuperviseAgain
<1>5. ASSUME NEW s \in Sessions, CompleteSession(s) PROVE ServerStep
  <2>1. UNCHANGED <<commandStatus, expiresAt, create>>
    BY <1>5 DEF CompleteSession, Store!CompleteSession
  <2> QED BY <1>0, <1>1, <1>2, <1>3, <1>5, <2>1, RowsRest DEF CompleteSession
<1>6. ASSUME NEW s \in Sessions, CancelSession(s) PROVE ServerStep
  <2>1. commandStatus' = Store!CancelCommandsOf({s}) /\ UNCHANGED <<expiresAt, create>>
    BY <1>6 DEF CancelSession, Store!CancelSession
  <2>2. RowsStep BY <1>0, <2>1, RowsStopped
  <2>3. StopsAndClose(s, "closed") \in Seq(Instructions') \ {<<>>}
    BY <1>0, <2>2, StopsAndCloseSent DEF RowsStep
  <2> QED BY <1>1, <1>6, <2>2, <2>3 DEF CancelSession
<1>7. ASSUME NEW s \in Sessions, FinishAgain(s) PROVE ServerStep
  BY <1>0, <1>1, <1>2, <1>3, <1>7, RowsRest DEF FinishAgain
<1>8. ASSUME NEW c \in Commands, CancelCommand(c) PROVE ServerStep
  <2>1. RowsStep
    <3>1. CASE Store!requestCommandCancellation(c)
      <4>1. /\ c \notin Over /\ commandStatus' = [commandStatus EXCEPT ![c] = "cancellation_requested"]
            /\ expiresAt' = expiresAt /\ create' = create
        BY <3>1 DEF Store!requestCommandCancellation, Over, Store!ActiveCommandStatuses,
           Store!ResultStatuses
      <4>2. "cancellation_requested" \in Store!CommandStatuses \ {"running"}
        BY DEF Store!CommandStatuses, Store!ActiveCommandStatuses
      <4>3. create' \in [Commands -> Store!CreateCall] BY <1>0, <4>1 DEF RowsInv
      <4> QED BY <1>0, <4>1, <4>2, <4>3, RowMoves
    <3>2. CASE UNCHANGED storeVars BY <1>0, <3>2, RowsRest
    <3> QED BY <1>8, <3>1, <3>2 DEF CancelCommand
  <2>2. c \in Known
    BY <1>8 DEF CancelCommand, Store!requestCommandCancellation, Known,
       Store!ActiveCommandStatuses, Store!ResultStatuses
  <2>3. Stop(c) \in Instructions' BY <2>1, <2>2 DEF Instructions, RowsStep
  <2> QED BY <1>1, <1>2, <1>8, <2>1, <2>3 DEF CancelCommand
<1>9. CASE Sweep
  <2> DEFINE granted == {s \in Sessions : /\ sessionStatus[s] \in {"opening", "active"}
                                          /\ Store!Expired(s)}
  <2>1. commandStatus' = Store!CancelCommandsOf(granted) /\ UNCHANGED <<expiresAt, create>>
    BY <1>9 DEF Sweep, Store!expireSessions
  <2>2. RowsStep BY <1>0, <2>1, RowsStopped
  <2>3. sending' = sending \cup {StopsAndClose(s, "expired") : s \in granted}
    BY <1>9 DEF Sweep
  <2>4. \A s \in Sessions : StopsAndClose(s, "expired") \in Seq(Instructions') \ {<<>>}
    BY <1>0, <2>2, StopsAndCloseSent DEF RowsStep
  <2>5. Journaled' = Journaled BY <1>9 DEF Sweep, Journaled
  <2>6. sending \subseteq Seq(Instructions') \ {<<>>} BY <1>0, <2>2, <2>5, QueuesGrow DEF RowsStep
  <2>7. sending' \subseteq Seq(Instructions') \ {<<>>} BY <2>3, <2>4, <2>6
  <2>8. toMachine' \in Seq(Downward') BY <1>0, <1>9, <2>2, <2>5, WireRests DEF Sweep, RowsStep
  <2> QED BY <1>9, <2>2, <2>7, <2>8 DEF ServerStep, Sweep
<1>10. CASE Tick
  <2>1. RowsStep BY <1>0, <1>10, RowsRest DEF Tick, Store!Tick, Store!sessionVars
  <2>2. Journaled' = Journaled BY <1>10 DEF Tick, Journaled
  <2>3. toMachine' \in Seq(Downward') /\ sending' \subseteq Seq(Instructions') \ {<<>>}
    BY <1>0, <1>10, <2>1, <2>2, WireRests DEF Tick, RowsStep
  <2> QED BY <1>10, <2>1, <2>3 DEF ServerStep, Tick
<1> QED BY <1>4, <1>5, <1>6, <1>7, <1>8, <1>9, <1>10

-----------------------------------------------------------------------------
(* Steps of the wire *)

\* The next message of a batch goes out.
LEMMA SendStep == ASSUME ControlInv, Send PROVE ServerStep
<1>0. RowsInv /\ WireInv BY DEF ControlInv
<1> USE DEF clientVars, memoryVars, storeVars
<1>1. PICK batch \in sending :
         /\ Transmit(Head(batch))
         /\ sending' = (sending \ {batch}) \cup (IF Len(batch) > 1 THEN {Tail(batch)} ELSE {})
  BY DEF Send
<1>2. RowsStep BY <1>0, RowsRest DEF Send
<1>3. Journaled' = Journaled BY DEF Send, sendOnly, Journaled
<1>4. sending \subseteq Seq(Instructions') \ {<<>>} BY <1>0, <1>2, <1>3, QueuesGrow DEF RowsStep
<1>5. batch \in Seq(Instructions') /\ batch # <<>> BY <1>4
<1>6. Head(batch) \in Instructions' /\ Tail(batch) \in Seq(Instructions') BY <1>5, QueueMoves
<1>7. Len(batch) > 1 => Tail(batch) # <<>>
  <2>1. Len(Tail(batch)) = Len(batch) - 1 /\ Len(batch) \in Nat
    BY <1>5, HeadTailProperties, LenProperties
  <2> QED BY <2>1, EmptySeq
<1>8. sending' \subseteq Seq(Instructions') \ {<<>>} BY <1>1, <1>4, <1>6, <1>7
<1>9. Head(batch) \in Downward' BY <1>6 DEF Downward
<1>10. toMachine' \in Seq(Downward')
  BY <1>0, <1>1, <1>2, <1>3, <1>9, Transmitted DEF RowsStep
<1> QED BY <1>2, <1>8, <1>10 DEF ServerStep, Send, sendOnly

\* What is derived from the two reads of a reconciliation is allowed.
LEMMA ReconnectSends ==
    ASSUME RowsInv
    PROVE  /\ ReconnectMessages \in Seq(Downward)
           /\ \A s \in Sessions : snapshot[s] \in {"opening", "active"} =>
                 In(Open(s), ReconnectMessages)
           /\ \A s \in Sessions : snapshot[s] = "cancellation_requested" =>
                 \E r \in {"expired", "closed"} : In(Close(s, r), ReconnectMessages)
           /\ \A s, r : In(Close(s, r), ReconnectMessages) =>
                 snapshot[s] = "cancellation_requested"
           /\ \A c \in Commands :
                 /\ snapshot[Store!SessionOf[c]] \in {"opening", "active"}
                 /\ commandStatus[c] \in Store!ActiveCommandStatuses
                 => In(Start(c), ReconnectMessages) \/ In(Stop(c), ReconnectMessages)
<1> DEFINE granted == {s \in Sessions : snapshot[s] \in {"opening", "active"}}
           withdrawn == {s \in Sessions : snapshot[s] = "cancellation_requested"}
           found == {c \in Commands : /\ Store!SessionOf[c] \in granted \cup withdrawn
                                      /\ commandStatus[c] \in Store!ActiveCommandStatuses}
           stopping == {c \in found : commandStatus[c] = "cancellation_requested"}
           starting == {c \in found \ stopping : Store!SessionOf[c] \in granted}
           Reason(s) == IF Store!Expired(s) THEN "expired" ELSE "closed"
           opens == [i \in DOMAIN Machine!Listing(granted) |-> Open(Machine!Listing(granted)[i])]
           starts == [i \in DOMAIN Machine!Listing(starting) |-> Start(Machine!Listing(starting)[i])]
           stops == [i \in DOMAIN Machine!Listing(stopping) |-> Stop(Machine!Listing(stopping)[i])]
           closes == [i \in DOMAIN Machine!Listing(withdrawn) |->
                         Close(Machine!Listing(withdrawn)[i], Reason(Machine!Listing(withdrawn)[i]))]
<1>1. ReconnectMessages = opens \o starts \o stops \o closes
  BY DEF ReconnectMessages
<1>2. IsFiniteSet(granted) /\ IsFiniteSet(withdrawn)
  <2>1. granted \subseteq Sessions /\ withdrawn \subseteq Sessions OBVIOUS
  <2> QED BY <2>1, SessionsAreFinite, FS_Subset
<1>3. starting \subseteq Known /\ stopping \subseteq Known
  BY DEF Known, Store!ActiveCommandStatuses
<1>4. IsFiniteSet(starting) /\ IsFiniteSet(stopping) BY <1>3, FS_Subset DEF RowsInv
<1>5. ASSUME NEW S, IsFiniteSet(S), NEW f, f = [i \in DOMAIN Machine!Listing(S) |-> f[i]],
             \A i \in DOMAIN Machine!Listing(S) : Machine!Listing(S)[i] \in S => f[i] \in Downward
      PROVE  /\ f \in Seq(Downward)
             /\ \A m : In(m, f) <=> \E i \in DOMAIN Machine!Listing(S) : f[i] = m
             /\ \A i \in DOMAIN Machine!Listing(S) : Machine!Listing(S)[i] \in S
             /\ \A x \in S : \E i \in DOMAIN Machine!Listing(S) : Machine!Listing(S)[i] = x
  <2>1. /\ Cardinality(S) \in Nat /\ Machine!Listing(S) \in [1..Cardinality(S) -> S]
        /\ \A x \in S : \E i \in DOMAIN Machine!Listing(S) : Machine!Listing(S)[i] = x
    BY <1>5, ListingLists
  <2>2. DOMAIN Machine!Listing(S) = 1..Cardinality(S) BY <2>1
  <2>3. f \in [1..Cardinality(S) -> Downward] BY <1>5, <2>1, <2>2
  <2>4. f \in Seq(Downward) /\ Len(f) = Cardinality(S) BY <2>1, <2>3, SeqDef
  <2> QED BY <2>1, <2>2, <2>4 DEF In
<1>6. /\ opens \in Seq(Downward)
      /\ \A m : In(m, opens) <=> \E s \in granted : m = Open(s)
  <2>1. \A s \in granted : Open(s) \in Downward BY DEF Downward, Instructions
  <2>2. \A i \in DOMAIN Machine!Listing(granted) : opens[i] = Open(Machine!Listing(granted)[i])
    OBVIOUS
  <2>3. opens = [i \in DOMAIN Machine!Listing(granted) |-> opens[i]] OBVIOUS
  <2> HIDE DEF granted, opens
  <2> QED BY <1>2, <1>5, <2>1, <2>2, <2>3
<1>7. /\ starts \in Seq(Downward)
      /\ \A m : In(m, starts) <=> \E c \in starting : m = Start(c)
  <2>1. \A c \in starting : Start(c) \in Downward BY <1>3 DEF Downward
  <2>2. \A i \in DOMAIN Machine!Listing(starting) : starts[i] = Start(Machine!Listing(starting)[i])
    OBVIOUS
  <2>3. starts = [i \in DOMAIN Machine!Listing(starting) |-> starts[i]] OBVIOUS
  <2> HIDE DEF starting, starts
  <2> QED BY <1>4, <1>5, <2>1, <2>2, <2>3
<1>8. /\ stops \in Seq(Downward)
      /\ \A m : In(m, stops) <=> \E c \in stopping : m = Stop(c)
  <2>1. \A c \in stopping : Stop(c) \in Downward BY <1>3 DEF Downward, Instructions
  <2>2. \A i \in DOMAIN Machine!Listing(stopping) : stops[i] = Stop(Machine!Listing(stopping)[i])
    OBVIOUS
  <2>3. stops = [i \in DOMAIN Machine!Listing(stopping) |-> stops[i]] OBVIOUS
  <2> HIDE DEF stopping, stops
  <2> QED BY <1>4, <1>5, <2>1, <2>2, <2>3
<1>9. /\ closes \in Seq(Downward)
      /\ \A m : In(m, closes) <=> \E s \in withdrawn : m = Close(s, Reason(s))
  <2>1. \A s \in withdrawn : Close(s, Reason(s)) \in Downward BY DEF Downward, Instructions
  <2>2. \A i \in DOMAIN Machine!Listing(withdrawn) :
           closes[i] = Close(Machine!Listing(withdrawn)[i], Reason(Machine!Listing(withdrawn)[i]))
    OBVIOUS
  <2>3. closes = [i \in DOMAIN Machine!Listing(withdrawn) |-> closes[i]] OBVIOUS
  <2> HIDE DEF withdrawn, closes, Reason
  <2> QED BY <1>2, <1>5, <2>1, <2>2, <2>3
<1> HIDE DEF opens, starts, stops, closes
<1>10. opens \o starts \in Seq(Downward) BY <1>6, <1>7, QueueMoves
<1>11. opens \o starts \o stops \in Seq(Downward) BY <1>8, <1>10, QueueMoves
<1>12. opens \o starts \o stops \o closes \in Seq(Downward) BY <1>9, <1>11, QueueMoves
<1>13. \A m : In(m, ReconnectMessages) <=>
                 In(m, opens) \/ In(m, starts) \/ In(m, stops) \/ In(m, closes)
  <2>1. \A m : In(m, opens \o starts) <=> In(m, opens) \/ In(m, starts)
    BY <1>6, <1>7, BothHold
  <2>2. \A m : In(m, opens \o starts \o stops) <=> In(m, opens \o starts) \/ In(m, stops)
    BY <1>8, <1>10, BothHold
  <2>3. \A m : In(m, opens \o starts \o stops \o closes) <=>
                  In(m, opens \o starts \o stops) \/ In(m, closes)
    <3> DEFINE before == opens \o starts \o stops
    <3>1. closes \in Seq(Downward) /\ before \in Seq(Downward) BY <1>9, <1>11
    <3> HIDE DEF before
    <3>2. \A m : In(m, before \o closes) <=> In(m, before) \/ In(m, closes) BY <3>1, BothHold
    <3> QED BY <3>2 DEF before
  <2> QED BY <1>1, <2>1, <2>2, <2>3
<1>14. \A s \in granted : In(Open(s), ReconnectMessages) BY <1>6, <1>13
<1>15. \A s \in withdrawn : In(Close(s, Reason(s)), ReconnectMessages) BY <1>9, <1>13
<1>16. ASSUME NEW s, NEW r, In(Close(s, r), ReconnectMessages) PROVE s \in withdrawn
  <2>1. /\ \A t : Close(s, r) # Open(t) /\ Close(s, r) # Start(t) /\ Close(s, r) # Stop(t)
        /\ \A t : Close(s, r) = Close(t, Reason(t)) => t = s
    BY DEF Close, Open, Start, Stop
  <2> HIDE DEF granted, withdrawn, starting, stopping, Reason
  <2> QED BY <1>6, <1>7, <1>8, <1>9, <1>13, <1>16, <2>1
<1>17. ASSUME NEW c \in Commands, snapshot[Store!SessionOf[c]] \in {"opening", "active"},
              commandStatus[c] \in Store!ActiveCommandStatuses
       PROVE  In(Start(c), ReconnectMessages) \/ In(Stop(c), ReconnectMessages)
  <2>1. Store!SessionOf[c] \in Sessions BY OrderType DEF Store!SessionOf
  <2>2. c \in stopping \/ c \in starting BY <1>17, <2>1
  <2> HIDE DEF starting, stopping
  <2> QED BY <1>7, <1>8, <1>13, <2>2
<1>18. \A s : Reason(s) \in {"expired", "closed"} OBVIOUS
<1> QED BY <1>1, <1>12, <1>14, <1>15, <1>16, <1>17, <1>18

\* The reconciliation of a connection changes no rows.
LEMMA ReconcileSteps ==
    ASSUME ControlInv, Reconnect \/ ReadSessions \/ ReadCommands
    PROVE  ServerStep
<1>0. RowsInv /\ WireInv BY DEF ControlInv
<1> USE DEF clientVars, memoryVars, storeVars
<1>1. UNCHANGED <<commandStatus, expiresAt, create, journal, control, closing, out, buffer, sending>>
  BY DEF Reconnect, ReadSessions, ReadCommands, Store!putMachineAuthority, Store!sessionVars,
     Store!callsUnchanged, Store!callVars
<1>2. RowsStep /\ Journaled' = Journaled BY <1>0, <1>1, RowsRest DEF Journaled
<1>3. sending' \subseteq Seq(Instructions') \ {<<>>} BY <1>0, <1>1, <1>2, WireRests DEF RowsStep
<1>4. Downward' = Downward BY <1>1 DEF Downward, Instructions, Known, Over
<1>5. CASE Reconnect
  <2>1. Authentication \in Downward' BY DEF Downward
  <2>2. toMachine' = <<Authentication>> BY <1>5 DEF Reconnect
  <2>3. toMachine' \in Seq(Downward') BY <1>0, <2>1, <2>2
  <2> QED BY <1>1, <1>2, <1>3, <2>3 DEF ServerStep
<1>6. CASE ReadSessions
  <2>1. toMachine' \in Seq(Downward') BY <1>0, <1>2, <1>6, WireRests DEF ReadSessions, RowsStep
  <2> QED BY <1>1, <1>2, <1>3, <2>1 DEF ServerStep
<1>7. CASE ReadCommands
  <2>1. toMachine' = toMachine \o ReconnectMessages BY <1>7 DEF ReadCommands
  <2>2. toMachine \in Seq(Downward) /\ ReconnectMessages \in Seq(Downward)
    BY <1>0, ReconnectSends DEF WireInv
  <2>3. toMachine' \in Seq(Downward') BY <1>4, <2>1, <2>2, QueueMoves
  <2> QED BY <1>1, <1>2, <1>3, <2>3 DEF ServerStep
<1> QED BY <1>5, <1>6, <1>7

-----------------------------------------------------------------------------
(* Steps of the Client *)

\* What a step of the Client owes the invariant: an entry of the journal is
\* only deleted once its Command is over.
ClientStep ==
    /\ UNCHANGED <<commandStatus, expiresAt, create, sending>>
    /\ MachineInv'
    /\ Journaled \subseteq Journaled' \cup Over
    /\ out' \in Seq(Upward') /\ buffer' \in Seq(Upward')
    /\ toMachine' \in Seq(Downward)

\* It keeps the invariant.
LEMMA ClientStepKeeps ==
    ASSUME ControlInv, ClientStep
    PROVE  ControlInv'
<1>1. UNCHANGED <<commandStatus, expiresAt, create, sending>> BY DEF ClientStep
<1>2. RowsInv /\ WireInv /\ RunningMeansJournaled BY DEF ControlInv
<1>3. Known' = Known /\ Over' = Over BY <1>1 DEF Known, Over
<1>4. RowsInv' BY <1>1, <1>2, <1>3 DEF RowsInv
<1>5. Downward' = Downward /\ Instructions' = Instructions
  BY <1>3 DEF Downward, Instructions
<1>6. WireInv' BY <1>1, <1>2, <1>5 DEF WireInv, ClientStep
<1>7. ASSUME NEW c \in Commands, commandStatus[c] = "running" PROVE journal'[c] # "none"
  <2>1. c \in Journaled BY <1>2, <1>7 DEF RunningMeansJournaled, Journaled
  <2>2. c \notin Over BY <1>7 DEF Over, Store!ResultStatuses
  <2> QED BY <2>1, <2>2 DEF ClientStep, Journaled
<1>8. RunningMeansJournaled' BY <1>1, <1>7 DEF RunningMeansJournaled
<1> QED BY <1>4, <1>6, <1>8 DEF ControlInv, ClientStep

\* A message that is allowed is delivered, or kept.
LEMMA Reports ==
    ASSUME WireInv, commandStatus' = commandStatus, Journaled \subseteq Journaled' \cup Over,
           \/ \E message \in Upward' : Machine!Deliver(<<message>>)
           \/ Machine!DeliverNothing
           \/ out' = <<>> /\ buffer' = buffer
           \/ out' = <<>> /\ buffer' = <<>>
    PROVE  out' \in Seq(Upward') /\ buffer' \in Seq(Upward')
<1>1. Known' = Known /\ Over' = Over BY DEF Known, Over
<1>2. out \in Seq(Upward') /\ buffer \in Seq(Upward') BY <1>1, QueuesGrow
<1>3. <<>> \in Seq(Upward') BY <1>2, QueueMoves
<1>4. ASSUME NEW message \in Upward', Machine!Deliver(<<message>>)
      PROVE  out' \in Seq(Upward') /\ buffer' \in Seq(Upward')
  <2>1. <<message>> \in Seq(Upward') BY <1>2, QueueMoves
  <2>2. out \o <<message>> \in Seq(Upward') /\ buffer \o <<message>> \in Seq(Upward')
    BY <1>2, <2>1, QueueMoves
  <2>3. Machine!Newest(buffer \o <<message>>) \in Seq(Upward') BY <2>2, NewestKeeps
  <2> QED BY <1>2, <1>4, <2>2, <2>3 DEF Machine!Deliver
<1> QED BY <1>2, <1>3, <1>4 DEF Machine!DeliverNothing

\* The end of a known Command is journaled and reported.
LEMMA Finishes ==
    ASSUME RowsInv, MachineInv, WireInv, commandStatus' = commandStatus,
           NEW c \in Known, NEW result \in Machine!Results, Machine!Finish(c, result)
    PROVE  /\ journal' \in [Commands -> Machine!JournalStates]
           /\ Journaled \subseteq Journaled' /\ Journaled' \subseteq Known
           /\ out' \in Seq(Upward') /\ buffer' \in Seq(Upward')
<1>1. journal' = [journal EXCEPT ![c] = result] BY DEF Machine!Finish
<1>2. journal \in [Commands -> Machine!JournalStates] /\ Journaled \subseteq Known
  BY DEF MachineInv
<1>3. result # "none" /\ result \in Machine!JournalStates
  BY DEF Machine!Results, Machine!JournalStates
<1>4. journal' \in [Commands -> Machine!JournalStates] BY <1>1, <1>2, <1>3
<1>5. Journaled \subseteq Journaled' /\ Journaled' \subseteq Known
  BY <1>1, <1>2, <1>3 DEF Journaled
<1>6. Known' = Known BY DEF Known
<1>7. Machine!Completed(c, result) \in Upward' BY <1>6 DEF Upward
<1>8. Machine!Deliver(<<Machine!Completed(c, result)>>) BY DEF Machine!Finish
<1>9. out' \in Seq(Upward') /\ buffer' \in Seq(Upward') BY <1>5, <1>7, <1>8, Reports
<1> QED BY <1>4, <1>5, <1>9

\* Cancelling makes no Command live.
LEMMA Cancels ==
    ASSUME MachineInv, NEW C, Machine!Cancel(C)
    PROVE  /\ control' \in [Commands -> Controls]
           /\ \A c \in Commands : control'[c].step = control[c].step
<1>1. control \in [Commands -> Controls] BY DEF MachineInv
<1>2. ASSUME NEW c \in Commands
      PROVE  control'[c] \in Controls /\ control'[c].step = control[c].step
  <2>1. control[c] \in Controls BY <1>1
  <2>2. control'[c] = IF c \in C THEN [control[c] EXCEPT !.cancelled = TRUE] ELSE control[c]
    BY DEF Machine!Cancel
  <2> QED BY <2>1, <2>2 DEF Controls
<1>3. control' = [c \in Commands |-> control'[c]] BY DEF Machine!Cancel
<1> QED BY <1>2, <1>3

\* Nor does closing a Session.
LEMMA Closes ==
    ASSUME MachineInv, NEW s \in Sessions, NEW reason \in {"expired", "closed"},
           NEW byTimer \in BOOLEAN, Machine!CloseSession(s, reason, byTimer)
    PROVE  /\ control' \in [Commands -> Controls]
           /\ \A c \in Commands : control'[c].step = control[c].step
           /\ closing' \in [Sessions -> Closures]
<1>1. control \in [Commands -> Controls] /\ closing \in [Sessions -> Closures]
      /\ closing[s] \in Closures
  BY DEF MachineInv
<1>2. CASE closing[s] # Machine!NotClosing
  <2>1. control' = control
    BY <1>2 DEF Machine!CloseSession
  <2>2. closing' = [closing EXCEPT ![s] = [closing[s] EXCEPT !.timer = closing[s].timer \/ byTimer]]
    BY <1>1, <1>2 DEF Machine!CloseSession
  <2>3. [closing[s] EXCEPT !.timer = closing[s].timer \/ byTimer] \in Closures
    BY <1>1 DEF Closures
  <2> QED BY <1>1, <2>1, <2>2, <2>3
<1>3. CASE closing[s] = Machine!NotClosing
  <2> DEFINE new == [waits |-> Machine!LiveCommandsOf(s), reason |-> reason, timer |-> byTimer]
  <2>1. Machine!Cancel(Machine!LiveCommandsOf(s)) /\ closing' = [closing EXCEPT ![s] = new]
    BY <1>3 DEF Machine!CloseSession
  <2>2. new \in Closures BY DEF Closures, Machine!LiveCommandsOf
  <2> HIDE DEF new
  <2>3. closing' \in [Sessions -> Closures] BY <1>1, <2>1, <2>2
  <2> QED BY <2>1, <2>3, Cancels
<1> QED BY <1>2, <1>3

\* What the types of the Client's memory owe the invariant.
LEMMA MachineKept ==
    ASSUME MachineInv, commandStatus' = commandStatus,
           journal' \in [Commands -> Machine!JournalStates],
           control' \in [Commands -> Controls], closing' \in [Sessions -> Closures],
           \A c \in Commands : control'[c].step # "none" => control[c].step # "none" \/ c \in Known,
           Journaled' \subseteq Known
    PROVE  MachineInv'
<1>1. Known' = Known BY DEF Known
<1> QED BY <1>1 DEF MachineInv

\* command.start: a Command without an entry gets one before it is reported.
LEMMA StartMoves ==
    ASSUME ControlInv, UNCHANGED <<commandStatus, expiresAt, create, sending>>,
           toMachine' \in Seq(Downward), NEW c \in Known, Machine!startCommand(c)
    PROVE  ClientStep
<1>0. RowsInv /\ MachineInv /\ WireInv BY DEF ControlInv
<1>1. /\ journal \in [Commands -> Machine!JournalStates] /\ control \in [Commands -> Controls]
      /\ closing \in [Sessions -> Closures] /\ control[c] \in Controls
      /\ Journaled \subseteq Known
  BY <1>0 DEF MachineInv, Known
<1>2. closing' = closing BY DEF Machine!startCommand
<1>3. Known' = Known /\ c \in Commands BY DEF Known
<1>4. CASE /\ control' = [control EXCEPT ![c].step = "preparing"]
           /\ journal' = [journal EXCEPT ![c] = "running"]
           /\ Machine!Deliver(<<Machine!Started(c)>>)
  <2> DEFINE new == [control[c] EXCEPT !.step = "preparing"]
  <2>1. new \in Controls BY <1>1 DEF Controls
  <2>2. control' = [control EXCEPT ![c] = new] BY <1>4
  <2> HIDE DEF new
  <2>3. /\ control' \in [Commands -> Controls]
        /\ \A d \in Commands : d # c => control'[d] = control[d]
    BY <1>1, <2>1, <2>2
  <2>4. /\ journal' \in [Commands -> Machine!JournalStates]
        /\ Journaled' = Journaled \cup {c}
    BY <1>1, <1>3, <1>4 DEF Journaled, Machine!JournalStates
  <2>5. MachineInv' BY <1>0, <1>1, <1>2, <2>3, <2>4, MachineKept
  <2>6. Machine!Started(c) \in Upward' BY <1>3, <2>4 DEF Upward
  <2>7. out' \in Seq(Upward') /\ buffer' \in Seq(Upward') BY <1>0, <1>4, <2>4, <2>6, Reports
  <2> QED BY <2>4, <2>5, <2>7 DEF ClientStep
<1>5. CASE Machine!failCommand(c) /\ control' = control
  <2>1. "failed" \in Machine!Results BY DEF Machine!Results
  <2>2. Machine!Finish(c, "failed") BY <1>5 DEF Machine!failCommand
  <2>3. /\ journal' \in [Commands -> Machine!JournalStates]
        /\ Journaled \subseteq Journaled' /\ Journaled' \subseteq Known
        /\ out' \in Seq(Upward') /\ buffer' \in Seq(Upward')
    BY <1>0, <2>1, <2>2, Finishes
  <2>4. MachineInv' BY <1>0, <1>1, <1>2, <1>5, <2>3, MachineKept
  <2> QED BY <2>3, <2>4 DEF ClientStep
<1>6. CASE Machine!startKnown(c)
  <2>1. control' = control /\ journal' = journal BY <1>6 DEF Machine!startKnown
  <2>2. Journaled' = Journaled BY <2>1 DEF Journaled
  <2>3. MachineInv' BY <1>0, <1>1, <1>2, <2>1, <2>2, MachineKept
  <2>4. journal[c] \in Machine!Results => Machine!Completed(c, journal[c]) \in Upward'
    BY <1>3 DEF Upward
  <2>5. out' \in Seq(Upward') /\ buffer' \in Seq(Upward')
    BY <1>0, <1>6, <2>2, <2>4, Reports DEF Machine!startKnown
  <2> QED BY <2>2, <2>3, <2>5 DEF ClientStep
<1>7. \/ /\ control' = [control EXCEPT ![c].step = "preparing"]
         /\ journal' = [journal EXCEPT ![c] = "running"]
         /\ Machine!Deliver(<<Machine!Started(c)>>)
      \/ Machine!failCommand(c) /\ control' = control
      \/ Machine!startKnown(c)
  BY DEF Machine!startCommand, Machine!startNew
<1> QED BY <1>4, <1>5, <1>6, <1>7

\* command.cancel: a live Command is told, any other is answered from the
\* journal, and given a result if it has none.
LEMMA CancelMoves ==
    ASSUME ControlInv, UNCHANGED <<commandStatus, expiresAt, create, sending>>,
           toMachine' \in Seq(Downward), NEW c \in Known, Machine!cancelCommand(c)
    PROVE  ClientStep
<1>0. RowsInv /\ MachineInv /\ WireInv BY DEF ControlInv
<1>1. /\ journal \in [Commands -> Machine!JournalStates] /\ control \in [Commands -> Controls]
      /\ closing \in [Sessions -> Closures]
      /\ Journaled \subseteq Known
  BY <1>0 DEF MachineInv
<1>2. closing' = closing BY DEF Machine!cancelCommand
<1>3. Known' = Known /\ c \in Commands BY DEF Known
<1>4. CASE Machine!Cancel({c}) /\ Machine!DeliverNothing /\ journal' = journal
  <2>1. Journaled' = Journaled BY <1>4 DEF Journaled
  <2>2. /\ control' \in [Commands -> Controls]
        /\ \A d \in Commands : control'[d].step = control[d].step
    BY <1>0, <1>4, Cancels
  <2>3. MachineInv' BY <1>0, <1>1, <1>2, <1>4, <2>1, <2>2, MachineKept
  <2>4. out' \in Seq(Upward') /\ buffer' \in Seq(Upward') BY <1>0, <1>4, <2>1, Reports
  <2> QED BY <2>1, <2>3, <2>4 DEF ClientStep
<1>5. CASE /\ journal[c] \in Machine!Results /\ Machine!Deliver(<<Machine!Completed(c, journal[c])>>)
           /\ journal' = journal /\ control' = control
  <2>1. Journaled' = Journaled BY <1>5 DEF Journaled
  <2>2. MachineInv' BY <1>0, <1>1, <1>2, <1>5, <2>1, MachineKept
  <2>3. Machine!Completed(c, journal[c]) \in Upward' BY <1>3, <1>5 DEF Upward
  <2>4. out' \in Seq(Upward') /\ buffer' \in Seq(Upward') BY <1>0, <1>5, <2>1, <2>3, Reports
  <2> QED BY <2>1, <2>2, <2>4 DEF ClientStep
<1>6. ASSUME NEW result \in Machine!Results, Machine!Finish(c, result), control' = control
      PROVE  ClientStep
  <2>1. /\ journal' \in [Commands -> Machine!JournalStates]
        /\ Journaled \subseteq Journaled' /\ Journaled' \subseteq Known
        /\ out' \in Seq(Upward') /\ buffer' \in Seq(Upward')
    BY <1>0, <1>6, Finishes
  <2>2. MachineInv' BY <1>0, <1>1, <1>2, <1>6, <2>1, MachineKept
  <2> QED BY <2>1, <2>2 DEF ClientStep
<1>7. {"cancelled", "execution_unknown"} \subseteq Machine!Results BY DEF Machine!Results
<1>8. \/ Machine!Cancel({c}) /\ Machine!DeliverNothing /\ journal' = journal
      \/ /\ journal[c] \in Machine!Results /\ Machine!Deliver(<<Machine!Completed(c, journal[c])>>)
         /\ journal' = journal /\ control' = control
      \/ control' = control /\ Machine!Finish(c, IF journal[c] = "none" THEN "cancelled" ELSE "execution_unknown")
  BY DEF Machine!cancelCommand
<1> QED BY <1>4, <1>5, <1>6, <1>7, <1>8

\* A step that leaves journal, Commands and closures alone and reports at most
\* one thing.
LEMMA QuietMoves ==
    ASSUME ControlInv, UNCHANGED <<commandStatus, expiresAt, create, sending>>,
           toMachine' \in Seq(Downward), UNCHANGED <<journal, control, closing>>,
           \/ \E message \in Upward : Machine!Deliver(<<message>>)
           \/ Machine!DeliverNothing
           \/ out' = <<>> /\ buffer' = buffer
           \/ out' = <<>> /\ buffer' = <<>>
    PROVE  ClientStep
<1>0. MachineInv /\ WireInv BY DEF ControlInv
<1>1. Known' = Known /\ Over' = Over /\ Journaled' = Journaled BY DEF Known, Over, Journaled
<1>2. Upward' = Upward BY <1>1 DEF Upward
<1>3. out' \in Seq(Upward') /\ buffer' \in Seq(Upward') BY <1>0, <1>1, <1>2, Reports
<1>4. MachineInv' BY <1>0, <1>1, MachineKept DEF MachineInv
<1> QED BY <1>1, <1>3, <1>4 DEF ClientStep

\* session.open is answered.
LEMMA OpenMoves ==
    ASSUME ControlInv, UNCHANGED <<commandStatus, expiresAt, create, sending>>,
           toMachine' \in Seq(Downward), NEW s \in Sessions, Machine!openSession(s)
    PROVE  ClientStep
<1>1. {Machine!Closed(s, "already_closed"), Machine!Opened(s), Machine!OpenFailed(s)} \subseteq Upward
  BY DEF Upward
<1>2. UNCHANGED <<journal, control, closing>> BY DEF Machine!openSession
<1>3. \E message \in Upward : Machine!Deliver(<<message>>) BY <1>1 DEF Machine!openSession
<1> QED BY <1>2, <1>3, QuietMoves

\* A closure begins, for session.close or a timer.
LEMMA CloseMoves ==
    ASSUME ControlInv, UNCHANGED <<commandStatus, expiresAt, create, sending>>,
           toMachine' \in Seq(Downward), journal' = journal, Machine!DeliverNothing,
           NEW s \in Sessions, NEW reason \in {"expired", "closed"}, NEW byTimer \in BOOLEAN,
           Machine!CloseSession(s, reason, byTimer)
    PROVE  ClientStep
<1>0. MachineInv /\ WireInv BY DEF ControlInv
<1>1. /\ control' \in [Commands -> Controls]
      /\ \A c \in Commands : control'[c].step = control[c].step
      /\ closing' \in [Sessions -> Closures]
  BY <1>0, Closes
<1>2. Journaled' = Journaled BY DEF Journaled
<1>3. MachineInv' BY <1>0, <1>1, <1>2, MachineKept DEF MachineInv
<1>4. out' \in Seq(Upward') /\ buffer' \in Seq(Upward') BY <1>0, <1>2, Reports
<1> QED BY <1>2, <1>3, <1>4 DEF ClientStep

\* Every journaled result can be reported.
LEMMA ReconciliationReports == ASSUME ControlInv PROVE Machine!Reconciliation \in Seq(Upward)
<1>0. RowsInv /\ MachineInv BY DEF ControlInv
<1> DEFINE S == {c \in Commands : journal[c] \in Machine!Results}
           n == Cardinality(S)
           order == Machine!Listing(S)
<1>1. S \subseteq Known
  BY <1>0 DEF MachineInv, Journaled, Machine!Results
<1>2. IsFiniteSet(S) BY <1>0, <1>1, FS_Subset DEF RowsInv
<1>3. n \in Nat /\ order \in [1..n -> S] BY <1>2, ListingLists
<1>4. Machine!Reconciliation = [i \in 1..n |-> Machine!Completed(order[i], journal[order[i]])]
  BY <1>3 DEF Machine!Reconciliation
<1>5. \A c \in S : Machine!Completed(c, journal[c]) \in Upward BY <1>1 DEF Upward
<1> HIDE DEF order, n, S
<1>6. Machine!Reconciliation \in [1..n -> Upward] BY <1>3, <1>4, <1>5
<1> QED BY <1>3, <1>6, SeqDef

\* On a new connection the buffer goes first, then every journaled result.
LEMMA AuthenticatedMoves ==
    ASSUME ControlInv, UNCHANGED <<commandStatus, expiresAt, create, sending>>,
           toMachine' \in Seq(Downward), Machine!Authenticated
    PROVE  ClientStep
<1>0. RowsInv /\ MachineInv /\ WireInv BY DEF ControlInv
<1>1. UNCHANGED <<journal, control, closing>> /\ buffer' = <<>>
      /\ out' = out \o buffer \o Machine!Reconciliation
  BY DEF Machine!Authenticated, Machine!volatileVars
<1>2. Known' = Known /\ Over' = Over /\ Journaled' = Journaled
  BY <1>1 DEF Known, Over, Journaled
<1>3. Upward' = Upward BY <1>2 DEF Upward
<1>4. out \in Seq(Upward) /\ buffer \in Seq(Upward) BY <1>0 DEF WireInv
<1>5. out \o buffer \in Seq(Upward) BY <1>4, QueueMoves
<1>6. out \o buffer \o Machine!Reconciliation \in Seq(Upward)
  BY <1>5, ReconciliationReports, QueueMoves
<1>7. MachineInv' BY <1>0, <1>1, <1>2, MachineKept DEF MachineInv
<1>8. <<>> \in Seq(Upward) BY <1>4, QueueMoves
<1> QED BY <1>1, <1>2, <1>3, <1>6, <1>7, <1>8 DEF ClientStep

\* Only a Command that is over is acknowledged.
LEMMA AcknowledgedMoves ==
    ASSUME ControlInv, UNCHANGED <<commandStatus, expiresAt, create, sending>>,
           toMachine' \in Seq(Downward), NEW c \in Over, Machine!Acknowledged(c)
    PROVE  ClientStep
<1>0. MachineInv /\ WireInv BY DEF ControlInv
<1>1. journal' = [journal EXCEPT ![c] = "none"] /\ UNCHANGED <<control, closing, out, buffer, answered>>
  BY DEF Machine!Acknowledged, Machine!volatileVars, Machine!wireVars
<1>2. journal \in [Commands -> Machine!JournalStates] BY <1>0 DEF MachineInv
<1>3. Journaled' = Journaled \ {c} BY <1>1, <1>2 DEF Journaled
<1>4. journal' \in [Commands -> Machine!JournalStates]
  BY <1>1, <1>2 DEF Machine!JournalStates
<1>5. MachineInv' BY <1>0, <1>1, <1>3, <1>4, MachineKept DEF MachineInv
<1>6. Machine!DeliverNothing BY <1>1 DEF Machine!DeliverNothing
<1>7. out' \in Seq(Upward') /\ buffer' \in Seq(Upward') BY <1>0, <1>3, <1>6, Reports
<1> QED BY <1>3, <1>5, <1>7 DEF ClientStep

\* Every message the Client can be sent names what exists.
LEMMA DownwardNames ==
    ASSUME RowsInv, NEW m \in Downward
    PROVE  /\ m.type = "session.open" => m.id \in Sessions /\ m = Open(m.id)
           /\ m.type = "session.close" =>
                 m.id \in Sessions /\ m.value \in {"expired", "closed"} /\ m = Close(m.id, m.value)
           /\ m.type \in {"command.start", "command.cancel"} => m.id \in Known
           /\ m.type = "command.start" => m = Start(m.id)
           /\ m.type = "command.cancel" => m = Stop(m.id)
           /\ m.type = "command.acknowledged" => m.id \in Over /\ m = Acknowledge(m.id)
<1> USE DEF Open, Close, Start, Stop, Acknowledge, Authentication
<1>1. CASE m = Authentication BY <1>1
<1>2. CASE \E s \in Sessions : m = Open(s) BY <1>2
<1>3. CASE \E s \in Sessions, r \in {"expired", "closed"} : m = Close(s, r) BY <1>3
<1>4. CASE \E c \in Known : m = Stop(c) \/ m = Start(c) BY <1>4
<1>5. CASE \E c \in Over : m = Acknowledge(c) BY <1>5
<1>6. \/ m = Authentication \/ \E s \in Sessions : m = Open(s)
      \/ \E s \in Sessions, r \in {"expired", "closed"} : m = Close(s, r)
      \/ \E c \in Known : m = Stop(c) \/ m = Start(c)
      \/ \E c \in Over : m = Acknowledge(c)
  BY DEF Downward, Instructions
<1> QED BY <1>1, <1>2, <1>3, <1>4, <1>5, <1>6

\* The next message is handled.
LEMMA ReceiveStep == ASSUME ControlInv, ClientReceives PROVE ClientStep
<1>0. RowsInv /\ WireInv BY DEF ControlInv
<1> DEFINE message == Head(toMachine)
<1>1. message \in Downward /\ Tail(toMachine) \in Seq(Downward)
  BY <1>0, QueueMoves DEF ClientReceives, WireInv
<1>2. /\ UNCHANGED <<commandStatus, expiresAt, create, sending>>
      /\ toMachine' \in Seq(Downward)
  BY <1>1 DEF ClientReceives, storeVars
<1>3. Handle(message) BY DEF ClientReceives
<1> HIDE DEF message
<1>4. /\ message.type = "session.open" => message.id \in Sessions
      /\ message.type = "session.close" =>
            message.id \in Sessions /\ message.value \in {"expired", "closed"}
      /\ message.type \in {"command.start", "command.cancel"} => message.id \in Known
      /\ message.type = "command.acknowledged" => message.id \in Over
  BY <1>0, <1>1, DownwardNames
<1>5. CASE Machine!Authenticated BY <1>2, <1>5, AuthenticatedMoves
<1>6. CASE message.type = "session.open" /\ Machine!openSession(message.id)
  BY <1>2, <1>4, <1>6, OpenMoves
<1>7. CASE message.type = "session.close" /\ Machine!HandleClose(message.id, message.value)
  BY <1>2, <1>4, <1>7, CloseMoves DEF Machine!HandleClose
<1>8. CASE message.type = "command.start" /\ Machine!startCommand(message.id)
  BY <1>2, <1>4, <1>8, StartMoves
<1>9. CASE message.type = "command.cancel" /\ Machine!cancelCommand(message.id)
  BY <1>2, <1>4, <1>9, CancelMoves
<1>10. CASE message.type = "command.acknowledged" /\ Machine!Acknowledged(message.id)
  BY <1>2, <1>4, <1>10, AcknowledgedMoves
<1>11. CASE AcknowledgedAgain(message.id)
  BY <1>2, <1>11, QuietMoves
  DEF AcknowledgedAgain, clientVars, memoryVars, Machine!DeliverNothing
<1> QED BY <1>3, <1>5, <1>6, <1>7, <1>8, <1>9, <1>10, <1>11 DEF Handle

\* A live Command ends: it leaves the Client's memory, not the journal.
LEMMA EndMoves ==
    ASSUME ControlInv, UNCHANGED <<commandStatus, expiresAt, create, sending>>,
           toMachine' \in Seq(Downward), closing' = closing,
           NEW c \in Commands, control[c].step # "none",
           control' = [control EXCEPT ![c] = Machine!NoControl],
           NEW result \in Machine!Results, Machine!Finish(c, result)
    PROVE  ClientStep
<1>0. RowsInv /\ MachineInv /\ WireInv BY DEF ControlInv
<1>1. control \in [Commands -> Controls] /\ closing \in [Sessions -> Closures] /\ c \in Known
  BY <1>0 DEF MachineInv
<1>2. Machine!NoControl \in Controls /\ Machine!NoControl.step = "none"
  BY DEF Machine!NoControl, Controls
<1>3. /\ control' \in [Commands -> Controls]
      /\ \A d \in Commands : control'[d].step # "none" => control[d].step # "none"
  BY <1>1, <1>2
<1>4. /\ journal' \in [Commands -> Machine!JournalStates]
      /\ Journaled \subseteq Journaled' /\ Journaled' \subseteq Known
      /\ out' \in Seq(Upward') /\ buffer' \in Seq(Upward')
  BY <1>0, <1>1, Finishes
<1>5. MachineInv' BY <1>0, <1>1, <1>3, <1>4, MachineKept
<1> QED BY <1>4, <1>5 DEF ClientStep

\* A live Command's flags or step change.
LEMMA LiveMoves ==
    ASSUME ControlInv, UNCHANGED <<commandStatus, expiresAt, create, sending>>,
           toMachine' \in Seq(Downward), UNCHANGED <<journal, closing>>,
           NEW c \in Commands, control[c].step # "none", NEW new \in Controls,
           control' = [control EXCEPT ![c] = new], Machine!DeliverNothing
    PROVE  ClientStep
<1>0. MachineInv /\ WireInv BY DEF ControlInv
<1>1. control \in [Commands -> Controls] BY <1>0 DEF MachineInv
<1>2. /\ control' \in [Commands -> Controls]
      /\ \A d \in Commands : control'[d].step # "none" => control[d].step # "none"
  BY <1>1
<1>3. Journaled' = Journaled BY DEF Journaled
<1>4. MachineInv' BY <1>0, <1>2, <1>3, MachineKept DEF MachineInv
<1>5. out' \in Seq(Upward') /\ buffer' \in Seq(Upward') BY <1>0, <1>3, Reports
<1> QED BY <1>3, <1>4, <1>5 DEF ClientStep

\* A closure ends and, if it succeeded, is reported with its reason.
LEMMA ClosureMoves ==
    ASSUME ControlInv, UNCHANGED <<commandStatus, expiresAt, create, sending>>,
           toMachine' \in Seq(Downward), NEW s \in Sessions,
           Machine!CloseSucceeds(s) \/ Machine!CloseFails(s)
    PROVE  ClientStep
<1>0. MachineInv /\ WireInv BY DEF ControlInv
<1>1. UNCHANGED <<journal, control>> /\ closing' = [closing EXCEPT ![s] = Machine!NotClosing]
  BY DEF Machine!CloseSucceeds, Machine!CloseFails, Machine!ClosureEnds
<1>2. closing \in [Sessions -> Closures] BY <1>0 DEF MachineInv
<1>3. Machine!NotClosing \in Closures BY DEF Machine!NotClosing, Closures
<1>4. closing' \in [Sessions -> Closures] BY <1>1, <1>2, <1>3
<1>5. Known' = Known /\ Over' = Over /\ Journaled' = Journaled
  BY <1>1 DEF Known, Over, Journaled
<1>6. MachineInv' BY <1>0, <1>1, <1>4, <1>5, MachineKept DEF MachineInv
<1>7. Upward' = Upward BY <1>5 DEF Upward
<1>8. closing[s] \in Closures BY <1>2
<1>9. Machine!Closed(s, closing[s].reason) \in Upward BY <1>8 DEF Closures, Upward
<1>10. \/ Machine!Deliver(<<Machine!Closed(s, closing[s].reason)>>)
       \/ Machine!DeliverNothing
  BY DEF Machine!CloseSucceeds, Machine!CloseFails
<1>11. out' \in Seq(Upward') /\ buffer' \in Seq(Upward')
  BY <1>0, <1>5, <1>7, <1>9, <1>10, Reports
<1> QED BY <1>5, <1>6, <1>11 DEF ClientStep

\* How a Command is said to have ended.
LEMMA OutcomeIsResult ==
    ASSUME NEW c \in Commands, NEW natural \in {"succeeded", "failed"}
    PROVE  Machine!Outcome(c, natural) \in Machine!Results
BY DEF Machine!Outcome, Machine!Results

\* Timers, closures, preparations, terminations and the shutdown go on.
LEMMA SettlingStep == ASSUME ControlInv, Settling PROVE ClientStep
<1>0. MachineInv /\ WireInv BY DEF ControlInv
<1>1. /\ UNCHANGED <<commandStatus, expiresAt, create, sending>>
      /\ toMachine' \in Seq(Downward)
  BY <1>0 DEF Settling, clientOnly, storeVars, wireVars, WireInv
<1>2. control \in [Commands -> Controls] BY <1>0 DEF MachineInv
<1>3. ASSUME NEW s \in Sessions, Machine!ExpiryTimer(s) PROVE ClientStep
  <2>1. journal' = journal /\ Machine!DeliverNothing /\ Machine!CloseSession(s, "expired", TRUE)
    BY <1>3 DEF Machine!ExpiryTimer
  <2> QED BY <1>1, <2>1, CloseMoves
<1>4. ASSUME NEW s \in Sessions, Machine!CloseSucceeds(s) \/ Machine!CloseFails(s)
      PROVE  ClientStep
  BY <1>1, <1>4, ClosureMoves
<1>5. ASSUME NEW c \in Commands, Machine!Spawned(c) PROVE ClientStep
  <2> DEFINE new == [control[c] EXCEPT !.step = "running"]
  <2>1. new \in Controls BY <1>2 DEF Controls
  <2>2. /\ control' = [control EXCEPT ![c] = new] /\ control[c].step # "none"
        /\ UNCHANGED <<journal, closing>> /\ Machine!DeliverNothing
    BY <1>5 DEF Machine!Spawned, Machine!commandUnchanged
  <2> HIDE DEF new
  <2> QED BY <1>1, <2>1, <2>2, LiveMoves
<1>6. ASSUME NEW c \in Commands, Machine!NotSpawned(c) PROVE ClientStep
  <2>1. /\ control[c].step # "none" /\ control' = [control EXCEPT ![c] = Machine!NoControl]
        /\ Machine!Finish(c, Machine!Outcome(c, "failed")) /\ closing' = closing
    BY <1>6 DEF Machine!NotSpawned, Machine!commandUnchanged
  <2>2. Machine!Outcome(c, "failed") \in Machine!Results BY OutcomeIsResult
  <2> QED BY <1>1, <2>1, <2>2, EndMoves
<1>7. ASSUME NEW c \in Commands, Machine!KillProved(c) PROVE ClientStep
  BY <1>1, <1>7, QuietMoves DEF Machine!KillProved, Machine!commandUnchanged
<1>8. ASSUME NEW c \in Commands, Machine!KillFailed(c) PROVE ClientStep
  <2>1. CASE control[c].step = "running"
    <3>1. /\ control' = [control EXCEPT ![c] = Machine!NoControl] /\ closing' = closing
          /\ Machine!Finish(c, "execution_unknown")
      BY <1>8, <2>1 DEF Machine!KillFailed
    <3>2. "execution_unknown" \in Machine!Results BY DEF Machine!Results
    <3> QED BY <1>1, <2>1, <3>1, <3>2, EndMoves
  <2>2. CASE control[c].step # "running"
    <3>1. UNCHANGED <<journal, control, closing>> /\ Machine!DeliverNothing
      BY <1>8, <2>2 DEF Machine!KillFailed
    <3> QED BY <1>1, <3>1, QuietMoves
  <2> QED BY <2>1, <2>2
<1>9. ASSUME NEW c \in Commands, Machine!CancelReturns(c) PROVE ClientStep
  BY <1>1, <1>9, QuietMoves DEF Machine!CancelReturns, Machine!DeliverNothing
<1>10. CASE Machine!dropLocalAuthority
  <2>1. /\ Machine!Cancel({c \in Commands : control[c].step # "none"})
        /\ UNCHANGED <<journal, closing, buffer, out, answered>>
    BY <1>10 DEF Machine!dropLocalAuthority, Machine!wireVars
  <2>2. /\ control' \in [Commands -> Controls]
        /\ \A c \in Commands : control'[c].step = control[c].step
    BY <1>0, <2>1, Cancels
  <2>3. Journaled' = Journaled BY <2>1 DEF Journaled
  <2>4. MachineInv' BY <1>0, <1>1, <2>1, <2>2, <2>3, MachineKept DEF MachineInv
  <2>5. out' \in Seq(Upward') /\ buffer' \in Seq(Upward')
    BY <1>0, <1>1, <2>1, <2>3, Reports DEF Machine!DeliverNothing
  <2> QED BY <1>1, <2>3, <2>4, <2>5 DEF ClientStep
<1>11. CASE Machine!Dropped
  BY <1>1, <1>11, QuietMoves DEF Machine!Dropped, Machine!wireVars, Machine!DeliverNothing
<1> QED
  BY <1>3, <1>4, <1>5, <1>6, <1>7, <1>8, <1>9, <1>10, <1>11
  DEF Settling, Machine!Closure, Machine!Preparation, Machine!Termination

\* What the Command's process and its timer do.
LEMMA ProcessStep ==
    ASSUME ControlInv, NEW c \in Commands, ProcessEvent(c)
    PROVE  ClientStep
<1>0. MachineInv /\ WireInv BY DEF ControlInv
<1>1. /\ UNCHANGED <<commandStatus, expiresAt, create, sending>>
      /\ toMachine' \in Seq(Downward)
  BY <1>0 DEF ProcessEvent, storeVars, wireVars, WireInv
<1>2. control \in [Commands -> Controls] BY <1>0 DEF MachineInv
<1>3. CASE Machine!Timeout(c)
  <2> DEFINE new == [control[c] EXCEPT !.timedOut = TRUE, !.cancelled = TRUE]
  <2>1. new \in Controls BY <1>2 DEF Controls
  <2>2. /\ control' = [control EXCEPT ![c] = new] /\ control[c].step # "none"
        /\ UNCHANGED <<journal, closing>> /\ Machine!DeliverNothing
    BY <1>2, <1>3 DEF Machine!Timeout, Machine!commandUnchanged
  <2> HIDE DEF new
  <2> QED BY <1>1, <2>1, <2>2, LiveMoves
<1>4. CASE Machine!GroupEnds(c)
  BY <1>1, <1>4, QuietMoves
  DEF Machine!GroupEnds, Machine!wireVars, Machine!volatileVars, Machine!DeliverNothing
<1>5. ASSUME NEW natural \in {"succeeded", "failed"}, Machine!Exit(c, natural)
      PROVE  ClientStep
  <2>1. /\ control[c].step # "none" /\ control' = [control EXCEPT ![c] = Machine!NoControl]
        /\ Machine!Finish(c, Machine!Outcome(c, natural)) /\ closing' = closing
    BY <1>5 DEF Machine!Exit, Machine!commandUnchanged
  <2>2. Machine!Outcome(c, natural) \in Machine!Results BY OutcomeIsResult
  <2> QED BY <1>1, <2>1, <2>2, EndMoves
<1> QED BY <1>3, <1>4, <1>5 DEF ProcessEvent

\* A connection that ends, at either side, loses what was on its way; the
\* journal and the batches of the Server's operations are not touched.
LEMMA CutStep ==
    ASSUME ControlInv, Break \/ Hangup
    PROVE  ClientStep
<1>1. LinkLost /\ ClientIsCutOff BY DEF Break, Hangup
<1>2. UNCHANGED <<commandStatus, expiresAt, create, sending>> /\ toMachine' = <<>>
  BY <1>1 DEF LinkLost, Store!setMachineOffline, Store!sessionVars, Store!callsUnchanged,
     Store!callVars
<1>3. UNCHANGED <<journal, control, closing, buffer>> /\ out' = <<>>
  BY <1>1 DEF ClientIsCutOff, memoryVars
<1>4. toMachine' \in Seq(Downward) BY <1>2, EmptySeq
<1> QED BY <1>2, <1>3, <1>4, QuietMoves

\* What a process that is gone leaves is the journal.
LEMMA ForgetMoves ==
    ASSUME ControlInv, UNCHANGED <<commandStatus, expiresAt, create, sending>>,
           toMachine' \in Seq(Downward), Machine!Forget,
           journal' \in [Commands -> Machine!JournalStates],
           Journaled \subseteq Journaled', Journaled' \subseteq Known
    PROVE  ClientStep
<1>0. MachineInv /\ WireInv BY DEF ControlInv
<1>1. Machine!NoControl \in Controls /\ Machine!NoControl.step = "none"
      /\ Machine!NotClosing \in Closures
  BY DEF Machine!NoControl, Controls, Machine!NotClosing, Closures
<1>2. /\ control' \in [Commands -> Controls] /\ closing' \in [Sessions -> Closures]
      /\ \A c \in Commands : control'[c].step = "none"
  BY <1>1 DEF Machine!Forget
<1>3. MachineInv' BY <1>0, <1>2, MachineKept
<1>4. out' = <<>> /\ buffer' = <<>> BY DEF Machine!Forget
<1>5. out' \in Seq(Upward') /\ buffer' \in Seq(Upward') BY <1>0, <1>4, Reports
<1> QED BY <1>3, <1>5 DEF ClientStep

\* A crash, also between the two writes of command.start; the restart concludes
\* what it finds unfinished.
LEMMA CrashStep ==
    ASSUME ControlInv, Crash \/ Restart
    PROVE  ClientStep
<1>0. RowsInv /\ MachineInv /\ WireInv BY DEF ControlInv
<1>1. journal \in [Commands -> Machine!JournalStates] /\ Journaled \subseteq Known
  BY <1>0 DEF MachineInv
<1>2. toMachine \in Seq(Downward) BY <1>0 DEF WireInv
<1>3. /\ UNCHANGED <<commandStatus, expiresAt, create, sending>>
      /\ toMachine' = toMachine \/ toMachine' = <<>>
  BY DEF Crash, Restart, clientOnly, storeVars, wireVars, LinkLost, Store!setMachineOffline,
     Store!sessionVars, Store!callsUnchanged, Store!callVars
<1>4. toMachine' \in Seq(Downward) BY <1>2, <1>3, EmptySeq
<1>5. CASE Machine!Crash
  <2>1. journal' = journal /\ Machine!Forget BY <1>5 DEF Machine!Crash
  <2>2. Journaled' = Journaled BY <2>1 DEF Journaled
  <2> QED BY <1>1, <1>3, <1>4, <2>1, <2>2, ForgetMoves
<1>6. ASSUME NEW c \in Commands, toMachine # <<>>, Head(toMachine) = Start(c),
             Machine!CrashReceiving(c)
      PROVE  ClientStep
  <2>1. Start(c) \in Downward BY <1>2, <1>6, QueueMoves
  <2>2. c \in Known BY <1>0, <2>1, DownwardNames DEF Start
  <2>3. journal' = [journal EXCEPT ![c] = "received"] /\ Machine!Forget
    BY <1>6 DEF Machine!CrashReceiving
  <2>4. journal' \in [Commands -> Machine!JournalStates] /\ Journaled' = Journaled \cup {c}
    BY <1>1, <2>2, <2>3 DEF Journaled, Machine!JournalStates, Known
  <2> QED BY <1>1, <1>3, <1>4, <2>2, <2>3, <2>4, ForgetMoves
<1>7. CASE Machine!Restart
  <2>1. /\ Machine!Forget
        /\ journal' = [c \in Commands |->
              IF journal[c] \in {"received", "running"} THEN "execution_unknown" ELSE journal[c]]
    BY <1>7 DEF Machine!Restart
  <2>2. journal' \in [Commands -> Machine!JournalStates] /\ Journaled' = Journaled
    BY <1>1, <2>1 DEF Journaled, Machine!JournalStates, Machine!Results
  <2> QED BY <1>1, <1>3, <1>4, <2>1, <2>2, ForgetMoves
<1> QED BY <1>5, <1>6, <1>7 DEF Crash, Restart

\* A deadline that passes locally, and a signal to stop.
LEMMA AsideStep ==
    ASSUME ControlInv, StopGracefully \/ \E s \in Sessions : Lapse(s)
    PROVE  ClientStep
<1>0. WireInv BY DEF ControlInv
<1>1. /\ UNCHANGED <<commandStatus, expiresAt, create, sending>>
      /\ toMachine' = toMachine
  BY DEF StopGracefully, Lapse, clientOnly, storeVars, wireVars
<1>2. toMachine' \in Seq(Downward) BY <1>0, <1>1 DEF WireInv
<1>3. UNCHANGED <<journal, control, closing, out, buffer, answered>>
  BY DEF StopGracefully, Lapse, Machine!StopGracefully, Machine!Lapse, Machine!volatileVars,
     Machine!wireVars
<1> QED BY <1>1, <1>2, <1>3, QuietMoves DEF Machine!DeliverNothing

-----------------------------------------------------------------------------
(* The Server takes a report *)

\* Every report the Server can be sent is of what exists; one of a start is of
\* a Command that is journaled or over.
LEMMA UpwardNames ==
    ASSUME NEW m \in Upward
    PROVE  /\ m.type = "command.started" => m.id \in Known \cap (Journaled \cup Over)
           /\ m.type = "command.completed" => m.id \in Known /\ m.value \in Machine!Results
           /\ m.type \in {"session.opened", "session.open_failed", "session.closed",
                          "command.started", "command.completed"}
<1> USE DEF Machine!Opened, Machine!OpenFailed, Machine!Closed, Machine!Started, Machine!Completed
<1>1. CASE \E s \in Sessions : m = Machine!Opened(s) \/ m = Machine!OpenFailed(s) BY <1>1
<1>2. CASE \E s \in Sessions, r \in {"expired", "closed", "none", "already_closed"} :
              m = Machine!Closed(s, r)
  BY <1>2
<1>3. CASE \E c \in Known \cap (Journaled \cup Over) : m = Machine!Started(c) BY <1>3
<1>4. CASE \E c \in Known, r \in Machine!Results : m = Machine!Completed(c, r) BY <1>4
<1> QED BY <1>1, <1>2, <1>3, <1>4 DEF Upward

\* A start makes a Command running that is not over, so it is journaled; a
\* result is acknowledged when the Command is over by it or was before.
LEMMA ServerReceivesKeeps == ASSUME ControlInv, ServerReceives PROVE ControlInv'
<1>0. RowsInv /\ MachineInv /\ WireInv /\ RunningMeansJournaled BY DEF ControlInv
<1> DEFINE report == Head(out)
<1>1. /\ out # <<>> /\ out' = Tail(out) /\ UNCHANGED <<journal, control, closing, buffer, sending>>
  BY DEF ServerReceives, Machine!ServerReceives, Machine!volatileVars
<1>2. report \in Upward /\ out' \in Seq(Upward) BY <1>0, <1>1, QueueMoves DEF WireInv
<1>3. /\ IF Recordable(report) THEN Record(report) ELSE UNCHANGED storeVars
      /\ IF report.type = "command.completed"
         THEN toMachine' = Append(toMachine, Acknowledge(report.id)) ELSE UNCHANGED toMachine
  BY DEF ServerReceives
<1> HIDE DEF report
<1>4. /\ report.type = "command.started" => report.id \in Known \cap (Journaled \cup Over)
      /\ report.type = "command.completed" =>
            report.id \in Known /\ report.value \in Machine!Results
      /\ report.type \in {"session.opened", "session.open_failed", "session.closed",
                          "command.started", "command.completed"}
  BY <1>2, UpwardNames
<1>5. Journaled' = Journaled BY <1>1 DEF Journaled
<1>6. commandStatus \in [Commands -> Store!CommandStatuses \cup {"none"}] BY <1>0 DEF RowsInv
<1> USE DEF Store!reportUnchanged, Store!otherColumnsUnchanged, Store!callsUnchanged, Store!callVars
<1>7. expiresAt' = expiresAt /\ create' = create
  BY <1>3 DEF Record, storeVars, Store!markSessionOpened, Store!markSessionFailed,
     Store!markSessionClosed, Store!markCommandStarted, Store!markCommandCompleted
<1>8. /\ RowsInv' /\ Known \subseteq Known' /\ Over \subseteq Over' /\ RunningMeansJournaled'
      /\ report.type = "command.completed" => report.id \in Over'
  <2>1. ASSUME commandStatus' = commandStatus,
               report.type = "command.completed" => report.id \in Over
        PROVE  /\ RowsInv' /\ Known \subseteq Known' /\ Over \subseteq Over'
               /\ RunningMeansJournaled'
               /\ report.type = "command.completed" => report.id \in Over'
    <3>1. RowsStep BY <1>0, <1>7, <2>1, RowsRest
    <3>2. RunningMeansJournaled' BY <1>0, <1>1, <2>1 DEF RunningMeansJournaled
    <3> QED BY <2>1, <3>1, <3>2 DEF RowsStep
  <2>2. CASE ~Recordable(report)
    <3>1. commandStatus' = commandStatus BY <1>3, <2>2 DEF storeVars
    <3>2. report.type = "command.completed" => report.id \in Over
      BY <1>4, <1>6, <2>2 DEF Recordable, Known, Over, Store!CommandStatuses
    <3> QED BY <2>1, <3>1, <3>2
  <2>3. CASE Recordable(report) /\ report.type = "command.started"
    <3> DEFINE c == report.id
    <3>1. c \in Known \cap (Journaled \cup Over) BY <1>4, <2>3
    <3>2. Store!markCommandStarted(c) BY <1>3, <2>3 DEF Record
    <3> HIDE DEF c
    <3>3. commandStatus' = [commandStatus EXCEPT ![c] = "running"]
          /\ commandStatus[c] \in {"queued", "delivered"}
      BY <3>2 DEF Store!markCommandStarted
    <3>4. c \notin Over BY <3>3 DEF Over, Store!ResultStatuses
    <3>5. c \in Commands /\ journal[c] # "none" BY <3>1, <3>4 DEF Known, Journaled
    <3>6. commandStatus' \in [Commands -> Store!CommandStatuses \cup {"none"}]
      BY <1>6, <3>3 DEF Store!CommandStatuses, Store!ActiveCommandStatuses
    <3>7. Known' = Known BY <1>6, <3>1, <3>3 DEF Known
    <3>8. Over' = Over BY <1>6, <3>3, <3>4 DEF Over, Store!ResultStatuses
    <3>9. RunningMeansJournaled'
      BY <1>0, <1>1, <1>6, <3>3, <3>5 DEF RunningMeansJournaled
    <3>10. RowsInv' BY <1>0, <1>7, <3>6, <3>7 DEF RowsInv
    <3> QED BY <2>3, <3>7, <3>8, <3>9, <3>10
  <2>4. CASE Recordable(report) /\ report.type = "command.completed"
    <3> DEFINE c == report.id
               result == report.value
    <3>1. c \in Known /\ result \in Machine!Results BY <1>4, <2>4
    <3>2. Store!markCommandCompleted(c, result) BY <1>3, <2>4 DEF Record
    <3> HIDE DEF c, result
    <3>3. commandStatus' = [commandStatus EXCEPT ![c] = result]
          /\ commandStatus[c] \in Store!ActiveCommandStatuses
      BY <3>2 DEF Store!markCommandCompleted
    <3>4. c \in Commands /\ c \notin Over
      BY <3>1, <3>3 DEF Known, Over, Store!ResultStatuses, Store!ActiveCommandStatuses
    <3>5. result \in Store!CommandStatuses \ {"running"} /\ result \in Store!ResultStatuses
      BY <3>1 DEF Machine!Results, Store!CommandStatuses, Store!ResultStatuses
    <3>6. create' \in [Commands -> Store!CreateCall] BY <1>0, <1>7 DEF RowsInv
    <3>7. RowsStep BY <1>0, <1>7, <3>3, <3>4, <3>5, <3>6, RowMoves
    <3>8. c \in Over' BY <1>6, <3>3, <3>4, <3>5 DEF Over
    <3>9. RunningMeansJournaled'
      BY <1>0, <1>1, <3>7 DEF RunningMeansJournaled, RowsStep
    <3> QED BY <3>7, <3>8, <3>9 DEF RowsStep, c
  <2>5. CASE Recordable(report)
             /\ report.type \in {"session.opened", "session.open_failed", "session.closed"}
    <3>1. commandStatus' = commandStatus
      BY <1>3, <2>5
      DEF Record, Store!markSessionOpened, Store!markSessionFailed, Store!markSessionClosed
    <3> QED BY <2>1, <2>5, <3>1
  <2> QED BY <1>4, <2>2, <2>3, <2>4, <2>5
<1>9. /\ toMachine \in Seq(Downward') /\ sending' \subseteq Seq(Instructions') \ {<<>>}
      /\ buffer' \in Seq(Upward')
  BY <1>0, <1>1, <1>5, <1>8, QueuesGrow
<1>10. toMachine' \in Seq(Downward')
  <2>1. CASE report.type = "command.completed"
    <3>1. Acknowledge(report.id) \in Downward' BY <1>8, <2>1 DEF Downward
    <3> QED BY <1>3, <1>9, <2>1, <3>1, QueueMoves
  <2> QED BY <1>3, <1>9, <2>1
<1>11. out' \in Seq(Upward')
  <2>1. Upward \subseteq Upward' BY <1>5, <1>8, MessagesGrow
  <2> QED BY <1>2, <2>1, SeqGrows
<1>12. WireInv' BY <1>9, <1>10, <1>11 DEF WireInv
<1>13. MachineInv' BY <1>0, <1>1, <1>5, <1>8 DEF MachineInv
<1> QED BY <1>8, <1>12, <1>13 DEF ControlInv

-----------------------------------------------------------------------------
(* The first theorem *)

\* Nothing exists yet, and nothing is on its way.
LEMMA ControlInit == Init => ControlInv
<1> SUFFICES ASSUME Init PROVE ControlInv OBVIOUS
<1>1. /\ commandStatus = [c \in Commands |-> "none"] /\ journal = [c \in Commands |-> "none"]
      /\ create = [c \in Commands |-> Store!NewCreate]
      /\ control = [c \in Commands |-> Machine!NoControl]
      /\ closing = [s \in Sessions |-> Machine!NotClosing]
      /\ expiresAt = [s \in Sessions |-> Request[s].duration]
      /\ toMachine = <<>> /\ sending = {} /\ out = <<>> /\ buffer = <<>>
  BY DEF Init
<1>2. Known = {} /\ Journaled = {} BY <1>1 DEF Known, Journaled
<1>3. /\ Store!NewCreate \in Store!CreateCall /\ Store!NewCreate.step # "deliver"
      /\ Machine!NoControl \in Controls /\ Machine!NoControl.step = "none"
      /\ Machine!NotClosing \in Closures
  BY DEF Store!NewCreate, Store!CreateCall, Store!CreateSteps, Machine!NoControl, Controls,
     Machine!NotClosing, Closures
<1>4. expiresAt \in [Sessions -> Nat] BY <1>1, RequestType
<1>5. RowsInv BY <1>1, <1>2, <1>3, <1>4, FS_EmptySet DEF RowsInv
<1>6. MachineInv BY <1>1, <1>2, <1>3 DEF MachineInv, Machine!JournalStates
<1>7. WireInv BY <1>1, EmptySeq DEF WireInv
<1>8. RunningMeansJournaled BY <1>1 DEF RunningMeansJournaled
<1> QED BY <1>5, <1>6, <1>7, <1>8 DEF ControlInv

\* Every step keeps the invariant: the Server's leave the journal alone, the
\* Client's leave the rows alone, and what passes between them is allowed.
LEMMA ControlStep == ControlInv /\ [Next]_vars => ControlInv'
<1> SUFFICES ASSUME ControlInv, [Next]_vars PROVE ControlInv' OBVIOUS
<1>1. ASSUME \/ \E s \in Sessions : DeliverOpen(s)
             \/ \E c \in Commands : CreateStep(c) \/ DeliverStart(c)
      PROVE  ControlInv'
  BY <1>1, CallSteps, ServerStepKeeps
<1>2. ASSUME \/ \E s \in Sessions : \/ SuperviseAgain(s) \/ CompleteSession(s)
                                    \/ CancelSession(s) \/ FinishAgain(s)
             \/ \E c \in Commands : CancelCommand(c)
             \/ Sweep \/ Tick
      PROVE  ControlInv'
  BY <1>2, OperationSteps, ServerStepKeeps
<1>3. CASE Send BY <1>3, SendStep, ServerStepKeeps
<1>4. CASE Reconnect \/ ReadSessions \/ ReadCommands BY <1>4, ReconcileSteps, ServerStepKeeps
<1>5. CASE Break \/ Hangup BY <1>5, CutStep, ClientStepKeeps
<1>6. CASE ClientReceives BY <1>6, ReceiveStep, ClientStepKeeps
<1>7. CASE ServerReceives BY <1>7, ServerReceivesKeeps
<1>8. CASE Settling BY <1>8, SettlingStep, ClientStepKeeps
<1>9. ASSUME NEW c \in Commands, ProcessEvent(c) PROVE ControlInv'
  BY <1>9, ProcessStep, ClientStepKeeps
<1>10. CASE Crash \/ Restart BY <1>10, CrashStep, ClientStepKeeps
<1>11. ASSUME StopGracefully \/ \E s \in Sessions : Lapse(s) PROVE ControlInv'
  BY <1>11, AsideStep, ClientStepKeeps
<1>12. CASE UNCHANGED vars
  <2>1. /\ UNCHANGED <<commandStatus, expiresAt, create, sending, toMachine>>
        /\ UNCHANGED <<journal, control, closing, out, buffer, answered>>
    BY <1>12 DEF vars, storeVars, clientVars, memoryVars, wireVars
  <2>2. toMachine' \in Seq(Downward) BY <2>1 DEF ControlInv, WireInv
  <2> QED BY <2>1, <2>2, QuietMoves, ClientStepKeeps DEF Machine!DeliverNothing
<1> QED
  BY <1>1, <1>2, <1>3, <1>4, <1>5, <1>6, <1>7, <1>8, <1>9, <1>10, <1>11, <1>12
  DEF Next, Connecting

\* Whatever breaks, crashes, is repeated or arrives late: nothing is on its way
\* in either direction that the rows and the journal do not bear out, and both
\* keep what the other relies on.
THEOREM ControlInvariant == Spec => []ControlInv
BY ControlInit, ControlStep, PTL DEF Spec

\* While the Server takes a Command to be running, the Client's journal holds
\* it, for any number of Sessions, Commands, breaks and crashes.
\* (markCommandCompleted, CommandJournal.acknowledge, reconcileJournalResults)
THEOREM ControlRunningMeansJournaled == Spec => []RunningMeansJournaled
<1>1. ControlInv => RunningMeansJournaled BY DEF ControlInv
<1> QED BY <1>1, ControlInvariant, PTL

-----------------------------------------------------------------------------
(* Each side does only what its own module allows *)

\* One step of the Client, or none.
MachineStep == [Machine!Next]_(Machine!vars)

\* What leaves the Client's variables alone is no step of it.
LEMMA MachineRests == ASSUME UNCHANGED clientVars PROVE MachineStep
BY DEF MachineStep, clientVars, memoryVars, Machine!vars, Machine!wireVars, Machine!volatileVars,
   Machine!processVars

\* An end of the connection that the Client has seen already is none, either.
LEMMA CutIsConnectionLost == ASSUME ClientIsCutOff PROVE MachineStep
<1>1. CASE conn # "down" \/ out # <<>>
  <2>1. Machine!ConnectionLost
    BY <1>1 DEF ClientIsCutOff, Machine!ConnectionLost, memoryVars, Machine!volatileVars,
       Machine!processVars
  <2> QED BY <2>1 DEF MachineStep, Machine!Next
<1>2. CASE conn = "down" /\ out = <<>>
  <2>1. UNCHANGED clientVars BY <1>2 DEF ClientIsCutOff, clientVars
  <2> QED BY <2>1, MachineRests
<1> QED BY <1>1, <1>2

\* What arrives is a message Client has a handler for.
LEMMA ReceiveIsMachineStep == ASSUME ControlInv, ClientReceives PROVE MachineStep
<1> DEFINE message == Head(toMachine)
<1>1. /\ message \in Downward /\ RowsInv
  BY QueueMoves DEF ClientReceives, ControlInv, WireInv
<1>2. Handle(message) BY DEF ClientReceives
<1> HIDE DEF message
<1>3. /\ message.type \in {"session.open", "session.close"} => message.id \in Sessions
      /\ message.type = "session.close" => message.value \in Machine!CloseReasons
      /\ message.type \in {"command.start", "command.cancel", "command.acknowledged"}
            => message.id \in Commands
  BY <1>1, DownwardNames DEF Known, Over, Machine!CloseReasons
<1>4. CASE Machine!Authenticated BY <1>4 DEF MachineStep, Machine!Next
<1>5. CASE message.type = "session.open" /\ Machine!openSession(message.id)
  BY <1>3, <1>5 DEF MachineStep, Machine!Next, Machine!Handle
<1>6. CASE message.type = "session.close" /\ Machine!HandleClose(message.id, message.value)
  <2>1. Machine!CloseAsked(message.id) BY <1>3, <1>6 DEF Machine!CloseAsked
  <2> QED BY <1>3, <1>6, <2>1 DEF MachineStep, Machine!Next, Machine!Handle
<1>7. CASE message.type = "command.start" /\ Machine!startCommand(message.id)
  BY <1>3, <1>7 DEF MachineStep, Machine!Next, Machine!Handle
<1>8. CASE message.type = "command.cancel" /\ Machine!cancelCommand(message.id)
  BY <1>3, <1>8 DEF MachineStep, Machine!Next, Machine!Handle
<1>9. CASE message.type = "command.acknowledged" /\ Machine!Acknowledged(message.id)
  BY <1>3, <1>9 DEF MachineStep, Machine!Next, Machine!Handle
<1>10. CASE AcknowledgedAgain(message.id) BY <1>10, MachineRests DEF AcknowledgedAgain
<1> QED BY <1>2, <1>4, <1>5, <1>6, <1>7, <1>8, <1>9, <1>10 DEF Handle

\* What the Client does by itself.
LEMMA OwnStepIsMachineStep ==
    ASSUME \/ \E s \in Sessions : Lapse(s)
           \/ \E c \in Commands : ProcessEvent(c)
           \/ Settling \/ StopGracefully \/ Crash \/ Restart
    PROVE  MachineStep
<1>1. CASE \E s \in Sessions : Lapse(s) BY <1>1 DEF Lapse, MachineStep, Machine!Next
<1>2. CASE \E c \in Commands : ProcessEvent(c)
  BY <1>2 DEF ProcessEvent, MachineStep, Machine!Next
<1>3. CASE Settling BY <1>3 DEF Settling, MachineStep, Machine!Next
<1>4. CASE StopGracefully BY <1>4 DEF StopGracefully, MachineStep, Machine!Next
<1>5. CASE Crash BY <1>5 DEF Crash, MachineStep, Machine!Next
<1>6. CASE Restart BY <1>6 DEF Restart, MachineStep, Machine!Next
<1> QED BY <1>1, <1>2, <1>3, <1>4, <1>5, <1>6

\* With the Server and the wire around it, the Client does only what Client
\* lets it do against any Server at all: every step of the composition is one
\* of its turns or none.
\* (Client.handle, connect, the socket's close)
THEOREM ControlStepsAreClientSteps == Spec => [][Machine!Next]_(Machine!vars)
<1>1. ASSUME ControlInv, [Next]_vars PROVE MachineStep
  <2>1. ASSUME \/ \E s \in Sessions : \/ DeliverOpen(s) \/ SuperviseAgain(s) \/ CompleteSession(s)
                                      \/ CancelSession(s) \/ FinishAgain(s)
               \/ \E c \in Commands : CreateStep(c) \/ DeliverStart(c) \/ CancelCommand(c)
               \/ Sweep \/ Tick \/ Send \/ Reconnect \/ ReadSessions \/ ReadCommands
               \/ UNCHANGED vars
        PROVE  UNCHANGED clientVars
    BY <2>1 DEF DeliverOpen, SuperviseAgain, CompleteSession, CancelSession, FinishAgain, CreateStep,
       DeliverStart, CancelCommand, Sweep, Tick, Send, Reconnect, ReadSessions, ReadCommands,
       serverOnly, sendOnly, vars
  <2>2. CASE Break \/ Hangup BY <2>2, CutIsConnectionLost DEF Break, Hangup
  <2>3. CASE ServerReceives BY <2>3 DEF ServerReceives, MachineStep, Machine!Next
  <2>4. CASE ClientReceives BY <1>1, <2>4, ReceiveIsMachineStep
  <2> QED BY <1>1, <2>1, <2>2, <2>3, <2>4, MachineRests, OwnStepIsMachineStep DEF Next, Connecting
<1>2. MachineStep => [Machine!Next]_(Machine!vars) BY DEF MachineStep
<1> QED BY <1>1, <1>2, ControlInvariant, PTL DEF Spec

\* One statement of the Server, or none.
StoreStep == [Store!Next]_(Store!vars)

\* Policies the Machines reported are policies a Client may report.
AuthorityInv ==
    machineAuthority \in [Machines -> [online : BOOLEAN, policy : Policies]]

\* What leaves the Server's rows and calls alone is no step of it.
LEMMA StoreRests == ASSUME UNCHANGED storeVars PROVE StoreStep
BY DEF StoreStep, storeVars, Store!vars, Store!sessionVars, Store!callVars

\* The gateway sees a connection come and go.
LEMMA ConnectionIsStoreStep ==
    ASSUME AuthorityInv, NEW m \in Machines,
           \/ Store!setMachineOffline(m)
           \/ Store!putMachineAuthority(m, machineAuthority[m].policy)
    PROVE  StoreStep /\ AuthorityInv'
<1>1. machineAuthority[m] \in [online : BOOLEAN, policy : Policies] BY DEF AuthorityInv
<1>2. CASE Store!setMachineOffline(m)
  <2>1. machineAuthority' = [machineAuthority EXCEPT ![m].online = FALSE]
    BY <1>2 DEF Store!setMachineOffline
  <2>2. [machineAuthority[m] EXCEPT !.online = FALSE] \in [online : BOOLEAN, policy : Policies]
    BY <1>1
  <2>3. AuthorityInv' BY <2>1, <2>2 DEF AuthorityInv
  <2> QED BY <1>2, <2>3 DEF StoreStep, Store!Next
<1>3. CASE Store!putMachineAuthority(m, machineAuthority[m].policy)
  <2>1. machineAuthority[m].policy \in Policies BY <1>1
  <2>2. AuthorityInv' BY <1>3, <2>1 DEF AuthorityInv, Store!putMachineAuthority
  <2> QED BY <1>3, <2>1, <2>2 DEF StoreStep, Store!Next
<1> QED BY <1>2, <1>3

\* A report of the Client is one the Server has an update for; a Machine that
\* closed the Session before, or for no reason it names, counts as one that
\* closed it.
LEMMA RecordIsStoreStep ==
    ASSUME NEW report \in Upward, Record(report)
    PROVE  StoreStep
<1> USE DEF Machine!Opened, Machine!OpenFailed, Machine!Closed, Machine!Started, Machine!Completed
<1>1. /\ report.type \in {"session.opened", "session.open_failed", "session.closed"}
            => report.id \in Sessions
      /\ report.type \in {"command.started", "command.completed"} => report.id \in Commands
      /\ report.type = "command.completed" => report.value \in Machine!Results
  BY DEF Upward, Known
<1>2. CASE report.type = "session.opened" /\ Store!markSessionOpened(report.id)
  BY <1>1, <1>2 DEF StoreStep, Store!Next, Store!Report
<1>3. CASE report.type = "session.open_failed" /\ Store!markSessionFailed(report.id)
  BY <1>1, <1>3 DEF StoreStep, Store!Next, Store!Report
<1>4. CASE report.type = "session.closed" /\ Store!markSessionClosed(report.id, report.value)
  <2>1. \E reason \in {"expired", "closed"} : Store!markSessionClosed(report.id, reason)
    <3>1. CASE report.value = "expired" BY <1>4, <3>1
    <3>2. CASE report.value # "expired"
      <4>1. Store!markSessionClosed(report.id, "closed")
        BY <1>4, <3>2 DEF Store!markSessionClosed
      <4> QED BY <4>1
    <3> QED BY <3>1, <3>2
  <2> QED BY <1>1, <1>4, <2>1 DEF StoreStep, Store!Next, Store!Report
<1>5. CASE report.type = "command.started" /\ Store!markCommandStarted(report.id)
  BY <1>1, <1>5 DEF StoreStep, Store!Next, Store!ReportCommand
<1>6. CASE report.type = "command.completed" /\ Store!markCommandCompleted(report.id, report.value)
  <2>1. report.value \in Store!ResultStatuses
    BY <1>1, <1>6 DEF Machine!Results, Store!ResultStatuses
  <2> QED BY <1>1, <1>6, <2>1 DEF StoreStep, Store!Next, Store!ReportCommand
<1> QED BY <1>2, <1>3, <1>4, <1>5, <1>6 DEF Record

\* A report leaves the Machines' rows alone.
LEMMA RecordKeepsAuthority ==
    ASSUME NEW report, Record(report)
    PROVE  UNCHANGED machineAuthority
BY DEF Record, Store!markSessionOpened, Store!markSessionFailed, Store!markSessionClosed,
   Store!markCommandStarted, Store!markCommandCompleted, Store!reportUnchanged,
   Store!authorityUnchanged

\* What the Server does for Agents, for Humans and by its timer.
LEMMA OperationIsStoreStep ==
    ASSUME \/ \E s \in Sessions : \/ DeliverOpen(s) \/ SuperviseAgain(s) \/ CompleteSession(s)
                                  \/ CancelSession(s) \/ FinishAgain(s)
           \/ \E c \in Commands : CreateStep(c) \/ DeliverStart(c) \/ CancelCommand(c)
           \/ Sweep \/ Tick
    PROVE  StoreStep /\ UNCHANGED machineAuthority
<1> USE DEF StoreStep, Store!Next
<1>1. ASSUME NEW s \in Sessions, DeliverOpen(s) PROVE StoreStep /\ UNCHANGED machineAuthority
  BY <1>1 DEF DeliverOpen, Store!RequestStep, Store!DeliverOpen, Store!RequestUnchanged
<1>2. ASSUME NEW s \in Sessions, SuperviseAgain(s) \/ FinishAgain(s)
      PROVE  StoreStep /\ UNCHANGED machineAuthority
  <2>1. UNCHANGED storeVars BY <1>2 DEF SuperviseAgain, FinishAgain
  <2> QED BY <2>1, StoreRests DEF storeVars
<1>3. ASSUME NEW s \in Sessions, CompleteSession(s) \/ CancelSession(s)
      PROVE  StoreStep /\ UNCHANGED machineAuthority
  BY <1>3 DEF CompleteSession, CancelSession, Store!finishSession, Store!CompleteSession,
     Store!CancelSession, Store!authorityUnchanged
<1>4. ASSUME NEW c \in Commands, CreateStep(c) \/ DeliverStart(c)
      PROVE  StoreStep /\ UNCHANGED machineAuthority
  <2>1. Store!CreateStep(c) BY <1>4 DEF CreateStep, DeliverStart, Store!CreateStep
  <2>2. UNCHANGED machineAuthority
    BY <2>1 DEF Store!CreateStep, Store!commandByIdempotency, Store!ReadSession,
       Store!DecideCommand, Store!CountCommands, Store!createCommand, Store!DeliverStart,
       Store!CreateUnchanged
  <2> QED BY <2>1, <2>2
<1>5. ASSUME NEW c \in Commands, CancelCommand(c) PROVE StoreStep /\ UNCHANGED machineAuthority
  <2>1. CASE Store!requestCommandCancellation(c)
    BY <2>1 DEF Store!requestCommandCancellation, Store!authorityUnchanged
  <2>2. CASE UNCHANGED storeVars BY <2>2, StoreRests DEF storeVars
  <2> QED BY <1>5, <2>1, <2>2 DEF CancelCommand
<1>6. CASE Sweep
  <2>1. Store!expireSessions BY <1>6 DEF Sweep
  <2>2. UNCHANGED machineAuthority BY <2>1 DEF Store!expireSessions, Store!authorityUnchanged
  <2> QED BY <2>1, <2>2
<1>7. CASE Tick
  BY <1>7 DEF Tick, Store!Tick
<1> QED BY <1>1, <1>2, <1>3, <1>4, <1>5, <1>6, <1>7

\* The same for the Server: whatever the real Client answers and whenever the
\* wire breaks, its rows and its calls change by the statements SessionStore
\* has, with the values it has for them.
\* (SessionService, handleMessage, the sweep)
THEOREM ControlStepsAreStoreSteps == Spec => [][Store!Next]_(Store!vars)
<1>1. Init => AuthorityInv BY DEF Init, AuthorityInv
<1>2. ASSUME ControlInv, AuthorityInv, [Next]_vars PROVE StoreStep /\ AuthorityInv'
  <2>1. ASSUME UNCHANGED machineAuthority PROVE AuthorityInv'
    BY <1>2, <2>1 DEF AuthorityInv
  <2>2. ASSUME UNCHANGED storeVars PROVE StoreStep /\ AuthorityInv'
    BY <2>1, <2>2, StoreRests DEF storeVars
  <2>3. ASSUME LinkLost PROVE StoreStep /\ AuthorityInv'
    BY <1>2, <2>3, ConnectionIsStoreStep DEF LinkLost
  <2>4. ASSUME \/ \E s \in Sessions : \/ DeliverOpen(s) \/ SuperviseAgain(s) \/ CompleteSession(s)
                                      \/ CancelSession(s) \/ FinishAgain(s)
               \/ \E c \in Commands : CreateStep(c) \/ DeliverStart(c) \/ CancelCommand(c)
               \/ Sweep \/ Tick
        PROVE  StoreStep /\ AuthorityInv'
    BY <2>1, <2>4, OperationIsStoreStep
  <2>5. ASSUME \/ \E s \in Sessions : Lapse(s)
               \/ \E c \in Commands : ProcessEvent(c)
               \/ Send \/ ReadSessions \/ ReadCommands \/ ClientReceives \/ Settling
               \/ StopGracefully \/ Restart \/ UNCHANGED vars
        PROVE  StoreStep /\ AuthorityInv'
    BY <2>2, <2>5 DEF Lapse, ProcessEvent, Send, ReadSessions, ReadCommands, ClientReceives,
       Settling, StopGracefully, Restart, clientOnly, vars
  <2>6. CASE Break \/ Hangup BY <2>3, <2>6 DEF Break, Hangup
  <2>7. CASE Reconnect BY <1>2, <2>7, ConnectionIsStoreStep DEF Reconnect
  <2>8. CASE ServerReceives
    <3>1. Head(out) \in Upward
      BY <1>2, <2>8, QueueMoves DEF ServerReceives, Machine!ServerReceives, ControlInv, WireInv
    <3>2. Record(Head(out)) \/ UNCHANGED storeVars BY <2>8 DEF ServerReceives
    <3> QED BY <2>1, <2>2, <3>1, <3>2, RecordIsStoreStep, RecordKeepsAuthority
  <2>9. CASE Crash BY <2>2, <2>3, <2>9 DEF Crash
  <2> QED
    BY <1>2, <2>4, <2>5, <2>6, <2>7, <2>8, <2>9 DEF Next, Connecting
<1>3. Spec => []AuthorityInv BY <1>1, <1>2, ControlInvariant, PTL DEF Spec
<1>4. StoreStep => [Store!Next]_(Store!vars) BY DEF StoreStep
<1> QED BY <1>2, <1>3, <1>4, ControlInvariant, PTL DEF Spec

-----------------------------------------------------------------------------
(* What ClientProofs shows of the Client holds of it here *)

Proved == INSTANCE ClientProofs WITH Admissible <- Sessions

\* The assumptions of Client on its constants.
LEMMA ClientConstants ==
    /\ SessionOf \in [Commands -> Sessions]
    /\ {SessionLimit, CommandLimit, BufferLimit, ClosedLimit, WireLimit} \subseteq Nat \ {0}
BY OrderType, BoundsType DEF SessionOf

\* Two instances of Client with the same constants have the same steps; every
\* definition either stands on is expanded.
LEMMA SameClient ==
    /\ Machine!Next => Proved!Next
    /\ UNCHANGED Machine!vars => UNCHANGED Proved!vars
<1>1. Machine!Next => Proved!Next
  BY Zenon DEF
     Machine!Next, Machine!Authenticated, Machine!ConnectionLost, Machine!Revoked,
     Machine!ServerReceives, Machine!Handle, Machine!Closure, Machine!Lapse,
     Machine!Preparation, Machine!Termination, Machine!CancelReturns, Machine!Exit,
     Machine!GroupEnds, Machine!Timeout, Machine!CrashReceiving, Machine!StopGracefully,
     Machine!dropLocalAuthority, Machine!Dropped, Machine!Crash, Machine!Restart, Machine!Idle,
     Machine!Reconciliation, Machine!volatileVars, Machine!processVars, Machine!Results,
     Machine!Completed, Machine!openSession, Machine!CloseAsked, Machine!startCommand,
     Machine!cancelCommand, Machine!Acknowledged, Machine!ExpiryTimer, Machine!CloseSucceeds,
     Machine!CloseFails, Machine!wireVars, Machine!Spawned, Machine!NotSpawned,
     Machine!KillProved, Machine!KillFailed, Machine!Alive, Machine!NoControl, Machine!Finish,
     Machine!Outcome, Machine!commandUnchanged, Machine!DeliverNothing, Machine!Receptive,
     Machine!Forget, Machine!Cancel, Machine!IsFinished,
     Machine!assertLocalAuthorityNotQuarantined, Machine!Listing, Machine!WasClosed,
     Machine!Deliver, Machine!Closed, Machine!Opened, Machine!localSessionDecision,
     Machine!OpenFailed, Machine!CloseReasons, Machine!HandleClose, Machine!startNew,
     Machine!startKnown, Machine!CloseSession, Machine!CancelsSettled, Machine!SomeKillFailed,
     Machine!ClosureEnds, Machine!TerminalFailure, Machine!NotClosing, Machine!Newest,
     Machine!OpenSessions, Machine!CanRun, Machine!Started, Machine!failCommand,
     Machine!Remember, Machine!LiveCommandsOf, Machine!quarantineLocalAuthority,
     Machine!HasTime, Machine!Cardinality,
     Proved!Next, Proved!Authenticated, Proved!ConnectionLost, Proved!Revoked,
     Proved!ServerReceives, Proved!Handle, Proved!Closure, Proved!Lapse, Proved!Preparation,
     Proved!Termination, Proved!CancelReturns, Proved!Exit, Proved!GroupEnds, Proved!Timeout,
     Proved!CrashReceiving, Proved!StopGracefully, Proved!dropLocalAuthority, Proved!Dropped,
     Proved!Crash, Proved!Restart, Proved!Idle, Proved!Reconciliation, Proved!volatileVars,
     Proved!processVars, Proved!Results, Proved!Completed, Proved!openSession,
     Proved!CloseAsked, Proved!startCommand, Proved!cancelCommand, Proved!Acknowledged,
     Proved!ExpiryTimer, Proved!CloseSucceeds, Proved!CloseFails, Proved!wireVars,
     Proved!Spawned, Proved!NotSpawned, Proved!KillProved, Proved!KillFailed, Proved!Alive,
     Proved!NoControl, Proved!Finish, Proved!Outcome, Proved!commandUnchanged,
     Proved!DeliverNothing, Proved!Receptive, Proved!Forget, Proved!Cancel, Proved!IsFinished,
     Proved!assertLocalAuthorityNotQuarantined, Proved!Listing, Proved!WasClosed,
     Proved!Deliver, Proved!Closed, Proved!Opened, Proved!localSessionDecision,
     Proved!OpenFailed, Proved!CloseReasons, Proved!HandleClose, Proved!startNew,
     Proved!startKnown, Proved!CloseSession, Proved!CancelsSettled, Proved!SomeKillFailed,
     Proved!ClosureEnds, Proved!TerminalFailure, Proved!NotClosing, Proved!Newest,
     Proved!OpenSessions, Proved!CanRun, Proved!Started, Proved!failCommand, Proved!Remember,
     Proved!LiveCommandsOf, Proved!quarantineLocalAuthority, Proved!HasTime, Proved!Cardinality
<1>2. UNCHANGED Machine!vars => UNCHANGED Proved!vars
  BY DEF
     Machine!vars, Machine!wireVars, Machine!volatileVars, Machine!processVars,
     Proved!vars, Proved!wireVars, Proved!volatileVars, Proved!processVars
<1> QED BY <1>1, <1>2

\* The Client starts here with its connection made, which its invariant does
\* not mind.
LEMMA ConnectedClientInit == Init => Proved!ClientInv
<1> SUFFICES ASSUME Init PROVE Proved!ClientInv OBVIOUS
<1> USE DEF Machine!NoControl, Machine!NotClosing, Machine!Idle, Proved!NoControl,
    Proved!NotClosing, Proved!Idle
<1>1. \A s \in Sessions : ~Proved!WasClosed(s) BY EmptySeq DEF Init, Proved!WasClosed
<1>2. Proved!ModeInv BY DEF Init, Proved!ModeInv
<1>3. \A c \in Commands : Proved!CommandInv(c) BY DEF Init, Proved!CommandInv
<1>4. \A s \in Sessions : Proved!SessionInv(s) BY <1>1 DEF Init, Proved!SessionInv
<1>5. Proved!LifeType BY DEF Init, Proved!LifeType, Proved!Handlers
<1>6. Proved!SessionsType BY EmptySeq DEF Init, Proved!SessionsType
<1>7. Proved!ClosingType BY DEF Init, Proved!ClosingType, Proved!Closures
<1>8. Proved!CommandsType
  BY DEF Init, Proved!CommandsType, Proved!Controls, Proved!KillStates
<1>9. Proved!JournalType
  <2>1. Proved!Journaled = {} BY DEF Init, Proved!Journaled
  <2>2. Proved!IsFiniteSet({}) BY FS_EmptySet DEF Proved!IsFiniteSet, IsFiniteSet
  <2> QED BY <2>1, <2>2 DEF Init, Proved!JournalType, Proved!JournalStates
<1>10. Proved!WireType BY EmptySeq, BoundsType DEF Init, Proved!WireType
<1>11. Proved!TypeInv
  BY <1>5, <1>6, <1>7, <1>8, <1>9, <1>10, ClientConstants, Proved!TypeParts DEF Proved!TypeParts
<1> QED BY <1>2, <1>3, <1>4, <1>11 DEF Proved!ClientInv

\* The Client keeps its invariant, with its own Server as with any other.
LEMMA ClientInvHere == Spec => []Proved!ClientInv
<1>1. Proved!ClientInv /\ [Machine!Next]_(Machine!vars) => Proved!ClientInv'
  BY ClientConstants, SameClient, Proved!ClientStep DEF Proved!ClientStep
<1> QED BY <1>1, ConnectedClientInit, ControlStepsAreClientSteps, PTL DEF Spec

\* What the Client promises by itself, it keeps in the system: a result is true
\* and final, a shell is spawned once between two acknowledgements, a halted
\* Client has nothing running and a quarantined one never holds authority
\* again, whatever the Server sends, the wire loses and the Client forgets.
\* (startCommand, CommandJournal, beginTerminalFailure)
THEOREM ControlClientPromises ==
    Spec => /\ [](Machine!ResultsAreTrue /\ Machine!HaltedMeansStopped)
            /\ Machine!RunsOnce /\ Machine!ResultIsFinal /\ Machine!QuarantineHolds
<1>1. Proved!ClientInv => Machine!ResultsAreTrue /\ Machine!HaltedMeansStopped
  BY DEF Proved!ClientInv, Proved!CommandInv, Proved!ModeInv, Machine!ResultsAreTrue,
     Machine!HaltedMeansStopped, Machine!Results
<1>2. Proved!ClientInv => \A c \in Commands : Machine!Spawned(c) => c \notin spawned
  BY DEF Proved!ClientInv, Proved!CommandInv, Machine!Spawned
<1> DEFINE Final ==
       \A c \in Commands : journal[c] \in Machine!Results => journal'[c] \in {journal[c], "none"}
<1> DEFINE Held ==
       quarantined => /\ quarantined'
                      /\ mode' = "running" => mode = "running"
                      /\ \A s \in Sessions : session'[s] = "open" => session[s] = "open"
                      /\ \A c \in Commands : control[c].step = "none" => control'[c].step = "none"
<1>3. ASSUME Proved!ClientInv, Machine!Next PROVE Final
  <2>1. ASSUME NEW c \in Commands, journal[c] \in Proved!Results
        PROVE  journal'[c] \in {journal[c], "none"}
    BY <1>3, <2>1, SameClient, ClientConstants, Proved!ResultStays DEF Proved!ResultStays
  <2> QED BY <2>1 DEF Machine!Results, Proved!Results
<1>4. ASSUME Proved!ClientInv, Machine!Next PROVE Held
  BY <1>4, SameClient, ClientConstants, Proved!QuarantineStep DEF Proved!QuarantineStep
<1>5. Proved!ClientInv /\ [Machine!Next]_(Machine!vars) =>
         [Final]_(Machine!vars) /\ [Held]_(Machine!vars)
  BY <1>3, <1>4
<1> QED
  BY <1>1, <1>2, <1>5, ClientInvHere, ControlStepsAreClientSteps, PTL
  DEF Machine!RunsOnce, Machine!ResultIsFinal, Machine!QuarantineHolds

-----------------------------------------------------------------------------
(* What the proofs of SessionStore show of the Server holds of it here *)

ProvedStore == INSTANCE SessionStoreRefinement WITH Admins <- {}

\* Two instances of SessionStore with the same constants have the same steps;
\* every definition either stands on is expanded.
LEMMA SameStore ==
    /\ Store!Next => ProvedStore!Next
    /\ UNCHANGED Store!vars => UNCHANGED ProvedStore!vars
<1>1. Store!Next => ProvedStore!Next
  BY Zenon DEF
     Store!Next, Store!RequestStep, Store!decideSession, Store!finishSession, Store!Report,
     Store!CreateStep, Store!requestCommandCancellation, Store!ReportCommand, Store!AdminStep,
     Store!RevokeMachine, Store!setMachineOffline, Store!putMachineAuthority,
     Store!expireSessions, Store!Tick, Store!BeginRequest, Store!sessionByIdempotency,
     Store!ReadMachineAuthority, Store!CountSessions, Store!createSession, Store!DeliverOpen,
     Store!ApproveSession, Store!DenySession, Store!DecideTooLate, Store!CompleteSession,
     Store!CancelSession, Store!markSessionOpened, Store!markSessionFailed,
     Store!markSessionClosed, Store!commandByIdempotency, Store!ReadSession,
     Store!DecideCommand, Store!CountCommands, Store!createCommand, Store!DeliverStart,
     Store!ActiveCommandStatuses, Store!otherColumnsUnchanged, Store!authorityUnchanged,
     Store!callsUnchanged, Store!markCommandStarted, Store!ResultStatuses,
     Store!markCommandCompleted, Store!Roles, Store!BeginRoleChange, Store!BeginDelete,
     Store!UpdateAgentRole, Store!RevokeAgentSessions, Store!deleteOrganizationAgent,
     Store!RevokeAll, Store!MachineOf, Store!sessionVars, Store!Expired,
     Store!CancelCommandsOf, Store!AgentOf, Store!RequestUnchanged, Store!SessionsWithKey,
     Store!AnswerFrom, Store!Deny, Store!countActiveSessions, Store!HasSession,
     Store!TerminalSessionStatuses, Store!ActiveCommandsOf, Store!reportUnchanged,
     Store!SessionOf, Store!CommandsWithKey, Store!AnswerCommandFrom, Store!CreateUnchanged,
     Store!DenyCommand, Store!commandDecision, Store!countActiveCommands, Store!callVars,
     Store!AdminUnchanged, Store!ActiveSessionStatuses, Store!Answer, Store!NoRow,
     Store!HasCommand, Store!AnswerCommand, Store!Cardinality,
     ProvedStore!Next, ProvedStore!RequestStep, ProvedStore!decideSession,
     ProvedStore!finishSession, ProvedStore!Report, ProvedStore!CreateStep,
     ProvedStore!requestCommandCancellation, ProvedStore!ReportCommand, ProvedStore!AdminStep,
     ProvedStore!RevokeMachine, ProvedStore!setMachineOffline, ProvedStore!putMachineAuthority,
     ProvedStore!expireSessions, ProvedStore!Tick, ProvedStore!BeginRequest,
     ProvedStore!sessionByIdempotency, ProvedStore!ReadMachineAuthority,
     ProvedStore!CountSessions, ProvedStore!createSession, ProvedStore!DeliverOpen,
     ProvedStore!ApproveSession, ProvedStore!DenySession, ProvedStore!DecideTooLate,
     ProvedStore!CompleteSession, ProvedStore!CancelSession, ProvedStore!markSessionOpened,
     ProvedStore!markSessionFailed, ProvedStore!markSessionClosed,
     ProvedStore!commandByIdempotency, ProvedStore!ReadSession, ProvedStore!DecideCommand,
     ProvedStore!CountCommands, ProvedStore!createCommand, ProvedStore!DeliverStart,
     ProvedStore!ActiveCommandStatuses, ProvedStore!otherColumnsUnchanged,
     ProvedStore!authorityUnchanged, ProvedStore!callsUnchanged,
     ProvedStore!markCommandStarted, ProvedStore!ResultStatuses,
     ProvedStore!markCommandCompleted, ProvedStore!Roles, ProvedStore!BeginRoleChange,
     ProvedStore!BeginDelete, ProvedStore!UpdateAgentRole, ProvedStore!RevokeAgentSessions,
     ProvedStore!deleteOrganizationAgent, ProvedStore!RevokeAll, ProvedStore!MachineOf,
     ProvedStore!sessionVars, ProvedStore!Expired, ProvedStore!CancelCommandsOf,
     ProvedStore!AgentOf, ProvedStore!RequestUnchanged, ProvedStore!SessionsWithKey,
     ProvedStore!AnswerFrom, ProvedStore!Deny, ProvedStore!countActiveSessions,
     ProvedStore!HasSession, ProvedStore!TerminalSessionStatuses, ProvedStore!ActiveCommandsOf,
     ProvedStore!reportUnchanged, ProvedStore!SessionOf, ProvedStore!CommandsWithKey,
     ProvedStore!AnswerCommandFrom, ProvedStore!CreateUnchanged, ProvedStore!DenyCommand,
     ProvedStore!commandDecision, ProvedStore!countActiveCommands, ProvedStore!callVars,
     ProvedStore!AdminUnchanged, ProvedStore!ActiveSessionStatuses, ProvedStore!Answer,
     ProvedStore!NoRow, ProvedStore!HasCommand, ProvedStore!AnswerCommand,
     ProvedStore!Cardinality
<1>2. UNCHANGED Store!vars => UNCHANGED ProvedStore!vars
  BY DEF
     Store!vars, Store!sessionVars, Store!callVars,
     ProvedStore!vars, ProvedStore!sessionVars, ProvedStore!callVars
<1> QED BY <1>1, <1>2

\* The Server's invariant holds of Sessions just created.
LEMMA CreatedSessionsInit == Init => ProvedStore!RefinementInv
<1> SUFFICES ASSUME Init PROVE ProvedStore!RefinementInv OBVIOUS
<1> USE DEF Store!NewCreate, ProvedStore!NewCreate, ProvedStore!NoRow, ProvedStore!HasSession,
    ProvedStore!HasCommand
<1>1. PICK policy \in Policies :
         /\ \A s \in Sessions : Request[s].duration <= policy.maxDuration
         /\ machineAuthority = [m \in Machines |-> [online |-> TRUE, policy |-> policy]]
         /\ maxConcurrentCommands = [s \in Sessions |-> policy.maxCommands]
         /\ request = [s \in Sessions |-> [step |-> "deliver", operator |-> TRUE,
                                           policy |-> policy, stamp |-> 0, answer |-> s]]
  BY DEF Init
<1>2. policy.maxCommands \in Nat BY StoreType DEF Store!LocalPolicy
<1>3. ProvedStore!TypeOK
  BY <1>1, <1>2, RequestType
  DEF Init, ProvedStore!TypeOK, ProvedStore!Roles, ProvedStore!MachineAuthority,
      ProvedStore!SessionStatuses, ProvedStore!ActiveSessionStatuses, ProvedStore!RequestCall,
      ProvedStore!RequestSteps, ProvedStore!CreateCall, ProvedStore!CreateSteps
<1>4. ProvedStore!RowsInv
  BY <1>1, RequestType DEF Init, ProvedStore!RowsInv, ProvedStore!RowInv
<1>5. ProvedStore!AdminInv BY DEF ProvedStore!AdminInv
<1>6. ProvedStore!MandateInv
  BY <1>1 DEF Init, ProvedStore!MandateInv, ProvedStore!AuthorityIsMandated, ProvedStore!Mandate
<1>7. ProvedStore!DeadlinesInv /\ ProvedStore!CallsMandated
  BY DEF Init, ProvedStore!DeadlinesInv, ProvedStore!DeadlineInv, ProvedStore!CallsMandated
<1> QED BY <1>3, <1>4, <1>5, <1>6, <1>7 DEF ProvedStore!RefinementInv, ProvedStore!TypeInv

\* The assumptions of SessionStore on its constants.
LEMMA StoreConstants ==
    /\ Request \in [Sessions -> [agent : Agents, machine : Machines, key : Keys,
                                 duration : Nat \ {0}]]
    /\ Order \in [Commands -> [session : Sessions, key : Keys, timeout : Nat \ {0}]]
    /\ Policies \subseteq ProvedStore!LocalPolicy
    /\ MaxClock \in Nat
    /\ None \notin Sessions \cup Commands \cup Policies \cup Machines \cup Agents
BY RequestType, OrderType, StoreType DEF Store!LocalPolicy, ProvedStore!LocalPolicy

\* The Server keeps its invariant, with the real Client's reports as with any.
LEMMA StoreInvHere == Spec => []ProvedStore!RefinementInv
<1>1. ProvedStore!RefinementInv /\ [Store!Next]_(Store!vars) => ProvedStore!RefinementInv'
  BY StoreConstants, SameStore, ProvedStore!RefinementInvStep DEF ProvedStore!RefinementInvStep
<1> QED BY <1>1, CreatedSessionsInit, ControlStepsAreStoreSteps, PTL DEF Spec

\* What the Server promises by itself, it keeps in the system: no Session holds
\* authority without a mandate or for longer than was asked for, and a Command
\* is accepted against its Session's real deadline, whatever the Client reports,
\* and however late.
\* (requestSession, commandDecision, expireSessions)
THEOREM ControlServerPromises ==
    Spec => [](Store!AuthorityIsMandated /\ Store!AuthorityWindow /\ Store!DeadlineReadIsCurrent)
<1>1. ProvedStore!RefinementInv => Store!AuthorityIsMandated
  BY DEF ProvedStore!RefinementInv, ProvedStore!MandateInv, ProvedStore!AuthorityIsMandated,
     ProvedStore!Mandate, ProvedStore!HasSession, ProvedStore!NoRow, Store!AuthorityIsMandated,
     Store!Mandate, Store!HasSession, Store!NoRow
<1>2. ProvedStore!RefinementInv => Store!AuthorityWindow
  BY DEF ProvedStore!RefinementInv, ProvedStore!TypeInv, ProvedStore!RowsInv, ProvedStore!RowInv,
     ProvedStore!HasSession, ProvedStore!NoRow, Store!AuthorityWindow, Store!HasSession, Store!NoRow
<1>3. ProvedStore!RefinementInv => Store!DeadlineReadIsCurrent
  BY DEF ProvedStore!RefinementInv, ProvedStore!DeadlinesInv, ProvedStore!DeadlineInv,
     ProvedStore!HasCommand, ProvedStore!NoRow, ProvedStore!SessionOf, Store!DeadlineReadIsCurrent,
     Store!HasCommand, Store!NoRow, Store!SessionOf
<1> QED BY <1>1, <1>2, <1>3, StoreInvHere, PTL

\* Temporary authority seen from above, the real Client and the wire behind it.
Authority == INSTANCE SessionLifecycle WITH
    phase <- [s \in Sessions |-> Store!PhaseOf(sessionStatus[s])],
    mandate <- Store!Mandate,
    work <- [c \in Commands |-> Store!WorkOf(commandStatus[c])]

\* Both views of the Server's state are the same.
LEMMA SameLifecycle ==
    /\ ProvedStore!Lifecycle!Next => Authority!Next
    /\ UNCHANGED ProvedStore!Lifecycle!vars => UNCHANGED Authority!vars
<1>1. ProvedStore!Lifecycle!Next => Authority!Next
  BY Zenon DEF
     Authority!Next, Authority!vars, Authority!Phases, Authority!Propose, Authority!Grant,
     Authority!Refuse, Authority!Withdraw, Authority!Complete, Authority!MachineEnds,
     Authority!Accept, Authority!Stop, Authority!EndWork, ProvedStore!Lifecycle!Next,
     ProvedStore!Lifecycle!vars, ProvedStore!Lifecycle!Phases, ProvedStore!Lifecycle!Propose,
     ProvedStore!Lifecycle!Grant, ProvedStore!Lifecycle!Refuse, ProvedStore!Lifecycle!Withdraw,
     ProvedStore!Lifecycle!Complete, ProvedStore!Lifecycle!MachineEnds,
     ProvedStore!Lifecycle!Accept, ProvedStore!Lifecycle!Stop, ProvedStore!Lifecycle!EndWork,
     Store!PhaseOf, Store!WorkOf, Store!Mandate, Store!HasSession, Store!NoRow,
     ProvedStore!PhaseOf, ProvedStore!WorkOf, ProvedStore!Mandate, ProvedStore!HasSession,
     ProvedStore!NoRow, ProvedStore!SessionOf, SessionOf
<1>2. UNCHANGED ProvedStore!Lifecycle!vars => UNCHANGED Authority!vars
  BY Zenon DEF
     Authority!vars, ProvedStore!Lifecycle!vars, Store!PhaseOf, Store!WorkOf, Store!Mandate,
     Store!HasSession, Store!NoRow, ProvedStore!PhaseOf, ProvedStore!WorkOf,
     ProvedStore!Mandate, ProvedStore!HasSession, ProvedStore!NoRow
<1> QED BY <1>1, <1>2

\* Every step of the system is one that the abstract specification of temporary
\* authority allows: no phase is left backwards, nothing is granted without a
\* mandate, and what withdraws a grant stops its work in the same step.
\* (SessionService, SessionDatabase)
THEOREM ControlFollowsLifecycle == Spec => [][Authority!Next]_(Authority!vars)
<1>1. ProvedStore!RefinementInv /\ [Store!Next]_(Store!vars)
         => [ProvedStore!Lifecycle!Next]_(ProvedStore!Lifecycle!vars)
  BY StoreConstants, SameStore, ProvedStore!StepSeen DEF ProvedStore!StepSeen
<1>2. [ProvedStore!Lifecycle!Next]_(ProvedStore!Lifecycle!vars) => [Authority!Next]_(Authority!vars)
  BY SameLifecycle
<1> QED BY <1>1, <1>2, StoreInvHere, ControlStepsAreStoreSteps, PTL

-----------------------------------------------------------------------------
(* When nothing is on its way *)

Sent(m) == In(m, toMachine)
Told(m) == In(m, out)
ToSend(m) == \E batch \in sending : In(m, batch)

\* The connection there is will be replaced, and everything reconciled.
Broken == ~linkUp \/ mode # "running" \/ conn = "closing"

Granted == {"opening", "active"}
InForce(s) == sessionStatus[s] \in Granted

\* The reconciliation under way covers the Session, or its session.open is sent.
Covered(s) == reconnect = "sessions" \/ (reconnect = "commands" /\ snapshot[s] \in Granted)
Awaited(s) == Covered(s) \/ Sent(Open(s))

Answers(s) ==
    {Machine!Opened(s), Machine!OpenFailed(s)}
    \cup {Machine!Closed(s, r) : r \in {"expired", "closed", "none", "already_closed"}}
Closings(s) == {Close(s, r) : r \in {"expired", "closed"}}
Closeds(s) == {Machine!Closed(s, r) : r \in {"expired", "closed", "none", "already_closed"}}
Completions(c) == {Machine!Completed(c, r) : r \in Machine!Results}

ShapesInv ==
    /\ sessionStatus \in [Sessions -> Store!SessionStatuses \cup {"none"}]
    /\ snapshot \in [Sessions -> Store!SessionStatuses \cup {"none"}]
    /\ session \in [Sessions -> {"none", "open", "closing"}]
    /\ request \in [Sessions -> Store!RequestCall]
    /\ conn \in {"down", "authenticated", "closing"}
    /\ closedSessions \in Seq(Sessions)

\* A new connection begins with its authentication.
ConnInv == ~Broken /\ conn = "down" => toMachine # <<>> /\ Head(toMachine) = Authentication

\* An opening Session is about to be asked for, or answered.
OpeningInv == \A s \in Sessions : sessionStatus[s] = "opening" =>
    \/ Broken \/ Awaited(s) \/ request[s].step = "deliver"
    \/ \E m \in Answers(s) : Told(m)

\* A Session told to end is about to be closed, or being closed, or reported.
EndingInv == \A s \in Sessions : sessionStatus[s] = "cancellation_requested" =>
    \/ Broken \/ reconnect = "sessions"
    \/ reconnect = "commands" /\ snapshot[s] = "cancellation_requested"
    \/ \E m \in Closings(s) : Sent(m) \/ ToSend(m)
    \/ conn = "authenticated" /\ (closing[s] # Machine!NotClosing \/ \E m \in Closeds(s) : Told(m))

\* The Server never admitted more Sessions than the Local Policy has room for.
RoomForAll == Cardinality(Sessions) <= SessionLimit

\* An active Session is open at the Client or about to be asked for again.
OpenInv == \A s \in Sessions : InForce(s) /\ ~Broken =>
    /\ conn = "down" => Awaited(s)
    /\ RoomForAll /\ s \notin lapsed /\ (sessionStatus[s] = "active" \/ Told(Machine!Opened(s))) =>
          Awaited(s) \/ session[s] = "open"

\* Nothing closes a Session that is in force but its deadline.
Ended(s) == ~InForce(s) \/ s \in lapsed
ClosingInv == \A s \in Sessions :
    /\ closing[s] # Machine!NotClosing \/ Machine!WasClosed(s) \/ session[s] = "closing" => Ended(s)
    /\ closing[s] # Machine!NotClosing /\ ~closing[s].timer => handler = <<"close", s>>
    /\ snapshot[s] = "cancellation_requested" => ~InForce(s)
    /\ (\E m \in Closings(s) : Sent(m) \/ ToSend(m)) => ~InForce(s)

\* A Command the Server waits for is about to be asked for, live or reported.
WorkInv == \A c \in Commands :
    commandStatus[c] \in Store!ActiveCommandStatuses /\ InForce(Store!SessionOf[c]) =>
    \/ Broken \/ Covered(Store!SessionOf[c]) \/ create[c].step = "deliver"
    \/ Sent(Start(c)) \/ Sent(Stop(c))
    \/ conn = "authenticated" /\ (control[c].step # "none" \/ \E m \in Completions(c) : Told(m))

\* An unfinished entry of the journal is of a live Command.
UnderWayInv == mode = "running" =>
    \A c \in Commands : journal[c] \in {"received", "running"} => control[c].step # "none"

QuietInv ==
    /\ ShapesInv /\ ConnInv /\ OpeningInv /\ EndingInv /\ OpenInv /\ ClosingInv
    /\ WorkInv /\ UnderWayInv

-----------------------------------------------------------------------------
(* The invariant holds at first *)

\* Nothing is on its way when it all begins: every Session is about to be
\* asked for.
LEMMA QuietInit == Init => QuietInv
<1> SUFFICES ASSUME Init PROVE QuietInv OBVIOUS
<1>1. /\ sessionStatus = [s \in Sessions |-> "opening"] /\ snapshot = [s \in Sessions |-> "none"]
      /\ session = [s \in Sessions |-> "none"] /\ conn = "authenticated"
      /\ closedSessions = <<>> /\ closing = [s \in Sessions |-> Machine!NotClosing]
      /\ commandStatus = [c \in Commands |-> "none"] /\ journal = [c \in Commands |-> "none"]
      /\ toMachine = <<>> /\ sending = {} /\ out = <<>>
  BY DEF Init
<1>2. PICK policy \in Policies :
         request = [s \in Sessions |-> [step |-> "deliver", operator |-> TRUE,
                                        policy |-> policy, stamp |-> 0, answer |-> s]]
  BY DEF Init
<1>3. /\ request \in [Sessions -> Store!RequestCall]
      /\ \A s \in Sessions : request[s].step = "deliver"
  BY <1>2 DEF Store!RequestCall, Store!RequestSteps
<1>4. \A m : ~Sent(m) /\ ~Told(m) /\ ~ToSend(m) BY <1>1 DEF Sent, Told, ToSend, In
<1>5. ShapesInv
  BY <1>1, <1>3, EmptySeq
  DEF ShapesInv, Store!SessionStatuses, Store!ActiveSessionStatuses
<1>6. ConnInv BY <1>1 DEF ConnInv
<1>7. OpeningInv BY <1>3 DEF OpeningInv
<1>8. EndingInv BY <1>1 DEF EndingInv
<1>9. OpenInv BY <1>1, <1>4 DEF OpenInv
<1>10. ClosingInv BY <1>1, <1>4 DEF ClosingInv, Machine!WasClosed
<1>11. WorkInv BY <1>1 DEF WorkInv, Store!ActiveCommandStatuses
<1>12. UnderWayInv BY <1>1 DEF UnderWayInv
<1> QED BY <1>5, <1>6, <1>7, <1>8, <1>9, <1>10, <1>11, <1>12 DEF QuietInv

-----------------------------------------------------------------------------
(* The Server's operations leave what is awaited awaited *)

\* What an operation may do: messages are only added, or go from a batch to
\* the wire; a Session is only withdrawn, with a session.close to send; a call
\* under way sends its message, unless there is no connection.
ServerMoves ==
    /\ UNCHANGED <<linkUp, reconnect, snapshot, mode, conn, handler, session, lapsed, closing,
                   closedSessions, control, journal, out>>
    /\ sessionStatus' \in [Sessions -> Store!SessionStatuses \cup {"none"}]
    /\ request' \in [Sessions -> Store!RequestCall]
    /\ \A m : Sent(m) => Sent(m)'
    /\ toMachine # <<>> => toMachine' # <<>> /\ Head(toMachine') = Head(toMachine)
    /\ \A m : ToSend(m) => ToSend(m)' \/ Sent(m)' \/ ~linkUp
    /\ \A s \in Sessions :
          /\ InForce(s)' => sessionStatus'[s] = sessionStatus[s]
          /\ sessionStatus'[s] = "cancellation_requested" =>
                \/ sessionStatus[s] = "cancellation_requested"
                \/ \E m \in Closings(s) : ToSend(m)'
          /\ request[s].step = "deliver" =>
                request'[s].step = "deliver" \/ Sent(Open(s))' \/ ~linkUp
          /\ \A m \in Closings(s) :
                Sent(m)' \/ ToSend(m)' => Sent(m) \/ ToSend(m) \/ ~InForce(s)'
    /\ \A c \in Commands :
          /\ commandStatus'[c] \in Store!ActiveCommandStatuses =>
                commandStatus[c] \in Store!ActiveCommandStatuses \/ create'[c].step = "deliver"
          /\ create[c].step = "deliver" =>
                create'[c].step = "deliver" \/ Sent(Start(c))' \/ ~linkUp

\* Such an operation keeps the invariant.
LEMMA ServerMovesKeep ==
    ASSUME QuietInv, ServerMoves
    PROVE  QuietInv'
<1> USE DEF QuietInv
<1>0. /\ UNCHANGED <<linkUp, reconnect, snapshot, mode, conn, handler, session, lapsed, closing,
                     closedSessions, control, journal, out>>
      /\ \A m : Sent(m) => Sent(m)'
      /\ \A m : ToSend(m) => ToSend(m)' \/ Sent(m)' \/ ~linkUp
      /\ \A m : Told(m)' <=> Told(m)
  BY DEF ServerMoves, Told
<1>1. \A s \in Sessions :
         /\ InForce(s)' => sessionStatus'[s] = sessionStatus[s] /\ InForce(s)
         /\ sessionStatus'[s] = "cancellation_requested" =>
               \/ sessionStatus[s] = "cancellation_requested"
               \/ \E m \in Closings(s) : ToSend(m)'
         /\ request[s].step = "deliver" =>
               request'[s].step = "deliver" \/ Sent(Open(s))' \/ ~linkUp
         /\ \A m \in Closings(s) :
               Sent(m)' \/ ToSend(m)' => Sent(m) \/ ToSend(m) \/ ~InForce(s)'
  BY DEF ServerMoves, InForce
<1>2. (Broken <=> Broken') /\ (~linkUp => Broken) /\ (~linkUp => Broken') BY <1>0 DEF Broken
<1>3. \A s : (Covered(s) <=> Covered(s)') /\ (Awaited(s) => Awaited(s)')
  BY <1>0 DEF Covered, Awaited
<1>4. /\ \A s : Answers(s)' = Answers(s) /\ Closings(s)' = Closings(s) /\ Closeds(s)' = Closeds(s)
      /\ \A c : Completions(c)' = Completions(c)
  BY DEF Answers, Closings, Closeds, Completions
<1>5. ShapesInv' BY <1>0 DEF ShapesInv, ServerMoves
<1>6. ConnInv' BY <1>0, <1>2 DEF ConnInv, ServerMoves
<1>7. OpeningInv'
  BY <1>0, <1>1, <1>2, <1>3, <1>4 DEF OpeningInv, Awaited, InForce, Granted
<1>8. EndingInv'
  BY <1>0, <1>1, <1>2, <1>3, <1>4 DEF EndingInv
<1>9. OpenInv' BY <1>0, <1>1, <1>2, <1>3, <1>4 DEF OpenInv, RoomForAll
<1>10. \A s : Ended(s) /\ s \in Sessions => Ended(s)' BY <1>0, <1>1 DEF Ended
<1>11. ClosingInv' BY <1>0, <1>1, <1>4, <1>10 DEF ClosingInv, Machine!WasClosed
<1>12. WorkInv'
  <2> SUFFICES ASSUME NEW c \in Commands,
                      commandStatus'[c] \in Store!ActiveCommandStatuses, InForce(Store!SessionOf[c])'
               PROVE  \/ Broken' \/ Covered(Store!SessionOf[c])' \/ create'[c].step = "deliver"
                      \/ Sent(Start(c))' \/ Sent(Stop(c))'
                      \/ conn' = "authenticated"
                         /\ (control'[c].step # "none" \/ \E m \in Completions(c) : Told(m)')
    BY <1>4 DEF WorkInv
  <2>1. Store!SessionOf[c] \in Sessions BY OrderType DEF Store!SessionOf
  <2>2. InForce(Store!SessionOf[c]) BY <1>1, <2>1
  <2>3. CASE create'[c].step = "deliver" BY <2>3
  <2>4. CASE commandStatus[c] \in Store!ActiveCommandStatuses
    <3>1. create[c].step = "deliver" =>
             create'[c].step = "deliver" \/ Sent(Start(c))' \/ Broken'
      BY <1>2 DEF ServerMoves
    <3> QED BY <1>0, <1>2, <1>3, <2>2, <2>4, <3>1 DEF WorkInv
  <2> QED BY <2>3, <2>4 DEF ServerMoves
<1>13. UnderWayInv' BY <1>0 DEF UnderWayInv
<1> QED BY <1>5, <1>6, <1>7, <1>8, <1>9, <1>11, <1>12, <1>13

\* What gateway.send adds to the wire.
LEMMA TransmitHolds ==
    ASSUME WireInv, NEW message, Transmit(message)
    PROVE  /\ \A m : Sent(m)' <=> Sent(m) \/ (linkUp /\ m = message)
           /\ toMachine # <<>> => toMachine' # <<>> /\ Head(toMachine') = Head(toMachine)
<1> DEFINE A == Downward \cup {message}
<1>1. toMachine \in Seq(A)
  <2>1. toMachine \in Seq(Downward) /\ Downward \subseteq A BY DEF WireInv
  <2> HIDE DEF A
  <2> QED BY <2>1, SeqGrows
<1>2. message \in A OBVIOUS
<1> HIDE DEF A
<1>3. \A m : In(m, Append(toMachine, message)) <=> In(m, toMachine) \/ m = message
  BY <1>1, <1>2, QueueHolds
<1>4. /\ Append(toMachine, message) # <<>>
      /\ toMachine # <<>> => Head(Append(toMachine, message)) = Head(toMachine)
  <2>1. /\ Len(toMachine) \in Nat /\ Len(Append(toMachine, message)) = Len(toMachine) + 1
        /\ \A i \in 1..Len(toMachine) : Append(toMachine, message)[i] = toMachine[i]
        /\ Append(toMachine, message) \in Seq(A)
    BY <1>1, <1>2, AppendProperties, LenProperties
  <2>2. Append(toMachine, message) # <<>> BY <2>1, EmptySeq
  <2>3. ASSUME toMachine # <<>> PROVE Head(Append(toMachine, message)) = Head(toMachine)
    <3>1. Head(toMachine) = toMachine[1] /\ Len(toMachine) # 0
      BY <1>1, <2>3, HeadTailProperties, EmptySeq
    <3>2. Head(Append(toMachine, message)) = Append(toMachine, message)[1]
      BY <2>1, <2>2, HeadTailProperties
    <3> QED BY <2>1, <3>1, <3>2
  <2> QED BY <2>2, <2>3
<1> QED BY <1>3, <1>4 DEF Transmit, Sent

\* A message that closes a Session is of that Session alone.
LEMMA ClosingsDiffer ==
    ASSUME NEW s, NEW m \in Closings(s)
    PROVE  /\ m.type = "session.close" /\ m.id = s
           /\ \A t : m # Open(t) /\ m # Stop(t) /\ m # Start(t) /\ m # Acknowledge(t)
           /\ m # Authentication
BY DEF Closings, Close, Open, Stop, Start, Acknowledge, Authentication

\* What the batch of a withdrawal holds.
LEMMA StopsAndCloseHolds ==
    ASSUME RowsInv, NEW s \in Sessions, NEW reason \in {"expired", "closed"}
    PROVE  /\ In(Close(s, reason), StopsAndClose(s, reason))
           /\ \A t \in Sessions : \A m \in Closings(t) : In(m, StopsAndClose(s, reason)) => t = s
<1> DEFINE S == Store!ActiveCommandsOf(s)
           n == Cardinality(S)
           order == Machine!Listing(S)
           stops == [i \in 1..n |-> Stop(order[i])]
           A == {Stop(c) : c \in S} \cup {Close(s, reason)}
<1>1. S \subseteq Known
  BY DEF Store!ActiveCommandsOf, Store!ActiveCommandStatuses, Known
<1>2. IsFiniteSet(S) BY <1>1, FS_Subset DEF RowsInv
<1>3. n \in Nat /\ order \in [1..n -> S] BY <1>2, ListingLists
<1>4. StopsAndClose(s, reason) = Append(stops, Close(s, reason)) BY <1>3 DEF StopsAndClose
<1>5. Close(s, reason) \in A OBVIOUS
<1> HIDE DEF order, n
<1>6. stops \in [1..n -> A] BY <1>3
<1>7. Len(stops) = n /\ stops \in Seq(A) BY <1>3, <1>6, SeqDef
<1>8. ASSUME NEW t \in Sessions, NEW m \in Closings(t), In(m, stops) PROVE FALSE
  <2>1. PICK i \in 1..n : stops[i] = m BY <1>7, <1>8 DEF In
  <2>2. m = Stop(order[i]) BY <2>1
  <2> QED BY <2>2, ClosingsDiffer
<1> HIDE DEF A, stops
<1>9. \A m : In(m, Append(stops, Close(s, reason))) <=> In(m, stops) \/ m = Close(s, reason)
  BY <1>5, <1>7, QueueHolds
<1>10. ASSUME NEW t \in Sessions, NEW m \in Closings(t), m = Close(s, reason) PROVE t = s
  BY <1>10, ClosingsDiffer DEF Close
<1> QED BY <1>4, <1>8, <1>9, <1>10

\* An operation that adds batches to those to send.
LEMMA AddsBatches ==
    ASSUME QuietInv, serverOnly, UNCHANGED <<create, request>>, sending \subseteq sending',
           sessionStatus' \in [Sessions -> Store!SessionStatuses \cup {"none"}],
           \A s \in Sessions :
              /\ InForce(s)' => sessionStatus'[s] = sessionStatus[s]
              /\ sessionStatus'[s] = "cancellation_requested" =>
                    \/ sessionStatus[s] = "cancellation_requested"
                    \/ \E m \in Closings(s), batch \in sending' : In(m, batch)
              /\ \A m \in Closings(s), batch \in sending' \ sending :
                    In(m, batch) => ~InForce(s)',
           \A c \in Commands :
              commandStatus'[c] \in Store!ActiveCommandStatuses =>
                 commandStatus[c] \in Store!ActiveCommandStatuses
    PROVE  ServerMoves
<1>1. UNCHANGED <<linkUp, reconnect, snapshot, mode, conn, handler, session, lapsed, closing,
                  closedSessions, control, journal, out, toMachine>>
  BY DEF serverOnly, clientVars, memoryVars
<1>2. \A m : Sent(m)' <=> Sent(m) BY <1>1 DEF Sent
<1>3. \A m : ToSend(m)' <=> \E batch \in sending' : In(m, batch) BY DEF ToSend
<1>4. \A m : ToSend(m) => ToSend(m)' BY <1>3 DEF ToSend
<1>5. ASSUME NEW s \in Sessions, NEW m \in Closings(s), Sent(m)' \/ ToSend(m)'
      PROVE  Sent(m) \/ ToSend(m) \/ ~InForce(s)'
  BY <1>2, <1>3, <1>5 DEF ToSend
<1>6. request' \in [Sessions -> Store!RequestCall] BY DEF QuietInv, ShapesInv
<1>7. toMachine # <<>> => toMachine' # <<>> /\ Head(toMachine') = Head(toMachine) BY <1>1
<1>8. \A s \in Sessions :
         sessionStatus'[s] = "cancellation_requested" =>
            \/ sessionStatus[s] = "cancellation_requested"
            \/ \E m \in Closings(s) : ToSend(m)'
  BY <1>3
<1> QED BY <1>1, <1>2, <1>4, <1>5, <1>6, <1>7, <1>8 DEF ServerMoves

\* The Agent's and the Human's further calls, the sweep and the clock.
LEMMA OperationsKeepWatch ==
    ASSUME ControlInv, QuietInv,
           \/ \E s \in Sessions : \/ SuperviseAgain(s) \/ CompleteSession(s)
                                  \/ CancelSession(s) \/ FinishAgain(s)
           \/ \E c \in Commands : CancelCommand(c)
           \/ Sweep \/ Tick
    PROVE  ServerMoves
<1>0. RowsInv /\ sessionStatus \in [Sessions -> Store!SessionStatuses \cup {"none"}]
  BY DEF ControlInv, QuietInv, ShapesInv
<1> USE DEF Store!otherColumnsUnchanged, Store!callsUnchanged, Store!callVars
<1>2. \A x, m : In(m, <<x>>) <=> m = x BY DEF In
<1>3. {"completed", "cancellation_requested"} \subseteq Store!SessionStatuses
  BY DEF Store!SessionStatuses, Store!TerminalSessionStatuses
<1>4. \A S : \A c \in Commands :
         Store!CancelCommandsOf(S)[c] \in Store!ActiveCommandStatuses =>
            commandStatus[c] \in Store!ActiveCommandStatuses
  BY DEF Store!CancelCommandsOf
<1>5. ASSUME NEW s \in Sessions, SuperviseAgain(s) PROVE ServerMoves
  <2>1. /\ serverOnly /\ UNCHANGED <<create, request, sessionStatus, commandStatus>>
        /\ sending' = sending \cup {<<Open(s)>>}
    BY <1>5 DEF SuperviseAgain, WillSend, storeVars
  <2>2. \A t \in Sessions : \A m \in Closings(t) : ~In(m, <<Open(s)>>) BY <1>2, ClosingsDiffer
  <2>3. \A t \in Sessions : \A m \in Closings(t) : \A batch \in sending' \ sending : ~In(m, batch)
    BY <2>1, <2>2
  <2>4. \A t \in Sessions : InForce(t)' => sessionStatus'[t] = sessionStatus[t] BY <2>1
  <2> QED BY <1>0, <2>1, <2>3, <2>4, AddsBatches
<1>6. ASSUME NEW s \in Sessions, CompleteSession(s) PROVE ServerMoves
  <2>1. /\ serverOnly /\ UNCHANGED <<create, request, commandStatus>>
        /\ sending' = sending \cup {<<Close(s, "closed")>>}
        /\ sessionStatus' = [sessionStatus EXCEPT ![s] = "completed"]
    BY <1>6 DEF CompleteSession, Store!CompleteSession, WillSend
  <2>2. /\ sessionStatus' \in [Sessions -> Store!SessionStatuses \cup {"none"}]
        /\ sessionStatus'[s] = "completed"
        /\ \A t \in Sessions \ {s} : sessionStatus'[t] = sessionStatus[t]
    BY <1>0, <1>3, <2>1
  <2>3. ~InForce(s)' BY <2>2 DEF InForce, Granted
  <2>4. \A t \in Sessions : \A m \in Closings(t) : In(m, <<Close(s, "closed")>>) => t = s
    BY <1>2, ClosingsDiffer DEF Close
  <2>5. \A t \in Sessions : \A m \in Closings(t) : \A batch \in sending' \ sending :
           In(m, batch) => ~InForce(t)'
    BY <2>1, <2>3, <2>4
  <2>6. \A t \in Sessions :
           /\ InForce(t)' => sessionStatus'[t] = sessionStatus[t]
           /\ sessionStatus'[t] = "cancellation_requested" =>
                 sessionStatus[t] = "cancellation_requested"
    BY <2>2, <2>3
  <2> QED BY <2>1, <2>2, <2>5, <2>6, AddsBatches
<1>7. ASSUME NEW s \in Sessions, CancelSession(s) PROVE ServerMoves
  <2>1. /\ serverOnly /\ UNCHANGED <<create, request>>
        /\ commandStatus' = Store!CancelCommandsOf({s})
        /\ sending' = sending \cup {StopsAndClose(s, "closed")}
        /\ sessionStatus' = [sessionStatus EXCEPT ![s] = "cancellation_requested"]
    BY <1>7 DEF CancelSession, Store!CancelSession, WillSend
  <2>2. /\ sessionStatus' \in [Sessions -> Store!SessionStatuses \cup {"none"}]
        /\ sessionStatus'[s] = "cancellation_requested"
        /\ \A t \in Sessions \ {s} : sessionStatus'[t] = sessionStatus[t]
    BY <1>0, <1>3, <2>1
  <2>3. ~InForce(s)' BY <2>2 DEF InForce, Granted
  <2>4. /\ In(Close(s, "closed"), StopsAndClose(s, "closed"))
        /\ \A t \in Sessions : \A m \in Closings(t) : In(m, StopsAndClose(s, "closed")) => t = s
    BY <1>0, StopsAndCloseHolds
  <2>5. \A t \in Sessions : \A m \in Closings(t) : \A batch \in sending' \ sending :
           In(m, batch) => ~InForce(t)'
    BY <2>1, <2>3, <2>4
  <2>6. Close(s, "closed") \in Closings(s) BY DEF Closings
  <2>7. \A t \in Sessions :
           /\ InForce(t)' => sessionStatus'[t] = sessionStatus[t]
           /\ sessionStatus'[t] = "cancellation_requested" =>
                 \/ sessionStatus[t] = "cancellation_requested"
                 \/ \E m \in Closings(t), batch \in sending' : In(m, batch)
    BY <2>1, <2>2, <2>3, <2>4, <2>6
  <2> QED BY <1>4, <2>1, <2>2, <2>5, <2>7, AddsBatches
<1>8. ASSUME NEW s \in Sessions, FinishAgain(s) PROVE ServerMoves
  <2>1. /\ serverOnly /\ UNCHANGED <<create, request, sessionStatus, commandStatus>>
        /\ sending' = sending \cup {<<Close(s, "closed")>>}
        /\ sessionStatus[s] \in Store!TerminalSessionStatuses
    BY <1>8 DEF FinishAgain, WillSend, storeVars
  <2>2. ~InForce(s)' BY <2>1 DEF InForce, Granted, Store!TerminalSessionStatuses
  <2>3. \A t \in Sessions : \A m \in Closings(t) : In(m, <<Close(s, "closed")>>) => t = s
    BY <1>2, ClosingsDiffer DEF Close
  <2>4. \A t \in Sessions : \A m \in Closings(t) : \A batch \in sending' \ sending :
           In(m, batch) => ~InForce(t)'
    BY <2>1, <2>2, <2>3
  <2> QED BY <1>0, <2>1, <2>4, AddsBatches
<1>9. ASSUME NEW c \in Commands, CancelCommand(c) PROVE ServerMoves
  <2>1. /\ serverOnly /\ UNCHANGED <<create, request, sessionStatus>>
        /\ sending' = sending \cup {<<Stop(c)>>}
    BY <1>9 DEF CancelCommand, Store!requestCommandCancellation, WillSend, storeVars
  <2>2. \A d \in Commands :
           commandStatus'[d] \in Store!ActiveCommandStatuses =>
              commandStatus[d] \in Store!ActiveCommandStatuses
    BY <1>0, <1>9 DEF CancelCommand, Store!requestCommandCancellation, storeVars, RowsInv
  <2>3. \A t \in Sessions : \A m \in Closings(t) : ~In(m, <<Stop(c)>>) BY <1>2, ClosingsDiffer
  <2>4. \A t \in Sessions : \A m \in Closings(t) : \A batch \in sending' \ sending : ~In(m, batch)
    BY <2>1, <2>3
  <2> QED BY <1>0, <2>1, <2>2, <2>4, AddsBatches
<1>10. CASE Sweep
  <2> DEFINE granted == {s \in Sessions : /\ sessionStatus[s] \in {"opening", "active"}
                                          /\ Store!Expired(s)}
  <2>1. /\ serverOnly /\ UNCHANGED <<create, request>>
        /\ commandStatus' = Store!CancelCommandsOf(granted)
        /\ sending' = sending \cup {StopsAndClose(s, "expired") : s \in granted}
    BY <1>10 DEF Sweep, Store!expireSessions
  <2>2. \A s \in Sessions :
           sessionStatus'[s] = IF s \in granted THEN "cancellation_requested"
                               ELSE IF sessionStatus[s] = "pending_approval" /\ Store!Expired(s)
                                    THEN "expired" ELSE sessionStatus[s]
    BY <1>10 DEF Sweep, Store!expireSessions
  <2>3. sessionStatus' \in [Sessions -> Store!SessionStatuses \cup {"none"}]
    <3>1. sessionStatus' = [s \in Sessions |-> sessionStatus'[s]]
      BY <1>10 DEF Sweep, Store!expireSessions
    <3>2. \A s \in Sessions : sessionStatus'[s] \in Store!SessionStatuses \cup {"none"}
      BY <1>0, <1>3, <2>2 DEF Store!SessionStatuses, Store!TerminalSessionStatuses
    <3> QED BY <3>1, <3>2
  <2>4. \A s \in granted : ~InForce(s)' BY <2>2 DEF InForce, Granted
  <2>5. \A s \in Sessions :
           /\ In(Close(s, "expired"), StopsAndClose(s, "expired"))
           /\ \A t \in Sessions : \A m \in Closings(t) : In(m, StopsAndClose(s, "expired")) => t = s
    BY <1>0, StopsAndCloseHolds
  <2>6. \A t \in Sessions : \A m \in Closings(t) : \A batch \in sending' \ sending :
           In(m, batch) => ~InForce(t)'
    BY <2>1, <2>4, <2>5
  <2>7. \A s \in Sessions : Close(s, "expired") \in Closings(s) BY DEF Closings
  <2>8. \A t \in Sessions :
           /\ InForce(t)' => sessionStatus'[t] = sessionStatus[t]
           /\ sessionStatus'[t] = "cancellation_requested" =>
                 \/ sessionStatus[t] = "cancellation_requested"
                 \/ \E m \in Closings(t), batch \in sending' : In(m, batch)
    <3>1. ASSUME NEW t \in granted
          PROVE  \E m \in Closings(t), batch \in sending' : In(m, batch)
      BY <2>1, <2>5, <2>7
    <3>2. \A t \in Sessions \ granted :
             /\ InForce(t)' => sessionStatus'[t] = sessionStatus[t]
             /\ sessionStatus'[t] = "cancellation_requested" =>
                   sessionStatus[t] = "cancellation_requested"
      BY <2>2 DEF InForce, Granted
    <3> HIDE DEF granted
    <3> QED BY <2>4, <3>1, <3>2
  <2> HIDE DEF granted
  <2> QED BY <1>4, <2>1, <2>3, <2>6, <2>8, AddsBatches
<1>11. CASE Tick
  <2>1. serverOnly /\ UNCHANGED <<create, request, sessionStatus, commandStatus, sending>>
    BY <1>11 DEF Tick, Store!Tick, Store!sessionVars
  <2> QED BY <1>0, <2>1, AddsBatches
<1> QED BY <1>5, <1>6, <1>7, <1>8, <1>9, <1>10, <1>11

\* Calls deliver what they inserted.
LEMMA CallsKeepWatch ==
    ASSUME ControlInv, QuietInv,
           \/ \E s \in Sessions : DeliverOpen(s)
           \/ \E c \in Commands : CreateStep(c) \/ DeliverStart(c)
    PROVE  ServerMoves
<1>0. /\ WireInv
      /\ sessionStatus \in [Sessions -> Store!SessionStatuses \cup {"none"}]
      /\ request \in [Sessions -> Store!RequestCall]
      /\ create \in [Commands -> Store!CreateCall]
      /\ commandStatus \in [Commands -> Store!CommandStatuses \cup {"none"}]
  BY DEF ControlInv, RowsInv, QuietInv, ShapesInv
<1>1. /\ \A s : \A m \in Closings(s) : \A t : m # Open(t) /\ m # Start(t)
      /\ \A m : (UNCHANGED toMachine => (Sent(m)' <=> Sent(m)))
                /\ (UNCHANGED sending => (ToSend(m)' <=> ToSend(m)))
  BY ClosingsDiffer DEF Sent, ToSend
<1>2. ASSUME NEW s \in Sessions, DeliverOpen(s) PROVE ServerMoves
  <2>1. /\ UNCHANGED <<linkUp, reconnect, snapshot, mode, conn, handler, session, lapsed, closing,
                       closedSessions, control, journal, out, sending, sessionStatus,
                       commandStatus, create>>
        /\ request' = [request EXCEPT ![s].step = "done"]
        /\ Transmit(Open(s))
    BY <1>2
    DEF DeliverOpen, Store!DeliverOpen, Store!RequestUnchanged, Store!sessionVars, sendOnly,
        clientVars, memoryVars
  <2>2. /\ \A m : Sent(m)' <=> Sent(m) \/ (linkUp /\ m = Open(s))
        /\ toMachine # <<>> => toMachine' # <<>> /\ Head(toMachine') = Head(toMachine)
    BY <1>0, <2>1, TransmitHolds
  <2>3. /\ request' \in [Sessions -> Store!RequestCall]
        /\ \A t \in Sessions \ {s} : request'[t] = request[t]
    BY <1>0, <2>1 DEF Store!RequestCall, Store!RequestSteps
  <2> QED BY <1>0, <1>1, <2>1, <2>2, <2>3 DEF ServerMoves, InForce
<1>3. ASSUME NEW c \in Commands, CreateStep(c) PROVE ServerMoves
  <2>1. /\ UNCHANGED <<linkUp, reconnect, snapshot, mode, conn, handler, session, lapsed, closing,
                       closedSessions, control, journal, out, sending, toMachine, sessionStatus,
                       request>>
        /\ create[c].step # "deliver"
    BY <1>3
    DEF CreateStep, Store!commandByIdempotency, Store!ReadSession, Store!DecideCommand,
        Store!CountCommands, Store!createCommand, Store!CreateUnchanged, Store!sessionVars,
        serverOnly, clientVars, memoryVars
  <2>2. \E call : create' = [create EXCEPT ![c] = call]
    BY <1>3
    DEF CreateStep, Store!commandByIdempotency, Store!ReadSession, Store!DecideCommand,
        Store!CountCommands, Store!createCommand, Store!AnswerCommandFrom, Store!AnswerCommand,
        Store!DenyCommand
  <2>3. \/ commandStatus' = commandStatus
        \/ /\ commandStatus' = [commandStatus EXCEPT ![c] = "queued"]
           /\ create' = [create EXCEPT ![c].step = "deliver", ![c].answer = c]
    BY <1>3
    DEF CreateStep, Store!commandByIdempotency, Store!ReadSession, Store!DecideCommand,
        Store!CountCommands, Store!createCommand
  <2>4. \A d \in Commands \ {c} : create'[d] = create[d] BY <1>0, <2>2
  <2>5. \A d \in Commands :
           /\ commandStatus'[d] \in Store!ActiveCommandStatuses =>
                 commandStatus[d] \in Store!ActiveCommandStatuses \/ create'[d].step = "deliver"
           /\ create[d].step = "deliver" => create'[d].step = "deliver"
    BY <1>0, <2>1, <2>3, <2>4 DEF Store!CreateCall
  <2> QED BY <1>0, <1>1, <2>1, <2>5 DEF ServerMoves, InForce
<1>4. ASSUME NEW c \in Commands, DeliverStart(c) PROVE ServerMoves
  <2>1. /\ UNCHANGED <<linkUp, reconnect, snapshot, mode, conn, handler, session, lapsed, closing,
                       closedSessions, control, journal, out, sending, sessionStatus,
                       commandStatus, request>>
        /\ create' = [create EXCEPT ![c].step = "done"]
        /\ Transmit(Start(c))
    BY <1>4
    DEF DeliverStart, Store!DeliverStart, Store!CreateUnchanged, Store!sessionVars, sendOnly,
        clientVars, memoryVars
  <2>2. /\ \A m : Sent(m)' <=> Sent(m) \/ (linkUp /\ m = Start(c))
        /\ toMachine # <<>> => toMachine' # <<>> /\ Head(toMachine') = Head(toMachine)
    BY <1>0, <2>1, TransmitHolds
  <2>3. \A d \in Commands \ {c} : create'[d] = create[d] BY <1>0, <2>1
  <2> QED BY <1>0, <1>1, <2>1, <2>2, <2>3 DEF ServerMoves, InForce
<1> QED BY <1>2, <1>3, <1>4

\* The next message of a batch goes out, unless there is no connection.
LEMMA SendKeepsWatch == ASSUME ControlInv, QuietInv, Send PROVE ServerMoves
<1>0. /\ WireInv
      /\ sessionStatus \in [Sessions -> Store!SessionStatuses \cup {"none"}]
      /\ request \in [Sessions -> Store!RequestCall]
  BY DEF ControlInv, QuietInv, ShapesInv
<1>1. PICK batch \in sending :
         /\ Transmit(Head(batch))
         /\ sending' = (sending \ {batch}) \cup (IF Len(batch) > 1 THEN {Tail(batch)} ELSE {})
  BY DEF Send
<1>2. UNCHANGED <<linkUp, reconnect, snapshot, mode, conn, handler, session, lapsed, closing,
                  closedSessions, control, journal, out, sessionStatus, commandStatus, request,
                  create>>
  BY DEF Send, sendOnly, storeVars, clientVars, memoryVars
<1>3. /\ \A m : Sent(m)' <=> Sent(m) \/ (linkUp /\ m = Head(batch))
      /\ toMachine # <<>> => toMachine' # <<>> /\ Head(toMachine') = Head(toMachine)
  BY <1>0, <1>1, TransmitHolds
<1>4. batch \in Seq(Instructions) /\ batch # <<>> BY <1>0 DEF WireInv
<1>5. \A m : In(m, batch) <=> m = Head(batch) \/ In(m, Tail(batch)) BY <1>4, QueueHolds
<1>6. \A m : In(m, Tail(batch)) => Len(batch) > 1
  <2>1. Len(batch) \in Nat /\ Len(batch) >= 1 /\ Len(Tail(batch)) = Len(batch) - 1
    BY <1>4, HeadTailProperties, LenProperties, EmptySeq
  <2> QED BY <2>1 DEF In
<1>7. \A m : ToSend(m)' <=> \E b \in sending' : In(m, b) BY DEF ToSend
<1>8. \A m : ToSend(m) => ToSend(m)' \/ m = Head(batch)
  <2> SUFFICES ASSUME NEW m, NEW b \in sending, In(m, b), m # Head(batch)
               PROVE  \E d \in sending' : In(m, d)
    BY <1>7 DEF ToSend
  <2>1. CASE b # batch BY <1>1, <2>1
  <2>2. CASE b = batch
    <3>1. In(m, Tail(batch)) /\ Len(batch) > 1 BY <1>5, <1>6, <2>2
    <3> QED BY <1>1, <3>1
  <2> QED BY <2>1, <2>2
<1>9. \A m : ToSend(m)' => ToSend(m)
  <2> SUFFICES ASSUME NEW m, NEW b \in sending', In(m, b) PROVE ToSend(m)
    BY <1>7
  <2>1. b \in sending \/ b = Tail(batch) BY <1>1
  <2> QED BY <1>5, <2>1 DEF ToSend
<1>10. ToSend(Head(batch)) BY <1>5 DEF ToSend
<1>11. \A s \in Sessions : \A m \in Closings(s) : Sent(m)' \/ ToSend(m)' => Sent(m) \/ ToSend(m)
  BY <1>3, <1>9, <1>10
<1>12. \A m : ToSend(m) => ToSend(m)' \/ Sent(m)' \/ ~linkUp BY <1>3, <1>8
<1> QED BY <1>0, <1>2, <1>3, <1>11, <1>12 DEF ServerMoves, InForce

-----------------------------------------------------------------------------
(* A connection that ends excuses what is not answered *)

\* With a connection that will be replaced there is little to keep.
LEMMA BrokenKeeps ==
    ASSUME Broken', ShapesInv', ClosingInv', UnderWayInv'
    PROVE  QuietInv'
BY DEF QuietInv, ConnInv, OpeningInv, EndingInv, OpenInv, WorkInv

\* What the end of a connection leaves.
LEMMA LinkLostLeaves ==
    ASSUME ShapesInv, LinkLost
    PROVE  /\ Broken' /\ UNCHANGED <<sessionStatus, request, sending>>
           /\ \A m : ~Sent(m)'
           /\ snapshot' \in [Sessions -> Store!SessionStatuses \cup {"none"}]
           /\ \A s \in Sessions : snapshot'[s] # "cancellation_requested"
<1>1. /\ linkUp' = FALSE /\ toMachine' = <<>> /\ sending' = sending
      /\ snapshot' = [s \in Sessions |-> "none"]
  BY DEF LinkLost
<1>2. UNCHANGED <<sessionStatus, request>>
  BY DEF LinkLost, Store!setMachineOffline, Store!sessionVars, Store!callsUnchanged, Store!callVars
<1>3. \A m : ~Sent(m)' BY <1>1 DEF Sent, In
<1> QED BY <1>1, <1>2, <1>3 DEF Broken

\* The network breaks, or a connection the Client closed ends.
LEMMA CutKeepsQuiet == ASSUME QuietInv, Break \/ Hangup PROVE QuietInv'
<1>1. ShapesInv /\ ClosingInv /\ UnderWayInv /\ LinkLost /\ ClientIsCutOff
  BY DEF QuietInv, Break, Hangup
<1>2. /\ Broken' /\ UNCHANGED <<sessionStatus, request, sending>>
      /\ \A m : ~Sent(m)' /\ (ToSend(m)' <=> ToSend(m))
      /\ snapshot' \in [Sessions -> Store!SessionStatuses \cup {"none"}]
      /\ \A s \in Sessions : snapshot'[s] # "cancellation_requested"
  BY <1>1, LinkLostLeaves DEF ToSend
<1>3. /\ UNCHANGED <<mode, handler, session, closing, closedSessions, control, lapsed, journal>>
      /\ conn' = "down"
  BY <1>1 DEF ClientIsCutOff, memoryVars
<1>4. ShapesInv' BY <1>1, <1>2, <1>3 DEF ShapesInv
<1>5. ClosingInv'
  BY <1>1, <1>2, <1>3 DEF ClosingInv, Ended, InForce, Machine!WasClosed, Closings
<1>6. UnderWayInv' BY <1>1, <1>3 DEF UnderWayInv
<1> QED BY <1>2, <1>4, <1>5, <1>6, BrokenKeeps

\* A process that is gone has nothing to close.
LEMMA CrashKeepsQuiet == ASSUME QuietInv, Crash PROVE QuietInv'
<1>1. ShapesInv /\ ClosingInv BY DEF QuietInv
<1>2. mode' = "crashed" /\ Machine!Forget
  BY DEF Crash, Machine!Crash, Machine!CrashReceiving
<1>3. /\ Broken' /\ UNCHANGED <<sessionStatus, request, sending>>
      /\ \A m : (Sent(m)' => Sent(m)) /\ (ToSend(m)' <=> ToSend(m))
      /\ snapshot' \in [Sessions -> Store!SessionStatuses \cup {"none"}]
      /\ \A s \in Sessions : snapshot'[s] = "cancellation_requested" =>
                                snapshot[s] = "cancellation_requested"
  <2>1. CASE LinkLost BY <1>1, <2>1, LinkLostLeaves DEF ToSend
  <2>2. CASE UNCHANGED <<storeVars, wireVars>>
    BY <1>1, <1>2, <2>2 DEF Broken, storeVars, wireVars, ShapesInv, Sent, ToSend
  <2> QED BY <2>1, <2>2 DEF Crash
<1>4. /\ session' = [s \in Sessions |-> "none"] /\ conn' = "down" /\ closedSessions' = <<>>
      /\ closing' = [s \in Sessions |-> Machine!NotClosing]
      /\ lapsed' = lapsed
  BY <1>2 DEF Machine!Forget
<1>5. ShapesInv' BY <1>1, <1>3, <1>4, EmptySeq DEF ShapesInv
<1>6. ClosingInv'
  <2>1. \A s \in Sessions : closing'[s] = Machine!NotClosing /\ session'[s] = "none" BY <1>4
  <2>2. \A s \in Sessions : ~Machine!WasClosed(s)' BY <1>4 DEF Machine!WasClosed
  <2>3. \A s \in Sessions :
           /\ snapshot'[s] = "cancellation_requested" => ~InForce(s)'
           /\ (\E m \in Closings(s) : Sent(m)' \/ ToSend(m)') => ~InForce(s)'
    BY <1>1, <1>3 DEF ClosingInv, InForce
  <2> QED BY <2>1, <2>2, <2>3 DEF ClosingInv, Closings
<1>7. UnderWayInv' BY <1>2 DEF UnderWayInv
<1> QED BY <1>3, <1>5, <1>6, <1>7, BrokenKeeps

\* A restarted process has nothing to close either, and has concluded what was
\* under way.
LEMMA RestartKeepsQuiet == ASSUME ControlInv, QuietInv, Restart PROVE QuietInv'
<1>1. ShapesInv /\ ClosingInv BY DEF QuietInv
<1>2. /\ ~linkUp /\ UNCHANGED <<storeVars, wireVars>> /\ Machine!Forget
      /\ journal' = [c \in Commands |-> IF journal[c] \in {"received", "running"}
                                        THEN "execution_unknown" ELSE journal[c]]
  BY DEF Restart, clientOnly, Machine!Restart
<1>3. /\ Broken' /\ UNCHANGED <<sessionStatus, request, snapshot>>
      /\ \A m : (Sent(m)' <=> Sent(m)) /\ (ToSend(m)' <=> ToSend(m))
  BY <1>2 DEF Broken, storeVars, wireVars, Sent, ToSend
<1>4. /\ session' = [s \in Sessions |-> "none"] /\ conn' = "down" /\ closedSessions' = <<>>
      /\ closing' = [s \in Sessions |-> Machine!NotClosing]
      /\ lapsed' = lapsed
  BY <1>2 DEF Machine!Forget
<1>5. ShapesInv' BY <1>1, <1>3, <1>4, EmptySeq DEF ShapesInv
<1>6. ClosingInv'
  <2>1. \A s \in Sessions : closing'[s] = Machine!NotClosing /\ session'[s] = "none" BY <1>4
  <2>2. \A s \in Sessions : ~Machine!WasClosed(s)' BY <1>4 DEF Machine!WasClosed
  <2>3. \A s \in Sessions :
           /\ snapshot'[s] = "cancellation_requested" => ~InForce(s)'
           /\ (\E m \in Closings(s) : Sent(m)' \/ ToSend(m)') => ~InForce(s)'
    BY <1>1, <1>3 DEF ClosingInv, InForce
  <2> QED BY <2>1, <2>2, <2>3 DEF ClosingInv, Closings
<1>7. UnderWayInv' BY <1>2 DEF UnderWayInv
<1> QED BY <1>3, <1>5, <1>6, <1>7, BrokenKeeps

-----------------------------------------------------------------------------
(* Reconciliation *)

\* A new connection will be reconciled from the database.
LEMMA ReconnectKeepsQuiet == ASSUME QuietInv, Reconnect PROVE QuietInv'
<1>1. ShapesInv /\ ClosingInv /\ UnderWayInv BY DEF QuietInv
<1>2. /\ linkUp' /\ reconnect' = "sessions" /\ toMachine' = <<Authentication>>
      /\ mode = "running" /\ conn = "down"
      /\ UNCHANGED <<mode, conn, handler, session, closing, closedSessions, control, lapsed,
                     journal, sending, snapshot, sessionStatus, request>>
  BY DEF Reconnect, clientVars, memoryVars, Store!putMachineAuthority, Store!sessionVars,
     Store!callsUnchanged, Store!callVars
<1>3. /\ toMachine' # <<>> /\ Head(toMachine') = Authentication
      /\ \A m : Sent(m)' <=> m = Authentication
  BY <1>2 DEF Sent, In
<1>4. \A m : ToSend(m)' <=> ToSend(m) BY <1>2 DEF ToSend
<1>5. \A s : Covered(s)' BY <1>2 DEF Covered
<1>6. ShapesInv' BY <1>1, <1>2 DEF ShapesInv
<1>7. ConnInv' BY <1>3 DEF ConnInv
<1>8. OpeningInv' /\ OpenInv' BY <1>5 DEF OpeningInv, OpenInv, Awaited
<1>9. EndingInv' BY <1>2 DEF EndingInv
<1>10. ClosingInv'
  <2>1. \A s : InForce(s)' <=> InForce(s) BY <1>2 DEF InForce
  <2>2. \A s : Ended(s)' <=> Ended(s) BY <1>2, <2>1 DEF Ended
  <2>3. \A s : Machine!WasClosed(s)' <=> Machine!WasClosed(s) BY <1>2 DEF Machine!WasClosed
  <2>4. ASSUME NEW s \in Sessions, NEW m \in Closings(s), (Sent(m) \/ ToSend(m))'
        PROVE  Sent(m) \/ ToSend(m)
    <3>1. m # Authentication BY ClosingsDiffer
    <3> QED BY <1>3, <1>4, <2>4, <3>1
  <2>5. closing' = closing /\ session' = session /\ handler' = handler /\ snapshot' = snapshot
    BY <1>2
  <2>6. \A s : Closings(s)' = Closings(s) BY DEF Closings, Close
  <2> QED BY <1>1, <2>1, <2>2, <2>3, <2>4, <2>5, <2>6 DEF ClosingInv
<1>11. WorkInv' BY <1>5 DEF WorkInv
<1>12. UnderWayInv' BY <1>1, <1>2 DEF UnderWayInv
<1> QED BY <1>6, <1>7, <1>8, <1>9, <1>10, <1>11, <1>12 DEF QuietInv

\* The first read finds every Session in force and every one told to end.
LEMMA ReadSessionsKeepsQuiet == ASSUME QuietInv, ReadSessions PROVE QuietInv'
<1>1. ShapesInv /\ ConnInv /\ ClosingInv /\ UnderWayInv BY DEF QuietInv
<1>2. /\ snapshot' = [s \in Sessions |->
            IF s \in SessionsToReconcile THEN sessionStatus[s] ELSE "none"]
      /\ SessionsToReconcile # {} => reconnect' = "commands"
      /\ UNCHANGED <<linkUp, mode, conn, handler, session, closing, closedSessions, control,
                     lapsed, journal, sending, toMachine, sessionStatus, request>>
  BY DEF ReadSessions, storeVars, clientVars, memoryVars
<1>3. /\ \A m : (Sent(m)' <=> Sent(m)) /\ (ToSend(m)' <=> ToSend(m))
      /\ Broken' <=> Broken
      /\ \A s : InForce(s)' <=> InForce(s)
  BY <1>2 DEF Sent, ToSend, Broken, InForce
<1>4. \A s \in Sessions :
         /\ InForce(s) => Covered(s)'
         /\ sessionStatus[s] = "cancellation_requested" =>
               reconnect' = "commands" /\ snapshot'[s] = "cancellation_requested"
         /\ snapshot'[s] = "cancellation_requested" => ~InForce(s)
  BY <1>2 DEF SessionsToReconcile, Reconciled, InForce, Granted, Covered
<1>5. ShapesInv' BY <1>1, <1>2 DEF ShapesInv
<1>6. ConnInv' BY <1>1, <1>2, <1>3 DEF ConnInv
<1>7. OpeningInv' /\ OpenInv'
  BY <1>2, <1>3, <1>4 DEF OpeningInv, OpenInv, Awaited, InForce, Granted
<1>8. EndingInv' BY <1>2, <1>4 DEF EndingInv
<1>9. ClosingInv'
  BY <1>1, <1>2, <1>3, <1>4 DEF ClosingInv, Ended, Machine!WasClosed, Closings
<1>10. WorkInv'
  <2>1. \A c \in Commands : Store!SessionOf[c] \in Sessions BY OrderType DEF Store!SessionOf
  <2> QED BY <1>3, <1>4, <2>1 DEF WorkInv
<1>11. UnderWayInv' BY <1>1, <1>2 DEF UnderWayInv
<1> QED BY <1>5, <1>6, <1>7, <1>8, <1>9, <1>10, <1>11 DEF QuietInv

\* The second read sends for all of them and for their Commands.
LEMMA ReadCommandsKeepsQuiet == ASSUME ControlInv, QuietInv, ReadCommands PROVE QuietInv'
<1>1. ShapesInv /\ ConnInv /\ OpeningInv /\ EndingInv /\ OpenInv /\ ClosingInv /\ WorkInv
      /\ UnderWayInv
  BY DEF QuietInv
<1>2. /\ reconnect = "commands" /\ toMachine' = toMachine \o ReconnectMessages
      /\ snapshot' = [s \in Sessions |-> "none"]
      /\ UNCHANGED <<linkUp, mode, conn, handler, session, closing, closedSessions, control,
                     lapsed, journal, out, sending, sessionStatus, request, commandStatus, create>>
  BY DEF ReadCommands, storeVars, clientVars, memoryVars
<1>3. toMachine \in Seq(Downward) /\ ReconnectMessages \in Seq(Downward)
  BY ReconnectSends DEF ControlInv, WireInv
<1>4. \A m : Sent(m)' <=> Sent(m) \/ In(m, ReconnectMessages)
  <2>1. \A m : In(m, toMachine \o ReconnectMessages) <=> In(m, toMachine) \/ In(m, ReconnectMessages)
    BY <1>3, BothHold
  <2> QED BY <1>2, <2>1 DEF Sent
<1>5. /\ \A m : (ToSend(m)' <=> ToSend(m)) /\ (Told(m)' <=> Told(m))
      /\ Broken' <=> Broken
      /\ \A s : InForce(s)' <=> InForce(s)
  BY <1>2 DEF ToSend, Told, Broken, InForce
<1>6. \A s \in Sessions : Covered(s) => Sent(Open(s))'
  BY <1>2, <1>4, ReconnectSends DEF Covered, Granted, ControlInv
<1>7. \A s \in Sessions : Awaited(s) => Awaited(s)' BY <1>4, <1>6 DEF Awaited
<1>8. ShapesInv' BY <1>1, <1>2 DEF ShapesInv, Store!SessionStatuses
<1>9. ConnInv'
  <2>1. ASSUME toMachine # <<>>
        PROVE  toMachine' # <<>> /\ Head(toMachine') = Head(toMachine)
    <3>1. /\ Len(toMachine) \in Nat /\ Len(ReconnectMessages) \in Nat
          /\ Len(toMachine') = Len(toMachine) + Len(ReconnectMessages)
          /\ \A i \in 1..Len(toMachine) + Len(ReconnectMessages) :
                toMachine'[i] = IF i <= Len(toMachine) THEN toMachine[i]
                                ELSE ReconnectMessages[i - Len(toMachine)]
          /\ toMachine' \in Seq(Downward)
      BY <1>2, <1>3, ConcatProperties, LenProperties
    <3>2. Len(toMachine) # 0 /\ Head(toMachine) = toMachine[1]
      BY <1>3, <2>1, HeadTailProperties, EmptySeq
    <3>3. toMachine' # <<>> BY <3>1, <3>2, EmptySeq
    <3>4. Head(toMachine') = toMachine'[1] BY <3>1, <3>3, HeadTailProperties
    <3> QED BY <3>1, <3>2, <3>3, <3>4
  <2> QED BY <1>1, <1>2, <1>5, <2>1 DEF ConnInv
<1>10. /\ \A s : Answers(s)' = Answers(s) /\ Closings(s)' = Closings(s) /\ Closeds(s)' = Closeds(s)
       /\ \A c : Completions(c)' = Completions(c)
  BY DEF Answers, Closings, Closeds, Completions
<1>11. OpeningInv' BY <1>1, <1>2, <1>5, <1>7, <1>10 DEF OpeningInv
<1>12. EndingInv'
  <2>1. \A s \in Sessions : snapshot[s] = "cancellation_requested" => \E m \in Closings(s) : Sent(m)'
    <3>1. \A s \in Sessions : snapshot[s] = "cancellation_requested" =>
             \E r \in {"expired", "closed"} : In(Close(s, r), ReconnectMessages)
      BY ReconnectSends DEF ControlInv
    <3>2. \A s : \A r \in {"expired", "closed"} : Close(s, r) \in Closings(s) BY DEF Closings
    <3> QED BY <1>4, <3>1, <3>2
  <2> QED BY <1>1, <1>2, <1>4, <1>5, <1>10, <2>1 DEF EndingInv
<1>13. OpenInv' BY <1>1, <1>2, <1>5, <1>7 DEF OpenInv, RoomForAll
<1>14. ClosingInv'
  <2>1. ASSUME NEW s \in Sessions, NEW m \in Closings(s), Sent(m)' \/ ToSend(m)'
        PROVE  ~InForce(s)
    <3>1. PICK r \in {"expired", "closed"} : m = Close(s, r) BY DEF Closings
    <3>2. In(m, ReconnectMessages) => snapshot[s] = "cancellation_requested"
      BY <3>1, ReconnectSends DEF ControlInv
    <3> QED BY <1>1, <1>4, <1>5, <2>1, <3>2 DEF ClosingInv
  <2>2. \A s \in Sessions : snapshot'[s] # "cancellation_requested" BY <1>2
  <2> QED BY <1>1, <1>2, <1>5, <1>10, <2>1, <2>2 DEF ClosingInv, Ended, Machine!WasClosed
<1>15. WorkInv'
  <2> SUFFICES ASSUME NEW c \in Commands, commandStatus[c] \in Store!ActiveCommandStatuses,
                      InForce(Store!SessionOf[c])
               PROVE  \/ Broken \/ create[c].step = "deliver"
                      \/ Sent(Start(c))' \/ Sent(Stop(c))'
                      \/ conn = "authenticated"
                         /\ (control[c].step # "none" \/ \E m \in Completions(c) : Told(m))
    BY <1>2, <1>5, <1>10 DEF WorkInv
  <2>1. CASE Covered(Store!SessionOf[c])
    <3>1. snapshot[Store!SessionOf[c]] \in {"opening", "active"}
      BY <1>2, <2>1 DEF Covered, Granted
    <3>2. In(Start(c), ReconnectMessages) \/ In(Stop(c), ReconnectMessages)
      BY <3>1, ReconnectSends DEF ControlInv
    <3> QED BY <1>4, <3>2
  <2>2. CASE ~Covered(Store!SessionOf[c]) BY <1>1, <1>4, <2>2 DEF WorkInv
  <2> QED BY <2>1, <2>2
<1>16. UnderWayInv' BY <1>1, <1>2 DEF UnderWayInv
<1> QED BY <1>8, <1>9, <1>11, <1>12, <1>13, <1>14, <1>15, <1>16 DEF QuietInv

-----------------------------------------------------------------------------
(* The Client's steps leave what is awaited awaited, or answer it *)

\* The Session's session.open is answered: with the Session open, unless it is
\* over or there is no room for it.
Answered(s) ==
    /\ \E m \in Answers(s) : Told(m)
    /\ session[s] = "open" \/ Ended(s) \/ ~RoomForAll

\* The Session is being closed, or its closure is reported.
ClosingOrTold(s) == closing[s] # Machine!NotClosing \/ \E m \in Closeds(s) : Told(m)

\* The Command is live, or its result is reported.
LiveOrTold(c) == control[c].step # "none" \/ \E m \in Completions(c) : Told(m)

\* A Session is closed when it ended, and its closure goes on until reported.
ClosuresMove ==
    /\ session' \in [Sessions -> {"none", "open", "closing"}]
    /\ closedSessions' \in Seq(Sessions)
    /\ lapsed \subseteq lapsed'
    /\ \A s \in Sessions :
          /\ closing'[s] # Machine!NotClosing \/ Machine!WasClosed(s)' \/ session'[s] = "closing" =>
                \/ closing[s] # Machine!NotClosing \/ Machine!WasClosed(s) \/ session[s] = "closing"
                \/ Ended(s)'
          /\ closing'[s] # Machine!NotClosing /\ ~closing'[s].timer => handler' = <<"close", s>>
          /\ session[s] = "open" => session'[s] = "open" \/ Ended(s)' \/ Broken'
          /\ conn = "authenticated" /\ closing[s] # Machine!NotClosing => ClosingOrTold(s)' \/ Broken'

\* A Command is live until its result is reported.
CommandsMove ==
    /\ UnderWayInv'
    /\ \A c \in Commands : conn = "authenticated" /\ control[c].step # "none" =>
          LiveOrTold(c)' \/ Broken'

\* What was told stays told; what was sent stays sent, or is answered.
WireMoves ==
    /\ conn' \in {"down", "authenticated", "closing"}
    /\ Broken => Broken'
    /\ \A m : Sent(m)' => Sent(m)
    /\ ~Broken' =>
          /\ conn' = conn \/ (conn = "down" /\ conn' = "authenticated")
          /\ conn' = "down" => toMachine' = toMachine
          /\ \A m : Told(m) => Told(m)'
          /\ \A s \in Sessions :
                /\ Told(Machine!Opened(s))' =>
                      Told(Machine!Opened(s)) \/ session'[s] = "open" \/ conn = "down"
                /\ Sent(Open(s)) => Sent(Open(s))' \/ Answered(s)'
                /\ \A m \in Closings(s) :
                      Sent(m) => Sent(m)' \/ (conn' = "authenticated" /\ ClosingOrTold(s)')
          /\ \A c \in Commands : Sent(Start(c)) \/ Sent(Stop(c)) =>
                \/ Sent(Start(c))' \/ Sent(Stop(c))'
                \/ conn' = "authenticated" /\ LiveOrTold(c)'

ClientMoves ==
    /\ UNCHANGED <<sessionStatus, commandStatus, request, create, linkUp, reconnect, snapshot,
                   sending>>
    /\ ClosuresMove /\ CommandsMove /\ WireMoves

\* Such a step keeps the invariant.
LEMMA ClientMovesKeep ==
    ASSUME QuietInv, ClientMoves
    PROVE  QuietInv'
<1>0. /\ ShapesInv /\ ConnInv /\ OpeningInv /\ EndingInv /\ OpenInv /\ ClosingInv /\ WorkInv
      /\ ClosuresMove /\ CommandsMove /\ WireMoves
      /\ UNCHANGED <<sessionStatus, commandStatus, request, create, linkUp, reconnect, snapshot,
                     sending>>
  BY DEF QuietInv, ClientMoves
<1>1. /\ \A s : (InForce(s)' <=> InForce(s)) /\ (Covered(s)' <=> Covered(s))
      /\ \A m : ToSend(m)' <=> ToSend(m)
      /\ \A s : Answers(s)' = Answers(s) /\ Closings(s)' = Closings(s) /\ Closeds(s)' = Closeds(s)
      /\ \A c : Completions(c)' = Completions(c)
      /\ RoomForAll' <=> RoomForAll
  BY <1>0 DEF InForce, Covered, ToSend, Answers, Closings, Closeds, Completions, RoomForAll
<1>2. \A s : Ended(s) => Ended(s)' BY <1>0, <1>1 DEF Ended, ClosuresMove
<1>3. ShapesInv' BY <1>0 DEF ShapesInv, ClosuresMove, WireMoves
<1>4. ConnInv' BY <1>0, <1>1 DEF ConnInv, WireMoves
<1>5. ClosingInv'
  BY <1>0, <1>1, <1>2 DEF ClosingInv, ClosuresMove, WireMoves
<1>6. OpeningInv'
  <2> SUFFICES ASSUME NEW s \in Sessions, sessionStatus[s] = "opening", ~Broken'
               PROVE  \/ Awaited(s)' \/ request[s].step = "deliver"
                      \/ \E m \in Answers(s) : Told(m)'
    BY <1>0, <1>1 DEF OpeningInv
  <2>1. \/ Covered(s) \/ Sent(Open(s)) \/ request[s].step = "deliver"
        \/ \E m \in Answers(s) : Told(m)
    BY <1>0 DEF OpeningInv, WireMoves, Awaited
  <2>2. Sent(Open(s)) => Sent(Open(s))' \/ \E m \in Answers(s) : Told(m)'
    BY <1>0, <1>1 DEF WireMoves, Answered
  <2>3. \A m : Told(m) => Told(m)' BY <1>0 DEF WireMoves
  <2> QED BY <1>1, <2>1, <2>2, <2>3 DEF Awaited
<1>7. EndingInv'
  <2> SUFFICES ASSUME NEW s \in Sessions, sessionStatus[s] = "cancellation_requested", ~Broken'
               PROVE  \/ reconnect = "sessions"
                      \/ reconnect = "commands" /\ snapshot[s] = "cancellation_requested"
                      \/ \E m \in Closings(s) : Sent(m)' \/ ToSend(m)
                      \/ conn' = "authenticated" /\ ClosingOrTold(s)'
    BY <1>0, <1>1 DEF EndingInv, ClosingOrTold
  <2>1. \/ reconnect = "sessions"
        \/ reconnect = "commands" /\ snapshot[s] = "cancellation_requested"
        \/ \E m \in Closings(s) : Sent(m) \/ ToSend(m)
        \/ conn = "authenticated" /\ ClosingOrTold(s)
    BY <1>0 DEF EndingInv, WireMoves, ClosingOrTold
  <2>2. \A m \in Closings(s) :
           Sent(m) => Sent(m)' \/ (conn' = "authenticated" /\ ClosingOrTold(s)')
    BY <1>0 DEF WireMoves
  <2>3. conn = "authenticated" /\ ClosingOrTold(s) =>
           conn' = "authenticated" /\ ClosingOrTold(s)'
    <3>1. \A m : Told(m) => Told(m)' BY <1>0 DEF WireMoves
    <3>2. conn = "authenticated" => conn' = "authenticated" BY <1>0 DEF WireMoves
    <3>3. conn = "authenticated" /\ closing[s] # Machine!NotClosing => ClosingOrTold(s)'
      BY <1>0 DEF ClosuresMove
    <3> QED BY <1>1, <3>1, <3>2, <3>3 DEF ClosingOrTold
  <2> QED BY <2>1, <2>2, <2>3
<1>8. OpenInv'
  <2> SUFFICES ASSUME NEW s \in Sessions, InForce(s), ~Broken'
               PROVE  /\ conn' = "down" => Awaited(s)'
                      /\ RoomForAll /\ s \notin lapsed'
                         /\ (sessionStatus[s] = "active" \/ Told(Machine!Opened(s))') =>
                            Awaited(s)' \/ session'[s] = "open"
    BY <1>0, <1>1 DEF OpenInv
  <2>1. /\ conn = "down" => Awaited(s)
        /\ RoomForAll /\ s \notin lapsed
           /\ (sessionStatus[s] = "active" \/ Told(Machine!Opened(s))) =>
              Awaited(s) \/ session[s] = "open"
    BY <1>0 DEF OpenInv, WireMoves
  <2>2. conn' = "down" => conn = "down" /\ (Sent(Open(s))' <=> Sent(Open(s)))
    BY <1>0 DEF WireMoves, Sent
  <2>3. ASSUME RoomForAll, s \notin lapsed', Awaited(s) PROVE Awaited(s)' \/ session'[s] = "open"
    <3>1. Sent(Open(s)) => Sent(Open(s))' \/ session'[s] = "open"
      BY <1>0, <1>1, <2>3 DEF WireMoves, Answered, Ended
    <3> QED BY <1>1, <2>3, <3>1 DEF Awaited
  <2>4. ASSUME s \notin lapsed', session[s] = "open" PROVE session'[s] = "open"
    BY <1>0, <1>1, <2>4 DEF ClosuresMove, Ended
  <2>5. Told(Machine!Opened(s))' =>
           Told(Machine!Opened(s)) \/ session'[s] = "open" \/ conn = "down"
    BY <1>0 DEF WireMoves
  <2>6. s \notin lapsed' => s \notin lapsed BY <1>0 DEF ClosuresMove
  <2> QED BY <1>1, <2>1, <2>2, <2>3, <2>4, <2>5, <2>6 DEF Awaited
<1>9. WorkInv'
  <2> SUFFICES ASSUME NEW c \in Commands, commandStatus[c] \in Store!ActiveCommandStatuses,
                      InForce(Store!SessionOf[c]), ~Broken'
               PROVE  \/ Covered(Store!SessionOf[c]) \/ create[c].step = "deliver"
                      \/ Sent(Start(c))' \/ Sent(Stop(c))'
                      \/ conn' = "authenticated" /\ LiveOrTold(c)'
    BY <1>0, <1>1 DEF WorkInv, LiveOrTold
  <2>1. \/ Covered(Store!SessionOf[c]) \/ create[c].step = "deliver"
        \/ Sent(Start(c)) \/ Sent(Stop(c))
        \/ conn = "authenticated" /\ LiveOrTold(c)
    BY <1>0 DEF WorkInv, WireMoves, LiveOrTold
  <2>2. Sent(Start(c)) \/ Sent(Stop(c)) =>
           \/ Sent(Start(c))' \/ Sent(Stop(c))'
           \/ conn' = "authenticated" /\ LiveOrTold(c)'
    BY <1>0 DEF WireMoves
  <2>3. conn = "authenticated" /\ LiveOrTold(c) => conn' = "authenticated" /\ LiveOrTold(c)'
    <3>1. \A m : Told(m) => Told(m)' BY <1>0 DEF WireMoves
    <3>2. conn = "authenticated" => conn' = "authenticated" BY <1>0 DEF WireMoves
    <3>3. conn = "authenticated" /\ control[c].step # "none" => LiveOrTold(c)'
      BY <1>0 DEF CommandsMove
    <3> QED BY <1>1, <3>1, <3>2, <3>3 DEF LiveOrTold
  <2> QED BY <2>1, <2>2, <2>3
<1>10. UnderWayInv' BY <1>0 DEF CommandsMove
<1> QED BY <1>3, <1>4, <1>5, <1>6, <1>7, <1>8, <1>9, <1>10 DEF QuietInv

\* What a report adds to what is told.
LEMMA DeliverTells ==
    ASSUME WireInv, NEW x, Machine!Deliver(<<x>>)
    PROVE  /\ \A m : Told(m) => Told(m)'
           /\ \A m : Told(m)' => Told(m) \/ m = x
           /\ conn = "authenticated" => Told(x)'
<1> DEFINE A == Upward \cup {x}
<1>1. out \in Seq(A)
  <2>1. out \in Seq(Upward) /\ Upward \subseteq A BY DEF WireInv
  <2> HIDE DEF A
  <2> QED BY <2>1, SeqGrows
<1>2. <<x>> \in Seq(A) OBVIOUS
<1> HIDE DEF A
<1>3. \A m : In(m, out \o <<x>>) <=> In(m, out) \/ In(m, <<x>>) BY <1>1, <1>2, BothHold
<1>4. \A m : In(m, <<x>>) <=> m = x BY DEF In
<1>5. out' = out \o <<x>> \/ (out' = out /\ conn # "authenticated") BY DEF Machine!Deliver
<1> QED BY <1>3, <1>4, <1>5 DEF Told

\* Reports of different kinds differ.
LEMMA ReportsDiffer ==
    \A s, t :
       /\ \A r : Machine!Closed(t, r) # Machine!Opened(s) /\ Machine!Completed(t, r) # Machine!Opened(s)
       /\ Machine!OpenFailed(t) # Machine!Opened(s) /\ Machine!Started(t) # Machine!Opened(s)
       /\ Machine!Opened(t) = Machine!Opened(s) => t = s
BY DEF Machine!Opened, Machine!OpenFailed, Machine!Closed, Machine!Started, Machine!Completed

\* Nothing happens to the Sessions.
LEMMA SessionsRest ==
    ASSUME QuietInv, UNCHANGED <<session, closing, closedSessions>>, lapsed \subseteq lapsed',
           handler' = handler \/ \A s : handler # <<"close", s>>
    PROVE  ClosuresMove
<1>1. ShapesInv /\ ClosingInv BY DEF QuietInv
<1>2. \A s : Machine!WasClosed(s)' <=> Machine!WasClosed(s) BY DEF Machine!WasClosed
<1> QED BY <1>1, <1>2 DEF ClosuresMove, ShapesInv, ClosingInv, ClosingOrTold

\* The Commands that are live stay live.
LEMMA CommandsStay ==
    ASSUME QuietInv, mode' = "running" => mode = "running",
           \A c \in Commands :
              /\ control[c].step # "none" => control'[c].step # "none"
              /\ journal'[c] = journal[c] \/ journal'[c] \notin {"received", "running"}
    PROVE  CommandsMove
<1>1. UnderWayInv BY DEF QuietInv
<1> QED BY <1>1 DEF CommandsMove, UnderWayInv, LiveOrTold

\* One of them ends and is reported.
LEMMA CommandEnds ==
    ASSUME ControlInv, QuietInv, mode' = "running" => mode = "running",
           NEW c \in Commands, NEW result \in Machine!Results,
           control' = [control EXCEPT ![c] = Machine!NoControl], Machine!Finish(c, result)
    PROVE  CommandsMove
<1>1. UnderWayInv BY DEF QuietInv
<1>2. /\ journal \in [Commands -> Machine!JournalStates] /\ control \in [Commands -> Controls]
      /\ WireInv
  BY DEF ControlInv, MachineInv
<1>3. Machine!Deliver(<<Machine!Completed(c, result)>>) /\ journal' = [journal EXCEPT ![c] = result]
  BY DEF Machine!Finish
<1>4. conn = "authenticated" => \E m \in Completions(c) : Told(m)'
  <2>1. Machine!Completed(c, result) \in Completions(c) BY DEF Completions
  <2> QED BY <1>2, <1>3, <2>1, DeliverTells
<1>5. /\ journal'[c] \notin {"received", "running"}
      /\ \A d \in Commands \ {c} : journal'[d] = journal[d] /\ control'[d] = control[d]
  BY <1>2, <1>3 DEF Machine!Results
<1>6. UnderWayInv' BY <1>1, <1>5 DEF UnderWayInv
<1>7. \A d : Completions(d)' = Completions(d) BY DEF Completions
<1> QED BY <1>4, <1>5, <1>6, <1>7 DEF CommandsMove, LiveOrTold

\* Without a message handled, at most one thing is told, and not that a
\* Session opened.
LEMMA TellsAside ==
    ASSUME QuietInv, WireInv, toMachine' = toMachine,
           conn' \in {"down", "authenticated", "closing"},
           Broken => Broken', conn' = conn \/ Broken',
           \/ out' = out
           \/ \E m : (\A s : m # Machine!Opened(s)) /\ Machine!Deliver(<<m>>)
    PROVE  WireMoves
<1>1. \A m : Sent(m)' <=> Sent(m) BY DEF Sent
<1>2. /\ \A m : Told(m) => Told(m)'
      /\ \A s : Told(Machine!Opened(s))' => Told(Machine!Opened(s))
  <2>1. CASE out' = out BY <2>1 DEF Told
  <2>2. CASE \E m : (\A s : m # Machine!Opened(s)) /\ Machine!Deliver(<<m>>) BY <2>2, DeliverTells
  <2> QED BY <2>1, <2>2
<1> QED BY <1>1, <1>2 DEF WireMoves

\* A Session that ended begins to be closed, for session.close or a timer; a
\* closure under way is joined.
LEMMA ClosuresBegin ==
    ASSUME ControlInv, QuietInv, NEW s \in Sessions, NEW reason \in {"expired", "closed"},
           NEW byTimer \in BOOLEAN, Machine!CloseSession(s, reason, byTimer),
           Ended(s), UNCHANGED <<sessionStatus, lapsed>>,
           \/ byTimer /\ handler' = handler
           \/ handler = Machine!Idle /\ handler' = <<"close", s>>
    PROVE  ClosuresMove /\ closing'[s] # Machine!NotClosing
<1>1. ShapesInv /\ ClosingInv BY DEF QuietInv
<1>2. closing \in [Sessions -> Closures] /\ closing[s] \in Closures BY DEF ControlInv, MachineInv
<1>3. Ended(s)' BY DEF Ended, InForce
<1>4. \A t : Machine!Idle # <<"close", t>> BY DEF Machine!Idle
<1>5. CASE closing[s] # Machine!NotClosing
  <2> DEFINE new == [closing[s] EXCEPT !.timer = closing[s].timer \/ byTimer]
  <2>1. UNCHANGED <<closedSessions, session>> /\ closing' = [closing EXCEPT ![s] = new]
    BY <1>2, <1>5 DEF Machine!CloseSession
  <2>2. closing[s].timer \/ byTimer
    <3>1. CASE byTimer BY <3>1
    <3>2. CASE handler = Machine!Idle BY <1>1, <1>4, <1>5, <3>2 DEF ClosingInv
    <3> QED BY <3>1, <3>2
  <2>3. new.timer BY <1>2, <2>2 DEF Closures
  <2>4. new # Machine!NotClosing BY <2>3 DEF Machine!NotClosing
  <2> HIDE DEF new
  <2>5. closing'[s] = new /\ \A t \in Sessions \ {s} : closing'[t] = closing[t] BY <1>2, <2>1
  <2>6. \A t \in Sessions : closing'[t] # Machine!NotClosing /\ ~closing'[t].timer =>
                               handler' = <<"close", t>>
    BY <1>1, <1>4, <2>3, <2>5 DEF ClosingInv
  <2>7. \A t \in Sessions : Machine!WasClosed(t)' <=> Machine!WasClosed(t)
    BY <2>1 DEF Machine!WasClosed
  <2> QED BY <1>1, <1>3, <2>1, <2>4, <2>5, <2>6, <2>7 DEF ClosuresMove, ShapesInv, ClosingOrTold
<1>6. CASE closing[s] = Machine!NotClosing
  <2> DEFINE new == [waits |-> Machine!LiveCommandsOf(s), reason |-> reason, timer |-> byTimer]
  <2>1. /\ closedSessions' = Machine!Remember(s)
        /\ session' = [session EXCEPT ![s] = IF session[s] = "open" THEN "closing" ELSE session[s]]
        /\ closing' = [closing EXCEPT ![s] = new]
    BY <1>1, <1>6 DEF Machine!CloseSession, ShapesInv
  <2>2. new # Machine!NotClosing /\ new.timer = byTimer BY DEF Machine!NotClosing
  <2> HIDE DEF new
  <2>3. closing'[s] = new /\ \A t \in Sessions \ {s} : closing'[t] = closing[t] BY <1>2, <2>1
  <2>4. /\ session' \in [Sessions -> {"none", "open", "closing"}]
        /\ \A t \in Sessions \ {s} : session'[t] = session[t]
    BY <1>1, <2>1 DEF ShapesInv
  <2>5. /\ closedSessions' \in Seq(Sessions)
        /\ \A t \in Sessions : Machine!WasClosed(t)' => Machine!WasClosed(t) \/ t = s
    <3>1. closedSessions \in Seq(Sessions) BY <1>1 DEF ShapesInv
    <3>2. \A q \in Seq(Sessions) : \A t : (\E i \in DOMAIN q : q[i] = t) <=> In(t, q)
      <4>1. \A q \in Seq(Sessions) : DOMAIN q = 1..Len(q) BY LenProperties
      <4> QED BY <4>1 DEF In
    <3>3. CASE closedSessions' = closedSessions BY <3>1, <3>3 DEF Machine!WasClosed
    <3>4. CASE closedSessions' = Append(closedSessions, s)
      <4>1. closedSessions' \in Seq(Sessions) BY <3>1, <3>4, AppendProperties
      <4>2. \A t : In(t, Append(closedSessions, s)) <=> In(t, closedSessions) \/ t = s
        BY <3>1, QueueHolds
      <4> QED BY <3>1, <3>2, <3>4, <4>1, <4>2 DEF Machine!WasClosed
    <3>5. CASE closedSessions # <<>> /\ closedSessions' = Append(Tail(closedSessions), s)
      <4>1. Tail(closedSessions) \in Seq(Sessions) BY <3>1, <3>5, HeadTailProperties
      <4>2. closedSessions' \in Seq(Sessions) BY <3>5, <4>1, AppendProperties
      <4>3. \A t : In(t, Append(Tail(closedSessions), s)) <=> In(t, Tail(closedSessions)) \/ t = s
        <5> DEFINE rest == Tail(closedSessions)
        <5>1. rest \in Seq(Sessions) BY <4>1
        <5> HIDE DEF rest
        <5>2. \A t : In(t, Append(rest, s)) <=> In(t, rest) \/ t = s BY <5>1, QueueHolds
        <5> QED BY <5>2 DEF rest
      <4>4. \A t : In(t, Tail(closedSessions)) => In(t, closedSessions)
        BY <3>1, <3>5, QueueHolds
      <4> QED BY <3>1, <3>2, <3>5, <4>2, <4>3, <4>4 DEF Machine!WasClosed
    <3>6. closedSessions = <<>> => Len(closedSessions) < ClosedLimit
      BY BoundsType, EmptySeq
    <3> QED BY <2>1, <3>3, <3>4, <3>5, <3>6 DEF Machine!Remember
  <2>6. \A t \in Sessions : closing'[t] # Machine!NotClosing /\ ~closing'[t].timer =>
                               handler' = <<"close", t>>
    BY <1>1, <1>4, <2>2, <2>3 DEF ClosingInv
  <2> QED BY <1>1, <1>3, <2>2, <2>3, <2>4, <2>5, <2>6 DEF ClosuresMove, ClosingOrTold
<1> QED BY <1>5, <1>6

\* A closure that ends is reported, or takes the connection with it.
LEMMA ClosuresEnd ==
    ASSUME ControlInv, QuietInv, UNCHANGED <<sessionStatus, lapsed, linkUp, toMachine, control, journal>>,
           NEW s \in Sessions, Machine!CloseSucceeds(s) \/ Machine!CloseFails(s)
    PROVE  ClosuresMove /\ CommandsMove /\ WireMoves
<1>1. ShapesInv /\ ClosingInv /\ WireInv BY DEF QuietInv, ControlInv
<1>2. closing \in [Sessions -> Closures] /\ closing[s] \in Closures BY DEF ControlInv, MachineInv
<1>3. /\ closing[s] # Machine!NotClosing
      /\ session' = [session EXCEPT ![s] = "none"]
      /\ closing' = [closing EXCEPT ![s] = Machine!NotClosing]
      /\ handler' = IF handler = <<"close", s>> THEN Machine!Idle ELSE handler
      /\ closedSessions' = closedSessions
  BY DEF Machine!CloseSucceeds, Machine!CloseFails, Machine!ClosureEnds
<1>4. Ended(s) BY <1>1, <1>3 DEF ClosingInv
<1>5. Ended(s)' BY <1>4 DEF Ended, InForce
<1>6. /\ session' \in [Sessions -> {"none", "open", "closing"}]
      /\ session'[s] = "none" /\ closing'[s] = Machine!NotClosing
      /\ \A t \in Sessions \ {s} : session'[t] = session[t] /\ closing'[t] = closing[t]
  BY <1>1, <1>2, <1>3 DEF ShapesInv
<1>7. \A t \in Sessions : Machine!WasClosed(t)' <=> Machine!WasClosed(t)
  BY <1>3 DEF Machine!WasClosed
<1>8. \A t \in Sessions : closing'[t] # Machine!NotClosing /\ ~closing'[t].timer =>
                             handler' = <<"close", t>>
  <2>1. \A t : <<"close", t>> = <<"close", s>> => t = s OBVIOUS
  <2> QED BY <1>1, <1>3, <1>6, <2>1 DEF ClosingInv
<1>9. /\ conn' \in {"down", "authenticated", "closing"}
      /\ mode' = "running" => mode = "running"
      /\ (Broken => Broken') /\ (conn' = conn \/ Broken')
      /\ Machine!CloseFails(s) /\ conn = "authenticated" => Broken'
  <2>1. CASE Machine!CloseSucceeds(s) /\ ~Machine!CloseFails(s)
    <3>1. UNCHANGED <<mode, conn>> BY <2>1 DEF Machine!CloseSucceeds
    <3> QED BY <1>1, <2>1, <3>1 DEF Broken, ShapesInv
  <2>2. CASE Machine!CloseFails(s) /\ closing[s].timer
    <3>1. IF mode = "running" THEN mode' = "stopping" /\ conn' = "down" ELSE UNCHANGED <<mode, conn>>
      BY <2>2 DEF Machine!CloseFails, Machine!TerminalFailure
    <3> QED BY <1>1, <3>1 DEF Broken, ShapesInv
  <2>3. CASE Machine!CloseFails(s) /\ ~closing[s].timer
    <3>1. handler = <<"close", s>> BY <1>1, <1>3, <2>3 DEF ClosingInv
    <3>2. /\ conn' = IF conn = "authenticated" THEN "closing" ELSE conn
          /\ mode' = mode
      BY <2>3, <3>1 DEF Machine!CloseFails
    <3> QED BY <1>1, <3>2 DEF Broken, ShapesInv
  <2> QED BY <2>1, <2>2, <2>3
<1>10. \/ out' = out
       \/ \E m : (\A t : m # Machine!Opened(t)) /\ Machine!Deliver(<<m>>)
  <2>1. Machine!DeliverNothing => out' = out BY DEF Machine!DeliverNothing
  <2> QED BY <2>1, ReportsDiffer DEF Machine!CloseSucceeds, Machine!CloseFails
<1>11. conn = "authenticated" => ClosingOrTold(s)' \/ Broken'
  <2>1. CASE Machine!CloseFails(s) BY <1>9, <2>1
  <2>2. CASE Machine!CloseSucceeds(s)
    <3>1. Machine!Deliver(<<Machine!Closed(s, closing[s].reason)>>) BY <2>2 DEF Machine!CloseSucceeds
    <3>2. Machine!Closed(s, closing[s].reason) \in Closeds(s) BY <1>2 DEF Closures, Closeds
    <3>3. conn = "authenticated" => \E m \in Closeds(s) : Told(m)'
      BY <1>1, <3>1, <3>2, DeliverTells
    <3> QED BY <3>3 DEF ClosingOrTold, Closeds
  <2> QED BY <2>1, <2>2
<1>12. ClosuresMove
  BY <1>1, <1>3, <1>5, <1>6, <1>7, <1>8, <1>11 DEF ClosuresMove, ShapesInv, ClosingOrTold
<1>13. CommandsMove BY <1>9, CommandsStay
<1>14. WireMoves BY <1>1, <1>9, <1>10, TellsAside
<1> QED BY <1>12, <1>13, <1>14

\* Timers, closures, preparations, terminations and the shutdown.
LEMMA SettlingKeepsWatch == ASSUME ControlInv, QuietInv, Settling PROVE ClientMoves
<1>0. /\ UNCHANGED <<sessionStatus, commandStatus, request, create, linkUp, reconnect, snapshot,
                     sending, toMachine>>
      /\ WireInv /\ ShapesInv /\ ClosingInv
      /\ control \in [Commands -> Controls]
  BY DEF Settling, clientOnly, storeVars, wireVars, ControlInv, MachineInv, QuietInv
<1>1. ASSUME UNCHANGED <<session, closing, closedSessions, lapsed, mode, conn>>,
             handler' = handler \/ \A s : handler # <<"close", s>>,
             Machine!DeliverNothing \/ out' = out, CommandsMove
      PROVE  ClientMoves
  <2>1. ClosuresMove BY <1>1, SessionsRest
  <2>2. WireMoves
    BY <1>0, <1>1, TellsAside DEF Broken, ShapesInv, Machine!DeliverNothing
  <2> QED BY <1>0, <1>1, <2>1, <2>2 DEF ClientMoves
<1>2. ASSUME NEW s \in Sessions, Machine!ExpiryTimer(s) PROVE ClientMoves
  <2>1. /\ Machine!CloseSession(s, "expired", TRUE) /\ s \in lapsed
        /\ UNCHANGED <<handler, lapsed, mode, conn, journal, out>>
    BY <1>2 DEF Machine!ExpiryTimer, Machine!DeliverNothing
  <2>2. Ended(s) BY <2>1 DEF Ended
  <2>3. ClosuresMove BY <1>0, <2>1, <2>2, ClosuresBegin
  <2>4. \A c \in Commands : control'[c].step = control[c].step
    BY <2>1, Closes DEF ControlInv
  <2>5. CommandsMove BY <2>1, <2>4, CommandsStay
  <2>6. WireMoves BY <1>0, <2>1, TellsAside DEF Broken, ShapesInv
  <2> QED BY <1>0, <2>3, <2>5, <2>6 DEF ClientMoves
<1>3. ASSUME NEW s \in Sessions, Machine!CloseSucceeds(s) \/ Machine!CloseFails(s)
      PROVE  ClientMoves
  <2>1. UNCHANGED <<lapsed, control, journal>>
    BY <1>3 DEF Machine!CloseSucceeds, Machine!CloseFails, Machine!ClosureEnds
  <2> QED BY <1>0, <1>3, <2>1, ClosuresEnd DEF ClientMoves
<1>4. ASSUME NEW c \in Commands, Machine!Spawned(c) PROVE ClientMoves
  <2>1. /\ control' = [control EXCEPT ![c].step = "running"] /\ control[c].step = "preparing"
        /\ UNCHANGED <<session, closing, closedSessions, lapsed, mode, conn, handler, journal>>
        /\ Machine!DeliverNothing
    BY <1>4 DEF Machine!Spawned, Machine!commandUnchanged
  <2>2. \A d \in Commands : control[d].step # "none" => control'[d].step # "none"
    BY <1>0, <2>1 DEF Controls
  <2>3. CommandsMove BY <2>1, <2>2, CommandsStay
  <2> QED BY <1>1, <2>1, <2>3
<1>5. ASSUME NEW c \in Commands, Machine!NotSpawned(c) PROVE ClientMoves
  <2>1. /\ control' = [control EXCEPT ![c] = Machine!NoControl]
        /\ Machine!Finish(c, Machine!Outcome(c, "failed"))
        /\ UNCHANGED <<session, closing, closedSessions, lapsed, mode, conn, handler>>
    BY <1>5 DEF Machine!NotSpawned, Machine!commandUnchanged
  <2>2. Machine!Outcome(c, "failed") \in Machine!Results BY OutcomeIsResult
  <2>3. CommandsMove BY <2>1, <2>2, CommandEnds
  <2>4. ClosuresMove BY <2>1, SessionsRest
  <2>5. WireMoves
    BY <1>0, <2>1, TellsAside, ReportsDiffer DEF Broken, ShapesInv, Machine!Finish
  <2> QED BY <1>0, <2>3, <2>4, <2>5 DEF ClientMoves
<1>6. ASSUME NEW c \in Commands, Machine!KillProved(c) PROVE ClientMoves
  <2>1. /\ UNCHANGED <<session, closing, closedSessions, lapsed, mode, conn, handler, journal,
                       control>>
        /\ Machine!DeliverNothing
    BY <1>6 DEF Machine!KillProved, Machine!commandUnchanged
  <2>2. CommandsMove BY <2>1, CommandsStay
  <2> QED BY <1>1, <2>1, <2>2
<1>7. ASSUME NEW c \in Commands, Machine!KillFailed(c) PROVE ClientMoves
  <2>1. UNCHANGED <<session, closing, closedSessions, lapsed, handler>>
    BY <1>7 DEF Machine!KillFailed
  <2>2. CASE control[c].step = "running"
    <3>1. /\ control' = [control EXCEPT ![c] = Machine!NoControl]
          /\ Machine!Finish(c, "execution_unknown") /\ Machine!TerminalFailure
      BY <1>7, <2>2 DEF Machine!KillFailed
    <3>2. /\ mode' # "running" /\ Broken'
          /\ conn' \in {"down", "authenticated", "closing"}
      BY <1>0, <3>1 DEF Machine!TerminalFailure, Broken, ShapesInv
    <3>3. "execution_unknown" \in Machine!Results BY DEF Machine!Results
    <3>4. CommandsMove BY <3>1, <3>2, <3>3, CommandEnds
    <3>5. ClosuresMove BY <2>1, SessionsRest
    <3>6. WireMoves BY <1>0, <3>1, <3>2, TellsAside, ReportsDiffer DEF Machine!Finish
    <3> QED BY <1>0, <3>4, <3>5, <3>6 DEF ClientMoves
  <2>3. CASE control[c].step # "running"
    <3>1. UNCHANGED <<mode, conn, control, journal>> /\ Machine!DeliverNothing
      BY <1>7, <2>3 DEF Machine!KillFailed
    <3>2. CommandsMove BY <3>1, CommandsStay
    <3> QED BY <1>1, <2>1, <3>1, <3>2
  <2> QED BY <2>2, <2>3
<1>8. ASSUME NEW c \in Commands, Machine!CancelReturns(c) PROVE ClientMoves
  <2>1. /\ UNCHANGED <<session, closing, closedSessions, lapsed, mode, journal, control, out>>
        /\ handler = <<"cancel", c>>
        /\ conn' = conn \/ conn' = "closing"
    BY <1>8 DEF Machine!CancelReturns
  <2>2. \A s : handler # <<"close", s>> BY <2>1
  <2>3. /\ conn' \in {"down", "authenticated", "closing"}
        /\ (Broken => Broken') /\ (conn' = conn \/ Broken')
    BY <1>0, <2>1 DEF Broken, ShapesInv
  <2>4. ClosuresMove BY <2>1, <2>2, SessionsRest
  <2>5. CommandsMove BY <2>1, CommandsStay
  <2>6. WireMoves BY <1>0, <2>1, <2>3, TellsAside
  <2> QED BY <1>0, <2>4, <2>5, <2>6 DEF ClientMoves
<1>9. CASE Machine!dropLocalAuthority
  <2>1. /\ mode = "stopping" /\ mode' = "dropping" /\ session' = [s \in Sessions |-> "none"]
        /\ handler = Machine!Idle
        /\ UNCHANGED <<closing, closedSessions, lapsed, journal, out, conn, handler>>
    BY <1>9 DEF Machine!dropLocalAuthority, Machine!wireVars
  <2>2. Broken /\ Broken' BY <2>1 DEF Broken
  <2>3. ClosuresMove
    <3>1. session' \in [Sessions -> {"none", "open", "closing"}] BY <2>1
    <3>2. \A s : Machine!WasClosed(s)' <=> Machine!WasClosed(s) BY <2>1 DEF Machine!WasClosed
    <3> QED BY <1>0, <2>1, <2>2, <3>1, <3>2 DEF ClosuresMove, ShapesInv, ClosingInv
  <2>4. CommandsMove BY <2>1, <2>2 DEF CommandsMove, UnderWayInv
  <2>5. WireMoves BY <1>0, <2>1, <2>2, TellsAside DEF ShapesInv
  <2> QED BY <1>0, <2>3, <2>4, <2>5 DEF ClientMoves
<1>10. CASE Machine!Dropped
  <2>1. /\ mode = "dropping" /\ mode' = "halted"
        /\ UNCHANGED <<session, closing, closedSessions, lapsed, journal, out, conn, handler>>
    BY <1>10 DEF Machine!Dropped, Machine!wireVars
  <2>2. Broken /\ Broken' BY <2>1 DEF Broken
  <2>3. ClosuresMove BY <2>1, SessionsRest
  <2>4. CommandsMove BY <2>1, <2>2 DEF CommandsMove, UnderWayInv
  <2>5. WireMoves BY <1>0, <2>1, <2>2, TellsAside DEF ShapesInv
  <2> QED BY <1>0, <2>3, <2>4, <2>5 DEF ClientMoves
<1> QED
  BY <1>2, <1>3, <1>4, <1>5, <1>6, <1>7, <1>8, <1>9, <1>10
  DEF Settling, Machine!Closure, Machine!Preparation, Machine!Termination

\* Messages of different kinds differ.
LEMMA MessagesDiffer ==
    \A s, t :
       /\ Open(s) = Open(t) => s = t
       /\ Start(s) = Start(t) => s = t
       /\ Stop(s) = Stop(t) => s = t
       /\ Open(s) # Start(t) /\ Open(s) # Stop(t) /\ Open(s) # Acknowledge(t)
       /\ Start(s) # Stop(t) /\ Start(s) # Acknowledge(t) /\ Stop(s) # Acknowledge(t)
       /\ Open(s) # Authentication /\ Start(s) # Authentication /\ Stop(s) # Authentication
BY DEF Open, Start, Stop, Acknowledge, Authentication

\* A message is handled on the connection it came by, and what it asks for is
\* done or answered.
LEMMA HandlesMessage ==
    ASSUME ControlInv, QuietInv, toMachine # <<>>, toMachine' = Tail(toMachine),
           UNCHANGED <<linkUp, mode, conn>>, conn # "down",
           \/ out' = out
           \/ \E m : /\ \A s : m = Machine!Opened(s) => session'[s] = "open"
                     /\ Machine!Deliver(<<m>>),
           conn = "authenticated" =>
              /\ \A s \in Sessions : Head(toMachine) = Open(s) => Answered(s)'
              /\ \A s \in Sessions : Head(toMachine) \in Closings(s) => ClosingOrTold(s)'
              /\ \A c \in Commands : Head(toMachine) \in {Start(c), Stop(c)} => LiveOrTold(c)'
    PROVE  WireMoves
<1>1. WireInv /\ toMachine \in Seq(Downward) /\ ShapesInv
  BY DEF ControlInv, WireInv, QuietInv
<1>2. \A m : Sent(m) <=> m = Head(toMachine) \/ Sent(m)'
  <2>1. \A m : In(m, toMachine) <=> m = Head(toMachine) \/ In(m, Tail(toMachine))
    BY <1>1, QueueHolds
  <2> QED BY <2>1 DEF Sent
<1>3. /\ Broken' <=> Broken
      /\ ~Broken => conn = "authenticated"
      /\ conn \in {"authenticated", "closing"}
  BY <1>1 DEF Broken, ShapesInv
<1>4. /\ \A m : Told(m) => Told(m)'
      /\ \A s : Told(Machine!Opened(s))' => Told(Machine!Opened(s)) \/ session'[s] = "open"
  <2>1. CASE out' = out BY <2>1 DEF Told
  <2>2. CASE \E m : /\ \A s : m = Machine!Opened(s) => session'[s] = "open"
                    /\ Machine!Deliver(<<m>>)
    BY <1>1, <2>2, DeliverTells
  <2> QED BY <2>1, <2>2
<1> QED BY <1>2, <1>3, <1>4 DEF WireMoves

\* session.open.
LEMMA OpenKeepsWatch ==
    ASSUME ControlInv, QuietInv, ClientReceives, NEW s \in Sessions, Head(toMachine) = Open(s),
           Machine!openSession(s)
    PROVE  ClientMoves
<1>0. /\ UNCHANGED <<sessionStatus, commandStatus, request, create, linkUp, reconnect, snapshot,
                     sending>>
      /\ toMachine # <<>> /\ toMachine' = Tail(toMachine)
      /\ WireInv /\ ShapesInv /\ ClosingInv
  BY DEF ClientReceives, storeVars, ControlInv, QuietInv
<1>1. /\ UNCHANGED <<mode, conn, handler, lapsed, closing, closedSessions, control, journal>>
      /\ conn # "down"
  BY DEF Machine!openSession, Machine!Receptive
<1>2. \A t : Machine!WasClosed(t)' <=> Machine!WasClosed(t) BY <1>1 DEF Machine!WasClosed
<1>3. \/ /\ Machine!WasClosed(s) /\ session' = session
         /\ Machine!Deliver(<<Machine!Closed(s, "already_closed")>>)
      \/ /\ session[s] = "open" /\ session' = session
         /\ Machine!Deliver(<<Machine!Opened(s)>>)
      \/ /\ session[s] = "none" /\ session' = [session EXCEPT ![s] = "open"]
         /\ Machine!Deliver(<<Machine!Opened(s)>>)
      \/ /\ \/ session[s] = "closing"
            \/ session[s] = "none" /\ ~Machine!localSessionDecision(s)
         /\ session' = session
         /\ Machine!Deliver(<<Machine!OpenFailed(s)>>)
  BY DEF Machine!openSession
<1>4. /\ session' \in [Sessions -> {"none", "open", "closing"}]
      /\ \A t \in Sessions : session'[t] = session[t] \/ session'[t] = "open"
  BY <1>0, <1>3 DEF ShapesInv
<1>5. ClosuresMove
  BY <1>0, <1>1, <1>2, <1>4 DEF ClosuresMove, ClosingInv, ShapesInv, ClosingOrTold
<1>6. CommandsMove BY <1>1, CommandsStay
<1>7. session[s] = "none" /\ ~Machine!localSessionDecision(s) => s \in lapsed \/ ~RoomForAll
  <2> SUFFICES ASSUME session[s] = "none", ~Machine!localSessionDecision(s), s \notin lapsed
               PROVE  ~RoomForAll
    OBVIOUS
  <2> DEFINE O == Machine!OpenSessions
  <2>1. ~(Cardinality(O) < SessionLimit) BY SameCount DEF Machine!localSessionDecision
  <2>2. O \subseteq Sessions /\ s \notin O BY DEF Machine!OpenSessions
  <2> HIDE DEF O
  <2>3. /\ IsFiniteSet(O) /\ Cardinality(O) \in Nat /\ Cardinality(Sessions) \in Nat
        /\ Cardinality(O) < Cardinality(Sessions)
    BY <2>2, SessionsAreFinite, FS_Subset, FS_CardinalityType
  <2>4. SessionLimit \in Nat BY BoundsType
  <2> QED BY <2>1, <2>3, <2>4 DEF RoomForAll
<1>8. conn = "authenticated" => Answered(s)'
  <2> SUFFICES ASSUME conn = "authenticated" PROVE Answered(s)' OBVIOUS
  <2>1. {Machine!Opened(s), Machine!OpenFailed(s), Machine!Closed(s, "already_closed")}
           \subseteq Answers(s)'
    BY DEF Answers
  <2>2. Machine!WasClosed(s) \/ session[s] = "closing" => Ended(s) BY <1>0 DEF ClosingInv
  <2>3. /\ Ended(s)' <=> Ended(s)
        /\ s \in lapsed => Ended(s)
        /\ RoomForAll' <=> RoomForAll
    BY <1>0, <1>1 DEF Ended, InForce, RoomForAll
  <2>4. \E m \in Answers(s)' : Told(m)' BY <1>0, <1>3, <2>1, DeliverTells
  <2>5. session'[s] = "open" \/ Ended(s) \/ ~RoomForAll
    BY <1>0, <1>3, <1>7, <2>2, <2>3 DEF ShapesInv
  <2> QED BY <2>3, <2>4, <2>5 DEF Answered
<1>9. \E m : /\ \A t : m = Machine!Opened(t) => session'[t] = "open"
             /\ Machine!Deliver(<<m>>)
  <2>1. session[s] = "none" /\ session' = [session EXCEPT ![s] = "open"] => session'[s] = "open"
    BY <1>0 DEF ShapesInv
  <2>2. \A t : /\ Machine!Opened(s) = Machine!Opened(t) => t = s
               /\ Machine!Closed(s, "already_closed") # Machine!Opened(t)
               /\ Machine!OpenFailed(s) # Machine!Opened(t)
    BY ReportsDiffer
  <2> QED BY <1>3, <2>1, <2>2
<1>10. WireMoves
  <2>1. /\ \A t \in Sessions : Head(toMachine) = Open(t) => t = s
        /\ \A t \in Sessions : Head(toMachine) \notin Closings(t)
        /\ \A c \in Commands : Head(toMachine) \notin {Start(c), Stop(c)}
    BY MessagesDiffer, ClosingsDiffer
  <2> QED BY <1>0, <1>1, <1>8, <1>9, <2>1, HandlesMessage
<1> QED BY <1>0, <1>5, <1>6, <1>10 DEF ClientMoves

\* session.close.
LEMMA CloseKeepsWatch ==
    ASSUME ControlInv, QuietInv, ClientReceives, NEW s \in Sessions,
           NEW reason \in {"expired", "closed"}, Head(toMachine) = Close(s, reason),
           Machine!HandleClose(s, reason)
    PROVE  ClientMoves
<1>0. /\ UNCHANGED <<sessionStatus, commandStatus, request, create, linkUp, reconnect, snapshot,
                     sending>>
      /\ toMachine # <<>> /\ toMachine' = Tail(toMachine)
      /\ WireInv /\ ShapesInv /\ ClosingInv
  BY DEF ClientReceives, storeVars, ControlInv, QuietInv
<1>1. /\ Machine!CloseSession(s, reason, FALSE)
      /\ handler = Machine!Idle /\ handler' = <<"close", s>>
      /\ UNCHANGED <<mode, conn, lapsed, journal, out>> /\ conn # "down"
  BY DEF Machine!HandleClose, Machine!Receptive, Machine!DeliverNothing
<1>2. Close(s, reason) \in Closings(s) BY DEF Closings
<1>3. Sent(Close(s, reason))
  <2>1. toMachine \in Seq(Downward) BY <1>0 DEF WireInv
  <2> QED BY <1>0, <2>1, QueueHolds DEF Sent
<1>4. Ended(s) BY <1>0, <1>2, <1>3 DEF ClosingInv, Ended
<1>5. ClosuresMove /\ closing'[s] # Machine!NotClosing BY <1>0, <1>1, <1>4, ClosuresBegin
<1>6. \A c \in Commands : control'[c].step = control[c].step
  BY <1>1, Closes DEF ControlInv
<1>7. CommandsMove BY <1>1, <1>6, CommandsStay
<1>8. WireMoves
  <2>1. /\ \A t \in Sessions : Head(toMachine) # Open(t)
        /\ \A t \in Sessions : Head(toMachine) \in Closings(t) => t = s
        /\ \A c \in Commands : Head(toMachine) \notin {Start(c), Stop(c)}
    BY <1>2, ClosingsDiffer
  <2>2. ClosingOrTold(s)' BY <1>5 DEF ClosingOrTold
  <2> QED BY <1>0, <1>1, <2>1, <2>2, HandlesMessage
<1> QED BY <1>0, <1>5, <1>7, <1>8 DEF ClientMoves

\* command.start and command.cancel.
LEMMA WorkKeepsWatch ==
    ASSUME ControlInv, QuietInv, ClientReceives, NEW c \in Commands,
           \/ Head(toMachine) = Start(c) /\ Machine!startCommand(c)
           \/ Head(toMachine) = Stop(c) /\ Machine!cancelCommand(c)
    PROVE  ClientMoves
<1>0. /\ UNCHANGED <<sessionStatus, commandStatus, request, create, linkUp, reconnect, snapshot,
                     sending>>
      /\ toMachine # <<>> /\ toMachine' = Tail(toMachine)
      /\ WireInv /\ ShapesInv /\ ClosingInv /\ UnderWayInv
      /\ journal \in [Commands -> Machine!JournalStates] /\ control \in [Commands -> Controls]
  BY DEF ClientReceives, storeVars, ControlInv, MachineInv, QuietInv
<1>1. /\ UNCHANGED <<mode, conn, session, lapsed, closing, closedSessions>>
      /\ handler = Machine!Idle /\ mode = "running" /\ conn # "down"
  BY DEF Machine!startCommand, Machine!cancelCommand, Machine!Receptive
<1>2. \/ /\ control' = [control EXCEPT ![c].step = "preparing"]
         /\ journal' = [journal EXCEPT ![c] = "running"]
         /\ Machine!Deliver(<<Machine!Started(c)>>)
      \/ /\ control' = control /\ journal' = journal /\ control[c].step # "none"
         /\ out' = out
      \/ /\ Machine!Cancel({c}) /\ journal' = journal /\ control[c].step # "none"
         /\ out' = out
      \/ \E result \in Machine!Results :
            /\ control' = control /\ Machine!Deliver(<<Machine!Completed(c, result)>>)
            /\ journal' = [journal EXCEPT ![c] = result] \/ journal' = journal
  <2>1. CASE Machine!startCommand(c) /\ Machine!startNew(c)
    BY <2>1 DEF Machine!startNew, Machine!failCommand, Machine!Finish, Machine!Results
  <2>2. CASE Machine!startCommand(c) /\ Machine!startKnown(c)
    <3>1. journal[c] \notin Machine!Results => control[c].step # "none"
      BY <1>0, <1>1, <2>2 DEF UnderWayInv, Machine!startKnown, Machine!JournalStates
    <3> QED BY <2>2, <3>1 DEF Machine!startKnown, Machine!DeliverNothing
  <2>3. CASE Machine!cancelCommand(c) /\ control[c].step # "none"
    BY <2>3 DEF Machine!cancelCommand, Machine!DeliverNothing
  <2>4. CASE Machine!cancelCommand(c) /\ control[c].step = "none"
    <3>1. \/ journal[c] \in Machine!Results /\ Machine!Deliver(<<Machine!Completed(c, journal[c])>>)
             /\ journal' = journal /\ control' = control
          \/ control' = control
             /\ Machine!Finish(c, IF journal[c] = "none" THEN "cancelled" ELSE "execution_unknown")
      BY <2>4 DEF Machine!cancelCommand
    <3> QED BY <3>1 DEF Machine!Finish, Machine!Results
  <2> QED BY <2>1, <2>2, <2>3, <2>4 DEF Machine!startCommand
<1>3. /\ \A d \in Commands : control[d].step # "none" => control'[d].step # "none"
      /\ \A d \in Commands : \/ journal'[d] = journal[d] \/ journal'[d] \notin {"received", "running"}
                             \/ control'[d].step # "none"
      /\ conn = "authenticated" => LiveOrTold(c)'
      /\ out' = out \/ \E m : (\A s : m # Machine!Opened(s)) /\ Machine!Deliver(<<m>>)
  <2>1. CASE /\ control' = [control EXCEPT ![c].step = "preparing"]
             /\ journal' = [journal EXCEPT ![c] = "running"]
             /\ Machine!Deliver(<<Machine!Started(c)>>)
    <3>1. /\ control'[c].step = "preparing"
          /\ \A d \in Commands \ {c} : control'[d] = control[d] /\ journal'[d] = journal[d]
      BY <1>0, <2>1 DEF Controls
    <3> QED BY <2>1, <3>1, ReportsDiffer DEF LiveOrTold
  <2>2. CASE /\ control' = control /\ journal' = journal /\ control[c].step # "none"
             /\ out' = out
    BY <2>2 DEF LiveOrTold
  <2>3. CASE /\ Machine!Cancel({c}) /\ journal' = journal /\ control[c].step # "none"
             /\ out' = out
    <3>1. \A d \in Commands : control'[d].step = control[d].step
      BY <2>3, Cancels DEF ControlInv
    <3> QED BY <2>3, <3>1 DEF LiveOrTold
  <2>4. ASSUME NEW result \in Machine!Results,
               control' = control, Machine!Deliver(<<Machine!Completed(c, result)>>),
               journal' = [journal EXCEPT ![c] = result] \/ journal' = journal
        PROVE  /\ \A d \in Commands : control[d].step # "none" => control'[d].step # "none"
               /\ \A d \in Commands : \/ journal'[d] = journal[d]
                                      \/ journal'[d] \notin {"received", "running"}
                                      \/ control'[d].step # "none"
               /\ conn = "authenticated" => LiveOrTold(c)'
               /\ out' = out \/ \E m : (\A s : m # Machine!Opened(s)) /\ Machine!Deliver(<<m>>)
    <3>1. Machine!Completed(c, result) \in Completions(c)' BY DEF Completions
    <3>2. conn = "authenticated" => LiveOrTold(c)'
      BY <1>0, <2>4, <3>1, DeliverTells DEF LiveOrTold
    <3>3. \A d \in Commands : journal'[d] = journal[d] \/ journal'[d] \notin {"received", "running"}
      BY <1>0, <2>4 DEF Machine!Results
    <3> QED BY <2>4, <3>2, <3>3, ReportsDiffer
  <2> QED BY <1>2, <2>1, <2>2, <2>3, <2>4
<1>4. ClosuresMove
  <2>1. \A s : handler # <<"close", s>> BY <1>1 DEF Machine!Idle
  <2> QED BY <1>1, <2>1, SessionsRest
<1>5. CommandsMove
  BY <1>0, <1>1, <1>3 DEF CommandsMove, UnderWayInv, LiveOrTold
<1>6. WireMoves
  <2>1. /\ \A s \in Sessions : Head(toMachine) # Open(s)
        /\ \A s \in Sessions : Head(toMachine) \notin Closings(s)
        /\ \A d \in Commands : Head(toMachine) \in {Start(d), Stop(d)} => d = c
    BY MessagesDiffer, ClosingsDiffer
  <2> QED BY <1>0, <1>1, <1>3, <2>1, HandlesMessage
<1> QED BY <1>0, <1>4, <1>5, <1>6 DEF ClientMoves

\* A connection is authenticated; a result is acknowledged.
LEMMA GreetingKeepsWatch ==
    ASSUME ControlInv, QuietInv, ClientReceives,
           \/ Head(toMachine) = Authentication /\ Machine!Authenticated
           \/ \E c \in Commands : /\ Head(toMachine) = Acknowledge(c)
                                  /\ Machine!Acknowledged(c) \/ AcknowledgedAgain(c)
    PROVE  ClientMoves
<1>0. /\ UNCHANGED <<sessionStatus, commandStatus, request, create, linkUp, reconnect, snapshot,
                     sending>>
      /\ toMachine # <<>> /\ toMachine' = Tail(toMachine)
      /\ WireInv /\ ShapesInv
      /\ journal \in [Commands -> Machine!JournalStates]
  BY DEF ClientReceives, storeVars, ControlInv, MachineInv, QuietInv
<1>1. \A s : \A c : /\ Authentication # Open(s) /\ Acknowledge(c) # Open(s)
                    /\ Authentication \notin Closings(s) /\ Acknowledge(c) \notin Closings(s)
                    /\ \A d : /\ Authentication # Start(d) /\ Acknowledge(c) # Start(d)
                              /\ Authentication # Stop(d) /\ Acknowledge(c) # Stop(d)
  BY MessagesDiffer, ClosingsDiffer
<1>2. CASE Head(toMachine) = Authentication /\ Machine!Authenticated
  <2>1. /\ UNCHANGED <<mode, handler, session, closing, closedSessions, lapsed, control, journal>>
        /\ mode = "running" /\ conn = "down" /\ conn' = "authenticated"
        /\ out' = out \o buffer \o Machine!Reconciliation
    BY <1>2 DEF Machine!Authenticated, Machine!volatileVars
  <2>2. ClosuresMove BY <2>1, SessionsRest
  <2>3. CommandsMove BY <2>1, CommandsStay
  <2>4. \A m : Sent(m) <=> m = Authentication \/ Sent(m)'
    <3>1. toMachine \in Seq(Downward) BY <1>0 DEF WireInv
    <3>2. \A m : In(m, toMachine) <=> m = Head(toMachine) \/ In(m, Tail(toMachine))
      BY <1>0, <3>1, QueueHolds
    <3> QED BY <1>0, <1>2, <3>2 DEF Sent
  <2>5. \A m : Told(m) => Told(m)'
    <3> DEFINE both == out \o buffer
    <3>1. out \in Seq(Upward) /\ buffer \in Seq(Upward) BY <1>0 DEF WireInv
    <3>2. both \in Seq(Upward) /\ \A m : In(m, out) => In(m, both) BY <3>1, QueueMoves, BothHold
    <3>3. out' = both \o Machine!Reconciliation BY <2>1
    <3> HIDE DEF both
    <3>4. \A m : In(m, both) => In(m, both \o Machine!Reconciliation)
      BY <3>2, ReconciliationReports, BothHold
    <3> QED BY <3>2, <3>3, <3>4 DEF Told
  <2>6. Broken => Broken' BY <1>0, <2>1 DEF Broken
  <2>7. WireMoves BY <1>1, <2>1, <2>4, <2>5, <2>6 DEF WireMoves
  <2> QED BY <1>0, <2>2, <2>3, <2>7 DEF ClientMoves
<1>3. ASSUME NEW c \in Commands, Head(toMachine) = Acknowledge(c),
             Machine!Acknowledged(c) \/ AcknowledgedAgain(c)
      PROVE  ClientMoves
  <2>1. /\ UNCHANGED <<mode, handler, session, closing, closedSessions, lapsed, control, conn, out>>
        /\ conn # "down"
        /\ journal' = journal \/ journal' = [journal EXCEPT ![c] = "none"]
    BY <1>3 DEF Machine!Acknowledged, AcknowledgedAgain, Machine!Receptive, clientVars, memoryVars,
       Machine!volatileVars, Machine!wireVars
  <2>2. ClosuresMove BY <2>1, SessionsRest
  <2>3. CommandsMove BY <1>0, <2>1, CommandsStay
  <2>4. WireMoves BY <1>0, <1>1, <1>3, <2>1, HandlesMessage
  <2> QED BY <1>0, <2>2, <2>3, <2>4 DEF ClientMoves
<1> QED BY <1>2, <1>3

\* The next message is handled.
LEMMA ReceiveKeepsWatch == ASSUME ControlInv, QuietInv, ClientReceives PROVE ClientMoves
<1> DEFINE message == Head(toMachine)
<1>1. message \in Downward /\ RowsInv
  BY QueueMoves DEF ClientReceives, ControlInv, WireInv
<1>2. Handle(message) BY DEF ClientReceives
<1> HIDE DEF message
<1>3. /\ message.type = "session.open" => message.id \in Sessions /\ message = Open(message.id)
      /\ message.type = "session.close" =>
            /\ message.id \in Sessions /\ message.value \in {"expired", "closed"}
            /\ message = Close(message.id, message.value)
      /\ message.type = "command.start" => message.id \in Commands /\ message = Start(message.id)
      /\ message.type = "command.cancel" => message.id \in Commands /\ message = Stop(message.id)
      /\ message.type = "command.acknowledged" =>
            message.id \in Commands /\ message = Acknowledge(message.id)
  BY <1>1, DownwardNames DEF Known, Over
<1>4. CASE message = Authentication /\ Machine!Authenticated
  BY <1>4, GreetingKeepsWatch DEF message
<1>5. CASE message.type = "session.open" /\ Machine!openSession(message.id)
  BY <1>3, <1>5, OpenKeepsWatch DEF message
<1>6. CASE message.type = "session.close" /\ Machine!HandleClose(message.id, message.value)
  BY <1>3, <1>6, CloseKeepsWatch DEF message
<1>7. CASE message.type = "command.start" /\ Machine!startCommand(message.id)
  BY <1>3, <1>7, WorkKeepsWatch DEF message
<1>8. CASE message.type = "command.cancel" /\ Machine!cancelCommand(message.id)
  BY <1>3, <1>8, WorkKeepsWatch DEF message
<1>9. CASE /\ message.type = "command.acknowledged"
           /\ Machine!Acknowledged(message.id) \/ AcknowledgedAgain(message.id)
  BY <1>3, <1>9, GreetingKeepsWatch DEF message
<1> QED BY <1>2, <1>4, <1>5, <1>6, <1>7, <1>8, <1>9 DEF Handle

\* What the Command's process and its timer do.
LEMMA ProcessKeepsWatch ==
    ASSUME ControlInv, QuietInv, NEW c \in Commands, ProcessEvent(c)
    PROVE  ClientMoves
<1>0. /\ UNCHANGED <<sessionStatus, commandStatus, request, create, linkUp, reconnect, snapshot,
                     sending, toMachine>>
      /\ WireInv /\ ShapesInv
      /\ control \in [Commands -> Controls]
  BY DEF ProcessEvent, storeVars, wireVars, ControlInv, MachineInv, QuietInv
<1>1. ASSUME UNCHANGED <<session, closing, closedSessions, lapsed, handler, mode, conn>>, CommandsMove,
             out' = out \/ \E m : (\A s : m # Machine!Opened(s)) /\ Machine!Deliver(<<m>>)
      PROVE  ClientMoves
  <2>1. ClosuresMove BY <1>1, SessionsRest
  <2>2. WireMoves BY <1>0, <1>1, TellsAside DEF Broken, ShapesInv
  <2> QED BY <1>0, <1>1, <2>1, <2>2 DEF ClientMoves
<1>2. CASE Machine!Timeout(c)
  <2>1. /\ control' = [control EXCEPT ![c].timedOut = TRUE, ![c].cancelled = TRUE]
        /\ UNCHANGED <<session, closing, closedSessions, lapsed, handler, mode, conn, journal, out>>
    BY <1>2 DEF Machine!Timeout, Machine!commandUnchanged, Machine!DeliverNothing
  <2>2. \A d \in Commands : control'[d].step = control[d].step BY <1>0, <2>1 DEF Controls
  <2>3. CommandsMove BY <2>1, <2>2, CommandsStay
  <2> QED BY <1>1, <2>1, <2>3
<1>3. CASE Machine!GroupEnds(c)
  <2>1. UNCHANGED <<session, closing, closedSessions, lapsed, handler, mode, conn, journal, out, control>>
    BY <1>3 DEF Machine!GroupEnds, Machine!wireVars, Machine!volatileVars
  <2>2. CommandsMove BY <2>1, CommandsStay
  <2> QED BY <1>1, <2>1, <2>2
<1>4. ASSUME NEW natural \in {"succeeded", "failed"}, Machine!Exit(c, natural)
      PROVE  ClientMoves
  <2>1. /\ control' = [control EXCEPT ![c] = Machine!NoControl]
        /\ Machine!Finish(c, Machine!Outcome(c, natural))
        /\ UNCHANGED <<session, closing, closedSessions, lapsed, handler, mode, conn>>
    BY <1>4 DEF Machine!Exit, Machine!commandUnchanged
  <2>2. Machine!Outcome(c, natural) \in Machine!Results BY OutcomeIsResult
  <2>3. CommandsMove BY <2>1, <2>2, CommandEnds
  <2>4. \E m : (\A s : m # Machine!Opened(s)) /\ Machine!Deliver(<<m>>)
    BY <2>1, ReportsDiffer DEF Machine!Finish
  <2> QED BY <1>1, <2>1, <2>3, <2>4
<1> QED BY <1>2, <1>3, <1>4 DEF ProcessEvent

\* A deadline that passes locally, and a signal to stop.
LEMMA AsideKeepsWatch ==
    ASSUME ControlInv, QuietInv, StopGracefully \/ \E s \in Sessions : Lapse(s)
    PROVE  ClientMoves
<1>0. /\ UNCHANGED <<sessionStatus, commandStatus, request, create, linkUp, reconnect, snapshot,
                     sending, toMachine>>
      /\ WireInv /\ ShapesInv
  BY DEF StopGracefully, Lapse, clientOnly, storeVars, wireVars, ControlInv, QuietInv
<1>1. /\ UNCHANGED <<session, closing, closedSessions, handler, control, journal, out>>
      /\ lapsed \subseteq lapsed'
      /\ \/ UNCHANGED <<mode, conn>>
         \/ mode' = "stopping" /\ conn' = "down"
  BY DEF StopGracefully, Lapse, Machine!StopGracefully, Machine!Lapse, Machine!volatileVars,
     Machine!wireVars
<1>2. /\ conn' \in {"down", "authenticated", "closing"}
      /\ mode' = "running" => mode = "running"
      /\ (Broken => Broken') /\ (conn' = conn \/ Broken')
  BY <1>0, <1>1 DEF Broken, ShapesInv
<1>3. ClosuresMove BY <1>1, SessionsRest
<1>4. CommandsMove BY <1>1, <1>2, CommandsStay
<1>5. WireMoves BY <1>0, <1>1, <1>2, TellsAside
<1> QED BY <1>0, <1>3, <1>4, <1>5 DEF ClientMoves

-----------------------------------------------------------------------------
(* A report the Server takes is answered for by its row *)

\* What a report does to the rows: it is taken, or it is of what is over.
LEMMA ReportsRecorded ==
    ASSUME ControlInv, ShapesInv, ServerReceives
    PROVE  /\ sessionStatus' \in [Sessions -> Store!SessionStatuses \cup {"none"}]
           /\ UNCHANGED <<request, create, expiresAt>>
           /\ \A s \in Sessions :
                 /\ sessionStatus'[s] \in {"opening", "cancellation_requested"} =>
                       sessionStatus[s] = sessionStatus'[s]
                 /\ sessionStatus'[s] = "active" =>
                       sessionStatus[s] = "active"
                       \/ (sessionStatus[s] = "opening" /\ Head(out) = Machine!Opened(s))
                 /\ sessionStatus'[s] = "opening" => Head(out) \notin Answers(s)
                 /\ sessionStatus'[s] = "cancellation_requested" => Head(out) \notin Closeds(s)
           /\ \A c \in Commands : commandStatus'[c] \in Store!ActiveCommandStatuses =>
                 /\ commandStatus[c] \in Store!ActiveCommandStatuses
                 /\ Head(out) \notin Completions(c)
<1>0. /\ commandStatus \in [Commands -> Store!CommandStatuses \cup {"none"}]
      /\ sessionStatus \in [Sessions -> Store!SessionStatuses \cup {"none"}]
      /\ out \in Seq(Upward) /\ out # <<>>
  BY DEF ControlInv, RowsInv, WireInv, ShapesInv, ServerReceives, Machine!ServerReceives
<1> DEFINE report == Head(out)
<1>1. report \in Upward BY <1>0, QueueMoves
<1>2. IF Recordable(report) THEN Record(report) ELSE UNCHANGED storeVars
  BY DEF ServerReceives
<1> HIDE DEF report
<1>3. /\ report.type = "command.completed" => report.id \in Known /\ report.value \in Machine!Results
      /\ report.type \in {"session.opened", "session.open_failed", "session.closed",
                          "command.started", "command.completed"}
      /\ report.type \in {"session.opened", "session.open_failed", "session.closed"} =>
            report.id \in Sessions
      /\ report.type = "session.opened" => report = Machine!Opened(report.id)
  <2> USE DEF Machine!Opened, Machine!OpenFailed, Machine!Closed, Machine!Started,
              Machine!Completed
  <2>1. CASE \E s \in Sessions : report = Machine!Opened(s) \/ report = Machine!OpenFailed(s)
    BY <2>1
  <2>2. CASE \E s \in Sessions, r \in {"expired", "closed", "none", "already_closed"} :
                report = Machine!Closed(s, r)
    BY <2>2
  <2>3. CASE \E c \in Known \cap (Journaled \cup Over) : report = Machine!Started(c) BY <2>3
  <2>4. CASE \E c \in Known, r \in Machine!Results : report = Machine!Completed(c, r) BY <2>4
  <2> QED BY <1>1, <2>1, <2>2, <2>3, <2>4 DEF Upward
<1>4. /\ \A s : report \in Answers(s) =>
            /\ report.id = s
            /\ report.type \in {"session.opened", "session.open_failed", "session.closed"}
      /\ \A s : report \in Closeds(s) => report.id = s /\ report.type = "session.closed"
      /\ \A c : report \in Completions(c) => report.id = c /\ report.type = "command.completed"
  BY DEF Answers, Closeds, Completions, Machine!Opened, Machine!OpenFailed, Machine!Closed,
     Machine!Completed
<1>5. UNCHANGED <<request, create, expiresAt>>
  BY <1>2 DEF Record, storeVars, Store!markSessionOpened, Store!markSessionFailed,
     Store!markSessionClosed, Store!markCommandStarted, Store!markCommandCompleted,
     Store!reportUnchanged, Store!otherColumnsUnchanged, Store!callsUnchanged, Store!callVars
<1> USE DEF Store!ActiveCommandStatuses
<1>6. CASE ~Recordable(report)
  <2>1. sessionStatus' = sessionStatus /\ commandStatus' = commandStatus
    BY <1>2, <1>6 DEF storeVars
  <2> QED BY <1>0, <1>3, <1>4, <1>5, <1>6, <2>1 DEF Recordable, Reconciled, report
<1>7. CASE Recordable(report) /\ report.type = "session.opened"
  <2> DEFINE t == report.id
  <2>1. /\ sessionStatus[t] = "opening" /\ commandStatus' = commandStatus
        /\ sessionStatus' = [sessionStatus EXCEPT ![t] = "active"]
    BY <1>2, <1>7 DEF Record, Store!markSessionOpened
  <2>2. t \in Sessions /\ report = Machine!Opened(t) BY <1>3, <1>7
  <2>3. \A c : report \notin Completions(c) BY <1>4, <1>7
  <2>4. \A s \in Sessions : report \in Answers(s) \/ report \in Closeds(s) => s = t BY <1>4
  <2> HIDE DEF t
  <2>5. sessionStatus' \in [Sessions -> Store!SessionStatuses \cup {"none"}]
    BY <1>0, <2>1 DEF Store!SessionStatuses, Store!ActiveSessionStatuses
  <2> QED BY <1>0, <1>5, <2>1, <2>2, <2>3, <2>4, <2>5 DEF report
<1>8. CASE Recordable(report) /\ report.type \in {"session.open_failed", "session.closed"}
  <2> DEFINE t == report.id
  <2>1. PICK status \in {"failed", "expired", "cancelled"} :
           /\ commandStatus' = commandStatus
           /\ sessionStatus' = [sessionStatus EXCEPT ![t] = status]
    BY <1>2, <1>8 DEF Record, Store!markSessionFailed, Store!markSessionClosed
  <2>2. t \in Sessions BY <1>3, <1>8
  <2>3. \A c : report \notin Completions(c) BY <1>4, <1>8
  <2>4. \A s \in Sessions : report \in Answers(s) \/ report \in Closeds(s) => s = t BY <1>4
  <2> HIDE DEF t
  <2>5. sessionStatus' \in [Sessions -> Store!SessionStatuses \cup {"none"}]
    BY <1>0, <2>1
    DEF Store!SessionStatuses, Store!ActiveSessionStatuses, Store!TerminalSessionStatuses
  <2> QED BY <1>0, <1>5, <2>1, <2>2, <2>3, <2>4, <2>5 DEF report
<1>9. CASE Recordable(report) /\ report.type \in {"command.started", "command.completed"}
  <2> DEFINE d == report.id
  <2>1. /\ sessionStatus' = sessionStatus /\ commandStatus[d] \in Store!ActiveCommandStatuses
        /\ \/ report.type = "command.started"
              /\ commandStatus' = [commandStatus EXCEPT ![d] = "running"]
           \/ report.type = "command.completed"
              /\ commandStatus' = [commandStatus EXCEPT ![d] = report.value]
    BY <1>2, <1>9 DEF Record, Store!markCommandStarted, Store!markCommandCompleted
  <2>2. \A s : report \notin Answers(s) /\ report \notin Closeds(s) BY <1>4, <1>9
  <2>3. /\ report.type = "command.completed" =>
              report.value \in Machine!Results /\ d \in Commands
        /\ \A c : report \in Completions(c) => c = d /\ report.type = "command.completed"
    BY <1>3, <1>4 DEF Known
  <2> HIDE DEF d
  <2>4. Machine!Results \cap Store!ActiveCommandStatuses = {} BY DEF Machine!Results
  <2>5. ASSUME NEW c \in Commands, commandStatus'[c] \in Store!ActiveCommandStatuses
        PROVE  commandStatus[c] \in Store!ActiveCommandStatuses /\ report \notin Completions(c)
    <3>1. CASE c = d /\ report.type = "command.completed"
      <4>1. commandStatus'[c] = report.value BY <1>0, <2>1, <3>1
      <4> QED BY <2>3, <2>4, <2>5, <3>1, <4>1
    <3>2. CASE c = d /\ report.type # "command.completed" BY <2>1, <2>3, <3>2
    <3>3. CASE c # d BY <1>0, <2>1, <2>3, <2>5, <3>3
    <3> QED BY <3>1, <3>2, <3>3
  <2> QED BY <1>0, <1>5, <2>1, <2>2, <2>5 DEF report
<1> QED BY <1>3, <1>6, <1>7, <1>8, <1>9

\* The report leaves the wire and answers for what was awaited of it.
LEMMA ServerReceivesKeepsQuiet == ASSUME ControlInv, QuietInv, ServerReceives PROVE QuietInv'
<1>0. /\ ShapesInv /\ ConnInv /\ OpeningInv /\ EndingInv /\ OpenInv /\ ClosingInv /\ WorkInv
      /\ UnderWayInv /\ WireInv
  BY DEF QuietInv, ControlInv
<1> DEFINE report == Head(out)
<1>1. /\ out # <<>> /\ out' = Tail(out) /\ out \in Seq(Upward)
      /\ UNCHANGED <<linkUp, reconnect, snapshot, mode, conn, handler, session, lapsed, closing,
                     closedSessions, control, journal, sending>>
      /\ IF report.type = "command.completed"
         THEN toMachine' = Append(toMachine, Acknowledge(report.id)) ELSE UNCHANGED toMachine
  BY <1>0 DEF ServerReceives, Machine!ServerReceives, Machine!volatileVars, WireInv
<1>2. /\ sessionStatus' \in [Sessions -> Store!SessionStatuses \cup {"none"}]
      /\ UNCHANGED <<request, create>>
      /\ \A s \in Sessions :
            /\ sessionStatus'[s] \in {"opening", "cancellation_requested"} =>
                  sessionStatus[s] = sessionStatus'[s]
            /\ sessionStatus'[s] = "active" =>
                  sessionStatus[s] = "active"
                  \/ (sessionStatus[s] = "opening" /\ report = Machine!Opened(s))
            /\ sessionStatus'[s] = "opening" => report \notin Answers(s)
            /\ sessionStatus'[s] = "cancellation_requested" => report \notin Closeds(s)
      /\ \A c \in Commands : commandStatus'[c] \in Store!ActiveCommandStatuses =>
            /\ commandStatus[c] \in Store!ActiveCommandStatuses
            /\ report \notin Completions(c)
  BY <1>0, ReportsRecorded
<1>3. \A m : Told(m) <=> m = report \/ Told(m)'
  BY <1>1, QueueHolds DEF Told
<1> HIDE DEF report
<1>4. /\ \A m : Sent(m) => Sent(m)'
      /\ \A s : \A m \in Closings(s) : Sent(m)' => Sent(m)
      /\ toMachine # <<>> => toMachine' # <<>> /\ Head(toMachine') = Head(toMachine)
  <2>1. CASE report.type = "command.completed"
    <3> DEFINE message == Acknowledge(report.id)
               A == Downward \cup {message}
    <3>1. toMachine \in Seq(A)
      <4>1. toMachine \in Seq(Downward) /\ Downward \subseteq A BY <1>0 DEF WireInv
      <4> HIDE DEF A
      <4> QED BY <4>1, SeqGrows
    <3>2. message \in A /\ toMachine' = Append(toMachine, message) BY <1>1, <2>1
    <3>3. \A s : \A m \in Closings(s) : m # message BY ClosingsDiffer
    <3> HIDE DEF A, message
    <3>4. \A m : In(m, toMachine') <=> In(m, toMachine) \/ m = message BY <3>1, <3>2, QueueHolds
    <3>5. /\ Len(toMachine) \in Nat /\ Len(toMachine') = Len(toMachine) + 1
          /\ \A i \in 1..Len(toMachine) : toMachine'[i] = toMachine[i]
          /\ toMachine' \in Seq(A)
      BY <3>1, <3>2, AppendProperties, LenProperties
    <3>6. toMachine' # <<>> BY <3>5, EmptySeq
    <3>7. ASSUME toMachine # <<>> PROVE Head(toMachine') = Head(toMachine)
      <4>1. Head(toMachine) = toMachine[1] /\ Len(toMachine) # 0
        BY <3>1, <3>7, HeadTailProperties, EmptySeq
      <4>2. Head(toMachine') = toMachine'[1] BY <3>5, <3>6, HeadTailProperties
      <4> QED BY <3>5, <4>1, <4>2
    <3> QED BY <3>3, <3>4, <3>6, <3>7 DEF Sent
  <2>2. CASE report.type # "command.completed" BY <1>1, <2>2 DEF Sent
  <2> QED BY <2>1, <2>2
<1>5. /\ Broken' <=> Broken
      /\ \A m : ToSend(m)' <=> ToSend(m)
      /\ \A s : (Covered(s)' <=> Covered(s)) /\ (Awaited(s) => Awaited(s)')
      /\ \A s : Answers(s)' = Answers(s) /\ Closings(s)' = Closings(s) /\ Closeds(s)' = Closeds(s)
      /\ \A c : Completions(c)' = Completions(c)
      /\ RoomForAll' <=> RoomForAll
  BY <1>1, <1>4
  DEF Broken, ToSend, Covered, Awaited, Answers, Closings, Closeds, Completions, RoomForAll
<1>6. \A s \in Sessions : /\ InForce(s)' => InForce(s)
                          /\ Ended(s) => Ended(s)'
  BY <1>1, <1>2 DEF InForce, Granted, Ended
<1>7. ShapesInv' BY <1>0, <1>1, <1>2 DEF ShapesInv
<1>8. ConnInv' BY <1>0, <1>1, <1>4, <1>5 DEF ConnInv
<1>9. OpeningInv' BY <1>0, <1>2, <1>3, <1>5 DEF OpeningInv
<1>10. EndingInv' BY <1>0, <1>1, <1>2, <1>3, <1>4, <1>5 DEF EndingInv
<1>11. OpenInv' BY <1>0, <1>1, <1>2, <1>3, <1>5, <1>6 DEF OpenInv
<1>12. ClosingInv' BY <1>0, <1>1, <1>4, <1>5, <1>6 DEF ClosingInv, Machine!WasClosed
<1>13. WorkInv'
  <2>1. \A c \in Commands : Store!SessionOf[c] \in Sessions BY OrderType DEF Store!SessionOf
  <2> QED BY <1>0, <1>1, <1>2, <1>3, <1>4, <1>5, <1>6, <2>1 DEF WorkInv
<1>14. UnderWayInv' BY <1>0, <1>1 DEF UnderWayInv
<1> QED BY <1>7, <1>8, <1>9, <1>10, <1>11, <1>12, <1>13, <1>14 DEF QuietInv

-----------------------------------------------------------------------------
(* The second theorem *)

\* Every step leaves what is awaited awaited, or brings its answer.
LEMMA QuietStep == ControlInv /\ QuietInv /\ [Next]_vars => QuietInv'
<1> SUFFICES ASSUME ControlInv, QuietInv, [Next]_vars PROVE QuietInv' OBVIOUS
<1>1. ASSUME \/ \E s \in Sessions : DeliverOpen(s)
             \/ \E c \in Commands : CreateStep(c) \/ DeliverStart(c)
      PROVE  QuietInv'
  BY <1>1, CallsKeepWatch, ServerMovesKeep
<1>2. ASSUME \/ \E s \in Sessions : \/ SuperviseAgain(s) \/ CompleteSession(s)
                                    \/ CancelSession(s) \/ FinishAgain(s)
             \/ \E c \in Commands : CancelCommand(c)
             \/ Sweep \/ Tick
      PROVE  QuietInv'
  BY <1>2, OperationsKeepWatch, ServerMovesKeep
<1>3. CASE Send BY <1>3, SendKeepsWatch, ServerMovesKeep
<1>4. CASE Reconnect \/ ReadSessions \/ ReadCommands
  BY <1>4, ReconnectKeepsQuiet, ReadSessionsKeepsQuiet, ReadCommandsKeepsQuiet
<1>5. CASE Break \/ Hangup BY <1>5, CutKeepsQuiet
<1>6. CASE ClientReceives BY <1>6, ReceiveKeepsWatch, ClientMovesKeep
<1>7. CASE ServerReceives BY <1>7, ServerReceivesKeepsQuiet
<1>8. CASE Settling BY <1>8, SettlingKeepsWatch, ClientMovesKeep
<1>9. ASSUME NEW c \in Commands, ProcessEvent(c) PROVE QuietInv'
  BY <1>9, ProcessKeepsWatch, ClientMovesKeep
<1>10. CASE Crash \/ Restart BY <1>10, CrashKeepsQuiet, RestartKeepsQuiet
<1>11. ASSUME StopGracefully \/ \E s \in Sessions : Lapse(s) PROVE QuietInv'
  BY <1>11, AsideKeepsWatch, ClientMovesKeep
<1>12. CASE UNCHANGED vars
  <2>1. /\ UNCHANGED <<linkUp, reconnect, snapshot, mode, conn, handler, session, lapsed, closing,
                       closedSessions, control, journal, out, toMachine, sending>>
        /\ UNCHANGED <<sessionStatus, commandStatus, request, create>>
    BY <1>12 DEF vars, storeVars, clientVars, memoryVars, wireVars
  <2>2. \A m : (Sent(m)' <=> Sent(m)) /\ (ToSend(m)' <=> ToSend(m))
    BY <2>1 DEF Sent, ToSend
  <2>3. ServerMoves BY <2>1, <2>2 DEF ServerMoves, QuietInv, ShapesInv
  <2> QED BY <2>3, ServerMovesKeep
<1> QED
  BY <1>1, <1>2, <1>3, <1>4, <1>5, <1>6, <1>7, <1>8, <1>9, <1>10, <1>11, <1>12
  DEF Next, Connecting

\* Whatever breaks, crashes, is repeated or arrives late: for everything the
\* Server waits for, a message, a handler or a reconciliation is on its way that
\* will settle it.
THEOREM ControlQuietInvariant == Spec => []QuietInv
BY QuietInit, QuietStep, ControlInvariant, PTL DEF Spec

\* What a connection with nothing on its way has answered, however many
\* Sessions there are: no request to open or to close a Session is pending, and
\* every Command the Server waits for, in an active Session, is under way.
QuietMeansAnswered == Quiet =>
    /\ \A s \in Sessions : sessionStatus[s] \notin {"opening", "cancellation_requested"}
    /\ \A c \in Commands :
          /\ commandStatus[c] \in Store!ActiveCommandStatuses
          /\ sessionStatus[Store!SessionOf[c]] = "active"
          => control[c].step # "none"

\* When nothing is on its way, there is no witness left but the answer.
LEMMA QuietAnswers ==
    ASSUME QuietInv, Quiet
    PROVE  /\ QuietMeansAnswered
           /\ RoomForAll => \A s \in Sessions :
                 sessionStatus[s] = "active" /\ s \notin lapsed => session[s] = "open"
<1>1. /\ ~Broken /\ conn = "authenticated" /\ reconnect = "none"
      /\ \A s \in Sessions : request[s].step = "done" /\ closing[s] = Machine!NotClosing
      /\ \A c \in Commands : create[c].step # "deliver"
      /\ toMachine = <<>> /\ sending = {} /\ out = <<>>
  BY DEF Quiet, Broken
<1>2. \A m : ~Sent(m) /\ ~Told(m) /\ ~ToSend(m) BY <1>1 DEF Sent, Told, ToSend, In
<1>3. \A s : ~Awaited(s) /\ ~Covered(s) BY <1>1, <1>2 DEF Awaited, Covered
<1>4. \A s \in Sessions : sessionStatus[s] # "opening"
  BY <1>1, <1>2, <1>3 DEF QuietInv, OpeningInv
<1>5. \A s \in Sessions : sessionStatus[s] # "cancellation_requested"
  BY <1>1, <1>2 DEF QuietInv, EndingInv
<1>6. ASSUME NEW c \in Commands, commandStatus[c] \in Store!ActiveCommandStatuses,
             sessionStatus[Store!SessionOf[c]] = "active"
      PROVE  control[c].step # "none"
  BY <1>1, <1>2, <1>3, <1>6 DEF QuietInv, WorkInv, InForce, Granted
<1>7. RoomForAll => \A s \in Sessions :
         sessionStatus[s] = "active" /\ s \notin lapsed => session[s] = "open"
  BY <1>1, <1>3 DEF QuietInv, OpenInv, InForce, Granted
<1> QED BY <1>4, <1>5, <1>6, <1>7 DEF QuietMeansAnswered

\* When nothing is on its way, everything was answered.  Whatever a break or a
\* crash lost, reconciliation made good.
\* (sessionReconnectMessages, reconcileJournalResults)
THEOREM ControlQuietMeansAnswered == Spec => []QuietMeansAnswered
<1>1. QuietInv => QuietMeansAnswered BY QuietAnswers DEF QuietMeansAnswered
<1> QED BY <1>1, ControlQuietInvariant, PTL

\* With a Server that admits no more Sessions than the Local Policy has room
\* for, the two agree: every active Session is open at the Client, too, or has
\* run out there.
\* (countActiveSessions, sessionReconnectMessages, openSession)
THEOREM ControlQuietMeansAgreed ==
    ASSUME RoomForAll
    PROVE  Spec => []QuietMeansAgreed
<1>1. QuietInv => QuietMeansAgreed
  BY QuietAnswers, RoomForAll DEF QuietMeansAgreed, QuietMeansAnswered
<1> QED BY <1>1, ControlQuietInvariant, PTL

=============================================================================
