------------------------------- MODULE CommandOutput -------------------------------
(*****************************************************************************)
(* The output of Commands on its way from a process to the Server: the       *)
(* Client's emit, its message buffer, the journal's output columns and the   *)
(* Server's chunks, with connections that break and a Client that crashes.   *)
(*                                                                           *)
(* A chunk is its sequence number; bytes are counted in chunks.  A handler   *)
(* of either side runs to its end without awaiting, so it is one action; a   *)
(* message of the Server's per-socket queue is handled when its turn comes,  *)
(* be the socket broken by then or not.  Of the other reports only           *)
(* command.completed is here (SessionControl has them all).                  *)
(*****************************************************************************)
EXTENDS Naturals, Sequences, FiniteSets

CONSTANTS
    Commands,
    MaxWritten,      \* bound on the chunks a process writes
    ChunkLimit,      \* min(maxOutputBytes, maxCommandOutputBytes) of each Command
    BufferMessages,  \* ClientMessageBuffer.maximumMessages
    BufferChunks,    \* ClientMessageBuffer.maximumOutputBytes
    ServerLimit,     \* DEFAULT_COMMAND_OUTPUT_BYTES
    PageChunks,      \* the limit of commandOutput's query
    MaxConnections,  \* bound on the connections of the Client
    MaxCrashes,      \* bound on the Client's crashes
    MaxFailures      \* bound on the Server's failed statements

\* The Server sends its own limit along with a Command, and the Client takes
\* the smaller of that and of the policy's.
ASSUME OutputBounds ==
    /\ {MaxWritten, BufferChunks, ServerLimit, MaxCrashes, MaxFailures} \subseteq Nat
    /\ {BufferMessages, PageChunks, MaxConnections} \subseteq Nat \ {0}
    /\ ChunkLimit \in [Commands -> 0..ServerLimit]

VARIABLES
    execution,    \* startCommand of each Command
    written,      \* chunks its process has written
    sequence,     \* startCommand's sequence, the chunks delivered
    dropping,     \* startCommand's outputTruncated
    truncatedCommands,    \* Client.outputTruncatedCommands
    unconfirmedCommands,  \* Client.unconfirmedOutputCommands
    bufferedMessages,     \* Client.bufferedMessages
    journal,      \* rows of commands.sqlite
    link,         \* the Client's socket
    connection,   \* number of the current connection
    incoming,     \* per connection, the messages the Server has yet to handle
    acknowledged, \* command.acknowledged on their way on the current connection
    row,          \* status and outputTruncated of the Server's rows
    chunks,       \* commandOutputChunks of each Command
    failed,       \* Commands with a chunk the Server failed to store
    seen,         \* chunks an Agent has read
    cursor,       \* the number of chunks its cursor is behind
    crashes, failures

processVars == <<execution, written, sequence, dropping>>
marks == <<truncatedCommands, unconfirmedCommands>>
serverVars == <<row, chunks, failed, failures>>
readerVars == <<seen, cursor>>
outputVars == <<processVars, marks, bufferedMessages, journal, link, connection, incoming,
                acknowledged, serverVars, readerVars, crashes>>

Output(c, n) == [type |-> "output", command |-> c, sequence |-> n]
Completed(c, truncated) == [type |-> "completed", command |-> c, truncated |-> truncated]
OutputMessages ==
    [type : {"output"}, command : Commands, sequence : Nat]
    \cup [type : {"completed"}, command : Commands, truncated : BOOLEAN]

NoRow == [state |-> "none", result |-> "none", truncated |-> FALSE, unconfirmed |-> FALSE]
JournalRows == [state : {"none", "running", "completed"},
                result : {"none", "whole", "truncated"},
                truncated : BOOLEAN, unconfirmed : BOOLEAN]

\* A broken connection still looks open to the Client for a while ("dead"), is
\* not writable any more ("closing") and has its close event ("down").  On a
\* connection the Server has closed ("refused") messages still arrive.
Links == {"up", "refused", "dead", "closing", "down"}
LooksOpen == link \in {"up", "refused", "dead"}
Carries == link \in {"up", "refused"}

\* Journal rows, marks, messages and rows are what they are said to be.
OutputTypeOK ==
    /\ execution \in [Commands -> {"idle", "running", "ended", "lost"}]
    /\ written \in [Commands -> Nat] /\ sequence \in [Commands -> Nat]
    /\ dropping \in [Commands -> BOOLEAN]
    /\ truncatedCommands \subseteq Commands /\ unconfirmedCommands \subseteq Commands
    /\ bufferedMessages \in Seq(OutputMessages)
    /\ journal \in [Commands -> JournalRows]
    /\ link \in Links
    /\ connection \in 1..MaxConnections
    /\ incoming \in [1..MaxConnections -> Seq(OutputMessages)]
    /\ acknowledged \subseteq Commands
    /\ row \in [Commands -> {"active", "withdrawn", "whole", "truncated"}]
    /\ chunks \in [Commands -> SUBSET Nat] /\ failed \subseteq Commands
    /\ seen \in [Commands -> SUBSET Nat] /\ cursor \in [Commands -> Nat]
    /\ crashes \in Nat /\ failures \in Nat

OutputInit ==
    /\ execution = [c \in Commands |-> "idle"]
    /\ written = [c \in Commands |-> 0]
    /\ sequence = [c \in Commands |-> 0]
    /\ dropping = [c \in Commands |-> FALSE]
    /\ truncatedCommands = {} /\ unconfirmedCommands = {}
    /\ bufferedMessages = <<>>
    /\ journal = [c \in Commands |-> NoRow]
    /\ link = "up" /\ connection = 1
    /\ incoming = [k \in 1..MaxConnections |-> <<>>]
    /\ acknowledged = {}
    /\ row = [c \in Commands |-> "active"]
    /\ chunks = [c \in Commands |-> {}]
    /\ failed = {} /\ failures = 0
    /\ seen = [c \in Commands |-> {}]
    /\ cursor = [c \in Commands |-> 0]
    /\ crashes = 0

-----------------------------------------------------------------------------
(* The journal's columns and the buffer *)

\* markOutputUnconfirmed: not on a row that is truncated already.
markOutputUnconfirmed(j) ==
    IF j.state = "none" \/ j.truncated THEN j ELSE [j EXCEPT !.unconfirmed = TRUE]

\* markOutputTruncated: a stored result is rewritten, too.
markOutputTruncated(j) ==
    IF j.state = "none" THEN j
    ELSE [j EXCEPT !.truncated = TRUE, !.unconfirmed = FALSE,
                   !.result = IF @ = "none" THEN @ ELSE "truncated"]

\* complete: the column wins over the result at hand.
complete(j, truncated) ==
    LET incomplete == truncated \/ j.truncated IN
    [j EXCEPT !.state = "completed", !.truncated = incomplete,
              !.result = IF incomplete THEN "truncated" ELSE "whole"]

\* A variant with a defect: unconfirmed output is taken as delivered.
recoverTrusting(j) ==
    LET incomplete == j.truncated \/ j.result = "truncated" IN
    IF j.state = "none" \/ (j.state = "completed" /\ ~j.unconfirmed) THEN j
    ELSE [j EXCEPT !.state = "completed", !.truncated = incomplete, !.unconfirmed = FALSE,
                   !.result = IF incomplete THEN "truncated" ELSE "whole"]

\* recoverInterrupted: what was not confirmed may be lost.
recoverInterrupted(j) ==
    LET incomplete == j.truncated \/ j.unconfirmed \/ j.result = "truncated" IN
    IF j.state = "none" \/ (j.state = "completed" /\ ~j.unconfirmed) THEN j
    ELSE [j EXCEPT !.state = "completed", !.truncated = incomplete, !.unconfirmed = FALSE,
                   !.result = IF incomplete THEN "truncated" ELSE "whole"]

IsOutput(m) == m.type = "output"
OutputBytes(q) == Cardinality({i \in DOMAIN q : IsOutput(q[i])})

\* The completions of the Commands C that wait in the buffer say so.
MarkBuffered(q, C) ==
    [i \in DOMAIN q |-> IF q[i].type = "completed" /\ q[i].command \in C
                        THEN [q[i] EXCEPT !.truncated = TRUE] ELSE q[i]]

\* Where a full buffer makes room: its first output, else its first message.
Evicted(q) ==
    IF \E i \in DOMAIN q : IsOutput(q[i])
    THEN CHOOSE i \in DOMAIN q : IsOutput(q[i]) /\ \A j \in 1..(i - 1) : ~IsOutput(q[j])
    ELSE 1
Without(q, i) == SubSeq(q, 1, i - 1) \o SubSeq(q, i + 1, Len(q))

\* The Commands whose output enqueue(m) discards, their own or another's.
Discards(q, m) ==
    IF IsOutput(m)
    THEN IF OutputBytes(q) >= BufferChunks \/ Len(q) >= BufferMessages
         THEN {m.command} ELSE {}
    ELSE IF Len(q) >= BufferMessages /\ IsOutput(q[Evicted(q)])
         THEN {q[Evicted(q)].command} ELSE {}
Refuses(q, m) == IsOutput(m) /\ Discards(q, m) # {}
Enqueued(q, m) ==
    MarkBuffered(IF Refuses(q, m) THEN q
                 ELSE Append(IF Len(q) >= BufferMessages THEN Without(q, Evicted(q)) ELSE q, m),
                 Discards(q, m))

\* Whether deliver(m) sends m or buffers it, and the marks that leaves: C are
\* the Commands whose output turned out to be lost, j the journal before.
Send(m) ==
    incoming' = IF Carries THEN [incoming EXCEPT ![connection] = Append(@, m)] ELSE incoming
MarkTruncated(C, j) ==
    /\ journal' = [c \in Commands |-> IF c \in C THEN markOutputTruncated(j[c]) ELSE j[c]]
    /\ truncatedCommands' = truncatedCommands \cup C
Deliver(m, j) ==
    IF LooksOpen
    THEN /\ Send(m)
         /\ MarkTruncated({}, j)
         /\ UNCHANGED bufferedMessages
    ELSE /\ bufferedMessages' = Enqueued(bufferedMessages, m)
         /\ MarkTruncated(Discards(bufferedMessages, m), j)
         /\ UNCHANGED incoming

-----------------------------------------------------------------------------
(* The Client *)

Start(c) ==
    /\ execution[c] = "idle" /\ row[c] = "active"
    /\ execution' = [execution EXCEPT ![c] = "running"]
    /\ journal' = [journal EXCEPT ![c] = [NoRow EXCEPT !.state = "running"]]
    /\ UNCHANGED <<written, sequence, dropping, marks, bufferedMessages, link, connection,
                   incoming, acknowledged, serverVars, readerVars, crashes>>

Write(c) ==
    /\ execution[c] = "running" /\ written[c] < MaxWritten
    /\ written' = [written EXCEPT ![c] = @ + 1]

\* emit, once output is known to be incomplete: nothing more is sent.
EmitNothing(c) ==
    /\ Write(c)
    /\ dropping[c] \/ c \in truncatedCommands
    /\ dropping' = [dropping EXCEPT ![c] = TRUE]
    /\ UNCHANGED <<execution, sequence, marks, bufferedMessages, journal, link, connection,
                   incoming, acknowledged, serverVars, readerVars, crashes>>

\* A variant with a defect: the limit is taken for reached one chunk early.
EmitTooMuchEarly(c) ==
    /\ Write(c)
    /\ ~dropping[c] /\ c \notin truncatedCommands
    /\ sequence[c] + 1 >= ChunkLimit[c]
    /\ dropping' = [dropping EXCEPT ![c] = TRUE]
    /\ MarkTruncated({c}, journal)
    /\ bufferedMessages' = MarkBuffered(bufferedMessages, {c})
    /\ unconfirmedCommands' = unconfirmedCommands \ {c}
    /\ UNCHANGED <<execution, sequence, link, connection, incoming, acknowledged, serverVars,
                   readerVars, crashes>>

\* emit beyond the limit: the mark is made before anything else happens.
EmitTooMuch(c) ==
    /\ Write(c)
    /\ ~dropping[c] /\ c \notin truncatedCommands
    /\ sequence[c] >= ChunkLimit[c]
    /\ dropping' = [dropping EXCEPT ![c] = TRUE]
    /\ MarkTruncated({c}, journal)
    /\ bufferedMessages' = MarkBuffered(bufferedMessages, {c})
    /\ unconfirmedCommands' = unconfirmedCommands \ {c}
    /\ UNCHANGED <<execution, sequence, link, connection, incoming, acknowledged, serverVars,
                   readerVars, crashes>>

\* emit of a chunk: it is unconfirmed before it is sent, and the Command's
\* output incomplete if the buffer refuses it.
Emit(c) ==
    LET m == Output(c, sequence[c])
        refused == ~LooksOpen /\ Refuses(bufferedMessages, m) IN
    /\ Write(c)
    /\ ~dropping[c] /\ c \notin truncatedCommands
    /\ sequence[c] < ChunkLimit[c]
    /\ Deliver(m, IF c \in unconfirmedCommands THEN journal
                  ELSE [journal EXCEPT ![c] = markOutputUnconfirmed(@)])
    /\ unconfirmedCommands' = IF refused THEN unconfirmedCommands \ {c}
                              ELSE unconfirmedCommands \cup {c}
    /\ dropping' = [dropping EXCEPT ![c] = refused]
    /\ sequence' = IF refused THEN sequence ELSE [sequence EXCEPT ![c] = @ + 1]
    /\ UNCHANGED <<execution, link, connection, acknowledged, serverVars, readerVars, crashes>>

\* The process has exited (or failed): its result is journaled and reported.
\* Making room for the report may cost another Command its output.
Finish(c) ==
    LET truncated == dropping[c] \/ c \in truncatedCommands
        m == Completed(c, truncated)
        lost == IF LooksOpen THEN {} ELSE Discards(bufferedMessages, m) IN
    /\ execution[c] = "running"
    /\ execution' = [execution EXCEPT ![c] = "ended"]
    /\ Deliver(m, [journal EXCEPT ![c] = complete(@, truncated)])
    /\ unconfirmedCommands' = unconfirmedCommands \ lost
    /\ UNCHANGED <<written, sequence, dropping, link, connection, acknowledged, serverVars,
                   readerVars, crashes>>

\* command.acknowledged: the row and the marks have served their purpose.
Acknowledge(c) ==
    /\ link = "up" /\ c \in acknowledged
    /\ acknowledged' = acknowledged \ {c}
    /\ journal' = IF journal[c].state = "completed"
                  THEN [journal EXCEPT ![c] = NoRow] ELSE journal
    /\ unconfirmedCommands' = unconfirmedCommands \ {c}
    /\ truncatedCommands' = truncatedCommands \ {c}
    /\ UNCHANGED <<processVars, bufferedMessages, link, connection, incoming, serverVars,
                   readerVars, crashes>>

-----------------------------------------------------------------------------
(* Connections *)

\* The connection stops carrying; what has arrived of it stays to be handled.
Break ==
    /\ Carries
    /\ link' = "dead"
    /\ \E n \in 0..Len(incoming[connection]) :
          incoming' = [incoming EXCEPT ![connection] = SubSeq(@, 1, n)]
    /\ acknowledged' = {}
    /\ UNCHANGED <<processVars, marks, bufferedMessages, journal, connection, serverVars,
                   readerVars, crashes>>

NotWritable ==
    /\ link = "dead"
    /\ link' = "closing"
    /\ UNCHANGED <<processVars, marks, bufferedMessages, journal, connection, incoming,
                   acknowledged, serverVars, readerVars, crashes>>

\* The close event, also of an attempt to reconnect that failed: nobody will
\* confirm what was sent before, nor is what waits in the buffer trusted.
CloseEventFires ==
    /\ link \in {"closing", "down"}
    /\ link = "down" => unconfirmedCommands # {}
    /\ link' = "down"
    /\ MarkTruncated(unconfirmedCommands, journal)
    /\ bufferedMessages' = MarkBuffered(bufferedMessages, unconfirmedCommands)
    /\ unconfirmedCommands' = {}
    /\ UNCHANGED <<processVars, connection, incoming, acknowledged, serverVars, readerVars,
                   crashes>>

\* All the orders in which the rows of S can be listed.
Listings(S) == {s \in [1..Cardinality(S) -> S] : \A i, j \in DOMAIN s : s[i] = s[j] => i = j}

\* authenticated: the buffer is flushed, then the journaled results are sent.
Reauthenticated(j) ==
    /\ link = "down" /\ connection < MaxConnections
    /\ link' = "up"
    /\ connection' = connection + 1
    /\ \E order \in Listings({c \in Commands : j[c].state = "completed"}) :
          incoming' = [incoming EXCEPT ![connection + 1] = bufferedMessages \o
             [i \in DOMAIN order |->
                Completed(order[i], j[order[i]].result = "truncated"
                                    \/ order[i] \in truncatedCommands)]]
    /\ bufferedMessages' = <<>>
    /\ UNCHANGED <<processVars, marks, journal, acknowledged, serverVars, readerVars, crashes>>

\* The Client crashes: only the journal is left, and recovered as it starts.
ClientCrashes ==
    /\ crashes < MaxCrashes
    /\ crashes' = crashes + 1
    /\ execution' = [c \in Commands |-> IF execution[c] = "running" THEN "lost" ELSE execution[c]]
    /\ dropping' = [c \in Commands |-> FALSE]
    /\ truncatedCommands' = {} /\ unconfirmedCommands' = {} /\ bufferedMessages' = <<>>
    /\ journal' = [c \in Commands |-> recoverInterrupted(journal[c])]
    /\ link' = "down"
    /\ IF Carries
       THEN \E n \in 0..Len(incoming[connection]) :
               incoming' = [incoming EXCEPT ![connection] = SubSeq(@, 1, n)]
       ELSE UNCHANGED incoming
    /\ acknowledged' = {}
    /\ UNCHANGED <<written, sequence, connection, serverVars, readerVars>>

-----------------------------------------------------------------------------
(* The Server *)

Handled(k) == incoming' = [incoming EXCEPT ![k] = Tail(@)]
\* A handler that throws closes its socket; the messages behind are handled.
Refuse(k) == link' = IF k = connection /\ link = "up" THEN "refused" ELSE link

addCommandOutput(k) ==
    LET m == Head(incoming[k]) IN
    /\ incoming[k] # <<>> /\ IsOutput(Head(incoming[k]))
    /\ Handled(k)
    /\ IF row[m.command] = "active" /\ Cardinality(chunks[m.command]) < ServerLimit
       THEN chunks' = [chunks EXCEPT ![m.command] = @ \cup {m.sequence}] /\ UNCHANGED link
       ELSE Refuse(k) /\ UNCHANGED chunks
    /\ UNCHANGED <<processVars, marks, bufferedMessages, journal, connection, acknowledged,
                   row, failed, failures, readerVars, crashes>>

\* The transaction is rejected by the database.
addCommandOutputFails(k) ==
    LET m == Head(incoming[k]) IN
    /\ failures < MaxFailures
    /\ incoming[k] # <<>> /\ IsOutput(Head(incoming[k]))
    /\ failures' = failures + 1
    /\ failed' = failed \cup {m.command}
    /\ Handled(k) /\ Refuse(k)
    /\ UNCHANGED <<processVars, marks, bufferedMessages, journal, connection, acknowledged,
                   row, chunks, readerVars, crashes>>

markCommandCompleted(k) ==
    LET m == Head(incoming[k]) IN
    /\ incoming[k] # <<>> /\ ~IsOutput(Head(incoming[k]))
    /\ Handled(k)
    /\ row' = IF row[m.command] = "active"
              THEN [row EXCEPT ![m.command] = IF m.truncated THEN "truncated" ELSE "whole"]
              ELSE row
    /\ acknowledged' = IF link = "up" THEN acknowledged \cup {m.command} ELSE acknowledged
    /\ UNCHANGED <<processVars, marks, bufferedMessages, journal, link, connection, chunks,
                   failed, failures, readerVars, crashes>>

\* The Server ends the Command itself (expiry, revocation).
Withdraw(c) ==
    /\ row[c] = "active"
    /\ row' = [row EXCEPT ![c] = "withdrawn"]
    /\ UNCHANGED <<processVars, marks, bufferedMessages, journal, link, connection, incoming,
                   acknowledged, chunks, failed, failures, readerVars, crashes>>

\* A variant with a defect: a page in any order.
commandOutputUnordered(c) ==
    LET after == {n \in chunks[c] : n >= cursor[c]} IN
    /\ after # {}
    /\ \E page \in SUBSET after :
          /\ Cardinality(page) = IF Cardinality(after) < PageChunks THEN Cardinality(after)
                                 ELSE PageChunks
          /\ seen' = [seen EXCEPT ![c] = @ \cup page]
          /\ cursor' = [cursor EXCEPT ![c] = 1 + CHOOSE n \in page : \A o \in page : o <= n]
    /\ UNCHANGED <<processVars, marks, bufferedMessages, journal, link, connection, incoming,
                   acknowledged, serverVars, crashes>>

\* command_output: the first chunks after the cursor, which moves to the last
\* of them.
commandOutput(c) ==
    LET after == {n \in chunks[c] : n >= cursor[c]}
        page == {n \in after : Cardinality({o \in after : o < n}) < PageChunks} IN
    /\ after # {}
    /\ seen' = [seen EXCEPT ![c] = @ \cup page]
    /\ cursor' = [cursor EXCEPT ![c] = 1 + CHOOSE n \in page : \A o \in page : o <= n]
    /\ UNCHANGED <<processVars, marks, bufferedMessages, journal, link, connection, incoming,
                   acknowledged, serverVars, crashes>>

OutputNext ==
    \/ \E c \in Commands :
          \/ Start(c) \/ EmitNothing(c) \/ EmitTooMuch(c) \/ Emit(c) \/ Finish(c)
          \/ Acknowledge(c) \/ Withdraw(c) \/ commandOutput(c)
    \/ Break \/ NotWritable \/ CloseEventFires \/ Reauthenticated(journal) \/ ClientCrashes
    \/ \E k \in 1..MaxConnections :
          addCommandOutput(k) \/ addCommandOutputFails(k) \/ markCommandCompleted(k)

OutputSpec == OutputInit /\ [][OutputNext]_outputVars

-----------------------------------------------------------------------------
(* What the output promises *)

\* A result that does not say "truncated" comes with all the process wrote: no
\* chunk is lost on a broken connection, in a full buffer or with the Client
\* unless the row says so.  A chunk the Server fails to store is the exception:
\* the completion behind it on the same socket is handled all the same.
WholeMeansAll ==
    \A c \in Commands : row[c] = "whole" /\ c \notin failed => chunks[c] = 0..(written[c] - 1)

\* An Agent that reads behind its cursor misses no chunk of such an output.
ReaderMissesNothing ==
    \A c \in Commands :
        row[c] = "whole" /\ c \notin failed => seen[c] = {n \in chunks[c] : n < cursor[c]}

\* Output is called truncated only for a cause: a limit, a full buffer, a broken
\* connection, a crash.
TruncationHasACause ==
    \A c \in Commands :
        row[c] = "truncated" \/ journal[c].truncated =>
            written[c] > ChunkLimit[c] \/ connection > 1 \/ crashes > 0 \/ link # "up"
=============================================================================
