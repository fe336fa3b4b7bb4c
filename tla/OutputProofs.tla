-------------------------------- MODULE OutputProofs --------------------------------
(*****************************************************************************)
(* What CommandOutput promises, for every number of Commands, limit, buffer  *)
(* and page size, and however often connections break, the Client crashes    *)
(* and the Server fails.                                                     *)
(*                                                                           *)
(* The promise rests on where the chunks of a Command are whose journal row  *)
(* is not truncated: stored, in the queue of one connection or in the        *)
(* buffer, and never in two of these queues, so that none overtakes another. *)
(*****************************************************************************)
EXTENDS CommandOutput, FiniteSetTheorems, SequenceTheorems, WellFoundedInduction, TLAPS

Over == {"ended", "lost"}

\* A queue holds a chunk of a Command, none of them, the word that all came.
IsChunk(m, c, n) == IsOutput(m) /\ m.command = c /\ m.sequence = n
SaysWhole(m, c) == ~IsOutput(m) /\ m.command = c /\ ~m.truncated
Has(q, c, n) == \E i \in DOMAIN q : IsChunk(q[i], c, n)
Says(q, c) == \E i \in DOMAIN q : SaysWhole(q[i], c)
Free(q, c) == \A i \in DOMAIN q : ~(IsOutput(q[i]) /\ q[i].command = c)

\* Chunks stand in the order they were delivered in, before the completion.
Comes(m, later) ==
    m.command = later.command => IsOutput(m) /\ (IsOutput(later) => m.sequence < later.sequence)
Orderly(q, delivered, state) ==
    /\ \A i \in DOMAIN q : IF IsOutput(q[i]) THEN q[i].sequence < delivered[q[i].command]
                           ELSE state[q[i].command] \in Over
    /\ \A i, j \in DOMAIN q : i < j /\ IsOutput(q[j]) => Comes(q[i], q[j])

\* The first n chunks of a Command are stored or on their way.
Covers(q, c, n, stored) == \A k \in 0..(n - 1) : k \in stored \/ Has(q, c, k)

\* No gap, and all that is behind the cursor was read.
Sound(stored, read, position) ==
    /\ \A n \in stored : 0..n \subseteq stored
    /\ \A n \in stored : n < position => n \in read

\* A row of the journal that holds output known to be all there.
Sure(j) == j.state # "none" /\ ~j.truncated

TypeInv == OutputTypeOK /\ IsFiniteSet({c \in Commands : journal[c].state # "none"})

Counted(c) ==
    /\ sequence[c] <= written[c] /\ sequence[c] <= ChunkLimit[c]
    /\ chunks[c] \subseteq 0..(sequence[c] - 1)
    /\ \A n \in seen[c] : n \in chunks[c] /\ n < cursor[c]
    /\ cursor[c] = 0 \/ cursor[c] - 1 \in chunks[c]

ResultFits(j) ==
    j.result = IF j.state # "completed" THEN "none" ELSE IF j.truncated THEN "truncated" ELSE "whole"

\* The row follows the process, and goes once the Server knows the result.
Journaled(c) ==
    /\ execution[c] = "idle" =>
          /\ journal[c].state = "none" /\ written[c] = 0 /\ ~dropping[c]
          /\ c \notin truncatedCommands \cup unconfirmedCommands
    /\ execution[c] = "running" <=> journal[c].state = "running"
    /\ execution[c] \in Over /\ journal[c].state = "none" => row[c] # "active"
    /\ ResultFits(journal[c])
    /\ c \in acknowledged => row[c] # "active"
    /\ row[c] \in {"whole", "truncated"} => execution[c] \in Over

\* Memory and journal agree on what may be lost.
Marked(c) == row[c] = "active" =>
    /\ execution[c] = "running" /\ journal[c].truncated => c \in truncatedCommands
    /\ Sure(journal[c]) =>
         /\ ~dropping[c] /\ c \notin truncatedCommands /\ written[c] = sequence[c]
         /\ sequence[c] > 0 => c \in unconfirmedCommands
         /\ c \in unconfirmedCommands => journal[c].unconfirmed

LocalInv(c) == Counted(c) /\ Journaled(c) /\ Marked(c)

QueueInv ==
    /\ Orderly(bufferedMessages, sequence, execution)
    /\ \A k \in 1..MaxConnections : Orderly(incoming[k], sequence, execution)
    /\ LooksOpen => bufferedMessages = <<>>

\* The chunks of c are stored, or in the queue of connection k and no other.
InFlight(c, k) ==
    /\ Covers(incoming[k], c, sequence[c], chunks[c]) /\ Sound(chunks[c], seen[c], cursor[c])
    /\ Free(bufferedMessages, c) /\ \A j \in 1..MaxConnections \ {k} : Free(incoming[j], c)

\* They wait in the buffer.
Waiting(c) ==
    /\ Covers(bufferedMessages, c, sequence[c], chunks[c])
    /\ Sound(chunks[c], seen[c], cursor[c])
    /\ \A k \in 1..MaxConnections : Free(incoming[k], c)

Delivery(c) ==
    /\ Sure(journal[c]) /\ Carries => InFlight(c, connection)
    /\ Sure(journal[c]) /\ link = "down" => Waiting(c)
    /\ \A k \in 1..MaxConnections :
          Says(incoming[k], c) => written[c] = sequence[c] /\ InFlight(c, k)
    /\ Says(bufferedMessages, c) => ~journal[c].truncated

\* What is decided stays true.
Decided(c) ==
    /\ chunks[c] = 0..(written[c] - 1)
    /\ \A n \in chunks[c] : n < cursor[c] => n \in seen[c]

DeliveryInv(c) == c \notin failed =>
    /\ row[c] = "active" => Delivery(c)
    /\ row[c] = "whole" => Decided(c)

OutputInv ==
    /\ TypeInv /\ QueueInv
    /\ \A c \in Commands : LocalInv(c) /\ DeliveryInv(c)

\* On the first connection, before anything has broken, only the limit
\* truncates.
Truncates(q, c) == \E i \in DOMAIN q : ~IsOutput(q[i]) /\ q[i].command = c /\ q[i].truncated
CalledTruncated(c) ==
    \/ dropping[c] \/ c \in truncatedCommands \/ journal[c].truncated
    \/ row[c] = "truncated" \/ \E k \in 1..MaxConnections : Truncates(incoming[k], c)
CauseInv ==
    connection = 1 /\ crashes = 0 /\ link = "up" =>
        \A c \in Commands : CalledTruncated(c) => written[c] > ChunkLimit[c]

-----------------------------------------------------------------------------
(* Queues *)

\* A queue that has lost some messages of another, or in which some of its
\* completions say "truncated" now.
Alike(m, o) ==
    /\ m.command = o.command /\ (IsOutput(m) <=> IsOutput(o))
    /\ IsOutput(o) => m.sequence = o.sequence
    /\ ~IsOutput(o) /\ ~m.truncated => ~o.truncated
Thins(p, q) ==
    \E from \in [DOMAIN p -> DOMAIN q] :
        /\ \A i, j \in DOMAIN p : i < j => from[i] < from[j]
        /\ \A i \in DOMAIN p : Alike(p[i], q[from[i]])

\* What a message is made of.
LEMMA MessageParts ==
    ASSUME NEW m \in OutputMessages
    PROVE  /\ m.command \in Commands
           /\ IsOutput(m) => m.sequence \in Nat
           /\ ~IsOutput(m) => m.type = "completed" /\ m.truncated \in BOOLEAN
BY DEF OutputMessages, IsOutput

\* A thinner queue is as orderly, says no more and is free of what the other
\* is free of.
LEMMA ThinsKeeps ==
    ASSUME NEW p \in Seq(OutputMessages), NEW q \in Seq(OutputMessages), Thins(p, q)
    PROVE  /\ \A s, e : Orderly(q, s, e) => Orderly(p, s, e)
           /\ \A c : /\ Says(p, c) => Says(q, c)
                     /\ Free(q, c) => Free(p, c)
<1>1. PICK from \in [DOMAIN p -> DOMAIN q] :
         /\ \A i, j \in DOMAIN p : i < j => from[i] < from[j]
         /\ \A i \in DOMAIN p : Alike(p[i], q[from[i]])
  BY DEF Thins
<1>2. ASSUME NEW s, NEW e, Orderly(q, s, e) PROVE Orderly(p, s, e)
  <2>1. ASSUME NEW i \in DOMAIN p
        PROVE IF IsOutput(p[i]) THEN p[i].sequence < s[p[i].command] ELSE e[p[i].command] \in Over
    BY <1>1, <1>2 DEF Orderly, Alike
  <2>2. ASSUME NEW i \in DOMAIN p, NEW j \in DOMAIN p, i < j, IsOutput(p[j])
        PROVE  Comes(p[i], p[j])
    <3>1. from[i] < from[j] /\ Alike(p[i], q[from[i]]) /\ Alike(p[j], q[from[j]]) BY <1>1, <2>2
    <3>2. Comes(q[from[i]], q[from[j]]) BY <1>2, <2>2, <3>1 DEF Orderly, Alike
    <3> QED BY <2>2, <3>1, <3>2 DEF Comes, Alike
  <2> QED BY <2>1, <2>2 DEF Orderly
<1>3. ASSUME NEW c PROVE (Says(p, c) => Says(q, c)) /\ (Free(q, c) => Free(p, c))
  <2>1. \A i \in DOMAIN p : from[i] \in DOMAIN q /\ Alike(p[i], q[from[i]]) BY <1>1
  <2>2. \A i \in DOMAIN p : SaysWhole(p[i], c) => SaysWhole(q[from[i]], c)
    BY <2>1 DEF SaysWhole, Alike
  <2>3. \A i \in DOMAIN p : IsOutput(p[i]) /\ p[i].command = c
                            => IsOutput(q[from[i]]) /\ q[from[i]].command = c
    BY <2>1 DEF Alike
  <2>4. Says(p, c) => Says(q, c) BY <2>1, <2>2 DEF Says
  <2>5. Free(q, c) => Free(p, c) BY <2>1, <2>3 DEF Free
  <2> QED BY <2>4, <2>5
<1> QED BY <1>2, <1>3

\* The first message is taken from a queue.
LEMMA TailQueue ==
    ASSUME NEW q \in Seq(OutputMessages), q # <<>>
    PROVE  /\ Tail(q) \in Seq(OutputMessages) /\ Thins(Tail(q), q)
           /\ q[1] = Head(q) /\ 1 \in DOMAIN q /\ Head(q) \in OutputMessages
           /\ \A c, n : Has(q, c, n) => Has(Tail(q), c, n) \/ IsChunk(Head(q), c, n)
<1>1. /\ Tail(q) \in Seq(OutputMessages) /\ Len(Tail(q)) = Len(q) - 1 /\ Len(q) \in Nat \ {0}
      /\ \A i \in 1..(Len(q) - 1) : Tail(q)[i] = q[i + 1]
      /\ q[1] = Head(q) /\ Head(q) \in OutputMessages
  OBVIOUS
<1>2. DOMAIN q = 1..Len(q) /\ DOMAIN Tail(q) = 1..(Len(q) - 1) BY <1>1
<1>3. Thins(Tail(q), q)
  <2> DEFINE from == [i \in DOMAIN Tail(q) |-> i + 1]
  <2>1. from \in [DOMAIN Tail(q) -> DOMAIN q] BY <1>1, <1>2
  <2>2. \A i, j \in DOMAIN Tail(q) : i < j => from[i] < from[j] BY <1>1, <1>2
  <2>3. \A i \in DOMAIN Tail(q) : Alike(Tail(q)[i], q[from[i]]) BY <1>1, <1>2 DEF Alike
  <2> QED BY <2>1, <2>2, <2>3 DEF Thins
<1>4. ASSUME NEW c, NEW n, Has(q, c, n) PROVE Has(Tail(q), c, n) \/ IsChunk(Head(q), c, n)
  <2>1. PICK i \in DOMAIN q : IsChunk(q[i], c, n) BY <1>4 DEF Has
  <2>2. CASE i = 1 BY <1>1, <2>1, <2>2
  <2>3. CASE i # 1
    <3>1. i - 1 \in DOMAIN Tail(q) /\ Tail(q)[i - 1] = q[i] BY <1>1, <1>2, <2>3
    <3> QED BY <2>1, <3>1 DEF Has
  <2> QED BY <2>2, <2>3
<1> QED BY <1>1, <1>2, <1>3, <1>4

\* A queue is cut: where a completion is left, so are its Command's chunks.
LEMMA PrefixQueue ==
    ASSUME NEW q \in Seq(OutputMessages), NEW n \in 0..Len(q)
    PROVE  /\ SubSeq(q, 1, n) \in Seq(OutputMessages) /\ Thins(SubSeq(q, 1, n), q)
           /\ \A s, e, c, k : Orderly(q, s, e) /\ Says(SubSeq(q, 1, n), c) /\ Has(q, c, k)
                 => Has(SubSeq(q, 1, n), c, k)
<1> DEFINE p == SubSeq(q, 1, n)
<1>1. /\ p \in Seq(OutputMessages) /\ Len(p) = n /\ Len(q) \in Nat
      /\ \A i \in 1..n : p[i] = q[i]
  OBVIOUS
<1> HIDE DEF p
<1>2. DOMAIN q = 1..Len(q) /\ DOMAIN p = 1..n BY <1>1
<1>3. Thins(p, q)
  <2> DEFINE from == [i \in DOMAIN p |-> i]
  <2>1. from \in [DOMAIN p -> DOMAIN q] BY <1>1, <1>2
  <2>2. \A i, j \in DOMAIN p : i < j => from[i] < from[j] BY <1>1, <1>2
  <2>3. \A i \in DOMAIN p : Alike(p[i], q[from[i]]) BY <1>1, <1>2 DEF Alike
  <2> QED BY <2>1, <2>2, <2>3 DEF Thins
<1>4. ASSUME NEW s, NEW e, NEW c, NEW k, Orderly(q, s, e), Says(p, c), Has(q, c, k)
      PROVE Has(p, c, k)
  <2>1. PICK i \in DOMAIN p : SaysWhole(p[i], c) BY <1>4 DEF Says
  <2>2. PICK j \in DOMAIN q : IsChunk(q[j], c, k) BY <1>4 DEF Has
  <2>3. i \in DOMAIN q /\ SaysWhole(q[i], c) BY <1>1, <1>2, <2>1
  <2>4. ~(i < j) BY <1>4, <2>2, <2>3 DEF Orderly, Comes, SaysWhole, IsChunk
  <2>5. j \in DOMAIN p /\ p[j] = q[j] BY <1>1, <1>2, <2>1, <2>4
  <2> QED BY <2>2, <2>5 DEF Has
<1> QED BY <1>1, <1>3, <1>4 DEF p

\* One message is taken out.
LEMMA WithoutQueue ==
    ASSUME NEW q \in Seq(OutputMessages), NEW x \in DOMAIN q
    PROVE  /\ Without(q, x) \in Seq(OutputMessages) /\ Thins(Without(q, x), q)
           /\ \A c, n : Has(q, c, n) => Has(Without(q, x), c, n) \/ IsChunk(q[x], c, n)
<1> DEFINE a == SubSeq(q, 1, x - 1)
           b == SubSeq(q, x + 1, Len(q))
           p == Without(q, x)
<1>1. Len(q) \in Nat /\ DOMAIN q = 1..Len(q) /\ x \in 1..Len(q) OBVIOUS
<1>2. a \in Seq(OutputMessages) /\ Len(a) = x - 1 /\ \A i \in 1..(x - 1) : a[i] = q[i] BY <1>1
<1>3. b \in Seq(OutputMessages) /\ Len(b) = Len(q) - x /\ \A i \in 1..(Len(q) - x) : b[i] = q[x + i]
  <2>1. x + 1 \in 1..(Len(q) + 1) /\ Len(q) \in x..Len(q) BY <1>1
  <2>2. b \in Seq(OutputMessages) BY <1>1
  <2>3. Len(b) = Len(q) - x BY <1>1
  <2>4. \A i \in 1..(Len(q) - x) : b[i] = q[x + i] BY <1>1
  <2> QED BY <2>2, <2>3, <2>4
<1> HIDE DEF a, b
<1>4. /\ a \o b \in Seq(OutputMessages) /\ Len(a \o b) = Len(q) - 1
      /\ \A i \in 1..(Len(q) - 1) : (a \o b)[i] = IF i < x THEN q[i] ELSE q[i + 1]
  <2>1. a \o b \in Seq(OutputMessages) /\ Len(a \o b) = Len(a) + Len(b)
    BY <1>2, <1>3, ConcatProperties
  <2>2. \A i \in 1..(Len(a) + Len(b)) : (a \o b)[i] = IF i <= Len(a) THEN a[i] ELSE b[i - Len(a)]
    BY <1>2, <1>3, ConcatProperties
  <2>3. ASSUME NEW i \in 1..(Len(q) - 1)
        PROVE  (a \o b)[i] = IF i < x THEN q[i] ELSE q[i + 1]
    <3>1. CASE i < x BY <1>1, <1>2, <1>3, <2>2, <3>1
    <3>2. CASE ~(i < x)
      <4>1. (a \o b)[i] = b[i - (x - 1)]
        <5>1. Len(a) = x - 1 /\ Len(b) = Len(q) - x BY <1>2, <1>3
        <5>2. i \in 1..(Len(a) + Len(b)) /\ ~(i <= Len(a)) BY <1>1, <3>2, <5>1
        <5> QED BY <2>2, <5>1, <5>2
      <4>2. i - (x - 1) \in 1..(Len(q) - x) /\ x + (i - (x - 1)) = i + 1 BY <1>1, <3>2
      <4>3. b[i - (x - 1)] = q[x + (i - (x - 1))] BY <1>3, <4>2
      <4> QED BY <3>2, <4>1, <4>2, <4>3
    <3> QED BY <3>1, <3>2
  <2>4. Len(a) + Len(b) = Len(q) - 1 BY <1>1, <1>2, <1>3
  <2> QED BY <2>1, <2>3, <2>4
<1>5. p = a \o b BY DEF Without, a, b
<1> HIDE DEF p
<1>6. DOMAIN p = 1..(Len(q) - 1) /\ \A i \in DOMAIN p : p[i] = IF i < x THEN q[i] ELSE q[i + 1]
  <2>1. p \in Seq(OutputMessages) /\ Len(p) = Len(q) - 1 BY <1>4, <1>5
  <2>2. DOMAIN p = 1..(Len(q) - 1) BY <2>1
  <2> QED BY <1>4, <1>5, <2>2
<1>7. Thins(p, q)
  <2> DEFINE from == [i \in DOMAIN p |-> IF i < x THEN i ELSE i + 1]
  <2>1. from \in [DOMAIN p -> DOMAIN q] BY <1>1, <1>6
  <2>2. \A i, j \in DOMAIN p : i < j => from[i] < from[j] BY <1>1, <1>6
  <2>3. \A i \in DOMAIN p : Alike(p[i], q[from[i]]) BY <1>1, <1>6 DEF Alike
  <2> QED BY <2>1, <2>2, <2>3 DEF Thins
<1>8. ASSUME NEW c, NEW n, Has(q, c, n) PROVE Has(p, c, n) \/ IsChunk(q[x], c, n)
  <2>1. PICK i \in DOMAIN q : IsChunk(q[i], c, n) BY <1>8 DEF Has
  <2>2. CASE i = x BY <2>1, <2>2
  <2>3. CASE i < x
    <3>1. i \in DOMAIN p /\ p[i] = q[i] BY <1>1, <1>6, <2>3
    <3> QED BY <2>1, <3>1 DEF Has
  <2>4. CASE i > x
    <3>1. i - 1 \in DOMAIN p /\ p[i - 1] = q[i] BY <1>1, <1>6, <2>4
    <3> QED BY <2>1, <3>1 DEF Has
  <2> QED BY <1>1, <2>2, <2>3, <2>4
<1> QED BY <1>4, <1>5, <1>7, <1>8 DEF p

\* Completions are marked.
LEMMA MarkedQueue ==
    ASSUME NEW q \in Seq(OutputMessages), NEW C
    PROVE  /\ MarkBuffered(q, C) \in Seq(OutputMessages) /\ Thins(MarkBuffered(q, C), q)
           /\ \A c, n : Has(q, c, n) => Has(MarkBuffered(q, C), c, n)
           /\ \A c : Says(MarkBuffered(q, C), c) => c \notin C
<1> DEFINE p == MarkBuffered(q, C)
<1>1. Len(q) \in Nat /\ DOMAIN q = 1..Len(q) /\ \A i \in DOMAIN q : q[i] \in OutputMessages OBVIOUS
<1>2. DOMAIN p = DOMAIN q BY DEF MarkBuffered
<1>3. ASSUME NEW i \in DOMAIN q
      PROVE  /\ p[i] \in OutputMessages /\ Alike(p[i], q[i])
             /\ IsOutput(q[i]) => p[i] = q[i]
             /\ ~IsOutput(q[i]) /\ q[i].command \in C => p[i].truncated
  <2>1. CASE q[i].type = "completed" /\ q[i].command \in C
    <3>1. p[i] = [q[i] EXCEPT !.truncated = TRUE] BY <2>1 DEF MarkBuffered
    <3>2. q[i] \in [type : {"completed"}, command : Commands, truncated : BOOLEAN]
      BY <1>1, <2>1 DEF OutputMessages
    <3>3. p[i] \in [type : {"completed"}, command : Commands, truncated : BOOLEAN]
          /\ p[i].truncated = TRUE /\ p[i].command = q[i].command
      BY <3>1, <3>2
    <3> QED BY <2>1, <3>2, <3>3 DEF OutputMessages, Alike, IsOutput
  <2>2. CASE ~(q[i].type = "completed" /\ q[i].command \in C)
    <3>1. p[i] = q[i] BY <2>2 DEF MarkBuffered
    <3> QED BY <1>1, <2>2, <3>1, MessageParts DEF Alike
  <2> QED BY <2>1, <2>2
<1> HIDE DEF p
<1>4. p \in Seq(OutputMessages)
  <2>1. p \in [1..Len(q) -> OutputMessages]
    <3>1. p = [i \in DOMAIN q |-> p[i]] BY <1>2 DEF p, MarkBuffered
    <3> QED BY <1>1, <1>3, <3>1
  <2> QED BY <1>1, <2>1
<1>5. Thins(p, q)
  <2> DEFINE from == [i \in DOMAIN p |-> i]
  <2>1. from \in [DOMAIN p -> DOMAIN q] BY <1>2
  <2>2. \A i, j \in DOMAIN p : i < j => from[i] < from[j] OBVIOUS
  <2>3. \A i \in DOMAIN p : Alike(p[i], q[from[i]]) BY <1>2, <1>3
  <2> QED BY <2>1, <2>2, <2>3 DEF Thins
<1>6. \A c, n : Has(q, c, n) => Has(p, c, n) BY <1>2, <1>3 DEF Has, IsChunk
<1>7. \A c : Says(p, c) => c \notin C BY <1>2, <1>3 DEF Says, SaysWhole, Alike
<1> QED BY <1>4, <1>5, <1>6, <1>7 DEF p

\* A message is put behind a queue.
LEMMA AppendedQueue ==
    ASSUME NEW q \in Seq(OutputMessages), NEW m \in OutputMessages
    PROVE  /\ Append(q, m) \in Seq(OutputMessages)
           /\ \A c, n : Has(Append(q, m), c, n) <=> Has(q, c, n) \/ IsChunk(m, c, n)
           /\ \A c : Says(Append(q, m), c) <=> Says(q, c) \/ SaysWhole(m, c)
           /\ \A c : Free(q, c) /\ ~(IsOutput(m) /\ m.command = c) => Free(Append(q, m), c)
           /\ \A s, e :
                 /\ Orderly(q, s, e)
                 /\ IF IsOutput(m) THEN m.sequence < s[m.command] ELSE e[m.command] \in Over
                 /\ IsOutput(m) => \A i \in DOMAIN q : Comes(q[i], m)
                 => Orderly(Append(q, m), s, e)
<1> DEFINE p == Append(q, m)
<1>1. /\ p \in Seq(OutputMessages) /\ Len(q) \in Nat /\ DOMAIN q = 1..Len(q)
      /\ DOMAIN p = 1..(Len(q) + 1) /\ p[Len(q) + 1] = m /\ \A i \in 1..Len(q) : p[i] = q[i]
  OBVIOUS
<1> HIDE DEF p
<1>2. \A c, n : Has(p, c, n) <=> Has(q, c, n) \/ IsChunk(m, c, n)
  <2>1. ASSUME NEW c, NEW n, Has(p, c, n) PROVE Has(q, c, n) \/ IsChunk(m, c, n)
    <3>1. PICK i \in DOMAIN p : IsChunk(p[i], c, n) BY <2>1 DEF Has
    <3>2. i \in DOMAIN q \/ i = Len(q) + 1 BY <1>1
    <3> QED BY <1>1, <3>1, <3>2 DEF Has
  <2>2. ASSUME NEW c, NEW n, Has(q, c, n) \/ IsChunk(m, c, n) PROVE Has(p, c, n)
    <3>1. \A i \in DOMAIN q : i \in DOMAIN p BY <1>1
    <3>2. Len(q) + 1 \in DOMAIN p BY <1>1
    <3> QED BY <1>1, <2>2, <3>1, <3>2 DEF Has
  <2> QED BY <2>1, <2>2
<1>3. \A c : Says(p, c) <=> Says(q, c) \/ SaysWhole(m, c)
  <2>1. ASSUME NEW c, Says(p, c) PROVE Says(q, c) \/ SaysWhole(m, c)
    <3>1. PICK i \in DOMAIN p : SaysWhole(p[i], c) BY <2>1 DEF Says
    <3>2. i \in DOMAIN q \/ i = Len(q) + 1 BY <1>1
    <3> QED BY <1>1, <3>1, <3>2 DEF Says
  <2>2. ASSUME NEW c, Says(q, c) \/ SaysWhole(m, c) PROVE Says(p, c)
    <3>1. \A i \in DOMAIN q : i \in DOMAIN p BY <1>1
    <3>2. Len(q) + 1 \in DOMAIN p BY <1>1
    <3> QED BY <1>1, <2>2, <3>1, <3>2 DEF Says
  <2> QED BY <2>1, <2>2
<1>4. \A c : Free(q, c) /\ ~(IsOutput(m) /\ m.command = c) => Free(p, c)
  <2>1. \A i \in DOMAIN p : i \in DOMAIN q \/ i = Len(q) + 1 BY <1>1
  <2> QED BY <1>1, <2>1 DEF Free
<1>5. ASSUME NEW s, NEW e, Orderly(q, s, e),
             IF IsOutput(m) THEN m.sequence < s[m.command] ELSE e[m.command] \in Over,
             IsOutput(m) => \A i \in DOMAIN q : Comes(q[i], m)
      PROVE  Orderly(p, s, e)
  <2>1. \A i \in DOMAIN p : i \in DOMAIN q \/ i = Len(q) + 1 BY <1>1
  <2>2. \A i \in DOMAIN p : IF IsOutput(p[i]) THEN p[i].sequence < s[p[i].command]
                            ELSE e[p[i].command] \in Over
    BY <1>1, <1>5, <2>1 DEF Orderly
  <2>3. ASSUME NEW i \in DOMAIN p, NEW j \in DOMAIN p, i < j, IsOutput(p[j])
        PROVE  Comes(p[i], p[j])
    <3>1. i \in DOMAIN q /\ p[i] = q[i] BY <1>1, <2>3
    <3>2. CASE j \in DOMAIN q BY <1>1, <1>5, <2>3, <3>1, <3>2 DEF Orderly
    <3>3. CASE j = Len(q) + 1 BY <1>1, <1>5, <2>3, <3>1, <3>3
    <3> QED BY <2>1, <3>2, <3>3
  <2> QED BY <2>2, <2>3 DEF Orderly
<1> QED BY <1>1, <1>2, <1>3, <1>4, <1>5 DEF p

\* Completions are put behind a queue.
LEMMA FlushedQueue ==
    ASSUME NEW q \in Seq(OutputMessages), NEW r \in Seq(OutputMessages),
           \A i \in DOMAIN r : ~IsOutput(r[i])
    PROVE  /\ q \o r \in Seq(OutputMessages)
           /\ \A c, n : Has(q, c, n) => Has(q \o r, c, n)
           /\ \A c : Says(q \o r, c) => Says(q, c) \/ Says(r, c)
           /\ \A c : Free(q, c) => Free(q \o r, c)
           /\ \A s, e : Orderly(q, s, e) /\ (\A i \in DOMAIN r : e[r[i].command] \in Over)
                 => Orderly(q \o r, s, e)
<1> DEFINE p == q \o r
<1>1. /\ p \in Seq(OutputMessages) /\ Len(p) = Len(q) + Len(r)
      /\ \A i \in 1..(Len(q) + Len(r)) : p[i] = IF i <= Len(q) THEN q[i] ELSE r[i - Len(q)]
  BY ConcatProperties
<1> HIDE DEF p
<1>2. /\ Len(q) \in Nat /\ Len(r) \in Nat
      /\ DOMAIN q = 1..Len(q) /\ DOMAIN r = 1..Len(r) /\ DOMAIN p = 1..(Len(q) + Len(r))
  BY <1>1
<1>3. \A i \in DOMAIN q : i \in DOMAIN p /\ p[i] = q[i] BY <1>1, <1>2
<1>4. ASSUME NEW i \in DOMAIN p
      PROVE  i \in DOMAIN q \/ (i - Len(q) \in DOMAIN r /\ p[i] = r[i - Len(q)] /\ i > Len(q))
  BY <1>1, <1>2
<1>5. \A c, n : Has(q, c, n) => Has(p, c, n) BY <1>3 DEF Has
<1>6. \A c : Says(p, c) => Says(q, c) \/ Says(r, c) BY <1>3, <1>4 DEF Says
<1>7. \A c : Free(q, c) => Free(p, c) BY <1>3, <1>4 DEF Free
<1>8. ASSUME NEW s, NEW e, Orderly(q, s, e), \A i \in DOMAIN r : e[r[i].command] \in Over
      PROVE  Orderly(p, s, e)
  <2>1. \A i \in DOMAIN p : IF IsOutput(p[i]) THEN p[i].sequence < s[p[i].command]
                            ELSE e[p[i].command] \in Over
    BY <1>3, <1>4, <1>8 DEF Orderly
  <2>2. ASSUME NEW i \in DOMAIN p, NEW j \in DOMAIN p, i < j, IsOutput(p[j])
        PROVE  Comes(p[i], p[j])
    <3>1. j \in DOMAIN q BY <1>4, <2>2
    <3>2. i \in DOMAIN q BY <1>2, <2>2, <3>1
    <3> QED BY <1>3, <1>8, <2>2, <3>1, <3>2 DEF Orderly
  <2> QED BY <2>1, <2>2 DEF Orderly
<1> QED BY <1>1, <1>5, <1>6, <1>7, <1>8 DEF p

\* The order holds on when chunks are delivered and processes end.
LEMMA OrderlyLater ==
    ASSUME NEW q \in Seq(OutputMessages),
           NEW s \in [Commands -> Nat], NEW t \in [Commands -> Nat], NEW e, NEW f,
           Orderly(q, s, e),
           \A c \in Commands : s[c] <= t[c] /\ (e[c] \in Over => f[c] \in Over)
    PROVE  Orderly(q, t, f)
<1>1. ASSUME NEW i \in DOMAIN q
      PROVE  IF IsOutput(q[i]) THEN q[i].sequence < t[q[i].command] ELSE f[q[i].command] \in Over
  <2>1. q[i] \in OutputMessages OBVIOUS
  <2>2. q[i].command \in Commands /\ (IsOutput(q[i]) => q[i].sequence \in Nat) BY <2>1, MessageParts
  <2>3. IF IsOutput(q[i]) THEN q[i].sequence < s[q[i].command] ELSE e[q[i].command] \in Over
    BY DEF Orderly
  <2> QED BY <2>2, <2>3
<1> QED BY <1>1 DEF Orderly

\* A set of numbers that is not empty has a smallest one, ...
LEMMA Smallest ==
    ASSUME NEW S \in SUBSET Nat, S # {}
    PROVE  \E n \in S : \A m \in S : n <= m
<1>1. PICK n \in S : \A m \in S : <<m, n>> \notin OpToRel(<, Nat)
  BY NatLessThanWellFounded, WFMin
<1>2. \A m \in S : ~(m < n) BY <1>1 DEF OpToRel
<1> QED BY <1>2

\* ... and the largest one if it is bounded.
LEMMA Largest ==
    ASSUME NEW N \in Nat, NEW S \in SUBSET (0..N), S # {}
    PROVE  \E n \in S : \A m \in S : m <= n
<1> DEFINE T == {N - n : n \in S}
<1>1. T \in SUBSET Nat /\ T # {}
  <2>1. \A n \in S : n \in 0..N /\ N - n \in Nat OBVIOUS
  <2> QED BY <2>1
<1>2. PICK t \in T : \A u \in T : t <= u
  <2> HIDE DEF T
  <2> QED BY <1>1, Smallest
<1>3. PICK n \in S : t = N - n OBVIOUS
<1>4. ASSUME NEW m \in S PROVE m <= n
  <2>1. N - m \in T OBVIOUS
  <2>2. N - n <= N - m BY <1>2, <1>3, <2>1
  <2>3. n \in 0..N /\ m \in 0..N OBVIOUS
  <2> QED BY <2>2, <2>3
<1> QED BY <1>4

\* A full buffer that is not empty evicts one of its messages.
LEMMA EvictedType ==
    ASSUME NEW q \in Seq(OutputMessages), Len(q) > 0
    PROVE  Evicted(q) \in DOMAIN q
<1>1. Len(q) \in Nat /\ DOMAIN q = 1..Len(q) OBVIOUS
<1>2. CASE \E i \in DOMAIN q : IsOutput(q[i])
  <2> DEFINE S == {i \in DOMAIN q : IsOutput(q[i])}
  <2>1. S \in SUBSET Nat /\ S # {} BY <1>1, <1>2
  <2>2. PICK i \in S : \A j \in S : i <= j BY <2>1, Smallest
  <2>3. i \in DOMAIN q /\ IsOutput(q[i]) /\ \A j \in 1..(i - 1) : ~IsOutput(q[j])
    BY <1>1, <2>2
  <2> QED BY <1>2, <2>3 DEF Evicted
<1>3. CASE ~\E i \in DOMAIN q : IsOutput(q[i]) BY <1>1, <1>3 DEF Evicted
<1> QED BY <1>2, <1>3

\* What the buffer makes of a message: who loses output by it is marked, and
\* the others lose none.
LEMMA EnqueuedQueue ==
    ASSUME NEW q \in Seq(OutputMessages), NEW m \in OutputMessages
    PROVE  /\ Enqueued(q, m) \in Seq(OutputMessages) /\ Discards(q, m) \subseteq Commands
           /\ \A c : Says(Enqueued(q, m), c) => c \notin Discards(q, m) /\ (Says(q, c) \/ SaysWhole(m, c))
           /\ \A c, n : c \notin Discards(q, m) /\ (Has(q, c, n) \/ IsChunk(m, c, n))
                 => Has(Enqueued(q, m), c, n)
           /\ \A c : Free(q, c) /\ ~(IsOutput(m) /\ m.command = c) => Free(Enqueued(q, m), c)
           /\ \A s, e :
                 /\ Orderly(q, s, e)
                 /\ IF IsOutput(m) THEN m.sequence < s[m.command] ELSE e[m.command] \in Over
                 /\ IsOutput(m) => \A i \in DOMAIN q : Comes(q[i], m)
                 => Orderly(Enqueued(q, m), s, e)
           /\ Refuses(q, m) => \A s, e : Orderly(q, s, e) => Orderly(Enqueued(q, m), s, e)
<1> DEFINE C == Discards(q, m)
           full == Len(q) >= BufferMessages
           kept == IF full THEN Without(q, Evicted(q)) ELSE q
           p == IF Refuses(q, m) THEN q ELSE Append(kept, m)
<1>1. BufferMessages \in Nat \ {0} /\ Len(q) \in Nat BY OutputBounds
<1>2. full => Evicted(q) \in DOMAIN q BY <1>1, EvictedType
<1>3. \A i \in DOMAIN q : q[i] \in OutputMessages /\ q[i].command \in Commands
  BY MessageParts
<1>4. C \subseteq Commands /\ m.command \in Commands BY <1>1, <1>2, <1>3, MessageParts DEF Discards
<1>5. kept \in Seq(OutputMessages) /\ Thins(kept, q)
  <2>1. Thins(q, q)
    <3> DEFINE from == [i \in DOMAIN q |-> i]
    <3>1. from \in [DOMAIN q -> DOMAIN q] /\ \A i, j \in DOMAIN q : i < j => from[i] < from[j]
      OBVIOUS
    <3>2. \A i \in DOMAIN q : Alike(q[i], q[from[i]]) BY DEF Alike
    <3> QED BY <3>1, <3>2 DEF Thins
  <2> QED BY <1>2, <2>1, WithoutQueue
<1>6. ASSUME NEW c, NEW n, ~Refuses(q, m), c \notin C, Has(q, c, n) PROVE Has(kept, c, n)
  <2>1. CASE ~full BY <1>6, <2>1
  <2>2. CASE full
    <3>1. ~IsOutput(m) BY <1>6, <2>2 DEF Refuses, Discards
    <3>2. ~IsChunk(q[Evicted(q)], c, n) BY <1>6, <2>2, <3>1 DEF Discards, IsChunk
    <3>3. Has(Without(q, Evicted(q)), c, n) BY <1>2, <1>6, <2>2, <3>2, WithoutQueue
    <3> QED BY <2>2, <3>3
  <2> QED BY <2>1, <2>2
<1>7. ASSUME IsOutput(m), \A i \in DOMAIN q : Comes(q[i], m) PROVE \A i \in DOMAIN kept : Comes(kept[i], m)
  BY <1>5, <1>7 DEF Thins, Alike, Comes
<1> HIDE DEF kept
<1>8. p \in Seq(OutputMessages) BY <1>5, AppendedQueue
<1>9. \A c : Says(p, c) => Says(q, c) \/ SaysWhole(m, c) BY <1>5, AppendedQueue, ThinsKeeps
<1>10. ASSUME NEW c, NEW n, c \notin C, Has(q, c, n) \/ IsChunk(m, c, n) PROVE Has(p, c, n)
  <2>1. CASE Refuses(q, m)
    <3>1. m.command \in C BY <2>1 DEF Refuses, Discards
    <3> QED BY <1>10, <2>1, <3>1 DEF IsChunk
  <2>2. CASE ~Refuses(q, m)
    <3>1. Has(kept, c, n) \/ IsChunk(m, c, n) BY <1>6, <1>10, <2>2
    <3> QED BY <1>5, <2>2, <3>1, AppendedQueue
  <2> QED BY <2>1, <2>2
<1>11. \A c : Free(q, c) /\ ~(IsOutput(m) /\ m.command = c) => Free(p, c)
  BY <1>5, AppendedQueue, ThinsKeeps
<1>12. ASSUME NEW s, NEW e, Orderly(q, s, e),
              IF IsOutput(m) THEN m.sequence < s[m.command] ELSE e[m.command] \in Over,
              IsOutput(m) => \A i \in DOMAIN q : Comes(q[i], m)
       PROVE  Orderly(p, s, e)
  <2>1. Orderly(kept, s, e) BY <1>5, <1>12, ThinsKeeps
  <2>2. Orderly(Append(kept, m), s, e) BY <1>5, <1>7, <1>12, <2>1, AppendedQueue
  <2> QED BY <1>12, <2>2
<1>13. Enqueued(q, m) = MarkBuffered(p, C) BY DEF Enqueued, kept
<1>14. Refuses(q, m) => p = q OBVIOUS
<1> HIDE DEF p, C
<1>15. /\ Enqueued(q, m) \in Seq(OutputMessages) /\ Thins(Enqueued(q, m), p)
       /\ \A c, n : Has(p, c, n) => Has(Enqueued(q, m), c, n)
       /\ \A c : Says(Enqueued(q, m), c) => c \notin C
  BY <1>8, <1>13, MarkedQueue
<1>16. /\ \A s, e : Orderly(p, s, e) => Orderly(Enqueued(q, m), s, e)
       /\ \A c : /\ Says(Enqueued(q, m), c) => Says(p, c)
                 /\ Free(p, c) => Free(Enqueued(q, m), c)
  BY <1>8, <1>15, ThinsKeeps
<1>17. \A s, e : /\ Orderly(q, s, e)
                 /\ IF IsOutput(m) THEN m.sequence < s[m.command] ELSE e[m.command] \in Over
                 /\ IsOutput(m) => \A i \in DOMAIN q : Comes(q[i], m)
                 => Orderly(Enqueued(q, m), s, e)
  BY <1>12, <1>16
<1>18. \A c, n : c \notin C /\ (Has(q, c, n) \/ IsChunk(m, c, n)) => Has(Enqueued(q, m), c, n)
  BY <1>10, <1>15
<1>19. \A c : Says(Enqueued(q, m), c) => c \notin C /\ (Says(q, c) \/ SaysWhole(m, c))
  BY <1>9, <1>15, <1>16
<1>20. \A c : Free(q, c) /\ ~(IsOutput(m) /\ m.command = c) => Free(Enqueued(q, m), c)
  BY <1>11, <1>16
<1>21. Refuses(q, m) => \A s, e : Orderly(q, s, e) => Orderly(Enqueued(q, m), s, e)
  BY <1>14, <1>16
<1> QED BY <1>4, <1>15, <1>17, <1>18, <1>19, <1>20, <1>21 DEF C

-----------------------------------------------------------------------------
(* The journal's rows *)

\* What the marks, the result and the recovery make of a row.
LEMMA RowMarks ==
    ASSUME NEW j \in JournalRows, ResultFits(j)
    PROVE  /\ LET r == markOutputUnconfirmed(j) IN
              /\ r \in JournalRows /\ ResultFits(r)
              /\ r.state = j.state /\ r.truncated = j.truncated
              /\ Sure(j) => r.unconfirmed
           /\ LET r == markOutputTruncated(j) IN
              /\ r \in JournalRows /\ ResultFits(r)
              /\ r.state = j.state /\ (j.state # "none" => r.truncated)
              /\ j.state = "none" => r = j
           /\ LET r == recoverInterrupted(j) IN
              /\ r \in JournalRows /\ ResultFits(r)
              /\ r.state = IF j.state = "none" THEN "none" ELSE "completed"
              /\ Sure(r) => ~j.truncated /\ ~j.unconfirmed
<1>1. j = [state |-> j.state, result |-> j.result, truncated |-> j.truncated,
           unconfirmed |-> j.unconfirmed]
      /\ j.state \in {"none", "running", "completed"} /\ j.result \in {"none", "whole", "truncated"}
      /\ j.truncated \in BOOLEAN /\ j.unconfirmed \in BOOLEAN
  BY DEF JournalRows
<1>2. LET r == markOutputUnconfirmed(j) IN
              /\ r \in JournalRows /\ ResultFits(r)
              /\ r.state = j.state /\ r.truncated = j.truncated
              /\ Sure(j) => r.unconfirmed
  BY <1>1 DEF JournalRows, ResultFits, markOutputUnconfirmed, Sure
<1>3. LET r == markOutputTruncated(j) IN
              /\ r \in JournalRows /\ ResultFits(r)
              /\ r.state = j.state /\ (j.state # "none" => r.truncated)
              /\ j.state = "none" => r = j
  BY <1>1 DEF JournalRows, ResultFits, markOutputTruncated
<1>4. LET r == recoverInterrupted(j) IN
              /\ r \in JournalRows /\ ResultFits(r)
              /\ r.state = IF j.state = "none" THEN "none" ELSE "completed"
              /\ Sure(r) => ~j.truncated /\ ~j.unconfirmed
  BY <1>1 DEF JournalRows, ResultFits, recoverInterrupted, Sure
<1> QED BY <1>2, <1>3, <1>4

\* The result of a process is stored.
LEMMA CompletedRow ==
    ASSUME NEW j \in JournalRows, NEW t \in BOOLEAN
    PROVE  /\ complete(j, t) \in JournalRows /\ ResultFits(complete(j, t))
           /\ complete(j, t).state = "completed"
           /\ complete(j, t).truncated = (t \/ j.truncated)
           /\ complete(j, t).unconfirmed = j.unconfirmed
BY DEF JournalRows, ResultFits, complete

\* The rows of C are marked, in the journal and in memory.
LEMMA MarkedRows ==
    ASSUME NEW j \in [Commands -> JournalRows], \A c \in Commands : ResultFits(j[c]),
           NEW C \in SUBSET Commands, MarkTruncated(C, j)
    PROVE  /\ journal' \in [Commands -> JournalRows]
           /\ truncatedCommands' = truncatedCommands \cup C
           /\ \A c \in Commands :
                 /\ ResultFits(journal'[c]) /\ journal'[c].state = j[c].state
                 /\ c \in C /\ j[c].state # "none" => journal'[c].truncated
                 /\ c \notin C => journal'[c] = j[c]
                 /\ Sure(journal'[c]) => c \notin C /\ Sure(j[c])
<1>1. /\ journal' = [c \in Commands |-> IF c \in C THEN markOutputTruncated(j[c]) ELSE j[c]]
      /\ truncatedCommands' = truncatedCommands \cup C
  BY DEF MarkTruncated
<1>2. ASSUME NEW c \in Commands
      PROVE  /\ journal'[c] \in JournalRows
             /\ ResultFits(journal'[c]) /\ journal'[c].state = j[c].state
             /\ c \in C /\ j[c].state # "none" => journal'[c].truncated
             /\ c \notin C => journal'[c] = j[c]
  BY <1>1, RowMarks
<1>3. journal' \in [Commands -> JournalRows] BY <1>1, <1>2
<1> QED BY <1>1, <1>2, <1>3 DEF Sure

\* No row comes into the journal: it stays finite.
LEMMA FiniteRows ==
    ASSUME TypeInv, \A c \in Commands : journal[c].state = "none" => journal'[c].state = "none"
    PROVE  IsFiniteSet({c \in Commands : journal'[c].state # "none"})
<1>1. {c \in Commands : journal'[c].state # "none"} \subseteq {c \in Commands : journal[c].state # "none"}
  OBVIOUS
<1> QED BY <1>1, FS_Subset DEF TypeInv

\* Before a process ends nothing says that its output is complete.
LEMMA NothingSaid ==
    ASSUME TypeInv, QueueInv, NEW c \in Commands, execution[c] \notin Over
    PROVE  ~Says(bufferedMessages, c) /\ \A k \in 1..MaxConnections : ~Says(incoming[k], c)
BY DEF QueueInv, Orderly, Says, SaysWhole

\* Of a Command that has sent nothing there is nothing to be lost.
LEMMA NothingSent ==
    ASSUME TypeInv, QueueInv, NEW c \in Commands, Counted(c), sequence[c] = 0
    PROVE  /\ chunks[c] = {} /\ Sound(chunks[c], seen[c], cursor[c])
           /\ \A q : Covers(q, c, sequence[c], chunks[c])
           /\ Free(bufferedMessages, c) /\ \A k \in 1..MaxConnections : Free(incoming[k], c)
<1>1. chunks[c] = {} /\ 0..(sequence[c] - 1) = {} BY DEF Counted
<1>2. Sound(chunks[c], seen[c], cursor[c]) /\ \A q : Covers(q, c, sequence[c], chunks[c])
  BY <1>1 DEF Sound, Covers
<1>3. ASSUME NEW q \in Seq(OutputMessages), Orderly(q, sequence, execution) PROVE Free(q, c)
  <2>1. ASSUME NEW i \in DOMAIN q, IsOutput(q[i]), q[i].command = c PROVE FALSE
    <3>1. q[i] \in OutputMessages OBVIOUS
    <3>2. q[i].sequence \in Nat BY <2>1, <3>1, MessageParts
    <3>3. q[i].sequence < 0 BY <1>3, <2>1 DEF Orderly
    <3> QED BY <3>2, <3>3
  <2> QED BY <2>1 DEF Free
<1>4. /\ bufferedMessages \in Seq(OutputMessages)
      /\ \A k \in 1..MaxConnections : incoming[k] \in Seq(OutputMessages)
  BY DEF TypeInv, OutputTypeOK
<1> QED BY <1>1, <1>2, <1>3, <1>4 DEF QueueInv

\* A Command a step says nothing about.
LEMMA LocalRests ==
    ASSUME NEW c \in Commands, LocalInv(c),
           execution'[c] = execution[c], written'[c] = written[c], sequence'[c] = sequence[c],
           dropping'[c] = dropping[c], journal'[c] = journal[c], row'[c] = row[c],
           chunks'[c] = chunks[c], seen'[c] = seen[c], cursor'[c] = cursor[c],
           c \in truncatedCommands' <=> c \in truncatedCommands,
           c \in unconfirmedCommands' <=> c \in unconfirmedCommands,
           c \in acknowledged' => c \in acknowledged
    PROVE  LocalInv(c)'
BY DEF LocalInv, Counted, Journaled, Marked

\* The same of a Command whose messages the step does not touch.
LEMMA DeliveryRests ==
    ASSUME NEW c \in Commands, DeliveryInv(c),
           written'[c] = written[c], sequence'[c] = sequence[c], journal'[c] = journal[c],
           row'[c] = row[c], chunks'[c] = chunks[c], seen'[c] = seen[c], cursor'[c] = cursor[c],
           c \notin failed' => c \notin failed,
           UNCHANGED <<bufferedMessages, incoming, link, connection>>
    PROVE  DeliveryInv(c)'
BY DEF DeliveryInv, Delivery, Decided, InFlight, Waiting, Carries

-----------------------------------------------------------------------------
(* The Client's steps *)

\* A process starts.
LEMMA StartKeeps ==
    ASSUME OutputInv, NEW d \in Commands, Start(d)
    PROVE  OutputInv'
<1>1. TypeInv /\ QueueInv /\ \A c \in Commands : LocalInv(c) /\ DeliveryInv(c) BY DEF OutputInv
<1>2. /\ execution[d] = "idle" /\ row[d] = "active"
      /\ execution' = [execution EXCEPT ![d] = "running"]
      /\ journal' = [journal EXCEPT ![d] = [NoRow EXCEPT !.state = "running"]]
      /\ UNCHANGED <<written, sequence, dropping, truncatedCommands, unconfirmedCommands,
                     bufferedMessages, link, connection, incoming, acknowledged, row, chunks,
                     failed, failures, seen, cursor, crashes>>
  BY DEF Start, marks, serverVars, readerVars
<1>3. /\ execution'[d] = "running"
      /\ journal'[d] \in JournalRows /\ journal'[d].state = "running" /\ Sure(journal'[d])
      /\ ResultFits(journal'[d])
      /\ \A c \in Commands \ {d} : execution'[c] = execution[c] /\ journal'[c] = journal[c]
  BY <1>1, <1>2 DEF TypeInv, OutputTypeOK, NoRow, JournalRows, Sure, ResultFits
<1>4. TypeInv'
  <2>1. OutputTypeOK' BY <1>1, <1>2, <1>3 DEF TypeInv, OutputTypeOK, LooksOpen
  <2>2. {c \in Commands : journal'[c].state # "none"}
           \subseteq {c \in Commands : journal[c].state # "none"} \cup {d}
    BY <1>3
  <2>3. IsFiniteSet({c \in Commands : journal[c].state # "none"} \cup {d})
    BY <1>1, FS_AddElement DEF TypeInv
  <2>4. IsFiniteSet({c \in Commands : journal'[c].state # "none"}) BY <2>2, <2>3, FS_Subset
  <2> QED BY <1>2, <2>1, <2>4 DEF TypeInv
<1>5. QueueInv'
  <2>1. ASSUME NEW q \in Seq(OutputMessages), Orderly(q, sequence, execution)
        PROVE  Orderly(q, sequence', execution')
    <3>1. /\ sequence \in [Commands -> Nat] /\ sequence' \in [Commands -> Nat]
          /\ \A c \in Commands : /\ sequence[c] <= sequence'[c]
                                 /\ execution[c] \in Over => execution'[c] \in Over
      BY <1>1, <1>2, <1>3 DEF TypeInv, OutputTypeOK, Over
    <3> QED BY <2>1, <3>1, OrderlyLater
  <2> QED BY <1>1, <1>2, <2>1 DEF QueueInv, TypeInv, OutputTypeOK, LooksOpen
<1>6. ASSUME NEW c \in Commands \ {d} PROVE LocalInv(c)' /\ DeliveryInv(c)'
  BY <1>1, <1>2, <1>3, LocalRests, DeliveryRests
<1>7. sequence[d] = 0 /\ written[d] = 0 /\ ~dropping[d]
      /\ d \notin truncatedCommands \cup unconfirmedCommands
  BY <1>1, <1>2 DEF LocalInv, Journaled, Counted, TypeInv, OutputTypeOK
<1>8. LocalInv(d)'
  <2>1. Counted(d)' BY <1>1, <1>2 DEF LocalInv, Counted
  <2>2. Journaled(d)' BY <1>1, <1>2, <1>3 DEF LocalInv, Journaled, Over
  <2>3. Marked(d)' BY <1>1, <1>2, <1>3, <1>7 DEF Marked, Sure
  <2> QED BY <2>1, <2>2, <2>3 DEF LocalInv
<1>9. DeliveryInv(d)'
  <2>1. /\ ~Says(bufferedMessages, d) /\ \A k \in 1..MaxConnections : ~Says(incoming[k], d)
    BY <1>1, <1>2, NothingSaid DEF Over
  <2>2. Counted(d) BY <1>1 DEF LocalInv
  <2>3. InFlight(d, connection)' /\ Waiting(d)'
    BY <1>1, <1>2, <1>7, <2>2, NothingSent DEF InFlight, Waiting
  <2> QED BY <1>2, <2>1, <2>3 DEF DeliveryInv, Delivery
<1> QED BY <1>4, <1>5, <1>6, <1>8, <1>9 DEF OutputInv

\* A chunk is dropped because output is missing already.
LEMMA EmitNothingKeeps ==
    ASSUME OutputInv, NEW d \in Commands, EmitNothing(d)
    PROVE  OutputInv'
<1>1. TypeInv /\ QueueInv /\ \A c \in Commands : LocalInv(c) /\ DeliveryInv(c) BY DEF OutputInv
<1>2. /\ execution[d] = "running" /\ (dropping[d] \/ d \in truncatedCommands)
      /\ written' = [written EXCEPT ![d] = @ + 1] /\ dropping' = [dropping EXCEPT ![d] = TRUE]
      /\ UNCHANGED <<execution, sequence, truncatedCommands, unconfirmedCommands, journal,
                     bufferedMessages, link, connection, incoming, acknowledged, row, chunks,
                     failed, failures, seen, cursor, crashes>>
  BY DEF EmitNothing, Write, marks, serverVars, readerVars
<1>3. /\ written'[d] = written[d] + 1 /\ written[d] \in Nat /\ sequence[d] \in Nat
      /\ \A c \in Commands \ {d} : written'[c] = written[c] /\ dropping'[c] = dropping[c]
  BY <1>1, <1>2 DEF TypeInv, OutputTypeOK
<1>4. TypeInv' BY <1>1, <1>2 DEF TypeInv, OutputTypeOK
<1>5. QueueInv' BY <1>1, <1>2 DEF QueueInv, LooksOpen
<1>6. ASSUME NEW c \in Commands \ {d} PROVE LocalInv(c)' /\ DeliveryInv(c)'
  BY <1>1, <1>2, <1>3, LocalRests, DeliveryRests
<1>7. row[d] = "active" => ~Sure(journal[d]) BY <1>1, <1>2 DEF LocalInv, Marked
<1>8. LocalInv(d)'
  <2>1. Counted(d)' BY <1>1, <1>2, <1>3 DEF LocalInv, Counted
  <2>2. Journaled(d)' BY <1>1, <1>2 DEF LocalInv, Journaled
  <2>3. Marked(d)' BY <1>1, <1>2, <1>7 DEF LocalInv, Marked
  <2> QED BY <2>1, <2>2, <2>3 DEF LocalInv
<1>9. DeliveryInv(d)'
  <2>1. /\ ~Says(bufferedMessages, d) /\ \A k \in 1..MaxConnections : ~Says(incoming[k], d)
    BY <1>1, <1>2, NothingSaid DEF Over
  <2>2. row[d] # "whole" BY <1>1, <1>2 DEF LocalInv, Journaled, Over
  <2> QED BY <1>2, <1>7, <2>1, <2>2 DEF DeliveryInv, Delivery
<1> QED BY <1>4, <1>5, <1>6, <1>8, <1>9 DEF OutputInv

\* The buffer changes: a Command loses no chunk in it, or its row says so.
LEMMA BufferMoves ==
    ASSUME NEW c \in Commands, DeliveryInv(c),
           written'[c] = written[c], sequence'[c] = sequence[c],
           row'[c] = row[c], chunks'[c] = chunks[c], seen'[c] = seen[c], cursor'[c] = cursor[c],
           c \notin failed' => c \notin failed, UNCHANGED <<incoming, link, connection>>,
           Free(bufferedMessages, c) => Free(bufferedMessages', c),
           \/ /\ row[c] = "active" => journal'[c].truncated
              /\ ~Says(bufferedMessages', c)
           \/ /\ journal'[c] = journal[c]
              /\ Says(bufferedMessages', c) => Says(bufferedMessages, c)
              /\ \A n : Has(bufferedMessages, c, n) => Has(bufferedMessages', c, n)
    PROVE  DeliveryInv(c)'
<1>1. \A s, n : Covers(bufferedMessages, c, n, s) /\ journal'[c] = journal[c]
              => Covers(bufferedMessages', c, n, s) \/ journal'[c].truncated \/ row[c] # "active"
  BY DEF Covers
<1> QED BY <1>1 DEF DeliveryInv, Delivery, Decided, InFlight, Waiting, Carries, Sure

\* Another Command's message is sent.
LEMMA SendMoves ==
    ASSUME TypeInv, NEW c \in Commands, DeliveryInv(c),
           NEW m \in OutputMessages, m.command # c,
           incoming' = [incoming EXCEPT ![connection] = Append(@, m)],
           written'[c] = written[c], sequence'[c] = sequence[c], journal'[c] = journal[c],
           row'[c] = row[c], chunks'[c] = chunks[c], seen'[c] = seen[c], cursor'[c] = cursor[c],
           c \notin failed' => c \notin failed, UNCHANGED <<bufferedMessages, link, connection>>
    PROVE  DeliveryInv(c)'
<1>1. /\ \A k \in 1..MaxConnections : incoming[k] \in Seq(OutputMessages)
      /\ DOMAIN incoming = 1..MaxConnections /\ connection \in 1..MaxConnections
  BY DEF TypeInv, OutputTypeOK
<1>2. ASSUME NEW k \in 1..MaxConnections
      PROVE  /\ Says(incoming'[k], c) => Says(incoming[k], c)
             /\ Free(incoming[k], c) => Free(incoming'[k], c)
             /\ \A n : Has(incoming[k], c, n) => Has(incoming'[k], c, n)
  <2>1. CASE k = connection
    <3>1. incoming'[k] = Append(incoming[k], m) BY <1>1, <2>1
    <3> QED BY <1>1, <3>1, AppendedQueue DEF SaysWhole
  <2>2. CASE k # connection BY <1>1, <2>2
  <2> QED BY <2>1, <2>2
<1>3. \A k \in 1..MaxConnections : \A s, n : Covers(incoming[k], c, n, s) => Covers(incoming'[k], c, n, s)
  BY <1>2 DEF Covers
<1> QED BY <1>1, <1>2, <1>3 DEF DeliveryInv, Delivery, Decided, InFlight, Waiting, Carries

\* The limit is exceeded.
LEMMA EmitTooMuchKeeps ==
    ASSUME OutputInv, NEW d \in Commands, EmitTooMuch(d)
    PROVE  OutputInv'
<1>1. TypeInv /\ QueueInv /\ \A c \in Commands : LocalInv(c) /\ DeliveryInv(c) BY DEF OutputInv
<1>2. /\ execution[d] = "running"
      /\ written' = [written EXCEPT ![d] = @ + 1] /\ dropping' = [dropping EXCEPT ![d] = TRUE]
      /\ MarkTruncated({d}, journal)
      /\ bufferedMessages' = MarkBuffered(bufferedMessages, {d})
      /\ unconfirmedCommands' = unconfirmedCommands \ {d}
      /\ UNCHANGED <<execution, sequence, link, connection, incoming, acknowledged, row, chunks,
                     failed, failures, seen, cursor, crashes>>
  BY DEF EmitTooMuch, Write, serverVars, readerVars
<1>3. /\ written'[d] = written[d] + 1 /\ written[d] \in Nat /\ sequence[d] \in Nat
      /\ \A c \in Commands \ {d} : written'[c] = written[c] /\ dropping'[c] = dropping[c]
  BY <1>1, <1>2 DEF TypeInv, OutputTypeOK
<1>4. /\ journal \in [Commands -> JournalRows] /\ \A c \in Commands : ResultFits(journal[c])
      /\ bufferedMessages \in Seq(OutputMessages)
  BY <1>1 DEF TypeInv, OutputTypeOK, LocalInv, Journaled
<1>5. /\ journal' \in [Commands -> JournalRows] /\ truncatedCommands' = truncatedCommands \cup {d}
      /\ \A c \in Commands : /\ ResultFits(journal'[c]) /\ journal'[c].state = journal[c].state
                             /\ c # d => journal'[c] = journal[c]
      /\ ~Sure(journal'[d]) /\ (journal[d].state # "none" => journal'[d].truncated)
  BY <1>2, <1>4, MarkedRows
<1>6. /\ bufferedMessages' \in Seq(OutputMessages)
      /\ \A s, e : Orderly(bufferedMessages, s, e) => Orderly(bufferedMessages', s, e)
      /\ \A c : /\ Says(bufferedMessages', c) => Says(bufferedMessages, c)
                /\ Free(bufferedMessages, c) => Free(bufferedMessages', c)
                /\ \A n : Has(bufferedMessages, c, n) => Has(bufferedMessages', c, n)
      /\ ~Says(bufferedMessages', d)
  BY <1>2, <1>4, MarkedQueue, ThinsKeeps
<1>7. TypeInv'
  <2>1. /\ written' \in [Commands -> Nat] /\ dropping' \in [Commands -> BOOLEAN]
        /\ truncatedCommands' \subseteq Commands /\ unconfirmedCommands' \subseteq Commands
    BY <1>1, <1>2, <1>5 DEF TypeInv, OutputTypeOK
  <2>2. OutputTypeOK' BY <1>1, <1>2, <1>5, <1>6, <2>1 DEF TypeInv, OutputTypeOK
  <2>3. IsFiniteSet({c \in Commands : journal'[c].state # "none"}) BY <1>1, <1>5, FiniteRows
  <2> QED BY <2>2, <2>3 DEF TypeInv
<1>8. QueueInv'
  <2>1. bufferedMessages = <<>> => bufferedMessages' = <<>> BY <1>2 DEF MarkBuffered
  <2> QED BY <1>1, <1>2, <1>6, <2>1 DEF QueueInv, LooksOpen
<1>9. ASSUME NEW c \in Commands \ {d} PROVE LocalInv(c)' /\ DeliveryInv(c)'
  <2>1. LocalInv(c)' BY <1>1, <1>2, <1>3, <1>5, LocalRests
  <2>2. DeliveryInv(c)' BY <1>1, <1>2, <1>3, <1>5, <1>6, BufferMoves
  <2> QED BY <2>1, <2>2
<1>10. LocalInv(d)'
  <2>1. Counted(d)' BY <1>1, <1>2, <1>3 DEF LocalInv, Counted
  <2>2. Journaled(d)' BY <1>1, <1>2, <1>5 DEF LocalInv, Journaled
  <2>3. Marked(d)' BY <1>5 DEF Marked
  <2> QED BY <2>1, <2>2, <2>3 DEF LocalInv
<1>11. DeliveryInv(d)'
  <2>1. \A k \in 1..MaxConnections : ~Says(incoming[k], d) BY <1>1, <1>2, NothingSaid DEF Over
  <2>2. row[d] # "whole" BY <1>1, <1>2 DEF LocalInv, Journaled, Over
  <2> QED BY <1>2, <1>5, <1>6, <2>1, <2>2 DEF DeliveryInv, Delivery
<1> QED BY <1>7, <1>8, <1>9, <1>10, <1>11 DEF OutputInv

\* The Commands that lose output when m is delivered.
Losers(m) == IF LooksOpen THEN {} ELSE Discards(bufferedMessages, m)

\* What delivering a message does: it is sent, or buffered at the expense of
\* others or of its own Command.
LEMMA Delivered ==
    ASSUME TypeInv, QueueInv, NEW m \in OutputMessages,
           NEW j \in [Commands -> JournalRows], \A c \in Commands : ResultFits(j[c]),
           Deliver(m, j)
    PROVE  /\ Losers(m) \subseteq Commands
           /\ journal' \in [Commands -> JournalRows]
           /\ truncatedCommands' = truncatedCommands \cup Losers(m)
           /\ \A c \in Commands :
                 /\ ResultFits(journal'[c]) /\ journal'[c].state = j[c].state
                 /\ c \in Losers(m) /\ j[c].state # "none" => journal'[c].truncated
                 /\ c \notin Losers(m) => journal'[c] = j[c]
                 /\ Sure(journal'[c]) => c \notin Losers(m) /\ Sure(j[c])
           /\ bufferedMessages' \in Seq(OutputMessages)
           /\ incoming' \in [1..MaxConnections -> Seq(OutputMessages)]
           /\ LooksOpen => bufferedMessages' = bufferedMessages
           /\ ~LooksOpen => bufferedMessages' = Enqueued(bufferedMessages, m)
           /\ incoming' = IF Carries THEN [incoming EXCEPT ![connection] = Append(@, m)] ELSE incoming
<1>1. /\ bufferedMessages \in Seq(OutputMessages) /\ connection \in 1..MaxConnections
      /\ incoming \in [1..MaxConnections -> Seq(OutputMessages)]
  BY DEF TypeInv, OutputTypeOK
<1>2. Losers(m) \in SUBSET Commands BY <1>1, EnqueuedQueue DEF Losers
<1>3. MarkTruncated(Losers(m), j) BY DEF Deliver, Losers
<1>4. Carries => LooksOpen BY DEF Carries, LooksOpen
<1>5. incoming' = IF Carries THEN [incoming EXCEPT ![connection] = Append(@, m)] ELSE incoming
  BY <1>4 DEF Deliver, Send
<1>6. incoming' \in [1..MaxConnections -> Seq(OutputMessages)]
  <2>1. incoming[connection] \in Seq(OutputMessages) BY <1>1
  <2>2. Append(incoming[connection], m) \in Seq(OutputMessages) BY <2>1, AppendedQueue
  <2> QED BY <1>1, <1>5, <2>2
<1>7. /\ LooksOpen => bufferedMessages' = bufferedMessages
      /\ ~LooksOpen => bufferedMessages' = Enqueued(bufferedMessages, m)
  BY DEF Deliver
<1>8. bufferedMessages' \in Seq(OutputMessages) BY <1>1, <1>7, EnqueuedQueue
<1>9. /\ journal' \in [Commands -> JournalRows]
      /\ truncatedCommands' = truncatedCommands \cup Losers(m)
      /\ \A c \in Commands :
            /\ ResultFits(journal'[c]) /\ journal'[c].state = j[c].state
            /\ c \in Losers(m) /\ j[c].state # "none" => journal'[c].truncated
            /\ c \notin Losers(m) => journal'[c] = j[c]
            /\ Sure(journal'[c]) => c \notin Losers(m) /\ Sure(j[c])
  BY <1>2, <1>3, MarkedRows
<1> QED BY <1>2, <1>5, <1>6, <1>7, <1>8, <1>9

\* A chunk is delivered or refused by the buffer.
LEMMA EmitKeeps ==
    ASSUME OutputInv, NEW d \in Commands, Emit(d)
    PROVE  OutputInv'
<1>1. TypeInv /\ QueueInv /\ \A c \in Commands : LocalInv(c) /\ DeliveryInv(c) BY DEF OutputInv
<1> DEFINE m == Output(d, sequence[d])
           refused == ~LooksOpen /\ Refuses(bufferedMessages, m)
           j == IF d \in unconfirmedCommands THEN journal
                ELSE [journal EXCEPT ![d] = markOutputUnconfirmed(@)]
           C == Losers(m)
<1>2. /\ execution[d] = "running" /\ ~dropping[d] /\ d \notin truncatedCommands
      /\ sequence[d] < ChunkLimit[d]
      /\ written' = [written EXCEPT ![d] = @ + 1]
      /\ Deliver(m, j)
      /\ unconfirmedCommands' = IF refused THEN unconfirmedCommands \ {d}
                                ELSE unconfirmedCommands \cup {d}
      /\ dropping' = [dropping EXCEPT ![d] = refused]
      /\ sequence' = IF refused THEN sequence ELSE [sequence EXCEPT ![d] = @ + 1]
      /\ UNCHANGED <<execution, link, connection, acknowledged, row, chunks, failed, failures,
                     seen, cursor, crashes>>
  BY DEF Emit, Write, serverVars, readerVars
<1>3. /\ written[d] \in Nat /\ sequence[d] \in Nat /\ ChunkLimit[d] \in Nat
      /\ written'[d] = written[d] + 1
      /\ sequence' \in [Commands -> Nat]
      /\ sequence'[d] = IF refused THEN sequence[d] ELSE sequence[d] + 1
      /\ dropping'[d] = refused
      /\ \A c \in Commands \ {d} : /\ written'[c] = written[c] /\ dropping'[c] = dropping[c]
                                   /\ sequence'[c] = sequence[c]
  <2> HIDE DEF refused
  <2>1. ServerLimit \in Nat /\ ChunkLimit[d] \in 0..ServerLimit BY OutputBounds
  <2>2. /\ written \in [Commands -> Nat] /\ sequence \in [Commands -> Nat]
        /\ dropping \in [Commands -> BOOLEAN]
    BY <1>1 DEF TypeInv, OutputTypeOK
  <2>3. dropping'[d] = refused /\ \A c \in Commands \ {d} : dropping'[c] = dropping[c]
    BY <1>2, <2>2
  <2>4. written[d] \in Nat /\ written'[d] = written[d] + 1
        /\ \A c \in Commands \ {d} : written'[c] = written[c]
    BY <1>2, <2>2
  <2>5. sequence[d] \in Nat /\ sequence' \in [Commands -> Nat]
        /\ sequence'[d] = (IF refused THEN sequence[d] ELSE sequence[d] + 1)
        /\ \A c \in Commands \ {d} : sequence'[c] = sequence[c]
    BY <1>2, <2>2
  <2> QED BY <2>1, <2>3, <2>4, <2>5
<1>4. m \in OutputMessages /\ IsOutput(m) /\ m.command = d /\ m.sequence = sequence[d]
  BY <1>3 DEF Output, OutputMessages, IsOutput
<1>5. /\ journal \in [Commands -> JournalRows] /\ \A c \in Commands : ResultFits(journal[c])
      /\ bufferedMessages \in Seq(OutputMessages) /\ connection \in 1..MaxConnections
      /\ incoming \in [1..MaxConnections -> Seq(OutputMessages)]
  BY <1>1 DEF TypeInv, OutputTypeOK, LocalInv, Journaled
<1>6. /\ j \in [Commands -> JournalRows]
      /\ \A c \in Commands : /\ ResultFits(j[c]) /\ j[c].state = journal[c].state
                             /\ c # d => j[c] = journal[c]
      /\ j[d].truncated = journal[d].truncated
      /\ Sure(journal[d]) => d \in unconfirmedCommands \/ j[d].unconfirmed
      /\ d \in unconfirmedCommands => j[d] = journal[d]
  BY <1>5, RowMarks
<1>7. C = IF refused THEN {d} ELSE {}
  BY <1>4 DEF Refuses, Discards, Losers
<1>8. /\ journal' \in [Commands -> JournalRows]
      /\ truncatedCommands' = truncatedCommands \cup C
      /\ \A c \in Commands :
            /\ ResultFits(journal'[c]) /\ journal'[c].state = j[c].state
            /\ c \in C /\ j[c].state # "none" => journal'[c].truncated
            /\ c \notin C => journal'[c] = j[c]
            /\ Sure(journal'[c]) => c \notin C /\ Sure(j[c])
      /\ bufferedMessages' \in Seq(OutputMessages)
      /\ incoming' \in [1..MaxConnections -> Seq(OutputMessages)]
      /\ LooksOpen => bufferedMessages' = bufferedMessages
      /\ ~LooksOpen => bufferedMessages' = Enqueued(bufferedMessages, m)
      /\ incoming' = IF Carries THEN [incoming EXCEPT ![connection] = Append(@, m)] ELSE incoming
  <2> HIDE DEF m, j, C
  <2>1. C = Losers(m) BY DEF C
  <2>2. Deliver(m, j) BY <1>2
  <2>3. j \in [Commands -> JournalRows] /\ \A c \in Commands : ResultFits(j[c]) BY <1>6
  <2> QED BY <1>1, <1>4, <2>1, <2>2, <2>3, Delivered
<1> HIDE DEF m, j, C, refused
<1>9. \A k \in 1..MaxConnections : incoming'[k] =
         IF Carries /\ k = connection THEN Append(incoming[k], m) ELSE incoming[k]
  BY <1>5, <1>8
<1>10. TypeInv'
  <2>1. /\ written' \in [Commands -> Nat] /\ dropping' \in [Commands -> BOOLEAN]
        /\ truncatedCommands' \subseteq Commands /\ unconfirmedCommands' \subseteq Commands
    <3>1. /\ written \in [Commands -> Nat] /\ dropping \in [Commands -> BOOLEAN]
          /\ truncatedCommands \subseteq Commands /\ unconfirmedCommands \subseteq Commands
      BY <1>1 DEF TypeInv, OutputTypeOK
    <3>2. written' \in [Commands -> Nat] BY <1>2, <3>1
    <3>3. dropping' \in [Commands -> BOOLEAN] BY <1>2, <3>1 DEF refused
    <3>4. truncatedCommands' \subseteq Commands BY <1>7, <1>8, <3>1
    <3>5. unconfirmedCommands' \subseteq Commands BY <1>2, <3>1
    <3> QED BY <3>2, <3>3, <3>4, <3>5
  <2>2. OutputTypeOK' BY <1>1, <1>2, <1>3, <1>8, <2>1 DEF TypeInv, OutputTypeOK
  <2>3. IsFiniteSet({c \in Commands : journal'[c].state # "none"}) BY <1>1, <1>6, <1>8, FiniteRows
  <2> QED BY <2>2, <2>3 DEF TypeInv
<1>11. QueueInv'
  <2>1. ASSUME NEW q \in Seq(OutputMessages), Orderly(q, sequence, execution)
        PROVE  /\ Orderly(q, sequence', execution')
               /\ \A i \in DOMAIN q : Comes(q[i], m)
    <3>1. /\ sequence \in [Commands -> Nat]
          /\ \A c \in Commands : /\ sequence[c] <= sequence'[c]
                                 /\ execution[c] \in Over => execution'[c] \in Over
      BY <1>1, <1>2, <1>3 DEF TypeInv, OutputTypeOK
    <3>2. Orderly(q, sequence', execution') BY <1>3, <2>1, <3>1, OrderlyLater
    <3>3. \A i \in DOMAIN q : Comes(q[i], m) BY <1>2, <1>4, <2>1 DEF Orderly, Comes, Over
    <3> QED BY <3>2, <3>3
  <2>2. /\ Orderly(bufferedMessages, sequence, execution)
        /\ \A k \in 1..MaxConnections : Orderly(incoming[k], sequence, execution)
    BY <1>1 DEF QueueInv
  <2>3. Orderly(bufferedMessages', sequence', execution')
    <3>1. CASE LooksOpen BY <1>5, <1>8, <2>1, <2>2, <3>1
    <3>2. CASE refused BY <1>4, <1>5, <1>8, <2>1, <2>2, <3>2, EnqueuedQueue DEF refused
    <3>3. CASE ~LooksOpen /\ ~refused
      <4>1. m.sequence < sequence'[m.command] BY <1>3, <1>4, <3>3
      <4>2. Orderly(bufferedMessages, sequence', execution')
            /\ \A i \in DOMAIN bufferedMessages : Comes(bufferedMessages[i], m)
        BY <1>5, <2>1, <2>2
      <4>3. bufferedMessages' = Enqueued(bufferedMessages, m) BY <1>8, <3>3
      <4> QED BY <1>4, <1>5, <4>1, <4>2, <4>3, EnqueuedQueue
    <3> QED BY <3>1, <3>2, <3>3
  <2>4. ASSUME NEW k \in 1..MaxConnections PROVE Orderly(incoming'[k], sequence', execution')
    <3>1. Orderly(incoming[k], sequence', execution') /\ incoming[k] \in Seq(OutputMessages)
      BY <1>5, <2>1, <2>2
    <3>2. CASE Carries /\ k = connection
      <4>1. m.sequence < sequence'[m.command] BY <1>3, <1>4, <3>2 DEF refused, Carries, LooksOpen
      <4> QED BY <1>4, <1>9, <2>1, <2>2, <3>1, <3>2, <4>1, AppendedQueue
    <3>3. CASE ~(Carries /\ k = connection) BY <1>9, <3>1, <3>3
    <3> QED BY <3>2, <3>3
  <2> QED BY <1>1, <1>2, <1>8, <2>3, <2>4 DEF QueueInv, LooksOpen
<1>12. ASSUME NEW c \in Commands \ {d} PROVE LocalInv(c)' /\ DeliveryInv(c)'
  <2>1. c \notin C /\ journal'[c] = journal[c] BY <1>6, <1>7, <1>8
  <2>2. LocalInv(c)' BY <1>1, <1>2, <1>3, <1>7, <1>8, <2>1, LocalRests
  <2>3. CASE Carries
    <3>1. bufferedMessages' = bufferedMessages /\ incoming' = [incoming EXCEPT ![connection] = Append(@, m)]
      BY <1>8, <2>3 DEF Carries, LooksOpen
    <3>2. DeliveryInv(c)' BY <1>1, <1>2, <1>3, <1>4, <2>1, <3>1, SendMoves
    <3> QED BY <2>2, <3>2
  <2>4. CASE LooksOpen /\ ~Carries
    <3>1. DeliveryInv(c)' BY <1>1, <1>2, <1>3, <1>8, <2>1, <2>4, DeliveryRests
    <3> QED BY <2>2, <3>1
  <2>5. CASE ~LooksOpen
    <3>1. incoming' = incoming BY <1>8, <2>5 DEF Carries, LooksOpen
    <3>2. /\ Says(bufferedMessages', c) => Says(bufferedMessages, c)
          /\ \A n : Has(bufferedMessages, c, n) => Has(bufferedMessages', c, n)
          /\ Free(bufferedMessages, c) => Free(bufferedMessages', c)
      BY <1>4, <1>5, <1>8, <2>1, <2>5, EnqueuedQueue DEF SaysWhole, C, Losers
    <3>3. DeliveryInv(c)' BY <1>1, <1>2, <1>3, <2>1, <3>1, <3>2, BufferMoves
    <3> QED BY <2>2, <3>3
  <2> QED BY <2>3, <2>4, <2>5
<1>13. row[d] = "active" /\ Sure(journal'[d]) =>
          ~refused /\ Sure(journal[d]) /\ written[d] = sequence[d] /\ journal'[d].unconfirmed
  <2>1. Sure(journal'[d]) => ~refused /\ journal'[d] = j[d] /\ Sure(journal[d])
    BY <1>6, <1>7, <1>8 DEF Sure
  <2> QED BY <1>1, <1>6, <2>1 DEF LocalInv, Marked
<1>14. LocalInv(d)'
  <2>1. Counted(d)'
    <3>1. sequence[d] <= sequence'[d] /\ sequence'[d] <= written'[d] /\ sequence'[d] <= ChunkLimit[d]
      BY <1>1, <1>2, <1>3 DEF LocalInv, Counted
    <3>2. 0..(sequence[d] - 1) \subseteq 0..(sequence'[d] - 1) BY <1>3, <3>1
    <3> QED BY <1>1, <1>2, <3>1, <3>2 DEF LocalInv, Counted
  <2>2. Journaled(d)' BY <1>1, <1>2, <1>6, <1>8 DEF LocalInv, Journaled
  <2>3. Marked(d)'
    <3>1. journal'[d].truncated /\ row[d] = "active" => d \in truncatedCommands'
      <4>1. ~refused => journal'[d].truncated = journal[d].truncated BY <1>6, <1>7, <1>8
      <4> QED BY <1>1, <1>2, <1>7, <1>8, <4>1 DEF LocalInv, Marked
    <3>2. ASSUME row[d] = "active", Sure(journal'[d])
          PROVE  /\ ~dropping'[d] /\ d \notin truncatedCommands' /\ written'[d] = sequence'[d]
                 /\ d \in unconfirmedCommands' /\ journal'[d].unconfirmed
      BY <1>2, <1>3, <1>7, <1>8, <1>13, <3>2
    <3> QED BY <1>2, <3>1, <3>2 DEF Marked
  <2> QED BY <2>1, <2>2, <2>3 DEF LocalInv
<1>15. DeliveryInv(d)'
  <2>1. ~Says(bufferedMessages, d) /\ \A k \in 1..MaxConnections : ~Says(incoming[k], d)
    BY <1>1, <1>2, NothingSaid DEF Over
  <2>2. ~Says(bufferedMessages', d)
    <3>1. ~SaysWhole(m, d) BY <1>4 DEF SaysWhole
    <3>2. ~Says(Enqueued(bufferedMessages, m), d) BY <1>4, <1>5, <2>1, <3>1, EnqueuedQueue
    <3> QED BY <1>8, <2>1, <3>2
  <2>3. \A k \in 1..MaxConnections : ~Says(incoming'[k], d)
    BY <1>4, <1>5, <1>9, <2>1, AppendedQueue DEF SaysWhole
  <2>4. row[d] # "whole" BY <1>1, <1>2 DEF LocalInv, Journaled, Over
  <2>5. ASSUME NEW q, NEW p, ~refused, Covers(q, d, sequence[d], chunks[d]),
               \A n : Has(q, d, n) \/ IsChunk(m, d, n) => Has(p, d, n)
        PROVE  Covers(p, d, sequence'[d], chunks[d])
    <3>1. IsChunk(m, d, sequence[d]) BY <1>4 DEF IsChunk
    <3>2. \A n \in 0..(sequence'[d] - 1) : n = sequence[d] \/ n \in 0..(sequence[d] - 1)
      BY <1>3, <2>5
    <3> QED BY <2>5, <3>1, <3>2 DEF Covers
  <2>6. ASSUME row[d] = "active", d \notin failed, Sure(journal'[d]), Carries
        PROVE  InFlight(d, connection)'
    <3>1. InFlight(d, connection) BY <1>1, <1>13, <2>6 DEF DeliveryInv, Delivery
    <3>2. \A n : Has(incoming[connection], d, n) \/ IsChunk(m, d, n) => Has(incoming'[connection], d, n)
      BY <1>4, <1>5, <1>9, <2>6, AppendedQueue
    <3>3. Covers(incoming'[connection], d, sequence'[d], chunks[d])
      BY <1>13, <2>5, <2>6, <3>1, <3>2 DEF InFlight
    <3>4. bufferedMessages' = bufferedMessages BY <1>8, <2>6 DEF Carries, LooksOpen
    <3> QED BY <1>2, <1>9, <3>1, <3>3, <3>4 DEF InFlight
  <2>7. ASSUME row[d] = "active", d \notin failed, Sure(journal'[d]), link = "down"
        PROVE  Waiting(d)'
    <3>1. Waiting(d) /\ ~LooksOpen /\ ~Carries /\ ~refused
      BY <1>1, <1>13, <2>7 DEF DeliveryInv, Delivery, LooksOpen, Carries
    <3>2. \A n : Has(bufferedMessages, d, n) \/ IsChunk(m, d, n) => Has(bufferedMessages', d, n)
      BY <1>4, <1>5, <1>7, <1>8, <3>1, EnqueuedQueue DEF C, Losers
    <3>3. Covers(bufferedMessages', d, sequence'[d], chunks[d])
      BY <2>5, <3>1, <3>2 DEF Waiting
    <3> QED BY <1>2, <1>8, <3>1, <3>3 DEF Waiting
  <2> QED BY <1>2, <2>2, <2>3, <2>4, <2>6, <2>7 DEF DeliveryInv, Delivery, Carries
<1> QED BY <1>10, <1>11, <1>12, <1>14, <1>15 DEF OutputInv

\* Who loses output by another's completion had sent some.
LEMMA LosersSent ==
    ASSUME TypeInv, QueueInv, NEW m \in OutputMessages, NEW c \in Losers(m), c # m.command,
           LocalInv(c)
    PROVE  c \in Commands /\ sequence[c] > 0 /\ execution[c] # "idle"
<1>1. bufferedMessages \in Seq(OutputMessages) /\ sequence \in [Commands -> Nat]
      /\ written \in [Commands -> Nat]
  BY DEF TypeInv, OutputTypeOK
<1>2. Len(bufferedMessages) > 0 /\ IsOutput(bufferedMessages[Evicted(bufferedMessages)])
      /\ c = bufferedMessages[Evicted(bufferedMessages)].command
  <2>1. c \in Discards(bufferedMessages, m) BY DEF Losers
  <2>2. /\ Len(bufferedMessages) >= BufferMessages
        /\ IsOutput(bufferedMessages[Evicted(bufferedMessages)])
        /\ c = bufferedMessages[Evicted(bufferedMessages)].command
    BY <2>1 DEF Discards
  <2>3. BufferMessages \in Nat \ {0} /\ Len(bufferedMessages) \in Nat BY <1>1, OutputBounds
  <2> QED BY <2>2, <2>3
<1>3. PICK i \in DOMAIN bufferedMessages :
         IsOutput(bufferedMessages[i]) /\ c = bufferedMessages[i].command
  BY <1>1, <1>2, EvictedType
<1>4. bufferedMessages[i] \in OutputMessages BY <1>1
<1>5. c \in Commands /\ bufferedMessages[i].sequence \in Nat BY <1>3, <1>4, MessageParts
<1>6. bufferedMessages[i].sequence < sequence[c] BY <1>3 DEF QueueInv, Orderly
<1>7. sequence[c] > 0 BY <1>1, <1>5, <1>6
<1> QED BY <1>1, <1>5, <1>7 DEF LocalInv, Counted, Journaled

\* A process has exited: its result is journaled and reported.
LEMMA FinishKeeps ==
    ASSUME OutputInv, NEW d \in Commands, Finish(d)
    PROVE  OutputInv'
<1>1. TypeInv /\ QueueInv /\ \A c \in Commands : LocalInv(c) /\ DeliveryInv(c) BY DEF OutputInv
<1> DEFINE incomplete == dropping[d] \/ d \in truncatedCommands
           m == Completed(d, incomplete)
           j == [journal EXCEPT ![d] = complete(@, incomplete)]
           C == Losers(m)
<1>2. /\ execution[d] = "running" /\ execution' = [execution EXCEPT ![d] = "ended"]
      /\ Deliver(m, j) /\ unconfirmedCommands' = unconfirmedCommands \ C
      /\ UNCHANGED <<written, sequence, dropping, link, connection, acknowledged, row, chunks,
                     failed, failures, seen, cursor, crashes>>
  BY DEF Finish, serverVars, readerVars, Losers
<1>3. /\ journal \in [Commands -> JournalRows] /\ \A c \in Commands : ResultFits(journal[c])
      /\ bufferedMessages \in Seq(OutputMessages) /\ connection \in 1..MaxConnections
      /\ incoming \in [1..MaxConnections -> Seq(OutputMessages)]
      /\ incomplete \in BOOLEAN /\ sequence \in [Commands -> Nat]
  BY <1>1 DEF TypeInv, OutputTypeOK, LocalInv, Journaled
<1>4. m \in OutputMessages /\ ~IsOutput(m) /\ m.command = d /\ m.truncated = incomplete
  BY <1>3 DEF Completed, OutputMessages, IsOutput
<1>5. /\ execution'[d] = "ended"
      /\ \A c \in Commands \ {d} : execution'[c] = execution[c]
      /\ execution' \in [Commands -> {"idle", "running", "ended", "lost"}]
  BY <1>1, <1>2 DEF TypeInv, OutputTypeOK
<1>6. /\ j \in [Commands -> JournalRows]
      /\ \A c \in Commands : ResultFits(j[c]) /\ (c # d => j[c] = journal[c])
      /\ j[d].state = "completed" /\ (j[d].truncated <=> incomplete \/ journal[d].truncated)
      /\ j[d].unconfirmed = journal[d].unconfirmed
  <2> HIDE DEF incomplete
  <2>1. j = [journal EXCEPT ![d] = complete(journal[d], incomplete)] BY <1>3
  <2>2. /\ complete(journal[d], incomplete) \in JournalRows
        /\ ResultFits(complete(journal[d], incomplete))
        /\ complete(journal[d], incomplete).state = "completed"
        /\ complete(journal[d], incomplete).truncated = (incomplete \/ journal[d].truncated)
        /\ complete(journal[d], incomplete).unconfirmed = journal[d].unconfirmed
    BY <1>3, CompletedRow
  <2> QED BY <1>3, <2>1, <2>2
<1> HIDE DEF m, j, C, incomplete
<1>7. /\ journal' \in [Commands -> JournalRows] /\ C \subseteq Commands
      /\ truncatedCommands' = truncatedCommands \cup C
      /\ \A c \in Commands :
            /\ ResultFits(journal'[c]) /\ journal'[c].state = j[c].state
            /\ c \in C /\ j[c].state # "none" => journal'[c].truncated
            /\ c \notin C => journal'[c] = j[c]
            /\ Sure(journal'[c]) => c \notin C /\ Sure(j[c])
      /\ bufferedMessages' \in Seq(OutputMessages)
      /\ incoming' \in [1..MaxConnections -> Seq(OutputMessages)]
      /\ LooksOpen => bufferedMessages' = bufferedMessages
      /\ ~LooksOpen => bufferedMessages' = Enqueued(bufferedMessages, m)
      /\ incoming' = IF Carries THEN [incoming EXCEPT ![connection] = Append(@, m)] ELSE incoming
  <2>1. C = Losers(m) BY DEF C
  <2> QED BY <1>1, <1>2, <1>4, <1>6, <2>1, Delivered
<1>8. \A k \in 1..MaxConnections : incoming'[k] =
         IF Carries /\ k = connection THEN Append(incoming[k], m) ELSE incoming[k]
  BY <1>3, <1>7
<1>9. \A c \in C \ {d} : sequence[c] > 0 /\ execution[c] # "idle"
  BY <1>1, <1>4, <1>7, LosersSent DEF C
<1>10. row[d] = "active" => (Sure(journal[d]) <=> ~incomplete)
  BY <1>1, <1>2 DEF LocalInv, Marked, Journaled, Sure, incomplete
<1>11. TypeInv'
  <2>1. OutputTypeOK' BY <1>1, <1>2, <1>5, <1>7 DEF TypeInv, OutputTypeOK
  <2>2. journal[d].state = "running" BY <1>1, <1>2 DEF LocalInv, Journaled
  <2>3. IsFiniteSet({c \in Commands : journal'[c].state # "none"})
    BY <1>1, <1>6, <1>7, <2>2, FiniteRows
  <2> QED BY <2>1, <2>3 DEF TypeInv
<1>12. QueueInv'
  <2>1. ASSUME NEW q \in Seq(OutputMessages), Orderly(q, sequence, execution)
        PROVE  Orderly(q, sequence', execution')
    <3>1. \A c \in Commands : /\ sequence[c] <= sequence'[c]
                              /\ execution[c] \in Over => execution'[c] \in Over
      BY <1>2, <1>3, <1>5 DEF Over
    <3>2. sequence' \in [Commands -> Nat] BY <1>2, <1>3
    <3> QED BY <1>3, <2>1, <3>1, <3>2, OrderlyLater
  <2>2. /\ Orderly(bufferedMessages, sequence', execution')
        /\ \A k \in 1..MaxConnections :
              incoming[k] \in Seq(OutputMessages) /\ Orderly(incoming[k], sequence', execution')
    BY <1>1, <1>3, <2>1 DEF QueueInv
  <2>3. execution'[m.command] \in Over BY <1>4, <1>5 DEF Over
  <2>4. Orderly(bufferedMessages', sequence', execution')
    <3>1. CASE LooksOpen BY <1>7, <2>2, <3>1
    <3>2. CASE ~LooksOpen
      <4>1. Orderly(Enqueued(bufferedMessages, m), sequence', execution')
        BY <1>3, <1>4, <2>2, <2>3, EnqueuedQueue
      <4> QED BY <1>7, <3>2, <4>1
    <3> QED BY <3>1, <3>2
  <2>5. ASSUME NEW k \in 1..MaxConnections PROVE Orderly(incoming'[k], sequence', execution')
    <3>1. Orderly(Append(incoming[k], m), sequence', execution')
      BY <1>4, <2>2, <2>3, AppendedQueue
    <3> QED BY <1>8, <2>2, <3>1
  <2> QED BY <1>1, <1>2, <1>7, <2>4, <2>5 DEF QueueInv, LooksOpen
<1>13. ASSUME NEW c \in Commands \ {d} PROVE LocalInv(c)'
  <2>1. CASE c \notin C BY <1>1, <1>2, <1>5, <1>6, <1>7, <2>1, LocalRests
  <2>2. CASE c \in C
    <3>1. execution[c] # "idle" /\ c \in truncatedCommands' BY <1>7, <1>9, <2>2
    <3>2. journal'[c].state = journal[c].state /\ ~Sure(journal'[c]) /\ ResultFits(journal'[c])
      BY <1>6, <1>7, <2>2
    <3>3. Counted(c)' BY <1>1, <1>2 DEF LocalInv, Counted
    <3>4. Journaled(c)' BY <1>1, <1>2, <1>5, <3>1, <3>2 DEF LocalInv, Journaled
    <3>5. Marked(c)' BY <3>1, <3>2 DEF Marked
    <3> QED BY <3>3, <3>4, <3>5 DEF LocalInv
  <2> QED BY <2>1, <2>2
<1>14. LocalInv(d)'
  <2>1. Counted(d)' BY <1>1, <1>2 DEF LocalInv, Counted
  <2>2. Journaled(d)' BY <1>1, <1>2, <1>5, <1>6, <1>7 DEF LocalInv, Journaled, Over
  <2>3. Marked(d)'
    <3>1. ASSUME row[d] = "active", Sure(journal'[d])
          PROVE  d \notin C /\ Sure(journal[d]) /\ journal'[d] = j[d]
      BY <1>6, <1>7, <1>10, <3>1 DEF Sure
    <3>2. execution'[d] # "running" BY <1>5
    <3>3. ASSUME row[d] = "active", Sure(journal'[d])
          PROVE  /\ ~dropping[d] /\ d \notin truncatedCommands' /\ written[d] = sequence[d]
                 /\ sequence[d] > 0 => d \in unconfirmedCommands'
                 /\ d \in unconfirmedCommands' => journal'[d].unconfirmed
      BY <1>1, <1>2, <1>6, <1>7, <3>1, <3>3 DEF LocalInv, Marked
    <3> QED BY <1>2, <3>2, <3>3 DEF Marked
  <2> QED BY <2>1, <2>2, <2>3 DEF LocalInv
<1>15. ASSUME NEW c \in Commands \ {d} PROVE DeliveryInv(c)'
  <2>1. c \notin C => journal'[c] = journal[c] BY <1>6, <1>7
  <2>2. CASE Carries
    <3>1. /\ bufferedMessages' = bufferedMessages /\ C = {}
          /\ incoming' = [incoming EXCEPT ![connection] = Append(@, m)]
      BY <1>7, <2>2 DEF Carries, LooksOpen, C, Losers
    <3> QED BY <1>1, <1>2, <1>4, <2>1, <3>1, SendMoves
  <2>3. CASE LooksOpen /\ ~Carries
    <3>1. C = {} BY <2>3 DEF C, Losers
    <3> QED BY <1>1, <1>2, <1>7, <2>1, <2>3, <3>1, DeliveryRests
  <2>4. CASE ~LooksOpen
    <3>1. incoming' = incoming /\ C = Discards(bufferedMessages, m)
      BY <1>7, <2>4 DEF Carries, LooksOpen, C, Losers
    <3>2. /\ Says(bufferedMessages', c) => Says(bufferedMessages, c) /\ c \notin C
          /\ c \notin C => \A n : Has(bufferedMessages, c, n) => Has(bufferedMessages', c, n)
          /\ Free(bufferedMessages, c) => Free(bufferedMessages', c)
      BY <1>3, <1>4, <1>7, <2>4, <3>1, EnqueuedQueue DEF SaysWhole
    <3>3. c \in C /\ row[c] = "active" => journal'[c].truncated
      <4>1. c \in C /\ row[c] = "active" => journal[c].state # "none"
        BY <1>1, <1>9 DEF LocalInv, Journaled, Over, TypeInv, OutputTypeOK
      <4> QED BY <1>6, <1>7, <4>1
    <3> QED BY <1>1, <1>2, <2>1, <3>1, <3>2, <3>3, BufferMoves
  <2> QED BY <2>2, <2>3, <2>4
<1>16. DeliveryInv(d)'
  <2>1. ~Says(bufferedMessages, d) /\ \A k \in 1..MaxConnections : ~Says(incoming[k], d)
    BY <1>1, <1>2, NothingSaid DEF Over
  <2>2. row[d] # "whole" BY <1>1, <1>2 DEF LocalInv, Journaled, Over
  <2>3. ASSUME NEW k \in 1..MaxConnections
        PROVE  /\ \A n : Has(incoming[k], d, n) => Has(incoming'[k], d, n)
               /\ Free(incoming[k], d) => Free(incoming'[k], d)
               /\ Says(incoming'[k], d) => k = connection /\ Carries /\ ~incomplete
    <3>1. incoming[k] \in Seq(OutputMessages) BY <1>3
    <3>2. CASE Carries /\ k = connection
      BY <1>4, <1>8, <2>1, <3>1, <3>2, AppendedQueue DEF SaysWhole
    <3>3. CASE ~(Carries /\ k = connection) BY <1>8, <2>1, <3>3
    <3> QED BY <3>2, <3>3
  <2>4. /\ Free(bufferedMessages, d) => Free(bufferedMessages', d)
        /\ Says(bufferedMessages', d) => d \notin C /\ ~incomplete
        /\ d \notin C => \A n : Has(bufferedMessages, d, n) => Has(bufferedMessages', d, n)
    <3>1. CASE LooksOpen BY <1>7, <2>1, <3>1
    <3>2. CASE ~LooksOpen
      <4>1. bufferedMessages' = Enqueued(bufferedMessages, m) /\ C = Discards(bufferedMessages, m)
        BY <1>7, <3>2 DEF C, Losers
      <4> QED BY <1>3, <1>4, <2>1, <4>1, EnqueuedQueue DEF SaysWhole
    <3> QED BY <3>1, <3>2
  <2>5. ASSUME row[d] = "active", d \notin failed, ~incomplete, Carries
        PROVE  InFlight(d, connection)' /\ written[d] = sequence[d]
    <3>1. InFlight(d, connection) /\ written[d] = sequence[d]
      BY <1>1, <1>10, <2>5 DEF DeliveryInv, Delivery, LocalInv, Marked
    <3>2. Covers(incoming'[connection], d, sequence[d], chunks[d])
      BY <1>3, <2>3, <3>1 DEF InFlight, Covers
    <3> QED BY <1>2, <2>3, <2>4, <3>1, <3>2 DEF InFlight
  <2>6. ASSUME row[d] = "active", d \notin failed, Sure(journal'[d]), link = "down"
        PROVE  Waiting(d)'
    <3>1. d \notin C /\ ~incomplete BY <1>6, <1>7, <2>6 DEF Sure
    <3>2. Waiting(d) BY <1>1, <1>10, <2>6, <3>1 DEF DeliveryInv, Delivery
    <3>3. Covers(bufferedMessages', d, sequence[d], chunks[d])
      BY <2>4, <3>1, <3>2 DEF Waiting, Covers
    <3> QED BY <1>2, <2>3, <3>2, <3>3 DEF Waiting
  <2>7. row[d] = "active" /\ Sure(journal'[d]) => ~incomplete BY <1>6, <1>7 DEF Sure
  <2>8. Says(bufferedMessages', d) /\ row[d] = "active" => ~journal'[d].truncated
    BY <1>6, <1>7, <1>10, <2>4 DEF Sure
  <2> QED BY <1>2, <2>2, <2>3, <2>5, <2>6, <2>7, <2>8 DEF DeliveryInv, Delivery, Carries
<1> QED BY <1>11, <1>12, <1>13, <1>14, <1>15, <1>16 DEF OutputInv

\* command.acknowledged: the Server knows the result, the row goes.
LEMMA AcknowledgeKeeps ==
    ASSUME OutputInv, NEW d \in Commands, Acknowledge(d)
    PROVE  OutputInv'
<1>1. TypeInv /\ QueueInv /\ \A c \in Commands : LocalInv(c) /\ DeliveryInv(c) BY DEF OutputInv
<1>2. /\ d \in acknowledged /\ acknowledged' = acknowledged \ {d}
      /\ journal' = IF journal[d].state = "completed" THEN [journal EXCEPT ![d] = NoRow] ELSE journal
      /\ unconfirmedCommands' = unconfirmedCommands \ {d}
      /\ truncatedCommands' = truncatedCommands \ {d}
      /\ UNCHANGED <<execution, written, sequence, dropping, bufferedMessages, link, connection,
                     incoming, row, chunks, failed, failures, seen, cursor, crashes>>
  BY DEF Acknowledge, processVars, serverVars, readerVars
<1>3. /\ \A c \in Commands \ {d} : journal'[c] = journal[c]
      /\ \/ journal'[d] = journal[d]
         \/ journal[d].state = "completed" /\ journal'[d] = NoRow
      /\ journal' \in [Commands -> JournalRows]
  BY <1>1, <1>2 DEF TypeInv, OutputTypeOK, NoRow, JournalRows
<1>4. TypeInv'
  <2>1. OutputTypeOK' BY <1>1, <1>2, <1>3 DEF TypeInv, OutputTypeOK
  <2>2. IsFiniteSet({c \in Commands : journal'[c].state # "none"})
    BY <1>1, <1>3, FiniteRows DEF NoRow
  <2> QED BY <2>1, <2>2 DEF TypeInv
<1>5. QueueInv' BY <1>1, <1>2 DEF QueueInv, LooksOpen
<1>6. ASSUME NEW c \in Commands \ {d} PROVE LocalInv(c)' /\ DeliveryInv(c)'
  BY <1>1, <1>2, <1>3, LocalRests, DeliveryRests
<1>7. row[d] # "active" BY <1>1, <1>2 DEF LocalInv, Journaled
<1>8. LocalInv(d)'
  <2>1. Counted(d)' BY <1>1, <1>2 DEF LocalInv, Counted
  <2>2. Journaled(d)'
    BY <1>1, <1>2, <1>3, <1>7 DEF LocalInv, Journaled, ResultFits, NoRow
  <2>3. Marked(d)' BY <1>2, <1>7 DEF Marked
  <2> QED BY <2>1, <2>2, <2>3 DEF LocalInv
<1>9. DeliveryInv(d)' BY <1>1, <1>2, <1>7 DEF DeliveryInv, Decided
<1> QED BY <1>4, <1>5, <1>6, <1>8, <1>9 DEF OutputInv

-----------------------------------------------------------------------------
(* Connections *)

\* The current connection stops carrying.
LEMMA CutQueues ==
    ASSUME TypeInv, QueueInv, NEW n \in 0..Len(incoming[connection]),
           incoming' = [incoming EXCEPT ![connection] = SubSeq(@, 1, n)]
    PROVE  /\ incoming' \in [1..MaxConnections -> Seq(OutputMessages)]
           /\ \A k \in 1..MaxConnections :
                 /\ Orderly(incoming'[k], sequence, execution)
                 /\ \A c : /\ Free(incoming[k], c) => Free(incoming'[k], c)
                           /\ Says(incoming'[k], c) =>
                                 Says(incoming[k], c) /\ \A i : Has(incoming[k], c, i) => Has(incoming'[k], c, i)
<1>1. incoming \in [1..MaxConnections -> Seq(OutputMessages)] /\ connection \in 1..MaxConnections
  BY DEF TypeInv, OutputTypeOK
<1>2. \A k \in 1..MaxConnections : Orderly(incoming[k], sequence, execution) BY DEF QueueInv
<1> DEFINE q == incoming[connection]
           p == SubSeq(q, 1, n)
<1>3. q \in Seq(OutputMessages) BY <1>1
<1>4. p \in Seq(OutputMessages) /\ Thins(p, q) BY <1>3, PrefixQueue
<1>5. /\ Orderly(p, sequence, execution)
      /\ \A c : /\ Free(q, c) => Free(p, c)
                /\ Says(p, c) => Says(q, c) /\ \A i : Has(q, c, i) => Has(p, c, i)
  BY <1>1, <1>2, <1>3, <1>4, PrefixQueue, ThinsKeeps
<1>6. incoming'[connection] = p /\ \A k \in 1..MaxConnections \ {connection} : incoming'[k] = incoming[k]
  BY <1>1
<1>7. incoming' \in [1..MaxConnections -> Seq(OutputMessages)] BY <1>1, <1>4
<1> HIDE DEF p
<1> QED BY <1>2, <1>5, <1>6, <1>7

\* What has been said stays true on queues that are cut.
LEMMA ClaimsHold ==
    ASSUME NEW c \in Commands, Delivery(c),
           \A k \in 1..MaxConnections :
               /\ Free(incoming[k], c) => Free(incoming'[k], c)
               /\ Says(incoming'[k], c) =>
                     Says(incoming[k], c) /\ \A i : Has(incoming[k], c, i) => Has(incoming'[k], c, i),
           Free(bufferedMessages, c) => Free(bufferedMessages', c),
           written'[c] = written[c], sequence'[c] = sequence[c],
           chunks'[c] = chunks[c], seen'[c] = seen[c], cursor'[c] = cursor[c]
    PROVE  \A k \in 1..MaxConnections :
              Says(incoming'[k], c) => written'[c] = sequence'[c] /\ InFlight(c, k)'
<1> SUFFICES ASSUME NEW k \in 1..MaxConnections, Says(incoming'[k], c)
             PROVE  written'[c] = sequence'[c] /\ InFlight(c, k)'
  OBVIOUS
<1>1. written[c] = sequence[c] /\ InFlight(c, k) BY DEF Delivery
<1>2. Covers(incoming'[k], c, sequence[c], chunks[c]) BY <1>1 DEF InFlight, Covers
<1> QED BY <1>1, <1>2 DEF InFlight

\* The connection breaks.
LEMMA BreakKeeps == OutputInv /\ Break => OutputInv'
<1> SUFFICES ASSUME OutputInv, Break PROVE OutputInv' OBVIOUS
<1>1. TypeInv /\ QueueInv /\ \A c \in Commands : LocalInv(c) /\ DeliveryInv(c) BY DEF OutputInv
<1>2. /\ Carries /\ link' = "dead" /\ acknowledged' = {}
      /\ UNCHANGED <<execution, written, sequence, dropping, truncatedCommands, unconfirmedCommands,
                     bufferedMessages, journal, connection, row, chunks, failed, failures, seen,
                     cursor, crashes>>
  BY DEF Break, processVars, marks, serverVars, readerVars
<1>3. PICK n \in 0..Len(incoming[connection]) :
         incoming' = [incoming EXCEPT ![connection] = SubSeq(@, 1, n)]
  BY DEF Break
<1>4. /\ incoming' \in [1..MaxConnections -> Seq(OutputMessages)]
      /\ \A k \in 1..MaxConnections :
            /\ Orderly(incoming'[k], sequence, execution)
            /\ \A c : /\ Free(incoming[k], c) => Free(incoming'[k], c)
                      /\ Says(incoming'[k], c) =>
                            Says(incoming[k], c) /\ \A i : Has(incoming[k], c, i) => Has(incoming'[k], c, i)
  BY <1>1, <1>3, CutQueues
<1>5. TypeInv' BY <1>1, <1>2, <1>4 DEF TypeInv, OutputTypeOK, Links
<1>6. QueueInv' BY <1>1, <1>2, <1>4 DEF QueueInv, LooksOpen, Carries
<1>7. ASSUME NEW c \in Commands PROVE LocalInv(c)' /\ DeliveryInv(c)'
  <2>1. LocalInv(c)' BY <1>1, <1>2, LocalRests
  <2>2. ASSUME row[c] = "active", c \notin failed PROVE Delivery(c)'
    <3>1. Delivery(c) BY <1>1, <2>2 DEF DeliveryInv
    <3>2. \A k \in 1..MaxConnections : Says(incoming'[k], c) => written'[c] = sequence'[c] /\ InFlight(c, k)'
      BY <1>2, <1>4, <3>1, ClaimsHold
    <3> QED BY <1>2, <3>1, <3>2 DEF Delivery, Carries
  <2> QED BY <1>1, <1>2, <2>1, <2>2 DEF DeliveryInv, Decided
<1> QED BY <1>5, <1>6, <1>7 DEF OutputInv

\* The socket is not writable any more.
LEMMA NotWritableKeeps == OutputInv /\ NotWritable => OutputInv'
<1> SUFFICES ASSUME OutputInv, NotWritable PROVE OutputInv' OBVIOUS
<1>1. TypeInv /\ QueueInv /\ \A c \in Commands : LocalInv(c) /\ DeliveryInv(c) BY DEF OutputInv
<1>2. /\ link = "dead" /\ link' = "closing"
      /\ UNCHANGED <<execution, written, sequence, dropping, truncatedCommands, unconfirmedCommands,
                     bufferedMessages, journal, connection, incoming, acknowledged, row, chunks,
                     failed, failures, seen, cursor, crashes>>
  BY DEF NotWritable, processVars, marks, serverVars, readerVars
<1>3. TypeInv' BY <1>1, <1>2 DEF TypeInv, OutputTypeOK, Links
<1>4. QueueInv' BY <1>1, <1>2 DEF QueueInv, LooksOpen
<1>5. ASSUME NEW c \in Commands PROVE LocalInv(c)' /\ DeliveryInv(c)'
  <2>1. LocalInv(c)' BY <1>1, <1>2, LocalRests
  <2>2. DeliveryInv(c)' BY <1>1, <1>2 DEF DeliveryInv, Delivery, InFlight, Decided, Carries
  <2> QED BY <2>1, <2>2
<1> QED BY <1>3, <1>4, <1>5 DEF OutputInv

\* The close event: whatever was sent and is not confirmed may be lost.
LEMMA CloseKeeps == OutputInv /\ CloseEventFires => OutputInv'
<1> SUFFICES ASSUME OutputInv, CloseEventFires PROVE OutputInv' OBVIOUS
<1>1. TypeInv /\ QueueInv /\ \A c \in Commands : LocalInv(c) /\ DeliveryInv(c) BY DEF OutputInv
<1> DEFINE C == unconfirmedCommands
<1>2. /\ link \in {"closing", "down"} /\ link' = "down"
      /\ MarkTruncated(C, journal) /\ bufferedMessages' = MarkBuffered(bufferedMessages, C)
      /\ unconfirmedCommands' = {}
      /\ UNCHANGED <<execution, written, sequence, dropping, connection, incoming, acknowledged,
                     row, chunks, failed, failures, seen, cursor, crashes>>
  BY DEF CloseEventFires, processVars, serverVars, readerVars
<1>3. /\ journal \in [Commands -> JournalRows] /\ \A c \in Commands : ResultFits(journal[c])
      /\ bufferedMessages \in Seq(OutputMessages) /\ C \in SUBSET Commands
  BY <1>1 DEF TypeInv, OutputTypeOK, LocalInv, Journaled
<1>4. /\ journal' \in [Commands -> JournalRows] /\ truncatedCommands' = truncatedCommands \cup C
      /\ \A c \in Commands :
            /\ ResultFits(journal'[c]) /\ journal'[c].state = journal[c].state
            /\ c \in C /\ journal[c].state # "none" => journal'[c].truncated
            /\ c \notin C => journal'[c] = journal[c]
            /\ Sure(journal'[c]) => c \notin C /\ Sure(journal[c])
  BY <1>2, <1>3, MarkedRows
<1>5. /\ bufferedMessages' \in Seq(OutputMessages)
      /\ \A s, e : Orderly(bufferedMessages, s, e) => Orderly(bufferedMessages', s, e)
      /\ \A c : /\ Says(bufferedMessages', c) => Says(bufferedMessages, c) /\ c \notin C
                /\ Free(bufferedMessages, c) => Free(bufferedMessages', c)
                /\ \A n : Has(bufferedMessages, c, n) => Has(bufferedMessages', c, n)
  BY <1>2, <1>3, MarkedQueue, ThinsKeeps
<1> HIDE DEF C
<1>6. TypeInv'
  <2>1. truncatedCommands' \subseteq Commands /\ unconfirmedCommands' \subseteq Commands
    BY <1>1, <1>2, <1>3, <1>4 DEF TypeInv, OutputTypeOK
  <2>2. OutputTypeOK' BY <1>1, <1>2, <1>4, <1>5, <2>1 DEF TypeInv, OutputTypeOK, Links
  <2>3. IsFiniteSet({c \in Commands : journal'[c].state # "none"}) BY <1>1, <1>4, FiniteRows
  <2> QED BY <2>2, <2>3 DEF TypeInv
<1>7. QueueInv' BY <1>1, <1>2, <1>5 DEF QueueInv, LooksOpen
<1>8. ASSUME NEW c \in Commands PROVE LocalInv(c)'
  <2>1. Counted(c)' BY <1>1, <1>2 DEF LocalInv, Counted
  <2>2. Journaled(c)'
    <3>1. execution[c] = "idle" => c \notin C BY <1>1 DEF LocalInv, Journaled, C
    <3> QED BY <1>1, <1>2, <1>4, <3>1 DEF LocalInv, Journaled
  <2>3. Marked(c)'
    <3>1. ASSUME row[c] = "active", Sure(journal'[c])
          PROVE  /\ Sure(journal[c]) /\ sequence[c] = 0 /\ written[c] = sequence[c]
                 /\ ~dropping[c] /\ c \notin truncatedCommands'
      BY <1>1, <1>4, <3>1 DEF LocalInv, Marked, TypeInv, OutputTypeOK, C
    <3>2. execution[c] = "running" /\ journal'[c].truncated /\ row[c] = "active"
             => c \in truncatedCommands'
      BY <1>1, <1>4 DEF LocalInv, Marked
    <3> QED BY <1>2, <3>1, <3>2 DEF Marked
  <2> QED BY <2>1, <2>2, <2>3 DEF LocalInv
<1>9. ASSUME NEW c \in Commands PROVE DeliveryInv(c)'
  <2>1. ASSUME row[c] = "active", c \notin failed PROVE Delivery(c)'
    <3>1. Delivery(c) BY <1>1, <2>1 DEF DeliveryInv
    <3>2. ASSUME Sure(journal'[c]) PROVE Waiting(c)'
      <4>1. sequence[c] = 0
        BY <1>1, <1>4, <2>1, <3>2 DEF LocalInv, Marked, TypeInv, OutputTypeOK, C
      <4>2. Counted(c) BY <1>1 DEF LocalInv
      <4> QED BY <1>1, <1>2, <4>1, <4>2, NothingSent DEF Waiting
    <3>3. \A k \in 1..MaxConnections : Says(incoming'[k], c) => written'[c] = sequence'[c] /\ InFlight(c, k)'
      BY <1>2, <1>5, <3>1, ClaimsHold
    <3>4. Says(bufferedMessages', c) => ~journal'[c].truncated BY <1>4, <1>5, <3>1 DEF Delivery
    <3> QED BY <1>2, <3>2, <3>3, <3>4 DEF Delivery, Carries
  <2> QED BY <1>1, <1>2, <2>1 DEF DeliveryInv, Decided
<1> QED BY <1>6, <1>7, <1>8, <1>9 DEF OutputInv

\* The Client is back: what waits in the buffer is sent, then what is journaled.
LEMMA ReauthenticatedKeeps == OutputInv /\ Reauthenticated(journal) => OutputInv'
<1> SUFFICES ASSUME OutputInv, Reauthenticated(journal) PROVE OutputInv' OBVIOUS
<1>1. TypeInv /\ QueueInv /\ \A c \in Commands : LocalInv(c) /\ DeliveryInv(c) BY DEF OutputInv
<1> DEFINE S == {c \in Commands : journal[c].state = "completed"}
<1>2. /\ link = "down" /\ link' = "up" /\ connection < MaxConnections
      /\ connection' = connection + 1 /\ bufferedMessages' = <<>>
      /\ UNCHANGED <<execution, written, sequence, dropping, truncatedCommands, unconfirmedCommands,
                     journal, acknowledged, row, chunks, failed, failures, seen, cursor, crashes>>
  BY DEF Reauthenticated, processVars, marks, serverVars, readerVars
<1>3. PICK order \in Listings(S) :
         incoming' = [incoming EXCEPT ![connection + 1] = bufferedMessages \o
            [i \in DOMAIN order |->
               Completed(order[i], journal[order[i]].result = "truncated"
                                   \/ order[i] \in truncatedCommands)]]
  BY DEF Reauthenticated
<1> DEFINE r == [i \in DOMAIN order |->
                   Completed(order[i], journal[order[i]].result = "truncated"
                                       \/ order[i] \in truncatedCommands)]
           Q == bufferedMessages \o r
<1>4. /\ bufferedMessages \in Seq(OutputMessages) /\ connection \in 1..MaxConnections
      /\ incoming \in [1..MaxConnections -> Seq(OutputMessages)]
      /\ connection + 1 \in 1..MaxConnections
  BY <1>1, <1>2, OutputBounds DEF TypeInv, OutputTypeOK
<1> PICK next \in 1..MaxConnections : next = connection + 1 BY <1>4
<1>5. Cardinality(S) \in Nat
  <2>1. S \subseteq {c \in Commands : journal[c].state # "none"} OBVIOUS
  <2>2. IsFiniteSet(S) BY <1>1, <2>1, FS_Subset DEF TypeInv
  <2> QED BY <2>2, FS_CardinalityType
<1>6. /\ r \in Seq(OutputMessages)
      /\ \A i \in DOMAIN r : ~IsOutput(r[i]) /\ r[i].command \in S
      /\ \A c : Says(r, c) => c \in S /\ journal[c].result # "truncated"
  <2>1. order \in [1..Cardinality(S) -> S] BY DEF Listings
  <2> HIDE DEF S
  <2>2. DOMAIN order = 1..Cardinality(S) /\ \A i \in DOMAIN order : order[i] \in S BY <2>1
  <2>3. ASSUME NEW i \in DOMAIN order
        PROVE  /\ r[i] \in OutputMessages /\ ~IsOutput(r[i]) /\ r[i].command = order[i]
               /\ ~r[i].truncated => journal[order[i]].result # "truncated"
    <3>1. order[i] \in Commands BY <2>2 DEF S
    <3> QED BY <3>1 DEF Completed, OutputMessages, IsOutput
  <2>4. r \in [1..Cardinality(S) -> OutputMessages] BY <2>2, <2>3
  <2>5. DOMAIN r = DOMAIN order OBVIOUS
  <2> HIDE DEF r
  <2>6. r \in Seq(OutputMessages) BY <1>5, <2>4
  <2> QED BY <2>2, <2>3, <2>5, <2>6 DEF Says, SaysWhole
<1>7. /\ Q \in Seq(OutputMessages)
      /\ \A c, n : Has(bufferedMessages, c, n) => Has(Q, c, n)
      /\ \A c : Says(Q, c) => Says(bufferedMessages, c) \/ Says(r, c)
      /\ \A c : Free(bufferedMessages, c) => Free(Q, c)
      /\ \A s, e : Orderly(bufferedMessages, s, e) /\ (\A i \in DOMAIN r : e[r[i].command] \in Over)
            => Orderly(Q, s, e)
  <2> HIDE DEF r
  <2> QED BY <1>4, <1>6, FlushedQueue
<1>8. /\ incoming' = [incoming EXCEPT ![next] = Q] /\ incoming'[next] = Q
      /\ \A k \in 1..MaxConnections \ {next} : incoming'[k] = incoming[k]
  BY <1>3, <1>4
<1> HIDE DEF r, Q
<1>9. TypeInv'
  <2>1. /\ connection' \in 1..MaxConnections /\ bufferedMessages' \in Seq(OutputMessages)
        /\ incoming' \in [1..MaxConnections -> Seq(OutputMessages)]
    BY <1>2, <1>4, <1>7, <1>8
  <2> QED BY <1>1, <1>2, <2>1 DEF TypeInv, OutputTypeOK, Links
<1>10. ASSUME NEW c \in S PROVE execution[c] \in Over
  BY <1>1, <1>10 DEF LocalInv, Journaled, Over, TypeInv, OutputTypeOK
<1>11. QueueInv'
  <2>1. Orderly(Q, sequence, execution) BY <1>1, <1>6, <1>7, <1>10 DEF QueueInv
  <2>2. Orderly(<<>>, sequence, execution) BY DEF Orderly
  <2>3. ASSUME NEW k \in 1..MaxConnections PROVE Orderly(incoming'[k], sequence, execution)
    BY <1>1, <1>8, <2>1 DEF QueueInv
  <2> QED BY <1>2, <2>2, <2>3 DEF QueueInv
<1>12. ASSUME NEW c \in Commands PROVE LocalInv(c)' BY <1>1, <1>2, LocalRests
<1>13. ASSUME NEW c \in Commands, row[c] = "active", c \notin failed PROVE Delivery(c)'
  <2>1. Delivery(c) BY <1>1, <1>13 DEF DeliveryInv
  <2>2. Free(bufferedMessages', c) BY <1>2 DEF Free
  <2>3. ~Says(bufferedMessages', c) BY <1>2 DEF Says
  <2>4. ASSUME Sure(journal[c]) PROVE InFlight(c, next)' /\ written[c] = sequence[c]
    <3>1. Waiting(c) BY <1>2, <2>1, <2>4 DEF Delivery
    <3>2. Covers(incoming'[next], c, sequence[c], chunks[c])
      BY <1>7, <1>8, <3>1 DEF Waiting, Covers
    <3>3. \A k \in 1..MaxConnections \ {next} : Free(incoming'[k], c) BY <1>8, <3>1 DEF Waiting
    <3>4. written[c] = sequence[c] BY <1>1, <1>13, <2>4 DEF LocalInv, Marked
    <3> QED BY <1>2, <2>2, <3>1, <3>2, <3>3, <3>4 DEF Waiting, InFlight
  <2>5. ASSUME Says(Q, c) PROVE Sure(journal[c])
    <3>1. CASE Says(bufferedMessages, c)
      <4>1. execution[c] \in Over BY <1>1, <3>1, NothingSaid
      <4> QED BY <1>1, <1>13, <2>1, <3>1, <4>1 DEF Delivery, LocalInv, Journaled, Sure
    <3>2. CASE Says(r, c)
      <4>1. c \in S /\ journal[c].result # "truncated" BY <1>6, <3>2
      <4> QED BY <1>1, <4>1 DEF LocalInv, Journaled, ResultFits, Sure
    <3> QED BY <1>7, <2>5, <3>1, <3>2
  <2>6. ASSUME NEW k \in 1..MaxConnections, Says(incoming'[k], c)
        PROVE  written'[c] = sequence'[c] /\ InFlight(c, k)'
    <3>1. CASE k = next BY <1>2, <1>8, <2>4, <2>5, <2>6, <3>1
    <3>2. CASE k # next
      <4>1. written[c] = sequence[c] /\ InFlight(c, k) BY <1>8, <2>1, <2>6, <3>2 DEF Delivery
      <4>2. \A j \in 1..MaxConnections \ {k} : Free(incoming'[j], c)
        BY <1>7, <1>8, <4>1 DEF InFlight
      <4> QED BY <1>2, <1>8, <2>2, <3>2, <4>1, <4>2 DEF InFlight
    <3> QED BY <3>1, <3>2
  <2> QED BY <1>2, <2>3, <2>4, <2>6 DEF Delivery
<1>14. ASSUME NEW c \in Commands PROVE DeliveryInv(c)'
  BY <1>1, <1>2, <1>13 DEF DeliveryInv, Decided
<1> QED BY <1>9, <1>11, <1>12, <1>14 DEF OutputInv

\* The Client crashes and recovers what its journal holds.
LEMMA CrashKeeps == OutputInv /\ ClientCrashes => OutputInv'
<1> SUFFICES ASSUME OutputInv, ClientCrashes PROVE OutputInv' OBVIOUS
<1>1. TypeInv /\ QueueInv /\ \A c \in Commands : LocalInv(c) /\ DeliveryInv(c) BY DEF OutputInv
<1>2. /\ execution' = [c \in Commands |-> IF execution[c] = "running" THEN "lost" ELSE execution[c]]
      /\ dropping' = [c \in Commands |-> FALSE] /\ crashes' = crashes + 1
      /\ truncatedCommands' = {} /\ unconfirmedCommands' = {} /\ bufferedMessages' = <<>>
      /\ journal' = [c \in Commands |-> recoverInterrupted(journal[c])]
      /\ link' = "down" /\ acknowledged' = {}
      /\ UNCHANGED <<written, sequence, connection, row, chunks, failed, failures, seen, cursor>>
  BY DEF ClientCrashes, serverVars, readerVars
<1>3. /\ incoming' \in [1..MaxConnections -> Seq(OutputMessages)]
      /\ \A k \in 1..MaxConnections :
            /\ Orderly(incoming'[k], sequence, execution)
            /\ \A c : /\ Free(incoming[k], c) => Free(incoming'[k], c)
                      /\ Says(incoming'[k], c) =>
                            Says(incoming[k], c) /\ \A i : Has(incoming[k], c, i) => Has(incoming'[k], c, i)
  <2>1. CASE Carries
    <3>1. PICK n \in 0..Len(incoming[connection]) :
             incoming' = [incoming EXCEPT ![connection] = SubSeq(@, 1, n)]
      BY <2>1 DEF ClientCrashes
    <3> QED BY <1>1, <3>1, CutQueues
  <2>2. CASE ~Carries
    <3>1. incoming' = incoming BY <2>2 DEF ClientCrashes
    <3> QED BY <1>1, <3>1 DEF QueueInv, TypeInv, OutputTypeOK
  <2> QED BY <2>1, <2>2
<1>4. ASSUME NEW c \in Commands
      PROVE  /\ journal'[c] \in JournalRows /\ ResultFits(journal'[c])
             /\ journal'[c].state = IF journal[c].state = "none" THEN "none" ELSE "completed"
             /\ Sure(journal'[c]) => Sure(journal[c]) /\ ~journal[c].unconfirmed
  <2>1. journal[c] \in JournalRows /\ ResultFits(journal[c])
    BY <1>1 DEF TypeInv, OutputTypeOK, LocalInv, Journaled
  <2>2. journal'[c] = recoverInterrupted(journal[c]) BY <1>2
  <2> QED BY <2>1, <2>2, RowMarks DEF Sure
<1>5. TypeInv'
  <2>1. /\ journal' \in [Commands -> JournalRows] /\ dropping' \in [Commands -> BOOLEAN]
        /\ execution' \in [Commands -> {"idle", "running", "ended", "lost"}]
        /\ bufferedMessages' \in Seq(OutputMessages) /\ crashes' \in Nat
    <3>1. journal' \in [Commands -> JournalRows] BY <1>2, <1>4
    <3>2. execution' \in [Commands -> {"idle", "running", "ended", "lost"}]
      BY <1>1, <1>2 DEF TypeInv, OutputTypeOK
    <3> QED BY <1>1, <1>2, <3>1, <3>2 DEF TypeInv, OutputTypeOK
  <2>2. OutputTypeOK' BY <1>1, <1>2, <1>3, <2>1 DEF TypeInv, OutputTypeOK, Links
  <2>3. IsFiniteSet({c \in Commands : journal'[c].state # "none"}) BY <1>1, <1>4, FiniteRows
  <2> QED BY <2>2, <2>3 DEF TypeInv
<1>6. QueueInv'
  <2>1. ASSUME NEW k \in 1..MaxConnections PROVE Orderly(incoming'[k], sequence', execution')
    <3>1. \A c \in Commands : execution[c] \in Over => execution'[c] \in Over BY <1>2 DEF Over
    <3>2. /\ sequence \in [Commands -> Nat] /\ sequence' = sequence
          /\ \A c \in Commands : sequence[c] <= sequence'[c]
      BY <1>1, <1>2 DEF TypeInv, OutputTypeOK
    <3> QED BY <1>3, <3>1, <3>2, OrderlyLater
  <2>2. Orderly(<<>>, sequence', execution') BY DEF Orderly
  <2> QED BY <1>2, <2>1, <2>2 DEF QueueInv
<1>7. ASSUME NEW c \in Commands, row[c] = "active", Sure(journal'[c])
      PROVE  sequence[c] = 0 /\ written[c] = sequence[c]
  <2>1. Sure(journal[c]) /\ ~journal[c].unconfirmed BY <1>4, <1>7
  <2>2. Marked(c) /\ sequence[c] \in Nat BY <1>1 DEF LocalInv, TypeInv, OutputTypeOK
  <2> QED BY <1>7, <2>1, <2>2 DEF Marked
<1>8. ASSUME NEW c \in Commands PROVE LocalInv(c)'
  <2>1. Counted(c)' BY <1>1, <1>2 DEF LocalInv, Counted
  <2>2. execution'[c] = (IF execution[c] = "running" THEN "lost" ELSE execution[c]) /\ ~dropping'[c]
    BY <1>2
  <2>3. Journaled(c)'
    BY <1>1, <1>2, <1>4, <2>2 DEF LocalInv, Journaled, Over, TypeInv, OutputTypeOK, JournalRows
  <2>4. Marked(c)' BY <1>2, <1>7, <2>2 DEF Marked
  <2> QED BY <2>1, <2>3, <2>4 DEF LocalInv
<1>9. ASSUME NEW c \in Commands PROVE DeliveryInv(c)'
  <2>1. ASSUME row[c] = "active", c \notin failed PROVE Delivery(c)'
    <3>1. Delivery(c) /\ Counted(c) BY <1>1, <2>1 DEF DeliveryInv, LocalInv
    <3>2. Free(bufferedMessages', c) /\ ~Says(bufferedMessages', c) BY <1>2 DEF Free, Says
    <3>3. ASSUME Sure(journal'[c]) PROVE Waiting(c)'
      <4>1. sequence[c] = 0 BY <1>7, <2>1, <3>3
      <4> QED BY <1>1, <1>2, <1>3, <3>1, <4>1, NothingSent DEF Waiting
    <3>4. \A k \in 1..MaxConnections : Says(incoming'[k], c) => written'[c] = sequence'[c] /\ InFlight(c, k)'
      BY <1>2, <1>3, <3>1, <3>2, ClaimsHold
    <3> QED BY <1>2, <3>2, <3>3, <3>4 DEF Delivery, Carries
  <2> QED BY <1>1, <1>2, <2>1 DEF DeliveryInv, Decided
<1> QED BY <1>5, <1>6, <1>8, <1>9 DEF OutputInv

-----------------------------------------------------------------------------
(* The Server's steps *)

\* What is first in a queue comes before all chunks of its Command in it.
LEMMA FirstInQueue ==
    ASSUME NEW q \in Seq(OutputMessages), q # <<>>, NEW s, NEW e, Orderly(q, s, e),
           NEW i \in Nat, Has(q, Head(q).command, i)
    PROVE  IsOutput(Head(q)) /\ Head(q).sequence <= i
<1>1. q[1] = Head(q) /\ 1 \in DOMAIN q /\ DOMAIN q \subseteq Nat \ {0} /\ Head(q) \in OutputMessages
  BY TailQueue
<1>2. PICK j \in DOMAIN q : IsChunk(q[j], Head(q).command, i) BY DEF Has
<1>3. CASE j = 1 BY <1>1, <1>2, <1>3 DEF IsChunk
<1>4. CASE j # 1
  <2>1. Comes(q[1], q[j]) BY <1>1, <1>2, <1>4 DEF Orderly, IsChunk
  <2>2. IsOutput(Head(q)) /\ Head(q).sequence < i BY <1>1, <1>2, <2>1 DEF Comes, IsChunk
  <2> QED BY <1>1, <2>2, MessageParts
<1> QED BY <1>3, <1>4

\* The first message of a queue is handled.
LEMMA HandledQueues ==
    ASSUME TypeInv, QueueInv, NEW k \in 1..MaxConnections, incoming[k] # <<>>, Handled(k)
    PROVE  /\ incoming' \in [1..MaxConnections -> Seq(OutputMessages)]
           /\ incoming[k] \in Seq(OutputMessages) /\ Orderly(incoming[k], sequence, execution)
           /\ Head(incoming[k]) \in OutputMessages
           /\ 1 \in DOMAIN incoming[k] /\ incoming[k][1] = Head(incoming[k])
           /\ \A j \in 1..MaxConnections :
                 /\ Orderly(incoming'[j], sequence, execution)
                 /\ \A c : /\ Free(incoming[j], c) => Free(incoming'[j], c)
                           /\ Says(incoming'[j], c) => Says(incoming[j], c)
                 /\ \A c, n : Has(incoming[j], c, n) =>
                       Has(incoming'[j], c, n) \/ (j = k /\ IsChunk(Head(incoming[k]), c, n))
<1> DEFINE q == incoming[k]
           p == Tail(q)
<1>1. incoming \in [1..MaxConnections -> Seq(OutputMessages)] BY DEF TypeInv, OutputTypeOK
<1>2. \A j \in 1..MaxConnections : Orderly(incoming[j], sequence, execution) BY DEF QueueInv
<1>3. incoming' = [incoming EXCEPT ![k] = p] BY DEF Handled
<1>4. q \in Seq(OutputMessages) BY <1>1
<1>5. /\ p \in Seq(OutputMessages) /\ Thins(p, q)
      /\ q[1] = Head(q) /\ 1 \in DOMAIN q /\ Head(q) \in OutputMessages
      /\ \A c, n : Has(q, c, n) => Has(p, c, n) \/ IsChunk(Head(q), c, n)
  BY <1>4, TailQueue
<1>6. /\ Orderly(p, sequence, execution)
      /\ \A c : (Says(p, c) => Says(q, c)) /\ (Free(q, c) => Free(p, c))
  BY <1>2, <1>4, <1>5, ThinsKeeps
<1>7. incoming'[k] = p /\ \A j \in 1..MaxConnections \ {k} : incoming'[j] = incoming[j]
  BY <1>1, <1>3
<1>8. incoming' \in [1..MaxConnections -> Seq(OutputMessages)] BY <1>1, <1>3, <1>5
<1> HIDE DEF p
<1> QED BY <1>2, <1>4, <1>5, <1>6, <1>7, <1>8

\* A socket the Server closes carries on, as far as the Client can tell.
LEMMA RefusedLink ==
    ASSUME link \in Links, NEW k, Refuse(k) \/ link' = link
    PROVE  /\ link' \in Links /\ (link' = "down" <=> link = "down")
           /\ (Carries' <=> Carries) /\ (LooksOpen' <=> LooksOpen)
BY DEF Refuse, Links, Carries, LooksOpen

\* A Command whose queues lose no chunk that is not stored.
LEMMA DeliveryMoves ==
    ASSUME NEW c \in Commands, Delivery(c), link' = "down" <=> link = "down", Carries' <=> Carries,
           UNCHANGED <<connection, bufferedMessages>>, connection \in 1..MaxConnections,
           written'[c] = written[c], sequence'[c] = sequence[c], journal'[c] = journal[c],
           seen'[c] = seen[c], cursor'[c] = cursor[c], chunks[c] \subseteq chunks'[c],
           \A k \in 1..MaxConnections :
               /\ Free(incoming[k], c) => Free(incoming'[k], c)
               /\ Says(incoming'[k], c) => Says(incoming[k], c)
               /\ InFlight(c, k) \/ Waiting(c) => Sound(chunks'[c], seen[c], cursor[c])
               /\ InFlight(c, k) => \A n : Has(incoming[k], c, n) =>
                     Has(incoming'[k], c, n) \/ n \in chunks'[c]
    PROVE  Delivery(c)'
<1>1. ASSUME NEW k \in 1..MaxConnections, InFlight(c, k) PROVE InFlight(c, k)'
  <2>1. Covers(incoming'[k], c, sequence[c], chunks'[c]) BY <1>1 DEF InFlight, Covers
  <2>2. Free(bufferedMessages', c) /\ \A j \in 1..MaxConnections \ {k} : Free(incoming'[j], c)
    BY <1>1 DEF InFlight
  <2> QED BY <1>1, <2>1, <2>2 DEF InFlight
<1>2. ASSUME Waiting(c), 1 \in 1..MaxConnections PROVE Waiting(c)'
  <2>1. Sound(chunks'[c], seen[c], cursor[c]) BY <1>2
  <2> QED BY <1>2, <2>1 DEF Waiting, Covers
<1>3. 1 \in 1..MaxConnections BY OutputBounds
<1>4. Sure(journal'[c]) /\ Carries' => InFlight(c, connection)' BY <1>1 DEF Delivery
<1>5. Sure(journal'[c]) /\ link' = "down" => Waiting(c)' BY <1>2, <1>3 DEF Delivery
<1>6. ASSUME NEW k \in 1..MaxConnections, Says(incoming'[k], c)
      PROVE  written'[c] = sequence'[c] /\ InFlight(c, k)'
  BY <1>1, <1>6 DEF Delivery
<1> QED BY <1>4, <1>5, <1>6 DEF Delivery

\* A chunk is stored, or refused because there is enough of it or its Command
\* is over.
LEMMA addCommandOutputKeeps ==
    ASSUME OutputInv, NEW k \in 1..MaxConnections, addCommandOutput(k)
    PROVE  OutputInv'
<1>1. TypeInv /\ QueueInv /\ \A c \in Commands : LocalInv(c) /\ DeliveryInv(c) BY DEF OutputInv
<1> DEFINE q == incoming[k]
           m == Head(q)
           d == m.command
           n == m.sequence
<1>2. /\ q # <<>> /\ IsOutput(m) /\ Handled(k) /\ (Refuse(k) \/ link' = link)
      /\ chunks' = IF row[d] = "active" /\ Cardinality(chunks[d]) < ServerLimit
                   THEN [chunks EXCEPT ![d] = @ \cup {n}] ELSE chunks
      /\ UNCHANGED <<execution, written, sequence, dropping, truncatedCommands, unconfirmedCommands,
                     bufferedMessages, journal, connection, acknowledged, row, failed, failures,
                     seen, cursor, crashes>>
  BY DEF addCommandOutput, processVars, marks, readerVars
<1>3. /\ incoming' \in [1..MaxConnections -> Seq(OutputMessages)]
      /\ q \in Seq(OutputMessages) /\ Orderly(q, sequence, execution)
      /\ m \in OutputMessages /\ 1 \in DOMAIN q /\ q[1] = m
      /\ \A j \in 1..MaxConnections :
            /\ Orderly(incoming'[j], sequence, execution)
            /\ \A c : /\ Free(incoming[j], c) => Free(incoming'[j], c)
                      /\ Says(incoming'[j], c) => Says(incoming[j], c)
            /\ \A c, i : Has(incoming[j], c, i) => Has(incoming'[j], c, i) \/ (j = k /\ IsChunk(m, c, i))
  BY <1>1, <1>2, HandledQueues
<1>4. link' \in Links /\ (link' = "down" <=> link = "down") /\ (Carries' <=> Carries) /\ (LooksOpen' <=> LooksOpen)
  BY <1>1, <1>2, RefusedLink DEF TypeInv, OutputTypeOK
<1>5. d \in Commands /\ n \in Nat /\ n < sequence[d] /\ sequence[d] \in Nat
  BY <1>1, <1>2, <1>3, MessageParts DEF Orderly, TypeInv, OutputTypeOK
<1> HIDE DEF q, m, d, n
<1>6. /\ \A c \in Commands \ {d} : chunks'[c] = chunks[c]
      /\ chunks' \in [Commands -> SUBSET Nat] /\ chunks[d] \subseteq chunks'[d]
      /\ chunks'[d] \subseteq chunks[d] \cup {n} /\ (row[d] # "active" => chunks'[d] = chunks[d])
  BY <1>1, <1>2, <1>5 DEF TypeInv, OutputTypeOK
<1>7. TypeInv' BY <1>1, <1>2, <1>3, <1>4, <1>6 DEF TypeInv, OutputTypeOK
<1>8. QueueInv' BY <1>1, <1>2, <1>3, <1>4 DEF QueueInv
<1>9. ASSUME NEW c \in Commands PROVE LocalInv(c)'
  <2>1. CASE c # d BY <1>1, <1>2, <1>6, <2>1, LocalRests
  <2>2. CASE c = d
    <3>1. Counted(c)' BY <1>1, <1>2, <1>5, <1>6, <2>2 DEF LocalInv, Counted
    <3>2. Journaled(c)' /\ Marked(c)' BY <1>1, <1>2 DEF LocalInv, Journaled, Marked
    <3> QED BY <3>1, <3>2 DEF LocalInv
  <2> QED BY <2>1, <2>2
\* Of a Command that is over nothing changes; the others' chunks are moved.
<1>10. ASSUME NEW c \in Commands, row[c] = "active", c \notin failed PROVE Delivery(c)'
  <2>1. Delivery(c) /\ Counted(c) BY <1>1, <1>10 DEF DeliveryInv, LocalInv
  <2>2. ASSUME NEW j \in 1..MaxConnections, InFlight(c, j) \/ Waiting(c)
        PROVE  /\ Sound(chunks'[c], seen[c], cursor[c])
               /\ InFlight(c, j) => \A i : Has(incoming[j], c, i) =>
                     Has(incoming'[j], c, i) \/ i \in chunks'[c]
    <3>1. CASE c # d
      BY <1>3, <1>6, <2>2, <3>1 DEF InFlight, Waiting, IsChunk, d
    <3>2. CASE c = d
      <4>1. ~Free(incoming[k], d) BY <1>2, <1>3 DEF Free, d, q, m
      <4>2. InFlight(d, k) /\ j = k BY <2>2, <3>2, <4>1 DEF InFlight, Waiting
      <4>3. ASSUME NEW i \in 0..(n - 1) PROVE i \in chunks[d]
        <5>1. i \in Nat /\ i < n /\ i \in 0..(sequence[d] - 1) BY <1>5
        <5>2. ~Has(q, d, i) BY <1>2, <1>3, <1>5, <5>1, FirstInQueue DEF d, m, n
        <5> QED BY <4>2, <5>1, <5>2 DEF InFlight, Covers, q
      <4>4. n \in chunks'[d]
        <5>1. CASE Cardinality(chunks[d]) < ServerLimit
          BY <1>1, <1>2, <1>5, <1>10, <3>2, <5>1 DEF TypeInv, OutputTypeOK
        <5>2. CASE ~(Cardinality(chunks[d]) < ServerLimit)
          <6>1. /\ chunks[d] \in SUBSET (0..(sequence[d] - 1)) /\ sequence[d] <= ChunkLimit[d]
                /\ ChunkLimit[d] \in 0..ServerLimit /\ ServerLimit \in Nat
            BY <1>5, <2>1, <3>2, OutputBounds DEF Counted
          <6>2. IsFiniteSet(0..(sequence[d] - 1)) /\ Cardinality(0..(sequence[d] - 1)) = sequence[d]
            <7>1. 0 \in Int /\ sequence[d] - 1 \in Int BY <1>5
            <7>2. /\ IsFiniteSet(0..(sequence[d] - 1))
                  /\ Cardinality(0..(sequence[d] - 1)) =
                        IF 0 > sequence[d] - 1 THEN 0 ELSE sequence[d] - 1 - 0 + 1
              BY <7>1, FS_Interval
            <7> QED BY <1>5, <7>2
          <6>3. /\ IsFiniteSet(chunks[d]) /\ Cardinality(chunks[d]) <= sequence[d]
                /\ Cardinality(chunks[d]) = sequence[d] => chunks[d] = 0..(sequence[d] - 1)
            <7> DEFINE all == 0..(sequence[d] - 1)
            <7>1. IsFiniteSet(all) /\ Cardinality(all) = sequence[d] /\ chunks[d] \in SUBSET all
              BY <6>1, <6>2
            <7> HIDE DEF all
            <7>2. /\ IsFiniteSet(chunks[d]) /\ Cardinality(chunks[d]) <= Cardinality(all)
                  /\ Cardinality(all) = Cardinality(chunks[d]) => all = chunks[d]
              BY <7>1, FS_Subset
            <7> QED BY <7>1, <7>2 DEF all
          <6>4. Cardinality(chunks[d]) \in Nat BY <6>3, FS_CardinalityType
          <6>5. Cardinality(chunks[d]) = sequence[d] BY <1>5, <5>2, <6>1, <6>3, <6>4
          <6> QED BY <1>5, <1>6, <6>3, <6>5
        <5> QED BY <5>1, <5>2
      <4>5. chunks'[d] = chunks[d] \cup {n} BY <1>6, <4>4
      <4>6. Sound(chunks[d], seen[d], cursor[d]) BY <4>2 DEF InFlight
      <4>7. \A i \in chunks'[d] : 0..i \subseteq chunks'[d]
        BY <1>5, <4>3, <4>5, <4>6 DEF Sound
      <4>8. \A i \in chunks'[d] : i < cursor[d] => i \in seen[d]
        <5>1. SUFFICES ASSUME n < cursor[d] PROVE n \in chunks[d]
          BY <4>5, <4>6 DEF Sound
        <5>2. cursor[d] \in Nat /\ cursor[d] - 1 \in chunks[d] /\ n \in 0..(cursor[d] - 1)
          BY <1>1, <1>5, <2>1, <3>2, <5>1 DEF Counted, TypeInv, OutputTypeOK
        <5> QED BY <4>6, <5>2 DEF Sound
      <4>9. Sound(chunks'[c], seen[c], cursor[c]) BY <3>2, <4>7, <4>8 DEF Sound
      <4>10. \A i : Has(incoming[k], d, i) => Has(incoming'[k], d, i) \/ i \in chunks'[d]
        BY <1>3, <4>4 DEF IsChunk, n
      <4> QED BY <3>2, <4>2, <4>9, <4>10
    <3> QED BY <3>1, <3>2
  <2>3. connection \in 1..MaxConnections /\ chunks[c] \subseteq chunks'[c]
    BY <1>1, <1>6 DEF TypeInv, OutputTypeOK
  <2> QED BY <1>2, <1>3, <1>4, <2>1, <2>2, <2>3, DeliveryMoves
<1>11. ASSUME NEW c \in Commands PROVE DeliveryInv(c)'
  BY <1>1, <1>2, <1>6, <1>10 DEF DeliveryInv, Decided
<1> QED BY <1>7, <1>8, <1>9, <1>11 DEF OutputInv

\* The database rejects a chunk.
LEMMA addCommandOutputFailsKeeps ==
    ASSUME OutputInv, NEW k \in 1..MaxConnections, addCommandOutputFails(k)
    PROVE  OutputInv'
<1>1. TypeInv /\ QueueInv /\ \A c \in Commands : LocalInv(c) /\ DeliveryInv(c) BY DEF OutputInv
<1> DEFINE m == Head(incoming[k])
<1>2. /\ incoming[k] # <<>> /\ IsOutput(m) /\ Handled(k) /\ Refuse(k)
      /\ failures' = failures + 1 /\ failed' = failed \cup {m.command}
      /\ UNCHANGED <<execution, written, sequence, dropping, truncatedCommands, unconfirmedCommands,
                     bufferedMessages, journal, connection, acknowledged, row, chunks,
                     seen, cursor, crashes>>
  BY DEF addCommandOutputFails, processVars, marks, readerVars
<1>3. /\ incoming' \in [1..MaxConnections -> Seq(OutputMessages)]
      /\ m \in OutputMessages
      /\ \A j \in 1..MaxConnections :
            /\ Orderly(incoming'[j], sequence, execution)
            /\ \A c : /\ Free(incoming[j], c) => Free(incoming'[j], c)
                      /\ Says(incoming'[j], c) => Says(incoming[j], c)
            /\ \A c, i : Has(incoming[j], c, i) => Has(incoming'[j], c, i) \/ (j = k /\ IsChunk(m, c, i))
  BY <1>1, <1>2, HandledQueues
<1>4. link' \in Links /\ (link' = "down" <=> link = "down") /\ (Carries' <=> Carries) /\ (LooksOpen' <=> LooksOpen)
  BY <1>1, <1>2, RefusedLink DEF TypeInv, OutputTypeOK
<1>5. m.command \in Commands BY <1>3, MessageParts
<1> HIDE DEF m
<1>6. TypeInv' BY <1>1, <1>2, <1>3, <1>4, <1>5 DEF TypeInv, OutputTypeOK
<1>7. QueueInv' BY <1>1, <1>2, <1>3, <1>4 DEF QueueInv
<1>8. ASSUME NEW c \in Commands PROVE LocalInv(c)' BY <1>1, <1>2, LocalRests
<1>9. ASSUME NEW c \in Commands, row[c] = "active", c \notin failed' PROVE Delivery(c)'
  <2>1. Delivery(c) /\ c # m.command BY <1>1, <1>2, <1>9 DEF DeliveryInv
  <2>2. connection \in 1..MaxConnections BY <1>1 DEF TypeInv, OutputTypeOK
  <2>3. \A j \in 1..MaxConnections : InFlight(c, j) \/ Waiting(c) => Sound(chunks'[c], seen[c], cursor[c])
    BY <1>2 DEF InFlight, Waiting
  <2>4. \A j \in 1..MaxConnections : \A i : Has(incoming[j], c, i) => Has(incoming'[j], c, i)
    BY <1>3, <2>1 DEF IsChunk
  <2> QED BY <1>2, <1>3, <1>4, <2>1, <2>2, <2>3, <2>4, DeliveryMoves
<1>10. ASSUME NEW c \in Commands PROVE DeliveryInv(c)'
  BY <1>1, <1>2, <1>9 DEF DeliveryInv, Decided
<1> QED BY <1>6, <1>7, <1>8, <1>10 DEF OutputInv

\* A Command's result arrives: if it is whole, all its chunks came before it.
LEMMA markCommandCompletedKeeps ==
    ASSUME OutputInv, NEW k \in 1..MaxConnections, markCommandCompleted(k)
    PROVE  OutputInv'
<1>1. TypeInv /\ QueueInv /\ \A c \in Commands : LocalInv(c) /\ DeliveryInv(c) BY DEF OutputInv
<1> DEFINE q == incoming[k]
           m == Head(q)
           d == m.command
<1>2. /\ q # <<>> /\ ~IsOutput(m) /\ Handled(k)
      /\ row' = IF row[d] = "active"
                THEN [row EXCEPT ![d] = IF m.truncated THEN "truncated" ELSE "whole"] ELSE row
      /\ acknowledged' \subseteq acknowledged \cup {d}
      /\ UNCHANGED <<execution, written, sequence, dropping, truncatedCommands, unconfirmedCommands,
                     bufferedMessages, journal, link, connection, chunks, failed, failures,
                     seen, cursor, crashes>>
  BY DEF markCommandCompleted, processVars, marks, readerVars
<1>3. /\ incoming' \in [1..MaxConnections -> Seq(OutputMessages)]
      /\ q \in Seq(OutputMessages) /\ Orderly(q, sequence, execution)
      /\ m \in OutputMessages /\ 1 \in DOMAIN q /\ q[1] = m
      /\ \A j \in 1..MaxConnections :
            /\ Orderly(incoming'[j], sequence, execution)
            /\ \A c : /\ Free(incoming[j], c) => Free(incoming'[j], c)
                      /\ Says(incoming'[j], c) => Says(incoming[j], c)
            /\ \A c, i : Has(incoming[j], c, i) => Has(incoming'[j], c, i) \/ (j = k /\ IsChunk(m, c, i))
  BY <1>1, <1>2, HandledQueues
<1>4. d \in Commands /\ execution[d] \in Over /\ m.truncated \in BOOLEAN
  BY <1>2, <1>3, MessageParts DEF Orderly
<1>5. ASSUME ~m.truncated PROVE Says(q, d) BY <1>2, <1>3, <1>5 DEF Says, SaysWhole, d
<1>6. \A i \in Nat : ~Has(q, d, i) BY <1>2, <1>3, FirstInQueue DEF d, m
<1> HIDE DEF q, m, d
<1>7. /\ \A c \in Commands \ {d} : row'[c] = row[c]
      /\ row' \in [Commands -> {"active", "withdrawn", "whole", "truncated"}]
      /\ row'[d] # "active" /\ (row[d] # "active" => row'[d] = row[d])
      /\ row[d] = "active" => row'[d] = IF m.truncated THEN "truncated" ELSE "whole"
  BY <1>1, <1>2, <1>4 DEF TypeInv, OutputTypeOK
<1>8. TypeInv'
  <2>1. acknowledged' \subseteq Commands BY <1>1, <1>2, <1>4 DEF TypeInv, OutputTypeOK
  <2> QED BY <1>1, <1>2, <1>3, <1>7, <2>1 DEF TypeInv, OutputTypeOK
<1>9. QueueInv' BY <1>1, <1>2, <1>3 DEF QueueInv, LooksOpen
<1>10. ASSUME NEW c \in Commands PROVE LocalInv(c)'
  <2>1. CASE c # d BY <1>1, <1>2, <1>7, <2>1, LocalRests
  <2>2. CASE c = d
    <3>1. Counted(c)' BY <1>1, <1>2 DEF LocalInv, Counted
    <3>2. Journaled(c)' BY <1>1, <1>2, <1>4, <1>7, <2>2 DEF LocalInv, Journaled
    <3>3. Marked(c)' BY <1>7, <2>2 DEF Marked
    <3> QED BY <3>1, <3>2, <3>3 DEF LocalInv
  <2> QED BY <2>1, <2>2
<1>11. ASSUME NEW c \in Commands, row'[c] = "active", c \notin failed PROVE Delivery(c)'
  <2>1. Delivery(c) /\ c # d BY <1>1, <1>7, <1>11 DEF DeliveryInv
  <2>2. connection \in 1..MaxConnections BY <1>1 DEF TypeInv, OutputTypeOK
  <2>3. \A j \in 1..MaxConnections : InFlight(c, j) \/ Waiting(c) => Sound(chunks'[c], seen[c], cursor[c])
    BY <1>2 DEF InFlight, Waiting
  <2>4. \A j \in 1..MaxConnections : \A i : Has(incoming[j], c, i) => Has(incoming'[j], c, i)
    BY <1>2, <1>3 DEF IsChunk
  <2> QED BY <1>2, <1>3, <2>1, <2>2, <2>3, <2>4, DeliveryMoves DEF Carries
<1>12. ASSUME NEW c \in Commands, row'[c] = "whole", c \notin failed PROVE Decided(c)
  <2>1. CASE row[c] = "whole" BY <1>1, <1>12, <2>1 DEF DeliveryInv
  <2>2. CASE row[c] # "whole"
    <3>1. c = d /\ row[c] = "active" /\ ~m.truncated BY <1>7, <1>12, <2>2
    <3>2. Delivery(c) /\ Counted(c) BY <1>1, <1>12, <3>1 DEF DeliveryInv, LocalInv
    <3>3. Says(incoming[k], c) BY <1>5, <3>1 DEF q
    <3>4. written[c] = sequence[c] /\ InFlight(c, k) BY <3>2, <3>3 DEF Delivery
    <3>5. \A i \in 0..(sequence[c] - 1) : i \in chunks[c]
      BY <1>6, <3>1, <3>4 DEF InFlight, Covers, q
    <3> QED BY <3>2, <3>4, <3>5 DEF InFlight, Sound, Counted, Decided
  <2> QED BY <2>1, <2>2
<1>13. ASSUME NEW c \in Commands PROVE DeliveryInv(c)'
  BY <1>1, <1>2, <1>11, <1>12 DEF DeliveryInv, Decided
<1> QED BY <1>8, <1>9, <1>10, <1>13 DEF OutputInv

\* The Server gives a Command up.
LEMMA WithdrawKeeps ==
    ASSUME OutputInv, NEW d \in Commands, Withdraw(d)
    PROVE  OutputInv'
<1>1. TypeInv /\ QueueInv /\ \A c \in Commands : LocalInv(c) /\ DeliveryInv(c) BY DEF OutputInv
<1>2. /\ row[d] = "active" /\ row' = [row EXCEPT ![d] = "withdrawn"]
      /\ UNCHANGED <<execution, written, sequence, dropping, truncatedCommands, unconfirmedCommands,
                     bufferedMessages, journal, link, connection, incoming, acknowledged, chunks,
                     failed, failures, seen, cursor, crashes>>
  BY DEF Withdraw, processVars, marks, readerVars
<1>3. row'[d] = "withdrawn" /\ \A c \in Commands \ {d} : row'[c] = row[c]
  BY <1>1, <1>2 DEF TypeInv, OutputTypeOK
<1>4. TypeInv' BY <1>1, <1>2 DEF TypeInv, OutputTypeOK
<1>5. QueueInv' BY <1>1, <1>2 DEF QueueInv, LooksOpen
<1>6. ASSUME NEW c \in Commands \ {d} PROVE LocalInv(c)' /\ DeliveryInv(c)'
  BY <1>1, <1>2, <1>3, LocalRests, DeliveryRests
<1>7. LocalInv(d)' /\ DeliveryInv(d)'
  BY <1>1, <1>2, <1>3 DEF LocalInv, Counted, Journaled, Marked, DeliveryInv
<1> QED BY <1>4, <1>5, <1>6, <1>7 DEF OutputInv

\* A page is not empty, and the chunks up to its last are those on it.
LEMMA PageEnds ==
    ASSUME NEW N \in Nat, NEW S \in SUBSET (0..N), S # {}
    PROVE  LET page == {n \in S : Cardinality({o \in S : o < n}) < PageChunks}
               last == CHOOSE n \in page : \A o \in page : o <= n IN
           /\ last \in page /\ \A o \in page : o <= last
           /\ \A n \in S : n <= last => n \in page
<1> DEFINE before(n) == {o \in S : o < n}
           page == {n \in S : Cardinality(before(n)) < PageChunks}
           last == CHOOSE n \in page : \A o \in page : o <= n
<1>1. IsFiniteSet(S) /\ \A n \in S : n \in Nat
  <2>1. 0 \in Int /\ N \in Int OBVIOUS
  <2>2. IsFiniteSet(0..N) BY <2>1, FS_Interval
  <2>3. IsFiniteSet(S) BY <2>2, FS_Subset
  <2> QED BY <2>3
<1>2. ASSUME NEW n \in S PROVE IsFiniteSet(before(n)) /\ Cardinality(before(n)) \in Nat
  <2>1. before(n) \in SUBSET S OBVIOUS
  <2> HIDE DEF before
  <2>2. IsFiniteSet(before(n)) BY <1>1, <2>1, FS_Subset
  <2> QED BY <2>2, FS_CardinalityType
<1>3. ASSUME NEW n \in S, NEW o \in S, n <= o PROVE Cardinality(before(n)) <= Cardinality(before(o))
  <2>1. \A x \in S : x < n => x < o BY <1>1, <1>3
  <2>2. before(n) \in SUBSET before(o) BY <2>1
  <2>3. IsFiniteSet(before(o)) BY <1>2
  <2> HIDE DEF before
  <2> QED BY <2>2, <2>3, FS_Subset
<1>4. page # {}
  <2>1. PICK first \in S : \A o \in S : first <= o
    <3>1. S \in SUBSET Nat BY <1>1
    <3> QED BY <3>1, Smallest
  <2>2. before(first) = {}
    <3>1. \A o \in S : ~(o < first) BY <1>1, <2>1
    <3> QED BY <3>1
  <2>3. Cardinality(before(first)) = 0 BY <2>2, FS_EmptySet
  <2>4. PageChunks > 0 BY OutputBounds
  <2> QED BY <2>3, <2>4
<1>5. page \in SUBSET (0..N) OBVIOUS
<1>6. ASSUME NEW n \in S, NEW o \in page, n <= o PROVE n \in page
  <2>1. o \in S /\ Cardinality(before(o)) < PageChunks /\ PageChunks \in Nat BY OutputBounds
  <2>2. /\ Cardinality(before(n)) <= Cardinality(before(o))
        /\ Cardinality(before(n)) \in Nat /\ Cardinality(before(o)) \in Nat
    BY <1>2, <1>3, <1>6, <2>1
  <2> HIDE DEF before
  <2> QED BY <2>1, <2>2
<1>7. page \subseteq S OBVIOUS
<1>8. last \in page /\ \A o \in page : o <= last
  <2> HIDE DEF page
  <2>1. \E n \in page : \A o \in page : o <= n BY <1>4, <1>5, Largest
  <2> QED BY <2>1
<1>9. \A n \in S : n <= last => n \in page
  <2> HIDE DEF page, last
  <2> QED BY <1>6, <1>8
<1> QED BY <1>8, <1>9

\* An Agent reads a page of a Command's output.
LEMMA commandOutputKeeps ==
    ASSUME OutputInv, NEW d \in Commands, commandOutput(d)
    PROVE  OutputInv'
<1>1. TypeInv /\ QueueInv /\ \A c \in Commands : LocalInv(c) /\ DeliveryInv(c) BY DEF OutputInv
<1> DEFINE after == {n \in chunks[d] : n >= cursor[d]}
           page == {n \in after : Cardinality({o \in after : o < n}) < PageChunks}
           last == CHOOSE n \in page : \A o \in page : o <= n
<1>2. /\ after # {}
      /\ seen' = [seen EXCEPT ![d] = @ \cup page]
      /\ cursor' = [cursor EXCEPT ![d] = 1 + last]
      /\ UNCHANGED <<execution, written, sequence, dropping, truncatedCommands, unconfirmedCommands,
                     bufferedMessages, journal, link, connection, incoming, acknowledged, row,
                     chunks, failed, failures, crashes>>
  BY DEF commandOutput, processVars, marks, serverVars
<1>3. /\ chunks[d] \subseteq 0..(sequence[d] - 1) /\ sequence[d] \in Nat /\ cursor[d] \in Nat
      /\ \A n \in seen[d] : n \in chunks[d] /\ n < cursor[d]
  BY <1>1 DEF LocalInv, Counted, TypeInv, OutputTypeOK
<1>4. after \in SUBSET (0..sequence[d]) /\ after \subseteq chunks[d] BY <1>3
<1>5. page \subseteq after OBVIOUS
<1>6. last \in page /\ (\A o \in page : o <= last) /\ \A n \in after : n <= last => n \in page
  <2> HIDE DEF after
  <2> QED BY <1>2, <1>3, <1>4, PageEnds
<1>7. \A n \in chunks[d] : n \in after <=> n >= cursor[d] OBVIOUS
<1> HIDE DEF after, page, last
<1>8. last \in chunks[d] /\ last >= cursor[d] /\ last \in Nat BY <1>3, <1>4, <1>5, <1>6, <1>7
<1>9. ASSUME NEW c \in Commands \ {d} PROVE seen'[c] = seen[c] /\ cursor'[c] = cursor[c]
  BY <1>1, <1>2 DEF TypeInv, OutputTypeOK
<1>10. seen'[d] = seen[d] \cup page /\ cursor'[d] = last + 1
  BY <1>1, <1>2, <1>8 DEF TypeInv, OutputTypeOK
<1>11. TypeInv'
  <2>1. page \subseteq Nat BY <1>3, <1>4, <1>5
  <2>2. seen' \in [Commands -> SUBSET Nat] BY <1>1, <1>2, <2>1 DEF TypeInv, OutputTypeOK
  <2>3. cursor' \in [Commands -> Nat] BY <1>1, <1>2, <1>8 DEF TypeInv, OutputTypeOK
  <2> QED BY <1>1, <1>2, <2>2, <2>3 DEF TypeInv, OutputTypeOK
<1>12. QueueInv' BY <1>1, <1>2 DEF QueueInv, LooksOpen
<1>13. ASSUME NEW c \in Commands \ {d} PROVE LocalInv(c)' /\ DeliveryInv(c)'
  BY <1>1, <1>2, <1>9, LocalRests, DeliveryRests
<1>14. ASSUME NEW n \in seen[d] \cup page PROVE n \in chunks[d] /\ n < last + 1
  <2>1. CASE n \in seen[d] BY <1>3, <1>8, <2>1
  <2>2. CASE n \in page
    <3>1. n \in chunks[d] /\ n <= last BY <1>4, <1>5, <1>6, <2>2
    <3> QED BY <1>3, <1>8, <3>1
  <2> QED BY <1>14, <2>1, <2>2
<1>15. ASSUME \A n \in chunks[d] : n < cursor[d] => n \in seen[d], NEW n \in chunks[d], n < last + 1
       PROVE  n \in seen[d] \cup page
  <2>1. n \in Nat BY <1>3
  <2>2. CASE n < cursor[d] BY <1>15, <2>2
  <2>3. CASE ~(n < cursor[d]) BY <1>3, <1>6, <1>7, <1>8, <1>15, <2>1, <2>3
  <2> QED BY <2>2, <2>3
<1>16. LocalInv(d)'
  <2>1. Counted(d)' BY <1>1, <1>2, <1>8, <1>10, <1>14 DEF LocalInv, Counted
  <2>2. Journaled(d)' /\ Marked(d)' BY <1>1, <1>2 DEF LocalInv, Journaled, Marked
  <2> QED BY <2>1, <2>2 DEF LocalInv
<1>17. DeliveryInv(d)'
  <2>1. Sound(chunks[d], seen[d], cursor[d]) => Sound(chunks'[d], seen'[d], cursor'[d])
    BY <1>2, <1>10, <1>15 DEF Sound
  <2>2. Decided(d) => Decided(d)' BY <1>2, <1>10, <1>15 DEF Decided
  <2>3. ASSUME Delivery(d) PROVE Delivery(d)'
    <3>1. \A k \in 1..MaxConnections : InFlight(d, k) => InFlight(d, k)' BY <1>2, <2>1 DEF InFlight
    <3>2. Waiting(d) => Waiting(d)' BY <1>2, <2>1 DEF Waiting
    <3>3. connection \in 1..MaxConnections BY <1>1 DEF TypeInv, OutputTypeOK
    <3>4. InFlight(d, connection) => InFlight(d, connection)' BY <1>2, <2>1 DEF InFlight
    <3> QED BY <1>2, <2>3, <3>1, <3>2, <3>4 DEF Delivery, Carries
  <2> QED BY <1>1, <1>2, <2>2, <2>3 DEF DeliveryInv
<1> QED BY <1>11, <1>12, <1>13, <1>16, <1>17 DEF OutputInv

-----------------------------------------------------------------------------
(* Every behaviour *)

\* Nothing has happened yet.
LEMMA OutputStarts == OutputInit => OutputInv
<1> SUFFICES ASSUME OutputInit PROVE OutputInv OBVIOUS
<1>1. TypeInv
  <2>1. OutputTypeOK
    <3>1. /\ journal \in [Commands -> JournalRows] /\ connection \in 1..MaxConnections
          /\ bufferedMessages \in Seq(OutputMessages)
          /\ incoming \in [1..MaxConnections -> Seq(OutputMessages)]
          /\ chunks \in [Commands -> SUBSET Nat] /\ seen \in [Commands -> SUBSET Nat]
      BY OutputBounds DEF OutputInit, NoRow, JournalRows
    <3> QED BY <3>1 DEF OutputInit, OutputTypeOK, Links
  <2>2. {c \in Commands : journal[c].state # "none"} = {} BY DEF OutputInit, NoRow
  <2> QED BY <2>1, <2>2, FS_EmptySet DEF TypeInv
<1>2. QueueInv BY DEF OutputInit, QueueInv, Orderly, LooksOpen
<1>3. ASSUME NEW c \in Commands PROVE LocalInv(c) /\ DeliveryInv(c)
  <2>1. ChunkLimit[c] \in Nat BY OutputBounds
  <2>2. Counted(c) BY <2>1 DEF OutputInit, Counted
  <2>3. Journaled(c) /\ Marked(c) /\ ~Sure(journal[c])
    BY DEF OutputInit, Journaled, Marked, Sure, ResultFits, NoRow, Over
  <2>4. Delivery(c) BY <2>3 DEF OutputInit, Delivery, Says
  <2> QED BY <2>2, <2>3, <2>4 DEF LocalInv, DeliveryInv, OutputInit
<1> QED BY <1>1, <1>2, <1>3 DEF OutputInv

\* Every step keeps the invariant, and so does none.
LEMMA OutputStep == OutputInv /\ [OutputNext]_outputVars => OutputInv'
<1> SUFFICES ASSUME OutputInv, [OutputNext]_outputVars PROVE OutputInv' OBVIOUS
<1>1. CASE UNCHANGED outputVars
  <2>1. TypeInv /\ QueueInv /\ \A c \in Commands : LocalInv(c) /\ DeliveryInv(c) BY DEF OutputInv
  <2>2. UNCHANGED <<execution, written, sequence, dropping, truncatedCommands, unconfirmedCommands,
                    bufferedMessages, journal, link, connection, incoming, acknowledged, row,
                    chunks, failed, failures, seen, cursor, crashes>>
    BY <1>1 DEF outputVars, processVars, marks, serverVars, readerVars
  <2>3. TypeInv' /\ QueueInv' BY <2>1, <2>2 DEF TypeInv, OutputTypeOK, QueueInv, LooksOpen
  <2>4. ASSUME NEW c \in Commands PROVE LocalInv(c)' /\ DeliveryInv(c)'
    BY <2>1, <2>2, LocalRests, DeliveryRests
  <2> QED BY <2>3, <2>4 DEF OutputInv
<1>2. ASSUME NEW c \in Commands,
             \/ Start(c) \/ EmitNothing(c) \/ EmitTooMuch(c) \/ Emit(c) \/ Finish(c)
             \/ Acknowledge(c) \/ Withdraw(c) \/ commandOutput(c)
      PROVE  OutputInv'
  BY <1>2, StartKeeps, EmitNothingKeeps, EmitTooMuchKeeps, EmitKeeps, FinishKeeps,
     AcknowledgeKeeps, WithdrawKeeps, commandOutputKeeps
<1>3. CASE Break \/ NotWritable \/ CloseEventFires \/ Reauthenticated(journal) \/ ClientCrashes
  BY <1>3, BreakKeeps, NotWritableKeeps, CloseKeeps, ReauthenticatedKeeps, CrashKeeps
<1>4. ASSUME NEW k \in 1..MaxConnections,
             addCommandOutput(k) \/ addCommandOutputFails(k) \/ markCommandCompleted(k)
      PROVE  OutputInv'
  BY <1>4, addCommandOutputKeeps, addCommandOutputFailsKeeps, markCommandCompletedKeeps
<1> QED BY <1>1, <1>2, <1>3, <1>4 DEF OutputNext

\* The chunks of a Command whose row is not truncated are where they should be.
THEOREM OutputInvariant == OutputSpec => []OutputInv
BY OutputStarts, OutputStep, PTL DEF OutputSpec

\* The variables of both sides, the queues and the journal's rows keep their
\* types.
THEOREM OutputTypes == OutputSpec => []OutputTypeOK
<1>1. OutputInv => OutputTypeOK BY DEF OutputInv, TypeInv
<1> QED BY <1>1, OutputInvariant, PTL

\* A result that is not called truncated comes with all the process wrote, over
\* any number of broken connections and crashes.
THEOREM OutputWholeMeansAll == OutputSpec => []WholeMeansAll
<1>1. OutputInv => WholeMeansAll BY DEF OutputInv, DeliveryInv, Decided, WholeMeansAll
<1> QED BY <1>1, OutputInvariant, PTL

\* An Agent that follows its cursor has read every chunk of such an output that
\* is behind it, whenever it asked for its pages.
THEOREM OutputReaderMissesNothing == OutputSpec => []ReaderMissesNothing
<1>1. OutputInv => ReaderMissesNothing
  BY DEF OutputInv, LocalInv, Counted, DeliveryInv, Decided, ReaderMissesNothing
<1> QED BY <1>1, OutputInvariant, PTL

\* A completion that says "truncated" gets into a queue or out of it.
LEMMA TruncatesMoves ==
    ASSUME NEW q \in Seq(OutputMessages)
    PROVE  /\ \A m \in OutputMessages : \A c : Truncates(Append(q, m), c) =>
                 Truncates(q, c) \/ (~IsOutput(m) /\ m.command = c /\ m.truncated)
           /\ q # <<>> => \A c :
                 /\ Truncates(Tail(q), c) => Truncates(q, c)
                 /\ ~IsOutput(Head(q)) /\ Head(q).command = c /\ Head(q).truncated => Truncates(q, c)
<1>1. ASSUME NEW m \in OutputMessages, NEW c, Truncates(Append(q, m), c)
      PROVE  Truncates(q, c) \/ (~IsOutput(m) /\ m.command = c /\ m.truncated)
  <2> DEFINE p == Append(q, m)
  <2>1. /\ Len(q) \in Nat /\ DOMAIN q = 1..Len(q) /\ DOMAIN p = 1..(Len(q) + 1)
        /\ p[Len(q) + 1] = m /\ \A i \in 1..Len(q) : p[i] = q[i]
    OBVIOUS
  <2> HIDE DEF p
  <2>2. PICK i \in DOMAIN p : ~IsOutput(p[i]) /\ p[i].command = c /\ p[i].truncated
    BY <1>1 DEF Truncates, p
  <2>3. i \in DOMAIN q \/ i = Len(q) + 1 BY <2>1
  <2> QED BY <2>1, <2>2, <2>3 DEF Truncates
<1>2. ASSUME q # <<>>, NEW c, Truncates(Tail(q), c) PROVE Truncates(q, c)
  <2>1. /\ Len(q) \in Nat /\ DOMAIN q = 1..Len(q) /\ DOMAIN Tail(q) = 1..(Len(q) - 1)
        /\ \A i \in 1..(Len(q) - 1) : Tail(q)[i] = q[i + 1] /\ i + 1 \in 1..Len(q)
    BY <1>2
  <2> QED BY <1>2, <2>1 DEF Truncates
<1>3. ASSUME q # <<>>, NEW c, ~IsOutput(Head(q)), Head(q).command = c, Head(q).truncated
      PROVE  Truncates(q, c)
  <2>1. q[1] = Head(q) /\ 1 \in DOMAIN q BY <1>3, TailQueue
  <2> QED BY <1>3, <2>1 DEF Truncates
<1> QED BY <1>1, <1>2, <1>3

\* On the first connection of a Client that has not crashed a step calls output
\* truncated only when the process has written more than the limit.
LEMMA CauseStep == OutputInv /\ CauseInv /\ [OutputNext]_outputVars => CauseInv'
<1> SUFFICES ASSUME OutputInv, CauseInv, [OutputNext]_outputVars,
                    connection' = 1, crashes' = 0, link' = "up",
                    NEW c \in Commands, CalledTruncated(c)'
             PROVE  written'[c] > ChunkLimit[c]
  BY DEF CauseInv
<1>1. /\ connection \in 1..MaxConnections /\ crashes \in Nat /\ link \in Links
      /\ incoming \in [1..MaxConnections -> Seq(OutputMessages)]
      /\ written \in [Commands -> Nat] /\ sequence \in [Commands -> Nat]
      /\ dropping \in [Commands -> BOOLEAN] /\ journal \in [Commands -> JournalRows]
      /\ row \in [Commands -> {"active", "withdrawn", "whole", "truncated"}]
      /\ ChunkLimit \in [Commands -> Nat] /\ truncatedCommands \subseteq Commands
  <2>1. OutputTypeOK BY DEF OutputInv, TypeInv
  <2>2. ChunkLimit \in [Commands -> Nat] BY OutputBounds
  <2> QED BY <2>1, <2>2 DEF OutputTypeOK
<1> DEFINE Before == connection = 1 /\ crashes = 0 /\ link = "up"
\* It is enough that what calls the output truncated was there already.
<1>2. ASSUME Before, CalledTruncated(c), written'[c] = written[c] \/ written'[c] = written[c] + 1
      PROVE  written'[c] > ChunkLimit[c]
  <2>1. written[c] > ChunkLimit[c] BY <1>2 DEF CauseInv
  <2> QED BY <1>1, <1>2, <2>1
<1>3. \A k \in 1..MaxConnections :
         /\ \A m \in OutputMessages : Truncates(Append(incoming[k], m), c) =>
               Truncates(incoming[k], c) \/ (~IsOutput(m) /\ m.command = c /\ m.truncated)
         /\ incoming[k] # <<>> =>
               /\ Truncates(Tail(incoming[k]), c) => Truncates(incoming[k], c)
               /\ LET m == Head(incoming[k]) IN
                  ~IsOutput(m) /\ m.command = c /\ m.truncated => Truncates(incoming[k], c)
  BY <1>1, TruncatesMoves
<1>4. ASSUME UNCHANGED outputVars PROVE written'[c] > ChunkLimit[c]
  BY <1>2, <1>4 DEF outputVars, processVars, marks, serverVars, CalledTruncated
<1>5. ASSUME NEW d \in Commands, Start(d) PROVE written'[c] > ChunkLimit[c]
  <2>1. journal'[c].truncated => journal[c].truncated BY <1>1, <1>5 DEF Start, NoRow
  <2> QED BY <1>2, <1>5, <2>1 DEF Start, marks, serverVars, CalledTruncated
<1>6. ASSUME NEW d \in Commands, EmitNothing(d) PROVE written'[c] > ChunkLimit[c]
  <2>1. written'[c] = written[c] \/ written'[c] = written[c] + 1 BY <1>1, <1>6 DEF EmitNothing, Write
  <2>2. dropping'[c] => dropping[c] \/ c \in truncatedCommands BY <1>1, <1>6 DEF EmitNothing
  <2> QED BY <1>2, <1>6, <2>1, <2>2 DEF EmitNothing, marks, serverVars, CalledTruncated
<1>7. ASSUME NEW d \in Commands, EmitTooMuch(d) PROVE written'[c] > ChunkLimit[c]
  <2>1. CASE c = d
    <3>1. sequence[d] <= written[d] BY DEF OutputInv, LocalInv, Counted
    <3>2. written'[d] = written[d] + 1 /\ sequence[d] >= ChunkLimit[d]
      BY <1>1, <1>7 DEF EmitTooMuch, Write
    <3> QED BY <1>1, <2>1, <3>1, <3>2
  <2>2. CASE c # d
    <3>1. /\ written'[c] = written[c] /\ dropping'[c] = dropping[c]
          /\ journal'[c] = journal[c] /\ (c \in truncatedCommands' <=> c \in truncatedCommands)
      BY <1>1, <1>7, <2>2 DEF EmitTooMuch, Write, MarkTruncated
    <3> QED BY <1>2, <1>7, <3>1 DEF EmitTooMuch, serverVars, CalledTruncated
  <2> QED BY <2>1, <2>2
<1>8. ASSUME NEW d \in Commands, Emit(d) PROVE written'[c] > ChunkLimit[c]
  <2> DEFINE m == Output(d, sequence[d])
             j == IF d \in unconfirmedCommands THEN journal
                  ELSE [journal EXCEPT ![d] = markOutputUnconfirmed(@)]
  <2>1. Before /\ LooksOpen /\ Carries BY <1>8 DEF Emit, LooksOpen, Carries
  <2>2. /\ Write(d) /\ Send(m) /\ MarkTruncated({}, j)
        /\ dropping' = [dropping EXCEPT ![d] = FALSE] /\ row' = row
    BY <1>8, <2>1 DEF Emit, Deliver, serverVars
  <2>3. m \in OutputMessages /\ IsOutput(m) BY <1>1 DEF Output, OutputMessages, IsOutput
  <2>4. incoming' = [incoming EXCEPT ![connection] = Append(@, m)] BY <2>1, <2>2 DEF Send
  <2>5. \A k \in 1..MaxConnections : Truncates(incoming'[k], c) => Truncates(incoming[k], c)
    <3> HIDE DEF m
    <3> QED BY <1>1, <1>3, <2>3, <2>4
  <2>6. journal'[c].truncated => journal[c].truncated
    <3>1. ResultFits(journal[d]) BY DEF OutputInv, LocalInv, Journaled
    <3>2. markOutputUnconfirmed(journal[d]).truncated = journal[d].truncated BY <1>1, <3>1, RowMarks
    <3>3. journal'[c] = j[c] BY <2>2 DEF MarkTruncated
    <3> QED BY <1>1, <3>2, <3>3
  <2>7. written'[c] = written[c] \/ written'[c] = written[c] + 1 BY <1>1, <2>2 DEF Write
  <2>8. dropping'[c] => dropping[c] BY <1>1, <2>2
  <2>9. truncatedCommands' = truncatedCommands BY <2>2 DEF MarkTruncated
  <2> QED BY <1>2, <2>1, <2>2, <2>5, <2>6, <2>7, <2>8, <2>9 DEF CalledTruncated
<1>9. ASSUME NEW d \in Commands, Finish(d) PROVE written'[c] > ChunkLimit[c]
  <2> DEFINE truncated == dropping[d] \/ d \in truncatedCommands
             m == Completed(d, truncated)
  <2>1. Before /\ LooksOpen /\ Carries BY <1>9 DEF Finish, LooksOpen, Carries
  <2>2. /\ Send(m) /\ MarkTruncated({}, [journal EXCEPT ![d] = complete(@, truncated)])
        /\ UNCHANGED <<written, dropping, row>>
    BY <1>9, <2>1 DEF Finish, Deliver, serverVars
  <2>3. truncated \in BOOLEAN BY <1>1
  <2>4. m \in OutputMessages /\ m.command = d /\ m.truncated = truncated
    BY <2>3 DEF Completed, OutputMessages
  <2>5. incoming' = [incoming EXCEPT ![connection] = Append(@, m)] BY <2>1, <2>2 DEF Send
  <2>6. ASSUME NEW k \in 1..MaxConnections, Truncates(incoming'[k], c) PROVE CalledTruncated(c)
    <3>1. Truncates(incoming[k], c) \/ (c = d /\ truncated)
      <4> HIDE DEF m, truncated
      <4> QED BY <1>1, <1>3, <2>4, <2>5, <2>6
    <3> QED BY <3>1 DEF CalledTruncated
  <2>7. journal'[c].truncated => CalledTruncated(c)
    <3>1. complete(journal[d], truncated).truncated = (truncated \/ journal[d].truncated)
      BY <1>1, <2>3, CompletedRow
    <3>2. journal'[c] = [journal EXCEPT ![d] = complete(@, truncated)][c] BY <2>2 DEF MarkTruncated
    <3>3. CASE c = d BY <1>1, <3>1, <3>2, <3>3 DEF CalledTruncated
    <3>4. CASE c # d BY <1>1, <3>2, <3>4 DEF CalledTruncated
    <3> QED BY <3>3, <3>4
  <2>8. truncatedCommands' = truncatedCommands BY <2>2 DEF MarkTruncated
  <2>9. CalledTruncated(c) BY <2>2, <2>6, <2>7, <2>8 DEF CalledTruncated
  <2> QED BY <1>2, <2>1, <2>2, <2>9
<1>10. ASSUME NEW d \in Commands, Acknowledge(d) PROVE written'[c] > ChunkLimit[c]
  <2>1. journal'[c].truncated => journal[c].truncated BY <1>1, <1>10 DEF Acknowledge, NoRow
  <2> QED BY <1>2, <1>10, <2>1 DEF Acknowledge, processVars, serverVars, CalledTruncated
<1>11. ASSUME NEW d \in Commands, Withdraw(d) PROVE written'[c] > ChunkLimit[c]
  <2>1. row'[c] = "truncated" => row[c] = "truncated" BY <1>1, <1>11 DEF Withdraw
  <2> QED BY <1>2, <1>11, <2>1 DEF Withdraw, processVars, marks, CalledTruncated
<1>12. ASSUME NEW d \in Commands, commandOutput(d) PROVE written'[c] > ChunkLimit[c]
  BY <1>2, <1>12 DEF commandOutput, processVars, marks, serverVars, CalledTruncated
<1>13. ASSUME Break \/ NotWritable \/ CloseEventFires PROVE FALSE
  BY <1>13 DEF Break, NotWritable, CloseEventFires
<1>14. ASSUME Reauthenticated(journal) \/ ClientCrashes PROVE FALSE
  BY <1>1, <1>14 DEF Reauthenticated, ClientCrashes
<1>15. ASSUME NEW k \in 1..MaxConnections,
              addCommandOutput(k) \/ addCommandOutputFails(k) \/ markCommandCompleted(k)
       PROVE  written'[c] > ChunkLimit[c]
  <2> DEFINE m == Head(incoming[k])
  <2>1. /\ incoming[k] # <<>> /\ Handled(k)
        /\ UNCHANGED <<written, dropping, truncatedCommands, journal, connection, crashes>>
    BY <1>15 DEF addCommandOutput, addCommandOutputFails, markCommandCompleted, processVars, marks
  <2>2. Before BY <1>1, <1>15, <2>1
    DEF addCommandOutput, addCommandOutputFails, markCommandCompleted, Refuse
  <2>3. \A i \in 1..MaxConnections : Truncates(incoming'[i], c) => Truncates(incoming[i], c)
    BY <1>1, <1>3, <2>1 DEF Handled
  <2>4. ASSUME row'[c] = "truncated" PROVE row[c] = "truncated" \/ Truncates(incoming[k], c)
    <3>1. CASE row' = row BY <2>4, <3>1
    <3>2. CASE markCommandCompleted(k)
      <4>1. row[c] # "truncated" => ~IsOutput(m) /\ m.command = c /\ m.truncated
        BY <1>1, <2>4, <3>2 DEF markCommandCompleted
      <4> QED BY <1>3, <2>1, <4>1
    <3> QED BY <1>15, <3>1, <3>2 DEF addCommandOutput, addCommandOutputFails
  <2> QED BY <1>2, <2>1, <2>2, <2>3, <2>4 DEF CalledTruncated
<1> QED BY <1>4, <1>5, <1>6, <1>7, <1>8, <1>9, <1>10, <1>11, <1>12, <1>13, <1>14, <1>15
    DEF OutputNext

\* Output is called truncated only for a limit, a broken connection or a crash:
\* nobody is told that output is missing when it is not.
THEOREM OutputTruncationHasACause == OutputSpec => []TruncationHasACause
<1>1. OutputInit => CauseInv
  <2> SUFFICES ASSUME OutputInit, NEW c \in Commands PROVE ~CalledTruncated(c) BY DEF CauseInv
  <2> QED BY DEF OutputInit, CalledTruncated, Truncates, NoRow
<1>2. OutputInv /\ CauseInv => TruncationHasACause
  <2> SUFFICES ASSUME OutputInv, CauseInv, NEW c \in Commands,
                      row[c] = "truncated" \/ journal[c].truncated,
                      ~(connection > 1 \/ crashes > 0 \/ link # "up")
               PROVE  written[c] > ChunkLimit[c]
    BY DEF TruncationHasACause
  <2>1. connection = 1 /\ crashes = 0 /\ link = "up"
    BY OutputBounds DEF OutputInv, TypeInv, OutputTypeOK
  <2> QED BY <2>1 DEF CauseInv, CalledTruncated
<1> QED BY <1>1, <1>2, OutputInvariant, CauseStep, OutputStarts, PTL DEF OutputSpec

=============================================================================
