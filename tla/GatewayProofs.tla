------------------------------ MODULE GatewayProofs ------------------------------
(*****************************************************************************)
(* A Machine listens on one connection and is offered while it does, for any *)
(* number of sockets, Machines and revocations.  The inductive invariant     *)
(* says what the turn of a Machine may rely on between two of its awaits.    *)
(*****************************************************************************)
EXTENDS Gateway, TLAPS

\* A socket that has not been accepted has said nothing.
NewInv == \A s \in Sockets : socket[s] = "new" => auth[s] = "challenged"

\* A socket in the map proved to be its Machine's.
MapInv(m) ==
    connections[m] # NoSocket =>
        MachineOf[connections[m]] = m /\ auth[connections[m]] = "authenticated"

\* The turn and the operations behind it are about the Machine's own sockets,
\* the close operations among them about closed ones.
OwnInv(m) ==
    /\ turn[m].op # "none" => MachineOf[turn[m].socket] = m
    /\ turn[m].op = "close" => socket[turn[m].socket] = "closed"
QueueInv(m) ==
    \A i \in 1..Len(waiting[m]) :
        /\ MachineOf[waiting[m][i].socket] = m
        /\ waiting[m][i].op = "close" => socket[waiting[m][i].socket] = "closed"

\* What an authentication may rely on from one await to the next.
AuthenticateInv(m) ==
    turn[m].op = "authenticate" =>
        /\ turn[m].stage \in {"online", "register"} =>
              connections[m] \in {NoSocket, turn[m].socket} \/ ~Open(connections[m])
        /\ turn[m].stage = "undo" => ~Live(m)
        /\ turn[m].stage \in {"supersede", "online", "register"} => authorityOnline[m]
        /\ turn[m].stage = "register" /\ ~revoked[m] =>
              status[m] = "online" \/ incompatible[m]

\* A close handler that goes on has taken the connection out of the map.
CloseInv(m) ==
    turn[m].op = "close" /\ turn[m].stage \in {"offline", "disconnected"} =>
        connections[m] = NoSocket

\* The two properties, for one Machine.
OneLive(m) ==
    \A s \in Sockets : MachineOf[s] = m /\ Open(s) /\ auth[s] = "authenticated" =>
        connections[m] = s
Available(m) ==
    Live(m) /\ ~revoked[m] =>
        authorityOnline[m] /\ (status[m] = "online" \/ incompatible[m])

MachineInv(m) ==
    /\ MapInv(m) /\ OwnInv(m) /\ QueueInv(m) /\ AuthenticateInv(m) /\ CloseInv(m)
    /\ OneLive(m) /\ Available(m)

GatewayInv == GatewayTypeOK /\ NewInv /\ \A m \in Machines : MachineInv(m)

-----------------------------------------------------------------------------
(* What a step does to the turn and to the sockets *)

\* A turn moves on to another stage of the authentication it is.
LEMMA GotoAuthenticate ==
    ASSUME GatewayTypeOK, NEW m \in Machines, turn[m].op = "authenticate",
           NEW stage \in AuthStages, Goto(m, stage)
    PROVE  /\ turn' \in [Machines -> Turns]
           /\ turn'[m].op = "authenticate" /\ turn'[m].socket = turn[m].socket
           /\ turn'[m].stage = stage
           /\ \A n \in Machines : n # m => turn'[n] = turn[n]
<1>1. turn \in [Machines -> Turns] BY DEF GatewayTypeOK
<1>2. turn[m] \in [op : {"authenticate"}, socket : Sockets, stage : AuthStages]
  BY <1>1 DEF Turns, Idle
<1>3. [turn[m] EXCEPT !.stage = stage]
      \in [op : {"authenticate"}, socket : Sockets, stage : AuthStages]
  BY <1>2
<1> QED BY <1>1, <1>2, <1>3 DEF Goto, Turns

\* The same for the operation of a close handler.
LEMMA GotoClose ==
    ASSUME GatewayTypeOK, NEW m \in Machines, turn[m].op = "close",
           NEW stage \in CloseStages, Goto(m, stage)
    PROVE  /\ turn' \in [Machines -> Turns]
           /\ turn'[m].op = "close" /\ turn'[m].socket = turn[m].socket
           /\ turn'[m].stage = stage
           /\ \A n \in Machines : n # m => turn'[n] = turn[n]
<1>1. turn \in [Machines -> Turns] BY DEF GatewayTypeOK
<1>2. turn[m] \in [op : {"close"}, socket : Sockets, stage : CloseStages]
  BY <1>1 DEF Turns, Idle
<1>3. [turn[m] EXCEPT !.stage = stage]
      \in [op : {"close"}, socket : Sockets, stage : CloseStages]
  BY <1>2
<1> QED BY <1>1, <1>2, <1>3 DEF Goto, Turns

\* A turn ends.
LEMMA TurnEnds ==
    ASSUME GatewayTypeOK, NEW m \in Machines, EndTurn(m)
    PROVE  /\ turn' \in [Machines -> Turns]
           /\ turn'[m].op = "none"
           /\ \A n \in Machines : n # m => turn'[n] = turn[n]
BY DEF GatewayTypeOK, EndTurn, Turns, Idle

\* An operation under way is about a socket.
LEMMA TurnHasSocket ==
    ASSUME GatewayTypeOK, NEW m \in Machines, turn[m].op # "none"
    PROVE  turn[m].socket \in Sockets
BY DEF GatewayTypeOK, Turns, Idle

\* Sockets that only close, and stay authenticated, ...
SocketsStay ==
    \A t \in Sockets :
        /\ socket[t] = "closed" => socket'[t] = "closed"
        /\ socket'[t] = "new" => socket[t] = "new" /\ auth'[t] = auth[t]
        /\ auth[t] = "authenticated" => auth'[t] = "authenticated"

\* ... while none of the Machine's joins the authenticated ones.
NoneJoins(n) ==
    \A t \in Sockets :
        MachineOf[t] = n /\ socket'[t] = "open" /\ auth'[t] = "authenticated" =>
            socket[t] = "open" /\ auth[t] = "authenticated"

SocketsAge == SocketsStay /\ \A n \in Machines : NoneJoins(n)

\* Closing one socket is such a step.
LEMMA SocketCloses ==
    ASSUME GatewayTypeOK, NEW s \in Sockets, socket' = Closing(s)
    PROVE  /\ socket' \in [Sockets -> SocketStates]
           /\ socket'[s] # "open"
           /\ \A t \in Sockets : /\ socket[t] = "closed" => socket'[t] = "closed"
                                 /\ socket'[t] = "new" => socket[t] = "new"
                                 /\ socket'[t] = "open" => socket[t] = "open"
           /\ auth' = auth => SocketsAge
BY DEF GatewayTypeOK, Closing, SocketStates, SocketsAge, SocketsStay, NoneJoins

\* The queue stays good while sockets age, ...
LEMMA QueueAges ==
    ASSUME GatewayInv, SocketsStay, NEW n \in Machines, waiting'[n] = waiting[n]
    PROVE  QueueInv(n)'
<1>1. waiting[n] \in Seq(Operations) /\ QueueInv(n)
  BY DEF GatewayInv, GatewayTypeOK, MachineInv
<1>2. ASSUME NEW i \in 1..Len(waiting[n])
      PROVE  /\ waiting[n][i].socket \in Sockets
             /\ MachineOf[waiting[n][i].socket] = n
             /\ waiting[n][i].op = "close" => socket[waiting[n][i].socket] = "closed"
  BY <1>1 DEF QueueInv, Operations
<1> QED BY <1>2 DEF QueueInv, SocketsStay, NoneJoins

\* ... and when an operation of the Machine's own is put behind it.
LEMMA QueueGrows ==
    ASSUME GatewayInv, SocketsStay, NEW s \in Sockets, NEW o \in {"authenticate", "close"},
           o = "close" => socket'[s] = "closed",
           waiting' = [waiting EXCEPT
              ![MachineOf[s]] = Append(@, [op |-> o, socket |-> s])]
    PROVE  /\ waiting' \in [Machines -> Seq(Operations)]
           /\ \A n \in Machines : QueueInv(n)'
<1> DEFINE e == [op |-> o, socket |-> s]
           m == MachineOf[s]
<1>1. m \in Machines /\ waiting \in [Machines -> Seq(Operations)]
  BY MachineOfType DEF GatewayInv, GatewayTypeOK
<1>2. e \in Operations BY DEF Operations
<1>3. waiting' = [waiting EXCEPT ![m] = Append(@, e)] OBVIOUS
<1>4. e.op = o /\ e.socket = s OBVIOUS
<1>5. waiting[m] \in Seq(Operations) BY <1>1
<1> HIDE DEF e, m
<1>6. Append(waiting[m], e) \in Seq(Operations) BY <1>2, <1>5
<1>7. waiting' \in [Machines -> Seq(Operations)] BY <1>1, <1>3, <1>6
<1>8. ASSUME NEW n \in Machines, n # m PROVE QueueInv(n)'
  BY <1>1, <1>3, <1>8, QueueAges
<1>9. QueueInv(m)'
  <2>1. waiting'[m] = Append(waiting[m], e) BY <1>1, <1>3
  <2>2. ASSUME NEW i \in 1..Len(waiting'[m]), i # Len(waiting[m]) + 1
        PROVE  waiting'[m][i] = waiting[m][i] /\ i \in 1..Len(waiting[m])
    BY <1>5, <2>1, <2>2
  <2>3. waiting'[m][Len(waiting[m]) + 1] = e BY <1>5, <2>1
  <2>4. ASSUME NEW i \in 1..Len(waiting[m])
        PROVE  /\ waiting[m][i].socket \in Sockets
               /\ MachineOf[waiting[m][i].socket] = m
               /\ waiting[m][i].op = "close" => socket[waiting[m][i].socket] = "closed"
    <3>1. QueueInv(m) BY <1>1 DEF GatewayInv, MachineInv
    <3>2. waiting[m][i] \in Operations BY <1>5
    <3> QED BY <3>1, <3>2 DEF QueueInv, Operations
  <2>5. ASSUME NEW i \in 1..Len(waiting'[m])
        PROVE  /\ MachineOf[waiting'[m][i].socket] = m
               /\ waiting'[m][i].op = "close" => socket'[waiting'[m][i].socket] = "closed"
    <3>1. CASE i = Len(waiting[m]) + 1
      BY <1>4, <2>3, <3>1 DEF m
    <3>2. CASE i # Len(waiting[m]) + 1
      BY <2>2, <2>4, <3>2 DEF SocketsStay, NoneJoins
    <3> QED BY <3>1, <3>2
  <2> QED BY <2>5 DEF QueueInv
<1> QED BY <1>7, <1>8, <1>9

\* A Machine's rows do not get worse for its connection.
RowsKept(n) ==
    /\ authorityOnline[n] => authorityOnline'[n]
    /\ revoked[n] => revoked'[n]
    /\ ~revoked'[n] /\ (status[n] = "online" \/ incompatible[n]) =>
          status'[n] = "online" \/ incompatible'[n]

\* What is known of a connection that stays in the map, ...
LEMMA ConnectionKept ==
    ASSUME GatewayInv, SocketsStay, NEW n \in Machines, NoneJoins(n),
           connections'[n] = connections[n], RowsKept(n)
    PROVE  /\ MapInv(n)' /\ OneLive(n)' /\ Available(n)'
           /\ Live(n)' => Live(n)
           /\ connections[n] # NoSocket /\ ~Open(connections[n]) => ~Open(connections[n])'
<1>1. /\ MapInv(n) /\ OneLive(n) /\ Available(n)
      /\ connections[n] \in Sockets \cup {NoSocket}
  BY DEF GatewayInv, MachineInv, GatewayTypeOK
<1>2. MapInv(n)' BY <1>1 DEF MapInv, SocketsStay, NoneJoins
<1>3. Live(n)' => Live(n) BY <1>1 DEF Live, Open, SocketsStay, NoneJoins, MapInv
<1>4. connections[n] # NoSocket /\ ~Open(connections[n]) => ~Open(connections[n])'
  BY <1>1 DEF Open, SocketsStay, NoneJoins, MapInv
<1>5. OneLive(n)' BY <1>1 DEF OneLive, Open, SocketsStay, NoneJoins
<1>6. Available(n)' BY <1>1, <1>3 DEF Available, RowsKept
<1> QED BY <1>2, <1>3, <1>4, <1>5, <1>6

\* ... of a Machine whose turn stays as well, ...
LEMMA Unaffected ==
    ASSUME GatewayInv, SocketsStay, NEW n \in Machines, NoneJoins(n), QueueInv(n)',
           turn'[n] = turn[n], connections'[n] = connections[n], RowsKept(n)
    PROVE  MachineInv(n)'
<1>1. OwnInv(n) /\ AuthenticateInv(n) /\ CloseInv(n) BY DEF GatewayInv, MachineInv
<1>2. turn[n].op # "none" => turn[n].socket \in Sockets BY TurnHasSocket DEF GatewayInv
<1>3. OwnInv(n)' BY <1>1, <1>2 DEF OwnInv, SocketsStay, NoneJoins
<1>4. AuthenticateInv(n)' BY <1>1, ConnectionKept DEF AuthenticateInv, RowsKept
<1>5. CloseInv(n)' BY <1>1 DEF CloseInv
<1> QED BY <1>3, <1>4, <1>5, ConnectionKept DEF MachineInv

\* ... of one whose turn ends, ...
LEMMA Ended ==
    ASSUME GatewayInv, SocketsStay, NEW m \in Machines, NoneJoins(m), QueueInv(m)',
           turn'[m].op = "none", connections'[m] = connections[m], RowsKept(m)
    PROVE  MachineInv(m)'
BY ConnectionKept DEF MachineInv, OwnInv, AuthenticateInv, CloseInv

\* ... and of one whose turn goes on to another stage.
LEMMA Continued ==
    ASSUME GatewayInv, SocketsStay, NEW m \in Machines, NoneJoins(m), QueueInv(m)', turn[m].op # "none",
           turn'[m].op = turn[m].op, turn'[m].socket = turn[m].socket,
           connections'[m] = connections[m], RowsKept(m),
           AuthenticateInv(m)', CloseInv(m)'
    PROVE  MachineInv(m)'
<1>1. OwnInv(m) /\ turn[m].socket \in Sockets
  BY TurnHasSocket DEF GatewayInv, MachineInv
<1>2. OwnInv(m)' BY <1>1 DEF OwnInv, SocketsStay, NoneJoins
<1> QED BY <1>2, ConnectionKept DEF MachineInv

-----------------------------------------------------------------------------
(* Sockets *)

LEMMA ConnectStep ==
    ASSUME GatewayInv, NEW s \in Sockets, Connect(s) PROVE GatewayInv'
<1>1. GatewayTypeOK'
  <2>1. socket' \in [Sockets -> SocketStates]
      BY MachineOfType DEF GatewayInv, GatewayTypeOK, Connect, tables, SocketStates
  <2>2. UNCHANGED <<auth, beat, connections, turn, waiting, status, incompatible, revoked,
           authorityOnline, revocation, restarts>>
      BY DEF Connect, tables, sockets
  <2> QED BY <2>1, <2>2 DEF GatewayInv, GatewayTypeOK
<1>2. SocketsAge
    BY MachineOfType DEF GatewayInv, GatewayTypeOK, NewInv, SocketsAge, SocketsStay,
       NoneJoins, Connect, tables
<1>3. NewInv'
    BY <1>2 DEF GatewayInv, GatewayTypeOK, NewInv, SocketsAge, SocketsStay, NoneJoins
<1>4. \A n \in Machines : QueueInv(n)'
    BY <1>2, QueueAges DEF Connect, tables, SocketsAge
<1>5. ASSUME NEW n \in Machines PROVE MachineInv(n)'
    BY <1>2, <1>4, <1>5, Unaffected, MachineOfType
    DEF GatewayInv, GatewayTypeOK, RowsKept, Connect, tables, SocketsAge
<1> QED BY <1>1, <1>3, <1>5 DEF GatewayInv

LEMMA BreaksStep ==
    ASSUME GatewayInv, NEW s \in Sockets, Breaks(s) PROVE GatewayInv'
<1>1. socket' \in [Sockets -> SocketStates] /\ socket'[s] # "open" /\ SocketsAge
    BY SocketCloses, TurnHasSocket DEF GatewayInv, GatewayTypeOK, Breaks, At
<1>2. GatewayTypeOK'
  <2>1. UNCHANGED <<auth, beat, connections, turn, waiting, status, incompatible, revoked,
           authorityOnline, revocation, restarts>>
      BY <1>1 DEF Breaks, Open, tables, sockets
  <2> QED BY <1>1, <2>1 DEF GatewayInv, GatewayTypeOK
<1>3. NewInv'
    BY <1>1 DEF GatewayInv, GatewayTypeOK, NewInv, SocketsAge, SocketsStay, NoneJoins
<1>4. \A n \in Machines : QueueInv(n)'
    BY <1>1, QueueAges DEF Breaks, Open, tables, SocketsAge
<1>5. ASSUME NEW n \in Machines PROVE MachineInv(n)'
    BY <1>1, <1>4, <1>5, Unaffected, MachineOfType
    DEF GatewayInv, GatewayTypeOK, RowsKept, Breaks, Open, tables, SocketsAge
<1> QED BY <1>2, <1>3, <1>5 DEF GatewayInv

LEMMA CloseEventStep ==
    ASSUME GatewayInv, NEW s \in Sockets, CloseEvent(s) PROVE GatewayInv'
<1>1. /\ socket' \in [Sockets -> SocketStates] /\ SocketsAge /\ socket'[s] = "closed"
      /\ UNCHANGED <<auth, beat, connections, turn, tables, revocation, restarts>>
    BY DEF GatewayInv, GatewayTypeOK, SocketStates, SocketsAge, SocketsStay, NoneJoins,
       CloseEvent
<1>2. waiting' \in [Machines -> Seq(Operations)] /\ \A n \in Machines : QueueInv(n)'
  <2>1. CASE auth[s] \in {"proved", "authenticated"}
    <3>1. waiting' = [waiting EXCEPT
             ![MachineOf[s]] = Append(@, [op |-> "close", socket |-> s])]
        BY <2>1 DEF CloseEvent
    <3> QED BY <1>1, <3>1, QueueGrows DEF SocketsAge
  <2>2. CASE auth[s] \notin {"proved", "authenticated"}
    <3>1. waiting' = waiting BY <2>2 DEF CloseEvent
    <3> QED BY <1>1, <3>1, QueueAges DEF GatewayInv, GatewayTypeOK, SocketsAge
  <2> QED BY <2>1, <2>2
<1>3. GatewayTypeOK' BY <1>1, <1>2 DEF GatewayInv, GatewayTypeOK, tables
<1>4. NewInv' BY <1>1 DEF GatewayInv, NewInv, SocketsAge, SocketsStay, NoneJoins
<1>5. ASSUME NEW n \in Machines PROVE MachineInv(n)'
    BY <1>1, <1>2, <1>5, Unaffected DEF RowsKept, tables, SocketsAge
<1> QED BY <1>3, <1>4, <1>5 DEF GatewayInv

LEMMA AuthenticateStep ==
    ASSUME GatewayInv, NEW s \in Sockets, Authenticate(s) PROVE GatewayInv'
<1>1. GatewayTypeOK'
  <2>1. auth' \in [Sockets -> AuthSteps]
      BY MachineOfType DEF GatewayInv, GatewayTypeOK, Authenticate, Open, tables, AuthSteps
  <2>2. UNCHANGED <<socket, beat, connections, turn, waiting, status, incompatible, revoked,
           authorityOnline, revocation, restarts>>
      BY DEF Authenticate, Open, tables, sockets
  <2> QED BY <2>1, <2>2 DEF GatewayInv, GatewayTypeOK
<1>2. SocketsAge
    BY MachineOfType
    DEF GatewayInv, GatewayTypeOK, NewInv, SocketsAge, SocketsStay, NoneJoins, Authenticate,
        Open, tables
<1>3. NewInv'
    BY <1>2 DEF GatewayInv, GatewayTypeOK, NewInv, SocketsAge, SocketsStay, NoneJoins
<1>4. \A n \in Machines : QueueInv(n)'
    BY <1>2, QueueAges DEF Authenticate, Open, tables, SocketsAge
<1>5. ASSUME NEW n \in Machines PROVE MachineInv(n)'
    BY <1>2, <1>4, <1>5, Unaffected, MachineOfType
    DEF GatewayInv, GatewayTypeOK, RowsKept, Authenticate, Open, tables, SocketsAge
<1> QED BY <1>1, <1>3, <1>5 DEF GatewayInv

LEMMA RefuseIdentityStep ==
    ASSUME GatewayInv, NEW s \in Sockets, RefuseIdentity(s) PROVE GatewayInv'
<1>1. /\ socket' \in [Sockets -> SocketStates] /\ SocketsAge
  <2>1. /\ socket' \in [Sockets -> SocketStates]
        /\ \A t \in Sockets : /\ socket[t] = "closed" => socket'[t] = "closed"
                              /\ socket'[t] = "new" => socket[t] = "new"
                              /\ socket'[t] = "open" => socket[t] = "open"
    BY SocketCloses DEF GatewayInv, RefuseIdentity
  <2>2. /\ auth \in [Sockets -> AuthSteps] /\ auth[s] = "looking"
        /\ auth' = [auth EXCEPT ![s] = "challenged"] /\ socket[s] # "new"
      BY DEF GatewayInv, GatewayTypeOK, NewInv, RefuseIdentity
  <2>3. \A t \in Sockets : auth'[t] = IF t = s THEN "challenged" ELSE auth[t]
      BY <2>2
  <2>4. SocketsStay BY <2>1, <2>2, <2>3 DEF SocketsStay
  <2>5. \A n \in Machines : NoneJoins(n)
      BY <2>1, <2>3 DEF NoneJoins
  <2> QED BY <2>1, <2>4, <2>5 DEF SocketsAge
<1>2. GatewayTypeOK'
  <2>1. auth' \in [Sockets -> AuthSteps]
      BY <1>1, MachineOfType
      DEF GatewayInv, GatewayTypeOK, RefuseIdentity, tables, AuthSteps
  <2>2. UNCHANGED <<beat, connections, turn, waiting, status, incompatible, revoked,
           authorityOnline, revocation, restarts>>
      BY <1>1 DEF RefuseIdentity, tables, sockets
  <2> QED BY <1>1, <2>1, <2>2 DEF GatewayInv, GatewayTypeOK
<1>3. NewInv'
    BY <1>1 DEF GatewayInv, GatewayTypeOK, NewInv, SocketsAge, SocketsStay, NoneJoins
<1>4. \A n \in Machines : QueueInv(n)'
    BY <1>1, QueueAges DEF RefuseIdentity, tables, SocketsAge
<1>5. ASSUME NEW n \in Machines PROVE MachineInv(n)'
    BY <1>1, <1>4, <1>5, Unaffected, MachineOfType
    DEF GatewayInv, GatewayTypeOK, RowsKept, RefuseIdentity, tables, SocketsAge
<1> QED BY <1>2, <1>3, <1>5 DEF GatewayInv

LEMMA RefuseProtocolStep ==
    ASSUME GatewayInv, NEW s \in Sockets, RefuseProtocol(s) PROVE GatewayInv'
<1>1. CASE revoked[MachineOf[s]]
  <2>1. /\ socket' \in [Sockets -> SocketStates] /\ SocketsAge
    <3>1. /\ socket' \in [Sockets -> SocketStates]
          /\ \A t \in Sockets : /\ socket[t] = "closed" => socket'[t] = "closed"
                                /\ socket'[t] = "new" => socket[t] = "new"
                                /\ socket'[t] = "open" => socket[t] = "open"
      BY <1>1, SocketCloses DEF GatewayInv, RefuseProtocol
    <3>2. /\ auth \in [Sockets -> AuthSteps] /\ auth[s] = "looking"
          /\ auth' = [auth EXCEPT ![s] = "challenged"] /\ socket[s] # "new"
        BY DEF GatewayInv, GatewayTypeOK, NewInv, RefuseProtocol
    <3>3. \A t \in Sockets : auth'[t] = IF t = s THEN "challenged" ELSE auth[t]
        BY <3>2
    <3>4. SocketsStay BY <3>1, <3>2, <3>3 DEF SocketsStay
    <3>5. \A n \in Machines : NoneJoins(n)
        BY <3>1, <3>3 DEF NoneJoins
    <3> QED BY <3>1, <3>4, <3>5 DEF SocketsAge
  <2>2. GatewayTypeOK'
    <3>1. auth' \in [Sockets -> AuthSteps]
        BY <1>1, <2>1, MachineOfType
        DEF GatewayInv, GatewayTypeOK, RefuseProtocol, AuthSteps
    <3>2. status' \in [Machines -> {"offline", "online"}]
        BY <1>1, <2>1, MachineOfType DEF GatewayInv, GatewayTypeOK, RefuseProtocol
    <3>3. incompatible' \in [Machines -> BOOLEAN]
        BY <1>1, <2>1, MachineOfType DEF GatewayInv, GatewayTypeOK, RefuseProtocol
    <3>4. UNCHANGED <<beat, connections, turn, waiting, revoked, authorityOnline, revocation,
             restarts>>
        BY <1>1, <2>1 DEF RefuseProtocol, sockets, tables
    <3> QED BY <1>1, <2>1, <3>1, <3>2, <3>3, <3>4 DEF GatewayInv, GatewayTypeOK
  <2>3. NewInv'
      BY <1>1, <2>1 DEF GatewayInv, GatewayTypeOK, NewInv, SocketsAge, SocketsStay, NoneJoins
  <2>4. \A n \in Machines : QueueInv(n)'
      BY <1>1, <2>1, QueueAges DEF RefuseProtocol, SocketsAge
  <2>5. ASSUME NEW n \in Machines PROVE MachineInv(n)'
      BY <1>1, <2>1, <2>4, <2>5, Unaffected, MachineOfType
      DEF GatewayInv, GatewayTypeOK, RowsKept, RefuseProtocol, SocketsAge
  <2> QED BY <2>2, <2>3, <2>5 DEF GatewayInv
<1>2. CASE ~revoked[MachineOf[s]]
  <2>1. /\ socket' \in [Sockets -> SocketStates] /\ SocketsAge
    <3>1. /\ socket' \in [Sockets -> SocketStates]
          /\ \A t \in Sockets : /\ socket[t] = "closed" => socket'[t] = "closed"
                                /\ socket'[t] = "new" => socket[t] = "new"
                                /\ socket'[t] = "open" => socket[t] = "open"
      BY <1>2, SocketCloses DEF GatewayInv, RefuseProtocol
    <3>2. /\ auth \in [Sockets -> AuthSteps] /\ auth[s] = "looking"
          /\ auth' = [auth EXCEPT ![s] = "challenged"] /\ socket[s] # "new"
        BY DEF GatewayInv, GatewayTypeOK, NewInv, RefuseProtocol
    <3>3. \A t \in Sockets : auth'[t] = IF t = s THEN "challenged" ELSE auth[t]
        BY <3>2
    <3>4. SocketsStay BY <3>1, <3>2, <3>3 DEF SocketsStay
    <3>5. \A n \in Machines : NoneJoins(n)
        BY <3>1, <3>3 DEF NoneJoins
    <3> QED BY <3>1, <3>4, <3>5 DEF SocketsAge
  <2>2. GatewayTypeOK'
    <3>1. auth' \in [Sockets -> AuthSteps]
        BY <1>2, <2>1, MachineOfType
        DEF GatewayInv, GatewayTypeOK, RefuseProtocol, AuthSteps
    <3>2. status' \in [Machines -> {"offline", "online"}]
        BY <1>2, <2>1, MachineOfType DEF GatewayInv, GatewayTypeOK, RefuseProtocol
    <3>3. incompatible' \in [Machines -> BOOLEAN]
        BY <1>2, <2>1, MachineOfType DEF GatewayInv, GatewayTypeOK, RefuseProtocol
    <3>4. UNCHANGED <<beat, connections, turn, waiting, revoked, authorityOnline, revocation,
             restarts>>
        BY <1>2, <2>1 DEF RefuseProtocol, sockets, tables
    <3> QED BY <1>2, <2>1, <3>1, <3>2, <3>3, <3>4 DEF GatewayInv, GatewayTypeOK
  <2>3. NewInv'
      BY <1>2, <2>1 DEF GatewayInv, GatewayTypeOK, NewInv, SocketsAge, SocketsStay, NoneJoins
  <2>4. \A n \in Machines : QueueInv(n)'
      BY <1>2, <2>1, QueueAges DEF RefuseProtocol, SocketsAge
  <2>5. ASSUME NEW n \in Machines PROVE MachineInv(n)'
      BY <1>2, <2>1, <2>4, <2>5, Unaffected, MachineOfType
      DEF GatewayInv, GatewayTypeOK, RowsKept, RefuseProtocol, SocketsAge
  <2> QED BY <2>2, <2>3, <2>5 DEF GatewayInv
<1> QED BY <1>1, <1>2

LEMMA ProveStep ==
    ASSUME GatewayInv, NEW s \in Sockets, Prove(s) PROVE GatewayInv'
<1>1. /\ auth' \in [Sockets -> AuthSteps] /\ SocketsAge
      /\ UNCHANGED <<socket, beat, connections, turn, tables, revocation, restarts>>
    BY DEF GatewayInv, GatewayTypeOK, NewInv, AuthSteps, SocketsAge, SocketsStay, NoneJoins,
       Prove
<1>2. waiting' \in [Machines -> Seq(Operations)] /\ \A n \in Machines : QueueInv(n)'
  <2>1. waiting' = [waiting EXCEPT
           ![MachineOf[s]] = Append(@, [op |-> "authenticate", socket |-> s])]
      BY DEF Prove
  <2> QED BY <1>1, <2>1, QueueGrows DEF SocketsAge
<1>3. GatewayTypeOK' BY <1>1, <1>2 DEF GatewayInv, GatewayTypeOK, tables
<1>4. NewInv' BY <1>1 DEF GatewayInv, NewInv, SocketsAge, SocketsStay, NoneJoins
<1>5. ASSUME NEW n \in Machines PROVE MachineInv(n)'
    BY <1>1, <1>2, <1>5, Unaffected DEF RowsKept, tables, SocketsAge
<1> QED BY <1>3, <1>4, <1>5 DEF GatewayInv

LEMMA HeartbeatArrivesStep ==
    ASSUME GatewayInv, NEW s \in Sockets, HeartbeatArrives(s) PROVE GatewayInv'
<1>1. GatewayTypeOK'
  <2>1. beat' \in SUBSET Sockets
      BY MachineOfType DEF GatewayInv, GatewayTypeOK, HeartbeatArrives, Open, tables
  <2>2. UNCHANGED <<socket, auth, connections, turn, waiting, status, incompatible, revoked,
           authorityOnline, revocation, restarts>>
      BY DEF HeartbeatArrives, Open, tables, sockets
  <2> QED BY <2>1, <2>2 DEF GatewayInv, GatewayTypeOK
<1>2. SocketsAge
    BY MachineOfType
    DEF GatewayInv, GatewayTypeOK, NewInv, SocketsAge, SocketsStay, NoneJoins,
        HeartbeatArrives, Open, tables
<1>3. NewInv'
    BY <1>2 DEF GatewayInv, GatewayTypeOK, NewInv, SocketsAge, SocketsStay, NoneJoins
<1>4. \A n \in Machines : QueueInv(n)'
    BY <1>2, QueueAges DEF HeartbeatArrives, Open, tables, SocketsAge
<1>5. ASSUME NEW n \in Machines PROVE MachineInv(n)'
    BY <1>2, <1>4, <1>5, Unaffected, MachineOfType
    DEF GatewayInv, GatewayTypeOK, RowsKept, HeartbeatArrives, Open, tables, SocketsAge
<1> QED BY <1>1, <1>3, <1>5 DEF GatewayInv

LEMMA HeartbeatPersistedStep ==
    ASSUME GatewayInv, NEW s \in Sockets, HeartbeatPersisted(s) PROVE GatewayInv'
<1>1. GatewayTypeOK'
  <2>1. beat' \in SUBSET Sockets
      BY MachineOfType DEF GatewayInv, GatewayTypeOK, HeartbeatPersisted
  <2>2. status' \in [Machines -> {"offline", "online"}]
      BY MachineOfType DEF GatewayInv, GatewayTypeOK, HeartbeatPersisted
  <2>3. UNCHANGED <<socket, auth, connections, turn, waiting, incompatible, revoked,
           authorityOnline, revocation, restarts>>
      BY DEF HeartbeatPersisted, sockets, tables
  <2> QED BY <2>1, <2>2, <2>3 DEF GatewayInv, GatewayTypeOK
<1>2. SocketsAge
    BY MachineOfType DEF GatewayInv, GatewayTypeOK, NewInv, SocketsAge, SocketsStay,
       NoneJoins, HeartbeatPersisted
<1>3. NewInv'
    BY <1>2 DEF GatewayInv, GatewayTypeOK, NewInv, SocketsAge, SocketsStay, NoneJoins
<1>4. \A n \in Machines : QueueInv(n)'
    BY <1>2, QueueAges DEF HeartbeatPersisted, SocketsAge
<1>5. ASSUME NEW n \in Machines PROVE MachineInv(n)'
    BY <1>2, <1>4, <1>5, Unaffected, MachineOfType
    DEF GatewayInv, GatewayTypeOK, RowsKept, HeartbeatPersisted, SocketsAge
<1> QED BY <1>1, <1>3, <1>5 DEF GatewayInv

-----------------------------------------------------------------------------
(* The turn *)

LEMMA NextTurnStep ==
    ASSUME GatewayInv, NEW m \in Machines, NextTurn(m) PROVE GatewayInv'
<1>1. GatewayTypeOK'
  <2>1. turn' \in [Machines -> Turns]
    <3>1. waiting[m] \in Seq(Operations) /\ waiting[m] # <<>>
        BY DEF GatewayInv, GatewayTypeOK, NextTurn
    <3>2. Head(waiting[m]) \in Operations BY <3>1
    <3>3. [op |-> Head(waiting[m]).op, socket |-> Head(waiting[m]).socket, stage |-> "start"]
          \in Turns
        BY <3>2 DEF Operations, Turns, AuthStages, CloseStages
    <3> QED BY <3>3 DEF GatewayInv, GatewayTypeOK, NextTurn
  <2>2. waiting' \in [Machines -> Seq(Operations)]
    <3>1. waiting \in [Machines -> Seq(Operations)] BY DEF GatewayInv, GatewayTypeOK
    <3>2. waiting[m] # <<>> /\ waiting' = [waiting EXCEPT ![m] = Tail(@)] BY DEF NextTurn
    <3>3. waiting[m] \in Seq(Operations) BY <3>1
    <3>4. Tail(waiting[m]) \in Seq(Operations) BY <3>2, <3>3
    <3> QED BY <3>1, <3>2, <3>4
  <2>3. UNCHANGED <<socket, auth, beat, connections, status, incompatible, revoked,
           authorityOnline, revocation, restarts>>
      BY DEF NextTurn, sockets, tables
  <2> QED BY <2>1, <2>2, <2>3 DEF GatewayInv, GatewayTypeOK
<1>2. SocketsAge
    BY DEF GatewayInv, GatewayTypeOK, NewInv, SocketsAge, SocketsStay, NoneJoins, NextTurn,
       sockets, tables
<1>3. NewInv'
    BY <1>2 DEF GatewayInv, GatewayTypeOK, NewInv, SocketsAge, SocketsStay, NoneJoins
<1>4. \A n \in Machines : QueueInv(n)'
  <2>1. ASSUME NEW n \in Machines, n # m PROVE QueueInv(n)'
      BY <1>2, <2>1, QueueAges DEF GatewayInv, GatewayTypeOK, NextTurn, sockets, tables,
         SocketsAge
  <2>2. QueueInv(m)'
      BY <1>2
      DEF GatewayInv, GatewayTypeOK, SocketsAge, SocketsStay, NoneJoins, MachineInv, QueueInv,
          Operations, NextTurn, sockets, tables
  <2> QED BY <2>1, <2>2
<1>5. MachineInv(m)'
  <2>1. MapInv(m)'
      BY <1>2, <1>4, NoSocketType, TurnHasSocket
      DEF GatewayInv, GatewayTypeOK, SocketsAge, SocketsStay, NoneJoins, MachineInv, MapInv,
          OwnInv, NextTurn, sockets, tables
  <2>2. OwnInv(m)'
    <3>1. waiting[m] \in Seq(Operations) /\ waiting[m] # <<>> /\ QueueInv(m)
        BY DEF GatewayInv, GatewayTypeOK, MachineInv, NextTurn
    <3>2. Head(waiting[m]) = waiting[m][1] /\ 1 \in 1..Len(waiting[m]) BY <3>1
    <3>3. waiting[m][1] \in Operations BY <3>1, <3>2
    <3>4. turn'[m].op = waiting[m][1].op /\ turn'[m].socket = waiting[m][1].socket
        BY <3>2 DEF GatewayInv, GatewayTypeOK, NextTurn
    <3> QED BY <1>2, <3>1, <3>2, <3>3, <3>4 DEF OwnInv, QueueInv, Operations, SocketsAge, SocketsStay, NoneJoins
  <2>3. AuthenticateInv(m)'
      BY <1>2, <1>4, NoSocketType, TurnHasSocket
      DEF GatewayInv, GatewayTypeOK, SocketsAge, SocketsStay, NoneJoins, MachineInv,
          AuthenticateInv, MapInv, OwnInv, OneLive, Available, Live, Open, NextTurn, sockets,
          tables
  <2>4. CloseInv(m)'
      BY <1>2, <1>4, NoSocketType, TurnHasSocket
      DEF GatewayInv, GatewayTypeOK, SocketsAge, SocketsStay, NoneJoins, MachineInv, CloseInv,
          OwnInv, MapInv, NextTurn, sockets, tables
  <2>5. OneLive(m)'
      BY <1>2, <1>4, NoSocketType, TurnHasSocket
      DEF GatewayInv, GatewayTypeOK, SocketsAge, SocketsStay, NoneJoins, MachineInv, OneLive,
          MapInv, OwnInv, AuthenticateInv, Open, NextTurn, sockets, tables
  <2>6. Available(m)'
      BY <1>2, <1>4, NoSocketType, TurnHasSocket
      DEF GatewayInv, GatewayTypeOK, SocketsAge, SocketsStay, NoneJoins, MachineInv,
          Available, MapInv, OwnInv, AuthenticateInv, CloseInv, Live, Open, NextTurn, sockets,
          tables
  <2> QED BY <1>4, <2>1, <2>2, <2>3, <2>4, <2>5, <2>6 DEF MachineInv
<1>6. ASSUME NEW n \in Machines, n # m PROVE MachineInv(n)'
    BY <1>2, <1>4, <1>6, Unaffected
    DEF GatewayInv, GatewayTypeOK, RowsKept, NextTurn, sockets, tables, SocketsAge
<1> QED BY <1>1, <1>3, <1>5, <1>6 DEF GatewayInv

LEMMA AuthenticateBeginsStep ==
    ASSUME GatewayInv, NEW m \in Machines, AuthenticateBegins(m) PROVE GatewayInv'
<1>1. CASE Open(turn[m].socket)
  <2>1. /\ turn' \in [Machines -> Turns]
        /\ turn'[m].op = "authenticate" /\ turn'[m].socket = turn[m].socket
        /\ turn'[m].stage = "recheck"
        /\ \A n \in Machines : n # m => turn'[n] = turn[n]
      BY <1>1, GotoAuthenticate DEF GatewayInv, AuthenticateBegins, At, AuthStages, Open
  <2>2. GatewayTypeOK'
    <3>1. UNCHANGED <<socket, auth, beat, connections, waiting, status, incompatible, revoked,
             authorityOnline, revocation, restarts>>
        BY <1>1, <2>1 DEF AuthenticateBegins, EndTurn, At, Open, sockets, tables
    <3> QED BY <1>1, <2>1, <3>1 DEF GatewayInv, GatewayTypeOK
  <2>3. SocketsAge
      BY <1>1, <2>1
      DEF GatewayInv, GatewayTypeOK, NewInv, SocketsAge, SocketsStay, NoneJoins,
          AuthenticateBegins, EndTurn, At, Open, sockets, tables
  <2>4. NewInv'
      BY <2>3, <1>1, <2>1 DEF GatewayInv, GatewayTypeOK, NewInv, SocketsAge, SocketsStay,
         NoneJoins
  <2>5. \A n \in Machines : QueueInv(n)'
      BY <2>3, <1>1, <2>1, QueueAges
      DEF AuthenticateBegins, EndTurn, At, Open, sockets, tables, SocketsAge
  <2>6. MachineInv(m)'
    <3>1. RowsKept(m) /\ connections'[m] = connections[m]
        BY <1>1, <2>1
        DEF GatewayInv, GatewayTypeOK, RowsKept, AuthenticateBegins, EndTurn, At, Open,
            sockets, tables
    <3>2. AuthenticateInv(m)'
        BY <2>3, <1>1, <2>1, <2>5, NoSocketType, TurnHasSocket
        DEF GatewayInv, GatewayTypeOK, SocketsAge, SocketsStay, NoneJoins, MachineInv,
            AuthenticateInv, MapInv, OwnInv, OneLive, Available, Live, Open,
            AuthenticateBegins, EndTurn, At, sockets, tables
    <3>3. CloseInv(m)'
        BY <2>3, <1>1, <2>1, <2>5, NoSocketType, TurnHasSocket
        DEF GatewayInv, GatewayTypeOK, SocketsAge, SocketsStay, NoneJoins, MachineInv,
            CloseInv, OwnInv, MapInv, AuthenticateBegins, EndTurn, At, Open, sockets, tables
    <3>4. turn[m].op # "none"
        BY <1>1, <2>1 DEF AuthenticateBegins, EndTurn, At, Open, sockets, tables
    <3>5. turn'[m].op = turn[m].op /\ turn'[m].socket = turn[m].socket
        BY <1>1, <2>1 DEF AuthenticateBegins, EndTurn, At, Open, sockets, tables
    <3> QED BY <2>3, <1>1, <2>1, <2>5, <3>1, <3>2, <3>3, <3>4, <3>5, Continued DEF SocketsAge
  <2>7. ASSUME NEW n \in Machines, n # m PROVE MachineInv(n)'
      BY <2>3, <1>1, <2>1, <2>5, <2>7, Unaffected
      DEF GatewayInv, GatewayTypeOK, RowsKept, AuthenticateBegins, EndTurn, At, Open, sockets,
          tables, SocketsAge
  <2> QED BY <2>2, <2>4, <2>6, <2>7 DEF GatewayInv
<1>2. CASE ~Open(turn[m].socket)
  <2>1. /\ turn' \in [Machines -> Turns] /\ turn'[m].op = "none"
        /\ \A n \in Machines : n # m => turn'[n] = turn[n]
      BY <1>2, TurnEnds DEF GatewayInv, AuthenticateBegins, At, Open
  <2>2. GatewayTypeOK'
    <3>1. UNCHANGED <<socket, auth, beat, connections, waiting, status, incompatible, revoked,
             authorityOnline, revocation, restarts>>
        BY <1>2, <2>1 DEF AuthenticateBegins, Goto, At, Open, sockets, tables
    <3> QED BY <1>2, <2>1, <3>1 DEF GatewayInv, GatewayTypeOK
  <2>3. SocketsAge
      BY <1>2, <2>1
      DEF GatewayInv, GatewayTypeOK, NewInv, SocketsAge, SocketsStay, NoneJoins,
          AuthenticateBegins, Goto, At, Open, sockets, tables
  <2>4. NewInv'
      BY <2>3, <1>2, <2>1 DEF GatewayInv, GatewayTypeOK, NewInv, SocketsAge, SocketsStay,
         NoneJoins
  <2>5. \A n \in Machines : QueueInv(n)'
      BY <2>3, <1>2, <2>1, QueueAges DEF AuthenticateBegins, Goto, At, Open, sockets, tables,
         SocketsAge
  <2>6. MachineInv(m)'
    <3>1. RowsKept(m) /\ connections'[m] = connections[m]
        BY <1>2, <2>1
        DEF GatewayInv, GatewayTypeOK, RowsKept, AuthenticateBegins, Goto, At, Open, sockets,
            tables
    <3> QED BY <2>3, <1>2, <2>1, <2>5, <3>1, Ended DEF SocketsAge
  <2>7. ASSUME NEW n \in Machines, n # m PROVE MachineInv(n)'
      BY <2>3, <1>2, <2>1, <2>5, <2>7, Unaffected
      DEF GatewayInv, GatewayTypeOK, RowsKept, AuthenticateBegins, Goto, At, Open, sockets,
          tables, SocketsAge
  <2> QED BY <2>2, <2>4, <2>6, <2>7 DEF GatewayInv
<1> QED BY <1>1, <1>2

LEMMA RecheckStep ==
    ASSUME GatewayInv, NEW m \in Machines, Recheck(m) PROVE GatewayInv'
<1>1. CASE revoked[m]
  <2>1. socket' \in [Sockets -> SocketStates] /\ socket'[turn[m].socket] # "open" /\ SocketsAge
      BY <1>1, SocketCloses, TurnHasSocket DEF GatewayInv, GatewayTypeOK, Recheck, At
  <2>2. /\ turn' \in [Machines -> Turns] /\ turn'[m].op = "none"
        /\ \A n \in Machines : n # m => turn'[n] = turn[n]
      BY <1>1, TurnEnds DEF GatewayInv, Recheck, At
  <2>3. GatewayTypeOK'
    <3>1. UNCHANGED <<auth, beat, connections, waiting, status, incompatible, revoked,
             authorityOnline, revocation, restarts>>
        BY <1>1, <2>1, <2>2 DEF Recheck, Goto, At, tables, sockets
    <3> QED BY <1>1, <2>1, <2>2, <3>1 DEF GatewayInv, GatewayTypeOK
  <2>4. NewInv'
      BY <1>1, <2>1, <2>2 DEF GatewayInv, GatewayTypeOK, NewInv, SocketsAge, SocketsStay,
         NoneJoins
  <2>5. \A n \in Machines : QueueInv(n)'
      BY <1>1, <2>1, <2>2, QueueAges DEF Recheck, Goto, At, tables, SocketsAge
  <2>6. MachineInv(m)'
    <3>1. RowsKept(m) /\ connections'[m] = connections[m]
        BY <1>1, <2>1, <2>2
        DEF GatewayInv, GatewayTypeOK, RowsKept, Recheck, Goto, At, tables
    <3> QED BY <1>1, <2>1, <2>2, <2>5, <3>1, Ended DEF SocketsAge
  <2>7. ASSUME NEW n \in Machines, n # m PROVE MachineInv(n)'
      BY <1>1, <2>1, <2>2, <2>5, <2>7, Unaffected
      DEF GatewayInv, GatewayTypeOK, RowsKept, Recheck, Goto, At, tables, SocketsAge
  <2> QED BY <2>3, <2>4, <2>6, <2>7 DEF GatewayInv
<1>2. CASE ~revoked[m]
  <2>1. /\ turn' \in [Machines -> Turns]
        /\ turn'[m].op = "authenticate" /\ turn'[m].socket = turn[m].socket
        /\ turn'[m].stage = "authority"
        /\ \A n \in Machines : n # m => turn'[n] = turn[n]
      BY <1>2, GotoAuthenticate DEF GatewayInv, Recheck, At, AuthStages
  <2>2. GatewayTypeOK'
    <3>1. socket' \in [Sockets -> SocketStates]
        BY <1>2, <2>1, TurnHasSocket
        DEF GatewayInv, GatewayTypeOK, Recheck, Closing, EndTurn, At, tables, SocketStates
    <3>2. UNCHANGED <<auth, beat, connections, waiting, status, incompatible, revoked,
             authorityOnline, revocation, restarts>>
        BY <1>2, <2>1 DEF Recheck, Closing, EndTurn, At, tables, sockets
    <3> QED BY <1>2, <2>1, <3>1, <3>2 DEF GatewayInv, GatewayTypeOK
  <2>3. SocketsAge
      BY <1>2, <2>1
      DEF GatewayInv, GatewayTypeOK, NewInv, SocketsAge, SocketsStay, NoneJoins, Recheck,
          Closing, EndTurn, At, tables
  <2>4. NewInv'
      BY <2>3, <1>2, <2>1 DEF GatewayInv, GatewayTypeOK, NewInv, SocketsAge, SocketsStay,
         NoneJoins
  <2>5. \A n \in Machines : QueueInv(n)'
      BY <2>3, <1>2, <2>1, QueueAges DEF Recheck, Closing, EndTurn, At, tables, SocketsAge
  <2>6. MachineInv(m)'
    <3>1. RowsKept(m) /\ connections'[m] = connections[m]
        BY <1>2, <2>1
        DEF GatewayInv, GatewayTypeOK, RowsKept, Recheck, Closing, EndTurn, At, tables
    <3>2. AuthenticateInv(m)'
        BY <2>3, <1>2, <2>1, <2>5, NoSocketType, TurnHasSocket
        DEF GatewayInv, GatewayTypeOK, SocketsAge, SocketsStay, NoneJoins, MachineInv,
            AuthenticateInv, MapInv, OwnInv, OneLive, Available, Live, Open, Recheck, Closing,
            EndTurn, At, tables
    <3>3. CloseInv(m)'
        BY <2>3, <1>2, <2>1, <2>5, NoSocketType, TurnHasSocket
        DEF GatewayInv, GatewayTypeOK, SocketsAge, SocketsStay, NoneJoins, MachineInv,
            CloseInv, OwnInv, MapInv, Recheck, Closing, EndTurn, At, tables
    <3>4. turn[m].op # "none"
        BY <1>2, <2>1 DEF Recheck, Closing, EndTurn, At, tables
    <3>5. turn'[m].op = turn[m].op /\ turn'[m].socket = turn[m].socket
        BY <1>2, <2>1 DEF Recheck, Closing, EndTurn, At, tables
    <3> QED BY <2>3, <1>2, <2>1, <2>5, <3>1, <3>2, <3>3, <3>4, <3>5, Continued DEF SocketsAge
  <2>7. ASSUME NEW n \in Machines, n # m PROVE MachineInv(n)'
      BY <2>3, <1>2, <2>1, <2>5, <2>7, Unaffected
      DEF GatewayInv, GatewayTypeOK, RowsKept, Recheck, Closing, EndTurn, At, tables, SocketsAge
  <2> QED BY <2>2, <2>4, <2>6, <2>7 DEF GatewayInv
<1> QED BY <1>1, <1>2

LEMMA PutMachineAuthorityStep ==
    ASSUME GatewayInv, NEW m \in Machines, PutMachineAuthority(m) PROVE GatewayInv'
<1>1. /\ turn' \in [Machines -> Turns]
      /\ turn'[m].op = "authenticate" /\ turn'[m].socket = turn[m].socket
      /\ turn'[m].stage = "supersede"
      /\ \A n \in Machines : n # m => turn'[n] = turn[n]
    BY GotoAuthenticate DEF GatewayInv, PutMachineAuthority, At, AuthStages
<1>2. GatewayTypeOK'
  <2>1. authorityOnline' \in [Machines -> BOOLEAN]
      BY <1>1, TurnHasSocket DEF GatewayInv, GatewayTypeOK, PutMachineAuthority, At, sockets
  <2>2. UNCHANGED <<socket, auth, beat, connections, waiting, status, incompatible, revoked,
           revocation, restarts>>
      BY <1>1 DEF PutMachineAuthority, At, sockets, tables
  <2> QED BY <1>1, <2>1, <2>2 DEF GatewayInv, GatewayTypeOK
<1>3. SocketsAge
    BY <1>1
    DEF GatewayInv, GatewayTypeOK, NewInv, SocketsAge, SocketsStay, NoneJoins,
        PutMachineAuthority, At, sockets
<1>4. NewInv'
    BY <1>3, <1>1 DEF GatewayInv, GatewayTypeOK, NewInv, SocketsAge, SocketsStay, NoneJoins
<1>5. \A n \in Machines : QueueInv(n)'
    BY <1>3, <1>1, QueueAges DEF PutMachineAuthority, At, sockets, SocketsAge
<1>6. MachineInv(m)'
  <2>1. RowsKept(m) /\ connections'[m] = connections[m]
      BY <1>1 DEF GatewayInv, GatewayTypeOK, RowsKept, PutMachineAuthority, At, sockets
  <2>2. AuthenticateInv(m)'
      BY <1>3, <1>1, <1>5, NoSocketType, TurnHasSocket
      DEF GatewayInv, GatewayTypeOK, SocketsAge, SocketsStay, NoneJoins, MachineInv,
          AuthenticateInv, MapInv, OwnInv, OneLive, Available, Live, Open,
          PutMachineAuthority, At, sockets
  <2>3. CloseInv(m)'
      BY <1>3, <1>1, <1>5, NoSocketType, TurnHasSocket
      DEF GatewayInv, GatewayTypeOK, SocketsAge, SocketsStay, NoneJoins, MachineInv, CloseInv,
          OwnInv, MapInv, PutMachineAuthority, At, sockets
  <2>4. turn[m].op # "none"
      BY <1>1 DEF PutMachineAuthority, At, sockets
  <2>5. turn'[m].op = turn[m].op /\ turn'[m].socket = turn[m].socket
      BY <1>1 DEF PutMachineAuthority, At, sockets
  <2> QED BY <1>3, <1>1, <1>5, <2>1, <2>2, <2>3, <2>4, <2>5, Continued DEF SocketsAge
<1>7. ASSUME NEW n \in Machines, n # m PROVE MachineInv(n)'
    BY <1>3, <1>1, <1>5, <1>7, Unaffected
    DEF GatewayInv, GatewayTypeOK, RowsKept, PutMachineAuthority, At, sockets, SocketsAge
<1> QED BY <1>2, <1>4, <1>6, <1>7 DEF GatewayInv

LEMMA SupersedeStep ==
    ASSUME GatewayInv, NEW m \in Machines, Supersede(m) PROVE GatewayInv'
<1>1. CASE connections[m] \notin {NoSocket, turn[m].socket}
  <2>1. socket' \in [Sockets -> SocketStates] /\ socket'[connections[m]] # "open" /\ SocketsAge
      BY <1>1, SocketCloses, TurnHasSocket DEF GatewayInv, GatewayTypeOK, Supersede, At
  <2>2. /\ turn' \in [Machines -> Turns]
        /\ turn'[m].op = "authenticate" /\ turn'[m].socket = turn[m].socket
        /\ turn'[m].stage = "online"
        /\ \A n \in Machines : n # m => turn'[n] = turn[n]
      BY <1>1, GotoAuthenticate DEF GatewayInv, Supersede, At, AuthStages
  <2>3. GatewayTypeOK'
    <3>1. UNCHANGED <<auth, beat, connections, waiting, status, incompatible, revoked,
             authorityOnline, revocation, restarts>>
        BY <1>1, <2>1, <2>2 DEF Supersede, At, tables, sockets
    <3> QED BY <1>1, <2>1, <2>2, <3>1 DEF GatewayInv, GatewayTypeOK
  <2>4. NewInv'
      BY <1>1, <2>1, <2>2 DEF GatewayInv, GatewayTypeOK, NewInv, SocketsAge, SocketsStay,
         NoneJoins
  <2>5. \A n \in Machines : QueueInv(n)'
      BY <1>1, <2>1, <2>2, QueueAges DEF Supersede, At, tables, SocketsAge
  <2>6. MachineInv(m)'
    <3>1. RowsKept(m) /\ connections'[m] = connections[m]
        BY <1>1, <2>1, <2>2 DEF GatewayInv, GatewayTypeOK, RowsKept, Supersede, At, tables
    <3>2. AuthenticateInv(m)'
        BY <1>1, <2>1, <2>2, <2>5, NoSocketType, TurnHasSocket
        DEF GatewayInv, GatewayTypeOK, SocketsAge, SocketsStay, NoneJoins, MachineInv,
            AuthenticateInv, MapInv, OwnInv, OneLive, Available, Live, Open, Supersede, At,
            tables
    <3>3. CloseInv(m)'
        BY <1>1, <2>1, <2>2, <2>5, NoSocketType, TurnHasSocket
        DEF GatewayInv, GatewayTypeOK, SocketsAge, SocketsStay, NoneJoins, MachineInv,
            CloseInv, OwnInv, MapInv, Supersede, At, tables
    <3>4. turn[m].op # "none"
        BY <1>1, <2>1, <2>2 DEF Supersede, At, tables
    <3>5. turn'[m].op = turn[m].op /\ turn'[m].socket = turn[m].socket
        BY <1>1, <2>1, <2>2 DEF Supersede, At, tables
    <3> QED BY <1>1, <2>1, <2>2, <2>5, <3>1, <3>2, <3>3, <3>4, <3>5, Continued DEF SocketsAge
  <2>7. ASSUME NEW n \in Machines, n # m PROVE MachineInv(n)'
      BY <1>1, <2>1, <2>2, <2>5, <2>7, Unaffected
      DEF GatewayInv, GatewayTypeOK, RowsKept, Supersede, At, tables, SocketsAge
  <2> QED BY <2>3, <2>4, <2>6, <2>7 DEF GatewayInv
<1>2. CASE connections[m] \in {NoSocket, turn[m].socket}
  <2>1. /\ turn' \in [Machines -> Turns]
        /\ turn'[m].op = "authenticate" /\ turn'[m].socket = turn[m].socket
        /\ turn'[m].stage = "online"
        /\ \A n \in Machines : n # m => turn'[n] = turn[n]
      BY <1>2, GotoAuthenticate DEF GatewayInv, Supersede, At, AuthStages
  <2>2. GatewayTypeOK'
    <3>1. socket' \in [Sockets -> SocketStates]
        BY <1>2, <2>1, TurnHasSocket
        DEF GatewayInv, GatewayTypeOK, Supersede, Closing, At, tables, SocketStates
    <3>2. UNCHANGED <<auth, beat, connections, waiting, status, incompatible, revoked,
             authorityOnline, revocation, restarts>>
        BY <1>2, <2>1 DEF Supersede, Closing, At, tables, sockets
    <3> QED BY <1>2, <2>1, <3>1, <3>2 DEF GatewayInv, GatewayTypeOK
  <2>3. SocketsAge
      BY <1>2, <2>1
      DEF GatewayInv, GatewayTypeOK, NewInv, SocketsAge, SocketsStay, NoneJoins, Supersede,
          Closing, At, tables
  <2>4. NewInv'
      BY <2>3, <1>2, <2>1 DEF GatewayInv, GatewayTypeOK, NewInv, SocketsAge, SocketsStay,
         NoneJoins
  <2>5. \A n \in Machines : QueueInv(n)'
      BY <2>3, <1>2, <2>1, QueueAges DEF Supersede, Closing, At, tables, SocketsAge
  <2>6. MachineInv(m)'
    <3>1. RowsKept(m) /\ connections'[m] = connections[m]
        BY <1>2, <2>1
        DEF GatewayInv, GatewayTypeOK, RowsKept, Supersede, Closing, At, tables
    <3>2. AuthenticateInv(m)'
        BY <2>3, <1>2, <2>1, <2>5, NoSocketType, TurnHasSocket
        DEF GatewayInv, GatewayTypeOK, SocketsAge, SocketsStay, NoneJoins, MachineInv,
            AuthenticateInv, MapInv, OwnInv, OneLive, Available, Live, Open, Supersede,
            Closing, At, tables
    <3>3. CloseInv(m)'
        BY <2>3, <1>2, <2>1, <2>5, NoSocketType, TurnHasSocket
        DEF GatewayInv, GatewayTypeOK, SocketsAge, SocketsStay, NoneJoins, MachineInv,
            CloseInv, OwnInv, MapInv, Supersede, Closing, At, tables
    <3>4. turn[m].op # "none"
        BY <1>2, <2>1 DEF Supersede, Closing, At, tables
    <3>5. turn'[m].op = turn[m].op /\ turn'[m].socket = turn[m].socket
        BY <1>2, <2>1 DEF Supersede, Closing, At, tables
    <3> QED BY <2>3, <1>2, <2>1, <2>5, <3>1, <3>2, <3>3, <3>4, <3>5, Continued DEF SocketsAge
  <2>7. ASSUME NEW n \in Machines, n # m PROVE MachineInv(n)'
      BY <2>3, <1>2, <2>1, <2>5, <2>7, Unaffected
      DEF GatewayInv, GatewayTypeOK, RowsKept, Supersede, Closing, At, tables, SocketsAge
  <2> QED BY <2>2, <2>4, <2>6, <2>7 DEF GatewayInv
<1> QED BY <1>1, <1>2

LEMMA setMachineOnlineStep ==
    ASSUME GatewayInv, NEW m \in Machines, setMachineOnline(m) PROVE GatewayInv'
<1>1. CASE revoked[m]
  <2>1. /\ turn' \in [Machines -> Turns]
        /\ turn'[m].op = "authenticate" /\ turn'[m].socket = turn[m].socket
        /\ turn'[m].stage = "refuse"
        /\ \A n \in Machines : n # m => turn'[n] = turn[n]
      BY <1>1, GotoAuthenticate DEF GatewayInv, setMachineOnline, At, AuthStages
  <2>2. GatewayTypeOK'
    <3>1. status' \in [Machines -> {"offline", "online"}]
        BY <1>1, <2>1, TurnHasSocket
        DEF GatewayInv, GatewayTypeOK, setMachineOnline, At, sockets
    <3>2. incompatible' \in [Machines -> BOOLEAN]
        BY <1>1, <2>1, TurnHasSocket
        DEF GatewayInv, GatewayTypeOK, setMachineOnline, At, sockets
    <3>3. UNCHANGED <<socket, auth, beat, connections, waiting, revoked, authorityOnline,
             revocation, restarts>>
        BY <1>1, <2>1 DEF setMachineOnline, At, sockets, tables
    <3> QED BY <1>1, <2>1, <3>1, <3>2, <3>3 DEF GatewayInv, GatewayTypeOK
  <2>3. SocketsAge
      BY <1>1, <2>1
      DEF GatewayInv, GatewayTypeOK, NewInv, SocketsAge, SocketsStay, NoneJoins,
          setMachineOnline, At, sockets
  <2>4. NewInv'
      BY <2>3, <1>1, <2>1 DEF GatewayInv, GatewayTypeOK, NewInv, SocketsAge, SocketsStay,
         NoneJoins
  <2>5. \A n \in Machines : QueueInv(n)'
      BY <2>3, <1>1, <2>1, QueueAges DEF setMachineOnline, At, sockets, SocketsAge
  <2>6. MachineInv(m)'
    <3>1. RowsKept(m) /\ connections'[m] = connections[m]
        BY <1>1, <2>1 DEF GatewayInv, GatewayTypeOK, RowsKept, setMachineOnline, At, sockets
    <3>2. AuthenticateInv(m)'
        BY <2>3, <1>1, <2>1, <2>5, NoSocketType, TurnHasSocket
        DEF GatewayInv, GatewayTypeOK, SocketsAge, SocketsStay, NoneJoins, MachineInv,
            AuthenticateInv, MapInv, OwnInv, OneLive, Available, Live, Open, setMachineOnline,
            At, sockets
    <3>3. CloseInv(m)'
        BY <2>3, <1>1, <2>1, <2>5, NoSocketType, TurnHasSocket
        DEF GatewayInv, GatewayTypeOK, SocketsAge, SocketsStay, NoneJoins, MachineInv,
            CloseInv, OwnInv, MapInv, setMachineOnline, At, sockets
    <3>4. turn[m].op # "none"
        BY <1>1, <2>1 DEF setMachineOnline, At, sockets
    <3>5. turn'[m].op = turn[m].op /\ turn'[m].socket = turn[m].socket
        BY <1>1, <2>1 DEF setMachineOnline, At, sockets
    <3> QED BY <2>3, <1>1, <2>1, <2>5, <3>1, <3>2, <3>3, <3>4, <3>5, Continued DEF SocketsAge
  <2>7. ASSUME NEW n \in Machines, n # m PROVE MachineInv(n)'
      BY <2>3, <1>1, <2>1, <2>5, <2>7, Unaffected
      DEF GatewayInv, GatewayTypeOK, RowsKept, setMachineOnline, At, sockets, SocketsAge
  <2> QED BY <2>2, <2>4, <2>6, <2>7 DEF GatewayInv
<1>2. CASE ~revoked[m]
  <2>1. /\ turn' \in [Machines -> Turns]
        /\ turn'[m].op = "authenticate" /\ turn'[m].socket = turn[m].socket
        /\ turn'[m].stage = "register"
        /\ \A n \in Machines : n # m => turn'[n] = turn[n]
      BY <1>2, GotoAuthenticate DEF GatewayInv, setMachineOnline, At, AuthStages
  <2>2. GatewayTypeOK'
    <3>1. status' \in [Machines -> {"offline", "online"}]
        BY <1>2, <2>1, TurnHasSocket
        DEF GatewayInv, GatewayTypeOK, setMachineOnline, At, sockets
    <3>2. incompatible' \in [Machines -> BOOLEAN]
        BY <1>2, <2>1, TurnHasSocket
        DEF GatewayInv, GatewayTypeOK, setMachineOnline, At, sockets
    <3>3. UNCHANGED <<socket, auth, beat, connections, waiting, revoked, authorityOnline,
             revocation, restarts>>
        BY <1>2, <2>1 DEF setMachineOnline, At, sockets, tables
    <3> QED BY <1>2, <2>1, <3>1, <3>2, <3>3 DEF GatewayInv, GatewayTypeOK
  <2>3. SocketsAge
      BY <1>2, <2>1
      DEF GatewayInv, GatewayTypeOK, NewInv, SocketsAge, SocketsStay, NoneJoins,
          setMachineOnline, At, sockets
  <2>4. NewInv'
      BY <2>3, <1>2, <2>1 DEF GatewayInv, GatewayTypeOK, NewInv, SocketsAge, SocketsStay,
         NoneJoins
  <2>5. \A n \in Machines : QueueInv(n)'
      BY <2>3, <1>2, <2>1, QueueAges DEF setMachineOnline, At, sockets, SocketsAge
  <2>6. MachineInv(m)'
    <3>1. RowsKept(m) /\ connections'[m] = connections[m]
        BY <1>2, <2>1 DEF GatewayInv, GatewayTypeOK, RowsKept, setMachineOnline, At, sockets
    <3>2. AuthenticateInv(m)'
        BY <2>3, <1>2, <2>1, <2>5, NoSocketType, TurnHasSocket
        DEF GatewayInv, GatewayTypeOK, SocketsAge, SocketsStay, NoneJoins, MachineInv,
            AuthenticateInv, MapInv, OwnInv, OneLive, Available, Live, Open, setMachineOnline,
            At, sockets
    <3>3. CloseInv(m)'
        BY <2>3, <1>2, <2>1, <2>5, NoSocketType, TurnHasSocket
        DEF GatewayInv, GatewayTypeOK, SocketsAge, SocketsStay, NoneJoins, MachineInv,
            CloseInv, OwnInv, MapInv, setMachineOnline, At, sockets
    <3>4. turn[m].op # "none"
        BY <1>2, <2>1 DEF setMachineOnline, At, sockets
    <3>5. turn'[m].op = turn[m].op /\ turn'[m].socket = turn[m].socket
        BY <1>2, <2>1 DEF setMachineOnline, At, sockets
    <3> QED BY <2>3, <1>2, <2>1, <2>5, <3>1, <3>2, <3>3, <3>4, <3>5, Continued DEF SocketsAge
  <2>7. ASSUME NEW n \in Machines, n # m PROVE MachineInv(n)'
      BY <2>3, <1>2, <2>1, <2>5, <2>7, Unaffected
      DEF GatewayInv, GatewayTypeOK, RowsKept, setMachineOnline, At, sockets, SocketsAge
  <2> QED BY <2>2, <2>4, <2>6, <2>7 DEF GatewayInv
<1> QED BY <1>1, <1>2

LEMMA RefuseRevokedStep ==
    ASSUME GatewayInv, NEW m \in Machines, RefuseRevoked(m) PROVE GatewayInv'
<1>1. socket' \in [Sockets -> SocketStates] /\ socket'[turn[m].socket] # "open" /\ SocketsAge
    BY SocketCloses, TurnHasSocket DEF GatewayInv, GatewayTypeOK, RefuseRevoked, At
<1>2. /\ turn' \in [Machines -> Turns] /\ turn'[m].op = "none"
      /\ \A n \in Machines : n # m => turn'[n] = turn[n]
    BY TurnEnds DEF GatewayInv, RefuseRevoked, At
<1>3. GatewayTypeOK'
  <2>1. UNCHANGED <<auth, beat, connections, waiting, status, incompatible, revoked,
           authorityOnline, revocation, restarts>>
      BY <1>1, <1>2 DEF RefuseRevoked, At, tables, sockets
  <2> QED BY <1>1, <1>2, <2>1 DEF GatewayInv, GatewayTypeOK
<1>4. NewInv'
    BY <1>1, <1>2 DEF GatewayInv, GatewayTypeOK, NewInv, SocketsAge, SocketsStay, NoneJoins
<1>5. \A n \in Machines : QueueInv(n)'
    BY <1>1, <1>2, QueueAges DEF RefuseRevoked, At, tables, SocketsAge
<1>6. MachineInv(m)'
  <2>1. RowsKept(m) /\ connections'[m] = connections[m]
      BY <1>1, <1>2 DEF GatewayInv, GatewayTypeOK, RowsKept, RefuseRevoked, At, tables
  <2> QED BY <1>1, <1>2, <1>5, <2>1, Ended DEF SocketsAge
<1>7. ASSUME NEW n \in Machines, n # m PROVE MachineInv(n)'
    BY <1>1, <1>2, <1>5, <1>7, Unaffected
    DEF GatewayInv, GatewayTypeOK, RowsKept, RefuseRevoked, At, tables, SocketsAge
<1> QED BY <1>3, <1>4, <1>6, <1>7 DEF GatewayInv

LEMMA RegisterStep ==
    ASSUME GatewayInv, NEW m \in Machines, Register(m) PROVE GatewayInv'
<1>1. CASE Open(turn[m].socket)
  <2>1. /\ turn' \in [Machines -> Turns]
        /\ turn'[m].op = "authenticate" /\ turn'[m].socket = turn[m].socket
        /\ turn'[m].stage = "reconnect"
        /\ \A n \in Machines : n # m => turn'[n] = turn[n]
      BY <1>1, GotoAuthenticate DEF GatewayInv, Register, At, AuthStages, Open
  <2>2. GatewayTypeOK'
    <3>1. connections' \in [Machines -> Sockets \cup {NoSocket}]
        BY <1>1, <2>1, TurnHasSocket
        DEF GatewayInv, GatewayTypeOK, Register, At, Open, tables
    <3>2. auth' \in [Sockets -> AuthSteps]
        BY <1>1, <2>1, TurnHasSocket
        DEF GatewayInv, GatewayTypeOK, Register, At, Open, tables, AuthSteps
    <3>3. UNCHANGED <<socket, beat, waiting, status, incompatible, revoked, authorityOnline,
             revocation, restarts>>
        BY <1>1, <2>1 DEF Register, At, Open, tables, sockets
    <3> QED BY <1>1, <2>1, <3>1, <3>2, <3>3 DEF GatewayInv, GatewayTypeOK
  <2>3. SocketsStay /\ \A n \in Machines : n # m => NoneJoins(n)
    <3>1. turn[m].socket \in Sockets /\ socket[turn[m].socket] = "open"
          /\ MachineOf[turn[m].socket] = m
        BY <1>1, TurnHasSocket DEF GatewayInv, MachineInv, OwnInv, Register, At, Open
    <3>2. auth' = [auth EXCEPT ![turn[m].socket] = "authenticated"] /\ socket' = socket
        BY <1>1 DEF Register
    <3> QED BY <3>1, <3>2 DEF GatewayInv, GatewayTypeOK, SocketsStay, NoneJoins
  <2>4. NewInv'
      BY <2>3, <1>1, <2>1 DEF GatewayInv, GatewayTypeOK, NewInv, SocketsAge, SocketsStay,
         NoneJoins
  <2>5. \A n \in Machines : QueueInv(n)'
      BY <2>3, <1>1, <2>1, QueueAges DEF Register, At, Open, tables, SocketsAge
  <2>6. MachineInv(m)'
    <3>1. MapInv(m)'
        BY <2>3, <1>1, <2>1, <2>5, NoSocketType, TurnHasSocket
        DEF GatewayInv, GatewayTypeOK, SocketsAge, SocketsStay, NoneJoins, MachineInv, MapInv,
            OwnInv, Register, At, Open, tables
    <3>2. OwnInv(m)'
        BY <2>3, <1>1, <2>1, <2>5, NoSocketType, TurnHasSocket
        DEF GatewayInv, GatewayTypeOK, SocketsAge, SocketsStay, NoneJoins, MachineInv, OwnInv,
            Register, At, Open, tables
    <3>3. AuthenticateInv(m)'
        BY <2>3, <1>1, <2>1, <2>5, NoSocketType, TurnHasSocket
        DEF GatewayInv, GatewayTypeOK, SocketsAge, SocketsStay, NoneJoins, MachineInv,
            AuthenticateInv, MapInv, OwnInv, OneLive, Available, Live, Open, Register, At,
            tables
    <3>4. CloseInv(m)'
        BY <2>3, <1>1, <2>1, <2>5, NoSocketType, TurnHasSocket
        DEF GatewayInv, GatewayTypeOK, SocketsAge, SocketsStay, NoneJoins, MachineInv,
            CloseInv, OwnInv, MapInv, Register, At, Open, tables
    <3>5. OneLive(m)'
        BY <2>3, <1>1, <2>1, <2>5, NoSocketType, TurnHasSocket
        DEF GatewayInv, GatewayTypeOK, SocketsAge, SocketsStay, NoneJoins, MachineInv,
            OneLive, MapInv, OwnInv, AuthenticateInv, Open, Register, At, tables
    <3>6. Available(m)'
        BY <2>3, <1>1, <2>1, <2>5, NoSocketType, TurnHasSocket
        DEF GatewayInv, GatewayTypeOK, SocketsAge, SocketsStay, NoneJoins, MachineInv,
            Available, MapInv, OwnInv, AuthenticateInv, CloseInv, Live, Open, Register, At,
            tables
    <3> QED BY <2>5, <3>1, <3>2, <3>3, <3>4, <3>5, <3>6 DEF MachineInv
  <2>7. ASSUME NEW n \in Machines, n # m PROVE MachineInv(n)'
      BY <2>3, <1>1, <2>1, <2>5, <2>7, Unaffected
      DEF GatewayInv, GatewayTypeOK, RowsKept, Register, At, Open, tables, SocketsAge
  <2> QED BY <2>2, <2>4, <2>6, <2>7 DEF GatewayInv
<1>2. CASE ~Open(turn[m].socket)
  <2>1. /\ turn' \in [Machines -> Turns]
        /\ turn'[m].op = "authenticate" /\ turn'[m].socket = turn[m].socket
        /\ turn'[m].stage = "undo"
        /\ \A n \in Machines : n # m => turn'[n] = turn[n]
      BY <1>2, GotoAuthenticate DEF GatewayInv, Register, At, AuthStages, Open
  <2>2. GatewayTypeOK'
    <3>1. connections' \in [Machines -> Sockets \cup {NoSocket}]
        BY <1>2, <2>1, TurnHasSocket
        DEF GatewayInv, GatewayTypeOK, Register, At, Open, tables
    <3>2. auth' \in [Sockets -> AuthSteps]
        BY <1>2, <2>1, TurnHasSocket
        DEF GatewayInv, GatewayTypeOK, Register, At, Open, tables, AuthSteps
    <3>3. UNCHANGED <<socket, beat, waiting, status, incompatible, revoked, authorityOnline,
             revocation, restarts>>
        BY <1>2, <2>1 DEF Register, At, Open, tables, sockets
    <3> QED BY <1>2, <2>1, <3>1, <3>2, <3>3 DEF GatewayInv, GatewayTypeOK
  <2>3. SocketsAge
      BY <1>2, <2>1, TurnHasSocket
      DEF GatewayInv, GatewayTypeOK, NewInv, SocketsAge, SocketsStay, NoneJoins, Register, At,
          Open, tables
  <2>4. NewInv'
      BY <2>3, <1>2, <2>1 DEF GatewayInv, GatewayTypeOK, NewInv, SocketsAge, SocketsStay,
         NoneJoins
  <2>5. \A n \in Machines : QueueInv(n)'
      BY <2>3, <1>2, <2>1, QueueAges DEF Register, At, Open, tables, SocketsAge
  <2>6. MachineInv(m)'
    <3>1. MapInv(m)'
        BY <2>3, <1>2, <2>1, <2>5, NoSocketType, TurnHasSocket
        DEF GatewayInv, GatewayTypeOK, SocketsAge, SocketsStay, NoneJoins, MachineInv, MapInv,
            OwnInv, Register, At, Open, tables
    <3>2. OwnInv(m)'
        BY <2>3, <1>2, <2>1, <2>5, NoSocketType, TurnHasSocket
        DEF GatewayInv, GatewayTypeOK, SocketsAge, SocketsStay, NoneJoins, MachineInv, OwnInv,
            Register, At, Open, tables
    <3>3. AuthenticateInv(m)'
        BY <2>3, <1>2, <2>1, <2>5, NoSocketType, TurnHasSocket
        DEF GatewayInv, GatewayTypeOK, SocketsAge, SocketsStay, NoneJoins, MachineInv,
            AuthenticateInv, MapInv, OwnInv, OneLive, Available, Live, Open, Register, At,
            tables
    <3>4. CloseInv(m)'
        BY <2>3, <1>2, <2>1, <2>5, NoSocketType, TurnHasSocket
        DEF GatewayInv, GatewayTypeOK, SocketsAge, SocketsStay, NoneJoins, MachineInv,
            CloseInv, OwnInv, MapInv, Register, At, Open, tables
    <3>5. OneLive(m)'
        BY <2>3, <1>2, <2>1, <2>5, NoSocketType, TurnHasSocket
        DEF GatewayInv, GatewayTypeOK, SocketsAge, SocketsStay, NoneJoins, MachineInv,
            OneLive, MapInv, OwnInv, AuthenticateInv, Open, Register, At, tables
    <3>6. Available(m)'
        BY <2>3, <1>2, <2>1, <2>5, NoSocketType, TurnHasSocket
        DEF GatewayInv, GatewayTypeOK, SocketsAge, SocketsStay, NoneJoins, MachineInv,
            Available, MapInv, OwnInv, AuthenticateInv, CloseInv, Live, Open, Register, At,
            tables
    <3> QED BY <2>5, <3>1, <3>2, <3>3, <3>4, <3>5, <3>6 DEF MachineInv
  <2>7. ASSUME NEW n \in Machines, n # m PROVE MachineInv(n)'
      BY <2>3, <1>2, <2>1, <2>5, <2>7, Unaffected
      DEF GatewayInv, GatewayTypeOK, RowsKept, Register, At, Open, tables, SocketsAge
  <2> QED BY <2>2, <2>4, <2>6, <2>7 DEF GatewayInv
<1> QED BY <1>1, <1>2

LEMMA UndoStep ==
    ASSUME GatewayInv, NEW m \in Machines, Undo(m) PROVE GatewayInv'
<1>1. /\ turn' \in [Machines -> Turns] /\ turn'[m].op = "none"
      /\ \A n \in Machines : n # m => turn'[n] = turn[n]
    BY TurnEnds DEF GatewayInv, Undo, At
<1>2. GatewayTypeOK'
  <2>1. status' \in [Machines -> {"offline", "online"}]
      BY <1>1, TurnHasSocket DEF GatewayInv, GatewayTypeOK, Undo, At, sockets
  <2>2. UNCHANGED <<socket, auth, beat, connections, waiting, incompatible, revoked,
           authorityOnline, revocation, restarts>>
      BY <1>1 DEF Undo, At, sockets, tables
  <2> QED BY <1>1, <2>1, <2>2 DEF GatewayInv, GatewayTypeOK
<1>3. SocketsAge
    BY <1>1 DEF GatewayInv, GatewayTypeOK, NewInv, SocketsAge, SocketsStay, NoneJoins, Undo,
       At, sockets
<1>4. NewInv'
    BY <1>3, <1>1 DEF GatewayInv, GatewayTypeOK, NewInv, SocketsAge, SocketsStay, NoneJoins
<1>5. \A n \in Machines : QueueInv(n)'
    BY <1>3, <1>1, QueueAges DEF Undo, At, sockets, SocketsAge
<1>6. MachineInv(m)'
  <2>1. MapInv(m)'
      BY <1>3, <1>1, <1>5, NoSocketType, TurnHasSocket
      DEF GatewayInv, GatewayTypeOK, SocketsAge, SocketsStay, NoneJoins, MachineInv, MapInv,
          OwnInv, Undo, At, sockets
  <2>2. OwnInv(m)'
      BY <1>3, <1>1, <1>5, NoSocketType, TurnHasSocket
      DEF GatewayInv, GatewayTypeOK, SocketsAge, SocketsStay, NoneJoins, MachineInv, OwnInv,
          Undo, At, sockets
  <2>3. AuthenticateInv(m)'
      BY <1>3, <1>1, <1>5, NoSocketType, TurnHasSocket
      DEF GatewayInv, GatewayTypeOK, SocketsAge, SocketsStay, NoneJoins, MachineInv,
          AuthenticateInv, MapInv, OwnInv, OneLive, Available, Live, Open, Undo, At, sockets
  <2>4. CloseInv(m)'
      BY <1>3, <1>1, <1>5, NoSocketType, TurnHasSocket
      DEF GatewayInv, GatewayTypeOK, SocketsAge, SocketsStay, NoneJoins, MachineInv, CloseInv,
          OwnInv, MapInv, Undo, At, sockets
  <2>5. OneLive(m)'
      BY <1>3, <1>1, <1>5, NoSocketType, TurnHasSocket
      DEF GatewayInv, GatewayTypeOK, SocketsAge, SocketsStay, NoneJoins, MachineInv, OneLive,
          MapInv, OwnInv, AuthenticateInv, Open, Undo, At, sockets
  <2>6. Available(m)'
      BY <1>3, <1>1, <1>5, NoSocketType, TurnHasSocket
      DEF GatewayInv, GatewayTypeOK, SocketsAge, SocketsStay, NoneJoins, MachineInv,
          Available, MapInv, OwnInv, AuthenticateInv, CloseInv, Live, Open, Undo, At, sockets
  <2> QED BY <1>5, <2>1, <2>2, <2>3, <2>4, <2>5, <2>6 DEF MachineInv
<1>7. ASSUME NEW n \in Machines, n # m PROVE MachineInv(n)'
    BY <1>3, <1>1, <1>5, <1>7, Unaffected
    DEF GatewayInv, GatewayTypeOK, RowsKept, Undo, At, sockets, SocketsAge
<1> QED BY <1>2, <1>4, <1>6, <1>7 DEF GatewayInv

LEMMA ReconnectedStep ==
    ASSUME GatewayInv, NEW m \in Machines, Reconnected(m) PROVE GatewayInv'
<1>1. /\ turn' \in [Machines -> Turns] /\ turn'[m].op = "none"
      /\ \A n \in Machines : n # m => turn'[n] = turn[n]
    BY TurnEnds DEF GatewayInv, Reconnected, At
<1>2. GatewayTypeOK'
  <2>1. UNCHANGED <<socket, auth, beat, connections, waiting, status, incompatible, revoked,
           authorityOnline, revocation, restarts>>
      BY <1>1 DEF Reconnected, At, sockets, tables
  <2> QED BY <1>1, <2>1 DEF GatewayInv, GatewayTypeOK
<1>3. SocketsAge
    BY <1>1
    DEF GatewayInv, GatewayTypeOK, NewInv, SocketsAge, SocketsStay, NoneJoins, Reconnected,
        At, sockets, tables
<1>4. NewInv'
    BY <1>3, <1>1 DEF GatewayInv, GatewayTypeOK, NewInv, SocketsAge, SocketsStay, NoneJoins
<1>5. \A n \in Machines : QueueInv(n)'
    BY <1>3, <1>1, QueueAges DEF Reconnected, At, sockets, tables, SocketsAge
<1>6. MachineInv(m)'
  <2>1. RowsKept(m) /\ connections'[m] = connections[m]
      BY <1>1 DEF GatewayInv, GatewayTypeOK, RowsKept, Reconnected, At, sockets, tables
  <2> QED BY <1>3, <1>1, <1>5, <2>1, Ended DEF SocketsAge
<1>7. ASSUME NEW n \in Machines, n # m PROVE MachineInv(n)'
    BY <1>3, <1>1, <1>5, <1>7, Unaffected
    DEF GatewayInv, GatewayTypeOK, RowsKept, Reconnected, At, sockets, tables, SocketsAge
<1> QED BY <1>2, <1>4, <1>6, <1>7 DEF GatewayInv

LEMMA AuthenticateFailsStep ==
    ASSUME GatewayInv, NEW m \in Machines, AuthenticateFails(m) PROVE GatewayInv'
<1>1. socket' \in [Sockets -> SocketStates] /\ socket'[turn[m].socket] # "open" /\ SocketsAge
    BY SocketCloses, TurnHasSocket DEF GatewayInv, GatewayTypeOK, AuthenticateFails, At
<1>2. /\ turn' \in [Machines -> Turns] /\ turn'[m].op = "none"
      /\ \A n \in Machines : n # m => turn'[n] = turn[n]
    BY TurnEnds DEF GatewayInv, AuthenticateFails, At
<1>3. GatewayTypeOK'
  <2>1. UNCHANGED <<auth, beat, connections, waiting, status, incompatible, revoked,
           authorityOnline, revocation, restarts>>
      BY <1>1, <1>2 DEF AuthenticateFails, tables, sockets
  <2> QED BY <1>1, <1>2, <2>1 DEF GatewayInv, GatewayTypeOK
<1>4. NewInv'
    BY <1>1, <1>2 DEF GatewayInv, GatewayTypeOK, NewInv, SocketsAge, SocketsStay, NoneJoins
<1>5. \A n \in Machines : QueueInv(n)'
    BY <1>1, <1>2, QueueAges DEF AuthenticateFails, tables, SocketsAge
<1>6. MachineInv(m)'
  <2>1. RowsKept(m) /\ connections'[m] = connections[m]
      BY <1>1, <1>2 DEF GatewayInv, GatewayTypeOK, RowsKept, AuthenticateFails, tables
  <2> QED BY <1>1, <1>2, <1>5, <2>1, Ended DEF SocketsAge
<1>7. ASSUME NEW n \in Machines, n # m PROVE MachineInv(n)'
    BY <1>1, <1>2, <1>5, <1>7, Unaffected
    DEF GatewayInv, GatewayTypeOK, RowsKept, AuthenticateFails, tables, SocketsAge
<1> QED BY <1>3, <1>4, <1>6, <1>7 DEF GatewayInv

LEMMA CloseBeginsStep ==
    ASSUME GatewayInv, NEW m \in Machines, CloseBegins(m) PROVE GatewayInv'
<1>1. CASE connections[m] = turn[m].socket
  <2>1. /\ turn' \in [Machines -> Turns]
        /\ turn'[m].op = "close" /\ turn'[m].socket = turn[m].socket
        /\ turn'[m].stage = "offline"
        /\ \A n \in Machines : n # m => turn'[n] = turn[n]
      BY <1>1, GotoClose DEF GatewayInv, CloseBegins, At, CloseStages
  <2>2. GatewayTypeOK'
    <3>1. connections' \in [Machines -> Sockets \cup {NoSocket}]
        BY <1>1, <2>1, TurnHasSocket
        DEF GatewayInv, GatewayTypeOK, CloseBegins, EndTurn, At, sockets, tables
    <3>2. UNCHANGED <<socket, auth, beat, waiting, status, incompatible, revoked,
             authorityOnline, revocation, restarts>>
        BY <1>1, <2>1 DEF CloseBegins, EndTurn, At, sockets, tables
    <3> QED BY <1>1, <2>1, <3>1, <3>2 DEF GatewayInv, GatewayTypeOK
  <2>3. SocketsAge
      BY <1>1, <2>1
      DEF GatewayInv, GatewayTypeOK, NewInv, SocketsAge, SocketsStay, NoneJoins, CloseBegins,
          EndTurn, At, sockets, tables
  <2>4. NewInv'
      BY <2>3, <1>1, <2>1 DEF GatewayInv, GatewayTypeOK, NewInv, SocketsAge, SocketsStay,
         NoneJoins
  <2>5. \A n \in Machines : QueueInv(n)'
      BY <2>3, <1>1, <2>1, QueueAges DEF CloseBegins, EndTurn, At, sockets, tables, SocketsAge
  <2>6. MachineInv(m)'
    <3>1. MapInv(m)'
        BY <2>3, <1>1, <2>1, <2>5, NoSocketType, TurnHasSocket
        DEF GatewayInv, GatewayTypeOK, SocketsAge, SocketsStay, NoneJoins, MachineInv, MapInv,
            OwnInv, CloseBegins, EndTurn, At, sockets, tables
    <3>2. OwnInv(m)'
        BY <2>3, <1>1, <2>1, <2>5, NoSocketType, TurnHasSocket
        DEF GatewayInv, GatewayTypeOK, SocketsAge, SocketsStay, NoneJoins, MachineInv, OwnInv,
            CloseBegins, EndTurn, At, sockets, tables
    <3>3. AuthenticateInv(m)'
        BY <2>3, <1>1, <2>1, <2>5, NoSocketType, TurnHasSocket
        DEF GatewayInv, GatewayTypeOK, SocketsAge, SocketsStay, NoneJoins, MachineInv,
            AuthenticateInv, MapInv, OwnInv, OneLive, Available, Live, Open, CloseBegins,
            EndTurn, At, sockets, tables
    <3>4. CloseInv(m)'
        BY <2>3, <1>1, <2>1, <2>5, NoSocketType, TurnHasSocket
        DEF GatewayInv, GatewayTypeOK, SocketsAge, SocketsStay, NoneJoins, MachineInv,
            CloseInv, OwnInv, MapInv, CloseBegins, EndTurn, At, sockets, tables
    <3>5. OneLive(m)'
        BY <2>3, <1>1, <2>1, <2>5, NoSocketType, TurnHasSocket
        DEF GatewayInv, GatewayTypeOK, SocketsAge, SocketsStay, NoneJoins, MachineInv,
            OneLive, MapInv, OwnInv, AuthenticateInv, Open, CloseBegins, EndTurn, At, sockets,
            tables
    <3>6. Available(m)'
        BY <2>3, <1>1, <2>1, <2>5, NoSocketType, TurnHasSocket
        DEF GatewayInv, GatewayTypeOK, SocketsAge, SocketsStay, NoneJoins, MachineInv,
            Available, MapInv, OwnInv, AuthenticateInv, CloseInv, Live, Open, CloseBegins,
            EndTurn, At, sockets, tables
    <3> QED BY <2>5, <3>1, <3>2, <3>3, <3>4, <3>5, <3>6 DEF MachineInv
  <2>7. ASSUME NEW n \in Machines, n # m PROVE MachineInv(n)'
      BY <2>3, <1>1, <2>1, <2>5, <2>7, Unaffected
      DEF GatewayInv, GatewayTypeOK, RowsKept, CloseBegins, EndTurn, At, sockets, tables,
          SocketsAge
  <2> QED BY <2>2, <2>4, <2>6, <2>7 DEF GatewayInv
<1>2. CASE connections[m] # turn[m].socket
  <2>1. /\ turn' \in [Machines -> Turns] /\ turn'[m].op = "none"
        /\ \A n \in Machines : n # m => turn'[n] = turn[n]
      BY <1>2, TurnEnds DEF GatewayInv, CloseBegins, At
  <2>2. GatewayTypeOK'
    <3>1. connections' \in [Machines -> Sockets \cup {NoSocket}]
        BY <1>2, <2>1, TurnHasSocket
        DEF GatewayInv, GatewayTypeOK, CloseBegins, Goto, At, sockets, tables
    <3>2. UNCHANGED <<socket, auth, beat, waiting, status, incompatible, revoked,
             authorityOnline, revocation, restarts>>
        BY <1>2, <2>1 DEF CloseBegins, Goto, At, sockets, tables
    <3> QED BY <1>2, <2>1, <3>1, <3>2 DEF GatewayInv, GatewayTypeOK
  <2>3. SocketsAge
      BY <1>2, <2>1
      DEF GatewayInv, GatewayTypeOK, NewInv, SocketsAge, SocketsStay, NoneJoins, CloseBegins,
          Goto, At, sockets, tables
  <2>4. NewInv'
      BY <2>3, <1>2, <2>1 DEF GatewayInv, GatewayTypeOK, NewInv, SocketsAge, SocketsStay,
         NoneJoins
  <2>5. \A n \in Machines : QueueInv(n)'
      BY <2>3, <1>2, <2>1, QueueAges DEF CloseBegins, Goto, At, sockets, tables, SocketsAge
  <2>6. MachineInv(m)'
    <3>1. MapInv(m)'
        BY <2>3, <1>2, <2>1, <2>5, NoSocketType, TurnHasSocket
        DEF GatewayInv, GatewayTypeOK, SocketsAge, SocketsStay, NoneJoins, MachineInv, MapInv,
            OwnInv, CloseBegins, Goto, At, sockets, tables
    <3>2. OwnInv(m)'
        BY <2>3, <1>2, <2>1, <2>5, NoSocketType, TurnHasSocket
        DEF GatewayInv, GatewayTypeOK, SocketsAge, SocketsStay, NoneJoins, MachineInv, OwnInv,
            CloseBegins, Goto, At, sockets, tables
    <3>3. AuthenticateInv(m)'
        BY <2>3, <1>2, <2>1, <2>5, NoSocketType, TurnHasSocket
        DEF GatewayInv, GatewayTypeOK, SocketsAge, SocketsStay, NoneJoins, MachineInv,
            AuthenticateInv, MapInv, OwnInv, OneLive, Available, Live, Open, CloseBegins,
            Goto, At, sockets, tables
    <3>4. CloseInv(m)'
        BY <2>3, <1>2, <2>1, <2>5, NoSocketType, TurnHasSocket
        DEF GatewayInv, GatewayTypeOK, SocketsAge, SocketsStay, NoneJoins, MachineInv,
            CloseInv, OwnInv, MapInv, CloseBegins, Goto, At, sockets, tables
    <3>5. OneLive(m)'
        BY <2>3, <1>2, <2>1, <2>5, NoSocketType, TurnHasSocket
        DEF GatewayInv, GatewayTypeOK, SocketsAge, SocketsStay, NoneJoins, MachineInv,
            OneLive, MapInv, OwnInv, AuthenticateInv, Open, CloseBegins, Goto, At, sockets,
            tables
    <3>6. Available(m)'
        BY <2>3, <1>2, <2>1, <2>5, NoSocketType, TurnHasSocket
        DEF GatewayInv, GatewayTypeOK, SocketsAge, SocketsStay, NoneJoins, MachineInv,
            Available, MapInv, OwnInv, AuthenticateInv, CloseInv, Live, Open, CloseBegins,
            Goto, At, sockets, tables
    <3> QED BY <2>5, <3>1, <3>2, <3>3, <3>4, <3>5, <3>6 DEF MachineInv
  <2>7. ASSUME NEW n \in Machines, n # m PROVE MachineInv(n)'
      BY <2>3, <1>2, <2>1, <2>5, <2>7, Unaffected
      DEF GatewayInv, GatewayTypeOK, RowsKept, CloseBegins, Goto, At, sockets, tables,
          SocketsAge
  <2> QED BY <2>2, <2>4, <2>6, <2>7 DEF GatewayInv
<1> QED BY <1>1, <1>2

LEMMA setMachineOfflineStep ==
    ASSUME GatewayInv, NEW m \in Machines, setMachineOffline(m) PROVE GatewayInv'
<1>1. /\ turn' \in [Machines -> Turns]
      /\ turn'[m].op = "close" /\ turn'[m].socket = turn[m].socket
      /\ turn'[m].stage = "disconnected"
      /\ \A n \in Machines : n # m => turn'[n] = turn[n]
    BY GotoClose DEF GatewayInv, setMachineOffline, At, CloseStages
<1>2. GatewayTypeOK'
  <2>1. status' \in [Machines -> {"offline", "online"}]
      BY <1>1, TurnHasSocket DEF GatewayInv, GatewayTypeOK, setMachineOffline, At, sockets
  <2>2. UNCHANGED <<socket, auth, beat, connections, waiting, incompatible, revoked,
           authorityOnline, revocation, restarts>>
      BY <1>1 DEF setMachineOffline, At, sockets, tables
  <2> QED BY <1>1, <2>1, <2>2 DEF GatewayInv, GatewayTypeOK
<1>3. SocketsAge
    BY <1>1
    DEF GatewayInv, GatewayTypeOK, NewInv, SocketsAge, SocketsStay, NoneJoins,
        setMachineOffline, At, sockets
<1>4. NewInv'
    BY <1>3, <1>1 DEF GatewayInv, GatewayTypeOK, NewInv, SocketsAge, SocketsStay, NoneJoins
<1>5. \A n \in Machines : QueueInv(n)'
    BY <1>3, <1>1, QueueAges DEF setMachineOffline, At, sockets, SocketsAge
<1>6. MachineInv(m)'
  <2>1. MapInv(m)'
      BY <1>3, <1>1, <1>5, NoSocketType, TurnHasSocket
      DEF GatewayInv, GatewayTypeOK, SocketsAge, SocketsStay, NoneJoins, MachineInv, MapInv,
          OwnInv, setMachineOffline, At, sockets
  <2>2. OwnInv(m)'
      BY <1>3, <1>1, <1>5, NoSocketType, TurnHasSocket
      DEF GatewayInv, GatewayTypeOK, SocketsAge, SocketsStay, NoneJoins, MachineInv, OwnInv,
          setMachineOffline, At, sockets
  <2>3. AuthenticateInv(m)'
      BY <1>3, <1>1, <1>5, NoSocketType, TurnHasSocket
      DEF GatewayInv, GatewayTypeOK, SocketsAge, SocketsStay, NoneJoins, MachineInv,
          AuthenticateInv, MapInv, OwnInv, OneLive, Available, Live, Open, setMachineOffline,
          At, sockets
  <2>4. CloseInv(m)'
      BY <1>3, <1>1, <1>5, NoSocketType, TurnHasSocket
      DEF GatewayInv, GatewayTypeOK, SocketsAge, SocketsStay, NoneJoins, MachineInv, CloseInv,
          OwnInv, MapInv, setMachineOffline, At, sockets
  <2>5. OneLive(m)'
      BY <1>3, <1>1, <1>5, NoSocketType, TurnHasSocket
      DEF GatewayInv, GatewayTypeOK, SocketsAge, SocketsStay, NoneJoins, MachineInv, OneLive,
          MapInv, OwnInv, AuthenticateInv, Open, setMachineOffline, At, sockets
  <2>6. Available(m)'
      BY <1>3, <1>1, <1>5, NoSocketType, TurnHasSocket
      DEF GatewayInv, GatewayTypeOK, SocketsAge, SocketsStay, NoneJoins, MachineInv,
          Available, MapInv, OwnInv, AuthenticateInv, CloseInv, Live, Open, setMachineOffline,
          At, sockets
  <2> QED BY <1>5, <2>1, <2>2, <2>3, <2>4, <2>5, <2>6 DEF MachineInv
<1>7. ASSUME NEW n \in Machines, n # m PROVE MachineInv(n)'
    BY <1>3, <1>1, <1>5, <1>7, Unaffected
    DEF GatewayInv, GatewayTypeOK, RowsKept, setMachineOffline, At, sockets, SocketsAge
<1> QED BY <1>2, <1>4, <1>6, <1>7 DEF GatewayInv

LEMMA DisconnectedStep ==
    ASSUME GatewayInv, NEW m \in Machines, Disconnected(m) PROVE GatewayInv'
<1>1. /\ turn' \in [Machines -> Turns] /\ turn'[m].op = "none"
      /\ \A n \in Machines : n # m => turn'[n] = turn[n]
    BY TurnEnds DEF GatewayInv, Disconnected, At
<1>2. GatewayTypeOK'
  <2>1. authorityOnline' \in [Machines -> BOOLEAN]
      BY <1>1, TurnHasSocket DEF GatewayInv, GatewayTypeOK, Disconnected, At, sockets
  <2>2. UNCHANGED <<socket, auth, beat, connections, waiting, status, incompatible, revoked,
           revocation, restarts>>
      BY <1>1 DEF Disconnected, At, sockets, tables
  <2> QED BY <1>1, <2>1, <2>2 DEF GatewayInv, GatewayTypeOK
<1>3. SocketsAge
    BY <1>1 DEF GatewayInv, GatewayTypeOK, NewInv, SocketsAge, SocketsStay, NoneJoins,
       Disconnected, At, sockets
<1>4. NewInv'
    BY <1>3, <1>1 DEF GatewayInv, GatewayTypeOK, NewInv, SocketsAge, SocketsStay, NoneJoins
<1>5. \A n \in Machines : QueueInv(n)'
    BY <1>3, <1>1, QueueAges DEF Disconnected, At, sockets, SocketsAge
<1>6. MachineInv(m)'
  <2>1. MapInv(m)'
      BY <1>3, <1>1, <1>5, NoSocketType, TurnHasSocket
      DEF GatewayInv, GatewayTypeOK, SocketsAge, SocketsStay, NoneJoins, MachineInv, MapInv,
          OwnInv, Disconnected, At, sockets
  <2>2. OwnInv(m)'
      BY <1>3, <1>1, <1>5, NoSocketType, TurnHasSocket
      DEF GatewayInv, GatewayTypeOK, SocketsAge, SocketsStay, NoneJoins, MachineInv, OwnInv,
          Disconnected, At, sockets
  <2>3. AuthenticateInv(m)'
      BY <1>3, <1>1, <1>5, NoSocketType, TurnHasSocket
      DEF GatewayInv, GatewayTypeOK, SocketsAge, SocketsStay, NoneJoins, MachineInv,
          AuthenticateInv, MapInv, OwnInv, OneLive, Available, Live, Open, Disconnected, At,
          sockets
  <2>4. CloseInv(m)'
      BY <1>3, <1>1, <1>5, NoSocketType, TurnHasSocket
      DEF GatewayInv, GatewayTypeOK, SocketsAge, SocketsStay, NoneJoins, MachineInv, CloseInv,
          OwnInv, MapInv, Disconnected, At, sockets
  <2>5. OneLive(m)'
      BY <1>3, <1>1, <1>5, NoSocketType, TurnHasSocket
      DEF GatewayInv, GatewayTypeOK, SocketsAge, SocketsStay, NoneJoins, MachineInv, OneLive,
          MapInv, OwnInv, AuthenticateInv, Open, Disconnected, At, sockets
  <2>6. Available(m)'
      BY <1>3, <1>1, <1>5, NoSocketType, TurnHasSocket
      DEF GatewayInv, GatewayTypeOK, SocketsAge, SocketsStay, NoneJoins, MachineInv,
          Available, MapInv, OwnInv, AuthenticateInv, CloseInv, Live, Open, Disconnected, At,
          sockets
  <2> QED BY <1>5, <2>1, <2>2, <2>3, <2>4, <2>5, <2>6 DEF MachineInv
<1>7. ASSUME NEW n \in Machines, n # m PROVE MachineInv(n)'
    BY <1>3, <1>1, <1>5, <1>7, Unaffected
    DEF GatewayInv, GatewayTypeOK, RowsKept, Disconnected, At, sockets, SocketsAge
<1> QED BY <1>2, <1>4, <1>6, <1>7 DEF GatewayInv

-----------------------------------------------------------------------------
(* Revocation and restart *)

LEMMA BeginRevocationStep ==
    ASSUME GatewayInv, NEW r \in Revocations, BeginRevocation(r) PROVE GatewayInv'
<1>1. GatewayTypeOK'
  <2>1. revocation' \in [Revocations -> {"idle", "sessions", "disconnect", "machine", "done"}]
      BY TargetType DEF GatewayInv, GatewayTypeOK, BeginRevocation, sockets, tables
  <2>2. UNCHANGED <<socket, auth, beat, connections, turn, waiting, status, incompatible,
           revoked, authorityOnline, restarts>>
      BY DEF BeginRevocation, sockets, tables
  <2> QED BY <2>1, <2>2 DEF GatewayInv, GatewayTypeOK
<1>2. SocketsAge
    BY TargetType
    DEF GatewayInv, GatewayTypeOK, NewInv, SocketsAge, SocketsStay, NoneJoins,
        BeginRevocation, sockets, tables
<1>3. NewInv'
    BY <1>2 DEF GatewayInv, GatewayTypeOK, NewInv, SocketsAge, SocketsStay, NoneJoins
<1>4. \A n \in Machines : QueueInv(n)'
    BY <1>2, QueueAges DEF BeginRevocation, sockets, tables, SocketsAge
<1>5. ASSUME NEW n \in Machines PROVE MachineInv(n)'
    BY <1>2, <1>4, <1>5, Unaffected, TargetType
    DEF GatewayInv, GatewayTypeOK, RowsKept, BeginRevocation, sockets, tables, SocketsAge
<1> QED BY <1>1, <1>3, <1>5 DEF GatewayInv

LEMMA revokeSessionsStep ==
    ASSUME GatewayInv, NEW r \in Revocations, revokeSessions(r) PROVE GatewayInv'
<1>1. GatewayTypeOK'
  <2>1. revocation' \in [Revocations -> {"idle", "sessions", "disconnect", "machine", "done"}]
      BY TargetType DEF GatewayInv, GatewayTypeOK, revokeSessions, sockets, tables
  <2>2. UNCHANGED <<socket, auth, beat, connections, turn, waiting, status, incompatible,
           revoked, authorityOnline, restarts>>
      BY DEF revokeSessions, sockets, tables
  <2> QED BY <2>1, <2>2 DEF GatewayInv, GatewayTypeOK
<1>2. SocketsAge
    BY TargetType
    DEF GatewayInv, GatewayTypeOK, NewInv, SocketsAge, SocketsStay, NoneJoins, revokeSessions,
        sockets, tables
<1>3. NewInv'
    BY <1>2 DEF GatewayInv, GatewayTypeOK, NewInv, SocketsAge, SocketsStay, NoneJoins
<1>4. \A n \in Machines : QueueInv(n)'
    BY <1>2, QueueAges DEF revokeSessions, sockets, tables, SocketsAge
<1>5. ASSUME NEW n \in Machines PROVE MachineInv(n)'
    BY <1>2, <1>4, <1>5, Unaffected, TargetType
    DEF GatewayInv, GatewayTypeOK, RowsKept, revokeSessions, sockets, tables, SocketsAge
<1> QED BY <1>1, <1>3, <1>5 DEF GatewayInv

LEMMA disconnectStep ==
    ASSUME GatewayInv, NEW r \in Revocations, disconnect(r) PROVE GatewayInv'
<1> DEFINE m == Target[r]
<1>1. m \in Machines BY TargetType
<1>2. /\ revocation' \in [Revocations -> {"idle", "sessions", "disconnect", "machine", "done"}]
      /\ UNCHANGED <<auth, beat, turn, waiting, tables, restarts>>
    BY DEF GatewayInv, GatewayTypeOK, disconnect
<1>3. CASE connections[m] = NoSocket
  <2>1. UNCHANGED <<socket, connections>> BY <1>3 DEF disconnect
  <2>2. SocketsAge BY <1>2, <2>1 DEF SocketsAge, SocketsStay, NoneJoins
  <2>3. GatewayTypeOK' BY <1>2, <2>1 DEF GatewayInv, GatewayTypeOK, tables
  <2>4. NewInv' BY <1>2, <2>1 DEF GatewayInv, NewInv
  <2>5. ASSUME NEW n \in Machines PROVE MachineInv(n)'
      BY <1>2, <2>1, <2>2, <2>5, QueueAges, Unaffected DEF RowsKept, tables, SocketsAge
  <2> QED BY <2>3, <2>4, <2>5 DEF GatewayInv
<1>4. CASE connections[m] # NoSocket
  <2>1. /\ connections[m] \in Sockets
        /\ socket' = Closing(connections[m])
        /\ connections' = [connections EXCEPT ![m] = NoSocket]
      BY <1>1, <1>4 DEF GatewayInv, GatewayTypeOK, disconnect
  <2>2. socket' \in [Sockets -> SocketStates] /\ socket'[connections[m]] # "open" /\ SocketsAge
      BY <1>2, <2>1, SocketCloses DEF GatewayInv
  <2>3. GatewayTypeOK' BY <1>1, <1>2, <2>1, <2>2 DEF GatewayInv, GatewayTypeOK, tables
  <2>4. NewInv' BY <1>2, <2>2 DEF GatewayInv, NewInv, SocketsAge, SocketsStay
  <2>5. \A n \in Machines : QueueInv(n)' BY <1>2, <2>2, QueueAges DEF SocketsAge
  <2>6. MachineInv(m)'
    <3>1. connections'[m] = NoSocket BY <1>1, <2>1 DEF GatewayInv, GatewayTypeOK
    <3>2. MapInv(m)' /\ CloseInv(m)' BY <3>1 DEF MapInv, CloseInv
    <3>3. OwnInv(m)'
        BY <1>1, <1>2, <2>2, TurnHasSocket
        DEF GatewayInv, MachineInv, OwnInv, SocketsAge, SocketsStay
    <3>4. AuthenticateInv(m)'
        BY <1>1, <1>2, <3>1 DEF GatewayInv, MachineInv, AuthenticateInv, Live, tables
    <3>5. OneLive(m)'
      <4>1. OneLive(m) BY <1>1 DEF GatewayInv, MachineInv
      <4> QED BY <1>1, <1>2, <2>2, <4>1 DEF OneLive, Open, SocketsAge, NoneJoins
    <3>6. Available(m)' BY <3>1 DEF Available, Live
    <3> QED BY <1>1, <2>5, <3>2, <3>3, <3>4, <3>5, <3>6 DEF MachineInv
  <2>7. ASSUME NEW n \in Machines, n # m PROVE MachineInv(n)'
    <3>1. connections'[n] = connections[n] BY <1>1, <2>1, <2>7 DEF GatewayInv, GatewayTypeOK
    <3> QED
      BY <1>2, <2>2, <2>5, <3>1, Unaffected DEF RowsKept, tables, SocketsAge
  <2> QED BY <1>1, <2>3, <2>4, <2>6, <2>7 DEF GatewayInv
<1> QED BY <1>3, <1>4

LEMMA revokeMachineStep ==
    ASSUME GatewayInv, NEW r \in Revocations, revokeMachine(r) PROVE GatewayInv'
<1>1. CASE revoked[Target[r]]
  <2>1. GatewayTypeOK'
    <3>1. revocation' \in [Revocations -> {"idle", "sessions", "disconnect", "machine", "done"}]
        BY <1>1, TargetType DEF GatewayInv, GatewayTypeOK, revokeMachine, sockets
    <3>2. status' \in [Machines -> {"offline", "online"}]
        BY <1>1, TargetType DEF GatewayInv, GatewayTypeOK, revokeMachine, sockets
    <3>3. revoked' \in [Machines -> BOOLEAN]
        BY <1>1, TargetType DEF GatewayInv, GatewayTypeOK, revokeMachine, sockets
    <3>4. UNCHANGED <<socket, auth, beat, connections, turn, waiting, incompatible,
             authorityOnline, restarts>>
        BY <1>1 DEF revokeMachine, sockets, tables
    <3> QED BY <1>1, <3>1, <3>2, <3>3, <3>4 DEF GatewayInv, GatewayTypeOK
  <2>2. SocketsAge
      BY <1>1, TargetType
      DEF GatewayInv, GatewayTypeOK, NewInv, SocketsAge, SocketsStay, NoneJoins,
          revokeMachine, sockets
  <2>3. NewInv'
      BY <2>2, <1>1 DEF GatewayInv, GatewayTypeOK, NewInv, SocketsAge, SocketsStay, NoneJoins
  <2>4. \A n \in Machines : QueueInv(n)'
      BY <2>2, <1>1, QueueAges DEF revokeMachine, sockets, SocketsAge
  <2>5. ASSUME NEW n \in Machines PROVE MachineInv(n)'
      BY <2>2, <1>1, <2>4, <2>5, Unaffected, TargetType
      DEF GatewayInv, GatewayTypeOK, RowsKept, revokeMachine, sockets, SocketsAge
  <2> QED BY <2>1, <2>3, <2>5 DEF GatewayInv
<1>2. CASE ~revoked[Target[r]]
  <2>1. GatewayTypeOK'
    <3>1. revocation' \in [Revocations -> {"idle", "sessions", "disconnect", "machine", "done"}]
        BY <1>2, TargetType DEF GatewayInv, GatewayTypeOK, revokeMachine, sockets
    <3>2. status' \in [Machines -> {"offline", "online"}]
        BY <1>2, TargetType DEF GatewayInv, GatewayTypeOK, revokeMachine, sockets
    <3>3. revoked' \in [Machines -> BOOLEAN]
        BY <1>2, TargetType DEF GatewayInv, GatewayTypeOK, revokeMachine, sockets
    <3>4. UNCHANGED <<socket, auth, beat, connections, turn, waiting, incompatible,
             authorityOnline, restarts>>
        BY <1>2 DEF revokeMachine, sockets, tables
    <3> QED BY <1>2, <3>1, <3>2, <3>3, <3>4 DEF GatewayInv, GatewayTypeOK
  <2>2. SocketsAge
      BY <1>2, TargetType
      DEF GatewayInv, GatewayTypeOK, NewInv, SocketsAge, SocketsStay, NoneJoins,
          revokeMachine, sockets
  <2>3. NewInv'
      BY <2>2, <1>2 DEF GatewayInv, GatewayTypeOK, NewInv, SocketsAge, SocketsStay, NoneJoins
  <2>4. \A n \in Machines : QueueInv(n)'
      BY <2>2, <1>2, QueueAges DEF revokeMachine, sockets, SocketsAge
  <2>5. ASSUME NEW n \in Machines PROVE MachineInv(n)'
      BY <2>2, <1>2, <2>4, <2>5, Unaffected, TargetType
      DEF GatewayInv, GatewayTypeOK, RowsKept, revokeMachine, sockets, SocketsAge
  <2> QED BY <2>1, <2>3, <2>5 DEF GatewayInv
<1> QED BY <1>1, <1>2

LEMMA ServerRestartsStep ==
    ASSUME GatewayInv, ServerRestarts PROVE GatewayInv'
<1>1. GatewayTypeOK'
  <2>1. socket' \in [Sockets -> SocketStates] /\ auth' \in [Sockets -> AuthSteps]
      BY DEF GatewayInv, GatewayTypeOK, ServerRestarts, SocketStates, AuthSteps
  <2>2. /\ connections' \in [Machines -> Sockets \cup {NoSocket}]
        /\ turn' \in [Machines -> Turns]
        /\ waiting' \in [Machines -> Seq(Operations)]
        /\ status' \in [Machines -> {"offline", "online"}]
    <3>1. <<>> \in Seq(Operations) OBVIOUS
    <3> QED BY <3>1 DEF ServerRestarts, Turns
  <2>3. revocation' \in [Revocations -> {"idle", "sessions", "disconnect", "machine", "done"}]
      BY DEF GatewayInv, GatewayTypeOK, ServerRestarts
  <2>4. beat' \subseteq Sockets /\ restarts' \in Nat
        /\ UNCHANGED <<incompatible, revoked, authorityOnline>>
      BY DEF GatewayInv, GatewayTypeOK, ServerRestarts
  <2> QED BY <2>1, <2>2, <2>3, <2>4 DEF GatewayInv, GatewayTypeOK
<1>2. NewInv' BY DEF NewInv, ServerRestarts
<1>3. ASSUME NEW m \in Machines PROVE MachineInv(m)'
  <2>1. /\ connections'[m] = NoSocket /\ turn'[m].op = "none" /\ waiting'[m] = <<>>
        /\ auth' = [s \in Sockets |-> "challenged"]
      BY DEF ServerRestarts, Idle
  <2> QED
      BY <2>1 DEF MachineInv, MapInv, OwnInv, QueueInv, AuthenticateInv, CloseInv,
                  OneLive, Available, Live
<1> QED BY <1>1, <1>2, <1>3 DEF GatewayInv

-----------------------------------------------------------------------------
(* The invariant and the properties *)

LEMMA GatewayInvInit == ASSUME GatewayInit PROVE GatewayInv
<1>1. <<>> \in Seq(Operations) OBVIOUS
<1>2. GatewayTypeOK
    BY <1>1 DEF GatewayInit, GatewayTypeOK, SocketStates, AuthSteps, Turns
<1>3. NewInv BY DEF GatewayInit, NewInv
<1>4. ASSUME NEW m \in Machines PROVE MachineInv(m)
  <2>1. /\ connections[m] = NoSocket /\ turn[m].op = "none" /\ waiting[m] = <<>>
        /\ auth = [s \in Sockets |-> "challenged"]
      BY DEF GatewayInit, Idle
  <2> QED
      BY <2>1 DEF MachineInv, MapInv, OwnInv, QueueInv, AuthenticateInv, CloseInv,
                  OneLive, Available, Live
<1> QED BY <1>2, <1>3, <1>4 DEF GatewayInv

LEMMA GatewayInvStutter ==
    ASSUME GatewayInv, UNCHANGED gatewayVars PROVE GatewayInv'
<1>1. UNCHANGED <<socket, auth, beat, connections, turn, waiting, status, incompatible,
                  revoked, authorityOnline, revocation, restarts>>
    BY DEF gatewayVars, sockets, tables
<1> QED
    BY <1>1 DEF GatewayInv, GatewayTypeOK, NewInv, MachineInv, MapInv, OwnInv, QueueInv,
                AuthenticateInv, CloseInv, OneLive, Available, Live, Open

\* The inductive invariant.
THEOREM GatewayInvariant == GatewaySpec => []GatewayInv
<1>1. ASSUME GatewayInv, [GatewayNext]_gatewayVars PROVE GatewayInv'
  <2>1. ASSUME NEW s \in Sockets,
               Connect(s) \/ Breaks(s) \/ CloseEvent(s) \/ Authenticate(s)
               \/ RefuseIdentity(s) \/ RefuseProtocol(s) \/ Prove(s)
               \/ HeartbeatArrives(s) \/ HeartbeatPersisted(s)
        PROVE  GatewayInv'
      BY <1>1, <2>1, ConnectStep, BreaksStep, CloseEventStep, AuthenticateStep,
         RefuseIdentityStep, RefuseProtocolStep, ProveStep, HeartbeatArrivesStep,
         HeartbeatPersistedStep
  <2>2. ASSUME NEW m \in Machines, TurnStep(m) \/ AuthenticateFails(m) PROVE GatewayInv'
      BY <1>1, <2>2, NextTurnStep, AuthenticateBeginsStep, RecheckStep,
         PutMachineAuthorityStep, SupersedeStep, setMachineOnlineStep, RefuseRevokedStep,
         RegisterStep, UndoStep, ReconnectedStep, CloseBeginsStep, setMachineOfflineStep,
         DisconnectedStep, AuthenticateFailsStep
      DEF TurnStep
  <2>3. ASSUME NEW r \in Revocations,
               BeginRevocation(r) \/ revokeSessions(r) \/ disconnect(r) \/ revokeMachine(r)
        PROVE  GatewayInv'
      BY <1>1, <2>3, BeginRevocationStep, revokeSessionsStep, disconnectStep,
         revokeMachineStep
  <2>4. CASE ServerRestarts BY <1>1, <2>4, ServerRestartsStep
  <2>5. CASE UNCHANGED gatewayVars BY <1>1, <2>5, GatewayInvStutter
  <2> QED BY <1>1, <2>1, <2>2, <2>3, <2>4, <2>5 DEF GatewayNext
<1> QED BY <1>1, GatewayInvInit, PTL DEF GatewaySpec

\* Sockets, turns and rows keep their types: GatewayTypeOK of the runs.
THEOREM GatewayTypes == GatewaySpec => []GatewayTypeOK
<1>1. GatewayInv => GatewayTypeOK BY DEF GatewayInv
<1> QED BY <1>1, GatewayInvariant, PTL

\* A Machine listens on one connection: ClientGateway.connections holds the only
\* socket that is both open and authenticated.
THEOREM GatewayOneLive == GatewaySpec => []OneLiveConnection
<1>1. GatewayInv => OneLiveConnection
    BY MachineOfType DEF GatewayInv, MachineInv, OneLive, OneLiveConnection
<1> QED BY <1>1, GatewayInvariant, PTL

\* A Machine with a live connection is offered by both tables, unless it is
\* revoked or an incompatible Client was refused.
THEOREM GatewayAvailable == GatewaySpec => []ConnectedMeansAvailable
<1>1. GatewayInv => ConnectedMeansAvailable
    BY DEF GatewayInv, MachineInv, Available, ConnectedMeansAvailable
<1> QED BY <1>1, GatewayInvariant, PTL

\* A revoked Machine that is out stays out: nothing registers it again.
THEOREM GatewayRevoked == GatewaySpec => RevokedStaysOut
<1>1. ASSUME GatewayInv, [GatewayNext]_gatewayVars, NEW m \in Machines,
             revoked[m], ~Live(m), ~At(m, "authenticate", "register")
      PROVE  Out(m)'
  <2>1. connections[m] \in Sockets \cup {NoSocket} /\ MapInv(m)
      BY <1>1 DEF GatewayInv, GatewayTypeOK, MachineInv
  <2>2. connections'[m] \in {connections[m], NoSocket}
    <3>1. ASSUME NEW n \in Machines, TurnStep(n) \/ AuthenticateFails(n)
          PROVE  connections'[m] \in {connections[m], NoSocket}
      <4>1. CASE Register(n)
          BY <1>1, <4>1, revoked[m] DEF Register, GatewayInv, GatewayTypeOK
      <4>2. CASE CloseBegins(n) BY <1>1, <4>2 DEF CloseBegins, GatewayInv, GatewayTypeOK
      <4> QED
          BY <3>1, <4>1, <4>2 DEF TurnStep, NextTurn, AuthenticateBegins, Recheck,
             PutMachineAuthority, Supersede, setMachineOnline, RefuseRevoked, Undo,
             Reconnected, setMachineOffline, Disconnected, AuthenticateFails
    <3>2. ASSUME NEW r \in Revocations, disconnect(r)
          PROVE  connections'[m] \in {connections[m], NoSocket}
        BY <1>1, <3>2, TargetType DEF disconnect, GatewayInv, GatewayTypeOK
    <3> QED
        BY <1>1, <3>1, <3>2 DEF GatewayNext, Connect, Breaks, CloseEvent, Authenticate,
           RefuseIdentity, RefuseProtocol, Prove, HeartbeatArrives, HeartbeatPersisted,
           BeginRevocation, revokeSessions, revokeMachine, ServerRestarts, gatewayVars
  <2>3. ASSUME NEW s \in Sockets, socket'[s] = "open" PROVE socket[s] \in {"new", "open"}
    <3>1. ASSUME NEW t, socket' = Closing(t) PROVE socket[s] = "open"
        BY <1>1, <2>3, <3>1 DEF Open, Closing, GatewayInv, GatewayTypeOK
    <3>2. ASSUME NEW t \in Sockets,
                 Connect(t) \/ Breaks(t) \/ CloseEvent(t) \/ Authenticate(t)
                 \/ RefuseIdentity(t) \/ RefuseProtocol(t) \/ Prove(t)
                 \/ HeartbeatArrives(t) \/ HeartbeatPersisted(t)
          PROVE  socket[s] \in {"new", "open"}
        BY <1>1, <2>3, <3>1, <3>2
        DEF GatewayInv, GatewayTypeOK, Connect, Breaks, CloseEvent, Authenticate,
            RefuseIdentity, RefuseProtocol, Prove, HeartbeatArrives, HeartbeatPersisted
    <3>3. ASSUME NEW n \in Machines, TurnStep(n) \/ AuthenticateFails(n)
          PROVE  socket[s] \in {"new", "open"}
        BY <2>3, <3>1, <3>3
        DEF sockets, TurnStep, NextTurn, AuthenticateBegins, Recheck, PutMachineAuthority,
            Supersede, setMachineOnline, RefuseRevoked, Register, Undo, Reconnected,
            CloseBegins, setMachineOffline, Disconnected, AuthenticateFails
    <3>4. ASSUME NEW r \in Revocations, disconnect(r) PROVE socket[s] \in {"new", "open"}
        BY <2>3, <3>1, <3>4 DEF disconnect
    <3>5. CASE ServerRestarts BY <2>3, <3>5 DEF ServerRestarts
    <3> QED
        BY <1>1, <2>3, <3>2, <3>3, <3>4, <3>5
        DEF GatewayNext, sockets, BeginRevocation, revokeSessions, revokeMachine, gatewayVars
  <2>4. ASSUME Live(m)' PROVE FALSE
    <3>1. connections'[m] = connections[m] /\ connections[m] \in Sockets
          /\ socket'[connections[m]] = "open"
        BY <2>1, <2>2, <2>4 DEF Live, Open
    <3>2. auth[connections[m]] = "authenticated" BY <2>1, <3>1, NoSocketType DEF MapInv
    <3>3. socket[connections[m]] = "open"
        BY <1>1, <2>3, <3>1, <3>2 DEF GatewayInv, NewInv
    <3> QED BY <1>1, <3>1, <3>3, NoSocketType DEF Live, Open
  <2>5. revoked'[m]
    <3>1. ASSUME NEW n \in Machines, TurnStep(n) \/ AuthenticateFails(n) PROVE revoked'[m]
        BY <1>1, <3>1
        DEF tables, TurnStep, NextTurn, AuthenticateBegins, Recheck, PutMachineAuthority,
            Supersede, setMachineOnline, RefuseRevoked, Register, Undo, Reconnected,
            CloseBegins, setMachineOffline, Disconnected, AuthenticateFails
    <3>2. ASSUME NEW r \in Revocations, revokeMachine(r) PROVE revoked'[m]
        BY <1>1, <3>2 DEF revokeMachine, GatewayInv, GatewayTypeOK
    <3> QED
        BY <1>1, <3>1, <3>2 DEF GatewayNext, tables, Connect, Breaks, CloseEvent, Authenticate,
           RefuseIdentity, RefuseProtocol, Prove, HeartbeatArrives, HeartbeatPersisted,
           BeginRevocation, revokeSessions, disconnect, ServerRestarts, gatewayVars
  <2>6. ~At(m, "authenticate", "register")'
    <3>1. turn \in [Machines -> Turns] BY <1>1 DEF GatewayInv, GatewayTypeOK
    <3>2. ASSUME NEW n \in Machines, TurnStep(n) \/ AuthenticateFails(n)
          PROVE  ~At(m, "authenticate", "register")'
      <4>1. ASSUME NEW stage, stage # "register", Goto(n, stage)
            PROVE  ~At(m, "authenticate", "register")'
          BY <1>1, <3>1, <4>1 DEF At, Goto, Turns
      <4>2. ASSUME EndTurn(n) PROVE ~At(m, "authenticate", "register")'
          BY <1>1, <3>1, <4>2 DEF At, EndTurn, Idle, Turns
      <4>3. CASE NextTurn(n) BY <1>1, <3>1, <4>3 DEF NextTurn, At, Turns
      <4>4. CASE setMachineOnline(n)
        <5>1. CASE revoked[n] BY <4>1, <4>4, <5>1 DEF setMachineOnline
        <5>2. CASE ~revoked[n]
            BY <1>1, <3>1, <4>4, <5>2 DEF setMachineOnline, At, Goto, Turns
        <5> QED BY <5>1, <5>2
      <4>5. CASE AuthenticateBegins(n) BY <4>1, <4>2, <4>5 DEF AuthenticateBegins
      <4>6. CASE Recheck(n) BY <4>1, <4>2, <4>6 DEF Recheck
      <4>7. CASE PutMachineAuthority(n) BY <4>1, <4>2, <4>7 DEF PutMachineAuthority
      <4>8. CASE Supersede(n) BY <4>1, <4>2, <4>8 DEF Supersede
      <4>9. CASE RefuseRevoked(n) BY <4>1, <4>2, <4>9 DEF RefuseRevoked
      <4>10. CASE Register(n) BY <4>1, <4>2, <4>10 DEF Register
      <4>11. CASE Undo(n) BY <4>1, <4>2, <4>11 DEF Undo
      <4>12. CASE Reconnected(n) BY <4>1, <4>2, <4>12 DEF Reconnected
      <4>13. CASE CloseBegins(n) BY <4>1, <4>2, <4>13 DEF CloseBegins
      <4>14. CASE setMachineOffline(n) BY <4>1, <4>2, <4>14 DEF setMachineOffline
      <4>15. CASE Disconnected(n) BY <4>1, <4>2, <4>15 DEF Disconnected
      <4>16. CASE AuthenticateFails(n) BY <4>1, <4>2, <4>16 DEF AuthenticateFails
      <4> QED
          BY <3>2, <4>3, <4>4, <4>5, <4>6, <4>7, <4>8, <4>9,
             <4>10, <4>11, <4>12, <4>13, <4>14, <4>15, <4>16
          DEF TurnStep
    <3>3. CASE ServerRestarts BY <3>3 DEF ServerRestarts, At, Idle
    <3> QED
        BY <1>1, <3>2, <3>3 DEF At, GatewayNext, Connect, Breaks, CloseEvent, Authenticate,
           RefuseIdentity, RefuseProtocol, Prove, HeartbeatArrives, HeartbeatPersisted,
           BeginRevocation, revokeSessions, revokeMachine, disconnect, gatewayVars
  <2> QED BY <2>4, <2>5, <2>6 DEF Out
<1>2. GatewayInv /\ [GatewayNext]_gatewayVars =>
        [\A m \in Machines : Out(m) => Out(m)']_gatewayVars
    BY <1>1 DEF Out
<1> QED BY <1>2, GatewayInvariant, PTL DEF GatewaySpec, RevokedStaysOut
=============================================================================
