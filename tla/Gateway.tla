--------------------------------- MODULE Gateway ---------------------------------
(*****************************************************************************)
(* The Server's end of the Clients' connections (ClientGateway) and the      *)
(* revocation of a Machine that races with them (control-http).              *)
(*                                                                           *)
(* What happens to one Machine's connection is serialised by the             *)
(* MachineLifecycleQueue: `turn` is the operation that runs, `waiting` the   *)
(* ones behind it.  A turn awaits the database between its steps, and        *)
(* meanwhile sockets break, messages arrive and an administrator revokes     *)
(* the Machine without waiting for any turn.  A database statement is one    *)
(* action and what follows it in memory the next, as both can be delayed.    *)
(*                                                                           *)
(* A heartbeat's throttling and the keys themselves are left out: a Client   *)
(* that cannot prove its identity is RefuseIdentity.                         *)
(*****************************************************************************)
EXTENDS Naturals, Sequences

CONSTANTS
    Sockets,      \* WebSockets accepted at /v1/connect
    Machines,
    MachineOf,    \* [Sockets -> Machines], the identity each Client presents
    Revocations,  \* calls of the revocation route
    Target,       \* [Revocations -> Machines]
    MaxRestarts,  \* bound on the Server's restarts
    NoSocket

ASSUME MachineOfType == MachineOf \in [Sockets -> Machines]
ASSUME TargetType == Target \in [Revocations -> Machines]
ASSUME NoSocketType == NoSocket \notin Sockets
ASSUME MaxRestartsType == MaxRestarts \in Nat

VARIABLES
    socket,         \* readyState of each socket, "closed" once its close event fired
    auth,           \* progress of each socket's authenticate message
    beat,           \* sockets with a heartbeat received and not yet persisted
    connections,    \* ClientGateway.connections
    turn,           \* per Machine, the lifecycle operation under way
    waiting,        \* per Machine, the lifecycle operations queued behind it
    status,         \* machines.status
    incompatible,   \* machines.runtime was reported by a Client of another protocol
    revoked,        \* machines.revoked_at is set
    authorityOnline,\* machine_authorities.online
    revocation,     \* progress of each revocation call
    restarts

sockets == <<socket, auth, beat>>
tables == <<status, incompatible, revoked, authorityOnline>>
gatewayVars == <<sockets, connections, turn, waiting, tables, revocation, restarts>>

SocketStates == {"new", "open", "closing", "closed"}
\* "proved" sockets have a state.machineId, so their close event is handled.
AuthSteps == {"challenged", "looking", "proved", "authenticated"}
AuthStages == {"start", "recheck", "authority", "supersede", "online", "register",
               "refuse", "undo", "reconnect"}
CloseStages == {"start", "offline", "disconnected"}
Operations == {[op |-> o, socket |-> s] : o \in {"authenticate", "close"}, s \in Sockets}
Idle == [op |-> "none", socket |-> NoSocket, stage |-> "start"]
Turns == {Idle}
         \cup [op : {"authenticate"}, socket : Sockets, stage : AuthStages]
         \cup [op : {"close"}, socket : Sockets, stage : CloseStages]

Open(s) == socket[s] = "open"
\* The connection messages for m are sent on, if it can still carry them.
Live(m) == connections[m] # NoSocket /\ Open(connections[m])

\* Sockets, turns and rows are what they are said to be; a Machine's turn and
\* its connection are about its own sockets.
GatewayTypeOK ==
    /\ socket \in [Sockets -> SocketStates]
    /\ auth \in [Sockets -> AuthSteps]
    /\ beat \subseteq Sockets
    /\ connections \in [Machines -> Sockets \cup {NoSocket}]
    /\ turn \in [Machines -> Turns]
    /\ waiting \in [Machines -> Seq(Operations)]
    /\ status \in [Machines -> {"offline", "online"}]
    /\ incompatible \in [Machines -> BOOLEAN]
    /\ revoked \in [Machines -> BOOLEAN]
    /\ authorityOnline \in [Machines -> BOOLEAN]
    /\ revocation \in [Revocations -> {"idle", "sessions", "disconnect", "machine", "done"}]
    /\ restarts \in Nat

GatewayInit ==
    /\ socket = [s \in Sockets |-> "new"]
    /\ auth = [s \in Sockets |-> "challenged"]
    /\ beat = {}
    /\ connections = [m \in Machines |-> NoSocket]
    /\ turn = [m \in Machines |-> Idle]
    /\ waiting = [m \in Machines |-> <<>>]
    /\ status = [m \in Machines |-> "offline"]
    /\ incompatible = [m \in Machines |-> FALSE]
    /\ revoked = [m \in Machines |-> FALSE]
    /\ authorityOnline = [m \in Machines |-> FALSE]
    /\ revocation = [r \in Revocations |-> "idle"]
    /\ restarts = 0

-----------------------------------------------------------------------------
(* Sockets *)

\* socket.close(): not ready from here on, the close event comes later.
Closing(s) == IF socket[s] = "open" THEN [socket EXCEPT ![s] = "closing"] ELSE socket

Connect(s) ==
    /\ socket[s] = "new"
    /\ socket' = [socket EXCEPT ![s] = "open"]
    /\ UNCHANGED <<auth, beat, connections, turn, waiting, tables, revocation, restarts>>

\* The Client hangs up, the network breaks, or nobody authenticated in time.
Breaks(s) ==
    /\ Open(s)
    /\ socket' = Closing(s)
    /\ UNCHANGED <<auth, beat, connections, turn, waiting, tables, revocation, restarts>>

\* The close handler queues the clean-up if the socket got as far as a Machine.
CloseEvent(s) ==
    LET m == MachineOf[s] IN
    /\ socket[s] = "closing"
    /\ socket' = [socket EXCEPT ![s] = "closed"]
    /\ waiting' = IF auth[s] \in {"proved", "authenticated"}
                  THEN [waiting EXCEPT ![m] = Append(@, [op |-> "close", socket |-> s])]
                  ELSE waiting
    /\ UNCHANGED <<auth, beat, connections, turn, tables, revocation, restarts>>

\* The authenticate message has arrived; the Machine's key is being looked up.
Authenticate(s) ==
    /\ Open(s)
    /\ auth[s] = "challenged"
    /\ auth' = [auth EXCEPT ![s] = "looking"]
    /\ UNCHANGED <<socket, beat, connections, turn, waiting, tables, revocation, restarts>>

\* An unknown Machine or a wrong signature.
RefuseIdentity(s) ==
    /\ auth[s] = "looking"
    /\ auth' = [auth EXCEPT ![s] = "challenged"]
    /\ socket' = Closing(s)
    /\ UNCHANGED <<beat, connections, turn, waiting, tables, revocation, restarts>>

\* A variant with a defect: the status is the error's code.
RefuseProtocolAs(s) ==
    LET m == MachineOf[s] IN
    /\ auth[s] = "looking"
    /\ auth' = [auth EXCEPT ![s] = "challenged"]
    /\ socket' = Closing(s)
    /\ status' = [status EXCEPT ![m] = "client_upgrade_required"]
    /\ incompatible' = [incompatible EXCEPT ![m] = TRUE]
    /\ UNCHANGED <<beat, connections, turn, waiting, revoked, authorityOnline,
                   revocation, restarts>>

\* Another protocol version: the row says so and goes offline, outside the
\* Machine's queue and whatever connection the Machine has.
RefuseProtocol(s) ==
    LET m == MachineOf[s] IN
    /\ auth[s] = "looking"
    /\ auth' = [auth EXCEPT ![s] = "challenged"]
    /\ socket' = Closing(s)
    /\ IF revoked[m]
       THEN UNCHANGED <<status, incompatible>>
       ELSE /\ status' = [status EXCEPT ![m] = "offline"]
            /\ incompatible' = [incompatible EXCEPT ![m] = TRUE]
    /\ UNCHANGED <<beat, connections, turn, waiting, revoked, authorityOnline,
                   revocation, restarts>>

\* The identity is proved; the rest waits for its turn.
Prove(s) ==
    LET m == MachineOf[s] IN
    /\ auth[s] = "looking"
    /\ auth' = [auth EXCEPT ![s] = "proved"]
    /\ waiting' = [waiting EXCEPT ![m] = Append(@, [op |-> "authenticate", socket |-> s])]
    /\ UNCHANGED <<socket, beat, connections, turn, tables, revocation, restarts>>

\* A heartbeat received on an authenticated socket, and its statement, which
\* may come after the socket has closed.
HeartbeatArrives(s) ==
    /\ Open(s) /\ auth[s] = "authenticated" /\ s \notin beat
    /\ beat' = beat \cup {s}
    /\ UNCHANGED <<socket, auth, connections, turn, waiting, tables, revocation, restarts>>

HeartbeatPersisted(s) ==
    LET m == MachineOf[s] IN
    /\ s \in beat
    /\ beat' = beat \ {s}
    /\ status' = IF revoked[m] THEN status ELSE [status EXCEPT ![m] = "online"]
    /\ UNCHANGED <<socket, auth, connections, turn, waiting, incompatible, revoked,
                   authorityOnline, revocation, restarts>>

-----------------------------------------------------------------------------
(* The turn of a Machine *)

NextTurn(m) ==
    /\ turn[m] = Idle /\ waiting[m] # <<>>
    /\ turn' = [turn EXCEPT ![m] = [op |-> Head(waiting[m]).op,
                                    socket |-> Head(waiting[m]).socket, stage |-> "start"]]
    /\ waiting' = [waiting EXCEPT ![m] = Tail(@)]
    /\ UNCHANGED <<sockets, connections, tables, revocation, restarts>>

At(m, op, stage) == turn[m].op = op /\ turn[m].stage = stage
Goto(m, stage) == turn' = [turn EXCEPT ![m].stage = stage]
EndTurn(m) == turn' = [turn EXCEPT ![m] = Idle]

\* A socket that broke while it waited is not authenticated.
AuthenticateBegins(m) ==
    /\ At(m, "authenticate", "start")
    /\ IF Open(turn[m].socket) THEN Goto(m, "recheck") ELSE EndTurn(m)
    /\ UNCHANGED <<sockets, connections, waiting, tables, revocation, restarts>>

\* The Machine's row is read again: a revoked one is turned away.
Recheck(m) ==
    /\ At(m, "authenticate", "recheck")
    /\ IF revoked[m]
       THEN socket' = Closing(turn[m].socket) /\ EndTurn(m)
       ELSE Goto(m, "authority") /\ UNCHANGED socket
    /\ UNCHANGED <<auth, beat, connections, waiting, tables, revocation, restarts>>

\* sessionHooks.authenticated stores the reported authority, online.
PutMachineAuthority(m) ==
    /\ At(m, "authenticate", "authority")
    /\ authorityOnline' = [authorityOnline EXCEPT ![m] = TRUE]
    /\ Goto(m, "supersede")
    /\ UNCHANGED <<sockets, connections, waiting, status, incompatible, revoked,
                   revocation, restarts>>

\* A variant with a defect: nothing closes the connection there was.
SupersedeNothing(m) ==
    /\ At(m, "authenticate", "supersede")
    /\ Goto(m, "online")
    /\ UNCHANGED <<sockets, connections, waiting, tables, revocation, restarts>>

\* The connection there was is closed; it stays in the map for the moment.
Supersede(m) ==
    /\ At(m, "authenticate", "supersede")
    /\ socket' = IF connections[m] \notin {NoSocket, turn[m].socket}
                 THEN Closing(connections[m]) ELSE socket
    /\ Goto(m, "online")
    /\ UNCHANGED <<auth, beat, connections, waiting, tables, revocation, restarts>>

\* A variant with a defect: the update does not look at revoked_at.
setAnyMachineOnline(m) ==
    /\ At(m, "authenticate", "online")
    /\ Goto(m, "register")
    /\ status' = [status EXCEPT ![m] = "online"]
    /\ incompatible' = [incompatible EXCEPT ![m] = FALSE]
    /\ UNCHANGED <<sockets, connections, waiting, revoked, authorityOnline, revocation,
                   restarts>>

setMachineOnline(m) ==
    /\ At(m, "authenticate", "online")
    /\ IF revoked[m]
       THEN Goto(m, "refuse") /\ UNCHANGED <<status, incompatible>>
       ELSE /\ Goto(m, "register")
            /\ status' = [status EXCEPT ![m] = "online"]
            /\ incompatible' = [incompatible EXCEPT ![m] = FALSE]
    /\ UNCHANGED <<sockets, connections, waiting, revoked, authorityOnline, revocation,
                   restarts>>

RefuseRevoked(m) ==
    /\ At(m, "authenticate", "refuse")
    /\ socket' = Closing(turn[m].socket)
    /\ EndTurn(m)
    /\ UNCHANGED <<auth, beat, connections, waiting, tables, revocation, restarts>>

\* From here on messages for the Machine go to this socket.
Register(m) ==
    LET s == turn[m].socket IN
    /\ At(m, "authenticate", "register")
    /\ IF Open(s)
       THEN /\ connections' = [connections EXCEPT ![m] = s]
            /\ auth' = [auth EXCEPT ![s] = "authenticated"]
            /\ Goto(m, "reconnect")
       ELSE Goto(m, "undo") /\ UNCHANGED <<connections, auth>>
    /\ UNCHANGED <<socket, beat, waiting, tables, revocation, restarts>>

\* The socket broke while the row was written: back to offline.
Undo(m) ==
    /\ At(m, "authenticate", "undo")
    /\ status' = [status EXCEPT ![m] = "offline"]
    /\ EndTurn(m)
    /\ UNCHANGED <<sockets, connections, waiting, incompatible, revoked, authorityOnline,
                   revocation, restarts>>

\* The reconnect state has been read and sent (SessionControl).
Reconnected(m) ==
    /\ At(m, "authenticate", "reconnect")
    /\ EndTurn(m)
    /\ UNCHANGED <<sockets, connections, waiting, tables, revocation, restarts>>

\* A statement of the turn is rejected: the message handler closes the socket.
AuthenticateFails(m) ==
    /\ turn[m].op = "authenticate"
    /\ turn[m].stage \in {"recheck", "authority", "online", "undo", "reconnect"}
    /\ socket' = Closing(turn[m].socket)
    /\ EndTurn(m)
    /\ UNCHANGED <<auth, beat, connections, waiting, tables, revocation, restarts>>

\* A variant with a defect: every closed socket takes its Machine down.
CloseBeginsAnyway(m) ==
    /\ At(m, "close", "start")
    /\ Goto(m, "offline")
    /\ connections' = IF connections[m] = turn[m].socket
                      THEN [connections EXCEPT ![m] = NoSocket] ELSE connections
    /\ UNCHANGED <<sockets, waiting, tables, revocation, restarts>>

\* A variant with a defect: the socket stays in the map.
CloseBeginsKeeping(m) ==
    /\ At(m, "close", "start")
    /\ IF connections[m] = turn[m].socket THEN Goto(m, "offline") ELSE EndTurn(m)
    /\ UNCHANGED <<sockets, connections, waiting, tables, revocation, restarts>>

\* The close handler's turn: only the socket in the map takes the Machine down.
CloseBegins(m) ==
    /\ At(m, "close", "start")
    /\ IF connections[m] = turn[m].socket
       THEN connections' = [connections EXCEPT ![m] = NoSocket] /\ Goto(m, "offline")
       ELSE EndTurn(m) /\ UNCHANGED connections
    /\ UNCHANGED <<sockets, waiting, tables, revocation, restarts>>

setMachineOffline(m) ==
    /\ At(m, "close", "offline")
    /\ status' = [status EXCEPT ![m] = "offline"]
    /\ Goto(m, "disconnected")
    /\ UNCHANGED <<sockets, connections, waiting, incompatible, revoked, authorityOnline,
                   revocation, restarts>>

Disconnected(m) ==
    /\ At(m, "close", "disconnected")
    /\ authorityOnline' = [authorityOnline EXCEPT ![m] = FALSE]
    /\ EndTurn(m)
    /\ UNCHANGED <<sockets, connections, waiting, status, incompatible, revoked,
                   revocation, restarts>>

TurnStep(m) ==
    \/ NextTurn(m) \/ AuthenticateBegins(m) \/ Recheck(m) \/ PutMachineAuthority(m)
    \/ Supersede(m) \/ setMachineOnline(m) \/ RefuseRevoked(m) \/ Register(m) \/ Undo(m)
    \/ Reconnected(m) \/ CloseBegins(m) \/ setMachineOffline(m) \/ Disconnected(m)

-----------------------------------------------------------------------------
(* Revocation and restart *)

\* An administrator revokes a Machine that is still listed: its Sessions, ...
BeginRevocation(r) ==
    /\ revocation[r] = "idle" /\ ~revoked[Target[r]]
    /\ revocation' = [revocation EXCEPT ![r] = "sessions"]
    /\ UNCHANGED <<sockets, connections, turn, waiting, tables, restarts>>

revokeSessions(r) ==
    /\ revocation[r] = "sessions"
    /\ revocation' = [revocation EXCEPT ![r] = "disconnect"]
    /\ UNCHANGED <<sockets, connections, turn, waiting, tables, restarts>>

\* ... its connection, taken out of the map at once, ...
disconnect(r) ==
    LET m == Target[r] IN
    /\ revocation[r] = "disconnect"
    /\ revocation' = [revocation EXCEPT ![r] = "machine"]
    /\ IF connections[m] = NoSocket
       THEN UNCHANGED <<socket, connections>>
       ELSE /\ socket' = Closing(connections[m])
            /\ connections' = [connections EXCEPT ![m] = NoSocket]
    /\ UNCHANGED <<auth, beat, turn, waiting, tables, restarts>>

\* ... and last its row.
revokeMachine(r) ==
    LET m == Target[r] IN
    /\ revocation[r] = "machine"
    /\ revocation' = [revocation EXCEPT ![r] = "done"]
    /\ IF revoked[m]
       THEN UNCHANGED <<status, revoked>>
       ELSE /\ status' = [status EXCEPT ![m] = "offline"]
            /\ revoked' = [revoked EXCEPT ![m] = TRUE]
    /\ UNCHANGED <<sockets, connections, turn, waiting, incompatible, authorityOnline,
                   restarts>>

\* The Server stops, or an operation of the close handler is rejected, which
\* nobody catches.  initialize marks the machines rows offline as it starts.
ServerRestarts ==
    /\ restarts < MaxRestarts
    /\ restarts' = restarts + 1
    /\ socket' = [s \in Sockets |-> IF socket[s] = "new" THEN "new" ELSE "closed"]
    /\ auth' = [s \in Sockets |-> "challenged"]
    /\ beat' = {}
    /\ connections' = [m \in Machines |-> NoSocket]
    /\ turn' = [m \in Machines |-> Idle]
    /\ waiting' = [m \in Machines |-> <<>>]
    /\ status' = [m \in Machines |-> "offline"]
    /\ revocation' = [r \in Revocations |->
                        IF revocation[r] = "idle" THEN "idle" ELSE "done"]
    /\ UNCHANGED <<incompatible, revoked, authorityOnline>>

GatewayNext ==
    \/ \E s \in Sockets :
          \/ Connect(s) \/ Breaks(s) \/ CloseEvent(s) \/ Authenticate(s)
          \/ RefuseIdentity(s) \/ RefuseProtocol(s) \/ Prove(s)
          \/ HeartbeatArrives(s) \/ HeartbeatPersisted(s)
    \/ \E m \in Machines : TurnStep(m) \/ AuthenticateFails(m)
    \/ \E r \in Revocations :
          BeginRevocation(r) \/ revokeSessions(r) \/ disconnect(r) \/ revokeMachine(r)
    \/ ServerRestarts

GatewaySpec == GatewayInit /\ [][GatewayNext]_gatewayVars

\* Close events fire, and a turn goes on while the database answers.
GatewayFairness ==
    /\ \A s \in Sockets : WF_gatewayVars(CloseEvent(s))
    /\ \A m \in Machines : WF_gatewayVars(TurnStep(m))

-----------------------------------------------------------------------------
(* What the gateway promises *)

\* A Machine listens on one connection: an authenticated socket that is still
\* open is the one in the map, however reconnects, breaks and revocations
\* overlap.  (authenticate supersedes, disconnect closes what it removes)
OneLiveConnection ==
    \A s \in Sockets :
        Open(s) /\ auth[s] = "authenticated" => connections[MachineOf[s]] = s

\* While a Machine's connection is live both tables offer the Machine: no late
\* clean-up of an earlier connection takes it down, and only the refusal of an
\* incompatible Client shows it offline.  (the close handler's check of the map,
\* inside the queue)
ConnectedMeansAvailable ==
    \A m \in Machines :
        Live(m) /\ ~revoked[m] =>
            authorityOnline[m] /\ (status[m] = "online" \/ incompatible[m])

\* A revoked Machine without a connection, and without an authentication that
\* read its row before, never gets a connection again: not even an
\* authentication that then waits for the database comes through.
\* (setMachineOnline, disconnect)
Out(m) == revoked[m] /\ ~Live(m) /\ ~At(m, "authenticate", "register")
RevokedStaysOut == [][\A m \in Machines : Out(m) => Out(m)']_gatewayVars

\* A connection that broke leaves the map, so that send reports it.
CloseIsNoticed ==
    \A s \in Sockets :
        connections[MachineOf[s]] = s /\ ~Open(s) ~> connections[MachineOf[s]] # s

\* "Machine revocation ... revoke active authority and terminate active process
\* trees" (docs/design/session-control-plane.md:39): once the call has answered,
\* the Machine is not listened to any more.
RevokedMeansDisconnected ==
    \A r \in Revocations : revocation[r] = "done" /\ revoked[Target[r]] => ~Live(Target[r])
=============================================================================
