--------------------------------- MODULE Access ---------------------------------
(*****************************************************************************)
(* Who may act in a deployment: the one Organization that the first Human's  *)
(* sign-in creates in the identity database, its row in the Server's own     *)
(* database, the installations and Agents that OAuth requests register, and  *)
(* their end when an administrator deletes the Agent.                        *)
(*                                                                           *)
(* The locks are PostgreSQL's advisory locks, held to the end of the         *)
(* transaction that takes them; what a transaction has not committed nobody  *)
(* sees.  Tokens are signed by the identity provider: whoever presents one   *)
(* is the user and the client it names.                                      *)
(*****************************************************************************)
EXTENDS Naturals, FiniteSets

CONSTANTS
    Humans,       \* users of the identity provider
    Clients,      \* OAuth clients, each used by one Human
    HumanOf,
    AccessRequests,  \* requests of Agents at one time
    Agents, NoAgent,
    Nobody,
    MaxLosses     \* bound on crashes and failed statements

\* Nobody and NoAgent stand for what a row does not name.
ASSUME AccessBounds ==
    /\ HumanOf \in [Clients -> Humans]
    /\ Nobody \notin Humans \cup Clients \cup AccessRequests
    /\ NoAgent \notin Agents
    /\ MaxLosses \in Nat

VARIABLES
    signIn,        \* defaultOrganizationForUser, as each Human signs in
    identityLock,  \* the Human whose sign-in holds the lock
    organizations, \* identity organizations, named by who created them
    membership,    \* the organization each Human is a member of
    contextCall,   \* ensureControlContext, for each Human
    contextLocks,  \* external ids whose context is being ensured
    tenants,       \* odyshell.organizations
    request,       \* requests of Agents
    installLock,   \* the request whose installation is being ensured
    installation,  \* odyshell.mcp_installations, one row per client at most
    agents,        \* odyshell.agents
    losses

identityVars == <<signIn, identityLock, organizations, membership>>
tenantVars == <<contextCall, contextLocks, tenants>>
installationVars == <<request, installLock, installation, agents>>
accessVars == <<identityVars, tenantVars, installationVars, losses>>

NoInstallation == [agent |-> NoAgent, status |-> "none"]
NoRequest == [client |-> Nobody, stage |-> "none", agent |-> NoAgent, role |-> "none",
              late |-> FALSE]

AccessTypeOK ==
    /\ signIn \in [Humans -> {"out", "locking", "reading", "creating", "committing", "in"}]
    /\ identityLock \in Humans \cup {Nobody}
    /\ organizations \subseteq Humans /\ tenants \subseteq Humans
    /\ membership \in [Humans -> Humans \cup {Nobody}]
    /\ contextCall \in [Humans -> {"none", "insert"}]
    /\ contextLocks \subseteq Humans
    /\ request \in [AccessRequests ->
           [client : Clients \cup {Nobody},
            stage : {"none", "identified", "inserting", "serving", "answered"},
            agent : Agents \cup {NoAgent}, role : {"none", "standard", "operator"},
            late : BOOLEAN]]
    /\ installLock \in AccessRequests \cup {Nobody}
    /\ installation \in [Clients -> [agent : Agents \cup {NoAgent},
                                     status : {"none", "active", "revoked"}]]
    /\ agents \in [Agents -> [status : {"none", "active", "disabled"},
                              role : {"none", "standard", "operator"}]]
    /\ losses \in 0..MaxLosses

AccessInit ==
    /\ signIn = [h \in Humans |-> "out"]
    /\ identityLock = Nobody
    /\ organizations = {} /\ tenants = {}
    /\ membership = [h \in Humans |-> Nobody]
    /\ contextCall = [h \in Humans |-> "none"] /\ contextLocks = {}
    /\ request = [r \in AccessRequests |-> NoRequest]
    /\ installLock = Nobody
    /\ installation = [c \in Clients |-> NoInstallation]
    /\ agents = [a \in Agents |-> [status |-> "none", role |-> "none"]]
    /\ losses = 0

Loses == losses < MaxLosses /\ losses' = losses + 1

-----------------------------------------------------------------------------
(* Signing in: defaultOrganizationForUser *)

SignInGoes(h, stage) == signIn' = [signIn EXCEPT ![h] = stage]

\* The hook of a new user, and of every session.
BeginSignIn(h) ==
    /\ signIn[h] = "out"
    /\ SignInGoes(h, "locking")
    /\ UNCHANGED <<identityLock, organizations, membership, tenantVars, installationVars, losses>>

\* A variant with a defect: the transaction takes no lock.
LockNothing(h) ==
    /\ signIn[h] = "locking"
    /\ SignInGoes(h, "reading")
    /\ UNCHANGED <<identityLock, organizations, membership, tenantVars, installationVars, losses>>

LockIdentity(h) ==
    /\ signIn[h] = "locking" /\ identityLock = Nobody
    /\ identityLock' = h
    /\ SignInGoes(h, "reading")
    /\ UNCHANGED <<organizations, membership, tenantVars, installationVars, losses>>

\* A member signs in; anyone else is refused once there is an Organization.
ReadMembership(h) ==
    /\ signIn[h] = "reading"
    /\ IF membership[h] # Nobody THEN SignInGoes(h, "in") /\ identityLock' = Nobody
       ELSE IF organizations # {} THEN SignInGoes(h, "out") /\ identityLock' = Nobody
       ELSE SignInGoes(h, "creating") /\ UNCHANGED identityLock
    /\ UNCHANGED <<organizations, membership, tenantVars, installationVars, losses>>

\* createOrganization writes on a connection of its own: its rows stay when the
\* transaction that holds the lock is rolled back.
CreateOrganization(h) ==
    /\ signIn[h] = "creating"
    /\ organizations' = organizations \cup {h}
    /\ membership' = [membership EXCEPT ![h] = h]
    /\ SignInGoes(h, "committing")
    /\ UNCHANGED <<identityLock, tenantVars, installationVars, losses>>

CommitSignIn(h) ==
    /\ signIn[h] = "committing"
    /\ SignInGoes(h, "in") /\ identityLock' = Nobody
    /\ UNCHANGED <<organizations, membership, tenantVars, installationVars, losses>>

\* A failed statement, a user without a name, or a crash of the web server.
SignInFails(h) ==
    /\ signIn[h] \in {"reading", "creating", "committing"} /\ Loses
    /\ SignInGoes(h, "out")
    /\ identityLock' = IF identityLock = h THEN Nobody ELSE identityLock
    /\ UNCHANGED <<organizations, membership, tenantVars, installationVars>>

SignOut(h) ==
    /\ signIn[h] = "in" /\ contextCall[h] = "none"
    /\ SignInGoes(h, "out")
    /\ UNCHANGED <<identityLock, organizations, membership, tenantVars, installationVars, losses>>

-----------------------------------------------------------------------------
(* The Organization's row on the Server: ensureControlContext *)

\* The web application knows who has signed in, as a member.
currentHumanIdentity(h) == signIn[h] = "in" /\ membership[h] # Nobody

\* Every call of the web application ensures it.  The lock is the external
\* id's: it does not keep another Organization's call out.
BeginContext(h) ==
    LET id == membership[h] IN
    /\ currentHumanIdentity(h) /\ contextCall[h] = "none" /\ id \notin contextLocks
    /\ id \in tenants \/ tenants = {}
    /\ contextLocks' = contextLocks \cup {id}
    /\ contextCall' = [contextCall EXCEPT ![h] = "insert"]
    /\ UNCHANGED <<identityVars, tenants, installationVars, losses>>

EndContext(h) ==
    /\ contextCall[h] = "insert"
    /\ tenants' = tenants \cup {membership[h]}
    /\ contextLocks' = contextLocks \ {membership[h]}
    /\ contextCall' = [contextCall EXCEPT ![h] = "none"]
    /\ UNCHANGED <<identityVars, installationVars, losses>>

-----------------------------------------------------------------------------
(* Requests of Agents *)

Goes(r, stage) == request' = [request EXCEPT ![r].stage = stage]
Denied(r) == request' = [request EXCEPT ![r] = NoRequest]

\* The token names its user, client and Organization.  `late` remembers that
\* the installation was revoked by then.
AuthenticateAgent(r, c) ==
    /\ request[r].stage = "none" /\ membership[HumanOf[c]] # Nobody
    /\ request' = [request EXCEPT ![r] = [NoRequest EXCEPT
                      !.client = c, !.stage = "identified",
                      !.late = installation[c].status = "revoked"]]
    /\ UNCHANGED <<identityVars, tenantVars, installLock, installation, agents, losses>>

OrganizationUnknown(r) ==
    /\ request[r].stage = "identified" /\ membership[HumanOf[request[r].client]] \notin tenants
    /\ Denied(r)
    /\ UNCHANGED <<identityVars, tenantVars, installLock, installation, agents, losses>>

\* A variant with a defect: the installation's status and its Agent's are not
\* asked for.
anyInstallation(c) == installation[c].status # "none"
activeInstallation(c) ==
    installation[c].status = "active" /\ agents[installation[c].agent].status = "active"

\* The transaction of ensureMcpInstallation, up to its inserts.
EnsureInstallation(r) ==
    LET c == request[r].client IN
    /\ request[r].stage = "identified" /\ membership[HumanOf[c]] \in tenants
    /\ installLock = Nobody
    /\ IF activeInstallation(c)
       THEN /\ request' = [request EXCEPT ![r].stage = "serving",
                                          ![r].agent = installation[c].agent,
                                          ![r].role = agents[installation[c].agent].role]
            /\ UNCHANGED installLock
       ELSE IF installation[c].status # "none" THEN Denied(r) /\ UNCHANGED installLock
       ELSE Goes(r, "inserting") /\ installLock' = r
    /\ UNCHANGED <<identityVars, tenantVars, installation, agents, losses>>

RegisterAgent(r) ==
    LET c == request[r].client IN
    /\ request[r].stage = "inserting" /\ installation[c].status = "none"
    /\ \E a \in Agents :
          /\ agents[a].status = "none"
          /\ agents' = [agents EXCEPT ![a] = [status |-> "active", role |-> "standard"]]
          /\ installation' = [installation EXCEPT ![c] = [agent |-> a, status |-> "active"]]
          /\ request' = [request EXCEPT ![r].stage = "serving", ![r].agent = a,
                                        ![r].role = "standard"]
    /\ installLock' = Nobody
    /\ UNCHANGED <<identityVars, tenantVars, losses>>

\* A failed statement, or the Server stops.
RegistrationFails(r) ==
    /\ request[r].stage = "inserting" /\ Loses
    /\ Denied(r)
    /\ installLock' = Nobody
    /\ UNCHANGED <<identityVars, tenantVars, installation, agents>>

\* A Session or a Command is the Agent's own, or it is not found.
Serve(r, a) ==
    /\ request[r].stage = "serving" /\ agents[a].status # "none"
    /\ IF request[r].agent = a THEN Goes(r, "answered") ELSE Denied(r)
    /\ UNCHANGED <<identityVars, tenantVars, installLock, installation, agents, losses>>

Answered(r) ==
    /\ request[r].stage = "answered"
    /\ Denied(r)
    /\ UNCHANGED <<identityVars, tenantVars, installLock, installation, agents, losses>>

-----------------------------------------------------------------------------
(* Administrators *)

\* A route of the command line: a member, of an Organization the Server knows.
authorize(h) == currentHumanIdentity(h) /\ membership[h] \in tenants

ChangeRole(h, a) ==
    /\ authorize(h)
    /\ agents[a].status = "active"
    /\ \E role \in {"standard", "operator"} :
          role # agents[a].role /\ agents' = [agents EXCEPT ![a].role = role]
    /\ UNCHANGED <<identityVars, tenantVars, request, installLock, installation, losses>>

\* The transaction takes the lock of the installations.  The Sessions of the
\* Agent are revoked before it.
DeleteAgent(h, a) ==
    /\ authorize(h)
    /\ agents[a].status = "active" /\ installLock = Nobody
    /\ agents' = [agents EXCEPT ![a].status = "disabled"]
    /\ installation' = [c \in Clients |->
          IF installation[c].agent = a THEN [installation[c] EXCEPT !.status = "revoked"]
          ELSE installation[c]]
    /\ UNCHANGED <<identityVars, tenantVars, request, installLock, losses>>

\* The handler of /mcp, and of the Agents' other routes.
AccessRequestStep(r) ==
    \/ \E c \in Clients : AuthenticateAgent(r, c)
    \/ OrganizationUnknown(r) \/ EnsureInstallation(r) \/ RegisterAgent(r)
    \/ RegistrationFails(r) \/ Answered(r)
    \/ \E a \in Agents : Serve(r, a)

AccessNext ==
    \/ \E h \in Humans :
          \/ BeginSignIn(h) \/ LockIdentity(h) \/ ReadMembership(h) \/ CreateOrganization(h)
          \/ CommitSignIn(h) \/ SignInFails(h) \/ SignOut(h)
          \/ BeginContext(h) \/ EndContext(h)
          \/ \E a \in Agents : ChangeRole(h, a) \/ DeleteAgent(h, a)
    \/ \E r \in AccessRequests : AccessRequestStep(r)

AccessSpec == AccessInit /\ [][AccessNext]_accessVars

-----------------------------------------------------------------------------
(* What access promises *)

\* A deployment has one Organization, whoever signs up with whom: the Server's
\* own check locks each Organization apart and rests on the identity's lock.
OneOrganization ==
    /\ Cardinality(organizations) <= 1 /\ tenants \subseteq organizations
    /\ \A h \in Humans : membership[h] # Nobody => membership[h] \in organizations

\* Deleting an Agent is for good: its client is served by no request that comes
\* after, is given no other Agent, and every active installation has an active
\* Agent of its own; what a request is answered is its own Agent's.
RevocationHolds ==
    /\ \A r \in AccessRequests :
          request[r].stage \in {"serving", "answered"} =>
              ~request[r].late /\ request[r].agent = installation[request[r].client].agent
    /\ \A c \in Clients : installation[c].status # "none" =>
          /\ (installation[c].status = "active") = (agents[installation[c].agent].status = "active")
          /\ \A d \in Clients \ {c} : installation[c].agent # installation[d].agent
=============================================================================
