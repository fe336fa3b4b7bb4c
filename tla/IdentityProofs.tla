---------------------------- MODULE IdentityProofs ----------------------------
(*****************************************************************************)
(* Who may act, and with what: one Organization in a deployment, an Agent's  *)
(* deletion that holds, tokens of the command line that stay with their      *)
(* Server, and enrollments of one Machine each, for any number of Humans,    *)
(* OAuth clients, requests, Agents, invocations, grants, Profiles, Machines  *)
(* and enrollment tokens.                                                    *)
(*****************************************************************************)
EXTENDS Access, CliAuth, LocalClient, FiniteSetTheorems, SequenceTheorems, TLAPS

-----------------------------------------------------------------------------
(* One Organization *)

SignInStages == {"out", "locking", "reading", "creating", "committing", "in"}
Locked == {"reading", "creating", "committing"}

\* A sign-in reads and creates under the lock, what it read still holds when it
\* creates, and the Server ensures the row of an Organization there is.
OrganizationInv ==
    /\ identityLock \in Humans \cup {Nobody}
    /\ organizations \subseteq Humans /\ contextLocks \subseteq Humans
    /\ signIn \in [Humans -> SignInStages]
    /\ membership \in [Humans -> Humans \cup {Nobody}]
    /\ \A h \in Humans : signIn[h] \in Locked => identityLock = h
    /\ \A h \in Humans : signIn[h] = "creating" => organizations = {}
    /\ \A h \in Humans : contextCall[h] = "insert" => membership[h] # Nobody
    /\ contextCall \in [Humans -> {"none", "insert"}]
    /\ \A g, h \in organizations : g = h
    /\ tenants \subseteq organizations
    /\ \A h \in Humans : membership[h] # Nobody => membership[h] \in organizations

\* At first there is none.
LEMMA OrganizationInit == AccessInit => OrganizationInv
BY DEF AccessInit, OrganizationInv, SignInStages, Locked

\* A sign-in keeps the invariant: another one is between its lock and its
\* commit at no time.
LEMMA SignInKeeps ==
    ASSUME OrganizationInv, NEW h \in Humans,
           \/ BeginSignIn(h) \/ LockIdentity(h) \/ ReadMembership(h) \/ CreateOrganization(h)
           \/ CommitSignIn(h) \/ SignInFails(h) \/ SignOut(h)
    PROVE  OrganizationInv'
<1> USE DEF OrganizationInv, SignInGoes, SignInStages, Locked, tenantVars
<1>1. CASE BeginSignIn(h) BY <1>1 DEF BeginSignIn
<1>2. CASE LockIdentity(h)
  BY <1>2, AccessBounds DEF LockIdentity
<1>3. CASE ReadMembership(h)
  BY <1>3 DEF ReadMembership
<1>4. CASE CreateOrganization(h)
  <2>1. \A g \in Humans \ {h} : signIn[g] \notin Locked BY <1>4 DEF CreateOrganization
  <2>2. organizations' = {h} BY <1>4 DEF CreateOrganization
  <2>3. membership' \in [Humans -> Humans \cup {Nobody}] BY <1>4 DEF CreateOrganization
  <2>4. tenants' = {} BY <1>4 DEF CreateOrganization
  <2> QED BY <1>4, <2>1, <2>2, <2>3, <2>4, AccessBounds DEF CreateOrganization
<1>5. CASE CommitSignIn(h) BY <1>5 DEF CommitSignIn
<1>6. CASE SignInFails(h) BY <1>6 DEF SignInFails
<1>7. CASE SignOut(h) BY <1>7 DEF SignOut
<1> QED BY <1>1, <1>2, <1>3, <1>4, <1>5, <1>6, <1>7

\* Nothing else writes identities, and a context is that of a member.
LEMMA OrganizationStep == OrganizationInv /\ [AccessNext]_accessVars => OrganizationInv'
<1> SUFFICES ASSUME OrganizationInv, [AccessNext]_accessVars PROVE OrganizationInv' OBVIOUS
<1>1. CASE UNCHANGED <<identityVars, tenantVars>>
  BY <1>1 DEF OrganizationInv, identityVars, tenantVars
<1>2. ASSUME NEW h \in Humans, BeginContext(h) PROVE OrganizationInv'
  BY <1>2 DEF BeginContext, OrganizationInv, identityVars, currentHumanIdentity
<1>3. ASSUME NEW h \in Humans, EndContext(h) PROVE OrganizationInv'
  BY <1>3 DEF EndContext, OrganizationInv, identityVars
<1>4. ASSUME NEW h \in Humans, NEW a \in Agents, ChangeRole(h, a) \/ DeleteAgent(h, a)
      PROVE  UNCHANGED <<identityVars, tenantVars>>
  BY <1>4 DEF ChangeRole, DeleteAgent
<1>5. ASSUME NEW r \in AccessRequests, AccessRequestStep(r)
      PROVE  UNCHANGED <<identityVars, tenantVars>>
  BY <1>5 DEF AccessRequestStep, AuthenticateAgent, OrganizationUnknown, EnsureInstallation,
              RegisterAgent, RegistrationFails, Answered, Serve
<1> QED
  BY <1>1, <1>2, <1>3, <1>4, <1>5, SignInKeeps DEF AccessNext, accessVars

\* OneOrganization: whoever signs in with whom at the same time, and whichever
\* of their transactions fail, one Organization comes of it, and the Server
\* knows no other.
THEOREM AccessOneOrganization == AccessSpec => []OneOrganization
<1>1. OrganizationInv => OneOrganization
  <2> SUFFICES ASSUME OrganizationInv PROVE OneOrganization OBVIOUS
  <2>1. Cardinality(organizations) <= 1
    <3>1. CASE organizations = {} BY <3>1, FS_EmptySet
    <3>2. CASE organizations # {}
      <4>1. PICK h \in organizations : TRUE BY <3>2
      <4>2. organizations = {h} BY <4>1 DEF OrganizationInv
      <4>3. Cardinality({h}) = 1 BY FS_Singleton
      <4> QED BY <4>2, <4>3
    <3> QED BY <3>1, <3>2
  <2> QED BY <2>1 DEF OrganizationInv, OneOrganization
<1> QED BY <1>1, OrganizationInit, OrganizationStep, PTL DEF AccessSpec

-----------------------------------------------------------------------------
(* The types of the rows *)

RequestRows ==
    [client : Clients \cup {Nobody},
     stage : {"none", "identified", "inserting", "serving", "answered"},
     agent : Agents \cup {NoAgent}, role : {"none", "standard", "operator"}, late : BOOLEAN]
InstallationRows == [agent : Agents \cup {NoAgent}, status : {"none", "active", "revoked"}]
AgentRows == [status : {"none", "active", "disabled"}, role : {"none", "standard", "operator"}]

\* A request under way names its client, and an installation its Agent.
RowsType ==
    /\ request \in [AccessRequests -> RequestRows]
    /\ installation \in [Clients -> InstallationRows]
    /\ agents \in [Agents -> AgentRows]
    /\ installLock \in AccessRequests \cup {Nobody}
    /\ \A r \in AccessRequests : request[r].stage # "none" => request[r].client \in Clients
    /\ \A c \in Clients : installation[c].status # "none" <=> installation[c].agent \in Agents

\* The Agents' own request, or an administrator's, keeps rows in shape.
LEMMA RowsStep == RowsType /\ [AccessNext]_accessVars => RowsType'
<1> SUFFICES ASSUME RowsType, [AccessNext]_accessVars PROVE RowsType' OBVIOUS
<1>1. CASE UNCHANGED installationVars
  BY <1>1 DEF RowsType, installationVars
<1>2. ASSUME NEW r \in AccessRequests, NEW row \in RequestRows,
             row.stage # "none" => row.client \in Clients,
             request' = [request EXCEPT ![r] = row]
      PROVE  /\ request' \in [AccessRequests -> RequestRows]
             /\ \A q \in AccessRequests : request'[q].stage # "none" => request'[q].client \in Clients
  BY <1>2 DEF RowsType
<1>3. NoRequest \in RequestRows /\ NoRequest.stage = "none" BY DEF NoRequest, RequestRows
<1>4. ASSUME NEW r \in AccessRequests, NEW c \in Clients, AuthenticateAgent(r, c)
      PROVE  RowsType'
  <2> DEFINE row == [NoRequest EXCEPT !.client = c, !.stage = "identified",
                                      !.late = installation[c].status = "revoked"]
  <2>1. row \in RequestRows /\ row.client = c BY DEF NoRequest, RequestRows
  <2>2. request' = [request EXCEPT ![r] = row] BY <1>4 DEF AuthenticateAgent
  <2> HIDE DEF row
  <2> QED BY <1>2, <1>4, <2>1, <2>2 DEF AuthenticateAgent, RowsType
<1>5. ASSUME NEW r \in AccessRequests, Denied(r), UNCHANGED <<installation, agents>>,
             installLock' \in {installLock, Nobody}
      PROVE  RowsType'
  BY <1>2, <1>3, <1>5 DEF Denied, RowsType
<1>6. ASSUME NEW r \in AccessRequests, NEW stage \in {"inserting", "serving", "answered"},
             NEW agent \in Agents \cup {NoAgent}, NEW role \in {"none", "standard", "operator"},
             request[r].stage # "none",
             request' = [request EXCEPT ![r].stage = stage, ![r].agent = agent, ![r].role = role]
      PROVE  /\ request' \in [AccessRequests -> RequestRows]
             /\ \A q \in AccessRequests : request'[q].stage # "none" => request'[q].client \in Clients
  <2> DEFINE row == [request[r] EXCEPT !.stage = stage, !.agent = agent, !.role = role]
  <2>1. request[r] \in RequestRows /\ request[r].client \in Clients BY <1>6 DEF RowsType
  <2>2. row \in RequestRows /\ row.client \in Clients BY <2>1 DEF RequestRows
  <2>3. request' = [request EXCEPT ![r] = row] BY <1>6 DEF RowsType
  <2> HIDE DEF row
  <2> QED BY <1>2, <2>2, <2>3
<1>7. ASSUME NEW r \in AccessRequests, NEW stage \in {"inserting", "serving", "answered"},
             request[r].stage # "none", Goes(r, stage)
      PROVE  /\ request' \in [AccessRequests -> RequestRows]
             /\ \A q \in AccessRequests : request'[q].stage # "none" => request'[q].client \in Clients
  <2> DEFINE row == [request[r] EXCEPT !.stage = stage]
  <2>1. request[r] \in RequestRows /\ request[r].client \in Clients BY <1>7 DEF RowsType
  <2>2. row \in RequestRows /\ row.client \in Clients BY <2>1 DEF RequestRows
  <2>3. request' = [request EXCEPT ![r] = row] BY <1>7 DEF Goes
  <2> HIDE DEF row
  <2> QED BY <1>2, <2>2, <2>3
<1>8. ASSUME NEW r \in AccessRequests, EnsureInstallation(r) PROVE RowsType'
  <2> DEFINE c == request[r].client
  <2>1. c \in Clients BY <1>8 DEF EnsureInstallation, RowsType
  <2>2. CASE activeInstallation(c)
    <3> DEFINE a == installation[c].agent
               role == agents[a].role
    <3>1. a \in Agents /\ role \in {"none", "standard", "operator"}
      BY <2>1, <2>2 DEF activeInstallation, RowsType, AgentRows
    <3>2. /\ request' = [request EXCEPT ![r].stage = "serving", ![r].agent = a, ![r].role = role]
          /\ UNCHANGED <<installation, agents, installLock>> /\ request[r].stage # "none"
      BY <1>8, <2>2 DEF EnsureInstallation
    <3> HIDE DEF a, role
    <3> QED BY <1>6, <3>1, <3>2 DEF RowsType
  <2>3. CASE ~activeInstallation(c) /\ installation[c].status # "none"
    BY <1>5, <1>8, <2>3 DEF EnsureInstallation
  <2>4. CASE ~activeInstallation(c) /\ installation[c].status = "none"
    BY <1>7, <1>8, <2>4 DEF EnsureInstallation, RowsType
  <2> QED BY <2>2, <2>3, <2>4
<1>9. ASSUME NEW r \in AccessRequests, RegisterAgent(r) PROVE RowsType'
  <2> DEFINE c == request[r].client
  <2>1. c \in Clients BY <1>9 DEF RegisterAgent, RowsType
  <2>2. PICK a \in Agents :
           /\ agents' = [agents EXCEPT ![a] = [status |-> "active", role |-> "standard"]]
           /\ installation' = [installation EXCEPT ![c] = [agent |-> a, status |-> "active"]]
           /\ request' = [request EXCEPT ![r].stage = "serving", ![r].agent = a,
                                         ![r].role = "standard"]
    BY <1>9 DEF RegisterAgent
  <2>3. agents' \in [Agents -> AgentRows] BY <2>2 DEF RowsType, AgentRows
  <2>4. /\ installation' \in [Clients -> InstallationRows]
        /\ \A d \in Clients : installation'[d].status # "none" <=> installation'[d].agent \in Agents
    BY <2>1, <2>2 DEF RowsType, InstallationRows
  <2> QED BY <1>6, <1>9, <2>2, <2>3, <2>4 DEF RegisterAgent, RowsType
<1>10. ASSUME NEW r \in AccessRequests,
              OrganizationUnknown(r) \/ RegistrationFails(r) \/ Answered(r)
       PROVE  RowsType'
  BY <1>5, <1>10 DEF OrganizationUnknown, RegistrationFails, Answered
<1>11. ASSUME NEW r \in AccessRequests, NEW a \in Agents, Serve(r, a) PROVE RowsType'
  <2>1. CASE request[r].agent = a BY <1>7, <1>11, <2>1 DEF Serve, RowsType
  <2>2. CASE request[r].agent # a BY <1>5, <1>11, <2>2 DEF Serve
  <2> QED BY <2>1, <2>2
<1>12. ASSUME NEW h \in Humans, NEW a \in Agents, ChangeRole(h, a) PROVE RowsType'
  BY <1>12 DEF ChangeRole, RowsType, AgentRows
<1>13. ASSUME NEW h \in Humans, NEW a \in Agents, DeleteAgent(h, a) PROVE RowsType'
  <2>1. /\ agents' = [agents EXCEPT ![a].status = "disabled"]
        /\ installation' = [c \in Clients |->
              IF installation[c].agent = a THEN [installation[c] EXCEPT !.status = "revoked"]
              ELSE installation[c]]
        /\ UNCHANGED <<request, installLock>>
    BY <1>13 DEF DeleteAgent
  <2>2. agents' \in [Agents -> AgentRows] BY <2>1 DEF RowsType, AgentRows
  <2>3. ASSUME NEW c \in Clients
        PROVE  /\ installation'[c] \in InstallationRows
               /\ installation'[c].status # "none" <=> installation'[c].agent \in Agents
    <3> DEFINE old == installation[c]
    <3>1. old \in InstallationRows /\ (old.status # "none" <=> old.agent \in Agents)
      BY DEF RowsType
    <3>2. installation'[c] = IF old.agent = a THEN [old EXCEPT !.status = "revoked"] ELSE old
      BY <2>1
    <3> HIDE DEF old
    <3>3. /\ [old EXCEPT !.status = "revoked"] \in InstallationRows
          /\ [old EXCEPT !.status = "revoked"].agent = old.agent
          /\ [old EXCEPT !.status = "revoked"].status = "revoked"
      BY <3>1 DEF InstallationRows
    <3> QED BY <3>1, <3>2, <3>3
  <2>4. installation' \in [Clients -> InstallationRows] BY <2>1, <2>3
  <2> QED BY <2>1, <2>2, <2>3, <2>4 DEF RowsType
<1>14. ASSUME NEW h \in Humans,
              \/ BeginSignIn(h) \/ LockIdentity(h) \/ ReadMembership(h) \/ CreateOrganization(h)
              \/ CommitSignIn(h) \/ SignInFails(h) \/ SignOut(h) \/ BeginContext(h) \/ EndContext(h)
       PROVE  UNCHANGED installationVars
  BY <1>14 DEF BeginSignIn, LockIdentity, ReadMembership, CreateOrganization, CommitSignIn,
               SignInFails, SignOut, BeginContext, EndContext
<1> QED
  BY <1>1, <1>4, <1>8, <1>9, <1>10, <1>11, <1>12, <1>13, <1>14
     DEF AccessNext, AccessRequestStep, accessVars

-----------------------------------------------------------------------------
(* Deleting an Agent *)

\* A request that came after the revocation finds it, and one that is served
\* has the Agent of its client's installation.
RequestInv(r) ==
    /\ request[r].late => /\ request[r].client \in Clients
                          /\ installation[request[r].client].status = "revoked"
    /\ request[r].stage \in {"serving", "answered"} =>
          /\ installation[request[r].client].status # "none"
          /\ ~request[r].late
          /\ request[r].agent = installation[request[r].client].agent

\* An installation is active as long as its Agent, which is no other's.
InstallationInv(c) ==
    installation[c].status # "none" =>
        /\ agents[installation[c].agent].status # "none"
        /\ (installation[c].status = "active") = (agents[installation[c].agent].status = "active")
        /\ \A d \in Clients \ {c} : installation[c].agent # installation[d].agent

RevocationInv ==
    /\ RowsType
    /\ \A r \in AccessRequests : RequestInv(r)
    /\ \A c \in Clients : InstallationInv(c)

\* No request, no installation.
LEMMA RevocationInit == AccessInit => RevocationInv
<1> SUFFICES ASSUME AccessInit PROVE RevocationInv OBVIOUS
<1>1. NoRequest \in RequestRows /\ NoInstallation \in InstallationRows
  BY DEF NoRequest, RequestRows, NoInstallation, InstallationRows
<1>2. RowsType
  BY <1>1, AccessBounds DEF AccessInit, RowsType, AgentRows, NoRequest, NoInstallation
<1>3. \A r \in AccessRequests : RequestInv(r) BY DEF AccessInit, RequestInv, NoRequest
<1>4. \A c \in Clients : InstallationInv(c) BY DEF AccessInit, InstallationInv, NoInstallation
<1> QED BY <1>2, <1>3, <1>4 DEF RevocationInv

\* A request that moves on while the installations rest.
LEMMA RequestMoves ==
    ASSUME RevocationInv, RowsType', NEW r \in AccessRequests, NEW row,
           request' = [request EXCEPT ![r] = row], UNCHANGED <<installation, agents>>,
           RequestInv(r)'
    PROVE  RevocationInv'
<1>1. \A q \in AccessRequests \ {r} : request'[q] = request[q]
  BY DEF RevocationInv, RowsType
<1>2. \A q \in AccessRequests : RequestInv(q)' BY <1>1 DEF RevocationInv, RequestInv
<1>3. \A c \in Clients : InstallationInv(c)' BY DEF RevocationInv, InstallationInv
<1> QED BY <1>2, <1>3 DEF RevocationInv

\* A denied request is none, and is nothing to the invariant.
LEMMA DenialKeeps ==
    ASSUME RevocationInv, RowsType', NEW r \in AccessRequests, Denied(r),
           UNCHANGED <<installation, agents>>
    PROVE  RevocationInv'
<1>1. request' = [request EXCEPT ![r] = NoRequest] BY DEF Denied
<1>2. request'[r] = NoRequest BY <1>1 DEF RevocationInv, RowsType
<1>3. RequestInv(r)' BY <1>2 DEF RequestInv, NoRequest
<1> QED BY <1>1, <1>3, RequestMoves

\* The handler of an Agent's request.
LEMMA RequestKeeps ==
    ASSUME RevocationInv, RowsType', NEW r \in AccessRequests, AccessRequestStep(r)
    PROVE  RevocationInv'
<1>1. RowsType /\ RequestInv(r) /\ request \in [AccessRequests -> RequestRows]
  BY DEF RevocationInv, RowsType
<1>2. ASSUME NEW c \in Clients, AuthenticateAgent(r, c) PROVE RevocationInv'
  <2> DEFINE row == [NoRequest EXCEPT !.client = c, !.stage = "identified",
                                      !.late = installation[c].status = "revoked"]
  <2>1. request' = [request EXCEPT ![r] = row] /\ UNCHANGED <<installation, agents>>
    BY <1>2 DEF AuthenticateAgent
  <2>2. row.client = c /\ row.stage = "identified" /\ row.late = (installation[c].status = "revoked")
    BY DEF NoRequest
  <2> HIDE DEF row
  <2>3. request'[r] = row BY <1>1, <2>1
  <2>4. RequestInv(r)' BY <2>1, <2>2, <2>3 DEF RequestInv
  <2> QED BY <2>1, <2>4, RequestMoves
<1>3. CASE OrganizationUnknown(r) \/ RegistrationFails(r) \/ Answered(r)
  BY <1>3, DenialKeeps DEF OrganizationUnknown, RegistrationFails, Answered
<1>4. CASE EnsureInstallation(r)
  <2> DEFINE c == request[r].client
  <2>1. c \in Clients /\ InstallationInv(c) BY <1>1, <1>4 DEF EnsureInstallation, RowsType, RevocationInv
  <2>2. CASE activeInstallation(c)
    <3> DEFINE row == [request[r] EXCEPT !.stage = "serving", !.agent = installation[c].agent,
                                         !.role = agents[installation[c].agent].role]
    <3>1. request' = [request EXCEPT ![r] = row] /\ UNCHANGED <<installation, agents>>
      BY <1>1, <1>4, <2>2 DEF EnsureInstallation
    <3>2. /\ row.stage = "serving" /\ row.agent = installation[c].agent
          /\ row.client = c /\ row.late = request[r].late
      BY <1>1 DEF RequestRows
    <3>3. request'[r] = row BY <1>1, <3>1
    <3> HIDE DEF row
    <3>4. installation[c].status = "active" BY <2>2 DEF activeInstallation
    <3>5. ~request[r].late BY <1>1, <3>4 DEF RequestInv
    <3>6. RequestInv(r)' BY <3>1, <3>2, <3>3, <3>4, <3>5 DEF RequestInv
    <3> QED BY <3>1, <3>6, RequestMoves
  <2>3. CASE ~activeInstallation(c) /\ installation[c].status # "none"
    BY <1>4, <2>3, DenialKeeps DEF EnsureInstallation
  <2>4. CASE ~activeInstallation(c) /\ installation[c].status = "none"
    <3> DEFINE row == [request[r] EXCEPT !.stage = "inserting"]
    <3>1. request' = [request EXCEPT ![r] = row] /\ UNCHANGED <<installation, agents>>
      BY <1>4, <2>4 DEF EnsureInstallation, Goes
    <3>2. row.stage = "inserting" /\ row.client = c /\ row.late = request[r].late
      BY <1>1 DEF RequestRows
    <3>3. request'[r] = row BY <1>1, <3>1
    <3> HIDE DEF row
    <3>4. RequestInv(r)' BY <1>1, <3>1, <3>2, <3>3 DEF RequestInv
    <3> QED BY <3>1, <3>4, RequestMoves
  <2> QED BY <2>2, <2>3, <2>4
<1>5. CASE RegisterAgent(r)
  <2>1. PICK c \in Clients : c = request[r].client /\ installation[c].status = "none"
    BY <1>1, <1>5 DEF RegisterAgent, RowsType
  <2>2. PICK a \in Agents :
           /\ agents[a].status = "none"
           /\ agents' = [agents EXCEPT ![a] = [status |-> "active", role |-> "standard"]]
           /\ installation' = [installation EXCEPT ![c] = [agent |-> a, status |-> "active"]]
           /\ request' = [request EXCEPT ![r].stage = "serving", ![r].agent = a,
                                         ![r].role = "standard"]
    BY <1>5, <2>1 DEF RegisterAgent
  <2>3. /\ installation'[c] = [agent |-> a, status |-> "active"]
        /\ \A d \in Clients \ {c} : installation'[d] = installation[d]
        /\ agents'[a].status = "active"
        /\ \A b \in Agents \ {a} : agents'[b] = agents[b]
    BY <1>1, <2>1, <2>2 DEF RowsType
  <2>4. /\ request'[r].stage = "serving" /\ request'[r].agent = a
        /\ request'[r].client = c /\ request'[r].late = request[r].late
        /\ \A q \in AccessRequests \ {r} : request'[q] = request[q]
    BY <1>1, <2>1, <2>2 DEF RequestRows
  <2>5. ~request[r].late BY <1>1, <2>1 DEF RequestInv
  <2>6. RequestInv(r)' BY <2>3, <2>4, <2>5 DEF RequestInv
  <2>7. ASSUME NEW q \in AccessRequests \ {r} PROVE RequestInv(q)'
    <3>1. RequestInv(q) BY DEF RevocationInv
    <3>2. request[q].stage # "none" => request[q].client \in Clients BY <1>1 DEF RowsType
    <3> QED BY <2>1, <2>3, <2>4, <3>1, <3>2 DEF RequestInv
  <2>8. ASSUME NEW d \in Clients \ {c} PROVE installation[d].agent # a
    <3>1. InstallationInv(d) BY DEF RevocationInv
    <3>2. installation[d].status # "none" <=> installation[d].agent \in Agents BY <1>1 DEF RowsType
    <3> QED BY <2>2, <3>1, <3>2 DEF InstallationInv
  <2>9. InstallationInv(c)' BY <2>2, <2>3, <2>8 DEF InstallationInv
  <2>10. ASSUME NEW d \in Clients \ {c} PROVE InstallationInv(d)'
    <3>1. InstallationInv(d) BY DEF RevocationInv
    <3>2. installation[d].status # "none" => installation[d].agent \in Agents BY <1>1 DEF RowsType
    <3> QED BY <2>3, <2>8, <3>1, <3>2 DEF InstallationInv
  <2> QED BY <2>6, <2>7, <2>9, <2>10 DEF RevocationInv
<1>6. ASSUME NEW a \in Agents, Serve(r, a) PROVE RevocationInv'
  <2>1. CASE request[r].agent # a BY <1>6, <2>1, DenialKeeps DEF Serve
  <2>2. CASE request[r].agent = a
    <3> DEFINE row == [request[r] EXCEPT !.stage = "answered"]
    <3>1. request' = [request EXCEPT ![r] = row] /\ UNCHANGED <<installation, agents>>
      BY <1>6, <2>2 DEF Serve, Goes
    <3>2. /\ row.stage = "answered" /\ row.client = request[r].client
          /\ row.late = request[r].late /\ row.agent = request[r].agent
      BY <1>1 DEF RequestRows
    <3>3. request'[r] = row /\ request[r].stage = "serving" BY <1>1, <1>6, <3>1 DEF Serve
    <3> HIDE DEF row
    <3>4. RequestInv(r)' BY <1>1, <3>1, <3>2, <3>3 DEF RequestInv
    <3> QED BY <3>1, <3>4, RequestMoves
  <2> QED BY <2>1, <2>2
<1> QED BY <1>2, <1>3, <1>4, <1>5, <1>6 DEF AccessRequestStep

\* An administrator changes roles and deletes Agents.
LEMMA AdministratorKeeps ==
    ASSUME RevocationInv, RowsType', NEW h \in Humans, NEW a \in Agents,
           ChangeRole(h, a) \/ DeleteAgent(h, a)
    PROVE  RevocationInv'
<1>1. RowsType BY DEF RevocationInv
<1>2. CASE ChangeRole(h, a)
  <2>1. /\ UNCHANGED <<request, installation>>
        /\ \A b \in Agents : agents'[b].status = agents[b].status
    BY <1>1, <1>2 DEF ChangeRole, RowsType, AgentRows
  <2>2. \A r \in AccessRequests : RequestInv(r)' BY <2>1 DEF RevocationInv, RequestInv
  <2>3. \A c \in Clients : InstallationInv(c)'
    BY <1>1, <2>1 DEF RevocationInv, InstallationInv, RowsType
  <2> QED BY <2>2, <2>3 DEF RevocationInv
<1>3. CASE DeleteAgent(h, a)
  <2>1. /\ UNCHANGED request
        /\ agents'[a].status = "disabled" /\ agents[a].status = "active"
        /\ \A b \in Agents \ {a} : agents'[b] = agents[b]
    BY <1>1, <1>3 DEF DeleteAgent, RowsType, AgentRows
  <2>2. ASSUME NEW c \in Clients
        PROVE  /\ installation'[c].agent = installation[c].agent
               /\ installation'[c].status =
                     IF installation[c].agent = a THEN "revoked" ELSE installation[c].status
               /\ installation[c].status # "none" <=> installation[c].agent \in Agents
    BY <1>1, <1>3 DEF DeleteAgent, RowsType, InstallationRows
  <2>3. ASSUME NEW r \in AccessRequests PROVE RequestInv(r)'
    <3>1. RequestInv(r) /\ (request[r].stage # "none" => request[r].client \in Clients)
      BY <1>1 DEF RevocationInv, RowsType
    <3> QED BY <2>1, <2>2, <3>1 DEF RequestInv
  <2>4. ASSUME NEW c \in Clients PROVE InstallationInv(c)'
    <3>1. InstallationInv(c) BY DEF RevocationInv
    <3> QED BY <2>1, <2>2, <3>1 DEF InstallationInv
  <2> QED BY <2>3, <2>4 DEF RevocationInv
<1> QED BY <1>2, <1>3

\* Every step keeps what a revocation rests on.
LEMMA RevocationStep == RevocationInv /\ [AccessNext]_accessVars => RevocationInv'
<1> SUFFICES ASSUME RevocationInv, [AccessNext]_accessVars PROVE RevocationInv' OBVIOUS
<1>1. RowsType' BY RowsStep DEF RevocationInv
<1>2. CASE UNCHANGED installationVars
  BY <1>1, <1>2 DEF RevocationInv, RequestInv, InstallationInv, installationVars
<1>3. ASSUME NEW h \in Humans,
             \/ BeginSignIn(h) \/ LockIdentity(h) \/ ReadMembership(h) \/ CreateOrganization(h)
             \/ CommitSignIn(h) \/ SignInFails(h) \/ SignOut(h) \/ BeginContext(h) \/ EndContext(h)
      PROVE  UNCHANGED installationVars
  BY <1>3 DEF BeginSignIn, LockIdentity, ReadMembership, CreateOrganization, CommitSignIn,
              SignInFails, SignOut, BeginContext, EndContext
<1> QED
  BY <1>1, <1>2, <1>3, RequestKeeps, AdministratorKeeps DEF AccessNext, accessVars

\* RevocationHolds: no request that comes after an Agent was deleted is served
\* as its client, none is served as another's Agent, and installations and
\* Agents end together, however requests and administrators interleave.
THEOREM AccessRevocationHolds == AccessSpec => []RevocationHolds
<1>1. RevocationInv => RevocationHolds
  BY DEF RevocationInv, RequestInv, InstallationInv, RevocationHolds
<1> QED BY <1>1, RevocationInit, RevocationStep, PTL DEF AccessSpec

-----------------------------------------------------------------------------
(* The command line's tokens *)

RunRows == [stage : Stages, selected : Servers \cup {AnyServer}, stored : Stored \cup {Nothing}]
WithTokens == {"refreshing", "truncating", "writing", "sending"}

\* Tokens are at home where they were granted.
AtHome(stored, granted) == stored \in Stored /\ granted[stored.tokens.grant] = stored.server

\* What an invocation holds, and the file when it is whole, are the tokens of a
\* sign-in at the Server they name.
HomeInv ==
    /\ file \in Stored \cup {Missing, Partial}
    /\ run \in [Invocations -> RunRows]
    /\ grantAt \in [Grants -> Servers \cup {AnyServer}]
    /\ current \in [Grants -> 0..MaxRefresh]
    /\ aged \subseteq Grants \X (0..MaxRefresh)
    /\ uses \in 0..MaxUses
    /\ \A i \in Invocations :
          /\ run[i].stage \in {"browser", "exchange"} => run[i].selected \in Servers
          /\ run[i].stage \in WithTokens => AtHome(run[i].stored, grantAt)
    /\ file \notin {Missing, Partial} => AtHome(file, grantAt)

\* An invocation that goes on while the grants rest.
LEMMA InvocationGoes ==
    ASSUME HomeInv, NEW i \in Invocations, NEW row \in RunRows, run' = [run EXCEPT ![i] = row],
           UNCHANGED grantAt,
           row.stage \in {"browser", "exchange"} => row.selected \in Servers,
           row.stage \in WithTokens => AtHome(row.stored, grantAt)
    PROVE  /\ run' \in [Invocations -> RunRows]
           /\ \A j \in Invocations :
                 /\ run'[j].stage \in {"browser", "exchange"} => run'[j].selected \in Servers
                 /\ run'[j].stage \in WithTokens => AtHome(run'[j].stored, grantAt')
<1>1. run \in [Invocations -> RunRows] BY DEF HomeInv
<1>2. run'[i] = row /\ \A j \in Invocations \ {i} : run'[j] = run[j] BY <1>1
<1>3. run' \in [Invocations -> RunRows] BY <1>1
<1> QED BY <1>2, <1>3 DEF HomeInv, AtHome

\* The same when it only reaches another stage, ...
LEMMA InvocationReaches ==
    ASSUME HomeInv, NEW i \in Invocations, NEW stage \in Stages, Reaches(i, stage), UNCHANGED grantAt,
           stage = "browser" => FALSE,
           stage = "exchange" => run[i].stage = "browser",
           stage \in WithTokens => run[i].stage \in WithTokens
    PROVE  /\ run' \in [Invocations -> RunRows]
           /\ \A j \in Invocations :
                 /\ run'[j].stage \in {"browser", "exchange"} => run'[j].selected \in Servers
                 /\ run'[j].stage \in WithTokens => AtHome(run'[j].stored, grantAt')
<1> DEFINE row == [run[i] EXCEPT !.stage = stage]
<1>1. run[i] \in RunRows BY DEF HomeInv
<1>2. row \in RunRows /\ row.stage = stage /\ row.selected = run[i].selected /\ row.stored = run[i].stored
  BY <1>1 DEF RunRows
<1>3. run' = [run EXCEPT ![i] = row] BY DEF Reaches
<1> HIDE DEF row
<1>4. row.stage \in {"browser", "exchange"} => row.selected \in Servers BY <1>2 DEF HomeInv
<1>5. row.stage \in WithTokens => AtHome(row.stored, grantAt) BY <1>2 DEF HomeInv
<1> QED BY <1>2, <1>3, <1>4, <1>5, InvocationGoes

\* ... and when it ends.
LEMMA InvocationExits ==
    ASSUME HomeInv, NEW i \in Invocations, Exits(i), UNCHANGED grantAt
    PROVE  /\ run' \in [Invocations -> RunRows]
           /\ \A j \in Invocations :
                 /\ run'[j].stage \in {"browser", "exchange"} => run'[j].selected \in Servers
                 /\ run'[j].stage \in WithTokens => AtHome(run'[j].stored, grantAt')
<1>1. AtRest \in RunRows /\ AtRest.stage = "none" BY DEF AtRest, RunRows, Stages
<1>2. run' = [run EXCEPT ![i] = AtRest] BY DEF Exits
<1> QED BY <1>1, <1>2, InvocationGoes DEF WithTokens

\* The file keeps its tokens' home when it is not written.
LEMMA FileRests ==
    ASSUME HomeInv, UNCHANGED grantAt, file' \in {file, Missing, Partial}
    PROVE  /\ file' \in Stored \cup {Missing, Partial}
           /\ file' \notin {Missing, Partial} => AtHome(file', grantAt')
BY DEF HomeInv, AtHome

\* Signing in, calling a Server, refreshing and writing the file keep tokens at
\* home: a refresh carries the Server it has read along with its tokens.
LEMMA HomeStep == HomeInv /\ [CliNext]_cliVars => HomeInv'
<1> SUFFICES ASSUME HomeInv, [CliNext]_cliVars PROVE HomeInv' OBVIOUS
<1> DEFINE Rest == /\ current' \in [Grants -> 0..MaxRefresh]
                   /\ aged' \subseteq Grants \X (0..MaxRefresh)
                   /\ uses' \in 0..MaxUses
           RunsFit ==
               /\ run' \in [Invocations -> RunRows]
               /\ \A j \in Invocations :
                     /\ run'[j].stage \in {"browser", "exchange"} => run'[j].selected \in Servers
                     /\ run'[j].stage \in WithTokens => AtHome(run'[j].stored, grantAt')
           File == /\ file' \in Stored \cup {Missing, Partial}
                   /\ file' \notin {Missing, Partial} => AtHome(file', grantAt')
<1>1. ASSUME Rest, RunsFit, File, grantAt' \in [Grants -> Servers \cup {AnyServer}] PROVE HomeInv'
  BY <1>1 DEF HomeInv
<1>2. ASSUME RunsFit, File, UNCHANGED <<grantAt, current, aged>>, uses' \in {uses, uses + 1} \cap 0..MaxUses
      PROVE  HomeInv'
  <2>1. Rest /\ grantAt' \in [Grants -> Servers \cup {AnyServer}] BY <1>2 DEF HomeInv
  <2> QED BY <1>1, <1>2, <2>1
<1>3. uses \in 0..MaxUses /\ MaxUses \in Nat /\ (uses < MaxUses => uses + 1 \in 0..MaxUses)
  BY CliBounds DEF HomeInv
<1>4. ASSUME UNCHANGED <<grantAt, file>> PROVE File BY <1>4, FileRests
<1>5. ASSUME UNCHANGED <<run, grantAt>> PROVE RunsFit
  BY <1>5 DEF HomeInv, AtHome
<1>6. CASE UNCHANGED cliVars
  <2>1. Rest /\ grantAt' \in [Grants -> Servers \cup {AnyServer}] BY <1>6 DEF HomeInv, cliVars
  <2> QED BY <1>1, <1>4, <1>5, <1>6, <2>1 DEF cliVars
<1>7. ASSUME NEW i \in Invocations, NEW s \in Servers \cup {AnyServer},
             NEW stage \in {"browser", "reading"}, stage = "browser" => s \in Servers,
             Begins(i, stage, s), UNCHANGED grantAt
      PROVE  RunsFit /\ uses' \in {uses, uses + 1} \cap 0..MaxUses
  <2> DEFINE row == [AtRest EXCEPT !.stage = stage, !.selected = s]
  <2>1. row \in RunRows /\ row.stage = stage /\ row.selected = s BY DEF AtRest, RunRows, Stages
  <2>2. run' = [run EXCEPT ![i] = row] BY <1>7 DEF Begins
  <2> HIDE DEF row
  <2>3. RunsFit BY <1>7, <2>1, <2>2, InvocationGoes DEF WithTokens
  <2> QED BY <1>3, <1>7, <2>3 DEF Begins
<1>8. ASSUME NEW i \in Invocations, NEW s \in Servers, login(i, s) PROVE HomeInv'
  BY <1>2, <1>4, <1>7, <1>8 DEF login
<1>9. ASSUME NEW i \in Invocations, NEW s \in Servers \cup {AnyServer}, Call(i, s) PROVE HomeInv'
  BY <1>2, <1>4, <1>7, <1>9 DEF Call
<1>10. ASSUME NEW i \in Invocations, Callback(i) PROVE HomeInv'
  <2>1. RunsFit BY <1>10, InvocationReaches DEF Callback, Stages, WithTokens
  <2> QED BY <1>2, <1>3, <1>4, <1>10, <2>1 DEF Callback
<1>11. ASSUME NEW i \in Invocations, Fails(i) \/ SendRequest(i) PROVE HomeInv'
  <2>1. RunsFit BY <1>11, InvocationExits DEF Fails, SendRequest
  <2> QED BY <1>2, <1>3, <1>4, <1>11, <2>1 DEF Fails, SendRequest
<1>12. ASSUME NEW i \in Invocations, Truncate(i) PROVE HomeInv'
  <2>1. RunsFit BY <1>12, InvocationReaches DEF Truncate, Stages, WithTokens
  <2>2. File BY <1>12, FileRests DEF Truncate
  <2> QED BY <1>2, <1>3, <1>12, <2>1, <2>2 DEF Truncate
<1>13. ASSUME NEW i \in Invocations, writeAuthentication(i) PROVE HomeInv'
  <2>1. RunsFit
    <3>1. CASE Exits(i) BY <1>13, <3>1, InvocationExits DEF writeAuthentication
    <3>2. CASE Reaches(i, "sending")
      BY <1>13, <3>2, InvocationReaches DEF writeAuthentication, Stages, WithTokens
    <3> QED BY <1>13, <3>1, <3>2 DEF writeAuthentication
  <2>2. File
    <3>1. AtHome(run[i].stored, grantAt) BY <1>13 DEF writeAuthentication, HomeInv, WithTokens
    <3>2. file' \in {run[i].stored, Partial} BY <1>13 DEF writeAuthentication
    <3> QED BY <1>13, <3>1, <3>2 DEF writeAuthentication, AtHome
  <2> QED BY <1>2, <1>3, <1>13, <2>1, <2>2 DEF writeAuthentication
<1>14. ASSUME NEW i \in Invocations, readAuthentication(i) PROVE HomeInv'
  <2> DEFINE next == IF <<file.tokens.grant, file.tokens.access>> \in aged
                     THEN "refreshing" ELSE "sending"
             row == [run[i] EXCEPT !.stored = file, !.stage = next]
  <2>1. run[i] \in RunRows /\ AtHome(file, grantAt) BY <1>14 DEF readAuthentication, HomeInv
  <2>2. row \in RunRows /\ row.stage \in {"refreshing", "sending"} /\ row.stored = file
    BY <2>1 DEF RunRows, Stages, AtHome
  <2>3. run' = [run EXCEPT ![i] = row] BY <1>14 DEF readAuthentication, HomeInv, RunRows
  <2> HIDE DEF row
  <2>4. RunsFit BY <1>14, <2>1, <2>2, <2>3, InvocationGoes DEF readAuthentication
  <2> QED BY <1>2, <1>3, <1>4, <1>14, <2>4 DEF readAuthentication
<1>15. ASSUME NEW i \in Invocations, Refresh(i) PROVE HomeInv'
  <2>1. AtHome(run[i].stored, grantAt) /\ run[i] \in RunRows
    BY <1>15 DEF Refresh, HomeInv, WithTokens
  <2> DEFINE stored == run[i].stored
             t == stored.tokens
  <2>2. /\ stored.server \in Servers /\ t.grant \in Grants
        /\ t.access \in 0..MaxRefresh /\ t.refresh \in 0..MaxRefresh
        /\ grantAt[t.grant] = stored.server
    BY <2>1 DEF AtHome, Stored, Tokens
  <2>3. PICK rotated \in {t.refresh, t.access + 1} :
           /\ current' = [current EXCEPT ![t.grant] = rotated]
           /\ run' = [run EXCEPT ![i].stage = "truncating",
                 ![i].stored.tokens = [t EXCEPT !.access = @ + 1, !.refresh = rotated]]
    BY <1>15 DEF Refresh
  <2>4. t.access + 1 \in 0..MaxRefresh /\ rotated \in 0..MaxRefresh
    BY <1>15, <2>2, CliBounds DEF Refresh
  <2> DEFINE pair == [t EXCEPT !.access = @ + 1, !.refresh = rotated]
             fresh == [stored EXCEPT !.tokens = pair]
             row == [run[i] EXCEPT !.stage = "truncating", !.stored = fresh]
  <2>5. pair \in Tokens /\ pair.grant = t.grant
    BY <2>1, <2>2, <2>4 DEF AtHome, Stored, Tokens
  <2>6. fresh \in Stored /\ fresh.server = stored.server /\ fresh.tokens = pair
    BY <2>1, <2>5 DEF AtHome, Stored
  <2>7. AtHome(fresh, grantAt) BY <2>2, <2>5, <2>6 DEF AtHome
  <2>8. row \in RunRows /\ row.stage = "truncating" /\ row.stored = fresh
    BY <2>1, <2>6 DEF RunRows, Stages
  <2>9. run' = [run EXCEPT ![i] = row] BY <2>3 DEF HomeInv, RunRows
  <2> HIDE DEF row, fresh, pair
  <2>10. RunsFit BY <1>15, <2>7, <2>8, <2>9, InvocationGoes DEF Refresh
  <2>11. current' \in [Grants -> 0..MaxRefresh] BY <2>2, <2>3, <2>4 DEF HomeInv
  <2>12. Rest BY <1>15, <2>11 DEF Refresh, HomeInv
  <2> QED BY <1>1, <1>4, <1>15, <2>10, <2>12 DEF Refresh, HomeInv
<1>16. ASSUME NEW i \in Invocations, Exchange(i) PROVE HomeInv'
  <2>1. PICK g \in Grants :
           /\ grantAt[g] = AnyServer
           /\ grantAt' = [grantAt EXCEPT ![g] = run[i].selected]
           /\ run' = [run EXCEPT ![i].stage = "truncating",
                  ![i].stored = [server |-> run[i].selected,
                                 tokens |-> [grant |-> g, access |-> 0, refresh |-> 0]]]
    BY <1>16 DEF Exchange
  <2>2. run[i].selected \in Servers /\ run[i] \in RunRows BY <1>16 DEF Exchange, HomeInv
  <2> DEFINE stored == [server |-> run[i].selected,
                        tokens |-> [grant |-> g, access |-> 0, refresh |-> 0]]
             row == [run[i] EXCEPT !.stage = "truncating", !.stored = stored]
  <2>3. 0 \in 0..MaxRefresh BY CliBounds
  <2>4. stored \in Stored /\ stored.server = run[i].selected /\ stored.tokens.grant = g
    BY <2>2, <2>3 DEF Stored, Tokens
  <2>5. run' = [run EXCEPT ![i] = row] BY <2>1 DEF HomeInv, RunRows
  <2>6. row \in RunRows /\ row.stage = "truncating" /\ row.stored = stored
    BY <2>2, <2>4 DEF RunRows, Stages
  <2> HIDE DEF row, stored
  <2>7. /\ grantAt' \in [Grants -> Servers \cup {AnyServer}]
        /\ grantAt'[g] = run[i].selected
        /\ \A f \in Grants \ {g} : grantAt'[f] = grantAt[f]
    BY <2>1, <2>2 DEF HomeInv
  <2>8. ASSUME NEW other, AtHome(other, grantAt) PROVE AtHome(other, grantAt')
    <3>1. other.tokens.grant \in Grants /\ other.server \in Servers
      BY <2>8 DEF AtHome, Stored, Tokens
    <3>2. other.tokens.grant # g BY <2>1, <2>8, <3>1, CliBounds DEF AtHome
    <3> QED BY <2>7, <2>8, <3>1, <3>2 DEF AtHome
  <2>9. RunsFit
    <3>1. run'[i] = row /\ \A j \in Invocations \ {i} : run'[j] = run[j]
      BY <2>5 DEF HomeInv
    <3>2. run' \in [Invocations -> RunRows] BY <2>5, <2>6 DEF HomeInv
    <3>3. row.stored \in Stored /\ grantAt'[row.stored.tokens.grant] = row.stored.server
      BY <2>4, <2>6, <2>7
    <3>4. AtHome(run'[i].stored, grantAt') BY <3>1, <3>3 DEF AtHome
    <3>5. ASSUME NEW j \in Invocations \ {i}
          PROVE  /\ run'[j].stage \in {"browser", "exchange"} => run'[j].selected \in Servers
                 /\ run'[j].stage \in WithTokens => AtHome(run'[j].stored, grantAt')
      BY <2>8, <3>1 DEF HomeInv
    <3> QED BY <2>6, <3>1, <3>2, <3>4, <3>5
  <2>10. File BY <1>16, <2>8 DEF Exchange, HomeInv
  <2>11. Rest BY <1>16 DEF Exchange, HomeInv
  <2> QED BY <1>1, <2>7, <2>9, <2>10, <2>11
<1>17. ASSUME NEW i \in Invocations, logout(i) PROVE HomeInv'
  BY <1>2, <1>3, <1>5, <1>17, FileRests DEF logout
<1>18. CASE TokensAge
  <2>1. file.tokens.grant \in Grants /\ file.tokens.access \in 0..MaxRefresh
    BY <1>18 DEF TokensAge, HomeInv, AtHome, Stored, Tokens
  <2>2. Rest /\ grantAt' \in [Grants -> Servers \cup {AnyServer}]
    BY <1>18, <2>1 DEF TokensAge, HomeInv
  <2> QED BY <1>1, <1>4, <1>5, <1>18, <2>2 DEF TokensAge
<1> QED
  BY <1>6, <1>8, <1>9, <1>10, <1>11, <1>12, <1>13, <1>14, <1>15, <1>16, <1>17, <1>18 DEF CliNext

\* TokensStayHome: whichever invocations sign in, refresh, fail and write the
\* file at the same time, a Server is sent no other Server's tokens.
THEOREM CliTokensStayHome == CliSpec => []TokensStayHome
<1>1. CliInit => HomeInv
  <2> SUFFICES ASSUME CliInit PROVE HomeInv OBVIOUS
  <2>1. AtRest \in RunRows /\ AtRest.stage = "none" BY DEF AtRest, RunRows, Stages
  <2> QED BY <2>1, CliBounds DEF CliInit, HomeInv, WithTokens
<1>2. HomeInv => TokensStayHome BY DEF HomeInv, TokensStayHome, AtHome, WithTokens
<1> QED BY <1>1, <1>2, HomeStep, PTL DEF CliSpec

-----------------------------------------------------------------------------
(* Enrollment *)

\* The steps of every command but those of an enrollment.
OtherCalls ==
    ManagerCalls \cup {"reach", "start", "removeService", "rmdir", "download", "install",
                       "verify", "reinstallService", "restore"}
OtherSteps == [call : OtherCalls, profile : Profiles, caught : BOOLEAN]

\* A sequence loses its first elements one by one.
LEMMA FirstGoes ==
    ASSUME NEW S, NEW q \in Seq(S), NEW a, NEW b, NEW c, NEW d
    PROVE  /\ <<a>> \o q # <<>> /\ Head(<<a>> \o q) = a /\ Tail(<<a>> \o q) = q
           /\ <<a, b>> \o q # <<>> /\ Head(<<a, b>> \o q) = a /\ Tail(<<a, b>> \o q) = <<b>> \o q
           /\ <<a, b, c>> \o q # <<>> /\ Head(<<a, b, c>> \o q) = a
           /\ Tail(<<a, b, c>> \o q) = <<b, c>> \o q
           /\ <<a, b, c, d>> \o q # <<>> /\ Head(<<a, b, c, d>> \o q) = a
           /\ Tail(<<a, b, c, d>> \o q) = <<b, c, d>> \o q
<1>0. q \in Seq(S \cup {a, b, c, d}) OBVIOUS
<1>1. <<a>> \o q # <<>> /\ Head(<<a>> \o q) = a /\ Tail(<<a>> \o q) = q BY <1>0
<1>2. <<a, b>> \o q # <<>> /\ Head(<<a, b>> \o q) = a /\ Tail(<<a, b>> \o q) = <<b>> \o q
  BY <1>0
<1>3. <<a, b, c>> \o q # <<>> /\ Head(<<a, b, c>> \o q) = a
      /\ Tail(<<a, b, c>> \o q) = <<b, c>> \o q
  BY <1>0
<1>4. <<a, b, c, d>> \o q # <<>> /\ Head(<<a, b, c, d>> \o q) = a
      /\ Tail(<<a, b, c, d>> \o q) = <<b, c, d>> \o q
  BY <1>0
<1> QED BY <1>1, <1>2, <1>3, <1>4

\* What the service managers are told is none of an enrollment's steps.
LEMMA ManagerSteps ==
    ASSUME NEW p \in Profiles, platform \in Platforms
    PROVE  /\ installClientService(p) \in Seq(OtherSteps)
           /\ stopClientService(p) \in Seq(OtherSteps)
           /\ removeClientService(p) \in Seq(OtherSteps)
<1>1. platform \in {"linux", "darwin", "win32"} BY LocalBounds
<1>2. \A call \in ManagerCalls : Step(call, p) \in OtherSteps /\ Tried(call, p) \in OtherSteps
  BY DEF OtherSteps, OtherCalls, Step, Tried
<1>3. /\ installLinuxUserService(p) \in Seq(OtherSteps)
      /\ installMacosUserService(p) \in Seq(OtherSteps)
      /\ installWindowsUserService(p) \in Seq(OtherSteps)
  BY <1>2 DEF installLinuxUserService, installMacosUserService, installWindowsUserService,
              ManagerCalls
<1>4. /\ removeLinuxUserService(p) \in Seq(OtherSteps)
      /\ removeMacosUserService(p) \in Seq(OtherSteps)
      /\ removeWindowsUserService(p) \in Seq(OtherSteps)
  BY <1>2 DEF removeLinuxUserService, removeMacosUserService, removeWindowsUserService,
              ManagerCalls
<1>5. \A call \in ManagerCalls : <<Step(call, p)>> \in Seq(OtherSteps) BY <1>2
<1>6. installClientService(p) \in Seq(OtherSteps) BY <1>1, <1>3 DEF installClientService
<1>7. removeClientService(p) \in Seq(OtherSteps) BY <1>1, <1>4 DEF removeClientService
<1>8. stopClientService(p) \in Seq(OtherSteps)
  <2> DEFINE a == <<Step("disable", p)>>  b == <<Step("bootout", p)>>  c == <<Step("end", p)>>
  <2>1. {a, b, c} \subseteq Seq(OtherSteps) BY <1>5 DEF ManagerCalls
  <2>2. stopClientService(p) = [linux |-> a, darwin |-> b, win32 |-> c][platform]
    BY DEF stopClientService
  <2> HIDE DEF a, b, c
  <2> QED BY <1>1, <2>1, <2>2
<1> QED BY <1>6, <1>7, <1>8

\* Nor are the steps of a reset.
LEMMA ResetSteps ==
    ASSUME NEW order \in SetToSeqs(listClientProfiles)
    PROVE  removeAllClientProfiles(order) \in Seq(OtherSteps)
<1>1. IsFiniteSet(listClientProfiles) BY LocalBounds, FS_Subset DEF listClientProfiles
<1> DEFINE n == Cardinality(listClientProfiles)
<1>2. n \in Nat BY <1>1, FS_CardinalityType
<1> HIDE DEF n
<1>3. order \in [1..n -> listClientProfiles] BY DEF SetToSeqs, n
<1>4. order \in Seq(Profiles) /\ Len(order) = n
  <2>1. order \in Seq(listClientProfiles) /\ Len(order) = n BY <1>2, <1>3
  <2> QED BY <2>1 DEF listClientProfiles
<1>5. \A i \in 1..(2 * n) : (i + 1) \div 2 \in 1..n BY <1>2
<1>6. \A p \in Profiles : /\ removeClientProfile(p)[1] \in OtherSteps
                          /\ removeClientProfile(p)[2] \in OtherSteps
  BY DEF removeClientProfile, OtherSteps, OtherCalls, Step
<1>7. removeAllClientProfiles(order) \in [1..(2 * n) -> OtherSteps]
  <2> SUFFICES ASSUME NEW i \in 1..(2 * n)
               PROVE  removeClientProfile(order[(i + 1) \div 2])[IF i % 2 = 1 THEN 1 ELSE 2]
                          \in OtherSteps
    BY <1>4 DEF removeAllClientProfiles
  <2>1. order[(i + 1) \div 2] \in Profiles BY <1>4, <1>5
  <2> QED BY <2>1, <1>6
<1> QED BY <1>2, <1>7

\* The values of columns and files that may be empty.
AnyMachine == MachineIds \cup {NoMachine}
AnyToken == EnrollmentTokens \cup {NoToken}
AnyPackage == {Installed, Broken} \cup Releases
EnrollmentSteps == [call : {"lock", "enroll", "open", "save"}, profile : Profiles, caught : BOOLEAN]
ShellRows ==
    [command : {"none", "up", "down", "remove", "reset", "update", "rollback"},
     steps : Seq(OtherSteps \cup EnrollmentSteps), profile : Profiles \cup {NoProfile},
     token : AnyToken, machine : AnyMachine, previous : AnyMachine,
     from : AnyPackage, latest : AnyPackage]

\* What the rows, the files and the running command hold.
EnrollmentTypes ==
    /\ platform \in Platforms
    /\ config \in [Profiles -> AnyMachine \cup {Damaged}]
    /\ held \in [Profiles -> SUBSET MachineIds]
    /\ package \in AnyPackage
    /\ shell \in ShellRows
    /\ shell.command = "update" => shell.profile \in Profiles
    /\ tokens \in [EnrollmentTokens -> {"unissued", "issued", "expired", "used"}]
    /\ transactions \in [{"here", "elsewhere"} -> [token : AnyToken, previous : AnyMachine]]
    /\ machines \in [MachineIds -> {"none", "active", "revoked"}]
    /\ enrolledWith \in [MachineIds -> AnyToken]

\* A locked token is not used, its row is locked by one transaction only, and a
\* token that a Machine was enrolled with is used.
TokensInv ==
    /\ \A x \in DOMAIN transactions : transactions[x] # Unlocked =>
          /\ transactions[x].token \in EnrollmentTokens
          /\ tokens[transactions[x].token] # "used"
          /\ \A y \in DOMAIN transactions : transactions[x].token = transactions[y].token => x = y
    /\ \A m \in MachineIds : enrolledWith[m] # NoToken => tokens[enrolledWith[m]] = "used"
    /\ TokenEnrollsOnce

\* The Machines a Profile has been were enrolled; the one of them that may be
\* active is the one its configuration names.
HeldInv ==
    /\ \A p \in Profiles : \A m \in held[p] : machines[m] # "none"
    /\ \A p \in Profiles : \A m, n \in held[p] :
          machines[m] = "active" /\ machines[n] = "active" => m = n
    /\ \A p \in Profiles : config[p] = NoMachine => held[p] = {}
    /\ \A p \in Profiles : config[p] \in MachineIds =>
          \A m \in held[p] : machines[m] = "active" => m = config[p]

\* An enrollment with all its steps to come, or the last three, two or one.
AtLock(p) == \E q \in Seq(OtherSteps) :
    shell.steps = <<Step("lock", p), Step("enroll", p), Step("open", p), Step("save", p)>> \o q
AtEnroll(p) == \E q \in Seq(OtherSteps) :
    shell.steps = <<Step("enroll", p), Step("open", p), Step("save", p)>> \o q
AtOpen(p) == \E q \in Seq(OtherSteps) : shell.steps = <<Step("open", p), Step("save", p)>> \o q
AtSave(p) == \E q \in Seq(OtherSteps) : shell.steps = <<Step("save", p)>> \o q

\* The Machine that was enrolled for Profile p, when none it was is active.
Replaces(p) ==
    /\ shell.machine \in MachineIds /\ machines[shell.machine] # "none"
    /\ \A m \in held[p] : machines[m] # "active"

\* A command that enrolls stands on the configuration it has read: the
\* transaction asks for the Machine named there, which is then active no more.
EnrollingInv ==
    LET p == shell.profile IN
    \/ shell.steps \in Seq(OtherSteps)
    \/ /\ p \in Profiles /\ shell.command = "up" /\ shell.token \in EnrollmentTokens
       /\ \/ AtLock(p) /\ config[p] = shell.previous
          \/ /\ AtEnroll(p) /\ config[p] = shell.previous
             /\ transactions["here"] = [token |-> shell.token, previous |-> shell.previous]
          \/ AtOpen(p) /\ config[p] = shell.previous /\ Replaces(p)
          \/ AtSave(p) /\ Replaces(p)

EnrollmentInv == EnrollmentTypes /\ TokensInv /\ HeldInv /\ EnrollingInv

\* At first no command runs and nothing is enrolled.
LEMMA EnrollmentInit == LocalInit => EnrollmentInv
<1> SUFFICES ASSUME LocalInit PROVE EnrollmentInv OBVIOUS
<1> USE DEF LocalInit, AnyMachine, AnyToken, AnyPackage
<1>1. NoCommand.steps = <<>> /\ NoCommand.command = "none" BY DEF NoCommand
<1>2. <<>> \in Seq(OtherSteps) OBVIOUS
<1>3. EnrollmentTypes BY <1>1, <1>2 DEF EnrollmentTypes, ShellRows, NoCommand, Unlocked
<1>4. TokensInv BY DEF TokensInv, Unlocked, TokenEnrollsOnce
<1>5. HeldInv BY DEF HeldInv
<1>6. EnrollingInv BY <1>1, <1>2 DEF EnrollingInv
<1> QED BY <1>3, <1>4, <1>5, <1>6 DEF EnrollmentInv

\* A command that enrolls is at one of an enrollment's steps.
LEMMA EnrollmentCalls ==
    ASSUME EnrollmentInv, NEW call, Running(call)
    PROVE  /\ call \in OtherCalls => shell.steps \in Seq(OtherSteps)
           /\ AtLock(shell.profile) => call = "lock"
           /\ AtEnroll(shell.profile) => call = "enroll"
           /\ AtOpen(shell.profile) => call = "open"
           /\ AtSave(shell.profile) => call = "save"
<1> DEFINE p == shell.profile
<1>1. AtLock(p) => call = "lock"
  BY FirstGoes DEF AtLock, Running, Step
<1>2. AtEnroll(p) => call = "enroll"
  BY FirstGoes DEF AtEnroll, Running, Step
<1>3. AtOpen(p) => call = "open"
  BY FirstGoes DEF AtOpen, Running, Step
<1>4. AtSave(p) => call = "save"
  BY FirstGoes DEF AtSave, Running, Step
<1>5. call \in OtherCalls => shell.steps \in Seq(OtherSteps)
  BY <1>1, <1>2, <1>3, <1>4 DEF EnrollmentInv, EnrollingInv, OtherCalls, ManagerCalls
<1> QED BY <1>1, <1>2, <1>3, <1>4, <1>5

\* A command goes on with steps that are none of an enrollment's, or ends.
LEMMA GoesOn ==
    ASSUME NEW s \in ShellRows, s.command = "update" => s.profile \in Profiles,
           NEW q \in Seq(OtherSteps), ContinueWith(s, q)
    PROVE  /\ shell' \in ShellRows /\ shell'.steps \in Seq(OtherSteps)
           /\ shell'.command = "update" => shell'.profile \in Profiles
<1>1. NoCommand \in ShellRows /\ NoCommand.steps \in Seq(OtherSteps) /\ NoCommand.command # "update"
  BY DEF NoCommand, ShellRows, AnyMachine, AnyToken, AnyPackage
<1>2. CASE q = <<>> BY <1>1, <1>2 DEF ContinueWith
<1>3. CASE q # <<>>
  <2>1. shell' = [s EXCEPT !.steps = q] BY <1>3 DEF ContinueWith
  <2>2. q \in Seq(OtherSteps \cup EnrollmentSteps) OBVIOUS
  <2> QED BY <2>1, <2>2 DEF ShellRows
<1> QED BY <1>2, <1>3

\* Nor does one that gives up go on with an enrollment.
LEMMA GivesUp ==
    ASSUME EnrollmentTypes, GiveUp
    PROVE  /\ shell' \in ShellRows /\ shell'.steps \in Seq(OtherSteps)
           /\ shell'.command = "update" => shell'.profile \in Profiles
<1>1. NoCommand \in ShellRows /\ NoCommand.steps \in Seq(OtherSteps) /\ NoCommand.command # "update"
  BY DEF NoCommand, ShellRows, AnyMachine, AnyToken, AnyPackage
<1>2. CASE shell.command = "update" /\ ~Running("download")
  <2> DEFINE q == <<Step("restore", shell.profile), Step("reinstallService", shell.profile)>>
  <2>1. q \in Seq(OtherSteps) /\ q \in Seq(OtherSteps \cup EnrollmentSteps)
    BY <1>2 DEF EnrollmentTypes, OtherSteps, OtherCalls, Step
  <2>2. shell' = [shell EXCEPT !.command = "rollback", !.steps = q] BY <1>2 DEF GiveUp
  <2> HIDE DEF q
  <2> QED BY <2>1, <2>2 DEF EnrollmentTypes, ShellRows
<1>3. CASE ~(shell.command = "update" /\ ~Running("download"))
  BY <1>1, <1>3 DEF GiveUp
<1> QED BY <1>2, <1>3

\* What the rows and files rest on, besides the shell.
restVars == <<platform, config, held, tokens, transactions, machines, enrolledWith>>

\* A step of anything but an enrollment, that leaves its files and rows alone.
LEMMA OtherStep ==
    ASSUME EnrollmentInv, shell' \in ShellRows, shell'.steps \in Seq(OtherSteps),
           shell'.command = "update" => shell'.profile \in Profiles,
           package' \in AnyPackage, UNCHANGED restVars
    PROVE  EnrollmentInv'
<1>1. EnrollmentTypes' BY DEF EnrollmentInv, EnrollmentTypes, restVars
<1>2. TokensInv' BY DEF EnrollmentInv, TokensInv, restVars, TokenEnrollsOnce
<1>3. HeldInv' BY DEF EnrollmentInv, HeldInv, restVars
<1>4. EnrollingInv' BY DEF EnrollingInv
<1> QED BY <1>1, <1>2, <1>3, <1>4 DEF EnrollmentInv

\* A command that is entered with steps of no enrollment.
LEMMA EntersOther ==
    ASSUME EnrollmentInv, NEW s \in ShellRows, s.steps \in Seq(OtherSteps),
           s.command = "update" => s.profile \in Profiles, Enters(s)
    PROVE  EnrollmentInv'
<1>1. shell' = [s EXCEPT !.from = package] /\ UNCHANGED <<hostVars, enrollmentVars>>
  BY DEF Enters
<1>2. package \in AnyPackage BY DEF EnrollmentInv, EnrollmentTypes
<1>3. shell' \in ShellRows /\ shell'.steps = s.steps /\ shell'.command = s.command
      /\ shell'.profile = s.profile
  BY <1>1, <1>2 DEF ShellRows
<1> QED BY <1>1, <1>2, <1>3, OtherStep DEF restVars, hostVars, enrollmentVars

\* Every command but an `up` that enrolls is such a one.
LEMMA CommandsEntered ==
    ASSUME EnrollmentInv,
           \/ \E p \in Profiles : Down(p) \/ RemoveProfile(p) \/ Update(p)
           \/ Reset
    PROVE  EnrollmentInv'
<1>1. /\ NoCommand \in ShellRows
      /\ platform \in Platforms
  BY DEF NoCommand, ShellRows, AnyMachine, AnyToken, AnyPackage, EnrollmentInv, EnrollmentTypes
<1>2. \A q \in Seq(OtherSteps) : q \in Seq(OtherSteps \cup EnrollmentSteps) OBVIOUS
<1>3. ASSUME NEW p \in Profiles, Down(p) PROVE EnrollmentInv'
  <2> DEFINE s == [NoCommand EXCEPT !.command = "down", !.profile = p, !.steps = stopClientService(p)]
  <2>1. stopClientService(p) \in Seq(OtherSteps) BY <1>1, ManagerSteps
  <2>2. s \in ShellRows /\ s.steps \in Seq(OtherSteps) /\ s.command # "update"
    BY <1>1, <1>2, <2>1 DEF ShellRows
  <2>3. Enters(s) BY <1>3 DEF Down
  <2> HIDE DEF s
  <2> QED BY <2>2, <2>3, EntersOther
<1>4. ASSUME NEW p \in Profiles, RemoveProfile(p) PROVE EnrollmentInv'
  <2> DEFINE s == [NoCommand EXCEPT !.command = "remove", !.profile = p, !.steps = removeClientProfile(p)]
  <2>1. removeClientProfile(p) \in Seq(OtherSteps)
    BY DEF removeClientProfile, OtherSteps, OtherCalls, Step
  <2>2. s \in ShellRows /\ s.steps \in Seq(OtherSteps) /\ s.command # "update"
    BY <1>1, <1>2, <2>1 DEF ShellRows
  <2>3. Enters(s) BY <1>4 DEF RemoveProfile
  <2> HIDE DEF s
  <2> QED BY <2>2, <2>3, EntersOther
<1>5. ASSUME NEW p \in Profiles, Update(p) PROVE EnrollmentInv'
  <2>1. PICK v \in Releases : Enters([NoCommand EXCEPT !.command = "update", !.profile = p,
                                          !.latest = v, !.steps = updateClientPackage(p)])
    BY <1>5 DEF Update
  <2> DEFINE s == [NoCommand EXCEPT !.command = "update", !.profile = p,
                                          !.latest = v, !.steps = updateClientPackage(p)]
  <2>2. updateClientPackage(p) \in Seq(OtherSteps)
    BY DEF updateClientPackage, OtherSteps, OtherCalls, Step
  <2>3. s \in ShellRows /\ s.steps \in Seq(OtherSteps) /\ s.profile \in Profiles
    BY <1>1, <1>2, <2>2 DEF ShellRows, AnyPackage
  <2> HIDE DEF s
  <2> QED BY <2>1, <2>3, EntersOther DEF s
<1>6. ASSUME Reset PROVE EnrollmentInv'
  <2>1. PICK order \in SetToSeqs(listClientProfiles) :
            Enters([NoCommand EXCEPT !.command = "reset", !.steps = removeAllClientProfiles(order)])
    BY <1>6 DEF Reset
  <2> DEFINE s == [NoCommand EXCEPT !.command = "reset", !.steps = removeAllClientProfiles(order)]
  <2>2. removeAllClientProfiles(order) \in Seq(OtherSteps) BY ResetSteps
  <2>3. s \in ShellRows /\ s.steps \in Seq(OtherSteps) /\ s.command # "update"
    BY <1>1, <1>2, <2>2 DEF ShellRows
  <2> HIDE DEF s
  <2> QED BY <2>1, <2>3, EntersOther DEF s
<1> QED BY <1>3, <1>4, <1>5, <1>6

\* `up` of a Profile that is there, and one that is to enroll it, on the
\* configuration it has read.
LEMMA UpEntered ==
    ASSUME EnrollmentInv, NEW p \in Profiles, Up(p)
    PROVE  EnrollmentInv'
<1>0. NoCommand \in ShellRows BY DEF NoCommand, ShellRows, AnyMachine, AnyToken, AnyPackage
<1>1. NoCommand \in ShellRows /\ package \in AnyPackage /\ config[p] \in AnyMachine
  <2>1. config[p] # Damaged BY DEF Up, identityFromConfig
  <2> QED BY <1>0, <2>1 DEF EnrollmentInv, EnrollmentTypes
<1> DEFINE rest == assertClientServerReachable(p) \o <<Step("start", p)>>
<1>2. rest \in Seq(OtherSteps) /\ rest \in Seq(OtherSteps \cup EnrollmentSteps)
  <2>1. Step("reach", p) \in OtherSteps /\ Step("start", p) \in OtherSteps
    BY DEF OtherSteps, OtherCalls, Step
  <2>2. assertClientServerReachable(p) \in Seq(OtherSteps) /\ <<Step("start", p)>> \in Seq(OtherSteps)
    BY <2>1 DEF assertClientServerReachable
  <2>3. rest \in Seq(OtherSteps) BY <2>2
  <2> QED BY <2>3
<1>3. CASE Enters([NoCommand EXCEPT !.command = "up", !.profile = p, !.steps = rest])
  <2> DEFINE s == [NoCommand EXCEPT !.command = "up", !.profile = p, !.steps = rest]
  <2>1. s \in ShellRows /\ s.steps \in Seq(OtherSteps) /\ s.command # "update"
    BY <1>1, <1>2 DEF ShellRows
  <2> HIDE DEF s
  <2> QED BY <1>3, <2>1, EntersOther DEF s
<1>4. ASSUME NEW t \in EnrollmentTokens,
             Enters([NoCommand EXCEPT !.command = "up", !.profile = p, !.token = t,
                           !.previous = config[p],
                           !.steps = enrollClient(p) \o assertClientServerReachable(p)
                                     \o <<Step("start", p)>>])
      PROVE  EnrollmentInv'
  <2> DEFINE q == enrollClient(p) \o assertClientServerReachable(p) \o <<Step("start", p)>>
             s == [NoCommand EXCEPT !.command = "up", !.profile = p, !.token = t,
                           !.previous = config[p], !.steps = q]
  <2>1. q = <<Step("lock", p), Step("enroll", p), Step("open", p), Step("save", p)>> \o rest
    BY DEF enrollClient, assertClientServerReachable
  <2>2. q \in Seq(OtherSteps \cup EnrollmentSteps)
    <3>1. /\ Step("lock", p) \in EnrollmentSteps /\ Step("enroll", p) \in EnrollmentSteps
          /\ Step("open", p) \in EnrollmentSteps /\ Step("save", p) \in EnrollmentSteps
      BY DEF EnrollmentSteps, Step
    <3>2. <<Step("lock", p), Step("enroll", p), Step("open", p), Step("save", p)>>
             \in Seq(OtherSteps \cup EnrollmentSteps)
      BY <3>1
    <3> HIDE DEF q, rest
    <3> QED BY <3>2, <2>1, <1>2
  <2> HIDE DEF q, rest
  <2>3. shell' = [s EXCEPT !.from = package] /\ UNCHANGED <<hostVars, enrollmentVars>>
    BY <1>4 DEF Enters, q
  <2>4. /\ shell' \in ShellRows /\ shell'.steps = q /\ shell'.command = "up" /\ shell'.profile = p
        /\ shell'.token = t /\ shell'.previous = config[p]
    BY <1>1, <2>2, <2>3 DEF ShellRows, AnyToken
  <2>5. EnrollmentTypes' BY <2>3, <2>4 DEF EnrollmentInv, EnrollmentTypes, hostVars, enrollmentVars
  <2>6. TokensInv' BY <2>3 DEF EnrollmentInv, TokensInv, enrollmentVars, TokenEnrollsOnce
  <2>7. HeldInv' BY <2>3 DEF EnrollmentInv, HeldInv, hostVars, enrollmentVars
  <2>8. EnrollingInv' BY <1>2, <2>1, <2>3, <2>4 DEF EnrollingInv, AtLock, hostVars
  <2> QED BY <2>5, <2>6, <2>7, <2>8 DEF EnrollmentInv
<1> QED BY <1>3, <1>4 DEF Up

\* A step that is none of an enrollment's leaves such steps only.
LEMMA OtherStepNext ==
    ASSUME EnrollmentInv, NEW call \in OtherCalls, Running(call)
    PROVE  /\ shell.steps \in Seq(OtherSteps) /\ Tail(shell.steps) \in Seq(OtherSteps)
           /\ Here \in Profiles /\ shell \in ShellRows
           /\ shell.command = "update" => shell.profile \in Profiles
           /\ platform \in Platforms
<1>1. shell.steps \in Seq(OtherSteps) /\ shell.steps # <<>>
  BY EnrollmentCalls DEF Running
<1>2. Head(shell.steps) \in OtherSteps BY <1>1
<1> QED BY <1>1, <1>2 DEF Here, OtherSteps, EnrollmentInv, EnrollmentTypes

\* A command goes on with its next step.
LEMMA Continues ==
    ASSUME EnrollmentInv, NEW call \in OtherCalls, Running(call), Continue
    PROVE  /\ shell' \in ShellRows /\ shell'.steps \in Seq(OtherSteps)
           /\ shell'.command = "update" => shell'.profile \in Profiles
BY OtherStepNext, GoesOn DEF Continue

\* The steps of all commands but the enrollment's, with the directory's end.
LEMMA ShellStep ==
    ASSUME EnrollmentInv,
           \/ ServerReached \/ PackagesVerified \/ VersionFits \/ VersionDiffers
           \/ InstallPackage \/ InstallFails \/ CallManager \/ StepFails
    PROVE  EnrollmentInv'
<1> USE DEF restVars, hostVars, enrollmentVars
<1>0. package \in AnyPackage /\ EnrollmentTypes BY DEF EnrollmentInv, EnrollmentTypes
<1>1. CASE ServerReached
  BY <1>0, <1>1, Continues, OtherStep DEF ServerReached, OtherCalls
<1>2. CASE PackagesVerified
  BY <1>0, <1>2, Continues, OtherStep DEF PackagesVerified, OtherCalls
<1>3. CASE VersionFits
  BY <1>0, <1>3, Continues, OtherStep DEF VersionFits, OtherCalls
<1>4. CASE VersionDiffers
  BY <1>0, <1>4, GivesUp, OtherStep DEF VersionDiffers
<1>5. CASE InstallPackage
  <2>1. shell.latest \in AnyPackage /\ shell.from \in AnyPackage
    BY <1>0 DEF EnrollmentTypes, ShellRows
  <2>2. package' \in AnyPackage BY <1>0, <1>5, <2>1 DEF InstallPackage
  <2> QED BY <1>5, <2>2, Continues, OtherStep DEF InstallPackage, OtherCalls
<1>6. CASE InstallFails
  <2>1. shell.latest \in AnyPackage /\ shell.from \in AnyPackage
    BY <1>0 DEF EnrollmentTypes, ShellRows
  <2>2. package' \in AnyPackage BY <1>6, <2>1 DEF InstallFails, AnyPackage
  <2> QED BY <1>0, <1>6, <2>2, GivesUp, OtherStep DEF InstallFails
<1>7. CASE CallManager
  <2>1. Running(Head(shell.steps).call) /\ Head(shell.steps).call \in OtherCalls
    BY <1>7 DEF CallManager, Running, OtherCalls
  <2> QED BY <1>0, <1>7, <2>1, Continues, OtherStep DEF CallManager
<1>8. CASE StepFails
  <2>1. Running(Head(shell.steps).call) /\ Head(shell.steps).call \in OtherCalls
    BY <1>8 DEF StepFails, Running, OtherCalls
  <2>2. CASE Continue BY <1>0, <1>8, <2>1, <2>2, Continues, OtherStep DEF StepFails
  <2>3. CASE GiveUp BY <1>0, <1>8, <2>3, GivesUp, OtherStep DEF StepFails
  <2> QED BY <1>8, <2>2, <2>3 DEF StepFails
<1> QED BY <1>1, <1>2, <1>3, <1>4, <1>5, <1>6, <1>7, <1>8

\* The service manager's steps are put before those that are left.
LEMMA ServiceStep ==
    ASSUME EnrollmentInv, StartService \/ RemoveService \/ ReinstallService
    PROVE  EnrollmentInv'
<1> USE DEF restVars, hostVars, enrollmentVars
<1>0. package \in AnyPackage BY DEF EnrollmentInv, EnrollmentTypes
<1>1. ASSUME NEW call \in OtherCalls, Running(call), NEW q \in Seq(OtherSteps),
             ContinueWith(shell, q \o Tail(shell.steps)), UNCHANGED <<hostVars, enrollmentVars>>
      PROVE  EnrollmentInv'
  <2>1. q \o Tail(shell.steps) \in Seq(OtherSteps) BY <1>1, OtherStepNext
  <2> QED BY <1>0, <1>1, <2>1, OtherStepNext, GoesOn, OtherStep
<1>2. <<>> \in Seq(OtherSteps) OBVIOUS
<1>3. CASE StartService
  <2>1. Running("start") /\ "start" \in OtherCalls BY <1>3 DEF StartService, OtherCalls
  <2>2. installClientService(Here) \in Seq(OtherSteps) BY <2>1, OtherStepNext, ManagerSteps
  <2> QED BY <1>1, <1>2, <1>3, <2>1, <2>2 DEF StartService
<1>4. ASSUME NEW call \in OtherCalls, NEW steps, steps \in Seq(OtherSteps), AskService(call, steps)
      PROVE  EnrollmentInv'
  <2>1. CASE ContinueWith(shell, (IF ServiceInstalled(Here) THEN steps ELSE <<>>) \o Tail(shell.steps))
    BY <1>1, <1>2, <1>4, <2>1 DEF AskService
  <2>2. CASE Continue BY <1>0, <1>4, <2>2, Continues, OtherStep DEF AskService
  <2> QED BY <1>4, <2>1, <2>2 DEF AskService
<1>5. CASE RemoveService
  <2>1. Running("removeService") /\ "removeService" \in OtherCalls
    BY <1>5 DEF RemoveService, AskService, OtherCalls
  <2>2. removeClientService(Here) \in Seq(OtherSteps) BY <2>1, OtherStepNext, ManagerSteps
  <2> QED BY <1>4, <1>5, <2>1, <2>2 DEF RemoveService
<1>6. CASE ReinstallService
  <2>1. Running("reinstallService") /\ "reinstallService" \in OtherCalls
    BY <1>6 DEF ReinstallService, AskService, OtherCalls
  <2>2. installClientService(Here) \in Seq(OtherSteps) BY <2>1, OtherStepNext, ManagerSteps
  <2> QED BY <1>4, <1>6, <2>1, <2>2 DEF ReinstallService
<1> QED BY <1>3, <1>5, <1>6

\* A Profile's directory goes with all it has been.
LEMMA DirectoryStep == ASSUME EnrollmentInv, RemoveDirectory PROVE EnrollmentInv'
<1>1. Running("rmdir") /\ "rmdir" \in OtherCalls BY DEF RemoveDirectory, OtherCalls
<1>2. Here \in Profiles BY <1>1, OtherStepNext
<1>3. /\ shell' \in ShellRows /\ shell'.steps \in Seq(OtherSteps)
      /\ shell'.command = "update" => shell'.profile \in Profiles
  BY <1>1, Continues DEF RemoveDirectory
<1>4. EnrollmentTypes'
  BY <1>2, <1>3 DEF EnrollmentInv, EnrollmentTypes, RemoveDirectory, enrollmentVars, AnyMachine
<1>5. TokensInv'
  BY DEF EnrollmentInv, TokensInv, RemoveDirectory, enrollmentVars, TokenEnrollsOnce
<1>6. HeldInv'
  <2>1. \A p \in Profiles : held'[p] = IF p = Here THEN {} ELSE held[p]
    BY <1>2 DEF RemoveDirectory, EnrollmentInv, EnrollmentTypes
  <2>2. \A p \in Profiles : config'[p] = IF p = Here THEN NoMachine ELSE config[p]
    BY <1>2 DEF RemoveDirectory, EnrollmentInv, EnrollmentTypes
  <2>3. machines' = machines BY DEF RemoveDirectory, enrollmentVars
  <2> HIDE DEF RemoveDirectory
  <2> QED BY <2>1, <2>2, <2>3, LocalBounds DEF EnrollmentInv, HeldInv
<1>7. EnrollingInv' BY <1>3 DEF EnrollingInv
<1> QED BY <1>4, <1>5, <1>6, <1>7 DEF EnrollmentInv

\* A Machine is enrolled once, and one that is not active never becomes so.
MachinesAge ==
    \A m \in MachineIds : machines[m] # "none" =>
        machines'[m] # "none" /\ (machines'[m] = "active" => machines[m] = "active")

\* As Machines only age, what a Profile has been stays as exclusive as it is.
LEMMA HeldRests ==
    ASSUME EnrollmentInv, MachinesAge, UNCHANGED <<config, held>>
    PROVE  HeldInv'
<1>1. \A p \in Profiles : held[p] \subseteq MachineIds BY DEF EnrollmentInv, EnrollmentTypes
<1>2. \A p \in Profiles : \A m \in held[p] :
          /\ machines'[m] # "none" /\ (machines'[m] = "active" => machines[m] = "active")
  BY <1>1 DEF MachinesAge, EnrollmentInv, HeldInv
<1> QED BY <1>2 DEF EnrollmentInv, HeldInv

\* A command that waits is not disturbed, as long as its transaction is left alone.
LEMMA EnrollingRests ==
    ASSUME EnrollmentInv, MachinesAge, UNCHANGED <<config, held, shell>>,
           Running("enroll") => transactions'["here"] = transactions["here"]
    PROVE  EnrollingInv'
<1> DEFINE p == shell.profile
<1>1. ASSUME p \in Profiles, Replaces(p) PROVE Replaces(p)'
  <2>1. held[p] \subseteq MachineIds BY <1>1 DEF EnrollmentInv, EnrollmentTypes
  <2>2. \A m \in held[p] : machines[m] # "none" BY <1>1 DEF EnrollmentInv, HeldInv
  <2> QED BY <1>1, <2>1, <2>2 DEF Replaces, MachinesAge
<1>2. ASSUME AtEnroll(p) PROVE Running("enroll")
  BY <1>2, FirstGoes DEF AtEnroll, Running, Step
<1>3. (AtLock(p) => AtLock(p)') /\ (AtEnroll(p) => AtEnroll(p)')
  BY DEF AtLock, AtEnroll
<1>4. (AtOpen(p) => AtOpen(p)') /\ (AtSave(p) => AtSave(p)')
  BY DEF AtOpen, AtSave
<1> QED BY <1>1, <1>2, <1>3, <1>4 DEF EnrollmentInv, EnrollingInv

\* A transaction takes the row of a token nobody else has.
LEMMA LockKeeps ==
    ASSUME EnrollmentTypes, TokensInv, NEW x \in {"here", "elsewhere"}, NEW t \in EnrollmentTokens,
           NEW m \in AnyMachine, lockToken(x, t, m), UNCHANGED <<tokens, machines, enrolledWith>>
    PROVE  /\ TokensInv'
           /\ transactions' \in [{"here", "elsewhere"} -> [token : AnyToken, previous : AnyMachine]]
           /\ \A y \in {"here", "elsewhere"} :
                 transactions'[y] = IF y = x THEN [token |-> t, previous |-> m] ELSE transactions[y]
<1>1. transactions' \in [{"here", "elsewhere"} -> [token : AnyToken, previous : AnyMachine]]
  BY DEF lockToken, EnrollmentTypes, AnyToken
<1>2. \A y \in {"here", "elsewhere"} :
          transactions'[y] = IF y = x THEN [token |-> t, previous |-> m] ELSE transactions[y]
  BY DEF lockToken, EnrollmentTypes
<1>3. /\ DOMAIN transactions = {"here", "elsewhere"} /\ DOMAIN transactions' = {"here", "elsewhere"}
      /\ \A y \in {"here", "elsewhere"} : transactions[y].token # t
      /\ tokens[t] = "issued"
  BY <1>1 DEF lockToken, EnrollmentTypes
<1>4. TokensInv'
  BY <1>2, <1>3 DEF TokensInv, TokenEnrollsOnce
<1> QED BY <1>1, <1>2, <1>4

\* Its end uses the token up and enrolls one new Machine, or does nothing.
LEMMA EnrollKeeps ==
    ASSUME EnrollmentTypes, TokensInv, NEW x \in {"here", "elsewhere"}, NEW m \in MachineIds,
           enrollMachine(x, m)
    PROVE  /\ TokensInv' /\ MachinesAge
           /\ tokens' \in [EnrollmentTokens -> {"unissued", "issued", "expired", "used"}]
           /\ machines' \in [MachineIds -> {"none", "active", "revoked"}]
           /\ enrolledWith' \in [MachineIds -> AnyToken]
           /\ transactions' \in [{"here", "elsewhere"} -> [token : AnyToken, previous : AnyMachine]]
           /\ \A y \in {"here", "elsewhere"} : y # x => transactions'[y] = transactions[y]
<1>1. /\ transactions' \in [{"here", "elsewhere"} -> [token : AnyToken, previous : AnyMachine]]
      /\ \A y \in {"here", "elsewhere"} :
            transactions'[y] = IF y = x THEN Unlocked ELSE transactions[y]
  BY DEF enrollMachine, EnrollmentTypes, Unlocked, AnyToken, AnyMachine
<1> DEFINE t == transactions[x].token
<1>2. /\ t \in EnrollmentTokens /\ tokens[t] # "used"
      /\ \A y \in {"here", "elsewhere"} : transactions[y].token = t => x = y
  BY DEF enrollMachine, TokensInv, EnrollmentTypes
<1>3. DOMAIN transactions = {"here", "elsewhere"} /\ DOMAIN transactions' = {"here", "elsewhere"}
  BY <1>1 DEF EnrollmentTypes
<1>4. \A y \in DOMAIN transactions' : transactions'[y] # Unlocked =>
          /\ transactions'[y].token \in EnrollmentTokens \ {t}
          /\ tokens[transactions'[y].token] # "used"
          /\ \A z \in DOMAIN transactions' : transactions'[y].token = transactions'[z].token => y = z
  <2> SUFFICES ASSUME NEW y \in {"here", "elsewhere"}, transactions'[y] # Unlocked
               PROVE  /\ transactions'[y].token \in EnrollmentTokens \ {t}
                      /\ tokens[transactions'[y].token] # "used"
                      /\ \A z \in {"here", "elsewhere"} :
                            transactions'[y].token = transactions'[z].token => y = z
    BY <1>3
  <2>1. y # x /\ transactions'[y] = transactions[y] BY <1>1
  <2>2. /\ transactions[y].token \in EnrollmentTokens /\ tokens[transactions[y].token] # "used"
        /\ \A z \in {"here", "elsewhere"} : transactions[y].token = transactions[z].token => y = z
    BY <1>3, <2>1 DEF TokensInv
  <2>3. Unlocked.token = NoToken BY DEF Unlocked
  <2>4. transactions[y].token # t BY <1>2, <2>1
  <2> QED BY <1>1, <2>1, <2>2, <2>3, <2>4, LocalBounds
<1> HIDE DEF t
<1>5. CASE PreviousMachineActive(x)
  <2>1. UNCHANGED <<tokens, machines, enrolledWith>> BY <1>5 DEF enrollMachine
  <2>3. TokensInv' BY <1>4, <2>1 DEF TokensInv, TokenEnrollsOnce
  <2>4. MachinesAge BY <2>1 DEF MachinesAge
  <2> QED BY <1>1, <2>1, <2>3, <2>4 DEF EnrollmentTypes
<1>6. CASE ~PreviousMachineActive(x)
  <2>1. /\ machines[m] = "none" /\ tokens' = [tokens EXCEPT ![t] = "used"]
        /\ machines' = [machines EXCEPT ![m] = "active"]
        /\ enrolledWith' = [enrolledWith EXCEPT ![m] = t]
    BY <1>6 DEF enrollMachine, t
  <2>2. /\ tokens' \in [EnrollmentTokens -> {"unissued", "issued", "expired", "used"}]
        /\ machines' \in [MachineIds -> {"none", "active", "revoked"}]
        /\ enrolledWith' \in [MachineIds -> AnyToken]
    BY <1>2, <2>1 DEF EnrollmentTypes, AnyToken
  <2>3. MachinesAge BY <2>1 DEF MachinesAge, EnrollmentTypes
  <2>5. \A u \in EnrollmentTokens : tokens'[u] = IF u = t THEN "used" ELSE tokens[u]
    BY <1>2, <2>1 DEF EnrollmentTypes
  <2>6. \A n \in MachineIds : enrolledWith'[n] = IF n = m THEN t ELSE enrolledWith[n]
    BY <2>1 DEF EnrollmentTypes
  <2>7. \A n \in MachineIds : enrolledWith[n] \in EnrollmentTokens \/ enrolledWith[n] = NoToken
    BY DEF EnrollmentTypes, AnyToken
  <2>8. \A y \in DOMAIN transactions' : transactions'[y] # Unlocked =>
          /\ transactions'[y].token \in EnrollmentTokens
          /\ tokens'[transactions'[y].token] # "used"
          /\ \A z \in DOMAIN transactions' : transactions'[y].token = transactions'[z].token => y = z
    BY <1>4, <2>5
  <2>9. \A n \in MachineIds : enrolledWith'[n] # NoToken => tokens'[enrolledWith'[n]] = "used"
    BY <1>2, <2>5, <2>6, <2>7 DEF TokensInv
  <2>10. TokenEnrollsOnce'
    <3>1. \A n \in MachineIds : enrolledWith[n] # t BY <1>2, LocalBounds DEF TokensInv
    <3> QED BY <2>6, <3>1 DEF TokensInv, TokenEnrollsOnce
  <2> QED BY <1>1, <2>2, <2>3, <2>8, <2>9, <2>10 DEF TokensInv
<1> QED BY <1>5, <1>6

\* What happens on the Server, on other hosts and to processes meanwhile.
LEMMA ServerStep ==
    ASSUME EnrollmentInv,
           \/ \E p \in Profiles : ProcessEnds(p)
           \/ \E t \in EnrollmentTokens : createEnrollmentToken(t) \/ TokenExpires(t)
           \/ \E m \in MachineIds : revokeEnrolledMachine(m)
           \/ EnrollElsewhere \/ RebootAndLogin
    PROVE  EnrollmentInv'
<1> USE DEF hostVars, enrollmentVars
<1>0. EnrollmentTypes /\ TokensInv BY DEF EnrollmentInv
<1>1. ASSUME NEW p \in Profiles, ProcessEnds(p) PROVE EnrollmentInv'
  <2>1. UNCHANGED <<platform, config, held, package, enrollmentVars, shell>>
    BY <1>1 DEF ProcessEnds
  <2>2. MachinesAge BY <2>1 DEF MachinesAge
  <2>3. EnrollmentTypes' BY <1>0, <2>1 DEF EnrollmentTypes
  <2>4. TokensInv' BY <1>0, <2>1 DEF TokensInv, TokenEnrollsOnce
  <2> QED BY <2>1, <2>2, <2>3, <2>4, HeldRests, EnrollingRests DEF EnrollmentInv
<1>2. ASSUME NEW t \in EnrollmentTokens, createEnrollmentToken(t) \/ TokenExpires(t)
      PROVE  EnrollmentInv'
  <2>1. UNCHANGED <<hostVars, transactions, machines, enrolledWith, shell>>
    BY <1>2 DEF createEnrollmentToken, TokenExpires
  <2>2. \E v \in {"issued", "expired"} :
            tokens' = [tokens EXCEPT ![t] = v] /\ tokens[t] # "used"
    BY <1>2 DEF createEnrollmentToken, TokenExpires
  <2>3. MachinesAge BY <2>1 DEF MachinesAge
  <2>4. EnrollmentTypes' BY <1>0, <2>1, <2>2 DEF EnrollmentTypes
  <2>5. \A u \in EnrollmentTokens : tokens'[u] = "used" <=> tokens[u] = "used"
    BY <1>0, <2>2 DEF EnrollmentTypes
  <2>6. \A m \in MachineIds : enrolledWith[m] \in EnrollmentTokens \/ enrolledWith[m] = NoToken
    BY <1>0 DEF EnrollmentTypes, AnyToken
  <2>7. TokensInv' BY <1>0, <2>1, <2>5, <2>6 DEF TokensInv, TokenEnrollsOnce
  <2> QED BY <2>1, <2>3, <2>4, <2>7, HeldRests, EnrollingRests DEF EnrollmentInv
<1>3. ASSUME NEW m \in MachineIds, revokeEnrolledMachine(m) PROVE EnrollmentInv'
  <2>1. /\ UNCHANGED <<hostVars, tokens, transactions, enrolledWith, shell>>
        /\ machines' = [machines EXCEPT ![m] = "revoked"]
    BY <1>3 DEF revokeEnrolledMachine
  <2>2. MachinesAge BY <1>0, <2>1 DEF MachinesAge, EnrollmentTypes
  <2>3. EnrollmentTypes' BY <1>0, <2>1 DEF EnrollmentTypes
  <2>4. TokensInv' BY <1>0, <2>1 DEF TokensInv, TokenEnrollsOnce
  <2> QED BY <2>1, <2>2, <2>3, <2>4, HeldRests, EnrollingRests DEF EnrollmentInv
<1>4. CASE EnrollElsewhere
  <2>1. UNCHANGED <<hostVars, shell>> BY <1>4 DEF EnrollElsewhere
  <2>2. ASSUME NEW t \in EnrollmentTokens, lockToken("elsewhere", t, NoMachine),
               UNCHANGED <<tokens, machines, enrolledWith>>
        PROVE  EnrollmentInv'
    <3>1. /\ TokensInv' /\ transactions'["here"] = transactions["here"]
          /\ transactions' \in [{"here", "elsewhere"} -> [token : AnyToken, previous : AnyMachine]]
      BY <1>0, <2>2, LockKeeps DEF AnyMachine
    <3>2. MachinesAge BY <2>2 DEF MachinesAge
    <3>3. EnrollmentTypes' BY <1>0, <2>1, <2>2, <3>1 DEF EnrollmentTypes
    <3> QED BY <2>1, <3>1, <3>2, <3>3, HeldRests, EnrollingRests DEF EnrollmentInv
  <2>3. ASSUME NEW x \in DOMAIN transactions, NEW m \in MachineIds,
               x = "here" => ~Running("enroll"), enrollMachine(x, m)
        PROVE  EnrollmentInv'
    <3>1. x \in {"here", "elsewhere"} BY <1>0 DEF EnrollmentTypes
    <3>2. EnrollmentTypes' BY <1>0, <2>1, <2>3, <3>1, EnrollKeeps DEF EnrollmentTypes
    <3>3. TokensInv' /\ MachinesAge BY <1>0, <2>3, <3>1, EnrollKeeps
    <3>4. Running("enroll") => transactions'["here"] = transactions["here"]
      BY <1>0, <2>3, <3>1, EnrollKeeps
    <3> QED BY <2>1, <3>2, <3>3, <3>4, HeldRests, EnrollingRests DEF EnrollmentInv
  <2> QED BY <1>4, <2>2, <2>3 DEF EnrollElsewhere
<1>5. CASE RebootAndLogin
  <2>1. /\ NoCommand \in ShellRows /\ NoCommand.steps \in Seq(OtherSteps)
        /\ NoCommand.command # "update"
    BY DEF NoCommand, ShellRows, AnyMachine, AnyToken, AnyPackage
  <2>2. shell' = NoCommand /\ UNCHANGED <<restVars, package>> BY <1>5 DEF RebootAndLogin, restVars
  <2>3. package' \in AnyPackage BY <1>0, <2>2 DEF EnrollmentTypes
  <2> QED BY <2>1, <2>2, <2>3, OtherStep
<1> QED BY <1>1, <1>2, <1>3, <1>4, <1>5

\* What is known of a command that is at one of an enrollment's steps.
LEMMA EnrollmentRuns ==
    ASSUME EnrollmentInv, NEW call \in {"lock", "enroll", "open", "save"}, Running(call)
    PROVE  LET p == shell.profile IN
           /\ p \in Profiles /\ shell.command = "up" /\ shell.token \in EnrollmentTokens
           /\ shell.steps # <<>> /\ Here = p
           /\ call = "lock" => AtLock(p) /\ config[p] = shell.previous
           /\ call = "enroll" =>
                 /\ AtEnroll(p) /\ config[p] = shell.previous
                 /\ transactions["here"] = [token |-> shell.token, previous |-> shell.previous]
           /\ call = "open" => AtOpen(p) /\ config[p] = shell.previous /\ Replaces(p)
           /\ call = "save" => AtSave(p) /\ Replaces(p)
<1> DEFINE p == shell.profile
<1>1. shell.steps \notin Seq(OtherSteps)
  <2>1. SUFFICES ASSUME shell.steps \in Seq(OtherSteps) PROVE FALSE OBVIOUS
  <2>2. Head(shell.steps) \in OtherSteps BY <2>1 DEF Running
  <2> QED BY <2>2 DEF Running, OtherSteps, OtherCalls, ManagerCalls
<1>2. AtLock(p) \/ AtEnroll(p) \/ AtOpen(p) \/ AtSave(p)
  BY <1>1 DEF EnrollmentInv, EnrollingInv
<1>3. Head(shell.steps).profile = p
  <2>1. CASE AtLock(p) BY <2>1, FirstGoes DEF AtLock, Step
  <2>2. CASE AtEnroll(p) BY <2>2, FirstGoes DEF AtEnroll, Step
  <2>3. CASE AtOpen(p) BY <2>3, FirstGoes DEF AtOpen, Step
  <2>4. CASE AtSave(p) BY <2>4, FirstGoes DEF AtSave, Step
  <2> QED BY <1>2, <2>1, <2>2, <2>3, <2>4
<1> QED BY <1>1, <1>3, EnrollmentCalls DEF EnrollmentInv, EnrollingInv, Running, Here

\* Every rest of an enrollment is a row of a command.
LEMMA RestTypes ==
    ASSUME NEW p \in Profiles, NEW q \in Seq(OtherSteps)
    PROVE  /\ <<Step("enroll", p), Step("open", p), Step("save", p)>> \o q
                 \in Seq(OtherSteps \cup EnrollmentSteps)
           /\ <<Step("open", p), Step("save", p)>> \o q \in Seq(OtherSteps \cup EnrollmentSteps)
           /\ <<Step("save", p)>> \o q \in Seq(OtherSteps \cup EnrollmentSteps)
<1>1. /\ Step("enroll", p) \in EnrollmentSteps /\ Step("open", p) \in EnrollmentSteps
      /\ Step("save", p) \in EnrollmentSteps
  BY DEF EnrollmentSteps, Step
<1>2. q \in Seq(OtherSteps \cup EnrollmentSteps) OBVIOUS
<1>3. /\ <<Step("enroll", p), Step("open", p), Step("save", p)>> \in Seq(OtherSteps \cup EnrollmentSteps)
      /\ <<Step("open", p), Step("save", p)>> \in Seq(OtherSteps \cup EnrollmentSteps)
      /\ <<Step("save", p)>> \in Seq(OtherSteps \cup EnrollmentSteps)
  BY <1>1
<1> QED BY <1>2, <1>3

\* The token's row is locked for the Machine the configuration names.
LEMMA LockStep == ASSUME EnrollmentInv, LockToken PROVE EnrollmentInv'
<1> DEFINE p == shell.profile
<1> USE DEF hostVars, enrollmentVars
<1>0. /\ EnrollmentTypes /\ TokensInv /\ Running("lock")
      /\ UNCHANGED <<hostVars, tokens, machines, enrolledWith>>
  BY DEF EnrollmentInv, LockToken
<1>1. /\ p \in Profiles /\ shell.command = "up" /\ shell.token \in EnrollmentTokens
      /\ AtLock(p) /\ config[p] = shell.previous
  BY <1>0, EnrollmentRuns
<1>2. CASE lockToken("here", shell.token, shell.previous) /\ Continue
  <2>1. PICK q \in Seq(OtherSteps) : shell.steps =
            <<Step("lock", p), Step("enroll", p), Step("open", p), Step("save", p)>> \o q
    BY <1>1 DEF AtLock
  <2> DEFINE r == <<Step("enroll", p), Step("open", p), Step("save", p)>> \o q
  <2>2. Tail(shell.steps) = r /\ r # <<>> BY <2>1, FirstGoes
  <2>3. r \in Seq(OtherSteps \cup EnrollmentSteps) BY <1>1, RestTypes
  <2> HIDE DEF r
  <2>4. shell' = [shell EXCEPT !.steps = r] BY <1>2, <2>2 DEF Continue, ContinueWith
  <2>5. /\ shell' \in ShellRows /\ shell'.steps = r /\ shell'.command = "up" /\ shell'.profile = p
        /\ shell'.token = shell.token /\ shell'.previous = shell.previous
    BY <1>0, <1>1, <2>3, <2>4 DEF EnrollmentTypes, ShellRows
  <2>6. shell.previous \in AnyMachine BY <1>0 DEF EnrollmentTypes, ShellRows
  <2>7. /\ TokensInv'
        /\ transactions' \in [{"here", "elsewhere"} -> [token : AnyToken, previous : AnyMachine]]
        /\ transactions'["here"] = [token |-> shell.token, previous |-> shell.previous]
    BY <1>0, <1>1, <1>2, <2>6, LockKeeps
  <2>8. EnrollmentTypes' BY <1>0, <1>1, <2>5, <2>7 DEF EnrollmentTypes
  <2>9. HeldInv' BY <1>0, HeldRests DEF MachinesAge
  <2>10. AtEnroll(p)' BY <2>5 DEF AtEnroll, r
  <2>11. EnrollingInv' BY <1>0, <1>1, <2>5, <2>7, <2>10 DEF EnrollingInv
  <2> QED BY <2>7, <2>8, <2>9, <2>11 DEF EnrollmentInv
<1>3. CASE GiveUp /\ UNCHANGED transactions
  <2>1. package' \in AnyPackage BY <1>0 DEF EnrollmentTypes
  <2> QED BY <1>0, <1>3, <2>1, GivesUp, OtherStep DEF restVars
<1> QED BY <1>2, <1>3 DEF LockToken

\* The Machine enrolled takes the place of one that is active no more.
LEMMA EnrollStep == ASSUME EnrollmentInv, NEW m \in MachineIds, Enroll(m) PROVE EnrollmentInv'
<1> DEFINE p == shell.profile
<1> USE DEF hostVars
<1>0. /\ EnrollmentTypes /\ TokensInv /\ HeldInv /\ Running("enroll") /\ UNCHANGED hostVars
      /\ enrollMachine("here", m)
  BY DEF EnrollmentInv, Enroll
<1>1. /\ p \in Profiles /\ shell.command = "up" /\ shell.token \in EnrollmentTokens
      /\ AtEnroll(p) /\ config[p] = shell.previous
      /\ transactions["here"] = [token |-> shell.token, previous |-> shell.previous]
  BY <1>0, EnrollmentRuns
<1>2. /\ TokensInv' /\ MachinesAge
      /\ tokens' \in [EnrollmentTokens -> {"unissued", "issued", "expired", "used"}]
      /\ machines' \in [MachineIds -> {"none", "active", "revoked"}]
      /\ enrolledWith' \in [MachineIds -> AnyToken]
      /\ transactions' \in [{"here", "elsewhere"} -> [token : AnyToken, previous : AnyMachine]]
  BY <1>0, EnrollKeeps
<1>3. HeldInv' BY <1>0, <1>2, HeldRests
<1>4. CASE /\ machines' # machines
           /\ ContinueWith([shell EXCEPT !.machine = m], Tail(shell.steps))
  <2>1. PICK q \in Seq(OtherSteps) :
            shell.steps = <<Step("enroll", p), Step("open", p), Step("save", p)>> \o q
    BY <1>1 DEF AtEnroll
  <2> DEFINE r == <<Step("open", p), Step("save", p)>> \o q
  <2>2. Tail(shell.steps) = r /\ r # <<>> BY <2>1, FirstGoes
  <2>3. r \in Seq(OtherSteps \cup EnrollmentSteps) BY <1>1, RestTypes
  <2> HIDE DEF r
  <2>4. shell' = [shell EXCEPT !.machine = m, !.steps = r]
    BY <1>4, <2>2 DEF ContinueWith
  <2>5. /\ shell' \in ShellRows /\ shell'.steps = r /\ shell'.command = "up" /\ shell'.profile = p
        /\ shell'.token = shell.token /\ shell'.previous = shell.previous /\ shell'.machine = m
    BY <1>0, <1>1, <2>3, <2>4 DEF EnrollmentTypes, ShellRows, AnyMachine
  <2>6. EnrollmentTypes' BY <1>0, <1>1, <1>2, <2>5 DEF EnrollmentTypes
  <2>7. AtOpen(p)' BY <2>5 DEF AtOpen, r
  <2>8. ~PreviousMachineActive("here") /\ machines' = [machines EXCEPT ![m] = "active"]
        /\ machines[m] = "none"
    BY <1>0, <1>4 DEF enrollMachine
  <2>9. \A n \in held[p] : machines[n] # "active"
    <3>1. shell.previous = NoMachine \/ machines[shell.previous] # "active"
      BY <1>1, <2>8 DEF PreviousMachineActive
    <3>2. config[p] \in AnyMachine BY <1>0, <1>1 DEF EnrollmentTypes, ShellRows
    <3> QED BY <1>0, <1>1, <3>1, <3>2 DEF HeldInv, AnyMachine
  <2>10. Replaces(p)'
    <3>1. held'[p] = held[p] /\ held[p] \subseteq MachineIds BY <1>0, <1>1 DEF EnrollmentTypes
    <3>2. \A n \in held[p] : machines[n] # "none" BY <1>0, <1>1 DEF HeldInv
    <3>3. \A n \in held[p] : machines'[n] # "active" BY <1>2, <2>9, <3>1, <3>2 DEF MachinesAge
    <3>4. machines'[m] = "active" BY <1>0, <2>8 DEF EnrollmentTypes
    <3> QED BY <2>5, <3>1, <3>3, <3>4 DEF Replaces
  <2>11. EnrollingInv' BY <1>0, <1>1, <2>5, <2>7, <2>10 DEF EnrollingInv
  <2> QED BY <1>2, <1>3, <2>6, <2>11 DEF EnrollmentInv
<1>5. CASE GiveUp
  <2>1. /\ shell' \in ShellRows /\ shell'.steps \in Seq(OtherSteps)
        /\ shell'.command = "update" => shell'.profile \in Profiles
    BY <1>0, <1>5, GivesUp
  <2>2. EnrollmentTypes' BY <1>0, <1>2, <2>1 DEF EnrollmentTypes
  <2>3. EnrollingInv' BY <2>1 DEF EnrollingInv
  <2> QED BY <1>2, <1>3, <2>2, <2>3 DEF EnrollmentInv
<1> QED BY <1>4, <1>5 DEF Enroll

\* The configuration is opened for the Machine that was enrolled.
LEMMA OpenStep == ASSUME EnrollmentInv, OpenConfig PROVE EnrollmentInv'
<1> DEFINE p == shell.profile
<1> USE DEF enrollmentVars
<1>0. /\ EnrollmentTypes /\ HeldInv /\ Running("open")
      /\ UNCHANGED <<platform, held, service, package, enrollmentVars>>
  BY DEF EnrollmentInv, OpenConfig
<1>1. /\ p \in Profiles /\ shell.command = "up" /\ shell.token \in EnrollmentTokens /\ Here = p
      /\ AtOpen(p) /\ config[p] = shell.previous /\ Replaces(p)
  BY <1>0, EnrollmentRuns
<1>2. TokensInv' BY <1>0 DEF EnrollmentInv, TokensInv, TokenEnrollsOnce
<1>3. CASE config' = [config EXCEPT ![Here] = Damaged] /\ Continue
  <2>1. PICK q \in Seq(OtherSteps) : shell.steps = <<Step("open", p), Step("save", p)>> \o q
    BY <1>1 DEF AtOpen
  <2> DEFINE r == <<Step("save", p)>> \o q
  <2>2. Tail(shell.steps) = r /\ r # <<>> BY <2>1, FirstGoes
  <2>3. r \in Seq(OtherSteps \cup EnrollmentSteps) BY <1>1, RestTypes
  <2> HIDE DEF r
  <2>4. shell' = [shell EXCEPT !.steps = r] BY <1>3, <2>2 DEF Continue, ContinueWith
  <2>5. /\ shell' \in ShellRows /\ shell'.steps = r /\ shell'.command = "up" /\ shell'.profile = p
        /\ shell'.token = shell.token /\ shell'.machine = shell.machine
    BY <1>0, <1>1, <2>3, <2>4 DEF EnrollmentTypes, ShellRows
  <2>6. EnrollmentTypes' BY <1>0, <1>1, <1>3, <2>5 DEF EnrollmentTypes
  <2>7. HeldInv'
    <3>1. \A o \in Profiles : config'[o] = IF o = p THEN Damaged ELSE config[o]
      BY <1>0, <1>1, <1>3 DEF EnrollmentTypes
    <3> QED BY <1>0, <3>1, LocalBounds DEF HeldInv
  <2>8. AtSave(p)' BY <2>5 DEF AtSave, r
  <2>9. Replaces(p)' BY <1>0, <1>1, <2>5 DEF Replaces
  <2>10. EnrollingInv' BY <1>1, <2>5, <2>8, <2>9 DEF EnrollingInv
  <2> QED BY <1>2, <2>6, <2>7, <2>10 DEF EnrollmentInv
<1>4. CASE GiveUp /\ UNCHANGED config
  <2>1. package' \in AnyPackage BY <1>0 DEF EnrollmentTypes
  <2> QED BY <1>0, <1>4, <2>1, GivesUp, OtherStep DEF restVars
<1> QED BY <1>3, <1>4 DEF OpenConfig

\* It is written, and the Profile is that Machine from now on.
LEMMA SaveStep == ASSUME EnrollmentInv, SaveConfig PROVE EnrollmentInv'
<1> DEFINE p == shell.profile  n == shell.machine
<1> USE DEF enrollmentVars
<1>0. /\ EnrollmentTypes /\ HeldInv /\ Running("save") /\ Continue
      /\ UNCHANGED <<platform, service, package, enrollmentVars>>
  BY DEF EnrollmentInv, SaveConfig
<1>1. p \in Profiles /\ shell.command = "up" /\ Here = p /\ AtSave(p) /\ Replaces(p)
  <2>1. Running("save") BY <1>0
  <2> QED BY <2>1, EnrollmentRuns
<1>2. TokensInv' BY <1>0 DEF EnrollmentInv, TokensInv, TokenEnrollsOnce
<1>3. Tail(shell.steps) \in Seq(OtherSteps)
  <2>1. PICK q \in Seq(OtherSteps) : shell.steps = <<Step("save", p)>> \o q BY <1>1 DEF AtSave
  <2> DEFINE first == Step("save", p)
  <2> HIDE DEF first
  <2>2. Tail(<<first>> \o q) = q BY FirstGoes
  <2> QED BY <2>1, <2>2 DEF first
<1>4. /\ shell' \in ShellRows /\ shell'.steps \in Seq(OtherSteps)
      /\ shell'.command = "update" => shell'.profile \in Profiles
  BY <1>0, <1>1, <1>3, GoesOn DEF Continue, EnrollmentTypes
<1>5. n \in MachineIds /\ machines[n] # "none" /\ \A m \in held[p] : machines[m] # "active"
  BY <1>1 DEF Replaces
<1>6. \A o \in Profiles : /\ config'[o] = IF o = p THEN n ELSE config[o]
                          /\ held'[o] = IF o = p THEN held[o] \cup {n} ELSE held[o]
  BY <1>0, <1>1 DEF SaveConfig, EnrollmentTypes
<1>7. EnrollmentTypes'
  BY <1>0, <1>1, <1>4, <1>5 DEF EnrollmentTypes, SaveConfig, AnyMachine
<1>8. HeldInv'
  <2>1. machines' = machines BY <1>0
  <2> HIDE DEF n, p
  <2>2. \A o \in Profiles : \A m \in held'[o] : m \in held[o] \/ (o = p /\ m = n)
    <3> SUFFICES ASSUME NEW o \in Profiles, NEW m \in held'[o] PROVE m \in held[o] \/ (o = p /\ m = n)
      OBVIOUS
    <3>1. held'[o] = IF o = p THEN held[o] \cup {n} ELSE held[o] BY <1>6
    <3> QED BY <3>1
  <2>3. \A o \in Profiles : \A m \in held'[o] : machines[m] # "none"
    BY <1>0, <1>5, <2>2 DEF HeldInv
  <2>4. \A m \in held'[p] : machines[m] = "active" => m = n BY <1>1, <1>5, <2>2
  <2>5. \A o \in Profiles : o # p => held'[o] = held[o] /\ config'[o] = config[o] BY <1>6
  <2>6. config'[p] = n BY <1>1, <1>6
  <2>7. \A o \in Profiles : \A k, m \in held'[o] :
            machines[k] = "active" /\ machines[m] = "active" => k = m
    BY <1>0, <2>4, <2>5 DEF HeldInv
  <2>8. \A o \in Profiles : config'[o] = NoMachine => held'[o] = {}
    BY <1>0, <1>5, <2>5, <2>6, LocalBounds DEF HeldInv
  <2>9. \A o \in Profiles : config'[o] \in MachineIds =>
            \A m \in held'[o] : machines[m] = "active" => m = config'[o]
    BY <1>0, <2>4, <2>5, <2>6 DEF HeldInv
  <2> QED BY <2>1, <2>3, <2>7, <2>8, <2>9 DEF HeldInv
<1>9. EnrollingInv' BY <1>4 DEF EnrollingInv
<1> QED BY <1>2, <1>7, <1>8, <1>9 DEF EnrollmentInv

\* Every step of a host and of the enrollments keeps the invariant.
LEMMA EnrollmentStep == EnrollmentInv /\ [LocalNext]_localVars => EnrollmentInv'
<1> SUFFICES ASSUME EnrollmentInv, [LocalNext]_localVars PROVE EnrollmentInv' OBVIOUS
<1>1. CASE UNCHANGED localVars
  <2>1. UNCHANGED <<platform, config, held, package, tokens, transactions, machines, enrolledWith, shell>>
    BY <1>1 DEF localVars, hostVars, enrollmentVars
  <2>2. MachinesAge BY <2>1 DEF MachinesAge
  <2>3. EnrollmentTypes' /\ TokensInv'
    BY <2>1 DEF EnrollmentInv, EnrollmentTypes, TokensInv, TokenEnrollsOnce
  <2> QED BY <2>1, <2>2, <2>3, HeldRests, EnrollingRests DEF EnrollmentInv
<1>2. CASE LocalNext
  BY <1>2, CommandsEntered, UpEntered, ShellStep, ServiceStep, DirectoryStep, ServerStep, LockStep,
     EnrollStep, OpenStep, SaveStep
  DEF LocalNext
<1> QED BY <1>1, <1>2

\* A token enrolls one Machine, whoever presents it; of the Machines a Profile
\* has been, at most one is active, however its re-enrollments were refused,
\* lost or cut short.  (enrollMachine, enrollClient)
THEOREM LocalEnrollmentIsExclusive == LocalSpec => []EnrollmentIsExclusive
<1>1. EnrollmentInv => EnrollmentIsExclusive
  <2> SUFFICES ASSUME EnrollmentInv PROVE EnrollmentIsExclusive OBVIOUS
  <2>1. TokenEnrollsOnce BY DEF EnrollmentInv, TokensInv
  <2>2. ASSUME NEW p \in Profiles
        PROVE  Cardinality({m \in held[p] : machines[m] = "active"}) <= 1
    <3> DEFINE active == {m \in held[p] : machines[m] = "active"}
    <3>1. \A m, n \in active : m = n BY DEF EnrollmentInv, HeldInv
    <3>2. CASE active = {} BY <3>2, FS_EmptySet
    <3>3. CASE active # {}
      <4>1. PICK m \in active : TRUE BY <3>3
      <4>2. active = {m} BY <3>1, <4>1
      <4>3. Cardinality({m}) = 1 BY FS_Singleton
      <4> QED BY <4>2, <4>3
    <3> QED BY <3>2, <3>3
  <2> QED BY <2>1, <2>2 DEF EnrollmentIsExclusive, OneActiveIdentity
<1> QED BY EnrollmentInit, EnrollmentStep, <1>1, PTL DEF LocalSpec
=============================================================================
