---------------------------- MODULE SessionLifecycle ----------------------------
(*****************************************************************************)
(* What Odyshell promises about temporary authority, without the database,   *)
(* the API calls or the wire.  A Session is a grant of authority that is     *)
(* requested, granted by an Operator role or by a Human decision, wound down *)
(* and ended; work (Commands) is accepted inside it and stops with it.       *)
(*                                                                           *)
(* No phase is ever left backwards, nothing is granted without a mandate,    *)
(* and whenever the Server withdraws a grant every piece of work it admitted *)
(* is told to stop in the same step.  SessionStore implements this.          *)
(*****************************************************************************)

CONSTANTS
    Sessions,     \* Session identifiers
    Commands,     \* Command identifiers
    SessionOf     \* [Commands -> Sessions], the Session each Command was submitted to

VARIABLES
    phase,        \* [Sessions -> Phases]
    mandate,      \* Sessions an Operator role or a Human stands behind
    work          \* [Commands -> WorkPhases]

vars == <<phase, mandate, work>>

Phases == {"none", "requested", "granted", "ending", "ended"}
WorkPhases == {"none", "accepted", "stopping", "ended"}

\* Phases, mandates and work are what they are said to be.
TypeOK ==
    /\ phase \in [Sessions -> Phases]
    /\ mandate \subseteq Sessions
    /\ work \in [Commands -> WorkPhases]

Init ==
    /\ phase = [s \in Sessions |-> "none"]
    /\ mandate = {}
    /\ work = [c \in Commands |-> "none"]

-----------------------------------------------------------------------------
(* Granting authority *)

\* A Standard Agent asks; nothing is granted yet.
Propose(s) ==
    /\ phase[s] = "none"
    /\ phase' = [phase EXCEPT ![s] = "requested"]
    /\ UNCHANGED <<mandate, work>>

\* An Operator is granted authority as it asks, a Standard Agent when a Human
\* approves; either way the grant has somebody behind it.
Grant(s) ==
    /\ phase[s] \in {"none", "requested"}
    /\ phase' = [phase EXCEPT ![s] = "granted"]
    /\ mandate' = mandate \cup {s}
    /\ UNCHANGED work

\* A request nobody granted is refused or runs out.
Refuse(s) ==
    /\ phase[s] = "requested"
    /\ phase' = [phase EXCEPT ![s] = "ended"]
    /\ UNCHANGED <<mandate, work>>

-----------------------------------------------------------------------------
(* Ending authority *)

\* The Server withdraws any number of Sessions at once (an Agent cancels, a
\* sweep finds them expired, an administrator revokes a scope).  Each either
\* waits for the Machine ("ending") or is over ("ended"), and all their
\* accepted work is told to stop by the same step.
Withdraw(S) ==
    /\ \A s \in S : phase[s] \in {"requested", "granted", "ending"}
    /\ phase' \in [Sessions -> Phases]
    /\ \A s \in Sessions :
          IF s \in S
          THEN /\ phase'[s] \in {"ending", "ended"}
               /\ phase[s] = "ending" => phase'[s] = "ending"
          ELSE phase'[s] = phase[s]
    /\ work' = [c \in Commands |->
                  IF SessionOf[c] \in S /\ work[c] = "accepted"
                  THEN "stopping" ELSE work[c]]
    /\ UNCHANGED mandate

\* An Agent completes a Session: only when none of its work is still going.
Complete(s) ==
    /\ phase[s] \in {"requested", "granted", "ending"}
    /\ \A c \in Commands : SessionOf[c] = s => work[c] \in {"none", "ended"}
    /\ phase' = [phase EXCEPT ![s] = "ended"]
    /\ UNCHANGED <<mandate, work>>

\* The Machine reports that the Session is closed or could not be opened.
MachineEnds(s) ==
    /\ phase[s] \in {"granted", "ending"}
    /\ phase' = [phase EXCEPT ![s] = "ended"]
    /\ UNCHANGED <<mandate, work>>

-----------------------------------------------------------------------------
(* Work *)

Accept(c) ==
    /\ work[c] = "none"
    /\ SessionOf[c] \in mandate
    /\ work' = [work EXCEPT ![c] = "accepted"]
    /\ UNCHANGED <<phase, mandate>>

Stop(c) ==
    /\ work[c] = "accepted"
    /\ work' = [work EXCEPT ![c] = "stopping"]
    /\ UNCHANGED <<phase, mandate>>

EndWork(c) ==
    /\ work[c] \in {"accepted", "stopping"}
    /\ work' = [work EXCEPT ![c] = "ended"]
    /\ UNCHANGED <<phase, mandate>>

-----------------------------------------------------------------------------

Next ==
    \/ \E s \in Sessions :
          \/ Propose(s) \/ Grant(s) \/ Refuse(s)
          \/ Complete(s) \/ MachineEnds(s)
    \/ \E S \in SUBSET Sessions : Withdraw(S)
    \/ \E c \in Commands : Accept(c) \/ Stop(c) \/ EndWork(c)

Spec == Init /\ [][Next]_vars

=============================================================================
