--------------------------------- MODULE CliAuth ---------------------------------
(*****************************************************************************)
(* The CLI's sign-in: invocations of `ods` that share cli-auth.json and sign *)
(* in, sign out, or call a Server with the tokens they have read, after a    *)
(* refresh when these are about to expire.  Invocations lock nothing.        *)
(*                                                                           *)
(* A grant is what one sign-in at a Server began; its tokens are numbered by *)
(* its refreshes.  What the identity provider answers is external: it may    *)
(* rotate the refresh token or keep it, and refuse one it has replaced.      *)
(*****************************************************************************)
EXTENDS Naturals

CONSTANTS
    Invocations,
    Servers, AnyServer,   \* AnyServer: no --server is given
    Missing, Partial,     \* no file; one whose content is not written yet
    Grants,               \* sign-ins that may ever be made, numbered
    MaxRefresh,           \* bound on the refreshes of a grant
    MaxUses               \* bound on the commands that are entered

VARIABLES
    file,      \* cli-auth.json
    run,       \* what each invocation does
    grantAt,   \* the Server each grant was made for, AnyServer before it is
    current,   \* the refresh token each grant's provider accepts
    aged,      \* the access tokens that have expired or are about to
    uses

cliVars == <<file, run, grantAt, current, aged, uses>>

Tokens == [grant : Grants, access : 0..MaxRefresh, refresh : 0..MaxRefresh]
Stored == [server : Servers, tokens : Tokens]

\* AnyServer is no address, and what is stored is no stand-in for its absence.
ASSUME CliBounds ==
    /\ AnyServer \notin Servers
    /\ Grants \subseteq Nat \ {0}
    /\ MaxRefresh \in Nat /\ MaxUses \in Nat
    /\ Missing \notin Stored /\ Partial \notin Stored

Nothing == [server |-> AnyServer, tokens |-> [grant |-> 0, access |-> 0, refresh |-> 0]]
AtRest == [stage |-> "none", selected |-> AnyServer, stored |-> Nothing]
Stages == {"none", "browser", "exchange", "reading", "refreshing", "truncating",
           "writing", "sending"}

CliTypeOK ==
    /\ file \in Stored \cup {Missing, Partial}
    /\ run \in [Invocations -> [stage : Stages, selected : Servers \cup {AnyServer},
                                stored : Stored \cup {Nothing}]]
    /\ grantAt \in [Grants -> Servers \cup {AnyServer}]
    /\ current \in [Grants -> 0..MaxRefresh]
    /\ aged \subseteq Grants \X (0..MaxRefresh)
    /\ uses \in 0..MaxUses

CliInit ==
    /\ file = Missing
    /\ run = [i \in Invocations |-> AtRest]
    /\ grantAt = [g \in Grants |-> AnyServer]
    /\ current = [g \in Grants |-> 0]
    /\ aged = {}
    /\ uses = 0

Reaches(i, stage) == run' = [run EXCEPT ![i].stage = stage]
Exits(i) == run' = [run EXCEPT ![i] = AtRest]
Begins(i, stage, server) ==
    /\ run[i] = AtRest
    /\ uses < MaxUses /\ uses' = uses + 1
    /\ run' = [run EXCEPT ![i] = [AtRest EXCEPT !.stage = stage, !.selected = server]]

\* Any step of an invocation may fail, and it may be interrupted.
Fails(i) ==
    /\ run[i].stage \notin {"none"}
    /\ Exits(i)
    /\ UNCHANGED <<file, grantAt, current, aged, uses>>

-----------------------------------------------------------------------------
(* login *)

login(i, s) ==
    /\ Begins(i, "browser", s)
    /\ UNCHANGED <<file, grantAt, current, aged>>

\* The callback's listener: another state, no code or an error ends the
\* sign-in (Fails), as its timeout does.
Callback(i) ==
    /\ run[i].stage = "browser"
    /\ Reaches(i, "exchange")
    /\ UNCHANGED <<file, grantAt, current, aged, uses>>

Exchange(i) ==
    /\ run[i].stage = "exchange"
    /\ \E g \in Grants :
          /\ grantAt[g] = AnyServer /\ \A f \in Grants : f < g => grantAt[f] # AnyServer
          /\ grantAt' = [grantAt EXCEPT ![g] = run[i].selected]
          /\ run' = [run EXCEPT ![i].stage = "truncating",
                 ![i].stored = [server |-> run[i].selected,
                                tokens |-> [grant |-> g, access |-> 0, refresh |-> 0]]]
    /\ UNCHANGED <<file, current, aged, uses>>

-----------------------------------------------------------------------------
(* authenticatedFetch *)

Call(i, s) ==
    /\ Begins(i, "reading", s)
    /\ UNCHANGED <<file, grantAt, current, aged>>

\* A file that is not there, or is not whole, is as good as none, and another
\* Server's is refused: both end the invocation (Fails).
readAuthentication(i) ==
    /\ run[i].stage = "reading" /\ file \notin {Missing, Partial}
    /\ run[i].selected \in {AnyServer, file.server}
    /\ run' = [run EXCEPT ![i].stored = file,
           ![i].stage = IF <<file.tokens.grant, file.tokens.access>> \in aged
                        THEN "refreshing" ELSE "sending"]
    /\ UNCHANGED <<file, grantAt, current, aged, uses>>

\* A variant with a defect: the refreshed tokens go into what the file holds
\* by then.
RefreshMerging(i) ==
    LET t == run[i].stored.tokens IN
    /\ run[i].stage = "refreshing" /\ file \notin {Missing, Partial}
    /\ current[t.grant] = t.refresh /\ t.access < MaxRefresh
    /\ run' = [run EXCEPT ![i].stage = "truncating",
           ![i].stored = [file EXCEPT !.tokens = [t EXCEPT !.access = @ + 1]]]
    /\ UNCHANGED <<file, grantAt, current, aged, uses>>

\* The provider answers with a new access token, and with a new refresh token
\* or without one; it refuses a token it has replaced.
Refresh(i) ==
    LET t == run[i].stored.tokens IN
    /\ run[i].stage = "refreshing"
    /\ current[t.grant] = t.refresh /\ t.access < MaxRefresh
    /\ \E rotated \in {t.refresh, t.access + 1} :
          /\ current' = [current EXCEPT ![t.grant] = rotated]
          /\ run' = [run EXCEPT ![i].stage = "truncating",
                 ![i].stored.tokens = [t EXCEPT !.access = @ + 1, !.refresh = rotated]]
    /\ UNCHANGED <<file, grantAt, aged, uses>>

SendRequest(i) ==
    /\ run[i].stage = "sending"
    /\ Exits(i)
    /\ UNCHANGED <<file, grantAt, current, aged, uses>>

-----------------------------------------------------------------------------
(* The file *)

\* writeFile truncates the file and writes it: others may come in between.
Truncate(i) ==
    /\ run[i].stage = "truncating"
    /\ file' = Partial
    /\ Reaches(i, "writing")
    /\ UNCHANGED <<grantAt, current, aged, uses>>

\* Of two invocations that write at the same time the longer text may show
\* behind the shorter one.  A sign-in is over; a refresh goes on to its request.
writeAuthentication(i) ==
    /\ run[i].stage = "writing"
    /\ file' \in {run[i].stored} \cup
                 (IF file \notin {Missing, Partial, run[i].stored} THEN {Partial} ELSE {})
    /\ IF run[i].stored.tokens.access = 0 THEN Exits(i) ELSE Reaches(i, "sending")
    /\ UNCHANGED <<grantAt, current, aged, uses>>

logout(i) ==
    /\ run[i] = AtRest
    /\ uses < MaxUses /\ uses' = uses + 1
    /\ file' = Missing
    /\ UNCHANGED <<run, grantAt, current, aged>>

TokensAge ==
    /\ file \notin {Missing, Partial}
    /\ aged' = aged \cup {<<file.tokens.grant, file.tokens.access>>}
    /\ UNCHANGED <<file, run, grantAt, current, uses>>

CliNext ==
    \/ \E i \in Invocations :
          \/ \E s \in Servers : login(i, s)
          \/ \E s \in Servers \cup {AnyServer} : Call(i, s)
          \/ Callback(i) \/ Exchange(i) \/ readAuthentication(i) \/ Refresh(i) \/ SendRequest(i)
          \/ Truncate(i) \/ writeAuthentication(i) \/ logout(i) \/ Fails(i)
    \/ TokensAge

CliSpec == CliInit /\ [][CliNext]_cliVars

-----------------------------------------------------------------------------
(* What the sign-in promises *)

\* The tokens of one Server are sent to no other and never come to stand in the
\* file beside another's address, whichever invocations sign in, refresh and
\* write the file at the same time.
TokensStayHome ==
    /\ \A i \in Invocations : run[i].stage = "sending" =>
          grantAt[run[i].stored.tokens.grant] = run[i].stored.server
    /\ file \notin {Missing, Partial} => grantAt[file.tokens.grant] = file.server
=============================================================================
