-------------------------------- MODULE LocalClient --------------------------------
(*****************************************************************************)
(* A host and the `ods` commands that set it up: up (with the enrollment),   *)
(* down, profiles remove, reset and client update, against the platform's    *)
(* service manager, the Server's enrollment transaction and the global       *)
(* package.                                                                  *)
(*                                                                           *)
(* A command is the sequence of its awaited steps; each of them can fail, and*)
(* the host can be rebooted between two of them.  The commands of one user   *)
(* run one after the other.  systemd, launchd and the Task Scheduler are     *)
(* external: what their calls do is taken from how service.ts uses them.     *)
(*****************************************************************************)
EXTENDS Naturals, FiniteSets, SequencesExt

CONSTANTS
    Profiles, Platforms, MachineIds, EnrollmentTokens,
    NoMachine, Damaged,  \* no configuration file; one that was not written to its end
    NoProcess, NoToken, NoProfile,
    Installed,           \* version of the package at first
    Releases,            \* versions that may be the registry's latest
    Broken,              \* a package that does not run
    MaxCommands,         \* bound on the commands the user enters
    MaxRefusals,         \* bound on the calls that fail
    MaxReboots           \* bound on the host's reboots

\* A version is its three numbers.
ASSUME ReleaseNumbers == {Installed} \cup Releases \subseteq Nat \X Nat \X Nat

\* The three platforms there is a service manager for; the ids that stand for
\* what there is not are no ids.
ASSUME LocalBounds ==
    /\ IsFiniteSet(Profiles)
    /\ Platforms \subseteq {"linux", "darwin", "win32"}
    /\ NoToken \notin EnrollmentTokens
    /\ {NoMachine, Damaged} \cap MachineIds = {} /\ NoMachine # Damaged

VARIABLES
    platform,     \* process.platform
    config,       \* the Machine of each Profile's client.json
    held,         \* the Machines it has named since the Profile was made
    service,      \* the Profile's service
    package,      \* version of the globally installed package
    shell,        \* the command that is running
    report,       \* the command that has just succeeded
    stopped,      \* Profiles that `down` has stopped and `up` not asked for since
    tokens,       \* odyshell.enrollment_tokens
    transactions, \* the token an enrollment from here or elsewhere has locked
    machines,     \* odyshell.machines
    enrolledWith, \* the token of each of them
    commands, refusals, reboots  \* counted for the bounds

hostVars == <<platform, config, held, service, package>>
enrollmentVars == <<tokens, transactions, machines, enrolledWith>>
localVars == <<hostVars, enrollmentVars, shell, report, stopped, commands, refusals, reboots>>

Services == [definition : BOOLEAN,  \* unit, plist or launcher
             registered : BOOLEAN,  \* unit enabled, label bootstrapped, task created
             process : [version : {Installed} \cup Releases, machine : MachineIds] \cup {NoProcess}]

\* A step of a command: an awaited call for a Profile, and whether its failure
\* is ignored.
Step(call, p) == [call |-> call, profile |-> p, caught |-> FALSE]
Tried(call, p) == [call |-> call, profile |-> p, caught |-> TRUE]
NoCommand == [command |-> "none", steps |-> <<>>, profile |-> NoProfile, token |-> NoToken,
         machine |-> NoMachine, previous |-> NoMachine, from |-> Installed,
         latest |-> Installed]
\* The step that is next.
Running(call) == shell.steps # <<>> /\ Head(shell.steps).call = call
Here == Head(shell.steps).profile
Unlocked == [token |-> NoToken, previous |-> NoMachine]

\* What the files, the services and the tables hold.
LocalTypeOK ==
    /\ platform \in Platforms
    /\ config \in [Profiles -> MachineIds \cup {NoMachine, Damaged}]
    /\ held \in [Profiles -> SUBSET MachineIds]
    /\ service \in [Profiles -> Services]
    /\ package \in {Installed, Broken} \cup Releases
    /\ {shell.command, report.command}
          \subseteq {"none", "up", "down", "remove", "reset", "update", "rollback"}
    /\ stopped \subseteq Profiles
    /\ \A i \in DOMAIN shell.steps : shell.steps[i].profile \in Profiles
    /\ shell.token \in EnrollmentTokens \cup {NoToken}
    /\ {shell.machine, shell.previous} \subseteq MachineIds \cup {NoMachine}
    /\ tokens \in [EnrollmentTokens -> {"unissued", "issued", "expired", "used"}]
    /\ transactions \in [{"here", "elsewhere"} ->
          [token : EnrollmentTokens \cup {NoToken}, previous : MachineIds \cup {NoMachine}]]
    /\ machines \in [MachineIds -> {"none", "active", "revoked"}]
    /\ enrolledWith \in [MachineIds -> EnrollmentTokens \cup {NoToken}]

LocalInit ==
    /\ platform \in Platforms
    /\ config = [p \in Profiles |-> NoMachine]
    /\ held = [p \in Profiles |-> {}]
    /\ service = [p \in Profiles |->
                    [definition |-> FALSE, registered |-> FALSE, process |-> NoProcess]]
    /\ package = Installed
    /\ shell = NoCommand /\ report = NoCommand /\ stopped = {}
    /\ tokens = [t \in EnrollmentTokens |-> "unissued"]
    /\ transactions = [x \in {"here", "elsewhere"} |-> Unlocked]
    /\ machines = [m \in MachineIds |-> "none"]
    /\ enrolledWith = [m \in MachineIds |-> NoToken]
    /\ commands = 0 /\ refusals = 0 /\ reboots = 0

-----------------------------------------------------------------------------
(* Versions *)

\* compareVersions(v, w) > 0
Newer(v, w) == \E i \in 1..3 : v[i] > w[i] /\ \A j \in 1..(i - 1) : v[j] = w[j]
compatibleClientUpdate(v, w) == v[1] = w[1] /\ v[2] = w[2]

-----------------------------------------------------------------------------
(* The service managers *)

installLinuxUserService(p) ==
    <<Step("write", p), Step("reload", p), Step("enable", p), Step("restart", p), Step("isActive", p)>>
installMacosUserService(p) ==
    <<Step("write", p), Tried("bootout", p), Step("bootstrap", p), Step("kickstart", p)>>
installWindowsUserService(p) == <<Step("write", p), Step("create", p), Step("run", p)>>
installClientService(p) ==
    [linux |-> installLinuxUserService(p), darwin |-> installMacosUserService(p),
     win32 |-> installWindowsUserService(p)][platform]

stopClientService(p) ==
    [linux |-> <<Step("disable", p)>>, darwin |-> <<Step("bootout", p)>>,
     win32 |-> <<Step("end", p)>>][platform]

removeLinuxUserService(p) == <<Tried("disable", p), Step("unlink", p), Step("reload", p)>>
removeMacosUserService(p) == <<Tried("bootout", p), Step("unlink", p)>>
removeWindowsUserService(p) == <<Tried("end", p), Tried("delete", p), Step("unlink", p)>>
removeClientService(p) ==
    [linux |-> removeLinuxUserService(p), darwin |-> removeMacosUserService(p),
     win32 |-> removeWindowsUserService(p)][platform]

\* clientServiceStatus
ServiceInstalled(p) ==
    service[p].definition /\ (platform = "win32" => service[p].registered)
ServiceActive(p) ==
    /\ ServiceInstalled(p)
    /\ IF platform = "darwin" THEN service[p].registered ELSE service[p].process # NoProcess

\* The process a manager starts: `client start` reads the configuration once.
Launched(p) ==
    IF config[p] \in MachineIds /\ package # Broken
    THEN [version |-> package, machine |-> config[p]] ELSE NoProcess

\* The service after a call, and whether the manager accepts it.  A task that
\* runs is not started again; an enabled unit may fail after is-active.
ManagerCalls == {"write", "reload", "enable", "restart", "isActive", "disable", "bootout",
                 "bootstrap", "kickstart", "create", "run", "end", "delete", "unlink"}
Called(call, p) ==
    LET s == service[p] IN
    CASE call = "write"       -> [s EXCEPT !.definition = TRUE]
      [] call = "unlink"      -> [s EXCEPT !.definition = FALSE]
      [] call \in {"enable", "create"} -> [s EXCEPT !.registered = TRUE]
      [] call = "delete"      -> [s EXCEPT !.registered = FALSE]
      [] call = "bootstrap"   -> [s EXCEPT !.registered = TRUE, !.process = Launched(p)]
      [] call \in {"disable", "bootout"} ->
                                 [s EXCEPT !.registered = FALSE, !.process = NoProcess]
      [] call = "end"         -> [s EXCEPT !.process = NoProcess]
      [] call \in {"restart", "kickstart"} -> [s EXCEPT !.process = Launched(p)]
      [] call = "run"         -> [s EXCEPT !.process = IF @ = NoProcess THEN Launched(p) ELSE @]
      [] OTHER -> s
Accepted(call, p) ==
    CASE call = "write" -> config[p] \in MachineIds
      [] call \in {"enable", "restart", "disable"} -> service[p].definition
      [] call \in {"bootout", "kickstart", "run", "end", "delete"} -> service[p].registered
      [] call = "bootstrap" -> service[p].definition /\ ~service[p].registered
      [] OTHER -> TRUE

\* What the managers do by themselves: a process that ends is started again
\* (not by the Task Scheduler) ...
ProcessEnds(p) ==
    /\ service[p].process # NoProcess
    /\ reboots < MaxReboots /\ reboots' = reboots + 1
    /\ service' = [service EXCEPT ![p].process =
          IF platform = "win32" \/ ~service[p].registered THEN NoProcess ELSE Launched(p)]
    /\ UNCHANGED <<platform, config, held, package, enrollmentVars, shell, report, stopped,
                   commands, refusals>>

\* ... and after a reboot, as the user logs in, the enabled units, the plists
\* and the tasks are started.  A running command is lost.
RebootAndLogin ==
    /\ reboots < MaxReboots /\ reboots' = reboots + 1
    /\ service' = [p \in Profiles |->
          LET starts == service[p].definition /\ (platform = "darwin" \/ service[p].registered) IN
          [service[p] EXCEPT !.process = IF starts THEN Launched(p) ELSE NoProcess,
                             !.registered = IF platform = "darwin" THEN starts ELSE @]]
    /\ shell' = NoCommand /\ report' = NoCommand
    /\ UNCHANGED <<platform, config, held, package, enrollmentVars, stopped, commands, refusals>>

-----------------------------------------------------------------------------
(* Enrollment on the Server *)

createEnrollmentToken(t) ==
    /\ tokens[t] = "unissued"
    /\ tokens' = [tokens EXCEPT ![t] = "issued"]
    /\ UNCHANGED <<hostVars, transactions, machines, enrolledWith, shell, report, stopped,
                   commands, refusals, reboots>>

TokenExpires(t) ==
    /\ tokens[t] = "issued"
    /\ tokens' = [tokens EXCEPT ![t] = "expired"]
    /\ UNCHANGED <<hostVars, transactions, machines, enrolledWith, shell, report, stopped,
                   commands, refusals, reboots>>

revokeEnrolledMachine(m) ==
    /\ machines[m] = "active"
    /\ machines' = [machines EXCEPT ![m] = "revoked"]
    /\ UNCHANGED <<hostVars, tokens, transactions, enrolledWith, shell, report, stopped,
                   commands, refusals, reboots>>

\* A variant with a defect: the row is read without `for update`.
lockTokenShared(x, t, m) ==
    /\ transactions[x] = Unlocked
    /\ tokens[t] = "issued"
    /\ transactions' = [transactions EXCEPT ![x] = [token |-> t, previous |-> m]]

\* enrollMachine's first statement takes the row of a token and holds it.
lockToken(x, t, m) ==
    /\ transactions[x] = Unlocked
    /\ \A y \in DOMAIN transactions : transactions[y].token # t
    /\ tokens[t] = "issued"
    /\ transactions' = [transactions EXCEPT ![x] = [token |-> t, previous |-> m]]

PreviousMachineActive(x) ==
    /\ transactions[x].previous # NoMachine
    /\ machines[transactions[x].previous] = "active"

\* A variant with a defect: nobody asks for the previous Machine.
enrollAnyMachine(x, m) ==
    /\ transactions[x] # Unlocked
    /\ transactions' = [transactions EXCEPT ![x] = Unlocked]
    /\ machines[m] = "none"
    /\ tokens' = [tokens EXCEPT ![transactions[x].token] = "used"]
    /\ machines' = [machines EXCEPT ![m] = "active"]
    /\ enrolledWith' = [enrolledWith EXCEPT ![m] = transactions[x].token]

\* Its last ones use the token up and insert the Machine m, unless the Machine
\* to be replaced is still active.
enrollMachine(x, m) ==
    /\ transactions[x] # Unlocked
    /\ transactions' = [transactions EXCEPT ![x] = Unlocked]
    /\ IF PreviousMachineActive(x)
       THEN UNCHANGED <<tokens, machines, enrolledWith>>
       ELSE /\ machines[m] = "none"
            /\ tokens' = [tokens EXCEPT ![transactions[x].token] = "used"]
            /\ machines' = [machines EXCEPT ![m] = "active"]
            /\ enrolledWith' = [enrolledWith EXCEPT ![m] = transactions[x].token]

\* A token that was copied is presented by another host, and the request of a
\* command that was lost in a reboot is served to its end.
EnrollElsewhere ==
    /\ \/ /\ \E t \in EnrollmentTokens : lockToken("elsewhere", t, NoMachine)
          /\ UNCHANGED <<tokens, machines, enrolledWith>>
       \/ \E x \in DOMAIN transactions, m \in MachineIds :
             /\ x = "here" => ~Running("enroll")
             /\ enrollMachine(x, m)
    /\ UNCHANGED <<hostVars, shell, report, stopped, commands, refusals, reboots>>

-----------------------------------------------------------------------------
(* The commands, as they are entered *)

Enters(entered) ==
    /\ shell = NoCommand /\ package # Broken
    /\ commands < MaxCommands /\ commands' = commands + 1
    /\ shell' = [entered EXCEPT !.from = package] /\ report' = NoCommand
    /\ UNCHANGED <<hostVars, enrollmentVars, refusals, reboots>>

\* What a Profile's configuration says: it is not there, it cannot be read, or
\* it names a Machine.  (All Profiles are of one Server.)
configExists(p) == config[p] # NoMachine
identityFromConfig(p) == config[p] # Damaged
listClientProfiles == {p \in Profiles : configExists(p)}

enrollClient(p) == <<Step("lock", p), Step("enroll", p), Step("open", p), Step("save", p)>>
assertClientServerReachable(p) == <<Step("reach", p)>>

\* up of a Profile that is there, or with a token, whose Machine replaces the
\* one that is there.
Up(p) ==
    /\ identityFromConfig(p)
    /\ stopped' = stopped \ {p}
    /\ \/ /\ configExists(p)
          /\ Enters([NoCommand EXCEPT !.command = "up", !.profile = p,
                        !.steps = assertClientServerReachable(p) \o <<Step("start", p)>>])
       \/ \E t \in EnrollmentTokens :
             /\ tokens[t] # "unissued"
             /\ Enters([NoCommand EXCEPT !.command = "up", !.profile = p, !.token = t,
                           !.previous = config[p],
                           !.steps = enrollClient(p) \o assertClientServerReachable(p)
                                     \o <<Step("start", p)>>])

Down(p) ==
    /\ configExists(p) /\ identityFromConfig(p)
    /\ Enters([NoCommand EXCEPT !.command = "down", !.profile = p, !.steps = stopClientService(p)])
    /\ UNCHANGED stopped

removeClientProfile(p) == <<Step("removeService", p), Step("rmdir", p)>>
RemoveProfile(p) ==
    /\ configExists(p)
    /\ Enters([NoCommand EXCEPT !.command = "remove", !.profile = p, !.steps = removeClientProfile(p)])
    /\ UNCHANGED stopped

\* The Profiles are removed one after the other, in the order of a directory
\* listing, up to the first that fails.
removeAllClientProfiles(order) ==
    [i \in 1..(2 * Len(order)) |->
        removeClientProfile(order[(i + 1) \div 2])[IF i % 2 = 1 THEN 1 ELSE 2]]

Reset ==
    \E order \in SetToSeqs(listClientProfiles) :
        /\ order # <<>>
        /\ Enters([NoCommand EXCEPT !.command = "reset", !.steps = removeAllClientProfiles(order)])
        /\ UNCHANGED stopped

\* client update: without a newer compatible release it ends at once.
updateClientPackage(p) ==
    <<Step("download", p), Step("install", p), Step("verify", p), Step("reinstallService", p)>>

Update(p) ==
    \E v \in Releases :
        /\ package # Broken /\ Newer(v, package) /\ compatibleClientUpdate(package, v)
        /\ Enters([NoCommand EXCEPT !.command = "update", !.profile = p, !.latest = v,
                      !.steps = updateClientPackage(p)])
        /\ UNCHANGED stopped

-----------------------------------------------------------------------------
(* The steps of the command that is running *)

\* On with the steps q, or the end of the command.
ContinueWith(s, q) ==
    IF q = <<>> THEN shell' = NoCommand /\ report' = [s EXCEPT !.steps = <<>>]
    ELSE shell' = [s EXCEPT !.steps = q] /\ UNCHANGED report
Continue == ContinueWith(shell, Tail(shell.steps))

\* A variant with a defect: the rollback forgets the service.
GiveUpHalfway ==
    IF shell.command = "update" /\ ~Running("download")
    THEN /\ shell' = [shell EXCEPT !.command = "rollback",
                          !.steps = <<Step("restore", shell.profile)>>]
         /\ UNCHANGED report
    ELSE shell' = NoCommand /\ UNCHANGED report

\* The command is over; an update that has begun to install is rolled back.
GiveUp ==
    IF shell.command = "update" /\ ~Running("download")
    THEN /\ shell' = [shell EXCEPT !.command = "rollback",
                          !.steps = <<Step("restore", shell.profile),
                                      Step("reinstallService", shell.profile)>>]
         /\ UNCHANGED report
    ELSE shell' = NoCommand /\ UNCHANGED report

LockToken ==
    /\ Running("lock")
    /\ \/ /\ lockToken("here", shell.token, shell.previous)
          /\ Continue
       \/ /\ tokens[shell.token] # "issued"
          /\ GiveUp /\ UNCHANGED transactions
    /\ UNCHANGED <<hostVars, tokens, machines, enrolledWith, stopped, commands, refusals, reboots>>

\* The answer names the new Machine, refuses, or is lost.
Enroll(m) ==
    /\ Running("enroll")
    /\ enrollMachine("here", m)
    /\ \/ /\ machines' # machines
          /\ ContinueWith([shell EXCEPT !.machine = m], Tail(shell.steps))
          /\ UNCHANGED refusals
       \/ /\ machines' = machines
          /\ GiveUp /\ UNCHANGED refusals
       \/ /\ machines' # machines /\ refusals < MaxRefusals
          /\ refusals' = refusals + 1
          /\ GiveUp
    /\ UNCHANGED <<hostVars, stopped, commands, reboots>>

\* writeFile opens and truncates the file before it writes it; without
\* replaceConfig the file must not exist.
OpenConfig ==
    /\ Running("open")
    /\ IF config[Here] = NoMachine \/ shell.previous # NoMachine
       THEN config' = [config EXCEPT ![Here] = Damaged] /\ Continue
       ELSE GiveUp /\ UNCHANGED config
    /\ UNCHANGED <<platform, held, service, package, enrollmentVars, stopped, commands, refusals,
                   reboots>>
SaveConfig ==
    /\ Running("save")
    /\ config' = [config EXCEPT ![Here] = shell.machine]
    /\ held' = [held EXCEPT ![Here] = @ \cup {shell.machine}]
    /\ Continue
    /\ UNCHANGED <<platform, service, package, enrollmentVars, stopped, commands, refusals, reboots>>

\* The Server answers /health.
ServerReached ==
    /\ Running("reach") /\ Continue
    /\ UNCHANGED <<hostVars, enrollmentVars, stopped, commands, refusals, reboots>>

\* Both packages are there and have the digests the registry names.
PackagesVerified ==
    /\ Running("download") /\ Continue
    /\ UNCHANGED <<hostVars, enrollmentVars, stopped, commands, refusals, reboots>>

\* What is installed is asked for its version.
VersionFits ==
    /\ Running("verify") /\ package = shell.latest /\ Continue
    /\ UNCHANGED <<hostVars, enrollmentVars, stopped, commands, refusals, reboots>>
VersionDiffers ==
    /\ Running("verify") /\ package # shell.latest
    /\ GiveUp
    /\ UNCHANGED <<hostVars, enrollmentVars, stopped, commands, refusals, reboots>>

\* up leaves a service that is active alone, unless it has enrolled.
StartService ==
    /\ Running("start")
    /\ ContinueWith(shell, (IF shell.machine = NoMachine /\ ServiceActive(Here) THEN <<>>
                            ELSE installClientService(Here)) \o Tail(shell.steps))
    /\ UNCHANGED <<hostVars, enrollmentVars, stopped, commands, refusals, reboots>>

\* Whatever asks for a service that is there; a query of the Task Scheduler
\* that fails says it is not.
AskService(call, steps) ==
    /\ Running(call)
    /\ \/ /\ ContinueWith(shell, (IF ServiceInstalled(Here) THEN steps ELSE <<>>)
                                    \o Tail(shell.steps))
          /\ UNCHANGED refusals
       \/ /\ platform = "win32" /\ ServiceInstalled(Here)
          /\ refusals < MaxRefusals /\ refusals' = refusals + 1
          /\ Continue
    /\ UNCHANGED <<hostVars, enrollmentVars, stopped, commands, reboots>>

RemoveService == AskService("removeService", removeClientService(Here))
\* After an update, and after its rollback.
ReinstallService == AskService("reinstallService", installClientService(Here))

\* The Profile's directory goes, on Windows with the launcher in it.
RemoveDirectory ==
    /\ Running("rmdir")
    /\ config' = [config EXCEPT ![Here] = NoMachine]
    /\ held' = [held EXCEPT ![Here] = {}]
    /\ service' = [service EXCEPT ![Here].definition = @ /\ platform # "win32"]
    /\ Continue
    /\ UNCHANGED <<platform, package, enrollmentVars, stopped, commands, refusals, reboots>>

\* The package manager installs the version, or another than it was asked for.
InstallPackage ==
    /\ Running("install") \/ Running("restore")
    /\ \/ /\ package' = IF Running("install") THEN shell.latest ELSE shell.from
          /\ UNCHANGED refusals
       \/ /\ Running("install") /\ refusals < MaxRefusals /\ refusals' = refusals + 1
          /\ UNCHANGED package
    /\ Continue
    /\ UNCHANGED <<platform, config, held, service, enrollmentVars, stopped, commands, reboots>>
\* It fails, with either version or half of one in place.
InstallFails ==
    /\ Running("install") \/ Running("restore")
    /\ refusals < MaxRefusals /\ refusals' = refusals + 1
    /\ package' \in {shell.from, shell.latest, Broken}
    /\ GiveUp
    /\ UNCHANGED <<platform, config, held, service, enrollmentVars, stopped, commands, reboots>>

CallManager ==
    /\ shell.steps # <<>> /\ Head(shell.steps).call \in ManagerCalls
    /\ Accepted(Head(shell.steps).call, Here)
    /\ service' = [service EXCEPT ![Here] = Called(Head(shell.steps).call, Here)]
    /\ Continue
    /\ stopped' = IF shell'= NoCommand /\ shell.command = "down" THEN stopped \cup {Here} ELSE stopped
    /\ UNCHANGED <<platform, config, held, package, enrollmentVars, commands, refusals, reboots>>

\* A call that is refused or times out has no effect.
StepFails ==
    /\ shell.steps # <<>>
    /\ \/ /\ Head(shell.steps).call \in ManagerCalls /\ ~Accepted(Head(shell.steps).call, Here)
          /\ UNCHANGED refusals
       \/ /\ Head(shell.steps).call \in ManagerCalls \cup {"reach", "download", "verify"}
          /\ refusals < MaxRefusals /\ refusals' = refusals + 1
    /\ IF Head(shell.steps).caught THEN Continue ELSE GiveUp
    /\ UNCHANGED <<hostVars, enrollmentVars, stopped, commands, reboots>>

LocalNext ==
    \/ \E p \in Profiles : ProcessEnds(p) \/ Up(p) \/ Down(p) \/ RemoveProfile(p) \/ Update(p)
    \/ Reset \/ RebootAndLogin \/ EnrollElsewhere
    \/ \E t \in EnrollmentTokens : createEnrollmentToken(t) \/ TokenExpires(t)
    \/ \E m \in MachineIds : revokeEnrolledMachine(m) \/ Enroll(m)
    \/ LockToken \/ OpenConfig \/ SaveConfig \/ StartService
    \/ ServerReached \/ PackagesVerified \/ VersionFits \/ VersionDiffers
    \/ RemoveService \/ ReinstallService \/ RemoveDirectory \/ InstallPackage \/ InstallFails \/ CallManager \/ StepFails

LocalSpec == LocalInit /\ [][LocalNext]_localVars

-----------------------------------------------------------------------------
(* What the commands promise *)

\* An enrollment token enrolls one Machine, whoever presents it and when.
TokenEnrollsOnce ==
    \A m, n \in MachineIds : enrolledWith[m] = enrolledWith[n] /\ enrolledWith[m] # NoToken => m = n

\* However a re-enrollment is refused, lost or interrupted, and whatever the
\* administrator revokes meanwhile: of the Machines that one Profile has been,
\* the Server never accepts two.
OneActiveIdentity ==
    \A p \in Profiles : Cardinality({m \in held[p] : machines[m] = "active"}) <= 1

\* Both of them: an enrollment is of one Machine, and a Profile is one Machine.
EnrollmentIsExclusive == TokenEnrollsOnce /\ OneActiveIdentity

\* The process of Profile p, if any, runs this version and is this Machine.
Runs(p, version, machine) ==
    service[p].process = [version |-> version, machine |-> machine]

\* What the last command has said when it succeeded: `up` has a process of the
\* Profile's Machine running, a removed Profile starts no more, an update or
\* its rollback has left the version it names installed and, in a service,
\* running.  (The Task Scheduler does not start a task again that runs.)
ReportIsTrue ==
    LET p == report.profile IN
    /\ report.command = "up" /\ report.machine # NoMachine /\ platform # "win32" =>
          Runs(p, package, report.machine)
    /\ report.command = "remove" => config[p] = NoMachine /\ ~service[p].definition
    /\ report.command = "reset" =>
          listClientProfiles = {} /\ \A q \in Profiles : ~service[q].definition
    /\ report.command = "update" => package = report.latest
    /\ report.command = "rollback" => package = report.from
    /\ report.command \in {"update", "rollback"} /\ platform # "win32" /\ service[p].definition =>
          Runs(p, package, config[p])

\* Every command ends with a true report, after any failure of its calls.
ReportsAreTrue == [][report' # report => ReportIsTrue']_localVars

\* A Client that `down` has stopped does not run again before the next `up`.
DownStaysDown == \A p \in stopped : service[p].process = NoProcess
=============================================================================
