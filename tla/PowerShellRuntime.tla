------------------------- MODULE PowerShellRuntime --------------------------
(***************************************************************************)
(* The PowerShell that the lookups of the process run on Windows           *)
(* (livePlacementService.js): a portable one, downloaded and extracted     *)
(* under a directory that outlives the process, and the Az modules.  Each  *)
(* is provided by the first lookup that misses it, behind one promise that *)
(* the others wait for.                                                    *)
(*                                                                         *)
(* One process uses the directory.  What a script does is external.        *)
(***************************************************************************)
EXTENDS Naturals, Sequences

CONSTANTS
    Users,          \* lookups of the process
    MaxStarts       \* bound: restarts of the process

VARIABLES
    installed,      \* the commands of Others that the machine has
    disk,           \* "none", "partial": pwsh.exe without the rest, "whole"
    provision,      \* portablePowerShellPromise: "none", a stage, or "kept"
    azModules,      \* whether Invoke-AzSpotPlacementScore can be resolved
    saving,         \* azModuleBootstrapPromise: "none", "saving", "kept"
    user,           \* [Users -> [at, waited, commands]]
    starts

shellVars == <<installed, disk, provision, azModules, saving, user, starts>>

IdleUser == [at |-> "idle", waited |-> FALSE, commands |-> <<>>]

Others == <<"pwsh", "powershell.exe">>

ShellInit ==
    /\ installed \in {{}, {"powershell.exe"}}
    /\ disk = "none"
    /\ provision = "none"
    /\ azModules \in BOOLEAN
    /\ saving = "none"
    /\ user = [u \in Users |-> IdleUser]
    /\ starts = 0

(* The commands of a lookup are known; the modules of the first are next.  *)
With(u, waited, commands) ==
    [u EXCEPT !.at = "modules", !.waited = waited, !.commands = commands]

(***************************************************************************)
(* getPowerShellCommands and ensurePortablePowerShell.                     *)
(***************************************************************************)

\* pwsh.exe is there, whole or not.
Finds(u) ==
    /\ user[u].at = "idle" /\ disk # "none"
    /\ user' = [user EXCEPT ![u] = With(@, FALSE, <<"portable">> \o Others)]
    /\ UNCHANGED <<installed, disk, provision, azModules, saving, starts>>

Misses(u) ==
    /\ user[u].at = "idle" /\ disk = "none"
    /\ user' = [user EXCEPT ![u].at = "waiting"]
    /\ provision' = IF provision = "none" THEN "clearing" ELSE provision
    /\ UNCHANGED <<installed, disk, azModules, saving, starts>>

\* Whoever waits for the promise goes on.
Released(waited, commands) ==
    user' = [u \in Users |-> IF user[u].at = "waiting"
                             THEN With(user[u], waited, commands) ELSE user[u]]

Clear ==
    /\ provision = "clearing"
    /\ provision' = "downloading"
    /\ disk' = "none"
    /\ UNCHANGED <<installed, azModules, saving, user, starts>>

Download ==
    /\ provision = "downloading"
    /\ provision' = "extracting"
    /\ UNCHANGED <<installed, disk, azModules, saving, user, starts>>

\* Mutant: the end of the extraction is not awaited.
PwshAppearsAndIsTaken ==
    /\ provision = "extracting" /\ disk = "none" /\ "powershell.exe" \in installed
    /\ disk' = "partial"
    /\ Released(TRUE, <<"portable">> \o Others)
    /\ UNCHANGED <<installed, provision, azModules, saving, starts>>

\* powershell.exe extracts the archive: ExtractToDirectory writes one file after the other.
PwshAppears ==
    /\ provision = "extracting" /\ disk = "none" /\ "powershell.exe" \in installed
    /\ disk' = "partial"
    /\ UNCHANGED <<installed, provision, azModules, saving, user, starts>>

Extracted ==
    /\ provision = "extracting" /\ disk = "partial"
    /\ provision' = "kept"
    /\ disk' = "whole"
    /\ Released(TRUE, <<"portable">> \o Others)
    /\ UNCHANGED <<installed, azModules, saving, starts>>

\* The promise is dropped, so that the next lookup that misses pwsh.exe tries again;
\* what was extracted stays.
ProvisionFails ==
    /\ provision \notin {"none", "kept"}
    /\ provision' = "none"
    /\ Released(FALSE, Others)
    /\ UNCHANGED <<installed, disk, azModules, saving, starts>>

(***************************************************************************)
(* ensureAzPlacementModules, for each command in turn.                     *)
(***************************************************************************)

IsThere(command) ==
    \/ command = "portable" /\ disk # "none"
    \/ command \in installed

HasCommand(u) == user[u].at = "modules" /\ user[u].commands # <<>>

CanResolve(u) ==
    /\ HasCommand(u) /\ IsThere(Head(user[u].commands))
    /\ azModules
    /\ user' = [user EXCEPT ![u].at = "run"]
    /\ UNCHANGED <<installed, disk, provision, azModules, saving, starts>>

\* Also when the command is not there, or does not start.  A promise that was kept is
\* not renewed.
CannotResolve(u) ==
    /\ HasCommand(u)
    /\ user' = [user EXCEPT ![u].at = IF saving = "kept" THEN "run" ELSE "saving"]
    /\ saving' = IF saving = "none" THEN "saving" ELSE saving
    /\ UNCHANGED <<installed, disk, provision, azModules, starts>>

\* Saved, or failed: then the script runs with the environment of the process.
SaveEnds(ok) ==
    /\ saving = "saving"
    /\ saving' = IF ok THEN "kept" ELSE "none"
    /\ azModules' = (ok \/ azModules)
    /\ user' = [u \in Users |-> IF user[u].at = "saving"
                                THEN [user[u] EXCEPT !.at = "run"] ELSE user[u]]
    /\ UNCHANGED <<installed, disk, provision, starts>>

(***************************************************************************)
(* tryCommand.                                                             *)
(***************************************************************************)

\* ENOENT: the next command.
NotThere(u) ==
    /\ user[u].at = "run" /\ ~IsThere(Head(user[u].commands))
    /\ user' = [user EXCEPT ![u].at = "modules", ![u].commands = Tail(@)]
    /\ UNCHANGED <<installed, disk, provision, azModules, saving, starts>>

\* The answer of the script, or any other error: no further command is tried.
Runs(u) ==
    /\ user[u].at = "run" /\ IsThere(Head(user[u].commands))
    /\ user' = [user EXCEPT ![u] = IdleUser]
    /\ UNCHANGED <<installed, disk, provision, azModules, saving, starts>>

\* "no supported PowerShell executable was found".
NoneLeft(u) ==
    /\ user[u].at = "modules" /\ user[u].commands = <<>>
    /\ user' = [user EXCEPT ![u] = IdleUser]
    /\ UNCHANGED <<installed, disk, provision, azModules, saving, starts>>

RestartProcess ==
    /\ starts < MaxStarts
    /\ starts' = starts + 1
    /\ provision' = "none" /\ saving' = "none"
    /\ user' = [u \in Users |-> IdleUser]
    /\ UNCHANGED <<installed, disk, azModules>>

ShellNext ==
    \/ \E u \in Users :
          Finds(u) \/ Misses(u) \/ CanResolve(u) \/ CannotResolve(u)
            \/ NotThere(u) \/ Runs(u) \/ NoneLeft(u)
    \/ Clear \/ Download \/ PwshAppears \/ Extracted \/ ProvisionFails
    \/ \E ok \in BOOLEAN : SaveEnds(ok)
    \/ RestartProcess

ShellSpec == ShellInit /\ [][ShellNext]_shellVars

----------------------------------------------------------------------------
\* A lookup that has waited for the portable PowerShell is given one that is whole and
\* stays so: no later provisioning clears the directory under it.  And nobody waits for
\* something that no one is doing: a failure lets all go on, and the next one try again.
\* (A lookup that has not waited may find pwsh.exe before, or without, the rest.)
WaitersGetAWholeRuntime ==
    \A u \in Users :
        /\ user[u].at \in {"modules", "saving", "run"} /\ user[u].waited
             => disk = "whole"
        /\ user[u].at = "waiting" => provision \notin {"none", "kept"}
        /\ user[u].at = "saving" => saving = "saving"
=============================================================================
