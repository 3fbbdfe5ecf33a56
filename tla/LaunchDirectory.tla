-------------------------- MODULE LaunchDirectory --------------------------
(***************************************************************************)
(* The launch-private directories of interactive sessions, from            *)
(* wrappers/qwen/interactive_launch.go and interactive_process.go.         *)
(*                                                                         *)
(* A launcher sweeps the directories of ended sessions, creates its own    *)
(* (input file and marker) and becomes native's supervisor by exec. The    *)
(* supervisor runs TUIs one after another; the MCP helper of a TUI binds   *)
(* to it and rewrites the marker (newInteractiveOwner). Every system call  *)
(* that another process can see is a step. A process is named by its       *)
(* launch, a TUI also by its number: pid and start time tell reused pids   *)
(* apart.                                                                  *)
(***************************************************************************)
EXTENDS Integers, FiniteSets

CONSTANTS
  Launches,      \* the managed launches of one user
  Nobody,        \* no directory is being examined
  Absent, Unreadable, \* no marker, a marker that cannot be read
  MaxTUI,        \* TUIs an instance lets any supervisor run
  Relaunches,    \* TUIs it lets the supervisor of each launch run
  Events         \* the kinds of external events an instance explores

ASSUME LaunchDirectoryAssumption ==
  /\ Nobody \notin Launches
  /\ MaxTUI \in Nat /\ Relaunches \in [Launches -> 0 .. MaxTUI]
  /\ {Absent, Unreadable} \cap (0 .. MaxTUI) = {} /\ Absent # Unreadable
  /\ Events \subseteq {"failure", "kill", "ambiguous"}

VARIABLES
  \* the processes
  supervisor,    \* launcher, then supervisor: none, live, ended
  tui,           \* the number of the last TUI, 0 before the first
  alive,         \* launches whose last TUI is alive
  \* the file system
  directory, input, \* launches whose directory, input file exists
  marker,        \* its marker: Absent, Unreadable, or the number of the
                 \* recorded TUI, 0 for the supervisor alone
  \* the launchers
  pc,            \* launcher: idle, sweep, tui, supervisor, absolute, input,
                 \* marker, exec, native, failed, stranded; or what it removes
  todo,          \* directories its sweep has yet to examine
  target,        \* the directory it examines or removes
  seen,          \* the TUI its marker named
  \* the helpers of the TUIs
  helper,        \* none, bound, unlinked, settled
  due            \* history: directories a launch found collectable and
                 \* has not kept for an ambiguous read

processVars == <<supervisor, tui, alive>>
fileVars    == <<directory, input, marker>>
sweepVars   == <<todo, target, seen>>
vars == <<processVars, fileVars, pc, sweepVars, helper, due>>

TUIs == 1 .. MaxTUI

Init ==
  /\ supervisor = [l \in Launches |-> "none"]
  /\ tui = [l \in Launches |-> 0]
  /\ alive = {}
  /\ directory = {} /\ input = {}
  /\ marker = [l \in Launches |-> Absent]
  /\ pc = [l \in Launches |-> "idle"]
  /\ todo = [l \in Launches |-> {}]
  /\ target = [l \in Launches |-> Nobody]
  /\ seen = [l \in Launches |-> 0]
  /\ helper = [l \in Launches |-> [g \in TUIs |-> "none"]]
  /\ due = [l \in Launches |-> {}]

\* The sessions that ended with a TUI on record and no helper left to write.
Collectable ==
  {x \in directory : /\ supervisor[x] = "ended" /\ x \notin alive
                     /\ marker[x] \in TUIs
                     /\ \A g \in TUIs : helper[x][g] \in {"none", "settled"}}

Go(l, at) == pc' = [pc EXCEPT ![l] = at]

\* An ambiguous identity keeps the directory.
KeepTarget(l) ==
  /\ due' = [due EXCEPT ![l] = @ \ {target[l]}]
  /\ Go(l, "sweep")

-----------------------------------------------------------------------------
(* The launcher: prepareInteractiveLaunch, RunInteractive                   *)

\* ReadDir of the runtime directory.
Launch(l) ==
  /\ pc[l] = "idle"
  /\ supervisor' = [supervisor EXCEPT ![l] = "live"]
  /\ todo' = [todo EXCEPT ![l] = directory]
  /\ due' = [due EXCEPT ![l] = Collectable]
  /\ Go(l, "sweep")
  /\ UNCHANGED <<tui, alive, fileVars, target, seen, helper>>

\* Mutant: a readable marker is enough.
NamesTUIOrNone(x) == marker[x] \in 0 .. MaxTUI

\* readInteractiveMarker: a readable marker that names a TUI.
NamesTUI(x) == marker[x] \in TUIs

\* A directory without its marker, with an unreadable one or with one that
\* names no TUI is kept.
ReadMarker(l, x) ==
  /\ pc[l] = "sweep" /\ x \in todo[l]
  /\ todo' = [todo EXCEPT ![l] = @ \ {x}]
  /\ IF NamesTUI(x)
       THEN /\ target' = [target EXCEPT ![l] = x]
            /\ seen' = [seen EXCEPT ![l] = marker[x]]
            /\ Go(l, "tui")
       ELSE UNCHANGED <<target, seen, pc>>
  /\ UNCHANGED <<processVars, fileVars, helper, due>>

\* Mutant: an exited process counts as live until its pid is reused.
EndedIfReused(x, g) == g < tui[x]

Ended(x, g) == g < tui[x] \/ x \notin alive

\* interactiveIdentityEnded(*marker.tui): ambiguous state counts as live.
CheckTUI(l) ==
  /\ pc[l] = "tui"
  /\ \/ Ended(target[l], seen[l]) /\ Go(l, "supervisor") /\ UNCHANGED due
     \/ ~Ended(target[l], seen[l]) /\ Go(l, "sweep") /\ UNCHANGED due
     \/ "ambiguous" \in Events /\ KeepTarget(l)
  /\ UNCHANGED <<processVars, fileVars, sweepVars, helper>>

SupervisorEnded(x) == supervisor[x] = "ended"

\* interactiveIdentityEnded(marker.supervisor)
CheckSupervisor(l) ==
  /\ pc[l] = "supervisor"
  /\ \/ SupervisorEnded(target[l]) /\ Go(l, "remove input") /\ UNCHANGED due
     \/ ~SupervisorEnded(target[l]) /\ Go(l, "sweep") /\ UNCHANGED due
     \/ "ambiguous" \in Events /\ KeepTarget(l)
  /\ UNCHANGED <<processVars, fileVars, sweepVars, helper>>

\* removeInteractiveDirectory, of a swept directory or of a failed launch
RemoveInput(l) ==
  /\ pc[l] = "remove input"
  /\ input' = input \ {target[l]}
  /\ Go(l, "remove marker")
  /\ UNCHANGED <<processVars, directory, marker, sweepVars, helper, due>>

\* Mutant: the marker stays in the way of the directory.
MarkerKept(x) == marker

MarkerRemoved(x) == [marker EXCEPT ![x] = Absent]

RemoveMarker(l) ==
  /\ pc[l] = "remove marker"
  /\ marker' = MarkerRemoved(target[l])
  /\ Go(l, "remove directory")
  /\ UNCHANGED <<processVars, directory, input, sweepVars, helper, due>>

\* Mutant: the directory is removed with whatever is in it.
RemovableAlways(x) == TRUE

\* Only an empty directory goes.
Removable(x) == x \notin input /\ marker[x] = Absent

RemoveDirectory(l) ==
  /\ pc[l] = "remove directory"
  /\ directory' = IF Removable(target[l]) THEN directory \ {target[l]}
                  ELSE directory
  /\ IF target[l] = l
       THEN /\ Go(l, "failed")
            /\ supervisor' = [supervisor EXCEPT ![l] = "ended"]
       ELSE Go(l, "sweep") /\ UNCHANGED supervisor
  /\ UNCHANGED <<tui, alive, input, marker, sweepVars, helper, due>>

MakeDirectory(l) ==
  /\ pc[l] = "sweep" /\ todo[l] = {}
  /\ directory' = directory \cup {l}
  /\ target' = [target EXCEPT ![l] = l]
  /\ Go(l, "absolute")
  /\ UNCHANGED <<processVars, input, marker, todo, seen, helper, due>>

\* filepath.Abs, which needs the working directory when the runtime directory
\* is a relative path.
MakeAbsolute(l) ==
  /\ pc[l] = "absolute"
  /\ Go(l, "input")
  /\ UNCHANGED <<processVars, fileVars, sweepVars, helper, due>>

\* It fails with the path already overwritten: what is removed then is not
\* the directory.
AbsoluteFails(l) ==
  /\ "failure" \in Events
  /\ pc[l] = "absolute"
  /\ Go(l, "stranded")
  /\ supervisor' = [supervisor EXCEPT ![l] = "ended"]
  /\ UNCHANGED <<tui, alive, fileVars, sweepVars, helper, due>>

CreateInput(l) ==
  /\ pc[l] = "input"
  /\ input' = input \cup {l}
  /\ Go(l, "marker")
  /\ UNCHANGED <<processVars, directory, marker, sweepVars, helper, due>>

\* The launcher's marker names the supervisor it is about to become.
CreateMarker(l) ==
  /\ pc[l] = "marker"
  /\ marker' = [marker EXCEPT ![l] = 0]
  /\ Go(l, "exec")
  /\ UNCHANGED <<processVars, directory, input, sweepVars, helper, due>>

Exec(l) ==
  /\ pc[l] = "exec"
  /\ Go(l, "native")
  /\ UNCHANGED <<processVars, fileVars, sweepVars, helper, due>>

\* A step that knows the directory fails, or exec returns.
LaunchFails(l) ==
  /\ "failure" \in Events
  /\ pc[l] \in {"input", "marker", "exec"}
  /\ Go(l, "remove input")
  /\ UNCHANGED <<processVars, fileVars, sweepVars, helper, due>>

-----------------------------------------------------------------------------
(* External: native's supervisor and its TUIs                               *)

StartTUI(l) ==
  /\ pc[l] = "native" /\ supervisor[l] = "live"
  /\ l \notin alive /\ tui[l] < Relaunches[l]
  /\ tui' = [tui EXCEPT ![l] = @ + 1]
  /\ alive' = alive \cup {l}
  /\ UNCHANGED <<supervisor, fileVars, pc, sweepVars, helper, due>>

TUIEnds(l) ==
  /\ l \in alive
  /\ alive' = alive \ {l}
  /\ UNCHANGED <<supervisor, tui, fileVars, pc, sweepVars, helper, due>>

\* The supervisor follows its last TUI, or is killed under it.
SupervisorEnds(l) ==
  /\ pc[l] = "native" /\ supervisor[l] = "live"
  /\ (l \notin alive /\ tui[l] > 0) \/ "kill" \in Events
  /\ supervisor' = [supervisor EXCEPT ![l] = "ended"]
  /\ UNCHANGED <<tui, alive, fileVars, pc, sweepVars, helper, due>>

-----------------------------------------------------------------------------
(* The helper of a TUI: newInteractiveOwner. It may outlive its TUI.        *)

\* bindNativeParent: the live parent descends from the live supervisor.
Bind(l, g) ==
  /\ helper[l][g] = "none"
  /\ g = tui[l] /\ l \in alive /\ supervisor[l] = "live"
  /\ helper' = [helper EXCEPT ![l][g] = "bound"]
  /\ UNCHANGED <<processVars, fileVars, pc, sweepVars, due>>

\* writeInteractiveMarker removes the previous marker; if that fails it stays.
UnlinkMarker(l, g) ==
  /\ helper[l][g] = "bound"
  /\ \/ /\ marker' = MarkerRemoved(l)
        /\ helper' = [helper EXCEPT ![l][g] = "unlinked"]
     \/ /\ "failure" \in Events
        /\ helper' = [helper EXCEPT ![l][g] = "settled"]
        /\ UNCHANGED marker
  /\ UNCHANGED <<processVars, directory, input, pc, sweepVars, due>>

\* The new marker is written in full, in part, or not at all when the
\* directory is gone.
WriteMarker(l, g) ==
  /\ helper[l][g] = "unlinked"
  /\ \/ l \in directory /\ marker' = [marker EXCEPT ![l] = g]
     \/ /\ l \in directory /\ "failure" \in Events
        /\ marker' = [marker EXCEPT ![l] = Unreadable]
     \/ l \notin directory /\ UNCHANGED marker
  /\ helper' = [helper EXCEPT ![l][g] = "settled"]
  /\ UNCHANGED <<processVars, directory, input, pc, sweepVars, due>>

-----------------------------------------------------------------------------
Launcher(l) ==
  \/ CheckTUI(l) \/ CheckSupervisor(l)
  \/ RemoveInput(l) \/ RemoveMarker(l) \/ RemoveDirectory(l)
  \/ MakeDirectory(l) \/ MakeAbsolute(l) \/ CreateInput(l) \/ CreateMarker(l) \/ Exec(l)
  \/ \E x \in Launches : ReadMarker(l, x)
Failure(l) == AbsoluteFails(l) \/ LaunchFails(l)
Native(l) == StartTUI(l) \/ TUIEnds(l) \/ SupervisorEnds(l)
Helper(l, g) == Bind(l, g) \/ UnlinkMarker(l, g) \/ WriteMarker(l, g)

Next ==
  \E l \in Launches :
    Launch(l) \/ Launcher(l) \/ Failure(l) \/ Native(l)
      \/ \E g \in TUIs : Helper(l, g)

Spec == Init /\ [][Next]_vars

\* A launcher that started runs on; nothing is assumed of native and helpers.
FairSpec == Spec /\ \A l \in Launches : WF_vars(Launcher(l))

-----------------------------------------------------------------------------
(* Properties                                                               *)

\* Every variable has its type.
TypeOK ==
  /\ supervisor \in [Launches -> {"none", "live", "ended"}]
  /\ tui \in [Launches -> 0 .. MaxTUI]
  /\ alive \subseteq Launches
  /\ directory \subseteq Launches /\ input \subseteq directory
  /\ marker \in [Launches -> {Absent, Unreadable} \cup 0 .. MaxTUI]
  /\ \A l \in Launches : marker[l] # Absent => l \in directory
  /\ pc \in [Launches -> {"idle", "sweep", "tui", "supervisor", "remove input",
                          "remove marker", "remove directory", "absolute",
                          "input", "marker", "exec", "native", "failed", "stranded"}]
  /\ todo \in [Launches -> SUBSET Launches]
  /\ target \in [Launches -> Launches \cup {Nobody}]
  /\ seen \in [Launches -> 0 .. MaxTUI]
  /\ helper \in [Launches -> [TUIs -> {"none", "bound", "unlinked", "settled"}]]
  /\ due \in [Launches -> SUBSET Launches]

\* A launch that is being prepared and a session whose supervisor lives keep
\* their input file, whatever its marker says and however many launches sweep
\* while its TUI is relaunched (sweepInteractiveDirectories); so does a
\* session whose helper has yet to write a marker, even after it ended: none
\* is removed on the word of another process than its own helper
\* (readInteractiveMarker).
InputKept ==
  \A l \in Launches :
    \/ pc[l] \in {"marker", "exec"}
    \/ pc[l] = "native" /\ supervisor[l] = "live"
    \/ pc[l] = "native" /\ (\A g \in TUIs : helper[l][g] \in {"none", "bound"})
    => l \in input

\* A launch that failed, while others sweep, leaves no file behind and no
\* directory (RunInteractive, prepareInteractiveLaunch), but for the one way
\* in which the code loses the path and strands an empty directory
\* (interactive_launch.go:202-205).
FailedLeavesNothing ==
  \A l \in Launches :
    /\ pc[l] = "failed" => l \notin directory
    /\ pc[l] \in {"failed", "stranded"} => l \notin input /\ marker[l] = Absent

\* A session that ended with a TUI on record is removed by the launches
\* that come after it, also when they sweep at once, unless the state of its
\* processes was ambiguous to them.
Collects ==
  \A l, x \in Launches : x \in due[l] ~> x \notin directory \cap due[l]

\* "Remove this user's launch directories whose session has definitely ended
\* ... a live TUI still reads the file" (interactive_launch.go:245-252).
LiveTUIKeepsInput ==
  \A l \in Launches : pc[l] = "native" /\ l \in alive => l \in input
=============================================================================
