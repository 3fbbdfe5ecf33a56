------------------------ MODULE LaunchDirectory_proofs ------------------------
(***************************************************************************)
(* Proofs about LaunchDirectory, for any launches, TUIs and events: no     *)
(* sweep takes the input of a session that may still need it, and a launch *)
(* that fails leaves nothing, or an empty directory whose path it lost.    *)
(***************************************************************************)
EXTENDS LaunchDirectory, TLAPS

ProcessTypeOK ==
  /\ supervisor \in [Launches -> {"none", "live", "ended"}]
  /\ tui \in [Launches -> 0 .. MaxTUI]
  /\ alive \subseteq Launches

FileTypeOK ==
  /\ directory \subseteq Launches /\ input \subseteq directory
  /\ marker \in [Launches -> {Absent, Unreadable} \cup 0 .. MaxTUI]
  /\ \A l \in Launches : marker[l] # Absent => l \in directory

SweepTypeOK ==
  /\ pc \in [Launches -> {"idle", "sweep", "tui", "supervisor", "remove input",
                          "remove marker", "remove directory", "absolute",
                          "input", "marker", "exec", "native", "failed", "stranded"}]
  /\ todo \in [Launches -> SUBSET Launches]
  /\ target \in [Launches -> Launches \cup {Nobody}]
  /\ seen \in [Launches -> 0 .. MaxTUI]

HelperTypeOK == helper \in [Launches -> [TUIs -> {"none", "bound", "unlinked", "settled"}]]

DueTypeOK == due \in [Launches -> SUBSET Launches]

Types == ProcessTypeOK /\ FileTypeOK /\ SweepTypeOK /\ HelperTypeOK /\ DueTypeOK

Removing == {"remove input", "remove marker", "remove directory"}

Settled(l) == \E g \in TUIs : helper[l][g] = "settled"
NoHelper(l) == \A g \in TUIs : helper[l][g] = "none"
Unwritten(l) == \A g \in TUIs : helper[l][g] \in {"none", "bound"}

\* Before native there is no TUI and no helper, and a supervisor ends as
\* native or with its failed launch.
NativeInv ==
  \A l \in Launches :
    /\ pc[l] # "native" => l \notin alive /\ NoHelper(l)
    /\ supervisor[l] = "ended" => pc[l] \in {"native", "failed", "stranded"}
    /\ marker[l] \in TUIs => Settled(l)

\* What a launch examines or removes: its own directory, or one whose helper
\* has put its TUI on record; and it removes that one only once its supervisor
\* has ended.
TargetInv ==
  \A l \in Launches :
    /\ pc[l] \in {"tui", "supervisor"} => target[l] \in Launches /\ Settled(target[l])
    /\ pc[l] \in Removing =>
         /\ target[l] \in Launches
         /\ target[l] # l => Settled(target[l]) /\ supervisor[target[l]] = "ended"
    /\ pc[l] \in {"absolute", "input", "marker", "exec"} => target[l] = l

\* How far the launch of a directory has come says what is in it.
Own(l) ==
  /\ pc[l] \in {"idle", "sweep", "tui", "supervisor"} => l \notin directory
  /\ pc[l] \in Removing /\ target[l] # l => l \notin directory
  /\ pc[l] \in {"absolute", "stranded"} => l \notin input /\ marker[l] = Absent
  /\ pc[l] \in {"absolute", "input", "marker", "exec"} => l \in directory
  /\ pc[l] \in {"remove marker", "remove directory"} /\ target[l] = l => l \notin input
  /\ pc[l] = "remove directory" /\ target[l] = l => marker[l] = Absent

OwnInv == \A l \in Launches : Own(l)

\* The two halves of InputKept.
KeptWhileSupervised ==
  \A l \in Launches :
    pc[l] \in {"marker", "exec"} \/ (pc[l] = "native" /\ supervisor[l] = "live")
      => l \in input

UnboundKept == \A l \in Launches : pc[l] = "native" /\ Unwritten(l) => l \in input

IInv ==
  /\ Types /\ NativeInv /\ TargetInv /\ OwnInv
  /\ KeptWhileSupervised /\ UnboundKept /\ FailedLeavesNothing

-----------------------------------------------------------------------------
LEMMA InitInv == Init => IInv
<1> SUFFICES ASSUME Init PROVE IInv
  OBVIOUS
<1>0. 0 \in 0 .. MaxTUI
  BY LaunchDirectoryAssumption
<1>1. ProcessTypeOK
  BY <1>0 DEF Init, ProcessTypeOK
<1>2. FileTypeOK
  BY DEF Init, FileTypeOK
<1>3. SweepTypeOK
  BY <1>0 DEF Init, SweepTypeOK
<1>4. HelperTypeOK /\ DueTypeOK
  BY DEF Init, HelperTypeOK, DueTypeOK
<1>5. NativeInv
  BY LaunchDirectoryAssumption DEF Init, NativeInv, NoHelper, TUIs
<1>6. TargetInv /\ OwnInv
  BY DEF Init, TargetInv, OwnInv, Own, Removing
<1>7. KeptWhileSupervised /\ UnboundKept /\ FailedLeavesNothing
  BY DEF Init, KeptWhileSupervised, UnboundKept, FailedLeavesNothing
<1> QED
  BY <1>1, <1>2, <1>3, <1>4, <1>5, <1>6, <1>7 DEF IInv, Types

\* What the helpers have done stays when no helper steps.
LEMMA HelpersFrame ==
  ASSUME UNCHANGED helper
  PROVE  \A l : /\ Settled(l)' <=> Settled(l)
                /\ NoHelper(l)' <=> NoHelper(l)
                /\ Unwritten(l)' <=> Unwritten(l)
  BY DEF Settled, NoHelper, Unwritten

\* What a launch finds of its own stays when the steps of others leave it be.
LEMMA OwnFrame ==
  ASSUME NEW l, Own(l), pc'[l] = pc[l], target'[l] = target[l], marker'[l] = marker[l],
         l \in directory' <=> l \in directory, l \in input' => l \in input
  PROVE  Own(l)'
  BY DEF Own, Removing

\* Once native, it has nothing to find.
LEMMA OwnNative ==
  ASSUME NEW l, pc'[l] = "native"
  PROVE  Own(l)'
  BY DEF Own, Removing

LEMMA NoHelperSettled ==
  ASSUME NEW l, NoHelper(l)
  PROVE  ~Settled(l)
  BY DEF Settled, NoHelper

LEMMA SettledWrites ==
  ASSUME NEW l, Settled(l)
  PROVE  ~Unwritten(l)
  BY DEF Settled, Unwritten

LEMMA TUIsAreNumbers == TUIs \subseteq 0 .. MaxTUI /\ 0 \notin TUIs
                        /\ Absent \notin TUIs /\ Unreadable \notin TUIs
  BY LaunchDirectoryAssumption DEF TUIs

-----------------------------------------------------------------------------
(* Types, one group at a time                                               *)

LEMMA ProcessTypesStep ==
  ASSUME IInv, [Next]_vars
  PROVE  ProcessTypeOK'
<1> USE DEF IInv, Types, ProcessTypeOK
<1>1. CASE UNCHANGED processVars
  BY <1>1 DEF processVars
<1>2. ASSUME NEW l \in Launches, Launch(l) PROVE ProcessTypeOK'
  BY <1>2 DEF Launch
<1>3. ASSUME NEW l \in Launches, RemoveDirectory(l) PROVE ProcessTypeOK'
  BY <1>3 DEF RemoveDirectory
<1>4. ASSUME NEW l \in Launches, StartTUI(l) PROVE ProcessTypeOK'
  <2>1. tui[l] \in 0 .. MaxTUI /\ Relaunches[l] \in 0 .. MaxTUI /\ MaxTUI \in Nat
    BY LaunchDirectoryAssumption
  <2>2. tui[l] + 1 \in 0 .. MaxTUI
    BY <1>4, <2>1 DEF StartTUI
  <2> QED
    BY <1>4, <2>2 DEF StartTUI
<1>5. ASSUME NEW l \in Launches, TUIEnds(l) PROVE ProcessTypeOK'
  BY <1>5 DEF TUIEnds
<1>6. ASSUME NEW l \in Launches, SupervisorEnds(l) PROVE ProcessTypeOK'
  BY <1>6 DEF SupervisorEnds
<1>7. ASSUME NEW l \in Launches, AbsoluteFails(l) PROVE ProcessTypeOK'
  BY <1>7 DEF AbsoluteFails
<1> QED
  BY <1>1, <1>2, <1>3, <1>4, <1>5, <1>6, <1>7
  DEF Next, Launcher, Native, Helper, CheckTUI, CheckSupervisor, RemoveInput, RemoveMarker,
      MakeDirectory, MakeAbsolute, CreateInput, CreateMarker, Exec, ReadMarker, Failure, LaunchFails,
      Bind, UnlinkMarker, WriteMarker, vars

LEMMA FileTypesStep ==
  ASSUME IInv, [Next]_vars
  PROVE  FileTypeOK'
<1> USE DEF IInv, Types, FileTypeOK
<1>1. CASE UNCHANGED fileVars
  BY <1>1 DEF fileVars
<1>2. ASSUME NEW l \in Launches, RemoveInput(l) PROVE FileTypeOK'
  BY <1>2 DEF RemoveInput
<1>3. ASSUME NEW l \in Launches, RemoveMarker(l) PROVE FileTypeOK'
  BY <1>3 DEF RemoveMarker, MarkerRemoved
<1>4. ASSUME NEW l \in Launches, RemoveDirectory(l) PROVE FileTypeOK'
  BY <1>4 DEF RemoveDirectory, Removable
<1>5. ASSUME NEW l \in Launches, MakeDirectory(l) PROVE FileTypeOK'
  BY <1>5 DEF MakeDirectory
<1>6. ASSUME NEW l \in Launches, CreateInput(l) PROVE FileTypeOK'
  BY <1>6 DEF CreateInput, OwnInv, Own
<1>7. ASSUME NEW l \in Launches, CreateMarker(l) PROVE FileTypeOK'
  <2>1. 0 \in 0 .. MaxTUI
    BY LaunchDirectoryAssumption
  <2> QED
    BY <1>7, <2>1 DEF CreateMarker, OwnInv, Own
<1>8. ASSUME NEW l \in Launches, NEW g \in TUIs, UnlinkMarker(l, g) PROVE FileTypeOK'
  BY <1>8 DEF UnlinkMarker, MarkerRemoved
<1>9. ASSUME NEW l \in Launches, NEW g \in TUIs, WriteMarker(l, g) PROVE FileTypeOK'
  BY <1>9, TUIsAreNumbers DEF WriteMarker
<1> QED
  BY <1>1, <1>2, <1>3, <1>4, <1>5, <1>6, <1>7, <1>8, <1>9
  DEF Next, Launcher, Native, Helper, Launch, CheckTUI, CheckSupervisor, Exec, ReadMarker,
      MakeAbsolute, Failure, AbsoluteFails, LaunchFails, StartTUI, TUIEnds, SupervisorEnds, Bind, vars

LEMMA SweepTypesStep ==
  ASSUME IInv, [Next]_vars
  PROVE  SweepTypeOK'
<1> USE DEF IInv, Types, SweepTypeOK, Go
<1>1. CASE UNCHANGED <<pc, sweepVars>>
  BY <1>1 DEF sweepVars
<1>2. ASSUME NEW l \in Launches, Launch(l) PROVE SweepTypeOK'
  BY <1>2 DEF Launch, FileTypeOK
<1>3. ASSUME NEW l \in Launches, NEW x \in Launches, ReadMarker(l, x) PROVE SweepTypeOK'
  <2>1. CASE NamesTUI(x)
    <3>1. marker[x] \in 0 .. MaxTUI
      BY <2>1, TUIsAreNumbers DEF NamesTUI
    <3>2. pc' = [pc EXCEPT ![l] = "tui"] /\ target' = [target EXCEPT ![l] = x]
            /\ seen' = [seen EXCEPT ![l] = marker[x]] /\ todo' = [todo EXCEPT ![l] = @ \ {x}]
      BY <1>3, <2>1 DEF ReadMarker
    <3> QED
      BY <3>1, <3>2
  <2>2. CASE ~NamesTUI(x)
    BY <1>3, <2>2 DEF ReadMarker
  <2> QED
    BY <2>1, <2>2
<1>4. ASSUME NEW l \in Launches, CheckTUI(l) \/ CheckSupervisor(l) PROVE SweepTypeOK'
  BY <1>4 DEF CheckTUI, CheckSupervisor, KeepTarget, sweepVars
<1>5. ASSUME NEW l \in Launches, RemoveInput(l) \/ RemoveMarker(l) \/ RemoveDirectory(l)
      PROVE  SweepTypeOK'
  BY <1>5 DEF RemoveInput, RemoveMarker, RemoveDirectory, sweepVars
<1>6. ASSUME NEW l \in Launches, MakeDirectory(l) PROVE SweepTypeOK'
  BY <1>6 DEF MakeDirectory
<1>7. ASSUME NEW l \in Launches, MakeAbsolute(l) \/ CreateInput(l) \/ CreateMarker(l) \/ Exec(l)
                                   \/ Failure(l)
      PROVE  SweepTypeOK'
  BY <1>7 DEF MakeAbsolute, CreateInput, CreateMarker, Exec, Failure, AbsoluteFails, LaunchFails, sweepVars
<1> QED
  BY <1>1, <1>2, <1>3, <1>4, <1>5, <1>6, <1>7
  DEF Next, Launcher, Native, Helper, StartTUI, TUIEnds, SupervisorEnds, Bind, UnlinkMarker,
      WriteMarker, vars

LEMMA OtherTypesStep ==
  ASSUME IInv, [Next]_vars
  PROVE  HelperTypeOK' /\ DueTypeOK'
<1> USE DEF IInv, Types, HelperTypeOK, DueTypeOK
<1>1. DueTypeOK'
  <2>1. CASE UNCHANGED due
    BY <2>1
  <2>2. ASSUME NEW l \in Launches, Launch(l) PROVE DueTypeOK'
    BY <2>2 DEF Launch, Collectable, FileTypeOK
  <2>3. ASSUME NEW l \in Launches, KeepTarget(l) PROVE DueTypeOK'
    BY <2>3 DEF KeepTarget
  <2> QED
    BY <2>1, <2>2, <2>3
    DEF Next, Launcher, Native, Helper, CheckTUI, CheckSupervisor, RemoveInput, RemoveMarker,
        RemoveDirectory, MakeDirectory, MakeAbsolute, CreateInput, CreateMarker, Exec, ReadMarker,
        Failure, AbsoluteFails, LaunchFails,
        StartTUI, TUIEnds, SupervisorEnds, Bind, UnlinkMarker, WriteMarker, vars
<1>2. HelperTypeOK'
  <2>1. CASE UNCHANGED helper
    BY <2>1
  <2>2. ASSUME NEW l \in Launches, NEW g \in TUIs, Helper(l, g) PROVE HelperTypeOK'
    BY <2>2 DEF Helper, Bind, UnlinkMarker, WriteMarker
  <2> QED
    BY <2>1, <2>2
    DEF Next, Launcher, Native, Launch, CheckTUI, CheckSupervisor, RemoveInput, RemoveMarker,
        RemoveDirectory, MakeDirectory, MakeAbsolute, CreateInput, CreateMarker, Exec, ReadMarker,
        Failure, AbsoluteFails, LaunchFails,
        StartTUI, TUIEnds, SupervisorEnds, vars
<1> QED
  BY <1>1, <1>2

-----------------------------------------------------------------------------
(* The rest of the invariant, one action at a time                          *)

Rest == NativeInv /\ TargetInv /\ OwnInv
        /\ KeptWhileSupervised /\ UnboundKept /\ FailedLeavesNothing

\* A helper that has put its TUI on record belongs to a launch that became
\* native, so no launch examines its own directory in its sweep.
LEMMA SettledIsNative ==
  ASSUME IInv, NEW l \in Launches, Settled(l)
  PROVE  pc[l] = "native"
  BY NoHelperSettled DEF IInv, NativeInv

\* A step of a launcher that changes only how far it is.
LEMMA GoStep ==
  ASSUME IInv, NEW l \in Launches, NEW at, Go(l, at),
         UNCHANGED <<processVars, fileVars, target, helper>>,
         \/ at = "sweep" /\ pc[l] \in {"tui", "supervisor"}
         \/ at = "supervisor" /\ pc[l] = "tui"
         \/ at = "remove input" /\ pc[l] = "supervisor" /\ supervisor[target[l]] = "ended"
         \/ at = "remove input" /\ pc[l] \in {"input", "marker", "exec"}
  PROVE  Rest'
<1> USE DEF IInv, Types, SweepTypeOK, Rest, Go, processVars, fileVars
<1>1. NativeInv'
  BY HelpersFrame DEF NativeInv
<1>2. TargetInv'
  BY HelpersFrame DEF TargetInv, Removing
<1>3. OwnInv'
  <2>1. pc'[l] = at /\ \A k \in Launches : k # l => pc'[k] = pc[k]
    OBVIOUS
  <2>2. CASE at \in {"sweep", "supervisor"}
    BY <2>1, <2>2 DEF OwnInv, Own, Removing
  <2>3. CASE at = "remove input" /\ pc[l] = "supervisor"
    BY <2>1, <2>3 DEF OwnInv, Own, Removing
  <2>4. CASE at = "remove input" /\ pc[l] \in {"input", "marker", "exec"}
    BY <2>1, <2>4 DEF OwnInv, Own, TargetInv, Removing
  <2> QED
    BY <2>2, <2>3, <2>4
<1>4. KeptWhileSupervised' /\ UnboundKept' /\ FailedLeavesNothing'
  BY HelpersFrame DEF KeptWhileSupervised, UnboundKept, FailedLeavesNothing
<1> QED
  BY <1>1, <1>2, <1>3, <1>4

LEMMA LaunchStep ==
  ASSUME IInv, NEW l \in Launches, Launch(l)
  PROVE  Rest'
<1> USE DEF IInv, Types, SweepTypeOK, ProcessTypeOK, Rest, Launch, Go, fileVars
<1>1. NativeInv'
  BY HelpersFrame DEF NativeInv
<1>2. TargetInv'
  BY HelpersFrame DEF TargetInv, Removing, NativeInv
<1>3. OwnInv'
  BY DEF OwnInv, Own, Removing
<1>4. KeptWhileSupervised' /\ UnboundKept' /\ FailedLeavesNothing'
  BY HelpersFrame DEF KeptWhileSupervised, UnboundKept, FailedLeavesNothing
<1> QED
  BY <1>1, <1>2, <1>3, <1>4

LEMMA ReadMarkerStep ==
  ASSUME IInv, NEW l \in Launches, NEW x \in Launches, ReadMarker(l, x)
  PROVE  Rest'
<1> USE DEF IInv, Types, SweepTypeOK, Rest, ReadMarker, NamesTUI, Go, processVars, fileVars
<1>1. NativeInv'
  BY HelpersFrame DEF NativeInv
<1>2. TargetInv'
  <2>1. CASE marker[x] \in TUIs
    <3>1. Settled(x)
      BY <2>1 DEF NativeInv
    <3>2. pc'[l] = "tui" /\ target'[l] = x
      BY <2>1
    <3>3. \A k \in Launches : k # l => pc'[k] = pc[k] /\ target'[k] = target[k]
      BY <2>1
    <3>4. \A y : Settled(y)' <=> Settled(y)
      BY HelpersFrame
    <3>5. supervisor' = supervisor
      OBVIOUS
    <3>6. \A k \in Launches : pc'[k] \in {"tui", "supervisor"} =>
             target'[k] \in Launches /\ Settled(target[k])'
      <4> SUFFICES ASSUME NEW k \in Launches, pc'[k] \in {"tui", "supervisor"}
                   PROVE  target'[k] \in Launches /\ Settled(target'[k])
        BY <3>4
      <4> QED
        BY <3>1, <3>2, <3>3 DEF TargetInv
    <3>7. \A k \in Launches : pc'[k] \in Removing =>
             /\ target'[k] \in Launches
             /\ target'[k] # k => Settled(target[k])' /\ supervisor'[target'[k]] = "ended"
      <4> SUFFICES ASSUME NEW k \in Launches, pc'[k] \in Removing
                   PROVE  /\ target'[k] \in Launches
                          /\ target'[k] # k =>
                               Settled(target'[k]) /\ supervisor[target'[k]] = "ended"
        BY <3>4, <3>5
      <4>1. k # l
        BY <3>2 DEF Removing
      <4> QED
        BY <3>3, <4>1 DEF TargetInv
    <3>8. \A k \in Launches : pc'[k] \in {"absolute", "input", "marker", "exec"} => target'[k] = k
      BY <3>2, <3>3 DEF TargetInv
    <3> QED
      BY <3>6, <3>7, <3>8 DEF TargetInv, Removing
  <2>2. CASE marker[x] \notin TUIs
    BY <2>2, HelpersFrame DEF TargetInv, Removing
  <2> QED
    BY <2>1, <2>2
<1>3. OwnInv'
  BY DEF OwnInv, Own, Removing
<1>4. KeptWhileSupervised' /\ UnboundKept' /\ FailedLeavesNothing'
  BY HelpersFrame DEF KeptWhileSupervised, UnboundKept, FailedLeavesNothing
<1> QED
  BY <1>1, <1>2, <1>3, <1>4

LEMMA CheckStep ==
  ASSUME IInv, NEW l \in Launches, CheckTUI(l) \/ CheckSupervisor(l)
  PROVE  Rest'
<1>1. UNCHANGED <<processVars, fileVars, target, helper>> /\ pc[l] \in {"tui", "supervisor"}
  BY DEF CheckTUI, CheckSupervisor, sweepVars
<1>2. \/ Go(l, "sweep")
      \/ pc[l] = "tui" /\ Go(l, "supervisor")
      \/ pc[l] = "supervisor" /\ supervisor[target[l]] = "ended" /\ Go(l, "remove input")
  BY DEF CheckTUI, CheckSupervisor, KeepTarget, SupervisorEnded
<1> QED
  BY <1>1, <1>2, GoStep

LEMMA FailsStep ==
  ASSUME IInv, NEW l \in Launches, LaunchFails(l)
  PROVE  Rest'
  BY GoStep DEF LaunchFails, sweepVars

\* The one failure that leaves a directory leaves it empty.
LEMMA AbsoluteStep ==
  ASSUME IInv, NEW l \in Launches, MakeAbsolute(l) \/ AbsoluteFails(l)
  PROVE  Rest'
<1> USE DEF IInv, Types, SweepTypeOK, ProcessTypeOK, Rest, MakeAbsolute, AbsoluteFails, Go,
            fileVars, sweepVars, processVars
<1>1. NativeInv'
  BY HelpersFrame DEF NativeInv
<1>2. /\ pc[l] = "absolute" /\ pc'[l] \in {"input", "stranded"}
      /\ \A k \in Launches : k # l => pc'[k] = pc[k] /\ supervisor'[k] = supervisor[k]
      /\ UNCHANGED <<target, helper, fileVars>>
      /\ supervisor'[l] \in {supervisor[l], "ended"}
  OBVIOUS
<1>5. TargetInv'
  <2>1. \A x : Settled(x)' <=> Settled(x)
    BY HelpersFrame
  <2>2. \A x \in Launches : supervisor[x] = "ended" => supervisor'[x] = "ended"
    BY <1>2
  <2> QED
    BY <1>2, <2>1, <2>2 DEF TargetInv, Removing
<1>3. OwnInv'
  <2>1. \A k \in Launches : k # l => Own(k)'
    BY <1>2, OwnFrame DEF OwnInv
  <2>2. Own(l)'
    BY <1>2 DEF OwnInv, Own, Removing
  <2> QED
    BY <2>1, <2>2 DEF OwnInv
<1>6. KeptWhileSupervised' /\ UnboundKept'
  BY <1>2, HelpersFrame DEF KeptWhileSupervised, UnboundKept
<1>7. FailedLeavesNothing'
  BY <1>2 DEF FailedLeavesNothing, OwnInv, Own
<1> QED
  BY <1>1, <1>3, <1>5, <1>6, <1>7

\* Only a session whose supervisor has ended, after its helper has put a TUI
\* on record, or a launch that fails loses its input.
LEMMA RemoveInputStep ==
  ASSUME IInv, NEW l \in Launches, RemoveInput(l)
  PROVE  Rest'
<1> USE DEF IInv, Types, SweepTypeOK, Rest, RemoveInput, Go, processVars, sweepVars
<1>1. NativeInv'
  BY HelpersFrame DEF NativeInv
<1>2. TargetInv'
  BY HelpersFrame DEF TargetInv, Removing
<1>3. OwnInv'
  BY DEF OwnInv, Own, Removing
<1>4. target[l] = l \/ (Settled(target[l]) /\ supervisor[target[l]] = "ended" /\ pc[target[l]] = "native")
  BY SettledIsNative DEF TargetInv, Removing
<1>5. KeptWhileSupervised'
  BY <1>4 DEF KeptWhileSupervised
<1>6. UnboundKept'
  BY <1>4, HelpersFrame, SettledWrites DEF UnboundKept
<1>7. FailedLeavesNothing'
  BY DEF FailedLeavesNothing
<1> QED
  BY <1>1, <1>2, <1>3, <1>5, <1>6, <1>7

LEMMA RemoveMarkerStep ==
  ASSUME IInv, NEW l \in Launches, RemoveMarker(l)
  PROVE  Rest'
<1> USE DEF IInv, Types, SweepTypeOK, FileTypeOK, Rest, RemoveMarker, MarkerRemoved, Go,
            processVars, sweepVars
<1>1. NativeInv'
  BY HelpersFrame, TUIsAreNumbers DEF NativeInv
<1>2. TargetInv'
  BY HelpersFrame DEF TargetInv, Removing
<1>3. OwnInv'
  BY DEF OwnInv, Own, TargetInv, Removing, FileTypeOK
<1>4. KeptWhileSupervised' /\ UnboundKept' /\ FailedLeavesNothing'
  BY HelpersFrame DEF KeptWhileSupervised, UnboundKept, FailedLeavesNothing
<1> QED
  BY <1>1, <1>2, <1>3, <1>4

LEMMA RemoveDirectoryStep ==
  ASSUME IInv, NEW l \in Launches, RemoveDirectory(l)
  PROVE  Rest'
<1> USE DEF IInv, Types, SweepTypeOK, ProcessTypeOK, Rest, RemoveDirectory, Go, sweepVars
<1>0. target[l] = l \/ (Settled(target[l]) /\ supervisor[target[l]] = "ended" /\ pc[target[l]] = "native")
  BY SettledIsNative DEF TargetInv, Removing
<1>1. NativeInv'
  BY HelpersFrame DEF NativeInv
<1>2. TargetInv'
  BY HelpersFrame DEF TargetInv, Removing
<1>3. OwnInv'
  <2>1. /\ directory' \subseteq directory
        /\ \A k \in Launches : k # target[l] /\ k \in directory => k \in directory'
        /\ \A k \in Launches : k # l => pc'[k] = pc[k]
        /\ UNCHANGED <<input, marker, target>>
    OBVIOUS
  <2>2. pc'[l] = "failed" \/ (pc'[l] = "sweep" /\ target[l] # l)
    OBVIOUS
  <2>3. target[l] # l => l \notin directory
    <3>1. Own(l) /\ pc[l] = "remove directory"
      BY DEF OwnInv
    <3> QED
      BY <3>1 DEF Own, Removing
  <2>4. target[l] # l => pc'[target[l]] = "native"
    <3>1. target[l] \in Launches
      BY DEF TargetInv, Removing
    <3> QED
      BY <1>0, <2>1, <3>1
  <2>5. ASSUME NEW k \in Launches, k # l PROVE Own(k)'
    <3>1. CASE k = target[l]
      BY <2>4, <2>5, <3>1, OwnNative
    <3>2. CASE k # target[l]
      BY <2>1, <2>5, <3>2, OwnFrame DEF OwnInv
    <3> QED
      BY <3>1, <3>2
  <2>6. Own(l)'
    BY <2>1, <2>2, <2>3 DEF Own, Removing
  <2> QED
    BY <2>5, <2>6 DEF OwnInv
<1>4. KeptWhileSupervised' /\ UnboundKept'
  BY HelpersFrame DEF KeptWhileSupervised, UnboundKept
<1>5. FailedLeavesNothing'
  BY DEF FailedLeavesNothing, OwnInv, Own, Removable
<1> QED
  BY <1>1, <1>2, <1>3, <1>4, <1>5

LEMMA MakeDirectoryStep ==
  ASSUME IInv, NEW l \in Launches, MakeDirectory(l)
  PROVE  Rest'
<1> USE DEF IInv, Types, SweepTypeOK, Rest, MakeDirectory, Go, processVars
<1>1. NativeInv'
  BY HelpersFrame DEF NativeInv
<1>2. TargetInv'
  BY HelpersFrame DEF TargetInv, Removing
<1>3. OwnInv'
  BY DEF OwnInv, Own, TargetInv, Removing, FileTypeOK
<1>4. KeptWhileSupervised' /\ UnboundKept' /\ FailedLeavesNothing'
  BY HelpersFrame DEF KeptWhileSupervised, UnboundKept, FailedLeavesNothing
<1> QED
  BY <1>1, <1>2, <1>3, <1>4

LEMMA CreateInputStep ==
  ASSUME IInv, NEW l \in Launches, CreateInput(l)
  PROVE  Rest'
<1> USE DEF IInv, Types, SweepTypeOK, Rest, CreateInput, Go, processVars, sweepVars
<1>1. NativeInv'
  BY HelpersFrame DEF NativeInv
<1>2. TargetInv'
  BY HelpersFrame DEF TargetInv, Removing
<1>3. OwnInv'
  BY DEF OwnInv, Own, TargetInv, Removing, FileTypeOK
<1>4. KeptWhileSupervised' /\ UnboundKept' /\ FailedLeavesNothing'
  BY HelpersFrame DEF KeptWhileSupervised, UnboundKept, FailedLeavesNothing
<1> QED
  BY <1>1, <1>2, <1>3, <1>4

LEMMA CreateMarkerStep ==
  ASSUME IInv, NEW l \in Launches, CreateMarker(l)
  PROVE  Rest'
<1> USE DEF IInv, Types, SweepTypeOK, FileTypeOK, Rest, CreateMarker, Go, processVars, sweepVars
<1>1. NativeInv'
  BY HelpersFrame, TUIsAreNumbers DEF NativeInv
<1>2. TargetInv'
  BY HelpersFrame, TUIsAreNumbers DEF TargetInv, Removing
<1>3. OwnInv'
  BY DEF OwnInv, Own, TargetInv, Removing, FileTypeOK
<1>4. KeptWhileSupervised' /\ UnboundKept' /\ FailedLeavesNothing'
  BY HelpersFrame DEF KeptWhileSupervised, UnboundKept, FailedLeavesNothing
<1> QED
  BY <1>1, <1>2, <1>3, <1>4

LEMMA ExecStep ==
  ASSUME IInv, NEW l \in Launches, Exec(l)
  PROVE  Rest'
<1> USE DEF IInv, Types, SweepTypeOK, Rest, Exec, Go, processVars, fileVars, sweepVars
<1>1. NativeInv'
  BY HelpersFrame DEF NativeInv
<1>2. TargetInv'
  BY HelpersFrame DEF TargetInv, Removing
<1>3. OwnInv'
  BY DEF OwnInv, Own, TargetInv, Removing, FileTypeOK
<1>4. KeptWhileSupervised' /\ UnboundKept' /\ FailedLeavesNothing'
  BY HelpersFrame DEF KeptWhileSupervised, UnboundKept, FailedLeavesNothing, OwnInv, Own
<1> QED
  BY <1>1, <1>2, <1>3, <1>4

LEMMA StartTUIStep ==
  ASSUME IInv, NEW l \in Launches, StartTUI(l)
  PROVE  Rest'
<1> USE DEF IInv, Types, SweepTypeOK, ProcessTypeOK, Rest, StartTUI, fileVars, sweepVars
<1>1. NativeInv'
  BY HelpersFrame DEF NativeInv
<1>2. TargetInv'
  BY HelpersFrame DEF TargetInv, Removing
<1>3. OwnInv'
  BY DEF OwnInv, Own, TargetInv, Removing, FileTypeOK
<1>4. KeptWhileSupervised' /\ UnboundKept' /\ FailedLeavesNothing'
  BY HelpersFrame DEF KeptWhileSupervised, UnboundKept, FailedLeavesNothing
<1> QED
  BY <1>1, <1>2, <1>3, <1>4

LEMMA TUIEndsStep ==
  ASSUME IInv, NEW l \in Launches, TUIEnds(l)
  PROVE  Rest'
<1> USE DEF IInv, Types, SweepTypeOK, ProcessTypeOK, Rest, TUIEnds, fileVars, sweepVars
<1>1. NativeInv'
  BY HelpersFrame DEF NativeInv
<1>2. TargetInv'
  BY HelpersFrame DEF TargetInv, Removing
<1>3. OwnInv'
  BY DEF OwnInv, Own, TargetInv, Removing, FileTypeOK
<1>4. KeptWhileSupervised' /\ UnboundKept' /\ FailedLeavesNothing'
  BY HelpersFrame DEF KeptWhileSupervised, UnboundKept, FailedLeavesNothing
<1> QED
  BY <1>1, <1>2, <1>3, <1>4

LEMMA SupervisorEndsStep ==
  ASSUME IInv, NEW l \in Launches, SupervisorEnds(l)
  PROVE  Rest'
<1> USE DEF IInv, Types, SweepTypeOK, ProcessTypeOK, Rest, SupervisorEnds, fileVars, sweepVars
<1>1. NativeInv'
  BY HelpersFrame DEF NativeInv
<1>2. TargetInv'
  BY HelpersFrame DEF TargetInv, Removing
<1>3. OwnInv'
  BY DEF OwnInv, Own, TargetInv, Removing, FileTypeOK
<1>4. KeptWhileSupervised' /\ UnboundKept' /\ FailedLeavesNothing'
  BY HelpersFrame DEF KeptWhileSupervised, UnboundKept, FailedLeavesNothing
<1> QED
  BY <1>1, <1>2, <1>3, <1>4

LEMMA HelperStep ==
  ASSUME IInv, NEW l \in Launches, NEW g \in TUIs, Helper(l, g)
  PROVE  Rest'
<1> USE DEF IInv, Types, HelperTypeOK, FileTypeOK, Rest, processVars, sweepVars
<1>1. pc[l] = "native"
  BY DEF Helper, Bind, UnlinkMarker, WriteMarker, NativeInv, NoHelper
<1>2. \A x \in Launches : Settled(x) => Settled(x)'
  BY DEF Helper, Bind, UnlinkMarker, WriteMarker, Settled
<1>3. /\ UNCHANGED <<supervisor, tui, alive, directory, input, pc, target>>
      /\ \A x \in Launches : x # l => helper'[x] = helper[x] /\ marker'[x] = marker[x]
  BY DEF Helper, Bind, UnlinkMarker, WriteMarker, MarkerRemoved, fileVars
<1>0. \A x \in Launches : x # l => (NoHelper(x)' <=> NoHelper(x)) /\ (Unwritten(x)' <=> Unwritten(x))
  BY <1>3 DEF NoHelper, Unwritten
<1>4. marker'[l] \in TUIs => Settled(l)'
  BY TUIsAreNumbers
  DEF Helper, Bind, UnlinkMarker, WriteMarker, MarkerRemoved, NativeInv, Settled, fileVars
<1>5. NativeInv'
  BY <1>1, <1>2, <1>3, <1>4, <1>0 DEF NativeInv
<1>6. TargetInv'
  BY <1>2, <1>3 DEF TargetInv
<1>7. OwnInv'
  <2>1. \A k \in Launches : pc[k] # "native" => marker'[k] = marker[k]
    BY <1>1, <1>3
  <2>2. ASSUME NEW k \in Launches PROVE Own(k)'
    <3>1. CASE pc[k] = "native"
      BY <1>3, <3>1, OwnNative
    <3>2. CASE pc[k] # "native"
      BY <1>3, <2>1, <3>2, OwnFrame DEF OwnInv
    <3> QED
      BY <3>1, <3>2
  <2> QED
    BY <2>2 DEF OwnInv
<1>8. KeptWhileSupervised' /\ FailedLeavesNothing'
  BY <1>1, <1>3 DEF KeptWhileSupervised, FailedLeavesNothing
<1>9. UnboundKept'
  <2>1. \A h \in TUIs : helper'[l][h] \in {"none", "bound"} => helper[l][h] \in {"none", "bound"}
    BY DEF Helper, Bind, UnlinkMarker, WriteMarker
  <2> QED
    BY <1>0, <1>3, <2>1 DEF UnboundKept, Unwritten
<1> QED
  BY <1>5, <1>6, <1>7, <1>8, <1>9

\* The inductive invariant holds in every reachable state.
LEMMA Inductive == Spec => []IInv
<1>1. Init => IInv
  BY InitInv
<1>2. IInv /\ [Next]_vars => IInv'
  <2> SUFFICES ASSUME IInv, [Next]_vars PROVE IInv'
    OBVIOUS
  <2>1. Types'
    BY ProcessTypesStep, FileTypesStep, SweepTypesStep, OtherTypesStep DEF Types
  <2>2. ASSUME UNCHANGED vars PROVE Rest'
    <3>1. /\ UNCHANGED <<pc, target, alive, supervisor, marker, directory, input, helper>>
      BY <2>2 DEF vars, processVars, fileVars, sweepVars
    <3>2. NativeInv'
      BY <3>1, HelpersFrame DEF IInv, NativeInv
    <3>3. TargetInv'
      BY <3>1, HelpersFrame DEF IInv, TargetInv
    <3>4. OwnInv'
      BY <3>1 DEF IInv, OwnInv, Own, Removing
    <3>5. KeptWhileSupervised' /\ FailedLeavesNothing'
      BY <3>1 DEF IInv, KeptWhileSupervised, FailedLeavesNothing
    <3>6. UnboundKept'
      BY <3>1, HelpersFrame DEF IInv, UnboundKept
    <3>7. Rest'
      BY <3>2, <3>3, <3>4, <3>5, <3>6 DEF Rest
    <3> QED
      BY <3>7
  <2>3. ASSUME NEW l \in Launches,
               Launch(l) \/ Launcher(l) \/ Failure(l) \/ Native(l) \/ \E g \in TUIs : Helper(l, g)
        PROVE  Rest'
    <3>1. CASE Launch(l) \/ Failure(l)
      BY <3>1, LaunchStep, FailsStep, AbsoluteStep DEF Failure
    <3>2. CASE Launcher(l)
      BY <3>2, ReadMarkerStep, CheckStep, RemoveInputStep, RemoveMarkerStep, RemoveDirectoryStep,
         MakeDirectoryStep, AbsoluteStep, CreateInputStep, CreateMarkerStep, ExecStep DEF Launcher
    <3>3. CASE Native(l)
      BY <3>3, StartTUIStep, TUIEndsStep, SupervisorEndsStep DEF Native
    <3>4. CASE \E g \in TUIs : Helper(l, g)
      BY <3>4, HelperStep
    <3> QED
      BY <2>3, <3>1, <3>2, <3>3, <3>4
  <2>4. Rest'
    <3>1. CASE Next
      <4>1. PICK l \in Launches :
              Launch(l) \/ Launcher(l) \/ Failure(l) \/ Native(l) \/ \E g \in TUIs : Helper(l, g)
        BY <3>1, Zenon DEF Next
      <4> QED
        BY <4>1, <2>3
    <3>2. CASE UNCHANGED vars
      BY <2>2, <3>2
    <3> QED
      BY <3>1, <3>2
  <2> QED
    BY <2>1, <2>4 DEF IInv, Rest
<1> QED
  BY <1>1, <1>2, PTL DEF Spec

-----------------------------------------------------------------------------
\* Every variable of the launches, their files and their helpers keeps its
\* type; a file or a marker is only ever in a directory.
THEOREM TypeCorrect == Spec => []TypeOK
<1>1. IInv => TypeOK
  BY DEF IInv, Types, ProcessTypeOK, FileTypeOK, SweepTypeOK, HelperTypeOK, DueTypeOK, TypeOK
<1> QED
  BY <1>1, Inductive, PTL

\* No sweep takes the input of a launch that is being prepared, of a session
\* whose supervisor lives, or of one whose helper has yet to put a TUI on
\* record (sweepInteractiveDirectories, writeInteractiveMarker).
THEOREM InputIsKept == Spec => []InputKept
<1>1. ASSUME KeptWhileSupervised, UnboundKept PROVE InputKept
  <2> SUFFICES ASSUME NEW l \in Launches,
                      \/ pc[l] \in {"marker", "exec"}
                      \/ pc[l] = "native" /\ supervisor[l] = "live"
                      \/ pc[l] = "native" /\ Unwritten(l)
               PROVE  l \in input
    BY DEF InputKept, Unwritten
  <2> QED
    BY <1>1 DEF KeptWhileSupervised, UnboundKept
<1>2. IInv => InputKept
  BY <1>1 DEF IInv
<1> QED
  BY <1>2, Inductive, PTL

\* A launch that failed leaves no file and no directory behind, but for an
\* empty directory when filepath.Abs failed (prepareInteractiveLaunch:202-205,
\* RunInteractive, removeInteractiveDirectory).
THEOREM FailureLeavesNothing == Spec => []FailedLeavesNothing
<1>1. IInv => FailedLeavesNothing
  BY DEF IInv
<1> QED
  BY <1>1, Inductive, PTL
=============================================================================
