------------------------- MODULE LaneLifecycle_proofs -------------------------
(***************************************************************************)
(* Proofs about LaneLifecycle, for any connections, Runs and events: the    *)
(* type invariant, that a Run is retired before the shutdown, and that      *)
(* Close leaves nothing of what it found.                                   *)
(***************************************************************************)
EXTENDS LaneLifecycle, TLAPS

\* What Open has not reached yet does not exist.
OpenInv ==
  /\ open \in {"idle", "lock"} => lock = "none"
  /\ open \in {"idle", "lock", "endpoint"} => endpoint = "none"
  /\ open \in {"idle", "lock", "endpoint", "files"} => files = "none"
  /\ open \in {"idle", "lock", "endpoint", "files", "child"} => child = "none"

\* What Close found exists, and how far Close is says what is left of it.
CloseInv ==
  /\ closer = "none" <=> stage = "none"
  /\ stage = "none" => held = {}
  /\ "endpoint" \in held => endpoint # "none"
  /\ "child" \in held => child # "none"
  /\ "lock" \in held => lock # "none"
  /\ "files" \in held => files # "none"
  /\ stage \in {"workers", "child", "done"} /\ "endpoint" \in held
       => endpoint = "closed"
  /\ stage \in {"child", "done"} /\ "endpoint" \in held => WorkersGone
  /\ CloseJoins

\* The Run slot against the Runs, and what watch knows when it acts.
RunInv ==
  /\ \A r \in early : turn[r] # "idle"
  /\ \A r \in Runs : turn[r] = "running" => run = r
  /\ run # NoRun => turn[run] # "idle"
  /\ watch \in {"retiring", "shutdown"} => Dead
  /\ watch = "retiring" =>
       \A r \in early : r = seen \/ (turn[r] = "done" /\ run # r)
  /\ RunRetired

IInv == TypeOK /\ OpenInv /\ CloseInv /\ RunInv

-----------------------------------------------------------------------------
LEMMA TypeInit == Init => TypeOK
  BY DEF Init, TypeOK, OpenTypeOK, EndTypeOK, ChildTypeOK, RunTypeOK, CloseTypeOK

\* A part of the type invariant whose variables do not change is preserved.
LEMMA TypeFrame ==
  ASSUME TypeOK
  PROVE  /\ UNCHANGED <<openVars, laneCtx>> => OpenTypeOK'
         /\ UNCHANGED endVars => EndTypeOK'
         /\ UNCHANGED <<childVars, watch>> => ChildTypeOK'
         /\ UNCHANGED <<run, runVars, watchVars>> => RunTypeOK'
         /\ UNCHANGED closeVars => CloseTypeOK'
<1>1. UNCHANGED <<openVars, laneCtx>> => OpenTypeOK'
  BY DEF TypeOK, OpenTypeOK, openVars
<1>2. UNCHANGED endVars => EndTypeOK'
  BY DEF TypeOK, EndTypeOK, endVars
<1>3. UNCHANGED <<childVars, watch>> => ChildTypeOK'
  BY DEF TypeOK, ChildTypeOK, childVars
<1>4. UNCHANGED <<run, runVars, watchVars>> => RunTypeOK'
  BY DEF TypeOK, RunTypeOK, runVars, watchVars
<1>5. UNCHANGED closeVars => CloseTypeOK'
  BY DEF TypeOK, CloseTypeOK, closeVars
<1> QED BY <1>1, <1>2, <1>3, <1>4, <1>5

\* Every step keeps every variable in its type.
LEMMA TypeNext == TypeOK /\ OpenInv /\ CloseInv /\ [Next]_vars => TypeOK'
<1> SUFFICES ASSUME TypeOK, OpenInv, CloseInv, [Next]_vars PROVE TypeOK'
  OBVIOUS
<1> OpenTypeOK /\ EndTypeOK /\ ChildTypeOK /\ RunTypeOK /\ CloseTypeOK
  BY DEF TypeOK
<1> USE DEF openVars, endVars, childVars, watchVars, runVars, closeVars
<1>1. CASE OpenBegin
  <2>1. OpenTypeOK'
    BY <1>1 DEF OpenBegin, OpenTypeOK
  <2> QED BY <1>1, <2>1, TypeFrame DEF TypeOK, OpenBegin
<1>2. CASE OpenLock
  <2>1. OpenTypeOK'
    BY <1>2 DEF OpenLock, OpenTypeOK
  <2> QED BY <1>2, <2>1, TypeFrame DEF TypeOK, OpenLock
<1>3. CASE OpenEndpoint
  <2>1. OpenTypeOK'
    BY <1>3 DEF OpenEndpoint, OpenTypeOK
  <2>2. EndTypeOK'
    BY <1>3 DEF OpenEndpoint, EndTypeOK
  <2> QED BY <1>3, <2>1, <2>2, TypeFrame DEF TypeOK, OpenEndpoint
<1>4. CASE OpenFiles
  <2>1. OpenTypeOK'
    BY <1>4 DEF OpenFiles, OpenTypeOK
  <2> QED BY <1>4, <2>1, TypeFrame DEF TypeOK, OpenFiles
<1>5. CASE OpenChild
  <2>1. OpenTypeOK'
    BY <1>5 DEF OpenChild, OpenInv, OpenTypeOK
  <2>2. ChildTypeOK'
    BY <1>5 DEF OpenChild, OpenInv, ChildTypeOK
  <2>3. RunTypeOK'
    BY <1>5 DEF OpenChild, OpenInv, RunTypeOK
  <2> QED BY <1>5, <2>1, <2>2, <2>3, TypeFrame DEF TypeOK, OpenChild
<1>6. CASE OpenRefused
  <2>1. OpenTypeOK'
    BY <1>6 DEF OpenRefused, OpenTypeOK
  <2> QED BY <1>6, <2>1, TypeFrame DEF TypeOK, OpenRefused
<1>7. CASE OpenCalls
  <2>1. OpenTypeOK'
    BY <1>7 DEF OpenCalls, OpenTypeOK
  <2> QED BY <1>7, <2>1, TypeFrame DEF TypeOK, OpenCalls
<1>8. CASE OpenReady
  <2>1. OpenTypeOK'
    BY <1>8 DEF OpenReady, OpenTypeOK
  <2> QED BY <1>8, <2>1, TypeFrame DEF TypeOK, OpenReady
<1>9. CASE OpenFails
  <2>1. OpenTypeOK'
    BY <1>9 DEF OpenFails, OpenTypeOK
  <2> QED BY <1>9, <2>1, TypeFrame DEF TypeOK, OpenFails
<1>10. CASE OpenReturnsError
  <2>1. OpenTypeOK'
    BY <1>10 DEF OpenReturnsError, OpenTypeOK
  <2> QED BY <1>10, <2>1, TypeFrame DEF TypeOK, OpenReturnsError
<1>11. CASE Expires
  <2>1. OpenTypeOK'
    BY <1>11 DEF Expires, OpenTypeOK
  <2> QED BY <1>11, <2>1, TypeFrame DEF TypeOK, Expires
<1>12. CASE OpenAdopts
  <2>1. OpenTypeOK'
    <3>1. CASE Adoptable
      BY <1>12, <3>1 DEF OpenAdopts, OpenTypeOK
    <3>2. CASE ~Adoptable
      BY <1>12, <3>2 DEF OpenAdopts, Adoptable, Live, OpenTypeOK
    <3> QED BY <3>1, <3>2
  <2> QED BY <1>12, <2>1, TypeFrame DEF TypeOK, OpenAdopts
<1>13. CASE OpenLoses
  <2>1. OpenTypeOK'
    BY <1>13 DEF OpenLoses, LoseLane, Failing, Cancelling, OpenTypeOK
  <2>2. ChildTypeOK'
    BY <1>13 DEF OpenLoses, LoseLane, Failing, Cancelling, ChildTypeOK
  <2> QED BY <1>13, <2>1, <2>2, TypeFrame DEF TypeOK, OpenLoses
<1>14. CASE StartupStops
  <2>1. OpenTypeOK'
    BY <1>14 DEF StartupStops, OpenTypeOK
  <2> QED BY <1>14, <2>1, TypeFrame DEF TypeOK, StartupStops
<1>15. CASE LifetimeKills
  <2>1. ChildTypeOK'
    BY <1>15 DEF LifetimeKills, Dead, ChildTypeOK
  <2> QED BY <1>15, <2>1, TypeFrame DEF TypeOK, LifetimeKills
<1>16. CASE LifetimeEnds
  <2>1. ChildTypeOK'
    BY <1>16 DEF LifetimeEnds, Dead, ChildTypeOK
  <2> QED BY <1>16, <2>1, TypeFrame DEF TypeOK, LifetimeEnds
<1>17. CASE ReaderEnds
  <2>1. ChildTypeOK'
    BY <1>17 DEF ReaderEnds, ClientAtEOF, ChildTypeOK
  <2> QED BY <1>17, <2>1, TypeFrame DEF TypeOK, ReaderEnds
<1>18. CASE WatchLooks
  <2>1. ChildTypeOK'
    BY <1>18 DEF WatchLooks, RunSeen, Dead, ChildTypeOK
  <2>2. RunTypeOK'
    BY <1>18 DEF WatchLooks, RunSeen, Dead, RunTypeOK
  <2> QED BY <1>18, <2>1, <2>2, TypeFrame DEF TypeOK, WatchLooks
<1>19. CASE WatchRetires
  <2>1. ChildTypeOK'
    BY <1>19 DEF WatchRetires, Without, ChildTypeOK
  <2>2. RunTypeOK'
    BY <1>19 DEF WatchRetires, Without, RunTypeOK
  <2> QED BY <1>19, <2>1, <2>2, TypeFrame DEF TypeOK, WatchRetires
<1>20. CASE WatchShutsDown
  <2>1. ChildTypeOK'
    BY <1>20 DEF WatchShutsDown, ChildTypeOK
  <2>2. RunTypeOK'
    BY <1>20 DEF WatchShutsDown, RunTypeOK
  <2> QED BY <1>20, <2>1, <2>2, TypeFrame DEF TypeOK, WatchShutsDown
<1>21. CASE CloseEndpoint
  <2>1. EndTypeOK'
    BY <1>21 DEF CloseEndpoint, EndTypeOK
  <2>2. CloseTypeOK'
    BY <1>21 DEF CloseEndpoint, CloseTypeOK
  <2> QED BY <1>21, <2>1, <2>2, TypeFrame DEF TypeOK, CloseEndpoint
<1>22. CASE CloseClient
  <2>1. ChildTypeOK'
    BY <1>22 DEF CloseClient, CloseInv, ChildTypeOK
  <2>2. CloseTypeOK'
    BY <1>22 DEF CloseClient, CloseInv, CloseTypeOK
  <2> QED BY <1>22, <2>1, <2>2, TypeFrame DEF TypeOK, CloseClient
<1>23. CASE CloseReleases
  <2>1. OpenTypeOK'
    BY <1>23 DEF CloseReleases, OpenTypeOK
  <2>2. CloseTypeOK'
    BY <1>23 DEF CloseReleases, CloseTypeOK
  <2> QED BY <1>23, <2>1, <2>2, TypeFrame DEF TypeOK, CloseReleases
<1>24. CASE Deadline
  <2>1. ChildTypeOK'
    BY <1>24 DEF Deadline, Dead, ChildTypeOK, CloseInv
  <2> QED BY <1>24, <2>1, TypeFrame DEF TypeOK, Deadline
<1>25. CASE NativeExits
  <2>1. ChildTypeOK'
    BY <1>25 DEF NativeExits, ChildTypeOK
  <2> QED BY <1>25, <2>1, TypeFrame DEF TypeOK, NativeExits
<1>26. CASE NativeObeys
  <2>1. ChildTypeOK'
    BY <1>26 DEF NativeObeys, ChildTypeOK
  <2> QED BY <1>26, <2>1, TypeFrame DEF TypeOK, NativeObeys
<1>27. ASSUME NEW r \in Runs, RunBegins(r) PROVE TypeOK'
  <2>1. RunTypeOK'
    BY <1>27 DEF RunBegins, RunTypeOK, Dead
  <2> QED BY <1>27, <2>1, TypeFrame DEF TypeOK, RunBegins
<1>28. ASSUME NEW r \in Runs, RunEnds(r) PROVE TypeOK'
  <2>1. RunTypeOK'
    BY <1>28 DEF RunEnds, RunTypeOK
  <2> QED BY <1>28, <2>1, TypeFrame DEF TypeOK, RunEnds
<1>29. ASSUME NEW r \in Runs, RetireRun(r) PROVE TypeOK'
  <2>1. RunTypeOK'
    BY <1>29 DEF RetireRun, RunTypeOK, Without
  <2> QED BY <1>29, <2>1, TypeFrame DEF TypeOK, RetireRun
<1>30. ASSUME NEW who \in {"open", "daemon"}, CloseBegin(who) PROVE TypeOK'
  <2>1. CloseTypeOK'
    BY <1>30 DEF CloseBegin, CloseTypeOK, Found
  <2> QED BY <1>30, <2>1, TypeFrame DEF TypeOK, CloseBegin
<1>31. ASSUME NEW c \in Conns, End(c) \/ Accept(c) \/ Initialized(c) \/ NativeDrops(c)
       PROVE  TypeOK'
  <2>1. EndTypeOK'
    BY <1>31 DEF End, Accept, Initialized, NativeDrops, EndTypeOK
  <2> QED BY <1>31, <2>1, TypeFrame DEF TypeOK, End, Accept, Initialized, NativeDrops
<1>32. ASSUME NEW c \in Conns, EndLoses(c) PROVE TypeOK'
  <2>1. EndTypeOK'
    BY <1>32 DEF EndLoses, EndTypeOK
  <2>2. OpenTypeOK' /\ ChildTypeOK'
    BY <1>32 DEF EndLoses, OpenTypeOK, ChildTypeOK, LoseLane, Failing, Cancelling
  <2> QED BY <1>32, <2>1, <2>2, TypeFrame DEF TypeOK, EndLoses
<1>33. CASE UNCHANGED vars
  BY <1>33, TypeFrame DEF TypeOK, vars
<1> QED
  BY <1>1, <1>2, <1>3, <1>4, <1>5, <1>6, <1>7, <1>8, <1>9, <1>10, <1>11, <1>12, <1>13, <1>14, <1>15, <1>16, <1>17, <1>18, <1>19, <1>20, <1>21, <1>22, <1>23, <1>24, <1>25, <1>26, <1>27, <1>28, <1>29, <1>30, <1>31, <1>32, <1>33
  DEF Next, OpenStep, Lifetime, Watch, CloseStep, Worker, Native

-----------------------------------------------------------------------------
(* What Open has not reached does not exist.                                 *)
LEMMA OpenNext == TypeOK /\ OpenInv /\ CloseInv /\ [Next]_vars => OpenInv'
<1> SUFFICES ASSUME TypeOK, OpenInv, CloseInv, [Next]_vars PROVE OpenInv'
  OBVIOUS
<1> USE DEF OpenInv, openVars, endVars, childVars, watchVars, runVars, closeVars
<1>1. CASE OpenStep
  BY <1>1 DEF OpenStep, OpenBegin, OpenRefused, OpenLock, OpenEndpoint, OpenFiles,
     OpenChild, OpenCalls, OpenReady, OpenFails, OpenAdopts, OpenLoses,
     OpenReturnsError
<1>2. CASE Expires \/ StartupStops
  BY <1>2 DEF Expires, StartupStops
<1>3. CASE Lifetime
  <2>1. lifetime = "waiting" => child # "none"
    BY DEF TypeOK, ChildTypeOK
  <2> QED BY <1>3, <2>1 DEF Lifetime, LifetimeKills, LifetimeEnds
<1>4. CASE ReaderEnds \/ Watch
  BY <1>4 DEF ReaderEnds, Watch, WatchLooks, WatchRetires, WatchShutsDown
<1>5. ASSUME NEW r \in Runs, RunBegins(r) \/ RunEnds(r) \/ RetireRun(r)
      PROVE  OpenInv'
  BY <1>5 DEF RunBegins, RunEnds, RetireRun
<1>6. ASSUME NEW who \in {"open", "daemon"}, CloseBegin(who) PROVE OpenInv'
  BY <1>6 DEF CloseBegin
<1>7. CASE CloseStep
  BY <1>7 DEF CloseStep, CloseEndpoint, CloseClient, CloseReleases, CloseInv
<1>8. CASE Deadline
  BY <1>8 DEF Deadline, CloseInv
<1>9. ASSUME NEW c \in Conns, Worker(c) \/ Accept(c) \/ Initialized(c) \/ NativeDrops(c)
      PROVE  OpenInv'
  BY <1>9 DEF Worker, End, EndLoses, Accept, Initialized, NativeDrops
<1>10. CASE NativeExits \/ NativeObeys
  BY <1>10 DEF NativeExits, NativeObeys
<1>11. CASE UNCHANGED vars
  BY <1>11 DEF vars
<1> QED
  BY <1>1, <1>2, <1>3, <1>4, <1>5, <1>6, <1>7, <1>8, <1>9, <1>10, <1>11
  DEF Next, Native

-----------------------------------------------------------------------------
(* Nothing of what Close found comes back: no step revives a child, reopens  *)
(* an endpoint, or gives a closed one a new connection.                      *)
LEMMA NothingRevives ==
  ASSUME TypeOK, OpenInv, CloseInv, [Next]_vars
  PROVE  /\ Dead => Dead'
         /\ drained => drained'
         /\ child # "none" => child' # "none"
         /\ endpoint = "closed" => endpoint' = "closed"
         /\ endpoint # "none" => endpoint' # "none"
         /\ endpoint = "closed" /\ WorkersGone => WorkersGone'
         /\ lock # "none" => lock' # "none"
         /\ files # "none" => files' # "none"
         /\ lock = "released" => lock' = "released"
         /\ files = "released" => files' = "released"
<1> USE DEF openVars, endVars, childVars, watchVars, runVars, closeVars
<1> DEFINE Stays ==
      /\ Dead => Dead'
      /\ drained => drained'
      /\ child # "none" => child' # "none"
      /\ endpoint = "closed" => endpoint' = "closed"
      /\ endpoint # "none" => endpoint' # "none"
      /\ endpoint = "closed" /\ WorkersGone => WorkersGone'
      /\ lock # "none" => lock' # "none"
      /\ files # "none" => files' # "none"
      /\ lock = "released" => lock' = "released"
      /\ files = "released" => files' = "released"
<1>1. CASE OpenStep
  BY <1>1 DEF OpenStep, OpenBegin, OpenRefused, OpenLock, OpenEndpoint, OpenFiles,
     OpenChild, OpenCalls, OpenReady, OpenFails, OpenAdopts, OpenLoses,
     OpenReturnsError, OpenInv, Dead, WorkersGone
<1>2. CASE Expires \/ StartupStops \/ Lifetime \/ ReaderEnds \/ Watch
  BY <1>2 DEF Expires, StartupStops, Lifetime, LifetimeKills, LifetimeEnds,
     ReaderEnds, Watch, WatchLooks, WatchRetires, WatchShutsDown, Dead, WorkersGone
<1>3. ASSUME NEW r \in Runs, RunBegins(r) \/ RunEnds(r) \/ RetireRun(r)
      PROVE  Stays
  BY <1>3 DEF RunBegins, RunEnds, RetireRun, Dead, WorkersGone
<1>4. ASSUME NEW who \in {"open", "daemon"}, CloseBegin(who) PROVE Stays
  BY <1>4 DEF CloseBegin, Dead, WorkersGone
<1>5. CASE CloseStep \/ Deadline
  BY <1>5 DEF CloseStep, CloseEndpoint, CloseClient, CloseReleases, Deadline, Dead,
     WorkersGone
<1>6. ASSUME NEW c \in Conns, Worker(c) \/ Accept(c) \/ Initialized(c) \/ NativeDrops(c)
      PROVE  Stays
  BY <1>6 DEF Worker, End, EndLoses, Accept, Initialized, NativeDrops, Dead,
     WorkersGone, TypeOK, EndTypeOK
<1>7. CASE NativeExits \/ NativeObeys
  BY <1>7 DEF NativeExits, NativeObeys, Dead, WorkersGone
<1>8. CASE UNCHANGED vars
  BY <1>8 DEF vars, Dead, WorkersGone
<1> QED
  BY <1>1, <1>2, <1>3, <1>4, <1>5, <1>6, <1>7, <1>8 DEF Next, Native

LEMMA CloseNext == TypeOK /\ OpenInv /\ CloseInv /\ [Next]_vars => CloseInv'
<1> SUFFICES ASSUME TypeOK, OpenInv, CloseInv, [Next]_vars PROVE CloseInv'
  OBVIOUS
<1>1. ASSUME UNCHANGED closeVars PROVE CloseInv'
  BY <1>1, NothingRevives DEF CloseInv, CloseJoins, closeVars
<1>2. ASSUME NEW who \in {"open", "daemon"}, CloseBegin(who) PROVE CloseInv'
  BY <1>2 DEF CloseBegin, Found, CloseInv, CloseJoins, openVars, endVars, childVars
<1>3. CASE CloseEndpoint
  BY <1>3, NothingRevives DEF CloseEndpoint, CloseInv, CloseJoins
<1>4. CASE CloseClient
  BY <1>4, NothingRevives DEF CloseClient, CloseInv, CloseJoins, endVars, WorkersGone
<1>5. CASE CloseReleases
  BY <1>5, NothingRevives DEF CloseReleases, CloseInv, CloseJoins, Reaped
<1> QED
  <2>1. CASE CloseStep
    BY <2>1, <1>3, <1>4, <1>5 DEF CloseStep
  <2>2. CASE \E who \in {"open", "daemon"} : CloseBegin(who)
    BY <2>2, <1>2
  <2>3. CASE ~CloseStep /\ ~\E who \in {"open", "daemon"} : CloseBegin(who)
    <3>1. UNCHANGED closeVars
      BY <2>3 DEF Next, OpenStep, OpenBegin, OpenRefused, OpenLock, OpenEndpoint,
         OpenFiles, OpenChild, OpenCalls, OpenReady, OpenFails, OpenAdopts,
         OpenLoses, OpenReturnsError, Expires, StartupStops, Lifetime,
         LifetimeKills, LifetimeEnds, ReaderEnds, Watch, WatchLooks, WatchRetires,
         WatchShutsDown, RunBegins, RunEnds, RetireRun, Deadline, Worker, End,
         EndLoses, Native, NativeExits, NativeObeys, Accept, Initialized,
         NativeDrops, vars
    <3> QED BY <3>1, <1>1
  <2> QED BY <2>1, <2>2, <2>3

-----------------------------------------------------------------------------
(* Only a Run that watch or its own goroutine retires leaves p.run, so the   *)
(* Run that watch reads is the one a dead child can have left behind.        *)
LEMMA RunNext == TypeOK /\ OpenInv /\ CloseInv /\ RunInv /\ [Next]_vars => RunInv'
<1> SUFFICES ASSUME TypeOK, OpenInv, CloseInv, RunInv, [Next]_vars PROVE RunInv'
  OBVIOUS
<1> RunTypeOK
  BY DEF TypeOK
<1> USE DEF watchVars, runVars
<1>1. ASSUME UNCHANGED <<watchVars, run, runVars>> PROVE RunInv'
  BY <1>1, NothingRevives DEF RunInv, RunRetired
<1>2. CASE OpenChild
  <2>1. watch' = "waiting" /\ UNCHANGED <<run, turn, early>>
    BY <1>2 DEF OpenChild
  <2> QED BY <2>1 DEF RunInv, RunRetired
<1>3. CASE WatchLooks
  <2>1. UNCHANGED <<run, turn, early>> /\ Dead'
    BY <1>3, NothingRevives DEF WatchLooks
  <2>2. \A r \in early : run = r \/ turn[r] = "done"
    BY DEF RunInv, RunTypeOK
  <2>3. watch' = "shutdown" => run = NoRun
    BY <1>3 DEF WatchLooks, RunSeen
  <2>4. watch' = "retiring" => seen' = run
    BY <1>3 DEF WatchLooks, RunSeen
  <2>5. \A r \in early : r # NoRun
    BY LaneAssumption DEF RunTypeOK
  <2> QED BY <2>1, <2>2, <2>3, <2>4, <2>5 DEF RunInv, RunRetired, RunTypeOK
<1>4. CASE WatchRetires
  <2>1. /\ UNCHANGED <<turn, early, seen>> /\ run' = Without(seen)
        /\ watch = "retiring" /\ watch' = "shutdown" /\ turn[seen] = "done" /\ Dead'
    BY <1>4, NothingRevives DEF WatchRetires, RunInv
  <2>2. run' = run \/ run' = NoRun
    BY <2>1 DEF Without
  <2>3. \A r \in Runs : turn[r] = "running" => run' = r
    BY <2>1 DEF Without, RunInv
  <2>4. \A r \in early : turn[r] = "done" /\ run' # r
    <3> TAKE r \in early
    <3>1. CASE r = seen
      BY <2>1, <3>1, LaneAssumption DEF Without, RunTypeOK
    <3>2. CASE r # seen
      BY <2>1, <2>2, <3>2, LaneAssumption DEF RunInv, RunTypeOK
    <3> QED BY <3>1, <3>2
  <2> QED BY <2>1, <2>2, <2>3, <2>4 DEF RunInv, RunRetired
<1>5. CASE WatchShutsDown
  BY <1>5 DEF WatchShutsDown, RunInv, RunRetired
<1>6. ASSUME NEW q \in Runs, RunBegins(q) PROVE RunInv'
  <2>1. /\ turn[q] = "idle" /\ run' = q /\ turn' = [turn EXCEPT ![q] = "running"]
        /\ \A r \in Runs : turn[r] # "running"
        /\ UNCHANGED <<watch, seen, child>>
        /\ early' = early \/ (~Dead /\ early' = early \cup {q})
    BY <1>6 DEF RunBegins, childVars
  <2>2. q \notin early
    BY <2>1 DEF RunInv
  <2>3. /\ turn'[q] = "running"
        /\ \A r \in Runs : r # q => turn'[r] = turn[r]
    BY <2>1 DEF RunTypeOK
  <2>4. watch \in {"retiring", "shutdown"} => Dead /\ Dead' /\ early' = early
    BY <2>1 DEF RunInv, Dead
  <2>5. \A r \in early' : turn'[r] # "idle"
    BY <2>1, <2>3 DEF RunInv, RunTypeOK
  <2>6. \A r \in Runs : turn'[r] = "running" => run' = r
    BY <2>1, <2>3
  <2>7. watch' = "retiring" =>
          \A r \in early' : r = seen' \/ (turn'[r] = "done" /\ run' # r)
    BY <2>1, <2>2, <2>3, <2>4 DEF RunInv, RunTypeOK
  <2>8. RunRetired'
    BY <2>1, <2>2, <2>3, <2>4 DEF RunInv, RunTypeOK, RunRetired
  <2> QED BY <2>1, <2>3, <2>4, <2>5, <2>6, <2>7, <2>8 DEF RunInv
<1>7. ASSUME NEW q \in Runs, RunEnds(q) PROVE RunInv'
  <2>1. /\ turn[q] = "running" /\ turn' = [turn EXCEPT ![q] = "done"]
        /\ UNCHANGED <<watch, seen, run, early, child>>
    BY <1>7 DEF RunEnds, childVars
  <2>2. /\ turn'[q] = "done"
        /\ \A r \in Runs : r # q => turn'[r] = turn[r]
    BY <2>1 DEF RunTypeOK
  <2>3. Dead <=> Dead'
    BY <2>1 DEF Dead
  <2>4. \A r \in early : turn'[r] # "idle"
    BY <2>2 DEF RunInv, RunTypeOK
  <2>5. run' # NoRun => turn'[run'] # "idle"
    BY <2>1, <2>2 DEF RunInv, RunTypeOK
  <2>6. \A r \in Runs : turn'[r] = "running" => run' = r
    BY <2>1, <2>2 DEF RunInv
  <2>7. \A r \in early : turn[r] = "done" => turn'[r] = "done"
    BY <2>2 DEF RunTypeOK
  <2> QED BY <2>1, <2>3, <2>4, <2>5, <2>6, <2>7 DEF RunInv, RunRetired
<1>8. ASSUME NEW q \in Runs, RetireRun(q) PROVE RunInv'
  <2>1. /\ turn[q] = "done" /\ run = q /\ run' = NoRun
        /\ UNCHANGED <<watch, seen, turn, early, child>>
    BY <1>8 DEF RetireRun, Without, childVars
  <2>2. \A r \in Runs : turn[r] # "running"
    BY <2>1 DEF RunInv
  <2>3. NoRun \notin early
    BY LaneAssumption DEF RunTypeOK
  <2>4. Dead <=> Dead'
    BY <2>1 DEF Dead
  <2> QED BY <2>1, <2>2, <2>3, <2>4 DEF RunInv, RunRetired, RunTypeOK
<1> QED
  <2>1. CASE OpenChild \/ Watch \/ \E r \in Runs : RunBegins(r) \/ RunEnds(r) \/ RetireRun(r)
    BY <2>1, <1>2, <1>3, <1>4, <1>5, <1>6, <1>7, <1>8 DEF Watch
  <2>2. CASE ~(OpenChild \/ Watch \/ \E r \in Runs : RunBegins(r) \/ RunEnds(r) \/ RetireRun(r))
    <3>1. UNCHANGED <<watchVars, run, runVars>>
      BY <2>2 DEF Next, OpenStep, OpenBegin, OpenRefused, OpenLock, OpenEndpoint,
         OpenFiles, OpenCalls, OpenReady, OpenFails, OpenAdopts, OpenLoses,
         OpenReturnsError, Expires, StartupStops, Lifetime, LifetimeKills,
         LifetimeEnds, ReaderEnds, CloseBegin, CloseStep, CloseEndpoint,
         CloseClient, CloseReleases, Deadline, Worker, End, EndLoses, Native,
         NativeExits, NativeObeys, Accept, Initialized, NativeDrops, vars
    <3> QED BY <3>1, <1>1
  <2> QED BY <2>1, <2>2

-----------------------------------------------------------------------------
LEMMA InvariantInit == Init => IInv
<1> SUFFICES ASSUME Init PROVE IInv
  OBVIOUS
<1>1. TypeOK
  BY TypeInit
<1>2. OpenInv /\ CloseInv
  BY DEF Init, OpenInv, CloseInv, CloseJoins
<1>3. RunInv
  BY DEF Init, RunInv, RunRetired
<1> QED BY <1>1, <1>2, <1>3 DEF IInv

LEMMA InvariantNext == IInv /\ [Next]_vars => IInv'
  BY TypeNext, OpenNext, CloseNext, RunNext DEF IInv

\* The inductive invariant: what Open has reached, what Close found and has
\* dealt with, and what watch knows of the Run slot.
THEOREM Invariant == Spec => []IInv
  BY InvariantInit, InvariantNext, PTL DEF Spec

\* Every variable keeps its type, and a lane its shape: Close fails no client
\* that does not exist, and Open makes a child only once.
THEOREM TypeCorrect == Spec => []TypeOK
<1>1. IInv => TypeOK
  BY DEF IInv
<1> QED BY <1>1, Invariant, PTL

\* watch calls shutdown only after every Run that began before the child's
\* death is done and out of p.run, however many Runs began since.
THEOREM RunsRetiredFirst == Spec => []RunRetired
<1>1. IInv => RunRetired
  BY DEF IInv, RunInv
<1> QED BY <1>1, Invariant, PTL

\* When Close returns, the child, reader, endpoint, lock and files it found are
\* gone, and no later step of Open or native brings one of them back.
THEOREM CloseLeavesNothing == Spec => []CloseJoins
<1>1. IInv => CloseJoins
  BY DEF IInv, CloseInv
<1> QED BY <1>1, Invariant, PTL
=============================================================================
