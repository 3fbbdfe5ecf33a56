------------------------- MODULE RegistryWatch_proofs -------------------------
(***************************************************************************)
(* Proofs about RegistryWatch, for any rows, number of writes and events:  *)
(* no written row goes unread, and no goroutine outlives the helper.       *)
(***************************************************************************)
EXTENDS RegistryWatch, TLAPS

FileTypeOK ==
  /\ dirs \subseteq Directories /\ ("sessions" \in dirs => "home" \in dirs)
  /\ row \in Rows \cup {NoRow, Invalid}
  /\ writes \in 0 .. MaxWrites

WatchTypeOK ==
  /\ paths \subseteq Directories /\ queue \subseteq {"change", "lost"}
  /\ poll \in {"none", "poll", "read", "signal", "closing", "done"}

BoolTypeOK ==
  /\ parent \in BOOLEAN
  /\ closed \in BOOLEAN /\ changed \in BOOLEAN /\ failed \in BOOLEAN
  /\ cancelled \in BOOLEAN
  /\ published \in BOOLEAN

ObserverTypeOK ==
  /\ obs \in {"idle", "new", "home", "sessions", "read", "wait", "bus", "heard",
              "watch", "done"}
  /\ got \in Rows \cup {NoRow}
  /\ timer \in {"set", "fired", "stopped"}
  /\ heard \in {"none", "wait", "done"}
  /\ bus \in {"none", "running", "done"}
  /\ serve \in {"serving", "ending", "returned"}

Types == FileTypeOK /\ WatchTypeOK /\ BoolTypeOK /\ ObserverTypeOK

\* The observer joins what it started, one goroutine after the other.
JoinInv ==
  /\ obs \in {"idle", "new"} => poll = "none" /\ heard = "none" /\ bus = "none"
  /\ obs \in {"heard", "watch", "done"} => bus \in {"none", "done"}
  /\ obs \in {"watch", "done"} => heard \in {"none", "done"}
  /\ obs = "done" => poll \in {"none", "done"}
  /\ serve = "returned" => obs \in {"idle", "done"}

\* A sessions directory that appeared after the scan looked for it has been
\* reported by its parent, and a row that appeared after it was read by it.
WakeInv ==
  /\ closed <=> poll = "done"
  /\ poll = "read" => queue # {}
  /\ obs \in {"read", "wait"} /\ "home" \in paths /\ "sessions" \in dirs \ paths => WakeUnderWay
  /\ NoChangeLost

IInv == Types /\ JoinInv /\ WakeInv

-----------------------------------------------------------------------------
LEMMA Stages ==
  /\ After("start") = "home" /\ After("home") = "sessions"
  /\ After("sessions") = "read" /\ After("read") = "wait"
  BY DEF After

LEMMA TypesInit == Init => Types
<1> SUFFICES ASSUME Init PROVE Types
  OBVIOUS
<1>1. FileTypeOK
  <2>1. 0 \in 0 .. MaxWrites
    BY RegistryWatchAssumption
  <2>2. dirs \subseteq Directories /\ ("sessions" \in dirs => "home" \in dirs)
    BY DEF Init, Directories
  <2>3. row \in Rows \cup {NoRow, Invalid}
    BY DEF Init
  <2> QED
    BY <2>1, <2>2, <2>3 DEF Init, FileTypeOK
<1>2. WatchTypeOK
  BY DEF Init, WatchTypeOK
<1>3. BoolTypeOK
  BY DEF Init, BoolTypeOK
<1>4. ObserverTypeOK
  BY DEF Init, ObserverTypeOK
<1> QED
  BY <1>1, <1>2, <1>3, <1>4 DEF Types

LEMMA FileTypesStep ==
  ASSUME Types, [Next]_vars
  PROVE  FileTypeOK'
<1>1. CASE UNCHANGED fileVars
  BY <1>1 DEF Types, FileTypeOK, fileVars
<1>2. ASSUME NEW d \in Directories, Create(d) PROVE FileTypeOK'
  BY <1>2, RegistryWatchAssumption DEF Types, FileTypeOK, Create, Change, Directories
<1>3. CASE Remove
  BY <1>3, RegistryWatchAssumption DEF Types, FileTypeOK, Remove, Change, Directories
<1>4. CASE UnlinkRow
  BY <1>4, RegistryWatchAssumption DEF Types, FileTypeOK, UnlinkRow, Change
<1>5. ASSUME NEW r \in Rows \cup {Invalid}, WriteRow(r) PROVE FileTypeOK'
  BY <1>5, RegistryWatchAssumption DEF Types, FileTypeOK, WriteRow, Change
<1>6. CASE ParentExits
  BY <1>6 DEF Types, FileTypeOK, ParentExits
<1> QED
  BY <1>1, <1>2, <1>3, <1>4, <1>5, <1>6
  DEF Next, Native, Watcher, Observer, Host, Poll, Read, Signal, CloseWatch, Initialized,
      NewWatch, Add, ReadRow, StartupFires, Wait, JoinBus, JoinHeard, JoinWatch, Hear, BusEnds,
      ServeEnds, ServeReturns, vars

LEMMA WatchTypesStep ==
  ASSUME Types, [Next]_vars
  PROVE  WatchTypeOK'
<1> USE DEF Types, WatchTypeOK
<1>1. CASE UNCHANGED watchVars
  BY <1>1 DEF watchVars
<1>2. ASSUME NEW d \in Directories, Create(d) PROVE WatchTypeOK'
  BY <1>2 DEF Create, Change, Reports
<1>3. CASE Remove
  BY <1>3 DEF Remove, Change, Reports
<1>4. CASE UnlinkRow
  BY <1>4 DEF UnlinkRow, Change
<1>5. ASSUME NEW r \in Rows \cup {Invalid}, WriteRow(r) PROVE WatchTypeOK'
  BY <1>5 DEF WriteRow, Change, Reports
<1>6. CASE Poll \/ Signal \/ CloseWatch
  BY <1>6 DEF Poll, Signal, CloseWatch
<1>7. CASE Read
  BY <1>7 DEF Read
<1>8. CASE NewWatch
  BY <1>8 DEF NewWatch
<1>9. ASSUME NEW d \in Directories, Add(d) PROVE WatchTypeOK'
  BY <1>9 DEF Add, Adds
<1>10. CASE Wait
  BY <1>10 DEF Wait
<1>11. CASE Hear
  BY <1>11 DEF Hear
<1> QED
  BY <1>1, <1>2, <1>3, <1>4, <1>5, <1>6, <1>7, <1>8, <1>9, <1>10, <1>11
  DEF Next, Native, Watcher, Observer, Host, Initialized, ParentExits, ReadRow, StartupFires,
      JoinBus, JoinHeard, JoinWatch, BusEnds, ServeEnds, ServeReturns, vars

LEMMA BoolTypesStep ==
  ASSUME Types, [Next]_vars
  PROVE  BoolTypeOK'
<1> USE DEF Types, BoolTypeOK
<1>1. CASE UNCHANGED vars
  BY <1>1 DEF vars, fileVars, watchVars, obsVars
<1>2. CASE Native
  <2>1. CASE ParentExits
    BY <2>1 DEF ParentExits, watchVars, obsVars
  <2>2. CASE Initialized
    BY <2>2 DEF Initialized, fileVars, watchVars
  <2>3. CASE UNCHANGED <<parent, closed, changed, failed, cancelled, published>>
    BY <2>3
  <2> QED
    BY <1>2, <2>1, <2>2, <2>3 DEF Native, Create, Remove, UnlinkRow, WriteRow, Change, obsVars
<1>3. CASE Watcher
  BY <1>3 DEF Watcher, Poll, Read, Signal, CloseWatch, fileVars, obsVars
<1>4. CASE Observer
  <2>1. CASE NewWatch \/ JoinBus \/ JoinHeard \/ JoinWatch
    BY <2>1 DEF NewWatch, JoinBus, JoinHeard, JoinWatch, fileVars, watchVars
  <2>2. CASE (\E d \in Directories : Add(d)) \/ Wait
    BY <2>2 DEF Add, Wait, Return, fileVars
  <2>3. CASE ReadRow
    BY <2>3 DEF ReadRow, Return, fileVars, watchVars
  <2> QED
    BY <1>4, <2>1, <2>2, <2>3 DEF Observer
<1>5. CASE StartupFires \/ Hear \/ BusEnds \/ Host
  BY <1>5 DEF StartupFires, Hear, BusEnds, Host, ServeEnds, ServeReturns, fileVars, watchVars, obsVars
<1> QED
  BY <1>1, <1>2, <1>3, <1>4, <1>5 DEF Next

LEMMA ObserverTypesStep ==
  ASSUME Types, [Next]_vars
  PROVE  ObserverTypeOK'
<1> USE Stages DEF Types, ObserverTypeOK
<1>1. CASE UNCHANGED <<obsVars, heard, bus, serve>>
  BY <1>1 DEF obsVars
<1>2. CASE Initialized
  BY <1>2 DEF Initialized
<1>3. CASE NewWatch \/ JoinBus \/ JoinHeard \/ JoinWatch
  BY <1>3 DEF NewWatch, JoinBus, BusJoined, JoinHeard, JoinWatch
<1>4. ASSUME NEW d \in Directories, Add(d) PROVE ObserverTypeOK'
  BY <1>4 DEF Add, Return, Directories
<1>5. CASE Wait
  BY <1>5 DEF Wait, Return
<1>6. CASE ReadRow
  BY <1>6, RegistryWatchAssumption DEF ReadRow, RowRefused, Return, FileTypeOK
<1>7. CASE StartupFires \/ Hear \/ BusEnds \/ Host
  BY <1>7 DEF StartupFires, Hear, BusEnds, Host, ServeEnds, ServeReturns, obsVars
<1> QED
  BY <1>1, <1>2, <1>3, <1>4, <1>5, <1>6, <1>7
  DEF Next, Native, Watcher, Observer, Poll, Read, Signal, CloseWatch, Create, Remove,
      UnlinkRow, WriteRow, ParentExits, Change, vars

LEMMA TypesStep == Types /\ [Next]_vars => Types'
  BY FileTypesStep, WatchTypesStep, BoolTypesStep, ObserverTypesStep DEF Types

-----------------------------------------------------------------------------
\* The joins: only the observer starts a goroutine, and it leaves the stages
\* in which it does before the first join.
LEMMA JoinStep ==
  ASSUME Types, JoinInv, [Next]_vars
  PROVE  JoinInv'
<1> USE Stages DEF Types, ObserverTypeOK, JoinInv
<1>1. CASE UNCHANGED <<obs, poll, heard, bus, serve>>
  BY <1>1
<1>2. CASE Initialized
  BY <1>2 DEF Initialized, watchVars
<1>3. CASE Watcher
  BY <1>3 DEF Watcher, Poll, Read, Signal, CloseWatch, obsVars
<1>4. CASE NewWatch
  BY <1>4 DEF NewWatch
<1>5. ASSUME NEW d \in Directories, Add(d) PROVE JoinInv'
  BY <1>5 DEF Add, Return, Directories
<1>6. CASE Wait
  BY <1>6 DEF Wait, Return
<1>7. CASE ReadRow
  BY <1>7 DEF ReadRow, Return, watchVars
<1>8. CASE JoinBus
  BY <1>8 DEF JoinBus, BusJoined, watchVars
<1>9. CASE JoinHeard
  BY <1>9 DEF JoinHeard, watchVars
<1>10. CASE JoinWatch
  BY <1>10 DEF JoinWatch, watchVars
<1>11. CASE Hear
  BY <1>11 DEF Hear, obsVars
<1>12. CASE BusEnds
  BY <1>12 DEF BusEnds, watchVars, obsVars
<1>13. CASE Host
  BY <1>13 DEF Host, ServeEnds, ServeReturns, Ended, watchVars, obsVars
<1> QED
  BY <1>1, <1>2, <1>3, <1>4, <1>5, <1>6, <1>7, <1>8, <1>9, <1>10, <1>11, <1>12, <1>13
  DEF Next, Native, Observer, Create, Remove, UnlinkRow, WriteRow, ParentExits, Change,
      StartupFires, watchVars, obsVars, vars

\* An event of a watched directory of an open watch wakes the observer.
LEMMA Reported ==
  ASSUME NEW d, NEW event, Reports(d, event), d \in paths, ~closed
  PROVE  queue' # {}
  BY DEF Reports

LEMMA NeverEmptied ==
  ASSUME NEW d, NEW event, Reports(d, event)
  PROVE  queue # {} => queue' # {}
  BY DEF Reports

\* No written row goes unread.
LEMMA WakeStep ==
  ASSUME Types, JoinInv, WakeInv, [Next]_vars
  PROVE  WakeInv'
<1> USE Stages DEF Types, ObserverTypeOK, WakeInv, NoChangeLost, WakeUnderWay
<1>1. CASE UNCHANGED <<dirs, row, paths, queue, poll, closed, changed, obs, got>>
  BY <1>1
<1>2. ASSUME NEW d \in Directories, Create(d) PROVE WakeInv'
  BY <1>2, Reported, NeverEmptied DEF Create, Change, Directories, obsVars
<1>3. CASE Remove
  BY <1>3, NeverEmptied DEF Remove, Change, obsVars
<1>4. CASE UnlinkRow
  BY <1>4 DEF UnlinkRow, Change, obsVars
<1>5. ASSUME NEW r \in Rows \cup {Invalid}, WriteRow(r) PROVE WakeInv'
  BY <1>5, Reported, NeverEmptied DEF WriteRow, Change, obsVars
<1>6. CASE Initialized
  BY <1>6 DEF Initialized, fileVars, watchVars
<1>7. CASE Poll
  BY <1>7 DEF Poll, fileVars, obsVars
<1>8. CASE Read
  BY <1>8 DEF Read, fileVars, obsVars
<1>9. CASE Signal
  BY <1>9 DEF Signal, fileVars, obsVars
<1>10. CASE CloseWatch
  BY <1>10 DEF CloseWatch, fileVars, obsVars
<1>11. CASE NewWatch
  BY <1>11 DEF NewWatch, JoinInv, fileVars
<1>12. ASSUME NEW d \in Directories, Add(d) PROVE WakeInv'
  BY <1>12 DEF Add, Adds, Return, Directories, fileVars
<1>13. CASE ReadRow
  BY <1>13 DEF ReadRow, Return, fileVars, watchVars
<1>14. CASE Wait
  BY <1>14 DEF Wait, Return, Rescans, fileVars
<1>15. CASE JoinBus \/ JoinHeard \/ JoinWatch
  BY <1>15 DEF JoinBus, JoinHeard, JoinWatch, fileVars, watchVars
<1>16. CASE Hear
  BY <1>16 DEF Hear, fileVars, obsVars
<1> QED
  BY <1>1, <1>2, <1>3, <1>4, <1>5, <1>6, <1>7, <1>8, <1>9, <1>10, <1>11, <1>12, <1>13, <1>14,
     <1>15, <1>16
  DEF Next, Native, Watcher, Observer, Host, ParentExits, StartupFires, BusEnds, ServeEnds,
      ServeReturns, fileVars, watchVars, obsVars, vars

\* The inductive invariant holds in every reachable state.
LEMMA Inductive == Spec => []IInv
<1>1. Init => IInv
  BY TypesInit DEF Init, IInv, JoinInv, WakeInv, NoChangeLost
<1>2. IInv /\ [Next]_vars => IInv'
  BY TypesStep, JoinStep, WakeStep DEF IInv
<1> QED
  BY <1>1, <1>2, PTL DEF Spec

-----------------------------------------------------------------------------
\* Every variable of the watch and its observer keeps its type.
THEOREM TypeCorrect == Spec => []TypeOK
<1>1. IInv => TypeOK
  BY DEF IInv, Types, FileTypeOK, WatchTypeOK, BoolTypeOK, ObserverTypeOK, TypeOK
<1> QED
  BY <1>1, Inductive, PTL

\* While home is watched, an observer that waits with another row on disk has
\* its wake under way (observe, interactive_owner.go:157-239; run and add,
\* interactive_watch_linux.go:54-130).
THEOREM RowsAreRead == Spec => []NoChangeLost
<1>1. IInv => NoChangeLost
  BY DEF IInv, WakeInv
<1> QED
  BY <1>1, Inductive, PTL

\* ServeInteractiveMCP returns with the watch, its listener and the transport
\* loop joined (interactive_owner.go:126-155, 180-187, 390-402).
THEOREM ReturnsWithNothingLeft == Spec => []NothingLeft
<1>1. IInv => NothingLeft
  BY DEF IInv, JoinInv, NothingLeft
<1> QED
  BY <1>1, Inductive, PTL
=============================================================================
