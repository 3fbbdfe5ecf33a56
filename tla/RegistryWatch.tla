---------------------------- MODULE RegistryWatch ----------------------------
(***************************************************************************)
(* How the helper of an interactive session observes native's registry row *)
(* and native's end: wrappers/qwen/interactive_watch_linux.go,             *)
(* interactive_records.go, and serveInteractiveOwner, run and observe of   *)
(* interactive_owner.go.                                                   *)
(*                                                                         *)
(* Four goroutines and a kernel: the MCP server (serve), the observer      *)
(* (obs), the poll loop of the watch (poll), the one that hears the watch  *)
(* fail (heard); and inotify, which reports the events of watched          *)
(* directories only. InteractiveOwner has the transport loop that this     *)
(* module joins (bus), and takes the watch for a signal.                   *)
(***************************************************************************)
EXTENDS Naturals

CONSTANTS
  Rows,          \* valid contents of the native registry row
  NoRow, Invalid,\* no row, a row that contradicts the helper or is torn
  MaxWrites,     \* changes of the file system an instance explores
  Events         \* the kinds of external events an instance explores

ASSUME RegistryWatchAssumption ==
  /\ {NoRow, Invalid} \cap Rows = {} /\ NoRow # Invalid
  /\ MaxWrites \in Nat
  /\ Events \subseteq {"fresh", "invalid", "remove", "overflow", "exit", "eof", "end"}

VARIABLES
  \* the file system and native
  dirs,          \* which of QWEN_HOME and its sessions directory exist
  row,           \* the content of sessions/<pid>.json
  parent,        \* native, the parent of the helper, is alive
  writes,        \* changes of the file system so far
  \* interactiveWatch
  paths,         \* the directories it watches
  queue,         \* what inotify has to report: "change", "lost"
  poll,          \* its loop: none, poll, read, signal, closing, done
  closed,        \* its descriptors are closed, under mu
  changed,       \* changed holds a token
  failed,        \* failed holds an error
  cancelled,     \* the lifetime of the helper is cancelled
  \* the observer and the goroutine that hears the watch fail
  obs,           \* idle, new, home, sessions, read, wait, or what it joins:
                 \* bus, heard, watch; done
  got,           \* what it last read
  published,     \* it has published a row
  timer,         \* startup: set, fired, stopped
  heard,         \* none, wait, done
  bus,           \* the transport loop: none, running, done
  \* ServeInteractiveMCP
  serve          \* serving, ending, returned

fileVars  == <<dirs, row, parent, writes>>
watchVars == <<paths, queue, poll, closed, changed, failed>>
obsVars   == <<obs, got, published, timer>>
vars == <<fileVars, watchVars, cancelled, obsVars, heard, bus, serve>>

Directories == {"home", "sessions"}

Init ==
  /\ dirs \in IF "fresh" \in Events THEN {{}, {"home"}, Directories}
              ELSE {{"home"}, Directories}
  /\ row \in {NoRow} \cup (IF "sessions" \in dirs THEN Rows ELSE {})
  /\ parent = TRUE /\ writes = 0
  /\ paths = {} /\ queue = {} /\ poll = "none"
  /\ closed = FALSE /\ changed = FALSE /\ failed = FALSE
  /\ cancelled = FALSE
  /\ obs = "idle" /\ got = NoRow /\ published = FALSE /\ timer = "set"
  /\ heard = "none" /\ bus = "none"
  /\ serve = "serving"

-----------------------------------------------------------------------------
(* External: native and the file system, as inotify reports them            *)

\* An event of directory d, which the queue may drop for an overflow.
Reports(d, event) ==
  IF d \notin paths \/ closed THEN queue' = queue
  ELSE \/ queue' = queue \cup {event}
       \/ "overflow" \in Events /\ queue' = queue \cup {"lost"}

Change ==
  /\ writes < MaxWrites
  /\ writes' = writes + 1
  /\ UNCHANGED <<paths, poll, closed, changed, failed, cancelled, obsVars, heard,
                 bus, serve>>

Create(d) ==
  /\ parent /\ d \notin dirs
  /\ d = "sessions" => "home" \in dirs
  /\ Change
  /\ dirs' = dirs \cup {d}
  /\ IF d = "sessions" THEN Reports("home", "change") ELSE UNCHANGED queue
  /\ UNCHANGED <<row, parent>>

\* IN_DELETE_SELF or IN_MOVE_SELF of the sessions directory.
Remove ==
  /\ "remove" \in Events /\ "sessions" \in dirs
  /\ Change
  /\ dirs' = dirs \ {"sessions"} /\ row' = NoRow
  /\ Reports("sessions", "lost")
  /\ UNCHANGED parent

\* Native writes its row.
WriteRow(r) ==
  /\ parent /\ "sessions" \in dirs /\ r # row
  /\ r = Invalid => "invalid" \in Events
  /\ Change
  /\ row' = r
  /\ Reports("sessions", "change")
  /\ UNCHANGED <<dirs, parent>>

\* The watch has no IN_DELETE: native's unlink of its row reports nothing.
UnlinkRow ==
  /\ "exit" \in Events
  /\ parent /\ row # NoRow
  /\ Change
  /\ row' = NoRow
  /\ UNCHANGED <<dirs, parent, queue>>

ParentExits ==
  /\ "exit" \in Events /\ parent
  /\ parent' = FALSE
  /\ UNCHANGED <<dirs, row, writes, watchVars, cancelled, obsVars, heard, bus,
                 serve>>

-----------------------------------------------------------------------------
(* interactiveWatch.run                                                     *)

\* One poll of the pipe, the pidfd and inotify, in this order.
Poll ==
  /\ poll = "poll"
  /\ \/ obs = "watch" /\ poll' = "closing" /\ UNCHANGED failed
     \/ obs # "watch" /\ ~parent /\ poll' = "closing" /\ failed' = TRUE
     \/ /\ obs # "watch" /\ parent /\ queue # {}
        /\ poll' = "read" /\ UNCHANGED failed
  /\ UNCHANGED <<fileVars, paths, queue, closed, changed, cancelled, obsVars,
                 heard, bus, serve>>

\* A read returns some of what is queued.
Read ==
  /\ poll = "read"
  /\ \E batch \in SUBSET queue \ {{}} :
       /\ queue' = queue \ batch
       /\ IF "lost" \in batch
            THEN failed' = TRUE /\ poll' = "closing"
            ELSE poll' = "signal" /\ UNCHANGED failed
  /\ UNCHANGED <<fileVars, paths, closed, changed, cancelled, obsVars, heard, bus,
                 serve>>

\* The signal has one place and is never waited for.
Signal ==
  /\ poll = "signal"
  /\ changed' = TRUE /\ poll' = "poll"
  /\ UNCHANGED <<fileVars, paths, queue, closed, failed, cancelled, obsVars, heard,
                 bus, serve>>

CloseWatch ==
  /\ poll = "closing"
  /\ closed' = TRUE /\ queue' = {} /\ poll' = "done"
  /\ UNCHANGED <<fileVars, paths, changed, failed, cancelled, obsVars, heard, bus,
                 serve>>

-----------------------------------------------------------------------------
(* The observer: run and observe                                            *)

\* Initialized starts it, once and not after End.
Initialized ==
  /\ obs = "idle" /\ serve = "serving"
  /\ obs' = "new"
  /\ UNCHANGED <<fileVars, watchVars, cancelled, got, published, timer, heard, bus,
                 serve>>

\* Mutant: the row is read before its directories are watched.
ReadsFirst(stage) ==
  CASE stage = "start" -> "read" [] stage = "read" -> "home"
    [] stage = "home" -> "sessions" [] stage = "sessions" -> "wait"

\* A scan watches both directories before it reads the row.
After(stage) ==
  CASE stage = "start" -> "home" [] stage = "home" -> "sessions"
    [] stage = "sessions" -> "read" [] stage = "read" -> "wait"

\* newInteractiveWatch: a cancelled helper or an ended native starts no watch.
NewWatch ==
  /\ obs = "new"
  /\ IF cancelled \/ ~parent
       THEN obs' = "done" /\ cancelled' = TRUE /\ UNCHANGED <<poll, heard>>
       ELSE /\ obs' = After("start") /\ poll' = "poll" /\ heard' = "wait"
            /\ UNCHANGED cancelled
  /\ UNCHANGED <<fileVars, paths, queue, closed, changed, failed, got, published,
                 timer, bus, serve>>

\* observe returns: startup is stopped and the joins begin with the bus.
Return == obs' = "bus" /\ timer' = "stopped" /\ UNCHANGED <<got, published>>

\* add: a directory that does not exist is left for the next scan.
Adds(d) == paths \cup (dirs \cap {d})

\* One directory of the scan; a closed watch or a cancelled helper ends it.
Add(d) ==
  /\ obs = d
  /\ IF closed \/ (d = "home" /\ cancelled)
       THEN Return /\ UNCHANGED paths
       ELSE /\ obs' = After(d)
            /\ paths' = Adds(d)
            /\ UNCHANGED <<got, published, timer>>
  /\ UNCHANGED <<fileVars, queue, poll, closed, changed, failed, cancelled, heard,
                 bus, serve>>

\* readNativeRegistry: an invalid row, or one whose process has ended.
RowRefused == row = Invalid \/ (row # NoRow /\ ~parent)

\* A refused row and the loss of a published one end the observation; the
\* first row read starts the transport loop.
ReadRow ==
  /\ obs = "read"
  /\ IF RowRefused \/ (row = NoRow /\ published)
       THEN Return /\ UNCHANGED bus
       ELSE /\ obs' = After("read") /\ got' = row
            /\ published' = (row # NoRow)
            /\ bus' = IF row # NoRow /\ bus = "none" THEN "running" ELSE bus
            /\ UNCHANGED timer
  /\ UNCHANGED <<fileVars, watchVars, cancelled, heard, serve>>

StartupFires ==
  /\ timer = "set" /\ obs \notin {"idle", "new"}
  /\ timer' = "fired"
  /\ UNCHANGED <<fileVars, watchVars, cancelled, obs, got, published, heard, bus,
                 serve>>

\* Mutant: the startup timer only matters while no row is published.
RescansAtStartup == FALSE

\* Once a row is published the timer asks for one more scan.
Rescans == published

\* The select of observe, which takes any case that is ready.
Wait ==
  /\ obs = "wait"
  /\ \/ cancelled /\ Return /\ UNCHANGED changed
     \/ /\ timer = "fired"
        /\ IF published
             THEN /\ obs' = IF Rescans THEN After("start") ELSE "wait"
                  /\ timer' = "stopped" /\ UNCHANGED <<got, published>>
             ELSE Return
        /\ UNCHANGED changed
     \/ /\ changed
        /\ changed' = FALSE /\ obs' = After("start")
        /\ UNCHANGED <<got, published, timer>>
  /\ UNCHANGED <<fileVars, paths, queue, poll, closed, failed, cancelled, heard,
                 bus, serve>>

\* Mutant: the transport loop is left to end by itself.
BusNotJoined == bus' = bus

BusJoined == bus \in {"none", "done"} /\ bus' = bus

\* The deferred functions of observe: the transport loop is cancelled and
\* joined if there is one.
JoinBus ==
  /\ obs = "bus"
  /\ IF bus = "none" \/ cancelled
       THEN BusJoined /\ obs' = "heard"
       ELSE obs' = obs /\ bus' = bus
  /\ cancelled' = (cancelled \/ bus # "none")
  /\ UNCHANGED <<fileVars, watchVars, got, published, timer, heard, serve>>

\* Then the goroutine that hears the watch fail.
JoinHeard ==
  /\ obs = "heard"
  /\ \/ ~cancelled /\ cancelled' = TRUE /\ UNCHANGED obs
     \/ cancelled /\ heard = "done" /\ obs' = "watch" /\ UNCHANGED cancelled
  /\ UNCHANGED <<fileVars, watchVars, got, published, timer, heard, bus, serve>>

\* watch.close closes the pipe, which obs = "watch" stands for, and joins run.
JoinWatch ==
  /\ obs = "watch" /\ poll = "done"
  /\ obs' = "done"
  /\ UNCHANGED <<fileVars, watchVars, cancelled, got, published, timer, heard, bus,
                 serve>>

\* The goroutine that hears the watch fail.
Hear ==
  /\ heard = "wait"
  /\ \/ /\ failed
        /\ failed' = FALSE /\ cancelled' = TRUE
     \/ cancelled /\ UNCHANGED <<failed, cancelled>>
  /\ heard' = "done"
  /\ UNCHANGED <<fileVars, paths, queue, poll, closed, changed, obsVars, bus, serve>>

\* The transport loop ends with the lifetime, or with a refusal ends it.
BusEnds ==
  /\ bus = "running"
  /\ cancelled \/ "end" \in Events
  /\ bus' = "done" /\ cancelled' = TRUE
  /\ UNCHANGED <<fileVars, watchVars, obsVars, heard, serve>>

-----------------------------------------------------------------------------
(* ServeInteractiveMCP and End                                              *)

\* The input ends, or is closed once the lifetime is cancelled.
ServeEnds ==
  /\ serve = "serving"
  /\ cancelled \/ "eof" \in Events
  /\ serve' = "ending" /\ cancelled' = TRUE
  /\ UNCHANGED <<fileVars, watchVars, obsVars, heard, bus>>

\* Mutant: End waits for a run that was never started.
EndedIfStarted == obs = "done"

\* End closes done itself when Initialized never came.
Ended == obs \in {"idle", "done"}

ServeReturns ==
  /\ serve = "ending" /\ Ended
  /\ serve' = "returned"
  /\ UNCHANGED <<fileVars, watchVars, cancelled, obsVars, heard, bus>>

-----------------------------------------------------------------------------
Watcher  == Poll \/ Read \/ Signal \/ CloseWatch
Observer == \/ NewWatch \/ (\E d \in Directories : Add(d)) \/ ReadRow \/ Wait
            \/ JoinBus \/ JoinHeard \/ JoinWatch
Host     == ServeEnds \/ ServeReturns
Native ==
  \/ \E d \in Directories : Create(d)
  \/ Remove \/ UnlinkRow \/ ParentExits \/ Initialized
  \/ \E r \in Rows \cup {Invalid} : WriteRow(r)

Next == Watcher \/ Observer \/ StartupFires \/ Hear \/ BusEnds \/ Host \/ Native

Spec == Init /\ [][Next]_vars

\* The goroutines run on, the timer fires, the transport loop ends with its
\* context (InteractiveOwner), and the server with its input.
FairSpec ==
  /\ Spec
  /\ WF_vars(Watcher) /\ WF_vars(Observer) /\ WF_vars(StartupFires)
  /\ WF_vars(Hear) /\ WF_vars(cancelled /\ BusEnds)
  /\ WF_vars(cancelled /\ ServeEnds) /\ WF_vars(ServeReturns)

-----------------------------------------------------------------------------
(* Properties                                                               *)

\* Every variable has its type.
TypeOK ==
  /\ dirs \subseteq Directories /\ ("sessions" \in dirs => "home" \in dirs)
  /\ row \in Rows \cup {NoRow, Invalid}
  /\ parent \in BOOLEAN /\ writes \in 0 .. MaxWrites
  /\ paths \subseteq Directories /\ queue \subseteq {"change", "lost"}
  /\ poll \in {"none", "poll", "read", "signal", "closing", "done"}
  /\ closed \in BOOLEAN /\ changed \in BOOLEAN /\ failed \in BOOLEAN
  /\ cancelled \in BOOLEAN
  /\ obs \in {"idle", "new", "home", "sessions", "read", "wait", "bus", "heard",
              "watch", "done"}
  /\ got \in Rows \cup {NoRow} /\ published \in BOOLEAN
  /\ timer \in {"set", "fired", "stopped"}
  /\ heard \in {"none", "wait", "done"}
  /\ bus \in {"none", "running", "done"}
  /\ serve \in {"serving", "ending", "returned"}

\* Something will wake the observer: a signal, or an event that leads to one.
WakeUnderWay == changed \/ queue # {} \/ poll \in {"signal", "closing", "done"}

\* While home is watched, no written row goes unread: an observer that waits
\* with another row on disk has its wake under way, wherever the write fell
\* between the watches it adds, its read and the events before (observe adds
\* before it reads).
NoChangeLost ==
  obs = "wait" /\ "home" \in paths /\ row \notin {NoRow, got} => WakeUnderWay

\* A row that native leaves in place is read by a helper that lives on, also
\* when neither directory was there at first (the startup timer's scan).
Observed ==
  \A r \in Rows :
    <>[](row = r) => <>[](got = r \/ obs \in {"idle", "done"})

\* ServeInteractiveMCP leaves no goroutine behind, whenever End finds it.
NothingLeft ==
  serve = "returned" =>
    poll \in {"none", "done"} /\ heard \in {"none", "done"} /\ bus \in {"none", "done"}

EndIsDue ==
  \/ "lost" \in queue
  \/ ~parent /\ obs \notin {"idle", "new"}
  \/ serve = "ending"

\* A lost directory, an overflow, the exit of native and the end of the input
\* end an initialized helper: the joins of observe, run and End wait for each
\* other in an order that never waits for ever.
HelperEnds == EndIsDue ~> serve = "returned"
=============================================================================
