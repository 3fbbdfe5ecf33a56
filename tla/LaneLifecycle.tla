--------------------------- MODULE LaneLifecycle ---------------------------
(***************************************************************************)
(* A lane from Open to Close (qwen.go, lane_endpoint.go): Open makes the    *)
(* lane's resources, talks to native, waits for native's MCP helper on the  *)
(* endpoint and adopts the lane; watch reports the death of an adopted      *)
(* lane; the lifetime goroutine turns a cancelled context into a dead       *)
(* child; Close, entered by Open's failure or by the daemon, joins it all.  *)
(*                                                                          *)
(* One action per critical section of p.mu or e.mu and per wait. The calls  *)
(* Open makes of the ACP client are one step (ACPClient has the client);    *)
(* a Run is its start and its end (LaneRun has the rest).                   *)
(***************************************************************************)
EXTENDS Naturals, FiniteSets

CONSTANTS
  Conns,      \* connections that native's helpers make to the endpoint
  MaxClients, \* maxACPPending
  Runs, NoRun,
  Events      \* what may go wrong, or end: see the actions that name one

ASSUME LaneAssumption ==
  /\ NoRun \notin Runs
  /\ MaxClients \in Nat \ {0}
  /\ Events \subseteq {"failure", "expiry", "exit", "malformed",
                       "drop", "stubborn", "close", "early", "deadline"}

VARIABLES
  open,        \* where Open is
  openExpired, \* the context of the open request has ended
  opened, closing,
  laneCtx,     \* p.ctx: none, live, cancelled
  lock, files, \* none, held, released
  endpoint,    \* none, listening, closed
  ready,       \* e.ready is closed
  conn,        \* the worker of each connection
  cut,         \* the connections at EOF
  child,       \* none, running, exited by itself, or killed
  client,      \* none, up, failed
  drained,     \* client.done is closed
  lifetime,    \* none, waiting, done
  watch, seen, \* where watch is, and the Run it read
  run,         \* p.run
  turn,        \* idle, running or done: the SDK's side of each Run
  early,       \* history: the Runs that began before the child's end
  shutdown,    \* p.shutdown was called
  closer, stage, held, \* who runs Close's body, where, on what it found
  stubborn     \* external: native does not exit at the end of its input

openVars  == <<open, openExpired, opened, lock, files>>
endVars   == <<endpoint, ready, conn, cut>>
childVars == <<child, client, drained, lifetime, stubborn>>
watchVars == <<watch, seen, shutdown>>
runVars   == <<turn, early>>
closeVars == <<closing, closer, stage, held>>
vars == <<openVars, laneCtx, endVars, childVars, watchVars, run, runVars,
          closeVars>>

Dead == child \in {"exited", "killed"}
Busy == open \in {"lock", "endpoint", "files", "child", "calls", "ready",
                  "adopt", "failing", "closing"}

Init ==
  /\ open = "idle" /\ openExpired = FALSE /\ opened = FALSE
  /\ laneCtx = "none"
  /\ lock = "none" /\ files = "none"
  /\ endpoint = "none" /\ ready = FALSE
  /\ conn = [c \in Conns |-> "idle"] /\ cut = {}
  /\ child = "none" /\ client = "none" /\ drained = FALSE
  /\ lifetime = "none"
  /\ watch = "none" /\ seen = NoRun /\ shutdown = FALSE
  /\ run = NoRun /\ turn = [r \in Runs |-> "idle"] /\ early = {}
  /\ closing = FALSE /\ closer = "none" /\ stage = "none" /\ held = {}
  /\ stubborn \in BOOLEAN /\ (stubborn => "stubborn" \in Events)

-----------------------------------------------------------------------------
(* p.lost: fail the client, cancel the lane's context *)

Failing == IF client = "none" THEN "none" ELSE "failed"
Cancelling == IF laneCtx = "none" THEN "none" ELSE "cancelled"
(* mutant: only the client is failed *)
LoseClient == client' = Failing /\ laneCtx' = laneCtx
LoseLane == client' = Failing /\ laneCtx' = Cancelling

-----------------------------------------------------------------------------
(* Open *)

OpenBegin ==
  /\ open = "idle" /\ ~closing
  /\ open' = "lock" /\ laneCtx' = "live"
  /\ UNCHANGED <<openExpired, opened, lock, files, endVars, childVars,
                 watchVars, run, runVars, closeVars>>

OpenRefused ==
  /\ open = "idle" /\ closing
  /\ open' = "failed"
  /\ UNCHANGED <<openExpired, opened, lock, files, laneCtx, endVars,
                 childVars, watchVars, run, runVars, closeVars>>

OpenLock ==
  /\ open = "lock" /\ open' = "endpoint" /\ lock' = "held"
  /\ UNCHANGED <<openExpired, opened, files, laneCtx, endVars,
                 childVars, watchVars, run, runVars, closeVars>>

OpenEndpoint ==
  /\ open = "endpoint" /\ open' = "files" /\ endpoint' = "listening"
  /\ UNCHANGED <<openExpired, opened, lock, files, laneCtx, ready,
                 conn, cut, childVars, watchVars, run, runVars, closeVars>>

OpenFiles ==
  /\ open = "files" /\ open' = "child" /\ files' = "held"
  /\ UNCHANGED <<openExpired, opened, lock, laneCtx, endVars,
                 childVars, watchVars, run, runVars, closeVars>>

(* the child, its client, the lifetime goroutine and watch *)
OpenChild ==
  /\ open = "child" /\ open' = "calls"
  /\ child' = "running" /\ client' = "up"
  /\ lifetime' = "waiting" /\ watch' = "waiting"
  /\ UNCHANGED <<openExpired, opened, lock, files, laneCtx, endVars,
                 drained, stubborn, seen, shutdown, run, runVars, closeVars>>

(* an answer may still be read after the child's end *)
OpenCalls ==
  /\ open = "calls" /\ client = "up" /\ open' = "ready"
  /\ UNCHANGED <<openExpired, opened, lock, files, laneCtx, endVars,
                 childVars, watchVars, run, runVars, closeVars>>

OpenReady ==
  /\ open = "ready" /\ ready /\ open' = "adopt"
  /\ UNCHANGED <<openExpired, opened, lock, files, laneCtx, endVars,
                 childVars, watchVars, run, runVars, closeVars>>

(* a resource is refused, native declines, or a wait is cut off *)
OpenFails ==
  /\ \/ /\ open \in {"lock", "endpoint", "files", "child", "calls"}
        /\ "failure" \in Events
     \/ open = "calls" /\ (client = "failed" \/ openExpired)
     \/ open = "ready" /\ (openExpired \/ laneCtx = "cancelled")
  /\ open' = "failing"
  /\ UNCHANGED <<openExpired, opened, lock, files, laneCtx, endVars,
                 childVars, watchVars, run, runVars, closeVars>>

Live == /\ endpoint = "listening"
        /\ \E c \in Conns : conn[c] = "initialized"

(* mutant: a context cancelled meanwhile is not looked at *)
AdoptableAnyway == ~closing /\ Live
Adoptable == ~closing /\ laneCtx = "live" /\ Live

OpenAdopts ==
  /\ open = "adopt"
  /\ opened' = Adoptable
  /\ open' = IF Adoptable THEN "opened" ELSE "failing"
  /\ UNCHANGED <<openExpired, lock, files, laneCtx, endVars,
                 childVars, watchVars, run, runVars, closeVars>>

(* Open's deferred function on an error: lost, then Close *)
OpenLoses ==
  /\ open = "failing" /\ open' = "closing"
  /\ LoseLane
  /\ UNCHANGED <<openExpired, opened, lock, files, endVars, child,
                 drained, lifetime, stubborn, watchVars, run, runVars, closeVars>>

(* Close returned, to Open's own call or to one that waited for the Once *)
OpenReturnsError ==
  /\ open = "closing" /\ stage = "done" /\ open' = "failed"
  /\ UNCHANGED <<openExpired, opened, lock, files, laneCtx, endVars,
                 childVars, watchVars, run, runVars, closeVars>>

(* external: the context of the request ends *)
Expires ==
  /\ "expiry" \in Events /\ ~openExpired /\ open # "idle"
  /\ openExpired' = TRUE
  /\ UNCHANGED <<open, opened, lock, files, laneCtx, endVars,
                 childVars, watchVars, run, runVars, closeVars>>

(* the AfterFunc of that context, until Open returns *)
StartupStops ==
  /\ openExpired /\ Busy /\ laneCtx = "live"
  /\ laneCtx' = "cancelled"
  /\ UNCHANGED <<openVars, endVars, childVars, watchVars, run, runVars,
                 closeVars>>

-----------------------------------------------------------------------------
(* The lifetime goroutine, the ACP reader, watch *)

LifetimeKills ==
  /\ lifetime = "waiting" /\ laneCtx = "cancelled"
  /\ lifetime' = "done" /\ client' = "failed"
  /\ child' = IF Dead THEN child ELSE "killed"
  /\ UNCHANGED <<openVars, laneCtx, endVars, drained, stubborn, watchVars, run,
                 runVars, closeVars>>

LifetimeEnds ==
  /\ lifetime = "waiting" /\ Dead
  /\ lifetime' = "done"
  /\ UNCHANGED <<openVars, laneCtx, endVars, child, client, drained, stubborn,
                 watchVars, run, runVars, closeVars>>

ClientAtEOF == "failed"

(* the reader returns at EOF, on a failed client or on a malformed frame *)
ReaderEnds ==
  /\ ~drained /\ client # "none"
  /\ Dead \/ client = "failed" \/ "malformed" \in Events
  /\ drained' = TRUE /\ client' = ClientAtEOF
  /\ UNCHANGED <<openVars, laneCtx, endVars, child, lifetime, stubborn,
                 watchVars, run, runVars, closeVars>>

(* mutant: watch does not look for a Run *)
RunUnseen == NoRun
RunSeen == run
WatchLooks ==
  /\ watch = "waiting" /\ Dead /\ drained
  /\ IF opened /\ ~closing
       THEN /\ seen' = RunSeen
            /\ watch' = IF seen' = NoRun THEN "shutdown" ELSE "retiring"
       ELSE watch' = "done" /\ seen' = seen
  /\ UNCHANGED <<openVars, laneCtx, endVars, childVars, shutdown, run, runVars,
                 closeVars>>

Without(r) == IF run = r THEN NoRun ELSE run

WatchRetires ==
  /\ watch = "retiring" /\ turn[seen] = "done"
  /\ run' = Without(seen) /\ watch' = "shutdown"
  /\ UNCHANGED <<openVars, laneCtx, endVars, childVars, seen, shutdown,
                 runVars, closeVars>>

WatchShutsDown ==
  /\ watch = "shutdown"
  /\ watch' = "done" /\ shutdown' = TRUE
  /\ UNCHANGED <<openVars, laneCtx, endVars, childVars, seen, run, runVars,
                 closeVars>>

-----------------------------------------------------------------------------
(* Runs: Wrapper.Run records one, retireRun forgets it *)

RunBegins(r) ==
  /\ open = "opened" /\ closer = "none"
  /\ turn[r] = "idle" /\ \A q \in Runs : turn[q] # "running"
  /\ turn' = [turn EXCEPT ![r] = "running"]
  /\ run' = r
  /\ early' = IF Dead THEN early ELSE early \cup {r}
  /\ UNCHANGED <<openVars, laneCtx, endVars, childVars, watchVars, closeVars>>

RunEnds(r) ==
  /\ turn[r] = "running" /\ turn' = [turn EXCEPT ![r] = "done"]
  /\ UNCHANGED <<openVars, laneCtx, endVars, childVars, watchVars, run, early,
                 closeVars>>

(* the goroutine Run started; it has nothing to do once p.run is another *)
RetireRun(r) ==
  /\ turn[r] = "done" /\ run = r
  /\ run' = Without(r)
  /\ UNCHANGED <<openVars, laneCtx, endVars, childVars, watchVars, runVars,
                 closeVars>>

-----------------------------------------------------------------------------
(* Close *)

Found ==
  (IF endpoint # "none" THEN {"endpoint"} ELSE {}) \cup
  (IF child # "none" THEN {"child"} ELSE {}) \cup
  (IF lock # "none" THEN {"lock"} ELSE {}) \cup
  (IF files # "none" THEN {"files"} ELSE {}) \cup
  (IF laneCtx # "none" THEN {"cancel"} ELSE {})

CloseBegin(who) ==
  /\ closer = "none"
  /\ \/ who = "open" /\ open = "closing"
     \/ /\ who = "daemon" /\ "close" \in Events
        /\ open = "opened" \/ "early" \in Events
  /\ closer' = who /\ closing' = TRUE
  /\ held' = Found /\ stage' = "endpoint"
  /\ UNCHANGED <<openVars, laneCtx, endVars, childVars, watchVars, run, runVars>>

CloseEndpoint ==
  /\ stage = "endpoint" /\ stage' = "workers"
  /\ IF "endpoint" \in held
       THEN /\ endpoint' = "closed"
            /\ cut' = cut \cup {c \in Conns : conn[c] \in {"up", "initialized"}}
       ELSE UNCHANGED <<endpoint, cut>>
  /\ UNCHANGED <<openVars, laneCtx, ready, conn, childVars, watchVars, run,
                 runVars, closing, closer, held>>

WorkersGone == \A c \in Conns : conn[c] \in {"idle", "gone"}

(* client.close, when there is a child *)
CloseClient ==
  /\ stage = "workers" /\ ("endpoint" \in held => WorkersGone)
  /\ stage' = "child"
  /\ client' = IF "child" \in held THEN "failed" ELSE client
  /\ UNCHANGED <<openVars, laneCtx, endVars, child, drained, lifetime, stubborn,
                 watchVars, run, runVars, closing, closer, held>>

(* external: the context of the close request ends, and its AfterFunc kills *)
Deadline ==
  /\ "deadline" \in Events
  /\ stage = "child" /\ closer = "daemon" /\ "child" \in held /\ ~Dead
  /\ child' = "killed"
  /\ UNCHANGED <<openVars, laneCtx, endVars, client, drained, lifetime,
                 stubborn, watchVars, run, runVars, closeVars>>

(* mutant: the reader is not waited for *)
ReapedUndrained == "child" \in held => Dead
Reaped == "child" \in held => Dead /\ drained

(* the lock, the directory, and the deferred cancel *)
CloseReleases ==
  /\ stage = "child" /\ Reaped
  /\ stage' = "done"
  /\ lock' = IF "lock" \in held THEN "released" ELSE lock
  /\ files' = IF "files" \in held THEN "released" ELSE files
  /\ laneCtx' = IF "cancel" \in held THEN "cancelled" ELSE laneCtx
  /\ UNCHANGED <<open, openExpired, opened, endVars, childVars,
                 watchVars, run, runVars, closing, closer, held>>

-----------------------------------------------------------------------------
(* The endpoint: one worker per connection *)

Accept(c) ==
  /\ endpoint = "listening" /\ child = "running"
  /\ conn[c] = "idle"
  /\ Cardinality({d \in Conns : conn[d] \notin {"idle", "gone"}}) < MaxClients
  /\ conn' = [conn EXCEPT ![c] = "up"]
  /\ UNCHANGED <<openVars, laneCtx, endpoint, ready, cut, childVars, watchVars,
                 run, runVars, closeVars>>

Initialized(c) ==
  /\ conn[c] = "up" /\ endpoint = "listening"
  /\ conn' = [conn EXCEPT ![c] = "initialized"] /\ ready' = TRUE
  /\ UNCHANGED <<openVars, laneCtx, endpoint, cut, childVars, watchVars, run,
                 runVars, closeVars>>

(* End's critical section: active when it was ready and e is not closed *)
End(c) ==
  /\ conn[c] \in {"up", "initialized"} /\ c \in cut
  /\ conn' = [conn EXCEPT ![c] =
       IF @ = "initialized" /\ endpoint = "listening" THEN "losing" ELSE "gone"]
  /\ UNCHANGED <<openVars, laneCtx, endpoint, ready, cut, childVars, watchVars,
                 run, runVars, closeVars>>

EndLoses(c) ==
  /\ conn[c] = "losing" /\ conn' = [conn EXCEPT ![c] = "gone"]
  /\ LoseLane
  /\ UNCHANGED <<openVars, endpoint, ready, cut, child, drained, lifetime,
                 stubborn, watchVars, run, runVars, closeVars>>

-----------------------------------------------------------------------------
(* External: native *)

NativeExits ==
  /\ child = "running" /\ "exit" \in Events
  /\ child' = "exited"
  /\ UNCHANGED <<openVars, laneCtx, endVars, client, drained, lifetime,
                 stubborn, watchVars, run, runVars, closeVars>>

(* a failed client has closed the child's input *)
NativeObeys ==
  /\ child = "running" /\ client = "failed" /\ ~stubborn
  /\ child' = "exited"
  /\ UNCHANGED <<openVars, laneCtx, endVars, client, drained, lifetime,
                 stubborn, watchVars, run, runVars, closeVars>>

NativeDrops(c) ==
  /\ conn[c] \in {"up", "initialized"} /\ c \notin cut
  /\ "drop" \in Events \/ Dead
  /\ cut' = cut \cup {c}
  /\ UNCHANGED <<openVars, laneCtx, endpoint, ready, conn, childVars, watchVars,
                 run, runVars, closeVars>>

-----------------------------------------------------------------------------
OpenStep == \/ OpenBegin \/ OpenRefused \/ OpenLock \/ OpenEndpoint \/ OpenFiles
            \/ OpenChild \/ OpenCalls \/ OpenReady \/ OpenFails \/ OpenAdopts
            \/ OpenLoses \/ OpenReturnsError
Lifetime == LifetimeKills \/ LifetimeEnds
Watch == WatchLooks \/ WatchRetires \/ WatchShutsDown
CloseStep == CloseEndpoint \/ CloseClient \/ CloseReleases
Worker(c) == End(c) \/ EndLoses(c)
Native == \/ NativeExits \/ NativeObeys
          \/ \E c \in Conns : Accept(c) \/ Initialized(c) \/ NativeDrops(c)

Next ==
  \/ OpenStep \/ Expires \/ StartupStops
  \/ Lifetime \/ ReaderEnds \/ Watch
  \/ \E r \in Runs : RunBegins(r) \/ RunEnds(r) \/ RetireRun(r)
  \/ \E who \in {"open", "daemon"} : CloseBegin(who)
  \/ CloseStep \/ Deadline
  \/ \E c \in Conns : Worker(c)
  \/ Native

Spec == Init /\ [][Next]_vars

(***************************************************************************)
(* Goroutines are scheduled and a Run settles (LaneRun). Open's steps are   *)
(* fair, so native answers it or it is cut off; the helper's connection     *)
(* reaches EOF once native is dead. Nothing is assumed of the events, nor   *)
(* of a helper that never connects.                                         *)
(***************************************************************************)
Fairness ==
  /\ WF_vars(OpenStep) /\ WF_vars(StartupStops)
  /\ WF_vars(Lifetime) /\ WF_vars(ReaderEnds /\ (Dead \/ client = "failed"))
  /\ WF_vars(Watch)
  /\ WF_vars(\E r \in Runs : RunEnds(r) \/ RetireRun(r))
  /\ WF_vars(CloseBegin("open")) /\ WF_vars(CloseStep)
  /\ WF_vars(\E c \in Conns : Worker(c) \/ (NativeDrops(c) /\ Dead))
  /\ WF_vars(NativeObeys)
FairSpec == Spec /\ Fairness

-----------------------------------------------------------------------------
(* Properties *)

OpenTypeOK ==
  /\ open \in {"idle", "lock", "endpoint", "files", "child", "calls", "ready",
               "adopt", "opened", "failing", "closing", "failed"}
  /\ openExpired \in BOOLEAN /\ opened \in BOOLEAN
  /\ lock \in {"none", "held", "released"}
  /\ files \in {"none", "held", "released"}
  /\ laneCtx \in {"none", "live", "cancelled"}
  /\ opened <=> open = "opened"
EndTypeOK ==
  /\ endpoint \in {"none", "listening", "closed"} /\ ready \in BOOLEAN
  /\ conn \in [Conns -> {"idle", "up", "initialized", "losing", "gone"}]
  /\ cut \subseteq Conns
ChildTypeOK ==
  /\ child \in {"none", "running", "exited", "killed"}
  /\ client \in {"none", "up", "failed"}
  /\ drained \in BOOLEAN /\ stubborn \in BOOLEAN
  /\ lifetime \in {"none", "waiting", "done"}
  /\ watch \in {"none", "waiting", "retiring", "shutdown", "done"}
  /\ child = "none" <=> client = "none"
  /\ child = "none" <=> lifetime = "none"
  /\ child = "none" <=> watch = "none"
  /\ drained => client = "failed"
RunTypeOK ==
  /\ run \in Runs \cup {NoRun} /\ turn \in [Runs -> {"idle", "running", "done"}]
  /\ early \subseteq Runs
  /\ seen \in Runs \cup {NoRun} /\ shutdown \in BOOLEAN
  /\ watch = "retiring" => seen # NoRun
CloseTypeOK ==
  /\ closing \in BOOLEAN /\ closer \in {"none", "open", "daemon"}
  /\ stage \in {"none", "endpoint", "workers", "child", "done"}
  /\ held \subseteq {"endpoint", "child", "lock", "files", "cancel"}

(* Types, and the shape of a lane: it has a client, a lifetime goroutine and *)
(* a watch exactly when it has a child, it was adopted only by Open, and a   *)
(* reader that returned has failed the client.                               *)
TypeOK == OpenTypeOK /\ EndTypeOK /\ ChildTypeOK /\ RunTypeOK /\ CloseTypeOK

(* qwen.go:259-276: when watch calls shutdown, every Run that began while    *)
(* the child lived is done, and p.run names none of them: the shutdown drops *)
(* no result and carries no Run into a reopened worker.                      *)
RunRetired ==
  watch = "shutdown" => \A r \in early : turn[r] = "done" /\ run # r

(* qwen.go:277-304: once Close has let go of the lock and the launch files,  *)
(* nothing it found is left: the child is reaped, the reader and its workers *)
(* are joined, and no worker of the endpoint will call lost.                 *)
CloseJoins ==
  stage = "done" =>
    /\ "child" \in held => Dead /\ drained
    /\ "endpoint" \in held => endpoint = "closed" /\ WorkersGone
    /\ "lock" \in held => lock = "released"
    /\ "files" \in held => files = "released"

(* qwen.go:229, 259-276: an adopted lane that is lost, whether its context   *)
(* was cancelled or its child died, is shut down or closed. The exception is *)
(* a child that exits by itself before the adoption and after Open's last    *)
(* call: watch then looks at a lane that is not opened, and is gone.         *)
Missed == child = "exited" /\ watch = "done"
LossIsNoticed ==
  (opened /\ (laneCtx = "cancelled" \/ Dead)) ~> (shutdown \/ closing \/ Missed)

(* Open returns once its request or the lane's context has ended, and every  *)
(* Close returns, even with a native that ignores the end of its input:      *)
(* Open's own Close comes after lost, which kills; the daemon's relies on    *)
(* the deadline of its request.                                              *)
Settles ==
  /\ (Busy /\ (openExpired \/ laneCtx = "cancelled")) ~> (open \in {"opened", "failed"})
  /\ (closer # "none") ~>
       (stage = "done" \/ (closer = "daemon" /\ stubborn /\ child = "running"))
=============================================================================
