-------------------------- MODULE InteractiveOwner --------------------------
(***************************************************************************)
(* The MCP helper of an interactive Qwen session, which owns the session's *)
(* bus connection: wrappers/qwen/interactive_owner.go.                     *)
(*                                                                         *)
(* Goroutines that interleave here:                                        *)
(*   - the observer of the native registry (run, observe), obs;            *)
(*   - the transport loop (reconnect, connect), bus;                       *)
(*   - the readers of the connections it opened, which dispatch the frames *)
(*     of the daemon in order (handle, the observer of session.hello);     *)
(*   - one worker per dispatched request, which appends to the input file; *)
(*   - a native tool call (Action, Call) and the end of the helper (End).  *)
(* The daemon, the SDK's connection and native Qwen are external.          *)
(***************************************************************************)
EXTENDS Integers, Sequences, FiniteSets, SequencesExt

CONSTANTS
  Rows,          \* contents of the native registry row: name and cwd
  NoRow,         \* no registry row
  Deliveries,    \* the messages the daemon may deliver
  Newline, Torn, \* a line end and a partial record in the input file
  MaxConns,      \* connections an instance opens
  MaxRevisions,  \* identities an instance desires
  MaxSlots,      \* cap(slots)
  Events         \* the kinds of external events an instance explores

ASSUME InteractiveOwnerAssumption ==
  /\ NoRow \notin Rows
  /\ Newline \notin Deliveries /\ Torn \notin Deliveries \cup {Newline}
  /\ Deliveries \cap {"acknowledged", "refused", "superseded"} = {}
  /\ MaxConns \in Nat /\ MaxRevisions \in Nat /\ MaxSlots \in Nat \ {0}
  /\ Events \subseteq {"loss", "refuse", "supersede", "end", "watch", "gone",
                      "startup", "invalid", "short", "call"}

VARIABLES
  registry,      \* the native registry row, as native last wrote it
  signal,        \* interactiveWatch.changed holds a token
  \* observe
  obs,           \* the observer: created, scan, wait, joining, done
  published,     \* the row it last published, NoRow before the first
  \* interactiveOwner, under its mu
  identity, revision, admitted, conn, ending,
  changed,       \* changed holds a token
  ready,         \* ready is closed
  cancelled,     \* the lifetime context is cancelled
  \* reconnect and connect
  bus,           \* none, dial, open, loop, hello, idle, closing, done
  conns,         \* connections opened so far, which names them
  open,          \* the last of them is open
  acknowledged,  \* connect's revision of the last acknowledged hello
  proposed,      \* the revision and row of the hello in flight
  refused,       \* connect returns a daemon's refusal
  \* handle and its workers
  frames,        \* frames of the daemon each connection has yet to dispatch
  via,           \* the connection a delivery was sent on, 0 before
  work,          \* the worker of each delivery
  supersession,  \* session.superseded: no, frozen (to be acknowledged), final
  file,          \* the launch input file
  answer,        \* the receipt of each delivery
  \* Call and End
  call, callConn, end,
  \* the daemon
  asked,         \* it has yet to process a hello of the open connection
  registered,    \* connections whose hello it acknowledged
  known          \* the row of the last hello it acknowledged

watchVars == <<registry, signal>>
obsVars   == <<obs, published>>
ownVars   == <<identity, revision, changed, ready>>
busVars   == <<acknowledged, proposed, refused>>
workVars  == <<work, supersession, file, answer>>
callVars  == <<call, callConn>>
daemonVars == <<asked, registered, known>>
vars == <<watchVars, obsVars, ownVars, admitted, conn, ending, cancelled, bus,
          conns, open, busVars, frames, via, workVars, callVars, end, daemonVars>>

Frames == Deliveries \cup {"acknowledged", "refused", "superseded"}
\* The workers that hold one of the slots.
Busy == {d \in Deliveries : work[d] \notin {"none", "done"}}
Slots == Cardinality(Busy) + (IF supersession = "frozen" THEN 1 ELSE 0)

Init ==
  /\ registry = NoRow /\ signal = FALSE
  /\ obs = "created" /\ published = NoRow
  /\ identity = NoRow /\ revision = 0 /\ changed = FALSE /\ ready = FALSE
  /\ admitted = FALSE /\ conn = 0 /\ ending = FALSE /\ cancelled = FALSE
  /\ bus = "none" /\ conns = 0 /\ open = FALSE
  /\ acknowledged = 0 /\ proposed = <<0, NoRow>> /\ refused = FALSE
  /\ frames = [k \in 1 .. MaxConns |-> <<>>]
  /\ via = [d \in Deliveries |-> 0]
  /\ work = [d \in Deliveries |-> "none"]
  /\ supersession = "no"
  /\ file = <<>>
  /\ answer = [d \in Deliveries |-> "none"]
  /\ call = "none" /\ callConn = 0 /\ end = "no"
  /\ asked = FALSE /\ registered = {} /\ known = NoRow

-----------------------------------------------------------------------------
(* The observer of the native registry                                      *)

Initialized ==
  /\ obs = "created"
  /\ obs' = "scan"
  /\ UNCHANGED <<watchVars, published, ownVars, admitted, conn, ending, cancelled,
                 bus, conns, open, busVars, frames, via, workVars, callVars, end,
                 daemonVars>>

\* observe returns; its deferred functions cancel the lifetime and join.
ObserveReturns ==
  /\ obs' = "joining" /\ cancelled' = TRUE
  /\ UNCHANGED <<watchVars, published, ownVars, admitted, conn, ending, bus,
                 conns, open, busVars, frames, via, workVars, callVars, end,
                 daemonVars>>

\* The lifetime ended, the published row is gone, a row contradicts the helper
\* or cannot be read, or none appeared before the startup timer fired.
ObserveFails ==
  \/ obs \in {"scan", "wait"} /\ cancelled /\ ObserveReturns
  \/ obs = "scan" /\ registry = NoRow /\ published # NoRow /\ ObserveReturns
  \/ obs = "scan" /\ "invalid" \in Events /\ ObserveReturns
  \/ obs = "wait" /\ published = NoRow /\ "startup" \in Events /\ ObserveReturns

\* A first identity must hello; renaming keeps the admission.
AdmissionAfterDesire == IF identity = NoRow THEN FALSE ELSE admitted

\* A scan: desire is called for the first row and for a changed one, and the
\* transport loop starts with the first.
Scan ==
  /\ obs = "scan" /\ ~cancelled
  /\ registry # NoRow \/ published = NoRow
  /\ obs' = "wait"
  /\ published' = registry
  /\ IF registry = published
       THEN UNCHANGED <<ownVars, admitted, bus>>
       ELSE /\ admitted' = AdmissionAfterDesire
            /\ identity' = registry /\ revision' = revision + 1
            /\ changed' = TRUE /\ UNCHANGED ready
            /\ bus' = IF bus = "none" THEN "dial" ELSE bus
  /\ UNCHANGED <<watchVars, conn, ending, cancelled, conns, open, busVars, frames,
                 via, workVars, callVars, end, daemonVars>>

\* The watch signalled, or the startup timer fired once a row was published.
Wake ==
  /\ obs = "wait"
  /\ \/ signal
     \/ published # NoRow /\ "startup" \in Events
  /\ signal' = FALSE /\ obs' = "scan"
  /\ UNCHANGED <<registry, published, ownVars, admitted, conn, ending, cancelled,
                 bus, conns, open, busVars, frames, via, workVars, callVars, end,
                 daemonVars>>

\* The observation fails, which the exit of native does.
WatchFails ==
  /\ "watch" \in Events
  /\ obs \in {"scan", "wait"} /\ ~cancelled
  /\ cancelled' = TRUE
  /\ UNCHANGED <<watchVars, obsVars, ownVars, admitted, conn, ending, bus, conns,
                 open, busVars, frames, via, workVars, callVars, end, daemonVars>>

\* observe has joined the transport loop; run ends the helper.
Finish ==
  /\ obs = "joining" /\ bus \in {"none", "done"}
  /\ obs' = "done" /\ ending' = TRUE
  /\ UNCHANGED <<watchVars, published, ownVars, admitted, conn, cancelled, bus,
                 conns, open, busVars, frames, via, workVars, callVars, end,
                 daemonVars>>

-----------------------------------------------------------------------------
(* The transport loop                                                       *)

\* reconnect: an attempt that fails is repeated after a while, by itself it
\* changes nothing.
Dial ==
  /\ bus = "dial"
  /\ IF cancelled
       THEN bus' = "done" /\ UNCHANGED <<conns, open>>
       ELSE /\ conns < MaxConns
            /\ conns' = conns + 1 /\ open' = TRUE /\ bus' = "open"
  /\ UNCHANGED <<watchVars, obsVars, ownVars, admitted, conn, ending, cancelled,
                 busVars, frames, via, workVars, callVars, end, daemonVars>>

\* Mutant: a new connection only minds the context.
MayRegisterAlways == ~cancelled

\* connect records its connection unless the helper is ending.
MayRegister == ~ending /\ ~cancelled

Register ==
  /\ bus = "open"
  /\ acknowledged' = 0
  /\ IF MayRegister
       THEN conn' = conns /\ admitted' = FALSE /\ bus' = "loop"
       ELSE bus' = "closing" /\ UNCHANGED <<conn, admitted>>
  /\ UNCHANGED <<watchVars, obsVars, ownVars, ending, cancelled, conns, open,
                 proposed, refused, frames, via, workVars, callVars, end,
                 daemonVars>>

\* The loop of connect: hello for an identity not yet acknowledged.
Hello ==
  /\ bus = "loop" /\ acknowledged # revision
  /\ proposed' = <<revision, identity>>
  /\ asked' = open
  /\ bus' = "hello"
  /\ UNCHANGED <<watchVars, obsVars, ownVars, admitted, conn, ending, cancelled,
                 conns, open, acknowledged, refused, frames, via, workVars,
                 callVars, end, registered, known>>

Idle ==
  /\ bus = "loop" /\ acknowledged = revision
  /\ bus' = "idle"
  /\ UNCHANGED <<watchVars, obsVars, ownVars, admitted, conn, ending, cancelled,
                 conns, open, busVars, frames, via, workVars, callVars, end,
                 daemonVars>>

\* A change wakes the idle connection.
Rehello ==
  /\ bus = "idle" /\ changed
  /\ changed' = FALSE /\ bus' = "loop"
  /\ UNCHANGED <<watchVars, obsVars, identity, revision, ready, admitted, conn,
                 ending, cancelled, conns, open, busVars, frames, via, workVars,
                 callVars, end, daemonVars>>

\* The call of session.hello or the wait ends with the lifetime or connection.
ConnectionEnds ==
  /\ bus \in {"hello", "idle"}
  /\ cancelled \/ ~open
  /\ bus' = "closing"
  /\ UNCHANGED <<watchVars, obsVars, ownVars, admitted, conn, ending, cancelled,
                 conns, open, busVars, frames, via, workVars, callVars, end,
                 daemonVars>>

\* Mutant: the admission outlives its connection.
AdmissionAfterLoss == admitted

AdmissionAfterDisconnect == IF conn = conns THEN FALSE ELSE admitted

\* connect returns, its deferred function having retired the connection. In
\* reconnect a refusal is final and any other end is retried.
Disconnect ==
  /\ bus = "closing"
  /\ admitted' = AdmissionAfterDisconnect
  /\ conn' = IF conn = conns THEN 0 ELSE conn
  /\ open' = FALSE /\ asked' = FALSE
  /\ bus' = IF cancelled \/ refused THEN "done" ELSE "dial"
  /\ ending' = (ending \/ refused) /\ cancelled' = (cancelled \/ refused)
  /\ UNCHANGED <<watchVars, obsVars, ownVars, conns, busVars, frames, via,
                 workVars, callVars, end, registered, known>>

\* context.AfterFunc of run, and End: the connection of a cancelled lifetime.
CloseCancelled ==
  /\ cancelled /\ conn # 0 /\ open
  /\ open' = FALSE /\ asked' = FALSE
  /\ UNCHANGED <<watchVars, obsVars, ownVars, admitted, conn, ending, cancelled,
                 bus, conns, busVars, frames, via, workVars, callVars, end,
                 registered, known>>

-----------------------------------------------------------------------------
(* The readers of the connections, in the order of the daemon's frames. The *)
(* reader of a closed connection may still dispatch what it had read.       *)

Dispatch(k, frame) ==
  /\ frames[k] # <<>> /\ Head(frames[k]) = frame
  /\ frames' = [frames EXCEPT ![k] = Tail(@)]

\* Mutant: a row observed during the hello counts as acknowledged by it.
AcknowledgedLatest == revision

\* The revision a hello acknowledges is the one it was sent with.
AcknowledgedRevision == proposed[1]

\* The reply to session.hello and its observer.
HelloAcknowledged(k) ==
  /\ Dispatch(k, "acknowledged")
  /\ IF bus # "hello" \/ k # conns
       THEN UNCHANGED <<bus, acknowledged, admitted, ready>>
     ELSE IF ending \/ cancelled \/ conn # k
       THEN bus' = "closing" /\ UNCHANGED <<acknowledged, admitted, ready>>
     ELSE /\ acknowledged' = AcknowledgedRevision /\ bus' = "loop"
          /\ admitted' = (admitted \/ revision = proposed[1])
          /\ ready' = (ready \/ revision = proposed[1])
  /\ UNCHANGED <<watchVars, obsVars, identity, revision, changed, conn, ending,
                 cancelled, conns, open, proposed, refused, via, workVars,
                 callVars, end, daemonVars>>

HelloRefused(k) ==
  /\ Dispatch(k, "refused")
  /\ IF bus = "hello" /\ k = conns
       THEN refused' = TRUE /\ bus' = "closing"
       ELSE UNCHANGED <<refused, bus>>
  /\ UNCHANGED <<watchVars, obsVars, ownVars, admitted, conn, ending, cancelled,
                 conns, open, acknowledged, proposed, via, workVars, callVars, end,
                 daemonVars>>

\* handle drops the requests of another connection and of an ending helper.
Owned(k) == ~ending /\ ~cancelled /\ conn = k

SlotFree == Slots < MaxSlots

HandleDeliver(k, d) ==
  /\ Dispatch(k, d)
  /\ IF ~Owned(k)
       THEN UNCHANGED <<work, open, asked>>
     ELSE IF ~SlotFree
       THEN open' = FALSE /\ asked' = FALSE /\ UNCHANGED work
     ELSE /\ work' = [work EXCEPT ![d] = IF admitted THEN "queued" ELSE "rejecting"]
          /\ UNCHANGED <<open, asked>>
  /\ UNCHANGED <<watchVars, obsVars, ownVars, admitted, conn, ending, cancelled,
                 bus, conns, busVars, via, supersession, file, answer, callVars,
                 end, registered, known>>

\* Supersession is decided under the lock, whether or not a slot is left to
\* acknowledge it from.
HandleSuperseded(k) ==
  /\ Dispatch(k, "superseded")
  /\ IF ~Owned(k)
       THEN UNCHANGED <<ending, open, asked, supersession>>
     ELSE /\ ending' = TRUE
          /\ IF ~SlotFree
               THEN open' = FALSE /\ asked' = FALSE /\ supersession' = "final"
               ELSE supersession' = "frozen" /\ UNCHANGED <<open, asked>>
  /\ UNCHANGED <<watchVars, obsVars, ownVars, admitted, conn, cancelled, bus,
                 conns, busVars, via, work, file, answer, callVars, end,
                 registered, known>>


\* handle cancels the lifetime after it released the lock, and so does the
\* worker.
CancelSuperseded ==
  /\ supersession # "no" /\ ~cancelled
  /\ cancelled' = TRUE
  /\ UNCHANGED <<watchVars, obsVars, ownVars, admitted, conn, ending, bus, conns,
                 open, busVars, frames, via, workVars, callVars, end, daemonVars>>

AcknowledgeSuperseded ==
  /\ supersession = "frozen"
  /\ supersession' = "final"
  /\ UNCHANGED <<watchVars, obsVars, ownVars, admitted, conn, ending, cancelled,
                 bus, conns, open, busVars, frames, via, work, file, answer,
                 callVars, end, daemonVars>>

-----------------------------------------------------------------------------
(* The workers: appendInput, and the receipt                                *)

LinkOpen(d) == via[d] = conns /\ open

WorkerStep(d, stage) ==
  /\ work' = [work EXCEPT ![d] = stage]
  /\ UNCHANGED <<watchVars, obsVars, ownVars, admitted, conn, ending, cancelled,
                 bus, conns, busVars, frames, via, supersession, callVars, end,
                 registered, known>>

\* The write gate is free, and both contexts are live once it is taken.
AcquireGate(d) ==
  /\ work[d] = "queued"
  /\ \A other \in Deliveries : work[other] # "gated"
  /\ ~cancelled /\ LinkOpen(d)
  /\ WorkerStep(d, "gated") /\ UNCHANGED <<file, answer, open, asked>>

\* The message does not render or exceeds the record bound, or a context ended.
GiveUp(d) ==
  /\ work[d] = "queued"
  /\ cancelled \/ ~LinkOpen(d) \/ "invalid" \in Events
  /\ WorkerStep(d, "failed") /\ UNCHANGED <<file, answer, open, asked>>

\* A request without delivery parameters costs the connection.
Misdelivered(d) ==
  /\ "invalid" \in Events
  /\ work[d] = "queued"
  /\ open' = (open /\ ~LinkOpen(d)) /\ asked' = (asked /\ ~LinkOpen(d))
  /\ answer' = [answer EXCEPT ![d] = "lost"]
  /\ WorkerStep(d, "done") /\ UNCHANGED file

\* Mutant: a record relies on the line end of the one before it.
RecordUnprefixed(d) == <<d, Newline>>

Record(d) == <<Newline, d, Newline>>

\* What one write(2) may leave of a record in the file short of all of it:
\* nothing, the line end, part of the body, or all but its own line end.
Remnants(d) == {<<>>, <<Newline>>, <<Newline, Torn>>, <<Newline, d>>}

\* One write(2), never continued nor repeated.
Write(d) ==
  /\ work[d] = "gated"
  /\ \/ file' = file \o Record(d) /\ WorkerStep(d, "wrote")
     \/ /\ "short" \in Events
        /\ \E part \in Remnants(d) : file' = file \o part
        /\ WorkerStep(d, "failed")
  /\ UNCHANGED <<answer, open, asked>>

\* Mutant: a failed append is answered as a rejection.
ReceiptIfFailed(stage) == IF stage = "wrote" THEN "written" ELSE "rejected"

Receipt(stage) ==
  CASE stage = "wrote" -> "written"
    [] stage = "failed" -> "uncertain"   \* native input write failed; no replay
    [] stage = "rejecting" -> "rejected" \* not connected

\* The answer reaches the daemon on the request's connection, or that
\* connection is closed; the worker releases its slot.
Answer(d) ==
  /\ work[d] \in {"wrote", "failed", "rejecting"}
  /\ answer' = [answer EXCEPT ![d] = IF LinkOpen(d) THEN Receipt(work[d])
                                     ELSE "lost"]
  /\ WorkerStep(d, "done") /\ UNCHANGED <<file, open, asked>>

-----------------------------------------------------------------------------
(* A native tool call, and the end of the helper                            *)

CallBegins ==
  /\ "call" \in Events
  /\ call = "none"
  /\ call' = "waiting"
  /\ UNCHANGED <<watchVars, obsVars, ownVars, admitted, conn, ending, cancelled,
                 bus, conns, open, busVars, frames, via, workVars, callConn, end,
                 daemonVars>>

\* waitReady
CallReady ==
  /\ call = "waiting" /\ (ready \/ cancelled)
  /\ \/ ready /\ call' = IF ending THEN "failed" ELSE "ready"
     \/ cancelled /\ call' = "failed"
  /\ UNCHANGED <<watchVars, obsVars, ownVars, admitted, conn, ending, cancelled,
                 bus, conns, open, busVars, frames, via, workVars, callConn, end,
                 daemonVars>>

\* Mutant: a connection is enough to call on.
MayCallConnected == conn # 0 /\ ~ending /\ ~cancelled

MayCall == conn # 0 /\ admitted /\ ~ending /\ ~cancelled

\* Call takes the connection under the lock and calls on it afterwards.
Call ==
  /\ call = "ready"
  /\ IF MayCall THEN call' = "issued" /\ callConn' = conn
                ELSE call' = "failed" /\ UNCHANGED callConn
  /\ UNCHANGED <<watchVars, obsVars, ownVars, admitted, conn, ending, cancelled,
                 bus, conns, open, busVars, frames, via, workVars, end,
                 daemonVars>>

\* End: the MCP stream of native ended, which the end of the lifetime makes it
\* do. It closes the connection (CloseCancelled).
EndBegins ==
  /\ end = "no"
  /\ "end" \in Events \/ cancelled
  /\ end' = "waiting"
  /\ ending' = TRUE /\ cancelled' = TRUE
  /\ obs' = IF obs = "created" THEN "done" ELSE obs
  /\ UNCHANGED <<watchVars, published, ownVars, admitted, conn, bus, conns, open,
                 busVars, frames, via, workVars, callVars, daemonVars>>

\* Mutant: End does not wait for the workers.
WorkersNotJoined == TRUE

WorkersJoined == Slots = 0

EndReturns ==
  /\ end = "waiting" /\ obs = "done" /\ WorkersJoined
  /\ end' = "returned"
  /\ UNCHANGED <<watchVars, obsVars, ownVars, admitted, conn, ending, cancelled,
                 bus, conns, open, busVars, frames, via, workVars, callVars,
                 daemonVars>>

-----------------------------------------------------------------------------
(* External: the daemon, its connection, and the native registry            *)

DaemonAnswersHello ==
  /\ asked
  /\ asked' = FALSE
  /\ \/ /\ registered' = registered \cup {conns} /\ known' = proposed[2]
        /\ frames' = [frames EXCEPT ![conns] = Append(@, "acknowledged")]
     \/ /\ "refuse" \in Events
        /\ frames' = [frames EXCEPT ![conns] = Append(@, "refused")]
        /\ UNCHANGED <<registered, known>>
  /\ UNCHANGED <<watchVars, obsVars, ownVars, admitted, conn, ending, cancelled,
                 bus, conns, open, busVars, via, workVars, callVars, end>>

DaemonDelivers(d) ==
  /\ open /\ via[d] = 0
  /\ via' = [via EXCEPT ![d] = conns]
  /\ frames' = [frames EXCEPT ![conns] = Append(@, d)]
  /\ UNCHANGED <<watchVars, obsVars, ownVars, admitted, conn, ending, cancelled,
                 bus, conns, open, busVars, workVars, callVars, end, daemonVars>>

DaemonSupersedes ==
  /\ "supersede" \in Events
  /\ open /\ conns \in registered
  /\ \A i \in DOMAIN frames[conns] : frames[conns][i] # "superseded"
  /\ supersession = "no"
  /\ frames' = [frames EXCEPT ![conns] = Append(@, "superseded")]
  /\ UNCHANGED <<watchVars, obsVars, ownVars, admitted, conn, ending, cancelled,
                 bus, conns, open, busVars, via, workVars, callVars, end,
                 daemonVars>>

ConnectionLost ==
  /\ "loss" \in Events
  /\ open /\ conns < MaxConns
  /\ open' = FALSE /\ asked' = FALSE
  /\ UNCHANGED <<watchVars, obsVars, ownVars, admitted, conn, ending, cancelled,
                 bus, conns, busVars, frames, via, workVars, callVars, end,
                 registered, known>>

\* Native writes its row; the watch sees files that come and change.
NativeRegisters(row) ==
  /\ registry # NoRow \/ published = NoRow
  /\ row # registry /\ revision < MaxRevisions
  /\ registry' = row /\ signal' = TRUE
  /\ UNCHANGED <<obsVars, ownVars, admitted, conn, ending, cancelled, bus, conns,
                 open, busVars, frames, via, workVars, callVars, end, daemonVars>>

\* A published row goes for good. The watch does not ask for removed files.
NativeUnregisters ==
  /\ "gone" \in Events
  /\ registry # NoRow /\ published # NoRow
  /\ registry' = NoRow
  /\ UNCHANGED <<signal, obsVars, ownVars, admitted, conn, ending, cancelled, bus,
                 conns, open, busVars, frames, via, workVars, callVars, end,
                 daemonVars>>

-----------------------------------------------------------------------------
Observer == Initialized \/ ObserveFails \/ Scan \/ Wake \/ Finish
Transport ==
  Dial \/ Register \/ Hello \/ Idle \/ Rehello \/ ConnectionEnds \/ Disconnect
Reader(k) ==
  HelloAcknowledged(k) \/ HelloRefused(k) \/ HandleSuperseded(k)
    \/ \E d \in Deliveries : HandleDeliver(k, d)
Worker(d) == AcquireGate(d) \/ GiveUp(d) \/ Misdelivered(d) \/ Write(d) \/ Answer(d)
Ending ==
  CloseCancelled \/ CancelSuperseded \/ AcknowledgeSuperseded \/ EndReturns
External ==
  \/ DaemonAnswersHello \/ DaemonSupersedes \/ ConnectionLost \/ WatchFails
  \/ \E d \in Deliveries : DaemonDelivers(d)
  \/ \E row \in Rows : NativeRegisters(row)
  \/ NativeUnregisters \/ CallBegins

Next ==
  \/ Observer \/ Transport \/ Ending \/ EndBegins \/ CallReady \/ Call \/ External
  \/ \E k \in 1 .. MaxConns : Reader(k)
  \/ \E d \in Deliveries : Worker(d)

Spec == Init /\ [][Next]_vars

(***************************************************************************)
(* Goroutines are scheduled, the reader of an open connection dispatches,  *)
(* the daemon can be reached again after an outage and answers a hello,    *)
(* native initializes its MCP helper and registers its session. Nothing is *)
(* assumed of deliveries, renames, losses, supersession or calls.          *)
(***************************************************************************)
Fairness ==
  /\ WF_vars(Initialized \/ Wake \/ Finish \/ Scan)
  /\ WF_vars(cancelled /\ ObserveFails)
  /\ WF_vars(registry = NoRow /\ ObserveFails)
  /\ WF_vars(Register \/ Hello \/ Idle \/ Rehello \/ Disconnect)
  /\ WF_vars(Dial)
  /\ WF_vars(ConnectionEnds)
  /\ \A k \in 1 .. MaxConns : WF_vars(Reader(k))
  /\ \A d \in Deliveries : WF_vars(Worker(d))
  /\ WF_vars(Ending) /\ WF_vars(cancelled /\ EndBegins)
  /\ WF_vars(DaemonAnswersHello)
  /\ WF_vars(registry = NoRow /\ \E row \in Rows : NativeRegisters(row))

FairSpec == Spec /\ Fairness

-----------------------------------------------------------------------------
(* Properties                                                               *)

\* Every variable has its type.
TypeOK ==
  /\ registry \in Rows \cup {NoRow} /\ signal \in BOOLEAN
  /\ obs \in {"created", "scan", "wait", "joining", "done"}
  /\ published \in Rows \cup {NoRow}
  /\ identity \in Rows \cup {NoRow} /\ revision \in Nat
  /\ changed \in BOOLEAN /\ ready \in BOOLEAN
  /\ admitted \in BOOLEAN /\ ending \in BOOLEAN /\ cancelled \in BOOLEAN
  /\ conns \in 0 .. MaxConns /\ conn \in 0 .. conns /\ open \in BOOLEAN
  /\ bus \in {"none", "dial", "open", "loop", "hello", "idle", "closing",
              "done"}
  /\ acknowledged \in Nat /\ proposed \in Nat \X (Rows \cup {NoRow})
  /\ refused \in BOOLEAN
  /\ frames \in [1 .. MaxConns -> Seq(Frames)]
  /\ via \in [Deliveries -> 0 .. conns]
  /\ work \in [Deliveries -> {"none", "queued", "gated", "wrote", "failed",
                              "rejecting", "done"}]
  /\ Slots <= MaxSlots
  /\ supersession \in {"no", "frozen", "final"}
  /\ file \in Seq(Deliveries \cup {Newline, Torn})
  /\ answer \in [Deliveries -> {"none", "written", "uncertain", "rejected",
                               "lost"}]
  /\ call \in {"none", "waiting", "ready", "issued", "failed"}
  /\ callConn \in 0 .. conns /\ end \in {"no", "waiting", "returned"}
  /\ asked \in BOOLEAN /\ registered \in SUBSET (1 .. conns)
  /\ known \in Rows \cup {NoRow}

\* The messages native reads: the bodies that have a line of the input file to
\* themselves.
Lines ==
  LET own[i \in DOMAIN file] ==
        /\ 1 < i /\ i < Len(file)
        /\ file[i] \in Deliveries /\ file[i - 1] = Newline /\ file[i + 1] = Newline
      upTo[i \in 0 .. Len(file)] ==
        IF i = 0 THEN <<>>
          ELSE IF own[i] THEN Append(upTo[i - 1], file[i]) ELSE upTo[i - 1]
  IN upTo[Len(file)]

Mailbox == INSTANCE InputMailbox WITH lines <- Lines

\* The helper implements the mailbox: whatever short writes, outages, workers
\* and shutdowns come together, receipts tell the truth about native's lines
\* and no message is appended twice (appendInput, handle).
ImplementsMailbox == Mailbox!MailSpec

\* While the helper takes messages and calls, the daemon has acknowledged this
\* session on the very connection they come and go on (connect, handle, Call).
AdmittedIsAcknowledged == admitted => conn # 0 /\ conn \in registered

\* Once superseded, the helper never takes another connection into use: EOF
\* after the supersession does not turn into a reconnect (handle, connect).
SupersessionIsTerminal ==
  [][supersession # "no" => conn' \in {conn, 0}]_vars

\* A tool call goes out on a connection the daemon acknowledged, even when the
\* connection was replaced between waitReady and the call.
CallOnAcknowledged == callConn # 0 => callConn \in registered

\* After End returned no worker appends to the input file or answers.
NothingAfterEnd ==
  [][end = "returned" => UNCHANGED <<file, answer>>]_vars


\* Through losses and renames, also ones during a hello, the daemon comes to
\* know the row native has registered, unless the helper ends.
Converges ==
  []<>(cancelled \/ registry = NoRow \/ (admitted /\ known = registry))
=============================================================================
