---------------------------- MODULE LaneForwarder ----------------------------
(***************************************************************************)
(* ForwardLaneMCP, the process between native Qwen's stdio and the socket  *)
(* of its lane: wrappers/qwen/lane_endpoint.go and forward_stdio.go.       *)
(*                                                                         *)
(* Two goroutines copy, "up" from native's requests to the lane and "down" *)
(* from the lane to native; whichever ends first, or the context, stops    *)
(* both by closing what they read and write. Native and the lane are       *)
(* external: they write, read, stall and go as they like.                  *)
(***************************************************************************)
EXTENDS Naturals, Sequences

CONSTANTS
  Capacity,      \* chunks a pipe or a socket buffers
  MaxChunks,     \* chunks each side writes in an instance
  Events         \* the kinds of external events an instance explores

ASSUME LaneForwarderAssumption ==
  /\ Capacity \in Nat \ {0} /\ MaxChunks \in Nat
  /\ Events \subseteq {"setup", "cancel", "native", "lane"}

VARIABLES
  stage,         \* of ForwardLaneMCP: input, output, dial, start, first,
                 \* second, unwind, returned
  cancelled,     \* its context is cancelled
  open,          \* its descriptors that are open
  deferred,      \* its deferred functions, the next one to run first
  watched,       \* AfterFunc will run stop when the context ends
  stopped,       \* stop has run
  copy,          \* the goroutines: none, read, write, ended
  outcome,       \* what io.Copy returned: none, eof, failed, closed
  results,       \* the copies in the order their results were sent
  result,        \* the errors ForwardLaneMCP returned
  \* external
  pipe,          \* chunks buffered on the way to each reader
  written,       \* chunks native and the lane have written
  gone           \* the outer ends that are closed

mainVars == <<stage, open, deferred, watched, stopped, result>>
copyVars == <<copy, outcome, results>>
peerVars == <<pipe, written, gone>>
vars == <<mainVars, cancelled, copyVars, peerVars>>

Copies == {"up", "down"}
Pipes  == {"stdin", "toLane", "fromLane", "stdout"}
Ends   == {"requests", "answers", "lane"} \* native's two ends, the lane's one
Descriptors == {"original input", "original output", "input", "output", "socket"}

Source == [up |-> "stdin", down |-> "fromLane"]
Target == [up |-> "toLane", down |-> "stdout"]
ReadsFrom == [up |-> "input", down |-> "socket"]
WritesTo  == [up |-> "socket", down |-> "output"]
Writer == [up |-> "requests", down |-> "lane"]
Reader == [up |-> "lane", down |-> "answers"]

Init ==
  /\ stage = "input" /\ cancelled = FALSE
  /\ open = {"original input", "original output"}
  /\ deferred = <<"originals">> /\ watched = FALSE
  /\ stopped = FALSE /\ result = {}
  /\ copy = [x \in Copies |-> "none"] /\ outcome = [x \in Copies |-> "none"]
  /\ results = <<>>
  /\ pipe = [p \in Pipes |-> 0] /\ written = [x \in Copies |-> 0] /\ gone = {}

-----------------------------------------------------------------------------
(* ForwardLaneMCP                                                           *)

\* What each deferred function and stop closes.
Closes == [originals |-> {"original input", "original output"},
           input |-> {"input"}, output |-> {"output"},
           stop |-> {"socket", "input", "output"}, cancel |-> {}]

\* Mutant: the duplicate of the output is left to stop.
DefersFew(f) == IF f = "output" THEN deferred ELSE <<f>> \o deferred

\* defer: the function registered last runs first.
Defers(f) == <<f>> \o deferred

\* Every return runs what was deferred so far.
Fails(error) ==
  /\ stage' = "unwind" /\ result' = {error}
  /\ UNCHANGED <<deferred, watched, stopped>>

\* pollableForwardFile: a pipe or socket gets an owned duplicate,
Duplicate ==
  /\ stage \in {"input", "output"} /\ stage \notin open
  /\ \/ /\ open' = open \cup {stage}
        /\ UNCHANGED <<stage, deferred, watched, stopped, result>>
     \/ "setup" \in Events /\ open' = open /\ Fails("setup")
  /\ UNCHANGED <<cancelled, copyVars, peerVars>>

\* which is made nonblocking and registered with the poller, or closed.
Register ==
  /\ stage \in {"input", "output"} /\ stage \in open
  /\ \/ /\ deferred' = Defers(stage)
        /\ stage' = IF stage = "input" THEN "output" ELSE "dial"
        /\ UNCHANGED <<open, watched, stopped, result>>
     \/ "setup" \in Events /\ open' = open \ {stage} /\ Fails("setup")
  /\ UNCHANGED <<cancelled, copyVars, peerVars>>

\* DialContext fails with its context or without a lane.
Dial ==
  /\ stage = "dial"
  /\ \/ /\ ~cancelled /\ "lane" \notin gone
        /\ open' = open \cup {"socket"} /\ stage' = "start"
        /\ deferred' = Defers("stop")
        /\ UNCHANGED <<watched, stopped, result>>
     \/ /\ cancelled \/ "lane" \in gone \/ "setup" \in Events
        /\ open' = open /\ Fails("setup")
  /\ UNCHANGED <<cancelled, copyVars, peerVars>>

\* context.AfterFunc, and the two goroutines.
Start ==
  /\ stage = "start"
  /\ stage' = "first"
  /\ watched' = TRUE /\ deferred' = Defers("cancel")
  /\ copy' = [x \in Copies |-> "read"]
  /\ UNCHANGED <<cancelled, open, stopped, result, outcome, results, peerVars>>

\* Mutant: stop leaves the output to the deferred close.
StopsTwo == open \ {"socket", "input"}

\* stop closes the descriptors that the copies use, once.
Stops == IF stopped THEN open ELSE open \ Closes["stop"]

\* The context ends: AfterFunc runs stop in a goroutine of its own.
CancelStops ==
  /\ cancelled /\ watched /\ ~stopped
  /\ stopped' = TRUE /\ open' = Stops
  /\ UNCHANGED <<stage, deferred, watched, result, cancelled, copyVars, peerVars>>

\* The first result stops the other copy.
First ==
  /\ stage = "first" /\ results # <<>>
  /\ stage' = "second"
  /\ stopped' = TRUE /\ open' = Stops
  /\ UNCHANGED <<deferred, watched, result, cancelled, copyVars, peerVars>>

\* Mutant: the second result is taken for the teardown's.
SecondDropped(o) == {}

\* expectedForwardClose: of the second result only the teardown's own
\* closed-descriptor error is dropped.
Second(o) == {o} \ {"eof", "closed"}

Returned ==
  IF cancelled THEN {"cancelled"}
  ELSE ({outcome[results[1]]} \ {"eof"})
         \cup (IF Len(results) = 2 THEN Second(outcome[results[2]]) ELSE {})

Join ==
  /\ stage = "second" /\ Len(results) = 2
  /\ stage' = "unwind" /\ result' = Returned
  /\ UNCHANGED <<open, deferred, watched, stopped, cancelled, copyVars, peerVars>>

\* The deferred functions run one by one, the last registered first; cancel
\* takes AfterFunc's registration back.
Unwind ==
  /\ stage = "unwind" /\ deferred # <<>>
  /\ LET f == Head(deferred) IN
       /\ open' = IF f = "stop" THEN Stops ELSE open \ Closes[f]
       /\ stopped' = (stopped \/ f = "stop")
       /\ watched' = (watched /\ f # "cancel")
  /\ deferred' = Tail(deferred)
  /\ UNCHANGED <<stage, result, cancelled, copyVars, peerVars>>

Return ==
  /\ stage = "unwind" /\ deferred = <<>>
  /\ stage' = "returned"
  /\ UNCHANGED <<open, deferred, watched, stopped, result, cancelled, copyVars, peerVars>>

-----------------------------------------------------------------------------
(* The copies                                                               *)

End(x, o) ==
  /\ copy' = [copy EXCEPT ![x] = "ended"]
  /\ outcome' = [outcome EXCEPT ![x] = o]
  /\ results' = Append(results, x)
  /\ UNCHANGED pipe

Step(x, at) == copy' = [copy EXCEPT ![x] = at] /\ UNCHANGED <<outcome, results>>

\* Every descriptor is registered with the poller: its close ends an
\* operation that is blocked on it.
Interrupted(fd) == fd \notin open

\* A lane that closes with requests unread resets its connection.
Read(x) ==
  /\ copy[x] = "read"
  /\ \/ Interrupted(ReadsFrom[x]) /\ End(x, "closed")
     \/ /\ ReadsFrom[x] \in open /\ pipe[Source[x]] > 0
        /\ pipe' = [pipe EXCEPT ![Source[x]] = @ - 1]
        /\ Step(x, "write")
     \/ /\ ReadsFrom[x] \in open /\ pipe[Source[x]] = 0 /\ Writer[x] \in gone
        /\ \/ End(x, "eof")
           \/ x = "down" /\ pipe["toLane"] > 0 /\ End(x, "failed")
  /\ UNCHANGED <<cancelled, mainVars, written, gone>>

Write(x) ==
  /\ copy[x] = "write"
  /\ \/ Interrupted(WritesTo[x]) /\ End(x, "closed")
     \/ WritesTo[x] \in open /\ Reader[x] \in gone /\ End(x, "failed")
     \/ /\ WritesTo[x] \in open /\ Reader[x] \notin gone
        /\ pipe[Target[x]] < Capacity
        /\ pipe' = [pipe EXCEPT ![Target[x]] = @ + 1]
        /\ Step(x, "read")
  /\ UNCHANGED <<cancelled, mainVars, written, gone>>

-----------------------------------------------------------------------------
(* External: native and the lane                                            *)

PeerWrites(x) ==
  /\ written[x] < MaxChunks /\ Writer[x] \notin gone
  /\ x = "down" => stage \in {"first", "second"}
  /\ pipe[Source[x]] < Capacity
  /\ pipe' = [pipe EXCEPT ![Source[x]] = @ + 1]
  /\ written' = [written EXCEPT ![x] = @ + 1]
  /\ UNCHANGED <<cancelled, mainVars, copyVars, gone>>

PeerReads(x) ==
  /\ pipe[Target[x]] > 0 /\ Reader[x] \notin gone
  /\ pipe' = [pipe EXCEPT ![Target[x]] = @ - 1]
  /\ UNCHANGED <<cancelled, mainVars, copyVars, written, gone>>

PeerGoes(end) ==
  /\ end \notin gone
  /\ IF end = "lane" THEN "lane" \in Events ELSE "native" \in Events
  /\ gone' = gone \cup {end}
  /\ UNCHANGED <<cancelled, mainVars, copyVars, pipe, written>>

Cancel ==
  /\ "cancel" \in Events /\ ~cancelled
  /\ cancelled' = TRUE
  /\ UNCHANGED <<mainVars, copyVars, peerVars>>

-----------------------------------------------------------------------------
Setup == Duplicate \/ Register \/ Dial \/ Start
Forward == Setup \/ First \/ Join \/ Unwind \/ Return
CopyStep(x) == Read(x) \/ Write(x)
Peers ==
  \/ \E x \in Copies : PeerWrites(x) \/ PeerReads(x)
  \/ \E end \in Ends : PeerGoes(end)

Next == Forward \/ CancelStops \/ (\E x \in Copies : CopyStep(x)) \/ Peers \/ Cancel

Spec == Init /\ [][Next]_vars

\* The process is scheduled; nothing is assumed of native and the lane.
FairSpec ==
  /\ Spec
  /\ WF_vars(Forward) /\ WF_vars(CancelStops)
  /\ \A x \in Copies : WF_vars(CopyStep(x))

-----------------------------------------------------------------------------
(* Properties                                                               *)

\* Every variable has its type.
TypeOK ==
  /\ stage \in {"input", "output", "dial", "start", "first", "second", "unwind", "returned"}
  /\ cancelled \in BOOLEAN /\ stopped \in BOOLEAN /\ watched \in BOOLEAN
  /\ deferred \in Seq(DOMAIN Closes) /\ Len(deferred) <= 5
  /\ open \subseteq Descriptors
  /\ copy \in [Copies -> {"none", "read", "write", "ended"}]
  /\ outcome \in [Copies -> {"none", "eof", "failed", "closed"}]
  /\ results \in Seq(Copies) /\ Len(results) <= 2
  /\ result \subseteq {"setup", "cancelled", "eof", "failed", "closed"}
  /\ pipe \in [Pipes -> 0 .. Capacity] /\ written \in [Copies -> 0 .. MaxChunks]
  /\ gone \subseteq Ends

\* A forwarder whose context lives returns the failure of either copy, in
\* whichever order they end, and never the error its own teardown caused.
OutcomeTrue ==
  stage = "returned" /\ copy["up"] # "none" /\ "cancelled" \notin result =>
    result = {"failed"} \cap {outcome[x] : x \in Copies}

\* ForwardLaneMCP takes exclusive ownership of its transports, "including on
\* setup failure" (lane_endpoint.go:147-148): at whichever step it fails, and
\* in whichever order its copies and its context end, what it returns with is
\* no open descriptor, no running copy and no stop that is yet to come.
NothingLeft ==
  stage = "returned" =>
    /\ open = {} /\ ~watched
    /\ \A x \in Copies : copy[x] \in {"none", "ended"}

StopIsDue ==
  \/ cancelled
  \/ \E x \in Copies : copy[x] = "ended"
  \/ gone = Ends

\* A context that ends, a copy that ends and peers that are gone end the
\* forwarder, also while native reads no answer and the lane no request.
Returns == StopIsDue ~> stage = "returned"
=============================================================================
