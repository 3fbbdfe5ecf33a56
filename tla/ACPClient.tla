----------------------------- MODULE ACPClient -----------------------------
(***************************************************************************)
(* The ACP transport between a lane and native Qwen, from                  *)
(* wrappers/qwen/acp.go: callers share one write gate, one reader claims   *)
(* replies and admits native's requests, a worker per request answers it,  *)
(* and all of them account for the bytes they retain.                      *)
(*                                                                         *)
(* Each action is one critical section of acpClient.mu or one channel or   *)
(* pipe operation. A call is named by its id, so no id is used twice. The  *)
(* pipes are bounded, and native, which is external, is taken at its       *)
(* worst: it reads nothing while it has something to write.                *)
(***************************************************************************)
EXTENDS Integers, Sequences, FiniteSets

CONSTANTS
  Calls,         \* the calls made on the client
  Requests,      \* the ids native gives its own requests
  Free,          \* the write gate is free
  Stranger,      \* a response id that was never used
  MaxPending,    \* maxACPPending
  MaxRetained,   \* maxACPRetained
  CallBytes, ReplyBytes, RequestBytes, \* size of a call, a reply, a request
  PipeSize,      \* frames a pipe holds
  MaxAsks,       \* requests an instance lets native make
  Events         \* the kinds of external events an instance explores

ASSUME ACPClientAssumption ==
  /\ Calls \cap Requests = {} /\ Free \notin Calls \cup Requests
  /\ Stranger \notin Calls
  /\ {MaxPending, MaxRetained, PipeSize, MaxAsks} \subseteq Nat
  /\ {CallBytes, ReplyBytes, RequestBytes} \subseteq Nat
  /\ Events \subseteq {"cancel", "refuse", "close", "invalid", "stray", "exit"}

VARIABLES
  \* the callers: request, begin, send, writeBytes
  at,            \* where each call is
  result,        \* what it returned
  cancelled,     \* calls whose context is cancelled
  \* acpClient
  pending,       \* absent, live, or abandoned: the entry is nil
  reply,         \* the reply channel of each call
  gate,          \* Free, or the call or request that holds writeGate
  retained,
  failed,        \* "no", or the first failure
  requests,      \* native's requests in progress
  worker,        \* where the worker of each is
  \* the reader
  reader,        \* scan, observe, failing, stray, joining, done
  claimed,       \* the call it observes, Stranger for none
  observed,      \* history: the calls whose reply it claimed
  \* external: the pipes and native
  input, output, \* c.input leads to native, c.output from it
  alive, owed, writes, asks, strayed

callVars   == <<at, result, cancelled>>
readVars   == <<reader, claimed, observed>>
workVars   == <<requests, worker>>
nativeVars == <<alive, owed, writes, asks, strayed>>
vars == <<callVars, pending, reply, gate, retained, failed, workVars, readVars,
          input, output, nativeVars>>

Init ==
  /\ at = [c \in Calls |-> "idle"] /\ result = [c \in Calls |-> "none"]
  /\ cancelled = {}
  /\ pending = [c \in Calls |-> "absent"] /\ reply = [c \in Calls |-> <<>>]
  /\ gate = Free /\ retained = 0 /\ failed = "no"
  /\ requests = {} /\ worker = [q \in Requests |-> "none"]
  /\ reader = "scan" /\ claimed = Stranger /\ observed = {}
  /\ input = <<>> /\ output = <<>>
  /\ alive = TRUE /\ owed = {} /\ writes = <<>> /\ asks = 0 /\ strayed = FALSE

Fits(n) == n <= MaxRetained - retained

\* Mutant: fail leaves the pipes open.
SeveredByExit == ~alive

\* A write that is under way cannot go on: fail closed the pipe, or native did.
Severed == failed # "no" \/ ~alive

\* fail: the first failure retires every live call with it.
Fail(cause) ==
  IF failed = "no"
    THEN /\ failed' = cause
         /\ reply' = [c \in Calls |-> IF pending[c] = "live"
                                        THEN Append(reply[c], "failure") ELSE reply[c]]
         /\ pending' = [c \in Calls |-> "absent"]
    ELSE UNCHANGED <<failed, reply, pending>>

-----------------------------------------------------------------------------
(* The callers                                                              *)

Return(c, with) ==
  /\ at' = [at EXCEPT ![c] = "returned"]
  /\ result' = [result EXCEPT ![c] = with]

Move(c, to) == at' = [at EXCEPT ![c] = to] /\ UNCHANGED result

Known == {c \in Calls : pending[c] # "absent"}

Begin(c) ==
  /\ at[c] = "idle"
  /\ \/ c \in cancelled /\ Return(c, "cancelled") /\ UNCHANGED pending
     \/ /\ c \notin cancelled
        /\ failed # "no" \/ Cardinality(Known) >= MaxPending
        /\ Return(c, "error") /\ UNCHANGED pending
     \/ /\ c \notin cancelled /\ failed = "no" /\ Cardinality(Known) < MaxPending
        /\ pending' = [pending EXCEPT ![c] = "live"]
        /\ Move(c, "reserve")
  /\ UNCHANGED <<cancelled, reply, gate, retained, failed, workVars, readVars,
                 input, output, nativeVars>>

\* A send that ends without the frame on the pipe still has to drop its entry.
Leave(c, with) ==
  /\ at' = [at EXCEPT ![c] = "drop"]
  /\ result' = [result EXCEPT ![c] = with]

Reserve(c) ==
  /\ at[c] = "reserve"
  /\ IF failed = "no" /\ Fits(CallBytes)
       THEN Move(c, "gate") /\ retained' = retained + CallBytes
       ELSE Leave(c, "error") /\ UNCHANGED retained
  /\ UNCHANGED <<cancelled, pending, reply, gate, failed, workVars, readVars,
                 input, output, nativeVars>>

AcquireGate(c) ==
  /\ at[c] = "gate" /\ gate = Free /\ c \notin cancelled /\ failed = "no"
  /\ gate' = c
  /\ Move(c, "submit")
  /\ UNCHANGED <<cancelled, pending, reply, retained, failed, workVars, readVars,
                 input, output, nativeVars>>

\* Mutant: a call that never got the gate keeps its reservation.
ReleasedAtGate == 0

Released == CallBytes

GateRefused(c) ==
  /\ at[c] = "gate" /\ (c \in cancelled \/ failed # "no")
  /\ retained' = retained - Released
  /\ Leave(c, IF c \in cancelled THEN "cancelled" ELSE "error")
  /\ UNCHANGED <<cancelled, pending, reply, gate, failed, workVars, readVars,
                 input, output, nativeVars>>

\* The submit callback may refuse.
Submit(c) ==
  /\ at[c] = "submit"
  /\ \/ Move(c, "writing") /\ UNCHANGED <<gate, retained>>
     \/ /\ "refuse" \in Events
        /\ Leave(c, "error")
        /\ gate' = Free /\ retained' = retained - CallBytes
  /\ UNCHANGED <<cancelled, pending, reply, failed, workVars, readVars, input,
                 output, nativeVars>>

Write(c) ==
  /\ at[c] = "writing" /\ alive /\ Len(input) < PipeSize
  /\ input' = Append(input, <<"call", c>>)
  /\ Move(c, "written")
  /\ UNCHANGED <<cancelled, pending, reply, gate, retained, failed, workVars,
                 readVars, output, nativeVars>>

WriteReturns(c) ==
  /\ at[c] = "written"
  /\ Move(c, "wait")
  /\ gate' = Free /\ retained' = retained - CallBytes
  /\ UNCHANGED <<cancelled, pending, reply, failed, workVars, readVars, input,
                 output, nativeVars>>

\* A write that is cut off by its context, by a failure or by native's exit
\* retires the transport and is joined; it may have been complete.
WriteCut(c) ==
  /\ at[c] \in {"writing", "written"}
  /\ \/ c \in cancelled \/ (at[c] = "written" /\ failed # "no")
     \/ at[c] = "writing" /\ Severed
  /\ Fail("write")
  /\ Leave(c, IF c \in cancelled THEN "cancelled" ELSE "error")
  /\ gate' = Free /\ retained' = retained - CallBytes
  /\ UNCHANGED <<cancelled, workVars, readVars, input, output, nativeVars>>

Drop(c) ==
  /\ at[c] = "drop"
  /\ pending' = [pending EXCEPT ![c] = "absent"]
  /\ at' = [at EXCEPT ![c] = "returned"]
  /\ UNCHANGED <<result, cancelled, reply, gate, retained, failed, workVars,
                 readVars, input, output, nativeVars>>

ReplySize(kind) == IF kind = "reply" THEN ReplyBytes ELSE 0

Take(c) ==
  /\ at[c] \in {"wait", "claimed"} /\ reply[c] # <<>>
  /\ retained' = retained - ReplySize(Head(reply[c]))
  /\ reply' = [reply EXCEPT ![c] = Tail(@)]
  /\ Return(c, IF Head(reply[c]) = "reply" THEN "reply" ELSE "error")
  /\ UNCHANGED <<cancelled, pending, gate, failed, workVars, readVars, input,
                 output, nativeVars>>

\* Mutant: an abandoned call is forgotten.
Forgotten(c) == [pending EXCEPT ![c] = "absent"]

Abandoned(c) == [pending EXCEPT ![c] = "abandoned"]

\* Mutant: cancellation wins over a reply the reader has claimed.
UnclaimedAlways(c) == TRUE

Unclaimed(c) == pending[c] # "absent"

\* The context ends while the call waits: the reader's claim wins over it.
Abandon(c) ==
  /\ at[c] = "wait" /\ c \in cancelled
  /\ IF Unclaimed(c)
       THEN pending' = Abandoned(c) /\ Return(c, "cancelled")
       ELSE UNCHANGED pending /\ Move(c, "claimed")
  /\ UNCHANGED <<cancelled, reply, gate, retained, failed, workVars, readVars,
                 input, output, nativeVars>>

Cancel(c) ==
  /\ "cancel" \in Events
  /\ c \notin cancelled /\ at[c] # "returned"
  /\ cancelled' = cancelled \cup {c}
  /\ UNCHANGED <<at, result, pending, reply, gate, retained, failed, workVars,
                 readVars, input, output, nativeVars>>

\* close, Wrapper.lost and the lifetime's end.
Close ==
  /\ "close" \in Events /\ failed = "no"
  /\ Fail("close")
  /\ UNCHANGED <<callVars, gate, retained, workVars, readVars, input, output,
                 nativeVars>>

-----------------------------------------------------------------------------
(* The workers that answer native's requests: answer, writeBytes            *)

WorkerAt(q, to) == worker' = [worker EXCEPT ![q] = to] /\ UNCHANGED requests

WorkerGate(q) ==
  /\ worker[q] = "gate"
  /\ IF failed # "no"
       THEN WorkerAt(q, "retire") /\ UNCHANGED gate
       ELSE gate = Free /\ gate' = q /\ WorkerAt(q, "writing")
  /\ UNCHANGED <<callVars, pending, reply, retained, failed, readVars, input,
                 output, nativeVars>>

WorkerWrite(q) ==
  /\ worker[q] = "writing" /\ alive /\ Len(input) < PipeSize
  /\ input' = Append(input, <<"answer", q>>)
  /\ WorkerAt(q, "written")
  /\ UNCHANGED <<callVars, pending, reply, gate, retained, failed, readVars,
                 output, nativeVars>>

WorkerWritten(q) ==
  /\ worker[q] = "written"
  /\ gate' = Free
  /\ WorkerAt(q, "retire")
  /\ UNCHANGED <<callVars, pending, reply, retained, failed, readVars, input,
                 output, nativeVars>>

WorkerCut(q) ==
  /\ worker[q] = "writing" /\ Severed
  /\ Fail("write")
  /\ gate' = Free
  /\ WorkerAt(q, "retire")
  /\ UNCHANGED <<callVars, retained, readVars, input, output, nativeVars>>

Retire(q) ==
  /\ worker[q] = "retire"
  /\ requests' = requests \ {q}
  /\ worker' = [worker EXCEPT ![q] = "none"]
  /\ retained' = retained - RequestBytes
  /\ UNCHANGED <<callVars, pending, reply, gate, failed, readVars, input,
                 output, nativeVars>>

-----------------------------------------------------------------------------
(* The reader                                                               *)

\* The loop's test of the context comes before each frame, so the frame
\* after a failure may still be handled.
NextFrame == IF failed = "no" THEN "scan" ELSE "failing"

\* Mutant: the reader writes the answers itself.
ReadyAfterAnswers == reader = "scan" /\ requests = {}

Ready == reader = "scan"

\* Mutant: a claimed call stays in the table.
StillPending(c) == pending

Claimed(c) == [pending EXCEPT ![c] = "absent"]

ReadReply(c) ==
  /\ Ready /\ output # <<>> /\ Head(output) = <<"reply", c>>
  /\ output' = Tail(output)
  /\ IF c \notin Known
       THEN reader' = "stray" /\ UNCHANGED <<pending, reply, retained, claimed>>
       ELSE /\ pending' = Claimed(c)
            /\ \/ /\ pending[c] = "abandoned"
                  /\ reader' = NextFrame /\ UNCHANGED <<reply, retained, claimed>>
               \/ /\ pending[c] = "live" /\ ~Fits(ReplyBytes)
                  /\ reply' = [reply EXCEPT ![c] = Append(@, "capacity")]
                  /\ reader' = "failing" /\ UNCHANGED <<retained, claimed>>
               \/ /\ pending[c] = "live" /\ Fits(ReplyBytes)
                  /\ retained' = retained + ReplyBytes
                  /\ claimed' = c
                  /\ reader' = "observe" /\ UNCHANGED reply
  /\ UNCHANGED <<callVars, gate, failed, workVars, observed, input, nativeVars>>

\* The observer runs, and may refuse the reply, before the caller has it.
Observe ==
  /\ reader = "observe"
  /\ observed' = observed \cup {claimed}
  /\ reply' = [reply EXCEPT ![claimed] = Append(@, "reply")]
  /\ claimed' = Stranger
  /\ reader' \in {NextFrame} \cup (IF "invalid" \in Events THEN {"failing"} ELSE {})
  /\ UNCHANGED <<callVars, pending, gate, retained, failed, workVars, input,
                 output, nativeVars>>

ReadRequest(q) ==
  /\ Ready /\ output # <<>> /\ Head(output) = <<"request", q>>
  /\ output' = Tail(output)
  /\ IF q \in requests \/ Cardinality(requests) >= MaxPending \/ ~Fits(RequestBytes)
       THEN reader' = "failing" /\ UNCHANGED <<workVars, retained>>
       ELSE /\ requests' = requests \cup {q}
            /\ worker' = [worker EXCEPT ![q] = "gate"]
            /\ retained' = retained + RequestBytes
            /\ reader' = NextFrame
  /\ UNCHANGED <<callVars, pending, reply, gate, failed, claimed, observed,
                 input, nativeVars>>

\* EOF, or a malformed frame.
ReadEnds ==
  /\ Ready
  /\ \/ failed # "no" \/ (~alive /\ output = <<>>)
     \/ "invalid" \in Events /\ output # <<>>
  /\ reader' = "failing"
  /\ UNCHANGED <<callVars, pending, reply, gate, retained, failed, workVars,
                 claimed, observed, input, output, nativeVars>>

ReaderFails ==
  /\ reader \in {"failing", "stray"}
  /\ Fail(reader)
  /\ reader' = "joining"
  /\ UNCHANGED <<callVars, gate, retained, workVars, claimed, observed, input,
                 output, nativeVars>>

Joined == \A q \in Requests : worker[q] = "none"

ReaderDone ==
  /\ reader = "joining" /\ Joined
  /\ reader' = "done"
  /\ UNCHANGED <<callVars, pending, reply, gate, retained, failed, workVars,
                 claimed, observed, input, output, nativeVars>>

-----------------------------------------------------------------------------
(* External: native Qwen                                                    *)

MayWrite == alive /\ writes = <<>>

NativeReads ==
  /\ MayWrite /\ input # <<>>
  /\ input' = Tail(input)
  /\ owed' = owed \cup ({Head(input)[2]} \cap Calls)
  /\ UNCHANGED <<callVars, pending, reply, gate, retained, failed, workVars,
                 readVars, output, alive, writes, asks, strayed>>

NativeWants(frame) ==
  /\ MayWrite
  /\ writes' = <<frame>>
  /\ UNCHANGED <<callVars, pending, reply, gate, retained, failed, workVars,
                 readVars, input, output, alive>>

NativeAnswers(c) ==
  /\ c \in owed /\ NativeWants(<<"reply", c>>)
  /\ owed' = owed \ {c} /\ UNCHANGED <<asks, strayed>>

NativeAsks(q) ==
  /\ asks < MaxAsks /\ NativeWants(<<"request", q>>)
  /\ asks' = asks + 1 /\ UNCHANGED <<owed, strayed>>

NativeStrays ==
  /\ "stray" \in Events /\ ~strayed /\ NativeWants(<<"reply", Stranger>>)
  /\ strayed' = TRUE /\ UNCHANGED <<owed, asks>>

NativeWrites ==
  /\ alive /\ writes # <<>> /\ Len(output) < PipeSize
  /\ output' = Append(output, Head(writes)) /\ writes' = <<>>
  /\ UNCHANGED <<callVars, pending, reply, gate, retained, failed, workVars,
                 readVars, input, alive, owed, asks, strayed>>

NativeExits ==
  /\ "exit" \in Events /\ alive
  /\ alive' = FALSE
  /\ UNCHANGED <<callVars, pending, reply, gate, retained, failed, workVars,
                 readVars, input, output, owed, writes, asks, strayed>>

-----------------------------------------------------------------------------
Send(c) ==
  Reserve(c) \/ GateRefused(c) \/ Submit(c) \/ Write(c) \/ WriteReturns(c)
    \/ WriteCut(c) \/ Drop(c)
Await(c) == Take(c) \/ Abandon(c)
Worker(q) ==
  WorkerGate(q) \/ WorkerWrite(q) \/ WorkerWritten(q) \/ WorkerCut(q) \/ Retire(q)
Reader ==
  \/ \E c \in Calls \cup {Stranger} : ReadReply(c)
  \/ \E q \in Requests : ReadRequest(q)
  \/ Observe \/ ReadEnds \/ ReaderFails \/ ReaderDone
Native ==
  \/ NativeReads \/ NativeWrites
  \/ \E c \in Calls : NativeAnswers(c)

Next ==
  \/ \E c \in Calls : Begin(c) \/ AcquireGate(c) \/ Send(c) \/ Await(c) \/ Cancel(c)
  \/ \E q \in Requests : Worker(q) \/ NativeAsks(q)
  \/ Reader \/ Close \/ Native \/ NativeStrays \/ NativeExits

Spec == Init /\ [][Next]_vars

(***************************************************************************)
(* The runtime schedules every goroutine; native goes on reading, writing  *)
(* and answering while it lives. No call is cancelled, and nothing is      *)
(* asked, strayed, closed or killed, by fairness.                          *)
(***************************************************************************)
Fairness ==
  /\ \A c \in Calls : WF_vars(Send(c)) /\ WF_vars(AcquireGate(c)) /\ WF_vars(Await(c))
  /\ \A q \in Requests : WF_vars(Worker(q))
  /\ WF_vars(Reader) /\ WF_vars(NativeReads) /\ WF_vars(NativeWrites)
  /\ \A c \in Calls : WF_vars(NativeAnswers(c))

FairSpec == Spec /\ Fairness

-----------------------------------------------------------------------------
(* Properties                                                               *)

\* Every variable has its type; a reply channel holds what it has room for.
TypeOK ==
  /\ at \in [Calls -> {"idle", "reserve", "gate", "submit", "writing", "written",
                       "drop", "wait", "claimed", "returned"}]
  /\ result \in [Calls -> {"none", "reply", "error", "cancelled"}]
  /\ cancelled \subseteq Calls /\ observed \subseteq Calls
  /\ pending \in [Calls -> {"absent", "live", "abandoned"}]
  /\ \A c \in Calls : reply[c] \in {<<>>, <<"reply">>, <<"capacity">>, <<"failure">>}
  /\ gate \in Calls \cup Requests \cup {Free}
  /\ retained \in Nat
  /\ failed \in {"no", "write", "close", "failing", "stray"}
  /\ requests \subseteq Requests
  /\ worker \in [Requests -> {"none", "gate", "writing", "written", "retire"}]
  /\ reader \in {"scan", "observe", "failing", "stray", "joining", "done"}
  /\ claimed \in Calls \cup {Stranger}
  /\ Len(input) <= PipeSize /\ Len(output) <= PipeSize
  /\ alive \in BOOLEAN /\ owed \subseteq Calls
  /\ Len(writes) <= 1 /\ asks \in 0 .. MaxAsks /\ strayed \in BOOLEAN

\* The account is exact, also after a failure: what is retained is what the
\* sends, the requests and the unread replies in progress hold (reserve,
\* release and the reader's own additions).
RetainedExact ==
  retained =
      CallBytes * Cardinality({c \in Calls :
                    at[c] \in {"gate", "submit", "writing", "written"}})
    + RequestBytes * Cardinality(requests)
    + ReplyBytes * Cardinality({c \in Calls : reply[c] = <<"reply">> \/ claimed = c})

\* The reader and fail never answer one call twice, so neither ever blocks on
\* a reply channel, which fail would do holding the lock.
OneReply ==
  \A c \in Calls :
    /\ Len(reply[c]) <= 1
    /\ claimed = c \/ pending[c] = "live" => reply[c] = <<>>

\* The late reply to an abandoned call never costs the lane its transport: only
\* a response to an id that was never used does.
LateReplyHarmless == failed = "stray" => strayed

\* A reply the reader claimed reaches its caller whenever its context ends,
\* unless the transport failed (request after ctx.Done).
ClaimWins ==
  \A c \in Calls : c \in observed /\ result[c] = "cancelled" => failed # "no"

\* Every call returns, and the reader never waits for a writer: with both
\* pipes full it still reads, so that native can come to read.
Returns == \A c \in Calls : at[c] = "reserve" ~> at[c] = "returned"

\* A failed transport is joined: its reader and its workers end.
Joins == failed # "no" ~> reader = "done"
=============================================================================
