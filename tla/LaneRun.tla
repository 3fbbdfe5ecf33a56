------------------------------- MODULE LaneRun -------------------------------
(***************************************************************************)
(* One managed Qwen lane executing Runs: wrappers/qwen/run.go and          *)
(* delivery.go, with the Run lifecycle part of qwen.go.                    *)
(*                                                                         *)
(* Goroutines that interleave here, every action being one critical        *)
(* section under Wrapper.mu or one channel operation:                      *)
(*   - the Run goroutine (executeRun, submitPrompt), control state pc;     *)
(*   - the request goroutine of the prompt (client.request), request;    *)
(*   - the interrupt goroutine of the prompt (startInterrupt), interrupt;  *)
(*   - the ACP reader (observe, receive, answer) and context.AfterFunc;    *)
(*   - SDK callbacks: Deliver, Interrupt, Close, and retireRun.            *)
(* The SDK, the daemon and native Qwen are external: they do whatever the  *)
(* code in the repository has to be prepared for.                          *)
(***************************************************************************)
EXTENDS Integers, Sequences, Functions

CONSTANTS
  Runs,          \* the Runs the SDK may start, each at most once
  Deliveries,    \* the deliveries the daemon may hand to the lane
  NoRun,         \* nil *Run
  Text,          \* a Run seed given as text (RunInput.Text)
  NoSeed,        \* the Run has not been started
  Idle,          \* no Deliver callback has been made for the delivery
  Size,          \* rendered size of each delivery, len(text)
  MaxStaged,     \* maxACPPending, the most owned inputs
  MaxBytes,      \* maxStagedBytes
  MaxDrain,      \* maxDrainMessages, the most messages of one pull
  MaxOutput,     \* maxACPFrame as the output bound, in chunks
  Separator,     \* len(outputSeparator)
  EarlyCapture,  \* may the SDK hand Deliver a Run whose Run callback has
                 \* not yet recorded it in Wrapper.run?
  Terminals,     \* the ways native ends a prompt in an instance
  Events         \* the kinds of external events an instance explores

ASSUME LaneRunAssumption ==
  /\ NoRun \notin Runs
  /\ Text \notin Deliveries /\ NoSeed \notin Deliveries \cup {Text}
  /\ Idle \notin Runs \cup {NoRun}
  /\ Size \in [Deliveries -> Nat]
  /\ MaxStaged \in Nat /\ MaxBytes \in Nat
  /\ MaxDrain \in Nat \ {0}
  /\ MaxOutput \in Nat /\ Separator \in Nat
  /\ EarlyCapture \in BOOLEAN
  /\ Terminals \subseteq {"end_turn", "cancelled", "max_tokens", "invalid"}
  /\ Events \subseteq {"interrupt", "context", "close", "loss", "refusal",
                      "invalid", "output"}

VARIABLES
  \* The SDK and the daemon
  current,       \* the Run that occupies the shared Run slot
  seed,          \* the input each Run was started with
  interrupted,   \* the Runs for which Run.Interrupted() is true
  calls,         \* Runs whose Interrupt callback is still to be made
  ctxDone,       \* the Run's operation context is cancelled
  ended,         \* ended Runs whose retireRun goroutine has not run
  captured,      \* the Run a Deliver callback was made with
  verdict,       \* what Deliver answered
  \* Wrapper, under Wrapper.mu
  run, refused, staged, stagedBytes, closing,
  active,        \* Wrapper.active is t (rather than nil)
  t,             \* the nativePrompt in progress, NoPrompt when there is none
  serial,        \* prompts created so far, which names them
  \* its goroutines
  request,       \* client.request: how far it is
  written,       \* what it sent on `written`
  reply,         \* what it sends on `completed`
  interrupt,     \* t.interrupt and its goroutine
  \* the Run goroutine: executeRun and submitPrompt
  pc, continuation, batch, output, reason, err,
  failed,        \* the ACP transport has failed and Wrapper.ctx is cancelled
  \* native Qwen
  nat,           \* its lane prompt: "none", "running", or "ended" with the
                 \* terminal frame not yet read by the lane
  natPrompt,     \* the serial of that prompt
  natStop,       \* the stop reason of the unread terminal
  natCancel,     \* the prompt an unprocessed cancel request was sent for, 0 if none
  \* history
  accepted,      \* deliveries admitted into each Run, in order
  handed,        \* those given to native for it, in order
  received,      \* Runs whose seed prompt reached native in full
  receipt,       \* the receipt reported for each Run's seed delivery
  outcome        \* the Run's TurnResult outcome, "unavailable" for an error

sdkVars    == <<current, seed, interrupted, calls, ctxDone, ended>>
daemonVars == <<captured, verdict>>
inputVars  == <<refused, staged, stagedBytes>>
reqVars    == <<request, written, reply>>
promptVars == <<active, t, serial, reqVars, interrupt>>
goVars     == <<pc, continuation, batch, output, reason, err>>
natVars    == <<nat, natPrompt, natStop, natCancel>>
histVars   == <<accepted, handed, received, receipt, outcome>>
vars == <<sdkVars, daemonVars, run, inputVars, closing, promptVars, goVars,
          failed, natVars, histVars>>

Outcomes == {"completed", "interrupted", "failed", "unavailable"}
StopReasons == {"end_turn", "cancelled", "max_tokens"}
\* The failures that may come at any moment of an instance.
MayFail == failed \/ "loss" \in Events

PromptType ==
  [run : Runs \cup {NoRun}, attempted : BOOLEAN, submitted : BOOLEAN,
   cancelled : BOOLEAN,   \* t.cancel() was called before submission
   terminal : BOOLEAN, failure : BOOLEAN,
   stopReason : StopReasons \cup {"none"}, output : Int]

NewPrompt(r, prior) ==
  [run |-> r, attempted |-> FALSE, submitted |-> FALSE, cancelled |-> FALSE,
   terminal |-> FALSE, failure |-> FALSE, stopReason |-> "none",
   output |-> prior]

NoPrompt == NewPrompt(NoRun, 0)

Bytes(s) == SumFunction([i \in DOMAIN s |-> Size[s[i]]])
AtMost(limit, n) == IF limit < n THEN limit ELSE n

Init ==
  /\ current = NoRun
  /\ seed = [r \in Runs |-> NoSeed]
  /\ interrupted = {} /\ calls = {} /\ ended = {}
  /\ ctxDone = FALSE
  /\ captured = [d \in Deliveries |-> Idle]
  /\ verdict = [d \in Deliveries |-> "none"]
  /\ run = NoRun /\ refused = NoRun
  /\ staged = <<>> /\ stagedBytes = 0
  /\ closing = FALSE
  /\ active = FALSE /\ t = NoPrompt /\ serial = 0
  /\ request = "none" /\ written = "none" /\ reply = "none"
  /\ interrupt = "none"
  /\ pc = "idle" /\ continuation = FALSE /\ batch = <<>>
  /\ output = 0 /\ reason = "none" /\ err = "none"
  /\ failed = FALSE
  /\ nat = "none" /\ natPrompt = 0 /\ natStop = "none" /\ natCancel = 0
  /\ accepted = [r \in Runs |-> <<>>]
  /\ handed = [r \in Runs |-> <<>>]
  /\ received = {}
  /\ receipt = [r \in Runs |-> "none"]
  /\ outcome = [r \in Runs |-> "none"]

-----------------------------------------------------------------------------
(* External: the SDK's Run slot, and the daemon that starts a managed Run   *)
(* from a delivery it retained after NotRunning.                            *)

Seeds == {Text} \cup {d \in Deliveries : verdict[d] = "notRunning"
                                         /\ \A r \in Runs : seed[r] # d}

StartRun(r, s) ==
  /\ pc = "idle" /\ current = NoRun
  /\ seed[r] = NoSeed
  /\ current' = r
  /\ seed' = [seed EXCEPT ![r] = s]
  /\ pc' = "enter"
  /\ UNCHANGED <<interrupted, calls, ctxDone, ended, daemonVars, run, inputVars,
                 closing, promptVars, continuation, batch, output, reason, err,
                 failed, natVars, histVars>>

\* The SDK records the interrupt before it makes the callback.
RequestInterrupt ==
  /\ "interrupt" \in Events
  /\ current # NoRun /\ pc # "return"
  /\ current \notin interrupted
  /\ interrupted' = interrupted \cup {current}
  /\ calls' = calls \cup {current}
  /\ UNCHANGED <<current, seed, ctxDone, ended, daemonVars, run, inputVars,
                 closing, promptVars, goVars, failed, natVars, histVars>>

CancelContext ==
  /\ "context" \in Events
  /\ current # NoRun /\ ~ctxDone
  /\ ctxDone' = TRUE
  /\ UNCHANGED <<current, seed, interrupted, calls, ended, daemonVars, run,
                 inputVars, closing, promptVars, goVars, failed, natVars,
                 histVars>>

\* The SDK captures its current Run, or none, for a Deliver callback.
Capture(d) ==
  /\ captured[d] = Idle
  /\ captured' = [captured EXCEPT ![d] =
                    IF pc = "enter" /\ ~EarlyCapture THEN NoRun ELSE current]
  /\ UNCHANGED <<sdkVars, verdict, run, inputVars, closing, promptVars, goVars,
                 failed, natVars, histVars>>

\* The local variables of executeRun.
ResetLocals ==
  /\ continuation' = FALSE /\ batch' = <<>> /\ output' = 0
  /\ reason' = "none" /\ err' = "none"

ReturnRun ==
  /\ pc = "return"
  /\ pc' = "idle"
  /\ current' = NoRun
  /\ ended' = ended \cup {current}
  /\ ctxDone' = FALSE
  /\ ResetLocals
  /\ UNCHANGED <<seed, interrupted, calls, daemonVars, run, inputVars, closing,
                 promptVars, failed, natVars, histVars>>

-----------------------------------------------------------------------------
(* The Run goroutine                                                        *)

\* Run: records the Run and starts retireRun(run).
Enter ==
  /\ pc = "enter"
  /\ run' = current
  /\ pc' = "begin"
  /\ UNCHANGED <<sdkVars, daemonVars, inputVars, closing, promptVars,
                 continuation, batch, output, reason, err, failed, natVars,
                 histVars>>

Unavailable ==
  /\ outcome' = [outcome EXCEPT ![current] = "unavailable"]
  /\ pc' = "return"

\* executeRun up to its loop: a cancelled context, or input that does not
\* render (reported as rejected for a delivery), ends the Run at once.
Begin ==
  /\ pc = "begin"
  /\ \/ ctxDone /\ Unavailable /\ UNCHANGED receipt
     \/ /\ "invalid" \in Events
        /\ ~ctxDone /\ Unavailable
        /\ receipt' = IF seed[current] = Text THEN receipt
                      ELSE [receipt EXCEPT ![current] = "rejected"]
     \/ ~ctxDone /\ pc' = "submit" /\ UNCHANGED <<outcome, receipt>>
  /\ UNCHANGED <<sdkVars, daemonVars, run, inputVars, closing, promptVars,
                 continuation, batch, output, reason, err, failed, natVars,
                 accepted, handed, received>>

\* Mutant: the separator is not counted against the output bound.
SubmitRefusedBusyOnly == closing \/ active

\* submitPrompt returns before it creates a prompt: the lane is not idle, or
\* the joined answer could not stay within the output bound.
SubmitRefused ==
  closing \/ active \/ (output > 0 /\ Separator > MaxOutput - output)

Submit ==
  /\ pc = "submit"
  /\ IF SubmitRefused
       THEN err' = "error" /\ pc' = "settle" /\ UNCHANGED promptVars
       ELSE /\ t' = NewPrompt(current, IF output > 0 THEN output + Separator ELSE 0)
            /\ active' = TRUE
            /\ request' = "sending" /\ written' = "none" /\ reply' = "none"
            /\ interrupt' = "none"
            /\ serial' = serial + 1
            /\ err' = "none" /\ pc' = "write"
  /\ UNCHANGED <<sdkVars, daemonVars, run, inputVars, closing, continuation,
                 batch, output, reason, failed, natVars, histVars>>

\* writeErr := <-written; close(t.submitted)
Written ==
  /\ pc = "write" /\ written # "none"
  /\ t' = [t EXCEPT !.submitted = TRUE]
  /\ pc' = IF written = "ok" THEN "admit" ELSE "report"
  /\ UNCHANGED <<sdkVars, daemonVars, run, inputVars, closing, active, serial,
                 reqVars, interrupt, continuation, batch, output, reason, err,
                 failed, natVars, histVars>>

\* startInterrupt on the active prompt: a no-op for another Run's prompt,
\* after the terminal, or when an interrupt already exists. (t.retiring is
\* only ever true once t.terminal is.)
StartInterrupt(r) ==
  IF active /\ t.run = r /\ ~t.terminal /\ interrupt = "none"
    THEN "waiting" ELSE interrupt

\* Mutant: an interrupt recorded before admission is left to its callback.
AdmitWithoutRecheck ==
  /\ pc = "admit"
  /\ pc' = "report"
  /\ UNCHANGED <<sdkVars, daemonVars, run, inputVars, closing, promptVars,
                 continuation, batch, output, reason, err, failed, natVars,
                 histVars>>

\* run.Admitted(), then an interrupt recorded before admission is acted on.
Admit ==
  /\ pc = "admit"
  /\ interrupt' = IF current \in interrupted THEN StartInterrupt(current)
                  ELSE interrupt
  /\ pc' = "report"
  /\ UNCHANGED <<sdkVars, daemonVars, run, inputVars, closing, active, t,
                 serial, reqVars, continuation, batch, output, reason, err,
                 failed, natVars, histVars>>

\* Mutant: every failed write is reported as a refusal.
SeedReceiptBinary == IF written = "ok" THEN "written" ELSE "refused"

SeedReceipt ==
  IF written = "ok" THEN "written"
  ELSE IF t.attempted THEN "uncertain"
  ELSE "refused"             \* rejected, native_submission_refused

\* The receipt of the Run's seed delivery; a report the bus did not take is
\* the loss of the lane.
Report ==
  /\ pc = "report"
  /\ pc' = "await"
  /\ IF seed[current] = Text \/ continuation
       THEN UNCHANGED <<receipt, failed, err>>
       ELSE /\ receipt' = [receipt EXCEPT ![current] = SeedReceipt]
            /\ \/ UNCHANGED <<failed, err>>
               \/ MayFail /\ failed' = TRUE /\ err' = "error"
  /\ UNCHANGED <<sdkVars, daemonVars, run, inputVars, closing, promptVars,
                 continuation, batch, output, reason, natVars, accepted, handed,
                 received, outcome>>

\* nativeErr := <-completed; the terminal is sealed whatever the reader saw.
Await ==
  /\ pc = "await" /\ request = "done"
  /\ failed' = (failed \/ (reply = "error" /\ t.attempted))
  /\ t' = [t EXCEPT !.terminal = TRUE]
  /\ pc' = "join"
  /\ UNCHANGED <<sdkVars, daemonVars, run, inputVars, closing, active, serial,
                 reqVars, interrupt, continuation, batch, output, reason, err,
                 natVars, histVars>>

\* Mutant: the prompt retires without waiting for its interrupt.
InterruptNotJoined == TRUE

InterruptJoined == interrupt \in {"none", "done", "error"}

\* Joins the interrupt, then retires the prompt (its last two critical
\* sections: readers refuse alike in both).
Leave ==
  /\ pc = "join" /\ InterruptJoined
  /\ active' = FALSE /\ t' = NoPrompt
  /\ request' = "none" /\ written' = "none" /\ reply' = "none"
  /\ interrupt' = "none"
  /\ pc' = "settle"
  /\ IF written = "interrupted"
       THEN err' = "interrupted" /\ UNCHANGED <<output, reason>>
       ELSE /\ err' = IF written = "error" \/ reply = "error" \/ t.failure
                         \/ interrupt = "error"
                        THEN "error" ELSE err
            /\ output' = t.output /\ reason' = t.stopReason
  /\ UNCHANGED <<sdkVars, daemonVars, run, inputVars, closing, serial,
                 continuation, batch, failed, natVars, histVars>>

\* Mutant: a pull takes the newest owned inputs.
TakeNewest(limit) ==
  SubSeq(staged, Len(staged) - AtMost(limit, Len(staged)) + 1, Len(staged))

\* takeStagedLocked
Take(limit) == SubSeq(staged, 1, AtMost(limit, Len(staged)))
Keep(limit) == SubSeq(staged, AtMost(limit, Len(staged)) + 1, Len(staged))

\* Mutant: pulled input stays counted.
BytesWithPulled(limit) == stagedBytes

BytesWithoutPulled(limit) == stagedBytes - Bytes(Take(limit))

\* Mutant: a continuation is capped like a pull.
NextBatchCapped ==
  IF err = "none" /\ reason = "end_turn" /\ current \notin interrupted /\ ~closing
    THEN Take(MaxDrain) ELSE <<>>

\* The owned input a clean end continues with.
NextBatch ==
  IF err = "none" /\ reason = "end_turn" /\ current \notin interrupted /\ ~closing
    THEN Take(Len(staged)) ELSE <<>>

\* executeRun after a clean end with owned input: it is taken for the next
\* prompt of the Run.
Continue ==
  /\ pc = "settle" /\ NextBatch # <<>>
  /\ batch' = NextBatch
  /\ staged' = <<>> /\ stagedBytes' = 0
  /\ continuation' = TRUE /\ pc' = "submit"
  /\ UNCHANGED <<sdkVars, daemonVars, run, refused, closing, promptVars, output,
                 reason, err, failed, natVars, histVars>>

Outcome ==
  IF err = "interrupted" THEN "interrupted"
  ELSE IF err = "error" THEN "unavailable"
  ELSE IF reason = "cancelled" THEN "interrupted"
  ELSE IF reason = "end_turn" THEN "completed" ELSE "failed"

\* executeRun otherwise: the Run ends and its owned input is retired with it.
EndRun ==
  /\ pc = "settle" /\ NextBatch = <<>>
  /\ outcome' = [outcome EXCEPT ![current] = Outcome]
  /\ staged' = <<>> /\ stagedBytes' = 0
  /\ batch' = <<>> /\ pc' = "return"
  /\ UNCHANGED <<sdkVars, daemonVars, run, refused, closing, promptVars,
                 continuation, output, reason, err, failed, natVars, accepted,
                 handed, received, receipt>>

-----------------------------------------------------------------------------
(* The request goroutine: client.request for session/prompt               *)

\* The request ends before it was attempted.
Unsubmitted(cause) == request' = "done" /\ written' = cause /\ reply' = "error"

\* begin or send refuse before the submit callback: the transport failed, the
\* prompt's context ended, or a frame, capacity or memory bound was reached.
SendRefused ==
  /\ request = "sending"
  /\ failed \/ t.cancelled \/ "refusal" \in Events
  /\ Unsubmitted("error")
  /\ UNCHANGED <<sdkVars, daemonVars, run, inputVars, closing, active, t,
                 serial, interrupt, goVars, failed, natVars, histVars>>

AcquireGate ==
  /\ request = "sending" /\ ~failed /\ ~t.cancelled
  /\ request' = "gated"
  /\ UNCHANGED <<sdkVars, daemonVars, run, inputVars, closing, active, t,
                 serial, written, reply, interrupt, goVars, failed, natVars,
                 histVars>>

\* The submit callback, with the write gate held. A failure may have cancelled
\* the prompt's context by now, or only failed the transport.
SubmitCallback ==
  /\ request = "gated"
  /\ \/ /\ closing \/ ~active \/ t.cancelled \/ failed
        /\ Unsubmitted("error") /\ UNCHANGED <<t, batch, handed>>
     \/ /\ ~closing /\ active /\ ~t.cancelled
        /\ continuation /\ current \in interrupted
        /\ Unsubmitted("interrupted") /\ UNCHANGED <<t, batch, handed>>
     \/ /\ ~closing /\ active /\ ~t.cancelled
        /\ ~continuation \/ current \notin interrupted
        /\ request' = "writing"
        /\ t' = [t EXCEPT !.attempted = TRUE]
        /\ handed' = [handed EXCEPT ![t.run] = @ \o batch]
        /\ batch' = <<>>
        /\ UNCHANGED <<written, reply>>
  /\ UNCHANGED <<sdkVars, daemonVars, run, inputVars, closing, active, serial,
                 interrupt, pc, continuation, output, reason, err, failed,
                 natVars, accepted, received, receipt, outcome>>

\* writeBytes returns: the whole frame was written, which the model takes as read by
\* native, or the transport fails.
WriteReturns ==
  /\ request = "writing"
  /\ \/ /\ natPrompt = serial
        /\ request' = "replying" /\ written' = "ok"
        /\ UNCHANGED <<reply, failed>>
     \/ /\ MayFail
        /\ request' = "done" /\ written' = "error" /\ reply' = "error"
        /\ failed' = TRUE
  /\ UNCHANGED <<sdkVars, daemonVars, run, inputVars, closing, active, t,
                 serial, interrupt, goVars, natVars, histVars>>

\* request returns the reader's reply, or the failure that retired it.
RequestReturns ==
  /\ request = "replying"
  /\ reply # "none" \/ failed
  /\ request' = "done"
  /\ reply' = IF reply = "none" THEN "error" ELSE reply
  /\ UNCHANGED <<sdkVars, daemonVars, run, inputVars, closing, active, t,
                 serial, written, interrupt, goVars, failed, natVars, histVars>>

-----------------------------------------------------------------------------
(* The interrupt goroutine                                                  *)

\* Mutant: with nothing to cancel the interrupt never settles.
InterruptProceedsIfWritten ==
  /\ interrupt = "waiting" /\ t.submitted
  /\ written = "ok" /\ ~t.terminal
  /\ interrupt' = "calling"
  /\ UNCHANGED <<sdkVars, daemonVars, run, inputVars, closing, active, t,
                 serial, reqVars, goVars, failed, natVars, histVars>>

\* <-t.submitted: nothing to cancel if the write failed or the prompt ended.
InterruptProceeds ==
  /\ interrupt = "waiting" /\ t.submitted
  /\ interrupt' = IF written # "ok" \/ t.terminal THEN "done" ELSE "calling"
  /\ UNCHANGED <<sdkVars, daemonVars, run, inputVars, closing, active, t,
                 serial, reqVars, goVars, failed, natVars, histVars>>

\* client.call(craft/cancelPendingPrompt) is written to native.
CancelWritten ==
  /\ interrupt = "calling" /\ ~failed
  /\ interrupt' = "sent"
  /\ natCancel' = serial
  /\ UNCHANGED <<sdkVars, daemonVars, run, inputVars, closing, active, t,
                 serial, reqVars, goVars, failed, nat, natPrompt, natStop,
                 histVars>>

\* A reply the reader claimed wins over a later failure.
CancelAnswered ==
  /\ interrupt = "answered"
  /\ interrupt' = "done"
  /\ UNCHANGED <<sdkVars, daemonVars, run, inputVars, closing, active, t,
                 serial, reqVars, goVars, failed, natVars, histVars>>

\* The call fails (transport, capacity, or a native error answer): p.lost.
CancelFails ==
  /\ MayFail
  /\ interrupt \in {"calling", "sent", "answered"}
  /\ interrupt' = "error"
  /\ failed' = TRUE
  /\ UNCHANGED <<sdkVars, daemonVars, run, inputVars, closing, active, t,
                 serial, reqVars, goVars, natVars, histVars>>

-----------------------------------------------------------------------------
(* SDK callbacks and other goroutines of the lane                           *)

\* Interrupt(run), at any time after the SDK recorded the request.
Interrupt(r) ==
  /\ r \in calls
  /\ calls' = calls \ {r}
  /\ interrupt' = StartInterrupt(r)
  /\ UNCHANGED <<current, seed, interrupted, ctxDone, ended, daemonVars, run,
                 inputVars, closing, active, t, serial, reqVars, goVars, failed,
                 natVars, histVars>>

\* The conditions under which the captured Run's prompt cannot own input.
CannotOwn(d) ==
  \/ ~active \/ t.run # captured[d] \/ ~t.attempted \/ t.terminal
  \/ closing \/ captured[d] \in interrupted \/ refused = captured[d]
  \/ Len(staged) >= MaxStaged
  \/ Size[d] > MaxBytes - stagedBytes

\* Mutant: only a missing Run is stale.
StaleRunMissing(d) == captured[d] = NoRun

\* The SDK captured no Run, or one that is no longer the lane's.
StaleRun(d) == captured[d] = NoRun \/ captured[d] # run

Deliver(d) ==
  /\ captured[d] # Idle /\ verdict[d] = "none"
  /\ IF StaleRun(d)
       THEN /\ verdict' = [verdict EXCEPT ![d] = "notRunning"]
            /\ UNCHANGED <<inputVars, accepted>>
     ELSE IF CannotOwn(d)
       THEN /\ refused' = captured[d]
            /\ verdict' = [verdict EXCEPT ![d] = "notRunning"]
            /\ UNCHANGED <<staged, stagedBytes, accepted>>
     ELSE /\ staged' = Append(staged, d)
          /\ stagedBytes' = stagedBytes + Size[d]
          /\ verdict' = [verdict EXCEPT ![d] = "queued"]
          /\ accepted' = [accepted EXCEPT ![captured[d]] = Append(@, d)]
          /\ UNCHANGED refused
  /\ UNCHANGED <<sdkVars, captured, run, closing, promptVars, goVars, failed,
                 natVars, handed, received, receipt, outcome>>

\* Input that does not render, or a callback whose context ended: no effect.
DeliverRejected(d) ==
  /\ "invalid" \in Events
  /\ captured[d] # Idle /\ verdict[d] = "none"
  /\ verdict' = [verdict EXCEPT ![d] = "rejected"]
  /\ UNCHANGED <<sdkVars, captured, run, inputVars, closing, promptVars, goVars,
                 failed, natVars, histVars>>

RetireRun(r) ==
  /\ r \in ended
  /\ ended' = ended \ {r}
  /\ run' = IF run = r THEN NoRun ELSE run
  /\ UNCHANGED <<current, seed, interrupted, calls, ctxDone, daemonVars,
                 inputVars, closing, promptVars, goVars, failed, natVars,
                 histVars>>

\* context.AfterFunc(ctx): cancels an unsubmitted prompt, loses a submitted one.
ContextEnds ==
  /\ ctxDone /\ active
  /\ IF t.attempted
       THEN failed' = TRUE /\ UNCHANGED t
       ELSE t' = [t EXCEPT !.cancelled = TRUE] /\ UNCHANGED failed
  /\ UNCHANGED <<sdkVars, daemonVars, run, inputVars, closing, active, serial,
                 reqVars, interrupt, goVars, natVars, histVars>>

\* Close marks the lane; its client.close is a later Lost.
Close ==
  /\ "close" \in Events
  /\ ~closing
  /\ closing' = TRUE
  /\ UNCHANGED <<sdkVars, daemonVars, run, inputVars, promptVars, goVars,
                 failed, natVars, histVars>>

\* lost: native exits, the bus ends, a frame is malformed, or Close gets there.
Lost ==
  /\ "loss" \in Events
  /\ ~failed
  /\ failed' = TRUE
  /\ UNCHANGED <<sdkVars, daemonVars, run, inputVars, closing, promptVars,
                 goVars, natVars, histVars>>

-----------------------------------------------------------------------------
(* The ACP reader: the transport may fail while it handles a frame          *)

\* The prompt's observer: runs before any later frame is dispatched.
Observe ==
  /\ nat = "ended" /\ natPrompt = serial
  /\ request \in {"writing", "replying"} /\ reply = "none"
  /\ nat' = "none" /\ natStop' = "none"
  /\ IF natStop = "invalid"
       THEN /\ t' = [t EXCEPT !.terminal = TRUE, !.failure = TRUE]
            /\ reply' = "error" /\ failed' = TRUE
       ELSE /\ t' = [t EXCEPT !.terminal = TRUE, !.stopReason = natStop]
            /\ reply' = "ok" /\ UNCHANGED failed
  /\ UNCHANGED <<sdkVars, daemonVars, run, inputVars, closing, active, serial,
                 request, written, interrupt, goVars, natPrompt, natCancel,
                 histVars>>

\* receive: an answer chunk of the lane's session.
Chunk ==
  /\ "output" \in Events
  /\ active /\ t.attempted /\ ~t.terminal
  /\ IF 1 > MaxOutput - t.output
       THEN t' = [t EXCEPT !.failure = TRUE] /\ failed' = TRUE
       ELSE t' = [t EXCEPT !.output = @ + 1] /\ UNCHANGED failed
  /\ UNCHANGED <<sdkVars, daemonVars, run, inputVars, closing, active, serial,
                 reqVars, interrupt, goVars, natVars, histVars>>

\* Mutant: pulls are answered after an interrupt was recorded.
MayPullInterrupted(named) ==
  ~named /\ active /\ t.attempted /\ ~t.terminal /\ ~closing

\* answer(craft/drainMidTurnQueue): may this pull take owned input?  A pull
\* that names a prompt is a native background turn's.
MayPull(named) ==
  /\ ~named /\ active /\ t.attempted /\ ~t.terminal
  /\ ~closing /\ t.run \notin interrupted

Drain(named) ==
  /\ named \/ nat # "none"
  /\ IF MayPull(named)
       THEN /\ staged' = Keep(MaxDrain)
            /\ stagedBytes' = BytesWithoutPulled(MaxDrain)
       ELSE UNCHANGED <<staged, stagedBytes>>
  /\ handed' = IF MayPull(named)
                 THEN [handed EXCEPT ![t.run] = @ \o Take(MaxDrain)] ELSE handed
  /\ UNCHANGED <<sdkVars, daemonVars, run, refused, closing, promptVars, goVars,
                 failed, natVars, accepted, received, receipt, outcome>>

-----------------------------------------------------------------------------
(* External: native Qwen. Requests are handled asynchronously; a cancel     *)
(* request acts on whichever lane prompt is pending when it is processed.   *)

NativeReads ==
  /\ request = "writing" /\ natPrompt # serial
  /\ nat' = "running" /\ natPrompt' = serial
  /\ received' = IF continuation THEN received ELSE received \cup {t.run}
  /\ UNCHANGED <<sdkVars, daemonVars, run, inputVars, closing, promptVars,
                 goVars, failed, natStop, natCancel, accepted, handed, receipt,
                 outcome>>

NativeEnds(stop) ==
  /\ nat = "running"
  /\ nat' = "ended" /\ natStop' = stop
  /\ UNCHANGED <<sdkVars, daemonVars, run, inputVars, closing, promptVars,
                 goVars, failed, natPrompt, natCancel, histVars>>

NativeCancels ==
  /\ natCancel # 0
  /\ natCancel' = 0
  /\ IF nat = "running"
       THEN nat' = "ended" /\ natStop' = "cancelled"
       ELSE UNCHANGED <<nat, natStop>>
  /\ interrupt' = IF interrupt = "sent" THEN "answered" ELSE interrupt
  /\ UNCHANGED <<sdkVars, daemonVars, run, inputVars, closing, active, t,
                 serial, reqVars, goVars, failed, natPrompt, histVars>>

-----------------------------------------------------------------------------
RunGoroutine ==
  Enter \/ Begin \/ Submit \/ Written \/ Admit \/ Report \/ Await \/ Leave
    \/ Continue \/ EndRun
RequestGoroutine ==
  SendRefused \/ AcquireGate \/ SubmitCallback \/ WriteReturns \/ RequestReturns
InterruptGoroutine ==
  InterruptProceeds \/ CancelWritten \/ CancelAnswered \/ CancelFails
Callback ==
  \/ \E r \in Runs : Interrupt(r) \/ RetireRun(r)
  \/ \E d \in Deliveries : Deliver(d) \/ DeliverRejected(d)
  \/ ContextEnds \/ Close \/ Lost
Reader == Observe \/ Chunk \/ \E named \in BOOLEAN : Drain(named)
SDK ==
  \/ \E r \in Runs, s \in Seeds : StartRun(r, s)
  \/ RequestInterrupt \/ CancelContext \/ ReturnRun
  \/ \E d \in Deliveries : Capture(d)
Native == NativeReads \/ NativeCancels \/ \E stop \in Terminals : NativeEnds(stop)

Next == RunGoroutine \/ RequestGoroutine \/ InterruptGoroutine \/ Callback
          \/ Reader \/ SDK \/ Native

Spec == Init /\ [][Next]_vars

(***************************************************************************)
(* Goroutines are scheduled; a blocked write or call returns once native   *)
(* has read or answered, or the transport has failed. Native is assumed to *)
(* read its input and to answer every prompt and cancel request it has     *)
(* read. Nothing is assumed of interrupts, deliveries, pulls or failures.  *)
(***************************************************************************)
Fairness ==
  /\ WF_vars(RunGoroutine) /\ WF_vars(ReturnRun)
  /\ WF_vars((failed \/ t.cancelled) /\ SendRefused)
  /\ WF_vars(AcquireGate) /\ WF_vars(SubmitCallback)
  /\ WF_vars((failed \/ natPrompt = serial) /\ WriteReturns)
  /\ WF_vars(RequestReturns)
  /\ WF_vars(InterruptProceeds)
  /\ WF_vars(CancelWritten) /\ WF_vars(CancelAnswered)
  /\ WF_vars(failed /\ CancelFails)
  /\ WF_vars(Observe)
  /\ WF_vars(NativeReads) /\ WF_vars(NativeCancels)
  /\ WF_vars(\E stop \in Terminals : NativeEnds(stop))

FairSpec == Spec /\ Fairness

-----------------------------------------------------------------------------
(* Properties                                                               *)

SDKTypeOK ==
  /\ current \in Runs \cup {NoRun}
  /\ seed \in [Runs -> Deliveries \cup {Text, NoSeed}]
  /\ interrupted \in SUBSET Runs /\ calls \in SUBSET Runs /\ ended \in SUBSET Runs
  /\ ctxDone \in BOOLEAN
  /\ captured \in [Deliveries -> Runs \cup {NoRun, Idle}]
  /\ verdict \in [Deliveries -> {"none", "queued", "notRunning", "rejected"}]

LaneTypeOK ==
  /\ run \in Runs \cup {NoRun} /\ refused \in Runs \cup {NoRun}
  /\ staged \in Seq(Deliveries)
  /\ closing \in BOOLEAN /\ failed \in BOOLEAN

PromptTypeOK ==
  /\ active \in BOOLEAN /\ t \in PromptType /\ serial \in Nat
  /\ request \in {"none", "sending", "gated", "writing", "replying", "done"}
  /\ written \in {"none", "ok", "error", "interrupted"}
  /\ reply \in {"none", "ok", "error"}
  /\ interrupt \in {"none", "waiting", "calling", "sent", "answered", "done",
                   "error"}

GoTypeOK ==
  /\ pc \in {"idle", "enter", "begin", "submit", "write", "admit", "report",
             "await", "join", "settle", "return"}
  /\ continuation \in BOOLEAN
  /\ batch \in Seq(Deliveries)
  /\ output \in Int /\ reason \in StopReasons \cup {"none"}
  /\ err \in {"none", "error", "interrupted"}

NativeTypeOK ==
  /\ nat \in {"none", "running", "ended"} /\ natPrompt \in Nat
  /\ natStop \in Terminals \cup {"none", "cancelled"} /\ natCancel \in Nat

HistTypeOK ==
  /\ accepted \in [Runs -> Seq(Deliveries)]
  /\ handed \in [Runs -> Seq(Deliveries)]
  /\ received \in SUBSET Runs
  /\ receipt \in [Runs -> {"none", "written", "refused", "rejected", "uncertain"}]
  /\ outcome \in [Runs -> Outcomes \cup {"none"}]

\* Every variable has its type; the two functions of the input and the byte
\* count are pinned down by the properties below.
TypeOK == SDKTypeOK /\ LaneTypeOK /\ PromptTypeOK /\ GoTypeOK /\ NativeTypeOK
            /\ HistTypeOK

\* Native is given a Run's admitted deliveries in the order they were
\* admitted, none twice and none skipped, by pulls and continuations alike
\* (takeStagedLocked, executeRun).
InputInOrder ==
  \A r \in Runs : /\ Len(handed[r]) <= Len(accepted[r])
                  /\ handed[r] = SubSeq(accepted[r], 1, Len(handed[r]))

\* The Run that may own input: from its start until its outcome.
Owner == IF pc \in {"idle", "return"} THEN NoRun ELSE current

\* Close stops the input of every Run.
Stopped == IF closing THEN Runs ELSE interrupted

Input == INSTANCE LaneInput WITH owner <- Owner, stopped <- Stopped

\* The lane implements LaneInput: however deliveries, pulls, continuations, interrupts and
\* Close interleave with the ends of prompts and Runs, a delivery is admitted once and into
\* the Run in progress, given in order, not after a stop, and never after its Run
\* (delivery.go, executeRun, submitPrompt).
ImplementsInput == Input!InputSpec

\* Owned input belongs to the Run in progress: nothing stays behind for a
\* later Run, however the earlier one ended (executeRun, delivery.go).
NothingCarriedOver ==
  staged # <<>> =>
    /\ pc \notin {"idle", "enter", "begin", "submit", "return"}
    /\ \A i \in DOMAIN staged : captured[staged[i]] = current

\* A Run that completes has given native everything it admitted, unless it
\* was interrupted or the lane was closing (executeRun after end_turn).
CompletedRunHandsAll ==
  \A r \in Runs : outcome[r] = "completed" =>
    handed[r] = accepted[r] \/ r \in interrupted \/ closing

\* Once a delivery of a Run was left to the daemon, the Run admits no later
\* one, so none overtakes it (Wrapper.refused).
NoOvertaking ==
  [][\A r \in Runs :
       (\E d \in Deliveries : captured[d] = r /\ verdict[d] = "notRunning")
         => accepted'[r] = accepted[r]]_vars

\* After an interrupt was recorded native is given no more owned input of
\* that Run, neither by a pull nor by a continuation.
InterruptStopsInput ==
  [][\A r \in interrupted : handed'[r] = handed[r]]_vars

\* A cancel request native has not processed never meets another prompt than
\* the one it was sent for (submitPrompt joins the interrupt).
CancelStaysWithItsPrompt ==
  nat = "running" /\ natCancel # 0 => natPrompt = natCancel

\* An interrupt is not lost between the SDK's record and the prompt: once the
\* prompt was admitted and the callback was made, its cancellation is under
\* way or the prompt has ended (submitPrompt's recheck, startInterrupt).
InterruptReachesPrompt ==
  /\ pc \in {"report", "await"} /\ written = "ok" /\ ~t.terminal
  /\ current \in interrupted \ calls
  => interrupt # "none"

\* A seed receipt says what happened: "written" only when native has the whole
\* prompt, a rejection only when it never will.
ReceiptIsTrue ==
  \A r \in Runs : /\ receipt[r] = "written" => r \in received
                  /\ receipt[r] \in {"refused", "rejected"} => r \notin received

\* The joined answer of a Run never exceeds one ACP frame, from chunks and
\* separators alike.
OutputWithinBound == t.output <= MaxOutput /\ output <= MaxOutput

\* stagedBytes counts exactly the owned inputs, which stay within both bounds.
StagedBytesExact ==
  /\ stagedBytes = Bytes(staged) /\ stagedBytes <= MaxBytes
  /\ Len(staged) <= MaxStaged

\* Every Run the SDK starts returns: no join, receipt or reply is waited for
\* that will not come.
RunSettles == \A r \in Runs : current = r ~> current # r
=============================================================================
