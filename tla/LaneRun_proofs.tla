---------------------------- MODULE LaneRun_proofs ----------------------------
(***************************************************************************)
(* Proofs about LaneRun, for every set of Runs and deliveries and every    *)
(* bound. The safety properties that relate several goroutines are         *)
(* conjuncts or consequences of IInv, the inductive invariant below, whose *)
(* parts say what each control state of the Run, request and interrupt     *)
(* goroutines implies for the others.                                      *)
(***************************************************************************)
EXTENDS LaneRun, FiniteSetTheorems, SequenceTheorems, WellFoundedInduction, TLAPS

\* Control states of the Run goroutine inside submitPrompt, and those in
\* which the Run may own input.
InPrompt == {"write", "admit", "report", "await", "join"}
Owning == InPrompt \cup {"submit", "settle"}

\* The Run slot, the active prompt and the Run goroutine agree.
SlotInv ==
  /\ pc = "idle" <=> current = NoRun
  /\ active <=> pc \in InPrompt
  /\ ~active => t = NoPrompt /\ request = "none" /\ written = "none"
               /\ reply = "none" /\ interrupt = "none"
  /\ active => t.run = current /\ request # "none"
  /\ current # NoRun => seed[current] # NoSeed
  /\ t.submitted <=> pc \in InPrompt \ {"write"}
  /\ t.submitted => written # "none"
  /\ pc = "admit" => written = "ok"
  /\ pc \in {"idle", "enter", "begin"} => ~continuation

\* How far the request goroutine is, what it reported, and what native has.
RequestInv ==
  /\ request \in {"none", "sending", "gated"} => ~t.attempted
  /\ request \in {"writing", "replying"} => t.attempted
  /\ request \in {"none", "sending", "gated", "writing"} => written = "none"
  /\ request = "replying" => written = "ok"
  /\ request = "done" => written # "none"
  /\ written = "ok" => t.attempted /\ natPrompt = serial
  /\ written = "interrupted" => ~t.attempted
  /\ natPrompt <= serial
  /\ active /\ ~t.attempted => natPrompt < serial

\* A cancel request in native's hands was sent for the prompt native has, and
\* either its prompt still waits for it or the transport is gone.
CancelInv ==
  /\ natCancel # 0 => natCancel = natPrompt
  /\ natCancel # 0 => failed \/ (interrupt = "sent" /\ natCancel = serial)
  /\ request \in {"gated", "writing"} /\ natPrompt # serial => natCancel = 0
  /\ interrupt \in {"calling", "sent", "answered"} => written = "ok"

\* When a Run's seed can have reached native, and until when no receipt exists.
ReceiptInv ==
  /\ \A r \in Runs : seed[r] = NoSeed => r \notin received /\ receipt[r] = "none"
  /\ current \in received =>
       continuation \/ t.attempted \/ pc \in {"settle", "return"}
  /\ active /\ ~continuation /\ natPrompt = serial => current \in received
  /\ ~continuation /\ pc \in {"enter", "begin", "submit", "write", "admit", "report"}
       => receipt[current] = "none"

\* Where a Run's admitted input is: given to native, in the continuation not
\* yet submitted, or owned.
InputInv ==
  /\ \A r \in Runs : seed[r] = NoSeed => accepted[r] = <<>> /\ handed[r] = <<>>
  /\ pc \notin InPrompt \cup {"settle"} => staged = <<>>
  /\ active /\ ~t.attempted => staged = <<>>
  /\ t.attempted => batch = <<>>
  /\ pc \notin Owning => batch = <<>>
  /\ pc = "settle" /\ err = "none" => batch = <<>>
  /\ pc \in {"enter", "begin"} => accepted[current] = <<>> /\ handed[current] = <<>>
  /\ pc \in Owning => accepted[current] = (handed[current] \o batch) \o staged
  /\ \A i \in DOMAIN staged : captured[staged[i]] = current

IInv == TypeOK /\ SlotInv /\ RequestInv /\ CancelInv /\ ReceiptInv /\ ReceiptIsTrue
          /\ InterruptReachesPrompt /\ InputInv /\ InputInOrder
-----------------------------------------------------------------------------
(* What the lane builds from sequences of deliveries.                        *)
LEMMA InputSeqs ==
  /\ <<>> \in Seq(Deliveries)
  /\ \A s, u \in Seq(Deliveries) : s \o u \in Seq(Deliveries)
  /\ \A s \in Seq(Deliveries), d \in Deliveries : Append(s, d) \in Seq(Deliveries)
<1>1. <<>> \in Seq(Deliveries)
  BY EmptySeq
<1>2. \A s, u \in Seq(Deliveries) : s \o u \in Seq(Deliveries)
  BY ConcatProperties
<1>3. \A s \in Seq(Deliveries), d \in Deliveries : Append(s, d) \in Seq(Deliveries)
  BY AppendProperties
<1>q. QED
  BY <1>1, <1>2, <1>3

(* What extending one Run's input does to the input of all.                  *)
LEMMA InputEdits ==
  ASSUME NEW f \in [Runs -> Seq(Deliveries)], NEW r \in Runs,
         NEW s \in Seq(Deliveries)
  PROVE  /\ [f EXCEPT ![r] = @ \o s] \in [Runs -> Seq(Deliveries)]
         /\ \A d \in Deliveries :
              [f EXCEPT ![r] = Append(@, d)] \in [Runs -> Seq(Deliveries)]
<1>1. /\ f[r] \o s \in Seq(Deliveries)
      /\ \A d \in Deliveries : Append(f[r], d) \in Seq(Deliveries)
  BY InputSeqs
<1>2. \A v \in Seq(Deliveries) : [f EXCEPT ![r] = v] \in [Runs -> Seq(Deliveries)]
  OBVIOUS
<1>q. QED
  BY <1>1, <1>2

(* takeStagedLocked splits the owned input in two: what it takes, and what   *)
(* stays owned, in order.                                                    *)
LEMMA TakeKeep ==
  ASSUME staged \in Seq(Deliveries), NEW limit \in Nat
  PROVE  /\ Take(limit) \in Seq(Deliveries) /\ Keep(limit) \in Seq(Deliveries)
         /\ Take(limit) \o Keep(limit) = staged
<1> DEFINE n == Len(staged)
           k == AtMost(limit, n)
<1>1. n \in Nat /\ k \in 0..n
  BY LenProperties DEF AtMost
<1>2. \A i \in 1..n : staged[i] \in Deliveries
  BY ElementOfSeq
<1>3. SubSeq(staged, 1, k) \in Seq(Deliveries)
  BY <1>1, <1>2, SubSeqProperties
<1>4. SubSeq(staged, k + 1, n) \in Seq(Deliveries)
  BY <1>1, <1>2, SubSeqProperties
<1>5. SubSeq(staged, 1, k) \o SubSeq(staged, k + 1, n) = SubSeq(staged, 1, n)
  <2>1. 1 \in 1..n+1 /\ k \in 1-1..n /\ n \in k..n
    BY <1>1
  <2>q. QED
    BY <2>1, ConcatAdjacentSubSeq
<1>6. SubSeq(staged, 1, n) = staged
  BY SubSeqFull
<1>q. QED
  BY <1>3, <1>4, <1>5, <1>6 DEF Take, Keep

\* What a clean end continues with is a sequence of deliveries.
LEMMA NextBatchType ==
  ASSUME staged \in Seq(Deliveries)
  PROVE  NextBatch \in Seq(Deliveries)
<1>1. Len(staged) \in Nat
  BY LenProperties
<1>q. QED
  BY <1>1, TakeKeep, EmptySeq DEF NextBatch

\* Every assignment the code makes to one field of a prompt keeps its type.
LEMMA PromptEdits ==
  ASSUME NEW p \in PromptType, NEW stop \in StopReasons \cup {"none"}
  PROVE  /\ p.run \in Runs \cup {NoRun} /\ p.output \in Int
         /\ p.stopReason \in StopReasons \cup {"none"}
         /\ [p EXCEPT !.submitted = TRUE] \in PromptType
         /\ [p EXCEPT !.attempted = TRUE] \in PromptType
         /\ [p EXCEPT !.cancelled = TRUE] \in PromptType
         /\ [p EXCEPT !.terminal = TRUE] \in PromptType
         /\ [p EXCEPT !.failure = TRUE] \in PromptType
         /\ [p EXCEPT !.output = @ + 1] \in PromptType
         /\ [p EXCEPT !.terminal = TRUE, !.failure = TRUE] \in PromptType
         /\ [p EXCEPT !.terminal = TRUE, !.stopReason = stop] \in PromptType
<1>1. p.run \in Runs \cup {NoRun} /\ p.output \in Int
      /\ p.stopReason \in StopReasons \cup {"none"}
  BY DEF PromptType
<1>2. [p EXCEPT !.submitted = TRUE] \in PromptType
  BY DEF PromptType
<1>3. [p EXCEPT !.attempted = TRUE] \in PromptType
  BY DEF PromptType
<1>4. [p EXCEPT !.cancelled = TRUE] \in PromptType
  BY DEF PromptType
<1>5. [p EXCEPT !.terminal = TRUE] \in PromptType
  BY DEF PromptType
<1>6. [p EXCEPT !.failure = TRUE] \in PromptType
  BY DEF PromptType
<1>7. [p EXCEPT !.output = @ + 1] \in PromptType
  BY DEF PromptType
<1>8. [p EXCEPT !.terminal = TRUE, !.failure = TRUE] \in PromptType
  BY DEF PromptType
<1>9. [p EXCEPT !.terminal = TRUE, !.stopReason = stop] \in PromptType
  BY DEF PromptType
<1>q. QED
  BY <1>1, <1>2, <1>3, <1>4, <1>5, <1>6, <1>7, <1>8, <1>9

\* submitPrompt's fresh prompt is a prompt.
LEMMA NewPromptType ==
  ASSUME NEW r \in Runs \cup {NoRun}, NEW prior \in Int
  PROVE  NewPrompt(r, prior) \in PromptType
  BY DEF NewPrompt, PromptType

\* So is the absent one.
LEMMA NoPromptType == NoPrompt \in PromptType
  BY NewPromptType DEF NoPrompt

\* The type invariant: every variable of the lane keeps its type, whatever
\* the order of its goroutines' steps.
LEMMA TypeInit == Init => TypeOK
<1> SUFFICES ASSUME Init PROVE TypeOK
  OBVIOUS
<1>1. SDKTypeOK
  BY DEF Init, SDKTypeOK
<1>2. LaneTypeOK
  BY InputSeqs DEF Init, LaneTypeOK
<1>3. PromptTypeOK
  BY NoPromptType DEF Init, PromptTypeOK
<1>4. GoTypeOK
  <2>1. batch \in Seq(Deliveries)
    BY InputSeqs DEF Init
  <2>2. /\ pc = "idle" /\ continuation = FALSE /\ output \in Int
        /\ reason = "none" /\ err = "none"
    BY DEF Init
  <2>q. QED
    BY <2>1, <2>2 DEF GoTypeOK
<1>5. NativeTypeOK
  BY DEF Init, NativeTypeOK
<1>6. HistTypeOK
  BY InputSeqs DEF Init, HistTypeOK
<1>q. QED
  BY <1>1, <1>2, <1>3, <1>4, <1>5, <1>6 DEF TypeOK

\* A part of the type invariant whose variables do not change is preserved.
LEMMA TypeFrame ==
  ASSUME TypeOK
  PROVE  /\ UNCHANGED <<sdkVars, daemonVars>> => SDKTypeOK'
         /\ UNCHANGED <<run, inputVars, closing, failed>> => LaneTypeOK'
         /\ UNCHANGED <<promptVars>> => PromptTypeOK'
         /\ UNCHANGED <<goVars>> => GoTypeOK'
         /\ UNCHANGED <<natVars>> => NativeTypeOK'
         /\ UNCHANGED <<histVars>> => HistTypeOK'
<1>1. UNCHANGED <<sdkVars, daemonVars>> => SDKTypeOK'
  BY DEF TypeOK, SDKTypeOK, sdkVars, daemonVars
<1>2. UNCHANGED <<run, inputVars, closing, failed>> => LaneTypeOK'
  BY DEF TypeOK, LaneTypeOK, inputVars
<1>3. UNCHANGED <<promptVars>> => PromptTypeOK'
  BY DEF TypeOK, PromptTypeOK, promptVars, reqVars
<1>4. UNCHANGED <<goVars>> => GoTypeOK'
  BY DEF TypeOK, GoTypeOK, goVars
<1>5. UNCHANGED <<natVars>> => NativeTypeOK'
  BY DEF TypeOK, NativeTypeOK, natVars
<1>6. UNCHANGED <<histVars>> => HistTypeOK'
  BY DEF TypeOK, HistTypeOK, histVars
<1>q. QED
  BY <1>1, <1>2, <1>3, <1>4, <1>5, <1>6

\* Every step keeps every variable in its type.
LEMMA TypeNext == TypeOK /\ SlotInv /\ [Next]_vars => TypeOK'
<1> SUFFICES ASSUME TypeOK, SlotInv, [Next]_vars PROVE TypeOK'
  OBVIOUS
<1>types. /\ SDKTypeOK /\ LaneTypeOK /\ PromptTypeOK
          /\ GoTypeOK /\ NativeTypeOK /\ HistTypeOK
  BY DEF TypeOK
<1> USE LaneRunAssumption
<1>1. CASE Enter
  <2>1. LaneTypeOK'
    BY <1>1, <1>types DEF Enter, SDKTypeOK, LaneTypeOK, inputVars
  <2>2. GoTypeOK'
    BY <1>1, <1>types DEF Enter, GoTypeOK, goVars
  <2>q. QED
    BY <1>1, TypeFrame, <2>1, <2>2 DEF Enter, TypeOK
<1>2. CASE Begin
  <2>1. GoTypeOK'
    BY <1>2, <1>types DEF Begin, GoTypeOK, Unavailable, goVars
  <2>2. HistTypeOK'
    BY <1>2, <1>types DEF Begin, HistTypeOK, Unavailable, Outcomes, histVars
  <2>q. QED
    BY <1>2, TypeFrame, <2>1, <2>2 DEF Begin, TypeOK
<1>3. CASE Submit
  <2>1. PromptTypeOK'
    <3>1. CASE SubmitRefused
      BY <1>3, <1>types, <3>1 DEF Submit, PromptTypeOK, promptVars, reqVars
    <3>2. CASE ~SubmitRefused
      <4> DEFINE prior == IF output > 0 THEN output + Separator ELSE 0
      <4>1. prior \in Int /\ current \in Runs \cup {NoRun}
        BY <1>types DEF GoTypeOK, SDKTypeOK
      <4>2. t' \in PromptType
        BY <1>3, <3>2, <4>1, NewPromptType DEF Submit
      <4>q. QED
        BY <1>3, <1>types, <3>2, <4>2 DEF Submit, PromptTypeOK
    <3>q. QED
      BY <3>1, <3>2
  <2>2. GoTypeOK'
    BY <1>3, <1>types DEF Submit, GoTypeOK, goVars
  <2>q. QED
    BY <1>3, TypeFrame, <2>1, <2>2 DEF Submit, TypeOK
<1>4. CASE Written
  <2>1. PromptTypeOK'
    BY <1>4, <1>types, PromptEdits DEF Written, PromptTypeOK, promptVars, reqVars
  <2>2. GoTypeOK'
    BY <1>4, <1>types DEF Written, GoTypeOK, goVars
  <2>q. QED
    BY <1>4, TypeFrame, <2>1, <2>2 DEF Written, TypeOK
<1>5. CASE Admit
  <2>1. PromptTypeOK'
    BY <1>5, <1>types DEF Admit, PromptTypeOK, StartInterrupt, promptVars, reqVars
  <2>2. GoTypeOK'
    BY <1>5, <1>types DEF Admit, GoTypeOK, goVars
  <2>q. QED
    BY <1>5, TypeFrame, <2>1, <2>2 DEF Admit, TypeOK
<1>6. CASE Report
  <2>1. LaneTypeOK'
    BY <1>6, <1>types DEF Report, LaneTypeOK, inputVars
  <2>2. GoTypeOK'
    BY <1>6, <1>types DEF Report, GoTypeOK, goVars
  <2>3. HistTypeOK'
    BY <1>6, <1>types DEF Report, HistTypeOK, SeedReceipt, histVars
  <2>q. QED
    BY <1>6, TypeFrame, <2>1, <2>2, <2>3 DEF Report, TypeOK
<1>7. CASE Await
  <2>1. LaneTypeOK'
    BY <1>7, <1>types DEF Await, LaneTypeOK, inputVars
  <2>2. PromptTypeOK'
    BY <1>7, <1>types, PromptEdits DEF Await, PromptTypeOK, promptVars, reqVars
  <2>3. GoTypeOK'
    BY <1>7, <1>types DEF Await, GoTypeOK, goVars
  <2>q. QED
    BY <1>7, TypeFrame, <2>1, <2>2, <2>3 DEF Await, TypeOK
<1>8. CASE Leave
  <2>1. PromptTypeOK'
    <3>1. t' \in PromptType
      BY <1>8, NoPromptType DEF Leave
    <3>q. QED
      BY <1>8, <1>types, <3>1 DEF Leave, PromptTypeOK
  <2>2. GoTypeOK'
    BY <1>8, <1>types, PromptEdits DEF Leave, PromptTypeOK, GoTypeOK, goVars
  <2>q. QED
    BY <1>8, TypeFrame, <2>1, <2>2 DEF Leave, TypeOK
<1>9. CASE Continue
  <2>1. LaneTypeOK'
    BY <1>9, <1>types, InputSeqs DEF Continue, LaneTypeOK, inputVars
  <2>2. GoTypeOK'
    BY <1>9, <1>types, NextBatchType DEF Continue, LaneTypeOK, GoTypeOK, goVars
  <2>q. QED
    BY <1>9, TypeFrame, <2>1, <2>2 DEF Continue, TypeOK
<1>10. CASE EndRun
  <2>1. LaneTypeOK'
    BY <1>10, <1>types, InputSeqs DEF EndRun, LaneTypeOK, inputVars
  <2>2. GoTypeOK'
    BY <1>10, <1>types, InputSeqs DEF EndRun, GoTypeOK, goVars
  <2>3. HistTypeOK'
    BY <1>10, <1>types DEF EndRun, HistTypeOK, Outcome, Outcomes, histVars
  <2>q. QED
    BY <1>10, TypeFrame, <2>1, <2>2, <2>3 DEF EndRun, TypeOK
<1>11. CASE SendRefused
  <2>1. PromptTypeOK'
    BY <1>11, <1>types
    DEF SendRefused, PromptTypeOK, Unsubmitted, promptVars, reqVars
  <2>q. QED
    BY <1>11, TypeFrame, <2>1 DEF SendRefused, TypeOK
<1>12. CASE AcquireGate
  <2>1. PromptTypeOK'
    BY <1>12, <1>types DEF AcquireGate, PromptTypeOK, promptVars, reqVars
  <2>q. QED
    BY <1>12, TypeFrame, <2>1 DEF AcquireGate, TypeOK
<1>13. CASE SubmitCallback
  <2>1. PromptTypeOK'
    BY <1>13, <1>types, PromptEdits
    DEF SubmitCallback, PromptTypeOK, Unsubmitted, promptVars, reqVars
  <2>2. GoTypeOK'
    BY <1>13, <1>types, InputSeqs DEF SubmitCallback, GoTypeOK, goVars
  <2>3. HistTypeOK'
    <3>1. handed' \in [Runs -> Seq(Deliveries)]
      <4>1. t.run \in Runs
        BY <1>13, <1>types DEF SubmitCallback, SlotInv, InPrompt, SDKTypeOK
      <4>2. handed' = handed \/ handed' = [handed EXCEPT ![t.run] = @ \o batch]
        BY <1>13 DEF SubmitCallback
      <4>3. handed \in [Runs -> Seq(Deliveries)] /\ batch \in Seq(Deliveries)
        BY <1>types DEF GoTypeOK, HistTypeOK
      <4>4. [handed EXCEPT ![t.run] = @ \o batch] \in [Runs -> Seq(Deliveries)]
        BY <4>1, <4>3, InputEdits
      <4>q. QED
        BY <4>2, <4>3, <4>4
    <3>q. QED
      BY <1>13, <1>types, <3>1 DEF SubmitCallback, HistTypeOK
  <2>q. QED
    BY <1>13, TypeFrame, <2>1, <2>2, <2>3 DEF SubmitCallback, TypeOK
<1>14. CASE WriteReturns
  <2>1. LaneTypeOK'
    BY <1>14, <1>types DEF WriteReturns, LaneTypeOK, inputVars
  <2>2. PromptTypeOK'
    BY <1>14, <1>types DEF WriteReturns, PromptTypeOK, promptVars, reqVars
  <2>q. QED
    BY <1>14, TypeFrame, <2>1, <2>2 DEF WriteReturns, TypeOK
<1>15. CASE RequestReturns
  <2>1. PromptTypeOK'
    BY <1>15, <1>types DEF RequestReturns, PromptTypeOK, promptVars, reqVars
  <2>q. QED
    BY <1>15, TypeFrame, <2>1 DEF RequestReturns, TypeOK
<1>16. CASE InterruptProceeds
  <2>1. PromptTypeOK'
    BY <1>16, <1>types DEF InterruptProceeds, PromptTypeOK, promptVars, reqVars
  <2>q. QED
    BY <1>16, TypeFrame, <2>1 DEF InterruptProceeds, TypeOK
<1>17. CASE CancelWritten
  <2>1. PromptTypeOK'
    BY <1>17, <1>types DEF CancelWritten, PromptTypeOK, promptVars, reqVars
  <2>2. NativeTypeOK'
    BY <1>17, <1>types DEF CancelWritten, PromptTypeOK, NativeTypeOK, natVars
  <2>q. QED
    BY <1>17, TypeFrame, <2>1, <2>2 DEF CancelWritten, TypeOK
<1>18. CASE CancelAnswered
  <2>1. PromptTypeOK'
    BY <1>18, <1>types DEF CancelAnswered, PromptTypeOK, promptVars, reqVars
  <2>q. QED
    BY <1>18, TypeFrame, <2>1 DEF CancelAnswered, TypeOK
<1>19. CASE CancelFails
  <2>1. LaneTypeOK'
    BY <1>19, <1>types DEF CancelFails, LaneTypeOK, inputVars
  <2>2. PromptTypeOK'
    BY <1>19, <1>types DEF CancelFails, PromptTypeOK, promptVars, reqVars
  <2>q. QED
    BY <1>19, TypeFrame, <2>1, <2>2 DEF CancelFails, TypeOK
<1>20. ASSUME NEW r \in Runs, Interrupt(r) PROVE TypeOK'
  <2>1. SDKTypeOK'
    BY <1>20, <1>types DEF Interrupt, SDKTypeOK, sdkVars, daemonVars
  <2>2. PromptTypeOK'
    BY <1>20, <1>types
    DEF Interrupt, PromptTypeOK, StartInterrupt, promptVars, reqVars
  <2>q. QED
    BY <1>20, TypeFrame, <2>1, <2>2 DEF Interrupt, TypeOK
<1>21. ASSUME NEW r \in Runs, RetireRun(r) PROVE TypeOK'
  <2>1. SDKTypeOK'
    BY <1>21, <1>types DEF RetireRun, SDKTypeOK, sdkVars, daemonVars
  <2>2. LaneTypeOK'
    BY <1>21, <1>types DEF RetireRun, LaneTypeOK, inputVars
  <2>q. QED
    BY <1>21, TypeFrame, <2>1, <2>2 DEF RetireRun, TypeOK
<1>22. ASSUME NEW d \in Deliveries, Deliver(d) PROVE TypeOK'
  <2>1. SDKTypeOK'
    BY <1>22, <1>types DEF Deliver, SDKTypeOK, sdkVars, daemonVars
  <2>2. LaneTypeOK'
    <3>1. refused' \in Runs \cup {NoRun}
      BY <1>22, <1>types DEF Deliver, StaleRun, LaneTypeOK, inputVars
    <3>2. staged' \in Seq(Deliveries)
      <4>1. staged \in Seq(Deliveries)
        BY <1>types DEF LaneTypeOK
      <4>2. staged' = staged \/ staged' = Append(staged, d)
        BY <1>22 DEF Deliver, inputVars
      <4>q. QED
        BY <4>1, <4>2, InputSeqs
    <3>q. QED
      BY <1>22, <1>types, <3>1, <3>2 DEF Deliver, LaneTypeOK
  <2>3. HistTypeOK'
    <3>1. accepted' \in [Runs -> Seq(Deliveries)]
      <4>1. CASE StaleRun(d) \/ CannotOwn(d)
        BY <1>22, <1>types, <4>1 DEF Deliver, HistTypeOK
      <4>2. CASE ~StaleRun(d) /\ ~CannotOwn(d)
        <5>1. captured[d] \in Runs
          BY <1>types, <4>2 DEF StaleRun, LaneTypeOK
        <5>2. accepted' = [accepted EXCEPT ![captured[d]] = Append(@, d)]
          BY <1>22, <4>2 DEF Deliver
        <5>q. QED
          BY <1>types, <5>1, <5>2, InputSeqs, InputEdits DEF HistTypeOK
      <4>q. QED
        BY <4>1, <4>2
    <3>q. QED
      BY <1>22, <1>types, <3>1 DEF Deliver, HistTypeOK
  <2>q. QED
    BY <1>22, TypeFrame, <2>1, <2>2, <2>3 DEF Deliver, TypeOK
<1>23. ASSUME NEW d \in Deliveries, DeliverRejected(d) PROVE TypeOK'
  <2>1. SDKTypeOK'
    BY <1>23, <1>types DEF DeliverRejected, SDKTypeOK, sdkVars, daemonVars
  <2>q. QED
    BY <1>23, TypeFrame, <2>1 DEF DeliverRejected, TypeOK
<1>24. CASE ContextEnds
  <2>1. LaneTypeOK'
    BY <1>24, <1>types DEF ContextEnds, LaneTypeOK, inputVars
  <2>2. PromptTypeOK'
    BY <1>24, <1>types, PromptEdits
    DEF ContextEnds, PromptTypeOK, promptVars, reqVars
  <2>q. QED
    BY <1>24, TypeFrame, <2>1, <2>2 DEF ContextEnds, TypeOK
<1>25. CASE Close
  <2>1. LaneTypeOK'
    BY <1>25, <1>types DEF Close, LaneTypeOK, inputVars
  <2>q. QED
    BY <1>25, TypeFrame, <2>1 DEF Close, TypeOK
<1>26. CASE Lost
  <2>1. LaneTypeOK'
    BY <1>26, <1>types DEF Lost, LaneTypeOK, inputVars
  <2>q. QED
    BY <1>26, TypeFrame, <2>1 DEF Lost, TypeOK
<1>27. CASE Observe
  <2>1. LaneTypeOK'
    BY <1>27, <1>types DEF Observe, LaneTypeOK, inputVars
  <2>2. PromptTypeOK'
    <3>1. natStop # "invalid" => natStop \in StopReasons \cup {"none"}
      BY <1>types DEF NativeTypeOK, StopReasons
    <3>2. t \in PromptType
      BY <1>types DEF PromptTypeOK
    <3>3. t' \in PromptType
      <4>1. CASE natStop = "invalid"
        BY <1>27, <3>2, <4>1, PromptEdits DEF Observe
      <4>2. CASE natStop # "invalid"
        <5>1. t' = [t EXCEPT !.terminal = TRUE, !.stopReason = natStop]
          BY <1>27, <4>2 DEF Observe
        <5>q. QED
          BY <5>1, <3>1, <3>2, <4>2, PromptEdits
      <4>q. QED
        BY <4>1, <4>2
    <3>q. QED
      BY <1>27, <1>types, <3>3 DEF Observe, PromptTypeOK
  <2>3. NativeTypeOK'
    BY <1>27, <1>types DEF Observe, NativeTypeOK, StopReasons, natVars
  <2>q. QED
    BY <1>27, TypeFrame, <2>1, <2>2, <2>3 DEF Observe, TypeOK
<1>28. CASE Chunk
  <2>1. LaneTypeOK'
    BY <1>28, <1>types DEF Chunk, LaneTypeOK, inputVars
  <2>2. PromptTypeOK'
    <3>1. t' \in PromptType
      <4>1. t \in PromptType
        BY <1>types DEF PromptTypeOK
      <4>2. t' = [t EXCEPT !.failure = TRUE] \/ t' = [t EXCEPT !.output = @ + 1]
        BY <1>28 DEF Chunk
      <4>q. QED
        BY <4>1, <4>2, PromptEdits
    <3>q. QED
      BY <1>28, <1>types, <3>1 DEF Chunk, PromptTypeOK, reqVars
  <2>q. QED
    BY <1>28, TypeFrame, <2>1, <2>2 DEF Chunk, TypeOK
<1>29. ASSUME NEW named \in BOOLEAN, Drain(named) PROVE TypeOK'
  <2>1. LaneTypeOK'
    BY <1>29, <1>types, TakeKeep DEF Drain, LaneTypeOK, inputVars
  <2>2. HistTypeOK'
    <3>1. Take(MaxDrain) \in Seq(Deliveries)
      BY <1>types, TakeKeep DEF LaneTypeOK
    <3>2. handed' \in [Runs -> Seq(Deliveries)]
      BY <1>29, <1>types, <3>1, InputSeqs DEF Drain, HistTypeOK
    <3>q. QED
      BY <1>29, <1>types, <3>2 DEF Drain, HistTypeOK
  <2>q. QED
    BY <1>29, TypeFrame, <2>1, <2>2 DEF Drain, TypeOK
<1>30. ASSUME NEW r \in Runs, NEW s \in Seeds, StartRun(r, s) PROVE TypeOK'
  <2>1. SDKTypeOK'
    BY <1>30, <1>types DEF StartRun, SDKTypeOK, Seeds, sdkVars, daemonVars
  <2>2. GoTypeOK'
    BY <1>30, <1>types DEF StartRun, GoTypeOK, goVars
  <2>q. QED
    BY <1>30, TypeFrame, <2>1, <2>2 DEF StartRun, TypeOK
<1>31. CASE RequestInterrupt
  <2>1. SDKTypeOK'
    BY <1>31, <1>types DEF RequestInterrupt, SDKTypeOK, sdkVars, daemonVars
  <2>q. QED
    BY <1>31, TypeFrame, <2>1 DEF RequestInterrupt, TypeOK
<1>32. CASE CancelContext
  <2>1. SDKTypeOK'
    BY <1>32, <1>types DEF CancelContext, SDKTypeOK, sdkVars, daemonVars
  <2>q. QED
    BY <1>32, TypeFrame, <2>1 DEF CancelContext, TypeOK
<1>33. CASE ReturnRun
  <2>1. SDKTypeOK'
    BY <1>33, <1>types DEF ReturnRun, SlotInv, SDKTypeOK, sdkVars, daemonVars
  <2>2. GoTypeOK'
    <3>1. batch' \in Seq(Deliveries)
      BY <1>33, InputSeqs DEF ReturnRun, ResetLocals
    <3>2. /\ pc' = "idle" /\ continuation' = FALSE /\ output' \in Int
          /\ reason' = "none" /\ err' = "none"
      BY <1>33 DEF ReturnRun, ResetLocals
    <3>q. QED
      BY <3>1, <3>2 DEF GoTypeOK
  <2>q. QED
    BY <1>33, TypeFrame, <2>1, <2>2 DEF ReturnRun, TypeOK
<1>34. ASSUME NEW d \in Deliveries, Capture(d) PROVE TypeOK'
  <2>1. SDKTypeOK'
    BY <1>34, <1>types DEF Capture, SDKTypeOK, sdkVars, daemonVars
  <2>q. QED
    BY <1>34, TypeFrame, <2>1 DEF Capture, TypeOK
<1>35. CASE NativeReads
  <2>1. NativeTypeOK'
    BY <1>35, <1>types DEF NativeReads, PromptTypeOK, NativeTypeOK, natVars
  <2>2. HistTypeOK'
    <3>1. t.run \in Runs
      BY <1>35, <1>types DEF NativeReads, SlotInv, InPrompt, SDKTypeOK
    <3>q. QED
      BY <1>35, <1>types, <3>1 DEF NativeReads, HistTypeOK
  <2>q. QED
    BY <1>35, TypeFrame, <2>1, <2>2 DEF NativeReads, TypeOK
<1>36. CASE NativeCancels
  <2>1. PromptTypeOK'
    BY <1>36, <1>types DEF NativeCancels, PromptTypeOK, promptVars, reqVars
  <2>2. NativeTypeOK'
    BY <1>36, <1>types DEF NativeCancels, NativeTypeOK, natVars
  <2>q. QED
    BY <1>36, TypeFrame, <2>1, <2>2 DEF NativeCancels, TypeOK
<1>37. ASSUME NEW stop \in Terminals, NativeEnds(stop) PROVE TypeOK'
  <2>1. NativeTypeOK'
    BY <1>37, <1>types DEF NativeEnds, NativeTypeOK, natVars
  <2>q. QED
    BY <1>37, TypeFrame, <2>1 DEF NativeEnds, TypeOK
<1>38. CASE UNCHANGED vars
  BY <1>38, TypeFrame DEF vars, TypeOK
<1>q. QED
  BY <1>1, <1>2, <1>3, <1>4, <1>5, <1>6, <1>7, <1>8, <1>9, <1>10, <1>11,
     <1>12, <1>13, <1>14, <1>15, <1>16, <1>17, <1>18, <1>19, <1>20, <1>21,
     <1>22, <1>23, <1>24, <1>25, <1>26, <1>27, <1>28, <1>29, <1>30, <1>31,
     <1>32, <1>33, <1>34, <1>35, <1>36, <1>37, <1>38
  DEF Next, RunGoroutine, RequestGoroutine, InterruptGoroutine, Callback, Reader,
      SDK, Native

\* Assignments to one field of a prompt leave the others alone.
LEMMA PromptFields ==
  ASSUME NEW p \in PromptType
  PROVE  /\ LET q == [p EXCEPT !.submitted = TRUE]
            IN  q.submitted = TRUE /\ q.run = p.run /\ q.attempted = p.attempted
                /\ q.terminal = p.terminal
         /\ LET q == [p EXCEPT !.attempted = TRUE]
            IN  q.attempted = TRUE /\ q.run = p.run /\ q.submitted = p.submitted
                /\ q.terminal = p.terminal
         /\ LET q == [p EXCEPT !.terminal = TRUE]
            IN  q.terminal = TRUE /\ q.run = p.run /\ q.submitted = p.submitted
                /\ q.attempted = p.attempted
  BY DEF PromptType

\* What the reader and a cancelled context do to the prompt.
LEMMA StepEdits ==
  ASSUME t \in PromptType
  PROVE  /\ Observe => /\ t'.terminal = TRUE /\ t'.run = t.run
                        /\ t'.submitted = t.submitted /\ t'.attempted = t.attempted
         /\ Chunk \/ ContextEnds =>
              /\ t'.terminal = t.terminal /\ t'.run = t.run
              /\ t'.submitted = t.submitted /\ t'.attempted = t.attempted
<1>1. ASSUME Observe
      PROVE  /\ t'.terminal = TRUE /\ t'.run = t.run
             /\ t'.submitted = t.submitted /\ t'.attempted = t.attempted
  <2>1. CASE t' = [t EXCEPT !.terminal = TRUE, !.failure = TRUE]
    BY <2>1 DEF PromptType
  <2>2. CASE t' = [t EXCEPT !.terminal = TRUE, !.stopReason = natStop]
    BY <2>2 DEF PromptType
  <2>q. QED
    BY <1>1, <2>1, <2>2 DEF Observe
<1>2. ASSUME Chunk \/ ContextEnds
      PROVE  /\ t'.terminal = t.terminal /\ t'.run = t.run
             /\ t'.submitted = t.submitted /\ t'.attempted = t.attempted
  <2>1. CASE t' = [t EXCEPT !.cancelled = TRUE]
    BY <2>1 DEF PromptType
  <2>2. CASE t' = [t EXCEPT !.failure = TRUE]
    BY <2>2 DEF PromptType
  <2>3. CASE t' = [t EXCEPT !.output = @ + 1]
    BY <2>3 DEF PromptType
  <2>q. QED
    BY <1>2, <2>1, <2>2, <2>3 DEF Chunk, ContextEnds
<1>q. QED
  BY <1>1, <1>2

\* The Run slot, the active prompt and the goroutines agree after every step.
LEMMA SlotNext ==
  ASSUME TypeOK, SlotInv, RequestInv, [Next]_vars
  PROVE  SlotInv'
<1>types. t \in PromptType /\ seed \in [Runs -> Deliveries \cup {Text, NoSeed}]
  BY DEF TypeOK, PromptTypeOK, SDKTypeOK
<1> USE LaneRunAssumption DEF sdkVars, reqVars, promptVars, goVars
<1>1. CASE Enter
  BY <1>1 DEF Enter, SlotInv, InPrompt
<1>2. CASE Begin
  BY <1>2 DEF Begin, Unavailable, SlotInv, InPrompt
<1>3. CASE Submit
  BY <1>3 DEF Submit, NewPrompt, SlotInv, InPrompt
<1>4. CASE Written
  BY <1>4, PromptFields, <1>types
  DEF Written, SlotInv, InPrompt
<1>5. CASE Admit
  BY <1>5 DEF Admit, StartInterrupt, SlotInv, InPrompt
<1>6. CASE Report
  BY <1>6 DEF Report, SlotInv, InPrompt
<1>7. CASE Await
  BY <1>7, PromptFields, <1>types
  DEF Await, SlotInv, InPrompt
<1>8. CASE Leave
  BY <1>8
  DEF Leave, NoPrompt, NewPrompt, SlotInv, InPrompt
<1>9. CASE Continue
  BY <1>9 DEF Continue, SlotInv, InPrompt
<1>10. CASE EndRun
  BY <1>10 DEF EndRun, SlotInv, InPrompt
<1>11. CASE SendRefused
  BY <1>11
  DEF SendRefused, Unsubmitted, RequestInv, SlotInv, InPrompt
<1>12. CASE AcquireGate
  BY <1>12 DEF AcquireGate, SlotInv, InPrompt
<1>13. CASE SubmitCallback
  <2>1. t'.run = t.run /\ t'.submitted = t.submitted
    <3>1. t' = t \/ t' = [t EXCEPT !.attempted = TRUE]
      BY <1>13 DEF SubmitCallback
    <3>q. QED
      BY <3>1, PromptFields, <1>types
  <2>2. /\ UNCHANGED <<pc, current, active, interrupt, seed, continuation>>
        /\ active /\ pc # "admit" /\ ~t.submitted
        /\ request' # "none"
    BY <1>13 DEF SubmitCallback, Unsubmitted, SlotInv, RequestInv
  <2>q. QED
    BY <2>1, <2>2 DEF SlotInv, InPrompt
<1>14. CASE WriteReturns
  BY <1>14 DEF WriteReturns, RequestInv, SlotInv, InPrompt
<1>15. CASE RequestReturns
  BY <1>15 DEF RequestReturns, SlotInv, InPrompt
<1>16. CASE InterruptProceeds
  BY <1>16 DEF InterruptProceeds, SlotInv, InPrompt
<1>17. CASE CancelWritten
  BY <1>17 DEF CancelWritten, SlotInv, InPrompt
<1>18. CASE CancelAnswered
  BY <1>18 DEF CancelAnswered, SlotInv, InPrompt
<1>19. CASE CancelFails
  BY <1>19 DEF CancelFails, SlotInv, InPrompt
<1>20. ASSUME NEW r \in Runs, Interrupt(r) PROVE SlotInv'
  BY <1>20 DEF Interrupt, StartInterrupt, SlotInv, InPrompt
<1>21. CASE ContextEnds
  <2>1. t'.run = t.run /\ t'.submitted = t.submitted
    BY <1>21, StepEdits, <1>types
  <2>2. /\ UNCHANGED <<pc, current, active, reqVars, interrupt, seed, continuation>>
        /\ active
    BY <1>21 DEF ContextEnds
  <2>q. QED
    BY <2>1, <2>2 DEF SlotInv, InPrompt
<1>22. CASE Observe
  <2>1. t'.run = t.run /\ t'.submitted = t.submitted
    BY <1>22, StepEdits, <1>types
  <2>2. /\ UNCHANGED <<pc, current, active, request, written, interrupt, seed,
                     continuation>>
        /\ active
    BY <1>22 DEF Observe, SlotInv
  <2>q. QED
    BY <2>1, <2>2 DEF SlotInv, InPrompt
<1>23. CASE Chunk
  <2>1. t'.run = t.run /\ t'.submitted = t.submitted
    BY <1>23, StepEdits, <1>types
  <2>2. /\ UNCHANGED <<pc, current, active, reqVars, interrupt, seed, continuation>>
        /\ active
    BY <1>23 DEF Chunk
  <2>q. QED
    BY <2>1, <2>2 DEF SlotInv, InPrompt
<1>24. ASSUME NEW r \in Runs, NEW s \in Seeds, StartRun(r, s) PROVE SlotInv'
  BY <1>24, <1>types
  DEF StartRun, Seeds, SlotInv, InPrompt
<1>25. CASE ReturnRun
  BY <1>25 DEF ReturnRun, ResetLocals, SlotInv, InPrompt
<1>26. CASE NativeCancels
  BY <1>26 DEF NativeCancels, SlotInv, InPrompt
<1>27. CASE \/ \E r \in Runs : RetireRun(r)
            \/ \E d \in Deliveries : Deliver(d)
            \/ \E d \in Deliveries : DeliverRejected(d)
            \/ Close
            \/ Lost
            \/ \E named \in BOOLEAN : Drain(named)
            \/ RequestInterrupt
            \/ CancelContext
            \/ \E d \in Deliveries : Capture(d)
            \/ NativeReads
            \/ \E stop \in Terminals : NativeEnds(stop)
            \/ UNCHANGED vars
  <2>1. UNCHANGED <<pc, current, active, t, request, written, reply, interrupt,
                    seed, continuation>>
    BY <1>27
    DEF RetireRun, Deliver, DeliverRejected, Close, Lost, Drain,
        RequestInterrupt, CancelContext, Capture, NativeReads, NativeEnds, vars
  <2>q. QED
    BY <2>1 DEF SlotInv, InPrompt
<1>q. QED
  BY <1>1, <1>2, <1>3, <1>4, <1>5, <1>6, <1>7, <1>8, <1>9, <1>10, <1>11, <1>12,
     <1>13, <1>14, <1>15, <1>16, <1>17, <1>18, <1>19, <1>20, <1>21, <1>22,
     <1>23, <1>24, <1>25, <1>26, <1>27
  DEF Next, RunGoroutine, RequestGoroutine, InterruptGoroutine, Callback, Reader,
      SDK, Native

\* So do the request goroutine, what it reported, and native.
LEMMA RequestNext ==
  ASSUME TypeOK, SlotInv, RequestInv, [Next]_vars
  PROVE  RequestInv'
<1>types. t \in PromptType /\ serial \in Nat /\ natPrompt \in Nat
  BY DEF TypeOK, PromptTypeOK, NativeTypeOK
<1> USE DEF reqVars, promptVars, natVars
<1>1. CASE Submit
  BY <1>1, <1>types
  DEF Submit, NewPrompt, SlotInv, RequestInv
<1>2. CASE Written
  BY <1>2, PromptFields, <1>types DEF Written, RequestInv
<1>3. CASE Await
  BY <1>3, PromptFields, <1>types DEF Await, RequestInv
<1>4. CASE Leave
  BY <1>4, <1>types
  DEF Leave, NoPrompt, NewPrompt, RequestInv
<1>5. CASE SendRefused
  BY <1>5 DEF SendRefused, Unsubmitted, RequestInv
<1>6. CASE AcquireGate
  BY <1>6 DEF AcquireGate, RequestInv
<1>7. CASE SubmitCallback
  BY <1>7, PromptFields, <1>types
  DEF SubmitCallback, Unsubmitted, SlotInv, RequestInv
<1>8. CASE WriteReturns
  BY <1>8 DEF WriteReturns, SlotInv, RequestInv
<1>9. CASE RequestReturns
  BY <1>9 DEF RequestReturns, RequestInv
<1>10. CASE ContextEnds
  BY <1>10, StepEdits, <1>types DEF ContextEnds, RequestInv
<1>11. CASE Observe
  BY <1>11, StepEdits, <1>types DEF Observe, RequestInv
<1>12. CASE Chunk
  BY <1>12, StepEdits, <1>types DEF Chunk, RequestInv
<1>13. CASE NativeReads
  BY <1>13, <1>types DEF NativeReads, SlotInv, RequestInv
<1>14. CASE \/ Enter
            \/ Begin
            \/ Admit
            \/ Report
            \/ Continue
            \/ EndRun
            \/ InterruptProceeds
            \/ CancelWritten
            \/ CancelAnswered
            \/ CancelFails
            \/ \E r \in Runs : Interrupt(r)
            \/ \E r \in Runs : RetireRun(r)
            \/ \E d \in Deliveries : Deliver(d)
            \/ \E d \in Deliveries : DeliverRejected(d)
            \/ Close
            \/ Lost
            \/ \E named \in BOOLEAN : Drain(named)
            \/ \E r \in Runs, s \in Seeds : StartRun(r, s)
            \/ RequestInterrupt
            \/ CancelContext
            \/ ReturnRun
            \/ \E d \in Deliveries : Capture(d)
            \/ NativeCancels
            \/ \E stop \in Terminals : NativeEnds(stop)
            \/ UNCHANGED vars
  <2>1. UNCHANGED <<request, t, written, natPrompt, serial, active>>
    BY <1>14
    DEF Enter, Begin, Admit, Report, Continue, EndRun, InterruptProceeds,
        CancelWritten, CancelAnswered, CancelFails, Interrupt, RetireRun,
        Deliver, DeliverRejected, Close, Lost, Drain, StartRun,
        RequestInterrupt, CancelContext, ReturnRun, Capture, NativeCancels,
        NativeEnds, vars
  <2>q. QED
    BY <2>1 DEF RequestInv
<1>q. QED
  BY <1>1, <1>2, <1>3, <1>4, <1>5, <1>6, <1>7, <1>8, <1>9, <1>10, <1>11, <1>12,
     <1>13, <1>14
  DEF Next, RunGoroutine, RequestGoroutine, InterruptGoroutine, Callback, Reader,
      SDK, Native

\* A cancel request stays with its prompt.
LEMMA CancelNext ==
  ASSUME TypeOK, SlotInv, RequestInv, CancelInv, [Next]_vars
  PROVE  CancelInv'
<1>types. serial \in Nat /\ natPrompt \in Nat /\ natCancel \in Nat
  BY DEF TypeOK, PromptTypeOK, NativeTypeOK
<1> USE DEF reqVars, promptVars, natVars
<1>1. CASE Submit
  BY <1>1, <1>types
  DEF Submit, SubmitRefused, SlotInv, CancelInv
<1>2. CASE Admit
  BY <1>2, <1>types
  DEF Admit, StartInterrupt, SlotInv, CancelInv
<1>3. CASE Report
  BY <1>3 DEF Report, CancelInv
<1>4. CASE Await
  BY <1>4 DEF Await, CancelInv
<1>5. CASE Leave
  BY <1>5, <1>types DEF Leave, InterruptJoined, CancelInv
<1>6. CASE SendRefused
  BY <1>6
  DEF SendRefused, RequestInv, Unsubmitted, SlotInv, CancelInv
<1>7. CASE AcquireGate
  BY <1>7 DEF AcquireGate, RequestInv, CancelInv
<1>8. CASE SubmitCallback
  BY <1>8
  DEF SubmitCallback, Unsubmitted, RequestInv, SlotInv, CancelInv
<1>9. CASE WriteReturns
  BY <1>9 DEF WriteReturns, RequestInv, CancelInv
<1>10. CASE RequestReturns
  BY <1>10 DEF RequestReturns, RequestInv, CancelInv
<1>11. CASE InterruptProceeds
  BY <1>11 DEF InterruptProceeds, RequestInv, CancelInv
<1>12. CASE CancelWritten
  BY <1>12, <1>types DEF CancelWritten, RequestInv, CancelInv
<1>13. CASE CancelAnswered
  BY <1>13 DEF CancelAnswered, CancelInv
<1>14. CASE CancelFails
  BY <1>14 DEF CancelFails, CancelInv
<1>15. ASSUME NEW r \in Runs, Interrupt(r) PROVE CancelInv'
  BY <1>15, <1>types
  DEF Interrupt, StartInterrupt, SlotInv, CancelInv
<1>16. CASE ContextEnds
  BY <1>16 DEF ContextEnds, CancelInv
<1>17. CASE Lost
  BY <1>17 DEF Lost, CancelInv
<1>18. CASE Observe
  BY <1>18 DEF Observe, CancelInv
<1>19. CASE Chunk
  BY <1>19 DEF Chunk, CancelInv
<1>20. CASE NativeReads
  BY <1>20, <1>types DEF NativeReads, RequestInv, CancelInv
<1>21. CASE NativeCancels
  BY <1>21 DEF NativeCancels, CancelInv
<1>22. CASE \/ Enter
            \/ Begin
            \/ Written
            \/ Continue
            \/ EndRun
            \/ \E r \in Runs : RetireRun(r)
            \/ \E d \in Deliveries : Deliver(d)
            \/ \E d \in Deliveries : DeliverRejected(d)
            \/ Close
            \/ \E named \in BOOLEAN : Drain(named)
            \/ \E r \in Runs, s \in Seeds : StartRun(r, s)
            \/ RequestInterrupt
            \/ CancelContext
            \/ ReturnRun
            \/ \E d \in Deliveries : Capture(d)
            \/ \E stop \in Terminals : NativeEnds(stop)
            \/ UNCHANGED vars
  <2>1. UNCHANGED <<natCancel, natPrompt, failed, interrupt, serial, request,
                    written>>
    BY <1>22
    DEF Enter, Begin, Written, Continue, EndRun, RetireRun, Deliver,
        DeliverRejected, Close, Drain, StartRun, RequestInterrupt,
        CancelContext, ReturnRun, Capture, NativeEnds, vars
  <2>q. QED
    BY <2>1 DEF CancelInv
<1>q. QED
  BY <1>1, <1>2, <1>3, <1>4, <1>5, <1>6, <1>7, <1>8, <1>9, <1>10, <1>11, <1>12,
     <1>13, <1>14, <1>15, <1>16, <1>17, <1>18, <1>19, <1>20, <1>21, <1>22
  DEF Next, RunGoroutine, RequestGoroutine, InterruptGoroutine, Callback, Reader,
      SDK, Native

\* A Run's receipt agrees with what native has of its seed.
LEMMA ReceiptNext ==
  ASSUME TypeOK, SlotInv, RequestInv, ReceiptInv, ReceiptIsTrue, [Next]_vars
  PROVE  (ReceiptInv /\ ReceiptIsTrue)'
<1>types. /\ t \in PromptType /\ serial \in Nat /\ natPrompt \in Nat
          /\ current \in Runs \cup {NoRun} /\ received \in SUBSET Runs
          /\ seed \in [Runs -> Deliveries \cup {Text, NoSeed}]
          /\ receipt \in [Runs -> {"none", "written", "refused", "rejected",
                               "uncertain"}]
  BY DEF TypeOK, SDKTypeOK, PromptTypeOK, NativeTypeOK, HistTypeOK
<1> USE LaneRunAssumption DEF sdkVars, promptVars, goVars, natVars, histVars
<1>1. CASE Enter
  BY <1>1 DEF Enter, SlotInv, ReceiptInv, ReceiptIsTrue
<1>2. CASE Begin
  BY <1>2, <1>types
  DEF Begin, Unavailable, SlotInv, InPrompt, NoPrompt, NewPrompt, ReceiptInv,
      ReceiptIsTrue
<1>3. CASE Submit
  BY <1>3, <1>types
  DEF Submit, RequestInv, SlotInv, NewPrompt, InPrompt, SubmitRefused,
      ReceiptInv, ReceiptIsTrue
<1>4. CASE Written
  BY <1>4, PromptFields, <1>types
  DEF Written, SlotInv, ReceiptInv, ReceiptIsTrue
<1>5. CASE Admit
  BY <1>5 DEF Admit, ReceiptInv, ReceiptIsTrue
<1>6. CASE Report
  BY <1>6, <1>types
  DEF Report, SeedReceipt, RequestInv, SlotInv, InPrompt, ReceiptInv,
      ReceiptIsTrue
<1>7. CASE Await
  BY <1>7, PromptFields, <1>types
  DEF Await, SlotInv, ReceiptInv, ReceiptIsTrue
<1>8. CASE Leave
  BY <1>8, <1>types
  DEF Leave, NoPrompt, NewPrompt, SlotInv, InPrompt, ReceiptInv, ReceiptIsTrue
<1>9. CASE Continue
  BY <1>9
  DEF Continue, SlotInv, InPrompt, ReceiptInv, ReceiptIsTrue
<1>10. CASE EndRun
  BY <1>10
  DEF EndRun, SlotInv, InPrompt, ReceiptInv, ReceiptIsTrue
<1>11. CASE SubmitCallback
  <2>1. /\ UNCHANGED <<seed, received, receipt, current, continuation, pc, active,
                     natPrompt, serial>>
        /\ active
    BY <1>11 DEF SubmitCallback, SlotInv
  <2>2. t' = t \/ t'.attempted = TRUE
    <3>1. CASE t' = [t EXCEPT !.attempted = TRUE]
      BY <3>1, PromptFields, <1>types
    <3>q. QED
      BY <1>11, <3>1 DEF SubmitCallback
  <2>q. QED
    BY <2>1, <2>2 DEF ReceiptInv, ReceiptIsTrue
<1>12. CASE ContextEnds
  BY <1>12, StepEdits, <1>types
  DEF ContextEnds, ReceiptInv, ReceiptIsTrue
<1>13. CASE Observe
  BY <1>13, StepEdits, <1>types
  DEF Observe, ReceiptInv, ReceiptIsTrue
<1>14. CASE Chunk
  BY <1>14, StepEdits, <1>types
  DEF Chunk, ReceiptInv, ReceiptIsTrue
<1>15. ASSUME NEW r \in Runs, NEW s \in Seeds, StartRun(r, s)
       PROVE (ReceiptInv /\ ReceiptIsTrue)'
  BY <1>15, <1>types
  DEF StartRun, SlotInv, Seeds, InPrompt, ReceiptInv, ReceiptIsTrue
<1>16. CASE ReturnRun
  BY <1>16, <1>types
  DEF ReturnRun, ResetLocals, SlotInv, InPrompt, ReceiptInv, ReceiptIsTrue
<1>17. CASE NativeReads
  BY <1>17, <1>types
  DEF NativeReads, RequestInv, SlotInv, InPrompt, ReceiptInv, ReceiptIsTrue
<1>18. CASE \/ SendRefused
            \/ AcquireGate
            \/ WriteReturns
            \/ RequestReturns
            \/ InterruptProceeds
            \/ CancelWritten
            \/ CancelAnswered
            \/ CancelFails
            \/ \E r \in Runs : Interrupt(r)
            \/ \E r \in Runs : RetireRun(r)
            \/ \E d \in Deliveries : Deliver(d)
            \/ \E d \in Deliveries : DeliverRejected(d)
            \/ Close
            \/ Lost
            \/ \E named \in BOOLEAN : Drain(named)
            \/ RequestInterrupt
            \/ CancelContext
            \/ \E d \in Deliveries : Capture(d)
            \/ NativeCancels
            \/ \E stop \in Terminals : NativeEnds(stop)
            \/ UNCHANGED vars
  <2>1. UNCHANGED <<seed, received, receipt, current, continuation, t, pc,
                    active, natPrompt, serial>>
    BY <1>18
    DEF SendRefused, AcquireGate, WriteReturns, RequestReturns,
        InterruptProceeds, CancelWritten, CancelAnswered, CancelFails,
        Interrupt, RetireRun, Deliver, DeliverRejected, Close, Lost, Drain,
        RequestInterrupt, CancelContext, Capture, NativeCancels, NativeEnds,
        vars
  <2>q. QED
    BY <2>1 DEF ReceiptInv, ReceiptIsTrue
<1>q. QED
  BY <1>1, <1>2, <1>3, <1>4, <1>5, <1>6, <1>7, <1>8, <1>9, <1>10, <1>11, <1>12,
     <1>13, <1>14, <1>15, <1>16, <1>17, <1>18
  DEF Next, RunGoroutine, RequestGoroutine, InterruptGoroutine, Callback, Reader,
      SDK, Native

\* An interrupt recorded for an admitted prompt stays on its way to it.
LEMMA InterruptNext ==
  ASSUME TypeOK, SlotInv, RequestInv, InterruptReachesPrompt, [Next]_vars
  PROVE  InterruptReachesPrompt'
<1>types. t \in PromptType
  BY DEF TypeOK, PromptTypeOK
<1> USE DEF sdkVars, reqVars, promptVars, goVars
<1>1. CASE Enter
  BY <1>1 DEF Enter, InterruptReachesPrompt
<1>2. CASE Begin
  BY <1>2 DEF Begin, Unavailable, InterruptReachesPrompt
<1>3. CASE Submit
  BY <1>3 DEF Submit, InterruptReachesPrompt
<1>4. CASE Written
  BY <1>4 DEF Written, InterruptReachesPrompt
<1>5. CASE Admit
  BY <1>5
  DEF Admit, StartInterrupt, SlotInv, InPrompt, RequestInv,
      InterruptReachesPrompt
<1>6. CASE Report
  BY <1>6 DEF Report, InterruptReachesPrompt
<1>7. CASE Await
  BY <1>7 DEF Await, InterruptReachesPrompt
<1>8. CASE Leave
  BY <1>8 DEF Leave, InterruptReachesPrompt
<1>9. CASE Continue
  BY <1>9 DEF Continue, InterruptReachesPrompt
<1>10. CASE EndRun
  BY <1>10 DEF EndRun, InterruptReachesPrompt
<1>11. CASE SendRefused
  BY <1>11
  DEF SendRefused, SlotInv, InPrompt, RequestInv, Unsubmitted,
      InterruptReachesPrompt
<1>12. CASE SubmitCallback
  BY <1>12
  DEF SubmitCallback, SlotInv, InPrompt, RequestInv, Unsubmitted,
      InterruptReachesPrompt
<1>13. CASE WriteReturns
  BY <1>13
  DEF WriteReturns, SlotInv, InPrompt, RequestInv, InterruptReachesPrompt
<1>14. CASE InterruptProceeds
  BY <1>14 DEF InterruptProceeds, InterruptReachesPrompt
<1>15. CASE CancelWritten
  BY <1>15 DEF CancelWritten, InterruptReachesPrompt
<1>16. CASE CancelAnswered
  BY <1>16 DEF CancelAnswered, InterruptReachesPrompt
<1>17. CASE CancelFails
  BY <1>17 DEF CancelFails, InterruptReachesPrompt
<1>18. ASSUME NEW r \in Runs, Interrupt(r) PROVE InterruptReachesPrompt'
  BY <1>18
  DEF Interrupt, StartInterrupt, SlotInv, InPrompt, RequestInv,
      InterruptReachesPrompt
<1>19. CASE ContextEnds
  BY <1>19, StepEdits, <1>types DEF ContextEnds, InterruptReachesPrompt
<1>20. CASE Observe
  BY <1>20, StepEdits, <1>types DEF Observe, InterruptReachesPrompt
<1>21. CASE Chunk
  BY <1>21, StepEdits, <1>types DEF Chunk, InterruptReachesPrompt
<1>22. ASSUME NEW r \in Runs, NEW s \in Seeds, StartRun(r, s)
       PROVE InterruptReachesPrompt'
  BY <1>22 DEF StartRun, InterruptReachesPrompt
<1>23. CASE RequestInterrupt
  BY <1>23 DEF RequestInterrupt, InterruptReachesPrompt
<1>24. CASE ReturnRun
  BY <1>24 DEF ReturnRun, ResetLocals, InterruptReachesPrompt
<1>25. CASE NativeCancels
  BY <1>25 DEF NativeCancels, InterruptReachesPrompt
<1>26. CASE \/ AcquireGate
            \/ RequestReturns
            \/ \E r \in Runs : RetireRun(r)
            \/ \E d \in Deliveries : Deliver(d)
            \/ \E d \in Deliveries : DeliverRejected(d)
            \/ Close
            \/ Lost
            \/ \E named \in BOOLEAN : Drain(named)
            \/ CancelContext
            \/ \E d \in Deliveries : Capture(d)
            \/ NativeReads
            \/ \E stop \in Terminals : NativeEnds(stop)
            \/ UNCHANGED vars
  <2>1. UNCHANGED <<pc, written, t, current, interrupted, calls, interrupt>>
    BY <1>26
    DEF AcquireGate, RequestReturns, RetireRun, Deliver, DeliverRejected, Close,
        Lost, Drain, CancelContext, Capture, NativeReads, NativeEnds, vars
  <2>q. QED
    BY <2>1 DEF InterruptReachesPrompt
<1>q. QED
  BY <1>1, <1>2, <1>3, <1>4, <1>5, <1>6, <1>7, <1>8, <1>9, <1>10, <1>11, <1>12,
     <1>13, <1>14, <1>15, <1>16, <1>17, <1>18, <1>19, <1>20, <1>21, <1>22,
     <1>23, <1>24, <1>25, <1>26
  DEF Next, RunGoroutine, RequestGoroutine, InterruptGoroutine, Callback, Reader,
      SDK, Native

\* Appending to the last part of a concatenation is appending to the whole,
\* and concatenation is associative.
LEMMA AppendConcat ==
  /\ \A s, u \in Seq(Deliveries), d \in Deliveries :
       Append(s \o u, d) = s \o Append(u, d)
  /\ \A s, u, v \in Seq(Deliveries) : (s \o u) \o v = s \o (u \o v)
<1>a. \A s, u, v \in Seq(Deliveries) : (s \o u) \o v = s \o (u \o v)
  BY ConcatAssociative
<1> SUFFICES ASSUME NEW s \in Seq(Deliveries), NEW u \in Seq(Deliveries),
                    NEW d \in Deliveries
             PROVE  Append(s \o u, d) = s \o Append(u, d)
  BY <1>a
<1>1. <<d>> \in Seq(Deliveries) /\ s \o u \in Seq(Deliveries)
  BY InputSeqs
<1>2. Append(s \o u, d) = (s \o u) \o <<d>> /\ Append(u, d) = u \o <<d>>
  BY <1>1, AppendIsConcat
<1>q. QED
  BY <1>1, <1>2, <1>a

\* What a pull leaves owned was owned before it.
LEMMA KeepElements ==
  ASSUME staged \in Seq(Deliveries), NEW limit \in Nat
  PROVE  \A i \in DOMAIN Keep(limit) :
           \E j \in DOMAIN staged : Keep(limit)[i] = staged[j]
<1> DEFINE n == Len(staged)
           k == AtMost(limit, n)
<1>1. n \in Nat /\ k \in 0..n /\ DOMAIN staged = 1..n
  BY LenProperties DEF AtMost
<1>2. \A i \in 1..n : staged[i] \in Deliveries
  BY ElementOfSeq
<1>3. /\ SubSeq(staged, k + 1, n) \in Seq(Deliveries)
      /\ Len(SubSeq(staged, k + 1, n)) = n - k
      /\ \A i \in 1 .. n - k : SubSeq(staged, k + 1, n)[i] = staged[k + i]
  <2>1. \A i \in k + 1 .. n : staged[i] \in Deliveries
    BY <1>1, <1>2
  <2>2. k + 1 \in Int /\ n \in Int
    BY <1>1
  <2>q. QED
    BY <1>1, <2>1, <2>2, SubSeqProperties
<1>4. DOMAIN SubSeq(staged, k + 1, n) = 1 .. n - k
  BY <1>3, LenProperties
<1>5. \A i \in 1 .. n - k : k + i \in DOMAIN staged
  BY <1>1
<1>q. QED
  BY <1>3, <1>4, <1>5 DEF Keep

\* The Run's admitted input stays split between what native was given, the
\* pending continuation and what is owned, in that order.
LEMMA InputNext ==
  ASSUME TypeOK, SlotInv, RequestInv, InputInv, [Next]_vars
  PROVE  InputInv'
<1>types. /\ t \in PromptType /\ current \in Runs \cup {NoRun}
          /\ seed \in [Runs -> Deliveries \cup {Text, NoSeed}]
          /\ captured \in [Deliveries -> Runs \cup {NoRun, Idle}]
          /\ batch \in Seq(Deliveries) /\ staged \in Seq(Deliveries)
          /\ accepted \in [Runs -> Seq(Deliveries)]
          /\ handed \in [Runs -> Seq(Deliveries)]
  BY DEF TypeOK, SDKTypeOK, LaneTypeOK, PromptTypeOK, GoTypeOK, HistTypeOK
<1>seqs. \A s \in Seq(Deliveries) : s \o <<>> = s /\ <<>> \o s = s
  BY ConcatEmptySeq
<1> USE DEF sdkVars, daemonVars, inputVars, promptVars, goVars, histVars
<1>1. CASE Enter
  BY <1>1
  DEF Enter, SlotInv, InPrompt, Owning, InputInv
<1>2. CASE Begin
  <2>1. pc = "begin" /\ batch = <<>> /\ staged = <<>>
        /\ accepted[current] = <<>> /\ handed[current] = <<>>
    BY <1>2 DEF Begin, InputInv, InPrompt, Owning
  <2>2. (handed[current] \o batch) \o staged = accepted[current]
    BY <2>1, <1>seqs
  <2>q. QED
    BY <1>2, <2>1, <2>2
    DEF Begin, Unavailable, InputInv, InPrompt, Owning, SlotInv
<1>3. CASE Submit
  BY <1>3
  DEF Submit, SlotInv, InPrompt, Owning, NewPrompt, InputInv
<1>4. CASE Written
  <2>1. /\ UNCHANGED <<current, active, err, seed, batch, staged, captured, accepted,
                     handed>>
        /\ pc \in InPrompt /\ pc' \in InPrompt
    BY <1>4 DEF Written, InPrompt
  <2>2. t'.attempted = t.attempted
    BY <1>4, PromptFields, <1>types DEF Written
  <2>q. QED
    BY <2>1, <2>2 DEF InputInv, InPrompt, Owning
<1>5. CASE Admit
  BY <1>5
  DEF Admit, SlotInv, InPrompt, Owning, InputInv
<1>6. CASE Report
  BY <1>6
  DEF Report, SlotInv, InPrompt, Owning, InputInv
<1>7. CASE Await
  BY <1>7, PromptFields, <1>types
  DEF Await, SlotInv, InPrompt, Owning, InputInv
<1>8. CASE Leave
  <2>1. /\ UNCHANGED <<current, seed, batch, staged, captured, accepted, handed>>
        /\ pc = "join" /\ pc' = "settle" /\ ~active' /\ ~t'.attempted
    BY <1>8 DEF Leave, NoPrompt, NewPrompt
  <2>2. err' = "none" => t.attempted
    BY <1>8 DEF Leave, SlotInv, InPrompt, RequestInv, TypeOK, PromptTypeOK
  <2>q. QED
    BY <2>1, <2>2 DEF InputInv, InPrompt, Owning
<1>9. CASE Continue
  <2>1. pc = "settle" /\ err = "none" /\ staged' = <<>> /\ pc' = "submit"
        /\ batch' = Take(Len(staged))
    BY <1>9 DEF Continue, NextBatch
  <2>2. batch = <<>> /\ accepted[current] = (handed[current] \o batch) \o staged
    BY <2>1 DEF InputInv, Owning
  <2>3. Take(Len(staged)) = staged
    BY <1>types, SubSeqFull, LenProperties DEF Take, AtMost
  <2>4. handed[current] \in Seq(Deliveries)
    BY <1>types, <2>1 DEF SlotInv
  <2>5. accepted[current] = (handed[current] \o batch') \o staged'
    BY <2>1, <2>2, <2>3, <2>4, <1>types, <1>seqs, InputSeqs
  <2>q. QED
    <3>1. /\ UNCHANGED <<current, active, t, err, seed, captured, accepted, handed>>
          /\ ~active /\ ~t.attempted
      BY <1>9, <2>1 DEF Continue, SlotInv, InPrompt, NoPrompt, NewPrompt
    <3>q. QED
      BY <2>1, <2>5, <3>1 DEF InputInv, InPrompt, Owning
<1>10. CASE EndRun
  BY <1>10
  DEF EndRun, SlotInv, InPrompt, Owning, InputInv
<1>11. CASE SubmitCallback
  <2>1. /\ active /\ pc \in InPrompt /\ t.run = current /\ current \in Runs
        /\ ~t.attempted /\ staged = <<>>
        /\ UNCHANGED <<current, pc, active, err, seed, staged, captured, accepted>>
    BY <1>11, <1>types, LaneRunAssumption
    DEF SubmitCallback, SlotInv, InPrompt, RequestInv, InputInv
  <2>2. CASE t' = t /\ UNCHANGED <<batch, handed>>
    BY <2>1, <2>2 DEF InputInv
  <2>3. CASE /\ t' = [t EXCEPT !.attempted = TRUE] /\ batch' = <<>>
             /\ handed' = [handed EXCEPT ![current] = @ \o batch]
    <3>1. t'.attempted = TRUE
      BY <2>3, <1>types, PromptFields
    <3>2. handed'[current] = handed[current] \o batch
          /\ \A r \in Runs \ {current} : handed'[r] = handed[r]
      BY <2>1, <2>3, <1>types
    <3>3. accepted[current] = (handed[current] \o batch) \o staged
      BY <2>1 DEF InputInv, Owning
    <3>4. handed'[current] \in Seq(Deliveries)
      BY <2>1, <3>2, <1>types, InputSeqs
    <3>5. accepted[current] = (handed'[current] \o batch') \o staged'
      BY <2>1, <2>3, <3>2, <3>3, <3>4, <1>seqs
    <3>q. QED
      BY <2>1, <2>3, <3>1, <3>2, <3>5 DEF InputInv, SlotInv, InPrompt, Owning
  <2>q. QED
    BY <1>11, <2>1, <2>2, <2>3 DEF SubmitCallback
<1>12. ASSUME NEW d \in Deliveries, Deliver(d) PROVE InputInv'
  <2>1. CASE StaleRun(d) \/ CannotOwn(d)
    BY <1>12, <2>1 DEF Deliver, InputInv
  <2>2. CASE ~StaleRun(d) /\ ~CannotOwn(d)
    <3>1. /\ active /\ pc \in InPrompt /\ t.run = current /\ current \in Runs
          /\ captured[d] = current /\ t.attempted /\ batch = <<>>
      BY <2>2, <1>types DEF CannotOwn, SlotInv, InPrompt, InputInv
    <3>2. /\ UNCHANGED <<current, pc, active, t, err, seed, batch, captured, handed>>
          /\ staged' = Append(staged, d)
          /\ accepted' = [accepted EXCEPT ![current] = Append(@, d)]
      BY <1>12, <2>2, <3>1 DEF Deliver
    <3>3. accepted'[current] = Append(accepted[current], d)
          /\ \A r \in Runs \ {current} : accepted'[r] = accepted[r]
      BY <3>1, <3>2, <1>types
    <3>4. accepted[current] = (handed[current] \o batch) \o staged
      BY <3>1 DEF InputInv, Owning
    <3>5. handed[current] \o batch \in Seq(Deliveries)
      BY <3>1, <1>types, InputSeqs
    <3>6. Append(accepted[current], d)
              = (handed[current] \o batch) \o Append(staged, d)
      <4>1. Append((handed[current] \o batch) \o staged, d)
              = (handed[current] \o batch) \o Append(staged, d)
        BY <3>5, <1>types, AppendConcat
      <4>q. QED
        BY <3>4, <4>1
    <3>7. \A i \in DOMAIN staged' : captured'[staged'[i]] = current'
      <4>1. \A i \in DOMAIN staged' :
             \/ i \in DOMAIN staged /\ staged'[i] = staged[i]
             \/ staged'[i] = d
        <5>1. /\ Len(staged) \in Nat /\ DOMAIN staged = 1 .. Len(staged)
              /\ DOMAIN Append(staged, d) = 1 .. Len(staged) + 1
          BY <1>types, AppendProperties, LenProperties
        <5>2. /\ \A i \in 1 .. Len(staged) : Append(staged, d)[i] = staged[i]
              /\ Append(staged, d)[Len(staged) + 1] = d
          BY <1>types, AppendProperties
        <5>q. QED
          BY <3>2, <5>1, <5>2
      <4>q. QED
        BY <4>1, <3>1, <3>2 DEF InputInv
    <3>q. QED
      BY <3>1, <3>2, <3>3, <3>4, <3>6, <3>7
      DEF InputInv, SlotInv, InPrompt, Owning
  <2>q. QED
    BY <2>1, <2>2
<1>13. CASE ContextEnds
  BY <1>13, StepEdits, <1>types
  DEF ContextEnds, SlotInv, InPrompt, Owning, InputInv
<1>14. CASE Observe
  BY <1>14, StepEdits, <1>types
  DEF Observe, SlotInv, InPrompt, Owning, InputInv
<1>15. CASE Chunk
  BY <1>15, StepEdits, <1>types
  DEF Chunk, SlotInv, InPrompt, Owning, InputInv
<1>16. ASSUME NEW named \in BOOLEAN, Drain(named) PROVE InputInv'
  <2>1. CASE ~MayPull(named)
    BY <1>16, <2>1 DEF Drain, InputInv
  <2>2. CASE MayPull(named)
    <3>1. /\ active /\ pc \in InPrompt /\ t.run = current /\ current \in Runs
          /\ t.attempted /\ batch = <<>> /\ ~named
      BY <2>2, <1>types DEF MayPull, SlotInv, InPrompt, InputInv
    <3>2. /\ UNCHANGED <<current, pc, active, t, err, seed, batch, captured,
                       accepted>>
          /\ staged' = Keep(MaxDrain)
          /\ handed' = [handed EXCEPT ![current] = @ \o Take(MaxDrain)]
      BY <1>16, <2>2, <3>1 DEF Drain
    <3>3. handed'[current] = handed[current] \o Take(MaxDrain)
          /\ \A r \in Runs \ {current} : handed'[r] = handed[r]
      BY <3>1, <3>2, <1>types
    <3>4. accepted[current] = (handed[current] \o batch) \o staged
      BY <3>1 DEF InputInv, Owning
    <3>5. /\ Take(MaxDrain) \in Seq(Deliveries) /\ Keep(MaxDrain) \in Seq(Deliveries)
          /\ Take(MaxDrain) \o Keep(MaxDrain) = staged
          /\ handed[current] \in Seq(Deliveries)
      BY <3>1, <1>types, LaneRunAssumption, TakeKeep
    <3>6. accepted[current] = (handed[current] \o Take(MaxDrain)) \o Keep(MaxDrain)
      <4>1. handed[current] \o batch = handed[current]
        BY <3>1, <3>5, <1>seqs
      <4>2. accepted[current] = handed[current] \o (Take(MaxDrain) \o Keep(MaxDrain))
        BY <3>4, <3>5, <4>1
      <4>q. QED
        BY <4>2, <3>5, AppendConcat
    <3>7. handed[current] \o Take(MaxDrain)
              = (handed[current] \o Take(MaxDrain)) \o batch
      BY <3>1, <3>5, <1>seqs, InputSeqs
    <3>8. \A i \in DOMAIN Keep(MaxDrain) :
            \E j \in DOMAIN staged : Keep(MaxDrain)[i] = staged[j]
      BY <1>types, LaneRunAssumption, KeepElements
    <3>q. QED
      <4>1. \A i \in DOMAIN staged' : captured'[staged'[i]] = current'
        BY <3>2, <3>8 DEF InputInv
      <4>2. accepted'[current'] = (handed'[current'] \o batch') \o staged'
        BY <3>2, <3>3, <3>6, <3>7
      <4>q. QED
        BY <3>1, <3>2, <3>3, <4>1, <4>2 DEF InputInv, SlotInv, InPrompt, Owning
  <2>q. QED
    BY <2>1, <2>2
<1>17. ASSUME NEW r \in Runs, NEW s \in Seeds, StartRun(r, s) PROVE InputInv'
  BY <1>17, <1>types, LaneRunAssumption
  DEF StartRun, SlotInv, InPrompt, Owning, Seeds, InputInv
<1>18. CASE ReturnRun
  BY <1>18
  DEF ReturnRun, SlotInv, InPrompt, Owning, ResetLocals, InputInv
<1>19. ASSUME NEW d \in Deliveries, Capture(d) PROVE InputInv'
  <2>1. UNCHANGED <<current, pc, active, t, err, seed, batch, staged, accepted,
                    handed>>
    BY <1>19 DEF Capture
  <2>2. \A i \in DOMAIN staged :
             staged[i] \in Deliveries /\ captured[staged[i]] # Idle
    BY <1>types, ElementOfSeq, LenProperties, LaneRunAssumption
    DEF InputInv, SlotInv, InPrompt
  <2>3. \A i \in DOMAIN staged : captured'[staged[i]] = captured[staged[i]]
    BY <1>19, <2>2, <1>types DEF Capture
  <2>q. QED
    BY <2>1, <2>3 DEF InputInv
<1>20. CASE \/ SendRefused
            \/ AcquireGate
            \/ WriteReturns
            \/ RequestReturns
            \/ InterruptProceeds
            \/ CancelWritten
            \/ CancelAnswered
            \/ CancelFails
            \/ \E r \in Runs : Interrupt(r)
            \/ \E r \in Runs : RetireRun(r)
            \/ \E d \in Deliveries : DeliverRejected(d)
            \/ Close
            \/ Lost
            \/ RequestInterrupt
            \/ CancelContext
            \/ NativeReads
            \/ NativeCancels
            \/ \E stop \in Terminals : NativeEnds(stop)
            \/ UNCHANGED vars
  <2>1. UNCHANGED <<current, pc, active, t, err, seed, batch, staged, captured,
                    accepted, handed>>
    BY <1>20
    DEF SendRefused, AcquireGate, WriteReturns, RequestReturns,
        InterruptProceeds, CancelWritten, CancelAnswered, CancelFails,
        Interrupt, RetireRun, DeliverRejected, Close, Lost, RequestInterrupt,
        CancelContext, NativeReads, NativeCancels, NativeEnds, vars
  <2>q. QED
    BY <2>1 DEF InputInv
<1>q. QED
  BY <1>1, <1>2, <1>3, <1>4, <1>5, <1>6, <1>7, <1>8, <1>9, <1>10, <1>11, <1>12,
     <1>13, <1>14, <1>15, <1>16, <1>17, <1>18, <1>19, <1>20
  DEF Next, RunGoroutine, RequestGoroutine, InterruptGoroutine, Callback, Reader,
      SDK, Native

\* A sequence is the prefix of what is appended to it, and the prefixes of a
\* sequence stay its prefixes.
LEMMA PrefixOfConcat ==
  ASSUME NEW s \in Seq(Deliveries), NEW u \in Seq(Deliveries)
  PROVE  Len(s) <= Len(s \o u) /\ s = SubSeq(s \o u, 1, Len(s))
<1>1. Len(s) \in Nat /\ Len(u) \in Nat /\ Len(s \o u) = Len(s) + Len(u)
  BY LenProperties, ConcatProperties
<1>2. CASE Len(s) = 0
  BY <1>1, <1>2, EmptySeq, SubSeqEmpty
<1>3. CASE Len(s) # 0
  <2>1. 1 \in 1 .. Len(s) /\ Len(s) \in 1 .. Len(s)
    BY <1>1, <1>3
  <2>2. SubSeq(s \o u, 1, Len(s)) = SubSeq(s, 1, Len(s))
    BY <2>1, SubSeqOfConcat1
  <2>q. QED
    BY <1>1, <2>2, SubSeqFull
<1>q. QED
  BY <1>2, <1>3

\* Appending an element to a sequence keeps its prefixes.
LEMMA PrefixOfAppend ==
  ASSUME NEW s \in Seq(Deliveries), NEW d \in Deliveries, NEW n \in 0 .. Len(s)
  PROVE  /\ SubSeq(Append(s, d), 1, n) = SubSeq(s, 1, n)
         /\ n <= Len(Append(s, d))
<1>1. Len(s) \in Nat /\ Len(Append(s, d)) = Len(s) + 1
  BY LenProperties, AppendProperties
<1>2. <<d>> \in Seq(Deliveries) /\ Append(s, d) = s \o <<d>>
  BY InputSeqs, AppendIsConcat
<1>3. CASE n = 0
  BY <1>3, SubSeqEmpty
<1>4. CASE n # 0
  <2>1. 1 \in 1 .. Len(s) /\ n \in 1 .. Len(s)
    BY <1>1, <1>4
  <2>q. QED
    BY <1>2, <2>1, SubSeqOfConcat1
<1>q. QED
  BY <1>1, <1>3, <1>4

\* What native was given stays a prefix of what the Run admitted.
LEMMA OrderNext ==
  ASSUME TypeOK, TypeOK', SlotInv, RequestInv, InputInv, InputInv', InputInOrder,
         [Next]_vars
  PROVE  InputInOrder'
<1>types. /\ current \in Runs \cup {NoRun}
          /\ accepted \in [Runs -> Seq(Deliveries)]
          /\ handed \in [Runs -> Seq(Deliveries)]
  BY DEF TypeOK, SDKTypeOK, HistTypeOK
<1>types2. /\ batch' \in Seq(Deliveries) /\ staged' \in Seq(Deliveries)
           /\ handed' \in [Runs -> Seq(Deliveries)]
  BY DEF TypeOK, LaneTypeOK, GoTypeOK, HistTypeOK
<1> USE DEF sdkVars, goVars, histVars
<1>handed. ASSUME UNCHANGED <<current, pc, accepted>>,
                  handed' = handed \/ (/\ pc \in Owning /\ t.run = current
                                      /\ current \in Runs),
                  \A r \in Runs \ {t.run} : handed'[r] = handed[r]
           PROVE  InputInOrder'
  <2>1. CASE handed' = handed
    BY <1>handed, <2>1 DEF InputInOrder
  <2>2. CASE /\ pc \in Owning /\ t.run = current /\ current \in Runs
    <3>1. accepted'[current] = (handed'[current] \o batch') \o staged'
      BY <1>handed, <2>2 DEF InputInv
    <3>2. handed'[current] \in Seq(Deliveries)
      BY <2>2, <1>types2
    <3>3. accepted'[current] = handed'[current] \o (batch' \o staged')
          /\ batch' \o staged' \in Seq(Deliveries)
      BY <3>1, <3>2, <1>types2, AppendConcat, InputSeqs
    <3>4. /\ Len(handed'[current]) <= Len(accepted'[current])
          /\ handed'[current] = SubSeq(accepted'[current], 1, Len(handed'[current]))
      BY <3>2, <3>3, PrefixOfConcat
    <3>q. QED
      BY <1>handed, <2>2, <3>4 DEF InputInOrder
  <2>q. QED
    BY <1>handed, <2>1, <2>2
<1>1. CASE SubmitCallback
  <2>1. /\ UNCHANGED <<current, pc, accepted>>
        /\ handed' = handed \/ (/\ pc \in Owning /\ t.run = current
                                /\ current \in Runs)
        /\ \A r \in Runs \ {t.run} : handed'[r] = handed[r]
    BY <1>1, <1>types, LaneRunAssumption
    DEF SubmitCallback, SlotInv, InPrompt, Owning
  <2>q. QED
    BY <2>1, <1>handed
<1>2. ASSUME NEW d \in Deliveries, Deliver(d) PROVE InputInOrder'
  <2>1. accepted' = accepted
        \/ accepted' = [accepted EXCEPT ![captured[d]] = Append(@, d)]
    BY <1>2 DEF Deliver
  <2>2. handed' = handed
    BY <1>2 DEF Deliver
  <2>3. ASSUME NEW r \in Runs
        PROVE  accepted'[r] = accepted[r] \/ accepted'[r] = Append(accepted[r], d)
    BY <2>1, <1>types
  <2>4. ASSUME NEW r \in Runs
        PROVE  /\ Len(handed'[r]) <= Len(accepted'[r])
               /\ handed'[r] = SubSeq(accepted'[r], 1, Len(handed'[r]))
    <3>1. /\ Len(handed[r]) <= Len(accepted[r])
          /\ handed[r] = SubSeq(accepted[r], 1, Len(handed[r]))
      BY DEF InputInOrder
    <3>2. /\ Len(handed[r]) \in 0 .. Len(accepted[r])
          /\ accepted[r] \in Seq(Deliveries)
      BY <3>1, <1>types, LenProperties
    <3>3. /\ SubSeq(Append(accepted[r], d), 1, Len(handed[r]))
                = SubSeq(accepted[r], 1, Len(handed[r]))
          /\ Len(handed[r]) <= Len(Append(accepted[r], d))
      BY <3>2, PrefixOfAppend
    <3>q. QED
      BY <2>2, <2>3, <3>1, <3>3
  <2>q. QED
    BY <2>4 DEF InputInOrder
<1>3. ASSUME NEW named \in BOOLEAN, Drain(named) PROVE InputInOrder'
  <2>1. /\ UNCHANGED <<current, pc, accepted>>
        /\ handed' = handed \/ (/\ pc \in Owning /\ t.run = current
                                /\ current \in Runs)
        /\ \A r \in Runs \ {t.run} : handed'[r] = handed[r]
    BY <1>3, <1>types, LaneRunAssumption
    DEF Drain, MayPull, SlotInv, InPrompt, Owning
  <2>q. QED
    BY <2>1, <1>handed
<1>4. CASE \/ Enter
           \/ Begin
           \/ Submit
           \/ Written
           \/ Admit
           \/ Report
           \/ Await
           \/ Leave
           \/ Continue
           \/ EndRun
           \/ SendRefused
           \/ AcquireGate
           \/ WriteReturns
           \/ RequestReturns
           \/ InterruptProceeds
           \/ CancelWritten
           \/ CancelAnswered
           \/ CancelFails
           \/ \E r \in Runs : Interrupt(r)
           \/ \E r \in Runs : RetireRun(r)
           \/ \E d \in Deliveries : DeliverRejected(d)
           \/ ContextEnds
           \/ Close
           \/ Lost
           \/ Observe
           \/ Chunk
           \/ \E r \in Runs, s \in Seeds : StartRun(r, s)
           \/ RequestInterrupt
           \/ CancelContext
           \/ ReturnRun
           \/ \E d \in Deliveries : Capture(d)
           \/ NativeReads
           \/ NativeCancels
           \/ \E stop \in Terminals : NativeEnds(stop)
           \/ UNCHANGED vars
  <2>1. UNCHANGED <<accepted, handed>>
    BY <1>4
    DEF Enter, Begin, Submit, Written, Admit, Report, Await, Leave, Continue,
        EndRun, SendRefused, AcquireGate, WriteReturns, RequestReturns,
        InterruptProceeds, CancelWritten, CancelAnswered, CancelFails,
        Interrupt, RetireRun, DeliverRejected, ContextEnds, Close, Lost,
        Observe, Chunk, StartRun, RequestInterrupt, CancelContext, ReturnRun,
        Capture, NativeReads, NativeCancels, NativeEnds, vars
  <2>q. QED
    BY <2>1 DEF InputInOrder
<1>q. QED
  BY <1>1, <1>2, <1>3, <1>4
  DEF Next, RunGoroutine, RequestGoroutine, InterruptGoroutine, Callback, Reader,
      SDK, Native

\* The inductive invariant holds of an idle lane.
LEMMA InvariantInit == Init => IInv
<1> SUFFICES ASSUME Init PROVE IInv
  OBVIOUS
<1>1. TypeOK
  BY TypeInit
<1>2. SlotInv /\ RequestInv /\ CancelInv
  BY DEF Init, SlotInv, InPrompt, RequestInv, CancelInv, NoPrompt, NewPrompt
<1>3. ReceiptInv /\ ReceiptIsTrue
  BY DEF Init, ReceiptInv, ReceiptIsTrue
<1>4. InterruptReachesPrompt
  BY DEF Init, InterruptReachesPrompt
<1>5. InputInv
  BY ConcatEmptySeq, InputSeqs
  DEF Init, InputInv, InPrompt, Owning, NoPrompt, NewPrompt
<1>6. InputInOrder
  BY InputSeqs, EmptySeq, SubSeqEmpty DEF Init, InputInOrder
<1>q. QED
  BY <1>1, <1>2, <1>3, <1>4, <1>5, <1>6 DEF IInv

\* Every step of every goroutine preserves it.
LEMMA InvariantNext == IInv /\ [Next]_vars => IInv'
<1> SUFFICES ASSUME IInv, [Next]_vars PROVE IInv'
  OBVIOUS
<1>1. TypeOK' /\ SlotInv' /\ RequestInv' /\ CancelInv'
  BY TypeNext, SlotNext, RequestNext, CancelNext DEF IInv
<1>2. (ReceiptInv /\ ReceiptIsTrue)' /\ InterruptReachesPrompt'
  BY ReceiptNext, InterruptNext DEF IInv
<1>3. InputInv'
  BY InputNext DEF IInv
<1>4. InputInOrder'
  BY <1>1, <1>3, OrderNext DEF IInv
<1>q. QED
  BY <1>1, <1>2, <1>3, <1>4 DEF IInv

\* The inductive invariant: what the Run slot, the prompt and its goroutines,
\* native and the owned input always tell of each other.
THEOREM Invariant == Spec => []IInv
  BY InvariantInit, InvariantNext, PTL DEF Spec

\* Every variable of the lane keeps its type, whatever the order of its
\* goroutines' steps and whatever the bounds.
THEOREM TypeCorrect == Spec => []TypeOK
<1>1. IInv => TypeOK
  BY DEF IInv
<1>q. QED
  BY <1>1, Invariant, PTL

\* submitPrompt joins the interrupt before it retires the prompt, so a cancel
\* request native has yet to process never meets a later prompt.
THEOREM CancelIsolation == Spec => []CancelStaysWithItsPrompt
<1>1. IInv => CancelStaysWithItsPrompt
  BY DEF IInv, CancelInv, CancelStaysWithItsPrompt
<1>q. QED
  BY <1>1, Invariant, PTL

\* submitPrompt reports "written" for a Run's seed only when native has all of
\* it, and a rejection only when it never will.
THEOREM ReceiptTruth == Spec => []ReceiptIsTrue
<1>1. IInv => ReceiptIsTrue
  BY DEF IInv
<1>q. QED
  BY <1>1, Invariant, PTL

\* Between the SDK's record of an interrupt, its callback and the admission of
\* the prompt, no order of steps loses the interrupt.
THEOREM InterruptNotLost == Spec => []InterruptReachesPrompt
<1>1. IInv => InterruptReachesPrompt
  BY DEF IInv
<1>q. QED
  BY <1>1, Invariant, PTL

\* Pulls, continuations and refusals may come in any order: native is given a
\* Run's input in the order it was admitted, none twice and none skipped.
THEOREM InputOrder == Spec => []InputInOrder
<1>1. IInv => InputInOrder
  BY DEF IInv
<1>q. QED
  BY <1>1, Invariant, PTL

\* However a Run ended, no input it owned is left for a later one.
THEOREM NoInputCarriedOver == Spec => []NothingCarriedOver
<1>1. IInv => NothingCarriedOver
  BY DEF IInv, InputInv, InPrompt, NothingCarriedOver
<1>q. QED
  BY <1>1, Invariant, PTL

-----------------------------------------------------------------------------
(* What an interrupt stops                                                   *)

\* Only a continuation carries input of its own.
BatchInv == ~continuation => batch = <<>>

LEMMA BatchStep ==
  ASSUME BatchInv, [Next]_vars
  PROVE  BatchInv'
<1> USE DEF BatchInv
<1>1. CASE UNCHANGED <<continuation, batch>>
  BY <1>1
<1>2. CASE Continue
  BY <1>2 DEF Continue, goVars
<1>3. CASE EndRun
  BY <1>3 DEF EndRun, goVars
<1>4. CASE SubmitCallback
  BY <1>4 DEF SubmitCallback, Unsubmitted, goVars
<1>5. CASE ReturnRun
  BY <1>5 DEF ReturnRun, ResetLocals, goVars
<1>6. Enter \/ Begin \/ Submit \/ Written \/ Admit \/ Report \/ Await \/ Leave =>
          UNCHANGED <<continuation, batch>>
  BY DEF Enter, Begin, Submit, Written, Admit, Report, Await, Leave, Unavailable,
      goVars
<1>7. SendRefused \/ AcquireGate \/ WriteReturns \/ RequestReturns => UNCHANGED
          <<continuation, batch>>
  BY DEF SendRefused, AcquireGate, WriteReturns, RequestReturns, Unsubmitted, goVars
<1>8. InterruptProceeds \/ CancelWritten \/ CancelAnswered \/ CancelFails =>
          UNCHANGED <<continuation, batch>>
  BY DEF InterruptProceeds, CancelWritten, CancelAnswered, CancelFails, goVars
<1>9. ASSUME NEW r \in Runs, Interrupt(r) \/ RetireRun(r)
      PROVE  UNCHANGED <<continuation, batch>>
  BY <1>9 DEF Interrupt, RetireRun, goVars
<1>10. ASSUME NEW d \in Deliveries, Deliver(d) \/ DeliverRejected(d) \/ Capture(d)
      PROVE  UNCHANGED <<continuation, batch>>
  BY <1>10 DEF Deliver, DeliverRejected, Capture, goVars
<1>11. ContextEnds \/ Close \/ Lost => UNCHANGED <<continuation, batch>>
  BY DEF ContextEnds, Close, Lost, goVars
<1>12. Observe \/ Chunk => UNCHANGED <<continuation, batch>>
  BY DEF Observe, Chunk, goVars
<1>13. ASSUME NEW named \in BOOLEAN, Drain(named)
      PROVE  UNCHANGED <<continuation, batch>>
  BY <1>13 DEF Drain, goVars
<1>14. ASSUME NEW r \in Runs, NEW s \in Seeds, StartRun(r, s)
      PROVE  UNCHANGED <<continuation, batch>>
  BY <1>14 DEF StartRun, goVars
<1>15. RequestInterrupt \/ CancelContext => UNCHANGED <<continuation, batch>>
  BY DEF RequestInterrupt, CancelContext, goVars
<1>16. NativeReads \/ NativeCancels => UNCHANGED <<continuation, batch>>
  BY DEF NativeReads, NativeCancels, goVars
<1>17. ASSUME NEW stop \in Terminals, NativeEnds(stop)
      PROVE  UNCHANGED <<continuation, batch>>
  BY <1>17 DEF NativeEnds, goVars
<1>18. UNCHANGED vars => UNCHANGED <<continuation, batch>>
  BY DEF vars, goVars
<1>q. QED
  BY <1>1, <1>2, <1>3, <1>4, <1>5, <1>6, <1>7, <1>8, <1>9, <1>10, <1>11, <1>12,
      <1>13, <1>14, <1>15, <1>16, <1>17, <1>18
  DEF Next, RunGoroutine, RequestGoroutine, InterruptGoroutine, Callback,
      Reader, SDK, Native

\* A pull asks whether the Run is interrupted, and so does the submit callback of a continuation.
LEMMA HandedAfterInterrupt ==
  ASSUME IInv, BatchInv, [Next]_vars, NEW x \in interrupted
  PROVE  handed'[x] = handed[x]
<1>types. x \in Runs /\ handed \in [Runs -> Seq(Deliveries)]
  BY DEF IInv, TypeOK, SDKTypeOK, HistTypeOK
<1>1. CASE UNCHANGED handed
  BY <1>1
<1>2. CASE SubmitCallback
  <2>1. t.run = current
    BY <1>2 DEF SubmitCallback, IInv, SlotInv, RequestInv
  <2>2. CASE ~continuation
    <3>1. handed' = handed \/ handed' = [handed EXCEPT ![t.run] = @ \o <<>>]
      BY <1>2, <2>2 DEF SubmitCallback, BatchInv
    <3>q. QED
      BY <1>types, <3>1, ConcatEmptySeq
  <2>3. CASE current \notin interrupted
    BY <1>2, <1>types, <2>1, <2>3 DEF SubmitCallback
  <2>4. CASE UNCHANGED handed
    BY <2>4
  <2>5. ~continuation \/ current \notin interrupted \/ UNCHANGED handed
    BY <1>2 DEF SubmitCallback
  <2>q. QED
    BY <2>2, <2>3, <2>4, <2>5
<1>3. ASSUME NEW named \in BOOLEAN, Drain(named)
      PROVE  handed'[x] = handed[x]
  <2>1. CASE MayPull(named)
    BY <1>3, <1>types, <2>1 DEF Drain, MayPull
  <2>2. CASE ~MayPull(named)
    BY <1>3, <2>2 DEF Drain
  <2>q. QED
    BY <2>1, <2>2
<1>4. Enter \/ Begin \/ Submit \/ Written \/ Admit \/ Report \/ Await \/ Leave \/
          Continue \/ EndRun => UNCHANGED handed
  BY DEF Enter, Begin, Submit, Written, Admit, Report, Await, Leave, Continue,
      EndRun, Unavailable, histVars
<1>5. SendRefused \/ AcquireGate \/ WriteReturns \/ RequestReturns => UNCHANGED
          handed
  BY DEF SendRefused, AcquireGate, WriteReturns, RequestReturns, Unsubmitted,
      histVars
<1>6. InterruptProceeds \/ CancelWritten \/ CancelAnswered \/ CancelFails =>
          UNCHANGED handed
  BY DEF InterruptProceeds, CancelWritten, CancelAnswered, CancelFails, histVars
<1>7. ASSUME NEW r \in Runs, Interrupt(r) \/ RetireRun(r)
      PROVE  UNCHANGED handed
  BY <1>7 DEF Interrupt, RetireRun, histVars
<1>8. ASSUME NEW d \in Deliveries, Deliver(d) \/ DeliverRejected(d) \/ Capture(d)
      PROVE  UNCHANGED handed
  BY <1>8 DEF Deliver, DeliverRejected, Capture, histVars
<1>9. ContextEnds \/ Close \/ Lost => UNCHANGED handed
  BY DEF ContextEnds, Close, Lost, histVars
<1>10. Observe \/ Chunk => UNCHANGED handed
  BY DEF Observe, Chunk, histVars
<1>11. ASSUME NEW r \in Runs, NEW s \in Seeds, StartRun(r, s)
      PROVE  UNCHANGED handed
  BY <1>11 DEF StartRun, histVars
<1>12. RequestInterrupt \/ CancelContext \/ ReturnRun => UNCHANGED handed
  BY DEF RequestInterrupt, CancelContext, ReturnRun, ResetLocals, histVars
<1>13. NativeReads \/ NativeCancels => UNCHANGED handed
  BY DEF NativeReads, NativeCancels, histVars
<1>14. ASSUME NEW stop \in Terminals, NativeEnds(stop)
      PROVE  UNCHANGED handed
  BY <1>14 DEF NativeEnds, histVars
<1>15. UNCHANGED vars => UNCHANGED handed
  BY DEF vars, histVars
<1>q. QED
  BY <1>1, <1>2, <1>3, <1>4, <1>5, <1>6, <1>7, <1>8, <1>9, <1>10, <1>11, <1>12,
      <1>13, <1>14, <1>15
  DEF Next, RunGoroutine, RequestGoroutine, InterruptGoroutine, Callback,
      Reader, SDK, Native

\* After an interrupt was recorded no pull and no continuation gives native more of the
\* Run's input (answer, submitPrompt).
THEOREM InterruptStops == Spec => InterruptStopsInput
<1>1. Init => BatchInv
  BY DEF Init, BatchInv
<1>2. BatchInv /\ [Next]_vars => BatchInv'
  BY BatchStep
<1>3. IInv /\ BatchInv /\ [Next]_vars => [\A r \in interrupted : handed'[r] = handed[r]]_vars
  BY HandedAfterInterrupt
<1>q. QED
  BY <1>1, <1>2, <1>3, Invariant, PTL DEF Spec, InterruptStopsInput

-----------------------------------------------------------------------------
(* The joined answer                                                         *)

LEMMA OutputField ==
  ASSUME NEW p \in PromptType, NEW stop
  PROVE  /\ [p EXCEPT !.submitted = TRUE].output = p.output
         /\ [p EXCEPT !.attempted = TRUE].output = p.output
         /\ [p EXCEPT !.terminal = TRUE].output = p.output
         /\ [p EXCEPT !.cancelled = TRUE].output = p.output
         /\ [p EXCEPT !.failure = TRUE].output = p.output
         /\ [p EXCEPT !.terminal = TRUE, !.failure = TRUE].output = p.output
         /\ [p EXCEPT !.terminal = TRUE, !.stopReason = stop].output = p.output
         /\ [p EXCEPT !.output = @ + 1].output = p.output + 1
  BY DEF PromptType

LEMMA OutputStep ==
  ASSUME TypeOK, OutputWithinBound, [Next]_vars
  PROVE  OutputWithinBound'
<1> USE LaneRunAssumption DEF OutputWithinBound
<1>types. t \in PromptType /\ t.output \in Int /\ output \in Int
  BY DEF TypeOK, PromptTypeOK, GoTypeOK, PromptType
<1>1. CASE UNCHANGED <<t, output>>
  BY <1>1
<1>2. CASE Submit
  <2>1. CASE SubmitRefused
    BY <1>2, <2>1 DEF Submit, promptVars
  <2>2. CASE ~SubmitRefused
    <3>1. t'.output = (IF output > 0 THEN output + Separator ELSE 0) /\ output' = output
      BY <1>2, <2>2 DEF Submit, NewPrompt
    <3>q. QED
      BY <1>types, <2>2, <3>1 DEF SubmitRefused
  <2>q. QED
    BY <2>1, <2>2
<1>3. CASE Written
  BY <1>3, <1>types, OutputField DEF Written, goVars
<1>4. CASE Await
  BY <1>4, <1>types, OutputField DEF Await, goVars
<1>5. CASE Leave
  <2>1. t'.output = 0 /\ output' \in {output, t.output}
    BY <1>5 DEF Leave, NoPrompt, NewPrompt
  <2>q. QED
    BY <1>types, <2>1
<1>6. CASE SubmitCallback
  BY <1>6, <1>types, OutputField DEF SubmitCallback, goVars
<1>7. CASE ContextEnds
  BY <1>7, <1>types, OutputField DEF ContextEnds, goVars
<1>8. CASE Observe
  <2>1. CASE t' = [t EXCEPT !.terminal = TRUE, !.failure = TRUE]
    BY <1>8, <1>types, <2>1, OutputField DEF Observe, goVars
  <2>2. CASE t' = [t EXCEPT !.terminal = TRUE, !.stopReason = natStop]
    BY <1>8, <1>types, <2>2, OutputField DEF Observe, goVars
  <2>q. QED
    BY <1>8, <2>1, <2>2 DEF Observe
<1>9. CASE Chunk
  <2>1. CASE t' = [t EXCEPT !.failure = TRUE]
    BY <1>9, <1>types, <2>1, OutputField DEF Chunk, goVars
  <2>2. CASE t' = [t EXCEPT !.output = @ + 1] /\ ~(1 > MaxOutput - t.output)
    BY <1>9, <1>types, <2>2, OutputField DEF Chunk, goVars
  <2>q. QED
    BY <1>9, <2>1, <2>2 DEF Chunk
<1>10. CASE ReturnRun
  BY <1>10 DEF ReturnRun, ResetLocals, promptVars, goVars
<1>11. Enter \/ Begin \/ Admit \/ Report \/ Continue \/ EndRun => UNCHANGED <<t,
          output>>
  BY DEF Enter, Begin, Admit, Report, Continue, EndRun, Unavailable, promptVars,
      goVars
<1>12. SendRefused \/ AcquireGate \/ WriteReturns \/ RequestReturns => UNCHANGED
          <<t, output>>
  BY DEF SendRefused, AcquireGate, WriteReturns, RequestReturns, Unsubmitted,
      promptVars, goVars
<1>13. InterruptProceeds \/ CancelWritten \/ CancelAnswered \/ CancelFails =>
          UNCHANGED <<t, output>>
  BY DEF InterruptProceeds, CancelWritten, CancelAnswered, CancelFails, promptVars,
      goVars
<1>14. ASSUME NEW r \in Runs, Interrupt(r) \/ RetireRun(r)
      PROVE  UNCHANGED <<t, output>>
  BY <1>14 DEF Interrupt, RetireRun, promptVars, goVars
<1>15. ASSUME NEW d \in Deliveries, Deliver(d) \/ DeliverRejected(d) \/ Capture(d)
      PROVE  UNCHANGED <<t, output>>
  BY <1>15 DEF Deliver, DeliverRejected, Capture, promptVars, goVars
<1>16. Close \/ Lost => UNCHANGED <<t, output>>
  BY DEF Close, Lost, promptVars, goVars
<1>17. ASSUME NEW named \in BOOLEAN, Drain(named)
      PROVE  UNCHANGED <<t, output>>
  BY <1>17 DEF Drain, promptVars, goVars
<1>18. ASSUME NEW r \in Runs, NEW s \in Seeds, StartRun(r, s)
      PROVE  UNCHANGED <<t, output>>
  BY <1>18 DEF StartRun, promptVars, goVars
<1>19. RequestInterrupt \/ CancelContext => UNCHANGED <<t, output>>
  BY DEF RequestInterrupt, CancelContext, promptVars, goVars
<1>20. NativeReads \/ NativeCancels => UNCHANGED <<t, output>>
  BY DEF NativeReads, NativeCancels, promptVars, goVars
<1>21. ASSUME NEW stop \in Terminals, NativeEnds(stop)
      PROVE  UNCHANGED <<t, output>>
  BY <1>21 DEF NativeEnds, promptVars, goVars
<1>22. UNCHANGED vars => UNCHANGED <<t, output>>
  BY DEF vars, promptVars, goVars
<1>q. QED
  BY <1>1, <1>2, <1>3, <1>4, <1>5, <1>6, <1>7, <1>8, <1>9, <1>10, <1>11, <1>12,
      <1>13, <1>14, <1>15, <1>16, <1>17, <1>18, <1>19, <1>20, <1>21, <1>22
  DEF Next, RunGoroutine, RequestGoroutine, InterruptGoroutine, Callback,
      Reader, SDK, Native

\* Chunks and separators together keep the joined answer of a Run within one frame
\* (receive, submitPrompt).
THEOREM AnswerWithinBound == Spec => []OutputWithinBound
<1>1. Init => OutputWithinBound
  BY LaneRunAssumption DEF Init, NoPrompt, NewPrompt, OutputWithinBound
<1>2. TypeOK /\ OutputWithinBound /\ [Next]_vars => OutputWithinBound'
  BY OutputStep
<1>q. QED
  BY <1>1, <1>2, TypeCorrect, PTL DEF Spec

-----------------------------------------------------------------------------
(* Deliveries left to the daemon                                             *)

\* The SDK hands out a Run that has entered only.
CaptureInv ==
  \A d \in Deliveries : captured[d] \in Runs =>
    seed[captured[d]] # NoSeed /\ ~(pc = "enter" /\ current = captured[d])

\* A Run that left a delivery to the daemon refuses the next ones, until it is no longer the
\* lane's Run, which it never becomes again.
RefusedInv ==
  \A d \in Deliveries :
    /\ captured[d] = Idle => verdict[d] = "none"
    /\ verdict[d] = "notRunning" /\ captured[d] \in Runs =>
         refused = captured[d] \/ run # captured[d]

LEMMA CaptureStep ==
  ASSUME EarlyCapture = FALSE, IInv, CaptureInv, [Next]_vars
  PROVE  CaptureInv'
<1> USE DEF CaptureInv
<1>types. /\ captured \in [Deliveries -> Runs \cup {NoRun, Idle}]
          /\ current \in Runs \cup {NoRun}
          /\ seed \in [Runs -> Deliveries \cup {Text, NoSeed}]
  BY DEF IInv, TypeOK, SDKTypeOK
<1>1. CASE UNCHANGED <<captured, seed, pc, current>>
  BY <1>1
<1>2. CASE Enter
  BY <1>2 DEF Enter, sdkVars, daemonVars, goVars
<1>3. CASE Begin
  BY <1>3 DEF Begin, Unavailable, sdkVars, daemonVars, goVars
<1>4. CASE Submit
  BY <1>4 DEF Submit, NewPrompt, sdkVars, daemonVars, goVars
<1>5. CASE Written
  BY <1>5 DEF Written, sdkVars, daemonVars, goVars
<1>6. CASE Admit
  BY <1>6 DEF Admit, sdkVars, daemonVars, goVars
<1>7. CASE Report
  BY <1>7 DEF Report, sdkVars, daemonVars, goVars
<1>8. CASE Await
  BY <1>8 DEF Await, sdkVars, daemonVars, goVars
<1>9. CASE Leave
  BY <1>9 DEF Leave, NoPrompt, NewPrompt, sdkVars, daemonVars, goVars
<1>10. CASE Continue
  BY <1>10 DEF Continue, sdkVars, daemonVars, goVars
<1>11. CASE EndRun
  BY <1>11 DEF EndRun, sdkVars, daemonVars, goVars
<1>12. ASSUME NEW r \in Runs, NEW s \in Seeds, StartRun(r, s)
      PROVE  CaptureInv'
  <2>1. s # NoSeed
    BY <1>12, LaneRunAssumption DEF Seeds
  <2>q. QED
    BY <1>12, <1>types, <2>1 DEF StartRun, daemonVars
<1>13. CASE ReturnRun
  BY <1>13 DEF ReturnRun, ResetLocals, sdkVars, daemonVars, goVars
<1>14. ASSUME NEW d \in Deliveries, Capture(d)
      PROVE  CaptureInv'
  <2>1. captured' = [captured EXCEPT ![d] = IF pc = "enter" THEN NoRun ELSE current]
    BY <1>14 DEF Capture
  <2>q. QED
    BY <1>14, <1>types, <2>1, LaneRunAssumption DEF Capture, IInv, SlotInv, sdkVars, goVars
<1>15. SendRefused \/ AcquireGate \/ SubmitCallback \/ WriteReturns \/
          RequestReturns => UNCHANGED <<captured, seed, pc, current>>
  BY DEF SendRefused, AcquireGate, SubmitCallback, WriteReturns, RequestReturns,
      Unsubmitted, sdkVars, daemonVars, goVars
<1>16. InterruptProceeds \/ CancelWritten \/ CancelAnswered \/ CancelFails =>
          UNCHANGED <<captured, seed, pc, current>>
  BY DEF InterruptProceeds, CancelWritten, CancelAnswered, CancelFails, sdkVars,
      daemonVars, goVars
<1>17. ASSUME NEW r \in Runs, Interrupt(r) \/ RetireRun(r)
      PROVE  UNCHANGED <<captured, seed, pc, current>>
  BY <1>17 DEF Interrupt, RetireRun, sdkVars, daemonVars, goVars
<1>18. ASSUME NEW d \in Deliveries, Deliver(d) \/ DeliverRejected(d)
      PROVE  UNCHANGED <<captured, seed, pc, current>>
  BY <1>18 DEF Deliver, DeliverRejected, sdkVars, daemonVars, goVars
<1>19. ContextEnds \/ Close \/ Lost => UNCHANGED <<captured, seed, pc, current>>
  BY DEF ContextEnds, Close, Lost, sdkVars, daemonVars, goVars
<1>20. Observe \/ Chunk => UNCHANGED <<captured, seed, pc, current>>
  BY DEF Observe, Chunk, sdkVars, daemonVars, goVars
<1>21. ASSUME NEW named \in BOOLEAN, Drain(named)
      PROVE  UNCHANGED <<captured, seed, pc, current>>
  BY <1>21 DEF Drain, sdkVars, daemonVars, goVars
<1>22. RequestInterrupt \/ CancelContext => UNCHANGED <<captured, seed, pc,
          current>>
  BY DEF RequestInterrupt, CancelContext, sdkVars, daemonVars, goVars
<1>23. NativeReads \/ NativeCancels => UNCHANGED <<captured, seed, pc, current>>
  BY DEF NativeReads, NativeCancels, sdkVars, daemonVars, goVars
<1>24. ASSUME NEW stop \in Terminals, NativeEnds(stop)
      PROVE  UNCHANGED <<captured, seed, pc, current>>
  BY <1>24 DEF NativeEnds, sdkVars, daemonVars, goVars
<1>25. UNCHANGED vars => UNCHANGED <<captured, seed, pc, current>>
  BY DEF vars, sdkVars, daemonVars, goVars
<1>q. QED
  BY <1>1, <1>2, <1>3, <1>4, <1>5, <1>6, <1>7, <1>8, <1>9, <1>10, <1>11, <1>12,
      <1>13, <1>14, <1>15, <1>16, <1>17, <1>18, <1>19, <1>20, <1>21, <1>22,
      <1>23, <1>24, <1>25
  DEF Next, RunGoroutine, RequestGoroutine, InterruptGoroutine, Callback,
      Reader, SDK, Native

LEMMA RefusedStep ==
  ASSUME IInv, CaptureInv, RefusedInv, [Next]_vars
  PROVE  RefusedInv'
<1> USE DEF RefusedInv
<1>types. /\ captured \in [Deliveries -> Runs \cup {NoRun, Idle}]
          /\ verdict \in [Deliveries -> {"none", "queued", "notRunning", "rejected"}]
          /\ run \in Runs \cup {NoRun} /\ NoRun \notin Runs /\ Idle \notin Runs
  BY LaneRunAssumption DEF IInv, TypeOK, SDKTypeOK, LaneTypeOK
<1>1. CASE UNCHANGED <<captured, verdict, refused, run>>
  BY <1>1
<1>2. CASE Enter
  BY <1>2, <1>types DEF Enter, CaptureInv, daemonVars, inputVars
<1>3. ASSUME NEW r \in Runs, RetireRun(r)
      PROVE  RefusedInv'
  BY <1>3, <1>types DEF RetireRun, daemonVars, inputVars
<1>4. ASSUME NEW d \in Deliveries, Deliver(d)
      PROVE  RefusedInv'
  <2>1. CASE StaleRun(d)
    BY <1>4, <1>types, <2>1, LaneRunAssumption DEF Deliver, StaleRun, inputVars
  <2>2. CASE ~StaleRun(d)
    BY <1>4, <1>types, <2>2, LaneRunAssumption DEF Deliver, StaleRun, inputVars
  <2>q. QED
    BY <2>1, <2>2
<1>5. ASSUME NEW d \in Deliveries, DeliverRejected(d)
      PROVE  RefusedInv'
  BY <1>5, <1>types DEF DeliverRejected, inputVars
<1>6. ASSUME NEW d \in Deliveries, Capture(d)
      PROVE  RefusedInv'
  BY <1>6, <1>types DEF Capture, inputVars
<1>7. Begin \/ Submit \/ Written \/ Admit \/ Report \/ Await \/ Leave \/ Continue
          \/ EndRun => UNCHANGED <<captured, verdict, refused, run>>
  BY DEF Begin, Submit, Written, Admit, Report, Await, Leave, Continue, EndRun,
      Unavailable, daemonVars, inputVars
<1>8. SendRefused \/ AcquireGate \/ SubmitCallback \/ WriteReturns \/
          RequestReturns => UNCHANGED <<captured, verdict, refused, run>>
  BY DEF SendRefused, AcquireGate, SubmitCallback, WriteReturns, RequestReturns,
      Unsubmitted, daemonVars, inputVars
<1>9. InterruptProceeds \/ CancelWritten \/ CancelAnswered \/ CancelFails =>
          UNCHANGED <<captured, verdict, refused, run>>
  BY DEF InterruptProceeds, CancelWritten, CancelAnswered, CancelFails, daemonVars,
      inputVars
<1>10. ASSUME NEW r \in Runs, Interrupt(r)
      PROVE  UNCHANGED <<captured, verdict, refused, run>>
  BY <1>10 DEF Interrupt, daemonVars, inputVars
<1>11. ContextEnds \/ Close \/ Lost => UNCHANGED <<captured, verdict, refused,
          run>>
  BY DEF ContextEnds, Close, Lost, daemonVars, inputVars
<1>12. Observe \/ Chunk => UNCHANGED <<captured, verdict, refused, run>>
  BY DEF Observe, Chunk, daemonVars, inputVars
<1>13. ASSUME NEW named \in BOOLEAN, Drain(named)
      PROVE  UNCHANGED <<captured, verdict, refused, run>>
  BY <1>13 DEF Drain, daemonVars, inputVars
<1>14. ASSUME NEW r \in Runs, NEW s \in Seeds, StartRun(r, s)
      PROVE  UNCHANGED <<captured, verdict, refused, run>>
  BY <1>14 DEF StartRun, daemonVars, inputVars
<1>15. RequestInterrupt \/ CancelContext \/ ReturnRun => UNCHANGED <<captured,
          verdict, refused, run>>
  BY DEF RequestInterrupt, CancelContext, ReturnRun, ResetLocals, daemonVars,
      inputVars
<1>16. NativeReads \/ NativeCancels => UNCHANGED <<captured, verdict, refused,
          run>>
  BY DEF NativeReads, NativeCancels, daemonVars, inputVars
<1>17. ASSUME NEW stop \in Terminals, NativeEnds(stop)
      PROVE  UNCHANGED <<captured, verdict, refused, run>>
  BY <1>17 DEF NativeEnds, daemonVars, inputVars
<1>18. UNCHANGED vars => UNCHANGED <<captured, verdict, refused, run>>
  BY DEF vars, daemonVars, inputVars
<1>q. QED
  BY <1>1, <1>2, <1>3, <1>4, <1>5, <1>6, <1>7, <1>8, <1>9, <1>10, <1>11, <1>12,
      <1>13, <1>14, <1>15, <1>16, <1>17, <1>18
  DEF Next, RunGoroutine, RequestGoroutine, InterruptGoroutine, Callback,
      Reader, SDK, Native

LEMMA AcceptedStep ==
  ASSUME IInv, RefusedInv, [Next]_vars, NEW x \in Runs,
         \E e \in Deliveries : captured[e] = x /\ verdict[e] = "notRunning"
  PROVE  accepted'[x] = accepted[x]
<1>types. accepted \in [Runs -> Seq(Deliveries)]
  BY DEF IInv, TypeOK, HistTypeOK
<1>1. CASE UNCHANGED accepted
  BY <1>1
<1>2. ASSUME NEW d \in Deliveries, Deliver(d)
      PROVE  accepted'[x] = accepted[x]
  <2>1. CASE StaleRun(d) \/ CannotOwn(d)
    BY <1>2, <2>1 DEF Deliver
  <2>2. CASE ~StaleRun(d) /\ ~CannotOwn(d)
    <3>1. captured[d] = run /\ refused # captured[d]
      BY <2>2 DEF StaleRun, CannotOwn
    <3>2. captured[d] # x
      BY <3>1 DEF RefusedInv
    <3>3. accepted' = [accepted EXCEPT ![captured[d]] = Append(@, d)]
      BY <1>2, <2>2 DEF Deliver
    <3>q. QED
      BY <1>types, <3>2, <3>3
  <2>q. QED
    BY <2>1, <2>2
<1>3. Enter \/ Begin \/ Submit \/ Written \/ Admit \/ Report \/ Await \/ Leave \/
          Continue \/ EndRun => UNCHANGED accepted
  BY DEF Enter, Begin, Submit, Written, Admit, Report, Await, Leave, Continue,
      EndRun, Unavailable, histVars
<1>4. SendRefused \/ AcquireGate \/ SubmitCallback \/ WriteReturns \/
          RequestReturns => UNCHANGED accepted
  BY DEF SendRefused, AcquireGate, SubmitCallback, WriteReturns, RequestReturns,
      Unsubmitted, histVars
<1>5. InterruptProceeds \/ CancelWritten \/ CancelAnswered \/ CancelFails =>
          UNCHANGED accepted
  BY DEF InterruptProceeds, CancelWritten, CancelAnswered, CancelFails, histVars
<1>6. ASSUME NEW r \in Runs, Interrupt(r) \/ RetireRun(r)
      PROVE  UNCHANGED accepted
  BY <1>6 DEF Interrupt, RetireRun, histVars
<1>7. ASSUME NEW d \in Deliveries, DeliverRejected(d) \/ Capture(d)
      PROVE  UNCHANGED accepted
  BY <1>7 DEF DeliverRejected, Capture, histVars
<1>8. ContextEnds \/ Close \/ Lost => UNCHANGED accepted
  BY DEF ContextEnds, Close, Lost, histVars
<1>9. Observe \/ Chunk => UNCHANGED accepted
  BY DEF Observe, Chunk, histVars
<1>10. ASSUME NEW named \in BOOLEAN, Drain(named)
      PROVE  UNCHANGED accepted
  BY <1>10 DEF Drain, histVars
<1>11. ASSUME NEW r \in Runs, NEW s \in Seeds, StartRun(r, s)
      PROVE  UNCHANGED accepted
  BY <1>11 DEF StartRun, histVars
<1>12. RequestInterrupt \/ CancelContext \/ ReturnRun => UNCHANGED accepted
  BY DEF RequestInterrupt, CancelContext, ReturnRun, ResetLocals, histVars
<1>13. NativeReads \/ NativeCancels => UNCHANGED accepted
  BY DEF NativeReads, NativeCancels, histVars
<1>14. ASSUME NEW stop \in Terminals, NativeEnds(stop)
      PROVE  UNCHANGED accepted
  BY <1>14 DEF NativeEnds, histVars
<1>15. UNCHANGED vars => UNCHANGED accepted
  BY DEF vars, histVars
<1>q. QED
  BY <1>1, <1>2, <1>3, <1>4, <1>5, <1>6, <1>7, <1>8, <1>9, <1>10, <1>11, <1>12,
      <1>13, <1>14, <1>15
  DEF Next, RunGoroutine, RequestGoroutine, InterruptGoroutine, Callback,
      Reader, SDK, Native

\* Once a delivery of a Run was left to the daemon, the Run admits none after it, provided
\* that the SDK hands Deliver no Run that has yet to enter (Wrapper.refused).
THEOREM NoneOvertakes == ASSUME EarlyCapture = FALSE PROVE Spec => NoOvertaking
<1>1. Init => CaptureInv /\ RefusedInv
  BY LaneRunAssumption DEF Init, CaptureInv, RefusedInv
<1>2. IInv /\ CaptureInv /\ [Next]_vars => CaptureInv'
  BY CaptureStep
<1>3. IInv /\ CaptureInv /\ RefusedInv /\ [Next]_vars => RefusedInv'
  BY RefusedStep
<1>4. IInv /\ RefusedInv /\ [Next]_vars =>
        [\A r \in Runs :
           (\E d \in Deliveries : captured[d] = r /\ verdict[d] = "notRunning")
             => accepted'[r] = accepted[r]]_vars
  BY AcceptedStep
<1>q. QED
  BY <1>1, <1>2, <1>3, <1>4, Invariant, PTL DEF Spec, NoOvertaking

-----------------------------------------------------------------------------
(* What a completed Run has handed over                                      *)

\* A Run has no outcome before it returns.
OutcomeInv ==
  /\ \A r \in Runs : seed[r] = NoSeed => outcome[r] = "none"
  /\ current # NoRun /\ pc # "return" => outcome[current] = "none"

LEMMA OutcomeStep ==
  ASSUME IInv, OutcomeInv, [Next]_vars
  PROVE  OutcomeInv'
<1> USE DEF OutcomeInv
<1>types. /\ current \in Runs \cup {NoRun} /\ outcome \in [Runs -> Outcomes \cup {"none"}]
          /\ seed \in [Runs -> Deliveries \cup {Text, NoSeed}] /\ NoRun \notin Runs
          /\ (current # NoRun => seed[current] # NoSeed)
          /\ (pc = "idle" <=> current = NoRun)
  BY LaneRunAssumption DEF IInv, TypeOK, SDKTypeOK, HistTypeOK, SlotInv
<1>1. CASE UNCHANGED <<outcome, seed, pc, current>>
  BY <1>1
<1>2. CASE Enter
  BY <1>2 DEF Enter, sdkVars, goVars, histVars
<1>3. CASE Begin
  BY <1>3, <1>types DEF Begin, Unavailable, sdkVars, goVars, histVars
<1>4. CASE Submit
  BY <1>4 DEF Submit, NewPrompt, sdkVars, goVars, histVars
<1>5. CASE Written
  BY <1>5 DEF Written, sdkVars, goVars, histVars
<1>6. CASE Admit
  BY <1>6 DEF Admit, sdkVars, goVars, histVars
<1>7. CASE Report
  BY <1>7 DEF Report, sdkVars, goVars, histVars
<1>8. CASE Await
  BY <1>8 DEF Await, sdkVars, goVars, histVars
<1>9. CASE Leave
  BY <1>9 DEF Leave, NoPrompt, NewPrompt, sdkVars, goVars, histVars
<1>10. CASE Continue
  BY <1>10 DEF Continue, sdkVars, goVars, histVars
<1>11. CASE EndRun
  BY <1>11, <1>types DEF EndRun, Unavailable, sdkVars, goVars, histVars
<1>12. ASSUME NEW r \in Runs, NEW s \in Seeds, StartRun(r, s)
      PROVE  OutcomeInv'
  <2>1. s # NoSeed
    BY <1>12, LaneRunAssumption DEF Seeds
  <2>q. QED
    BY <1>12, <1>types, <2>1 DEF StartRun, histVars
<1>13. CASE ReturnRun
  BY <1>13 DEF ReturnRun, ResetLocals, sdkVars, goVars, histVars
<1>14. SendRefused \/ AcquireGate \/ SubmitCallback \/ WriteReturns \/
          RequestReturns => UNCHANGED <<outcome, seed, pc, current>>
  BY DEF SendRefused, AcquireGate, SubmitCallback, WriteReturns, RequestReturns,
      Unsubmitted, sdkVars, goVars, histVars
<1>15. InterruptProceeds \/ CancelWritten \/ CancelAnswered \/ CancelFails =>
          UNCHANGED <<outcome, seed, pc, current>>
  BY DEF InterruptProceeds, CancelWritten, CancelAnswered, CancelFails, sdkVars,
      goVars, histVars
<1>16. ASSUME NEW r \in Runs, Interrupt(r) \/ RetireRun(r)
      PROVE  UNCHANGED <<outcome, seed, pc, current>>
  BY <1>16 DEF Interrupt, RetireRun, sdkVars, goVars, histVars
<1>17. ASSUME NEW d \in Deliveries, Deliver(d) \/ DeliverRejected(d) \/ Capture(d)
      PROVE  UNCHANGED <<outcome, seed, pc, current>>
  BY <1>17 DEF Deliver, DeliverRejected, Capture, sdkVars, goVars, histVars
<1>18. ContextEnds \/ Close \/ Lost => UNCHANGED <<outcome, seed, pc, current>>
  BY DEF ContextEnds, Close, Lost, sdkVars, goVars, histVars
<1>19. Observe \/ Chunk => UNCHANGED <<outcome, seed, pc, current>>
  BY DEF Observe, Chunk, sdkVars, goVars, histVars
<1>20. ASSUME NEW named \in BOOLEAN, Drain(named)
      PROVE  UNCHANGED <<outcome, seed, pc, current>>
  BY <1>20 DEF Drain, sdkVars, goVars, histVars
<1>21. RequestInterrupt \/ CancelContext => UNCHANGED <<outcome, seed, pc,
          current>>
  BY DEF RequestInterrupt, CancelContext, sdkVars, goVars, histVars
<1>22. NativeReads \/ NativeCancels => UNCHANGED <<outcome, seed, pc, current>>
  BY DEF NativeReads, NativeCancels, sdkVars, goVars, histVars
<1>23. ASSUME NEW stop \in Terminals, NativeEnds(stop)
      PROVE  UNCHANGED <<outcome, seed, pc, current>>
  BY <1>23 DEF NativeEnds, sdkVars, goVars, histVars
<1>24. UNCHANGED vars => UNCHANGED <<outcome, seed, pc, current>>
  BY DEF vars, sdkVars, goVars, histVars
<1>q. QED
  BY <1>1, <1>2, <1>3, <1>4, <1>5, <1>6, <1>7, <1>8, <1>9, <1>10, <1>11, <1>12,
      <1>13, <1>14, <1>15, <1>16, <1>17, <1>18, <1>19, <1>20, <1>21, <1>22,
      <1>23, <1>24
  DEF Next, RunGoroutine, RequestGoroutine, InterruptGoroutine, Callback,
      Reader, SDK, Native

LEMMA CompletedStep ==
  ASSUME IInv, OutcomeInv, CompletedRunHandsAll, [Next]_vars
  PROVE  CompletedRunHandsAll'
<1> USE DEF CompletedRunHandsAll
<1>types. /\ outcome \in [Runs -> Outcomes \cup {"none"}] /\ current \in Runs \cup {NoRun}
          /\ accepted \in [Runs -> Seq(Deliveries)] /\ handed \in [Runs -> Seq(Deliveries)]
          /\ staged \in Seq(Deliveries) /\ batch \in Seq(Deliveries) /\ NoRun \notin Runs
  BY LaneRunAssumption
  DEF IInv, TypeOK, SDKTypeOK, LaneTypeOK, GoTypeOK, HistTypeOK
<1>1. CASE UNCHANGED <<outcome, handed, accepted, interrupted, closing>>
  BY <1>1
<1>2. CASE Begin
  <2>1. outcome' = outcome \/ outcome' = [outcome EXCEPT ![current] = "unavailable"]
    BY <1>2 DEF Begin, Unavailable
  <2>2. UNCHANGED <<handed, accepted, interrupted, closing>>
    BY <1>2 DEF Begin, sdkVars
  <2>q. QED
    BY <1>types, <2>1, <2>2
<1>3. CASE EndRun
  <2>1. pc = "settle" /\ NextBatch = <<>> /\ current \in Runs
        /\ outcome' = [outcome EXCEPT ![current] = Outcome]
        /\ UNCHANGED <<handed, accepted, interrupted, closing>>
    BY <1>3, <1>types DEF EndRun, sdkVars, IInv, SlotInv
  <2>2. ASSUME Outcome = "completed", current \notin interrupted, ~closing
        PROVE  handed[current] = accepted[current]
    <3>1. err = "none" /\ reason = "end_turn"
      BY <2>2 DEF Outcome, IInv, TypeOK, GoTypeOK
    <3>2. Take(Len(staged)) = <<>>
      BY <2>1, <2>2, <3>1 DEF NextBatch
    <3>3. Take(Len(staged)) = staged
      BY <1>types, SubSeqFull, LenProperties DEF Take, AtMost
    <3>4. batch = <<>> /\ accepted[current] = (handed[current] \o batch) \o staged
      BY <2>1, <3>1 DEF IInv, InputInv, Owning
    <3>5. handed[current] \in Seq(Deliveries)
      BY <1>types, <2>1
    <3>q. QED
      BY <3>2, <3>3, <3>4, <3>5, ConcatEmptySeq
  <2>3. ASSUME NEW r \in Runs, outcome'[r] = "completed", r \notin interrupted, ~closing
        PROVE  handed[r] = accepted[r]
    BY <1>types, <2>1, <2>2, <2>3
  <2>q. QED
    BY <2>1, <2>3
<1>4. CASE SubmitCallback
  <2>1. current \in Runs /\ t.run = current /\ outcome[current] = "none"
    BY <1>4, <1>types DEF SubmitCallback, IInv, SlotInv, RequestInv, InPrompt, OutcomeInv
  <2>2. /\ UNCHANGED <<outcome, accepted, interrupted, closing>>
        /\ handed' = handed \/ handed' = [handed EXCEPT ![t.run] = @ \o batch]
    BY <1>4 DEF SubmitCallback, sdkVars
  <2>q. QED
    BY <1>types, <2>1, <2>2
<1>5. ASSUME NEW d \in Deliveries, Deliver(d)
      PROVE  CompletedRunHandsAll'
  <2>1. CASE accepted' = accepted
    BY <1>5, <2>1 DEF Deliver, sdkVars
  <2>2. CASE /\ ~StaleRun(d) /\ ~CannotOwn(d)
             /\ accepted' = [accepted EXCEPT ![captured[d]] = Append(@, d)]
    <3>1. captured[d] = current /\ current \in Runs /\ outcome[current] = "none"
      BY <1>types, <2>2 DEF CannotOwn, StaleRun, IInv, SlotInv, InPrompt, OutcomeInv
    <3>2. UNCHANGED <<outcome, handed, interrupted, closing>>
      BY <1>5 DEF Deliver, sdkVars
    <3>q. QED
      BY <1>types, <2>2, <3>1, <3>2
  <2>q. QED
    BY <1>5, <2>1, <2>2 DEF Deliver
<1>6. CASE Close
  BY <1>6 DEF Close, sdkVars, histVars
<1>7. ASSUME NEW named \in BOOLEAN, Drain(named)
      PROVE  CompletedRunHandsAll'
  <2>1. CASE MayPull(named)
    <3>1. t.run = current /\ current \in Runs /\ outcome[current] = "none"
      BY <1>types, <2>1 DEF MayPull, IInv, SlotInv, InPrompt, OutcomeInv
    <3>2. /\ UNCHANGED <<outcome, accepted, interrupted, closing>>
          /\ handed' = [handed EXCEPT ![t.run] = @ \o Take(MaxDrain)]
      BY <1>7, <2>1 DEF Drain, sdkVars
    <3>q. QED
      BY <1>types, <3>1, <3>2
  <2>2. CASE ~MayPull(named)
    BY <1>7, <2>2 DEF Drain, sdkVars
  <2>q. QED
    BY <2>1, <2>2
<1>8. CASE RequestInterrupt
  BY <1>8 DEF RequestInterrupt, sdkVars, histVars
<1>9. Enter \/ Submit \/ Written \/ Admit \/ Report \/ Await \/ Leave \/ Continue
          => UNCHANGED <<outcome, handed, accepted, interrupted, closing>>
  BY DEF Enter, Submit, Written, Admit, Report, Await, Leave, Continue, sdkVars,
      histVars
<1>10. SendRefused \/ AcquireGate \/ WriteReturns \/ RequestReturns => UNCHANGED
          <<outcome, handed, accepted, interrupted, closing>>
  BY DEF SendRefused, AcquireGate, WriteReturns, RequestReturns, Unsubmitted,
      sdkVars, histVars
<1>11. InterruptProceeds \/ CancelWritten \/ CancelAnswered \/ CancelFails =>
          UNCHANGED <<outcome, handed, accepted, interrupted, closing>>
  BY DEF InterruptProceeds, CancelWritten, CancelAnswered, CancelFails, sdkVars,
      histVars
<1>12. ASSUME NEW r \in Runs, Interrupt(r) \/ RetireRun(r)
      PROVE  UNCHANGED <<outcome, handed, accepted, interrupted, closing>>
  BY <1>12 DEF Interrupt, RetireRun, sdkVars, histVars
<1>13. ASSUME NEW d \in Deliveries, DeliverRejected(d) \/ Capture(d)
      PROVE  UNCHANGED <<outcome, handed, accepted, interrupted, closing>>
  BY <1>13 DEF DeliverRejected, Capture, sdkVars, histVars
<1>14. ContextEnds \/ Lost => UNCHANGED <<outcome, handed, accepted, interrupted,
          closing>>
  BY DEF ContextEnds, Lost, sdkVars, histVars
<1>15. Observe \/ Chunk => UNCHANGED <<outcome, handed, accepted, interrupted,
          closing>>
  BY DEF Observe, Chunk, sdkVars, histVars
<1>16. ASSUME NEW r \in Runs, NEW s \in Seeds, StartRun(r, s)
      PROVE  UNCHANGED <<outcome, handed, accepted, interrupted, closing>>
  BY <1>16 DEF StartRun, sdkVars, histVars
<1>17. CancelContext \/ ReturnRun => UNCHANGED <<outcome, handed, accepted,
          interrupted, closing>>
  BY DEF CancelContext, ReturnRun, ResetLocals, sdkVars, histVars
<1>18. NativeReads \/ NativeCancels => UNCHANGED <<outcome, handed, accepted,
          interrupted, closing>>
  BY DEF NativeReads, NativeCancels, sdkVars, histVars
<1>19. ASSUME NEW stop \in Terminals, NativeEnds(stop)
      PROVE  UNCHANGED <<outcome, handed, accepted, interrupted, closing>>
  BY <1>19 DEF NativeEnds, sdkVars, histVars
<1>20. UNCHANGED vars => UNCHANGED <<outcome, handed, accepted, interrupted, closing>>
  BY DEF vars, sdkVars, histVars
<1>q. QED
  BY <1>1, <1>2, <1>3, <1>4, <1>5, <1>6, <1>7, <1>8, <1>9, <1>10, <1>11, <1>12,
      <1>13, <1>14, <1>15, <1>16, <1>17, <1>18, <1>19, <1>20
  DEF Next, RunGoroutine, RequestGoroutine, InterruptGoroutine, Callback,
      Reader, SDK, Native

\* A Run that completed gave native every delivery it admitted, unless it was interrupted or
\* the lane was closing (executeRun).
THEOREM CompletedHandsAll == Spec => []CompletedRunHandsAll
<1>1. Init => OutcomeInv /\ CompletedRunHandsAll
  BY DEF Init, OutcomeInv, CompletedRunHandsAll
<1>2. IInv /\ OutcomeInv /\ [Next]_vars => OutcomeInv'
  BY OutcomeStep
<1>3. IInv /\ OutcomeInv /\ CompletedRunHandsAll /\ [Next]_vars => CompletedRunHandsAll'
  BY CompletedStep
<1>q. QED
  BY <1>1, <1>2, <1>3, Invariant, PTL DEF Spec

-----------------------------------------------------------------------------
(* Sums. The community library's SumFunction is a recursion over subsets, by *)
(* elements it chooses. The library's induction theorems take an operator;   *)
(* a least element of a set of naturals serves as well.                      *)

LEMMA LeastElement ==
  ASSUME NEW T, T \subseteq Nat, T # {}
  PROVE  \E n \in T : \A m \in T : n <= m
<1>1. PICK x \in T : \A y \in T : ~(<<y, x>> \in OpToRel(<, Nat))
  BY NatLessThanWellFounded, WFMin
<1>2. ASSUME NEW y \in T PROVE x <= y
  <2>1. y \in Nat /\ x \in Nat
    OBVIOUS
  <2>2. <<y, x>> \in OpToRel(<, Nat) <=> y < x
    BY <2>1 DEF OpToRel
  <2>3. ~(y < x)
    BY <1>1, <2>2
  <2> QED BY <2>1, <2>3
<1> QED BY <1>2

\* Among sets that are finite, one has no other inside it.
LEMMA MinimalSet ==
  ASSUME NEW T, IsFiniteSet(T), NEW W, W \subseteq SUBSET T, W # {}
  PROVE  \E U \in W : \A V \in SUBSET U : V # U => V \notin W
<1> DEFINE Sizes == {Cardinality(U) : U \in W}
<1>1. \A U \in W : IsFiniteSet(U) /\ Cardinality(U) \in Nat
  BY FS_Subset, FS_CardinalityType
<1>2. Sizes \subseteq Nat /\ Sizes # {}
  BY <1>1
<1>3. PICK n \in Sizes : \A m \in Sizes : n <= m
  <2> HIDE DEF Sizes
  <2> QED BY <1>2, LeastElement
<1>4. PICK U \in W : n = Cardinality(U)
  OBVIOUS
<1>5. ASSUME NEW V \in SUBSET U, V # U, V \in W PROVE FALSE
  <2>1. Cardinality(V) < Cardinality(U)
    BY <1>1, <1>5, FS_Subset
  <2>2. Cardinality(U) <= Cardinality(V)
    BY <1>3, <1>4, <1>5
  <2> QED BY <1>1, <1>5, <2>1, <2>2
<1> QED BY <1>5

Chosen(s) == CHOOSE x \in s : TRUE
IsIter(f, T, g) == g = [s \in SUBSET T |-> IF s = {} THEN 0 ELSE f[Chosen(s)] + g[s \ {Chosen(s)}]]
Iter(f, T) == CHOOSE g : IsIter(f, T, g)

LEMMA SumIsIter == ASSUME NEW f, NEW T PROVE SumFunctionOnSet(f, T) = Iter(f, T)[T]
  BY DEF SumFunctionOnSet, FoldFunctionOnSet, MapThenFoldSet, Iter, IsIter, Chosen

LEMMA IterExists == ASSUME NEW f, NEW T, IsFiniteSet(T) PROVE IsIter(f, T, Iter(f, T))
<1> DEFINE Part(n) == {s \in SUBSET T : Cardinality(s) <= n}
           Good(n) == \E g : g = [s \in Part(n) |-> IF s = {} THEN 0 ELSE f[Chosen(s)] + g[s \ {Chosen(s)}]]
           Bad == {n \in Nat : ~Good(n)}
<1>0. \A s \in SUBSET T : /\ IsFiniteSet(s) /\ Cardinality(s) \in Nat
                          /\ (Cardinality(s) = 0 <=> s = {})
                          /\ s # {} => /\ Chosen(s) \in s /\ s \ {Chosen(s)} \in SUBSET T
                                       /\ Cardinality(s \ {Chosen(s)}) = Cardinality(s) - 1
  BY FS_Subset, FS_CardinalityType, FS_EmptySet, FS_RemoveElement DEF Chosen
<1>1. Good(0)
  <2>1. [s \in Part(0) |-> 0] = [s \in Part(0) |-> IF s = {} THEN 0
           ELSE f[Chosen(s)] + [u \in Part(0) |-> 0][s \ {Chosen(s)}]]
    BY <1>0
  <2> QED BY <2>1
<1>2. ASSUME NEW n \in Nat, Good(n) PROVE Good(n + 1)
  <2>1. PICK g : g = [s \in Part(n) |-> IF s = {} THEN 0 ELSE f[Chosen(s)] + g[s \ {Chosen(s)}]]
    BY <1>2
  <2> DEFINE h == [s \in Part(n + 1) |-> IF s = {} THEN 0 ELSE f[Chosen(s)] + g[s \ {Chosen(s)}]]
  <2>2. \A s \in Part(n + 1) : s # {} => s \ {Chosen(s)} \in Part(n)
    BY <1>0
  <2>3. \A s \in Part(n) : s \in Part(n + 1) /\ h[s] = g[s]
    <3> SUFFICES ASSUME NEW s \in Part(n) PROVE s \in Part(n + 1) /\ h[s] = g[s]
      OBVIOUS
    <3>1. s \in Part(n + 1)
      <4>1. s \in SUBSET T /\ Cardinality(s) <= n
        OBVIOUS
      <4>2. Cardinality(s) <= n + 1
        <5>1. Cardinality(s) \in Nat
          BY <1>0, <4>1
        <5> HIDE DEF Part, h, Good
        <5> QED BY <4>1, <5>1
      <4> QED BY <4>1, <4>2
    <3>2. g[s] = IF s = {} THEN 0 ELSE f[Chosen(s)] + g[s \ {Chosen(s)}]
      BY <2>1
    <3> QED BY <3>1, <3>2
  <2>4. h = [s \in Part(n + 1) |-> IF s = {} THEN 0 ELSE f[Chosen(s)] + h[s \ {Chosen(s)}]]
    <3> HIDE DEF Part
    <3>1. \A s \in Part(n + 1) : h[s] = IF s = {} THEN 0 ELSE f[Chosen(s)] + h[s \ {Chosen(s)}]
      BY <2>2, <2>3
    <3> QED BY <3>1
  <2> QED BY <2>4
<1>3. \A n \in Nat : Good(n)
  <2> SUFFICES ASSUME Bad # {} PROVE FALSE
    OBVIOUS
  <2>0. Bad \subseteq Nat
    OBVIOUS
  <2>1. PICK n \in Bad : \A m \in Bad : n <= m
    <3> HIDE DEF Bad
    <3> QED BY <2>0, LeastElement
  <2>2. n # 0
    <3> HIDE DEF Good
    <3> QED BY <1>1
  <2>3. n - 1 \in Nat /\ n - 1 \notin Bad
    <3> HIDE DEF Good
    <3> QED BY <2>1, <2>2
  <2>4. Good(n - 1)
    <3> HIDE DEF Good
    <3> QED BY <2>3
  <2>5. Good((n - 1) + 1)
    <3> HIDE DEF Good
    <3> QED BY <1>2, <2>3, <2>4
  <2>6. (n - 1) + 1 = n
    OBVIOUS
  <2>7. Good(n)
    <3> HIDE DEF Good
    <3> QED BY <2>5, <2>6
  <2> QED BY <2>7
<1>4. Cardinality(T) \in Nat /\ Part(Cardinality(T)) = SUBSET T
  BY FS_CardinalityType, FS_Subset
<1>5. \E g : IsIter(f, T, g)
  BY <1>3, <1>4 DEF IsIter
<1> QED BY <1>5 DEF Iter

\* Iter(f, S) and Iter(f, T) agree on the finite sets both are defined on.
LEMMA IterAgree ==
  ASSUME NEW f, NEW S, NEW T, IsFiniteSet(S), IsFiniteSet(T)
  PROVE  \A U \in SUBSET (S \cap T) : Iter(f, S)[U] = Iter(f, T)[U]
<1> DEFINE g == Iter(f, S)
           h == Iter(f, T)
           Wrong == {U \in SUBSET (S \cap T) : g[U] # h[U]}
<1>0. \A s \in SUBSET (S \cap T) : IsFiniteSet(s) /\ (s # {} => Chosen(s) \in s)
  BY FS_Subset DEF Chosen
<1>1. \A U \in SUBSET (S \cap T) :
        /\ g[U] = IF U = {} THEN 0 ELSE f[Chosen(U)] + g[U \ {Chosen(U)}]
        /\ h[U] = IF U = {} THEN 0 ELSE f[Chosen(U)] + h[U \ {Chosen(U)}]
  <2> SUFFICES ASSUME NEW U \in SUBSET (S \cap T)
               PROVE  /\ g[U] = IF U = {} THEN 0 ELSE f[Chosen(U)] + g[U \ {Chosen(U)}]
                      /\ h[U] = IF U = {} THEN 0 ELSE f[Chosen(U)] + h[U \ {Chosen(U)}]
    OBVIOUS
  <2>1. U \in SUBSET S /\ U \in SUBSET T
    OBVIOUS
  <2>2. IsIter(f, S, g) /\ IsIter(f, T, h)
    BY IterExists
  <2> HIDE DEF g, h
  <2> QED BY <2>1, <2>2 DEF IsIter
<1>2. SUFFICES ASSUME Wrong # {} PROVE FALSE
  OBVIOUS
<1> HIDE DEF g, h
<1>4. PICK U \in Wrong : \A V \in SUBSET U : V # U => V \notin Wrong
  <2>1. Wrong \subseteq SUBSET S
    OBVIOUS
  <2> HIDE DEF Wrong
  <2> QED BY <1>2, <2>1, MinimalSet
<1>5. U # {}
  BY <1>1
<1>6. U \ {Chosen(U)} \notin Wrong
  BY <1>0, <1>4, <1>5
<1>7. g[U \ {Chosen(U)}] = h[U \ {Chosen(U)}]
  BY <1>0, <1>5, <1>6
<1> QED BY <1>1, <1>5, <1>7

\* The sum over a finite set, an element of the library's choice at a time.
LEMMA SumStep ==
  ASSUME NEW f, NEW T, IsFiniteSet(T)
  PROVE  SumFunctionOnSet(f, T) =
           IF T = {} THEN 0 ELSE f[Chosen(T)] + SumFunctionOnSet(f, T \ {Chosen(T)})
<1>1. IsIter(f, T, Iter(f, T))
  BY IterExists
<1>2. Iter(f, T)[T] = IF T = {} THEN 0 ELSE f[Chosen(T)] + Iter(f, T)[T \ {Chosen(T)}]
  BY <1>1 DEF IsIter
<1>3. IsFiniteSet(T \ {Chosen(T)}) /\ T \ {Chosen(T)} \in SUBSET (T \cap (T \ {Chosen(T)}))
  BY FS_Subset
<1>4. Iter(f, T)[T \ {Chosen(T)}] = Iter(f, T \ {Chosen(T)})[T \ {Chosen(T)}]
  BY <1>3, IterAgree
<1> QED BY <1>2, <1>4, SumIsIter

\* The sum of integers is an integer, depends on the summands alone, and may
\* begin with any element.
LEMMA SumType ==
  ASSUME NEW f, NEW T, IsFiniteSet(T), \A x \in T : f[x] \in Nat
  PROVE  SumFunctionOnSet(f, T) \in Nat
<1> DEFINE Wrong == {U \in SUBSET T : SumFunctionOnSet(f, U) \notin Nat}
<1>0. \A s \in SUBSET T : IsFiniteSet(s) /\ (s # {} => Chosen(s) \in s)
  BY FS_Subset DEF Chosen
<1>2. SUFFICES ASSUME Wrong # {} PROVE FALSE
  OBVIOUS
<1>4. PICK U \in Wrong : \A V \in SUBSET U : V # U => V \notin Wrong
  <2>1. Wrong \subseteq SUBSET T
    OBVIOUS
  <2> HIDE DEF Wrong
  <2> QED BY <1>2, <2>1, MinimalSet
<1>5. SumFunctionOnSet(f, U) = IF U = {} THEN 0 ELSE f[Chosen(U)] + SumFunctionOnSet(f, U \ {Chosen(U)})
  BY <1>0, SumStep
<1>6. U # {}
  BY <1>5
<1>7. SumFunctionOnSet(f, U \ {Chosen(U)}) \in Nat
  BY <1>0, <1>4, <1>6
<1>8. f[Chosen(U)] \in Nat
  BY <1>0, <1>6
<1> QED BY <1>5, <1>6, <1>7, <1>8

LEMMA SumExtensional ==
  ASSUME NEW f, NEW g, NEW T, IsFiniteSet(T), \A x \in T : f[x] = g[x]
  PROVE  SumFunctionOnSet(f, T) = SumFunctionOnSet(g, T)
<1> DEFINE Wrong == {U \in SUBSET T : SumFunctionOnSet(f, U) # SumFunctionOnSet(g, U)}
<1>0. \A s \in SUBSET T : IsFiniteSet(s) /\ (s # {} => Chosen(s) \in s)
  BY FS_Subset DEF Chosen
<1>2. SUFFICES ASSUME Wrong # {} PROVE FALSE
  OBVIOUS
<1>4. PICK U \in Wrong : \A V \in SUBSET U : V # U => V \notin Wrong
  <2>1. Wrong \subseteq SUBSET T
    OBVIOUS
  <2> HIDE DEF Wrong
  <2> QED BY <1>2, <2>1, MinimalSet
<1>5. /\ SumFunctionOnSet(f, U) = IF U = {} THEN 0 ELSE f[Chosen(U)] + SumFunctionOnSet(f, U \ {Chosen(U)})
      /\ SumFunctionOnSet(g, U) = IF U = {} THEN 0 ELSE g[Chosen(U)] + SumFunctionOnSet(g, U \ {Chosen(U)})
  BY <1>0, SumStep
<1>6. U # {}
  BY <1>5
<1>7. SumFunctionOnSet(f, U \ {Chosen(U)}) = SumFunctionOnSet(g, U \ {Chosen(U)})
  BY <1>0, <1>4, <1>6
<1>8. f[Chosen(U)] = g[Chosen(U)]
  BY <1>0, <1>6
<1> QED BY <1>5, <1>6, <1>7, <1>8

LEMMA SumRemove ==
  ASSUME NEW f, NEW T, IsFiniteSet(T), \A x \in T : f[x] \in Nat, NEW x \in T
  PROVE  SumFunctionOnSet(f, T) = f[x] + SumFunctionOnSet(f, T \ {x})
<1> DEFINE Sum(U) == SumFunctionOnSet(f, U)
           Wrong == {U \in SUBSET T : \E y \in U : Sum(U) # f[y] + Sum(U \ {y})}
<1>0. \A s \in SUBSET T : IsFiniteSet(s) /\ (s # {} => Chosen(s) \in s)
  BY FS_Subset DEF Chosen
<1>1. \A U \in SUBSET T : /\ Sum(U) \in Nat
                          /\ U # {} => Sum(U) = f[Chosen(U)] + Sum(U \ {Chosen(U)})
  BY <1>0, SumStep, SumType
<1> HIDE DEF Sum
<1>2. SUFFICES ASSUME Wrong # {} PROVE FALSE
  BY DEF Sum
<1>4. PICK U \in Wrong : \A V \in SUBSET U : V # U => V \notin Wrong
  <2>1. Wrong \subseteq SUBSET T
    OBVIOUS
  <2> HIDE DEF Wrong
  <2> QED BY <1>2, <2>1, MinimalSet
<1>5. PICK y \in U : Sum(U) # f[y] + Sum(U \ {y})
  OBVIOUS
<1> DEFINE c == Chosen(U)
<1>6. c \in U /\ c # y /\ Sum(U) = f[c] + Sum(U \ {c})
  BY <1>0, <1>1, <1>5
<1> HIDE DEF c
<1>7. U \ {c} \notin Wrong /\ U \ {y} \notin Wrong
  BY <1>0, <1>4, <1>5, <1>6
<1>8. Sum(U \ {c}) = f[y] + Sum((U \ {c}) \ {y})
  BY <1>0, <1>6, <1>7
<1>9. Sum(U \ {y}) = f[c] + Sum((U \ {y}) \ {c})
  BY <1>0, <1>6, <1>7
<1>10. (U \ {y}) \ {c} = (U \ {c}) \ {y} /\ (U \ {c}) \ {y} \in SUBSET T
  OBVIOUS
<1>11. f[y] \in Nat /\ f[c] \in Nat
  BY <1>6
<1>12. Sum((U \ {c}) \ {y}) \in Nat
  BY <1>1, <1>10
<1>13. /\ Sum(U) = f[c] + (f[y] + Sum((U \ {c}) \ {y}))
       /\ Sum(U \ {y}) = f[c] + Sum((U \ {c}) \ {y})
  BY <1>6, <1>8, <1>9, <1>10
<1>14. ASSUME NEW a \in Nat, NEW b \in Nat, NEW rest \in Nat
       PROVE  a + (b + rest) = b + (a + rest)
  OBVIOUS
<1> QED BY <1>5, <1>11, <1>12, <1>13, <1>14

-----------------------------------------------------------------------------
(* The bytes of the owned input                                              *)

LEMMA BytesType ==
  ASSUME NEW s \in Seq(Deliveries)
  PROVE  /\ Bytes(s) \in Nat /\ IsFiniteSet(DOMAIN s)
         /\ \A i \in DOMAIN s : s[i] \in Deliveries /\ Size[s[i]] \in Nat
<1> DEFINE f == [i \in DOMAIN s |-> Size[s[i]]]
<1>1. DOMAIN s = 1 .. Len(s) /\ Len(s) \in Nat
  BY LenProperties
<1>2. IsFiniteSet(DOMAIN s)
  BY <1>1, FS_Interval
<1>3. \A i \in DOMAIN s : s[i] \in Deliveries /\ Size[s[i]] \in Nat
  BY <1>1, ElementOfSeq, LaneRunAssumption
<1>4. DOMAIN f = DOMAIN s /\ \A i \in DOMAIN s : f[i] \in Nat
  BY <1>3
<1>5. SumFunctionOnSet(f, DOMAIN s) \in Nat
  <2> HIDE DEF f
  <2> QED BY <1>2, <1>4, SumType
<1>q. QED
  BY <1>2, <1>3, <1>4, <1>5 DEF Bytes, SumFunction

\* One more delivery adds its size.
LEMMA BytesAppend ==
  ASSUME NEW s \in Seq(Deliveries), NEW d \in Deliveries
  PROVE  Bytes(Append(s, d)) = Bytes(s) + Size[d]
<1> DEFINE u == Append(s, d)
           n == Len(s)
           f == [i \in DOMAIN u |-> Size[u[i]]]
           g == [i \in DOMAIN s |-> Size[s[i]]]
<1>1. /\ n \in Nat /\ DOMAIN s = 1 .. n /\ DOMAIN u = 1 .. n + 1 /\ u[n + 1] = d
      /\ u \in Seq(Deliveries)
      /\ \A i \in 1 .. n : u[i] = s[i]
  <2>1. u \in Seq(Deliveries) /\ Len(u) = n + 1 /\ u[n + 1] = d
        /\ \A i \in 1 .. n : u[i] = s[i]
    BY AppendProperties
  <2> HIDE DEF u
  <2>q. QED
    BY <2>1, LenProperties
<1> HIDE DEF u, n
<1>2. /\ IsFiniteSet(1 .. n + 1) /\ IsFiniteSet(1 .. n)
      /\ n + 1 \in 1 .. n + 1 /\ (1 .. n + 1) \ {n + 1} = 1 .. n
  <2>1. n + 1 \in Int /\ n \in Int /\ 1 \in Int
    BY <1>1
  <2>2. n + 1 \in 1 .. n + 1 /\ (1 .. n + 1) \ {n + 1} = 1 .. n
    BY <1>1
  <2>q. QED
    BY <2>1, <2>2, FS_Interval
<1>3. \A i \in 1 .. n + 1 : f[i] \in Nat
  BY <1>1, BytesType
<1>4. f[n + 1] = Size[d] /\ \A i \in 1 .. n : f[i] = g[i]
  BY <1>1
<1>5. DOMAIN f = 1 .. n + 1 /\ DOMAIN g = 1 .. n
  BY <1>1
<1>6. Bytes(u) = SumFunctionOnSet(f, 1 .. n + 1) /\ Bytes(s) = SumFunctionOnSet(g, 1 .. n)
  BY <1>5 DEF Bytes, SumFunction
<1>a. Size[d] \in Nat
  BY LaneRunAssumption
<1> HIDE DEF f, g
<1>7. SumFunctionOnSet(f, 1 .. n + 1) = f[n + 1] + SumFunctionOnSet(f, (1 .. n + 1) \ {n + 1})
  BY <1>2, <1>3, SumRemove
<1>8. SumFunctionOnSet(f, 1 .. n) = SumFunctionOnSet(g, 1 .. n)
  BY <1>2, <1>4, SumExtensional
<1>9. Bytes(u) = Size[d] + Bytes(s)
  BY <1>2, <1>4, <1>6, <1>7, <1>8
<1>10. Bytes(s) \in Nat
  BY BytesType
<1>q. QED
  BY <1>9, <1>10, <1>a DEF u

LEMMA BytesEmpty == Bytes(<<>>) = 0
<1>1. DOMAIN [i \in DOMAIN <<>> |-> Size[<<>>[i]]] = {}
  OBVIOUS
<1>q. QED
  BY <1>1, SumStep, FS_EmptySet DEF Bytes, SumFunction

\* What is taken and what is kept add up (takeStagedLocked).
LEMMA BytesConcat ==
  ASSUME NEW s \in Seq(Deliveries), NEW u \in Seq(Deliveries)
  PROVE  Bytes(s \o u) = Bytes(s) + Bytes(u)
<1> DEFINE Wrong == {n \in Nat : \E v \in Seq(Deliveries) :
                       Len(v) = n /\ Bytes(s \o v) # Bytes(s) + Bytes(v)}
<1>1. Len(u) \in Nat
  BY LenProperties
<1>2. SUFFICES ASSUME Wrong # {} PROVE FALSE
  BY <1>1
<1>3. PICK n \in Wrong : \A m \in Wrong : n <= m
  <2>1. Wrong \subseteq Nat
    OBVIOUS
  <2> HIDE DEF Wrong
  <2>q. QED
    BY <1>2, <2>1, LeastElement
<1>4. PICK v \in Seq(Deliveries) : Len(v) = n /\ Bytes(s \o v) # Bytes(s) + Bytes(v)
  BY <1>3
<1>5. v # <<>>
  <2>1. s \o <<>> = s
    BY ConcatEmptySeq
  <2>2. Bytes(s) \in Nat
    BY BytesType
  <2>3. ASSUME v = <<>> PROVE Bytes(s \o v) = Bytes(s) + Bytes(v)
    BY <2>1, <2>2, <2>3, BytesEmpty
  <2>q. QED
    BY <1>4, <2>3
<1>a. PICK w \in Seq(Deliveries), d \in Deliveries : v = Append(w, d)
  BY <1>5, SequenceEmptyOrAppend
<1>6. v = Append(w, d) /\ Len(w) = n - 1
  BY <1>4, <1>a, AppendProperties, LenProperties
<1>7. n - 1 \notin Wrong /\ n - 1 \in Nat
  <2>1. n \in Nat /\ Len(w) \in Nat
    BY <1>6, LenProperties
  <2>2. n - 1 \in Nat /\ ~(n <= n - 1)
    BY <1>6, <2>1
  <2> HIDE DEF Wrong
  <2>q. QED
    BY <1>3, <2>2
<1>8. Bytes(s \o w) = Bytes(s) + Bytes(w)
  BY <1>6, <1>7
<1>9. s \o v = Append(s \o w, d) /\ s \o w \in Seq(Deliveries)
  <2>1. s \o w \in Seq(Deliveries)
    BY InputSeqs
  <2>2. Append(s \o w, d) = s \o Append(w, d)
    <3>1. \A x, y \in Seq(Deliveries), e \in Deliveries : Append(x \o y, e) = x \o Append(y, e)
      BY AppendConcat
    <3>q. QED
      BY <3>1
  <2>q. QED
    BY <1>6, <2>1, <2>2
<1>10. /\ Bytes(Append(s \o w, d)) = Bytes(s \o w) + Size[d]
       /\ Bytes(v) = Bytes(w) + Size[d]
  BY <1>6, <1>9, BytesAppend
<1>11. Bytes(s) \in Nat /\ Bytes(w) \in Nat /\ Size[d] \in Nat
  BY <1>6, BytesType, LaneRunAssumption
<1>q. QED
  BY <1>4, <1>8, <1>9, <1>10, <1>11

LEMMA BytesStep ==
  ASSUME TypeOK, StagedBytesExact, [Next]_vars
  PROVE  StagedBytesExact'
<1> USE DEF StagedBytesExact
<1>types. /\ staged \in Seq(Deliveries) /\ Len(staged) \in Nat /\ Bytes(staged) \in Nat
          /\ MaxStaged \in Nat /\ MaxBytes \in Nat /\ MaxDrain \in Nat
  BY LenProperties, BytesType, LaneRunAssumption DEF TypeOK, LaneTypeOK
<1>empty. Bytes(<<>>) = 0 /\ Len(<<>>) = 0
  BY BytesEmpty
<1>1. CASE UNCHANGED <<staged, stagedBytes>>
  BY <1>1 DEF Bytes
<1>2. CASE Continue
  BY <1>2, <1>types, <1>empty DEF Continue, inputVars
<1>3. CASE EndRun
  BY <1>3, <1>types, <1>empty DEF EndRun, inputVars
<1>4. ASSUME NEW d \in Deliveries, Deliver(d)
      PROVE  StagedBytesExact'
  <2>1. CASE UNCHANGED <<staged, stagedBytes>>
    BY <2>1
  <2>2. CASE /\ staged' = Append(staged, d) /\ stagedBytes' = stagedBytes + Size[d]
             /\ ~CannotOwn(d)
    <3>1. ~(Len(staged) >= MaxStaged) /\ ~(Size[d] > MaxBytes - stagedBytes)
      BY <2>2 DEF CannotOwn
    <3>2. /\ Bytes(Append(staged, d)) = Bytes(staged) + Size[d]
          /\ Len(Append(staged, d)) = Len(staged) + 1
      BY <1>types, BytesAppend, AppendProperties
    <3>3. Size[d] \in Nat
      BY LaneRunAssumption
    <3>q. QED
      BY <1>types, <2>2, <3>1, <3>2, <3>3
  <2>q. QED
    BY <1>4, <2>1, <2>2 DEF Deliver, inputVars
<1>5. ASSUME NEW named \in BOOLEAN, Drain(named)
      PROVE  StagedBytesExact'
  <2>1. CASE UNCHANGED <<staged, stagedBytes>>
    BY <2>1
  <2>2. CASE staged' = Keep(MaxDrain) /\ stagedBytes' = BytesWithoutPulled(MaxDrain)
    <3> DEFINE taken == Take(MaxDrain)
               kept == Keep(MaxDrain)
    <3>1. /\ taken \in Seq(Deliveries) /\ kept \in Seq(Deliveries)
          /\ taken \o kept = staged
      BY <1>types, TakeKeep
    <3>2. stagedBytes' = stagedBytes - Bytes(taken) /\ staged' = kept
      BY <2>2 DEF BytesWithoutPulled
    <3> HIDE DEF taken, kept
    <3>3. Bytes(staged) = Bytes(taken) + Bytes(kept) /\ Bytes(taken) \in Nat /\ Bytes(kept) \in Nat
      BY <3>1, BytesConcat, BytesType
    <3>4. Len(staged) = Len(taken) + Len(kept) /\ Len(taken) \in Nat /\ Len(kept) \in Nat
      BY <3>1, ConcatProperties, LenProperties
    <3>q. QED
      BY <1>types, <3>2, <3>3, <3>4
  <2>q. QED
    BY <1>5, <2>1, <2>2 DEF Drain, inputVars
<1>6. Enter \/ Begin \/ Submit \/ Written \/ Admit \/ Report \/ Await \/ Leave =>
          UNCHANGED <<staged, stagedBytes>>
  BY DEF Enter, Begin, Submit, Written, Admit, Report, Await, Leave, Unavailable,
      inputVars
<1>7. SendRefused \/ AcquireGate \/ SubmitCallback \/ WriteReturns \/
          RequestReturns => UNCHANGED <<staged, stagedBytes>>
  BY DEF SendRefused, AcquireGate, SubmitCallback, WriteReturns, RequestReturns,
      Unsubmitted, inputVars
<1>8. InterruptProceeds \/ CancelWritten \/ CancelAnswered \/ CancelFails =>
          UNCHANGED <<staged, stagedBytes>>
  BY DEF InterruptProceeds, CancelWritten, CancelAnswered, CancelFails, inputVars
<1>9. ASSUME NEW r \in Runs, Interrupt(r) \/ RetireRun(r)
      PROVE  UNCHANGED <<staged, stagedBytes>>
  BY <1>9 DEF Interrupt, RetireRun, inputVars
<1>10. ASSUME NEW d \in Deliveries, DeliverRejected(d) \/ Capture(d)
      PROVE  UNCHANGED <<staged, stagedBytes>>
  BY <1>10 DEF DeliverRejected, Capture, inputVars
<1>11. ContextEnds \/ Close \/ Lost => UNCHANGED <<staged, stagedBytes>>
  BY DEF ContextEnds, Close, Lost, inputVars
<1>12. Observe \/ Chunk => UNCHANGED <<staged, stagedBytes>>
  BY DEF Observe, Chunk, inputVars
<1>13. ASSUME NEW r \in Runs, NEW s \in Seeds, StartRun(r, s)
      PROVE  UNCHANGED <<staged, stagedBytes>>
  BY <1>13 DEF StartRun, inputVars
<1>14. RequestInterrupt \/ CancelContext \/ ReturnRun => UNCHANGED <<staged,
          stagedBytes>>
  BY DEF RequestInterrupt, CancelContext, ReturnRun, ResetLocals, inputVars
<1>15. NativeReads \/ NativeCancels => UNCHANGED <<staged, stagedBytes>>
  BY DEF NativeReads, NativeCancels, inputVars
<1>16. ASSUME NEW stop \in Terminals, NativeEnds(stop)
      PROVE  UNCHANGED <<staged, stagedBytes>>
  BY <1>16 DEF NativeEnds, inputVars
<1>17. UNCHANGED vars => UNCHANGED <<staged, stagedBytes>>
  BY DEF vars, inputVars
<1>q. QED
  BY <1>1, <1>2, <1>3, <1>4, <1>5, <1>6, <1>7, <1>8, <1>9, <1>10, <1>11, <1>12,
      <1>13, <1>14, <1>15, <1>16, <1>17
  DEF Next, RunGoroutine, RequestGoroutine, InterruptGoroutine, Callback,
      Reader, SDK, Native

\* The byte count is the sum over the owned inputs, through admissions, pulls,
\* continuations and ends, and neither bound is exceeded (delivery.go).
THEOREM BytesAreExact == Spec => []StagedBytesExact
<1>1. Init => StagedBytesExact
  BY BytesEmpty, LaneRunAssumption DEF Init, StagedBytesExact
<1>2. TypeOK /\ StagedBytesExact /\ [Next]_vars => StagedBytesExact'
  BY BytesStep
<1>q. QED
  BY <1>1, <1>2, TypeCorrect, PTL DEF Spec

-----------------------------------------------------------------------------
(* The lane implements LaneInput                                             *)

\* What was admitted was answered so, and is answered once.
AdmittedInv ==
  \A r \in Runs : \A i \in DOMAIN accepted[r] : verdict[accepted[r][i]] = "queued"

LEMMA AdmittedStep ==
  ASSUME TypeOK, AdmittedInv, [Next]_vars
  PROVE  AdmittedInv'
<1>types. /\ accepted \in [Runs -> Seq(Deliveries)]
          /\ verdict \in [Deliveries -> {"none", "queued", "notRunning", "rejected"}]
          /\ \A r \in Runs : \A i \in DOMAIN accepted[r] : accepted[r][i] \in Deliveries
  BY DEF TypeOK, HistTypeOK, SDKTypeOK
<1>1. CASE UNCHANGED <<accepted, verdict>>
  BY <1>1 DEF AdmittedInv
<1>2. ASSUME NEW d \in Deliveries, verdict[d] = "none", NEW v, verdict' = [verdict EXCEPT ![d] = v],
             \/ accepted' = accepted
             \/ v = "queued" /\ accepted' = [accepted EXCEPT ![captured[d]] = Append(@, d)]
      PROVE  AdmittedInv'
  <2> SUFFICES ASSUME NEW r \in Runs, NEW i \in DOMAIN accepted'[r]
               PROVE  verdict'[accepted'[r][i]] = "queued"
    BY DEF AdmittedInv
  <2>1. CASE accepted'[r] = accepted[r]
    <3>1. accepted[r][i] \in Deliveries /\ verdict[accepted[r][i]] = "queued"
      BY <1>types, <2>1 DEF AdmittedInv
    <3>q. QED
      BY <1>2, <1>types, <2>1, <3>1
  <2>2. CASE accepted'[r] = Append(accepted[r], d) /\ v = "queued"
    <3>1. accepted[r] \in Seq(Deliveries)
      BY <1>types
    <3>2. i \in 1 .. Len(accepted[r]) \/ accepted'[r][i] = d
      BY <2>2, <3>1, AppendProperties
    <3>3. CASE i \in 1 .. Len(accepted[r])
      <4>1. i \in DOMAIN accepted[r] /\ accepted'[r][i] = accepted[r][i]
        BY <2>2, <3>1, <3>3, AppendProperties, LenProperties
      <4>2. accepted[r][i] \in Deliveries /\ verdict[accepted[r][i]] = "queued"
        BY <1>types, <4>1 DEF AdmittedInv
      <4>q. QED
        BY <1>2, <1>types, <4>1, <4>2
    <3>4. CASE accepted'[r][i] = d
      BY <1>2, <1>types, <2>2, <3>4
    <3>q. QED
      BY <3>2, <3>3, <3>4
  <2>q. QED
    BY <1>2, <1>types, <2>1, <2>2
<1>3. ASSUME NEW d \in Deliveries, Deliver(d)
      PROVE  AdmittedInv'
  <2>1. verdict[d] = "none"
    BY <1>3 DEF Deliver
  <2>2. CASE accepted' = accepted /\ verdict' = [verdict EXCEPT ![d] = "notRunning"]
    BY <1>2, <2>1, <2>2
  <2>3. CASE /\ accepted' = [accepted EXCEPT ![captured[d]] = Append(@, d)]
             /\ verdict' = [verdict EXCEPT ![d] = "queued"]
    BY <1>2, <2>1, <2>3
  <2>q. QED
    BY <1>3, <2>2, <2>3 DEF Deliver
<1>4. ASSUME NEW d \in Deliveries, DeliverRejected(d)
      PROVE  AdmittedInv'
  <2>1. verdict[d] = "none" /\ accepted' = accepted /\ verdict' = [verdict EXCEPT ![d] = "rejected"]
    BY <1>4 DEF DeliverRejected, histVars
  <2>q. QED
    BY <1>2, <2>1
<1>5. ASSUME NEW d \in Deliveries, Capture(d)
      PROVE  UNCHANGED <<accepted, verdict>>
  BY <1>5 DEF Capture, histVars
<1>6. Enter \/ Begin \/ Submit \/ Written \/ Admit \/ Report \/ Await \/ Leave \/
          Continue \/ EndRun => UNCHANGED <<accepted, verdict>>
  BY DEF Enter, Begin, Submit, Written, Admit, Report, Await, Leave, Continue,
      EndRun, Unavailable, histVars, daemonVars
<1>7. SendRefused \/ AcquireGate \/ SubmitCallback \/ WriteReturns \/
          RequestReturns => UNCHANGED <<accepted, verdict>>
  BY DEF SendRefused, AcquireGate, SubmitCallback, WriteReturns, RequestReturns,
      Unsubmitted, histVars, daemonVars
<1>8. InterruptProceeds \/ CancelWritten \/ CancelAnswered \/ CancelFails =>
          UNCHANGED <<accepted, verdict>>
  BY DEF InterruptProceeds, CancelWritten, CancelAnswered, CancelFails, histVars, daemonVars
<1>9. ASSUME NEW r \in Runs, Interrupt(r) \/ RetireRun(r)
      PROVE  UNCHANGED <<accepted, verdict>>
  BY <1>9 DEF Interrupt, RetireRun, histVars, daemonVars
<1>10. ContextEnds \/ Close \/ Lost => UNCHANGED <<accepted, verdict>>
  BY DEF ContextEnds, Close, Lost, histVars, daemonVars
<1>11. Observe \/ Chunk => UNCHANGED <<accepted, verdict>>
  BY DEF Observe, Chunk, histVars, daemonVars
<1>12. ASSUME NEW named \in BOOLEAN, Drain(named)
      PROVE  UNCHANGED <<accepted, verdict>>
  BY <1>12 DEF Drain, daemonVars
<1>13. ASSUME NEW r \in Runs, NEW s \in Seeds, StartRun(r, s)
      PROVE  UNCHANGED <<accepted, verdict>>
  BY <1>13 DEF StartRun, histVars, daemonVars
<1>14. RequestInterrupt \/ CancelContext \/ ReturnRun => UNCHANGED <<accepted, verdict>>
  BY DEF RequestInterrupt, CancelContext, ReturnRun, ResetLocals, histVars, daemonVars
<1>15. NativeReads \/ NativeCancels => UNCHANGED <<accepted, verdict>>
  BY DEF NativeReads, NativeCancels, histVars, daemonVars
<1>16. ASSUME NEW stop \in Terminals, NativeEnds(stop)
      PROVE  UNCHANGED <<accepted, verdict>>
  BY <1>16 DEF NativeEnds, histVars, daemonVars
<1>17. UNCHANGED vars => UNCHANGED <<accepted, verdict>>
  BY DEF vars, histVars, daemonVars
<1>q. QED
  BY <1>1, <1>3, <1>4, <1>5, <1>6, <1>7, <1>8, <1>9, <1>10, <1>11, <1>12,
      <1>13, <1>14, <1>15, <1>16, <1>17
  DEF Next, RunGoroutine, RequestGoroutine, InterruptGoroutine, Callback,
      Reader, SDK, Native

InputOrStutter == Input!InputNext \/ UNCHANGED Input!inputRunVars

\* The state LaneInput sees, but for the Run that owns input.
Seen == <<closing, interrupted, accepted, handed, outcome>>

LEMMA OwnerStays ==
  ASSUME UNCHANGED Seen, Owner' = Owner
  PROVE  InputOrStutter
BY DEF Seen, Stopped, InputOrStutter, Input!inputRunVars

\* A pull and a continuation give native the next of the admitted input, or nothing.
LEMMA GivesNext ==
  ASSUME IInv, InputInOrder', TypeOK', NEW x \in Seq(Deliveries),
         current \in Runs, pc \notin {"idle", "return"}, ~closing, current \notin interrupted,
         handed' = [handed EXCEPT ![current] = @ \o x],
         UNCHANGED <<pc, current, closing, interrupted, accepted, outcome>>
  PROVE  InputOrStutter
<1>types. /\ accepted \in [Runs -> Seq(Deliveries)] /\ handed \in [Runs -> Seq(Deliveries)]
          /\ handed[current] \in Seq(Deliveries)
  BY DEF IInv, TypeOK, HistTypeOK
<1>0. Owner = current /\ Owner' = Owner /\ Stopped = interrupted /\ Stopped' = Stopped
      /\ current # NoRun
  BY LaneRunAssumption DEF Owner, Stopped
<1>1. CASE x = <<>>
  <2>1. handed' = handed
    BY <1>types, <1>1, ConcatEmptySeq
  <2>q. QED
    BY <1>0, <2>1, OwnerStays DEF Seen
<1>2. CASE x # <<>>
  <2> DEFINE n == Len(handed'[current])
  <2>1. handed'[current] = handed[current] \o x
    BY <1>types
  <2>2. /\ n = Len(handed[current]) + Len(x) /\ Len(handed[current]) \in Nat
        /\ Len(x) \in Nat /\ Len(x) # 0 /\ n \in Nat
    BY <1>2, <1>types, <2>1, ConcatProperties, LenProperties, EmptySeq
  <2>3. n <= Len(accepted[current]) /\ handed'[current] = SubSeq(accepted[current], 1, n)
    BY DEF InputInOrder
  <2>4. handed' = [handed EXCEPT ![current] = SubSeq(accepted[current], 1, n)]
    BY <1>types, <2>1, <2>3
  <2>5. Len(accepted[current]) \in Nat
    BY <1>types, LenProperties
  <2> HIDE DEF n
  <2>6. n \in Len(handed[Owner]) + 1 .. Len(accepted[Owner])
    BY <1>0, <2>2, <2>3, <2>5
  <2>7. Input!GiveUpTo(n) /\ Input!Owns
    BY <1>0, <2>4 DEF Input!GiveUpTo, Input!Owns
  <2>q. QED
    BY <2>6, <2>7 DEF InputOrStutter, Input!InputNext
<1>q. QED
  BY <1>1, <1>2

LEMMA EndsAs ==
  ASSUME IInv, CompletedRunHandsAll', current \in Runs, pc \notin {"idle", "return"},
         pc' = "return", NEW o \in Outcomes, outcome' = [outcome EXCEPT ![current] = o],
         UNCHANGED <<closing, interrupted, accepted, handed>>
  PROVE  InputOrStutter
<1>1. Owner = current /\ Owner' = NoRun /\ Stopped' = Stopped /\ current # NoRun
      /\ outcome \in [Runs -> Outcomes \cup {"none"}]
  BY LaneRunAssumption DEF Owner, Stopped, IInv, TypeOK, HistTypeOK
<1>2. o = "completed" => current \in Stopped \/ handed[current] = accepted[current]
  BY <1>1 DEF CompletedRunHandsAll, Stopped
<1>3. Input!EndAs(o)
  BY <1>1, <1>2 DEF Input!EndAs
<1>q. QED
  BY <1>3 DEF InputOrStutter, Input!InputNext, Outcomes

LEMMA Stops ==
  ASSUME TypeOK', UNCHANGED <<pc, current, accepted, handed, outcome>>,
         Stopped \subseteq Stopped'
  PROVE  InputOrStutter
<1>1. Stopped' \subseteq Runs /\ Owner' = Owner
  BY DEF Stopped, Owner, TypeOK, SDKTypeOK
<1>2. CASE Stopped' = Stopped
  BY <1>1, <1>2 DEF InputOrStutter, Input!inputRunVars
<1>3. CASE Stopped' # Stopped
  BY <1>1, <1>3 DEF InputOrStutter, Input!InputNext, Input!Stop
<1>q. QED
  BY <1>2, <1>3

\* Every step of the lane is a step of LaneInput, or one that it does not see.
LEMMA InputStep ==
  ASSUME IInv, BatchInv, OutcomeInv, AdmittedInv, [Next]_vars,
         TypeOK', InputInOrder', CompletedRunHandsAll'
  PROVE  InputOrStutter
<1>types. /\ current \in Runs \cup {NoRun} /\ NoRun \notin Runs
          /\ (pc = "idle" <=> current = NoRun)
          /\ staged \in Seq(Deliveries) /\ batch \in Seq(Deliveries) /\ interrupted \subseteq Runs
          /\ captured \in [Deliveries -> Runs \cup {NoRun, Idle}]
          /\ accepted \in [Runs -> Seq(Deliveries)] /\ handed \in [Runs -> Seq(Deliveries)]
          /\ MaxDrain \in Nat
  BY LaneRunAssumption DEF IInv, TypeOK, SDKTypeOK, LaneTypeOK, GoTypeOK, HistTypeOK, SlotInv
<1>still. ASSUME UNCHANGED Seen, pc \notin {"idle", "return"}, pc' \notin {"idle", "return"},
                 current' = current
          PROVE  InputOrStutter
  BY <1>still, OwnerStays DEF Owner
<1>same. ASSUME UNCHANGED <<pc, current, closing, interrupted, accepted, handed, outcome>>
         PROVE  InputOrStutter
  BY <1>same, OwnerStays DEF Owner, Seen
<1>1. ASSUME NEW r \in Runs, NEW s \in Seeds, StartRun(r, s)
      PROVE  InputOrStutter
  <2>1. /\ pc = "idle" /\ pc' = "enter" /\ current' = r /\ seed[r] = NoSeed /\ UNCHANGED Seen
    BY <1>1 DEF StartRun, Seen, histVars
  <2>2. accepted[r] = <<>> /\ handed[r] = <<>> /\ outcome[r] = "none"
    BY <2>1 DEF IInv, InputInv, OutcomeInv
  <2>3. Owner = NoRun /\ Owner' = r /\ Stopped' = Stopped
    BY <2>1 DEF Owner, Stopped, Seen
  <2>4. Input!Own(r)
    BY <2>1, <2>2, <2>3 DEF Input!Own, Seen
  <2>q. QED
    BY <2>4 DEF InputOrStutter, Input!InputNext
<1>2. CASE Begin
  <2>1. /\ pc = "begin" /\ UNCHANGED <<current, closing, interrupted, accepted, handed>>
        /\ \/ pc' = "submit" /\ outcome' = outcome
           \/ pc' = "return" /\ outcome' = [outcome EXCEPT ![current] = "unavailable"]
    BY <1>2 DEF Begin, Unavailable, sdkVars
  <2>2. "unavailable" \in Outcomes /\ current \in Runs
    BY <1>types, <2>1 DEF Outcomes
  <2>q. QED
    BY <1>still, <2>1, <2>2, EndsAs DEF Seen
<1>3. CASE EndRun
  <2>1. /\ pc = "settle" /\ pc' = "return" /\ outcome' = [outcome EXCEPT ![current] = Outcome]
        /\ UNCHANGED <<closing, interrupted, accepted, handed>>
    BY <1>3 DEF EndRun, sdkVars
  <2>2. Outcome \in Outcomes /\ current \in Runs
    BY <1>types, <2>1 DEF Outcomes, Outcome
  <2>q. QED
    BY <2>1, <2>2, EndsAs
<1>4. Enter \/ Submit \/ Written \/ Admit \/ Report \/ Await \/ Leave \/ Continue => InputOrStutter
  <2>1. Enter \/ Submit \/ Written \/ Admit \/ Report \/ Await \/ Leave \/ Continue =>
          /\ UNCHANGED Seen /\ current' = current
          /\ pc \notin {"idle", "return"} /\ pc' \notin {"idle", "return"}
    BY DEF Enter, Submit, Written, Admit, Report, Await, Leave, Continue, Seen, sdkVars, histVars
  <2>q. QED
    BY <1>still, <2>1
<1>5. CASE ReturnRun
  <2>1. pc = "return" /\ pc' = "idle" /\ UNCHANGED Seen
    BY <1>5 DEF ReturnRun, Seen, histVars
  <2>q. QED
    BY <2>1, OwnerStays DEF Owner
<1>6. CASE RequestInterrupt
  <2>1. /\ UNCHANGED <<pc, current, closing, accepted, handed, outcome>>
        /\ interrupted \subseteq interrupted'
    BY <1>6 DEF RequestInterrupt, goVars, histVars
  <2>q. QED
    BY <2>1, Stops DEF Stopped
<1>7. CASE Close
  <2>1. /\ UNCHANGED <<pc, current, interrupted, accepted, handed, outcome>>
        /\ ~closing /\ closing'
    BY <1>7 DEF Close, sdkVars, goVars, histVars
  <2>2. Stopped \subseteq Stopped'
    BY <1>types, <2>1 DEF Stopped
  <2>q. QED
    BY <2>1, <2>2, Stops
<1>8. ASSUME NEW d \in Deliveries, Deliver(d)
      PROVE  InputOrStutter
  <2>1. UNCHANGED <<pc, current, closing, interrupted, handed, outcome>>
    BY <1>8 DEF Deliver, sdkVars, goVars
  <2>2. CASE accepted' = accepted
    BY <1>same, <2>1, <2>2
  <2>3. CASE /\ ~StaleRun(d) /\ ~CannotOwn(d)
             /\ accepted' = [accepted EXCEPT ![captured[d]] = Append(@, d)]
    <3>1. /\ captured[d] = current /\ current \in Runs /\ ~closing /\ current \notin interrupted
          /\ pc \notin {"idle", "return"}
      BY <1>types, <2>3 DEF CannotOwn, StaleRun, IInv, SlotInv, InPrompt
    <3>2. Owner = current /\ Owner' = Owner /\ Stopped = interrupted /\ Stopped' = Stopped
          /\ current # NoRun
      BY <1>types, <2>1, <3>1 DEF Owner, Stopped
    <3>3. \A r \in Runs : d \notin Input!Range(accepted[r])
      <4>1. verdict[d] = "none"
        BY <1>8 DEF Deliver
      <4>q. QED
        BY <4>1 DEF AdmittedInv, Input!Range
    <3>4. Input!AdmitInput(d) /\ Input!Owns
      BY <2>1, <2>3, <3>1, <3>2, <3>3 DEF Input!AdmitInput, Input!Owns
    <3>q. QED
      BY <3>4 DEF InputOrStutter, Input!InputNext
  <2>q. QED
    BY <1>8, <2>2, <2>3 DEF Deliver
<1>9. CASE SubmitCallback
  <2>1. UNCHANGED <<pc, current, closing, interrupted, accepted, outcome>>
    BY <1>9 DEF SubmitCallback, sdkVars
  <2>2. /\ t.run = current /\ active /\ current \in Runs /\ pc \notin {"idle", "return"}
    BY <1>9, <1>types DEF SubmitCallback, IInv, SlotInv, RequestInv, InPrompt
  <2>3. CASE handed' = handed
    BY <1>same, <2>1, <2>3
  <2>4. CASE /\ ~closing /\ (~continuation \/ current \notin interrupted)
             /\ handed' = [handed EXCEPT ![t.run] = @ \o batch]
    <3>1. CASE ~continuation
      <4>1. batch = <<>> /\ handed[current] \in Seq(Deliveries)
        BY <1>types, <2>2, <3>1 DEF BatchInv
      <4>2. handed' = handed
        BY <1>types, <2>2, <2>4, <4>1, ConcatEmptySeq
      <4>q. QED
        BY <2>3, <4>2
    <3>2. CASE current \notin interrupted
      BY <1>types, <2>1, <2>2, <2>4, <3>2, GivesNext
    <3>q. QED
      BY <2>4, <3>1, <3>2
  <2>q. QED
    BY <1>9, <2>3, <2>4 DEF SubmitCallback
<1>10. ASSUME NEW named \in BOOLEAN, Drain(named)
       PROVE  InputOrStutter
  <2>1. UNCHANGED <<pc, current, closing, interrupted, accepted, outcome>>
    BY <1>10 DEF Drain, sdkVars, goVars
  <2>2. CASE ~MayPull(named)
    BY <1>10, <1>same, <2>1, <2>2 DEF Drain
  <2>3. CASE MayPull(named)
    <3>1. /\ t.run = current /\ current \in Runs /\ pc \notin {"idle", "return"}
          /\ ~closing /\ current \notin interrupted
      BY <1>types, <2>3 DEF MayPull, IInv, SlotInv, InPrompt
    <3>2. handed' = [handed EXCEPT ![current] = @ \o Take(MaxDrain)]
      BY <1>10, <2>3, <3>1 DEF Drain
    <3>3. Take(MaxDrain) \in Seq(Deliveries)
      BY <1>types, TakeKeep
    <3>q. QED
      BY <2>1, <3>1, <3>2, <3>3, GivesNext
  <2>q. QED
    BY <2>2, <2>3
<1>11. SendRefused \/ AcquireGate \/ WriteReturns \/ RequestReturns => InputOrStutter
  <2>1. SendRefused \/ AcquireGate \/ WriteReturns \/ RequestReturns =>
          UNCHANGED <<pc, current, closing, interrupted, accepted, handed, outcome>>
    BY DEF SendRefused, AcquireGate, WriteReturns, RequestReturns, sdkVars, goVars, histVars
  <2>q. QED
    BY <1>same, <2>1
<1>12. InterruptProceeds \/ CancelWritten \/ CancelAnswered \/ CancelFails => InputOrStutter
  <2>1. InterruptProceeds \/ CancelWritten \/ CancelAnswered \/ CancelFails =>
          UNCHANGED <<pc, current, closing, interrupted, accepted, handed, outcome>>
    BY DEF InterruptProceeds, CancelWritten, CancelAnswered, CancelFails, sdkVars, goVars, histVars
  <2>q. QED
    BY <1>same, <2>1
<1>13. ASSUME NEW r \in Runs, Interrupt(r) \/ RetireRun(r)
       PROVE  InputOrStutter
  <2>1. UNCHANGED <<pc, current, closing, interrupted, accepted, handed, outcome>>
    BY <1>13 DEF Interrupt, RetireRun, goVars, histVars
  <2>q. QED
    BY <1>same, <2>1
<1>14. ASSUME NEW d \in Deliveries, DeliverRejected(d) \/ Capture(d)
       PROVE  InputOrStutter
  <2>1. UNCHANGED <<pc, current, closing, interrupted, accepted, handed, outcome>>
    BY <1>14 DEF DeliverRejected, Capture, sdkVars, goVars, histVars
  <2>q. QED
    BY <1>same, <2>1
<1>15. ContextEnds \/ Lost \/ Observe \/ Chunk \/ CancelContext => InputOrStutter
  <2>1. ContextEnds \/ Lost \/ Observe \/ Chunk \/ CancelContext =>
          UNCHANGED <<pc, current, closing, interrupted, accepted, handed, outcome>>
    BY DEF ContextEnds, Lost, Observe, Chunk, CancelContext, sdkVars, goVars, histVars
  <2>q. QED
    BY <1>same, <2>1
<1>16. NativeReads \/ NativeCancels => InputOrStutter
  <2>1. NativeReads \/ NativeCancels =>
          UNCHANGED <<pc, current, closing, interrupted, accepted, handed, outcome>>
    BY DEF NativeReads, NativeCancels, sdkVars, goVars, histVars
  <2>q. QED
    BY <1>same, <2>1
<1>17. ASSUME NEW stop \in Terminals, NativeEnds(stop)
       PROVE  InputOrStutter
  <2>1. UNCHANGED <<pc, current, closing, interrupted, accepted, handed, outcome>>
    BY <1>17 DEF NativeEnds, sdkVars, goVars, histVars
  <2>q. QED
    BY <1>same, <2>1
<1>18. CASE UNCHANGED vars
  <2>1. UNCHANGED <<pc, current, closing, interrupted, accepted, handed, outcome>>
    BY <1>18 DEF vars, sdkVars, goVars, histVars
  <2>q. QED
    BY <1>same, <2>1
<1>q. QED
  BY <1>1, <1>2, <1>3, <1>4, <1>5, <1>6, <1>7, <1>8, <1>9, <1>10, <1>11, <1>12,
      <1>13, <1>14, <1>15, <1>16, <1>17, <1>18
  DEF Next, RunGoroutine, RequestGoroutine, InterruptGoroutine, Callback,
      Reader, SDK, Native

\* The lane implements LaneInput: what the daemon is promised of the input a Run took holds
\* whatever the order of deliveries, pulls, continuations, interrupts, Close and the ends of
\* prompts and Runs (delivery.go, executeRun).
THEOREM InputImplemented == Spec => ImplementsInput
<1>1. Init => Input!InputInit /\ BatchInv /\ OutcomeInv /\ AdmittedInv /\ CompletedRunHandsAll
  <2>1. DOMAIN <<>> = {}
    OBVIOUS
  <2>q. QED
    BY <2>1 DEF Init, Input!InputInit, Owner, Stopped, BatchInv, OutcomeInv, AdmittedInv,
        CompletedRunHandsAll
<1>2. BatchInv /\ [Next]_vars => BatchInv'
  BY BatchStep
<1>3. IInv /\ OutcomeInv /\ [Next]_vars => OutcomeInv'
  BY OutcomeStep
<1>4. TypeOK /\ AdmittedInv /\ [Next]_vars => AdmittedInv'
  BY AdmittedStep
<1>5. IInv /\ BatchInv /\ OutcomeInv /\ AdmittedInv /\ [Next]_vars
        /\ TypeOK' /\ InputInOrder' /\ CompletedRunHandsAll' => [Input!InputNext]_(Input!inputRunVars)
  BY InputStep DEF InputOrStutter
<1>q. QED
  BY <1>1, <1>2, <1>3, <1>4, <1>5, Invariant, TypeCorrect, InputOrder, CompletedHandsAll, PTL
  DEF Spec, ImplementsInput, Input!InputSpec
=============================================================================
