------------------------- MODULE LaneForwarder_proofs -------------------------
(***************************************************************************)
(* Proofs about LaneForwarder, for any capacity, number of chunks and      *)
(* events: what it returns is true, and it leaves nothing open or running. *)
(***************************************************************************)
EXTENDS LaneForwarder, SequenceTheorems, TLAPS

MainTypeOK ==
  /\ stage \in {"input", "output", "dial", "start", "first", "second", "unwind", "returned"}
  /\ open \subseteq Descriptors
  /\ result \subseteq {"setup", "cancelled", "eof", "failed", "closed"}

BoolTypeOK == cancelled \in BOOLEAN /\ stopped \in BOOLEAN /\ watched \in BOOLEAN

CopyTypeOK ==
  /\ copy \in [Copies -> {"none", "read", "write", "ended"}]
  /\ outcome \in [Copies -> {"none", "eof", "failed", "closed"}]
  /\ results \in Seq(Copies) /\ Len(results) <= 2

PeerTypeOK ==
  /\ pipe \in [Pipes -> 0 .. Capacity]
  /\ written \in [Copies -> 0 .. MaxChunks]
  /\ gone \subseteq Ends

\* What the setup has opened, and what stays open until stop.
OpenInv ==
  /\ stage \in {"output", "dial", "start"} => "input" \in open
  /\ stage \in {"dial", "start"} => "output" \in open
  /\ stage = "start" => "socket" \in open
  /\ stage \in {"first", "second"} /\ ~stopped => {"input", "output", "socket"} \subseteq open

\* The stacks of deferred functions that ForwardLaneMCP can have.
S0 == <<>>
S1 == <<"originals">>
S2 == <<"input">> \o S1
S3 == <<"output">> \o S2
S4 == <<"stop">> \o S3
S5 == <<"cancel">> \o S4

Originals == {"original input", "original output"}

\* Whatever is open has a deferred function that will close it, the duplicate
\* being made excepted, and AfterFunc's registration one that takes it back.
DeferInv ==
  /\ deferred \in {S0, S1, S2, S3, S4, S5}
  /\ stage = "input" => deferred = S1
  /\ stage = "output" => deferred = S2
  /\ stage = "dial" => deferred = S3
  /\ stage = "start" => deferred = S4
  /\ stage \in {"first", "second"} => deferred = S5
  /\ stage = "returned" => deferred = S0
  /\ watched => deferred = S5
  /\ deferred = S0 => open = {}
  /\ deferred = S1 => open \subseteq Originals \cup ({"input"} \cap {stage})
  /\ deferred = S2 => open \subseteq Originals \cup {"input"} \cup ({"output"} \cap {stage})
  /\ deferred = S3 => open \subseteq Originals \cup {"input", "output"}
  /\ stopped => open \subseteq Originals

\* The copies against the results they have sent.
ResultInv ==
  /\ stage \in {"input", "output", "dial", "start"} =>
       ~stopped /\ Len(results) = 0 /\ \A x \in Copies : copy[x] = "none"
  /\ stage \in {"first", "second"} => \A x \in Copies : copy[x] # "none"
  /\ stage \in {"unwind", "returned"} => \A x \in Copies : copy[x] \in {"none", "ended"}
  /\ stage = "second" => Len(results) > 0
  /\ \A x \in Copies : copy[x] = "ended" <=> \E i \in 1 .. Len(results) : results[i] = x
  /\ \A x \in Copies : copy[x] = "ended" => outcome[x] # "none"
  /\ Len(results) = 2 => results[1] # results[2]

\* A first copy that ends on a closed descriptor ends because of the context.
FirstInv ==
  /\ stage \in {"first", "second"} /\ stopped /\ Len(results) = 0 => cancelled
  /\ stage \in {"first", "second"} /\ Len(results) > 0 /\ outcome[results[1]] = "closed" => cancelled

\* OutcomeTrue from the moment the result is computed.
OutcomeInv ==
  stage \in {"unwind", "returned"} /\ copy["up"] # "none" /\ "cancelled" \notin result =>
    result = {"failed"} \cap {outcome[x] : x \in Copies}

IInv ==
  /\ MainTypeOK /\ CopyTypeOK /\ PeerTypeOK /\ BoolTypeOK
  /\ OpenInv /\ DeferInv /\ ResultInv /\ FirstInv /\ OutcomeInv

USE DEF Copies

-----------------------------------------------------------------------------
\* A function deferred goes on top of the stack, and the top is taken off.
LEMMA Push ==
  ASSUME NEW s \in Seq(DOMAIN Closes), NEW f \in DOMAIN Closes
  PROVE  LET p == <<f>> \o s IN
         p \in Seq(DOMAIN Closes) /\ Len(p) = Len(s) + 1 /\ Tail(p) = s /\ Head(p) = f
  OBVIOUS

LEMMA Stacks ==
  /\ Tail(S1) = S0 /\ Tail(S2) = S1 /\ Tail(S3) = S2 /\ Tail(S4) = S3 /\ Tail(S5) = S4
  /\ Head(S1) = "originals" /\ Head(S2) = "input" /\ Head(S3) = "output"
  /\ Head(S4) = "stop" /\ Head(S5) = "cancel"
  /\ Len(S0) = 0 /\ Len(S1) = 1 /\ Len(S2) = 2 /\ Len(S3) = 3 /\ Len(S4) = 4 /\ Len(S5) = 5
  /\ \A d \in {S0, S1, S2, S3, S4, S5} : d \in Seq(DOMAIN Closes)
<1>0. \A f \in {"originals", "input", "output", "stop", "cancel"} : f \in DOMAIN Closes
  BY DEF Closes
<1>1. S0 \in Seq(DOMAIN Closes) /\ Len(S0) = 0
  BY DEF S0
<1>2. S1 \in Seq(DOMAIN Closes) /\ Len(S1) = 1 /\ Tail(S1) = S0 /\ Head(S1) = "originals"
  BY <1>0 DEF S0, S1
<1>3. S2 \in Seq(DOMAIN Closes) /\ Len(S2) = Len(S1) + 1 /\ Tail(S2) = S1 /\ Head(S2) = "input"
  <2>1. "input" \in DOMAIN Closes
    BY <1>0
  <2> QED
    BY <1>2, <2>1, Push DEF S2
<1>4. S3 \in Seq(DOMAIN Closes) /\ Len(S3) = Len(S2) + 1 /\ Tail(S3) = S2 /\ Head(S3) = "output"
  <2>1. "output" \in DOMAIN Closes
    BY <1>0
  <2> QED
    BY <1>3, <2>1, Push DEF S3
<1>5. S4 \in Seq(DOMAIN Closes) /\ Len(S4) = Len(S3) + 1 /\ Tail(S4) = S3 /\ Head(S4) = "stop"
  <2>1. "stop" \in DOMAIN Closes
    BY <1>0
  <2> QED
    BY <1>4, <2>1, Push DEF S4
<1>6. S5 \in Seq(DOMAIN Closes) /\ Len(S5) = Len(S4) + 1 /\ Tail(S5) = S4 /\ Head(S5) = "cancel"
  <2>1. "cancel" \in DOMAIN Closes
    BY <1>0
  <2> QED
    BY <1>5, <2>1, Push DEF S5
<1> QED
  BY <1>1, <1>2, <1>3, <1>4, <1>5, <1>6

LEMMA StackLengths ==
  /\ Len(S0) = 0 /\ Len(S1) = 1 /\ Len(S2) = 2 /\ Len(S3) = 3 /\ Len(S4) = 4 /\ Len(S5) = 5
  /\ S0 # S1 /\ S0 # S2 /\ S0 # S3 /\ S0 # S4 /\ S0 # S5 /\ S1 # S2 /\ S1 # S3 /\ S1 # S4
  /\ S1 # S5 /\ S2 # S3 /\ S2 # S4 /\ S2 # S5 /\ S3 # S4 /\ S3 # S5 /\ S4 # S5
<1>1. Len(S0) = 0 /\ Len(S1) = 1 /\ Len(S2) = 2 /\ Len(S3) = 3 /\ Len(S4) = 4 /\ Len(S5) = 5
  BY Stacks
<1>2. S0 # S1 /\ S0 # S2 /\ S0 # S3 /\ S0 # S4 /\ S0 # S5
  <2>1. Len(S0) # Len(S1) /\ Len(S0) # Len(S2) /\ Len(S0) # Len(S3) /\ Len(S0) # Len(S4)
          /\ Len(S0) # Len(S5)
    BY <1>1
  <2> QED
    BY <2>1, Zenon
<1>3. S1 # S2 /\ S1 # S3 /\ S1 # S4 /\ S1 # S5
  <2>1. Len(S1) # Len(S2) /\ Len(S1) # Len(S3) /\ Len(S1) # Len(S4) /\ Len(S1) # Len(S5)
    BY <1>1
  <2> QED
    BY <2>1, Zenon
<1>4. S2 # S3 /\ S2 # S4 /\ S2 # S5 /\ S3 # S4 /\ S3 # S5 /\ S4 # S5
  <2>1. Len(S2) # Len(S3) /\ Len(S2) # Len(S4) /\ Len(S2) # Len(S5)
          /\ Len(S3) # Len(S4) /\ Len(S3) # Len(S5) /\ Len(S4) # Len(S5)
    BY <1>1
  <2> QED
    BY <2>1, Zenon
<1> QED
  BY <1>1, <1>2, <1>3, <1>4, Zenon

LEMMA InitInv == Init => IInv
<1> SUFFICES ASSUME Init PROVE IInv
  OBVIOUS
<1>1. MainTypeOK /\ CopyTypeOK /\ BoolTypeOK
  <2>1. BoolTypeOK
    BY DEF Init, BoolTypeOK
  <2>2. MainTypeOK
    BY DEF Init, MainTypeOK, Descriptors
  <2>3. results = <<>>
    BY DEF Init
  <2>4. results \in Seq(Copies) /\ Len(results) = 0
    BY <2>3
  <2>5. copy \in [Copies -> {"none", "read", "write", "ended"}]
    BY DEF Init
  <2>6. outcome \in [Copies -> {"none", "eof", "failed", "closed"}]
    BY DEF Init
  <2>7. CopyTypeOK
    BY <2>4, <2>5, <2>6 DEF CopyTypeOK
  <2> QED
    BY <2>1, <2>2, <2>7
<1>2. PeerTypeOK
  <2>1. 0 \in 0 .. Capacity /\ 0 \in 0 .. MaxChunks
    BY LaneForwarderAssumption
  <2> QED
    BY <2>1 DEF Init, PeerTypeOK
<1>3. OpenInv /\ DeferInv /\ FirstInv /\ OutcomeInv
  <2>1. deferred = S1
    BY DEF Init, S1
  <2>2. DeferInv
    BY <2>1, StackLengths DEF Init, DeferInv, Originals
  <2> QED
    BY <2>2 DEF Init, OpenInv, FirstInv, OutcomeInv
<1>4. ResultInv
  <2>0. results = <<>>
    BY DEF Init
  <2>1. Len(results) = 0 /\ 1 .. Len(results) = {}
    BY <2>0
  <2>2. \A x \in Copies : copy[x] = "none"
    BY DEF Init
  <2> QED
    <3>1. stage = "input" /\ ~stopped
      BY DEF Init
    <3> QED
      BY <2>1, <2>2, <3>1 DEF ResultInv
<1> QED
  BY <1>1, <1>2, <1>3, <1>4 DEF IInv

\* The steps of the peers, of native's end and of the context's cancellation
\* touch neither ForwardLaneMCP nor the copies.
LEMMA Outside ==
  ASSUME IInv, UNCHANGED <<mainVars, copyVars>>, cancelled' \in BOOLEAN,
         cancelled => cancelled', PeerTypeOK'
  PROVE  IInv'
<1>0. BoolTypeOK'
  BY DEF IInv, BoolTypeOK, mainVars
<1>1. MainTypeOK' /\ CopyTypeOK' /\ OpenInv' /\ DeferInv' /\ ResultInv' /\ OutcomeInv'
  BY DEF IInv, MainTypeOK, CopyTypeOK, OpenInv, DeferInv, ResultInv, OutcomeInv, mainVars, copyVars
<1>2. FirstInv'
  BY DEF IInv, FirstInv, mainVars, copyVars
<1> QED
  BY <1>0, <1>1, <1>2 DEF IInv

LEMMA PipeNames ==
  ASSUME NEW x \in Copies
  PROVE  Source[x] \in Pipes /\ Target[x] \in Pipes
  BY DEF Source, Target, Pipes

LEMMA PeersInv ==
  ASSUME IInv, Peers \/ Cancel
  PROVE  IInv'
<1>1. CASE Cancel
  BY <1>1, Outside DEF Cancel, IInv, PeerTypeOK, BoolTypeOK, peerVars
<1>2. ASSUME NEW x \in Copies, PeerWrites(x)
      PROVE  IInv'
  <2>1. Source[x] \in Pipes
    BY PipeNames
  <2>2. PeerTypeOK'
    BY <1>2, <2>1, LaneForwarderAssumption DEF PeerWrites, IInv, PeerTypeOK
  <2> QED
    BY <1>2, <2>2, Outside DEF PeerWrites, IInv, BoolTypeOK
<1>3. ASSUME NEW x \in Copies, PeerReads(x)
      PROVE  IInv'
  <2>1. Target[x] \in Pipes
    BY PipeNames
  <2>2. PeerTypeOK'
    BY <1>3, <2>1, LaneForwarderAssumption DEF PeerReads, IInv, PeerTypeOK
  <2> QED
    BY <1>3, <2>2, Outside DEF PeerReads, IInv, BoolTypeOK
<1>4. ASSUME NEW end \in Ends, PeerGoes(end)
      PROVE  IInv'
  BY <1>4, Outside DEF PeerGoes, IInv, PeerTypeOK, BoolTypeOK
<1> QED
  BY <1>1, <1>2, <1>3, <1>4 DEF Peers

\* A step of ForwardLaneMCP changes no pipe, and a copy only to start it.
LEMMA MainStep ==
  ASSUME IInv, UNCHANGED <<cancelled, outcome, results, peerVars>>,
         \/ copy' = copy
         \/ copy' = [x \in Copies |-> "read"],
         stopped' \in BOOLEAN, watched' \in BOOLEAN
  PROVE  CopyTypeOK' /\ PeerTypeOK' /\ BoolTypeOK'
<1>1. CopyTypeOK'
  BY DEF IInv, CopyTypeOK
<1>2. PeerTypeOK'
  BY DEF IInv, PeerTypeOK, peerVars
<1>3. BoolTypeOK'
  BY DEF IInv, BoolTypeOK
<1> QED
  BY <1>1, <1>2, <1>3

\* A setup that fails has started no copy, and what it leaves open is what
\* its deferred functions close.
LEMMA SetupFails ==
  ASSUME IInv, stage \in {"input", "output", "dial"}, Fails("setup"),
         open' = open \ {stage},
         UNCHANGED <<cancelled, copyVars, peerVars>>
  PROVE  IInv'
<1>1. CopyTypeOK' /\ PeerTypeOK' /\ BoolTypeOK'
  BY MainStep DEF Fails, copyVars, IInv, BoolTypeOK
<1>2. MainTypeOK'
  BY DEF IInv, MainTypeOK, Fails
<1>3. DeferInv'
  <2>1. deferred' = deferred /\ watched' = watched /\ stopped' = stopped /\ stage' = "unwind"
    BY DEF Fails
  <2>2. stage = "input" \/ stage = "output" \/ stage = "dial"
    OBVIOUS
  <2>3. CASE stage = "input"
    BY <2>1, <2>3, StackLengths DEF IInv, DeferInv
  <2>4. CASE stage = "output"
    BY <2>1, <2>4, StackLengths DEF IInv, DeferInv
  <2>5. CASE stage = "dial"
    BY <2>1, <2>5, StackLengths DEF IInv, DeferInv
  <2> QED
    BY <2>2, <2>3, <2>4, <2>5
<1>4. OpenInv' /\ ResultInv' /\ FirstInv' /\ OutcomeInv'
  BY DEF IInv, OpenInv, ResultInv, FirstInv, OutcomeInv, Fails, copyVars
<1> QED
  BY <1>1, <1>2, <1>3, <1>4 DEF IInv

LEMMA SetupInv ==
  ASSUME IInv, Setup
  PROVE  IInv'
<1>1. CASE Duplicate
  <2>1. CASE Fails("setup") /\ open' = open
    <3>1. open' = open \ {stage}
      BY <1>1, <2>1 DEF Duplicate
    <3> QED
      BY <1>1, <2>1, <3>1, SetupFails DEF Duplicate
  <2>2. CASE open' = open \cup {stage} /\ UNCHANGED <<stage, deferred, watched, stopped, result>>
    <3>1. CopyTypeOK' /\ PeerTypeOK' /\ BoolTypeOK'
      BY <1>1, <2>2, MainStep DEF Duplicate, copyVars, IInv, BoolTypeOK
    <3>2. MainTypeOK'
      BY <1>1, <2>2 DEF IInv, MainTypeOK, Duplicate, Descriptors
    <3>3. DeferInv'
      <4>1. ~stopped
        BY <1>1 DEF IInv, ResultInv, Duplicate
      <4>2. stage = "input" \/ stage = "output"
        BY <1>1 DEF Duplicate
      <4> QED
        BY <2>2, <4>1, <4>2, StackLengths DEF IInv, DeferInv
    <3>4. OpenInv' /\ ResultInv' /\ FirstInv' /\ OutcomeInv'
      BY <1>1, <2>2 DEF IInv, OpenInv, ResultInv, FirstInv, OutcomeInv, Duplicate, copyVars
    <3> QED
      BY <3>1, <3>2, <3>3, <3>4 DEF IInv
  <2> QED
    BY <1>1, <2>1, <2>2 DEF Duplicate
<1>2. CASE Register
  <2>1. CASE Fails("setup") /\ open' = open \ {stage}
    BY <1>2, <2>1, SetupFails DEF Register
  <2>2. CASE /\ deferred' = Defers(stage)
             /\ stage' = (IF stage = "input" THEN "output" ELSE "dial")
             /\ UNCHANGED <<open, watched, stopped, result>>
    <3>1. CopyTypeOK' /\ PeerTypeOK' /\ BoolTypeOK'
      BY <1>2, <2>2, MainStep DEF Register, copyVars, IInv, BoolTypeOK
    <3>2. MainTypeOK'
      BY <1>2, <2>2 DEF IInv, MainTypeOK, Register
    <3>3. DeferInv'
      <4>0. ~stopped /\ (stage = "input" \/ stage = "output")
        BY <1>2 DEF IInv, ResultInv, Register
      <4>1. CASE stage = "input"
        <5>1. deferred = S1 /\ deferred' = S2 /\ stage' = "output"
          BY <2>2, <4>1 DEF IInv, DeferInv, Defers, S2
        <5> QED
          BY <2>2, <4>0, <4>1, <5>1, StackLengths DEF IInv, DeferInv
      <4>2. CASE stage = "output"
        <5>1. deferred = S2 /\ deferred' = S3 /\ stage' = "dial"
          BY <2>2, <4>2 DEF IInv, DeferInv, Defers, S3
        <5> QED
          BY <2>2, <4>0, <4>2, <5>1, StackLengths DEF IInv, DeferInv
      <4> QED
        BY <4>0, <4>1, <4>2
    <3>4. OpenInv' /\ ResultInv' /\ FirstInv' /\ OutcomeInv'
      BY <1>2, <2>2 DEF IInv, OpenInv, ResultInv, FirstInv, OutcomeInv, Register, copyVars
    <3> QED
      BY <3>1, <3>2, <3>3, <3>4 DEF IInv
  <2> QED
    BY <1>2, <2>1, <2>2 DEF Register
<1>3. CASE Dial
  <2>1. CASE Fails("setup") /\ open' = open
    <3>1. open' = open \ {stage}
      BY <1>3, <2>1 DEF Dial, IInv, MainTypeOK, Descriptors
    <3> QED
      BY <1>3, <2>1, <3>1, SetupFails DEF Dial
  <2>2. CASE /\ open' = open \cup {"socket"} /\ stage' = "start"
             /\ deferred' = Defers("stop")
             /\ UNCHANGED <<watched, stopped, result>>
    <3>1. CopyTypeOK' /\ PeerTypeOK' /\ BoolTypeOK'
      BY <1>3, <2>2, MainStep DEF Dial, copyVars, IInv, BoolTypeOK
    <3>2. MainTypeOK'
      BY <1>3, <2>2 DEF IInv, MainTypeOK, Dial, Descriptors
    <3>3. DeferInv'
      <4>1. ~stopped /\ deferred = S3 /\ deferred' = S4
        BY <1>3, <2>2 DEF IInv, ResultInv, DeferInv, Dial, Defers, S4
      <4> QED
        BY <2>2, <4>1, StackLengths DEF IInv, DeferInv
    <3>4. OpenInv' /\ ResultInv' /\ FirstInv' /\ OutcomeInv'
      BY <1>3, <2>2 DEF IInv, OpenInv, ResultInv, FirstInv, OutcomeInv, Dial, copyVars
    <3> QED
      BY <3>1, <3>2, <3>3, <3>4 DEF IInv
  <2> QED
    BY <1>3, <2>1, <2>2 DEF Dial
<1>4. CASE Start
  <2>1. CopyTypeOK' /\ PeerTypeOK' /\ BoolTypeOK'
    BY <1>4, MainStep DEF Start, IInv, BoolTypeOK
  <2>2. MainTypeOK'
    BY <1>4 DEF IInv, MainTypeOK, Start
  <2>3. DeferInv'
    <3>1. ~stopped /\ deferred = S4 /\ deferred' = S5 /\ stage' = "first"
      BY <1>4 DEF IInv, ResultInv, DeferInv, Start, Defers, S5
    <3> QED
      BY <1>4, <3>1, StackLengths DEF IInv, DeferInv, Start
  <2>4. OpenInv' /\ ResultInv' /\ FirstInv' /\ OutcomeInv'
    BY <1>4 DEF IInv, OpenInv, ResultInv, FirstInv, OutcomeInv, Start
  <2> QED
    BY <2>1, <2>2, <2>3, <2>4 DEF IInv
<1> QED
  BY <1>1, <1>2, <1>3, <1>4 DEF Setup

LEMMA StopInv ==
  ASSUME IInv, CancelStops \/ First
  PROVE  IInv'
<1>0. /\ UNCHANGED <<deferred, watched, result, cancelled, copyVars, peerVars>>
      /\ stopped' = TRUE /\ open' \subseteq open
      /\ deferred = S5 /\ deferred' = S5
  BY DEF IInv, DeferInv, CancelStops, First, Stops
<1>1. CopyTypeOK' /\ PeerTypeOK' /\ BoolTypeOK'
  BY <1>0, MainStep DEF copyVars, IInv, BoolTypeOK
<1>2. MainTypeOK'
  BY <1>0 DEF IInv, MainTypeOK, CancelStops, First
<1>3. DeferInv'
  <2>1. open' \subseteq Originals
    BY DEF IInv, MainTypeOK, DeferInv, CancelStops, First, Stops, Closes, Originals, Descriptors
  <2>2. stage' \notin {"input", "output", "dial", "start", "returned"}
    BY <1>0, StackLengths DEF IInv, DeferInv, CancelStops, First
  <2> QED
    BY <1>0, <2>1, <2>2, StackLengths DEF IInv, DeferInv
<1>4. OpenInv' /\ ResultInv' /\ FirstInv' /\ OutcomeInv'
  <2>1. stage' \in {"first", "second", "unwind"} /\ (stage' = "unwind" => stage = "unwind")
    BY <1>0, StackLengths DEF IInv, MainTypeOK, DeferInv, CancelStops, First
  <2>2. OpenInv'
    BY <1>0, <2>1 DEF OpenInv
  <2>3. OutcomeInv'
    BY <1>0, <2>1 DEF IInv, OutcomeInv, copyVars
  <2>4. ResultInv' /\ FirstInv'
    BY <1>0, <2>1 DEF IInv, ResultInv, FirstInv, CancelStops, First, copyVars
  <2> QED
    BY <2>2, <2>3, <2>4
<1> QED
  BY <1>1, <1>2, <1>3, <1>4 DEF IInv

\* With both results in hand, the first is no closed descriptor unless the
\* context ended, and the second is dropped only when it is one.
LEMMA JoinInv ==
  ASSUME IInv, Join
  PROVE  IInv'
<1>1. Len(results) = 2 /\ results \in Seq(Copies)
  BY DEF IInv, CopyTypeOK, Join
<1> DEFINE x == results[1]
           y == results[2]
<1>2. /\ x \in Copies /\ y \in Copies /\ x # y
      /\ copy[x] = "ended" /\ copy[y] = "ended" /\ outcome[x] # "none" /\ outcome[y] # "none"
  BY <1>1 DEF IInv, ResultInv
<1> HIDE DEF x, y
<1>3. outcome[x] \in {"eof", "failed", "closed"} /\ outcome[y] \in {"eof", "failed", "closed"}
  BY <1>2 DEF IInv, CopyTypeOK
<1>4. Returned = IF cancelled THEN {"cancelled"}
                 ELSE ({outcome[x]} \ {"eof"}) \cup ({outcome[y]} \ {"eof", "closed"})
  BY <1>1 DEF Returned, Second, x, y
<1>5. MainTypeOK' /\ CopyTypeOK' /\ PeerTypeOK' /\ BoolTypeOK'
  <2>1. Returned \subseteq {"setup", "cancelled", "eof", "failed", "closed"}
    BY <1>3, <1>4
  <2>2. MainTypeOK'
    BY <2>1 DEF IInv, MainTypeOK, Join
  <2> QED
    BY <2>2, MainStep DEF Join, copyVars, IInv, BoolTypeOK
<1>6. OpenInv' /\ ResultInv' /\ FirstInv'
  BY <1>2 DEF IInv, OpenInv, ResultInv, FirstInv, Join, copyVars
<1>7. DeferInv'
  BY StackLengths DEF IInv, DeferInv, Join
<1>8. ~cancelled => outcome[x] # "closed"
  BY <1>1 DEF IInv, FirstInv, Join, x
<1>9. OutcomeInv'
  <2>1. {outcome[z] : z \in Copies} = {outcome[x], outcome[y]}
    BY <1>2
  <2> QED
    BY <1>3, <1>4, <1>8, <2>1 DEF OutcomeInv, Join, copyVars
<1> QED
  BY <1>5, <1>6, <1>7, <1>9 DEF IInv

\* Each deferred function closes what was open on its account, so that nothing
\* is left with the last one.
LEMMA UnwindInv ==
  ASSUME IInv, Unwind
  PROVE  IInv'
<1> DEFINE f == Head(deferred)
<1>0. /\ stage = "unwind" /\ stage' = "unwind" /\ deferred # <<>>
      /\ open' = (IF f = "stop" THEN Stops ELSE open \ Closes[f])
      /\ stopped' = (stopped \/ f = "stop") /\ watched' = (watched /\ f # "cancel")
      /\ deferred' = Tail(deferred)
      /\ UNCHANGED <<result, cancelled, copyVars, peerVars>>
  BY DEF Unwind
<1>1. open' \subseteq open
  BY <1>0 DEF Stops
<1>2. CopyTypeOK' /\ PeerTypeOK' /\ BoolTypeOK'
  BY <1>0, MainStep DEF copyVars, IInv, BoolTypeOK
<1>3. MainTypeOK'
  BY <1>0, <1>1 DEF IInv, MainTypeOK
<1>4. OpenInv' /\ ResultInv' /\ FirstInv' /\ OutcomeInv'
  BY <1>0 DEF IInv, OpenInv, ResultInv, FirstInv, OutcomeInv, copyVars
<1>5. DeferInv'
  <2>1. deferred \in {S1, S2, S3, S4, S5}
    BY <1>0, StackLengths DEF IInv, DeferInv, S0
  <2>2. CASE deferred = S1
    <3>1. f = "originals" /\ deferred' = S0
      BY <1>0, <2>2, Stacks
    <3>2. open \subseteq Originals /\ open' = open \ Closes["originals"]
      BY <1>0, <2>2, <3>1 DEF IInv, DeferInv
    <3>3. open' = {}
      BY <3>2 DEF Closes, Originals
    <3> QED
      BY <1>0, <2>2, <3>1, <3>3, StackLengths DEF IInv, DeferInv
  <2>3. CASE deferred = S2
    <3>1. f = "input" /\ deferred' = S1
      BY <1>0, <2>3, Stacks
    <3>2. open \subseteq Originals \cup {"input"} /\ open' = open \ Closes["input"]
      BY <1>0, <2>3, <3>1 DEF IInv, DeferInv
    <3>3. open' \subseteq Originals
      BY <3>2 DEF Closes
    <3> QED
      BY <1>0, <2>3, <3>1, <3>3, StackLengths DEF IInv, DeferInv
  <2>4. CASE deferred = S3
    <3>1. f = "output" /\ deferred' = S2
      BY <1>0, <2>4, Stacks
    <3>2. open \subseteq Originals \cup {"input", "output"} /\ open' = open \ Closes["output"]
      BY <1>0, <2>4, <3>1 DEF IInv, DeferInv
    <3>3. open' \subseteq Originals \cup {"input"}
      BY <3>2 DEF Closes
    <3> QED
      BY <1>0, <1>1, <2>4, <3>1, <3>3, StackLengths DEF IInv, DeferInv
  <2>5. CASE deferred = S4
    <3>1. f = "stop" /\ deferred' = S3
      BY <1>0, <2>5, Stacks
    <3>2. open' \subseteq Originals
      BY <1>0, <3>1 DEF IInv, MainTypeOK, DeferInv, Stops, Closes, Originals, Descriptors
    <3> QED
      BY <1>0, <2>5, <3>1, <3>2, StackLengths DEF IInv, DeferInv
  <2>6. CASE deferred = S5
    <3>1. f = "cancel" /\ deferred' = S4
      BY <1>0, <2>6, Stacks
    <3> QED
      BY <1>0, <1>1, <2>6, <3>1, StackLengths DEF IInv, DeferInv
  <2> QED
    BY <2>1, <2>2, <2>3, <2>4, <2>5, <2>6
<1> QED
  BY <1>2, <1>3, <1>4, <1>5 DEF IInv

LEMMA ReturnInv ==
  ASSUME IInv, Return
  PROVE  IInv'
<1>1. CopyTypeOK' /\ PeerTypeOK' /\ BoolTypeOK'
  BY MainStep DEF Return, copyVars, IInv, BoolTypeOK
<1>2. MainTypeOK' /\ OpenInv' /\ ResultInv' /\ FirstInv' /\ OutcomeInv'
  BY DEF IInv, MainTypeOK, OpenInv, ResultInv, FirstInv, OutcomeInv, Return, copyVars
<1>3. DeferInv'
  <2>1. deferred = S0 /\ deferred' = S0 /\ stage' = "returned" /\ UNCHANGED <<open, watched, stopped>>
    BY DEF Return, S0
  <2> QED
    BY <2>1, StackLengths DEF IInv, DeferInv
<1> QED
  BY <1>1, <1>2, <1>3 DEF IInv

\* A copy that ends adds its result; the first does so with a descriptor
\* closed only after stop, and then only for the context.
LEMMA EndInv ==
  ASSUME IInv, NEW x \in Copies, NEW o \in {"eof", "failed", "closed"},
         copy[x] \in {"read", "write"}, End(x, o),
         o = "closed" => stopped,
         UNCHANGED <<cancelled, mainVars, written, gone>>
  PROVE  IInv'
<1>1. stage \in {"first", "second"}
  BY DEF IInv, MainTypeOK, ResultInv
<1>2. results \in Seq(Copies) /\ \A i \in 1 .. Len(results) : results[i] # x
  BY DEF IInv, CopyTypeOK, ResultInv
<1>3. /\ results' \in Seq(Copies) /\ Len(results') = Len(results) + 1
      /\ results'[Len(results')] = x
      /\ \A i \in 1 .. Len(results) : results'[i] = results[i]
  BY <1>2 DEF End
<1>4. Len(results) \in {0, 1}
  <2>1. Len(results) # 2
    BY <1>2 DEF IInv, ResultInv
  <2>2. Len(results) \in Nat
    BY <1>2, LenProperties
  <2>3. Len(results) <= 2
    BY DEF IInv, CopyTypeOK
  <2>4. \A n \in Nat : n <= 2 /\ n # 2 => n \in {0, 1}
    OBVIOUS
  <2> QED
    BY <2>1, <2>2, <2>3, <2>4
<1>5. CopyTypeOK'
  BY <1>3, <1>4 DEF IInv, CopyTypeOK, End
<1>6. MainTypeOK' /\ PeerTypeOK'
  BY DEF IInv, MainTypeOK, PeerTypeOK, End, mainVars
<1>7. BoolTypeOK'
  BY DEF IInv, BoolTypeOK, mainVars
<1>8. OpenInv' /\ DeferInv' /\ OutcomeInv'
  BY <1>1 DEF IInv, OpenInv, DeferInv, OutcomeInv, mainVars
<1>9. ResultInv'
  <2>1. \A z \in Copies : copy'[z] = "ended" <=> \E i \in 1 .. Len(results') : results'[i] = z
    <3>1. \A z \in Copies : copy'[z] = "ended" <=> z = x \/ copy[z] = "ended"
      BY DEF IInv, CopyTypeOK, End
    <3>2. \A z : (\E i \in 1 .. Len(results') : results'[i] = z)
                   <=> z = x \/ \E i \in 1 .. Len(results) : results[i] = z
      BY <1>2, <1>3, <1>4
    <3> QED
      BY <3>1, <3>2 DEF IInv, ResultInv
  <2>2. \A z \in Copies : copy'[z] # "none" /\ (copy'[z] = "ended" => outcome'[z] # "none")
    BY <1>1 DEF IInv, CopyTypeOK, ResultInv, End
  <2>3. Len(results') > 0 /\ (Len(results') = 2 => results'[1] # results'[2])
    BY <1>2, <1>3, <1>4
  <2> QED
    BY <1>1, <2>1, <2>2, <2>3 DEF ResultInv, mainVars
<1>10. FirstInv'
  <2>1. CASE Len(results) = 0
    BY <1>1, <1>3, <2>1 DEF IInv, CopyTypeOK, FirstInv, End, mainVars
  <2>2. CASE Len(results) = 1
    BY <1>1, <1>2, <1>3, <2>2 DEF IInv, CopyTypeOK, FirstInv, End, mainVars
  <2> QED
    BY <1>4, <2>1, <2>2
<1> QED
  BY <1>5, <1>6, <1>7, <1>8, <1>9, <1>10 DEF IInv

\* A copy that goes on changes its own phase and a pipe.
LEMMA StepInv ==
  ASSUME IInv, NEW x \in Copies, NEW at \in {"read", "write"},
         copy[x] \in {"read", "write"}, Step(x, at), PeerTypeOK',
         UNCHANGED <<cancelled, mainVars>>
  PROVE  IInv'
<1>1. MainTypeOK' /\ CopyTypeOK' /\ BoolTypeOK'
  <2>1. MainTypeOK' /\ CopyTypeOK'
    BY DEF IInv, MainTypeOK, CopyTypeOK, Step, mainVars
  <2>2. BoolTypeOK'
    BY DEF IInv, BoolTypeOK, mainVars
  <2> QED
    BY <2>1, <2>2
<1>2. stage \in {"first", "second"}
  BY DEF IInv, MainTypeOK, ResultInv
<1>3. OpenInv' /\ DeferInv' /\ ResultInv' /\ FirstInv' /\ OutcomeInv'
  BY <1>2 DEF IInv, CopyTypeOK, OpenInv, DeferInv, ResultInv, FirstInv, OutcomeInv, Step, mainVars
<1> QED
  BY <1>1, <1>3 DEF IInv

LEMMA CopyInv ==
  ASSUME IInv, NEW x \in Copies, CopyStep(x)
  PROVE  IInv'
<1>1. copy[x] \in {"read", "write"} /\ UNCHANGED <<cancelled, mainVars, written, gone>>
  BY DEF CopyStep, Read, Write
<1>2. stage \in {"first", "second"}
  BY <1>1 DEF IInv, MainTypeOK, ResultInv
<1>3. Interrupted(ReadsFrom[x]) \/ Interrupted(WritesTo[x]) => stopped
  BY <1>2 DEF IInv, OpenInv, Interrupted, ReadsFrom, WritesTo
<1>4. CASE \E o \in {"eof", "failed", "closed"} : End(x, o) /\ (o = "closed" => stopped)
  BY <1>1, <1>4, EndInv
<1>5. ASSUME Read(x), pipe[Source[x]] > 0, pipe' = [pipe EXCEPT ![Source[x]] = @ - 1], Step(x, "write")
      PROVE  IInv'
  <2>1. PeerTypeOK'
    BY <1>1, <1>5, PipeNames, LaneForwarderAssumption DEF IInv, PeerTypeOK
  <2> QED
    BY <1>1, <1>5, <2>1, StepInv
<1>6. ASSUME Write(x), pipe[Target[x]] < Capacity, pipe' = [pipe EXCEPT ![Target[x]] = @ + 1],
             Step(x, "read")
      PROVE  IInv'
  <2>1. PeerTypeOK'
    BY <1>1, <1>6, PipeNames, LaneForwarderAssumption DEF IInv, PeerTypeOK
  <2> QED
    BY <1>1, <1>6, <2>1, StepInv
<1>7. CASE Read(x)
  BY <1>3, <1>4, <1>5, <1>7 DEF Read
<1>8. CASE Write(x)
  BY <1>3, <1>4, <1>6, <1>8 DEF Write
<1> QED
  BY <1>7, <1>8 DEF CopyStep

\* The inductive invariant holds in every reachable state.
LEMMA Inductive == Spec => []IInv
<1>1. Init => IInv
  BY InitInv
<1>2. IInv /\ [Next]_vars => IInv'
  <2> SUFFICES ASSUME IInv, [Next]_vars PROVE IInv'
    OBVIOUS
  <2>1. CASE UNCHANGED vars
    BY <2>1, Outside DEF vars, IInv, PeerTypeOK, BoolTypeOK, peerVars
  <2>2. CASE Next
    BY <2>2, PeersInv, SetupInv, StopInv, JoinInv, UnwindInv, ReturnInv, CopyInv DEF Next, Forward
  <2> QED
    BY <2>1, <2>2
<1> QED
  BY <1>1, <1>2, PTL DEF Spec

-----------------------------------------------------------------------------
\* Every variable of the forwarder keeps its type (ForwardLaneMCP,
\* lane_endpoint.go:152-209).
THEOREM TypeCorrect == Spec => []TypeOK
<1>1. IInv => TypeOK
  <2>2. IInv => CopyTypeOK /\ MainTypeOK /\ PeerTypeOK
    BY DEF IInv
  <2>3. IInv => cancelled \in BOOLEAN /\ stopped \in BOOLEAN /\ watched \in BOOLEAN
    BY DEF IInv, BoolTypeOK
  <2>4. IInv => deferred \in Seq(DOMAIN Closes) /\ Len(deferred) <= 5
    <3> SUFFICES ASSUME IInv PROVE deferred \in Seq(DOMAIN Closes) /\ Len(deferred) <= 5
      OBVIOUS
    <3>1. deferred \in {S0, S1, S2, S3, S4, S5}
      BY DEF IInv, DeferInv
    <3>2. deferred \in Seq(DOMAIN Closes)
      BY <3>1, Stacks, Zenon
    <3>3. Len(deferred) \in {0, 1, 2, 3, 4, 5}
      BY <3>1, Stacks, Zenon
    <3>4. \A n \in {0, 1, 2, 3, 4, 5} : n <= 5
      OBVIOUS
    <3> QED
      BY <3>2, <3>3, <3>4, Zenon
  <2> QED
    BY <2>2, <2>3, <2>4 DEF MainTypeOK, CopyTypeOK, PeerTypeOK, TypeOK
<1> QED
  BY <1>1, Inductive, PTL

\* ForwardLaneMCP returns the failure of either copy in whichever order they
\* end, and never the error of its own teardown (lane_endpoint.go:193-208).
THEOREM OutcomeIsTrue == Spec => []OutcomeTrue
<1>1. IInv => OutcomeTrue
  BY DEF IInv, OutcomeInv, OutcomeTrue
<1> QED
  BY <1>1, Inductive, PTL

\* ForwardLaneMCP, from whichever step of its setup or of its teardown it
\* returns, has run every deferred close it needs: no descriptor is open, no
\* stop is yet to come and no copy runs (lane_endpoint.go:153-198).
THEOREM ReturnsWithNothingLeft == Spec => []NothingLeft
<1>1. IInv => NothingLeft
  BY StackLengths DEF IInv, DeferInv, ResultInv, NothingLeft
<1> QED
  BY <1>1, Inductive, PTL
=============================================================================
