--------------------------- MODULE ACPClient_proofs ---------------------------
(***************************************************************************)
(* Proofs about ACPClient, for any calls, requests, bounds and events: a   *)
(* call is answered at most once, a claimed reply is its caller's, a late  *)
(* one does no harm, and the account of retained bytes is exact.           *)
(***************************************************************************)
EXTENDS ACPClient, FiniteSetTheorems, SequenceTheorems, TLAPS

InFrames  == ({"call"} \X Calls) \cup ({"answer"} \X Requests)
OutFrames == ({"reply"} \X (Calls \cup {Stranger})) \cup ({"request"} \X Requests)

CallTypeOK ==
  /\ at \in [Calls -> {"idle", "reserve", "gate", "submit", "writing", "written",
                       "drop", "wait", "claimed", "returned"}]
  /\ result \in [Calls -> {"none", "reply", "error", "cancelled"}]
  /\ cancelled \subseteq Calls

TableTypeOK ==
  /\ pending \in [Calls -> {"absent", "live", "abandoned"}]
  /\ reply \in [Calls -> {<<>>, <<"reply">>, <<"capacity">>, <<"failure">>}]
  /\ failed \in {"no", "write", "close", "failing", "stray"}

WorkTypeOK ==
  /\ gate \in Calls \cup Requests \cup {Free}
  /\ requests \subseteq Requests
  /\ worker \in [Requests -> {"none", "gate", "writing", "written", "retire"}]

ReaderTypeOK ==
  /\ reader \in {"scan", "observe", "failing", "stray", "joining", "done"}
  /\ claimed \in Calls \cup {Stranger}
  /\ observed \subseteq Calls

WireTypeOK ==
  /\ input \in Seq(InFrames) /\ Len(input) <= PipeSize
  /\ output \in Seq(OutFrames) /\ Len(output) <= PipeSize
  /\ alive \in BOOLEAN /\ strayed \in BOOLEAN
  /\ owed \subseteq Calls
  /\ writes \in Seq(OutFrames) /\ Len(writes) <= 1
  /\ asks \in 0 .. MaxAsks

Types == CallTypeOK /\ TableTypeOK /\ WorkTypeOK /\ ReaderTypeOK /\ WireTypeOK

-----------------------------------------------------------------------------
(* Where a call is between its caller, native and the reader                *)

In(s, e)   == \E i \in 1 .. Len(s) : s[i] = e
Once(s, e) == \A i, j \in 1 .. Len(s) : s[i] = e /\ s[j] = e => i = j

Calling(c)   == In(input, <<"call", c>>)
Answering(c) == In(writes, <<"reply", c>>)
Answered(c)  == In(output, <<"reply", c>>)
OnWire(c)    == Calling(c) \/ c \in owed \/ Answering(c) \/ Answered(c)
Received(c)  == claimed = c \/ c \in observed

Sending == {"reserve", "gate", "submit", "writing"}

\* A call is in one place of the wire at most, and once.
Placed(c) ==
  /\ Once(input, <<"call", c>>) /\ Once(output, <<"reply", c>>)
  /\ Calling(c) => c \notin owed /\ ~Answering(c) /\ ~Answered(c)
  /\ c \in owed => ~Answering(c) /\ ~Answered(c)
  /\ Answering(c) => ~Answered(c)

PlaceInv == \A c \in Calls : Placed(c)

\* Only a written call reaches native and the reader, and while the transport
\* lives its entry stays in the table until its reply is claimed.
Reach(c) ==
  /\ OnWire(c) \/ Received(c) => /\ at[c] \notin Sending \cup {"idle"}
                                 /\ at[c] = "drop" => failed # "no"
  /\ failed = "no" /\ OnWire(c) => pending[c] # "absent"
  /\ failed = "no" /\ at[c] \in Sending => pending[c] = "live"
  /\ at[c] \notin {"drop", "returned"} => result[c] = "none"
  /\ Received(c) /\ result[c] = "cancelled" => failed # "no"

ReachInv == \A c \in Calls : Reach(c)

\* An entry of the table against the reply channel, the claim and the caller.
Entry(c) ==
  /\ at[c] = "idle" => pending[c] = "absent" /\ reply[c] = <<>>
  /\ pending[c] = "live" => reply[c] = <<>> /\ at[c] # "returned"
  /\ pending[c] = "abandoned" => at[c] = "returned"
  /\ claimed = c => pending[c] = "absent" /\ reply[c] = <<>>
  /\ c \in observed => pending[c] = "absent"

TableInv ==
  /\ \A c \in Calls : Entry(c)
  /\ reader = "observe" <=> claimed # Stranger
  /\ \A q \in Requests : q \in requests <=> worker[q] # "none"

\* A response to an id that was never used comes from native alone.
StrayInv ==
  /\ Answering(Stranger) \/ Answered(Stranger) => strayed
  /\ reader = "stray" => strayed \/ failed # "no"
  /\ failed = "stray" => strayed

\* Who holds retained bytes.
Senders == {c \in Calls : at[c] \in {"gate", "submit", "writing", "written"}}
Replies == {c \in Calls : reply[c] = <<"reply">> \/ claimed = c}

AccountInv ==
  /\ IsFiniteSet(Senders) /\ IsFiniteSet(requests) /\ IsFiniteSet(Replies)
  /\ retained = CallBytes * Cardinality(Senders) + RequestBytes * Cardinality(requests)
                  + ReplyBytes * Cardinality(Replies)

IInv == Types /\ PlaceInv /\ ReachInv /\ TableInv /\ StrayInv /\ AccountInv

-----------------------------------------------------------------------------
(* Frames on a pipe                                                         *)

LEMMA AppendIn ==
  ASSUME NEW S, NEW s \in Seq(S), NEW x \in S, NEW e
  PROVE  /\ Append(s, x) \in Seq(S) /\ Len(Append(s, x)) = Len(s) + 1
         /\ In(Append(s, x), e) <=> In(s, e) \/ e = x
         /\ Once(s, e) /\ (e = x => ~In(s, e)) => Once(Append(s, x), e)
<1> DEFINE t == Append(s, x)
<1>1. /\ t \in Seq(S) /\ Len(t) = Len(s) + 1 /\ Len(s) \in Nat
      /\ t[Len(s) + 1] = x
      /\ \A i \in 1 .. Len(s) : t[i] = s[i]
  BY AppendProperties, LenProperties
<1> HIDE DEF t
<1>2. In(t, e) <=> In(s, e) \/ e = x
  BY <1>1 DEF In
<1>3. Once(s, e) /\ (e = x => ~In(s, e)) => Once(t, e)
  BY <1>1 DEF In, Once
<1> QED
  BY <1>1, <1>2, <1>3 DEF t

LEMMA TailIn ==
  ASSUME NEW S, NEW s \in Seq(S), s # <<>>, NEW e
  PROVE  /\ Tail(s) \in Seq(S) /\ Len(Tail(s)) = Len(s) - 1 /\ Head(s) \in S
         /\ In(s, e) <=> Head(s) = e \/ In(Tail(s), e)
         /\ Once(s, e) => Once(Tail(s), e) /\ (Head(s) = e => ~In(Tail(s), e))
<1> DEFINE t == Tail(s)
<1>1. /\ t \in Seq(S) /\ Len(t) = Len(s) - 1 /\ Head(s) \in S /\ Head(s) = s[1]
      /\ Len(s) \in Nat \ {0}
      /\ \A i \in 1 .. Len(t) : t[i] = s[i + 1]
  BY HeadTailProperties, LenProperties, EmptySeq
<1> HIDE DEF t
<1>2. In(s, e) <=> Head(s) = e \/ In(t, e)
  <2>1. ASSUME NEW i \in 1 .. Len(s), s[i] = e PROVE Head(s) = e \/ In(t, e)
    <3>1. CASE i = 1
      BY <1>1, <2>1, <3>1
    <3>2. CASE i # 1
      <4>1. i - 1 \in 1 .. Len(t) /\ t[i - 1] = e
        BY <1>1, <2>1, <3>2
      <4> QED
        BY <4>1 DEF In
    <3> QED
      BY <3>1, <3>2
  <2>2. Head(s) = e \/ In(t, e) => In(s, e)
    BY <1>1 DEF In
  <2> QED
    BY <2>1, <2>2 DEF In
<1>3. Once(s, e) => Once(t, e) /\ (Head(s) = e => ~In(t, e))
  <2> SUFFICES ASSUME Once(s, e) PROVE Once(t, e) /\ (Head(s) = e => ~In(t, e))
    OBVIOUS
  <2>1. \A i \in 1 .. Len(t) : i + 1 \in 1 .. Len(s) /\ i + 1 # 1
    BY <1>1
  <2>2. Once(t, e)
    BY <1>1, <2>1 DEF Once
  <2>3. Head(s) = e => ~In(t, e)
    BY <1>1, <2>1 DEF Once, In
  <2> QED
    BY <2>2, <2>3
<1> QED
  BY <1>1, <1>2, <1>3 DEF t

LEMMA EmptyIn == \A e : ~In(<<>>, e) /\ Once(<<>>, e)
  BY DEF In, Once

-----------------------------------------------------------------------------
(* Types                                                                    *)

LEMMA TypesInit == Init => Types
<1> SUFFICES ASSUME Init PROVE Types
  OBVIOUS
<1>1. CallTypeOK /\ TableTypeOK /\ WorkTypeOK /\ ReaderTypeOK
  BY DEF Init, CallTypeOK, TableTypeOK, WorkTypeOK, ReaderTypeOK
<1>2. WireTypeOK
  <2>1. 0 \in 0 .. MaxAsks /\ 0 <= PipeSize /\ Len(<<>>) = 0
    BY ACPClientAssumption
  <2>2. input = <<>> /\ output = <<>> /\ writes = <<>>
    BY DEF Init
  <2>3. /\ input \in Seq(InFrames) /\ Len(input) <= PipeSize
        /\ output \in Seq(OutFrames) /\ Len(output) <= PipeSize
        /\ writes \in Seq(OutFrames) /\ Len(writes) <= 1
    BY <2>1, <2>2
  <2> QED
    BY <2>1, <2>3 DEF Init, WireTypeOK
<1> QED
  BY <1>1, <1>2 DEF Types

LEMMA CallTypesStep ==
  ASSUME Types, [Next]_vars
  PROVE  CallTypeOK'
<1> USE DEF Types, CallTypeOK
<1>1. CASE UNCHANGED callVars
  BY <1>1 DEF callVars
<1>2. ASSUME NEW c \in Calls,
             Begin(c) \/ AcquireGate(c) \/ Reserve(c) \/ GateRefused(c) \/ Submit(c)
      PROVE  CallTypeOK'
  BY <1>2 DEF Begin, AcquireGate, Reserve, GateRefused, Submit, Return, Move, Leave
<1>3. ASSUME NEW c \in Calls,
             Write(c) \/ WriteReturns(c) \/ WriteCut(c) \/ Drop(c) \/ Take(c)
               \/ Abandon(c) \/ Cancel(c)
      PROVE  CallTypeOK'
  BY <1>3 DEF Write, WriteReturns, WriteCut, Drop, Take, Abandon, Cancel, Return, Move,
              Leave
<1>4. ASSUME NEW q \in Requests, Worker(q) \/ NativeAsks(q)
      PROVE  UNCHANGED callVars
  BY <1>4 DEF Worker, WorkerGate, WorkerWrite, WorkerWritten, WorkerCut, Retire,
              NativeAsks, NativeWants
<1>5. Reader => UNCHANGED callVars
  BY DEF Reader, ReadReply, ReadRequest, Observe, ReadEnds, ReaderFails, ReaderDone
<1>6. Close \/ Native \/ NativeStrays \/ NativeExits => UNCHANGED callVars
  BY DEF Close, Native, NativeReads, NativeWrites, NativeAnswers, NativeWants,
         NativeStrays, NativeExits
<1>7. UNCHANGED vars => UNCHANGED callVars
  BY DEF vars
<1> QED
  BY <1>1, <1>2, <1>3, <1>4, <1>5, <1>6, <1>7 DEF Next, Send, Await

\* What fail does to the table.
LEMMA FailTable ==
  ASSUME Types, TableInv, NEW cause \in {"write", "close", "failing", "stray"}, Fail(cause)
  PROVE  /\ TableTypeOK'
         /\ failed' = IF failed = "no" THEN cause ELSE failed
         /\ \A c \in Calls :
              /\ pending'[c] \in {"absent", pending[c]}
              /\ pending'[c] # "live" \/ failed # "no"
              /\ reply'[c] \in {reply[c], <<"failure">>}
              /\ pending[c] # "live" => reply'[c] = reply[c]
<1> USE DEF Types, TableTypeOK
<1>1. CASE failed # "no"
  BY <1>1 DEF Fail
<1>2. CASE failed = "no"
  <2>1. /\ failed' = cause
        /\ reply' = [c \in Calls |-> IF pending[c] = "live"
                                       THEN Append(reply[c], "failure") ELSE reply[c]]
        /\ pending' = [c \in Calls |-> "absent"]
    BY <1>2 DEF Fail
  <2>2. \A c \in Calls : pending[c] = "live" => reply'[c] = <<"failure">>
    <3> SUFFICES ASSUME NEW c \in Calls, pending[c] = "live"
                 PROVE  reply'[c] = <<"failure">>
      OBVIOUS
    <3>1. reply[c] = <<>>
      BY DEF TableInv, Entry
    <3>2. Append(<<>>, "failure") = <<"failure">>
      OBVIOUS
    <3> QED
      BY <2>1, <3>1, <3>2
  <2>3. \A c \in Calls : pending[c] # "live" => reply'[c] = reply[c]
    BY <2>1
  <2>4. \A c \in Calls : reply'[c] \in {<<>>, <<"reply">>, <<"capacity">>, <<"failure">>}
    BY <2>2, <2>3
  <2> HIDE DEF Types, TableTypeOK
  <2>5. TableTypeOK'
    BY <2>1, <2>4 DEF TableTypeOK
  <2> QED
    BY <1>2, <2>1, <2>2, <2>3, <2>5
<1> QED
  BY <1>1, <1>2

LEMMA TableTypesStep ==
  ASSUME Types, TableInv, [Next]_vars
  PROVE  TableTypeOK'
<1> USE DEF Types, TableTypeOK
<1>1. CASE UNCHANGED <<pending, reply, failed>>
  BY <1>1
<1>2. ASSUME NEW c \in Calls, Begin(c) \/ Drop(c) \/ Abandon(c) PROVE TableTypeOK'
  BY <1>2 DEF Begin, Drop, Abandon, Abandoned
<1>3. ASSUME NEW c \in Calls, Take(c) PROVE TableTypeOK'
  <2>1. reply[c] \in {<<"reply">>, <<"capacity">>, <<"failure">>}
    BY <1>3 DEF Take
  <2>2. Tail(<<"reply">>) = <<>> /\ Tail(<<"capacity">>) = <<>> /\ Tail(<<"failure">>) = <<>>
    OBVIOUS
  <2>3. Tail(reply[c]) = <<>>
    BY <2>1, <2>2
  <2> QED
    BY <1>3, <2>3 DEF Take
<1>4. ASSUME NEW c \in Calls \cup {Stranger}, ReadReply(c) PROVE TableTypeOK'
  <2>1. CASE c \notin Known
    BY <1>4, <2>1 DEF ReadReply
  <2>2. CASE c \in Known
    <3>1. c \in Calls /\ pending' = Claimed(c) /\ failed' = failed
      BY <1>4, <2>2 DEF ReadReply, Known
    <3>2. \/ reply' = reply
          \/ pending[c] = "live" /\ reply' = [reply EXCEPT ![c] = Append(@, "capacity")]
      <4> HIDE DEF Types, TableTypeOK
      <4>1. CASE pending[c] = "live" /\ ~Fits(ReplyBytes)
        BY <1>4, <2>2, <4>1 DEF ReadReply
      <4>2. CASE ~(pending[c] = "live" /\ ~Fits(ReplyBytes))
        BY <1>4, <2>2, <4>2 DEF ReadReply
      <4> QED
        BY <4>1, <4>2
    <3>3. pending[c] = "live" => Append(reply[c], "capacity") = <<"capacity">>
      <4>1. pending[c] = "live" => reply[c] = <<>>
        BY <3>1 DEF TableInv, Entry
      <4>2. Append(<<>>, "capacity") = <<"capacity">>
        OBVIOUS
      <4> QED
        BY <4>1, <4>2
    <3> QED
      BY <3>1, <3>2, <3>3 DEF Claimed
  <2> QED
    BY <2>1, <2>2
<1>5. CASE Observe
  <2>1. claimed \in Calls
    BY <1>5 DEF Observe, TableInv, ReaderTypeOK
  <2>2. reply[claimed] = <<>>
    BY <2>1 DEF TableInv, Entry
  <2>3. Append(reply[claimed], "reply") = <<"reply">>
    BY <2>2
  <2> QED
    BY <1>5, <2>1, <2>3 DEF Observe
<1>6. ASSUME NEW c \in Calls,
             AcquireGate(c) \/ Reserve(c) \/ GateRefused(c) \/ Submit(c) \/ Write(c)
               \/ WriteReturns(c) \/ Cancel(c)
      PROVE  UNCHANGED <<pending, reply, failed>>
  BY <1>6 DEF AcquireGate, Reserve, GateRefused, Submit, Write, WriteReturns, Cancel
<1>7. ASSUME NEW q \in Requests,
             WorkerGate(q) \/ WorkerWrite(q) \/ WorkerWritten(q) \/ Retire(q)
               \/ NativeAsks(q) \/ ReadRequest(q)
      PROVE  UNCHANGED <<pending, reply, failed>>
  BY <1>7 DEF WorkerGate, WorkerWrite, WorkerWritten, Retire, NativeAsks, NativeWants,
              ReadRequest
<1>8. ReadEnds \/ ReaderDone \/ Native \/ NativeStrays \/ NativeExits
        => UNCHANGED <<pending, reply, failed>>
  BY DEF ReadEnds, ReaderDone, Native, NativeReads, NativeWrites, NativeAnswers,
         NativeWants, NativeStrays, NativeExits
<1>9. (\E c \in Calls : WriteCut(c)) \/ (\E q \in Requests : WorkerCut(q)) \/ Close
        \/ ReaderFails => \E cause \in {"write", "close", "failing", "stray"} : Fail(cause)
  BY DEF WriteCut, WorkerCut, Close, ReaderFails
<1>10. CASE UNCHANGED vars
  BY <1>10, <1>1 DEF vars
<1> HIDE DEF Types, TableTypeOK
<1> QED
  BY <1>1, <1>2, <1>3, <1>4, <1>5, <1>6, <1>7, <1>8, <1>9, <1>10, FailTable
     DEF Next, Send, Await, Worker, Reader

LEMMA WorkTypesStep ==
  ASSUME Types, [Next]_vars
  PROVE  WorkTypeOK'
<1> USE DEF Types, WorkTypeOK
<1>1. CASE UNCHANGED <<gate, workVars>>
  BY <1>1 DEF workVars
<1>2. ASSUME NEW c \in Calls,
             AcquireGate(c) \/ Submit(c) \/ WriteReturns(c) \/ WriteCut(c)
      PROVE  WorkTypeOK'
  BY <1>2 DEF AcquireGate, Submit, WriteReturns, WriteCut, workVars
<1>3. ASSUME NEW q \in Requests, Worker(q) \/ ReadRequest(q) PROVE WorkTypeOK'
  BY <1>3 DEF Worker, WorkerGate, WorkerWrite, WorkerWritten, WorkerCut, Retire,
              WorkerAt, ReadRequest, workVars
<1>4. ASSUME NEW c \in Calls,
             Begin(c) \/ Reserve(c) \/ GateRefused(c) \/ Write(c) \/ Drop(c) \/ Await(c)
               \/ Cancel(c)
      PROVE  UNCHANGED <<gate, workVars>>
  BY <1>4 DEF Begin, Reserve, GateRefused, Write, Drop, Await, Take, Abandon, Cancel
<1>5. ASSUME NEW q \in Requests, NativeAsks(q) PROVE UNCHANGED <<gate, workVars>>
  BY <1>5 DEF NativeAsks, NativeWants
<1>6. (\E c \in Calls \cup {Stranger} : ReadReply(c)) \/ Observe \/ ReadEnds
        \/ ReaderFails \/ ReaderDone => UNCHANGED <<gate, workVars>>
  BY DEF ReadReply, Observe, ReadEnds, ReaderFails, ReaderDone
<1>7. Close \/ Native \/ NativeStrays \/ NativeExits => UNCHANGED <<gate, workVars>>
  BY DEF Close, Native, NativeReads, NativeWrites, NativeAnswers, NativeWants,
         NativeStrays, NativeExits
<1>8. UNCHANGED vars => UNCHANGED <<gate, workVars>>
  BY DEF vars
<1> QED
  BY <1>1, <1>2, <1>3, <1>4, <1>5, <1>6, <1>7, <1>8 DEF Next, Send, Reader

LEMMA ReaderTypesStep ==
  ASSUME Types, TableInv, [Next]_vars
  PROVE  ReaderTypeOK'
<1> USE DEF Types, ReaderTypeOK
<1>1. CASE UNCHANGED readVars
  BY <1>1 DEF readVars
<1>2. ASSUME NEW c \in Calls \cup {Stranger}, ReadReply(c) PROVE ReaderTypeOK'
  BY <1>2 DEF ReadReply, NextFrame, Known
<1>3. CASE Observe
  <2>1. claimed \in Calls
    BY <1>3 DEF Observe, TableInv
  <2> QED
    BY <1>3, <2>1 DEF Observe, NextFrame
<1>4. ASSUME NEW q \in Requests, ReadRequest(q) PROVE ReaderTypeOK'
  BY <1>4 DEF ReadRequest, NextFrame
<1>5. CASE ReadEnds \/ ReaderFails \/ ReaderDone
  BY <1>5 DEF ReadEnds, ReaderFails, ReaderDone
<1>6. ASSUME NEW c \in Calls, Begin(c) \/ AcquireGate(c) \/ Send(c) \/ Await(c) \/ Cancel(c)
      PROVE  UNCHANGED readVars
  BY <1>6 DEF Begin, AcquireGate, Send, Reserve, GateRefused, Submit, Write, WriteReturns,
              WriteCut, Drop, Await, Take, Abandon, Cancel
<1>7. ASSUME NEW q \in Requests, Worker(q) \/ NativeAsks(q) PROVE UNCHANGED readVars
  BY <1>7 DEF Worker, WorkerGate, WorkerWrite, WorkerWritten, WorkerCut, Retire,
              NativeAsks, NativeWants
<1>8. Close \/ Native \/ NativeStrays \/ NativeExits => UNCHANGED readVars
  BY DEF Close, Native, NativeReads, NativeWrites, NativeAnswers, NativeWants,
         NativeStrays, NativeExits
<1>9. UNCHANGED vars => UNCHANGED readVars
  BY DEF vars
<1> QED
  BY <1>1, <1>2, <1>3, <1>4, <1>5, <1>6, <1>7, <1>8, <1>9 DEF Next, Reader

-----------------------------------------------------------------------------
(* The wire                                                                 *)

wireVars == <<input, output, nativeVars>>

LEMMA WireFrame ==
  ASSUME UNCHANGED wireVars
  PROVE  /\ Types => WireTypeOK'
         /\ PlaceInv => PlaceInv'
         /\ \A d : /\ OnWire(d)' <=> OnWire(d)
                   /\ Answering(d)' <=> Answering(d)
                   /\ Answered(d)' <=> Answered(d)
         /\ strayed' = strayed
  BY DEF wireVars, nativeVars, Types, WireTypeOK, PlaceInv, Placed, OnWire, Calling, Answering,
         Answered, In, Once

LEMMA InputAppended ==
  ASSUME Types, PlaceInv, NEW f \in InFrames, Len(input) < PipeSize,
         input' = Append(input, f), UNCHANGED <<output, nativeVars>>,
         \A c \in Calls : f = <<"call", c>> => ~OnWire(c)
  PROVE  /\ WireTypeOK' /\ PlaceInv'
         /\ \A d \in Calls : OnWire(d)' <=> OnWire(d) \/ f = <<"call", d>>
<1>1. /\ input \in Seq(InFrames) /\ Len(input) \in Nat /\ PipeSize \in Nat
      /\ owed' = owed /\ output' = output /\ writes' = writes
  BY LenProperties, ACPClientAssumption DEF Types, WireTypeOK, nativeVars
<1>2. input' \in Seq(InFrames) /\ Len(input') = Len(input) + 1
  BY <1>1, AppendIn
<1>3. WireTypeOK'
  BY <1>1, <1>2 DEF Types, WireTypeOK, nativeVars
<1>4. ASSUME NEW d \in Calls
      PROVE  /\ Calling(d)' <=> Calling(d) \/ f = <<"call", d>>
             /\ Once(input', <<"call", d>>)
             /\ Answering(d)' <=> Answering(d)
             /\ Answered(d)' <=> Answered(d)
             /\ Once(output', <<"reply", d>>)
  <2>1. /\ In(input', <<"call", d>>) <=> In(input, <<"call", d>>) \/ <<"call", d>> = f
        /\ Once(input, <<"call", d>>) /\ (<<"call", d>> = f => ~In(input, <<"call", d>>))
             => Once(input', <<"call", d>>)
    BY <1>1, AppendIn
  <2>2. <<"call", d>> = f => ~In(input, <<"call", d>>)
    BY DEF OnWire, Calling
  <2>3. Once(input, <<"call", d>>) /\ Once(output, <<"reply", d>>)
    BY DEF PlaceInv, Placed
  <2> QED
    BY <1>1, <2>1, <2>2, <2>3 DEF Calling, Answering, Answered
<1>5. PlaceInv'
  <2> SUFFICES ASSUME NEW d \in Calls PROVE Placed(d)'
    BY DEF PlaceInv
  <2> QED
    BY <1>1, <1>4 DEF PlaceInv, Placed, OnWire
<1> QED
  BY <1>1, <1>3, <1>4, <1>5 DEF OnWire

LEMMA OutputTaken ==
  ASSUME Types, PlaceInv, output # <<>>,
         output' = Tail(output), UNCHANGED <<input, nativeVars>>
  PROVE  /\ WireTypeOK' /\ PlaceInv'
         /\ \A d \in Calls : /\ Head(output) = <<"reply", d>> => OnWire(d)
                             /\ OnWire(d)' => OnWire(d) /\ Head(output) # <<"reply", d>>
         /\ Head(output) = <<"reply", Stranger>> \/ Answered(Stranger)' => Answered(Stranger)
         /\ Answering(Stranger)' <=> Answering(Stranger)
         /\ strayed' = strayed
<1>1. /\ output \in Seq(OutFrames) /\ Len(output) \in Nat /\ Len(output) <= PipeSize
      /\ PipeSize \in Nat
      /\ owed' = owed /\ input' = input /\ writes' = writes
  BY LenProperties, ACPClientAssumption DEF Types, WireTypeOK, nativeVars
<1>2. output' \in Seq(OutFrames) /\ Len(output') = Len(output) - 1
  BY <1>1, TailIn
<1>3. WireTypeOK'
  BY <1>1, <1>2 DEF Types, WireTypeOK, nativeVars
<1>4. ASSUME NEW d
      PROVE  /\ Answered(d) <=> Head(output) = <<"reply", d>> \/ Answered(d)'
             /\ Once(output, <<"reply", d>>) =>
                  Once(output', <<"reply", d>>) /\ (Head(output) = <<"reply", d>> => ~Answered(d)')
             /\ Answering(d)' <=> Answering(d)
             /\ Calling(d)' <=> Calling(d)
  <2>1. /\ In(output, <<"reply", d>>)
             <=> Head(output) = <<"reply", d>> \/ In(output', <<"reply", d>>)
        /\ Once(output, <<"reply", d>>) =>
             /\ Once(output', <<"reply", d>>)
             /\ Head(output) = <<"reply", d>> => ~In(output', <<"reply", d>>)
    BY <1>1, TailIn
  <2> QED
    BY <1>1, <2>1 DEF Calling, Answering, Answered
<1>5. PlaceInv'
  <2> SUFFICES ASSUME NEW d \in Calls PROVE Placed(d)'
    BY DEF PlaceInv
  <2> QED
    BY <1>1, <1>4 DEF PlaceInv, Placed
<1>6. ASSUME NEW d \in Calls
      PROVE  /\ Head(output) = <<"reply", d>> => OnWire(d)
             /\ OnWire(d)' => OnWire(d) /\ Head(output) # <<"reply", d>>
  BY <1>1, <1>4 DEF OnWire, PlaceInv, Placed
<1> QED
  BY <1>1, <1>3, <1>4, <1>5, <1>6 DEF nativeVars

LEMMA NativeReadsWire ==
  ASSUME Types, PlaceInv, NativeReads
  PROVE  /\ WireTypeOK' /\ PlaceInv'
         /\ \A d \in Calls : OnWire(d)' <=> OnWire(d)
         /\ UNCHANGED <<output, writes, strayed>>
<1>1. /\ input \in Seq(InFrames) /\ input # <<>> /\ Len(input) \in Nat /\ PipeSize \in Nat
      /\ Len(input) <= PipeSize
      /\ input' = Tail(input) /\ output' = output /\ writes' = writes /\ strayed' = strayed
      /\ owed' = owed \cup ({Head(input)[2]} \cap Calls)
      /\ alive' = alive /\ asks' = asks
  BY LenProperties, ACPClientAssumption DEF Types, WireTypeOK, NativeReads
<1>2. input' \in Seq(InFrames) /\ Len(input') = Len(input) - 1 /\ Head(input) \in InFrames
  BY <1>1, TailIn
<1>3. WireTypeOK'
  BY <1>1, <1>2 DEF Types, WireTypeOK
<1>4. \A d \in Calls : Head(input)[2] = d <=> Head(input) = <<"call", d>>
  BY <1>2, ACPClientAssumption DEF InFrames
<1>5. \A d \in Calls : d \in owed' <=> d \in owed \/ Head(input) = <<"call", d>>
  BY <1>1, <1>4
<1>6. ASSUME NEW d \in Calls
      PROVE  /\ Calling(d) <=> Head(input) = <<"call", d>> \/ Calling(d)'
             /\ Once(input', <<"call", d>>)
             /\ Head(input) = <<"call", d>> => ~Calling(d)'
             /\ Answering(d)' <=> Answering(d)
             /\ Answered(d)' <=> Answered(d)
             /\ Once(output', <<"reply", d>>)
  <2>1. /\ In(input, <<"call", d>>)
             <=> Head(input) = <<"call", d>> \/ In(input', <<"call", d>>)
        /\ Once(input, <<"call", d>>) =>
             /\ Once(input', <<"call", d>>)
             /\ Head(input) = <<"call", d>> => ~In(input', <<"call", d>>)
    BY <1>1, TailIn
  <2>2. Once(input, <<"call", d>>) /\ Once(output, <<"reply", d>>)
    BY DEF PlaceInv, Placed
  <2> QED
    BY <1>1, <2>1, <2>2 DEF Calling, Answering, Answered
<1>7. PlaceInv'
  <2> SUFFICES ASSUME NEW d \in Calls PROVE Placed(d)'
    BY DEF PlaceInv
  <2> QED
    BY <1>5, <1>6 DEF PlaceInv, Placed
<1>8. ASSUME NEW d \in Calls PROVE OnWire(d)' <=> OnWire(d)
  BY <1>5, <1>6 DEF OnWire
<1> QED
  BY <1>1, <1>3, <1>7, <1>8

\* Native has one frame to write at a time.
LEMMA NativeWantsWire ==
  ASSUME Types, PlaceInv, NEW f \in OutFrames, NativeWants(f),
         owed' \subseteq owed, asks' \in 0 .. MaxAsks, strayed' \in BOOLEAN,
         \A c \in Calls : f = <<"reply", c>> => c \in owed /\ c \notin owed'
  PROVE  /\ WireTypeOK' /\ PlaceInv'
         /\ \A d \in Calls : OnWire(d)' => OnWire(d)
         /\ Answering(Stranger)' <=> f = <<"reply", Stranger>>
         /\ Answered(Stranger)' <=> Answered(Stranger)
<1>1. /\ writes = <<>> /\ writes' = <<f>> /\ input' = input /\ output' = output
      /\ alive' = alive
  BY DEF NativeWants, MayWrite
<1>2. writes' \in Seq(OutFrames) /\ Len(writes') = 1
  BY <1>1
<1>3. WireTypeOK'
  BY <1>1, <1>2 DEF Types, WireTypeOK
<1>4. \A e : In(writes', e) <=> f = e
  BY <1>1, <1>2 DEF In
<1>5. ASSUME NEW d
      PROVE  /\ Calling(d)' <=> Calling(d)
             /\ Answering(d)' <=> f = <<"reply", d>>
             /\ Answered(d)' <=> Answered(d)
  BY <1>1, <1>4 DEF Calling, Answering, Answered
<1>6. ASSUME NEW d \in Calls
      PROVE  Once(input', <<"call", d>>) /\ Once(output', <<"reply", d>>)
  BY <1>1 DEF PlaceInv, Placed
<1>7. PlaceInv'
  <2> SUFFICES ASSUME NEW d \in Calls PROVE Placed(d)'
    BY DEF PlaceInv
  <2> QED
    BY <1>5, <1>6 DEF PlaceInv, Placed
<1>8. ASSUME NEW d \in Calls, OnWire(d)' PROVE OnWire(d)
  BY <1>5, <1>8 DEF OnWire
<1> QED
  BY <1>3, <1>5, <1>7, <1>8

LEMMA NativeWritesWire ==
  ASSUME Types, PlaceInv, NativeWrites
  PROVE  /\ WireTypeOK' /\ PlaceInv'
         /\ \A d \in Calls : OnWire(d)' <=> OnWire(d)
         /\ Answering(Stranger)' \/ Answered(Stranger)' => Answering(Stranger) \/ Answered(Stranger)
         /\ strayed' = strayed
<1> DEFINE f == Head(writes)
<1>1. /\ output \in Seq(OutFrames) /\ Len(output) \in Nat /\ PipeSize \in Nat
      /\ Len(output) < PipeSize /\ writes \in Seq(OutFrames) /\ writes # <<>>
      /\ output' = Append(output, f) /\ writes' = <<>>
      /\ input' = input /\ owed' = owed /\ alive' = alive /\ asks' = asks
      /\ strayed' = strayed
  BY LenProperties, ACPClientAssumption DEF Types, WireTypeOK, NativeWrites
<1>2. f \in OutFrames /\ Len(writes) <= 1
  BY <1>1, TailIn DEF Types, WireTypeOK
<1>3. \A e : In(writes, e) <=> f = e
  <2>1. Len(writes) = 1
    <3>1. Len(writes) \in Nat \ {0}
      BY <1>1, EmptySeq
    <3> QED
      BY <1>2, <3>1
  <2>2. Head(writes) = writes[1]
    BY <1>1
  <2> QED
    BY <2>1, <2>2 DEF In
<1> HIDE DEF f
<1>4. output' \in Seq(OutFrames) /\ Len(output') = Len(output) + 1
  BY <1>1, <1>2, AppendIn
<1>5. WireTypeOK'
  <2>1. writes' \in Seq(OutFrames) /\ Len(writes') = 0
    BY <1>1
  <2> QED
    BY <1>1, <1>4, <2>1 DEF Types, WireTypeOK
<1>6. ASSUME NEW d
      PROVE  /\ Calling(d)' <=> Calling(d)
             /\ ~Answering(d)'
             /\ Answered(d)' <=> Answered(d) \/ Answering(d)
             /\ Once(output, <<"reply", d>>) /\ (Answering(d) => ~Answered(d))
                  => Once(output', <<"reply", d>>)
  <2>1. /\ In(output', <<"reply", d>>) <=> In(output, <<"reply", d>>) \/ <<"reply", d>> = f
        /\ Once(output, <<"reply", d>>) /\ (<<"reply", d>> = f => ~In(output, <<"reply", d>>))
             => Once(output', <<"reply", d>>)
    BY <1>1, <1>2, AppendIn
  <2>2. Answering(d) <=> <<"reply", d>> = f
    BY <1>3 DEF Answering
  <2>3. ~Answering(d)'
    BY <1>1, EmptyIn DEF Answering
  <2> QED
    BY <1>1, <2>1, <2>2, <2>3 DEF Calling, Answered
<1>7. PlaceInv'
  <2> SUFFICES ASSUME NEW d \in Calls PROVE Placed(d)'
    BY DEF PlaceInv
  <2> QED
    BY <1>1, <1>6 DEF PlaceInv, Placed
<1>8. ASSUME NEW d \in Calls PROVE OnWire(d)' <=> OnWire(d)
  BY <1>1, <1>6 DEF OnWire
<1> QED
  BY <1>1, <1>5, <1>6, <1>7, <1>8

LEMMA WireStep ==
  ASSUME Types, PlaceInv, ReachInv, [Next]_vars
  PROVE  WireTypeOK' /\ PlaceInv'
<1>1. CASE UNCHANGED wireVars
  BY <1>1, WireFrame
<1>2. ASSUME NEW c \in Calls, Write(c) PROVE WireTypeOK' /\ PlaceInv'
  <2>1. <<"call", c>> \in InFrames /\ \A d \in Calls : <<"call", c>> = <<"call", d>> => d = c
    BY DEF InFrames
  <2>2. ~OnWire(c)
    BY <1>2 DEF Write, ReachInv, Reach, Sending
  <2>3. /\ Len(input) < PipeSize /\ input' = Append(input, <<"call", c>>)
        /\ UNCHANGED <<output, nativeVars>>
    BY <1>2 DEF Write
  <2> QED
    BY <2>1, <2>2, <2>3, InputAppended
<1>3. ASSUME NEW q \in Requests, WorkerWrite(q) PROVE WireTypeOK' /\ PlaceInv'
  <2>1. <<"answer", q>> \in InFrames /\ \A d \in Calls : <<"answer", q>> # <<"call", d>>
    BY DEF InFrames
  <2>2. /\ Len(input) < PipeSize /\ input' = Append(input, <<"answer", q>>)
        /\ UNCHANGED <<output, nativeVars>>
    BY <1>3 DEF WorkerWrite
  <2> QED
    BY <2>1, <2>2, InputAppended
<1>4. ASSUME \/ \E c \in Calls \cup {Stranger} : ReadReply(c)
             \/ \E q \in Requests : ReadRequest(q)
      PROVE  WireTypeOK' /\ PlaceInv'
  <2>1. output # <<>> /\ output' = Tail(output) /\ UNCHANGED <<input, nativeVars>>
    BY <1>4 DEF ReadReply, ReadRequest
  <2> QED
    BY <2>1, OutputTaken
<1>5. ASSUME NEW c \in Calls, NativeAnswers(c) PROVE WireTypeOK' /\ PlaceInv'
  <2>1. <<"reply", c>> \in OutFrames /\ \A d \in Calls : <<"reply", c>> = <<"reply", d>> => d = c
    BY DEF OutFrames
  <2>2. /\ NativeWants(<<"reply", c>>) /\ c \in owed /\ owed' = owed \ {c}
        /\ asks' = asks /\ strayed' = strayed
    BY <1>5 DEF NativeAnswers
  <2>3. asks' \in 0 .. MaxAsks /\ strayed' \in BOOLEAN
    BY <2>2 DEF Types, WireTypeOK
  <2> QED
    BY <2>1, <2>2, <2>3, NativeWantsWire
<1>6. ASSUME NEW q \in Requests, NativeAsks(q) PROVE WireTypeOK' /\ PlaceInv'
  <2>1. <<"request", q>> \in OutFrames /\ \A d \in Calls : <<"request", q>> # <<"reply", d>>
    BY DEF OutFrames
  <2>2. /\ NativeWants(<<"request", q>>) /\ owed' = owed /\ strayed' = strayed
        /\ asks < MaxAsks /\ asks' = asks + 1
    BY <1>6 DEF NativeAsks
  <2>3. asks' \in 0 .. MaxAsks /\ strayed' \in BOOLEAN
    BY <2>2, ACPClientAssumption DEF Types, WireTypeOK
  <2> QED
    BY <2>1, <2>2, <2>3, NativeWantsWire
<1>7. ASSUME NativeStrays PROVE WireTypeOK' /\ PlaceInv'
  <2>1. <<"reply", Stranger>> \in OutFrames /\ \A d \in Calls : <<"reply", Stranger>> # <<"reply", d>>
    BY ACPClientAssumption DEF OutFrames
  <2>2. NativeWants(<<"reply", Stranger>>) /\ owed' = owed /\ asks' = asks /\ strayed' = TRUE
    BY <1>7 DEF NativeStrays
  <2>3. asks' \in 0 .. MaxAsks /\ strayed' \in BOOLEAN
    BY <2>2 DEF Types, WireTypeOK
  <2> QED
    BY <2>1, <2>2, <2>3, NativeWantsWire
<1>8. ASSUME NativeExits PROVE WireTypeOK' /\ PlaceInv'
  BY <1>8 DEF NativeExits, Types, WireTypeOK, PlaceInv, Placed, Calling, Answering,
              Answered, In, Once
<1>9. ASSUME NEW c \in Calls,
             Begin(c) \/ AcquireGate(c) \/ Reserve(c) \/ GateRefused(c) \/ Submit(c)
               \/ WriteReturns(c) \/ WriteCut(c) \/ Drop(c) \/ Await(c) \/ Cancel(c)
      PROVE  UNCHANGED wireVars
  BY <1>9 DEF Begin, AcquireGate, Reserve, GateRefused, Submit, WriteReturns, WriteCut,
              Drop, Await, Take, Abandon, Cancel, wireVars
<1>10. ASSUME NEW q \in Requests,
              WorkerGate(q) \/ WorkerWritten(q) \/ WorkerCut(q) \/ Retire(q)
       PROVE  UNCHANGED wireVars
  BY <1>10 DEF WorkerGate, WorkerWritten, WorkerCut, Retire, wireVars
<1>11. Observe \/ ReadEnds \/ ReaderFails \/ ReaderDone \/ Close => UNCHANGED wireVars
  BY DEF Observe, ReadEnds, ReaderFails, ReaderDone, Close, wireVars
<1>12. UNCHANGED vars => UNCHANGED wireVars
  BY DEF vars, wireVars
<1> QED
  BY <1>1, <1>2, <1>3, <1>4, <1>5, <1>6, <1>7, <1>8, <1>9, <1>10, <1>11, <1>12,
     NativeReadsWire, NativeWritesWire DEF Next, Send, Worker, Reader, Native

-----------------------------------------------------------------------------
(* Reach                                                                    *)

reachVars == <<at, result, pending, failed, claimed, observed>>

LEMMA ReachKept ==
  ASSUME ReachInv, UNCHANGED reachVars, \A d \in Calls : OnWire(d)' => OnWire(d)
  PROVE  ReachInv'
  BY DEF ReachInv, Reach, Received, reachVars

\* A caller's step concerns its own call.
LEMMA ReachCaller ==
  ASSUME Types, ReachInv, TableInv, NEW c \in Calls,
         \/ Begin(c) \/ AcquireGate(c) \/ Reserve(c) \/ GateRefused(c) \/ Submit(c)
         \/ WriteReturns(c) \/ Drop(c) \/ Take(c) \/ Abandon(c) \/ Cancel(c)
  PROVE  ReachInv'
<1>1. UNCHANGED wireVars /\ failed' = failed /\ claimed' = claimed /\ observed' = observed
  BY DEF Begin, AcquireGate, Reserve, GateRefused, Submit, WriteReturns, Drop, Take,
         Abandon, Cancel, wireVars, readVars
<1>2. \A d : (OnWire(d)' <=> OnWire(d)) /\ (Received(d)' <=> Received(d))
  BY <1>1, WireFrame DEF Received
<1>3. ASSUME NEW d \in Calls, d # c PROVE Reach(d)'
  <2>1. at'[d] = at[d] /\ result'[d] = result[d] /\ pending'[d] = pending[d]
    BY <1>3 DEF Begin, AcquireGate, Reserve, GateRefused, Submit, WriteReturns, Drop,
                Take, Abandon, Abandoned, Cancel, Return, Move, Leave, Types, CallTypeOK,
                TableTypeOK
  <2> QED
    BY <1>1, <1>2, <2>1 DEF ReachInv, Reach
<1>4. Reach(c)'
  <2>1. Reach(c) /\ Entry(c)
    BY DEF ReachInv, TableInv
  <2>2. CASE Begin(c)
    BY <1>1, <1>2, <2>1, <2>2 DEF Begin, Return, Move, Types, CallTypeOK, TableTypeOK,
                                  Reach, Sending
  <2>3. CASE AcquireGate(c) \/ Reserve(c) \/ GateRefused(c) \/ Submit(c) \/ WriteReturns(c)
    BY <1>1, <1>2, <2>1, <2>3 DEF AcquireGate, Reserve, GateRefused, Submit, WriteReturns,
                                  Move, Leave, Types, CallTypeOK, Reach, Sending
  <2>4. CASE Drop(c) \/ Cancel(c)
    BY <1>1, <1>2, <2>1, <2>4 DEF Drop, Cancel, Types, CallTypeOK, TableTypeOK, Reach,
                                  Sending
  <2>5. CASE Take(c)
    BY <1>1, <1>2, <2>1, <2>5 DEF Take, Return, Types, CallTypeOK, Reach, Sending
  <2>6. CASE Abandon(c)
    BY <1>1, <1>2, <2>1, <2>6 DEF Abandon, Unclaimed, Abandoned, Return, Move, Types,
                                  CallTypeOK, TableTypeOK, Reach, Entry, Received, Sending
  <2> QED
    BY <2>2, <2>3, <2>4, <2>5, <2>6
<1> QED
  BY <1>3, <1>4 DEF ReachInv

LEMMA ReachWrite ==
  ASSUME Types, PlaceInv, ReachInv, NEW c \in Calls, Write(c)
  PROVE  ReachInv'
<1>1. /\ at[c] = "writing" /\ at' = [at EXCEPT ![c] = "written"] /\ result' = result
      /\ pending' = pending /\ failed' = failed /\ claimed' = claimed /\ observed' = observed
  BY DEF Write, Move, readVars
<1>2. \A d \in Calls : OnWire(d)' => OnWire(d) \/ d = c
  <2>1. <<"call", c>> \in InFrames /\ \A d \in Calls : <<"call", c>> = <<"call", d>> => d = c
    BY DEF InFrames
  <2>2. ~OnWire(c)
    BY DEF Write, ReachInv, Reach, Sending
  <2>3. /\ Len(input) < PipeSize /\ input' = Append(input, <<"call", c>>)
        /\ UNCHANGED <<output, nativeVars>>
    BY DEF Write
  <2> QED
    BY <2>1, <2>2, <2>3, InputAppended
<1>3. ASSUME NEW d \in Calls PROVE Reach(d)'
  BY <1>1, <1>2 DEF ReachInv, Reach, Received, Sending, Types, CallTypeOK
<1> QED
  BY <1>3 DEF ReachInv

\* After a failure only a returned or a dropped call has a result.
LEMMA ReachFails ==
  ASSUME Types, ReachInv, TableInv, UNCHANGED wireVars, claimed' = claimed,
         observed' = observed, NEW cause \in {"write", "close", "failing", "stray"},
         Fail(cause),
         \A d \in Calls : \/ at'[d] = at[d] /\ result'[d] = result[d]
                          \/ at'[d] = "drop"
  PROVE  ReachInv'
<1>1. failed' # "no"
  BY FailTable
<1>2. \A d : (OnWire(d)' <=> OnWire(d)) /\ (Received(d)' <=> Received(d))
  BY WireFrame DEF Received
<1> QED
  BY <1>1, <1>2 DEF ReachInv, Reach, Sending

LEMMA ReachReply ==
  ASSUME Types, PlaceInv, ReachInv, TableInv, NEW c \in Calls \cup {Stranger}, ReadReply(c)
  PROVE  ReachInv'
<1>1. /\ output # <<>> /\ output' = Tail(output) /\ Head(output) = <<"reply", c>>
      /\ UNCHANGED <<input, nativeVars>>
      /\ at' = at /\ result' = result /\ failed' = failed /\ observed' = observed
  BY DEF ReadReply, callVars
<1>2. \A d \in Calls : /\ OnWire(d)' => OnWire(d) /\ d # c
                       /\ d = c => OnWire(d)
  BY <1>1, OutputTaken
<1>3. CASE c \notin Known
  <2>1. UNCHANGED reachVars
    BY <1>1, <1>3 DEF ReadReply, reachVars
  <2> QED
    BY <1>2, <2>1, ReachKept
<1>4. CASE c \in Known
  <2>1. /\ c \in Calls /\ pending[c] # "absent" /\ pending' = [pending EXCEPT ![c] = "absent"]
        /\ claimed' = claimed \/ (claimed' = c /\ pending[c] = "live")
    BY <1>4 DEF ReadReply, Claimed, Known
  <2>2. \A d \in Calls : d # c => pending'[d] = pending[d]
    BY <2>1 DEF Types, TableTypeOK
  <2>3. reader = "scan" /\ claimed = Stranger
    BY DEF ReadReply, Ready, TableInv
  <2>4. ASSUME NEW d \in Calls, d # c PROVE Reach(d)'
    <3>1. Received(d)' => Received(d)
      BY <1>1, <2>1, <2>4 DEF Received
    <3> QED
      BY <1>1, <1>2, <2>2, <2>4, <3>1 DEF ReachInv, Reach
  <2>5. Reach(c)'
    <3>1. OnWire(c) /\ ~OnWire(c)' /\ Reach(c) /\ Entry(c)
      BY <1>2, <2>1 DEF ReachInv, TableInv
    <3>2. failed = "no" /\ Received(c)' => Received(c) \/ result[c] = "none"
      BY <1>1, <2>1, <3>1 DEF Received, Reach, Entry
    <3> QED
      BY <1>1, <3>1, <3>2 DEF Reach, Sending
  <2> QED
    BY <2>4, <2>5 DEF ReachInv
<1> QED
  BY <1>3, <1>4

LEMMA ReachStep ==
  ASSUME Types, PlaceInv, ReachInv, TableInv, [Next]_vars
  PROVE  ReachInv'
<1>1. ASSUME NEW c \in Calls,
             Begin(c) \/ AcquireGate(c) \/ Send(c) \/ Await(c) \/ Cancel(c)
      PROVE  ReachInv'
  <2>1. CASE WriteCut(c)
    <3>1. /\ UNCHANGED wireVars /\ claimed' = claimed /\ observed' = observed /\ Fail("write")
          /\ \A d \in Calls : \/ at'[d] = at[d] /\ result'[d] = result[d]
                              \/ at'[d] = "drop"
      BY <2>1 DEF WriteCut, Leave, wireVars, readVars, Types, CallTypeOK
    <3> QED
      BY <3>1, ReachFails
  <2> QED
    BY <1>1, <2>1, ReachCaller, ReachWrite DEF Send, Await
<1>2. ASSUME NEW q \in Requests,
             WorkerGate(q) \/ WorkerWritten(q) \/ Retire(q)
      PROVE  ReachInv'
  <2>1. UNCHANGED wireVars /\ UNCHANGED reachVars
    BY <1>2 DEF WorkerGate, WorkerWritten, Retire, wireVars, reachVars, callVars, readVars
  <2> QED
    BY <2>1, WireFrame, ReachKept
<1>3. ASSUME NEW q \in Requests, WorkerWrite(q) PROVE ReachInv'
  <2>1. <<"answer", q>> \in InFrames /\ \A d \in Calls : <<"answer", q>> # <<"call", d>>
    BY DEF InFrames
  <2>2. /\ Len(input) < PipeSize /\ input' = Append(input, <<"answer", q>>)
        /\ UNCHANGED <<output, nativeVars>> /\ UNCHANGED reachVars
    BY <1>3 DEF WorkerWrite, reachVars, callVars, readVars
  <2>3. \A d \in Calls : OnWire(d)' => OnWire(d)
    BY <2>1, <2>2, InputAppended
  <2> QED
    BY <2>2, <2>3, ReachKept
<1>4. ASSUME (\E q \in Requests : WorkerCut(q)) \/ Close \/ ReaderFails PROVE ReachInv'
  <2>1. /\ UNCHANGED wireVars /\ claimed' = claimed /\ observed' = observed
        /\ at' = at /\ result' = result
        /\ \E cause \in {"write", "close", "failing", "stray"} : Fail(cause)
    BY <1>4 DEF WorkerCut, Close, ReaderFails, wireVars, readVars, callVars
  <2> QED
    BY <2>1, ReachFails
<1>5. CASE Observe
  <2>1. /\ UNCHANGED wireVars /\ at' = at /\ result' = result /\ pending' = pending
        /\ failed' = failed /\ claimed' = Stranger /\ observed' = observed \cup {claimed}
    BY <1>5 DEF Observe, wireVars, callVars
  <2>2. \A d \in Calls : Received(d)' <=> Received(d)
    BY <2>1, ACPClientAssumption DEF Received
  <2>3. \A d : OnWire(d)' <=> OnWire(d)
    BY <2>1, WireFrame
  <2> QED
    BY <2>1, <2>2, <2>3 DEF ReachInv, Reach
<1>6. ASSUME NEW q \in Requests, ReadRequest(q) PROVE ReachInv'
  <2>1. /\ output # <<>> /\ output' = Tail(output) /\ UNCHANGED <<input, nativeVars>>
        /\ UNCHANGED reachVars
    BY <1>6 DEF ReadRequest, reachVars, callVars
  <2> QED
    BY <2>1, OutputTaken, ReachKept
<1>7. CASE ReadEnds \/ ReaderDone
  <2>1. UNCHANGED wireVars /\ UNCHANGED reachVars
    BY <1>7 DEF ReadEnds, ReaderDone, wireVars, reachVars, callVars
  <2> QED
    BY <2>1, WireFrame, ReachKept
<1>8. CASE NativeReads \/ NativeWrites
  <2>1. UNCHANGED reachVars
    BY <1>8 DEF NativeReads, NativeWrites, reachVars, callVars, readVars
  <2> QED
    BY <1>8, <2>1, NativeReadsWire, NativeWritesWire, ReachKept
<1>9. ASSUME \/ \E c \in Calls : NativeAnswers(c)
             \/ \E q \in Requests : NativeAsks(q)
             \/ NativeStrays \/ NativeExits
      PROVE  ReachInv'
  <2>1. /\ UNCHANGED reachVars /\ input' = input /\ output' = output /\ owed' \subseteq owed
        /\ \/ writes' = writes
           \/ \E c \in Calls : c \in owed /\ writes' = <<<<"reply", c>>>>
           \/ \E f : writes' = <<f>> /\ \A c \in Calls : f # <<"reply", c>>
    <3>1. UNCHANGED reachVars /\ input' = input /\ output' = output /\ owed' \subseteq owed
      BY <1>9 DEF NativeAnswers, NativeAsks, NativeStrays, NativeExits, NativeWants,
                  reachVars, callVars, readVars
    <3>2. \A c \in Calls : Stranger # c
      BY ACPClientAssumption
    <3>3. \A c \in Calls : /\ <<"reply", Stranger>> # <<"reply", c>>
                           /\ \A q \in Requests : <<"request", q>> # <<"reply", c>>
      BY <3>2
    <3> QED
      BY <1>9, <3>1, <3>3 DEF NativeAnswers, NativeAsks, NativeStrays, NativeExits, NativeWants
  <2>2. ASSUME NEW d \in Calls, OnWire(d)' PROVE OnWire(d)
    <3>1. \A f : writes' = <<f>> => (In(writes', <<"reply", d>>) <=> f = <<"reply", d>>)
      BY DEF In
    <3>2. \A c : <<"reply", c>> = <<"reply", d>> => c = d
      OBVIOUS
    <3>3. Answering(d)' => Answering(d) \/ d \in owed
      BY <2>1, <3>1, <3>2 DEF Answering
    <3> QED
      BY <2>1, <2>2, <3>3 DEF OnWire, Calling, Answered
  <2> QED
    BY <2>1, <2>2, ReachKept
<1>10. CASE UNCHANGED vars
  <2>1. UNCHANGED wireVars /\ UNCHANGED reachVars
    BY <1>10 DEF vars, wireVars, reachVars, callVars, readVars
  <2> QED
    BY <2>1, WireFrame, ReachKept
<1> QED
  BY <1>1, <1>2, <1>3, <1>4, <1>5, <1>6, <1>7, <1>8, <1>9, <1>10, ReachReply
     DEF Next, Worker, Reader, Native

-----------------------------------------------------------------------------
(* The table and the reader                                                 *)

LEMMA EntryKept ==
  ASSUME TableInv, UNCHANGED <<at, pending, reply, claimed, observed>>
  PROVE  \A d \in Calls : Entry(d)'
  BY DEF TableInv, Entry

LEMMA EntryCaller ==
  ASSUME Types, ReachInv, TableInv, NEW c \in Calls,
         \/ Begin(c) \/ AcquireGate(c) \/ Reserve(c) \/ GateRefused(c) \/ Submit(c)
         \/ Write(c) \/ WriteReturns(c) \/ Drop(c) \/ Take(c) \/ Abandon(c) \/ Cancel(c)
  PROVE  /\ \A d \in Calls : Entry(d)'
         /\ UNCHANGED <<requests, worker, reader, claimed>>
<1>1. UNCHANGED <<requests, worker, reader, claimed, observed>>
  BY DEF Begin, AcquireGate, Reserve, GateRefused, Submit, Write, WriteReturns, Drop, Take,
         Abandon, Cancel, workVars, readVars
<1>2. ASSUME NEW d \in Calls, d # c PROVE Entry(d)'
  <2>1. at'[d] = at[d] /\ pending'[d] = pending[d] /\ reply'[d] = reply[d]
    BY <1>2 DEF Begin, AcquireGate, Reserve, GateRefused, Submit, Write, WriteReturns,
                Drop, Take, Abandon, Abandoned, Cancel, Return, Move, Leave, Types,
                CallTypeOK, TableTypeOK
  <2> QED
    BY <1>1, <2>1 DEF TableInv, Entry
<1>3. Entry(c)'
  <2>1. Entry(c) /\ Reach(c)
    BY DEF TableInv, ReachInv
  <2>2. CASE Begin(c)
    BY <1>1, <2>1, <2>2 DEF Begin, Return, Move, Types, CallTypeOK, TableTypeOK, Entry,
                            Reach, Received
  <2>3. CASE AcquireGate(c) \/ Reserve(c) \/ GateRefused(c) \/ Submit(c) \/ Write(c)
               \/ WriteReturns(c)
    BY <1>1, <2>1, <2>3 DEF AcquireGate, Reserve, GateRefused, Submit, Write, WriteReturns,
                            Move, Leave, Types, CallTypeOK, Entry
  <2>4. CASE Drop(c) \/ Cancel(c)
    BY <1>1, <2>1, <2>4 DEF Drop, Cancel, Types, CallTypeOK, TableTypeOK, Entry
  <2>5. CASE Take(c)
    <3>1. /\ reply[c] # <<>> /\ pending' = pending /\ at' = [at EXCEPT ![c] = "returned"]
          /\ reply' = [reply EXCEPT ![c] = Tail(@)]
      BY <2>5 DEF Take, Return
    <3>2. pending[c] # "live" /\ claimed # c
      BY <2>1, <3>1 DEF Entry
    <3>3. at'[c] = "returned"
      BY <3>1 DEF Types, CallTypeOK
    <3> QED
      BY <1>1, <2>1, <3>1, <3>2, <3>3 DEF Entry
  <2>6. CASE Abandon(c)
    BY <1>1, <2>1, <2>6 DEF Abandon, Unclaimed, Abandoned, Return, Move, Types, CallTypeOK,
                            TableTypeOK, Entry
  <2> QED
    BY <2>2, <2>3, <2>4, <2>5, <2>6
<1> QED
  BY <1>1, <1>2, <1>3

LEMMA EntryFails ==
  ASSUME Types, TableInv, claimed' = claimed, observed' = observed,
         NEW cause \in {"write", "close", "failing", "stray"}, Fail(cause),
         \A d \in Calls : at'[d] = at[d] \/ (at[d] \in {"writing", "written"} /\ at'[d] = "drop")
  PROVE  \A d \in Calls : Entry(d)'
<1> SUFFICES ASSUME NEW d \in Calls PROVE Entry(d)'
  OBVIOUS
<1>1. Entry(d)
  BY DEF TableInv
<1>2. CASE failed # "no"
  BY <1>1, <1>2 DEF Fail, Entry
<1>3. CASE failed = "no"
  <2>1. pending'[d] = "absent" /\ (pending[d] # "live" => reply'[d] = reply[d])
    BY <1>3 DEF Fail, Types, TableTypeOK
  <2> QED
    BY <1>1, <2>1 DEF Entry
<1> QED
  BY <1>2, <1>3

LEMMA TableReply ==
  ASSUME Types, ReachInv, TableInv, NEW c \in Calls \cup {Stranger}, ReadReply(c)
  PROVE  TableInv'
<1>1. /\ at' = at /\ observed' = observed /\ requests' = requests /\ worker' = worker
      /\ reader = "scan" /\ claimed = Stranger
  BY DEF ReadReply, Ready, TableInv, callVars, workVars
<1>2. CASE c \notin Known
  <2>1. UNCHANGED <<at, pending, reply, claimed, observed>> /\ reader' = "stray"
    BY <1>1, <1>2 DEF ReadReply
  <2> QED
    BY <1>1, <2>1, EntryKept DEF TableInv
<1>3. CASE c \in Known
  <2>1. /\ c \in Calls /\ pending[c] # "absent" /\ pending' = [pending EXCEPT ![c] = "absent"]
    BY <1>3 DEF ReadReply, Claimed, Known
  <2>2. \/ reply' = reply /\ claimed' = claimed /\ reader' # "observe"
        \/ /\ reply' = [reply EXCEPT ![c] = Append(@, "capacity")] /\ claimed' = claimed
           /\ reader' # "observe"
        \/ reply' = reply /\ claimed' = c /\ reader' = "observe" /\ pending[c] = "live"
    <3>1. CASE pending[c] = "live" /\ ~Fits(ReplyBytes)
      BY <1>3, <3>1 DEF ReadReply
    <3>2. CASE ~(pending[c] = "live" /\ ~Fits(ReplyBytes))
      BY <1>3, <3>2 DEF ReadReply, NextFrame
    <3> QED
      BY <3>1, <3>2
  <2>3. \A d \in Calls : Entry(d)
    BY DEF TableInv
  <2>4. ASSUME NEW d \in Calls, d # c PROVE Entry(d)'
    <3>1. pending'[d] = pending[d] /\ reply'[d] = reply[d] /\ claimed' # d
      BY <1>1, <2>1, <2>2, <2>4, ACPClientAssumption DEF Types, TableTypeOK
    <3> QED
      BY <1>1, <2>3, <3>1 DEF Entry
  <2>5. Entry(c)'
    <3>1. at[c] # "idle" /\ pending'[c] = "absent"
      BY <2>1, <2>3 DEF Entry, Types, TableTypeOK
    <3>2. claimed' = c => reply'[c] = <<>>
      BY <1>1, <2>1, <2>2, <2>3, ACPClientAssumption DEF Entry
    <3> QED
      BY <1>1, <3>1, <3>2 DEF Entry
  <2>6. reader' = "observe" <=> claimed' # Stranger
    BY <1>1, <2>1, <2>2, ACPClientAssumption
  <2> QED
    BY <1>1, <2>4, <2>5, <2>6 DEF TableInv
<1> QED
  BY <1>2, <1>3

LEMMA TableStep ==
  ASSUME Types, ReachInv, TableInv, [Next]_vars
  PROVE  TableInv'
<1>1. CASE UNCHANGED <<at, pending, reply, claimed, observed, requests, worker, reader>>
  BY <1>1, EntryKept DEF TableInv
<1>2. ASSUME NEW c \in Calls,
             \/ Begin(c) \/ AcquireGate(c) \/ Reserve(c) \/ GateRefused(c) \/ Submit(c)
             \/ Write(c) \/ WriteReturns(c) \/ Drop(c) \/ Await(c) \/ Cancel(c)
      PROVE  TableInv'
  BY <1>2, EntryCaller DEF TableInv, Await
<1>3. ASSUME NEW c \in Calls, WriteCut(c) PROVE TableInv'
  <2>1. /\ Fail("write") /\ UNCHANGED <<claimed, observed, requests, worker, reader>>
        /\ \A d \in Calls : \/ at'[d] = at[d]
                            \/ at[d] \in {"writing", "written"} /\ at'[d] = "drop"
    BY <1>3 DEF WriteCut, Leave, readVars, workVars, Types, CallTypeOK
  <2> QED
    BY <2>1, EntryFails DEF TableInv
<1>4. ASSUME NEW q \in Requests, WorkerCut(q) PROVE TableInv'
  <2>1. /\ Fail("write") /\ UNCHANGED <<at, claimed, observed, requests, reader>>
        /\ worker[q] = "writing" /\ worker' = [worker EXCEPT ![q] = "retire"]
    BY <1>4 DEF WorkerCut, WorkerAt, readVars, callVars
  <2>2. \A x \in Requests : worker'[x] # "none" <=> worker[x] # "none"
    BY <2>1 DEF Types, WorkTypeOK
  <2> QED
    BY <2>1, <2>2, EntryFails DEF TableInv
<1>5. CASE Close \/ ReaderFails
  <2>1. /\ UNCHANGED <<at, claimed, observed, requests, worker>>
        /\ reader' = reader \/ (reader' = "joining" /\ reader # "observe")
        /\ \E cause \in {"write", "close", "failing", "stray"} : Fail(cause)
    BY <1>5 DEF Close, ReaderFails, callVars, workVars, readVars
  <2>2. \A d \in Calls : Entry(d)'
    BY <2>1, EntryFails
  <2> QED
    BY <2>1, <2>2 DEF TableInv
<1>6. ASSUME NEW q \in Requests,
             WorkerGate(q) \/ WorkerWrite(q) \/ WorkerWritten(q) \/ Retire(q)
               \/ ReadRequest(q)
      PROVE  TableInv'
  <2>1. /\ UNCHANGED <<at, pending, reply, claimed, observed>>
        /\ reader' = reader \/ (reader' # "observe" /\ reader # "observe")
    BY <1>6 DEF WorkerGate, WorkerWrite, WorkerWritten, Retire, ReadRequest, Ready,
                NextFrame, callVars, readVars
  <2>2. \A x \in Requests : x \in requests' <=> worker'[x] # "none"
    BY <1>6 DEF WorkerGate, WorkerWrite, WorkerWritten, Retire, ReadRequest, WorkerAt,
                workVars, Types, WorkTypeOK, TableInv
  <2> QED
    BY <2>1, <2>2, EntryKept DEF TableInv
<1>7. CASE Observe
  <2>1. claimed \in Calls /\ claimed # Stranger
    BY <1>7 DEF Observe, TableInv, Types, ReaderTypeOK
  <2>2. /\ at' = at /\ pending' = pending /\ requests' = requests /\ worker' = worker
        /\ claimed' = Stranger /\ reader' # "observe" /\ observed' = observed \cup {claimed}
        /\ \A d \in Calls : d # claimed => reply'[d] = reply[d]
    BY <1>7, <2>1 DEF Observe, NextFrame, callVars, workVars, Types, TableTypeOK
  <2>3. \A d \in Calls : Entry(d)
    BY DEF TableInv
  <2>4. pending[claimed] = "absent" /\ at[claimed] # "idle"
    BY <2>1, <2>3 DEF Entry, ReachInv, Reach, Received
  <2>5. ASSUME NEW d \in Calls PROVE Entry(d)'
    BY <2>1, <2>2, <2>3, <2>4, ACPClientAssumption DEF Entry
  <2> QED
    BY <2>2, <2>5 DEF TableInv
<1>8. CASE ReadEnds \/ ReaderDone
  <2>1. /\ UNCHANGED <<at, pending, reply, claimed, observed, requests, worker>>
        /\ reader # "observe" /\ reader' # "observe"
    BY <1>8 DEF ReadEnds, ReaderDone, Ready, callVars, workVars
  <2> QED
    BY <2>1, EntryKept DEF TableInv
<1>9. Native \/ NativeStrays \/ NativeExits \/ (\E q \in Requests : NativeAsks(q))
        => UNCHANGED <<at, pending, reply, claimed, observed, requests, worker, reader>>
  BY DEF Native, NativeReads, NativeWrites, NativeAnswers, NativeAsks, NativeWants,
         NativeStrays, NativeExits, callVars, workVars, readVars
<1>10. CASE UNCHANGED vars
  BY <1>1, <1>10 DEF vars, callVars, workVars, readVars
<1> QED
  BY <1>1, <1>2, <1>3, <1>4, <1>5, <1>6, <1>7, <1>8, <1>9, <1>10, TableReply
     DEF Next, Send, Worker, Reader

-----------------------------------------------------------------------------
(* Strangers                                                                *)

LEMMA StrayKept ==
  ASSUME StrayInv, UNCHANGED wireVars, failed' \in {failed, "write", "close", "failing"},
         reader' \in {reader, "scan", "observe", "failing", "joining", "done"},
         failed # "no" => failed' = failed
  PROVE  StrayInv'
<1>1. /\ Answering(Stranger)' <=> Answering(Stranger)
      /\ Answered(Stranger)' <=> Answered(Stranger)
      /\ strayed' = strayed
  BY WireFrame
<1> QED
  BY <1>1 DEF StrayInv

LEMMA StrayStep ==
  ASSUME Types, PlaceInv, ReachInv, TableInv, StrayInv, [Next]_vars
  PROVE  StrayInv'
<1>1. ASSUME NEW c \in Calls,
             \/ Begin(c) \/ AcquireGate(c) \/ Reserve(c) \/ GateRefused(c) \/ Submit(c)
             \/ WriteReturns(c) \/ Drop(c) \/ Await(c) \/ Cancel(c)
      PROVE  StrayInv'
  <2>1. UNCHANGED wireVars /\ failed' = failed /\ reader' = reader
    BY <1>1 DEF Begin, AcquireGate, Reserve, GateRefused, Submit, WriteReturns, Drop,
                Await, Take, Abandon, Cancel, wireVars, readVars
  <2> QED
    BY <2>1, StrayKept
<1>2. ASSUME \/ \E c \in Calls : WriteCut(c)
             \/ \E q \in Requests : WorkerCut(q)
             \/ Close
      PROVE  StrayInv'
  <2>1. /\ UNCHANGED wireVars /\ reader' = reader
        /\ Fail("write") \/ Fail("close")
    BY <1>2 DEF WriteCut, WorkerCut, Close, wireVars, readVars
  <2>2. failed' \in {failed, "write", "close"} /\ (failed # "no" => failed' = failed)
    BY <2>1 DEF Fail
  <2> QED
    BY <2>1, <2>2, StrayKept
<1>3. ASSUME NEW q \in Requests, WorkerGate(q) \/ WorkerWritten(q) \/ Retire(q)
      PROVE  StrayInv'
  <2>1. UNCHANGED wireVars /\ failed' = failed /\ reader' = reader
    BY <1>3 DEF WorkerGate, WorkerWritten, Retire, wireVars, readVars
  <2> QED
    BY <2>1, StrayKept
<1>4. ASSUME \/ \E c \in Calls : Write(c)
             \/ \E q \in Requests : WorkerWrite(q)
             \/ NativeReads \/ NativeExits
      PROVE  StrayInv'
  <2>1. UNCHANGED <<output, writes, strayed, failed, reader>>
    BY <1>4 DEF Write, WorkerWrite, NativeReads, NativeExits, nativeVars, readVars
  <2> QED
    BY <2>1 DEF StrayInv, Answering, Answered, In
<1>5. ASSUME NEW c \in Calls \cup {Stranger}, ReadReply(c) PROVE StrayInv'
  <2>1. /\ output # <<>> /\ output' = Tail(output) /\ Head(output) = <<"reply", c>>
        /\ UNCHANGED <<input, nativeVars>> /\ failed' = failed
    BY <1>5 DEF ReadReply
  <2>2. /\ Answered(Stranger)' => Answered(Stranger)
        /\ Answering(Stranger)' <=> Answering(Stranger)
        /\ strayed' = strayed
        /\ c = Stranger => Answered(Stranger)
        /\ c \in Calls => OnWire(c)
    BY <2>1, OutputTaken
  <2>3. reader' = "stray" => c \notin Known
    BY <1>5 DEF ReadReply, NextFrame
  <2>4. c \notin Known => strayed \/ failed # "no"
    BY <2>2 DEF StrayInv, ReachInv, Reach, Known
  <2> QED
    BY <2>1, <2>2, <2>3, <2>4 DEF StrayInv
<1>6. ASSUME NEW q \in Requests, ReadRequest(q) PROVE StrayInv'
  <2>1. /\ output # <<>> /\ output' = Tail(output) /\ UNCHANGED <<input, nativeVars>>
        /\ failed' = failed /\ reader' # "stray"
    BY <1>6 DEF ReadRequest, NextFrame
  <2>2. /\ Answered(Stranger)' => Answered(Stranger)
        /\ Answering(Stranger)' <=> Answering(Stranger)
        /\ strayed' = strayed
    BY <2>1, OutputTaken
  <2> QED
    BY <2>1, <2>2 DEF StrayInv
<1>7. CASE Observe \/ ReadEnds \/ ReaderDone
  <2>1. /\ UNCHANGED wireVars /\ failed' = failed
        /\ reader' \in {"scan", "observe", "failing", "joining", "done"}
    BY <1>7 DEF Observe, ReadEnds, ReaderDone, NextFrame, wireVars
  <2> QED
    BY <2>1, StrayKept
<1>8. CASE ReaderFails
  <2>1. /\ UNCHANGED wireVars /\ reader' = "joining" /\ Fail(reader)
        /\ reader \in {"failing", "stray"}
    BY <1>8 DEF ReaderFails, wireVars
  <2>2. failed' = IF failed = "no" THEN reader ELSE failed
    BY <2>1 DEF Fail
  <2>3. /\ Answering(Stranger)' <=> Answering(Stranger)
        /\ Answered(Stranger)' <=> Answered(Stranger)
        /\ strayed' = strayed
    BY <2>1, WireFrame
  <2> QED
    BY <2>1, <2>2, <2>3 DEF StrayInv
<1>9. CASE NativeWrites
  <2>1. failed' = failed /\ reader' = reader
    BY <1>9 DEF NativeWrites, readVars
  <2> QED
    BY <1>9, <2>1, NativeWritesWire DEF StrayInv
<1>10. ASSUME (\E c \in Calls : NativeAnswers(c)) \/ (\E q \in Requests : NativeAsks(q))
       PROVE  StrayInv'
  <2>1. /\ UNCHANGED <<output, strayed, failed, reader>>
        /\ \E f : writes' = <<f>> /\ f # <<"reply", Stranger>>
    <3>1. /\ \A c \in Calls : <<"reply", c>> # <<"reply", Stranger>>
          /\ \A q \in Requests : <<"request", q>> # <<"reply", Stranger>>
      BY ACPClientAssumption
    <3> QED
      BY <1>10, <3>1 DEF NativeAnswers, NativeAsks, NativeWants, readVars
  <2>2. ~Answering(Stranger)'
    BY <2>1 DEF Answering, In
  <2> QED
    BY <2>1, <2>2 DEF StrayInv, Answered
<1>11. CASE NativeStrays
  <2>1. strayed' = TRUE /\ failed' = failed /\ reader' = reader
    BY <1>11 DEF NativeStrays, NativeWants, readVars
  <2> QED
    BY <2>1 DEF StrayInv
<1>12. CASE UNCHANGED vars
  <2>1. UNCHANGED wireVars /\ failed' = failed /\ reader' = reader
    BY <1>12 DEF vars, wireVars, readVars
  <2> QED
    BY <2>1, StrayKept
<1> QED
  BY <1>1, <1>2, <1>3, <1>4, <1>5, <1>6, <1>7, <1>8, <1>9, <1>10, <1>11, <1>12
     DEF Next, Send, Worker, Reader, Native

-----------------------------------------------------------------------------
(* The account                                                              *)

LEMMA Joining ==
  ASSUME NEW S, IsFiniteSet(S), NEW x, x \notin S, NEW k \in Nat
  PROVE  /\ IsFiniteSet(S \cup {x})
         /\ k * Cardinality(S \cup {x}) = k * Cardinality(S) + k
<1>1. Cardinality(S) \in Nat /\ Cardinality(S \cup {x}) = Cardinality(S) + 1
  BY FS_AddElement, FS_CardinalityType
<1>2. \A n \in Nat : k * (n + 1) = k * n + k
  OBVIOUS
<1> QED
  BY <1>1, <1>2, FS_AddElement

LEMMA Leaving ==
  ASSUME NEW S, IsFiniteSet(S), NEW x \in S, NEW k \in Nat
  PROVE  /\ IsFiniteSet(S \ {x})
         /\ k * Cardinality(S) = k * Cardinality(S \ {x}) + k
<1>1. IsFiniteSet(S \ {x}) /\ x \notin S \ {x} /\ (S \ {x}) \cup {x} = S
  BY FS_RemoveElement
<1> QED
  BY <1>1, Joining

LEMMA Bytes ==
  ASSUME NEW S, IsFiniteSet(S), NEW k \in Nat
  PROVE  k * Cardinality(S) \in Nat
<1>1. Cardinality(S) \in Nat
  BY FS_CardinalityType
<1>2. \A n \in Nat : k * n \in Nat
  OBVIOUS
<1> QED
  BY <1>1, <1>2

\* The account as three sums, to change one at a time.
LEMMA Account ==
  ASSUME AccountInv
  PROVE  /\ CallBytes \in Nat /\ RequestBytes \in Nat /\ ReplyBytes \in Nat
         /\ CallBytes * Cardinality(Senders) \in Nat
         /\ RequestBytes * Cardinality(requests) \in Nat
         /\ ReplyBytes * Cardinality(Replies) \in Nat
  BY Bytes, ACPClientAssumption DEF AccountInv

LEMMA AccountKept ==
  ASSUME AccountInv, Senders' = Senders, requests' = requests, Replies' = Replies,
         retained' = retained
  PROVE  AccountInv'
  BY DEF AccountInv

LEMMA SenderStep ==
  ASSUME AccountInv, requests' = requests, Replies' = Replies, NEW c,
         \/ c \notin Senders /\ Senders' = Senders \cup {c} /\ retained' = retained + CallBytes
         \/ c \in Senders /\ Senders' = Senders \ {c} /\ retained' = retained - CallBytes
  PROVE  AccountInv'
<1> DEFINE a == CallBytes * Cardinality(Senders)
           b == RequestBytes * Cardinality(requests)
           e == ReplyBytes * Cardinality(Replies)
           z == CallBytes * Cardinality(Senders')
<1>1. CallBytes \in Nat /\ a \in Nat /\ b \in Nat /\ e \in Nat /\ retained = a + b + e
  BY Account DEF AccountInv
<1>2. CASE c \notin Senders /\ Senders' = Senders \cup {c} /\ retained' = retained + CallBytes
  <2>1. IsFiniteSet(Senders') /\ z = a + CallBytes
    BY <1>1, <1>2, Joining DEF AccountInv
  <2> HIDE DEF a, b, e, z
  <2>2. retained' = z + b + e
    BY <1>1, <1>2, <2>1
  <2> QED
    BY <2>1, <2>2 DEF AccountInv, b, e, z
<1>3. CASE c \in Senders /\ Senders' = Senders \ {c} /\ retained' = retained - CallBytes
  <2>1. IsFiniteSet(Senders') /\ a = z + CallBytes
    BY <1>1, <1>3, Leaving DEF AccountInv
  <2>2. z \in Nat
    BY <1>1, <2>1, Bytes
  <2> HIDE DEF a, b, e, z
  <2>3. retained' = z + b + e
    BY <1>1, <1>3, <2>1, <2>2
  <2> QED
    BY <2>1, <2>3 DEF AccountInv, b, e, z
<1> QED
  BY <1>2, <1>3

LEMMA RequestStep ==
  ASSUME AccountInv, Senders' = Senders, Replies' = Replies, NEW q,
         \/ q \notin requests /\ requests' = requests \cup {q} /\ retained' = retained + RequestBytes
         \/ q \in requests /\ requests' = requests \ {q} /\ retained' = retained - RequestBytes
  PROVE  AccountInv'
<1> DEFINE a == CallBytes * Cardinality(Senders)
           b == RequestBytes * Cardinality(requests)
           e == ReplyBytes * Cardinality(Replies)
           z == RequestBytes * Cardinality(requests')
<1>1. RequestBytes \in Nat /\ a \in Nat /\ b \in Nat /\ e \in Nat /\ retained = a + b + e
  BY Account DEF AccountInv
<1>2. CASE q \notin requests /\ requests' = requests \cup {q} /\ retained' = retained + RequestBytes
  <2>1. IsFiniteSet(requests') /\ z = b + RequestBytes
    BY <1>1, <1>2, Joining DEF AccountInv
  <2> HIDE DEF a, b, e, z
  <2>2. retained' = a + z + e
    BY <1>1, <1>2, <2>1
  <2> QED
    BY <2>1, <2>2 DEF AccountInv, a, e, z
<1>3. CASE q \in requests /\ requests' = requests \ {q} /\ retained' = retained - RequestBytes
  <2>1. IsFiniteSet(requests') /\ b = z + RequestBytes
    BY <1>1, <1>3, Leaving DEF AccountInv
  <2>2. z \in Nat
    BY <1>1, <2>1, Bytes
  <2> HIDE DEF a, b, e, z
  <2>3. retained' = a + z + e
    BY <1>1, <1>3, <2>1, <2>2
  <2> QED
    BY <2>1, <2>3 DEF AccountInv, a, e, z
<1> QED
  BY <1>2, <1>3

LEMMA ReplyStep ==
  ASSUME AccountInv, Senders' = Senders, requests' = requests, NEW c,
         \/ c \notin Replies /\ Replies' = Replies \cup {c} /\ retained' = retained + ReplyBytes
         \/ c \in Replies /\ Replies' = Replies \ {c} /\ retained' = retained - ReplyBytes
  PROVE  AccountInv'
<1> DEFINE a == CallBytes * Cardinality(Senders)
           b == RequestBytes * Cardinality(requests)
           e == ReplyBytes * Cardinality(Replies)
           z == ReplyBytes * Cardinality(Replies')
<1>1. ReplyBytes \in Nat /\ a \in Nat /\ b \in Nat /\ e \in Nat /\ retained = a + b + e
  BY Account DEF AccountInv
<1>2. CASE c \notin Replies /\ Replies' = Replies \cup {c} /\ retained' = retained + ReplyBytes
  <2>1. IsFiniteSet(Replies') /\ z = e + ReplyBytes
    BY <1>1, <1>2, Joining DEF AccountInv
  <2> HIDE DEF a, b, e, z
  <2>2. retained' = a + b + z
    BY <1>1, <1>2, <2>1
  <2> QED
    BY <2>1, <2>2 DEF AccountInv, a, b, z
<1>3. CASE c \in Replies /\ Replies' = Replies \ {c} /\ retained' = retained - ReplyBytes
  <2>1. IsFiniteSet(Replies') /\ e = z + ReplyBytes
    BY <1>1, <1>3, Leaving DEF AccountInv
  <2>2. z \in Nat
    BY <1>1, <2>1, Bytes
  <2> HIDE DEF a, b, e, z
  <2>3. retained' = a + b + z
    BY <1>1, <1>3, <2>1, <2>2
  <2> QED
    BY <2>1, <2>3 DEF AccountInv, a, b, z
<1> QED
  BY <1>2, <1>3

\* fail puts nothing on the account.
LEMMA RepliesFail ==
  ASSUME Types, TableInv, claimed' = claimed,
         NEW cause \in {"write", "close", "failing", "stray"}, Fail(cause)
  PROVE  Replies' = Replies
<1>1. \A c \in Calls : reply'[c] = <<"reply">> <=> reply[c] = <<"reply">>
  <2> SUFFICES ASSUME NEW c \in Calls PROVE reply'[c] = <<"reply">> <=> reply[c] = <<"reply">>
    OBVIOUS
  <2>1. /\ reply'[c] \in {reply[c], <<"failure">>}
        /\ pending[c] # "live" => reply'[c] = reply[c]
        /\ pending[c] = "live" => reply[c] = <<>>
    BY FailTable DEF TableInv, Entry
  <2>2. <<"failure">> # <<"reply">> /\ <<>> # <<"reply">>
    OBVIOUS
  <2> QED
    BY <2>1, <2>2
<1> QED
  BY <1>1 DEF Replies

LEMMA AccountSend ==
  ASSUME Types, TableInv, AccountInv, NEW c \in Calls,
         \/ Begin(c) \/ AcquireGate(c) \/ Reserve(c) \/ GateRefused(c) \/ Submit(c)
         \/ Write(c) \/ WriteReturns(c) \/ WriteCut(c) \/ Drop(c) \/ Abandon(c) \/ Cancel(c)
  PROVE  AccountInv'
<1>1. requests' = requests /\ claimed' = claimed
  BY DEF Begin, AcquireGate, Reserve, GateRefused, Submit, Write, WriteReturns, WriteCut,
         Drop, Abandon, Cancel, workVars, readVars
<1>2. Replies' = Replies
  <2>1. CASE reply' = reply
    BY <1>1, <2>1 DEF Replies
  <2>2. WriteCut(c) => Fail("write")
    BY DEF WriteCut
  <2>3. ~WriteCut(c) => reply' = reply
    BY DEF Begin, AcquireGate, Reserve, GateRefused, Submit, Write, WriteReturns, Drop,
           Abandon, Cancel
  <2> QED
    BY <1>1, <2>1, <2>2, <2>3, RepliesFail
<1>3. CASE /\ at' = at \/ \E to : at' = [at EXCEPT ![c] = to]
           /\ at[c] \in {"gate", "submit", "writing", "written"}
                <=> at'[c] \in {"gate", "submit", "writing", "written"}
           /\ retained' = retained
  <2>1. Senders' = Senders
    BY <1>3 DEF Senders, Types, CallTypeOK
  <2> QED
    BY <1>1, <1>2, <1>3, <2>1, AccountKept
<1>4. CASE /\ at[c] = "reserve" /\ at' = [at EXCEPT ![c] = "gate"]
           /\ retained' = retained + CallBytes
  <2>1. c \notin Senders /\ Senders' = Senders \cup {c}
    BY <1>4 DEF Senders, Types, CallTypeOK
  <2> QED
    BY <1>1, <1>2, <1>4, <2>1, SenderStep
<1>5. CASE /\ at[c] \in {"gate", "submit", "writing", "written"}
           /\ \E to \in {"drop", "wait"} : at' = [at EXCEPT ![c] = to]
           /\ retained' = retained - CallBytes
  <2>1. c \in Senders /\ Senders' = Senders \ {c}
    BY <1>5 DEF Senders, Types, CallTypeOK
  <2> QED
    BY <1>1, <1>2, <1>5, <2>1, SenderStep
<1>6. CASE Begin(c) \/ AcquireGate(c) \/ Write(c) \/ Drop(c) \/ Cancel(c)
  BY <1>3, <1>6 DEF Begin, AcquireGate, Write, Drop, Cancel, Return, Move, Types, CallTypeOK
<1>7. CASE Abandon(c)
  BY <1>3, <1>7 DEF Abandon, Return, Move, Types, CallTypeOK
<1>8. CASE Reserve(c)
  BY <1>3, <1>4, <1>8 DEF Reserve, Move, Leave, Types, CallTypeOK
<1>9. CASE GateRefused(c) \/ WriteReturns(c) \/ WriteCut(c)
  BY <1>5, <1>9 DEF GateRefused, Released, WriteReturns, WriteCut, Move, Leave
<1>10. CASE Submit(c)
  BY <1>3, <1>5, <1>10 DEF Submit, Move, Leave, Types, CallTypeOK
<1> QED
  BY <1>6, <1>7, <1>8, <1>9, <1>10

LEMMA AccountTake ==
  ASSUME Types, TableInv, AccountInv, NEW c \in Calls, Take(c)
  PROVE  AccountInv'
<1>1. /\ at[c] \in {"wait", "claimed"} /\ at' = [at EXCEPT ![c] = "returned"]
      /\ reply[c] # <<>> /\ reply' = [reply EXCEPT ![c] = Tail(@)]
      /\ retained' = retained - ReplySize(Head(reply[c]))
      /\ requests' = requests /\ claimed' = claimed
  BY DEF Take, Return, workVars, readVars
<1>2. Senders' = Senders
  BY <1>1 DEF Senders, Types, CallTypeOK
<1>3. /\ reply[c] \in {<<"reply">>, <<"capacity">>, <<"failure">>}
      /\ \A d \in Calls : d # c => reply'[d] = reply[d]
      /\ reply'[c] = Tail(reply[c])
  BY <1>1 DEF Types, TableTypeOK
<1>4. claimed # c
  BY <1>1 DEF TableInv, Entry
<1>5. /\ Tail(<<"reply">>) = <<>> /\ Tail(<<"capacity">>) = <<>> /\ Tail(<<"failure">>) = <<>>
      /\ Head(<<"reply">>) = "reply" /\ Head(<<"capacity">>) = "capacity"
      /\ Head(<<"failure">>) = "failure"
      /\ <<>> # <<"reply">> /\ <<"capacity">> # <<"reply">> /\ <<"failure">> # <<"reply">>
  OBVIOUS
<1>6. reply'[c] # <<"reply">>
  BY <1>3, <1>5
<1>7. CASE reply[c] = <<"reply">>
  <2>1. c \in Replies /\ Replies' = Replies \ {c}
    BY <1>1, <1>3, <1>4, <1>6, <1>7 DEF Replies
  <2>2. retained' = retained - ReplyBytes
    BY <1>1, <1>5, <1>7 DEF ReplySize
  <2> QED
    BY <1>1, <1>2, <2>1, <2>2, ReplyStep
<1>8. CASE reply[c] # <<"reply">>
  <2>1. Replies' = Replies
    BY <1>1, <1>3, <1>6, <1>8 DEF Replies
  <2>2. ReplySize(Head(reply[c])) = 0
    BY <1>3, <1>5, <1>8 DEF ReplySize
  <2>3. retained \in Int
    BY Account DEF AccountInv
  <2> QED
    BY <1>1, <1>2, <2>1, <2>2, <2>3, AccountKept
<1> QED
  BY <1>7, <1>8

LEMMA AccountReply ==
  ASSUME Types, TableInv, AccountInv, NEW c \in Calls \cup {Stranger}, ReadReply(c)
  PROVE  AccountInv'
<1>1. /\ at' = at /\ requests' = requests /\ reader = "scan" /\ claimed = Stranger
  BY DEF ReadReply, Ready, TableInv, callVars, workVars
<1>2. Senders' = Senders
  BY <1>1 DEF Senders
<1>3. CASE UNCHANGED <<reply, retained, claimed>>
  <2>1. Replies' = Replies
    BY <1>3 DEF Replies
  <2> QED
    BY <1>1, <1>2, <1>3, <2>1, AccountKept
<1>4. CASE c \in Known /\ pending[c] = "live" /\ ~Fits(ReplyBytes)
  <2>1. /\ c \in Calls /\ reply' = [reply EXCEPT ![c] = Append(@, "capacity")]
        /\ UNCHANGED <<retained, claimed>> /\ reply[c] = <<>>
    BY <1>4 DEF ReadReply, Known, TableInv, Entry
  <2>2. Append(<<>>, "capacity") # <<"reply">> /\ <<>> # <<"reply">>
    OBVIOUS
  <2>3. \A d \in Calls : reply'[d] = <<"reply">> <=> reply[d] = <<"reply">>
    BY <2>1, <2>2 DEF Types, TableTypeOK
  <2>4. Replies' = Replies
    BY <2>1, <2>3 DEF Replies
  <2> QED
    BY <1>1, <1>2, <2>1, <2>4, AccountKept
<1>5. CASE c \in Known /\ pending[c] = "live" /\ Fits(ReplyBytes)
  <2>1. /\ c \in Calls /\ reply' = reply /\ retained' = retained + ReplyBytes /\ claimed' = c
        /\ reply[c] = <<>>
    BY <1>5 DEF ReadReply, Known, TableInv, Entry
  <2>2. <<>> # <<"reply">>
    OBVIOUS
  <2>3. c \notin Replies /\ Replies' = Replies \cup {c}
    BY <1>1, <2>1, <2>2, ACPClientAssumption DEF Replies
  <2> QED
    BY <1>1, <1>2, <2>1, <2>3, ReplyStep
<1> QED
  BY <1>3, <1>4, <1>5 DEF ReadReply

LEMMA AccountStep ==
  ASSUME Types, TableInv, AccountInv, [Next]_vars
  PROVE  AccountInv'
<1>1. CASE UNCHANGED <<at, reply, claimed, requests, retained>>
  BY <1>1, AccountKept DEF Senders, Replies
<1>2. ASSUME NEW q \in Requests, Retire(q) PROVE AccountInv'
  <2>1. /\ worker[q] = "retire" /\ requests' = requests \ {q} /\ retained' = retained - RequestBytes
        /\ UNCHANGED <<at, reply, claimed>>
    BY <1>2 DEF Retire, callVars, readVars
  <2>2. q \in requests
    BY <2>1 DEF TableInv
  <2>3. Senders' = Senders /\ Replies' = Replies
    BY <2>1 DEF Senders, Replies
  <2> QED
    BY <2>1, <2>2, <2>3, RequestStep
<1>3. ASSUME NEW q \in Requests, ReadRequest(q) PROVE AccountInv'
  <2>1. /\ UNCHANGED <<at, reply, claimed>>
        /\ \/ UNCHANGED <<requests, retained>>
           \/ /\ q \notin requests /\ requests' = requests \cup {q}
              /\ retained' = retained + RequestBytes
    BY <1>3 DEF ReadRequest, callVars, workVars
  <2>2. Senders' = Senders /\ Replies' = Replies
    BY <2>1 DEF Senders, Replies
  <2> QED
    BY <1>1, <2>1, <2>2, RequestStep
<1>4. ASSUME (\E q \in Requests : WorkerCut(q)) \/ Close \/ ReaderFails PROVE AccountInv'
  <2>1. /\ UNCHANGED <<at, claimed, requests, retained>>
        /\ \E cause \in {"write", "close", "failing", "stray"} : Fail(cause)
    BY <1>4 DEF WorkerCut, WorkerAt, Close, ReaderFails, callVars, workVars, readVars
  <2>2. Senders' = Senders /\ Replies' = Replies
    BY <2>1, RepliesFail DEF Senders
  <2> QED
    BY <2>1, <2>2, AccountKept
<1>5. CASE Observe
  <2>1. claimed \in Calls /\ reply[claimed] = <<>>
    BY <1>5 DEF Observe, TableInv, Entry, Types, ReaderTypeOK
  <2>2. /\ at' = at /\ requests' = requests /\ retained' = retained /\ claimed' = Stranger
        /\ reply'[claimed] = Append(<<>>, "reply")
        /\ \A d \in Calls : d # claimed => reply'[d] = reply[d]
    BY <1>5, <2>1 DEF Observe, callVars, workVars, Types, TableTypeOK
  <2>3. Append(<<>>, "reply") = <<"reply">>
    OBVIOUS
  <2>4. Senders' = Senders /\ Replies' = Replies
    BY <2>1, <2>2, <2>3, ACPClientAssumption DEF Senders, Replies
  <2> QED
    BY <2>2, <2>4, AccountKept
<1>6. ASSUME NEW q \in Requests,
             WorkerGate(q) \/ WorkerWrite(q) \/ WorkerWritten(q) \/ NativeAsks(q)
      PROVE  UNCHANGED <<at, reply, claimed, requests, retained>>
  BY <1>6 DEF WorkerGate, WorkerWrite, WorkerWritten, WorkerAt, NativeAsks, NativeWants,
              callVars, workVars, readVars
<1>7. ReadEnds \/ ReaderDone \/ Native \/ NativeStrays \/ NativeExits
        => UNCHANGED <<at, reply, claimed, requests, retained>>
  BY DEF ReadEnds, ReaderDone, Native, NativeReads, NativeWrites, NativeAnswers,
         NativeWants, NativeStrays, NativeExits, callVars, workVars, readVars
<1>8. UNCHANGED vars => UNCHANGED <<at, reply, claimed, requests, retained>>
  BY DEF vars, callVars, workVars, readVars
<1> QED
  BY <1>1, <1>2, <1>3, <1>4, <1>5, <1>6, <1>7, <1>8, AccountSend, AccountTake, AccountReply
     DEF Next, Send, Await, Worker, Reader

-----------------------------------------------------------------------------
(* The theorems                                                             *)

LEMMA InitInv == Init => IInv
<1> SUFFICES ASSUME Init PROVE IInv
  OBVIOUS
<1>1. Types
  BY TypesInit
<1>2. PlaceInv /\ StrayInv /\ \A c \in Calls : ~OnWire(c)
  <2>1. input = <<>> /\ output = <<>> /\ writes = <<>> /\ owed = {}
    BY DEF Init
  <2>2. \A c : /\ Once(input, <<"call", c>>) /\ Once(output, <<"reply", c>>)
               /\ ~Calling(c) /\ ~Answering(c) /\ ~Answered(c)
    BY <2>1, EmptyIn DEF Calling, Answering, Answered
  <2> QED
    BY <2>1, <2>2 DEF Init, PlaceInv, Placed, StrayInv, OnWire
<1>3. ReachInv /\ TableInv
  BY <1>2, ACPClientAssumption DEF Init, ReachInv, Reach, Received, TableInv, Entry, Sending
<1>4. AccountInv
  <2>1. <<>> # <<"reply">>
    OBVIOUS
  <2>2. Senders = {} /\ requests = {} /\ Replies = {} /\ retained = 0
    BY <2>1, ACPClientAssumption DEF Init, Senders, Replies
  <2>3. CallBytes * 0 = 0 /\ RequestBytes * 0 = 0 /\ ReplyBytes * 0 = 0
    BY ACPClientAssumption
  <2> QED
    BY <2>2, <2>3, FS_EmptySet DEF AccountInv
<1> QED
  BY <1>1, <1>2, <1>3, <1>4 DEF IInv

LEMMA Inductive == Spec => []IInv
<1>1. IInv /\ [Next]_vars => IInv'
  BY CallTypesStep, TableTypesStep, WorkTypesStep, ReaderTypesStep, WireStep, ReachStep,
     TableStep, StrayStep, AccountStep DEF IInv, Types
<1> QED
  BY InitInv, <1>1, PTL DEF Spec

\* Every variable keeps its type, a reply channel never holds two results, and no release
\* takes more from the account than was reserved.
THEOREM TypeCorrect == Spec => []TypeOK
<1>1. IInv => TypeOK
  <2> SUFFICES ASSUME IInv PROVE TypeOK
    OBVIOUS
  <2>1. retained \in Nat
    BY Account DEF IInv, AccountInv
  <2>2. Types
    BY DEF IInv
  <2> QED
    BY <2>1, <2>2 DEF Types, CallTypeOK, TableTypeOK, WorkTypeOK, ReaderTypeOK, WireTypeOK, TypeOK
<1> QED
  BY <1>1, Inductive, PTL

\* The account of retained bytes is exact at every step of any number of calls, requests,
\* failures and refusals (reserve, release, the reader and answer).
THEOREM AccountIsExact == Spec => []RetainedExact
<1>1. IInv => RetainedExact
  BY DEF IInv, AccountInv, Senders, Replies, RetainedExact
<1> QED
  BY <1>1, Inductive, PTL

\* No call is answered twice, so neither the reader nor fail, which holds the lock, blocks
\* on a reply channel.
THEOREM AnsweredOnce == Spec => []OneReply
<1>1. IInv => OneReply
  <2> SUFFICES ASSUME IInv, NEW c \in Calls
               PROVE  /\ Len(reply[c]) <= 1
                      /\ claimed = c \/ pending[c] = "live" => reply[c] = <<>>
    BY DEF OneReply
  <2>1. reply[c] \in {<<>>, <<"reply">>, <<"capacity">>, <<"failure">>}
    BY DEF IInv, Types, TableTypeOK
  <2>2. Len(<<>>) <= 1 /\ Len(<<"reply">>) <= 1 /\ Len(<<"capacity">>) <= 1 /\ Len(<<"failure">>) <= 1
    OBVIOUS
  <2>3. Len(reply[c]) <= 1
    BY <2>1, <2>2
  <2> QED
    BY <2>3 DEF IInv, TableInv, Entry
<1> QED
  BY <1>1, Inductive, PTL

\* A late reply to an abandoned call is dropped: only a response to an id that was never
\* used fails the transport.
THEOREM LateRepliesAreHarmless == Spec => []LateReplyHarmless
<1>1. IInv => LateReplyHarmless
  BY DEF IInv, StrayInv, LateReplyHarmless
<1> QED
  BY <1>1, Inductive, PTL

\* A reply that the reader claimed goes to its caller whenever its context ends.
THEOREM ClaimedIsReceived == Spec => []ClaimWins
<1>1. IInv => ClaimWins
  BY DEF IInv, ReachInv, Reach, Received, ClaimWins
<1> QED
  BY <1>1, Inductive, PTL
===============================================================================
