----------------------- MODULE InteractiveOwner_proofs -----------------------
(***************************************************************************)
(* Proofs about InteractiveOwner, for any rows, messages, connections,     *)
(* slots and events: messages and calls are taken on an acknowledged       *)
(* connection only, supersession is terminal, nothing is appended after    *)
(* End, and the helper implements InputMailbox, step by step.              *)
(***************************************************************************)
EXTENDS InteractiveOwner, FiniteSetTheorems, SequenceTheorems, WellFoundedInduction, TLAPS

ObserverTypeOK ==
  /\ registry \in Rows \cup {NoRow} /\ signal \in BOOLEAN
  /\ obs \in {"created", "scan", "wait", "joining", "done"}
  /\ published \in Rows \cup {NoRow}

IdentityTypeOK ==
  /\ identity \in Rows \cup {NoRow} /\ revision \in Nat
  /\ changed \in BOOLEAN /\ ready \in BOOLEAN

FlagTypeOK ==
  /\ admitted \in BOOLEAN /\ ending \in BOOLEAN /\ cancelled \in BOOLEAN
  /\ refused \in BOOLEAN
  /\ supersession \in {"no", "frozen", "final"}

BusTypeOK ==
  /\ bus \in {"none", "dial", "open", "loop", "hello", "idle", "closing",
              "done"}
  /\ acknowledged \in Nat /\ proposed \in Nat \X (Rows \cup {NoRow})
  /\ known \in Rows \cup {NoRow}

CallTypeOK ==
  /\ call \in {"none", "waiting", "ready", "issued", "failed"}
  /\ end \in {"no", "waiting", "returned"}

ConnTypeOK == conns \in 0 .. MaxConns /\ conn \in 0 .. conns /\ callConn \in 0 .. conns

\* An open connection has a number, and a hello is asked on an open one.
LinkTypeOK ==
  /\ open \in BOOLEAN /\ asked \in BOOLEAN
  /\ conns = 0 => open = FALSE
  /\ open = FALSE => asked = FALSE

RegisteredTypeOK ==
  /\ via \in [Deliveries -> 0 .. conns]
  /\ registered \in SUBSET (1 .. conns)

FrameTypeOK == frames \in [1 .. MaxConns -> Seq(Frames)]

WorkTypeOK ==
  /\ work \in [Deliveries -> {"none", "queued", "gated", "wrote", "failed",
                              "rejecting", "done"}]
  /\ answer \in [Deliveries -> {"none", "written", "uncertain", "rejected",
                               "lost"}]

FileTypeOK == file \in Seq(Deliveries \cup {Newline, Torn})

Types ==
  /\ ObserverTypeOK /\ IdentityTypeOK /\ FlagTypeOK /\ BusTypeOK /\ CallTypeOK
  /\ ConnTypeOK /\ LinkTypeOK /\ RegisteredTypeOK /\ FrameTypeOK /\ WorkTypeOK /\ FileTypeOK

\* An acknowledgment is under way on a connection the daemon acknowledged only.
FrameInv ==
  \A k \in 1 .. MaxConns :
    k \notin registered => frames[k] \in Seq(Frames \ {"acknowledged"})

\* A superseded helper is ending; so is one whose End began, with its lifetime cancelled.
EndInv ==
  /\ supersession # "no" => ending
  /\ end # "no" => ending /\ cancelled

\* The slots are counted and bounded, and none is held once End returned.
SlotInv ==
  /\ IsFiniteSet(Busy) /\ Slots <= MaxSlots
  /\ end = "returned" => Busy = {} /\ supersession # "frozen"

IInv ==
  /\ Types /\ FrameInv /\ EndInv /\ SlotInv
  /\ AdmittedIsAcknowledged /\ CallOnAcknowledged

-----------------------------------------------------------------------------
(* Types                                                                    *)


LEMMA ObserverTypes ==
  ASSUME Types, [Next]_vars
  PROVE  ObserverTypeOK'
<1> USE DEF Types, ObserverTypeOK
<1>1. CASE UNCHANGED <<registry, signal, obs, published>>
  BY <1>1
<1>2. CASE Initialized
  BY <1>2 DEF Initialized, watchVars, obsVars
<1>3. CASE ObserveFails
  BY <1>3 DEF ObserveFails, ObserveReturns, watchVars, obsVars
<1>4. CASE Scan
  BY <1>4 DEF Scan, AdmissionAfterDesire, watchVars, obsVars
<1>5. CASE Wake
  BY <1>5 DEF Wake, watchVars, obsVars
<1>6. CASE Finish
  BY <1>6 DEF Finish, watchVars, obsVars
<1>7. CASE EndBegins
  BY <1>7 DEF EndBegins, watchVars, obsVars
<1>8. CASE NativeUnregisters
  BY <1>8 DEF NativeUnregisters, watchVars, obsVars
<1>9. ASSUME NEW row \in Rows, NativeRegisters(row)
      PROVE  ObserverTypeOK'
  BY <1>9 DEF NativeRegisters, watchVars, obsVars
<1>10. Dial \/ Register \/ Hello \/ Idle \/ Rehello \/ ConnectionEnds \/ Disconnect =>
          UNCHANGED <<registry, signal, obs, published>>
  BY DEF Dial, Register, Hello, Idle, Rehello, ConnectionEnds, Disconnect, watchVars,
      obsVars
<1>11. CloseCancelled \/ CancelSuperseded \/ AcknowledgeSuperseded \/ EndReturns =>
          UNCHANGED <<registry, signal, obs, published>>
  BY DEF CloseCancelled, CancelSuperseded, AcknowledgeSuperseded, EndReturns, watchVars,
      obsVars
<1>12. CallReady \/ Call => UNCHANGED <<registry, signal, obs, published>>
  BY DEF CallReady, Call, watchVars, obsVars
<1>13. DaemonAnswersHello \/ DaemonSupersedes \/ ConnectionLost \/ WatchFails \/ CallBegins
          => UNCHANGED <<registry, signal, obs, published>>
  BY DEF DaemonAnswersHello, DaemonSupersedes, ConnectionLost, WatchFails, CallBegins,
      watchVars, obsVars
<1>14. ASSUME NEW d \in Deliveries, DaemonDelivers(d)
      PROVE  UNCHANGED <<registry, signal, obs, published>>
  BY <1>14 DEF DaemonDelivers, watchVars, obsVars
<1>15. ASSUME NEW k \in 1 .. MaxConns,
             HelloAcknowledged(k) \/ HelloRefused(k) \/ HandleSuperseded(k)
      PROVE  UNCHANGED <<registry, signal, obs, published>>
  BY <1>15 DEF HelloAcknowledged, HelloRefused, HandleSuperseded, watchVars, obsVars
<1>16. ASSUME NEW k \in 1 .. MaxConns, NEW d \in Deliveries, HandleDeliver(k, d)
      PROVE  UNCHANGED <<registry, signal, obs, published>>
  BY <1>16 DEF HandleDeliver, watchVars, obsVars
<1>17. ASSUME NEW d \in Deliveries,
             AcquireGate(d) \/ GiveUp(d) \/ Misdelivered(d) \/ Write(d) \/
                 Answer(d)
      PROVE  UNCHANGED <<registry, signal, obs, published>>
  BY <1>17 DEF AcquireGate, GiveUp, Misdelivered, Write, Answer, WorkerStep, watchVars, obsVars
<1>18. UNCHANGED vars => UNCHANGED <<registry, signal, obs, published>>
  BY DEF vars, watchVars, obsVars
<1> QED
  BY <1>1, <1>2, <1>3, <1>4, <1>5, <1>6, <1>7, <1>8, <1>9, <1>10, <1>11, <1>12, <1>13,
      <1>14, <1>15, <1>16, <1>17, <1>18 DEF Next, Observer, Transport, Ending, External,
      Reader, Worker

LEMMA IdentityTypes ==
  ASSUME Types, [Next]_vars
  PROVE  IdentityTypeOK'
<1> USE DEF Types, ObserverTypeOK, IdentityTypeOK
<1>1. CASE UNCHANGED <<identity, revision, changed, ready>>
  BY <1>1
<1>2. CASE Scan
  <2>1. CASE registry = published
    BY <1>2, <2>1 DEF Scan, ownVars
  <2>2. CASE registry # published
    BY <1>2, <2>2 DEF Scan
  <2> QED
    BY <2>1, <2>2
<1>3. CASE Rehello
  BY <1>3 DEF Rehello, ownVars
<1>4. ASSUME NEW k \in 1 .. MaxConns, HelloAcknowledged(k)
      PROVE  IdentityTypeOK'
  BY <1>4 DEF HelloAcknowledged, AcknowledgedRevision, ownVars
<1>5. Initialized \/ ObserveFails \/ Wake \/ Finish => UNCHANGED <<identity, revision,
          changed, ready>>
  BY DEF Initialized, ObserveFails, Wake, Finish, ObserveReturns, ownVars
<1>6. Dial \/ Register \/ Hello \/ Idle \/ ConnectionEnds \/ Disconnect => UNCHANGED
          <<identity, revision, changed, ready>>
  BY DEF Dial, Register, Hello, Idle, ConnectionEnds, Disconnect, ownVars
<1>7. CloseCancelled \/ CancelSuperseded \/ AcknowledgeSuperseded \/ EndReturns =>
          UNCHANGED <<identity, revision, changed, ready>>
  BY DEF CloseCancelled, CancelSuperseded, AcknowledgeSuperseded, EndReturns, ownVars
<1>8. EndBegins \/ CallReady \/ Call => UNCHANGED <<identity, revision, changed, ready>>
  BY DEF EndBegins, CallReady, Call, ownVars
<1>9. DaemonAnswersHello \/ DaemonSupersedes \/ ConnectionLost \/ WatchFails \/
          NativeUnregisters \/ CallBegins => UNCHANGED <<identity, revision, changed,
          ready>>
  BY DEF DaemonAnswersHello, DaemonSupersedes, ConnectionLost, WatchFails,
      NativeUnregisters, CallBegins, ownVars
<1>10. ASSUME NEW row \in Rows, NativeRegisters(row)
      PROVE  UNCHANGED <<identity, revision, changed, ready>>
  BY <1>10 DEF NativeRegisters, ownVars
<1>11. ASSUME NEW d \in Deliveries, DaemonDelivers(d)
      PROVE  UNCHANGED <<identity, revision, changed, ready>>
  BY <1>11 DEF DaemonDelivers, ownVars
<1>12. ASSUME NEW k \in 1 .. MaxConns, HelloRefused(k) \/ HandleSuperseded(k)
      PROVE  UNCHANGED <<identity, revision, changed, ready>>
  BY <1>12 DEF HelloRefused, HandleSuperseded, ownVars
<1>13. ASSUME NEW k \in 1 .. MaxConns, NEW d \in Deliveries, HandleDeliver(k, d)
      PROVE  UNCHANGED <<identity, revision, changed, ready>>
  BY <1>13 DEF HandleDeliver, ownVars
<1>14. ASSUME NEW d \in Deliveries,
             AcquireGate(d) \/ GiveUp(d) \/ Misdelivered(d) \/ Write(d) \/
                 Answer(d)
      PROVE  UNCHANGED <<identity, revision, changed, ready>>
  BY <1>14 DEF AcquireGate, GiveUp, Misdelivered, Write, Answer, WorkerStep, ownVars
<1>15. UNCHANGED vars => UNCHANGED <<identity, revision, changed, ready>>
  BY DEF vars, ownVars
<1> QED
  BY <1>1, <1>2, <1>3, <1>4, <1>5, <1>6, <1>7, <1>8, <1>9, <1>10, <1>11, <1>12, <1>13,
      <1>14, <1>15 DEF Next, Observer, Transport, Ending, External, Reader, Worker

LEMMA FlagTypes ==
  ASSUME Types, [Next]_vars
  PROVE  FlagTypeOK'
<1> USE DEF Types, FlagTypeOK
<1>1. CASE UNCHANGED <<admitted, ending, cancelled, refused, supersession>>
  BY <1>1
<1>2. CASE ObserveFails
  BY <1>2 DEF ObserveFails, ObserveReturns, busVars, workVars
<1>3. CASE Scan
  BY <1>3 DEF Scan, AdmissionAfterDesire, busVars, workVars
<1>4. CASE Finish
  BY <1>4 DEF Finish, busVars, workVars
<1>5. CASE Register
  BY <1>5 DEF Register, MayRegister, busVars, workVars
<1>6. CASE Disconnect
  BY <1>6 DEF Disconnect, AdmissionAfterDisconnect, busVars, workVars
<1>7. CASE CancelSuperseded
  BY <1>7 DEF CancelSuperseded, busVars, workVars
<1>8. CASE AcknowledgeSuperseded
  BY <1>8 DEF AcknowledgeSuperseded, busVars, workVars
<1>9. CASE EndBegins
  BY <1>9 DEF EndBegins, busVars, workVars
<1>10. CASE WatchFails
  BY <1>10 DEF WatchFails, busVars, workVars
<1>11. ASSUME NEW k \in 1 .. MaxConns, HelloAcknowledged(k)
      PROVE  FlagTypeOK'
  BY <1>11 DEF HelloAcknowledged, AcknowledgedRevision, busVars, workVars
<1>12. ASSUME NEW k \in 1 .. MaxConns, HelloRefused(k)
      PROVE  FlagTypeOK'
  BY <1>12 DEF HelloRefused, busVars, workVars
<1>13. ASSUME NEW k \in 1 .. MaxConns, HandleSuperseded(k)
      PROVE  FlagTypeOK'
  BY <1>13 DEF HandleSuperseded, busVars, workVars
<1>14. Initialized \/ Wake => UNCHANGED <<admitted, ending, cancelled, refused,
          supersession>>
  BY DEF Initialized, Wake, busVars, workVars
<1>15. Dial \/ Hello \/ Idle \/ Rehello \/ ConnectionEnds => UNCHANGED <<admitted, ending,
          cancelled, refused, supersession>>
  BY DEF Dial, Hello, Idle, Rehello, ConnectionEnds, busVars, workVars
<1>16. CloseCancelled \/ EndReturns => UNCHANGED <<admitted, ending, cancelled, refused,
          supersession>>
  BY DEF CloseCancelled, EndReturns, busVars, workVars
<1>17. CallReady \/ Call => UNCHANGED <<admitted, ending, cancelled, refused,
          supersession>>
  BY DEF CallReady, Call, busVars, workVars
<1>18. DaemonAnswersHello \/ DaemonSupersedes \/ ConnectionLost \/ NativeUnregisters \/
          CallBegins => UNCHANGED <<admitted, ending, cancelled, refused, supersession>>
  BY DEF DaemonAnswersHello, DaemonSupersedes, ConnectionLost, NativeUnregisters,
      CallBegins, busVars, workVars
<1>19. ASSUME NEW row \in Rows, NativeRegisters(row)
      PROVE  UNCHANGED <<admitted, ending, cancelled, refused, supersession>>
  BY <1>19 DEF NativeRegisters, busVars, workVars
<1>20. ASSUME NEW d \in Deliveries, DaemonDelivers(d)
      PROVE  UNCHANGED <<admitted, ending, cancelled, refused, supersession>>
  BY <1>20 DEF DaemonDelivers, busVars, workVars
<1>21. ASSUME NEW k \in 1 .. MaxConns, NEW d \in Deliveries, HandleDeliver(k, d)
      PROVE  UNCHANGED <<admitted, ending, cancelled, refused, supersession>>
  BY <1>21 DEF HandleDeliver, busVars, workVars
<1>22. ASSUME NEW d \in Deliveries,
             AcquireGate(d) \/ GiveUp(d) \/ Misdelivered(d) \/ Write(d) \/
                 Answer(d)
      PROVE  UNCHANGED <<admitted, ending, cancelled, refused, supersession>>
  BY <1>22 DEF AcquireGate, GiveUp, Misdelivered, Write, Answer, WorkerStep, busVars, workVars
<1>23. UNCHANGED vars => UNCHANGED <<admitted, ending, cancelled, refused, supersession>>
  BY DEF vars, busVars, workVars
<1> QED
  BY <1>1, <1>2, <1>3, <1>4, <1>5, <1>6, <1>7, <1>8, <1>9, <1>10, <1>11, <1>12, <1>13,
      <1>14, <1>15, <1>16, <1>17, <1>18, <1>19, <1>20, <1>21, <1>22, <1>23 DEF Next,
      Observer, Transport, Ending, External, Reader, Worker

LEMMA BusTypes ==
  ASSUME Types, [Next]_vars
  PROVE  BusTypeOK'
<1> USE DEF Types, IdentityTypeOK, BusTypeOK
<1>1. CASE UNCHANGED <<bus, acknowledged, proposed, known>>
  BY <1>1
<1>2. CASE Scan
  BY <1>2 DEF Scan, AdmissionAfterDesire, busVars, daemonVars
<1>3. CASE Dial
  BY <1>3 DEF Dial, busVars, daemonVars
<1>4. CASE Register
  BY <1>4 DEF Register, MayRegister, busVars, daemonVars
<1>5. CASE Hello
  BY <1>5 DEF Hello, busVars, daemonVars
<1>6. CASE Idle
  BY <1>6 DEF Idle, busVars, daemonVars
<1>7. CASE Rehello
  BY <1>7 DEF Rehello, busVars, daemonVars
<1>8. CASE ConnectionEnds
  BY <1>8 DEF ConnectionEnds, busVars, daemonVars
<1>9. CASE Disconnect
  BY <1>9 DEF Disconnect, AdmissionAfterDisconnect, busVars, daemonVars
<1>10. CASE DaemonAnswersHello
  BY <1>10 DEF DaemonAnswersHello, busVars, daemonVars
<1>11. ASSUME NEW k \in 1 .. MaxConns, HelloAcknowledged(k)
      PROVE  BusTypeOK'
  BY <1>11 DEF HelloAcknowledged, AcknowledgedRevision, busVars, daemonVars
<1>12. ASSUME NEW k \in 1 .. MaxConns, HelloRefused(k)
      PROVE  BusTypeOK'
  BY <1>12 DEF HelloRefused, busVars, daemonVars
<1>13. Initialized \/ ObserveFails \/ Wake \/ Finish => UNCHANGED <<bus, acknowledged,
          proposed, known>>
  BY DEF Initialized, ObserveFails, Wake, Finish, ObserveReturns, busVars, daemonVars
<1>14. CloseCancelled \/ CancelSuperseded \/ AcknowledgeSuperseded \/ EndReturns =>
          UNCHANGED <<bus, acknowledged, proposed, known>>
  BY DEF CloseCancelled, CancelSuperseded, AcknowledgeSuperseded, EndReturns, busVars,
      daemonVars
<1>15. EndBegins \/ CallReady \/ Call => UNCHANGED <<bus, acknowledged, proposed, known>>
  BY DEF EndBegins, CallReady, Call, busVars, daemonVars
<1>16. DaemonSupersedes \/ ConnectionLost \/ WatchFails \/ NativeUnregisters \/ CallBegins
          => UNCHANGED <<bus, acknowledged, proposed, known>>
  BY DEF DaemonSupersedes, ConnectionLost, WatchFails, NativeUnregisters, CallBegins,
      busVars, daemonVars
<1>17. ASSUME NEW row \in Rows, NativeRegisters(row)
      PROVE  UNCHANGED <<bus, acknowledged, proposed, known>>
  BY <1>17 DEF NativeRegisters, busVars, daemonVars
<1>18. ASSUME NEW d \in Deliveries, DaemonDelivers(d)
      PROVE  UNCHANGED <<bus, acknowledged, proposed, known>>
  BY <1>18 DEF DaemonDelivers, busVars, daemonVars
<1>19. ASSUME NEW k \in 1 .. MaxConns, HandleSuperseded(k)
      PROVE  UNCHANGED <<bus, acknowledged, proposed, known>>
  BY <1>19 DEF HandleSuperseded, busVars, daemonVars
<1>20. ASSUME NEW k \in 1 .. MaxConns, NEW d \in Deliveries, HandleDeliver(k, d)
      PROVE  UNCHANGED <<bus, acknowledged, proposed, known>>
  BY <1>20 DEF HandleDeliver, busVars, daemonVars
<1>21. ASSUME NEW d \in Deliveries,
             AcquireGate(d) \/ GiveUp(d) \/ Misdelivered(d) \/ Write(d) \/
                 Answer(d)
      PROVE  UNCHANGED <<bus, acknowledged, proposed, known>>
  BY <1>21 DEF AcquireGate, GiveUp, Misdelivered, Write, Answer, WorkerStep, busVars, daemonVars
<1>22. UNCHANGED vars => UNCHANGED <<bus, acknowledged, proposed, known>>
  BY DEF vars, busVars, daemonVars
<1> QED
  BY <1>1, <1>2, <1>3, <1>4, <1>5, <1>6, <1>7, <1>8, <1>9, <1>10, <1>11, <1>12, <1>13,
      <1>14, <1>15, <1>16, <1>17, <1>18, <1>19, <1>20, <1>21, <1>22 DEF Next, Observer,
      Transport, Ending, External, Reader, Worker

LEMMA CallTypes ==
  ASSUME Types, [Next]_vars
  PROVE  CallTypeOK'
<1> USE DEF Types, CallTypeOK
<1>1. CASE UNCHANGED <<call, end>>
  BY <1>1
<1>2. CASE EndReturns
  BY <1>2 DEF EndReturns, callVars
<1>3. CASE EndBegins
  BY <1>3 DEF EndBegins, callVars
<1>4. CASE CallReady
  BY <1>4 DEF CallReady, callVars
<1>5. CASE Call
  BY <1>5 DEF Call, callVars
<1>6. CASE CallBegins
  BY <1>6 DEF CallBegins, callVars
<1>7. Initialized \/ ObserveFails \/ Scan \/ Wake \/ Finish => UNCHANGED <<call, end>>
  BY DEF Initialized, ObserveFails, Scan, Wake, Finish, ObserveReturns, callVars
<1>8. Dial \/ Register \/ Hello \/ Idle \/ Rehello \/ ConnectionEnds \/ Disconnect =>
          UNCHANGED <<call, end>>
  BY DEF Dial, Register, Hello, Idle, Rehello, ConnectionEnds, Disconnect, callVars
<1>9. CloseCancelled \/ CancelSuperseded \/ AcknowledgeSuperseded => UNCHANGED <<call,
          end>>
  BY DEF CloseCancelled, CancelSuperseded, AcknowledgeSuperseded, callVars
<1>10. DaemonAnswersHello \/ DaemonSupersedes \/ ConnectionLost \/ WatchFails \/
          NativeUnregisters => UNCHANGED <<call, end>>
  BY DEF DaemonAnswersHello, DaemonSupersedes, ConnectionLost, WatchFails,
      NativeUnregisters, callVars
<1>11. ASSUME NEW row \in Rows, NativeRegisters(row)
      PROVE  UNCHANGED <<call, end>>
  BY <1>11 DEF NativeRegisters, callVars
<1>12. ASSUME NEW d \in Deliveries, DaemonDelivers(d)
      PROVE  UNCHANGED <<call, end>>
  BY <1>12 DEF DaemonDelivers, callVars
<1>13. ASSUME NEW k \in 1 .. MaxConns,
             HelloAcknowledged(k) \/ HelloRefused(k) \/ HandleSuperseded(k)
      PROVE  UNCHANGED <<call, end>>
  BY <1>13 DEF HelloAcknowledged, HelloRefused, HandleSuperseded, callVars
<1>14. ASSUME NEW k \in 1 .. MaxConns, NEW d \in Deliveries, HandleDeliver(k, d)
      PROVE  UNCHANGED <<call, end>>
  BY <1>14 DEF HandleDeliver, callVars
<1>15. ASSUME NEW d \in Deliveries,
             AcquireGate(d) \/ GiveUp(d) \/ Misdelivered(d) \/ Write(d) \/
                 Answer(d)
      PROVE  UNCHANGED <<call, end>>
  BY <1>15 DEF AcquireGate, GiveUp, Misdelivered, Write, Answer, WorkerStep, callVars
<1>16. UNCHANGED vars => UNCHANGED <<call, end>>
  BY DEF vars, callVars
<1> QED
  BY <1>1, <1>2, <1>3, <1>4, <1>5, <1>6, <1>7, <1>8, <1>9, <1>10, <1>11, <1>12, <1>13,
      <1>14, <1>15, <1>16 DEF Next, Observer, Transport, Ending, External, Reader, Worker

LEMMA ConnTypes ==
  ASSUME Types, [Next]_vars
  PROVE  ConnTypeOK' /\ conns <= conns'
<1> USE InteractiveOwnerAssumption DEF Types, ConnTypeOK
<1>1. CASE UNCHANGED <<conns, conn, callConn>>
  BY <1>1
<1>2. CASE Dial
  BY <1>2 DEF Dial, callVars
<1>3. CASE Register
  BY <1>3 DEF Register, MayRegister, callVars
<1>4. CASE Disconnect
  BY <1>4 DEF Disconnect, AdmissionAfterDisconnect, callVars
<1>5. CASE Call
  BY <1>5 DEF Call, callVars
<1>6. Initialized \/ ObserveFails \/ Scan \/ Wake \/ Finish => UNCHANGED <<conns, conn,
          callConn>>
  BY DEF Initialized, ObserveFails, Scan, Wake, Finish, ObserveReturns, callVars
<1>7. Hello \/ Idle \/ Rehello \/ ConnectionEnds => UNCHANGED <<conns, conn, callConn>>
  BY DEF Hello, Idle, Rehello, ConnectionEnds, callVars
<1>8. CloseCancelled \/ CancelSuperseded \/ AcknowledgeSuperseded \/ EndReturns =>
          UNCHANGED <<conns, conn, callConn>>
  BY DEF CloseCancelled, CancelSuperseded, AcknowledgeSuperseded, EndReturns, callVars
<1>9. EndBegins \/ CallReady => UNCHANGED <<conns, conn, callConn>>
  BY DEF EndBegins, CallReady, callVars
<1>10. DaemonAnswersHello \/ DaemonSupersedes \/ ConnectionLost \/ WatchFails \/
          NativeUnregisters \/ CallBegins => UNCHANGED <<conns, conn, callConn>>
  BY DEF DaemonAnswersHello, DaemonSupersedes, ConnectionLost, WatchFails,
      NativeUnregisters, CallBegins, callVars
<1>11. ASSUME NEW row \in Rows, NativeRegisters(row)
      PROVE  UNCHANGED <<conns, conn, callConn>>
  BY <1>11 DEF NativeRegisters, callVars
<1>12. ASSUME NEW d \in Deliveries, DaemonDelivers(d)
      PROVE  UNCHANGED <<conns, conn, callConn>>
  BY <1>12 DEF DaemonDelivers, callVars
<1>13. ASSUME NEW k \in 1 .. MaxConns,
             HelloAcknowledged(k) \/ HelloRefused(k) \/ HandleSuperseded(k)
      PROVE  UNCHANGED <<conns, conn, callConn>>
  BY <1>13 DEF HelloAcknowledged, HelloRefused, HandleSuperseded, callVars
<1>14. ASSUME NEW k \in 1 .. MaxConns, NEW d \in Deliveries, HandleDeliver(k, d)
      PROVE  UNCHANGED <<conns, conn, callConn>>
  BY <1>14 DEF HandleDeliver, callVars
<1>15. ASSUME NEW d \in Deliveries,
             AcquireGate(d) \/ GiveUp(d) \/ Misdelivered(d) \/ Write(d) \/
                 Answer(d)
      PROVE  UNCHANGED <<conns, conn, callConn>>
  BY <1>15 DEF AcquireGate, GiveUp, Misdelivered, Write, Answer, WorkerStep, callVars
<1>16. UNCHANGED vars => UNCHANGED <<conns, conn, callConn>>
  BY DEF vars, callVars
<1> QED
  BY <1>1, <1>2, <1>3, <1>4, <1>5, <1>6, <1>7, <1>8, <1>9, <1>10, <1>11, <1>12, <1>13,
      <1>14, <1>15, <1>16 DEF Next, Observer, Transport, Ending, External, Reader, Worker

LEMMA LinkTypes ==
  ASSUME Types, [Next]_vars
  PROVE  LinkTypeOK'
<1> USE InteractiveOwnerAssumption DEF Types, ConnTypeOK, LinkTypeOK
<1>1. CASE UNCHANGED <<conns, open, asked>>
  BY <1>1
<1>2. CASE Dial
  <2>1. CASE cancelled
    BY <1>2, <2>1 DEF Dial, daemonVars
  <2>2. CASE ~cancelled
    <3>1. conns' = conns + 1 /\ conns' # 0
      BY <1>2, <2>2 DEF Dial
    <3> QED
      BY <1>2, <2>2, <3>1 DEF Dial, daemonVars
  <2> QED
    BY <2>1, <2>2
<1>3. CASE Hello
  BY <1>3 DEF Hello, daemonVars
<1>4. CASE Disconnect
  BY <1>4 DEF Disconnect, AdmissionAfterDisconnect, daemonVars
<1>5. CASE CloseCancelled
  BY <1>5 DEF CloseCancelled, daemonVars
<1>6. CASE DaemonAnswersHello
  BY <1>6 DEF DaemonAnswersHello, daemonVars
<1>7. CASE ConnectionLost
  BY <1>7 DEF ConnectionLost, daemonVars
<1>8. ASSUME NEW k \in 1 .. MaxConns, HandleSuperseded(k)
      PROVE  LinkTypeOK'
  BY <1>8 DEF HandleSuperseded, daemonVars
<1>9. ASSUME NEW k \in 1 .. MaxConns, NEW d \in Deliveries, HandleDeliver(k, d)
      PROVE  LinkTypeOK'
  BY <1>9 DEF HandleDeliver, daemonVars
<1>10. ASSUME NEW d \in Deliveries, Misdelivered(d)
      PROVE  LinkTypeOK'
  BY <1>10 DEF Misdelivered, WorkerStep, daemonVars
<1>11. Initialized \/ ObserveFails \/ Scan \/ Wake \/ Finish => UNCHANGED <<conns, open,
          asked>>
  BY DEF Initialized, ObserveFails, Scan, Wake, Finish, ObserveReturns, daemonVars
<1>12. Register \/ Idle \/ Rehello \/ ConnectionEnds => UNCHANGED <<conns, open, asked>>
  BY DEF Register, Idle, Rehello, ConnectionEnds, daemonVars
<1>13. CancelSuperseded \/ AcknowledgeSuperseded \/ EndReturns => UNCHANGED <<conns, open,
          asked>>
  BY DEF CancelSuperseded, AcknowledgeSuperseded, EndReturns, daemonVars
<1>14. EndBegins \/ CallReady \/ Call => UNCHANGED <<conns, open, asked>>
  BY DEF EndBegins, CallReady, Call, daemonVars
<1>15. DaemonSupersedes \/ WatchFails \/ NativeUnregisters \/ CallBegins => UNCHANGED
          <<conns, open, asked>>
  BY DEF DaemonSupersedes, WatchFails, NativeUnregisters, CallBegins, daemonVars
<1>16. ASSUME NEW row \in Rows, NativeRegisters(row)
      PROVE  UNCHANGED <<conns, open, asked>>
  BY <1>16 DEF NativeRegisters, daemonVars
<1>17. ASSUME NEW d \in Deliveries, DaemonDelivers(d)
      PROVE  UNCHANGED <<conns, open, asked>>
  BY <1>17 DEF DaemonDelivers, daemonVars
<1>18. ASSUME NEW k \in 1 .. MaxConns, HelloAcknowledged(k) \/ HelloRefused(k)
      PROVE  UNCHANGED <<conns, open, asked>>
  BY <1>18 DEF HelloAcknowledged, HelloRefused, daemonVars
<1>19. ASSUME NEW d \in Deliveries, AcquireGate(d) \/ GiveUp(d) \/ Write(d) \/ Answer(d)
      PROVE  UNCHANGED <<conns, open, asked>>
  BY <1>19 DEF AcquireGate, GiveUp, Write, Answer, WorkerStep, daemonVars
<1>20. UNCHANGED vars => UNCHANGED <<conns, open, asked>>
  BY DEF vars, daemonVars
<1> QED
  BY <1>1, <1>2, <1>3, <1>4, <1>5, <1>6, <1>7, <1>8, <1>9, <1>10, <1>11, <1>12, <1>13,
      <1>14, <1>15, <1>16, <1>17, <1>18, <1>19, <1>20 DEF Next, Observer, Transport, Ending,
      External, Reader, Worker

LEMMA RegisteredTypes ==
  ASSUME Types, [Next]_vars
  PROVE  RegisteredTypeOK' /\ registered \subseteq registered'
<1> USE InteractiveOwnerAssumption DEF Types, ConnTypeOK, LinkTypeOK, RegisteredTypeOK
<1>1. CASE UNCHANGED <<conns, via, registered>>
  BY <1>1
<1>2. CASE Dial
  <2>1. 0 .. conns \subseteq 0 .. conns' /\ 1 .. conns \subseteq 1 .. conns'
    BY <1>2 DEF Dial
  <2> QED
    BY <1>2, <2>1 DEF Dial, daemonVars
<1>3. CASE DaemonAnswersHello
  <2>1. conns \in 1 .. conns
    BY <1>3 DEF DaemonAnswersHello
  <2> QED
    BY <1>3, <2>1 DEF DaemonAnswersHello
<1>4. ASSUME NEW d \in Deliveries, DaemonDelivers(d)
      PROVE  RegisteredTypeOK' /\ registered \subseteq registered'
  BY <1>4 DEF DaemonDelivers, daemonVars
<1>5. Initialized \/ ObserveFails \/ Scan \/ Wake \/ Finish => UNCHANGED <<conns, via,
          registered>>
  BY DEF Initialized, ObserveFails, Scan, Wake, Finish, ObserveReturns, daemonVars
<1>6. Register \/ Hello \/ Idle \/ Rehello \/ ConnectionEnds \/ Disconnect => UNCHANGED
          <<conns, via, registered>>
  BY DEF Register, Hello, Idle, Rehello, ConnectionEnds, Disconnect, daemonVars
<1>7. CloseCancelled \/ CancelSuperseded \/ AcknowledgeSuperseded \/ EndReturns =>
          UNCHANGED <<conns, via, registered>>
  BY DEF CloseCancelled, CancelSuperseded, AcknowledgeSuperseded, EndReturns, daemonVars
<1>8. EndBegins \/ CallReady \/ Call => UNCHANGED <<conns, via, registered>>
  BY DEF EndBegins, CallReady, Call, daemonVars
<1>9. DaemonSupersedes \/ ConnectionLost \/ WatchFails \/ NativeUnregisters \/ CallBegins
          => UNCHANGED <<conns, via, registered>>
  BY DEF DaemonSupersedes, ConnectionLost, WatchFails, NativeUnregisters, CallBegins,
      daemonVars
<1>10. ASSUME NEW row \in Rows, NativeRegisters(row)
      PROVE  UNCHANGED <<conns, via, registered>>
  BY <1>10 DEF NativeRegisters, daemonVars
<1>11. ASSUME NEW k \in 1 .. MaxConns,
             HelloAcknowledged(k) \/ HelloRefused(k) \/ HandleSuperseded(k)
      PROVE  UNCHANGED <<conns, via, registered>>
  BY <1>11 DEF HelloAcknowledged, HelloRefused, HandleSuperseded, daemonVars
<1>12. ASSUME NEW k \in 1 .. MaxConns, NEW d \in Deliveries, HandleDeliver(k, d)
      PROVE  UNCHANGED <<conns, via, registered>>
  BY <1>12 DEF HandleDeliver, daemonVars
<1>13. ASSUME NEW d \in Deliveries,
             AcquireGate(d) \/ GiveUp(d) \/ Misdelivered(d) \/ Write(d) \/
                 Answer(d)
      PROVE  UNCHANGED <<conns, via, registered>>
  BY <1>13 DEF AcquireGate, GiveUp, Misdelivered, Write, Answer, WorkerStep, daemonVars
<1>14. UNCHANGED vars => UNCHANGED <<conns, via, registered>>
  BY DEF vars, daemonVars
<1> QED
  BY <1>1, <1>2, <1>3, <1>4, <1>5, <1>6, <1>7, <1>8, <1>9, <1>10, <1>11, <1>12, <1>13, <1>14
      DEF Next, Observer, Transport, Ending, External, Reader, Worker

LEMMA WorkTypes ==
  ASSUME Types, [Next]_vars
  PROVE  WorkTypeOK'
<1> USE DEF Types, WorkTypeOK
<1>1. CASE UNCHANGED <<work, answer>>
  BY <1>1
<1>2. ASSUME NEW k \in 1 .. MaxConns, NEW d \in Deliveries, HandleDeliver(k, d)
      PROVE  WorkTypeOK'
  BY <1>2 DEF HandleDeliver, workVars
<1>3. ASSUME NEW d \in Deliveries, AcquireGate(d)
      PROVE  WorkTypeOK'
  BY <1>3 DEF AcquireGate, WorkerStep, workVars
<1>4. ASSUME NEW d \in Deliveries, GiveUp(d)
      PROVE  WorkTypeOK'
  BY <1>4 DEF GiveUp, WorkerStep, workVars
<1>5. ASSUME NEW d \in Deliveries, Misdelivered(d)
      PROVE  WorkTypeOK'
  BY <1>5 DEF Misdelivered, WorkerStep, workVars
<1>6. ASSUME NEW d \in Deliveries, Write(d)
      PROVE  WorkTypeOK'
  BY <1>6 DEF Write, WorkerStep, workVars
<1>7. ASSUME NEW d \in Deliveries, Answer(d)
      PROVE  WorkTypeOK'
  BY <1>7 DEF Answer, Receipt, WorkerStep, workVars
<1>8. Initialized \/ ObserveFails \/ Scan \/ Wake \/ Finish => UNCHANGED <<work, answer>>
  BY DEF Initialized, ObserveFails, Scan, Wake, Finish, ObserveReturns, workVars
<1>9. Dial \/ Register \/ Hello \/ Idle \/ Rehello \/ ConnectionEnds \/ Disconnect =>
          UNCHANGED <<work, answer>>
  BY DEF Dial, Register, Hello, Idle, Rehello, ConnectionEnds, Disconnect, workVars
<1>10. CloseCancelled \/ CancelSuperseded \/ AcknowledgeSuperseded \/ EndReturns =>
          UNCHANGED <<work, answer>>
  BY DEF CloseCancelled, CancelSuperseded, AcknowledgeSuperseded, EndReturns, workVars
<1>11. EndBegins \/ CallReady \/ Call => UNCHANGED <<work, answer>>
  BY DEF EndBegins, CallReady, Call, workVars
<1>12. DaemonAnswersHello \/ DaemonSupersedes \/ ConnectionLost \/ WatchFails \/
          NativeUnregisters \/ CallBegins => UNCHANGED <<work, answer>>
  BY DEF DaemonAnswersHello, DaemonSupersedes, ConnectionLost, WatchFails,
      NativeUnregisters, CallBegins, workVars
<1>13. ASSUME NEW row \in Rows, NativeRegisters(row)
      PROVE  UNCHANGED <<work, answer>>
  BY <1>13 DEF NativeRegisters, workVars
<1>14. ASSUME NEW d \in Deliveries, DaemonDelivers(d)
      PROVE  UNCHANGED <<work, answer>>
  BY <1>14 DEF DaemonDelivers, workVars
<1>15. ASSUME NEW k \in 1 .. MaxConns,
             HelloAcknowledged(k) \/ HelloRefused(k) \/ HandleSuperseded(k)
      PROVE  UNCHANGED <<work, answer>>
  BY <1>15 DEF HelloAcknowledged, HelloRefused, HandleSuperseded, workVars
<1>16. UNCHANGED vars => UNCHANGED <<work, answer>>
  BY DEF vars, workVars
<1> QED
  BY <1>1, <1>2, <1>3, <1>4, <1>5, <1>6, <1>7, <1>8, <1>9, <1>10, <1>11, <1>12, <1>13,
      <1>14, <1>15, <1>16 DEF Next, Observer, Transport, Ending, External, Reader, Worker

LEMMA FileTypes ==
  ASSUME Types, [Next]_vars
  PROVE  FileTypeOK'
<1> USE DEF Types, FileTypeOK
<1>1. CASE UNCHANGED file
  BY <1>1
<1>2. ASSUME NEW d \in Deliveries, Write(d)
      PROVE  FileTypeOK'
  <2> DEFINE S == Deliveries \cup {Newline, Torn}
  <2>1. d \in S /\ Newline \in S /\ Torn \in S /\ file \in Seq(S)
    OBVIOUS
  <2>2. PICK part \in Remnants(d) \cup {Record(d)} : file' = file \o part
    BY <1>2 DEF Write
  <2> HIDE DEF S
  <2>3. part \in {<<>>, <<Newline>>, <<Newline, Torn>>, <<Newline, d>>, <<Newline, d, Newline>>}
    BY <2>2 DEF Remnants, Record
  <2>4. part \in Seq(S)
    <3>1. /\ <<>> \in Seq(S) /\ <<Newline>> \in Seq(S) /\ <<Newline, Torn>> \in Seq(S)
          /\ <<Newline, d>> \in Seq(S) /\ <<Newline, d, Newline>> \in Seq(S)
      BY <2>1
    <3> QED
      BY <2>3, <3>1
  <2>5. file' \in Seq(S)
    BY <2>1, <2>2, <2>4, ConcatProperties
  <2> QED
    BY <2>5 DEF S
<1>3. Initialized \/ ObserveFails \/ Scan \/ Wake \/ Finish => UNCHANGED file
  BY DEF Initialized, ObserveFails, Scan, Wake, Finish, ObserveReturns, workVars
<1>4. Dial \/ Register \/ Hello \/ Idle \/ Rehello \/ ConnectionEnds \/ Disconnect =>
          UNCHANGED file
  BY DEF Dial, Register, Hello, Idle, Rehello, ConnectionEnds, Disconnect, workVars
<1>5. CloseCancelled \/ CancelSuperseded \/ AcknowledgeSuperseded \/ EndReturns =>
          UNCHANGED file
  BY DEF CloseCancelled, CancelSuperseded, AcknowledgeSuperseded, EndReturns, workVars
<1>6. EndBegins \/ CallReady \/ Call => UNCHANGED file
  BY DEF EndBegins, CallReady, Call, workVars
<1>7. DaemonAnswersHello \/ DaemonSupersedes \/ ConnectionLost \/ WatchFails \/
          NativeUnregisters \/ CallBegins => UNCHANGED file
  BY DEF DaemonAnswersHello, DaemonSupersedes, ConnectionLost, WatchFails,
      NativeUnregisters, CallBegins, workVars
<1>8. ASSUME NEW row \in Rows, NativeRegisters(row)
      PROVE  UNCHANGED file
  BY <1>8 DEF NativeRegisters, workVars
<1>9. ASSUME NEW d \in Deliveries, DaemonDelivers(d)
      PROVE  UNCHANGED file
  BY <1>9 DEF DaemonDelivers, workVars
<1>10. ASSUME NEW k \in 1 .. MaxConns,
             HelloAcknowledged(k) \/ HelloRefused(k) \/ HandleSuperseded(k)
      PROVE  UNCHANGED file
  BY <1>10 DEF HelloAcknowledged, HelloRefused, HandleSuperseded, workVars
<1>11. ASSUME NEW k \in 1 .. MaxConns, NEW d \in Deliveries, HandleDeliver(k, d)
      PROVE  UNCHANGED file
  BY <1>11 DEF HandleDeliver, workVars
<1>12. ASSUME NEW d \in Deliveries,
             AcquireGate(d) \/ GiveUp(d) \/ Misdelivered(d) \/ Answer(d)
      PROVE  UNCHANGED file
  BY <1>12 DEF AcquireGate, GiveUp, Misdelivered, Answer, WorkerStep, workVars
<1>13. UNCHANGED vars => UNCHANGED file
  BY DEF vars, workVars
<1> QED
  BY <1>1, <1>2, <1>3, <1>4, <1>5, <1>6, <1>7, <1>8, <1>9, <1>10, <1>11, <1>12, <1>13 DEF
      Next, Observer, Transport, Ending, External, Reader, Worker

-----------------------------------------------------------------------------
(* The daemon's acknowledgment                                              *)

\* Only the daemon, answering hello, puts an acknowledgment on a connection, and it registers
\* the connection by the same step.
LEMMA FrameStep ==
  ASSUME Types, FrameInv, [Next]_vars
  PROVE  FrameTypeOK' /\ FrameInv'
<1> USE DEF Types, FrameTypeOK, FrameInv
<1>a. /\ conns \in 0 .. MaxConns /\ (open => conns \in 1 .. MaxConns)
      /\ asked => conns \in 1 .. MaxConns
      /\ registered \subseteq 1 .. conns
  BY DEF ConnTypeOK, LinkTypeOK, RegisteredTypeOK
<1>b. ASSUME NEW k \in 1 .. MaxConns, NEW frame, Dispatch(k, frame), UNCHANGED registered
      PROVE  FrameTypeOK' /\ FrameInv'
  <2>1. ASSUME NEW S, frames[k] \in Seq(S)
        PROVE  Tail(frames[k]) \in Seq(S)
    BY <1>b, <2>1, HeadTailProperties DEF Dispatch
  <2>2. Tail(frames[k]) \in Seq(Frames)
    BY <2>1
  <2>3. k \notin registered => Tail(frames[k]) \in Seq(Frames \ {"acknowledged"})
    BY <2>1
  <2> QED
    BY <1>b, <2>2, <2>3 DEF Dispatch
<1>c. ASSUME NEW frame \in Frames, conns \in 1 .. MaxConns,
             registered \subseteq registered',
             frame = "acknowledged" => conns \in registered',
             frames' = [frames EXCEPT ![conns] = Append(@, frame)]
      PROVE  FrameTypeOK' /\ FrameInv'
  <2>1. Append(frames[conns], frame) \in Seq(Frames)
    BY <1>c, AppendProperties
  <2>2. conns \notin registered' =>
          Append(frames[conns], frame) \in Seq(Frames \ {"acknowledged"})
    <3> SUFFICES ASSUME conns \notin registered'
                 PROVE  Append(frames[conns], frame) \in Seq(Frames \ {"acknowledged"})
      OBVIOUS
    <3>1. frames[conns] \in Seq(Frames \ {"acknowledged"})
          /\ frame \in Frames \ {"acknowledged"}
      BY <1>c
    <3> QED
      BY <3>1, AppendProperties
  <2> QED
    BY <1>c, <2>1, <2>2
<1>1. CASE UNCHANGED <<frames, registered>>
  BY <1>1
<1>2. CASE DaemonAnswersHello
  <2>0. conns \in 1 .. MaxConns
    BY <1>2, <1>a DEF DaemonAnswersHello
  <2>1. CASE registered' = registered \cup {conns}
             /\ frames' = [frames EXCEPT ![conns] = Append(@, "acknowledged")]
    <3>1. "acknowledged" \in Frames
      BY DEF Frames
    <3>2. registered \subseteq registered' /\ conns \in registered'
      BY <2>1
    <3> QED
      BY <1>c, <2>0, <2>1, <3>1, <3>2
  <2>2. CASE registered' = registered
             /\ frames' = [frames EXCEPT ![conns] = Append(@, "refused")]
    <3>1. "refused" \in Frames /\ "refused" # "acknowledged"
      BY DEF Frames
    <3>2. registered \subseteq registered'
      BY <2>2
    <3> QED
      BY <1>c, <2>0, <2>2, <3>1, <3>2
  <2>3. \/ /\ registered' = registered \cup {conns}
           /\ frames' = [frames EXCEPT ![conns] = Append(@, "acknowledged")]
        \/ /\ registered' = registered
           /\ frames' = [frames EXCEPT ![conns] = Append(@, "refused")]
    BY <1>2, Zenon DEF DaemonAnswersHello
  <2> QED
    BY <2>1, <2>2, <2>3
<1>3. CASE DaemonSupersedes
  BY <1>3, <1>a, <1>c DEF DaemonSupersedes, Frames, daemonVars
<1>4. ASSUME NEW d \in Deliveries, DaemonDelivers(d)
      PROVE  FrameTypeOK' /\ FrameInv'
  BY <1>4, <1>a, <1>c, InteractiveOwnerAssumption DEF DaemonDelivers, Frames, daemonVars
<1>5. ASSUME NEW k \in 1 .. MaxConns, HelloAcknowledged(k)
      PROVE  FrameTypeOK' /\ FrameInv'
  BY <1>5, <1>b DEF HelloAcknowledged, daemonVars
<1>6. ASSUME NEW k \in 1 .. MaxConns, HelloRefused(k)
      PROVE  FrameTypeOK' /\ FrameInv'
  BY <1>6, <1>b DEF HelloRefused, daemonVars
<1>7. ASSUME NEW k \in 1 .. MaxConns, HandleSuperseded(k)
      PROVE  FrameTypeOK' /\ FrameInv'
  BY <1>7, <1>b DEF HandleSuperseded, daemonVars
<1>8. ASSUME NEW k \in 1 .. MaxConns, NEW d \in Deliveries, HandleDeliver(k, d)
      PROVE  FrameTypeOK' /\ FrameInv'
  BY <1>8, <1>b DEF HandleDeliver, daemonVars
<1>9. Initialized \/ ObserveFails \/ Scan \/ Wake \/ Finish => UNCHANGED <<frames,
          registered>>
  BY DEF Initialized, ObserveFails, Scan, Wake, Finish, ObserveReturns, daemonVars
<1>10. Dial \/ Register \/ Hello \/ Idle \/ Rehello \/ ConnectionEnds \/ Disconnect =>
          UNCHANGED <<frames, registered>>
  BY DEF Dial, Register, Hello, Idle, Rehello, ConnectionEnds, Disconnect, daemonVars
<1>11. CloseCancelled \/ CancelSuperseded \/ AcknowledgeSuperseded \/ EndReturns =>
          UNCHANGED <<frames, registered>>
  BY DEF CloseCancelled, CancelSuperseded, AcknowledgeSuperseded, EndReturns, daemonVars
<1>12. EndBegins \/ CallReady \/ Call => UNCHANGED <<frames, registered>>
  BY DEF EndBegins, CallReady, Call, daemonVars
<1>13. ConnectionLost \/ WatchFails \/ NativeUnregisters \/ CallBegins => UNCHANGED
          <<frames, registered>>
  BY DEF ConnectionLost, WatchFails, NativeUnregisters, CallBegins, daemonVars
<1>14. ASSUME NEW row \in Rows, NativeRegisters(row)
      PROVE  UNCHANGED <<frames, registered>>
  BY <1>14 DEF NativeRegisters, daemonVars
<1>15. ASSUME NEW d \in Deliveries,
             AcquireGate(d) \/ GiveUp(d) \/ Misdelivered(d) \/ Write(d) \/
                 Answer(d)
      PROVE  UNCHANGED <<frames, registered>>
  BY <1>15 DEF AcquireGate, GiveUp, Misdelivered, Write, Answer, WorkerStep, daemonVars
<1>16. UNCHANGED vars => UNCHANGED <<frames, registered>>
  BY DEF vars, daemonVars
<1> QED
  BY <1>1, <1>2, <1>3, <1>4, <1>5, <1>6, <1>7, <1>8, <1>9, <1>10, <1>11, <1>12, <1>13,
      <1>14, <1>15, <1>16 DEF Next, Observer, Transport, Ending, External, Reader, Worker

\* Admission begins with an acknowledgment on the connection in use and ends before that
\* connection does.
LEMMA AdmittedStep ==
  ASSUME Types, FrameInv, AdmittedIsAcknowledged, [Next]_vars
  PROVE  AdmittedIsAcknowledged'
<1> USE DEF Types, AdmittedIsAcknowledged
<1>1. CASE UNCHANGED <<admitted, conn, registered>>
  BY <1>1
<1>2. CASE Scan
  BY <1>2 DEF Scan, AdmissionAfterDesire, daemonVars
<1>3. CASE Register
  BY <1>3 DEF Register, MayRegister, daemonVars
<1>4. CASE Disconnect
  BY <1>4 DEF Disconnect, AdmissionAfterDisconnect, daemonVars
<1>5. CASE DaemonAnswersHello
  BY <1>5 DEF DaemonAnswersHello, daemonVars
<1>6. ASSUME NEW k \in 1 .. MaxConns, HelloAcknowledged(k)
      PROVE  AdmittedIsAcknowledged'
  <2>1. frames[k] # <<>> /\ Head(frames[k]) = "acknowledged" /\ UNCHANGED <<conn, registered>>
    BY <1>6 DEF HelloAcknowledged, Dispatch, daemonVars
  <2>2. k \in registered
    <3> SUFFICES ASSUME k \notin registered PROVE FALSE
      OBVIOUS
    <3>1. frames[k] \in Seq(Frames \ {"acknowledged"})
      BY <1>6 DEF FrameInv
    <3>2. Head(frames[k]) \in Frames \ {"acknowledged"}
      BY <2>1, <3>1, HeadTailProperties
    <3> QED
      BY <2>1, <3>2
  <2>3. CASE UNCHANGED admitted
    BY <2>1, <2>3
  <2>4. CASE conn = k
    BY <1>6, <2>1, <2>2, <2>4
  <2>5. UNCHANGED admitted \/ conn = k
    BY <1>6 DEF HelloAcknowledged
  <2> QED
    BY <2>3, <2>4, <2>5
<1>7. Initialized \/ ObserveFails \/ Wake \/ Finish => UNCHANGED <<admitted, conn,
          registered>>
  BY DEF Initialized, ObserveFails, Wake, Finish, ObserveReturns, daemonVars
<1>8. Dial \/ Hello \/ Idle \/ Rehello \/ ConnectionEnds => UNCHANGED <<admitted, conn,
          registered>>
  BY DEF Dial, Hello, Idle, Rehello, ConnectionEnds, daemonVars
<1>9. CloseCancelled \/ CancelSuperseded \/ AcknowledgeSuperseded \/ EndReturns =>
          UNCHANGED <<admitted, conn, registered>>
  BY DEF CloseCancelled, CancelSuperseded, AcknowledgeSuperseded, EndReturns, daemonVars
<1>10. EndBegins \/ CallReady \/ Call => UNCHANGED <<admitted, conn, registered>>
  BY DEF EndBegins, CallReady, Call, daemonVars
<1>11. DaemonSupersedes \/ ConnectionLost \/ WatchFails \/ NativeUnregisters \/ CallBegins
          => UNCHANGED <<admitted, conn, registered>>
  BY DEF DaemonSupersedes, ConnectionLost, WatchFails, NativeUnregisters, CallBegins,
      daemonVars
<1>12. ASSUME NEW row \in Rows, NativeRegisters(row)
      PROVE  UNCHANGED <<admitted, conn, registered>>
  BY <1>12 DEF NativeRegisters, daemonVars
<1>13. ASSUME NEW d \in Deliveries, DaemonDelivers(d)
      PROVE  UNCHANGED <<admitted, conn, registered>>
  BY <1>13 DEF DaemonDelivers, daemonVars
<1>14. ASSUME NEW k \in 1 .. MaxConns, HelloRefused(k) \/ HandleSuperseded(k)
      PROVE  UNCHANGED <<admitted, conn, registered>>
  BY <1>14 DEF HelloRefused, HandleSuperseded, daemonVars
<1>15. ASSUME NEW k \in 1 .. MaxConns, NEW d \in Deliveries, HandleDeliver(k, d)
      PROVE  UNCHANGED <<admitted, conn, registered>>
  BY <1>15 DEF HandleDeliver, daemonVars
<1>16. ASSUME NEW d \in Deliveries,
             AcquireGate(d) \/ GiveUp(d) \/ Misdelivered(d) \/ Write(d) \/
                 Answer(d)
      PROVE  UNCHANGED <<admitted, conn, registered>>
  BY <1>16 DEF AcquireGate, GiveUp, Misdelivered, Write, Answer, WorkerStep, daemonVars
<1>17. UNCHANGED vars => UNCHANGED <<admitted, conn, registered>>
  BY DEF vars, daemonVars
<1> QED
  BY <1>1, <1>2, <1>3, <1>4, <1>5, <1>6, <1>7, <1>8, <1>9, <1>10, <1>11, <1>12, <1>13,
      <1>14, <1>15, <1>16, <1>17 DEF Next, Observer, Transport, Ending, External, Reader,
      Worker

LEMMA CallStep ==
  ASSUME Types, AdmittedIsAcknowledged, CallOnAcknowledged, [Next]_vars
  PROVE  CallOnAcknowledged'
<1> USE DEF Types, AdmittedIsAcknowledged, CallOnAcknowledged
<1>1. CASE UNCHANGED <<callConn, registered>>
  BY <1>1
<1>2. CASE Call
  BY <1>2 DEF Call, MayCall, daemonVars
<1>3. CASE DaemonAnswersHello
  BY <1>3 DEF DaemonAnswersHello, callVars, daemonVars
<1>4. Initialized \/ ObserveFails \/ Scan \/ Wake \/ Finish => UNCHANGED <<callConn,
          registered>>
  BY DEF Initialized, ObserveFails, Scan, Wake, Finish, ObserveReturns, callVars, daemonVars
<1>5. Dial \/ Register \/ Hello \/ Idle \/ Rehello \/ ConnectionEnds \/ Disconnect =>
          UNCHANGED <<callConn, registered>>
  BY DEF Dial, Register, Hello, Idle, Rehello, ConnectionEnds, Disconnect, callVars,
      daemonVars
<1>6. CloseCancelled \/ CancelSuperseded \/ AcknowledgeSuperseded \/ EndReturns =>
          UNCHANGED <<callConn, registered>>
  BY DEF CloseCancelled, CancelSuperseded, AcknowledgeSuperseded, EndReturns, callVars,
      daemonVars
<1>7. EndBegins \/ CallReady => UNCHANGED <<callConn, registered>>
  BY DEF EndBegins, CallReady, callVars, daemonVars
<1>8. DaemonSupersedes \/ ConnectionLost \/ WatchFails \/ NativeUnregisters \/ CallBegins
          => UNCHANGED <<callConn, registered>>
  BY DEF DaemonSupersedes, ConnectionLost, WatchFails, NativeUnregisters, CallBegins,
      callVars, daemonVars
<1>9. ASSUME NEW row \in Rows, NativeRegisters(row)
      PROVE  UNCHANGED <<callConn, registered>>
  BY <1>9 DEF NativeRegisters, callVars, daemonVars
<1>10. ASSUME NEW d \in Deliveries, DaemonDelivers(d)
      PROVE  UNCHANGED <<callConn, registered>>
  BY <1>10 DEF DaemonDelivers, callVars, daemonVars
<1>11. ASSUME NEW k \in 1 .. MaxConns,
             HelloAcknowledged(k) \/ HelloRefused(k) \/ HandleSuperseded(k)
      PROVE  UNCHANGED <<callConn, registered>>
  BY <1>11 DEF HelloAcknowledged, HelloRefused, HandleSuperseded, callVars, daemonVars
<1>12. ASSUME NEW k \in 1 .. MaxConns, NEW d \in Deliveries, HandleDeliver(k, d)
      PROVE  UNCHANGED <<callConn, registered>>
  BY <1>12 DEF HandleDeliver, callVars, daemonVars
<1>13. ASSUME NEW d \in Deliveries,
             AcquireGate(d) \/ GiveUp(d) \/ Misdelivered(d) \/ Write(d) \/
                 Answer(d)
      PROVE  UNCHANGED <<callConn, registered>>
  BY <1>13 DEF AcquireGate, GiveUp, Misdelivered, Write, Answer, WorkerStep, callVars,
      daemonVars
<1>14. UNCHANGED vars => UNCHANGED <<callConn, registered>>
  BY DEF vars, callVars, daemonVars
<1> QED
  BY <1>1, <1>2, <1>3, <1>4, <1>5, <1>6, <1>7, <1>8, <1>9, <1>10, <1>11, <1>12, <1>13, <1>14
      DEF Next, Observer, Transport, Ending, External, Reader, Worker

-----------------------------------------------------------------------------
(* The end of the helper                                                     *)

LEMMA EndStep ==
  ASSUME Types, EndInv, [Next]_vars
  PROVE  EndInv'
<1> USE DEF Types, FlagTypeOK, EndInv
<1>1. CASE UNCHANGED <<supersession, ending, end, cancelled>>
  BY <1>1
<1>2. CASE ObserveFails
  BY <1>2 DEF ObserveFails, ObserveReturns, workVars
<1>3. CASE Finish
  BY <1>3 DEF Finish, workVars
<1>4. CASE Disconnect
  BY <1>4 DEF Disconnect, AdmissionAfterDisconnect, workVars
<1>5. CASE CancelSuperseded
  BY <1>5 DEF CancelSuperseded, workVars
<1>6. CASE AcknowledgeSuperseded
  BY <1>6 DEF AcknowledgeSuperseded, workVars
<1>7. CASE EndReturns
  BY <1>7 DEF EndReturns, workVars
<1>8. CASE EndBegins
  BY <1>8 DEF EndBegins, workVars
<1>9. CASE WatchFails
  BY <1>9 DEF WatchFails, workVars
<1>10. ASSUME NEW k \in 1 .. MaxConns, HandleSuperseded(k)
      PROVE  EndInv'
  BY <1>10 DEF HandleSuperseded, workVars
<1>11. Initialized \/ Scan \/ Wake => UNCHANGED <<supersession, ending, end, cancelled>>
  BY DEF Initialized, Scan, Wake, workVars
<1>12. Dial \/ Register \/ Hello \/ Idle \/ Rehello \/ ConnectionEnds => UNCHANGED
          <<supersession, ending, end, cancelled>>
  BY DEF Dial, Register, Hello, Idle, Rehello, ConnectionEnds, workVars
<1>13. CloseCancelled => UNCHANGED <<supersession, ending, end, cancelled>>
  BY DEF CloseCancelled, workVars
<1>14. CallReady \/ Call => UNCHANGED <<supersession, ending, end, cancelled>>
  BY DEF CallReady, Call, workVars
<1>15. DaemonAnswersHello \/ DaemonSupersedes \/ ConnectionLost \/ NativeUnregisters \/
          CallBegins => UNCHANGED <<supersession, ending, end, cancelled>>
  BY DEF DaemonAnswersHello, DaemonSupersedes, ConnectionLost, NativeUnregisters,
      CallBegins, workVars
<1>16. ASSUME NEW row \in Rows, NativeRegisters(row)
      PROVE  UNCHANGED <<supersession, ending, end, cancelled>>
  BY <1>16 DEF NativeRegisters, workVars
<1>17. ASSUME NEW d \in Deliveries, DaemonDelivers(d)
      PROVE  UNCHANGED <<supersession, ending, end, cancelled>>
  BY <1>17 DEF DaemonDelivers, workVars
<1>18. ASSUME NEW k \in 1 .. MaxConns, HelloAcknowledged(k) \/ HelloRefused(k)
      PROVE  UNCHANGED <<supersession, ending, end, cancelled>>
  BY <1>18 DEF HelloAcknowledged, HelloRefused, workVars
<1>19. ASSUME NEW k \in 1 .. MaxConns, NEW d \in Deliveries, HandleDeliver(k, d)
      PROVE  UNCHANGED <<supersession, ending, end, cancelled>>
  BY <1>19 DEF HandleDeliver, workVars
<1>20. ASSUME NEW d \in Deliveries,
             AcquireGate(d) \/ GiveUp(d) \/ Misdelivered(d) \/ Write(d) \/
                 Answer(d)
      PROVE  UNCHANGED <<supersession, ending, end, cancelled>>
  BY <1>20 DEF AcquireGate, GiveUp, Misdelivered, Write, Answer, WorkerStep, workVars
<1>21. UNCHANGED vars => UNCHANGED <<supersession, ending, end, cancelled>>
  BY DEF vars, workVars
<1> QED
  BY <1>1, <1>2, <1>3, <1>4, <1>5, <1>6, <1>7, <1>8, <1>9, <1>10, <1>11, <1>12, <1>13,
      <1>14, <1>15, <1>16, <1>17, <1>18, <1>19, <1>20, <1>21 DEF Next, Observer, Transport,
      Ending, External, Reader, Worker

\* A step of a worker that holds a slot keeps it or gives it back.
LEMMA WorkerSlots ==
  ASSUME Types, SlotInv, NEW d \in Deliveries, d \in Busy, NEW stage,
         work' = [work EXCEPT ![d] = stage], UNCHANGED <<supersession, end>>
  PROVE  SlotInv'
<1>1. Busy' \subseteq Busy
  BY DEF Types, WorkTypeOK, Busy
<1>2. /\ IsFiniteSet(Busy') /\ Cardinality(Busy') <= Cardinality(Busy)
      /\ Cardinality(Busy') \in Nat /\ Cardinality(Busy) \in Nat
  BY <1>1, FS_Subset, FS_CardinalityType DEF SlotInv
<1>3. Slots' <= Slots /\ Slots \in Nat /\ Slots' \in Nat
  BY <1>2 DEF Slots
<1>4. Slots' <= MaxSlots
  BY <1>3, InteractiveOwnerAssumption DEF SlotInv
<1> QED
  BY <1>1, <1>2, <1>4 DEF SlotInv


\* A request takes a slot while one is free and its helper is not ending.
LEMMA SlotStep ==
  ASSUME Types, EndInv, SlotInv, [Next]_vars
  PROVE  SlotInv'
<1>a. IsFiniteSet(Busy) /\ Cardinality(Busy) \in Nat
  BY FS_CardinalityType DEF SlotInv
<1>1. CASE UNCHANGED <<work, supersession, end>>
  BY <1>1 DEF SlotInv, Slots, Busy
<1>2. CASE AcknowledgeSuperseded
  <2>1. UNCHANGED <<work, end>> /\ supersession = "frozen" /\ supersession' = "final"
    BY <1>2 DEF AcknowledgeSuperseded
  <2>2. Busy' = Busy
    BY <2>1 DEF Busy
  <2>3. Slots = Cardinality(Busy) + 1 /\ Slots' = Cardinality(Busy)
    BY <1>a, <2>1, <2>2 DEF Slots
  <2>4. Slots' <= MaxSlots
    BY <1>a, <2>3, InteractiveOwnerAssumption DEF SlotInv
  <2> QED
    BY <2>1, <2>2, <2>4 DEF SlotInv
<1>3. CASE EndReturns
  <2>1. UNCHANGED <<work, supersession>> /\ Slots = 0
    BY <1>3 DEF EndReturns, WorkersJoined, workVars
  <2>2. Busy' = Busy /\ Slots' = Slots
    BY <2>1 DEF Busy, Slots
  <2>3. Cardinality(Busy) = 0 /\ supersession # "frozen"
    BY <1>a, <2>1 DEF Slots
  <2>4. Busy = {}
    BY <2>3, FS_EmptySet DEF SlotInv
  <2> QED
    BY <2>1, <2>2, <2>3, <2>4 DEF SlotInv
<1>4. CASE EndBegins
  <2>1. UNCHANGED <<work, supersession>> /\ end' # "returned"
    BY <1>4 DEF EndBegins, workVars
  <2>2. Busy' = Busy /\ Slots' = Slots
    BY <2>1 DEF Busy, Slots
  <2> QED
    BY <2>1, <2>2 DEF SlotInv
<1>5. ASSUME NEW k \in 1 .. MaxConns, HandleSuperseded(k)
      PROVE  SlotInv'
  <2>1. UNCHANGED <<work, end>>
    BY <1>5 DEF HandleSuperseded
  <2>2. Busy' = Busy
    BY <2>1 DEF Busy
  <2>3. CASE ~Owned(k)
    <3>1. UNCHANGED supersession
      BY <1>5, <2>3 DEF HandleSuperseded
    <3> QED
      BY <2>1, <2>2, <3>1 DEF SlotInv, Slots
  <2>4. CASE Owned(k)
    <3>1. end # "returned"
      BY <2>4 DEF Owned, EndInv
    <3>2. supersession' \in {"frozen", "final"} /\ (supersession' = "frozen" => SlotFree)
      BY <1>5, <2>4 DEF HandleSuperseded
    <3>3. Slots' = Cardinality(Busy) + (IF supersession' = "frozen" THEN 1 ELSE 0)
      BY <2>2 DEF Slots
    <3>4. Slots' <= MaxSlots
      <4>1. CASE supersession' = "frozen"
        BY <1>a, <3>2, <3>3, <4>1, InteractiveOwnerAssumption DEF SlotFree, Slots
      <4>2. CASE supersession' = "final"
        BY <1>a, <3>3, <4>2, InteractiveOwnerAssumption DEF SlotInv, Slots
      <4> QED
        BY <3>2, <4>1, <4>2
    <3> QED
      BY <2>1, <2>2, <3>1, <3>4 DEF SlotInv
  <2> QED
    BY <2>3, <2>4
<1>6. ASSUME NEW k \in 1 .. MaxConns, NEW d \in Deliveries, HandleDeliver(k, d)
      PROVE  SlotInv'
  <2>1. UNCHANGED <<supersession, end>>
    BY <1>6 DEF HandleDeliver
  <2>2. CASE UNCHANGED work
    BY <2>1, <2>2 DEF SlotInv, Slots, Busy
  <2>3. CASE /\ Owned(k) /\ SlotFree
             /\ work' = [work EXCEPT ![d] = IF admitted THEN "queued" ELSE "rejecting"]
    <3>1. Busy' = Busy \cup {d}
      BY <2>3 DEF Types, WorkTypeOK, Busy
    <3>2. /\ IsFiniteSet(Busy') /\ Cardinality(Busy') \in Nat
          /\ Cardinality(Busy') <= Cardinality(Busy) + 1
      <4>1. /\ IsFiniteSet(Busy \cup {d})
            /\ Cardinality(Busy \cup {d}) = IF d \in Busy THEN Cardinality(Busy)
                                                          ELSE Cardinality(Busy) + 1
        BY <1>a, FS_AddElement
      <4> QED
        BY <1>a, <3>1, <4>1
    <3>3. Slots' <= Slots + 1 /\ Slots \in Nat /\ Slots' \in Nat
      BY <1>a, <2>1, <3>2 DEF Slots
    <3>4. Slots' <= MaxSlots
      BY <2>3, <3>3, InteractiveOwnerAssumption DEF SlotFree
    <3>5. end' # "returned"
      BY <2>1, <2>3 DEF Owned, EndInv
    <3> QED
      BY <3>2, <3>4, <3>5 DEF SlotInv
  <2>4. \/ UNCHANGED work
        \/ /\ Owned(k) /\ SlotFree
           /\ work' = [work EXCEPT ![d] = IF admitted THEN "queued" ELSE "rejecting"]
    BY <1>6 DEF HandleDeliver
  <2> QED
    BY <2>2, <2>3, <2>4
<1>7. ASSUME NEW d \in Deliveries, AcquireGate(d)
      PROVE  SlotInv'
  <2>1. d \in Busy /\ UNCHANGED <<supersession, end>>
        /\ \E stage : work' = [work EXCEPT ![d] = stage]
    BY <1>7 DEF AcquireGate, WorkerStep, Busy
  <2> QED
    BY <2>1, WorkerSlots
<1>8. ASSUME NEW d \in Deliveries, GiveUp(d)
      PROVE  SlotInv'
  <2>1. d \in Busy /\ UNCHANGED <<supersession, end>>
        /\ \E stage : work' = [work EXCEPT ![d] = stage]
    BY <1>8 DEF GiveUp, WorkerStep, Busy
  <2> QED
    BY <2>1, WorkerSlots
<1>9. ASSUME NEW d \in Deliveries, Misdelivered(d)
      PROVE  SlotInv'
  <2>1. d \in Busy /\ UNCHANGED <<supersession, end>>
        /\ \E stage : work' = [work EXCEPT ![d] = stage]
    BY <1>9 DEF Misdelivered, WorkerStep, Busy
  <2> QED
    BY <2>1, WorkerSlots
<1>10. ASSUME NEW d \in Deliveries, Write(d)
      PROVE  SlotInv'
  <2>1. d \in Busy /\ UNCHANGED <<supersession, end>>
        /\ \E stage : work' = [work EXCEPT ![d] = stage]
    BY <1>10 DEF Write, WorkerStep, Busy
  <2> QED
    BY <2>1, WorkerSlots
<1>11. ASSUME NEW d \in Deliveries, Answer(d)
      PROVE  SlotInv'
  <2>1. d \in Busy /\ UNCHANGED <<supersession, end>>
        /\ \E stage : work' = [work EXCEPT ![d] = stage]
    BY <1>11 DEF Answer, WorkerStep, Busy
  <2> QED
    BY <2>1, WorkerSlots
<1>12. Initialized \/ ObserveFails \/ Scan \/ Wake \/ Finish => UNCHANGED <<work,
          supersession, end>>
  BY DEF Initialized, ObserveFails, Scan, Wake, Finish, ObserveReturns, workVars
<1>13. Dial \/ Register \/ Hello \/ Idle \/ Rehello \/ ConnectionEnds \/ Disconnect =>
          UNCHANGED <<work, supersession, end>>
  BY DEF Dial, Register, Hello, Idle, Rehello, ConnectionEnds, Disconnect, workVars
<1>14. CloseCancelled \/ CancelSuperseded => UNCHANGED <<work, supersession, end>>
  BY DEF CloseCancelled, CancelSuperseded, workVars
<1>15. CallReady \/ Call => UNCHANGED <<work, supersession, end>>
  BY DEF CallReady, Call, workVars
<1>16. DaemonAnswersHello \/ DaemonSupersedes \/ ConnectionLost \/ WatchFails \/
          NativeUnregisters \/ CallBegins => UNCHANGED <<work, supersession, end>>
  BY DEF DaemonAnswersHello, DaemonSupersedes, ConnectionLost, WatchFails,
      NativeUnregisters, CallBegins, workVars
<1>17. ASSUME NEW row \in Rows, NativeRegisters(row)
      PROVE  UNCHANGED <<work, supersession, end>>
  BY <1>17 DEF NativeRegisters, workVars
<1>18. ASSUME NEW d \in Deliveries, DaemonDelivers(d)
      PROVE  UNCHANGED <<work, supersession, end>>
  BY <1>18 DEF DaemonDelivers, workVars
<1>19. ASSUME NEW k \in 1 .. MaxConns, HelloAcknowledged(k) \/ HelloRefused(k)
      PROVE  UNCHANGED <<work, supersession, end>>
  BY <1>19 DEF HelloAcknowledged, HelloRefused, workVars
<1>20. UNCHANGED vars => UNCHANGED <<work, supersession, end>>
  BY DEF vars, workVars
<1> QED
  BY <1>1, <1>2, <1>3, <1>4, <1>5, <1>6, <1>7, <1>8, <1>9, <1>10, <1>11, <1>12, <1>13,
      <1>14, <1>15, <1>16, <1>17, <1>18, <1>19, <1>20 DEF Next, Observer, Transport, Ending,
      External, Reader, Worker

LEMMA InitInv == Init => IInv
<1> SUFFICES ASSUME Init PROVE IInv
  OBVIOUS
<1>1. ObserverTypeOK /\ IdentityTypeOK /\ FlagTypeOK /\ BusTypeOK /\ CallTypeOK
  <2>1. ObserverTypeOK /\ IdentityTypeOK
    BY DEF Init, ObserverTypeOK, IdentityTypeOK
  <2>2. FlagTypeOK
    BY DEF Init, FlagTypeOK
  <2>3. BusTypeOK
    BY DEF Init, BusTypeOK
  <2>4. CallTypeOK
    BY DEF Init, CallTypeOK
  <2> QED
    BY <2>1, <2>2, <2>3, <2>4
<1>2. ConnTypeOK /\ LinkTypeOK /\ RegisteredTypeOK
  <2>1. ConnTypeOK
    BY InteractiveOwnerAssumption DEF Init, ConnTypeOK
  <2>2. LinkTypeOK
    BY DEF Init, LinkTypeOK
  <2>3. RegisteredTypeOK
    BY DEF Init, RegisteredTypeOK
  <2> QED
    BY <2>1, <2>2, <2>3
<1>3. FrameTypeOK /\ WorkTypeOK /\ FileTypeOK /\ FrameInv
  BY DEF Init, FrameTypeOK, WorkTypeOK, FileTypeOK, FrameInv
<1>4. EndInv /\ AdmittedIsAcknowledged /\ CallOnAcknowledged
  BY DEF Init, EndInv, AdmittedIsAcknowledged, CallOnAcknowledged
<1>5. SlotInv
  <2>1. Busy = {}
    BY DEF Init, Busy
  <2>2. IsFiniteSet(Busy) /\ Cardinality(Busy) = 0
    BY <2>1, FS_EmptySet
  <2>3. Slots = 0
    BY <2>2 DEF Init, Slots
  <2> QED
    BY <2>2, <2>3, InteractiveOwnerAssumption DEF Init, SlotInv
<1> QED
  BY <1>1, <1>2, <1>3, <1>4, <1>5 DEF IInv, Types

LEMMA Inductive == Spec => []IInv
<1>1. IInv /\ [Next]_vars => IInv'
  BY ObserverTypes, IdentityTypes, FlagTypes, BusTypes, CallTypes, ConnTypes, LinkTypes,
     RegisteredTypes, WorkTypes, FileTypes, FrameStep, AdmittedStep, CallStep, EndStep,
     SlotStep
     DEF IInv, Types
<1> QED
  BY InitInv, <1>1, PTL DEF Spec

-----------------------------------------------------------------------------
(* Theorems                                                                 *)

\* Every variable keeps its type, and no more requests are in progress than there are slots
\* (handle).
THEOREM TypeCorrect == Spec => []TypeOK
<1>1. IInv => TypeOK
  BY DEF IInv, Types, ObserverTypeOK, IdentityTypeOK, FlagTypeOK, BusTypeOK, CallTypeOK,
         ConnTypeOK, LinkTypeOK, RegisteredTypeOK, FrameTypeOK, WorkTypeOK, FileTypeOK,
         SlotInv, TypeOK
<1> QED
  BY <1>1, Inductive, PTL

\* Whatever renames, outages and late acknowledgments come together, messages are admitted
\* only while the connection they come on is acknowledged (desire, connect, handle).
THEOREM AdmissionIsAcknowledged == Spec => []AdmittedIsAcknowledged
<1>1. IInv => AdmittedIsAcknowledged
  BY DEF IInv
<1> QED
  BY <1>1, Inductive, PTL

\* A tool call goes out on an acknowledged connection only (Call).
THEOREM CallsAreAcknowledged == Spec => []CallOnAcknowledged
<1>1. IInv => CallOnAcknowledged
  BY DEF IInv
<1> QED
  BY <1>1, Inductive, PTL

\* A superseded helper registers no connection.
LEMMA ConnAfterSupersession ==
  ASSUME IInv, [Next]_vars, supersession # "no"
  PROVE  conn' \in {conn, 0}
<1>1. CASE UNCHANGED conn
  BY <1>1
<1>2. CASE Register
  BY <1>2 DEF IInv, EndInv, Register, MayRegister
<1>3. CASE Disconnect
  BY <1>3 DEF Disconnect, AdmissionAfterDisconnect
<1>4. Initialized \/ ObserveFails \/ Scan \/ Wake \/ Finish => UNCHANGED conn
  BY DEF Initialized, ObserveFails, Scan, Wake, Finish, ObserveReturns
<1>5. Dial \/ Hello \/ Idle \/ Rehello \/ ConnectionEnds => UNCHANGED conn
  BY DEF Dial, Hello, Idle, Rehello, ConnectionEnds
<1>6. CloseCancelled \/ CancelSuperseded \/ AcknowledgeSuperseded \/ EndReturns =>
          UNCHANGED conn
  BY DEF CloseCancelled, CancelSuperseded, AcknowledgeSuperseded, EndReturns
<1>7. EndBegins \/ CallReady \/ Call => UNCHANGED conn
  BY DEF EndBegins, CallReady, Call
<1>8. DaemonAnswersHello \/ DaemonSupersedes \/ ConnectionLost \/ WatchFails \/
          NativeUnregisters \/ CallBegins => UNCHANGED conn
  BY DEF DaemonAnswersHello, DaemonSupersedes, ConnectionLost, WatchFails,
      NativeUnregisters, CallBegins
<1>9. ASSUME NEW row \in Rows, NativeRegisters(row)
      PROVE  UNCHANGED conn
  BY <1>9 DEF NativeRegisters
<1>10. ASSUME NEW d \in Deliveries, DaemonDelivers(d)
      PROVE  UNCHANGED conn
  BY <1>10 DEF DaemonDelivers
<1>11. ASSUME NEW k \in 1 .. MaxConns,
             HelloAcknowledged(k) \/ HelloRefused(k) \/ HandleSuperseded(k)
      PROVE  UNCHANGED conn
  BY <1>11 DEF HelloAcknowledged, HelloRefused, HandleSuperseded
<1>12. ASSUME NEW k \in 1 .. MaxConns, NEW d \in Deliveries, HandleDeliver(k, d)
      PROVE  UNCHANGED conn
  BY <1>12 DEF HandleDeliver
<1>13. ASSUME NEW d \in Deliveries,
             AcquireGate(d) \/ GiveUp(d) \/ Misdelivered(d) \/ Write(d) \/
                 Answer(d)
      PROVE  UNCHANGED conn
  BY <1>13 DEF AcquireGate, GiveUp, Misdelivered, Write, Answer, WorkerStep
<1>14. UNCHANGED vars => UNCHANGED conn
  BY DEF vars
<1> QED
  BY <1>1, <1>2, <1>3, <1>4, <1>5, <1>6, <1>7, <1>8, <1>9, <1>10, <1>11, <1>12, <1>13, <1>14
      DEF Next, Observer, Transport, Ending, External, Reader, Worker

\* The end of the stream after a supersession never turns into a reconnect (handle, connect).
THEOREM SupersededForGood == Spec => SupersessionIsTerminal
<1>1. IInv /\ [Next]_vars => [supersession # "no" => conn' \in {conn, 0}]_vars
  BY ConnAfterSupersession
<1> QED
  BY <1>1, Inductive, PTL DEF Spec, SupersessionIsTerminal

\* No worker holds a slot once End returned.
LEMMA FileAfterEnd ==
  ASSUME IInv, [Next]_vars, end = "returned"
  PROVE  UNCHANGED <<file, answer>>
<1>1. CASE UNCHANGED <<file, answer>>
  BY <1>1
<1>2. ASSUME NEW d \in Deliveries, Misdelivered(d)
      PROVE  UNCHANGED <<file, answer>>
  BY <1>2 DEF IInv, SlotInv, Busy, Misdelivered
<1>3. ASSUME NEW d \in Deliveries, Write(d)
      PROVE  UNCHANGED <<file, answer>>
  BY <1>3 DEF IInv, SlotInv, Busy, Write
<1>4. ASSUME NEW d \in Deliveries, Answer(d)
      PROVE  UNCHANGED <<file, answer>>
  BY <1>4 DEF IInv, SlotInv, Busy, Answer
<1>5. Initialized \/ ObserveFails \/ Scan \/ Wake \/ Finish => UNCHANGED <<file, answer>>
  BY DEF Initialized, ObserveFails, Scan, Wake, Finish, ObserveReturns, workVars
<1>6. Dial \/ Register \/ Hello \/ Idle \/ Rehello \/ ConnectionEnds \/ Disconnect =>
          UNCHANGED <<file, answer>>
  BY DEF Dial, Register, Hello, Idle, Rehello, ConnectionEnds, Disconnect, workVars
<1>7. CloseCancelled \/ CancelSuperseded \/ AcknowledgeSuperseded \/ EndReturns =>
          UNCHANGED <<file, answer>>
  BY DEF CloseCancelled, CancelSuperseded, AcknowledgeSuperseded, EndReturns, workVars
<1>8. EndBegins \/ CallReady \/ Call => UNCHANGED <<file, answer>>
  BY DEF EndBegins, CallReady, Call, workVars
<1>9. DaemonAnswersHello \/ DaemonSupersedes \/ ConnectionLost \/ WatchFails \/
          NativeUnregisters \/ CallBegins => UNCHANGED <<file, answer>>
  BY DEF DaemonAnswersHello, DaemonSupersedes, ConnectionLost, WatchFails,
      NativeUnregisters, CallBegins, workVars
<1>10. ASSUME NEW row \in Rows, NativeRegisters(row)
      PROVE  UNCHANGED <<file, answer>>
  BY <1>10 DEF NativeRegisters, workVars
<1>11. ASSUME NEW d \in Deliveries, DaemonDelivers(d)
      PROVE  UNCHANGED <<file, answer>>
  BY <1>11 DEF DaemonDelivers, workVars
<1>12. ASSUME NEW k \in 1 .. MaxConns,
             HelloAcknowledged(k) \/ HelloRefused(k) \/ HandleSuperseded(k)
      PROVE  UNCHANGED <<file, answer>>
  BY <1>12 DEF HelloAcknowledged, HelloRefused, HandleSuperseded, workVars
<1>13. ASSUME NEW k \in 1 .. MaxConns, NEW d \in Deliveries, HandleDeliver(k, d)
      PROVE  UNCHANGED <<file, answer>>
  BY <1>13 DEF HandleDeliver, workVars
<1>14. ASSUME NEW d \in Deliveries, AcquireGate(d) \/ GiveUp(d)
      PROVE  UNCHANGED <<file, answer>>
  BY <1>14 DEF AcquireGate, GiveUp, WorkerStep, workVars
<1>15. UNCHANGED vars => UNCHANGED <<file, answer>>
  BY DEF vars, workVars
<1> QED
  BY <1>1, <1>2, <1>3, <1>4, <1>5, <1>6, <1>7, <1>8, <1>9, <1>10, <1>11, <1>12, <1>13,
      <1>14, <1>15 DEF Next, Observer, Transport, Ending, External, Reader, Worker

\* Once End returned nothing is appended to the input file and no receipt is given (End,
\* handle, appendInput).
THEOREM EndLeavesNothing == Spec => NothingAfterEnd
<1>1. IInv /\ [Next]_vars => [end = "returned" => UNCHANGED <<file, answer>>]_vars
  BY FileAfterEnd
<1> QED
  BY <1>1, Inductive, PTL DEF Spec, NothingAfterEnd

-----------------------------------------------------------------------------
(* The lines of an input file. Lines is a recursion over the file, so that   *)
(* its values, and that there is such a function, are facts to prove.        *)

Tokens == Deliveries \cup {Newline, Torn}

Alone(f) == [i \in DOMAIN f |->
  /\ 1 < i /\ i < Len(f)
  /\ f[i] \in Deliveries /\ f[i - 1] = Newline /\ f[i + 1] = Newline]

IsScan(f, u) ==
  u = [i \in 0 .. Len(f) |->
         IF i = 0 THEN <<>>
           ELSE IF Alone(f)[i] THEN Append(u[i - 1], f[i]) ELSE u[i - 1]]

LinesOf(f) == (CHOOSE u : IsScan(f, u))[Len(f)]

LEMMA LinesAre == Lines = LinesOf(file)
BY DEF Lines, LinesOf, IsScan, Alone

LEMMA LeastElement ==
  ASSUME NEW T, T \subseteq Nat, T # {}
  PROVE  \E n \in T : \A m \in T : n <= m
<1>1. PICK x \in T : \A y \in T : ~(<<y, x>> \in OpToRel(<, Nat))
  BY NatLessThanWellFounded, WFMin
<1>2. ASSUME NEW y \in T PROVE x <= y
  <2>1. y \in Nat /\ x \in Nat
    OBVIOUS
  <2>2. <<y, x>> \in OpToRel(<, Nat) <=> y < x
    BY <2>1 DEF OpToRel
  <2>3. ~(y < x)
    BY <1>1, <2>2
  <2> QED BY <2>1, <2>3
<1> QED BY <1>2

\* A value carried through 1 .. n by a step.
StaysIn(V, n, step) == \A v \in V, i \in 1 .. n : step[<<v, i>>] \in V
Carries(u, c, n, step) ==
  u[0] = c /\ \A i \in 1 .. n : u[i] = step[<<u[i - 1], i>>]

LEMMA FoldExists ==
  ASSUME NEW V, NEW c \in V, NEW n \in Nat, NEW step,
         StaysIn(V, n, step)
  PROVE  \E u \in [0 .. n -> V] : Carries(u, c, n, step)
<1> USE DEF StaysIn, Carries
<1> DEFINE Good(m) == \E u \in [0 .. m -> V] :
                        u[0] = c /\ \A i \in 1 .. m : u[i] = step[<<u[i - 1], i>>]
           Bad == {m \in 0 .. n : ~Good(m)}
<1>1. Good(0)
  <2>1. [i \in 0 .. 0 |-> c] \in [0 .. 0 -> V] /\ [i \in 0 .. 0 |-> c][0] = c /\ 1 .. 0 = {}
    OBVIOUS
  <2>q. QED
    BY <2>1
<1>2. ASSUME NEW m \in 1 .. n, Good(m - 1) PROVE Good(m)
  <2>1. PICK u \in [0 .. m - 1 -> V] :
          u[0] = c /\ \A i \in 1 .. m - 1 : u[i] = step[<<u[i - 1], i>>]
    BY <1>2
  <2> DEFINE w == [i \in 0 .. m |-> IF i = m THEN step[<<u[m - 1], m>>] ELSE u[i]]
  <2>2. m - 1 \in 0 .. m - 1 /\ m \in Nat /\ u[m - 1] \in V /\ step[<<u[m - 1], m>>] \in V
    <3>1. m - 1 \in 0 .. m - 1 /\ m \in Nat
      OBVIOUS
    <3>2. u[m - 1] \in V
      BY <3>1
    <3>q. QED
      BY <3>1, <3>2
  <2>3. w \in [0 .. m -> V]
    BY <2>2
  <2>4. w[0] = c
    BY <2>1, <2>2
  <2>5. ASSUME NEW i \in 1 .. m PROVE w[i] = step[<<w[i - 1], i>>]
    <3>1. i - 1 \in 0 .. m - 1 /\ i - 1 \in 0 .. m /\ i \in 0 .. m /\ w[i - 1] = u[i - 1]
      BY <2>2
    <3>2. CASE i = m
      BY <3>1, <3>2
    <3>3. CASE i # m
      <4>1. i \in 1 .. m - 1 /\ w[i] = u[i]
        BY <2>2, <3>3
      <4>q. QED
        BY <2>1, <3>1, <4>1
    <3>q. QED
      BY <3>2, <3>3
  <2> HIDE DEF w
  <2>q. QED
    BY <2>3, <2>4, <2>5
<1> HIDE DEF Good
<1>3. SUFFICES ASSUME Bad # {} PROVE FALSE
  <2>1. n \in 0 .. n
    OBVIOUS
  <2>2. Good(n)
    BY <1>3, <2>1
  <2>q. QED
    BY <2>2 DEF Good
<1>4. Bad \subseteq Nat
  OBVIOUS
<1>5. PICK m \in Bad : \A k \in Bad : m <= k
  <2> HIDE DEF Bad
  <2>q. QED
    BY <1>3, <1>4, LeastElement
<1>6. m \in 1 .. n
  BY <1>1
<1>7. m - 1 \in 0 .. n /\ m - 1 \notin Bad
  BY <1>5, <1>6
<1>8. Good(m - 1)
  BY <1>7
<1>q. QED
  BY <1>2, <1>6, <1>8

\* The file has a scan.
LEMMA ScanExists ==
  ASSUME NEW f \in Seq(Tokens)
  PROVE  \E u \in [0 .. Len(f) -> Seq(Deliveries)] : IsScan(f, u)
<1> DEFINE n == Len(f)
           V == Seq(Deliveries)
           step == [p \in V \X (1 .. n) |->
                      IF Alone(f)[p[2]] THEN Append(p[1], f[p[2]]) ELSE p[1]]
<1>1. n \in Nat /\ DOMAIN f = 1 .. n /\ <<>> \in V
  BY LenProperties, EmptySeq
<1>2. ASSUME NEW v \in V, NEW i \in 1 .. n
      PROVE  (IF Alone(f)[i] THEN Append(v, f[i]) ELSE v) \in V
  BY <1>1, AppendProperties DEF Alone
<1>4. \A v \in V, i \in 1 .. n : step[<<v, i>>] = IF Alone(f)[i] THEN Append(v, f[i]) ELSE v
  OBVIOUS
<1>3. \A v \in V, i \in 1 .. n : step[<<v, i>>] \in V
  BY <1>2, <1>4
<1> HIDE DEF step, V, n
<1>5. PICK u \in [0 .. n -> V] : u[0] = <<>> /\ \A i \in 1 .. n : u[i] = step[<<u[i - 1], i>>]
  <2>1. <<>> \in V /\ n \in Nat
    BY <1>1
  <2>2. StaysIn(V, n, step)
    BY <1>3 DEF StaysIn
  <2>3. \E u \in [0 .. n -> V] : Carries(u, <<>>, n, step)
    BY <2>1, <2>2, FoldExists
  <2>q. QED
    BY <2>3 DEF Carries
<1>6. \A i \in 0 .. n :
        u[i] = IF i = 0 THEN <<>>
                 ELSE IF Alone(f)[i] THEN Append(u[i - 1], f[i]) ELSE u[i - 1]
  <2> SUFFICES ASSUME NEW i \in 0 .. n, i # 0
               PROVE  u[i] = IF Alone(f)[i] THEN Append(u[i - 1], f[i]) ELSE u[i - 1]
    BY <1>5
  <2>1. i \in 1 .. n /\ i - 1 \in 0 .. n
    BY <1>1
  <2>2. u[i - 1] \in V
    BY <2>1
  <2>q. QED
    BY <1>4, <1>5, <2>1, <2>2
<1>q. QED
  BY <1>5, <1>6 DEF IsScan, n, V

Agree(f, h, n) == \A i \in 1 .. n : Alone(f)[i] = Alone(h)[i] /\ f[i] = h[i]

\* Scans agree up to where their files do.
LEMMA ScansAgree ==
  ASSUME NEW f, NEW h, NEW u, NEW w, IsScan(f, u), IsScan(h, w),
         Len(f) \in Nat, Len(h) \in Nat, NEW n \in Nat, n <= Len(f), n <= Len(h),
         Agree(f, h, n)
  PROVE  u[n] = w[n]
<1> USE DEF Agree
<1> DEFINE Bad == {i \in 0 .. n : u[i] # w[i]}
<1>1. /\ \A i \in 0 .. n : i \in 0 .. Len(f) /\ i \in 0 .. Len(h)
      /\ n \in 0 .. n
  OBVIOUS
<1>2. \A i \in 0 .. n :
        /\ u[i] = IF i = 0 THEN <<>>
                    ELSE IF Alone(f)[i] THEN Append(u[i - 1], f[i]) ELSE u[i - 1]
        /\ w[i] = IF i = 0 THEN <<>>
                    ELSE IF Alone(h)[i] THEN Append(w[i - 1], h[i]) ELSE w[i - 1]
  BY <1>1 DEF IsScan
<1>3. SUFFICES ASSUME Bad # {} PROVE FALSE
  BY <1>1
<1>4. Bad \subseteq Nat
  OBVIOUS
<1>5. PICK m \in Bad : \A k \in Bad : m <= k
  <2> HIDE DEF Bad
  <2>q. QED
    BY <1>3, <1>4, LeastElement
<1>6. m \in 1 .. n
  BY <1>2
<1>7. m - 1 \in 0 .. n /\ m - 1 \notin Bad
  BY <1>5, <1>6
<1>8. u[m - 1] = w[m - 1]
  BY <1>7
<1>q. QED
  BY <1>2, <1>6, <1>8

\* What LinesOf computes.
LEMMA LinesScan ==
  ASSUME NEW f \in Seq(Tokens)
  PROVE  \E u \in [0 .. Len(f) -> Seq(Deliveries)] : IsScan(f, u) /\ LinesOf(f) = u[Len(f)]
<1>1. PICK u \in [0 .. Len(f) -> Seq(Deliveries)] : IsScan(f, u)
  BY ScanExists
<1> DEFINE w == CHOOSE x : IsScan(f, x)
<1>2. IsScan(f, w)
  BY <1>1
<1>3. Len(f) \in Nat
  BY LenProperties
<1> HIDE DEF w
<1>4. u[Len(f)] = w[Len(f)]
  <2>1. Agree(f, f, Len(f)) /\ Len(f) <= Len(f)
    BY <1>3 DEF Agree
  <2>q. QED
    BY <1>1, <1>2, <1>3, <2>1, ScansAgree
<1>q. QED
  BY <1>1, <1>4 DEF LinesOf, w

LEMMA LinesType ==
  ASSUME NEW f \in Seq(Tokens)
  PROVE  LinesOf(f) \in Seq(Deliveries)
<1>1. Len(f) \in 0 .. Len(f)
  BY LenProperties
<1>q. QED
  BY <1>1, LinesScan

\* The file ends in a message without a line end of its own.
Unended(f) == Len(f) > 1 /\ f[Len(f)] \in Deliveries /\ f[Len(f) - 1] = Newline

\* One more token: only a line end adds a line.
LEMMA LinesAppend ==
  ASSUME NEW f \in Seq(Tokens), NEW x \in Tokens
  PROVE  LinesOf(Append(f, x)) =
           IF x = Newline /\ Unended(f) THEN Append(LinesOf(f), f[Len(f)])
                                        ELSE LinesOf(f)
<1> DEFINE n == Len(f)
           h == Append(f, x)
<1>1. /\ n \in Nat /\ DOMAIN f = 1 .. n /\ DOMAIN h = 1 .. n + 1 /\ Len(h) = n + 1
      /\ h[n + 1] = x /\ h \in Seq(Tokens)
      /\ \A i \in 1 .. n : h[i] = f[i]
  <2>1. /\ h \in Seq(Tokens) /\ Len(h) = n + 1 /\ h[n + 1] = x
        /\ \A i \in 1 .. n : h[i] = f[i]
    BY AppendProperties
  <2> HIDE DEF h
  <2>q. QED
    BY <2>1, LenProperties
<1>2. PICK u : IsScan(f, u) /\ LinesOf(f) = u[n]
  BY LinesScan
<1>3. PICK w : IsScan(h, w) /\ LinesOf(h) = w[Len(h)]
  <2> HIDE DEF h
  <2>q. QED
    BY <1>1, LinesScan
<1> HIDE DEF h, n
<1>4. w[n + 1] = w[n]
  <2>1. Alone(h)[n + 1] = FALSE
    BY <1>1 DEF Alone
  <2>2. n + 1 \in 0 .. Len(h) /\ n + 1 # 0 /\ (n + 1) - 1 = n
    BY <1>1
  <2>q. QED
    BY <1>3, <2>1, <2>2 DEF IsScan
<1>5. CASE n = 0
  <2>1. u[0] = <<>> /\ w[0] = <<>>
    BY <1>1, <1>2, <1>3, <1>5 DEF IsScan, n
  <2>2. ~Unended(f)
    BY <1>5 DEF Unended, n
  <2>q. QED
    BY <1>1, <1>2, <1>3, <1>4, <1>5, <2>1, <2>2 DEF h
<1>6. CASE n # 0
  <2>0. n - 1 \in Nat /\ n \in 1 .. n /\ n \in 0 .. n /\ n \in 0 .. Len(h) /\ n \in 1 .. n + 1
    BY <1>1, <1>6
  <2>1. \A i \in 1 .. n - 1 : Alone(f)[i] = Alone(h)[i] /\ f[i] = h[i]
    <3> SUFFICES ASSUME NEW i \in 1 .. n - 1
                 PROVE  Alone(f)[i] = Alone(h)[i] /\ f[i] = h[i]
      OBVIOUS
    <3>1. /\ i \in 1 .. n /\ i \in 1 .. n + 1 /\ i + 1 \in 1 .. n /\ i < n /\ i < n + 1
          /\ 1 < i => i - 1 \in 1 .. n
      BY <1>1
    <3>a. Alone(f)[i] = (1 < i /\ i < n /\ f[i] \in Deliveries /\ f[i - 1] = Newline /\ f[i + 1] = Newline)
      BY <1>1, <3>1 DEF Alone, n
    <3>b. Alone(h)[i] = (1 < i /\ i < n + 1 /\ h[i] \in Deliveries /\ h[i - 1] = Newline /\ h[i + 1] = Newline)
      BY <1>1, <3>1 DEF Alone
    <3>2. h[i] = f[i] /\ h[i + 1] = f[i + 1] /\ (1 < i => h[i - 1] = f[i - 1])
      BY <1>1, <3>1
    <3>q. QED
      BY <3>1, <3>2, <3>a, <3>b
  <2>2. u[n - 1] = w[n - 1]
    <3>1. /\ IsScan(f, u) /\ IsScan(h, w) /\ n - 1 \in Nat
          /\ Len(f) \in Nat /\ Len(h) \in Nat /\ n - 1 <= Len(f) /\ n - 1 <= Len(h)
      BY <1>1, <1>2, <1>3, <2>0 DEF n
    <3>2. Agree(f, h, n - 1)
      BY <2>1 DEF Agree
    <3>q. QED
      BY <3>1, <3>2, ScansAgree
  <2>3. u[n] = u[n - 1]
    <3>1. Alone(f)[n] = FALSE
      BY <1>1, <2>0 DEF Alone, n
    <3>q. QED
      BY <1>2, <1>6, <2>0, <3>1 DEF IsScan, n
  <2>4. Alone(h)[n] = (x = Newline /\ Unended(f))
    <3>1. h[n] = f[n] /\ h[n + 1] = x /\ (1 < n => h[n - 1] = f[n - 1])
      BY <1>1, <2>0
    <3>a. Alone(h)[n] = (1 < n /\ n < n + 1 /\ h[n] \in Deliveries /\ h[n - 1] = Newline /\ h[n + 1] = Newline)
      BY <1>1, <2>0 DEF Alone
    <3>b. n < n + 1 /\ (1 < n <=> n > 1)
      BY <1>1
    <3>q. QED
      BY <3>1, <3>a, <3>b DEF Unended, n
  <2>5. w[n] = IF Alone(h)[n] THEN Append(w[n - 1], h[n]) ELSE w[n - 1]
    BY <1>3, <1>6, <2>0 DEF IsScan
  <2>6. h[n] = f[n]
    BY <1>1, <2>0
  <2>q. QED
    BY <1>1, <1>2, <1>3, <1>4, <2>2, <2>3, <2>4, <2>5, <2>6 DEF h, n
<1>q. QED
  BY <1>5, <1>6

-----------------------------------------------------------------------------
(* What the worker's writes do to the lines                                  *)

LEMMA AppendRange ==
  ASSUME NEW S, NEW s \in Seq(S), NEW x \in S
  PROVE  /\ Range(Append(s, x)) = Range(s) \cup {x}
         /\ IsInjective(s) /\ x \notin Range(s) => IsInjective(Append(s, x))
<1> DEFINE u == Append(s, x)
           n == Len(s)
<1>1. /\ n \in Nat /\ DOMAIN s = 1 .. n /\ DOMAIN u = 1 .. n + 1 /\ u[n + 1] = x
      /\ \A i \in 1 .. n : u[i] = s[i]
  <2>1. /\ u \in Seq(S) /\ Len(u) = n + 1 /\ u[n + 1] = x
        /\ \A i \in 1 .. n : u[i] = s[i]
    BY AppendProperties
  <2> HIDE DEF u
  <2>q. QED
    BY <2>1, LenProperties
<1> HIDE DEF u, n
<1>2. Range(u) = Range(s) \cup {x}
  <2>1. \A i : i \in 1 .. n + 1 <=> i \in 1 .. n \/ i = n + 1
    BY <1>1
  <2>q. QED
    BY <1>1, <2>1 DEF Range
<1>3. ASSUME IsInjective(s), x \notin Range(s) PROVE IsInjective(u)
  BY <1>1, <1>3 DEF IsInjective, Range
<1>q. QED
  BY <1>2, <1>3 DEF u

\* Every line is a message of the file, once, and the last message is not yet
\* a line.
Tidy(f) ==
  /\ IsInjective(LinesOf(f)) /\ Range(LinesOf(f)) \subseteq Range(f)
  /\ f # <<>> /\ f[Len(f)] \in Deliveries => f[Len(f)] \notin Range(LinesOf(f))

LEMMA TidyAppend ==
  ASSUME NEW f \in Seq(Tokens), NEW x \in Tokens, Tidy(f),
         x \in Deliveries => x \notin Range(f)
  PROVE  Tidy(Append(f, x))
<1> DEFINE h == Append(f, x)
           n == Len(f)
<1>1. /\ h \in Seq(Tokens) /\ Len(h) = n + 1 /\ h[Len(h)] = x
      /\ Range(h) = Range(f) \cup {x} /\ LinesOf(f) \in Seq(Deliveries)
  BY AppendProperties, AppendRange, LinesType
<1>2. LinesOf(h) = IF x = Newline /\ Unended(f) THEN Append(LinesOf(f), f[n])
                                                ELSE LinesOf(f)
  BY LinesAppend
<1>3. Newline \notin Deliveries
  BY InteractiveOwnerAssumption
<1> HIDE DEF h
<1>4. CASE x = Newline /\ Unended(f)
  <2>1. f[n] \in Deliveries /\ f # <<>> /\ n \in DOMAIN f
    <3>1. n > 1 /\ f[n] \in Deliveries /\ n \in Nat /\ DOMAIN f = 1 .. n
      BY <1>4, LenProperties DEF Unended
    <3>q. QED
      BY <3>1
  <2>2. f[n] \notin Range(LinesOf(f)) /\ f[n] \in Range(f)
    BY <2>1 DEF Tidy, Range
  <2>3. /\ IsInjective(Append(LinesOf(f), f[n]))
        /\ Range(Append(LinesOf(f), f[n])) = Range(LinesOf(f)) \cup {f[n]}
    <3>1. IsInjective(LinesOf(f))
      BY DEF Tidy
    <3> HIDE DEF n
    <3>q. QED
      BY <1>1, <2>1, <2>2, <3>1, AppendRange
  <2>4. Range(LinesOf(f)) \subseteq Range(f)
    BY DEF Tidy
  <2>q. QED
    <3>1. LinesOf(h) = Append(LinesOf(f), f[n])
      BY <1>2, <1>4
    <3>2. IsInjective(LinesOf(h)) /\ Range(LinesOf(h)) = Range(LinesOf(f)) \cup {f[n]}
      BY <2>3, <3>1
    <3>3. Range(LinesOf(h)) \subseteq Range(h)
      BY <1>1, <2>2, <2>4, <3>2
    <3>4. h # <<>> /\ h[Len(h)] \in Deliveries => h[Len(h)] \notin Range(LinesOf(h))
      <4>1. h[Len(h)] = Newline
        BY <1>1, <1>4
      <4>q. QED
        BY <1>3, <4>1
    <3>q. QED
      BY <3>2, <3>3, <3>4 DEF Tidy, h
<1>5. CASE ~(x = Newline /\ Unended(f))
  <2>1. LinesOf(h) = LinesOf(f)
    BY <1>2, <1>5
  <2>2. IsInjective(LinesOf(h)) /\ Range(LinesOf(h)) \subseteq Range(f)
    BY <2>1 DEF Tidy
  <2>3. Range(LinesOf(h)) \subseteq Range(h)
    BY <1>1, <2>2
  <2>4. h # <<>> /\ h[Len(h)] \in Deliveries => h[Len(h)] \notin Range(LinesOf(h))
    BY <1>1, <2>2
  <2>q. QED
    BY <2>2, <2>3, <2>4 DEF Tidy, h
<1>q. QED
  BY <1>4, <1>5 DEF h

\* The file after a line end.
Ended(f) == Append(f, Newline)

LEMMA EndedLines ==
  ASSUME NEW f \in Seq(Tokens), Tidy(f)
  PROVE  /\ Ended(f) \in Seq(Tokens) /\ Tidy(Ended(f))
         /\ Range(Ended(f)) = Range(f) \cup {Newline}
         /\ \/ LinesOf(Ended(f)) = LinesOf(f)
            \/ \E e \in Range(f) \cap Deliveries : LinesOf(Ended(f)) = Append(LinesOf(f), e)
<1>1. Newline \in Tokens /\ Newline \notin Deliveries
  BY InteractiveOwnerAssumption DEF Tokens
<1>2. Ended(f) \in Seq(Tokens) /\ Tidy(Ended(f)) /\ Range(Ended(f)) = Range(f) \cup {Newline}
  BY <1>1, AppendProperties, TidyAppend, AppendRange DEF Ended
<1>3. LinesOf(Ended(f)) = IF Unended(f) THEN Append(LinesOf(f), f[Len(f)]) ELSE LinesOf(f)
  BY <1>1, LinesAppend DEF Ended
<1>4. Unended(f) => f[Len(f)] \in Range(f) \cap Deliveries
  BY LenProperties DEF Unended, Range
<1>q. QED
  BY <1>2, <1>3, <1>4

\* One write, whole or short, appends token by token.
LEMMA WriteIsAppend ==
  ASSUME NEW f \in Seq(Tokens), NEW d \in Deliveries
  PROVE  /\ f \o <<>> = f
         /\ f \o <<Newline>> = Ended(f)
         /\ f \o <<Newline, Torn>> = Append(Ended(f), Torn)
         /\ f \o <<Newline, d>> = Append(Ended(f), d)
         /\ f \o Record(d) = Ended(Append(Ended(f), d))
<1>1. Newline \in Tokens /\ Torn \in Tokens /\ d \in Tokens
  BY DEF Tokens
<1>2. ASSUME NEW s \in Seq(Tokens), NEW t \in Seq(Tokens), NEW x \in Tokens
      PROVE  s \o Append(t, x) = Append(s \o t, x)
  <2>1. s \o t \in Seq(Tokens)
    BY ConcatProperties
  <2>2. s \o Append(t, x) = s \o (t \o <<x>>)
    BY AppendIsConcat
  <2>3. Append(s \o t, x) = (s \o t) \o <<x>>
    BY <2>1, AppendIsConcat
  <2>4. <<x>> \in Seq(Tokens)
    OBVIOUS
  <2>q. QED
    BY <2>2, <2>3, <2>4, ConcatAssociative
<1>3. /\ <<>> \in Seq(Tokens) /\ <<Newline>> \in Seq(Tokens) /\ <<Newline, d>> \in Seq(Tokens)
      /\ <<Newline>> = Append(<<>>, Newline)
      /\ <<Newline, Torn>> = Append(<<Newline>>, Torn)
      /\ <<Newline, d>> = Append(<<Newline>>, d)
      /\ <<Newline, d, Newline>> = Append(<<Newline, d>>, Newline)
  BY <1>1
<1>4. f \o <<>> = f
  BY ConcatEmptySeq
<1>5. f \o <<Newline>> = Ended(f)
  BY <1>1, <1>2, <1>3, <1>4 DEF Ended
<1>6. /\ f \o <<Newline, Torn>> = Append(Ended(f), Torn)
      /\ f \o <<Newline, d>> = Append(Ended(f), d)
  BY <1>1, <1>2, <1>3, <1>5
<1>7. f \o <<Newline, d, Newline>> = Ended(Append(Ended(f), d))
  BY <1>1, <1>2, <1>3, <1>6 DEF Ended
<1>q. QED
  BY <1>4, <1>5, <1>6, <1>7 DEF Record

\* Lines stay, at most two come: a message that had no line end yet, and d.
Grows(f, h, d) ==
  LET s == LinesOf(f)
      u == LinesOf(h)
  IN \/ u = s
     \/ \E e \in (Range(f) \cup {d}) \cap Deliveries : u = Append(s, e)
     \/ \E e \in Range(f) \cap Deliveries : u = Append(Append(s, e), d)

LEMMA WriteLines ==
  ASSUME NEW f \in Seq(Tokens), Tidy(f), NEW d \in Deliveries, d \notin Range(f),
         NEW part \in Remnants(d) \cup {Record(d)}
  PROVE  /\ f \o part \in Seq(Tokens) /\ Tidy(f \o part) /\ Grows(f, f \o part, d)
         /\ Range(f) \subseteq Range(f \o part)
         /\ Range(f \o part) \subseteq Range(f) \cup {Newline, Torn, d}
         /\ part = Record(d) => d \in Range(LinesOf(f \o part))
<1> DEFINE g == Ended(f)
<1>1. /\ g \in Seq(Tokens) /\ Tidy(g) /\ Range(g) = Range(f) \cup {Newline}
      /\ \/ LinesOf(g) = LinesOf(f)
         \/ \E e \in Range(f) \cap Deliveries : LinesOf(g) = Append(LinesOf(f), e)
  BY EndedLines
<1>2. /\ Newline \in Tokens /\ Torn \in Tokens /\ d \in Tokens
      /\ Torn \notin Deliveries /\ Torn # Newline /\ Newline \notin Deliveries
      /\ d # Newline
  BY InteractiveOwnerAssumption DEF Tokens
<1> HIDE DEF g
<1>3. ASSUME NEW x \in {Torn, d}
      PROVE  /\ Append(g, x) \in Seq(Tokens) /\ Tidy(Append(g, x))
             /\ Range(Append(g, x)) = Range(f) \cup {Newline, x}
             /\ LinesOf(Append(g, x)) = LinesOf(g)
  <2>1. x \in Tokens /\ x # Newline /\ (x \in Deliveries => x \notin Range(g))
    BY <1>1, <1>2
  <2>2. Append(g, x) \in Seq(Tokens) /\ Range(Append(g, x)) = Range(g) \cup {x}
    BY <1>1, <2>1, AppendProperties, AppendRange
  <2>3. Tidy(Append(g, x)) /\ LinesOf(Append(g, x)) = LinesOf(g)
    BY <1>1, <2>1, TidyAppend, LinesAppend
  <2>q. QED
    BY <1>1, <2>2, <2>3
<1>4. CASE part = <<>>
  BY <1>4, WriteIsAppend DEF Grows, Record
<1>5. CASE part = <<Newline>>
  BY <1>1, <1>5, WriteIsAppend DEF Grows, Record, g
<1>6. CASE part = <<Newline, Torn>>
  <2>1. f \o part = Append(g, Torn)
    BY <1>6, WriteIsAppend DEF g
  <2>2. part # Record(d)
    BY <1>6 DEF Record
  <2>3. Grows(f, Append(g, Torn), d)
    BY <1>1, <1>3 DEF Grows
  <2>q. QED
    BY <1>3, <2>1, <2>2, <2>3
<1>7. CASE part = <<Newline, d>>
  <2>1. f \o part = Append(g, d)
    BY <1>7, WriteIsAppend DEF g
  <2>2. part # Record(d)
    BY <1>7 DEF Record
  <2>3. Grows(f, Append(g, d), d)
    BY <1>1, <1>3 DEF Grows
  <2>q. QED
    BY <1>3, <2>1, <2>2, <2>3
<1>8. CASE part = Record(d)
  <2> DEFINE k == Append(g, d)
  <2>1. /\ k \in Seq(Tokens) /\ Tidy(k) /\ Range(k) = Range(f) \cup {Newline, d}
        /\ LinesOf(k) = LinesOf(g)
    BY <1>3
  <2>2. Unended(k) /\ k[Len(k)] = d
    <3>1. /\ Len(g) \in Nat /\ g = Append(f, Newline) /\ Len(g) = Len(f) + 1 /\ Len(f) \in Nat
          /\ g[Len(g)] = Newline
      BY <1>2, AppendProperties, LenProperties DEF g, Ended
    <3>2. Len(k) = Len(g) + 1 /\ k[Len(g) + 1] = d /\ \A i \in 1 .. Len(g) : k[i] = g[i]
      BY <1>1, <1>2, AppendProperties
    <3> HIDE DEF k
    <3>3. Len(k) - 1 = Len(g) /\ Len(g) \in 1 .. Len(g) /\ Len(k) > 1
      BY <3>1, <3>2
    <3>q. QED
      BY <3>1, <3>2, <3>3 DEF Unended
  <2> HIDE DEF k
  <2>3. LinesOf(Ended(k)) = Append(LinesOf(g), d)
    BY <1>2, <2>1, <2>2, LinesAppend DEF Ended
  <2>4. Ended(k) \in Seq(Tokens) /\ Tidy(Ended(k)) /\ Range(Ended(k)) = Range(k) \cup {Newline}
    BY <2>1, EndedLines
  <2>5. f \o part = Ended(k)
    BY <1>8, WriteIsAppend DEF g, k
  <2>6. d \in Range(Append(LinesOf(g), d))
    BY <1>1, LinesType, AppendRange
  <2>7. Grows(f, Ended(k), d)
    BY <1>1, <2>3 DEF Grows
  <2>q. QED
    BY <2>1, <2>3, <2>4, <2>5, <2>6, <2>7
<1>q. QED
  BY <1>4, <1>5, <1>6, <1>7, <1>8 DEF Remnants

-----------------------------------------------------------------------------
(* A message reaches one worker, once                                        *)

\* A message in flight is on the connection it was sent on, once, and its
\* worker has yet to start.
WireInv ==
  \A d \in Deliveries :
    /\ via[d] = 0 => work[d] = "none"
    /\ \A k \in 1 .. MaxConns : \A i \in DOMAIN frames[k] :
         frames[k][i] = d => via[d] = k /\ work[d] = "none"
    /\ \A k \in 1 .. MaxConns : \A i, j \in DOMAIN frames[k] :
         frames[k][i] = d /\ frames[k][j] = d => i = j

LEMMA DispatchedFrames ==
  ASSUME FrameTypeOK, NEW k \in 1 .. MaxConns, NEW frame, Dispatch(k, frame)
  PROVE  /\ 1 \in DOMAIN frames[k] /\ frames[k][1] = frame
         /\ \A i \in DOMAIN frames'[k] :
              /\ i + 1 \in DOMAIN frames[k] /\ i + 1 # 1 /\ frames'[k][i] = frames[k][i + 1]
              /\ \A j \in DOMAIN frames'[k] : i + 1 = j + 1 => i = j
         /\ \A l \in 1 .. MaxConns \ {k} : frames'[l] = frames[l]
<1>1. frames[k] \in Seq(Frames) /\ frames[k] # <<>> /\ Head(frames[k]) = frame
  BY DEF FrameTypeOK, Dispatch
<1>2. frames'[k] = Tail(frames[k]) /\ \A l \in 1 .. MaxConns \ {k} : frames'[l] = frames[l]
  BY DEF FrameTypeOK, Dispatch
<1> DEFINE s == frames[k]
<1>3. /\ Len(s) \in Nat \ {0} /\ DOMAIN s = 1 .. Len(s) /\ DOMAIN Tail(s) = 1 .. Len(s) - 1
      /\ Head(s) = s[1] /\ \A i \in 1 .. Len(s) - 1 : Tail(s)[i] = s[i + 1]
  <2>1. s \in Seq(Frames) /\ s # <<>>
    BY <1>1
  <2> HIDE DEF s
  <2>2. Tail(s) \in Seq(Frames) /\ Len(Tail(s)) = Len(s) - 1
    BY <2>1, HeadTailProperties
  <2>q. QED
    BY <2>1, <2>2, HeadTailProperties, LenProperties, EmptySeq
<1>4. ASSUME NEW i \in 1 .. Len(s) - 1
      PROVE  i + 1 \in 1 .. Len(s) /\ i + 1 # 1 /\ \A j \in 1 .. Len(s) - 1 : i + 1 = j + 1 => i = j
  BY <1>3
<1>q. QED
  BY <1>1, <1>2, <1>3, <1>4

LEMMA WireDispatched ==
  ASSUME FrameTypeOK, WireInv, NEW k \in 1 .. MaxConns, NEW frame, Dispatch(k, frame),
         UNCHANGED <<via, work>>
  PROVE  WireInv'
<1>1. /\ \A i \in DOMAIN frames'[k] :
           /\ i + 1 \in DOMAIN frames[k] /\ frames'[k][i] = frames[k][i + 1]
           /\ \A j \in DOMAIN frames'[k] : i + 1 = j + 1 => i = j
      /\ \A l \in 1 .. MaxConns \ {k} : frames'[l] = frames[l]
  BY DispatchedFrames
<1>2. ASSUME NEW d \in Deliveries, NEW l \in 1 .. MaxConns, NEW i \in DOMAIN frames'[l],
             frames'[l][i] = d
      PROVE  /\ via[d] = l /\ work[d] = "none"
             /\ \A j \in DOMAIN frames'[l] : frames'[l][j] = d => i = j
  BY <1>1, <1>2 DEF WireInv
<1>3. \A d \in Deliveries : via[d] = 0 => work[d] = "none"
  BY DEF WireInv
<1>q. QED
  BY <1>2, <1>3 DEF WireInv

LEMMA WireSent ==
  ASSUME FrameTypeOK, WireInv, NEW k \in 1 .. MaxConns, NEW frame \in Frames \ Deliveries,
         frames' = [frames EXCEPT ![k] = Append(@, frame)], UNCHANGED <<via, work>>
  PROVE  WireInv'
<1>1. /\ DOMAIN frames'[k] = DOMAIN frames[k] \cup {Len(frames[k]) + 1}
      /\ frames'[k][Len(frames[k]) + 1] = frame
      /\ \A i \in DOMAIN frames[k] : frames'[k][i] = frames[k][i]
      /\ \A l \in 1 .. MaxConns \ {k} : frames'[l] = frames[l]
  <2>1. frames[k] \in Seq(Frames) /\ frames'[k] = Append(frames[k], frame)
    BY DEF FrameTypeOK
  <2>2. \A l \in 1 .. MaxConns \ {k} : frames'[l] = frames[l]
    BY DEF FrameTypeOK
  <2> DEFINE s == frames[k]
  <2>3. /\ DOMAIN Append(s, frame) = DOMAIN s \cup {Len(s) + 1}
        /\ Append(s, frame)[Len(s) + 1] = frame
        /\ \A i \in DOMAIN s : Append(s, frame)[i] = s[i]
    <3>1. s \in Seq(Frames)
      BY <2>1
    <3> HIDE DEF s
    <3>2. /\ Append(s, frame) \in Seq(Frames) /\ Len(Append(s, frame)) = Len(s) + 1
          /\ Append(s, frame)[Len(s) + 1] = frame
          /\ \A i \in 1 .. Len(s) : Append(s, frame)[i] = s[i]
      BY <3>1, AppendProperties
    <3>3. Len(s) \in Nat /\ DOMAIN s = 1 .. Len(s) /\ DOMAIN Append(s, frame) = 1 .. Len(s) + 1
      BY <3>1, <3>2, LenProperties
    <3>4. 1 .. Len(s) + 1 = (1 .. Len(s)) \cup {Len(s) + 1}
      BY <3>3
    <3>q. QED
      BY <3>2, <3>3, <3>4
  <2>q. QED
    BY <2>1, <2>2, <2>3
<1>2. ASSUME NEW d \in Deliveries, NEW l \in 1 .. MaxConns, NEW i \in DOMAIN frames'[l],
             frames'[l][i] = d
      PROVE  i \in DOMAIN frames[l] /\ frames[l][i] = d
  BY <1>1, <1>2
<1>q. QED
  BY <1>2 DEF WireInv

LEMMA WireDelivered ==
  ASSUME Types, WireInv, NEW d \in Deliveries, DaemonDelivers(d)
  PROVE  WireInv'
<1>1. /\ via[d] = 0 /\ via' = [via EXCEPT ![d] = conns] /\ work' = work
      /\ frames' = [frames EXCEPT ![conns] = Append(@, d)] /\ open
  BY DEF DaemonDelivers, workVars
<1>2. conns \in 1 .. MaxConns /\ conns # 0
  BY <1>1 DEF Types, ConnTypeOK, LinkTypeOK
<1>3. frames[conns] \in Seq(Frames) /\ d \in Frames
  BY <1>2 DEF Types, FrameTypeOK, Frames
<1> DEFINE s == frames[conns]
           u == Append(s, d)
           n == Len(s) + 1
<1>4. /\ frames'[conns] = u
      /\ \A l \in 1 .. MaxConns \ {conns} : frames'[l] = frames[l]
  BY <1>1, <1>2 DEF Types, FrameTypeOK
<1>5. DOMAIN u = DOMAIN s \cup {n} /\ u[n] = d /\ \A i \in DOMAIN s : u[i] = s[i]
  <2>1. s \in Seq(Frames)
    BY <1>3
  <2> HIDE DEF s
  <2>2. u \in Seq(Frames) /\ Len(u) = Len(s) + 1 /\ u[Len(s) + 1] = d
        /\ \A i \in 1 .. Len(s) : u[i] = s[i]
    BY <1>3, <2>1, AppendProperties
  <2> HIDE DEF u
  <2>3. Len(s) \in Nat /\ DOMAIN s = 1 .. Len(s) /\ DOMAIN u = 1 .. Len(s) + 1
    BY <2>1, <2>2, LenProperties
  <2>4. 1 .. Len(s) + 1 = (1 .. Len(s)) \cup {Len(s) + 1}
    BY <2>3
  <2>q. QED
    BY <2>2, <2>3, <2>4
<1>6. \A k \in 1 .. MaxConns : k # 0 /\ \A i \in DOMAIN frames[k] : frames[k][i] # d
  BY <1>1 DEF WireInv
<1>7. via \in [Deliveries -> 0 .. conns] /\ work[d] = "none"
  BY <1>1 DEF WireInv, Types, RegisteredTypeOK
<1> HIDE DEF u, n, s
<1>8. \A i \in DOMAIN s : s[i] # d
  BY <1>2, <1>6 DEF s
<1>9. ASSUME NEW e \in Deliveries, NEW k \in 1 .. MaxConns, NEW i \in DOMAIN frames'[k],
             frames'[k][i] = e
      PROVE  /\ via'[e] = k /\ work'[e] = "none"
             /\ \A j \in DOMAIN frames'[k] : frames'[k][j] = e => i = j
  <2>1. CASE e = d
    BY <1>1, <1>2, <1>4, <1>5, <1>6, <1>7, <1>8, <1>9, <2>1
  <2>2. CASE e # d
    <3>1. i \in DOMAIN frames[k] /\ frames[k][i] = e
      BY <1>4, <1>5, <1>9, <2>2 DEF s
    <3>2. \A j \in DOMAIN frames'[k] : frames'[k][j] = e => j \in DOMAIN frames[k] /\ frames[k][j] = e
      BY <1>4, <1>5, <2>2 DEF s
    <3>3. via'[e] = via[e] /\ work'[e] = work[e]
      BY <1>1, <1>7, <2>2
    <3>4. /\ via[e] = k /\ work[e] = "none"
          /\ \A j \in DOMAIN frames[k] : frames[k][j] = e => i = j
      BY <3>1 DEF WireInv
    <3>q. QED
      BY <3>2, <3>3, <3>4
  <2>q. QED
    BY <2>1, <2>2
<1>10. \A e \in Deliveries : via'[e] = 0 => work'[e] = "none"
  BY <1>1, <1>2, <1>7 DEF WireInv
<1>q. QED
  BY <1>9, <1>10 DEF WireInv

LEMMA WireHandled ==
  ASSUME Types, WireInv, NEW k \in 1 .. MaxConns, NEW d \in Deliveries, HandleDeliver(k, d)
  PROVE  WireInv' /\ work[d] = "none"
<1>1. /\ Dispatch(k, d) /\ via' = via
      /\ work' = work \/ \E stage \in {"queued", "rejecting"} : work' = [work EXCEPT ![d] = stage]
  BY DEF HandleDeliver
<1>2. /\ 1 \in DOMAIN frames[k] /\ frames[k][1] = d
      /\ \A i \in DOMAIN frames'[k] :
           /\ i + 1 \in DOMAIN frames[k] /\ i + 1 # 1 /\ frames'[k][i] = frames[k][i + 1]
           /\ \A j \in DOMAIN frames'[k] : i + 1 = j + 1 => i = j
      /\ \A l \in 1 .. MaxConns \ {k} : frames'[l] = frames[l]
  BY <1>1, DispatchedFrames DEF Types
<1>3. via[d] = k /\ work[d] = "none" /\ k # 0
  BY <1>2 DEF WireInv
<1>4. ASSUME NEW l \in 1 .. MaxConns, NEW i \in DOMAIN frames'[l] PROVE frames'[l][i] # d
  BY <1>2, <1>3 DEF WireInv
<1>5. ASSUME NEW e \in Deliveries, NEW l \in 1 .. MaxConns, NEW i \in DOMAIN frames'[l],
             frames'[l][i] = e
      PROVE  /\ via[e] = l /\ work[e] = "none"
             /\ \A j \in DOMAIN frames'[l] : frames'[l][j] = e => i = j
  BY <1>2, <1>5 DEF WireInv
<1>6. \A e \in Deliveries \ {d} : work'[e] = work[e]
  BY <1>1 DEF Types, WorkTypeOK
<1>7. \A e \in Deliveries : via[e] = 0 => work[e] = "none"
  BY DEF WireInv
<1>8. \A e \in Deliveries : via'[e] = 0 => work'[e] = "none"
  BY <1>1, <1>3, <1>6, <1>7
<1>9. ASSUME NEW e \in Deliveries, NEW l \in 1 .. MaxConns, NEW i \in DOMAIN frames'[l],
             frames'[l][i] = e
      PROVE  /\ via'[e] = l /\ work'[e] = "none"
             /\ \A j \in DOMAIN frames'[l] : frames'[l][j] = e => i = j
  <2>1. e # d
    BY <1>4, <1>9
  <2>q. QED
    BY <1>1, <1>5, <1>6, <1>9, <2>1
<1>q. QED
  BY <1>3, <1>8, <1>9 DEF WireInv

LEMMA WireWork ==
  ASSUME Types, WireInv, NEW d \in Deliveries, work[d] # "none", NEW stage, stage # "none",
         work' = [work EXCEPT ![d] = stage], UNCHANGED <<via, frames>>
  PROVE  WireInv'
<1>1. \A e \in Deliveries : work'[e] = IF e = d THEN stage ELSE work[e]
  BY DEF Types, WorkTypeOK
<1>q. QED
  BY <1>1 DEF WireInv

LEMMA WireStep ==
  ASSUME Types, WireInv, [Next]_vars
  PROVE  WireInv'
<1>1. CASE UNCHANGED <<via, frames, work>>
  BY <1>1 DEF WireInv
<1>2. CASE DaemonAnswersHello
  <2>1. asked /\ \E frame \in Frames \ Deliveries : frames' = [frames EXCEPT ![conns] = Append(@, frame)]
    BY <1>2, InteractiveOwnerAssumption DEF DaemonAnswersHello, Frames
  <2>2. conns \in 1 .. MaxConns
    BY <2>1 DEF Types, ConnTypeOK, LinkTypeOK
  <2>q. QED
    BY <1>2, <2>1, <2>2, WireSent DEF Types, DaemonAnswersHello, workVars
<1>3. CASE DaemonSupersedes
  <2>1. open /\ \E frame \in Frames \ Deliveries : frames' = [frames EXCEPT ![conns] = Append(@, frame)]
    BY <1>3, InteractiveOwnerAssumption DEF DaemonSupersedes, Frames
  <2>2. conns \in 1 .. MaxConns
    BY <2>1 DEF Types, ConnTypeOK, LinkTypeOK
  <2>q. QED
    BY <1>3, <2>1, <2>2, WireSent DEF Types, DaemonSupersedes, workVars
<1>4. ASSUME NEW d \in Deliveries, DaemonDelivers(d)
      PROVE  WireInv'
  BY <1>4, WireDelivered
<1>5. ASSUME NEW k \in 1 .. MaxConns, HelloAcknowledged(k)
      PROVE  WireInv'
  <2>1. (\E frame : Dispatch(k, frame)) /\ UNCHANGED <<via, work>>
    BY <1>5 DEF HelloAcknowledged, workVars
  <2>q. QED
    BY <2>1, WireDispatched DEF Types
<1>6. ASSUME NEW k \in 1 .. MaxConns, HelloRefused(k)
      PROVE  WireInv'
  <2>1. (\E frame : Dispatch(k, frame)) /\ UNCHANGED <<via, work>>
    BY <1>6 DEF HelloRefused, workVars
  <2>q. QED
    BY <2>1, WireDispatched DEF Types
<1>7. ASSUME NEW k \in 1 .. MaxConns, HandleSuperseded(k)
      PROVE  WireInv'
  <2>1. (\E frame : Dispatch(k, frame)) /\ UNCHANGED <<via, work>>
    BY <1>7 DEF HandleSuperseded, workVars
  <2>q. QED
    BY <2>1, WireDispatched DEF Types
<1>8. ASSUME NEW k \in 1 .. MaxConns, NEW d \in Deliveries, HandleDeliver(k, d)
      PROVE  WireInv'
  BY <1>8, WireHandled
<1>9. ASSUME NEW d \in Deliveries, AcquireGate(d)
      PROVE  WireInv'
  <2>1. /\ work[d] # "none" /\ UNCHANGED <<via, frames>>
        /\ \E stage : stage # "none" /\ work' = [work EXCEPT ![d] = stage]
    BY <1>9 DEF AcquireGate, WorkerStep
  <2>q. QED
    BY <2>1, WireWork
<1>10. ASSUME NEW d \in Deliveries, GiveUp(d)
      PROVE  WireInv'
  <2>1. /\ work[d] # "none" /\ UNCHANGED <<via, frames>>
        /\ \E stage : stage # "none" /\ work' = [work EXCEPT ![d] = stage]
    BY <1>10 DEF GiveUp, WorkerStep
  <2>q. QED
    BY <2>1, WireWork
<1>11. ASSUME NEW d \in Deliveries, Misdelivered(d)
      PROVE  WireInv'
  <2>1. /\ work[d] # "none" /\ UNCHANGED <<via, frames>>
        /\ \E stage : stage # "none" /\ work' = [work EXCEPT ![d] = stage]
    BY <1>11 DEF Misdelivered, WorkerStep
  <2>q. QED
    BY <2>1, WireWork
<1>12. ASSUME NEW d \in Deliveries, Write(d)
      PROVE  WireInv'
  <2>1. /\ work[d] # "none" /\ UNCHANGED <<via, frames>>
        /\ \E stage : stage # "none" /\ work' = [work EXCEPT ![d] = stage]
    BY <1>12 DEF Write, WorkerStep
  <2>q. QED
    BY <2>1, WireWork
<1>13. ASSUME NEW d \in Deliveries, Answer(d)
      PROVE  WireInv'
  <2>1. /\ work[d] # "none" /\ UNCHANGED <<via, frames>>
        /\ \E stage : stage # "none" /\ work' = [work EXCEPT ![d] = stage]
    BY <1>13 DEF Answer, WorkerStep
  <2>q. QED
    BY <2>1, WireWork
<1>14. Initialized \/ ObserveFails \/ Scan \/ Wake \/ Finish => UNCHANGED <<via, frames,
          work>>
  BY DEF Initialized, ObserveFails, Scan, Wake, Finish, ObserveReturns, workVars
<1>15. Dial \/ Register \/ Hello \/ Idle \/ Rehello \/ ConnectionEnds \/ Disconnect =>
          UNCHANGED <<via, frames, work>>
  BY DEF Dial, Register, Hello, Idle, Rehello, ConnectionEnds, Disconnect, workVars
<1>16. CloseCancelled \/ CancelSuperseded \/ AcknowledgeSuperseded \/ EndReturns =>
          UNCHANGED <<via, frames, work>>
  BY DEF CloseCancelled, CancelSuperseded, AcknowledgeSuperseded, EndReturns, workVars
<1>17. EndBegins \/ CallReady \/ Call => UNCHANGED <<via, frames, work>>
  BY DEF EndBegins, CallReady, Call, workVars
<1>18. ConnectionLost \/ WatchFails \/ NativeUnregisters \/ CallBegins => UNCHANGED <<via,
          frames, work>>
  BY DEF ConnectionLost, WatchFails, NativeUnregisters, CallBegins, workVars
<1>19. ASSUME NEW row \in Rows, NativeRegisters(row)
      PROVE  UNCHANGED <<via, frames, work>>
  BY <1>19 DEF NativeRegisters, workVars
<1>20. UNCHANGED vars => UNCHANGED <<via, frames, work>>
  BY DEF vars, workVars
<1> QED
  BY <1>1, <1>2, <1>3, <1>4, <1>5, <1>6, <1>7, <1>8, <1>9, <1>10, <1>11, <1>12, <1>13,
      <1>14, <1>15, <1>16, <1>17, <1>18, <1>19, <1>20 DEF Next, Observer, Transport, Ending,
      External, Reader, Worker

-----------------------------------------------------------------------------
(* The lines and the receipts                                                *)

\* Who wrote to the file, and what the receipts given and to come say of it.
ReceiptInv ==
  \A d \in Deliveries :
    /\ d \in Range(file) => work[d] \in {"wrote", "failed", "done"}
    /\ work[d] = "done" <=> answer[d] # "none"
    /\ work[d] = "wrote" \/ answer[d] = "written" => d \in Range(LinesOf(file))
    /\ work[d] = "rejecting" \/ answer[d] = "rejected" => d \notin Range(file)

MailInv == Tidy(file) /\ ReceiptInv

\* A worker that does not write.
LEMMA ReceiptWork ==
  ASSUME Types, ReceiptInv, NEW d \in Deliveries, NEW stage \in {"queued", "gated", "rejecting", "failed"},
         work[d] \in {"none", "queued"}, work' = [work EXCEPT ![d] = stage],
         UNCHANGED <<file, answer>>
  PROVE  ReceiptInv'
<1>1. \A e \in Deliveries : work'[e] = IF e = d THEN stage ELSE work[e]
  BY DEF Types, WorkTypeOK
<1> DEFINE written == Range(LinesOf(file))
           present == Range(file)
<1>2. Range(LinesOf(file))' = written /\ Range(file)' = present
  OBVIOUS
<1>3. \A e \in Deliveries :
        /\ e \in present => work[e] \in {"wrote", "failed", "done"}
        /\ work[e] = "done" <=> answer[e] # "none"
        /\ work[e] = "wrote" \/ answer[e] = "written" => e \in written
        /\ work[e] = "rejecting" \/ answer[e] = "rejected" => e \notin present
  BY DEF ReceiptInv
<1> HIDE DEF written, present
<1>4. \A e \in Deliveries :
        /\ e \in present => work'[e] \in {"wrote", "failed", "done"}
        /\ work'[e] = "done" <=> answer'[e] # "none"
        /\ work'[e] = "wrote" \/ answer'[e] = "written" => e \in written
        /\ work'[e] = "rejecting" \/ answer'[e] = "rejected" => e \notin present
  BY <1>1, <1>3
<1>q. QED
  BY <1>2, <1>4 DEF ReceiptInv

\* An answer says what the worker's last stage stands for.
LEMMA ReceiptAnswer ==
  ASSUME Types, ReceiptInv, NEW d \in Deliveries, Answer(d) \/ Misdelivered(d)
  PROVE  /\ ReceiptInv' /\ file' = file /\ answer[d] = "none"
         /\ \E receipt \in {"written", "uncertain", "rejected", "lost"} :
              /\ answer' = [answer EXCEPT ![d] = receipt]
              /\ receipt = "written" => d \in Range(LinesOf(file))
              /\ receipt = "rejected" => d \notin Range(file)
<1>1. PICK receipt \in {"written", "uncertain", "rejected", "lost"} :
        /\ answer' = [answer EXCEPT ![d] = receipt] /\ work' = [work EXCEPT ![d] = "done"]
        /\ file' = file /\ work[d] # "done"
        /\ receipt = "written" => work[d] = "wrote"
        /\ receipt = "rejected" => work[d] = "rejecting"
  BY DEF Answer, Misdelivered, WorkerStep, Receipt
<1>2. \A e \in Deliveries : /\ work'[e] = IF e = d THEN "done" ELSE work[e]
                            /\ answer'[e] = IF e = d THEN receipt ELSE answer[e]
  BY <1>1 DEF Types, WorkTypeOK
<1> DEFINE written == Range(LinesOf(file))
           present == Range(file)
<1>3. Range(LinesOf(file))' = written /\ Range(file)' = present
  BY <1>1
<1>4. \A e \in Deliveries :
        /\ e \in present => work[e] \in {"wrote", "failed", "done"}
        /\ work[e] = "done" <=> answer[e] # "none"
        /\ work[e] = "wrote" \/ answer[e] = "written" => e \in written
        /\ work[e] = "rejecting" \/ answer[e] = "rejected" => e \notin present
  BY DEF ReceiptInv
<1> HIDE DEF written, present
<1>5. \A e \in Deliveries :
        /\ e \in present => work'[e] \in {"wrote", "failed", "done"}
        /\ work'[e] = "done" <=> answer'[e] # "none"
        /\ work'[e] = "wrote" \/ answer'[e] = "written" => e \in written
        /\ work'[e] = "rejecting" \/ answer'[e] = "rejected" => e \notin present
  BY <1>1, <1>2, <1>4
<1>6. answer[d] = "none" /\ (receipt = "written" => d \in written)
      /\ (receipt = "rejected" => d \notin present)
  BY <1>1, <1>4
<1>q. QED
  BY <1>1, <1>3, <1>5, <1>6 DEF ReceiptInv, written, present

\* The file after a write, and the lines in it.
LEMMA Written ==
  ASSUME Types, MailInv, NEW d \in Deliveries, Write(d)
  PROVE  /\ MailInv' /\ Grows(file, file', d) /\ answer' = answer
         /\ answer[d] = "none"
         /\ LinesOf(file) \in Seq(Deliveries) /\ LinesOf(file') \in Seq(Deliveries)
<1>1. PICK part \in Remnants(d) \cup {Record(d)}, stage \in {"wrote", "failed"} :
        /\ file' = file \o part /\ work' = [work EXCEPT ![d] = stage]
        /\ stage = "wrote" => part = Record(d)
        /\ work[d] = "gated" /\ answer' = answer
  BY DEF Write, WorkerStep
<1>2. file \in Seq(Tokens) /\ Tidy(file)
  BY DEF Types, FileTypeOK, Tokens, MailInv
<1>3. d \notin Range(file) /\ answer[d] = "none"
  BY <1>1 DEF MailInv, ReceiptInv
<1>4. /\ file' \in Seq(Tokens) /\ Tidy(file') /\ Grows(file, file', d)
      /\ Range(file) \subseteq Range(file')
      /\ Range(file') \subseteq Range(file) \cup {Newline, Torn, d}
      /\ part = Record(d) => d \in Range(LinesOf(file'))
  BY <1>1, <1>2, <1>3, WriteLines
<1>5. Range(LinesOf(file)) \subseteq Range(LinesOf(file'))
  <2> DEFINE s == LinesOf(file)
             u == LinesOf(file')
  <2>1. s \in Seq(Deliveries)
    BY <1>2, LinesType
  <2>2. \/ u = s
        \/ \E e \in Deliveries : u = Append(s, e)
        \/ \E e \in Deliveries : u = Append(Append(s, e), d)
    BY <1>4 DEF Grows
  <2> HIDE DEF s, u
  <2>3. \A t \in Seq(Deliveries) : \A e \in Deliveries :
          Append(t, e) \in Seq(Deliveries) /\ Range(t) \subseteq Range(Append(t, e))
    BY AppendRange, AppendProperties
  <2>4. Range(s) \subseteq Range(u)
    BY <2>1, <2>2, <2>3
  <2>q. QED
    BY <2>4 DEF s, u
<1>6. \A e \in Deliveries : work'[e] = IF e = d THEN stage ELSE work[e]
  BY <1>1 DEF Types, WorkTypeOK
<1>7. \A e \in Deliveries : e # Newline /\ e # Torn
  BY InteractiveOwnerAssumption
<1> DEFINE written == Range(LinesOf(file))
           present == Range(file)
           writtenNow == Range(LinesOf(file'))
           presentNow == Range(file')
<1>8. \A e \in Deliveries :
        /\ e \in present => work[e] \in {"wrote", "failed", "done"}
        /\ work[e] = "done" <=> answer[e] # "none"
        /\ work[e] = "wrote" \/ answer[e] = "written" => e \in written
        /\ work[e] = "rejecting" \/ answer[e] = "rejected" => e \notin present
  BY DEF MailInv, ReceiptInv
<1>9. /\ written \subseteq writtenNow /\ present \subseteq presentNow
      /\ presentNow \subseteq present \cup {Newline, Torn, d}
      /\ stage = "wrote" => d \in writtenNow
  BY <1>1, <1>4, <1>5
<1> HIDE DEF written, present, writtenNow, presentNow
<1>10. \A e \in Deliveries :
        /\ e \in presentNow => work'[e] \in {"wrote", "failed", "done"}
        /\ work'[e] = "done" <=> answer'[e] # "none"
        /\ work'[e] = "wrote" \/ answer'[e] = "written" => e \in writtenNow
        /\ work'[e] = "rejecting" \/ answer'[e] = "rejected" => e \notin presentNow
  BY <1>1, <1>3, <1>6, <1>7, <1>8, <1>9
<1>11. MailInv'
  BY <1>4, <1>10 DEF MailInv, ReceiptInv, writtenNow, presentNow
<1>q. QED
  BY <1>1, <1>2, <1>3, <1>4, <1>11, LinesType

LEMMA MailStep ==
  ASSUME Types, WireInv, MailInv, [Next]_vars
  PROVE  MailInv'
<1>1. CASE UNCHANGED <<work, file, answer>>
  BY <1>1 DEF MailInv, ReceiptInv
<1>2. ASSUME NEW k \in 1 .. MaxConns, NEW d \in Deliveries, HandleDeliver(k, d)
      PROVE  MailInv'
  <2>1. work[d] = "none"
    BY <1>2, WireHandled
  <2>2. CASE work' = work
    BY <1>2, <2>2 DEF HandleDeliver, MailInv, ReceiptInv
  <2>3. CASE work' # work
    <3>1. /\ UNCHANGED <<file, answer>>
          /\ \E stage \in {"queued", "gated", "rejecting", "failed"} : work' = [work EXCEPT ![d] = stage]
      BY <1>2, <2>3 DEF HandleDeliver
    <3>q. QED
      BY <2>1, <3>1, ReceiptWork DEF MailInv
  <2>q. QED
    BY <2>2, <2>3
<1>3. ASSUME NEW d \in Deliveries, AcquireGate(d)
      PROVE  MailInv'
  <2>1. /\ work[d] \in {"none", "queued"} /\ UNCHANGED <<file, answer>>
        /\ \E stage \in {"queued", "gated", "rejecting", "failed"} : work' = [work EXCEPT ![d] = stage]
    BY <1>3 DEF AcquireGate, WorkerStep
  <2>q. QED
    BY <2>1, ReceiptWork DEF MailInv
<1>4. ASSUME NEW d \in Deliveries, GiveUp(d)
      PROVE  MailInv'
  <2>1. /\ work[d] \in {"none", "queued"} /\ UNCHANGED <<file, answer>>
        /\ \E stage \in {"queued", "gated", "rejecting", "failed"} : work' = [work EXCEPT ![d] = stage]
    BY <1>4 DEF GiveUp, WorkerStep
  <2>q. QED
    BY <2>1, ReceiptWork DEF MailInv
<1>5. ASSUME NEW d \in Deliveries, Misdelivered(d)
      PROVE  MailInv'
  BY <1>5, ReceiptAnswer DEF MailInv
<1>6. ASSUME NEW d \in Deliveries, Write(d)
      PROVE  MailInv'
  BY <1>6, Written
<1>7. ASSUME NEW d \in Deliveries, Answer(d)
      PROVE  MailInv'
  BY <1>7, ReceiptAnswer DEF MailInv
<1>8. Initialized \/ ObserveFails \/ Scan \/ Wake \/ Finish => UNCHANGED <<work, file,
          answer>>
  BY DEF Initialized, ObserveFails, Scan, Wake, Finish, ObserveReturns, workVars
<1>9. Dial \/ Register \/ Hello \/ Idle \/ Rehello \/ ConnectionEnds \/ Disconnect =>
          UNCHANGED <<work, file, answer>>
  BY DEF Dial, Register, Hello, Idle, Rehello, ConnectionEnds, Disconnect, workVars
<1>10. CloseCancelled \/ CancelSuperseded \/ AcknowledgeSuperseded \/ EndReturns =>
          UNCHANGED <<work, file, answer>>
  BY DEF CloseCancelled, CancelSuperseded, AcknowledgeSuperseded, EndReturns, workVars
<1>11. EndBegins \/ CallReady \/ Call => UNCHANGED <<work, file, answer>>
  BY DEF EndBegins, CallReady, Call, workVars
<1>12. DaemonAnswersHello \/ DaemonSupersedes \/ ConnectionLost \/ WatchFails \/
          NativeUnregisters \/ CallBegins => UNCHANGED <<work, file, answer>>
  BY DEF DaemonAnswersHello, DaemonSupersedes, ConnectionLost, WatchFails,
      NativeUnregisters, CallBegins, workVars
<1>13. ASSUME NEW row \in Rows, NativeRegisters(row)
      PROVE  UNCHANGED <<work, file, answer>>
  BY <1>13 DEF NativeRegisters, workVars
<1>14. ASSUME NEW d \in Deliveries, DaemonDelivers(d)
      PROVE  UNCHANGED <<work, file, answer>>
  BY <1>14 DEF DaemonDelivers, workVars
<1>15. ASSUME NEW k \in 1 .. MaxConns,
             HelloAcknowledged(k) \/ HelloRefused(k) \/ HandleSuperseded(k)
      PROVE  UNCHANGED <<work, file, answer>>
  BY <1>15 DEF HelloAcknowledged, HelloRefused, HandleSuperseded, workVars
<1>16. UNCHANGED vars => UNCHANGED <<work, file, answer>>
  BY DEF vars, workVars
<1> QED
  BY <1>1, <1>2, <1>3, <1>4, <1>5, <1>6, <1>7, <1>8, <1>9, <1>10, <1>11, <1>12, <1>13,
      <1>14, <1>15, <1>16 DEF Next, Observer, Transport, Ending, External, Reader, Worker

-----------------------------------------------------------------------------
(* The mailbox                                                               *)

\* Elements appended to a sequence leave it a prefix.
LEMMA AppendPrefix ==
  ASSUME NEW S, NEW s \in Seq(S), NEW a \in S, NEW b \in S
  PROVE  /\ IsStrictPrefix(s, Append(s, a)) /\ Len(Append(s, a)) <= Len(s) + 2
         /\ \A i \in Len(s) + 1 .. Len(Append(s, a)) : Append(s, a)[i] = a
         /\ IsStrictPrefix(s, Append(Append(s, a), b)) /\ Len(Append(Append(s, a), b)) <= Len(s) + 2
         /\ \A i \in Len(s) + 1 .. Len(Append(Append(s, a), b)) : Append(Append(s, a), b)[i] \in {a, b}
<1> DEFINE u == Append(s, a)
           w == Append(u, b)
           n == Len(s)
<1>1. /\ n \in Nat /\ u \in Seq(S) /\ Len(u) = n + 1 /\ u[n + 1] = a
      /\ \A i \in 1 .. n : u[i] = s[i]
  BY AppendProperties, LenProperties
<1> HIDE DEF u
<1>2. /\ w \in Seq(S) /\ Len(w) = n + 2 /\ w[n + 2] = b /\ w[n + 1] = a
      /\ \A i \in 1 .. n : w[i] = s[i]
  <2>1. /\ w \in Seq(S) /\ Len(w) = Len(u) + 1 /\ w[Len(u) + 1] = b
        /\ \A i \in 1 .. Len(u) : w[i] = u[i]
    BY <1>1, AppendProperties
  <2> HIDE DEF w, n
  <2>2. Len(u) + 1 = n + 2 /\ \A i \in 1 .. n : i \in 1 .. Len(u)
    BY <1>1
  <2>3. n + 1 \in 1 .. Len(u)
    BY <1>1
  <2>q. QED
    BY <1>1, <2>1, <2>2, <2>3
<1> HIDE DEF w
<1>3. ASSUME NEW x \in Seq(S), n < Len(x), \A i \in 1 .. n : x[i] = s[i]
      PROVE  IsStrictPrefix(s, x)
  <2>1. \A i \in 1 .. n : x[i] \in S
    BY <1>3, ElementOfSeq
  <2>2. /\ SubSeq(x, 1, n) \in Seq(S) /\ Len(SubSeq(x, 1, n)) = n
        /\ \A i \in 1 .. n : SubSeq(x, 1, n)[i] = x[i]
    BY <1>1, <2>1, SubSeqProperties
  <2>3. SubSeq(x, 1, n) = s
    BY <1>3, <2>2, SeqEqual
  <2>4. SubSeq(s, 1, n) = s
    BY SubSeqFull
  <2>5. Len(x) \in Nat /\ n <= Len(x) /\ s # x
    BY <1>1, <1>3, LenProperties
  <2>q. QED
    BY <2>3, <2>4, <2>5 DEF IsStrictPrefix, IsPrefix
<1>4. n < Len(u) /\ n < Len(w) /\ Len(u) <= n + 2 /\ Len(w) <= n + 2
  BY <1>1, <1>2
<1>5. \A i \in n + 1 .. Len(u) : i = n + 1
  BY <1>1
<1>6. \A i \in n + 1 .. Len(w) : i = n + 1 \/ i = n + 2
  BY <1>1, <1>2
<1>7. IsStrictPrefix(s, u) /\ IsStrictPrefix(s, w)
  BY <1>1, <1>2, <1>3, <1>4
<1>8. (\A i \in n + 1 .. Len(u) : u[i] = a) /\ \A i \in n + 1 .. Len(w) : w[i] \in {a, b}
  BY <1>1, <1>2, <1>5, <1>6
<1>q. QED
  BY <1>4, <1>7, <1>8 DEF u, w

LEMMA LinesPrimed == Lines' = LinesOf(file')
BY DEF Lines, LinesOf, IsScan, Alone

\* A write extends the mailbox by the lines it completes, or leaves it.
LEMMA WriteExtends ==
  ASSUME Types, MailInv, NEW d \in Deliveries, Write(d)
  PROVE  Lines' # Lines => Mailbox!Extend
<1>1. /\ MailInv' /\ Grows(file, file', d) /\ answer' = answer
      /\ answer[d] = "none"
      /\ LinesOf(file) \in Seq(Deliveries) /\ LinesOf(file') \in Seq(Deliveries)
  BY Written
<1>2. SUFFICES ASSUME Lines' # Lines PROVE Mailbox!Extend
  OBVIOUS
<1> DEFINE s == LinesOf(file)
           u == LinesOf(file')
<1>3. Lines = s /\ Lines' = u
  BY LinesAre, LinesPrimed
<1>4. IsInjective(u)
  BY <1>1 DEF MailInv, Tidy
<1>5. \A e \in Range(file) \cap Deliveries : answer[e] = "written" => e \in Range(s)
  BY DEF MailInv, ReceiptInv
<1>6. \A e \in Range(file) \cap Deliveries : answer[e] # "rejected"
  BY DEF MailInv, ReceiptInv
<1>7. s \in Seq(Deliveries) /\ u \in Seq(Deliveries) /\ u # s
  BY <1>1, <1>2, <1>3
<1>8. \/ \E e \in (Range(file) \cup {d}) \cap Deliveries : u = Append(s, e)
      \/ \E e \in Range(file) \cap Deliveries : u = Append(Append(s, e), d)
  BY <1>1, <1>7 DEF Grows
<1> HIDE DEF s, u
<1>9. IsStrictPrefix(s, u) /\ Len(u) <= Len(s) + 2
  <2>1. \A e \in Deliveries :
          /\ IsStrictPrefix(s, Append(s, e)) /\ Len(Append(s, e)) <= Len(s) + 2
          /\ IsStrictPrefix(s, Append(Append(s, e), d)) /\ Len(Append(Append(s, e), d)) <= Len(s) + 2
    BY <1>7, AppendPrefix
  <2>q. QED
    BY <1>8, <2>1
<1>10. \A i \in Len(s) + 1 .. Len(u) : u[i] \in (Range(file) \cup {d}) \cap Deliveries
  BY <1>7, <1>8, AppendPrefix
<1>11. \A i \in Len(s) + 1 .. Len(u) : u[i] \notin Range(s)
  <2> SUFFICES ASSUME NEW i \in Len(s) + 1 .. Len(u), NEW j \in DOMAIN s, s[j] = u[i]
               PROVE  FALSE
    BY DEF Range
  <2>1. Len(s) \in Nat /\ Len(u) \in Nat /\ DOMAIN s = 1 .. Len(s) /\ DOMAIN u = 1 .. Len(u)
    BY <1>7, LenProperties
  <2>2. i \in DOMAIN u /\ j \in DOMAIN u /\ i # j
    BY <1>9, <2>1 DEF IsStrictPrefix, IsPrefix
  <2>3. u[j] = s[j]
    <3>1. j \in 1 .. Len(s) /\ SubSeq(s, 1, Len(s)) = SubSeq(u, 1, Len(s))
      BY <1>9, <2>1 DEF IsStrictPrefix, IsPrefix
    <3>2. SubSeq(s, 1, Len(s))[j] = s[j] /\ SubSeq(u, 1, Len(s))[j] = u[j]
      BY <2>1, <2>2, <3>1
    <3>q. QED
      BY <3>1, <3>2
  <2>q. QED
    BY <1>4, <2>2, <2>3 DEF IsInjective, u
<1>12. \A i \in Len(s) + 1 .. Len(u) : answer[u[i]] \notin {"written", "rejected"}
  BY <1>1, <1>5, <1>6, <1>10, <1>11 DEF s
<1>q. QED
  BY <1>1, <1>2, <1>3, <1>4, <1>9, <1>12
  DEF Mailbox!Extend, Mailbox!IsStrictPrefix, Mailbox!IsPrefix, Mailbox!IsInjective,
      IsStrictPrefix, IsPrefix, IsInjective, u

LEMMA AnswerReplies ==
  ASSUME Types, MailInv, NEW d \in Deliveries, Answer(d) \/ Misdelivered(d)
  PROVE  Mailbox!MailNext
<1>1. /\ file' = file /\ answer[d] = "none"
      /\ \E receipt \in {"written", "uncertain", "rejected", "lost"} :
           /\ answer' = [answer EXCEPT ![d] = receipt]
           /\ receipt = "written" => d \in Range(LinesOf(file))
           /\ receipt = "rejected" => d \notin Range(file)
  BY ReceiptAnswer DEF MailInv
<1>2. Range(LinesOf(file)) \subseteq Range(file)
  BY DEF MailInv, Tidy
<1>3. Lines = LinesOf(file) /\ Lines' = Lines
  BY <1>1, LinesAre, LinesPrimed
<1>4. PICK receipt \in {"written", "uncertain", "rejected", "lost"} :
           /\ answer' = [answer EXCEPT ![d] = receipt]
           /\ receipt = "written" => d \in Range(Lines)
           /\ receipt = "rejected" => d \notin Range(Lines)
  BY <1>1, <1>2, <1>3
<1>5. answer' # answer
  <2>1. answer'[d] = receipt
    BY <1>4 DEF Types, WorkTypeOK
  <2>q. QED
    BY <1>1, <2>1
<1>6. Mailbox!Reply(d, receipt)
  BY <1>1, <1>3, <1>4 DEF Mailbox!Reply, Mailbox!Range, Range
<1>q. QED
  BY <1>5, <1>6 DEF Mailbox!MailNext

\* Every step of the helper is one of the mailbox, or leaves it.
LEMMA MailboxStep ==
  ASSUME Types, MailInv, [Next]_vars
  PROVE  Mailbox!MailNext \/ UNCHANGED <<Lines, answer>>
<1>1. CASE UNCHANGED <<file, answer>>
  BY <1>1, LinesAre, LinesPrimed
<1>2. ASSUME NEW d \in Deliveries, Misdelivered(d)
      PROVE  Mailbox!MailNext \/ UNCHANGED <<Lines, answer>>
  BY <1>2, AnswerReplies
<1>3. ASSUME NEW d \in Deliveries, Write(d)
      PROVE  Mailbox!MailNext \/ UNCHANGED <<Lines, answer>>
  BY <1>3, WriteExtends, Written, LinesAre, LinesPrimed DEF Mailbox!MailNext
<1>4. ASSUME NEW d \in Deliveries, Answer(d)
      PROVE  Mailbox!MailNext \/ UNCHANGED <<Lines, answer>>
  BY <1>4, AnswerReplies
<1>5. Initialized \/ ObserveFails \/ Scan \/ Wake \/ Finish => UNCHANGED <<file, answer>>
  BY DEF Initialized, ObserveFails, Scan, Wake, Finish, ObserveReturns, workVars
<1>6. Dial \/ Register \/ Hello \/ Idle \/ Rehello \/ ConnectionEnds \/ Disconnect =>
          UNCHANGED <<file, answer>>
  BY DEF Dial, Register, Hello, Idle, Rehello, ConnectionEnds, Disconnect, workVars
<1>7. CloseCancelled \/ CancelSuperseded \/ AcknowledgeSuperseded \/ EndReturns =>
          UNCHANGED <<file, answer>>
  BY DEF CloseCancelled, CancelSuperseded, AcknowledgeSuperseded, EndReturns, workVars
<1>8. EndBegins \/ CallReady \/ Call => UNCHANGED <<file, answer>>
  BY DEF EndBegins, CallReady, Call, workVars
<1>9. DaemonAnswersHello \/ DaemonSupersedes \/ ConnectionLost \/ WatchFails \/
          NativeUnregisters \/ CallBegins => UNCHANGED <<file, answer>>
  BY DEF DaemonAnswersHello, DaemonSupersedes, ConnectionLost, WatchFails,
      NativeUnregisters, CallBegins, workVars
<1>10. ASSUME NEW row \in Rows, NativeRegisters(row)
      PROVE  UNCHANGED <<file, answer>>
  BY <1>10 DEF NativeRegisters, workVars
<1>11. ASSUME NEW d \in Deliveries, DaemonDelivers(d)
      PROVE  UNCHANGED <<file, answer>>
  BY <1>11 DEF DaemonDelivers, workVars
<1>12. ASSUME NEW k \in 1 .. MaxConns,
             HelloAcknowledged(k) \/ HelloRefused(k) \/ HandleSuperseded(k)
      PROVE  UNCHANGED <<file, answer>>
  BY <1>12 DEF HelloAcknowledged, HelloRefused, HandleSuperseded, workVars
<1>13. ASSUME NEW k \in 1 .. MaxConns, NEW d \in Deliveries, HandleDeliver(k, d)
      PROVE  UNCHANGED <<file, answer>>
  BY <1>13 DEF HandleDeliver, workVars
<1>14. ASSUME NEW d \in Deliveries, AcquireGate(d) \/ GiveUp(d)
      PROVE  UNCHANGED <<file, answer>>
  BY <1>14 DEF AcquireGate, GiveUp, WorkerStep, workVars
<1>15. UNCHANGED vars => UNCHANGED <<file, answer>>
  BY DEF vars, workVars
<1> QED
  BY <1>1, <1>2, <1>3, <1>4, <1>5, <1>6, <1>7, <1>8, <1>9, <1>10, <1>11, <1>12, <1>13,
      <1>14, <1>15 DEF Next, Observer, Transport, Ending, External, Reader, Worker

LEMMA MailboxInit == Init => Mailbox!MailInit /\ WireInv /\ MailInv
<1> SUFFICES ASSUME Init PROVE Mailbox!MailInit /\ WireInv /\ MailInv
  OBVIOUS
<1>1. file = <<>> /\ file \in Seq(Tokens) /\ Len(file) = 0 /\ Range(file) = {}
  BY DEF Init, Range
<1>2. LinesOf(file) = <<>>
  <2>1. PICK u : IsScan(file, u) /\ LinesOf(file) = u[Len(file)]
    BY <1>1, LinesScan
  <2>q. QED
    BY <1>1, <2>1 DEF IsScan
<1>3. WireInv
  BY DEF Init, WireInv
<1>4. MailInv
  BY <1>1, <1>2 DEF Init, MailInv, Tidy, ReceiptInv, IsInjective, Range
<1>5. Mailbox!MailInit
  BY <1>2, LinesAre DEF Init, Mailbox!MailInit
<1>q. QED
  BY <1>3, <1>4, <1>5

LEMMA MailInductive == Spec => [](Types /\ WireInv /\ MailInv)
<1>1. Init => WireInv /\ MailInv
  BY MailboxInit
<1>2. Types /\ WireInv /\ MailInv /\ [Next]_vars => WireInv' /\ MailInv'
  BY WireStep, MailStep
<1>3. IInv => Types
  BY DEF IInv
<1>q. QED
  BY <1>1, <1>2, <1>3, Inductive, PTL DEF Spec

\* The helper implements the mailbox: the lines native reads and the receipts
\* the daemon gets are those the mailbox allows, step by step, through short
\* writes, outages, supersession and shutdown (appendInput, handle).
THEOREM MailboxImplemented == Spec => ImplementsMailbox
<1>1. Init => Mailbox!MailInit
  BY MailboxInit
<1>2. Types /\ MailInv /\ [Next]_vars => [Mailbox!MailNext]_(Mailbox!mailVars)
  BY MailboxStep DEF Mailbox!mailVars
<1>q. QED
  BY <1>1, <1>2, MailInductive, PTL DEF Spec, ImplementsMailbox, Mailbox!MailSpec
==============================================================================
