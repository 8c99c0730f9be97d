---------------------------- MODULE LabRPCProofs ----------------------------
(***************************************************************************)
(* A Call that returns true is never undone by a restart of the server,    *)
(* for any number of Calls and of restarts.                                *)
(***************************************************************************)
EXTENDS LabRPC, TLAPS

\* The network knows the server from AddServer to DeleteServer.
RegisteredWhileUp ==
    registered = IF tester \in {"up", "disconnected"} THEN incarnation ELSE 0

\* What is known of Call q.  The goroutine of q has its effect in the persister of
\* the incarnation that it was sent to, as long as that one runs; and processReq
\* passes a reply on only while that incarnation is the one in the network.
Stored(q) ==
    /\ target[q] <= incarnation
    /\ call[q] \in {"new", "sent", "found"} => thread[q] = "none"
    /\ call[q] \in {"found", "waiting", "checking"} => target[q] # 0
    /\ thread[q] \in {"served", "answered", "returned"} /\ target[q] = incarnation => q \in disk
    /\ call[q] \in {"delayed", "ok"} => q \in durable

NetInv ==
    /\ TypeOK
    /\ incarnation # 0
    /\ RegisteredWhileUp
    /\ \A q \in Request : Stored(q)

----------------------------------------------------------------------------

LEMMA InitNet == Init => NetInv
BY DEF Init, NetInv, TypeOK, CallState, ThreadState, RegisteredWhileUp, Stored

\* A step of processReq or Call changes the state of one Call, and its target only
\* to the server in the network.
LEMMA CallsKeep ==
    ASSUME NetInv, NEW q \in Request, Call(q) \/ processReq(q)
    PROVE  NetInv'
<1> USE DEF goto, moveTo
<1>1. UNCHANGED <<network, connection, process, disk>>
  BY DEF Call, processReq, readEndnameInfo, giveUp, dispatch, handlerReturns, stopWaiting,
         checkReply, delayedReply, calls
<1>2. TypeOK'
  BY DEF NetInv, TypeOK, CallState, ThreadState, Call, processReq, readEndnameInfo, giveUp,
         dispatch, handlerReturns, stopWaiting, checkReply, delayedReply, network,
         connection, process
<1>3. RegisteredWhileUp' /\ incarnation' # 0 /\ durable' = durable
  BY <1>1 DEF NetInv, RegisteredWhileUp, durable, network, process
<1>4. ASSUME NEW p \in Request, p # q PROVE Stored(p)'
  <2>1. call'[p] = call[p] /\ target'[p] = target[p] /\ thread'[p] = thread[p]
    BY <1>4 DEF NetInv, TypeOK, Call, processReq, readEndnameInfo, giveUp, dispatch,
                handlerReturns, stopWaiting, checkReply, delayedReply
  <2> QED
    BY <1>1, <1>3, <2>1 DEF NetInv, Stored, process
<1>5. Stored(q)'
  <2>1. CASE Call(q) \/ giveUp(q) \/ dispatch(q) \/ handlerReturns(q) \/ stopWaiting(q)
             \/ delayedReply(q)
    BY <1>1, <1>3, <2>1 DEF NetInv, TypeOK, Stored, Call, giveUp, dispatch, handlerReturns,
                            stopWaiting, delayedReply, process
  <2>2. CASE readEndnameInfo(q)
    BY <1>1, <1>3, <2>2 DEF NetInv, TypeOK, Stored, readEndnameInfo, process,
                            RegisteredWhileUp
  <2>3. CASE checkReply(q)
    <3>1. CASE call'[q] = "failed"
      BY <1>1, <1>3, <2>3, <3>1 DEF NetInv, TypeOK, Stored, checkReply, process
    <3>2. CASE call'[q] # "failed"
      <4>1. ~isServerDead(q) /\ thread[q] = "returned"
        BY <2>3, <3>2 DEF NetInv, TypeOK, checkReply
      <4>2. target[q] # 0 /\ registered = target[q]
        BY <2>3, <4>1 DEF NetInv, Stored, checkReply, isServerDead
      <4>3. q \in disk /\ durable = disk
        BY <4>1, <4>2 DEF NetInv, RegisteredWhileUp, Stored, durable
      <4> QED
        BY <1>1, <1>3, <2>3, <4>2, <4>3 DEF NetInv, TypeOK, Stored, checkReply, process
    <3> QED
      BY <3>1, <3>2
  <2> QED
    BY <2>1, <2>2, <2>3 DEF processReq
<1> QED
  BY <1>2, <1>3, <1>4, <1>5 DEF NetInv

\* A step of the goroutine of q: only ServeRequest writes to the persister.
LEMMA ThreadKeeps ==
    ASSUME NetInv, NEW q \in Request, SendReceive(q)
    PROVE  NetInv'
<1> USE DEF moveTo
<1>1. UNCHANGED <<network, calls, connection, process>> /\ disk \subseteq disk'
  BY DEF SendReceive, put, WriteCall, ServeRequest, writeReply, reader
<1>2. TypeOK'
  BY DEF NetInv, TypeOK, ThreadState, SendReceive, put, WriteCall, ServeRequest, writeReply,
         reader, network, calls, connection, process
<1>3. RegisteredWhileUp' /\ incarnation' # 0 /\ durable \subseteq durable'
  BY <1>1 DEF NetInv, RegisteredWhileUp, durable, network, process
<1>4. ASSUME NEW p \in Request, p # q PROVE Stored(p)'
  <2>1. thread'[p] = thread[p]
    BY <1>4 DEF NetInv, TypeOK, SendReceive, put, WriteCall, ServeRequest, writeReply, reader
  <2> QED
    BY <1>1, <1>3, <2>1 DEF NetInv, Stored, calls, process
<1>5. Stored(q)'
  <2>1. thread[q] # "none"
    BY DEF SendReceive, put, WriteCall, ServeRequest, writeReply, reader
  <2>2. thread'[q] \in {"served", "answered", "returned"} /\ target[q] = incarnation => q \in disk'
    BY DEF NetInv, TypeOK, Stored, SendReceive, put, WriteCall, ServeRequest, writeReply, reader
  <2> QED
    BY <1>1, <1>3, <2>1, <2>2 DEF NetInv, Stored, calls, process
<1> QED
  BY <1>2, <1>3, <1>4, <1>5 DEF NetInv

\* The reader of an old connection only makes goroutines fail.
LEMMA ReaderKeeps ==
    ASSUME NetInv, NEW i \in 1 .. incarnation, readerCloses(i) \/ readerEnds(i)
    PROVE  NetInv'
<1>1. UNCHANGED <<network, calls, process, disk>>
  BY DEF readerCloses, readerEnds
<1>2. ASSUME NEW q \in Request
      PROVE  thread'[q] = thread[q] \/ (thread'[q] = "error" /\ thread[q] # "none")
  BY DEF readerCloses, readerEnds, outstanding
<1>3. TypeOK'
  <2>1. thread' \in [Request -> ThreadState]
    <3>1. CASE readerCloses(i)
      BY <3>1 DEF NetInv, TypeOK, readerCloses
    <3>2. CASE readerEnds(i)
      BY <3>2 DEF NetInv, TypeOK, ThreadState, readerEnds
    <3> QED
      BY <3>1, <3>2
  <2>2. closed' \subseteq Nat /\ drained' \subseteq closed'
    <3>1. i \in Nat /\ closed \subseteq Nat /\ drained \subseteq closed
      BY DEF NetInv, TypeOK
    <3> QED
      BY <3>1 DEF readerCloses, readerEnds
  <2> QED
    BY <1>1, <2>1, <2>2 DEF NetInv, TypeOK, network, calls, process
<1>4. ASSUME NEW q \in Request PROVE Stored(q)'
  BY <1>1, <1>2 DEF NetInv, Stored, durable, calls, process
<1> QED
  BY <1>1, <1>3, <1>4 DEF NetInv, RegisteredWhileUp, network, process

\* The tester: what is durable stays so.
LEMMA TesterKeeps ==
    ASSUME NetInv, ShutdownServer \/ startServer \/ AddServer \/ \E q \in Request : Enable(q)
    PROVE  NetInv'
<1> USE DEF ShutdownServer, disconnect, DeleteServer, CheckpointPersister, kill, startServer,
            AddServer, Enable
<1>1. UNCHANGED <<calls, thread, connection>>
  OBVIOUS
<1>2. TypeOK'
  <2>1. enabled' \in [Request -> BOOLEAN]
    <3>1. CASE disconnect
      BY <3>1 DEF NetInv, TypeOK
    <3>2. ASSUME NEW q \in Request, Enable(q) PROVE enabled' \in [Request -> BOOLEAN]
      BY <3>2 DEF NetInv, TypeOK
    <3>3. CASE UNCHANGED enabled
      BY <3>3 DEF NetInv, TypeOK
    <3> QED
      BY <3>1, <3>2, <3>3 DEF network
  <2>2. registered' \in Nat /\ incarnation' \in Nat
    BY DEF NetInv, TypeOK, network, process
  <2>3. running' \in BOOLEAN
    BY Zenon DEF NetInv, TypeOK, process
  <2>4. tester' \in {"up", "disconnected", "deleted", "checkpointed", "down", "started"}
    BY DEF NetInv, TypeOK, process
  <2>5. disk' \subseteq Request /\ saved' \subseteq Request
    BY DEF NetInv, TypeOK, process
  <2> QED
    BY <1>1, <2>1, <2>2, <2>3, <2>4, <2>5 DEF NetInv, TypeOK, calls, connection
<1>3. RegisteredWhileUp' /\ incarnation' # 0
  BY DEF NetInv, TypeOK, RegisteredWhileUp, network, process
<1>4. durable' = durable
  BY DEF NetInv, TypeOK, durable, network, process
<1>5. (incarnation' = incarnation /\ disk' = disk) \/ incarnation' = incarnation + 1
  BY DEF process
<1>6. ASSUME NEW q \in Request PROVE Stored(q)'
  <2> USE <1>6 DEF NetInv, TypeOK, Stored
  <2>1. target[q] \in Nat /\ target[q] <= incarnation /\ incarnation \in Nat
    OBVIOUS
  <2>2. Stored(q)
    OBVIOUS
  <2> QED
    BY <1>1, <1>4, <1>5, <2>1, <2>2 DEF calls
<1> QED
  BY <1>2, <1>3, <1>6 DEF NetInv

LEMMA StepNet == NetInv /\ [Next]_vars => NetInv'
<1> SUFFICES ASSUME NetInv, [Next]_vars PROVE NetInv'
  OBVIOUS
<1>1. CASE UNCHANGED vars
  BY <1>1 DEF vars, network, calls, connection, process, NetInv, TypeOK, RegisteredWhileUp,
              Stored, durable
<1>2. CASE Next
  BY <1>2, CallsKeep, ThreadKeeps, ReaderKeeps, TesterKeeps DEF Next
<1> QED
  BY <1>1, <1>2

----------------------------------------------------------------------------

\* processReq asks isServerDead after the reply has arrived, and the tester takes the
\* server out of the network before it copies the persister: no Call returns true
\* whose effect the restarted server does not have.
THEOREM AcknowledgedNeverLost == Spec => []AcknowledgedSurvives
<1>1. NetInv => AcknowledgedSurvives
  BY DEF NetInv, Stored, AcknowledgedSurvives
<1> QED
  BY InitNet, StepNet, <1>1, PTL DEF Spec
=============================================================================
