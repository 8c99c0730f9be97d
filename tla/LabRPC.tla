------------------------------ MODULE LabRPC ------------------------------
(***************************************************************************)
(* The network under every component of the repository, and how the tests  *)
(* crash and restart a server in it.  A Call goes through the network of   *)
(* the test process (labrpc/labrpc.go), over a multiplexed socket          *)
(* (tester1/sockrpc, tester1/demux) to the process that runs the server    *)
(* (tester1/daemonsrv.go), and its reply comes back the same way, while    *)
(* the tester disables ends, shuts the server down and starts it again     *)
(* from its saved persister (tester1/group.go, srv.go, daemonclnt.go).     *)
(*                                                                         *)
(* Grain.  One action per critical section of the network, of the map of   *)
(* outstanding calls, and per message read or written on the socket.  A    *)
(* handler is the one step in which it stores its effect in the persister. *)
(* One server: connections to different servers share nothing but the ends *)
(* of the caller.                                                          *)
(***************************************************************************)
EXTENDS Naturals

CONSTANTS
    Request,          \* the Calls that are ever made, each on an end of its own
    Peer,             \* those of them that other servers of the group make
    MaxStarts         \* bound of the model: how often the server is started

ASSUME NetAssumption == Peer \subseteq Request /\ MaxStarts \in Nat

VARIABLES
    enabled,          \* Network.enabled, for the end of a Call
    registered,       \* Network.servers: incarnation of the server, 0 for nil
    call,             \* where a Call and its processReq are
    target,           \* the *Server that processReq looked up
    thread,           \* where the goroutine that processReq started is
    closed,           \* incarnations whose callMap in the tester is closed
    drained,          \* those of them whose DemuxClnt.reader has ended
    tester,           \* where the tester is in ShutdownServer or StartServer
    incarnation,      \* how often the server was started
    running,          \* the server's process is alive
    disk,             \* the persister in that process: calls whose effect it has
    saved             \* Server.saved: the persister as the tester keeps it

network == <<enabled, registered>>
calls == <<call, target>>
connection == <<closed, drained>>
process == <<tester, incarnation, running, saved>>
vars == <<network, calls, thread, connection, process, disk>>

CallState == {"new", "sent", "unreachable", "found", "waiting", "checking", "delayed", "ok", "failed"}
ThreadState == {"none", "dispatched", "put", "written", "served", "answered", "returned", "error"}

Init ==
    /\ enabled = [q \in Request |-> TRUE]
    /\ registered = 1
    /\ call = [q \in Request |-> "new"]
    /\ target = [q \in Request |-> 0]
    /\ thread = [q \in Request |-> "none"]
    /\ closed = {}
    /\ drained = {}
    /\ tester = "up"
    /\ incarnation = 1
    /\ running = TRUE
    /\ disk = {}
    /\ saved = {}

goto(q, state) == call' = [call EXCEPT ![q] = state]
moveTo(q, state) == thread' = [thread EXCEPT ![q] = state]

----------------------------------------------------------------------------
(* ClientEnd.Call and Network.processReq *)

\* ClientEnd.Call, or ClientEnd.Forward for a server's own Call: the network's
\* goroutine takes the request from the end's channel and starts processReq.
Call(q) ==
    /\ call[q] = "new"
    /\ goto(q, "sent")
    /\ UNCHANGED <<network, target, thread, connection, process, disk>>

\* readEndnameInfo
readEndnameInfo(q) ==
    /\ call[q] = "sent"
    /\ IF enabled[q] /\ registered # 0
       THEN goto(q, "found") /\ target' = [target EXCEPT ![q] = registered]
       ELSE goto(q, "unreachable") /\ UNCHANGED target
    /\ UNCHANGED <<network, thread, connection, process, disk>>

\* Mutant: nobody answers a Call that finds no server.
dropOnly(q) ==
    /\ call[q] = "found"
    /\ goto(q, "failed")
    /\ UNCHANGED <<network, target, thread, connection, process, disk>>

\* No reply, after a delay; or the request is dropped.
giveUp(q) ==
    /\ call[q] \in {"unreachable", "found"}
    /\ goto(q, "failed")
    /\ UNCHANGED <<network, target, thread, connection, process, disk>>

\* processReq starts the goroutine that calls the server.
dispatch(q) ==
    /\ call[q] = "found"
    /\ goto(q, "waiting")
    /\ moveTo(q, "dispatched")
    /\ UNCHANGED <<network, target, connection, process, disk>>

\* The goroutine returns on ech and processReq takes it.
handlerReturns(q) ==
    /\ call[q] = "waiting"
    /\ thread[q] \in {"returned", "error"}
    /\ goto(q, "checking")
    /\ UNCHANGED <<network, target, thread, connection, process, disk>>

isServerDead(q) == ~enabled[q] \/ registered # target[q]

\* The poll every 100 ms: the server is gone, and the goroutine is left behind.
stopWaiting(q) ==
    /\ call[q] = "waiting"
    /\ isServerDead(q)
    /\ goto(q, "failed")
    /\ UNCHANGED <<network, target, thread, connection, process, disk>>

\* Mutant: a reply that has arrived is passed on in any case.
passOn(q) ==
    /\ call[q] = "checking"
    /\ \/ goto(q, "failed")
       \/ /\ thread[q] = "returned"
          /\ goto(q, "ok") \/ goto(q, "delayed")
    /\ UNCHANGED <<network, target, thread, connection, process, disk>>

\* isServerDead is asked once more; then the reply is dropped, passed on or
\* delayed.
checkReply(q) ==
    /\ call[q] = "checking"
    /\ \/ goto(q, "failed")
       \/ /\ ~isServerDead(q)
          /\ thread[q] = "returned"
          /\ goto(q, "ok") \/ goto(q, "delayed")
    /\ UNCHANGED <<network, target, thread, connection, process, disk>>

\* The reply that longReordering has delayed.
delayedReply(q) ==
    /\ call[q] = "delayed"
    /\ goto(q, "ok")
    /\ UNCHANGED <<network, target, thread, connection, process, disk>>

----------------------------------------------------------------------------
(* RPCClnt and DemuxClnt: the socket between tester and server *)


\* SendReceive enters its channel into the callMap, unless that is closed.
put(q) ==
    /\ thread[q] = "dispatched"
    /\ moveTo(q, IF target[q] \in closed THEN "error" ELSE "put")
    /\ UNCHANGED <<network, calls, connection, process, disk>>

\* SendReceive writes the request and waits, whether WriteCall fails or not.
WriteCall(q) ==
    /\ thread[q] = "put"
    /\ moveTo(q, "written")
    /\ UNCHANGED <<network, calls, connection, process, disk>>

\* The process reads the request and runs the handler.
ServeRequest(q) ==
    /\ thread[q] = "written"
    /\ running /\ target[q] = incarnation
    /\ disk' = disk \cup {q}
    /\ moveTo(q, "served")
    /\ UNCHANGED <<network, calls, connection, process>>

\* The process writes the reply.
writeReply(q) ==
    /\ thread[q] = "served"
    /\ running /\ target[q] = incarnation
    /\ moveTo(q, "answered")
    /\ UNCHANGED <<network, calls, connection, process, disk>>

\* DemuxClnt.reader finds the call by its tag and passes the reply on.
reader(q) ==
    /\ thread[q] = "answered"
    /\ moveTo(q, "returned")
    /\ UNCHANGED <<network, calls, connection, process, disk>>

outstanding(i) == {q \in Request : target[q] = i /\ thread[q] \in {"put", "written", "served"}}

\* What the process has written is read; ReadCall fails and the reader closes
\* the callMap.
readerCloses(i) ==
    /\ i < incarnation \/ ~running
    /\ i \notin closed
    /\ \A q \in Request : target[q] = i => thread[q] # "answered"
    /\ closed' = closed \cup {i}
    /\ UNCHANGED <<network, calls, thread, drained, process, disk>>

\* The reader fails the calls that are outstanding, and ends.
readerEnds(i) ==
    /\ i \in closed \ drained
    /\ drained' = drained \cup {i}
    /\ thread' = [q \in Request |-> IF q \in outstanding(i) THEN "error" ELSE thread[q]]
    /\ UNCHANGED <<network, calls, closed, process, disk>>

----------------------------------------------------------------------------
(* The tester *)

\* Clnt.ConnectTo, DisconnectAll, ServerGrp.Partition: any end, at any time.
Enable(q) ==
    /\ enabled' = [enabled EXCEPT ![q] = ~@]
    /\ UNCHANGED <<registered, calls, thread, connection, process, disk>>

\* ShutdownServer: disconnect from the group, DeleteServer, checkpointPersister
\* and kill.
disconnect ==
    /\ tester = "up"
    /\ tester' = "disconnected"
    /\ enabled' = [q \in Request |-> enabled[q] /\ q \notin Peer]
    /\ UNCHANGED <<registered, calls, thread, connection, incarnation, running, saved, disk>>

DeleteServer ==
    /\ tester = "disconnected"
    /\ tester' = "deleted"
    /\ registered' = 0
    /\ UNCHANGED <<enabled, calls, thread, connection, incarnation, running, saved, disk>>

\* Handlers that are running go on and may still write to the persister, and
\* even replies: CheckpointPersister closes the listener, not the connection.
CheckpointPersister ==
    /\ tester = "deleted"
    /\ tester' = "checkpointed"
    /\ saved' = disk
    /\ UNCHANGED <<network, calls, thread, connection, incarnation, running, disk>>

kill ==
    /\ tester = "checkpointed"
    /\ tester' = "down"
    /\ running' = FALSE
    /\ UNCHANGED <<network, calls, thread, connection, incarnation, saved, disk>>

\* StartServer: the new process gets the saved persister (Init, InitWait) and is
\* then added to the network.
startServer ==
    /\ tester = "down"
    /\ incarnation < MaxStarts
    /\ tester' = "started"
    /\ incarnation' = incarnation + 1
    /\ running' = TRUE
    /\ disk' = saved
    /\ UNCHANGED <<network, calls, thread, connection, saved>>

AddServer ==
    /\ tester = "started"
    /\ tester' = "up"
    /\ registered' = incarnation
    /\ UNCHANGED <<enabled, calls, thread, connection, incarnation, running, saved, disk>>

----------------------------------------------------------------------------

processReq(q) ==
    \/ readEndnameInfo(q) \/ giveUp(q) \/ dispatch(q) \/ handlerReturns(q)
    \/ stopWaiting(q) \/ checkReply(q) \/ delayedReply(q)

SendReceive(q) ==
    \/ put(q) \/ WriteCall(q) \/ ServeRequest(q) \/ writeReply(q)
    \/ reader(q)

ShutdownServer == disconnect \/ DeleteServer \/ CheckpointPersister \/ kill

Next ==
    \/ \E q \in Request : Call(q) \/ processReq(q) \/ SendReceive(q) \/ Enable(q)
    \/ \E i \in 1 .. incarnation : readerCloses(i) \/ readerEnds(i)
    \/ ShutdownServer \/ startServer \/ AddServer

Spec == Init /\ [][Next]_vars

\* Goroutines and processes keep running, and handlers return.
Fairness ==
    /\ \A q \in Request : WF_vars(processReq(q)) /\ WF_vars(SendReceive(q))
    /\ \A i \in 1 .. MaxStarts : WF_vars(i <= incarnation /\ (readerCloses(i) \/ readerEnds(i)))
    /\ WF_vars(DeleteServer \/ CheckpointPersister \/ kill)

FairSpec == Spec /\ Fairness

----------------------------------------------------------------------------
(* Correctness *)

\* Every variable has its type.
TypeOK ==
    /\ enabled \in [Request -> BOOLEAN]
    /\ registered \in Nat
    /\ call \in [Request -> CallState]
    /\ target \in [Request -> Nat]
    /\ thread \in [Request -> ThreadState]
    /\ closed \subseteq Nat /\ drained \subseteq closed
    /\ tester \in {"up", "disconnected", "deleted", "checkpointed", "down", "started"}
    /\ incarnation \in Nat /\ running \in BOOLEAN
    /\ disk \subseteq Request /\ saved \subseteq Request

\* The persister that the server will have when it next runs.
durable == IF tester \in {"checkpointed", "down"} THEN saved ELSE disk

\* A Call that returns true has its effect in the persister that the server
\* keeps: what a handler stores after the tester has copied the persister is
\* lost, and no client is told that it was done.
AcknowledgedSurvives == \A q \in Request : call[q] = "ok" => q \in durable

\* Call returns, whatever happens to the server and its connection: "Call() is
\* guaranteed to return (perhaps after a delay) except if the handler function
\* on the server side does not return".
CallsReturn == \A q \in Request : call[q] = "sent" ~> call[q] \in {"ok", "failed"}


=============================================================================
