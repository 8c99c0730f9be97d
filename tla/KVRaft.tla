------------------------------ MODULE KVRaft ------------------------------
(***************************************************************************)
(* The replicated key/value service: clerks (kvraft1/client.go), servers   *)
(* (kvraft1/server.go) and the replicated state machine between server and *)
(* Raft (kvraft1/rsm/rsm.go).  Clerks send a request to one server after   *)
(* the other, Calls fail, leaders change, servers restart from snapshots.  *)
(*                                                                         *)
(* Raft is what it promises to its service (module Raft checks it): the    *)
(* leader of a term appends to the log of that term; entries of a term are *)
(* committed in the order of that log, and none any more once an entry of  *)
(* a later term is; a server learns late that it was deposed.              *)
(*                                                                         *)
(* Grain.  One action per critical section of Submit, per message that     *)
(* reader takes from applyCh with all that it does with it, and per turn   *)
(* of a clerk's loop.                                                      *)
(***************************************************************************)
EXTENDS Naturals, Sequences, SequencesExt

CONSTANTS
    Client, Key, Value,
    Nil, Empty,       \* as in KVMap
    MaxVersion,       \* bound of the model: versions that callers of Put name
    N,                \* number of servers
    SnapshotEvery,    \* ops after which PersistBytes() reaches maxraftstate
    MaxCalls,         \* bound of the model: Gets and Puts of each client
    MaxFaults         \* bound of the model: failed Calls, new leaders

Server == 0 .. N - 1
Term == 1 .. MaxFaults + 2

VARIABLES
    \* clerks
    call,             \* call[c]: arguments of the Get or Put that c is in
    leader,           \* leader[c]: Clerk.leader
    retried,          \* retried[c]: Put's variable of that name
    result,           \* result[c]: what the last call of c returned
    handlers,         \* the requests on their way, in Submit, or answered
    \* servers
    data,             \* data[s]: KVServer.data
    uniId,            \* uniId[s]: RSM.uniId
    applied,          \* applied[s]: how many committed ops s has executed
    snapshot,         \* snapshot[s]: the persisted snapshot, and the index it covers
    \* Raft
    term, leads,      \* the last election; leads[s]: the term s believes to lead, or 0
    log,              \* log[t]: the ops that the leader of term t was given
    cut,              \* cut[t]: how many of them are committed
    committed,        \* the committed ops, in order
    \* history and bounds
    store,            \* the map after all committed ops
    put,              \* put[c]: the call in progress has been performed
    found,            \* found[c]: what the last attempt of that call found, once committed
    faults, ncalls

clerks == <<call, leader, retried, result, ncalls, faults>>
servers == <<data, uniId, applied, snapshot>>
raft == <<term, leads, log, cut, committed>>
history == <<store, put, found>>
vars == <<clerks, handlers, servers, raft, history>>

absent == [value |-> Empty, version |-> 0]

GetArgs == [op : {"Get"}, key : Key]
PutArgs == [op : {"Put"}, key : Key, value : Value, version : 0 .. MaxVersion]

Init ==
    /\ call = [c \in Client |-> Nil]
    /\ leader = [c \in Client |-> 0]
    /\ retried = [c \in Client |-> FALSE]
    /\ result = [c \in Client |-> Nil]
    /\ handlers = {}
    /\ data = [s \in Server |-> [k \in Key |-> absent]]
    /\ uniId = [s \in Server |-> 0]
    /\ applied = [s \in Server |-> 0]
    /\ snapshot = [s \in Server |-> [index |-> 0, data |-> [k \in Key |-> absent]]]
    /\ term = 1
    /\ leads = [s \in Server |-> IF s = 0 THEN 1 ELSE 0]
    /\ log = [t \in Term |-> <<>>]
    /\ cut = [t \in Term |-> 0]
    /\ committed = <<>>
    /\ store = [k \in Key |-> absent]
    /\ put = [c \in Client |-> FALSE]
    /\ found = [c \in Client |-> Nil]
    /\ faults = 0
    /\ ncalls = [c \in Client |-> 0]

----------------------------------------------------------------------------
(* KVServer.DoOp *)

\* The version test of Put: the version of an existing key, 0 for a new one.
fits(map, args) == args.version = map[args.key].version

DoOp(map, args) ==
    LET entry == map[args.key]
    IN  CASE args.op = "Get" ->
               [err |-> IF entry.version = 0 THEN "ErrNoKey" ELSE "OK",
                value |-> entry.value, version |-> entry.version]
          [] args.op = "Put" /\ fits(map, args) -> [err |-> "OK"]
          [] args.op = "Put" /\ ~fits(map, args) ->
               [err |-> IF entry.version = 0 THEN "ErrNoKey" ELSE "ErrVersion"]

after(map, args) ==
    IF args.op = "Put" /\ fits(map, args)
    THEN [map EXCEPT ![args.key] = [value |-> args.value, version |-> args.version + 1]]
    ELSE map

----------------------------------------------------------------------------
(* Raft.  The first leader is server 0. *)

\* The op that the Submit of handler h has put into the log.
isFor(h, op) == h.stage = "waiting" /\ h.srv = op.me /\ h.id = op.id

noLeader == \A s \in Server : leads[s] # term

\* The fault that a step is, if cond holds.
fault(cond) ==
    /\ cond => faults < MaxFaults
    /\ faults' = IF cond THEN faults + 1 ELSE faults

\* A server wins an election; the old leader may not know.
elect(s) ==
    /\ fault(~noLeader)
    /\ term' = term + 1
    /\ leads' = [leads EXCEPT ![s] = term + 1]
    /\ UNCHANGED <<call, leader, retried, result, ncalls, handlers, servers, log, cut, committed, history>>

\* A server learns of a later term.
deposed(s) ==
    /\ leads[s] \in 1 .. term - 1
    /\ leads' = [leads EXCEPT ![s] = 0]
    /\ UNCHANGED <<clerks, handlers, servers, term, log, cut, committed, history>>

\* An entry of term t is committed: its op has happened.
commit(t) ==
    /\ cut[t] < Len(log[t])
    /\ \A u \in Term : u > t => cut[u] = 0
    /\ cut' = [cut EXCEPT ![t] = @ + 1]
    /\ LET op == log[t][cut[t] + 1]
       IN  /\ committed' = Append(committed, op)
           /\ store' = after(store, op.req)
           /\ put' = [c \in Client |->
                  put[c] \/ (op.clnt = c /\ op.ncall = ncalls[c] /\ store' # store)]
           /\ found' = [c \in Client |->
                  IF \E h \in handlers : h.to = c /\ isFor(h, op)
                  THEN DoOp(store, op.req) ELSE found[c]]
    /\ UNCHANGED <<clerks, handlers, servers, term, leads, log>>

----------------------------------------------------------------------------
(* RSM *)

change(h, g) == handlers' = (handlers \ {h}) \cup {g}

\* Submit returns err or a result, and with it the handler of Get or Put; nobody
\* waits for a handler whose Call has returned.
answer(h, reply) ==
    IF h.to = Nil THEN handlers' = handlers \ {h}
    ELSE change(h, [h EXCEPT !.stage = "answered", !.ch = reply])

\* Mutant: the result channel is registered after Start.
startFirst(h) ==
    \/ /\ h.stage = "new"
       /\ leads[h.srv] # 0
       /\ log' = [log EXCEPT ![leads[h.srv]] = Append(@,
              [me |-> h.srv, id |-> uniId[h.srv], req |-> h.req, clnt |-> h.clnt, ncall |-> h.ncall])]
       /\ uniId' = [uniId EXCEPT ![h.srv] = @ + 1]
       /\ change(h, [h EXCEPT !.stage = "starting", !.id = uniId[h.srv], !.term = leads[h.srv]])
       /\ UNCHANGED <<clerks, data, applied, snapshot, term, leads, cut, committed, history>>
    \/ /\ h.stage = "starting"
       /\ change(h, [h EXCEPT !.stage = "waiting"])
       /\ UNCHANGED <<clerks, servers, raft, history>>
    \/ /\ h.stage = "new"
       /\ leads[h.srv] = 0
       /\ answer(h, [err |-> "ErrWrongLeader"])
       /\ UNCHANGED <<clerks, servers, raft, history>>

\* Submit registers a result channel under a new id and calls Start; nobody
\* knows the id in between.
Submit(h) ==
    /\ h.stage = "new"
    /\ \/ /\ leads[h.srv] # 0
          /\ log' = [log EXCEPT ![leads[h.srv]] = Append(@,
                 [me |-> h.srv, id |-> uniId[h.srv], req |-> h.req, clnt |-> h.clnt, ncall |-> h.ncall])]
          /\ uniId' = [uniId EXCEPT ![h.srv] = @ + 1]
          /\ change(h, [h EXCEPT !.stage = "waiting", !.id = uniId[h.srv], !.term = leads[h.srv]])
       \/ /\ leads[h.srv] = 0
          /\ answer(h, [err |-> "ErrWrongLeader"])
          /\ UNCHANGED <<log, uniId>>
    /\ UNCHANGED <<clerks, data, applied, snapshot, term, leads, cut, committed, history>>

\* Submit's loop: the result, or after 50 ms another term.
submitResult(h) ==
    /\ h.stage = "waiting"
    /\ h.ch # Nil
    /\ answer(h, h.ch.reply)
    /\ UNCHANGED <<clerks, servers, raft, history>>

submitPoll(h) ==
    /\ h.stage = "waiting"
    /\ leads[h.srv] # h.term
    /\ answer(h, [err |-> "ErrWrongLeader"])
    /\ UNCHANGED <<clerks, servers, raft, history>>

waiters(s, op) == {h \in handlers : h.srv = s /\ h.stage = "waiting" /\ isFor(h, op)}

\* reader takes the next command: DoOp, perhaps Snapshot, and the result goes to
\* the channel, which has room for one, if there is one.
readerCommand(s) ==
    /\ applied[s] < Len(committed)
    /\ LET op == committed[applied[s] + 1]
       IN  /\ \A h \in waiters(s, op) : h.ch = Nil
           /\ data' = [data EXCEPT ![s] = after(@, op.req)]
           /\ handlers' = {IF h \in waiters(s, op)
                           THEN [h EXCEPT !.ch = [of |-> op, reply |-> DoOp(data[s], op.req)]]
                           ELSE h : h \in handlers}
    /\ applied' = [applied EXCEPT ![s] = @ + 1]
    /\ snapshot' =
           IF applied'[s] < snapshot[s].index + SnapshotEvery THEN snapshot
           ELSE [snapshot EXCEPT ![s] = [index |-> applied'[s], data |-> data'[s]]]
    /\ UNCHANGED <<clerks, uniId, raft, history>>

\* reader takes a snapshot of r, a leader that has s as a follower.
readerSnapshot(s, r) ==
    /\ leads[s] = 0
    /\ snapshot[r].index > applied[s]
    /\ data' = [data EXCEPT ![s] = snapshot[r].data]
    /\ applied' = [applied EXCEPT ![s] = snapshot[r].index]
    /\ snapshot' = [snapshot EXCEPT ![s] = snapshot[r]]
    /\ UNCHANGED <<clerks, handlers, uniId, raft, history>>

\* Mutant: ids start from 0.
sameIds(s) == uniId' = [uniId EXCEPT ![s] = 0]

\* MakeRSM draws the first id at random: one that no earlier op has.
newIds(s) == UNCHANGED uniId

\* The process dies and its successor starts from the snapshot (StartKVServer).
restart(s) ==
    /\ fault(TRUE)
    /\ data' = [data EXCEPT ![s] = snapshot[s].data]
    /\ applied' = [applied EXCEPT ![s] = snapshot[s].index]
    /\ newIds(s)
    /\ leads' = [leads EXCEPT ![s] = 0]
    /\ handlers' = {h \in handlers : h.srv # s}
    /\ UNCHANGED <<call, leader, retried, result, ncalls, snapshot, term, log, cut, committed, history>>

----------------------------------------------------------------------------
(* Clerk *)

request(c, s, args, n) ==
    [srv |-> s, to |-> c, clnt |-> c, ncall |-> n, req |-> args,
     stage |-> "new", id |-> 0, term |-> 0, ch |-> Nil]

\* A caller of Put names version 0 or one that it has read.
begin(c, args) ==
    /\ call[c] = Nil
    /\ ncalls[c] < MaxCalls
    /\ args.op = "Put" => args.version <= store[args.key].version
    /\ ncalls' = [ncalls EXCEPT ![c] = @ + 1]
    /\ call' = [call EXCEPT ![c] = args]
    /\ retried' = [retried EXCEPT ![c] = FALSE]
    /\ result' = [result EXCEPT ![c] = Nil]
    /\ handlers' = handlers \cup {request(c, leader[c], args, ncalls'[c])}
    /\ UNCHANGED <<leader, faults, servers, raft, history>>

nextServer(s) == (s + 1) % N

\* The loop goes on with the next server; others are the requests that stay.
tryNext(c, others) ==
    /\ leader' = [leader EXCEPT ![c] = nextServer(@)]
    /\ handlers' = others \cup {request(c, nextServer(leader[c]), call[c], ncalls[c])}
    /\ found' = [found EXCEPT ![c] = Nil]
    /\ UNCHANGED <<call, result, ncalls, servers, raft, store, put>>

\* Call returns FALSE: request or reply is lost, the handler is left behind, or
\* the server was restarted.
callFails(c) ==
    /\ call[c] # Nil
    /\ LET mine == {h \in handlers : h.to = c}
           rest == handlers \ mine
       IN  \/ /\ mine = {}
              /\ tryNext(c, rest)
              /\ fault(FALSE)
           \/ /\ mine # {}
              /\ fault(TRUE)
              /\ \/ /\ \A h \in mine : h.stage \in {"new", "answered"}
                    /\ tryNext(c, rest)
                 \/ /\ \A h \in mine : h.stage # "answered"
                    /\ tryNext(c, rest \cup {[h EXCEPT !.to = Nil] : h \in mine})
    /\ retried' = [retried EXCEPT ![c] = TRUE]

\* Mutant: ErrWrongLeader leaves no doubt.
neverStarted(c, h) ==
    /\ h.to = c /\ h.stage = "answered"
    /\ h.ch.err = "ErrWrongLeader"
    /\ tryNext(c, handlers \ {h})
    /\ UNCHANGED <<retried, faults>>

\* Call returns TRUE with ErrWrongLeader.
wrongLeader(c, h) ==
    /\ h.to = c /\ h.stage = "answered"
    /\ h.ch.err = "ErrWrongLeader"
    /\ tryNext(c, handlers \ {h})
    /\ retried' = [retried EXCEPT ![c] = TRUE]
    /\ UNCHANGED faults

\* What Get and Put make of a reply.
returned(c, reply) ==
    IF call[c].op = "Put" /\ reply.err = "ErrVersion" /\ retried[c]
    THEN [err |-> "ErrMaybe"] ELSE reply

return(c, h) ==
    /\ h.to = c /\ h.stage = "answered"
    /\ h.ch.err # "ErrWrongLeader"
    /\ result' = [result EXCEPT ![c] = returned(c, h.ch)]
    /\ call' = [call EXCEPT ![c] = Nil]
    /\ retried' = [retried EXCEPT ![c] = FALSE]
    /\ handlers' = handlers \ {h}
    /\ put' = [put EXCEPT ![c] = FALSE]
    /\ found' = [found EXCEPT ![c] = Nil]
    /\ UNCHANGED <<leader, faults, ncalls, servers, raft, store>>

----------------------------------------------------------------------------

clerk(c) == callFails(c) \/ \E h \in handlers : wrongLeader(c, h) \/ return(c, h)

handler(h) == Submit(h) \/ submitResult(h) \/ submitPoll(h)

Next ==
    \/ \E c \in Client :
           \/ \E args \in GetArgs \cup PutArgs : begin(c, args)
           \/ clerk(c)
    \/ \E h \in handlers : handler(h)
    \/ \E s \in Server : elect(s) \/ deposed(s) \/ restart(s) \/ readerCommand(s)
    \/ \E s, r \in Server : readerSnapshot(s, r)
    \/ \E t \in Term : commit(t)

Spec == Init /\ [][Next]_vars

\* Goroutines keep running; Raft elects a leader while there is none, tells the
\* deposed and commits what a leader that stays was given.
Fairness ==
    /\ \A c \in Client :
           /\ WF_vars(clerk(c) /\ UNCHANGED faults)
           /\ WF_vars(\E h \in handlers : h.to = c /\ handler(h))
    /\ \A s \in Server : WF_vars(deposed(s)) /\ WF_vars(readerCommand(s))
    /\ WF_vars(\E s \in Server : noLeader /\ elect(s))
    /\ \A t \in Term : WF_vars(commit(t))

FairSpec == Spec /\ Fairness

----------------------------------------------------------------------------
(* Correctness *)

effect == [c \in Client |-> IF put[c] THEN [err |-> "OK"] ELSE found[c]]

Map == INSTANCE KVMap WITH store <- store, call <- call, effect <- effect, result <- result

\* Clerks, servers and log behave like one map on which Get and Put are atomic,
\* whichever servers a request was sent to, lost at or executed on after its
\* clerk gave up: a Put is performed at most once and only ErrMaybe is in doubt.
ImplementsMap == Map!MapSpec

\* A Submit that gets a result gets the result of its own op: ids are not used
\* again, not even by the successor of a server that replays its old log.
OwnResult ==
    \A h \in handlers :
        h.stage = "waiting" /\ h.ch # Nil => h.ch.of.clnt = h.clnt /\ h.ch.of.ncall = h.ncall

\* Every Get and every Put returns, once the leader stays: the reader is never
\* stuck with a result that nobody takes, and no result passes its waiter by.
CallsReturn == \A c \in Client : call[c] # Nil ~> call[c] = Nil

=============================================================================
