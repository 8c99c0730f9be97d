------------------------------ MODULE ShardKV ------------------------------
(***************************************************************************)
(* The sharded key/value service: clients (shardkv1/client.go), controllers*)
(* (shardkv1/shardctrler/shardctrler.go) that record a new configuration,  *)
(* move the shards and publish it, and the groups of module ShardGrp.      *)
(*                                                                         *)
(* Several controllers may be at work on the same or on different changes, *)
(* each on what it once read; they die anywhere and others take over.  A   *)
(* request whose Call fails may still be executed, at any later time.      *)
(*                                                                         *)
(* Grain.  One action per request to a server: the key/value server that   *)
(* keeps the configurations (module KVSrv) and every group (module KVRaft) *)
(* execute a request at once.                                             *)
(***************************************************************************)
EXTENDS ShardGrp

CONSTANTS
    Client,
    Ctrler,           \* controllers
    First,            \* the one that InitConfig is called on
    MaxVersion,       \* bound of the model: versions that callers of Put name
    MaxNum,           \* bound of the model: number of the last configuration
    MaxCalls,         \* bound of the model: Gets and Puts of each client
    MaxFaults         \* bound of the model: failed Calls, restarts of groups, deaths of controllers

VARIABLES
    conf,             \* conf["current"], conf["next"]: configuration and version
    ctl,              \* ctl[i]: where controller i is, and its variables
    group,            \* group[g]: state of the servers of group g
    \* clients
    call,             \* call[c]: arguments of the Get or Put that c is in
    route,            \* route[c]: the group whose clerk it asks
    reply,            \* reply[c]: the reply of that group
    retried,          \* retried[c]: variable of the group clerk's Put
    rerouted,         \* rerouted[c]: variable of Put
    result,           \* result[c]: what the last call of c returned
    \* network, history and bounds
    strays,           \* requests whose Call has failed and that may be executed
    put,              \* put[c]: the call in progress has been performed
    ncalls, faults

clerks == <<call, route, reply, retried, rerouted, result, put, ncalls>>
vars == <<conf, ctl, group, clerks, strays, faults>>

GRP0 == 0             \* the key/value server that keeps the configurations

\* A controller between two calls; off, it has not begun or is dead.
idle == [pc |-> "idle", old |-> MakeShardConfig, version |-> 0, new |-> MakeShardConfig,
         nextVersion |-> 0, todo |-> {}, state |-> [s \in Shard |-> Nil]]
off == [idle EXCEPT !.pc = "off"]

Init ==
    /\ conf = [k \in {"current", "next"} |-> [cfg |-> MakeShardConfig, version |-> 0]]
    /\ ctl = [i \in Ctrler |-> IF i = First THEN idle ELSE off]
    /\ group = [g \in Gid |-> start(g)]
    /\ call = [c \in Client |-> Nil]
    /\ route = [c \in Client |-> GRP0]
    /\ reply = [c \in Client |-> Nil]
    /\ retried = [c \in Client |-> FALSE]
    /\ rerouted = [c \in Client |-> FALSE]
    /\ result = [c \in Client |-> Nil]
    /\ strays = {}
    /\ put = [c \in Client |-> FALSE]
    /\ ncalls = [c \in Client |-> 0]
    /\ faults = 0

fault ==
    /\ faults < MaxFaults
    /\ faults' = faults + 1

----------------------------------------------------------------------------
(* The configurations *)

\* A conditional Put of the key/value server.  A request that is executed after
\* its Call has failed is one that the controller, or its death, comes after: its
\* next attempt finds the version taken, and so does the request after an attempt.
putConf(key, cfg, version) ==
    conf' = IF conf[key].version # version THEN conf
            ELSE [conf EXCEPT ![key] = [cfg |-> cfg, version |-> version + 1]]

\* InitConfig: one key after the other, before anybody else begins.
initConfigKey(key) ==
    /\ conf[key].version = 0
    /\ key = "next" => conf["current"].version > 0
    /\ putConf(key, JoinBalance(MakeShardConfig, {Gid1}), 0)
    /\ UNCHANGED <<ctl, group, clerks, strays, faults>>

initialized == conf["next"].version > 0

current == conf["current"].cfg
next == conf["next"].cfg

----------------------------------------------------------------------------
(* Controllers *)

go(i, rec) == ctl' = [ctl EXCEPT ![i] = rec]
at(i, pc) == ctl[i].pc = pc

moves(old, new) == {s \in Shard : old.Shards[s] # new.Shards[s]}

\* completeConfigChange begins.
completeConfigChange(rec) ==
    LET todo == moves(rec.old, rec.new)
    IN  [rec EXCEPT !.pc = IF todo = {} THEN "publish" ELSE "freeze",
                    !.todo = todo, !.nextVersion = 0]

\* A controller starts with InitController, which reads the current ...
InitController(i) ==
    /\ at(i, "off")
    /\ initialized
    /\ go(i, [idle EXCEPT !.pc = "initNext", !.old = current, !.version = conf["current"].version])
    /\ UNCHANGED <<conf, group, clerks, strays, faults>>

\* Mutant: recovery is left to the next change.
unfinished1(old) == FALSE

unfinished(old) == next.Num = old.Num + 1

\* ... and the next configuration, and completes an unfinished change.
initNext(i) ==
    /\ at(i, "initNext")
    /\ go(i, IF unfinished(ctl[i].old)
             THEN completeConfigChange([ctl[i] EXCEPT !.new = next]) ELSE idle)
    /\ UNCHANGED <<conf, group, clerks, strays, faults>>

\* Query() and a call of ChangeConfigTo: one group joins or leaves.
change(i, g) ==
    /\ at(i, "idle")
    /\ initialized
    /\ current.Num < MaxNum
    /\ \/ /\ canJoin(current, {g})
          /\ go(i, [idle EXCEPT !.pc = "change", !.new = JoinBalance(current, {g})])
       \/ /\ canLeave(current, {g}) /\ current.Groups # {g}
          /\ go(i, [idle EXCEPT !.pc = "change", !.new = LeaveBalance(current, {g})])
    /\ UNCHANGED <<conf, group, clerks, strays, faults>>

\* ChangeConfigTo reads the current configuration, ...
ChangeConfigTo(i) ==
    /\ at(i, "change")
    /\ go(i, IF ctl[i].new.Num # current.Num + 1 THEN idle
             ELSE [ctl[i] EXCEPT !.pc = "changeNext", !.old = current,
                                 !.version = conf["current"].version])
    /\ UNCHANGED <<conf, group, clerks, strays, faults>>

\* ... then the next one, which may be recorded already, ...
changeNext(i) ==
    /\ at(i, "changeNext")
    /\ go(i, CASE next.Num = ctl[i].new.Num ->
                    IF next = ctl[i].new THEN completeConfigChange(ctl[i]) ELSE idle
               [] next.Num # ctl[i].new.Num ->
                    IF next.Num # ctl[i].old.Num THEN idle
                    ELSE [ctl[i] EXCEPT !.pc = "record", !.nextVersion = conf["next"].version])
    /\ UNCHANGED <<conf, group, clerks, strays, faults>>

\* Mutant: the configuration is recorded whatever there is.
record1(i) ==
    /\ at(i, "record")
    /\ putConf("next", ctl[i].new, conf["next"].version)
    /\ go(i, completeConfigChange(ctl[i]))
    /\ UNCHANGED <<group, clerks, strays, faults>>

\* ... and records the new one, ...
record(i) ==
    /\ at(i, "record")
    /\ putConf("next", ctl[i].new, ctl[i].nextVersion)
    /\ go(i, IF ctl[i].nextVersion = conf["next"].version
             THEN completeConfigChange(ctl[i]) ELSE [ctl[i] EXCEPT !.pc = "recheck"])
    /\ UNCHANGED <<group, clerks, strays, faults>>

\* ... or finds out by ErrVersion or ErrMaybe that there is another, perhaps its own.
recheck(i) ==
    /\ at(i, "recheck")
    /\ go(i, IF next = ctl[i].new THEN completeConfigChange(ctl[i]) ELSE idle)
    /\ UNCHANGED <<conf, group, clerks, strays, faults>>

\* The request, if any, that controller i has sent to a group: that of the first
\* move to be done.
requests(i) ==
    LET rec == ctl[i]
        shard == Min(rec.todo)
        to(g, req) == {[to |-> g, req |-> req, clnt |-> Nil, ncall |-> 0]}
    IN  CASE rec.pc = "freeze" ->
               to(rec.old.Shards[shard], [op |-> "Freeze", shard |-> shard, num |-> rec.new.Num])
          [] rec.pc = "install" ->
               to(rec.new.Shards[shard], [op |-> "Install", shard |-> shard, num |-> rec.new.Num,
                                          state |-> rec.state[shard]])
          [] rec.pc = "delete" ->
               to(rec.old.Shards[shard], [op |-> "Delete", shard |-> shard, num |-> rec.new.Num])
          [] OTHER -> {}

\* Mutant: shards are deleted before they are installed.
following1(pc) == [freeze |-> "delete", delete |-> "install", install |-> "publish"][pc]

\* The loop after the loop over the moves in pc.
following(pc) == [freeze |-> "install", install |-> "delete", delete |-> "publish"][pc]

\* The controller's state after a move is done.
moved(rec) ==
    LET todo == rec.todo \ {Min(rec.todo)}
    IN  IF todo # {} THEN [rec EXCEPT !.todo = todo]
        ELSE [rec EXCEPT !.pc = following(@),
                         !.todo = IF following(rec.pc) = "publish" THEN {} ELSE moves(rec.old, rec.new),
                         !.state = IF rec.pc = "install" THEN idle.state ELSE @]

\* The group executes the request; the controller goes on, or gives up.
ask(i) ==
    \E r \in requests(i) : \E out \in {DoOp(group[r.to], r.req)} :
        /\ group' = [group EXCEPT ![r.to] = out.kv]
        /\ go(i, CASE out.reply.err # "OK" -> idle
                   [] out.reply.err = "OK" /\ r.req.op = "Freeze" ->
                        moved([ctl[i] EXCEPT !.state[r.req.shard] = out.reply.state])
                   [] out.reply.err = "OK" /\ r.req.op # "Freeze" -> moved(ctl[i]))
        /\ UNCHANGED <<conf, clerks, strays, faults>>

FreezeShard(i) == at(i, "freeze") /\ ask(i)

InstallShard(i) == at(i, "install") /\ ask(i)

DeleteShard(i) == at(i, "delete") /\ ask(i)

\* Last, the new configuration becomes the current one, unless another has.
publish(i) ==
    /\ at(i, "publish")
    /\ putConf("current", ctl[i].new, ctl[i].version)
    /\ go(i, idle)
    /\ UNCHANGED <<group, clerks, strays, faults>>

\* A Call to a group fails; the group's clerk tries again.
retry(i) ==
    /\ fault
    /\ requests(i) # {}
    /\ strays' = strays \cup requests(i)
    /\ UNCHANGED <<conf, ctl, group, clerks>>

\* A controller dies.
die(i) ==
    /\ ~at(i, "off")
    /\ fault
    /\ go(i, off)
    /\ UNCHANGED <<conf, group, clerks, strays>>

----------------------------------------------------------------------------
(* Groups and network *)

\* The servers of a group are restarted; they find a snapshot.
restart(g) ==
    /\ initialized
    /\ fault
    /\ group' = [group EXCEPT ![g] = Restore(start(g), Snapshot(@))]
    /\ UNCHANGED <<conf, ctl, clerks, strays>>

\* A request whose Call has failed is executed; nobody hears of it.
stray(r) ==
    /\ strays' = strays \ {r}
    /\ \E out \in {DoOp(group[r.to], r.req)} :
           /\ group' = [group EXCEPT ![r.to] = out.kv]
           /\ put' = [c \in Client |->
                  put[c] \/ (r.clnt = c /\ r.ncall = ncalls[c] /\ out.reply.err = "OK")]
    /\ UNCHANGED <<conf, ctl, call, route, reply, retried, rerouted, result, ncalls, faults>>

----------------------------------------------------------------------------
(* Clients *)

GetArgs == [op : {"Get"}, key : Key]
PutArgs == [op : {"Put"}, key : Key, value : Value, version : 0 .. MaxVersion]

\* The group that has the shard of k: the one that serves it or, while none
\* does, one that did.
owner(k) ==
    LET having(status) == {g \in Gid : group[g].statuses[Key2Shard(k)] = status}
    IN  CHOOSE g \in Gid :
            \/ g \in having("Serving")
            \/ having("Serving") = {} /\ g \in having("Frozen")
            \/ having("Serving") \cup having("Frozen") = {}

entry(k) == group[owner(k)].data[k]

\* A caller of Put names 0 or a version that it has read.
begin(c, args) ==
    /\ initialized
    /\ call[c] = Nil
    /\ ncalls[c] < MaxCalls
    /\ args.op = "Put" => args.version <= entry(args.key).version
    /\ ncalls' = [ncalls EXCEPT ![c] = @ + 1]
    /\ call' = [call EXCEPT ![c] = args]
    /\ rerouted' = [rerouted EXCEPT ![c] = FALSE]
    /\ result' = [result EXCEPT ![c] = Nil]
    /\ UNCHANGED <<conf, ctl, group, route, reply, retried, strays, put, faults>>

waiting(c) == call[c] # Nil /\ route[c] # GRP0 /\ reply[c] = Nil

\* Mutant: a client keeps the group that it once found.
query1(c) ==
    /\ call[c] # Nil
    /\ route[c] = GRP0
    /\ route' = [route EXCEPT ![c] = Gid1]
    /\ UNCHANGED <<conf, ctl, group, call, reply, retried, rerouted, result, strays, put, ncalls, faults>>

\* Query() and GidServers: the group of the key's shard.
query(c) ==
    /\ call[c] # Nil
    /\ route[c] = GRP0
    /\ LET gid == current.Shards[Key2Shard(call[c].key)]
       IN  gid \in current.Groups /\ route' = [route EXCEPT ![c] = gid]
    /\ UNCHANGED <<conf, ctl, group, call, reply, retried, rerouted, result, strays, put, ncalls, faults>>

\* The group executes the request, and the reply arrives.
answer(c) ==
    /\ waiting(c)
    /\ \E out \in {DoOp(group[route[c]], call[c])} :
           /\ group' = [group EXCEPT ![route[c]] = out.kv]
           /\ reply' = [reply EXCEPT ![c] = out.reply]
           /\ put' = [put EXCEPT ![c] = @ \/ (call[c].op = "Put" /\ out.reply.err = "OK")]
    /\ UNCHANGED <<conf, ctl, call, route, retried, rerouted, result, strays, ncalls, faults>>

\* The group's clerk goes on with the next server, or has none left.
callFails(c) ==
    /\ waiting(c)
    /\ fault
    /\ strays' = IF call[c].op = "Get" THEN strays
                 ELSE strays \cup {[to |-> route[c], req |-> call[c], clnt |-> c, ncall |-> ncalls[c]]}
    /\ \/ /\ retried' = [retried EXCEPT ![c] = TRUE]
          /\ UNCHANGED <<route, rerouted>>
       \/ /\ retried' = [retried EXCEPT ![c] = FALSE]
          /\ rerouted' = [rerouted EXCEPT ![c] = TRUE]
          /\ route' = [route EXCEPT ![c] = GRP0]
    /\ UNCHANGED <<conf, ctl, group, call, reply, result, put, ncalls>>

\* ErrWrongGroup: ask for the configuration again.
wrongGroup(c) ==
    /\ reply[c] # Nil
    /\ reply[c].err = "ErrWrongGroup"
    /\ reply' = [reply EXCEPT ![c] = Nil]
    /\ route' = [route EXCEPT ![c] = GRP0]
    /\ retried' = [retried EXCEPT ![c] = FALSE]
    /\ rerouted' = [rerouted EXCEPT ![c] = TRUE]
    /\ UNCHANGED <<conf, ctl, group, call, result, strays, put, ncalls, faults>>

\* What the group's clerk and the client make of a reply.
returned(c) ==
    IF call[c].op = "Put" /\ reply[c].err = "ErrVersion" /\ (retried[c] \/ rerouted[c])
    THEN [err |-> "ErrMaybe"] ELSE reply[c]

return(c) ==
    /\ reply[c] # Nil
    /\ reply[c].err # "ErrWrongGroup"
    /\ result' = [result EXCEPT ![c] = returned(c)]
    /\ call' = [call EXCEPT ![c] = Nil]
    /\ route' = [route EXCEPT ![c] = GRP0]
    /\ reply' = [reply EXCEPT ![c] = Nil]
    /\ retried' = [retried EXCEPT ![c] = FALSE]
    /\ rerouted' = [rerouted EXCEPT ![c] = FALSE]
    /\ put' = [put EXCEPT ![c] = FALSE]
    /\ UNCHANGED <<conf, ctl, group, strays, ncalls, faults>>

----------------------------------------------------------------------------

controller(i) ==
    \/ InitController(i) \/ initNext(i)
    \/ ChangeConfigTo(i) \/ changeNext(i) \/ record(i) \/ recheck(i)
    \/ FreezeShard(i) \/ InstallShard(i) \/ DeleteShard(i) \/ publish(i)

clerk(c) == query(c) \/ answer(c) \/ wrongGroup(c) \/ return(c)

Next ==
    \/ \E key \in {"current", "next"} : initConfigKey(key)
    \/ \E i \in Ctrler :
           controller(i) \/ retry(i) \/ die(i) \/ \E g \in Gid : change(i, g)
    \/ \E g \in Gid : restart(g)
    \/ \E r \in strays : stray(r)
    \/ \E c \in Client :
           \/ \E args \in GetArgs \cup PutArgs : begin(c, args)
           \/ clerk(c)
           \/ callFails(c)

Spec == Init /\ [][Next]_vars

\* Controllers and clients keep running, and a controller that died is replaced.
\* Every step of a controller changes ctl, every step of a clerk one of clerks.
Fairness ==
    /\ \A i \in Ctrler : WF_ctl(controller(i))
    /\ \A c \in Client : WF_clerks(clerk(c))

FairSpec == Spec /\ Fairness

----------------------------------------------------------------------------
(* Correctness *)

effect ==
    [c \in Client |->
        IF put[c] THEN [err |-> "OK"]
        ELSE IF reply[c] # Nil /\ reply[c].err # "ErrWrongGroup" THEN reply[c] ELSE Nil]

Map == INSTANCE KVMap
       WITH store <- [k \in Key |-> entry(k)], call <- call, effect <- effect, result <- result

\* Clients, controllers and groups behave like one map on which Get and Put are
\* atomic: a shard on the move is never read or written at the group it leaves,
\* its data arrive unchanged, and only ErrMaybe is in doubt.
ImplementsMap == Map!MapSpec

\* No two groups serve a shard, whatever late Freeze, Install and Delete requests
\* of superseded controllers are executed.
OneServer ==
    \A s \in Shard, g, h \in Gid :
        group[g].statuses[s] = "Serving" /\ group[h].statuses[s] = "Serving" => g = h

\* FreezeShard answers without a state for a shard that is gone already; no group
\* ever decodes such a state (decodeShard would panic on every server).
NeverDecodesNil ==
    \A r \in strays \cup UNION {requests(i) : i \in Ctrler} :
        r.req.op = "Install" /\ r.req.state = Nil
            => ~installs(group[r.to], r.req)

\* While no change is under way, every shard is served by the group that the
\* current configuration names: a configuration is published after its moves.
PublishedIsServed ==
    initialized /\ current.Num = next.Num =>
        \A s \in Shard : group[current.Shards[s]].statuses[s] = "Serving"

\* Controllers that move shards to configurations of the same number move them
\* to the same configuration: the conditional Put of next chooses one.
OneSuccessor ==
    \A i, j \in Ctrler :
        ({ctl[i].pc, ctl[j].pc} \subseteq {"freeze", "install", "delete", "publish"}
            /\ ctl[i].new.Num = ctl[j].new.Num) => ctl[i].new = ctl[j].new


\* A recorded configuration is published, also when the controller that recorded
\* it dies: InitController of its successor completes the change.
ChangeCompletes == []<>(initialized => current = next)

\* Every Get and every Put returns: clients find the group that serves the key.
CallsReturn == \A c \in Client : []<>(call[c] = Nil)

=============================================================================
