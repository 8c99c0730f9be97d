------------------------------ MODULE ShardGrp ------------------------------
(***************************************************************************)
(* The state machine of a shard group (shardkv1/shardgrp/server.go) and    *)
(* what one request does to it: the Gets and Puts of clients, and the      *)
(* requests of a controller that moves a shard, which carry the number of  *)
(* the configuration it moves to.  A group is replicated like the service  *)
(* of module KVRaft: its requests are executed one after the other.        *)
(***************************************************************************)
EXTENDS ShardCfg

CONSTANTS
    Key,              \* keys, known by their hash
    Value,
    Nil,              \* no state, no reply
    Empty             \* the value "" of a key that does not exist

ASSUME KeyAssumption == Key \subseteq Nat

Key2Shard(key) == key % NShards

absent == [value |-> Empty, version |-> 0]

keysOf(shard) == {k \in Key : Key2Shard(k) = shard}

\* StartServerShardGrp: the first group begins with all the shards.
start(g) ==
    [data |-> [k \in Key |-> absent],
     statuses |-> [s \in Shard |-> IF g = Gid1 THEN "Serving" ELSE "Absent"],
     lastNum |-> [s \in Shard |-> IF g = Gid1 THEN NumFirst ELSE 0]]

\* Mutant: the numbers are not in the snapshot.
Snapshot1(kv) == [data |-> kv.data, statuses |-> kv.statuses, lastNum |-> [s \in Shard |-> 0]]

Snapshot(kv) == [data |-> kv.data, statuses |-> kv.statuses, lastNum |-> kv.lastNum]

\* A server that starts takes everything from the snapshot it finds.
Restore(kv, state) ==
    [kv EXCEPT !.statuses = state.statuses, !.lastNum = state.lastNum, !.data = state.data]

\* What DoOp makes of the state and answers.
outcome(kv, reply) == [kv |-> kv, reply |-> reply]


\* Gets and Puts of a shard are for the group that serves it.
serves(kv, args) == kv.statuses[Key2Shard(args.key)] = "Serving"

DoGet(kv, args) ==
    LET entry == kv.data[args.key]
    IN  outcome(kv,
            IF ~serves(kv, args) THEN [err |-> "ErrWrongGroup"]
            ELSE [err |-> IF entry.version = 0 THEN "ErrNoKey" ELSE "OK",
                  value |-> entry.value, version |-> entry.version])

\* A new key has version 0.
DoPut(kv, args) ==
    LET entry == kv.data[args.key]
    IN  CASE ~serves(kv, args) -> outcome(kv, [err |-> "ErrWrongGroup"])
          [] serves(kv, args) /\ args.version = entry.version ->
               outcome([kv EXCEPT !.data[args.key] =
                            [value |-> args.value, version |-> args.version + 1]],
                       [err |-> "OK"])
          [] serves(kv, args) /\ args.version # entry.version ->
               outcome(kv, [err |-> IF entry.version = 0 THEN "ErrNoKey" ELSE "ErrVersion"])

encodeShard(kv, shard) == [k \in keysOf(shard) |-> kv.data[k]]

\* The state of a group that gives a shard away.
freeze(kv, args) ==
    [kv EXCEPT !.statuses[args.shard] = "Frozen", !.lastNum[args.shard] = args.num]

\* A shard is frozen once for a configuration.  Frozen for it already, the
\* state is sent again; deleted for it already, there is none to send.
DoFreeze(kv, args) ==
    LET seenNum == kv.lastNum[args.shard]
        status == kv.statuses[args.shard]
        ok(state) == [err |-> "OK", state |-> state]
        refused(err) == outcome(kv, [err |-> err, state |-> Nil])
    IN  CASE args.num < seenNum -> refused("ErrVersion")
          [] args.num = seenNum /\ status = "Frozen" -> outcome(kv, ok(encodeShard(kv, args.shard)))
          [] args.num = seenNum /\ status = "Absent" -> outcome(kv, ok(Nil))
          [] args.num = seenNum /\ status = "Serving" -> refused("ErrVersion")
          [] args.num > seenNum /\ status # "Serving" -> refused("ErrWrongGroup")
          [] args.num > seenNum /\ status = "Serving" ->
               outcome(freeze(kv, args), ok(encodeShard(kv, args.shard)))

\* Mutant: an absent shard is installed whatever the number.
installs1(kv, args) ==
    /\ kv.statuses[args.shard] = "Absent"
    /\ args.state # Nil

\* The request is new to a group without the shard: its state is decoded.
installs(kv, args) ==
    /\ args.num > kv.lastNum[args.shard]
    /\ kv.statuses[args.shard] = "Absent"

\* The state replaces what the group has of the shard.
install(kv, args) ==
    [data |-> [k \in Key |-> IF k \in keysOf(args.shard) THEN args.state[k] ELSE kv.data[k]],
     statuses |-> [kv.statuses EXCEPT ![args.shard] = "Serving"],
     lastNum |-> [kv.lastNum EXCEPT ![args.shard] = args.num]]

DoInstall(kv, args) ==
    LET seenNum == kv.lastNum[args.shard]
        err(e) == outcome(kv, [err |-> e])
    IN  CASE installs(kv, args) -> outcome(install(kv, args), [err |-> "OK"])
          [] ~installs(kv, args) /\ args.num < seenNum -> err("ErrVersion")
          [] ~installs(kv, args) /\ args.num = seenNum ->
               err(IF kv.statuses[args.shard] = "Serving" THEN "OK" ELSE "ErrWrongGroup")
          [] ~installs(kv, args) /\ args.num > seenNum -> err("ErrWrongGroup")

\* The state of a group whose shard is served elsewhere.
delete(kv, shard) ==
    [kv EXCEPT !.data = [k \in Key |-> IF k \in keysOf(shard) THEN absent ELSE kv.data[k]],
               !.statuses[shard] = "Absent"]

DoDelete(kv, args) ==
    LET status == kv.statuses[args.shard]
        err(e) == outcome(kv, [err |-> e])
    IN  CASE args.num # kv.lastNum[args.shard] -> err("ErrVersion")
          [] args.num = kv.lastNum[args.shard] /\ status = "Absent" -> err("OK")
          [] args.num = kv.lastNum[args.shard] /\ status = "Serving" -> err("ErrWrongGroup")
          [] args.num = kv.lastNum[args.shard] /\ status = "Frozen" ->
               outcome(delete(kv, args.shard), [err |-> "OK"])

DoOp(kv, args) ==
    CASE args.op = "Get" -> DoGet(kv, args)
      [] args.op = "Put" -> DoPut(kv, args)
      [] args.op = "Freeze" -> DoFreeze(kv, args)
      [] args.op = "Install" -> DoInstall(kv, args)
      [] args.op = "Delete" -> DoDelete(kv, args)

=============================================================================
