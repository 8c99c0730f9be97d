------------------------------ MODULE ShardCfg ------------------------------
(***************************************************************************)
(* Configurations of the sharded key/value service and the operations that *)
(* make the next one from the last (shardkv1/shardcfg/shardcfg.go): a      *)
(* configuration has a number, the groups that take part, and a group for  *)
(* every shard.  The servers of a group are left out: a group is known by  *)
(* its id.                                                                 *)
(***************************************************************************)
EXTENDS Integers, FiniteSets, FiniteSetsExt

CONSTANTS
    NShards,
    Gid               \* ids of the groups that may ever take part; 0 is no group

ASSUME CfgAssumption == NShards \in Nat \ {0} /\ Gid \subseteq Nat \ {0} /\ IsFiniteSet(Gid)

Shard == 0 .. NShards - 1
NumFirst == 1
Gid1 == 1

ShardConfig == [Num : Nat, Shards : [Shard -> Gid \cup {0}], Groups : SUBSET Gid]

MakeShardConfig == [Num |-> 0, Shards |-> [s \in Shard |-> 0], Groups |-> {}]

count(c, g) == Cardinality({s \in Shard : c.Shards[s] = g})

\* analyze: of several groups with the most or the fewest shards, the one that
\* comes first in the order of the ids.
most(c) == Min({g \in c.Groups : \A h \in c.Groups : count(c, h) <= count(c, g)})
least(c) == Min({g \in c.Groups : \A h \in c.Groups : count(c, g) <= count(c, h)})


\* Rebalance's test that ends the moves.
even(c) == count(c, most(c)) < count(c, least(c)) + 2

give(c, s, g) == [c EXCEPT !.Shards[s] = g]

\* One turn of Rebalance's last loop.
moveOne(c) ==
    IF even(c) THEN c
    ELSE give(c, Min({s \in Shard : c.Shards[s] = most(c)}), least(c))

\* One turn of the loop before: a shard of a group that is gone.
assign(c, s) == IF c.Shards[s] \in c.Groups THEN c ELSE give(c, s, least(c))

\* Rebalance: first the shards of groups that are gone, in order, to the least
\* loaded group; then single moves, no more than there are shards.  The loops
\* make a set of one configuration from a set of one.
Rebalance(c) ==
    LET assigned[n \in 0 .. NShards] ==
            IF n = 0 THEN {c} ELSE {assign(d, n - 1) : d \in assigned[n - 1]}
        turn[n \in 0 .. NShards] ==
            IF n = 0 THEN assigned[NShards] ELSE {moveOne(d) : d \in turn[n - 1]}
    IN  IF c.Groups = {} THEN [c EXCEPT !.Shards = [s \in Shard |-> 0]]
        ELSE CHOOSE d \in turn[NShards] : TRUE

\* Join and Leave refuse a group that is there already, or is not there.
canJoin(c, gids) == gids # {} /\ gids \cap c.Groups = {}
canLeave(c, gids) == gids # {} /\ gids \subseteq c.Groups

JoinBalance(c, gids) ==
    Rebalance([c EXCEPT !.Groups = @ \cup gids, !.Num = @ + 1])

LeaveBalance(c, gids) ==
    Rebalance([c EXCEPT !.Groups = @ \ gids, !.Num = @ + 1])

\* CheckConfig's tests of the shards.
CheckConfig(c) ==
    /\ c.Groups # {} => \A s \in Shard : c.Shards[s] \in c.Groups
    /\ \A g, h \in c.Groups : count(c, g) <= count(c, h) + 1

=============================================================================
