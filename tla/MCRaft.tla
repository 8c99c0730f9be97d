------------------------------ MODULE MCRaft ------------------------------
(* Instances of Raft for TLC. *)
EXTENDS Raft, TLC

CONSTANTS s1, s2, s3, c1, c2

\* Which server may stand for which term.
Alone1 == (s1 :> {1}) @@ (s2 :> {}) @@ (s3 :> {})
Rivals2 == (s1 :> 1 .. 2) @@ (s2 :> 1 .. 2) @@ (s3 :> {})
Alone3 == (s1 :> {}) @@ (s2 :> {3}) @@ (s3 :> {})
Turns34 == (s1 :> {3}) @@ (s2 :> {4}) @@ (s3 :> {})

\* Clients of different servers send different commands.
OwnRequests == (s1 :> {c1}) @@ (s2 :> {c2}) @@ (s3 :> {})

\* The group restarts from the logs that the leaders of terms 1 and 2 left: s1
\* led term 1 with the votes of s1 and s3, appended n entries, and replicated p
\* of them to s2 and q to s3; s2 led term 2 with the votes of s2 and s3 and
\* appended m entries that nobody else has; s1 has heard of term 2.
LeftBehind(n, p, q, m) ==
    LET entries(k, term, c) == [x \in 1 .. k |-> [term |-> term, command |-> c]]
        saved(tail, vote) == [currentTerm |-> 2, voteFor |-> vote, log |-> emptyLog \o tail,
                              logOffset |-> 0, snapshot |-> <<>>]
    IN  (s1 :> saved(entries(n, 1, c1), Nil)) @@
        (s2 :> saved(entries(p, 1, c1) \o entries(m, 2, c2), s2)) @@
        (s3 :> saved(entries(q, 1, c1), s2))

DivergedInit ==
    \E n, p, q, m \in 0 .. MaxIndex :
        /\ q <= p /\ p <= n /\ p + m <= MaxIndex
        /\ persister = LeftBehind(n, p, q, m)
        /\ currentTerm = [i \in Server |-> persister[i].currentTerm]
        /\ voteFor = [i \in Server |-> persister[i].voteFor]
        /\ log = [i \in Server |-> persister[i].log]
        /\ role = [i \in Server |-> "FOLLOWER"]
        /\ logOffset = [i \in Server |-> 0]
        /\ snapshot = [i \in Server |-> <<>>]
        /\ commitIndex = [i \in Server |-> 0]
        /\ lastApplied = [i \in Server |-> 0]
        /\ nextIndex = [i \in Server |-> [j \in Server |-> 0]]
        /\ matchIndex = [i \in Server |-> [j \in Server |-> 0]]
        /\ pendingSnapshot = [i \in Server |-> Nil]
        /\ supporters = [i \in Server |-> {}]
        /\ worker = [i \in Server |-> [j \in Server |-> Nil]]
        /\ applyMsg = [i \in Server |-> Nil]
        /\ service = [i \in Server |-> <<>>]
        /\ voteRequests = {} /\ voteReplies = {} /\ late = {}

DivergedSpec == DivergedInit /\ [][Next]_vars
FairDivergedSpec == DivergedSpec /\ Fairness

\* Cursors are read on leaders only and votes on candidates (and in Ballots on
\* leaders); leaderInit and beginElection overwrite what was left in them.
LiveState ==
    <<electionVars, logVars, commitIndex, lastApplied, persister, worker,
      applyVars, voteVars, late,
      [i \in Server |-> IF role[i] = "LEADER" THEN <<nextIndex[i], matchIndex[i]>> ELSE <<>>],
      [i \in Server |-> IF role[i] # "FOLLOWER" THEN supporters[i] ELSE {}]>>
=============================================================================
