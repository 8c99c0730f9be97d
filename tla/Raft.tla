------------------------------- MODULE Raft -------------------------------
(***************************************************************************)
(* One Raft group of SimpleKV (raft1/raft.go): elections, log replication  *)
(* with fast back-up, commitment, persistence and restart, log compaction, *)
(* snapshot installation and delivery to the service.                      *)
(*                                                                         *)
(* Grain.  Every critical section under rf.mu is one action.  A server     *)
(* handles an RPC in one such section, and its caller handles the reply in *)
(* another.  Goroutines keep what they carry between two sections in       *)
(* variables: the RPC a replication worker waits for (worker), the message *)
(* the applier is blocked on (applyMsg), the votes of the running election *)
(* (supporters).                                                           *)
(*                                                                         *)
(* Abstractions.                                                           *)
(*  - Time: an election deadline may have passed at any moment, and an RPC *)
(*    may time out at any moment.                                          *)
(*  - replicateCh: startHeartbeat signals every worker of a leader for     *)
(*    ever, so a worker is able to start a round at any moment.            *)
(*  - The service behind applyCh is the sequence of commands it executed;  *)
(*    snapshot data is such a sequence.                                    *)
(*  - Network: a message that is never delivered is lost; messages are     *)
(*    delivered in any order.                                              *)
(***************************************************************************)
EXTENDS Integers, Sequences, FiniteSets

CONSTANTS
    Server,           \* the peers of the group
    Command,          \* commands of the state machine
    Nil,              \* voteFor = -1, "no RPC", "no message", empty command
    \* Bounds of the model, which the code does not have:
    ElectionTerms,    \* ElectionTerms[i]: terms for which i may stand
    Requests,         \* Requests[i]: commands that clients pass to Start at i
    MaxIndex,         \* Start is called while the log ends below this index
    MaxRounds,        \* replication RPCs that are awaited at the same time
    MaxLate,          \* timed-out requests still travelling
    CrashServers,     \* servers that may crash and restart
    ApplyServers,     \* servers whose applier gets to run
    CompactServers    \* servers whose service asks for log compaction

ASSUME ServerAssumption == IsFiniteSet(Server)
ASSUME NilAssumption == Nil \notin Server
ASSUME BoundAssumption == {MaxIndex, MaxRounds, MaxLate} \subseteq Nat

VARIABLES
    currentTerm, voteFor, role,         \* Raft.currentTerm, voteFor, role
    log, logOffset, snapshot,           \* log[i][1] stands for index logOffset[i]
    commitIndex, lastApplied,
    nextIndex, matchIndex,
    pendingSnapshot,                    \* InstallSnapshot's hand-over to applier
    persister,                          \* what is on stable storage
    supporters,                         \* peers counted in the running election
    worker,                             \* worker[i][j]: the RPC i awaits from j
    applyMsg,                           \* the message applier is sending
    service,                            \* commands executed by the service
    voteRequests, voteReplies,          \* RequestVote RPCs in the network
    late                                \* requests whose caller gave up waiting

electionVars == <<currentTerm, voteFor, role>>
logVars      == <<log, logOffset, snapshot>>
applyVars    == <<pendingSnapshot, applyMsg, service>>
leaderVars   == <<nextIndex, matchIndex>>
voteVars     == <<voteRequests, voteReplies>>
vars == <<electionVars, logVars, commitIndex, lastApplied, leaderVars,
          persister, supporters, worker, applyVars, voteVars, late>>

----------------------------------------------------------------------------
(* Data *)

LogEntry == [term : Nat, command : Command \cup {Nil}]

RequestVoteArgs ==
    [term : Nat, candidate : Server, peer : Server,
     lastLogIndex : Nat, lastLogTerm : Nat,
     live : BOOLEAN]                    \* the calling goroutine still exists

RequestVoteReply ==
    [term : Nat, granted : BOOLEAN, peer : Server, candidate : Server,
     electionTerm : Nat]                \* the term the goroutine captured

AppendEntryArgs ==
    [kind : {"append"}, term : Nat, prevLogIndex : Nat, prevLogTerm : Nat,
     entries : Seq(LogEntry), leaderCommit : Nat]

InstallSnapshotArgs ==
    [kind : {"snapshot"}, term : Nat, lastIncludedIndex : Nat,
     lastIncludedTerm : Nat, data : Seq(Command \cup {Nil})]

AppendEntryReply ==
    [term : Nat, success : BOOLEAN, xterm : Nat \cup {-1},
     xindex : Nat, xlen : Nat]

InstallSnapshotReply == [term : Nat]

ReplicationArgs == AppendEntryArgs \cup InstallSnapshotArgs

\* What a worker holds while it waits: the request, and the reply once the
\* peer has handled the request (Nil before that).
ReplicationRPC ==
    [args : AppendEntryArgs, reply : AppendEntryReply \cup {Nil}] \cup
    [args : InstallSnapshotArgs, reply : InstallSnapshotReply \cup {Nil}]

LateRequest == [peer : Server, args : ReplicationArgs]

ApplyMsg == [kind : {"command"}, index : Nat, command : Command \cup {Nil}]
                \cup [kind : {"snapshot"}, index : Nat, data : Seq(Command \cup {Nil})]

PersistedState ==
    [currentTerm : Nat, voteFor : Server \cup {Nil}, log : Seq(LogEntry) \ {<<>>},
     logOffset : Nat, snapshot : Seq(Command \cup {Nil})]

PendingSnapshot == [index : Nat, data : Seq(Command \cup {Nil})]

----------------------------------------------------------------------------
(* Logical log indexes, as opposed to positions in the slice rf.log *)

lastLogIndex(i) == logOffset[i] + Len(log[i]) - 1

\* Position in log[i] of a logical index; the sequence starts at 1.
logSliceIndex(i, index) == index - logOffset[i] + 1

logTerm(i, index) == log[i][logSliceIndex(i, index)].term

\* Mutant: half of the servers are enough.
halfIsEnough(n) == n >= Cardinality(Server) \div 2

IsMajority(n) == n >= (Cardinality(Server) \div 2) + 1

\* Mutant: every candidate counts as up to date.
anyLogIsUpToDate(i, args) == TRUE

candidateLogIsUpToDate(i, args) ==
    LET myLastTerm == logTerm(i, lastLogIndex(i))
    IN  IF args.lastLogTerm # myLastTerm
        THEN args.lastLogTerm > myLastTerm
        ELSE args.lastLogIndex >= lastLogIndex(i)

\* Mutant: the state of a handler is not saved.
forgetToPersist(i) == UNCHANGED persister

\* persist(): the state a handler leaves behind, saved with the snapshot in
\* one atomic Save.
persist(i) ==
    persister' = [persister EXCEPT ![i] =
        [currentTerm |-> currentTerm'[i], voteFor |-> voteFor'[i], log |-> log'[i],
         logOffset |-> logOffset'[i], snapshot |-> snapshot'[i]]]

----------------------------------------------------------------------------
(* Initial state: Make on an empty persister *)

emptyLog == <<[term |-> 0, command |-> Nil]>>

Init ==
    /\ currentTerm = [i \in Server |-> 0]
    /\ voteFor = [i \in Server |-> Nil]
    /\ role = [i \in Server |-> "FOLLOWER"]
    /\ log = [i \in Server |-> emptyLog]
    /\ logOffset = [i \in Server |-> 0]
    /\ snapshot = [i \in Server |-> <<>>]
    /\ commitIndex = [i \in Server |-> 0]
    /\ lastApplied = [i \in Server |-> 0]
    /\ nextIndex = [i \in Server |-> [j \in Server |-> 0]]
    /\ matchIndex = [i \in Server |-> [j \in Server |-> 0]]
    /\ pendingSnapshot = [i \in Server |-> Nil]
    /\ persister = [i \in Server |->
            [currentTerm |-> 0, voteFor |-> Nil, log |-> emptyLog,
             logOffset |-> 0, snapshot |-> <<>>]]
    /\ supporters = [i \in Server |-> {}]
    /\ worker = [i \in Server |-> [j \in Server |-> Nil]]
    /\ applyMsg = [i \in Server |-> Nil]
    /\ service = [i \in Server |-> <<>>]
    /\ voteRequests = {}
    /\ voteReplies = {}
    /\ late = {}

----------------------------------------------------------------------------
(* Elections *)

\* ticker, beginElectionLocked and the goroutines of sendRequestVotes: the
\* deadline passed on a server that is not leader.
beginElection(i) ==
    /\ role[i] # "LEADER"
    /\ currentTerm[i] + 1 \in ElectionTerms[i]
    /\ role' = [role EXCEPT ![i] = "CANDIDATE"]
    /\ currentTerm' = [currentTerm EXCEPT ![i] = @ + 1]
    /\ voteFor' = [voteFor EXCEPT ![i] = i]
    /\ supporters' = [supporters EXCEPT ![i] = {i}]
    /\ UNCHANGED logVars
    /\ persist(i)
    /\ voteRequests' = voteRequests \cup
           {[term |-> currentTerm[i] + 1, candidate |-> i, peer |-> j,
             lastLogIndex |-> lastLogIndex(i),
             lastLogTerm |-> logTerm(i, lastLogIndex(i)),
             live |-> TRUE] : j \in Server \ {i}}
    /\ UNCHANGED <<commitIndex, lastApplied, leaderVars, worker, applyVars,
                   voteReplies, late>>

\* leaderInit, with the change of role that precedes each call of it.
leaderInit(i) ==
    /\ role' = [role EXCEPT ![i] = "LEADER"]
    /\ nextIndex' = [nextIndex EXCEPT ![i] = [j \in Server |-> lastLogIndex(i) + 1]]
    /\ matchIndex' = [matchIndex EXCEPT ![i] =
           [j \in Server |-> IF j = i THEN lastLogIndex(i) ELSE 0]]

\* The single-server branch of sendRequestVotes: its own vote is a majority.
winAlone(i) ==
    /\ role[i] = "CANDIDATE"
    /\ IsMajority(Cardinality(supporters[i]))
    /\ leaderInit(i)
    /\ UNCHANGED <<currentTerm, voteFor, logVars, commitIndex, lastApplied,
                   persister, supporters, worker, applyVars, voteVars, late>>

\* A reply with a higher term: the code repeated after every RPC.
stepDown(i, term) ==
    /\ currentTerm' = [currentTerm EXCEPT ![i] = term]
    /\ voteFor' = [voteFor EXCEPT ![i] = Nil]
    /\ role' = [role EXCEPT ![i] = "FOLLOWER"]
    /\ UNCHANGED logVars
    /\ persist(i)

\* Handler of RequestVote at args.peer.
RequestVote(args) ==
    LET i == args.peer
        rises == args.term > currentTerm[i]
        granted == /\ args.term >= currentTerm[i]
                   /\ rises \/ voteFor[i] \in {Nil, args.candidate}
                   /\ candidateLogIsUpToDate(i, args)
    IN  /\ currentTerm' = [currentTerm EXCEPT ![i] = IF rises THEN args.term ELSE @]
        /\ role' = [role EXCEPT ![i] = IF rises THEN "FOLLOWER" ELSE @]
        /\ voteFor' = [voteFor EXCEPT ![i] =
               IF granted THEN args.candidate ELSE IF rises THEN Nil ELSE @]
        /\ UNCHANGED logVars
        /\ IF rises \/ granted THEN persist(i) ELSE UNCHANGED persister
        /\ voteRequests' = voteRequests \ {args}
        /\ IF args.live
           THEN voteReplies' = voteReplies \cup
                    {[term |-> currentTerm'[i], granted |-> granted, peer |-> i,
                      candidate |-> args.candidate, electionTerm |-> args.term]}
           ELSE UNCHANGED voteReplies
        /\ UNCHANGED <<commitIndex, lastApplied, leaderVars, supporters, worker,
                       applyVars, late>>

\* The rest of the goroutine of sendRequestVotes, once its Call returned TRUE.
voteReplyHigherTerm(reply) ==
    /\ reply.term > currentTerm[reply.candidate]
    /\ stepDown(reply.candidate, reply.term)
    /\ voteReplies' = voteReplies \ {reply}
    /\ UNCHANGED <<commitIndex, lastApplied, leaderVars, supporters, worker,
                   applyVars, voteRequests, late>>

voteReplyIgnored(reply) ==
    LET i == reply.candidate
    IN  /\ reply.term <= currentTerm[i]
        /\ \/ role[i] # "CANDIDATE"
           \/ currentTerm[i] # reply.electionTerm
           \/ ~reply.granted
        /\ voteReplies' = voteReplies \ {reply}
        /\ UNCHANGED <<electionVars, logVars, commitIndex, lastApplied, leaderVars,
                       persister, supporters, worker, applyVars, voteRequests, late>>

\* Mutant: a vote counts whatever term it was asked for.
countStaleVote(reply) ==
    LET i == reply.candidate
    IN  /\ reply.term <= currentTerm[i]
        /\ role[i] = "CANDIDATE"
        /\ reply.granted
        /\ supporters' = [supporters EXCEPT ![i] = @ \cup {reply.peer}]
        /\ IF IsMajority(Cardinality(supporters'[i]))
           THEN leaderInit(i)
           ELSE UNCHANGED <<role, leaderVars>>
        /\ voteReplies' = voteReplies \ {reply}
        /\ UNCHANGED <<currentTerm, voteFor, logVars, commitIndex, lastApplied,
                       persister, worker, applyVars, voteRequests, late>>

voteReplyGranted(reply) ==
    LET i == reply.candidate
    IN  /\ reply.term <= currentTerm[i]
        /\ role[i] = "CANDIDATE"
        /\ currentTerm[i] = reply.electionTerm
        /\ reply.granted
        /\ supporters' = [supporters EXCEPT ![i] = @ \cup {reply.peer}]
        /\ IF IsMajority(Cardinality(supporters'[i]))
           THEN leaderInit(i)
           ELSE UNCHANGED <<role, leaderVars>>
        /\ voteReplies' = voteReplies \ {reply}
        /\ UNCHANGED <<currentTerm, voteFor, logVars, commitIndex, lastApplied,
                       persister, worker, applyVars, voteRequests, late>>

----------------------------------------------------------------------------
(* Log replication: the leader *)

\* Start, on a leader (elsewhere it changes nothing).
Start(i, command) ==
    /\ command \in Requests[i]
    /\ role[i] = "LEADER"
    /\ lastLogIndex(i) < MaxIndex
    /\ log' = [log EXCEPT ![i] =
           Append(@, [term |-> currentTerm[i], command |-> command])]
    /\ matchIndex' = [matchIndex EXCEPT ![i][i] = lastLogIndex(i) + 1]
    /\ nextIndex' = [nextIndex EXCEPT ![i][i] = lastLogIndex(i) + 2]
    /\ UNCHANGED <<currentTerm, voteFor, logOffset, snapshot>>
    /\ persist(i)
    /\ UNCHANGED <<role, commitIndex, lastApplied, supporters, worker, applyVars,
                   voteVars, late>>

\* beginHeartbeat.  Go's bounds checks require the previous index and the
\* first entry sent to lie in the log (or just behind its end).
beginHeartbeat(i, j) ==
    LET next == nextIndex[i][j]
    IN  [kind |-> "append", term |-> currentTerm[i], prevLogIndex |-> next - 1,
         prevLogTerm |-> logTerm(i, next - 1),
         entries |-> SubSeq(log[i], logSliceIndex(i, next), Len(log[i])),
         leaderCommit |-> commitIndex[i]]

beginInstallSnapshot(i) ==
    [kind |-> "snapshot", term |-> currentTerm[i],
     lastIncludedIndex |-> logOffset[i],
     lastIncludedTerm |-> logTerm(i, logOffset[i]), data |-> snapshot[i]]

\* replicationWorker: one round for peer j starts.
replicate(i, j) ==
    /\ role[i] = "LEADER"
    /\ worker[i][j] = Nil
    /\ Cardinality({p \in Server \X Server : worker[p[1]][p[2]] # Nil}) < MaxRounds
    /\ \/ /\ nextIndex[i][j] <= logOffset[i]
          /\ worker' = [worker EXCEPT ![i][j] =
                 [args |-> beginInstallSnapshot(i), reply |-> Nil]]
       \/ /\ nextIndex[i][j] \in logOffset[i] + 1 .. lastLogIndex(i) + 1
          /\ worker' = [worker EXCEPT ![i][j] =
                 [args |-> beginHeartbeat(i, j), reply |-> Nil]]
    /\ UNCHANGED <<electionVars, logVars, commitIndex, lastApplied, leaderVars,
                   persister, supporters, applyVars, voteVars, late>>

\* The worker stops waiting: replicationRPCTimeout passed, or Call returned
\* FALSE.  Its request may still be travelling; identical requests of later
\* rounds may be too, so it stays deliverable.
replicationTimeout(i, j) ==
    /\ worker[i][j] # Nil
    /\ worker' = [worker EXCEPT ![i][j] = Nil]
    /\ \/ UNCHANGED late
       \/ /\ worker[i][j].reply = Nil
          /\ late' = late \cup {[peer |-> j, args |-> worker[i][j].args]}
          /\ Cardinality(late') <= MaxLate
    /\ UNCHANGED <<electionVars, logVars, commitIndex, lastApplied, leaderVars,
                   persister, supporters, applyVars, voteVars>>

\* Mutant: entries of earlier terms are committed by counting, too.
commitAnyTerm(i, match) ==
    LET committable ==
            {N \in commitIndex[i] + 1 .. lastLogIndex(i) :
                IsMajority(Cardinality({j \in Server : match[j] >= N}))}
    IN  \/ committable = {} /\ UNCHANGED commitIndex
        \/ \E N \in committable :
               /\ \A M \in committable : M <= N
               /\ commitIndex' = [commitIndex EXCEPT ![i] = N]

\* pushForwardLocked, with the matchIndex of the end of the critical section:
\* the highest index of the current term that a majority stores.
pushForward(i, match) ==
    LET committable ==
            {N \in commitIndex[i] + 1 .. lastLogIndex(i) :
                /\ logTerm(i, N) = currentTerm[i]
                /\ IsMajority(Cardinality({j \in Server : match[j] >= N}))}
    IN  \/ committable = {} /\ UNCHANGED commitIndex
        \/ \E N \in committable :
               /\ \A M \in committable : M <= N
               /\ commitIndex' = [commitIndex EXCEPT ![i] = N]

\* Mutant: the loop signals the workers but does not look for commits.
heartbeatOnly(i) ==
    UNCHANGED vars

\* One turn of startHeartbeat's endless loop.
startHeartbeat(i) ==
    /\ IF role[i] = "LEADER" THEN pushForward(i, matchIndex[i]) ELSE UNCHANGED commitIndex
    /\ UNCHANGED <<electionVars, logVars, lastApplied, leaderVars, persister,
                   supporters, worker, applyVars, voteVars, late>>

\* The rest of replicationWorker's round, once the result arrived in time.
replyHigherTerm(i, j) ==
    /\ worker[i][j].reply.term > currentTerm[i]
    /\ stepDown(i, worker[i][j].reply.term)
    /\ UNCHANGED <<commitIndex, leaderVars>>

replyIgnored(i, j) ==
    /\ worker[i][j].reply.term <= currentTerm[i]
    /\ role[i] # "LEADER" \/ currentTerm[i] # worker[i][j].args.term
    /\ UNCHANGED <<electionVars, logVars, persister, commitIndex, leaderVars>>

\* The reply answers a request of the term that i still leads.
replyIsCurrent(i, j) ==
    /\ worker[i][j].reply.term <= currentTerm[i]
    /\ role[i] = "LEADER"
    /\ currentTerm[i] = worker[i][j].args.term

\* Neither matchIndex nor nextIndex ever moves back on an acknowledgement.
acknowledge(i, j, index) ==
    /\ matchIndex' = [matchIndex EXCEPT ![i][j] = IF index > @ THEN index ELSE @]
    /\ nextIndex' = [nextIndex EXCEPT ![i][j] = IF index + 1 > @ THEN index + 1 ELSE @]

snapshotAcknowledged(i, j) ==
    /\ worker[i][j].args.kind = "snapshot"
    /\ replyIsCurrent(i, j)
    /\ acknowledge(i, j, worker[i][j].args.lastIncludedIndex)
    /\ UNCHANGED <<electionVars, logVars, persister, commitIndex>>

\* Mutant: everything in the log when the reply arrives counts as stored.
acknowledgeWholeLog(i, j) ==
    LET args == worker[i][j].args
    IN  /\ args.kind = "append"
        /\ replyIsCurrent(i, j)
        /\ worker[i][j].reply.success
        /\ acknowledge(i, j, lastLogIndex(i))
        /\ pushForward(i, matchIndex'[i])
        /\ UNCHANGED <<electionVars, logVars, persister>>

entriesAcknowledged(i, j) ==
    LET args == worker[i][j].args
    IN  /\ args.kind = "append"
        /\ replyIsCurrent(i, j)
        /\ worker[i][j].reply.success
        /\ acknowledge(i, j, args.prevLogIndex + Len(args.entries))
        /\ pushForward(i, matchIndex'[i])
        /\ UNCHANGED <<electionVars, logVars, persister>>

\* Mutant: the test lastIndex >= 0 is missing.
probeFromZero(i, reply) ==
    LET ofTerm == {k \in logOffset[i] .. lastLogIndex(i) : logTerm(i, k) = reply.xterm}
    IN  IF reply.xterm = -1 THEN {reply.xlen}
        ELSE IF ofTerm = {} THEN {0}
        ELSE {k + 1 : k \in {k \in ofTerm : \A l \in ofTerm : l <= k}}


\* Where the next probe starts: right behind the follower's log, behind i's
\* last entry of the conflicting term, or at the follower's first one.
nextProbe(i, reply) ==
    LET ofTerm == {k \in logOffset[i] .. lastLogIndex(i) : logTerm(i, k) = reply.xterm}
    IN  IF reply.xterm = -1 THEN {reply.xlen}
        ELSE IF ofTerm = {} THEN {reply.xindex}
        ELSE {k + 1 : k \in {k \in ofTerm : \A l \in ofTerm : l <= k}}

entriesRejected(i, j) ==
    LET args == worker[i][j].args
        stale == \/ nextIndex[i][j] # args.prevLogIndex + 1
                 \/ nextIndex[i][j] <= matchIndex[i][j] + 1
    IN  /\ args.kind = "append"
        /\ replyIsCurrent(i, j)
        /\ ~worker[i][j].reply.success
        /\ \/ stale /\ UNCHANGED nextIndex
           \/ /\ ~stale
              /\ \E next \in nextProbe(i, worker[i][j].reply) :
                     nextIndex' = [nextIndex EXCEPT ![i][j] = next]
        /\ UNCHANGED <<electionVars, logVars, persister, commitIndex, matchIndex>>

replicationReply(i, j) ==
    /\ worker[i][j] # Nil
    /\ worker[i][j].reply # Nil
    /\ \/ replyHigherTerm(i, j)
       \/ replyIgnored(i, j)
       \/ snapshotAcknowledged(i, j)
       \/ entriesAcknowledged(i, j)
       \/ entriesRejected(i, j)
    /\ worker' = [worker EXCEPT ![i][j] = Nil]
    /\ UNCHANGED <<lastApplied, supporters, applyVars, voteVars, late>>

----------------------------------------------------------------------------
(* Log replication: the follower *)

\* What AppendEntry and InstallSnapshot do first when args.term is current.
followTerm(i, args) ==
    /\ currentTerm' = [currentTerm EXCEPT ![i] = args.term]
    /\ voteFor' = [voteFor EXCEPT ![i] = IF args.term > currentTerm[i] THEN Nil ELSE @]
    /\ role' = [role EXCEPT ![i] = "FOLLOWER"]

\* Mutant: the term of the previous entry is not compared.
previousIndexExists(i, args) == args.prevLogIndex \in logOffset[i] .. lastLogIndex(i)

\* The follower's log contains the entry that precedes args.entries.
previousMatches(i, args) ==
    /\ args.prevLogIndex \in logOffset[i] .. lastLogIndex(i)
    /\ logTerm(i, args.prevLogIndex) = args.prevLogTerm

\* Entries missing from the log, or in conflict with it.
newEntries(i, args) ==
    {k \in 1 .. Len(args.entries) :
        \/ args.prevLogIndex + k > lastLogIndex(i)
        \/ logTerm(i, args.prevLogIndex + k) # args.entries[k].term}

\* Mutant: the log behind the previous entry is always replaced.
replaceSuffix(i, args) ==
    log' = [log EXCEPT ![i] =
        SubSeq(@, 1, logSliceIndex(i, args.prevLogIndex)) \o args.entries]

\* The loop of AppendEntry over args.entries: from the first new entry on,
\* the log is replaced by the leader's entries.
mergeEntries(i, args) ==
    LET new == newEntries(i, args)
    IN  \/ new = {} /\ UNCHANGED log
        \/ \E k \in new :
               /\ \A l \in new : k <= l
               /\ log' = [log EXCEPT ![i] =
                      SubSeq(@, 1, logSliceIndex(i, args.prevLogIndex + k) - 1)
                          \o SubSeq(args.entries, k, Len(args.entries))]

minOf(a, b) == IF a <= b THEN a ELSE b


raiseCommitIndex(i, index) ==
    commitIndex' = [commitIndex EXCEPT ![i] = IF index > @ THEN index ELSE @]

\* Handler of AppendEntry: the change of state ...
AppendEntry(i, args) ==
    /\ UNCHANGED <<logOffset, snapshot, lastApplied, pendingSnapshot>>
    /\ \/ /\ args.term < currentTerm[i]
          /\ UNCHANGED <<electionVars, log, commitIndex, persister>>
       \/ /\ args.term >= currentTerm[i]
          /\ followTerm(i, args)
          /\ \/ /\ ~previousMatches(i, args)
                /\ UNCHANGED <<log, commitIndex>>
             \/ /\ previousMatches(i, args)
                /\ mergeEntries(i, args)
                /\ raiseCommitIndex(i, minOf(args.leaderCommit,
                                             args.prevLogIndex + Len(args.entries)))
          /\ IF args.term > currentTerm[i] \/ log' # log
             THEN persist(i) ELSE UNCHANGED persister

\* ... and its reply, a set with one member.  The scan for the first entry of
\* the conflicting term stops at the snapshot boundary.
AppendEntryReplyTo(i, args) ==
    LET rejection(term, xterm, xindex, xlen) ==
            [term |-> term, success |-> FALSE, xterm |-> xterm,
             xindex |-> xindex, xlen |-> xlen]
        prev == args.prevLogIndex
        xterm == logTerm(i, prev)
        firstOfTerm == {k \in logOffset[i] .. prev :
                           /\ \A l \in k .. prev : logTerm(i, l) = xterm
                           /\ k > logOffset[i] => logTerm(i, k - 1) # xterm}
    IN  IF args.term < currentTerm[i] THEN {rejection(currentTerm[i], 0, 0, 0)}
        ELSE IF prev < logOffset[i] THEN {rejection(args.term, -1, 0, logOffset[i] + 1)}
        ELSE IF prev > lastLogIndex(i) THEN {rejection(args.term, -1, 0, lastLogIndex(i) + 1)}
        ELSE IF ~previousMatches(i, args)
        THEN {rejection(args.term, xterm, k, lastLogIndex(i) + 1) : k \in firstOfTerm}
        ELSE {[term |-> args.term, success |-> TRUE, xterm |-> 0, xindex |-> 0, xlen |-> 0]}

\* Mutant: the entry of the snapshot boundary is dropped, too.
logWithoutBoundary(i, index, term) ==
    SubSeq(log[i], logSliceIndex(i, index) + 1, Len(log[i]))

\* Entries behind an index that becomes the new snapshot boundary.
compactedLog(i, index, term) ==
    <<[term |-> term, command |-> Nil]>>
        \o SubSeq(log[i], logSliceIndex(i, index) + 1, Len(log[i]))

\* Mutant: commitIndex is left where it was.
adoptWithoutCommit(i, args) ==
    LET index == args.lastIncludedIndex
        retainSuffix == /\ index \in logOffset[i] .. lastLogIndex(i)
                        /\ logTerm(i, index) = args.lastIncludedTerm
    IN  /\ log' = [log EXCEPT ![i] =
               IF retainSuffix THEN compactedLog(i, index, args.lastIncludedTerm)
               ELSE <<[term |-> args.lastIncludedTerm, command |-> Nil]>>]
        /\ logOffset' = [logOffset EXCEPT ![i] = index]
        /\ snapshot' = [snapshot EXCEPT ![i] = args.data]
        /\ UNCHANGED commitIndex
        /\ lastApplied' = [lastApplied EXCEPT ![i] = index]
        /\ pendingSnapshot' = [pendingSnapshot EXCEPT ![i] =
               [index |-> index, data |-> args.data]]

\* The log is replaced by the snapshot, and by the entries behind it if they
\* continue it; the applier is told.
adoptSnapshot(i, args) ==
    LET index == args.lastIncludedIndex
        retainSuffix == /\ index \in logOffset[i] .. lastLogIndex(i)
                        /\ logTerm(i, index) = args.lastIncludedTerm
    IN  /\ log' = [log EXCEPT ![i] =
               IF retainSuffix THEN compactedLog(i, index, args.lastIncludedTerm)
               ELSE <<[term |-> args.lastIncludedTerm, command |-> Nil]>>]
        /\ logOffset' = [logOffset EXCEPT ![i] = index]
        /\ snapshot' = [snapshot EXCEPT ![i] = args.data]
        /\ commitIndex' = [commitIndex EXCEPT ![i] = index]
        /\ lastApplied' = [lastApplied EXCEPT ![i] = index]
        /\ pendingSnapshot' = [pendingSnapshot EXCEPT ![i] =
               [index |-> index, data |-> args.data]]

\* Handler of InstallSnapshot.
InstallSnapshot(i, args) ==
    \/ /\ args.term < currentTerm[i]
       /\ UNCHANGED <<electionVars, logVars, commitIndex, lastApplied,
                      pendingSnapshot, persister>>
    \/ /\ args.term >= currentTerm[i]
       /\ followTerm(i, args)
       /\ \/ /\ args.lastIncludedIndex <= commitIndex[i]
             /\ UNCHANGED <<logVars, commitIndex, lastApplied, pendingSnapshot>>
             /\ IF args.term > currentTerm[i] THEN persist(i) ELSE UNCHANGED persister
          \/ /\ args.lastIncludedIndex > commitIndex[i]
             /\ adoptSnapshot(i, args)
             /\ persist(i)

InstallSnapshotReplyTo(i, args) ==
    {[term |-> IF args.term < currentTerm[i] THEN currentTerm[i] ELSE args.term]}

\* A replication request reaches peer i, whichever handler it is for.
handleReplication(i, args) ==
    /\ \/ args.kind = "append" /\ AppendEntry(i, args)
       \/ args.kind = "snapshot" /\ InstallSnapshot(i, args)
    /\ UNCHANGED <<leaderVars, supporters, applyMsg, service, voteVars>>

replicationReplyTo(i, args) ==
    IF args.kind = "append" THEN AppendEntryReplyTo(i, args)
    ELSE InstallSnapshotReplyTo(i, args)

\* The request of the round in progress is delivered ...
deliverReplication(i, j) ==
    /\ worker[i][j] # Nil
    /\ worker[i][j].reply = Nil
    /\ handleReplication(j, worker[i][j].args)
    /\ \E reply \in replicationReplyTo(j, worker[i][j].args) :
           worker' = [worker EXCEPT ![i][j].reply = reply]
    /\ UNCHANGED late

\* ... or one whose caller has given up, and whose reply nobody reads.
deliverLate(request) ==
    /\ handleReplication(request.peer, request.args)
    /\ UNCHANGED <<worker, late>>

----------------------------------------------------------------------------
(* Delivery to the service, and compaction on its request *)

\* applier: under the lock it takes a message, and then blocks on applyCh.
applierTakesSnapshot(i) ==
    /\ i \in ApplyServers
    /\ applyMsg[i] = Nil
    /\ pendingSnapshot[i] # Nil
    /\ applyMsg' = [applyMsg EXCEPT ![i] =
           [kind |-> "snapshot", index |-> pendingSnapshot[i].index,
            data |-> pendingSnapshot[i].data]]
    /\ pendingSnapshot' = [pendingSnapshot EXCEPT ![i] = Nil]
    /\ UNCHANGED <<electionVars, logVars, commitIndex, lastApplied, leaderVars,
                   persister, supporters, worker, service, voteVars, late>>

\* Mutant: commands may overtake a snapshot that waits for the service.
applierOvertakesSnapshot(i) ==
    LET index == lastApplied[i] + 1
    IN  /\ i \in ApplyServers
        /\ applyMsg[i] = Nil
        /\ lastApplied[i] < commitIndex[i]
        /\ index \in logOffset[i] .. lastLogIndex(i)
        /\ lastApplied' = [lastApplied EXCEPT ![i] = index]
        /\ applyMsg' = [applyMsg EXCEPT ![i] =
               [kind |-> "command", index |-> index,
                command |-> log[i][logSliceIndex(i, index)].command]]
        /\ UNCHANGED <<electionVars, logVars, commitIndex, leaderVars, persister,
                       supporters, worker, pendingSnapshot, service, voteVars, late>>

\* Go's bounds check requires the entry to be in the log.
applierTakesCommand(i) ==
    LET index == lastApplied[i] + 1
    IN  /\ i \in ApplyServers
        /\ applyMsg[i] = Nil
        /\ pendingSnapshot[i] = Nil
        /\ lastApplied[i] < commitIndex[i]
        /\ index \in logOffset[i] .. lastLogIndex(i)
        /\ lastApplied' = [lastApplied EXCEPT ![i] = index]
        /\ applyMsg' = [applyMsg EXCEPT ![i] =
               [kind |-> "command", index |-> index,
                command |-> log[i][logSliceIndex(i, index)].command]]
        /\ UNCHANGED <<electionVars, logVars, commitIndex, leaderVars, persister,
                       supporters, worker, pendingSnapshot, service, voteVars, late>>

\* RSM.reader receives from applyCh: DoOp or Restore.  It does not look at
\* the index of a command.
serviceReceives(i) ==
    /\ applyMsg[i] # Nil
    /\ service' = [service EXCEPT ![i] =
           IF applyMsg[i].kind = "command" THEN Append(@, applyMsg[i].command)
           ELSE applyMsg[i].data]
    /\ applyMsg' = [applyMsg EXCEPT ![i] = Nil]
    /\ UNCHANGED <<electionVars, logVars, commitIndex, lastApplied, leaderVars,
                   persister, supporters, worker, pendingSnapshot, voteVars, late>>

\* RSM.reader calls Snapshot with the index of the last command it executed.
Snapshot(i) ==
    LET index == Len(service[i])
    IN  /\ i \in CompactServers
        /\ index > logOffset[i]
        /\ index <= lastApplied[i]
        /\ index <= lastLogIndex(i)
        /\ log' = [log EXCEPT ![i] = compactedLog(i, index, logTerm(i, index))]
        /\ logOffset' = [logOffset EXCEPT ![i] = index]
        /\ snapshot' = [snapshot EXCEPT ![i] = service[i]]
        /\ UNCHANGED electionVars
        /\ persist(i)
        /\ UNCHANGED <<commitIndex, lastApplied, leaderVars, supporters, worker,
                       applyVars, voteVars, late>>

----------------------------------------------------------------------------
(* Crash and restart *)

\* Make on the given persisted state, and MakeRSM's Restore of the service.
\* The goroutines of the crashed server are gone; what they sent may still
\* travel, but nobody waits for the replies.
Make(i, saved) ==
    /\ currentTerm' = [currentTerm EXCEPT ![i] = saved.currentTerm]
    /\ voteFor' = [voteFor EXCEPT ![i] = saved.voteFor]
    /\ log' = [log EXCEPT ![i] = saved.log]
    /\ logOffset' = [logOffset EXCEPT ![i] = saved.logOffset]
    /\ snapshot' = [snapshot EXCEPT ![i] = saved.snapshot]
    /\ persister' = [persister EXCEPT ![i] = saved]
    /\ role' = [role EXCEPT ![i] = "FOLLOWER"]
    /\ commitIndex' = [commitIndex EXCEPT ![i] = saved.logOffset]
    /\ lastApplied' = [lastApplied EXCEPT ![i] = saved.logOffset]
    /\ nextIndex' = [nextIndex EXCEPT ![i] = [j \in Server |-> 0]]
    /\ matchIndex' = [matchIndex EXCEPT ![i] = [j \in Server |-> 0]]
    /\ pendingSnapshot' = [pendingSnapshot EXCEPT ![i] = Nil]
    /\ applyMsg' = [applyMsg EXCEPT ![i] = Nil]
    /\ service' = [service EXCEPT ![i] = saved.snapshot]
    /\ supporters' = [supporters EXCEPT ![i] = {}]
    /\ voteReplies' = {reply \in voteReplies : reply.candidate # i}

orphaned(i, requests) ==
    {IF args.candidate = i THEN [args EXCEPT !.live = FALSE] ELSE args : args \in requests}

\* A crash between two critical sections.
restart(i) ==
    /\ i \in CrashServers
    /\ Make(i, persister[i])
    /\ worker' = [worker EXCEPT ![i] = [j \in Server |-> Nil]]
    /\ voteRequests' = orphaned(i, voteRequests)
    /\ \E abandoned \in SUBSET {j \in Server : worker[i][j] # Nil /\ worker[i][j].reply = Nil} :
           /\ late' = late \cup {[peer |-> j, args |-> worker[i][j].args] : j \in abandoned}
           /\ abandoned # {} => Cardinality(late') <= MaxLate

\* The handlers call persist() for a new term before they go on and call it
\* again; the server may crash in between, with the request consumed and no
\* reply sent.
newTermSaved(i, term) == [persister[i] EXCEPT !.currentTerm = term, !.voteFor = Nil]

crashInRequestVote(args) ==
    /\ args.peer \in CrashServers
    /\ args.term > currentTerm[args.peer]
    /\ Make(args.peer, newTermSaved(args.peer, args.term))
    /\ worker' = [worker EXCEPT ![args.peer] = [j \in Server |-> Nil]]
    /\ voteRequests' = orphaned(args.peer, voteRequests \ {args})
    /\ UNCHANGED late

crashInReplication(i, j) ==
    /\ j \in CrashServers
    /\ worker[i][j] # Nil
    /\ worker[i][j].reply = Nil
    /\ worker[i][j].args.term > currentTerm[j]
    /\ Make(j, newTermSaved(j, worker[i][j].args.term))
    /\ worker' = [worker EXCEPT ![i][j] = Nil, ![j] = [k \in Server |-> Nil]]
    /\ voteRequests' = orphaned(j, voteRequests)
    /\ UNCHANGED late

----------------------------------------------------------------------------

Next ==
    \/ \E i \in Server :
           \/ beginElection(i)
           \/ winAlone(i)
           \/ \E command \in Command : Start(i, command)
           \/ startHeartbeat(i)
           \/ applierTakesSnapshot(i)
           \/ applierTakesCommand(i)
           \/ serviceReceives(i)
           \/ Snapshot(i)
           \/ restart(i)
    \/ \E i \in Server : \E j \in Server \ {i} :
           \/ replicate(i, j)
           \/ replicationTimeout(i, j)
           \/ deliverReplication(i, j)
           \/ replicationReply(i, j)
           \/ crashInReplication(i, j)
    \/ \E args \in voteRequests : RequestVote(args) \/ crashInRequestVote(args)
    \/ \E reply \in voteReplies :
           \/ voteReplyHigherTerm(reply)
           \/ voteReplyIgnored(reply)
           \/ voteReplyGranted(reply)
    \/ \E request \in late : deliverLate(request)

Spec == Init /\ [][Next]_vars

\* Goroutines keep running, deadlines of servers without a leader pass, and a
\* request or reply that is sent again and again gets through: a worker
\* repeats its round for as long as the server leads.
Fairness ==
    /\ \A i \in Server :
           /\ WF_vars(startHeartbeat(i))
           /\ WF_vars(applierTakesSnapshot(i) \/ applierTakesCommand(i) \/ serviceReceives(i))
    /\ \A i \in {i \in Server : ElectionTerms[i] # {}} :
           /\ WF_vars(beginElection(i) \/ winAlone(i))
           /\ \A j \in Server \ {i} :
                  /\ WF_vars(replicate(i, j))
                  /\ SF_vars(deliverReplication(i, j))
                  /\ SF_vars(replicationReply(i, j))
    /\ WF_vars(\E args \in voteRequests : RequestVote(args))
    /\ WF_vars(\E reply \in voteReplies :
                  \/ voteReplyHigherTerm(reply)
                  \/ voteReplyIgnored(reply)
                  \/ voteReplyGranted(reply))

FairSpec == Spec /\ Fairness

----------------------------------------------------------------------------
(* Correctness *)

\* Every variable has its type; log[i] always has the entry of the snapshot
\* boundary.
TypeOK ==
    /\ currentTerm \in [Server -> Nat]
    /\ voteFor \in [Server -> Server \cup {Nil}]
    /\ role \in [Server -> {"FOLLOWER", "CANDIDATE", "LEADER"}]
    /\ log \in [Server -> Seq(LogEntry) \ {<<>>}]
    /\ logOffset \in [Server -> Nat]
    /\ snapshot \in [Server -> Seq(Command \cup {Nil})]
    /\ commitIndex \in [Server -> Nat]
    /\ lastApplied \in [Server -> Nat]
    /\ nextIndex \in [Server -> [Server -> Nat]]
    /\ matchIndex \in [Server -> [Server -> Nat]]
    /\ pendingSnapshot \in [Server -> PendingSnapshot \cup {Nil}]
    /\ persister \in [Server -> PersistedState]
    /\ supporters \in [Server -> SUBSET Server]
    /\ worker \in [Server -> [Server -> ReplicationRPC \cup {Nil}]]
    /\ applyMsg \in [Server -> ApplyMsg \cup {Nil}]
    /\ service \in [Server -> Seq(Command \cup {Nil})]
    /\ voteRequests \in SUBSET RequestVoteArgs
    /\ voteReplies \in SUBSET RequestVoteReply
    /\ late \in SUBSET LateRequest

\* All commands server i knows of, compacted or not, by index.
history(i) ==
    snapshot[i] \o [k \in 1 .. Len(log[i]) - 1 |-> log[i][k + 1].command]

historyTo(i, index) == SubSeq(history(i), 1, index)

\* The votes that count, or may still come to count, in an election: those a
\* candidate or leader has counted, and those granted in replies on their way.
countedBy(c) ==
    {[voter |-> j, candidate |-> c, term |-> currentTerm[c]] : j \in supporters[c]}

countedBallots == UNION {countedBy(c) : c \in {c \in Server : role[c] # "FOLLOWER"}}

grantedBallots ==
    {[voter |-> r.peer, candidate |-> r.candidate, term |-> r.electionTerm] :
        r \in {r \in voteReplies : r.granted}}

Ballots == countedBallots \cup grantedBallots

\* A voter remembers a vote that may count for as long as it is in the term of
\* the vote, crashes included, and no two candidates of a term have its vote.
BallotsBinding ==
    /\ \A b \in Ballots :
           \/ currentTerm[b.voter] > b.term
           \/ currentTerm[b.voter] = b.term /\ voteFor[b.voter] = b.candidate
    /\ \A a, b \in Ballots :
           a.voter = b.voter /\ a.term = b.term => a.candidate = b.candidate

\* Two servers never both act as leader of one term, whatever votes are
\* delayed and whoever crashes between voting and replying.
ElectionSafety ==
    \A i, j \in Server :
        role[i] = "LEADER" /\ role[j] = "LEADER" /\ currentTerm[i] = currentTerm[j]
            => i = j

\* Where two logs hold an entry of the same term at the same index, they and
\* the snapshots below them hold the same commands up to that index.
LogMatching ==
    \A i, j \in Server :
        \A k \in logOffset[i] .. lastLogIndex(i) :
            /\ k \in logOffset[j] .. lastLogIndex(j)
            /\ logTerm(i, k) = logTerm(j, k)
            => historyTo(i, k) = historyTo(j, k)

\* A leader has every command that a server of its term or of an earlier one
\* knows to be committed.
LeaderCompleteness ==
    \A i, j \in Server :
        role[i] = "LEADER" /\ currentTerm[j] <= currentTerm[i]
            => /\ commitIndex[j] <= lastLogIndex(i)
               /\ historyTo(i, commitIndex[j]) = historyTo(j, commitIndex[j])

\* No two services ever execute different commands at the same index.
StateMachineSafety ==
    \A i, j \in Server :
        Len(service[i]) <= Len(service[j])
            => service[i] = SubSeq(service[j], 1, Len(service[i]))

\* The reader is never handed a command out of order or twice, nor a snapshot
\* that takes the service back: neither when InstallSnapshot overtakes an
\* applier blocked on applyCh nor after a restart.
AppliedInOrder ==
    \A i \in Server : applyMsg[i] # Nil =>
        LET msg == applyMsg[i]
        IN  IF msg.kind = "command" THEN msg.index = Len(service[i]) + 1
            ELSE msg.index > Len(service[i]) /\ Len(msg.data) = msg.index

\* The indexes of a server are ordered, so that no access to rf.log is out of
\* bounds: in particular no follower ever truncates what it has committed.
IndexesOrdered ==
    \A i \in Server :
        /\ Len(snapshot[i]) = logOffset[i]
        /\ logOffset[i] <= lastApplied[i]
        /\ lastApplied[i] <= commitIndex[i]
        /\ commitIndex[i] <= lastLogIndex(i)

\* A leader's cursor for a peer stays behind what the peer acknowledged and
\* within the log, however stale the rejections are that moved it: the slice
\* expressions of beginHeartbeat never panic.
NextIndexInRange ==
    \A i \in Server : role[i] = "LEADER" =>
        \A j \in Server :
            nextIndex[i][j] \in matchIndex[i][j] + 1 .. lastLogIndex(i) + 1

\* What a leader counts as stored by a peer of its term, the peer has.
MatchIndexTruthful ==
    \A i, j \in Server :
        role[i] = "LEADER" /\ currentTerm[j] = currentTerm[i]
            => /\ matchIndex[i][j] <= lastLogIndex(j)
               /\ historyTo(i, matchIndex[i][j]) = historyTo(j, matchIndex[i][j])

\* Terms never go back, and a vote given in a term is never given again to
\* another candidate of that term, crashes included.
VotesAreFinal ==
    [][\A i \in Server :
          /\ currentTerm'[i] >= currentTerm[i]
          /\ currentTerm'[i] = currentTerm[i] /\ voteFor[i] # Nil
                => voteFor'[i] = voteFor[i]]_vars

\* What a server has committed stays in its history: truncation, snapshot
\* installation, compaction and restarts never change it.
CommittedIsStable ==
    [][\A i \in Server :
          historyTo(i, commitIndex[i]) = SubSeq(history(i)', 1, commitIndex[i])]_vars


leads(i) == role[i] = "LEADER"


\* A follower that has compacted the entry before those it is sent asks the
\* leader to go on right behind its snapshot (comment in AppendEntry), and the
\* leader does, unless it has compacted that entry as well or lost its role.
RetriesBehindSnapshot ==
    \A i \in Server : \A j \in Server \ {i} :
        (/\ role[i] = "LEADER"
         /\ worker[i][j] # Nil
         /\ worker[i][j].args.kind = "append"
         /\ worker[i][j].args.prevLogIndex < logOffset[j])
            ~> (\/ role[i] # "LEADER"
                \/ nextIndex[i][j] > logOffset[j]
                \/ nextIndex[i][j] <= logOffset[i])

accepted(i) == leads(i) /\ logTerm(i, lastLogIndex(i)) = currentTerm[i]

\* Under a leader that stays, every command it accepted is executed by every
\* service, and with it the commands before, which earlier leaders accepted.
CommandsAreExecuted ==
    (\E i \in Server : accepted(i)) ~>
        (\E i \in Server : accepted(i) /\ \A j \in ApplyServers : Len(service[j]) = lastLogIndex(i))

=============================================================================
