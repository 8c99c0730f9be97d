------------------------- MODULE RaftLeaderTypes -------------------------
(***************************************************************************)
(* Type correctness of Raft, first part: elections and replication as the  *)
(* leader sees it, and the facts on logs that all of the proof rests on.   *)
(***************************************************************************)
EXTENDS Raft, TLAPS, FiniteSetTheorems, SequenceTheorems

----------------------------------------------------------------------------
(* Types: elections and clients *)

\* A log has at least the entry of the snapshot boundary, so the last index is
\* an index, and every index from the boundary on has an entry.
LEMMA LogFacts ==
    ASSUME TypeOK, NEW i \in Server
    PROVE  /\ log[i] \in Seq(LogEntry)
           /\ Len(log[i]) \in Nat \ {0}
           /\ logOffset[i] \in Nat
           /\ lastLogIndex(i) \in Nat
           /\ lastLogIndex(i) >= logOffset[i]
           /\ Len(log[i]) = lastLogIndex(i) - logOffset[i] + 1
           /\ \A k \in logOffset[i] .. lastLogIndex(i) :
                  /\ logSliceIndex(i, k) \in 1 .. Len(log[i])
                  /\ log[i][logSliceIndex(i, k)] \in LogEntry
                  /\ logTerm(i, k) \in Nat
                  /\ log[i][logSliceIndex(i, k)].command \in Command \cup {Nil}
<1>1. log[i] \in Seq(LogEntry) /\ log[i] # <<>> /\ logOffset[i] \in Nat
  BY DEF TypeOK
<1>2. Len(log[i]) \in Nat \ {0}
  BY <1>1, EmptySeq, LenProperties
<1>3. ASSUME NEW k \in logOffset[i] .. lastLogIndex(i)
      PROVE  /\ logSliceIndex(i, k) \in 1 .. Len(log[i])
             /\ log[i][logSliceIndex(i, k)] \in LogEntry
  <2>1. logSliceIndex(i, k) \in 1 .. Len(log[i])
    BY <1>1, <1>2 DEF lastLogIndex, logSliceIndex
  <2> QED BY <1>1, <2>1, ElementOfSeq
<1> QED
  BY SMTT(20), <1>1, <1>2, <1>3 DEF lastLogIndex, logTerm, LogEntry

\* persist() writes a state of the right type.
LEMMA PersistType ==
    ASSUME NEW i \in Server, persist(i),
           currentTerm'[i] \in Nat, voteFor'[i] \in Server \cup {Nil},
           log'[i] \in Seq(LogEntry) \ {<<>>}, logOffset'[i] \in Nat,
           snapshot'[i] \in Seq(Command \cup {Nil}),
           persister \in [Server -> PersistedState]
    PROVE  persister' \in [Server -> PersistedState]
BY DEF persist, PersistedState

LEMMA InitType == Init => TypeOK
<1> SUFFICES ASSUME Init PROVE TypeOK
  OBVIOUS
<1>1. emptyLog \in Seq(LogEntry) \ {<<>>}
  BY DEF emptyLog, LogEntry
<1>2. <<>> \in Seq(Command \cup {Nil})
  BY EmptySeq
<1>3. persister \in [Server -> PersistedState]
  BY <1>1, <1>2 DEF Init, PersistedState
<1> QED
  BY <1>1, <1>2, <1>3 DEF Init, TypeOK

\* Actions that leave logs and RPCs of replication alone.
LEMMA ElectionType ==
    ASSUME TypeOK, NEW i \in Server, beginElection(i)
    PROVE  TypeOK'
<1>1. lastLogIndex(i) \in Nat /\ logTerm(i, lastLogIndex(i)) \in Nat
  BY LogFacts
<1>2. /\ currentTerm' \in [Server -> Nat]
      /\ voteFor' \in [Server -> Server \cup {Nil}]
      /\ role' \in [Server -> {"FOLLOWER", "CANDIDATE", "LEADER"}]
      /\ supporters' \in [Server -> SUBSET Server]
  BY DEF beginElection, TypeOK
<1>3. persister' \in [Server -> PersistedState]
  BY ZenonT(20), <1>2, PersistType DEF beginElection, TypeOK, logVars
<1>4. voteRequests' \in SUBSET RequestVoteArgs
  <2>1. currentTerm[i] + 1 \in Nat
    BY DEF TypeOK
  <2>2. \A j \in Server :
            [term |-> currentTerm[i] + 1, candidate |-> i, peer |-> j,
             lastLogIndex |-> lastLogIndex(i),
             lastLogTerm |-> logTerm(i, lastLogIndex(i)),
             live |-> TRUE] \in RequestVoteArgs
    BY <1>1, <2>1 DEF RequestVoteArgs
  <2> QED
    BY <2>2 DEF beginElection, TypeOK
<1> QED
  BY ZenonT(20), <1>2, <1>3, <1>4 DEF beginElection, TypeOK, logVars, leaderVars, applyVars

LEMMA LeaderInitType ==
    ASSUME TypeOK, NEW i \in Server, leaderInit(i)
    PROVE  /\ role' \in [Server -> {"FOLLOWER", "CANDIDATE", "LEADER"}]
           /\ nextIndex' \in [Server -> [Server -> Nat]]
           /\ matchIndex' \in [Server -> [Server -> Nat]]
<1>1. lastLogIndex(i) \in Nat
  BY LogFacts
<1>2. /\ role \in [Server -> {"FOLLOWER", "CANDIDATE", "LEADER"}]
      /\ nextIndex \in [Server -> [Server -> Nat]]
      /\ matchIndex \in [Server -> [Server -> Nat]]
  BY DEF TypeOK
<1> QED
  BY <1>1, <1>2 DEF leaderInit

LEMMA StepDownType ==
    ASSUME TypeOK, NEW i \in Server, NEW term \in Nat, stepDown(i, term)
    PROVE  /\ currentTerm' \in [Server -> Nat]
           /\ voteFor' \in [Server -> Server \cup {Nil}]
           /\ role' \in [Server -> {"FOLLOWER", "CANDIDATE", "LEADER"}]
           /\ persister' \in [Server -> PersistedState]
           /\ UNCHANGED logVars
<1>1. /\ currentTerm' \in [Server -> Nat]
      /\ voteFor' \in [Server -> Server \cup {Nil}]
      /\ role' \in [Server -> {"FOLLOWER", "CANDIDATE", "LEADER"}]
      /\ UNCHANGED logVars
  BY DEF stepDown, TypeOK
<1> QED
  BY ZenonT(20), <1>1, PersistType DEF stepDown, TypeOK, logVars

LEMMA WinAloneType ==
    ASSUME TypeOK, NEW i \in Server, winAlone(i)
    PROVE  TypeOK'
BY ZenonT(20), LeaderInitType DEF winAlone, TypeOK, logVars, applyVars, voteVars

LEMMA RequestVoteType ==
    ASSUME TypeOK, NEW args \in voteRequests, RequestVote(args)
    PROVE  TypeOK'
<1> DEFINE i == args.peer
<1>1. /\ args \in RequestVoteArgs
      /\ i \in Server
      /\ args.candidate \in Server
      /\ args.term \in Nat
  BY ZenonT(20) DEF TypeOK, RequestVoteArgs
<1>2. /\ currentTerm' \in [Server -> Nat]
      /\ voteFor' \in [Server -> Server \cup {Nil}]
      /\ role' \in [Server -> {"FOLLOWER", "CANDIDATE", "LEADER"}]
      /\ UNCHANGED logVars
  BY ZenonT(20), <1>1 DEF RequestVote, TypeOK
<1>3. persister' \in [Server -> PersistedState]
  <2>1. CASE persist(i)
    BY ZenonT(20), <1>1, <1>2, <2>1, PersistType DEF TypeOK, logVars
  <2>2. CASE UNCHANGED persister
    BY <2>2 DEF TypeOK
  <2> QED
    BY <2>1, <2>2 DEF RequestVote
<1>4. voteReplies' \in SUBSET RequestVoteReply
  <2>1. \A granted \in BOOLEAN :
            [term |-> currentTerm'[i], granted |-> granted, peer |-> i,
             candidate |-> args.candidate, electionTerm |-> args.term] \in RequestVoteReply
    BY <1>1, <1>2 DEF RequestVoteReply
  <2> QED
    BY ZenonT(20), <2>1 DEF RequestVote, TypeOK
<1>5. voteRequests' \in SUBSET RequestVoteArgs
  BY DEF RequestVote, TypeOK
<1> QED
  BY ZenonT(20), <1>2, <1>3, <1>4, <1>5 DEF RequestVote, TypeOK, logVars, leaderVars, applyVars

LEMMA VoteReplyType ==
    ASSUME TypeOK, NEW reply \in voteReplies,
           \/ voteReplyHigherTerm(reply)
           \/ voteReplyIgnored(reply)
           \/ voteReplyGranted(reply)
    PROVE  TypeOK'
<1>1. /\ reply.candidate \in Server
      /\ reply.peer \in Server
      /\ reply.term \in Nat
  BY ZenonT(20) DEF TypeOK, RequestVoteReply
<1>2. CASE voteReplyHigherTerm(reply)
  BY ZenonT(20), <1>1, <1>2, StepDownType
     DEF voteReplyHigherTerm, TypeOK, logVars, leaderVars, applyVars
<1>3. CASE voteReplyIgnored(reply)
  BY ZenonT(20), <1>3 DEF voteReplyIgnored, TypeOK, electionVars, logVars, leaderVars, applyVars
<1>4. CASE voteReplyGranted(reply)
  <2>1. /\ role' \in [Server -> {"FOLLOWER", "CANDIDATE", "LEADER"}]
        /\ nextIndex' \in [Server -> [Server -> Nat]]
        /\ matchIndex' \in [Server -> [Server -> Nat]]
    <3>1. CASE leaderInit(reply.candidate)
      BY <1>1, <3>1, LeaderInitType
    <3>2. CASE UNCHANGED <<role, leaderVars>>
      BY <3>2 DEF TypeOK, leaderVars
    <3> QED
      BY <1>4, <3>1, <3>2 DEF voteReplyGranted
  <2>2. supporters' \in [Server -> SUBSET Server]
    <3>1. supporters \in [Server -> SUBSET Server]
      BY DEF TypeOK
    <3>2. supporters' = [supporters EXCEPT ![reply.candidate] = @ \cup {reply.peer}]
      BY <1>4 DEF voteReplyGranted
    <3>3. supporters[reply.candidate] \cup {reply.peer} \in SUBSET Server
      BY <1>1, <3>1
    <3> QED
      BY ZenonT(20), <3>1, <3>2, <3>3
  <2> QED
    BY ZenonT(20), <1>4, <2>1, <2>2 DEF voteReplyGranted, TypeOK, logVars, applyVars
<1> QED
  BY <1>2, <1>3, <1>4

LEMMA StartType ==
    ASSUME TypeOK, NEW i \in Server, NEW command \in Command, Start(i, command)
    PROVE  TypeOK'
<1>1. lastLogIndex(i) \in Nat
  BY LogFacts
<1>2. [term |-> currentTerm[i], command |-> command] \in LogEntry
  BY DEF TypeOK, LogEntry
<1>3. log' \in [Server -> Seq(LogEntry) \ {<<>>}]
  BY <1>2, AppendProperties DEF Start, TypeOK
<1>4. /\ nextIndex' \in [Server -> [Server -> Nat]]
      /\ matchIndex' \in [Server -> [Server -> Nat]]
  <2>1. /\ nextIndex \in [Server -> [Server -> Nat]]
        /\ matchIndex \in [Server -> [Server -> Nat]]
    BY DEF TypeOK
  <2> QED
    BY <1>1, <2>1 DEF Start
<1>5. persister' \in [Server -> PersistedState]
  BY ZenonT(20), <1>3, PersistType DEF Start, TypeOK
<1> QED
  BY ZenonT(20), <1>3, <1>4, <1>5 DEF Start, TypeOK, applyVars, voteVars

----------------------------------------------------------------------------
(* Types: replication, on the leader *)

\* A request in the shape of the messages of replicationWorker.
LEMMA ReplicateType ==
    ASSUME TypeOK, NEW i \in Server, NEW j \in Server, replicate(i, j)
    PROVE  TypeOK'
<1>1. /\ nextIndex[i][j] \in Nat
      /\ currentTerm[i] \in Nat
      /\ commitIndex[i] \in Nat
      /\ snapshot[i] \in Seq(Command \cup {Nil})
  BY ZenonT(20) DEF TypeOK
<1>2. CASE /\ nextIndex[i][j] <= logOffset[i]
           /\ worker' = [worker EXCEPT ![i][j] =
                  [args |-> beginInstallSnapshot(i), reply |-> Nil]]
  <2>1. logOffset[i] \in Nat /\ logTerm(i, logOffset[i]) \in Nat
    BY LogFacts
  <2>2. beginInstallSnapshot(i) \in InstallSnapshotArgs
    BY <1>1, <2>1 DEF beginInstallSnapshot, InstallSnapshotArgs
  <2>3. [args |-> beginInstallSnapshot(i), reply |-> Nil] \in ReplicationRPC
    BY SMTT(20), <2>2 DEF ReplicationRPC
  <2> QED
    BY ZenonT(20), <1>2, <2>3
       DEF replicate, TypeOK, electionVars, logVars, leaderVars, applyVars, voteVars
<1>3. CASE /\ nextIndex[i][j] \in logOffset[i] + 1 .. lastLogIndex(i) + 1
           /\ worker' = [worker EXCEPT ![i][j] =
                  [args |-> beginHeartbeat(i, j), reply |-> Nil]]
  <2> DEFINE next == nextIndex[i][j]
  <2>1. next - 1 \in logOffset[i] .. lastLogIndex(i) /\ next - 1 \in Nat
    <3>1. logOffset[i] \in Nat /\ lastLogIndex(i) \in Nat
      BY LogFacts
    <3> QED
      BY <1>1, <1>3, <3>1
  <2>2. logTerm(i, next - 1) \in Nat
    BY <2>1, LogFacts
  <2>3. SubSeq(log[i], logSliceIndex(i, next), Len(log[i])) \in Seq(LogEntry)
    <3>1. logSliceIndex(i, next) \in Nat \ {0}
      BY SMTT(20), <1>1, <1>3, LogFacts DEF logSliceIndex
    <3>2. log[i] \in Seq(LogEntry) /\ Len(log[i]) \in Nat
      BY LogFacts
    <3>3. \A k \in logSliceIndex(i, next) .. Len(log[i]) : log[i][k] \in LogEntry
      BY <3>1, <3>2, ElementOfSeq
    <3> QED
      BY <3>1, <3>2, <3>3, SubSeqProperties
  <2>4. beginHeartbeat(i, j) \in AppendEntryArgs
    <3>1. \A term, prev, prevTerm, commit \in Nat : \A entries \in Seq(LogEntry) :
              [kind |-> "append", term |-> term, prevLogIndex |-> prev,
               prevLogTerm |-> prevTerm, entries |-> entries,
               leaderCommit |-> commit] \in AppendEntryArgs
      BY DEF AppendEntryArgs
    <3> QED
      BY ZenonT(20), <1>1, <2>1, <2>2, <2>3, <3>1 DEF beginHeartbeat
  <2>5. [args |-> beginHeartbeat(i, j), reply |-> Nil] \in ReplicationRPC
    BY <2>4 DEF ReplicationRPC
  <2> QED
    BY ZenonT(20), <1>3, <2>5
       DEF replicate, TypeOK, electionVars, logVars, leaderVars, applyVars, voteVars
<1> QED
  BY <1>2, <1>3 DEF replicate

LEMMA RPCType ==
    ASSUME TypeOK, NEW i \in Server, NEW j \in Server, worker[i][j] # Nil
    PROVE  /\ worker[i][j] \in ReplicationRPC
           /\ worker[i][j].args \in ReplicationArgs
           /\ worker[i][j].args.term \in Nat
           /\ worker[i][j].args.kind = "append" =>
                  /\ worker[i][j].args \in AppendEntryArgs
                  /\ worker[i][j].reply \in AppendEntryReply \cup {Nil}
           /\ worker[i][j].args.kind = "snapshot" =>
                  /\ worker[i][j].args \in InstallSnapshotArgs
                  /\ worker[i][j].reply \in InstallSnapshotReply \cup {Nil}
           /\ worker[i][j].reply # Nil => worker[i][j].reply.term \in Nat
<1>1. worker[i][j] \in ReplicationRPC
  BY DEF TypeOK
<1> QED
  BY <1>1 DEF ReplicationRPC, ReplicationArgs, AppendEntryArgs, InstallSnapshotArgs,
              AppendEntryReply, InstallSnapshotReply

LEMMA ReplicationTimeoutType ==
    ASSUME TypeOK, NEW i \in Server, NEW j \in Server, replicationTimeout(i, j)
    PROVE  TypeOK'
<1>1. worker[i][j].args \in ReplicationArgs
  BY RPCType DEF replicationTimeout
<1>2. late' \in SUBSET LateRequest
  <2>1. [peer |-> j, args |-> worker[i][j].args] \in LateRequest
    BY <1>1 DEF LateRequest
  <2> QED
    BY ZenonT(20), <2>1 DEF replicationTimeout, TypeOK
<1> QED
  BY ZenonT(20), <1>2
     DEF replicationTimeout, TypeOK, electionVars, logVars, leaderVars, applyVars, voteVars

\* commitIndex only rises, to the index of an entry.
LEMMA PushForwardType ==
    ASSUME TypeOK, NEW i \in Server, NEW match, pushForward(i, match)
    PROVE  commitIndex' \in [Server -> Nat]
<1>1. lastLogIndex(i) \in Nat /\ commitIndex \in [Server -> Nat]
  BY ZenonT(20), LogFacts DEF TypeOK
<1>2. CASE UNCHANGED commitIndex
  BY <1>1, <1>2
<1>3. CASE \E N \in commitIndex[i] + 1 .. lastLogIndex(i) :
               commitIndex' = [commitIndex EXCEPT ![i] = N]
  BY <1>1, <1>3
<1> QED
  BY ZenonT(20), <1>2, <1>3 DEF pushForward

LEMMA StartHeartbeatType ==
    ASSUME TypeOK, NEW i \in Server, startHeartbeat(i)
    PROVE  TypeOK'
<1>1. commitIndex' \in [Server -> Nat]
  BY ZenonT(20), PushForwardType DEF startHeartbeat, TypeOK
<1> QED
  BY ZenonT(20), <1>1 DEF startHeartbeat, TypeOK, electionVars, logVars, leaderVars, applyVars, voteVars

LEMMA AcknowledgeType ==
    ASSUME TypeOK, NEW i \in Server, NEW j \in Server, NEW index \in Nat,
           acknowledge(i, j, index)
    PROVE  /\ nextIndex' \in [Server -> [Server -> Nat]]
           /\ matchIndex' \in [Server -> [Server -> Nat]]
<1>1. /\ nextIndex \in [Server -> [Server -> Nat]]
      /\ matchIndex \in [Server -> [Server -> Nat]]
  BY ZenonT(20) DEF TypeOK
<1> QED
  BY <1>1 DEF acknowledge

LEMMA NextProbeType ==
    ASSUME TypeOK, NEW i \in Server, NEW reply \in AppendEntryReply
    PROVE  nextProbe(i, reply) \subseteq Nat
<1>1. reply.xlen \in Nat /\ reply.xindex \in Nat
  BY DEF AppendEntryReply
<1>2. logOffset[i] .. lastLogIndex(i) \subseteq Nat
  BY LogFacts
<1> QED
  BY <1>1, <1>2 DEF nextProbe

LEMMA ReplicationReplyType ==
    ASSUME TypeOK, NEW i \in Server, NEW j \in Server, replicationReply(i, j)
    PROVE  TypeOK'
<1> DEFINE args == worker[i][j].args
           reply == worker[i][j].reply
<1>1. worker[i][j] # Nil /\ reply # Nil
  BY DEF replicationReply
<1>2. reply.term \in Nat
  BY SMTT(20), <1>1, RPCType
<1>3. worker' \in [Server -> [Server -> ReplicationRPC \cup {Nil}]]
  BY ZenonT(20) DEF replicationReply, TypeOK
<1>4. CASE replyHigherTerm(i, j)
  <2>1. /\ currentTerm' \in [Server -> Nat]
        /\ voteFor' \in [Server -> Server \cup {Nil}]
        /\ role' \in [Server -> {"FOLLOWER", "CANDIDATE", "LEADER"}]
        /\ persister' \in [Server -> PersistedState]
        /\ UNCHANGED logVars
    BY SMTT(20), <1>2, <1>4, StepDownType DEF replyHigherTerm
  <2> QED
    BY ZenonT(20), <1>3, <1>4, <2>1 DEF replicationReply, replyHigherTerm, TypeOK, logVars,
                             leaderVars, applyVars, voteVars
<1>5. CASE replyIgnored(i, j)
  BY ZenonT(20), <1>3, <1>5 DEF replicationReply, replyIgnored, TypeOK, electionVars, logVars,
                     leaderVars, applyVars, voteVars
<1>6. CASE snapshotAcknowledged(i, j)
  <2>1. args.lastIncludedIndex \in Nat
    BY <1>1, <1>6, RPCType DEF snapshotAcknowledged, InstallSnapshotArgs
  <2>2. /\ nextIndex' \in [Server -> [Server -> Nat]]
        /\ matchIndex' \in [Server -> [Server -> Nat]]
    BY SMTT(20), <1>6, <2>1, AcknowledgeType DEF snapshotAcknowledged
  <2> QED
    BY ZenonT(20), <1>3, <1>6, <2>2 DEF replicationReply, snapshotAcknowledged, TypeOK, electionVars,
                             logVars, applyVars, voteVars
<1>7. CASE entriesAcknowledged(i, j)
  <2>1. args.prevLogIndex \in Nat /\ args.entries \in Seq(LogEntry)
    BY ZenonT(20), <1>1, <1>7, RPCType DEF entriesAcknowledged, AppendEntryArgs
  <2>2. args.prevLogIndex + Len(args.entries) \in Nat
    BY SMTT(20), <2>1, LenProperties
  <2>3. /\ nextIndex' \in [Server -> [Server -> Nat]]
        /\ matchIndex' \in [Server -> [Server -> Nat]]
    BY ZenonT(20), <1>7, <2>2, AcknowledgeType DEF entriesAcknowledged
  <2>4. commitIndex' \in [Server -> Nat]
    BY SMTT(20), <1>7, PushForwardType DEF entriesAcknowledged
  <2> QED
    BY ZenonT(20), <1>3, <1>7, <2>3, <2>4 DEF replicationReply, entriesAcknowledged, TypeOK,
                                   electionVars, logVars, applyVars, voteVars
<1>8. CASE entriesRejected(i, j)
  <2>1. reply \in AppendEntryReply
    BY <1>1, <1>8, RPCType DEF entriesRejected
  <2>2. nextIndex' \in [Server -> [Server -> Nat]]
    <3>1. nextIndex \in [Server -> [Server -> Nat]]
      BY DEF TypeOK
    <3>2. \/ UNCHANGED nextIndex
          \/ \E next \in Nat : nextIndex' = [nextIndex EXCEPT ![i][j] = next]
      BY <1>8, <2>1, NextProbeType DEF entriesRejected
    <3> QED
      BY <3>1, <3>2
  <2> QED
    BY ZenonT(20), <1>3, <1>8, <2>2 DEF replicationReply, entriesRejected, TypeOK, electionVars,
                             logVars, applyVars, voteVars
<1> QED
  BY <1>4, <1>5, <1>6, <1>7, <1>8 DEF replicationReply
=============================================================================
