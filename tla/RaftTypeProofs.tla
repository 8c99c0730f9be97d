-------------------------- MODULE RaftTypeProofs --------------------------
(***************************************************************************)
(* Type correctness of Raft, for every set of servers and every bound: one *)
(* lemma per action, and the lemmas on logs and messages they rest on.     *)
(* Elections and the leader's side of replication are in RaftLeaderTypes.  *)
(***************************************************************************)
EXTENDS RaftLeaderTypes

----------------------------------------------------------------------------
(* Types: replication, on the follower *)

\* The tail of a log or of a message behind some position.
LEMMA SuffixType ==
    ASSUME NEW S, NEW s \in Seq(S), NEW k \in Nat \ {0}
    PROVE  SubSeq(s, k, Len(s)) \in Seq(S)
<1>1. Len(s) \in Nat
  BY LenProperties
<1>2. \A l \in k .. Len(s) : s[l] \in S
  BY <1>1, ElementOfSeq
<1> QED
  BY <1>1, <1>2, SubSeqProperties

\* The first new entry follows an entry of the log, so that the log that is
\* kept below it exists and is not empty.
LEMMA MergeEntriesType ==
    ASSUME TypeOK, NEW i \in Server, NEW args \in AppendEntryArgs,
           previousMatches(i, args), mergeEntries(i, args)
    PROVE  log' \in [Server -> Seq(LogEntry) \ {<<>>}]
<1>1. /\ args.prevLogIndex \in logOffset[i] .. lastLogIndex(i)
      /\ args.prevLogIndex \in Nat
      /\ args.entries \in Seq(LogEntry)
      /\ Len(args.entries) \in Nat
  BY LenProperties DEF previousMatches, AppendEntryArgs
<1>2. log \in [Server -> Seq(LogEntry) \ {<<>>}]
  BY DEF TypeOK
<1>3. CASE UNCHANGED log
  BY <1>2, <1>3
<1>4. ASSUME NEW k \in newEntries(i, args), \A l \in newEntries(i, args) : k <= l
      PROVE  SubSeq(log[i], 1, logSliceIndex(i, args.prevLogIndex + k) - 1)
                 \o SubSeq(args.entries, k, Len(args.entries)) \in Seq(LogEntry) \ {<<>>}
  <2> DEFINE kept == logSliceIndex(i, args.prevLogIndex + k) - 1
  <2>1. k \in 1 .. Len(args.entries)
    BY DEF newEntries
  <2>2. args.prevLogIndex + (k - 1) <= lastLogIndex(i)
    <3>1. CASE k = 1
      BY <1>1, <3>1, LogFacts
    <3>2. CASE k # 1
      <4>1. k - 1 \in 1 .. Len(args.entries) /\ ~(k <= k - 1)
        BY <1>1, <2>1, <3>2
      <4>2. k - 1 \notin newEntries(i, args)
        BY <1>4, <4>1
      <4> QED
        BY <1>1, <4>1, <4>2, LogFacts DEF newEntries
    <3> QED
      BY <3>1, <3>2
  <2>3. kept \in 1 .. Len(log[i])
    <3>1. /\ logOffset[i] \in Nat
          /\ lastLogIndex(i) \in Nat
          /\ Len(log[i]) = lastLogIndex(i) - logOffset[i] + 1
      BY LogFacts
    <3>2. /\ args.prevLogIndex \in Nat
          /\ args.prevLogIndex >= logOffset[i]
          /\ k \in Nat
          /\ k >= 1
      BY <1>1, <2>1, <3>1
    <3>3. \A p, o, l, n \in Nat :
              p >= o /\ n >= 1 /\ p + (n - 1) <= l => ((p + n) - o + 1) - 1 \in 1 .. l - o + 1
      OBVIOUS
    <3> QED
      BY <2>2, <3>1, <3>2, <3>3 DEF logSliceIndex
  <2>4. /\ SubSeq(log[i], 1, kept) \in Seq(LogEntry)
        /\ Len(SubSeq(log[i], 1, kept)) = kept
    <3>1. \A l \in 1 .. kept : log[i][l] \in LogEntry
      BY <2>3, LogFacts, ElementOfSeq
    <3> QED
      BY <2>3, <3>1, SubSeqProperties
  <2>5. SubSeq(args.entries, k, Len(args.entries)) \in Seq(LogEntry)
    BY <1>1, <2>1, SuffixType
  <2>6. SubSeq(log[i], 1, kept) # <<>>
    BY <2>3, <2>4, EmptySeq
  <2> QED
    BY <2>4, <2>5, <2>6, ConcatProperties, ConcatEqualIffEmpty
<1> QED
  BY ZenonT(20), <1>2, <1>3, <1>4 DEF mergeEntries

LEMMA FollowTermType ==
    ASSUME TypeOK, NEW i \in Server, NEW args, args.term \in Nat, followTerm(i, args)
    PROVE  /\ currentTerm' \in [Server -> Nat]
           /\ voteFor' \in [Server -> Server \cup {Nil}]
           /\ role' \in [Server -> {"FOLLOWER", "CANDIDATE", "LEADER"}]
<1>1. /\ currentTerm \in [Server -> Nat]
      /\ voteFor \in [Server -> Server \cup {Nil}]
      /\ role \in [Server -> {"FOLLOWER", "CANDIDATE", "LEADER"}]
  BY DEF TypeOK
<1> QED
  BY <1>1 DEF followTerm

\* The part of the type invariant that a replication request can touch.
FollowerType ==
    /\ currentTerm \in [Server -> Nat]
    /\ voteFor \in [Server -> Server \cup {Nil}]
    /\ role \in [Server -> {"FOLLOWER", "CANDIDATE", "LEADER"}]
    /\ log \in [Server -> Seq(LogEntry) \ {<<>>}]
    /\ logOffset \in [Server -> Nat]
    /\ snapshot \in [Server -> Seq(Command \cup {Nil})]
    /\ commitIndex \in [Server -> Nat]
    /\ lastApplied \in [Server -> Nat]
    /\ pendingSnapshot \in [Server -> PendingSnapshot \cup {Nil}]
    /\ persister \in [Server -> PersistedState]

LEMMA AppendEntryType ==
    ASSUME TypeOK, NEW i \in Server, NEW args \in AppendEntryArgs, AppendEntry(i, args)
    PROVE  FollowerType'
<1>1. /\ args.term \in Nat
      /\ args.prevLogIndex \in Nat
      /\ args.leaderCommit \in Nat
      /\ args.entries \in Seq(LogEntry)
      /\ Len(args.entries) \in Nat
  BY LenProperties DEF AppendEntryArgs
<1>2. CASE args.term < currentTerm[i] /\ UNCHANGED <<electionVars, log, commitIndex, persister>>
  BY ZenonT(20), <1>2 DEF AppendEntry, TypeOK, FollowerType, electionVars
<1>3. CASE args.term >= currentTerm[i] /\ followTerm(i, args)
  <2>1. log' \in [Server -> Seq(LogEntry) \ {<<>>}]
    <3>1. CASE UNCHANGED log
      BY <3>1 DEF TypeOK
    <3>2. CASE previousMatches(i, args) /\ mergeEntries(i, args)
      BY <3>2, MergeEntriesType
    <3> QED
      BY <1>1, <1>3, <3>1, <3>2 DEF AppendEntry, electionVars
  <2>2. commitIndex' \in [Server -> Nat]
    <3>1. minOf(args.leaderCommit, args.prevLogIndex + Len(args.entries)) \in Nat
      BY <1>1 DEF minOf
    <3>2. commitIndex \in [Server -> Nat]
      BY DEF TypeOK
    <3>3. CASE UNCHANGED commitIndex
      BY <3>2, <3>3
    <3>4. CASE raiseCommitIndex(i, minOf(args.leaderCommit,
                                         args.prevLogIndex + Len(args.entries)))
      BY <3>1, <3>2, <3>4 DEF raiseCommitIndex
    <3> QED
      BY <3>3, <3>4 DEF AppendEntry
  <2>3. /\ currentTerm' \in [Server -> Nat]
        /\ voteFor' \in [Server -> Server \cup {Nil}]
        /\ role' \in [Server -> {"FOLLOWER", "CANDIDATE", "LEADER"}]
    BY <1>1, <1>3, FollowTermType
  <2>4. /\ logOffset' \in [Server -> Nat]
        /\ snapshot' \in [Server -> Seq(Command \cup {Nil})]
        /\ lastApplied' \in [Server -> Nat]
        /\ pendingSnapshot' \in [Server -> PendingSnapshot \cup {Nil}]
    BY ZenonT(20) DEF AppendEntry, TypeOK
  <2>5. persister' \in [Server -> PersistedState]
    <3>1. persister \in [Server -> PersistedState]
      BY DEF TypeOK
    <3>2. CASE persist(i)
      BY ZenonT(20), <2>1, <2>3, <2>4, <3>1, <3>2, PersistType
    <3>3. CASE UNCHANGED persister
      BY <3>1, <3>3
    <3> QED
      BY <3>2, <3>3 DEF AppendEntry
  <2> QED
    BY SMTT(20), <2>1, <2>2, <2>3, <2>4, <2>5 DEF FollowerType
<1> QED
  BY <1>2, <1>3 DEF AppendEntry

LEMMA CompactedLogType ==
    ASSUME TypeOK, NEW i \in Server, NEW index \in logOffset[i] .. lastLogIndex(i),
           NEW term \in Nat
    PROVE  compactedLog(i, index, term) \in Seq(LogEntry) \ {<<>>}
<1>1. log[i] \in Seq(LogEntry) /\ logSliceIndex(i, index) + 1 \in Nat \ {0}
  BY LogFacts
<1>2. SubSeq(log[i], logSliceIndex(i, index) + 1, Len(log[i])) \in Seq(LogEntry)
  BY <1>1, SuffixType
<1>3. <<[term |-> term, command |-> Nil]>> \in Seq(LogEntry) \ {<<>>}
  BY DEF LogEntry
<1> QED
  BY <1>2, <1>3, ConcatProperties, ConcatEqualIffEmpty DEF compactedLog

LEMMA InstallSnapshotType ==
    ASSUME TypeOK, NEW i \in Server, NEW args \in InstallSnapshotArgs,
           InstallSnapshot(i, args)
    PROVE  FollowerType'
<1> DEFINE index == args.lastIncludedIndex
<1>1. /\ args.term \in Nat
      /\ index \in Nat
      /\ args.lastIncludedTerm \in Nat
      /\ args.data \in Seq(Command \cup {Nil})
  BY DEF InstallSnapshotArgs
<1>2. CASE /\ args.term < currentTerm[i]
           /\ UNCHANGED <<electionVars, logVars, commitIndex, lastApplied,
                          pendingSnapshot, persister>>
  BY ZenonT(20), <1>2 DEF TypeOK, FollowerType, electionVars, logVars
<1>3. CASE args.term >= currentTerm[i] /\ followTerm(i, args)
  <2>1. /\ currentTerm' \in [Server -> Nat]
        /\ voteFor' \in [Server -> Server \cup {Nil}]
        /\ role' \in [Server -> {"FOLLOWER", "CANDIDATE", "LEADER"}]
    BY <1>1, <1>3, FollowTermType
  <2>2. /\ log' \in [Server -> Seq(LogEntry) \ {<<>>}]
        /\ logOffset' \in [Server -> Nat]
        /\ snapshot' \in [Server -> Seq(Command \cup {Nil})]
        /\ commitIndex' \in [Server -> Nat]
        /\ lastApplied' \in [Server -> Nat]
        /\ pendingSnapshot' \in [Server -> PendingSnapshot \cup {Nil}]
    <3>1. CASE UNCHANGED <<logVars, commitIndex, lastApplied, pendingSnapshot>>
      BY ZenonT(20), <3>1 DEF TypeOK, logVars
    <3>2. CASE adoptSnapshot(i, args)
      <4>1. /\ log \in [Server -> Seq(LogEntry) \ {<<>>}]
            /\ logOffset \in [Server -> Nat]
            /\ snapshot \in [Server -> Seq(Command \cup {Nil})]
            /\ commitIndex \in [Server -> Nat]
            /\ lastApplied \in [Server -> Nat]
            /\ pendingSnapshot \in [Server -> PendingSnapshot \cup {Nil}]
        BY ZenonT(20) DEF TypeOK
      <4>2. [index |-> index, data |-> args.data] \in PendingSnapshot
        BY <1>1 DEF PendingSnapshot
      <4>3. index \in logOffset[i] .. lastLogIndex(i)
                => compactedLog(i, index, args.lastIncludedTerm) \in Seq(LogEntry) \ {<<>>}
        BY ZenonT(20), <1>1, CompactedLogType
      <4>4. <<[term |-> args.lastIncludedTerm, command |-> Nil]>> \in Seq(LogEntry) \ {<<>>}
        BY <1>1 DEF LogEntry
      <4> QED
        BY SMTT(20), <1>1, <3>2, <4>1, <4>2, <4>3, <4>4 DEF adoptSnapshot
    <3> QED
      BY ZenonT(20), <1>1, <1>3, <3>1, <3>2 DEF InstallSnapshot, electionVars
  <2>3. persister' \in [Server -> PersistedState]
    <3>1. persister \in [Server -> PersistedState]
      BY DEF TypeOK
    <3>2. CASE persist(i)
      BY ZenonT(20), <2>1, <2>2, <3>1, <3>2, PersistType
    <3>3. CASE UNCHANGED persister
      BY <3>1, <3>3
    <3> QED
      BY <3>2, <3>3 DEF InstallSnapshot
  <2> QED
    BY <2>1, <2>2, <2>3 DEF FollowerType
<1> QED
  BY <1>2, <1>3 DEF InstallSnapshot

LEMMA HandleReplicationType ==
    ASSUME TypeOK, NEW i \in Server, NEW args \in ReplicationArgs,
           handleReplication(i, args)
    PROVE  FollowerType'
<1>1. CASE args.kind = "append" /\ AppendEntry(i, args)
  <2>1. args \in AppendEntryArgs
    BY <1>1 DEF ReplicationArgs, AppendEntryArgs, InstallSnapshotArgs
  <2> QED
    BY <1>1, <2>1, AppendEntryType
<1>2. CASE args.kind = "snapshot" /\ InstallSnapshot(i, args)
  <2>1. args \in InstallSnapshotArgs
    BY <1>2 DEF ReplicationArgs, AppendEntryArgs, InstallSnapshotArgs
  <2> QED
    BY <1>2, <2>1, InstallSnapshotType
<1> QED
  BY <1>1, <1>2 DEF handleReplication

LEMMA AppendEntryReplyType ==
    ASSUME TypeOK, NEW i \in Server, NEW args \in AppendEntryArgs
    PROVE  AppendEntryReplyTo(i, args) \subseteq AppendEntryReply
<1>1. args.term \in Nat /\ args.prevLogIndex \in Nat /\ currentTerm[i] \in Nat
  BY DEF TypeOK, AppendEntryArgs
<1>2. logOffset[i] \in Nat /\ lastLogIndex(i) \in Nat
  BY LogFacts
<1>3. \A term, xindex, xlen \in Nat : \A xterm \in Nat \cup {-1} :
          [term |-> term, success |-> FALSE, xterm |-> xterm,
           xindex |-> xindex, xlen |-> xlen] \in AppendEntryReply
  BY DEF AppendEntryReply
<1>4. \A term \in Nat :
          [term |-> term, success |-> TRUE, xterm |-> 0, xindex |-> 0, xlen |-> 0]
              \in AppendEntryReply
  BY DEF AppendEntryReply
<1>5. args.prevLogIndex \in logOffset[i] .. lastLogIndex(i)
          => logTerm(i, args.prevLogIndex) \in Nat
  BY LogFacts
<1>6. logOffset[i] .. args.prevLogIndex \subseteq Nat
  BY <1>1, <1>2
<1>7. CASE args.term < currentTerm[i]
  BY <1>1, <1>3, <1>7 DEF AppendEntryReplyTo
<1>8. CASE ~(args.term < currentTerm[i]) /\ args.prevLogIndex < logOffset[i]
  BY <1>1, <1>2, <1>3, <1>8 DEF AppendEntryReplyTo
<1>9. CASE /\ ~(args.term < currentTerm[i])
           /\ ~(args.prevLogIndex < logOffset[i])
           /\ args.prevLogIndex > lastLogIndex(i)
  BY SMTT(20), <1>1, <1>2, <1>3, <1>9 DEF AppendEntryReplyTo
<1>10. CASE /\ ~(args.term < currentTerm[i])
            /\ args.prevLogIndex \in logOffset[i] .. lastLogIndex(i)
  <2>1. /\ ~(args.prevLogIndex < logOffset[i])
        /\ ~(args.prevLogIndex > lastLogIndex(i))
        /\ lastLogIndex(i) + 1 \in Nat
    BY <1>1, <1>2, <1>10
  <2>2. \A k \in logOffset[i] .. args.prevLogIndex :
            [term |-> args.term, success |-> FALSE, xterm |-> logTerm(i, args.prevLogIndex),
             xindex |-> k, xlen |-> lastLogIndex(i) + 1] \in AppendEntryReply
    BY SMTT(20), <1>1, <1>3, <1>5, <1>6, <1>10, <2>1
  <2> QED
    BY <1>1, <1>4, <1>10, <2>1, <2>2 DEF AppendEntryReplyTo
<1> QED
  BY <1>1, <1>2, <1>7, <1>8, <1>9, <1>10

LEMMA DeliverReplicationType ==
    ASSUME TypeOK, NEW i \in Server, NEW j \in Server, deliverReplication(i, j)
    PROVE  TypeOK'
<1> DEFINE args == worker[i][j].args
<1>1. worker[i][j] # Nil /\ args \in ReplicationArgs
  BY RPCType DEF deliverReplication
<1>2. FollowerType'
  BY <1>1, HandleReplicationType DEF deliverReplication
<1>3. ASSUME NEW reply \in replicationReplyTo(j, args)
      PROVE  [worker[i][j] EXCEPT !.reply = reply] \in ReplicationRPC
  <2>1. CASE args.kind = "append"
    <3>1. args \in AppendEntryArgs
      BY <1>1, <2>1, RPCType
    <3>2. reply \in AppendEntryReply
      BY SMTT(20), <2>1, <3>1, AppendEntryReplyType DEF replicationReplyTo
    <3>3. worker[i][j] \in [args : AppendEntryArgs, reply : AppendEntryReply \cup {Nil}]
      BY <1>1, <2>1, RPCType DEF ReplicationRPC, InstallSnapshotArgs
    <3> QED
      BY <3>2, <3>3 DEF ReplicationRPC
  <2>2. CASE args.kind = "snapshot"
    <3>1. args \in InstallSnapshotArgs
      BY <1>1, <2>2, RPCType
    <3>2. reply \in InstallSnapshotReply
      <4>1. args.term \in Nat /\ currentTerm[j] \in Nat
        BY ZenonT(20), <3>1 DEF InstallSnapshotArgs, TypeOK
      <4>2. reply = [term |-> IF args.term < currentTerm[j] THEN currentTerm[j] ELSE args.term]
        BY <2>2 DEF replicationReplyTo, InstallSnapshotReplyTo
      <4> QED
        BY <4>1, <4>2 DEF InstallSnapshotReply
    <3>3. worker[i][j] \in
              [args : InstallSnapshotArgs, reply : InstallSnapshotReply \cup {Nil}]
      BY <1>1, <2>2, RPCType DEF ReplicationRPC, AppendEntryArgs
    <3> QED
      BY <3>2, <3>3 DEF ReplicationRPC
  <2> QED
    BY <2>1, <2>2 DEF deliverReplication, handleReplication
<1>4. worker' \in [Server -> [Server -> ReplicationRPC \cup {Nil}]]
  <2>1. worker \in [Server -> [Server -> ReplicationRPC \cup {Nil}]]
    BY DEF TypeOK
  <2>2. PICK reply \in replicationReplyTo(j, args) :
            worker' = [worker EXCEPT ![i][j].reply = reply]
    BY ZenonT(20) DEF deliverReplication
  <2> QED
    BY <1>3, <2>1, <2>2
<1> QED
  BY ZenonT(20), <1>2, <1>4 DEF deliverReplication, handleReplication, TypeOK, FollowerType,
                    leaderVars, voteVars

LEMMA DeliverLateType ==
    ASSUME TypeOK, NEW request \in late, deliverLate(request)
    PROVE  TypeOK'
<1>1. request.peer \in Server /\ request.args \in ReplicationArgs
  BY DEF TypeOK, LateRequest
<1>2. FollowerType'
  BY <1>1, HandleReplicationType DEF deliverLate
<1> QED
  BY ZenonT(20), <1>2 DEF deliverLate, handleReplication, TypeOK, FollowerType, leaderVars, voteVars

----------------------------------------------------------------------------
(* Types: service, compaction, crashes *)

LEMMA ApplierType ==
    ASSUME TypeOK, NEW i \in Server,
           \/ applierTakesSnapshot(i)
           \/ applierTakesCommand(i)
           \/ serviceReceives(i)
    PROVE  TypeOK'
<1>1. /\ applyMsg \in [Server -> ApplyMsg \cup {Nil}]
      /\ pendingSnapshot \in [Server -> PendingSnapshot \cup {Nil}]
      /\ lastApplied \in [Server -> Nat]
      /\ service \in [Server -> Seq(Command \cup {Nil})]
  BY SMTT(20) DEF TypeOK
<1>2. CASE applierTakesSnapshot(i)
  <2>1. [kind |-> "snapshot", index |-> pendingSnapshot[i].index,
         data |-> pendingSnapshot[i].data] \in ApplyMsg
    BY <1>1, <1>2 DEF applierTakesSnapshot, PendingSnapshot, ApplyMsg
  <2>2. /\ applyMsg' \in [Server -> ApplyMsg \cup {Nil}]
        /\ pendingSnapshot' \in [Server -> PendingSnapshot \cup {Nil}]
    BY SMTT(20), <1>1, <1>2, <2>1 DEF applierTakesSnapshot
  <2> QED
    BY ZenonT(20), <1>2, <2>2 DEF applierTakesSnapshot, TypeOK, electionVars, logVars, leaderVars, voteVars
<1>3. CASE applierTakesCommand(i)
  <2> DEFINE index == lastApplied[i] + 1
             command == log[i][logSliceIndex(i, index)].command
  <2>1. index \in Nat /\ command \in Command \cup {Nil}
    <3>1. index \in Nat
      BY SMTT(20), <1>1
    <3>2. index \in logOffset[i] .. lastLogIndex(i)
      BY ZenonT(20), <1>3 DEF applierTakesCommand
    <3>3. log[i][logSliceIndex(i, index)] \in LogEntry
      BY <3>2, LogFacts
    <3> QED
      BY <3>1, <3>3 DEF LogEntry
  <2>2. [kind |-> "command", index |-> index, command |-> command] \in ApplyMsg
    BY SMTT(20), <2>1 DEF ApplyMsg
  <2>3. /\ applyMsg' \in [Server -> ApplyMsg \cup {Nil}]
        /\ lastApplied' \in [Server -> Nat]
    BY <1>1, <1>3, <2>1, <2>2 DEF applierTakesCommand
  <2> QED
    BY ZenonT(20), <1>3, <2>3 DEF applierTakesCommand, TypeOK, electionVars, logVars, leaderVars, voteVars
<1>4. CASE serviceReceives(i)
  <2>1. applyMsg[i] \in ApplyMsg
    BY <1>1, <1>4 DEF serviceReceives
  <2>2. CASE applyMsg[i].kind = "command"
    <3>1. applyMsg[i].command \in Command \cup {Nil}
      BY <2>1, <2>2 DEF ApplyMsg
    <3>2. service' = [service EXCEPT ![i] = Append(@, applyMsg[i].command)]
      BY <1>4, <2>2 DEF serviceReceives
    <3>3. Append(service[i], applyMsg[i].command) \in Seq(Command \cup {Nil})
      BY <1>1, <3>1, AppendProperties
    <3>4. service' \in [Server -> Seq(Command \cup {Nil})]
      BY SMTT(20), <1>1, <3>2, <3>3
    <3> QED
      BY ZenonT(20), <1>4, <3>4
         DEF serviceReceives, TypeOK, electionVars, logVars, leaderVars, voteVars
  <2>3. CASE applyMsg[i].kind # "command"
    <3>1. applyMsg[i].data \in Seq(Command \cup {Nil})
      BY <2>1, <2>3 DEF ApplyMsg
    <3>2. service' = [service EXCEPT ![i] = applyMsg[i].data]
      BY <1>4, <2>3 DEF serviceReceives
    <3>3. service' \in [Server -> Seq(Command \cup {Nil})]
      BY SMTT(20), <1>1, <3>1, <3>2
    <3> QED
      BY ZenonT(20), <1>4, <3>3
         DEF serviceReceives, TypeOK, electionVars, logVars, leaderVars, voteVars
  <2> QED
    BY <2>2, <2>3
<1> QED
  BY <1>2, <1>3, <1>4

LEMMA SnapshotType ==
    ASSUME TypeOK, NEW i \in Server, Snapshot(i)
    PROVE  TypeOK'
<1> DEFINE index == Len(service[i])
<1>1. /\ service[i] \in Seq(Command \cup {Nil})
      /\ index \in Nat
      /\ index \in logOffset[i] .. lastLogIndex(i)
  <2>1. service[i] \in Seq(Command \cup {Nil})
    BY DEF TypeOK
  <2>2. index \in Nat
    BY <2>1, LenProperties
  <2>3. logOffset[i] \in Nat /\ lastLogIndex(i) \in Nat
    BY LogFacts
  <2>4. index > logOffset[i] /\ index <= lastLogIndex(i)
    BY DEF Snapshot
  <2> HIDE DEF index
  <2> QED
    BY <2>1, <2>2, <2>3, <2>4
<1>2. compactedLog(i, index, logTerm(i, index)) \in Seq(LogEntry) \ {<<>>}
  <2>1. logTerm(i, index) \in Nat
    BY <1>1, LogFacts
  <2> HIDE DEF index
  <2> QED
    BY <1>1, <2>1, CompactedLogType
<1>3. /\ log' \in [Server -> Seq(LogEntry) \ {<<>>}]
      /\ logOffset' \in [Server -> Nat]
      /\ snapshot' \in [Server -> Seq(Command \cup {Nil})]
  BY SMTT(20), <1>1, <1>2 DEF Snapshot, TypeOK
<1>4. persister' \in [Server -> PersistedState]
  BY ZenonT(20), <1>3, PersistType DEF Snapshot, TypeOK, electionVars
<1> QED
  BY ZenonT(20), <1>3, <1>4 DEF Snapshot, TypeOK, electionVars, leaderVars, applyVars, voteVars

\* A restart from a persisted state.
LEMMA MakeType ==
    ASSUME TypeOK, NEW i \in Server, NEW saved \in PersistedState, Make(i, saved),
           worker' \in [Server -> [Server -> ReplicationRPC \cup {Nil}]],
           voteRequests' \in SUBSET RequestVoteArgs,
           late' \in SUBSET LateRequest
    PROVE  TypeOK'
<1>1. /\ saved.currentTerm \in Nat
      /\ saved.voteFor \in Server \cup {Nil}
      /\ saved.log \in Seq(LogEntry) \ {<<>>}
      /\ saved.logOffset \in Nat
      /\ saved.snapshot \in Seq(Command \cup {Nil})
  BY SMTT(20) DEF PersistedState
<1>2. /\ currentTerm' \in [Server -> Nat]
      /\ voteFor' \in [Server -> Server \cup {Nil}]
      /\ role' \in [Server -> {"FOLLOWER", "CANDIDATE", "LEADER"}]
  BY ZenonT(20), <1>1 DEF Make, TypeOK
<1>3. /\ log' \in [Server -> Seq(LogEntry) \ {<<>>}]
      /\ logOffset' \in [Server -> Nat]
      /\ snapshot' \in [Server -> Seq(Command \cup {Nil})]
      /\ service' \in [Server -> Seq(Command \cup {Nil})]
  BY ZenonT(20), <1>1 DEF Make, TypeOK
<1>4. /\ commitIndex' \in [Server -> Nat]
      /\ lastApplied' \in [Server -> Nat]
      /\ nextIndex' \in [Server -> [Server -> Nat]]
      /\ matchIndex' \in [Server -> [Server -> Nat]]
  BY ZenonT(20), <1>1 DEF Make, TypeOK
<1>5. /\ pendingSnapshot' \in [Server -> PendingSnapshot \cup {Nil}]
      /\ applyMsg' \in [Server -> ApplyMsg \cup {Nil}]
      /\ persister' \in [Server -> PersistedState]
      /\ voteReplies' \in SUBSET RequestVoteReply
  BY DEF Make, TypeOK
<1>6. supporters' \in [Server -> SUBSET Server]
  BY DEF Make, TypeOK
<1> QED
  BY ZenonT(20), <1>2, <1>3, <1>4, <1>5, <1>6 DEF TypeOK

LEMMA OrphanedType ==
    ASSUME NEW i, NEW requests \in SUBSET RequestVoteArgs
    PROVE  orphaned(i, requests) \in SUBSET RequestVoteArgs
<1>1. \A args \in RequestVoteArgs : [args EXCEPT !.live = FALSE] \in RequestVoteArgs
  BY ZenonT(20) DEF RequestVoteArgs
<1> QED
  BY <1>1 DEF orphaned

LEMMA NewTermSavedType ==
    ASSUME TypeOK, NEW i \in Server, NEW term \in Nat
    PROVE  newTermSaved(i, term) \in PersistedState
<1>1. persister[i] \in PersistedState
  BY DEF TypeOK
<1> QED
  BY ZenonT(20), <1>1 DEF newTermSaved, PersistedState

LEMMA CrashType ==
    ASSUME TypeOK,
           \/ \E i \in Server : restart(i)
           \/ \E args \in voteRequests : crashInRequestVote(args)
           \/ \E i, j \in Server : crashInReplication(i, j)
    PROVE  TypeOK'
<1>1. /\ worker \in [Server -> [Server -> ReplicationRPC \cup {Nil}]]
      /\ voteRequests \in SUBSET RequestVoteArgs
      /\ late \in SUBSET LateRequest
      /\ persister \in [Server -> PersistedState]
  BY ZenonT(20) DEF TypeOK
<1>2. ASSUME NEW i \in Server, restart(i)
      PROVE  TypeOK'
  <2>1. worker' \in [Server -> [Server -> ReplicationRPC \cup {Nil}]]
    BY SMTT(20), <1>1, <1>2 DEF restart
  <2>2. voteRequests' \in SUBSET RequestVoteArgs
    BY SMTT(20), <1>1, <1>2, OrphanedType DEF restart
  <2>3. late' \in SUBSET LateRequest
    <3>1. \A j \in Server : worker[i][j] # Nil
              => [peer |-> j, args |-> worker[i][j].args] \in LateRequest
      BY SMTT(20), RPCType DEF LateRequest
    <3>2. PICK abandoned \in SUBSET {j \in Server : worker[i][j] # Nil /\ worker[i][j].reply = Nil} :
              late' = late \cup {[peer |-> j, args |-> worker[i][j].args] : j \in abandoned}
      BY ZenonT(20), <1>2 DEF restart
    <3> QED
      BY SMTT(20), <1>1, <3>1, <3>2
  <2> QED
    BY <1>1, <1>2, <2>1, <2>2, <2>3, MakeType DEF restart
<1>3. ASSUME NEW args \in voteRequests, crashInRequestVote(args)
      PROVE  TypeOK'
  <2>1. args.peer \in Server /\ args.term \in Nat
    BY <1>1 DEF RequestVoteArgs
  <2>2. worker' \in [Server -> [Server -> ReplicationRPC \cup {Nil}]]
    BY <1>1, <1>3, <2>1 DEF crashInRequestVote
  <2>3. voteRequests' \in SUBSET RequestVoteArgs
    BY SMTT(20), <1>1, <1>3, OrphanedType DEF crashInRequestVote
  <2>4. late' \in SUBSET LateRequest
    BY SMTT(20), <1>1, <1>3 DEF crashInRequestVote
  <2> QED
    BY ZenonT(20), <1>3, <2>1, <2>2, <2>3, <2>4, NewTermSavedType, MakeType DEF crashInRequestVote
<1>4. ASSUME NEW i \in Server, NEW j \in Server, crashInReplication(i, j)
      PROVE  TypeOK'
  <2>1. worker[i][j].args.term \in Nat
    BY <1>4, RPCType DEF crashInReplication
  <2>2. worker' \in [Server -> [Server -> ReplicationRPC \cup {Nil}]]
    BY ZenonT(20), <1>1, <1>4 DEF crashInReplication
  <2>3. voteRequests' \in SUBSET RequestVoteArgs
    BY SMTT(20), <1>1, <1>4, OrphanedType DEF crashInReplication
  <2>4. late' \in SUBSET LateRequest
    BY <1>1, <1>4 DEF crashInReplication
  <2> QED
    BY ZenonT(20), <1>4, <2>1, <2>2, <2>3, <2>4, NewTermSavedType, MakeType DEF crashInReplication
<1> QED
  BY SMTT(20), <1>2, <1>3, <1>4

LEMMA NextType == TypeOK /\ [Next]_vars => TypeOK'
<1> SUFFICES ASSUME TypeOK, [Next]_vars PROVE TypeOK'
  BY SMTT(20)
<1>1. CASE UNCHANGED vars
  BY <1>1 DEF TypeOK, vars, electionVars, logVars, leaderVars, applyVars, voteVars
<1>2. ASSUME NEW i \in Server,
             \/ beginElection(i) \/ winAlone(i) \/ startHeartbeat(i)
             \/ \E command \in Command : Start(i, command)
      PROVE  TypeOK'
  BY <1>2, ElectionType, WinAloneType, StartHeartbeatType, StartType
<1>3. ASSUME NEW i \in Server,
             \/ applierTakesSnapshot(i) \/ applierTakesCommand(i)
             \/ serviceReceives(i) \/ Snapshot(i)
      PROVE  TypeOK'
  BY <1>3, ApplierType, SnapshotType
<1>4. ASSUME NEW i \in Server, NEW j \in Server \ {i},
             \/ replicate(i, j) \/ replicationTimeout(i, j)
             \/ deliverReplication(i, j) \/ replicationReply(i, j)
      PROVE  TypeOK'
  BY <1>4, ReplicateType, ReplicationTimeoutType, DeliverReplicationType,
     ReplicationReplyType
<1>5. ASSUME NEW args \in voteRequests, RequestVote(args)
      PROVE  TypeOK'
  BY <1>5, RequestVoteType
<1>6. ASSUME NEW reply \in voteReplies,
             \/ voteReplyHigherTerm(reply) \/ voteReplyIgnored(reply)
             \/ voteReplyGranted(reply)
      PROVE  TypeOK'
  BY <1>6, VoteReplyType
<1>7. ASSUME NEW request \in late, deliverLate(request)
      PROVE  TypeOK'
  BY <1>7, DeliverLateType
<1>8. CASE \/ \E i \in Server : restart(i)
           \/ \E args \in voteRequests : crashInRequestVote(args)
           \/ \E i, j \in Server : crashInReplication(i, j)
  BY <1>8, CrashType
<1> QED
  BY SMTT(20), <1>1, <1>2, <1>3, <1>4, <1>5, <1>6, <1>7, <1>8 DEF Next

\* Every variable always has its type: indexes and terms are never negative
\* and rf.log never loses the entry of the snapshot boundary, whatever
\* requests, replies, timeouts, compactions and crashes come in which order.
THEOREM TypeCorrect == Spec => []TypeOK
BY InitType, NextType, PTL DEF Spec

=============================================================================
