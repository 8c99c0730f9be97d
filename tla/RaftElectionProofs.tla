------------------------ MODULE RaftElectionProofs ------------------------
(***************************************************************************)
(* Election safety of Raft, for every set of servers and every bound.      *)
(*                                                                         *)
(* ElectionSafety is not inductive: two leaders of one term are excluded   *)
(* because their majorities share a voter, so the invariant has to speak   *)
(* of votes that were counted and of votes still on their way (Ballots),   *)
(* and of what a voter has on stable storage (VotesPersisted), from which  *)
(* it comes back after a crash.                                            *)
(***************************************************************************)
EXTENDS RaftTypeProofs

VotesPersisted ==
    \A i \in Server : /\ persister[i].currentTerm = currentTerm[i]
                      /\ persister[i].voteFor = voteFor[i]

LeadersWon ==
    \A i \in Server : role[i] = "LEADER" => IsMajority(Cardinality(supporters[i]))

ElectionInv == TypeOK /\ VotesPersisted /\ BallotsBinding /\ LeadersWon

\* What most steps do to elections: nobody gains a vote or an office.
Withdrawal ==
    /\ \A j \in Server :
           /\ \/ currentTerm'[j] > currentTerm[j] /\ role'[j] = "FOLLOWER"
              \/ currentTerm'[j] = currentTerm[j] /\ voteFor'[j] = voteFor[j]
           /\ \/ role'[j] = "FOLLOWER"
              \/ role'[j] = role[j] /\ supporters'[j] = supporters[j]
           /\ persister'[j].currentTerm = currentTerm'[j]
           /\ persister'[j].voteFor = voteFor'[j]
    /\ voteReplies' \subseteq voteReplies

\* The step of VotesAreFinal.
VotesKept ==
    \A i \in Server :
        /\ currentTerm'[i] >= currentTerm[i]
        /\ currentTerm'[i] = currentTerm[i] /\ voteFor[i] # Nil
              => voteFor'[i] = voteFor[i]

----------------------------------------------------------------------------
(* Ballots *)

LEMMA BallotMember ==
    \A b : b \in Ballots <=>
        \/ \E c \in Server : \E j \in supporters[c] :
               /\ role[c] # "FOLLOWER"
               /\ b = [voter |-> j, candidate |-> c, term |-> currentTerm[c]]
        \/ \E r \in voteReplies :
               /\ r.granted
               /\ b = [voter |-> r.peer, candidate |-> r.candidate, term |-> r.electionTerm]
<1> TAKE b
<1>1. b \in countedBallots <=>
          \E c \in Server : \E j \in supporters[c] :
              /\ role[c] # "FOLLOWER"
              /\ b = [voter |-> j, candidate |-> c, term |-> currentTerm[c]]
  <2>1. b \in countedBallots <=> \E c \in Server : role[c] # "FOLLOWER" /\ b \in countedBy(c)
    BY DEF countedBallots
  <2>2. \A c : b \in countedBy(c) <=>
            \E j \in supporters[c] : b = [voter |-> j, candidate |-> c, term |-> currentTerm[c]]
    BY DEF countedBy
  <2> QED
    BY <2>1, <2>2
<1>2. b \in grantedBallots <=>
          \E r \in voteReplies :
              /\ r.granted
              /\ b = [voter |-> r.peer, candidate |-> r.candidate, term |-> r.electionTerm]
  BY DEF grantedBallots
<1> QED
  BY <1>1, <1>2 DEF Ballots

LEMMA BallotType ==
    TypeOK => \A b \in Ballots : /\ b.voter \in Server
                                 /\ b.candidate \in Server
                                 /\ b.term \in Nat
<1> SUFFICES ASSUME TypeOK, NEW b \in Ballots
             PROVE  b.voter \in Server /\ b.candidate \in Server /\ b.term \in Nat
  OBVIOUS
<1>1. ASSUME NEW c \in Server, NEW j \in supporters[c],
             b = [voter |-> j, candidate |-> c, term |-> currentTerm[c]]
      PROVE  b.voter \in Server /\ b.candidate \in Server /\ b.term \in Nat
  <2>1. j \in Server /\ currentTerm[c] \in Nat
    BY DEF TypeOK
  <2> QED
    BY <1>1, <2>1
<1>2. ASSUME NEW r \in voteReplies,
             b = [voter |-> r.peer, candidate |-> r.candidate, term |-> r.electionTerm]
      PROVE  b.voter \in Server /\ b.candidate \in Server /\ b.term \in Nat
  <2>1. r.peer \in Server /\ r.candidate \in Server /\ r.electionTerm \in Nat
    BY ZenonT(20) DEF TypeOK, RequestVoteReply
  <2> QED
    BY <1>2, <2>1
<1> QED
  BY <1>1, <1>2, BallotMember

\* Votes that are kept and ballots that are either old or the one just cast
\* preserve what binds the voters.
LEMMA BindingPreserved ==
    ASSUME TypeOK, TypeOK', BallotsBinding, VotesKept,
           \A b \in Ballots' :
               \/ b \in Ballots
               \/ currentTerm'[b.voter] = b.term /\ voteFor'[b.voter] = b.candidate
    PROVE  BallotsBinding'
<1>1. \A b \in Ballots : /\ b.voter \in Server
                         /\ b.candidate \in Server
                         /\ b.term \in Nat
  BY BallotType
<1>2. currentTerm \in [Server -> Nat] /\ currentTerm' \in [Server -> Nat]
  BY DEF TypeOK
<1>3. ASSUME NEW b \in Ballots
      PROVE  \/ currentTerm'[b.voter] > b.term
             \/ currentTerm'[b.voter] = b.term /\ voteFor'[b.voter] = b.candidate
  <2>1. CASE currentTerm[b.voter] > b.term
    BY <1>1, <1>2, <2>1 DEF VotesKept
  <2>2. CASE currentTerm[b.voter] = b.term /\ voteFor[b.voter] = b.candidate
    BY <1>1, <1>2, <2>2, NilAssumption DEF VotesKept
  <2> QED
    BY <2>1, <2>2 DEF BallotsBinding
<1>4. ASSUME NEW b \in Ballots'
      PROVE  \/ currentTerm'[b.voter] > b.term
             \/ currentTerm'[b.voter] = b.term /\ voteFor'[b.voter] = b.candidate
  BY <1>3
<1>5. \A b \in Ballots' : b.term \in Nat
  <2>1. (TypeOK => \A b \in Ballots : /\ b.voter \in Server
                                      /\ b.candidate \in Server
                                      /\ b.term \in Nat)'
    BY BallotType, PTL
  <2> QED
    BY <2>1
<1>6. ASSUME NEW a \in Ballots', NEW b \in Ballots', a.voter = b.voter, a.term = b.term
      PROVE  a.candidate = b.candidate
  <2>1. CASE a \in Ballots /\ b \in Ballots
    BY <1>6, <2>1 DEF BallotsBinding
  <2>2. CASE currentTerm'[b.voter] = b.term /\ voteFor'[b.voter] = b.candidate
    BY <1>4, <1>5, <1>6, <2>2
  <2>3. CASE currentTerm'[a.voter] = a.term /\ voteFor'[a.voter] = a.candidate
    BY <1>4, <1>5, <1>6, <2>3
  <2> QED
    BY <2>1, <2>2, <2>3
<1> QED
  BY <1>4, <1>6 DEF BallotsBinding

LEMMA BallotMemberNext ==
    \A b : b \in Ballots' <=>
        \/ \E c \in Server : \E j \in supporters'[c] :
               /\ role'[c] # "FOLLOWER"
               /\ b = [voter |-> j, candidate |-> c, term |-> currentTerm'[c]]
        \/ \E r \in voteReplies' :
               /\ r.granted
               /\ b = [voter |-> r.peer, candidate |-> r.candidate, term |-> r.electionTerm]
<1>1. (\A b : b \in Ballots <=>
          \/ \E c \in Server : \E j \in supporters[c] :
                 /\ role[c] # "FOLLOWER"
                 /\ b = [voter |-> j, candidate |-> c, term |-> currentTerm[c]]
          \/ \E r \in voteReplies :
                 /\ r.granted
                 /\ b = [voter |-> r.peer, candidate |-> r.candidate, term |-> r.electionTerm])'
  BY BallotMember, PTL
<1> QED
  BY <1>1

\* A step in which nobody gains anything preserves the invariant.
LEMMA WithdrawalPreserves ==
    ASSUME ElectionInv, TypeOK', Withdrawal
    PROVE  ElectionInv' /\ VotesKept
<1>1. currentTerm \in [Server -> Nat] /\ currentTerm' \in [Server -> Nat]
  BY DEF ElectionInv, TypeOK
<1>2. VotesKept
  BY <1>1 DEF Withdrawal, VotesKept
<1>3. VotesPersisted'
  BY DEF Withdrawal, VotesPersisted
<1>4. LeadersWon'
  BY DEF Withdrawal, LeadersWon, ElectionInv
<1>5. ASSUME NEW b \in Ballots' PROVE b \in Ballots
  <2>1. ASSUME NEW c \in Server, NEW j \in supporters'[c], role'[c] # "FOLLOWER",
               b = [voter |-> j, candidate |-> c, term |-> currentTerm'[c]]
        PROVE  b \in Ballots
    <3>1. /\ role[c] # "FOLLOWER"
          /\ j \in supporters[c]
          /\ currentTerm'[c] = currentTerm[c]
      BY <2>1 DEF Withdrawal
    <3> QED
      BY <2>1, <3>1, BallotMember
  <2>2. ASSUME NEW r \in voteReplies', r.granted,
               b = [voter |-> r.peer, candidate |-> r.candidate, term |-> r.electionTerm]
        PROVE  b \in Ballots
    <3>1. r \in voteReplies
      BY DEF Withdrawal
    <3> QED
      BY <2>2, <3>1, BallotMember
  <2> QED
    BY <2>1, <2>2, BallotMemberNext
<1>6. BallotsBinding'
  BY <1>2, <1>5, BindingPreserved DEF ElectionInv
<1> QED
  BY SMTT(20), <1>2, <1>3, <1>4, <1>6 DEF ElectionInv

----------------------------------------------------------------------------
(* Steps in which nobody gains a vote or an office *)

\* What persist() writes on server i, and what it leaves alone.
LEMMA PersistedVote ==
    ASSUME TypeOK, NEW i \in Server, persist(i)
    PROVE  /\ persister'[i].currentTerm = currentTerm'[i]
           /\ persister'[i].voteFor = voteFor'[i]
           /\ \A j \in Server \ {i} : persister'[j] = persister[j]
<1>1. persister \in [Server -> PersistedState]
  BY DEF TypeOK
<1> QED
  BY <1>1 DEF persist

LEMMA QuietWithdraws ==
    ASSUME ElectionInv,
           UNCHANGED <<currentTerm, voteFor, role, supporters>>,
           voteReplies' \subseteq voteReplies,
           UNCHANGED persister \/ \E i \in Server : persist(i)
    PROVE  Withdrawal
<1>1. \A j \in Server : /\ persister'[j].currentTerm = currentTerm'[j]
                        /\ persister'[j].voteFor = voteFor'[j]
  <2>1. CASE UNCHANGED persister
    BY <2>1 DEF ElectionInv, VotesPersisted
  <2>2. ASSUME NEW i \in Server, persist(i)
        PROVE  \A j \in Server : /\ persister'[j].currentTerm = currentTerm'[j]
                                 /\ persister'[j].voteFor = voteFor'[j]
    BY <2>2, PersistedVote DEF ElectionInv, VotesPersisted
  <2> QED
    BY <2>1, <2>2
<1> QED
  BY <1>1 DEF Withdrawal

\* The server i alone changes its term, vote and role.
OnlyAt(i) ==
    \A j \in Server \ {i} : /\ currentTerm'[j] = currentTerm[j]
                            /\ voteFor'[j] = voteFor[j]
                            /\ role'[j] = role[j]
                            /\ supporters'[j] = supporters[j]
                            /\ persister'[j] = persister[j]

LEMMA RetreatWithdraws ==
    ASSUME ElectionInv, NEW i \in Server, OnlyAt(i),
           role'[i] = "FOLLOWER",
           \/ currentTerm'[i] > currentTerm[i]
           \/ currentTerm'[i] = currentTerm[i] /\ voteFor'[i] = voteFor[i],
           persister'[i].currentTerm = currentTerm'[i],
           persister'[i].voteFor = voteFor'[i],
           voteReplies' \subseteq voteReplies
    PROVE  Withdrawal
BY DEF Withdrawal, OnlyAt, ElectionInv, VotesPersisted

LEMMA StepDownWithdraws ==
    ASSUME ElectionInv, NEW i \in Server, NEW term \in Nat, stepDown(i, term),
           term > currentTerm[i], UNCHANGED supporters,
           voteReplies' \subseteq voteReplies
    PROVE  Withdrawal
<1>1. /\ currentTerm \in [Server -> Nat]
      /\ voteFor \in [Server -> Server \cup {Nil}]
      /\ role \in [Server -> {"FOLLOWER", "CANDIDATE", "LEADER"}]
      /\ TypeOK
  BY ZenonT(20) DEF ElectionInv, TypeOK
<1>2. /\ persister'[i].currentTerm = currentTerm'[i]
      /\ persister'[i].voteFor = voteFor'[i]
      /\ \A j \in Server \ {i} : persister'[j] = persister[j]
  BY <1>1, PersistedVote DEF stepDown
<1>3. OnlyAt(i)
  BY <1>1, <1>2 DEF stepDown, OnlyAt
<1>4. role'[i] = "FOLLOWER" /\ currentTerm'[i] > currentTerm[i]
  BY <1>1 DEF stepDown
<1> QED
  BY SMTT(20), <1>2, <1>3, <1>4, RetreatWithdraws

\* A follower that takes on the term of a replication request, and saves what
\* it has to.
LEMMA FollowTermWithdraws ==
    ASSUME ElectionInv, NEW i \in Server, NEW args, args.term \in Nat,
           args.term >= currentTerm[i], followTerm(i, args),
           \/ persist(i)
           \/ ~(args.term > currentTerm[i]) /\ UNCHANGED persister,
           UNCHANGED <<supporters, voteReplies>>
    PROVE  Withdrawal
<1>1. /\ currentTerm \in [Server -> Nat]
      /\ voteFor \in [Server -> Server \cup {Nil}]
      /\ role \in [Server -> {"FOLLOWER", "CANDIDATE", "LEADER"}]
      /\ TypeOK
  BY ZenonT(20) DEF ElectionInv, TypeOK
<1>2. /\ role'[i] = "FOLLOWER"
      /\ currentTerm'[i] = args.term
      /\ \/ currentTerm'[i] > currentTerm[i]
         \/ currentTerm'[i] = currentTerm[i] /\ voteFor'[i] = voteFor[i]
  BY <1>1 DEF followTerm
<1>3. /\ persister'[i].currentTerm = currentTerm'[i]
      /\ persister'[i].voteFor = voteFor'[i]
      /\ \A j \in Server \ {i} : persister'[j] = persister[j]
  <2>1. CASE persist(i)
    BY <1>1, <2>1, PersistedVote
  <2>2. CASE ~(args.term > currentTerm[i]) /\ UNCHANGED persister
    BY <1>1, <1>2, <2>2 DEF ElectionInv, VotesPersisted
  <2> QED
    BY <2>1, <2>2
<1>4. OnlyAt(i)
  BY <1>1, <1>3 DEF followTerm, OnlyAt
<1> QED
  BY <1>2, <1>3, <1>4, RetreatWithdraws

LEMMA HandleReplicationWithdraws ==
    ASSUME ElectionInv, NEW i \in Server, NEW args \in ReplicationArgs,
           handleReplication(i, args)
    PROVE  Withdrawal
<1>1. args.term \in Nat /\ currentTerm[i] \in Nat
  BY DEF ReplicationArgs, AppendEntryArgs, InstallSnapshotArgs, ElectionInv, TypeOK
<1>2. UNCHANGED <<supporters, voteReplies>>
  BY DEF handleReplication, voteVars
<1>3. CASE args.term < currentTerm[i]
  <2>1. UNCHANGED <<electionVars, persister>>
    BY <1>1, <1>3 DEF handleReplication, AppendEntry, InstallSnapshot
  <2> QED
    BY SMTT(20), <1>2, <2>1, QuietWithdraws DEF electionVars
<1>4. CASE args.term >= currentTerm[i]
  <2>1. followTerm(i, args)
    BY SMTT(20), <1>1, <1>4 DEF handleReplication, AppendEntry, InstallSnapshot
  <2>2. \/ persist(i)
        \/ ~(args.term > currentTerm[i]) /\ UNCHANGED persister
    BY SMTT(20), <1>1, <1>4 DEF handleReplication, AppendEntry, InstallSnapshot
  <2> QED
    BY SMTT(20), <1>1, <1>2, <1>4, <2>1, <2>2, FollowTermWithdraws
<1> QED
  BY SMTT(20), <1>1, <1>3, <1>4

LEMMA MakeWithdraws ==
    ASSUME ElectionInv, NEW i \in Server, NEW saved \in PersistedState, Make(i, saved),
           \/ saved.currentTerm > currentTerm[i]
           \/ saved.currentTerm = currentTerm[i] /\ saved.voteFor = voteFor[i]
    PROVE  Withdrawal
<1>1. /\ currentTerm \in [Server -> Nat]
      /\ voteFor \in [Server -> Server \cup {Nil}]
      /\ role \in [Server -> {"FOLLOWER", "CANDIDATE", "LEADER"}]
      /\ persister \in [Server -> PersistedState]
      /\ supporters \in [Server -> SUBSET Server]
  BY DEF ElectionInv, TypeOK
<1>2. /\ role'[i] = "FOLLOWER"
      /\ currentTerm'[i] = saved.currentTerm
      /\ voteFor'[i] = saved.voteFor
      /\ persister'[i] = saved
      /\ voteReplies' \subseteq voteReplies
  BY <1>1 DEF Make
<1>3. OnlyAt(i)
  BY <1>1 DEF Make, OnlyAt
<1> QED
  BY SMTT(20), <1>2, <1>3, RetreatWithdraws

----------------------------------------------------------------------------
(* Steps that gain a vote or an office *)

LEMMA BeginElectionPreserves ==
    ASSUME ElectionInv, TypeOK', NEW i \in Server, beginElection(i)
    PROVE  ElectionInv' /\ VotesKept
<1>1. /\ currentTerm \in [Server -> Nat]
      /\ voteFor \in [Server -> Server \cup {Nil}]
      /\ role \in [Server -> {"FOLLOWER", "CANDIDATE", "LEADER"}]
      /\ supporters \in [Server -> SUBSET Server]
      /\ TypeOK
  BY ZenonT(20) DEF ElectionInv, TypeOK
<1>2. /\ role'[i] = "CANDIDATE"
      /\ currentTerm'[i] = currentTerm[i] + 1
      /\ voteFor'[i] = i
      /\ supporters'[i] = {i}
      /\ voteReplies' = voteReplies
      /\ persister'[i].currentTerm = currentTerm'[i]
      /\ persister'[i].voteFor = voteFor'[i]
  BY <1>1, PersistedVote DEF beginElection
<1>3. OnlyAt(i)
  BY <1>1, PersistedVote DEF beginElection, OnlyAt
<1>4. VotesKept
  BY <1>1, <1>2, <1>3 DEF VotesKept, OnlyAt
<1>5. VotesPersisted'
  BY <1>2, <1>3 DEF VotesPersisted, OnlyAt, ElectionInv
<1>6. LeadersWon'
  BY SMTT(20), <1>2, <1>3 DEF LeadersWon, OnlyAt, ElectionInv
<1>7. ASSUME NEW b \in Ballots'
      PROVE  \/ b \in Ballots
             \/ currentTerm'[b.voter] = b.term /\ voteFor'[b.voter] = b.candidate
  <2>1. ASSUME NEW c \in Server, NEW j \in supporters'[c], role'[c] # "FOLLOWER",
               b = [voter |-> j, candidate |-> c, term |-> currentTerm'[c]]
        PROVE  \/ b \in Ballots
               \/ currentTerm'[b.voter] = b.term /\ voteFor'[b.voter] = b.candidate
    <3>1. CASE c = i
      BY SMTT(20), <1>2, <2>1, <3>1
    <3>2. CASE c # i
      BY SMTT(20), <1>3, <2>1, <3>2, BallotMember DEF OnlyAt
    <3> QED
      BY <3>1, <3>2
  <2> QED
    BY SMTT(20), <1>2, <2>1, BallotMember, BallotMemberNext
<1>8. BallotsBinding'
  BY <1>1, <1>4, <1>7, BindingPreserved DEF ElectionInv
<1> QED
  BY SMTT(20), <1>4, <1>5, <1>6, <1>8 DEF ElectionInv

\* A candidate that counts votes it has, or one that a reply carries.
LEMMA CountingPreserves ==
    ASSUME ElectionInv, TypeOK', NEW i \in Server,
           UNCHANGED <<currentTerm, voteFor, persister>>,
           role[i] = "CANDIDATE",
           role'[i] = "LEADER" => IsMajority(Cardinality(supporters'[i])),
           \A j \in Server \ {i} : role'[j] = role[j] /\ supporters'[j] = supporters[j],
           \A j \in supporters'[i] :
               [voter |-> j, candidate |-> i, term |-> currentTerm[i]] \in Ballots,
           voteReplies' \subseteq voteReplies
    PROVE  ElectionInv' /\ VotesKept
<1>1. currentTerm \in [Server -> Nat] /\ TypeOK
  BY ZenonT(20) DEF ElectionInv, TypeOK
<1>2. VotesKept
  BY <1>1 DEF VotesKept
<1>3. VotesPersisted'
  BY DEF VotesPersisted, ElectionInv
<1>4. LeadersWon'
  BY DEF LeadersWon, ElectionInv
<1>5. ASSUME NEW b \in Ballots' PROVE b \in Ballots
  <2>1. ASSUME NEW c \in Server, NEW j \in supporters'[c], role'[c] # "FOLLOWER",
               b = [voter |-> j, candidate |-> c, term |-> currentTerm'[c]]
        PROVE  b \in Ballots
    <3>1. CASE c = i
      BY <2>1, <3>1
    <3>2. CASE c # i
      BY SMTT(20), <2>1, <3>2, BallotMember
    <3> QED
      BY <3>1, <3>2
  <2> QED
    BY SMTT(20), <2>1, BallotMember, BallotMemberNext
<1>6. BallotsBinding'
  BY SMTT(20), <1>1, <1>2, <1>5, BindingPreserved DEF ElectionInv
<1> QED
  BY SMTT(20), <1>2, <1>3, <1>4, <1>6 DEF ElectionInv

LEMMA WinAlonePreserves ==
    ASSUME ElectionInv, TypeOK', NEW i \in Server, winAlone(i)
    PROVE  ElectionInv' /\ VotesKept
<1>1. role \in [Server -> {"FOLLOWER", "CANDIDATE", "LEADER"}]
  BY DEF ElectionInv, TypeOK
<1>2. /\ UNCHANGED <<currentTerm, voteFor, persister, supporters, voteReplies>>
      /\ role[i] = "CANDIDATE"
      /\ IsMajority(Cardinality(supporters'[i]))
      /\ \A j \in Server \ {i} : role'[j] = role[j]
  BY <1>1 DEF winAlone, leaderInit, voteVars
<1>3. \A j \in supporters'[i] :
          [voter |-> j, candidate |-> i, term |-> currentTerm[i]] \in Ballots
  BY SMTT(20), <1>2, BallotMember
<1> QED
  BY SMTT(20), <1>2, <1>3, CountingPreserves

LEMMA VoteGrantedPreserves ==
    ASSUME ElectionInv, TypeOK', NEW reply \in voteReplies, voteReplyGranted(reply)
    PROVE  ElectionInv' /\ VotesKept
<1> DEFINE i == reply.candidate
<1>1. /\ role \in [Server -> {"FOLLOWER", "CANDIDATE", "LEADER"}]
      /\ supporters \in [Server -> SUBSET Server]
  BY ZenonT(20) DEF ElectionInv, TypeOK
<1>2. i \in Server
  BY DEF ElectionInv, TypeOK, RequestVoteReply
<1>3. /\ UNCHANGED <<currentTerm, voteFor, persister>>
      /\ role[i] = "CANDIDATE"
      /\ voteReplies' \subseteq voteReplies
      /\ supporters' = [supporters EXCEPT ![i] = @ \cup {reply.peer}]
      /\ reply.granted
      /\ currentTerm[i] = reply.electionTerm
  BY DEF voteReplyGranted
<1>4. /\ role'[i] = "LEADER" => IsMajority(Cardinality(supporters'[i]))
      /\ \A j \in Server \ {i} : role'[j] = role[j]
  BY <1>1, <1>2, <1>3 DEF voteReplyGranted, leaderInit
<1>5. \A j \in supporters'[i] :
          [voter |-> j, candidate |-> i, term |-> currentTerm[i]] \in Ballots
  <2>1. \A j \in supporters[i] :
            [voter |-> j, candidate |-> i, term |-> currentTerm[i]] \in Ballots
    BY SMTT(20), <1>2, <1>3, BallotMember
  <2>2. [voter |-> reply.peer, candidate |-> i, term |-> currentTerm[i]] \in Ballots
    BY <1>3, BallotMember
  <2>3. supporters'[i] = supporters[i] \cup {reply.peer}
    BY <1>1, <1>2, <1>3
  <2> QED
    BY SMTT(20), <2>1, <2>2, <2>3
<1>6. \A j \in Server \ {i} : supporters'[j] = supporters[j]
  BY <1>1, <1>2, <1>3
<1> HIDE DEF i
<1> QED
  BY ZenonT(20), <1>2, <1>3, <1>4, <1>5, <1>6, CountingPreserves

LEMMA RequestVotePreserves ==
    ASSUME ElectionInv, TypeOK', NEW args \in voteRequests, RequestVote(args)
    PROVE  ElectionInv' /\ VotesKept
<1> DEFINE i == args.peer
           rises == args.term > currentTerm[i]
           gives == /\ args.term >= currentTerm[i]
                    /\ rises \/ voteFor[i] \in {Nil, args.candidate}
                    /\ candidateLogIsUpToDate(i, args)
           answer == [term |-> currentTerm'[i], granted |-> gives, peer |-> i,
                      candidate |-> args.candidate, electionTerm |-> args.term]
<1>1. /\ currentTerm \in [Server -> Nat]
      /\ voteFor \in [Server -> Server \cup {Nil}]
      /\ role \in [Server -> {"FOLLOWER", "CANDIDATE", "LEADER"}]
      /\ TypeOK
  BY ZenonT(20) DEF ElectionInv, TypeOK
<1>2. i \in Server /\ args.term \in Nat /\ args.candidate \in Server
  BY ZenonT(20), <1>1 DEF TypeOK, RequestVoteArgs
<1>3. /\ currentTerm'[i] = IF rises THEN args.term ELSE currentTerm[i]
      /\ role'[i] = IF rises THEN "FOLLOWER" ELSE role[i]
      /\ voteFor'[i] = IF gives THEN args.candidate ELSE IF rises THEN Nil ELSE voteFor[i]
      /\ UNCHANGED supporters
      /\ voteReplies' \subseteq voteReplies \cup {answer}
  BY <1>1, <1>2 DEF RequestVote
<1>4. /\ persister'[i].currentTerm = currentTerm'[i]
      /\ persister'[i].voteFor = voteFor'[i]
      /\ \A j \in Server \ {i} : persister'[j] = persister[j]
  <2>1. CASE rises \/ gives
    <3>1. persist(i)
      BY SMTT(20), <2>1 DEF RequestVote
    <3> QED
      BY SMTT(20), <1>1, <1>2, <3>1, PersistedVote
  <2>2. CASE ~(rises \/ gives)
    <3>1. UNCHANGED persister
      BY SMTT(20), <2>2 DEF RequestVote
    <3> QED
      BY SMTT(20), <1>2, <1>3, <2>2, <3>1 DEF ElectionInv, VotesPersisted
  <2> QED
    BY <2>1, <2>2
<1>5. OnlyAt(i)
  BY SMTT(20), <1>1, <1>2, <1>4 DEF RequestVote, OnlyAt
<1>6. VotesKept
  <2>1. /\ currentTerm'[i] >= currentTerm[i]
        /\ currentTerm'[i] = currentTerm[i] /\ voteFor[i] # Nil => voteFor'[i] = voteFor[i]
    BY SMTT(20), <1>1, <1>2, <1>3
  <2> QED
    BY SMTT(20), <1>1, <1>2, <1>5, <2>1 DEF VotesKept, OnlyAt
<1>7. VotesPersisted'
  BY SMTT(20), <1>2, <1>4, <1>5 DEF VotesPersisted, OnlyAt, ElectionInv
<1>8. LeadersWon'
  BY ZenonT(20), <1>2, <1>3, <1>5 DEF LeadersWon, OnlyAt, ElectionInv
<1>9. ASSUME NEW b \in Ballots'
      PROVE  \/ b \in Ballots
             \/ currentTerm'[b.voter] = b.term /\ voteFor'[b.voter] = b.candidate
  <2>1. ASSUME NEW c \in Server, NEW j \in supporters'[c], role'[c] # "FOLLOWER",
               b = [voter |-> j, candidate |-> c, term |-> currentTerm'[c]]
        PROVE  b \in Ballots
    <3>1. role[c] # "FOLLOWER" /\ currentTerm'[c] = currentTerm[c] /\ j \in supporters[c]
      BY ZenonT(20), <1>2, <1>3, <1>5, <2>1 DEF OnlyAt
    <3> QED
      BY ZenonT(20), <2>1, <3>1, BallotMember
  <2>2. ASSUME NEW r \in voteReplies, r.granted,
               b = [voter |-> r.peer, candidate |-> r.candidate, term |-> r.electionTerm]
        PROVE  b \in Ballots
    BY ZenonT(20), <2>2, BallotMember
  <2>3. ASSUME gives, b = [voter |-> i, candidate |-> args.candidate, term |-> args.term]
        PROVE  currentTerm'[b.voter] = b.term /\ voteFor'[b.voter] = b.candidate
    <3>1. currentTerm[i] \in Nat /\ args.term >= currentTerm[i]
      BY ZenonT(20), <1>1, <1>2, <2>3
    <3> HIDE DEF gives, answer
    <3>2. currentTerm'[i] = args.term
      BY SMTT(20), <1>2, <1>3, <3>1
    <3>3. voteFor'[i] = args.candidate
      BY SMTT(20), <1>3, <2>3
    <3> QED
      BY ZenonT(20), <2>3, <3>2, <3>3
  <2>4. ASSUME NEW r \in voteReplies', r.granted,
               b = [voter |-> r.peer, candidate |-> r.candidate, term |-> r.electionTerm]
        PROVE  \/ b \in Ballots
               \/ currentTerm'[b.voter] = b.term /\ voteFor'[b.voter] = b.candidate
    <3>1. CASE r \in voteReplies
      BY SMTT(20), <2>2, <2>4, <3>1
    <3>2. CASE r = answer
      BY SMTT(20), <2>3, <2>4, <3>2
    <3> QED
      BY SMTT(20), <1>3, <3>1, <3>2
  <2> QED
    BY ZenonT(20), <2>1, <2>4, BallotMemberNext
<1>10. BallotsBinding'
  BY SMTT(20), <1>1, <1>6, <1>9, BindingPreserved DEF ElectionInv
<1> QED
  BY SMTT(20), <1>6, <1>7, <1>8, <1>10 DEF ElectionInv

----------------------------------------------------------------------------
(* The theorems *)

LEMMA ElectionInit == Init => ElectionInv
<1> SUFFICES ASSUME Init PROVE ElectionInv
  OBVIOUS
<1>1. TypeOK
  BY InitType
<1>2. Ballots = {}
  <2>1. \A b : b \notin Ballots
    BY BallotMember DEF Init
  <2> QED
    BY SMTT(20), <2>1
<1>3. VotesPersisted /\ LeadersWon
  BY DEF Init, VotesPersisted, LeadersWon
<1> QED
  BY <1>1, <1>2, <1>3 DEF ElectionInv, BallotsBinding

LEMMA ElectionNext == ElectionInv /\ [Next]_vars => ElectionInv' /\ VotesKept
<1> SUFFICES ASSUME ElectionInv, [Next]_vars PROVE ElectionInv' /\ VotesKept
  OBVIOUS
<1> USE WithdrawalPreserves
<1>1. TypeOK /\ TypeOK'
  BY NextType DEF ElectionInv
<1>2. CASE UNCHANGED vars
  BY <1>1, <1>2, QuietWithdraws DEF vars, electionVars, voteVars
<1>3. ASSUME NEW i \in Server, beginElection(i) \/ winAlone(i)
      PROVE  ElectionInv' /\ VotesKept
  BY SMTT(20), <1>1, <1>3, BeginElectionPreserves, WinAlonePreserves
<1>4. ASSUME NEW i \in Server, startHeartbeat(i) \/ \E command \in Command : Start(i, command)
      PROVE  ElectionInv' /\ VotesKept
  BY ZenonT(20), <1>1, <1>4, QuietWithdraws DEF startHeartbeat, Start, electionVars, voteVars
<1>5. ASSUME NEW i \in Server,
             \/ applierTakesSnapshot(i) \/ applierTakesCommand(i)
             \/ serviceReceives(i) \/ Snapshot(i)
      PROVE  ElectionInv' /\ VotesKept
  BY ZenonT(20), <1>1, <1>5, QuietWithdraws
     DEF applierTakesSnapshot, applierTakesCommand, serviceReceives, Snapshot,
         electionVars, voteVars
<1>6. ASSUME NEW i \in Server, NEW j \in Server \ {i},
             replicate(i, j) \/ replicationTimeout(i, j)
      PROVE  ElectionInv' /\ VotesKept
  BY SMTT(20), <1>1, <1>6, QuietWithdraws DEF replicate, replicationTimeout, electionVars, voteVars
<1>7. ASSUME NEW i \in Server, NEW j \in Server \ {i}, replicationReply(i, j)
      PROVE  ElectionInv' /\ VotesKept
  <2>1. UNCHANGED <<supporters, voteReplies>>
    BY SMTT(20), <1>7 DEF replicationReply, voteVars
  <2>2. CASE replyHigherTerm(i, j)
    <3>1. worker[i][j].reply.term \in Nat
      BY <1>1, <1>7, RPCType DEF replicationReply
    <3> QED
      BY SMTT(20), <1>1, <2>1, <2>2, <3>1, StepDownWithdraws DEF replyHigherTerm
  <2>3. CASE \/ replyIgnored(i, j) \/ snapshotAcknowledged(i, j)
             \/ entriesAcknowledged(i, j) \/ entriesRejected(i, j)
    <3>1. UNCHANGED <<electionVars, persister>>
      BY <2>3 DEF replyIgnored, snapshotAcknowledged, entriesAcknowledged, entriesRejected
    <3> QED
      BY SMTT(20), <1>1, <2>1, <3>1, QuietWithdraws DEF electionVars
  <2> QED
    BY <1>7, <2>2, <2>3 DEF replicationReply
<1>8. ASSUME NEW i \in Server, NEW j \in Server \ {i}, deliverReplication(i, j)
      PROVE  ElectionInv' /\ VotesKept
  BY SMTT(20), <1>1, <1>8, RPCType, HandleReplicationWithdraws DEF deliverReplication
<1>9. ASSUME NEW request \in late, deliverLate(request)
      PROVE  ElectionInv' /\ VotesKept
  <2>1. request.peer \in Server /\ request.args \in ReplicationArgs
    BY ZenonT(20), <1>1 DEF TypeOK, LateRequest
  <2> QED
    BY SMTT(20), <1>1, <1>9, <2>1, HandleReplicationWithdraws DEF deliverLate
<1>10. ASSUME NEW args \in voteRequests, RequestVote(args)
       PROVE  ElectionInv' /\ VotesKept
  BY <1>1, <1>10, RequestVotePreserves
<1>11. ASSUME NEW reply \in voteReplies,
              \/ voteReplyHigherTerm(reply) \/ voteReplyIgnored(reply)
              \/ voteReplyGranted(reply)
       PROVE  ElectionInv' /\ VotesKept
  <2>1. reply.candidate \in Server /\ reply.term \in Nat
    BY ZenonT(20), <1>1 DEF TypeOK, RequestVoteReply
  <2>2. CASE voteReplyHigherTerm(reply)
    BY <1>1, <2>1, <2>2, StepDownWithdraws DEF voteReplyHigherTerm
  <2>3. CASE voteReplyIgnored(reply)
    BY <1>1, <2>3, QuietWithdraws DEF voteReplyIgnored, electionVars
  <2> QED
    BY <1>1, <1>11, <2>2, <2>3, VoteGrantedPreserves
<1>12. ASSUME NEW i \in Server, restart(i)
       PROVE  ElectionInv' /\ VotesKept
  <2>1. persister[i] \in PersistedState
    BY SMTT(20), <1>1 DEF TypeOK
  <2>2. Withdrawal
    BY ZenonT(20), <1>12, <2>1, MakeWithdraws DEF restart, ElectionInv, VotesPersisted
  <2> QED
    BY SMTT(20), <1>1, <2>2
<1>13. ASSUME NEW i \in Server, NEW term \in Nat, term > currentTerm[i],
              Make(i, newTermSaved(i, term))
       PROVE  ElectionInv' /\ VotesKept
  <2>1. newTermSaved(i, term) \in PersistedState
    BY <1>1, NewTermSavedType
  <2>2. newTermSaved(i, term).currentTerm = term
    <3>1. persister[i] \in PersistedState
      BY SMTT(20), <1>1 DEF TypeOK
    <3> QED
      BY SMTT(20), <3>1 DEF newTermSaved, PersistedState
  <2>3. Withdrawal
    BY SMTT(20), <1>13, <2>1, <2>2, MakeWithdraws
  <2> QED
    BY <1>1, <2>3
<1>14. ASSUME NEW args \in voteRequests, crashInRequestVote(args)
       PROVE  ElectionInv' /\ VotesKept
  <2>1. args.peer \in Server /\ args.term \in Nat
    BY ZenonT(20), <1>1 DEF TypeOK, RequestVoteArgs
  <2> QED
    BY SMTT(20), <1>13, <1>14, <2>1 DEF crashInRequestVote
<1>15. ASSUME NEW i \in Server, NEW j \in Server \ {i}, crashInReplication(i, j)
       PROVE  ElectionInv' /\ VotesKept
  <2>1. worker[i][j].args.term \in Nat
    BY <1>1, <1>15, RPCType DEF crashInReplication
  <2> QED
    BY <1>13, <1>15, <2>1 DEF crashInReplication
<1> QED
  BY SMTT(20), <1>2, <1>3, <1>4, <1>5, <1>6, <1>7, <1>8, <1>9, <1>10, <1>11, <1>12, <1>14, <1>15
     DEF Next

\* Two majorities of supporters share a server, whose ballot in the term of
\* both leaders is for one of them.
LEMMA ElectionInvSafe == ElectionInv => ElectionSafety
<1> SUFFICES ASSUME ElectionInv, NEW i \in Server, NEW j \in Server,
                    role[i] = "LEADER", role[j] = "LEADER",
                    currentTerm[i] = currentTerm[j]
             PROVE  i = j
  BY DEF ElectionSafety
<1>1. supporters[i] \subseteq Server /\ supporters[j] \subseteq Server
  BY ZenonT(20) DEF ElectionInv, TypeOK
<1>2. /\ Cardinality(Server) \in Nat
      /\ Cardinality(supporters[i]) \in Nat
      /\ Cardinality(supporters[j]) \in Nat
  BY <1>1, ServerAssumption, FS_Subset, FS_CardinalityType
<1>3. /\ Cardinality(supporters[i]) >= (Cardinality(Server) \div 2) + 1
      /\ Cardinality(supporters[j]) >= (Cardinality(Server) \div 2) + 1
  BY DEF ElectionInv, LeadersWon, IsMajority
<1>4. Cardinality(supporters[i]) + Cardinality(supporters[j]) > Cardinality(Server)
  BY <1>2, <1>3
<1>5. supporters[i] \cap supporters[j] # {}
  BY SMTT(20), <1>1, <1>4, ServerAssumption, FS_MajoritiesIntersect
<1>6. PICK k \in Server : k \in supporters[i] /\ k \in supporters[j]
  BY SMTT(20), <1>1, <1>5
<1>7. /\ [voter |-> k, candidate |-> i, term |-> currentTerm[i]] \in Ballots
      /\ [voter |-> k, candidate |-> j, term |-> currentTerm[i]] \in Ballots
  BY <1>6, BallotMember
<1> QED
  BY <1>7 DEF ElectionInv, BallotsBinding

\* Every vote that counts or may come to count binds its voter: nobody votes
\* twice in a term, not even after a crash between the two calls of persist.
THEOREM BallotsBind == Spec => []BallotsBinding
<1>1. ElectionInv => BallotsBinding
  BY DEF ElectionInv
<1> QED
  BY <1>1, ElectionInit, ElectionNext, PTL DEF Spec

\* No two servers ever lead the same term.
THEOREM AtMostOneLeader == Spec => []ElectionSafety
BY ElectionInit, ElectionNext, ElectionInvSafe, PTL DEF Spec

\* Terms never go back, and no vote is taken back within its term.
THEOREM VotesFinal == Spec => VotesAreFinal
<1>1. VotesKept => (\A i \in Server :
          /\ currentTerm'[i] >= currentTerm[i]
          /\ currentTerm'[i] = currentTerm[i] /\ voteFor[i] # Nil
                => voteFor'[i] = voteFor[i])
  BY DEF VotesKept
<1> QED
  BY <1>1, ElectionInit, ElectionNext, PTL DEF Spec, VotesAreFinal

=============================================================================
