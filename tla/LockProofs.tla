---------------------------- MODULE LockProofs ----------------------------
(***************************************************************************)
(* Mutual exclusion of the lock, for any number of clients and tokens: the *)
(* steps of the key/value service, and the theorems.                       *)
(***************************************************************************)
EXTENDS LockSteps

\* The service works on the call of c without changing the store.
LEMMA LookKeeps ==
    ASSUME LockInv, NEW c \in Client, look(c) \/ refuse(c) \/ forget(c),
           UNCHANGED <<pc, owner, o, acquires>>
    PROVE  LockInv'
<1>0. /\ call[c] # Nil /\ UNCHANGED <<store, call, result>>
      /\ OnlyAt(c) /\ Distinct' /\ pc[c] \notin {"out", "held"}
  BY DEF LockInv, TypeOK, Distinct, OnlyAt, look, refuse, forget, Facts, Shape
<1>4. Shape(c) /\ Read(c) /\ Named(c) /\ Taken(c) /\ UNCHANGED <<pc, owner, o>>
  BY DEF LockInv, Facts
<1>1. CASE look(c)
  <2>1. pc[c] \in Gets /\ call[c] = get
    BY <1>0, <1>1 DEF look, LockInv, TypeOK, Location, Gets, Facts, Shape, put
  <2>2. effect'[c] = [err |-> IF entry.version = 0 THEN "ErrNoKey" ELSE "OK",
                      value |-> entry.value, version |-> entry.version]
    BY <1>1, <2>1 DEF look, LockInv, TypeOK, entry, get
  <2>3. entry \in Entry
    BY LockAssumption DEF LockInv, TypeOK, entry
  <2>4. effect'[c] \in GetReply
    BY <2>2, <2>3 DEF Entry, GetReply
  <2>5. TypeOK'
    BY <1>0, <1>1, <2>4 DEF LockInv, TypeOK, look
  <2>6. Shape(c)'
    BY <1>0, <2>1, <2>4 DEF LockInv, Facts, Shape, Gets
  <2>7. Read(c)' /\ Taken(c)'
    BY <1>0, <2>1, <2>2, <2>3 DEF LockInv, Facts, Read, Taken, Gets, entry, Entry
  <2>8. Named(c)'
    BY <1>0, <2>1 DEF Named, Gets, entry
  <2> QED
    BY <1>0, <2>5, <2>6, <2>7, <2>8, Others DEF Facts
<1>2. CASE refuse(c)
  <2>1. pc[c] \in {"acquirePut", "releasePut"}
    BY <1>0, <1>2 DEF refuse, LockInv, TypeOK, Location, Gets, Facts, Shape, get
  <2>2. effect'[c] \in PutReply /\ effect'[c] # [err |-> "OK"]
    BY SMTT(20), <1>2 DEF refuse, LockInv, TypeOK, PutReply
  <2>3. TypeOK'
    BY SMTT(20), <1>0, <1>2, <2>2 DEF LockInv, TypeOK, refuse
  <2>4. Facts(c)'
    <3>1. Shape(c)'
      BY <1>0, <1>4, <2>1, <2>2 DEF Shape, Gets
    <3>2. Named(c)'
      BY <1>0, <1>4 DEF Named, entry
    <3>3. Read(c)' /\ Taken(c)'
      BY <1>0, <2>1, <2>2 DEF Read, Taken, Gets
    <3> QED
      BY <3>1, <3>2, <3>3 DEF Facts
  <2> QED
    BY <1>0, <2>3, <2>4, Others
<1>3. CASE forget(c)
  <2>1. effect'[c] = Nil
    BY <1>3 DEF forget, LockInv, TypeOK
  <2>2. TypeOK'
    BY SMTT(20), <1>0, <1>3 DEF LockInv, TypeOK, forget
  <2>3. Facts(c)'
    <3>1. Shape(c)'
      BY <1>0, <1>4, <2>1 DEF Shape
    <3>2. Named(c)'
      BY <1>0, <1>4 DEF Named, entry
    <3>3. Read(c)' /\ Taken(c)'
      BY <1>0, <2>1, NilIsNoReply DEF Read, Taken
    <3> QED
      BY <3>1, <3>2, <3>3 DEF Facts
  <2> QED
    BY <1>0, <2>2, <2>3, Others
<1> QED
  BY <1>1, <1>2, <1>3

\* A Put is performed only on the version that its client has read: on a lock
\* that nobody has, or on the client's own token.
LEMMA Performs ==
    ASSUME LockInv, NEW c \in Client, perform(c)
    PROVE  /\ pc[c] \in {"acquirePut", "releasePut"}
           /\ call[c].key = lockname /\ call[c].version = entry.version
           /\ call[c].value = IF pc[c] = "acquirePut" THEN o[c] ELSE Idle
           /\ pc[c] = "acquirePut" => entry.value \notin Token
           /\ pc[c] = "releasePut" => entry.value = owner[c]
           /\ entry.value \in Token => entry.value = owner[c]
<1>1. Facts(c) /\ pc[c] \in Location /\ call[c] # Nil /\ call[c].op = "Put"
  BY SMTT(20) DEF LockInv, TypeOK, perform
<1>2. pc[c] \in {"acquirePut", "releasePut"}
  <2>1. pc[c] \notin {"out", "held"}
    BY <1>1 DEF Facts, Shape
  <2>2. pc[c] \notin Gets
    <3>1. get.op = "Get"
      BY DEF get
    <3> QED
      BY <1>1, <3>1 DEF Facts, Shape
  <2> QED
    BY <1>1, <2>1, <2>2 DEF Gets, Location
<1>3. call[c] = put(IF pc[c] = "acquirePut" THEN o[c] ELSE Idle, call[c].version)
  BY <1>1, <1>2 DEF Facts, Shape
<1>4. /\ call[c].key = lockname
      /\ call[c].value = IF pc[c] = "acquirePut" THEN o[c] ELSE Idle
  BY <1>3 DEF put
<1>5. call[c].version = entry.version
  BY <1>4 DEF perform, entry
<1> QED
  BY SMTT(20), <1>1, <1>2, <1>4, <1>5 DEF Facts, Named

\* Whoever has its token in the store keeps it there when another client's Put
\* is performed.
LEMMA PerformKeeps ==
    ASSUME LockInv, NEW c \in Client, perform(c), UNCHANGED <<pc, owner, o, acquires>>
    PROVE  LockInv'
<1>1. /\ pc[c] \in {"acquirePut", "releasePut"}
      /\ call[c].key = lockname /\ call[c].version = entry.version
      /\ call[c].value = IF pc[c] = "acquirePut" THEN o[c] ELSE Idle
      /\ entry.value \in Token => entry.value = owner[c]
  BY Performs
<1>2. entry \in Entry /\ entry.version \in Nat
  BY LockAssumption DEF LockInv, TypeOK, entry, Entry
<1>3. call[c].value \in Value /\ (pc[c] = "acquirePut" => call[c].value = o[c])
  BY <1>1, LockAssumption DEF LockInv, Facts, Shape
<1>4. /\ entry' = [value |-> call[c].value, version |-> entry.version + 1]
      /\ effect' = [effect EXCEPT ![c] = [err |-> "OK"]]
      /\ store' = [store EXCEPT ![lockname] = entry']
      /\ UNCHANGED <<call, result>>
  BY <1>1, LockAssumption DEF perform, entry, LockInv, TypeOK
<1>5. entry'.version = entry.version + 1 /\ entry'.value = call[c].value /\ entry' \in Entry
  BY <1>2, <1>3, <1>4 DEF Entry
<1>6. TypeOK'
  <2>1. [err |-> "OK"] \in PutReply
    BY DEF PutReply
  <2> QED
    BY <1>4, <1>5, <2>1 DEF LockInv, TypeOK
<1>7. NoToken' /\ Distinct'
  BY <1>2, <1>5 DEF LockInv, NoToken, Distinct
<1>8. Facts(c)'
  <2>1. effect'[c] = [err |-> "OK"] /\ effect'[c] \in PutReply
    BY <1>4 DEF LockInv, TypeOK, PutReply
  <2>2. Shape(c)'
    BY <1>1, <1>4, <2>1 DEF LockInv, Facts, Shape, Gets
  <2>3. Read(c)' /\ Taken(c)'
    BY <1>1, <1>3, <1>5 DEF Read, Taken, Gets
  <2>4. Named(c)'
    BY <1>1, <1>2, <1>4, <1>5 DEF Named
  <2> QED
    BY <2>2, <2>3, <2>4 DEF Facts
<1>9. ASSUME NEW d \in Client, d # c PROVE Facts(d)'
  <2>1. Facts(d) /\ effect'[d] = effect[d] /\ call'[d] = call[d]
    BY <1>4, <1>9 DEF LockInv, TypeOK
  <2>2. Shape(d)'
    BY SMTT(20), <2>1 DEF Facts, Shape
  <2>3. Read(d)'
    <3>1. pc[d] \in Gets /\ effect[d] # Nil => effect[d].version \in Nat
      BY <2>1 DEF Facts, Shape, GetReply
    <3> QED
      BY SMTT(20), <1>2, <1>5, <2>1, <3>1 DEF Facts, Read
  <2>4. Named(d)'
    <3>1. pc[d] \in {"acquirePut", "releasePut"} => call[d].version \in Nat
      BY <2>1 DEF Facts, Shape
    <3> QED
      BY <1>2, <1>5, <2>1, <3>1 DEF Facts, Named
  <2>5. Taken(d)'
    <3>1. entry.value \notin Token \/ (entry.value # o[d] /\ entry.value # owner[d])
      BY <1>1, <1>9 DEF LockInv, Distinct
    <3> QED
      BY <2>1, <3>1 DEF Facts, Shape, Taken
  <2> QED
    BY <2>2, <2>3, <2>4, <2>5 DEF Facts
<1> QED
  BY <1>6, <1>7, <1>8, <1>9 DEF LockInv

\* Nobody has a token at the start.
LEMMA InitLock == Init => LockInv
<1> SUFFICES ASSUME Init PROVE LockInv
  OBVIOUS
<1> USE DEF Init, MapInit
<1>1. absent \in Entry
  BY DEF absent, Entry
<1>2. TypeOK
  BY <1>1 DEF TypeOK, Location
<1>3. entry = absent
  BY LockAssumption DEF entry
<1>4. NoToken /\ Distinct
  BY <1>3, TokenTypes DEF NoToken, Distinct, absent
<1>5. ASSUME NEW c \in Client PROVE Facts(c)
  <2>1. pc[c] = "out" /\ call[c] = Nil /\ effect[c] = Nil
    OBVIOUS
  <2> QED
    BY <2>1 DEF Facts, Shape, Read, Named, Taken, Gets
<1> QED
  BY <1>2, <1>4, <1>5 DEF LockInv

\* Every step keeps the invariant.
LEMMA StepLock == LockInv /\ [Next]_vars => LockInv'
<1> SUFFICES ASSUME LockInv, [Next]_vars PROVE LockInv'
  BY SMTT(20)
<1>1. CASE UNCHANGED vars
  BY <1>1 DEF LockInv, vars, mapVars, TypeOK, NoToken, Distinct, Facts, Shape, Read,
              Named, Taken, entry
<1>2. ASSUME NEW c \in Client,
             \/ Acquire(c)
             \/ Release(c)
             \/ client(c)
             \/ (serve(c) \/ forget(c)) /\ UNCHANGED <<pc, owner, o, acquires>>
      PROVE  LockInv'
  <2>1. CASE client(c)
    BY <2>1, AcquireGetsKeeps, AcquirePutsKeeps, AcquireChecksKeeps,
       ReleaseGetsKeeps, ReleasePutsKeeps, ReleaseChecksKeeps DEF client
  <2>2. CASE (serve(c) \/ forget(c)) /\ UNCHANGED <<pc, owner, o, acquires>>
    BY <2>2, LookKeeps, PerformKeeps DEF serve
  <2> QED
    BY <1>2, <2>1, <2>2, BeginKeeps
<1> QED
  BY <1>1, <1>2 DEF Next

\* The lock excludes: at most one client is between the return of its Acquire and
\* its Release, for any number of clients, whatever Puts answer ErrMaybe.
THEOREM LockExcludes == Spec => []MutualExclusion
<1>1. LockInv => MutualExclusion
  BY DEF LockInv, MutualExclusion, Facts, Shape, Taken, Distinct
<1> QED
  BY InitLock, StepLock, <1>1, PTL DEF Spec

\* A token in the key is replaced only by the Put of its owner's Release.
THEOREM OwnersRelease == Spec => OnlyOwnerReleases
<1>1. ASSUME LockInv, [Next]_vars
      PROVE  [store[lockname].value \in Token /\ store'[lockname] # store[lockname]
                 => \E c \in Client : /\ owner[c] = store[lockname].value
                                      /\ pc[c] = "releasePut"]_vars
  <2> SUFFICES ASSUME Next, store[lockname].value \in Token,
                      store'[lockname] # store[lockname]
               PROVE  \E c \in Client : /\ owner[c] = store[lockname].value
                                        /\ pc[c] = "releasePut"
    BY <1>1
  <2>1. PICK c \in Client : perform(c)
    <3>1. ASSUME NEW c \in Client, Acquire(c) \/ Release(c) \/ look(c) \/ refuse(c) \/ forget(c)
          PROVE  store' = store
      BY SMTT(20), <3>1 DEF Acquire, Release, begin, look, refuse, forget
    <3>2. ASSUME NEW c \in Client, acquireGets(c) \/ acquirePuts(c) \/ acquireChecks(c)
          PROVE  store' = store
      BY SMTT(20), <3>2 DEF acquireGets, acquirePuts, acquireChecks, acquired, acquireAgain,
                  nextCall, return
    <3>3. ASSUME NEW c \in Client, releaseGets(c) \/ releasePuts(c) \/ releaseChecks(c)
          PROVE  store' = store
      BY <3>3 DEF releaseGets, releasePuts, releaseChecks, released, releaseAgain,
                  nextCall, return
    <3> QED
      BY SMTT(20), <3>1, <3>2, <3>3 DEF Next, client, serve
  <2> QED
    BY <1>1, <2>1, Performs DEF entry
<1> QED
  BY InitLock, StepLock, <1>1, PTL DEF Spec, OnlyOwnerReleases
=============================================================================
