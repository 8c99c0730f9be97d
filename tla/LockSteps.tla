---------------------------- MODULE LockSteps ----------------------------
(***************************************************************************)
(* The invariant of the lock, and what a client does alone preserves it:   *)
(* the steps of Acquire and Release for any number of clients and tokens.  *)
(***************************************************************************)
EXTENDS Lock, TLAPS

Gets == {"acquireGet", "acquireCheck", "releaseGet", "releaseCheck"}

entry == store[lockname]

\* Which call a client is in, and which tokens it has, by its location.
Shape(c) ==
    /\ pc[c] \in {"out", "held"} => call[c] = Nil /\ effect[c] = Nil
    /\ pc[c] \in Gets => call[c] = get /\ effect[c] \in GetReply \cup {Nil}
    /\ pc[c] = "acquirePut" => call[c] = put(o[c], call[c].version)
    /\ pc[c] = "releasePut" => call[c] = put(Idle, call[c].version)
    /\ pc[c] \in {"acquirePut", "releasePut"} =>
           call[c].version \in Nat /\ effect[c] \in PutReply \cup {Nil}
    /\ pc[c] \in {"acquirePut", "acquireCheck"} => o[c] \in Token
    /\ pc[c] = "held" => owner[c] \in Token

\* What a client has read is the entry of the lock, or an earlier one.
Read(c) ==
    pc[c] \in Gets /\ effect[c] # Nil =>
        /\ effect[c].version <= entry.version
        /\ effect[c].version = entry.version => effect[c].value = entry.value
        /\ effect[c].err # "OK" => effect[c].version = 0

\* A Put that can still be performed replaces what its client has read.
Named(c) ==
    /\ pc[c] \in {"acquirePut", "releasePut"} => call[c].version <= entry.version
    /\ pc[c] = "acquirePut" /\ call[c].version = entry.version => entry.value \notin Token
    /\ pc[c] = "releasePut" /\ call[c].version = entry.version => entry.value = owner[c]

\* A client that has stored its token, or has seen it, still has it there.
Taken(c) ==
    /\ pc[c] = "acquirePut" /\ effect[c] = [err |-> "OK"] => entry.value = o[c]
    /\ pc[c] = "acquireCheck" /\ effect[c] # Nil =>
           (effect[c].value = o[c] => entry.value = o[c])
    /\ pc[c] = "held" => entry.value = owner[c]

\* No token belongs to two clients.
Distinct ==
    \A c, d \in Client : c # d =>
        /\ owner[c] \in Token => owner[c] # owner[d] /\ owner[c] # o[d]
        /\ o[c] \in Token => o[c] # o[d] /\ o[c] # owner[d]

NoToken == entry.version = 0 => entry.value \notin Token

Facts(c) == Shape(c) /\ Read(c) /\ Named(c) /\ Taken(c)

LockInv ==
    /\ TypeOK
    /\ NoToken
    /\ Distinct
    /\ \A c \in Client : Facts(c)

\* A step of client c that leaves the store alone.
OnlyAt(c) ==
    /\ store' = store
    /\ \A d \in Client \ {c} :
           /\ pc'[d] = pc[d] /\ call'[d] = call[d] /\ effect'[d] = effect[d]
           /\ owner'[d] = owner[d] /\ o'[d] = o[d]

\* Such a step disturbs only what is known of c itself.
LEMMA Others ==
    ASSUME LockInv, NEW c \in Client, OnlyAt(c), TypeOK', Distinct', Facts(c)'
    PROVE  LockInv'
<1>1. NoToken'
  BY DEF LockInv, NoToken, entry, OnlyAt
<1>2. ASSUME NEW d \in Client, d # c PROVE Facts(d)'
  <2>1. Facts(d)
    BY DEF LockInv
  <2>2. /\ pc'[d] = pc[d] /\ call'[d] = call[d] /\ effect'[d] = effect[d]
        /\ owner'[d] = owner[d] /\ o'[d] = o[d] /\ store' = store
    BY <1>2 DEF OnlyAt
  <2> QED
    BY <2>1, <2>2 DEF Facts, Shape, Read, Named, Taken, entry
<1> QED
  BY <1>1, <1>2 DEF LockInv

\* The values that TypeOK speaks of are values of the service.
LEMMA TokenTypes == Idle \notin Token /\ Empty \notin Token /\ Idle # Empty
BY LockAssumption

\* Calls of the lock are well-formed.
LEMMA CallTypes ==
    /\ get \in GetArgs
    /\ \A v \in Token \cup {Idle}, n \in Nat : put(v, n) \in PutArgs
BY LockAssumption DEF get, put, GetArgs, PutArgs

\* A Get returns what it has seen.
LEMMA GetAnswer ==
    ASSUME LockInv, NEW c \in Client, pc[c] \in Gets, NEW answer \in answers(c)
    PROVE  /\ effect[c] # Nil /\ answer = effect[c] /\ answer \in GetReply
           /\ answer.version \in Nat /\ Read(c)
<1>1. call[c] = get /\ effect[c] \in GetReply \cup {Nil} /\ Read(c)
  BY DEF LockInv, Facts, Shape
<1>2. effect[c] # Nil /\ answer = effect[c]
  BY <1>1 DEF answers, get
<1> QED
  BY <1>1, <1>2 DEF GetReply

\* A Put returns OK only if it was performed.
LEMMA PutAnswer ==
    ASSUME LockInv, NEW c \in Client, pc[c] \in {"acquirePut", "releasePut"},
           NEW answer \in answers(c)
    PROVE  answer \in PutReply /\ (answer.err = "OK" => effect[c] = [err |-> "OK"])
<1>1. effect[c] \in PutReply \cup {Nil}
  BY DEF LockInv, Facts, Shape
<1>2. effect[c] # Nil /\ answer \in {effect[c], [err |-> "ErrMaybe"]}
  BY DEF answers
<1> QED
  BY <1>1, <1>2 DEF PutReply

\* Nil is not an answer.
LEMMA NilIsNoReply == Nil # [err |-> "OK"]
BY ReplyAssumption DEF PutReply

\* A step of client c that makes or ends a call: where c is afterwards, in which
\* call, and with which tokens.
Moved(c, l, args, w, t) ==
    /\ store' = store
    /\ pc' = [pc EXCEPT ![c] = l]
    /\ call' = [call EXCEPT ![c] = args]
    /\ effect' = [effect EXCEPT ![c] = Nil]
    /\ owner' = [owner EXCEPT ![c] = w]
    /\ o' = [o EXCEPT ![c] = t]
    /\ result' \in [Client -> GetReply \cup PutReply \cup {Nil}]
    /\ acquires' \in [Client -> Nat]

\* What has to hold for such a step.
Fits(l, args, w, t) ==
    /\ l \in {"out", "held"} => args = Nil
    /\ l \in Gets => args = get
    /\ l \in {"acquirePut", "acquireCheck"} => t \in Token
    /\ l = "held" => w \in Token /\ entry.value = w
    /\ l = "acquirePut" =>
           \E n \in Nat : /\ args = put(t, n) /\ n <= entry.version
                          /\ n = entry.version => entry.value \notin Token
    /\ l = "releasePut" =>
           \E n \in Nat : /\ args = put(Idle, n) /\ n <= entry.version
                          /\ n = entry.version => entry.value = w

\* The tokens that c has afterwards are its own, or new.
LEMMA Moves ==
    ASSUME LockInv, NEW c \in Client, NEW l \in Location, NEW args,
           NEW w \in {owner[c], o[c], Empty}, NEW t \in Token \cup {Empty},
           t \in {o[c], Empty} \/ fresh(t),
           Moved(c, l, args, w, t), Fits(l, args, w, t)
    PROVE  LockInv'
<1>1. args \in GetArgs \cup PutArgs \cup {Nil}
  <2>1. \A n \in Nat : put(Idle, n) \in PutArgs /\ (t \in Token => put(t, n) \in PutArgs)
    BY CallTypes
  <2> QED
    BY <2>1, CallTypes DEF Fits, Location, Gets
<1>2. TypeOK'
  BY <1>1 DEF LockInv, TypeOK, Moved
<1>3. Distinct'
  BY TokenTypes DEF LockInv, TypeOK, Distinct, Moved, fresh
<1>4. OnlyAt(c)
  BY DEF LockInv, TypeOK, OnlyAt, Moved
<1>5. /\ pc'[c] = l /\ call'[c] = args /\ effect'[c] = Nil /\ owner'[c] = w /\ o'[c] = t
      /\ entry' = entry
  BY DEF LockInv, TypeOK, Moved, entry
<1>6. Shape(c)' /\ Named(c)'
  <2>1. CASE l \notin {"acquirePut", "releasePut"}
    BY <1>5, <2>1 DEF Fits, Shape, Named, Gets
  <2>2. CASE l = "acquirePut"
    <3>1. PICK n \in Nat : /\ args = put(t, n) /\ n <= entry.version
                           /\ n = entry.version => entry.value \notin Token
      BY <2>2 DEF Fits
    <3>2. args.version = n
      BY <3>1 DEF put
    <3> QED
      BY <1>5, <2>2, <3>1, <3>2 DEF Fits, Shape, Named, Gets
  <2>3. CASE l = "releasePut"
    <3>1. PICK n \in Nat : /\ args = put(Idle, n) /\ n <= entry.version
                           /\ n = entry.version => entry.value = w
      BY <2>3 DEF Fits
    <3>2. args.version = n
      BY <3>1 DEF put
    <3> QED
      BY <1>5, <2>3, <3>1, <3>2 DEF Fits, Shape, Named, Gets
  <2> QED
    BY <2>1, <2>2, <2>3
<1>7. Read(c)' /\ Taken(c)'
  BY <1>5, NilIsNoReply DEF Fits, Read, Taken
<1> QED
  BY <1>2, <1>3, <1>4, <1>6, <1>7, Others DEF Facts

\* In particular, c makes a Get.
LEMMA MovesToGet ==
    ASSUME LockInv, NEW c \in Client, NEW l \in Gets,
           NEW w \in {owner[c], Empty}, NEW t \in {o[c], Empty},
           l = "acquireCheck" => t \in Token,
           Moved(c, l, get, w, t)
    PROVE  LockInv'
<1>1. Fits(l, get, w, t) /\ l \in Location
  BY DEF Fits, Gets, Location
<1>2. t \in Token \cup {Empty}
  BY DEF LockInv, TypeOK
<1> QED
  BY <1>1, <1>2, Moves

\* What a client does not touch stays.
LEMMA Untouched ==
    ASSUME LockInv, NEW c \in Client
    PROVE  /\ owner = [owner EXCEPT ![c] = owner[c]]
           /\ o = [o EXCEPT ![c] = o[c]]
           /\ pc = [pc EXCEPT ![c] = pc[c]]
           /\ effect[c] = Nil => effect = [effect EXCEPT ![c] = Nil]
BY DEF LockInv, TypeOK

----------------------------------------------------------------------------
(* One lemma per action. *)

\* Acquire and Release begin with a Get.
LEMMA BeginKeeps ==
    ASSUME LockInv, NEW c \in Client, Acquire(c) \/ Release(c) PROVE LockInv'
<1>1. effect[c] = Nil
  BY DEF LockInv, Facts, Shape, Acquire, Release
<1>2. PICK l \in {"acquireGet", "releaseGet"} : Moved(c, l, get, owner[c], o[c])
  BY <1>1, Untouched DEF LockInv, TypeOK, Acquire, Release, begin, goto, Moved
<1> QED
  BY <1>2, MovesToGet DEF Gets

\* A return, or the next call, is a move.
LEMMA ReturnMoves ==
    ASSUME LockInv, NEW c \in Client, NEW answer \in GetReply \cup PutReply,
           NEW l, goto(c, l), NEW w, owner' = [owner EXCEPT ![c] = w],
           NEW t, o' = [o EXCEPT ![c] = t], acquires' = acquires
    PROVE  /\ return(c, answer) => Moved(c, l, Nil, w, t)
           /\ \A args : nextCall(c, answer, args) => Moved(c, l, args, w, t)
BY DEF LockInv, TypeOK, goto, return, nextCall, Moved

\* The token that Acquire draws is new, and its Put names the version it has read.
LEMMA AcquireGetsKeeps ==
    ASSUME LockInv, NEW c \in Client, acquireGets(c) PROVE LockInv'
<1> DEFINE n(answer) == IF answer.err = "OK" THEN answer.version ELSE 0
<1> PICK answer \in answers(c) :
        \/ /\ answer.err # "OK" \/ answer.value = Idle
           /\ \E t \in Token : /\ fresh(t) /\ o' = [o EXCEPT ![c] = t]
                               /\ nextCall(c, answer, put(t, n(answer)))
           /\ goto(c, "acquirePut")
        \/ nextCall(c, answer, get) /\ UNCHANGED <<pc, o>>
  BY DEF acquireGets
<1>a. /\ pc[c] = "acquireGet" /\ UNCHANGED <<owner, acquires>>
      /\ effect[c] # Nil /\ answer = effect[c] /\ answer \in GetReply
      /\ answer.version \in Nat /\ Read(c)
  BY GetAnswer DEF acquireGets, Gets
<1>1. CASE nextCall(c, answer, get) /\ UNCHANGED <<pc, o>>
  <2>1. Moved(c, "acquireGet", get, owner[c], o[c])
    BY <1>1, <1>a, Untouched, ReturnMoves DEF goto
  <2> QED
    BY <2>1, MovesToGet DEF Gets
<1>2. ASSUME NEW t \in Token, fresh(t), o' = [o EXCEPT ![c] = t],
             answer.err # "OK" \/ answer.value = Idle,
             nextCall(c, answer, put(t, n(answer))), goto(c, "acquirePut")
      PROVE  LockInv'
  <2>1. /\ answer.version <= entry.version
        /\ answer.version = entry.version => answer.value = entry.value
        /\ n(answer) = answer.version
    BY <1>a DEF Read, Gets
  <2>2. answer.version = entry.version => entry.value \notin Token
    BY <1>2, <1>a, <2>1, TokenTypes DEF LockInv, NoToken, Read, Gets
  <2>3. Fits("acquirePut", put(t, n(answer)), owner[c], t)
    BY <1>a, <2>1, <2>2 DEF Fits, Gets
  <2>4. Moved(c, "acquirePut", put(t, n(answer)), owner[c], t)
    BY <1>2, <1>a, Untouched, ReturnMoves
  <2> QED
    BY <1>2, <2>3, <2>4, Moves DEF Location
<1> QED
  BY <1>1, <1>2

\* Acquire returns when its token is in the store.
LEMMA Acquired ==
    ASSUME LockInv, NEW c \in Client, o[c] \in Token, entry.value = o[c],
           NEW answer \in GetReply \cup PutReply, acquired(c, answer), acquires' = acquires
    PROVE  LockInv'
<1>1. Moved(c, "held", Nil, o[c], Empty)
  BY ReturnMoves DEF acquired
<1>2. Fits("held", Nil, o[c], Empty)
  BY DEF Fits, Gets
<1> QED
  BY <1>1, <1>2, Moves DEF Location

\* Acquire gives its token up and starts again.
LEMMA AcquireAgain ==
    ASSUME LockInv, NEW c \in Client, NEW answer \in GetReply \cup PutReply,
           acquireAgain(c, answer), acquires' = acquires
    PROVE  LockInv'
<1>1. Moved(c, "acquireGet", get, owner[c], Empty)
  BY Untouched, ReturnMoves DEF acquireAgain
<1> QED
  BY <1>1, MovesToGet DEF Gets

\* After OK the token is in the store; after ErrMaybe it may be.
LEMMA AcquirePutsKeeps ==
    ASSUME LockInv, NEW c \in Client, acquirePuts(c) PROVE LockInv'
<1> PICK answer \in answers(c) :
        \/ answer.err = "OK" /\ acquired(c, answer)
        \/ nextCall(c, answer, get) /\ goto(c, "acquireCheck") /\ UNCHANGED <<owner, o>>
        \/ acquireAgain(c, answer)
  BY DEF acquirePuts
<1>a. /\ pc[c] = "acquirePut" /\ acquires' = acquires /\ o[c] \in Token
      /\ answer \in PutReply /\ (answer.err = "OK" => effect[c] = [err |-> "OK"])
  BY PutAnswer DEF acquirePuts, LockInv, Facts, Shape
<1>1. CASE answer.err = "OK" /\ acquired(c, answer)
  <2>1. entry.value = o[c]
    BY <1>1, <1>a DEF LockInv, Facts, Taken
  <2> QED
    BY <1>1, <1>a, <2>1, Acquired
<1>2. CASE nextCall(c, answer, get) /\ goto(c, "acquireCheck") /\ UNCHANGED <<owner, o>>
  <2>1. Moved(c, "acquireCheck", get, owner[c], o[c])
    BY <1>2, <1>a, Untouched, ReturnMoves
  <2> QED
    BY <1>a, <2>1, MovesToGet DEF Gets
<1> QED
  BY <1>1, <1>2, <1>a, AcquireAgain

\* A client that reads its own token holds the lock.
LEMMA AcquireChecksKeeps ==
    ASSUME LockInv, NEW c \in Client, acquireChecks(c) PROVE LockInv'
<1> PICK answer \in answers(c) :
        IF answer.err = "OK" /\ answer.value = o[c]
        THEN acquired(c, answer) ELSE acquireAgain(c, answer)
  BY DEF acquireChecks
<1>a. /\ pc[c] = "acquireCheck" /\ acquires' = acquires /\ o[c] \in Token
      /\ effect[c] # Nil /\ answer = effect[c] /\ answer \in GetReply
  BY GetAnswer DEF acquireChecks, Gets, LockInv, Facts, Shape
<1>1. answer.value = o[c] => entry.value = o[c]
  BY <1>a DEF LockInv, Facts, Taken
<1> QED
  BY <1>a, <1>1, Acquired, AcquireAgain

\* Release returns without a token.
LEMMA Released ==
    ASSUME LockInv, NEW c \in Client, NEW answer \in GetReply \cup PutReply,
           released(c, answer), UNCHANGED <<o, acquires>>
    PROVE  LockInv'
<1>1. Moved(c, "out", Nil, Empty, o[c])
  BY Untouched, ReturnMoves DEF released
<1>2. Fits("out", Nil, Empty, o[c]) /\ o[c] \in Token \cup {Empty}
  BY DEF Fits, Gets, LockInv, TypeOK
<1> QED
  BY <1>1, <1>2, Moves DEF Location

\* The Put of Release names the version at which the client has read its token.
LEMMA ReleaseGetsKeeps ==
    ASSUME LockInv, NEW c \in Client, releaseGets(c) PROVE LockInv'
<1> PICK answer \in answers(c) :
        \/ released(c, answer)
        \/ /\ answer.err = "OK" /\ answer.value = owner[c]
           /\ nextCall(c, answer, put(Idle, answer.version))
           /\ goto(c, "releasePut")
           /\ UNCHANGED owner
  BY DEF releaseGets
<1>a. /\ pc[c] = "releaseGet" /\ UNCHANGED <<o, acquires>> /\ o[c] \in Token \cup {Empty}
      /\ effect[c] # Nil /\ answer = effect[c] /\ answer \in GetReply
      /\ answer.version \in Nat /\ Read(c)
  BY GetAnswer DEF releaseGets, Gets, LockInv, TypeOK
<1>1. CASE /\ answer.err = "OK" /\ answer.value = owner[c]
           /\ nextCall(c, answer, put(Idle, answer.version))
           /\ goto(c, "releasePut")
           /\ UNCHANGED owner
  <2>1. Moved(c, "releasePut", put(Idle, answer.version), owner[c], o[c])
    BY <1>1, <1>a, Untouched, ReturnMoves
  <2>2. Fits("releasePut", put(Idle, answer.version), owner[c], o[c])
    BY <1>1, <1>a DEF Fits, Gets, Read
  <2> QED
    BY <1>a, <2>1, <2>2, Moves DEF Location
<1> QED
  BY <1>1, <1>a, Released

\* Only the answer OK ends Release.
LEMMA ReleasePutsKeeps ==
    ASSUME LockInv, NEW c \in Client, releasePuts(c) PROVE LockInv'
<1> PICK answer \in answers(c) :
        \/ released(c, answer)
        \/ /\ nextCall(c, answer, get) /\ UNCHANGED owner
           /\ goto(c, "releaseCheck") \/ goto(c, "releaseGet")
  BY DEF releasePuts, releaseAgain
<1>a. UNCHANGED <<o, acquires>> /\ answer \in PutReply
  BY PutAnswer DEF releasePuts
<1>1. CASE /\ nextCall(c, answer, get) /\ UNCHANGED owner
           /\ goto(c, "releaseCheck") \/ goto(c, "releaseGet")
  <2>1. PICK l \in {"releaseCheck", "releaseGet"} : Moved(c, l, get, owner[c], o[c])
    BY <1>1, <1>a, Untouched, ReturnMoves
  <2> QED
    BY <2>1, MovesToGet DEF Gets
<1> QED
  BY <1>1, <1>a, Released

\* After ErrMaybe Release reads again, without its token if the lock is idle.
LEMMA ReleaseChecksKeeps ==
    ASSUME LockInv, NEW c \in Client, releaseChecks(c) PROVE LockInv'
<1> PICK answer \in answers(c) :
        /\ nextCall(c, answer, get) /\ goto(c, "releaseGet")
        /\ owner' = [owner EXCEPT ![c] =
               IF answer.err = "OK" /\ answer.value = Idle THEN Empty ELSE @]
  BY DEF releaseChecks, releaseAgain
<1>1. answer \in GetReply /\ UNCHANGED <<o, acquires>>
  BY GetAnswer DEF releaseChecks, Gets
<1>2. PICK w \in {owner[c], Empty} : Moved(c, "releaseGet", get, w, o[c])
  BY <1>1, Untouched, ReturnMoves
<1> QED
  BY <1>2, MovesToGet DEF Gets

=============================================================================
