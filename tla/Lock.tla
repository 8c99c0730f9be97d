------------------------------- MODULE Lock -------------------------------
(***************************************************************************)
(* The distributed lock (kvsrv1/lock/lock.go): clients acquire and release *)
(* one lock, a key of a key/value service, through clerks.  The service is *)
(* KVMap, what the clerks of kvsrv1 and of the replicated stores promise;  *)
(* Put may answer ErrMaybe at any time.                                    *)
(*                                                                         *)
(* Grain.  Between two calls of its clerk a client touches local variables *)
(* only: one action returns from a call and makes the next one.            *)
(***************************************************************************)
EXTENDS KVMap

CONSTANTS
    lockname,         \* the key of the lock
    Idle,             \* the value "idle"
    Token,            \* the other values: what kvtest.RandValue(8) draws
    MaxAcquires       \* bound of the model: calls of Acquire by each client

ASSUME LockAssumption ==
    /\ lockname \in Key
    /\ Idle \in Value /\ Token \subseteq Value /\ Idle \notin Token
    /\ Empty \notin Value /\ Nil \notin Value
    /\ MaxAcquires \in Nat

VARIABLES
    pc,               \* where a client is in Acquire or Release
    owner,            \* Lock.owner, Empty for ""
    o,                \* Acquire's local variable o: the token it tries to store
    acquires          \* calls of Acquire so far

vars == <<mapVars, pc, owner, o, acquires>>

\* Acquire: Get at the top of the loop, Put of the token, and the Get that
\* settles ErrMaybe; Release likewise.
Location == {"out", "acquireGet", "acquirePut", "acquireCheck", "held",
             "releaseGet", "releasePut", "releaseCheck"}

Init ==
    /\ MapInit
    /\ pc = [c \in Client |-> "out"]
    /\ owner = [c \in Client |-> Empty]
    /\ o = [c \in Client |-> Empty]
    /\ acquires = [c \in Client |-> 0]

goto(c, location) == pc' = [pc EXCEPT ![c] = location]

get == [op |-> "Get", key |-> lockname]
put(v, version) == [op |-> "Put", key |-> lockname, value |-> v, version |-> version]

\* The call of c returns answer, and c makes the next call.
nextCall(c, answer, args) ==
    /\ answer \in answers(c)
    /\ call' = [call EXCEPT ![c] = args]
    /\ effect' = [effect EXCEPT ![c] = Nil]
    /\ result' = [result EXCEPT ![c] = Nil]
    /\ UNCHANGED store

\* RandValue draws a token that nobody has used: equal draws are not modelled.
fresh(t) ==
    /\ store[lockname].value # t
    /\ \A c \in Client : owner[c] # t /\ o[c] # t

----------------------------------------------------------------------------
(* Acquire *)

Acquire(c) ==
    /\ pc[c] = "out"
    /\ acquires[c] < MaxAcquires
    /\ acquires' = [acquires EXCEPT ![c] = @ + 1]
    /\ begin(c, get)
    /\ goto(c, "acquireGet")
    /\ UNCHANGED <<owner, o>>

\* The top of the loop: a key that is missing or idle is worth a Put.
acquireGets(c) ==
    /\ pc[c] = "acquireGet"
    /\ \E answer \in answers(c) :
           \/ /\ answer.err # "OK" \/ answer.value = Idle
              /\ \E t \in Token :
                     /\ fresh(t)
                     /\ o' = [o EXCEPT ![c] = t]
                     /\ nextCall(c, answer, put(t, IF answer.err = "OK" THEN answer.version ELSE 0))
              /\ goto(c, "acquirePut")
           \/ /\ answer.err = "OK" /\ answer.value # Idle
              /\ nextCall(c, answer, get)
              /\ UNCHANGED <<pc, o>>
    /\ UNCHANGED <<owner, acquires>>

\* Acquire returns.
acquired(c, answer) ==
    /\ return(c, answer)
    /\ owner' = [owner EXCEPT ![c] = o[c]]
    /\ o' = [o EXCEPT ![c] = Empty]
    /\ goto(c, "held")

\* The loop starts again.
acquireAgain(c, answer) ==
    /\ nextCall(c, answer, get)
    /\ o' = [o EXCEPT ![c] = Empty]
    /\ goto(c, "acquireGet")
    /\ UNCHANGED owner

\* Mutant: ErrMaybe is taken for success.
maybeIsEnough(c) ==
    /\ pc[c] = "acquirePut"
    /\ \E answer \in answers(c) :
           \/ answer.err \in {"OK", "ErrMaybe"} /\ acquired(c, answer)
           \/ answer.err \notin {"OK", "ErrMaybe"} /\ acquireAgain(c, answer)
    /\ UNCHANGED acquires

\* Mutant: ErrMaybe is taken for failure.
maybeIsFailure(c) ==
    /\ pc[c] = "acquirePut"
    /\ \E answer \in answers(c) :
           \/ answer.err = "OK" /\ acquired(c, answer)
           \/ answer.err # "OK" /\ acquireAgain(c, answer)
    /\ UNCHANGED acquires

acquirePuts(c) ==
    /\ pc[c] = "acquirePut"
    /\ \E answer \in answers(c) :
           \/ answer.err = "OK" /\ acquired(c, answer)
           \/ /\ answer.err = "ErrMaybe"
              /\ nextCall(c, answer, get)
              /\ goto(c, "acquireCheck")
              /\ UNCHANGED <<owner, o>>
           \/ answer.err \notin {"OK", "ErrMaybe"} /\ acquireAgain(c, answer)
    /\ UNCHANGED acquires

\* The Get after ErrMaybe: whose token is it?
acquireChecks(c) ==
    /\ pc[c] = "acquireCheck"
    /\ \E answer \in answers(c) :
           IF answer.err = "OK" /\ answer.value = o[c]
           THEN acquired(c, answer) ELSE acquireAgain(c, answer)
    /\ UNCHANGED acquires

----------------------------------------------------------------------------
(* Release *)

\* Without an owner, Release does nothing.
Release(c) ==
    /\ pc[c] = "held"
    /\ owner[c] # Empty
    /\ begin(c, get)
    /\ goto(c, "releaseGet")
    /\ UNCHANGED <<owner, o, acquires>>

released(c, answer) ==
    /\ return(c, answer)
    /\ owner' = [owner EXCEPT ![c] = Empty]
    /\ goto(c, "out")

releaseAgain(c, answer) ==
    /\ nextCall(c, answer, get)
    /\ goto(c, "releaseGet")

\* Mutant: the lock is given back whoever has it.
releaseAnyones(c) ==
    /\ pc[c] = "releaseGet"
    /\ \E answer \in answers(c) :
           \/ /\ answer.err # "OK" \/ answer.value = Idle
              /\ released(c, answer)
           \/ /\ answer.err = "OK" /\ answer.value # Idle
              /\ nextCall(c, answer, put(Idle, answer.version))
              /\ goto(c, "releasePut")
              /\ UNCHANGED owner
    /\ UNCHANGED <<o, acquires>>

\* The top of the loop: the lock may no longer be the client's.
releaseGets(c) ==
    /\ pc[c] = "releaseGet"
    /\ \E answer \in answers(c) :
           \/ /\ answer.err # "OK" \/ answer.value # owner[c]
              /\ released(c, answer)
           \/ /\ answer.err = "OK" /\ answer.value = owner[c]
              /\ nextCall(c, answer, put(Idle, answer.version))
              /\ goto(c, "releasePut")
              /\ UNCHANGED owner
    /\ UNCHANGED <<o, acquires>>

releasePuts(c) ==
    /\ pc[c] = "releasePut"
    /\ \E answer \in answers(c) :
           \/ answer.err = "OK" /\ released(c, answer)
           \/ /\ answer.err = "ErrMaybe"
              /\ nextCall(c, answer, get)
              /\ goto(c, "releaseCheck")
              /\ UNCHANGED owner
           \/ /\ answer.err \notin {"OK", "ErrMaybe"}
              /\ releaseAgain(c, answer)
              /\ UNCHANGED owner
    /\ UNCHANGED <<o, acquires>>

\* The Get after ErrMaybe: the owner is cleared if the lock is idle, and the
\* loop goes on in any case.
releaseChecks(c) ==
    /\ pc[c] = "releaseCheck"
    /\ \E answer \in answers(c) :
           /\ releaseAgain(c, answer)
           /\ owner' = [owner EXCEPT ![c] =
                  IF answer.err = "OK" /\ answer.value = Idle THEN Empty ELSE @]
    /\ UNCHANGED <<o, acquires>>

----------------------------------------------------------------------------

client(c) ==
    \/ acquireGets(c) \/ acquirePuts(c) \/ acquireChecks(c)
    \/ releaseGets(c) \/ releasePuts(c) \/ releaseChecks(c)

\* The service works on the call of c.
serve(c) == look(c) \/ perform(c) \/ refuse(c)

Next ==
    \E c \in Client :
        \/ Acquire(c)
        \/ Release(c)
        \/ client(c)
        \/ (serve(c) \/ forget(c)) /\ UNCHANGED <<pc, owner, o, acquires>>

Spec == Init /\ [][Next]_vars

\* The service answers every call in the end, and programs release the locks
\* that they acquire.
Fairness ==
    \A c \in Client :
        /\ WF_vars(Release(c))
        /\ WF_vars(serve(c) /\ UNCHANGED <<pc, owner, o, acquires>>)
        /\ SF_vars(client(c))

FairSpec == Spec /\ Fairness

----------------------------------------------------------------------------
(* Correctness *)

\* Every variable has its type.
TypeOK ==
    /\ store \in [Key -> Entry]
    /\ call \in [Client -> GetArgs \cup PutArgs \cup {Nil}]
    /\ effect \in [Client -> GetReply \cup PutReply \cup {Nil}]
    /\ result \in [Client -> GetReply \cup PutReply \cup {Nil}]
    /\ pc \in [Client -> Location]
    /\ owner \in [Client -> Token \cup {Empty}]
    /\ o \in [Client -> Token \cup {Empty}]
    /\ acquires \in [Client -> Nat]

\* Two clients never both hold the lock, that is, are both between the return of
\* Acquire and the call of Release: neither when a Put whose answer was lost is
\* repeated nor when two clients find the lock idle at the same time.
MutualExclusion ==
    \A c, d \in Client : pc[c] = "held" /\ pc[d] = "held" => c = d

\* A token in the key is replaced only by the release of the client that owns
\* it: a Release that is repeated after ErrMaybe does not free a lock that
\* somebody else has acquired in the meantime.
OnlyOwnerReleases ==
    [][store[lockname].value \in Token /\ store'[lockname] # store[lockname]
           => \E c \in Client : /\ owner[c] = store[lockname].value
                                /\ pc[c] = "releasePut"]_vars

\* Acquire returns in the end if the others release the lock, and so does
\* Release, although any Put may answer ErrMaybe.
LockProgress ==
    \A c \in Client :
        /\ pc[c] = "acquireGet" ~> pc[c] = "held"
        /\ pc[c] = "releaseGet" ~> pc[c] = "out"

=============================================================================
