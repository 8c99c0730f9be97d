---------------------------- MODULE KVSrvProofs ----------------------------
(***************************************************************************)
(* The server and its clerks implement the map of KVMap, for any number of *)
(* clients, keys and values.                                               *)
(***************************************************************************)
EXTENDS KVSrv, TLAPS

\* What is known of the call that c is in.  A Put that was performed has left a
\* higher version behind, so it is not performed again, and the reply to another
\* attempt is ErrVersion; by then the clerk knows that it has tried before.
Known(c) ==
    /\ calling[c] => call[c] # Nil
    /\ reply[c] # Nil => calling[c]
    /\ reply[c] # Nil /\ call[c].op = "Get" => reply[c] \in GetReply
    /\ reply[c] # Nil /\ call[c].op = "Put" => reply[c] \in PutReply
    /\ reply[c] = [err |-> "OK"] => put[c]
    /\ put[c] =>
           /\ call[c] # Nil
           /\ call[c].op = "Put"
           /\ call[c].key \in DOMAIN data
           /\ data[call[c].key].version > call[c].version
           /\ retry[c] \/ reply[c] = [err |-> "OK"]
           /\ reply[c] # Nil => reply[c].err # "ErrNoKey"

SrvInv == TypeOK /\ \A c \in Client : Known(c)

\* A step of c that leaves the data alone.
OnlyAt(c) ==
    /\ data' = data
    /\ \A d \in Client \ {c} :
           /\ call'[d] = call[d] /\ calling'[d] = calling[d] /\ retry'[d] = retry[d]
           /\ reply'[d] = reply[d] /\ put'[d] = put[d]

\* Such a step disturbs only what is known of c.
LEMMA Others ==
    ASSUME SrvInv, NEW c \in Client, OnlyAt(c), TypeOK', Known(c)'
    PROVE  SrvInv'
<1>1. ASSUME NEW d \in Client, d # c PROVE Known(d)'
  <2>1. Known(d)
    BY DEF SrvInv
  <2>2. /\ call'[d] = call[d] /\ calling'[d] = calling[d] /\ retry'[d] = retry[d]
        /\ reply'[d] = reply[d] /\ put'[d] = put[d] /\ data' = data
    BY <1>1 DEF OnlyAt
  <2> QED
    BY <2>1, <2>2 DEF Known
<1> QED
  BY <1>1 DEF SrvInv

\* Nil is neither a call nor a reply.
LEMMA NilIsNothing == Nil \notin GetArgs \cup PutArgs \cup GetReply \cup PutReply /\ Nil # [err |-> "OK"]
BY KVAssumption DEF PutReply

\* A call is a Get or a Put, with the arguments of its kind.
LEMMA CallKinds ==
    ASSUME TypeOK, NEW c \in Client, call[c] # Nil
    PROVE  /\ call[c].key \in Key
           /\ \/ call[c] \in GetArgs /\ call[c].op = "Get"
              \/ /\ call[c] \in PutArgs /\ call[c].op = "Put"
                 /\ call[c].value \in Value /\ call[c].version \in Nat
BY KVAssumption DEF TypeOK, GetArgs, PutArgs

\* The entry of a key that exists.
LEMMA DataTypes ==
    ASSUME TypeOK, NEW k \in DOMAIN data
    PROVE  /\ k \in Key /\ data[k] \in Entry
           /\ data[k].value \in Value /\ data[k].version \in Nat /\ data[k].version > 0
BY DEF TypeOK, Entry

\* A new call has not been performed.
LEMMA BeginKeeps ==
    ASSUME SrvInv, NEW c \in Client, NEW args \in GetArgs \cup PutArgs, begin(c, args)
    PROVE  SrvInv'
<1> USE DEF begin
<1>1. TypeOK'
  BY DEF SrvInv, TypeOK
<1>2. OnlyAt(c)
  BY DEF SrvInv, TypeOK, OnlyAt
<1>3. call'[c] # Nil /\ reply'[c] = Nil /\ put'[c] = FALSE
  BY NilIsNothing DEF SrvInv, TypeOK, Known
<1>4. Known(c)'
  BY <1>3, NilIsNothing DEF Known
<1> QED
  BY <1>1, <1>2, <1>4, Others

\* After a failed RPC a Put that was performed knows that it is a retry.
LEMMA CallFailsKeeps ==
    ASSUME SrvInv, NEW c \in Client, callFails(c) PROVE SrvInv'
<1> USE DEF callFails
<1>1. TypeOK'
  BY DEF SrvInv, TypeOK
<1>2. OnlyAt(c)
  BY DEF SrvInv, TypeOK, OnlyAt
<1>3. /\ calling'[c] = FALSE /\ reply'[c] = Nil /\ retry'[c] = (call[c].op = "Put")
      /\ UNCHANGED <<data, call, put>>
  BY DEF SrvInv, TypeOK
<1>4. Known(c)'
  BY ZenonT(20), <1>3, NilIsNothing DEF SrvInv, Known
<1> QED
  BY <1>1, <1>2, <1>4, Others

\* Sending again changes nothing that is known.
LEMMA ResendKeeps ==
    ASSUME SrvInv, NEW c \in Client, resend(c) PROVE SrvInv'
<1> USE DEF resend
<1>1. TypeOK'
  BY DEF SrvInv, TypeOK
<1>2. OnlyAt(c)
  BY DEF SrvInv, TypeOK, OnlyAt
<1>3. Known(c)'
  BY DEF SrvInv, TypeOK, Known
<1> QED
  BY <1>1, <1>2, <1>3, Others

\* After its return a call is forgotten.
LEMMA ReturnKeeps ==
    ASSUME SrvInv, NEW c \in Client, return(c) PROVE SrvInv'
<1> USE DEF return
<1>1. returned(c) \in GetReply \cup PutReply \cup {[err |-> "ErrMaybe"], Nil}
  BY DEF returned, SrvInv, TypeOK
<1>2. TypeOK'
  BY <1>1 DEF SrvInv, TypeOK
<1>3. OnlyAt(c)
  BY DEF SrvInv, TypeOK, OnlyAt
<1>4. calling'[c] = FALSE /\ reply'[c] = Nil /\ put'[c] = FALSE
  BY DEF SrvInv, TypeOK
<1>5. Known(c)'
  BY <1>4, NilIsNothing DEF Known
<1> QED
  BY <1>2, <1>3, <1>5, Others

\* The server's reply to a Get is well-formed.
LEMMA GetReplies ==
    ASSUME TypeOK, NEW k \in Key PROVE getReply(k) \in GetReply
<1>1. CASE k \in DOMAIN data
  BY <1>1, DataTypes DEF getReply, GetReply
<1>2. CASE k \notin DOMAIN data
  BY <1>2 DEF getReply, GetReply
<1> QED
  BY <1>1, <1>2

\* The reply to a Get is none of a Put.
LEMMA ServerGetKeeps ==
    ASSUME SrvInv, NEW c \in Client, serverGet(c) PROVE SrvInv'
<1> USE DEF serverGet
<1>1. call[c] # Nil /\ getReply(call[c].key) \in GetReply
  BY GetReplies, CallKinds DEF SrvInv, Known
<1>2. TypeOK'
  BY <1>1 DEF SrvInv, TypeOK
<1>3. OnlyAt(c)
  BY DEF SrvInv, TypeOK, OnlyAt
<1>4. reply'[c] = getReply(call[c].key) /\ UNCHANGED <<data, call, calling, retry, put>>
  BY DEF SrvInv, TypeOK
<1>5. getReply(call[c].key) # [err |-> "OK"]
  BY DEF getReply
<1>6. Known(c)'
  BY <1>1, <1>4, <1>5 DEF SrvInv, Known
<1> QED
  BY <1>2, <1>3, <1>6, Others

\* Put finds the version of its key, or 0: the version that the map has.
LEMMA Matches ==
    ASSUME SrvInv, NEW k \in Key, NEW version
    PROVE  versionMatches(k, version) <=> store[k].version = version
BY DEF versionMatches, store

\* A Put is performed only if it has not been performed; afterwards the version is higher than the one it names.
LEMMA PerformKeeps ==
    ASSUME SrvInv, NEW c \in Client, serverPut(c),
           versionMatches(call[c].key, call[c].version)
    PROVE  /\ SrvInv'
           /\ ~put[c]
           /\ data' = [k \in DOMAIN data \cup {call[c].key} |->
                          IF k = call[c].key THEN written(call[c]) ELSE data[k]]
           /\ reply' = [reply EXCEPT ![c] = [err |-> "OK"]]
           /\ put' = [put EXCEPT ![c] = TRUE]
<1> DEFINE args == call[c]
<1>1. /\ calling[c] /\ reply[c] = Nil /\ args.op = "Put" /\ args # Nil
      /\ args.key \in Key /\ args.value \in Value /\ args.version \in Nat
  BY CallKinds DEF SrvInv, Known, serverPut
<1>2. /\ data' = [k \in DOMAIN data \cup {args.key} |->
                     IF k = args.key THEN written(args) ELSE data[k]]
      /\ reply' = [reply EXCEPT ![c] = [err |-> "OK"]]
      /\ put' = [put EXCEPT ![c] = TRUE]
      /\ UNCHANGED <<call, calling, retry, result>>
  BY DEF serverPut
<1>3. written(args) \in Entry /\ written(args).version = args.version + 1
  BY <1>1 DEF written, Entry
<1>4. ~put[c]
  <2>1. args.key \in DOMAIN data => args.version = data[args.key].version
    BY DEF versionMatches
  <2> QED
    BY <1>1, <2>1, DataTypes DEF SrvInv, Known
<1>5. TypeOK'
  <2>1. PICK keys \in SUBSET Key : data \in [keys -> Entry]
    BY DEF SrvInv, TypeOK
  <2>2. data' \in [keys \cup {args.key} -> Entry] /\ keys \cup {args.key} \in SUBSET Key
    BY <1>1, <1>2, <1>3, <2>1
  <2>3. [err |-> "OK"] \in PutReply
    BY DEF PutReply
  <2> QED
    BY ZenonT(20), <1>2, <2>2, <2>3 DEF SrvInv, TypeOK
\* Versions only grow, and an entry stays.
<1>6. ASSUME NEW k \in DOMAIN data, NEW n \in Nat, data[k].version > n
      PROVE  k \in DOMAIN data' /\ data'[k].version > n
  <2>1. CASE k = args.key
    <3>1. args.version = data[k].version
      BY <2>1 DEF versionMatches
    <3> QED
      BY <1>1, <1>2, <1>3, <1>6, <2>1, <3>1
  <2>2. CASE k # args.key
    BY <1>2, <1>6, <2>2
  <2> QED
    BY <2>1, <2>2
<1>7. Known(c)'
  <2>1. reply'[c] = [err |-> "OK"] /\ put'[c] = TRUE /\ call'[c] = args /\ calling'[c]
    BY <1>1, <1>2 DEF SrvInv, TypeOK
  <2>2. args.key \in DOMAIN data' /\ data'[args.key].version > args.version
    BY <1>1, <1>2, <1>3
  <2>3. [err |-> "OK"] \in PutReply /\ [err |-> "OK"].err # "ErrNoKey"
    BY DEF PutReply
  <2> QED
    BY <1>1, <2>1, <2>2, <2>3 DEF Known
<1>8. ASSUME NEW d \in Client, d # c PROVE Known(d)'
  <2>1. /\ Known(d) /\ reply'[d] = reply[d] /\ put'[d] = put[d]
        /\ call' = call /\ calling' = calling /\ retry' = retry
    BY <1>2, <1>8 DEF SrvInv, TypeOK
  <2>2. put[d] => call[d].version \in Nat
    BY <2>1, CallKinds DEF SrvInv, Known
  <2>3. put[d] => call[d].key \in DOMAIN data' /\ data'[call[d].key].version > call[d].version
    BY <1>6, <2>1, <2>2 DEF Known
  <2> QED
    BY <2>1, <2>3 DEF Known
<1> QED
  BY <1>2, <1>4, <1>5, <1>7, <1>8 DEF SrvInv

\* A Put that was performed is refused with ErrVersion.
LEMMA RefuseKeeps ==
    ASSUME SrvInv, NEW c \in Client, serverPut(c),
           ~versionMatches(call[c].key, call[c].version)
    PROVE  SrvInv'
<1>1. /\ reply' = [reply EXCEPT ![c] = [err |-> putError(call[c].key)]]
      /\ UNCHANGED <<data, put, call, calling, retry, result>>
      /\ calling[c] /\ reply[c] = Nil /\ call[c].op = "Put"
  BY DEF serverPut
<1>2. [err |-> putError(call[c].key)] \in PutReply
  BY DEF putError, PutReply
<1>3. TypeOK'
  BY <1>1, <1>2 DEF SrvInv, TypeOK
<1>4. OnlyAt(c)
  BY <1>1 DEF SrvInv, TypeOK, OnlyAt
<1>5. reply'[c] = [err |-> putError(call[c].key)]
  BY <1>1 DEF SrvInv, TypeOK
<1>6. /\ [err |-> putError(call[c].key)] # [err |-> "OK"]
      /\ call[c].key \in DOMAIN data => [err |-> putError(call[c].key)].err # "ErrNoKey"
  BY DEF putError
<1>7. Known(c)'
  BY <1>1, <1>2, <1>5, <1>6, NilIsNothing DEF SrvInv, Known
<1> QED
  BY <1>3, <1>4, <1>7, Others

\* There is no call at the start.
LEMMA InitSrv == Init => SrvInv
<1> SUFFICES ASSUME Init PROVE SrvInv
  OBVIOUS
<1> USE DEF Init
<1>1. data \in [{} -> Entry]
  OBVIOUS
<1>2. TypeOK
  BY ZenonT(20), <1>1 DEF TypeOK
<1>3. ASSUME NEW c \in Client PROVE Known(c)
  <2>1. calling[c] = FALSE /\ reply[c] = Nil /\ put[c] = FALSE
    OBVIOUS
  <2> QED
    BY <2>1, NilIsNothing DEF Known
<1> QED
  BY <1>2, <1>3 DEF SrvInv

\* Every step keeps the invariant.
LEMMA StepSrv == SrvInv /\ [Next]_vars => SrvInv'
<1> SUFFICES ASSUME SrvInv, [Next]_vars PROVE SrvInv'
  OBVIOUS
<1>1. CASE UNCHANGED vars
  BY <1>1 DEF vars, SrvInv, TypeOK, Known
<1>2. CASE Next
  BY ZenonT(20), <1>2, BeginKeeps, CallFailsKeeps, ResendKeeps, ReturnKeeps, ServerGetKeeps,
     PerformKeeps, RefuseKeeps DEF Next
<1> QED
  BY <1>1, <1>2

----------------------------------------------------------------------------
(* The refinement. *)

\* The server starts as the empty map.
LEMMA InitMaps == Init => Map!MapInit
BY DEF Init, Map!MapInit, Map!absent, store, effect

\* A call of a clerk is a call of the map.
LEMMA BeginMaps ==
    ASSUME SrvInv, NEW c \in Client, NEW args \in GetArgs \cup PutArgs, begin(c, args)
    PROVE  Map!MapNext
<1>1. Map!begin(c, args)
  BY DEF begin, Map!begin, store, effect
<1>2. args \in Map!Calls
  BY DEF GetArgs, PutArgs, Map!Calls, Map!GetArgs
<1> QED
  BY <1>1, <1>2 DEF Map!MapNext

\* What c has seen is lost with the reply; what it has done is not.
LEMMA CallFailsMaps ==
    ASSUME SrvInv, NEW c \in Client, callFails(c)
    PROVE  [Map!MapNext]_Map!mapVars
<1>1. UNCHANGED <<store, call, result>>
  BY DEF callFails, store
<1>2. CASE put[c]
  <2>1. effect' = effect
    BY <1>2 DEF callFails, effect, SrvInv, TypeOK
  <2> QED
    BY <1>1, <2>1 DEF Map!mapVars
<1>3. CASE ~put[c]
  <2>1. effect' = [effect EXCEPT ![c] = Nil]
    BY ZenonT(20), <1>3 DEF callFails, effect, SrvInv, TypeOK
  <2>2. ~Map!performed(c) /\ call[c] # Nil
    BY <1>3 DEF Map!performed, callFails, SrvInv, Known, effect
  <2>3. Map!forget(c)
    BY <1>1, <2>1, <2>2 DEF Map!forget
  <2> QED
    BY <2>3 DEF Map!MapNext
<1> QED
  BY <1>2, <1>3

\* OK and ErrVersion are true, and ErrMaybe is what the map may answer too.
LEMMA ReturnMaps ==
    ASSUME SrvInv, NEW c \in Client, return(c)
    PROVE  Map!MapNext
<1>1. Known(c) /\ calling[c] /\ reply[c] # Nil /\ call[c] # Nil
  BY DEF return, SrvInv, Known
<1>2. effect[c] = (IF put[c] THEN [err |-> "OK"] ELSE reply[c]) /\ effect[c] # Nil
  BY <1>1, NilIsNothing DEF effect
<1>3. returned(c) \in Map!answers(c)
  <2>1. CASE call[c].op = "Get"
    <3>1. effect[c] = reply[c] /\ returned(c) = reply[c]
      BY <1>1, <1>2, <2>1 DEF Known, returned
    <3> QED
      BY <1>1, <1>2, <2>1, <3>1 DEF Map!answers
  <2>2. CASE call[c].op = "Put" /\ put[c]
    <3>1. reply[c] \in PutReply /\ reply[c].err # "ErrNoKey"
      BY <1>1, <2>2 DEF Known
    <3>2. reply[c].err = "OK" => reply[c] = [err |-> "OK"]
      BY <3>1 DEF PutReply
    <3>3. reply[c].err # "OK" => reply[c].err = "ErrVersion" /\ retry[c]
      BY <1>1, <2>2, <3>1 DEF Known, PutReply
    <3>4. returned(c) \in {[err |-> "OK"], [err |-> "ErrMaybe"]}
      BY <2>2, <3>2, <3>3 DEF returned
    <3>5. Map!answers(c) = {[err |-> "OK"], [err |-> "ErrMaybe"]}
      BY <1>1, <1>2, <2>2 DEF Map!answers
    <3> QED
      BY <3>4, <3>5
  <2>3. CASE call[c].op = "Put" /\ ~put[c]
    <3>1. effect[c] = reply[c]
      BY <1>2, <2>3
    <3>2. returned(c) # reply[c] => reply[c].err = "ErrVersion" /\ returned(c) = [err |-> "ErrMaybe"]
      BY DEF returned
    <3> QED
      BY <1>1, <1>2, <2>3, <3>1, <3>2 DEF Map!answers
  <2>4. call[c].op \in {"Get", "Put"}
    BY <1>1, CallKinds DEF SrvInv
  <2> QED
    BY <2>1, <2>2, <2>3, <2>4
<1>4. effect' = [effect EXCEPT ![c] = Nil]
  BY ZenonT(20) DEF return, effect, SrvInv, TypeOK
<1>5. Map!return(c, returned(c))
  BY <1>3, <1>4 DEF return, Map!return, store
<1> QED
  BY <1>3, <1>5 DEF Map!MapNext

\* The handler of Get looks into the map.
LEMMA ServerGetMaps ==
    ASSUME SrvInv, NEW c \in Client, serverGet(c)
    PROVE  Map!MapNext
<1>1. call[c] # Nil /\ call[c].op = "Get" /\ call[c].key \in Key /\ ~put[c]
  BY CallKinds DEF serverGet, SrvInv, Known
<1>2. getReply(call[c].key) =
          [err |-> IF store[call[c].key].version = 0 THEN "ErrNoKey" ELSE "OK",
           value |-> store[call[c].key].value, version |-> store[call[c].key].version]
  <2>1. CASE call[c].key \in DOMAIN data
    <3>1. store[call[c].key] = data[call[c].key] /\ data[call[c].key].version # 0
      BY <1>1, <2>1, DataTypes DEF store, SrvInv
    <3> QED
      BY <2>1, <3>1 DEF getReply
  <2>2. CASE call[c].key \notin DOMAIN data
    BY <1>1, <2>2 DEF getReply, store
  <2> QED
    BY <2>1, <2>2
<1>3. effect' = [effect EXCEPT ![c] = getReply(call[c].key)]
  BY ZenonT(20), <1>1 DEF serverGet, effect, SrvInv, TypeOK
<1>4. UNCHANGED <<store, call, result>>
  BY DEF serverGet, store
<1>5. Map!look(c)
  BY <1>1, <1>2, <1>3, <1>4 DEF Map!look
<1> QED
  BY <1>5 DEF Map!MapNext

\* The handler of Put performs the Put.
LEMMA PerformMaps ==
    ASSUME SrvInv, NEW c \in Client, serverPut(c),
           versionMatches(call[c].key, call[c].version)
    PROVE  Map!MapNext
<1>1. /\ call[c] # Nil /\ call[c].op = "Put" /\ call[c].key \in Key /\ reply[c] = Nil
      /\ UNCHANGED <<call, result>>
  BY CallKinds DEF serverPut, SrvInv, Known
<1>2. /\ ~put[c]
      /\ data' = [k \in DOMAIN data \cup {call[c].key} |->
                     IF k = call[c].key THEN written(call[c]) ELSE data[k]]
      /\ reply' = [reply EXCEPT ![c] = [err |-> "OK"]]
      /\ put' = [put EXCEPT ![c] = TRUE]
  BY ZenonT(20), PerformKeeps
<1>3. ~Map!performed(c)
  BY <1>1, <1>2, NilIsNothing DEF Map!performed, effect
<1>4. store[call[c].key].version = call[c].version
  BY <1>1, Matches
<1>5. store' = [store EXCEPT ![call[c].key] =
                   [value |-> call[c].value, version |-> call[c].version + 1]]
  BY ZenonT(20), <1>1, <1>2 DEF store, written
<1>6. effect' = [effect EXCEPT ![c] = [err |-> "OK"]]
  BY ZenonT(20), <1>2 DEF effect, SrvInv, TypeOK
<1>7. Map!perform(c)
  BY <1>1, <1>3, <1>4, <1>5, <1>6 DEF Map!perform
<1> QED
  BY <1>7 DEF Map!MapNext

\* The handler of Put refuses it, or refuses what it has performed already.
LEMMA RefuseMaps ==
    ASSUME SrvInv, NEW c \in Client, serverPut(c),
           ~versionMatches(call[c].key, call[c].version)
    PROVE  [Map!MapNext]_Map!mapVars
<1>1. /\ call[c] # Nil /\ call[c].op = "Put" /\ call[c].key \in Key /\ reply[c] = Nil
      /\ reply' = [reply EXCEPT ![c] = [err |-> putError(call[c].key)]]
      /\ UNCHANGED <<data, put, call, result>>
  BY CallKinds DEF serverPut, SrvInv, Known
<1>2. UNCHANGED store
  BY <1>1 DEF store
<1>3. CASE put[c]
  <2>1. effect' = effect
    BY <1>1, <1>3 DEF effect, SrvInv, TypeOK
  <2> QED
    BY <1>1, <1>2, <2>1 DEF Map!mapVars
<1>4. CASE ~put[c]
  <2>1. effect' = [effect EXCEPT ![c] = [err |-> putError(call[c].key)]]
    BY ZenonT(20), <1>1, <1>4 DEF effect, SrvInv, TypeOK
  <2>2. putError(call[c].key) = IF store[call[c].key].version = 0 THEN "ErrNoKey" ELSE "ErrVersion"
    BY <1>1, DataTypes DEF putError, store, SrvInv
  <2>3. ~Map!performed(c)
    BY <1>1, <1>4, NilIsNothing DEF Map!performed, effect
  <2>4. store[call[c].key].version # call[c].version
    BY <1>1, Matches
  <2>5. Map!refuse(c)
    BY <1>1, <1>2, <2>1, <2>2, <2>3, <2>4 DEF Map!refuse
  <2> QED
    BY <2>5 DEF Map!MapNext
<1> QED
  BY <1>3, <1>4

\* Every step is a step of the map, or leaves it alone.
LEMMA StepMaps == SrvInv /\ [Next]_vars => [Map!MapNext]_Map!mapVars
<1> SUFFICES ASSUME SrvInv, [Next]_vars PROVE [Map!MapNext]_Map!mapVars
  OBVIOUS
<1>1. CASE UNCHANGED vars
  BY <1>1 DEF vars, Map!mapVars, store, effect
<1>2. ASSUME NEW c \in Client, resend(c) PROVE UNCHANGED Map!mapVars
  BY <1>2 DEF resend, Map!mapVars, store, effect
<1>3. CASE Next
  BY <1>2, <1>3, BeginMaps, CallFailsMaps, ReturnMaps, ServerGetMaps, PerformMaps,
     RefuseMaps DEF Next
<1> QED
  BY <1>1, <1>3

\* kvsrv1 is linearizable: the server and any number of clerks, over a network that
\* loses requests and replies, behave like a map with atomic Get and Put on which a
\* Put is performed at most once, and answers ErrMaybe only where the map may.
THEOREM SrvImplementsMap == Spec => ImplementsMap
BY InitSrv, StepSrv, InitMaps, StepMaps, PTL DEF Spec, ImplementsMap, Map!MapSpec
=============================================================================
