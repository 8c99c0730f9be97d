------------------------------ MODULE KVSrv ------------------------------
(***************************************************************************)
(* The single key/value server (kvsrv1/server.go) and its clerks           *)
(* (kvsrv1/client.go) over a network that loses requests and replies.      *)
(*                                                                         *)
(* Grain.  A handler runs under kv.mu: one action.  A clerk has one call   *)
(* and, within it, one RPC at a time.  An RPC that fails failed for good:  *)
(* while the end of the clerk stays enabled and the server registered,     *)
(* labrpc drops a request before it is handled or drops the reply          *)
(* afterwards, and a Call does not return before its handler (module       *)
(* LabRPC has the other cases).                                            *)
(*                                                                         *)
(* The server keeps its map in memory only; its restart is not modelled.   *)
(***************************************************************************)
EXTENDS Naturals

CONSTANTS Client, Key, Value, Nil, Empty, MaxVersion

VARIABLES
    data,             \* KVServer.data: a function on the keys that exist
    call,             \* call[c]: arguments of the Get or Put that c is in
    calling,          \* calling[c]: c waits in Call (else it sleeps, or is idle)
    retry,            \* retry[c]: Put's variable of that name
    reply,            \* reply[c]: the server's reply to the RPC of c, on its way
    result,           \* result[c]: what the last call of c returned
    put               \* history: put[c], the call in progress has been performed

vars == <<data, call, calling, retry, reply, result, put>>

Entry == [value : Value, version : Nat \ {0}]
GetArgs == [op : {"Get"}, key : Key]
PutArgs == [op : {"Put"}, key : Key, value : Value, version : 0 .. MaxVersion]
GetReply == [err : {"OK", "ErrNoKey"}, value : Value \cup {Empty}, version : Nat]
PutReply == [err : {"OK", "ErrVersion", "ErrNoKey"}]

ASSUME KVAssumption == MaxVersion \in Nat /\ Nil \notin GetArgs \cup PutArgs \cup GetReply \cup PutReply

Init ==
    /\ data = [k \in {} |-> Nil]
    /\ call = [c \in Client |-> Nil]
    /\ calling = [c \in Client |-> FALSE]
    /\ retry = [c \in Client |-> FALSE]
    /\ reply = [c \in Client |-> Nil]
    /\ result = [c \in Client |-> Nil]
    /\ put = [c \in Client |-> FALSE]

----------------------------------------------------------------------------
(* Clerk *)

\* Clerk.Get or Clerk.Put is called and sends its first RPC.
begin(c, args) ==
    /\ call[c] = Nil
    /\ call' = [call EXCEPT ![c] = args]
    /\ calling' = [calling EXCEPT ![c] = TRUE]
    /\ retry' = [retry EXCEPT ![c] = FALSE]
    /\ result' = [result EXCEPT ![c] = Nil]
    /\ UNCHANGED <<data, reply, put>>

\* Mutant: Put forgets that it has sent the request before.
forgetRetry(c) ==
    /\ calling[c]
    /\ calling' = [calling EXCEPT ![c] = FALSE]
    /\ reply' = [reply EXCEPT ![c] = Nil]
    /\ UNCHANGED <<data, call, retry, result, put>>

\* Call returns FALSE: the request was lost, or the reply.  The clerk sleeps.
callFails(c) ==
    /\ calling[c]
    /\ calling' = [calling EXCEPT ![c] = FALSE]
    /\ retry' = [retry EXCEPT ![c] = call[c].op = "Put"]
    /\ reply' = [reply EXCEPT ![c] = Nil]
    /\ UNCHANGED <<data, call, result, put>>

\* The next turn of the loop in Get or Put.
resend(c) ==
    /\ call[c] # Nil
    /\ ~calling[c]
    /\ calling' = [calling EXCEPT ![c] = TRUE]
    /\ UNCHANGED <<data, call, retry, reply, result, put>>

\* What Get and Put make of a reply.
returned(c) ==
    IF call[c].op = "Put" /\ reply[c].err = "ErrVersion" /\ retry[c]
    THEN [err |-> "ErrMaybe"] ELSE reply[c]

\* Mutant: Put goes on until its answer is not in doubt.
insist(c) ==
    /\ calling[c]
    /\ reply[c] # Nil
    /\ calling' = [calling EXCEPT ![c] = FALSE]
    /\ reply' = [reply EXCEPT ![c] = Nil]
    /\ IF returned(c).err = "ErrMaybe"
       THEN UNCHANGED <<call, retry, result, put>>
       ELSE /\ result' = [result EXCEPT ![c] = returned(c)]
            /\ call' = [call EXCEPT ![c] = Nil]
            /\ retry' = [retry EXCEPT ![c] = FALSE]
            /\ put' = [put EXCEPT ![c] = FALSE]
    /\ UNCHANGED data

\* Call returns TRUE, and with it Get or Put returns.
return(c) ==
    /\ calling[c]
    /\ reply[c] # Nil
    /\ result' = [result EXCEPT ![c] = returned(c)]
    /\ call' = [call EXCEPT ![c] = Nil]
    /\ calling' = [calling EXCEPT ![c] = FALSE]
    /\ retry' = [retry EXCEPT ![c] = FALSE]
    /\ reply' = [reply EXCEPT ![c] = Nil]
    /\ put' = [put EXCEPT ![c] = FALSE]
    /\ UNCHANGED data

----------------------------------------------------------------------------
(* Server *)

getReply(k) ==
    IF k \in DOMAIN data
    THEN [err |-> "OK", value |-> data[k].value, version |-> data[k].version]
    ELSE [err |-> "ErrNoKey", value |-> Empty, version |-> 0]

\* Handler of Get, for the RPC of c.
serverGet(c) ==
    /\ calling[c]
    /\ reply[c] = Nil
    /\ call[c].op = "Get"
    /\ reply' = [reply EXCEPT ![c] = getReply(call[c].key)]
    /\ UNCHANGED <<data, call, calling, retry, result, put>>

\* Put's two conditions: the version of an existing key, 0 for a new one.
versionMatches(k, version) ==
    IF k \in DOMAIN data THEN version = data[k].version ELSE version = 0

written(args) == [value |-> args.value, version |-> args.version + 1]

putError(k) == IF k \in DOMAIN data THEN "ErrVersion" ELSE "ErrNoKey"

\* Handler of Put, for the RPC of c.
serverPut(c) ==
    /\ calling[c]
    /\ reply[c] = Nil
    /\ call[c].op = "Put"
    /\ LET args == call[c]
       IN  \/ /\ versionMatches(args.key, args.version)
              /\ data' = [k \in DOMAIN data \cup {args.key} |->
                     IF k = args.key THEN written(args) ELSE data[k]]
              /\ reply' = [reply EXCEPT ![c] = [err |-> "OK"]]
              /\ put' = [put EXCEPT ![c] = TRUE]
           \/ /\ ~versionMatches(args.key, args.version)
              /\ reply' = [reply EXCEPT ![c] = [err |-> putError(args.key)]]
              /\ UNCHANGED <<data, put>>
    /\ UNCHANGED <<call, calling, retry, result>>

----------------------------------------------------------------------------

Next ==
    \E c \in Client :
        \/ \E args \in GetArgs \cup PutArgs : begin(c, args)
        \/ callFails(c)
        \/ resend(c)
        \/ return(c)
        \/ serverGet(c)
        \/ serverPut(c)

Spec == Init /\ [][Next]_vars

\* Goroutines keep running, and of an RPC that is sent again and again some
\* request and some reply get through.
Fairness ==
    \A c \in Client :
        /\ WF_vars(resend(c))
        /\ SF_vars(serverGet(c) \/ serverPut(c))
        /\ SF_vars(return(c))

FairSpec == Spec /\ Fairness

----------------------------------------------------------------------------
(* Correctness *)

\* Every variable has its type: a key that exists has a version, never 0.
TypeOK ==
    /\ \E keys \in SUBSET Key : data \in [keys -> Entry]
    /\ call \in [Client -> GetArgs \cup PutArgs \cup {Nil}]
    /\ calling \in [Client -> BOOLEAN]
    /\ retry \in [Client -> BOOLEAN]
    /\ reply \in [Client -> GetReply \cup PutReply \cup {Nil}]
    /\ result \in [Client -> GetReply \cup PutReply \cup {[err |-> "ErrMaybe"], Nil}]
    /\ put \in [Client -> BOOLEAN]

\* The map that the callers of the clerks see: the server's.  A call has taken
\* effect when its Put was performed, or else when a reply is on its way.
store == [k \in Key |-> IF k \in DOMAIN data THEN data[k] ELSE [value |-> Empty, version |-> 0]]
effect == [c \in Client |-> IF put[c] THEN [err |-> "OK"] ELSE reply[c]]

Map == INSTANCE KVMap WITH store <- store, call <- call, effect <- effect, result <- result

\* Server and clerks behave like one map on which Get and Put are atomic,
\* whatever is lost: a Put is performed at most once however often it is sent,
\* OK and ErrVersion are always true, and ErrMaybe is the only doubtful answer.
ImplementsMap == Map!MapSpec

\* Every Get and every Put returns, although RPCs fail.
CallsReturn == \A c \in Client : call[c] # Nil ~> call[c] = Nil

=============================================================================
