------------------------------ MODULE KVMap ------------------------------
(***************************************************************************)
(* What a key/value clerk promises to the program that uses it: Get and    *)
(* Put behave like atomic operations on a map of versioned values, except  *)
(* that Put may answer ErrMaybe, whether it was performed or not.  This is *)
(* the model that the repository's tests check histories against           *)
(* (models1/kv.go), as a state machine: a call takes effect at one moment  *)
(* between its beginning and its return.  It is stricter than that model   *)
(* about Get, whose version and error count too, and it has the ErrNoKey   *)
(* of a Put, which the servers answer and that model does not know.        *)
(***************************************************************************)
EXTENDS Naturals

CONSTANTS
    Client,           \* programs, each with a clerk of its own
    Key, Value,
    Nil,              \* no call, no effect, no result
    Empty,            \* the value "" of a key that does not exist
    MaxVersion        \* bound of the model: versions that callers of Put name

VARIABLES
    store,            \* store[k]: value and version; version 0 if k does not exist
    call,             \* call[c]: the call of c in progress
    effect,           \* effect[c]: what that call has found or done in the store
    result            \* result[c]: what the last call of c returned

mapVars == <<store, call, effect, result>>

Entry == [value : Value \cup {Empty}, version : Nat]

GetArgs == [op : {"Get"}, key : Key]
PutArgs == [op : {"Put"}, key : Key, value : Value, version : Nat]
Calls == GetArgs \cup [op : {"Put"}, key : Key, value : Value, version : 0 .. MaxVersion]

GetReply == [err : {"OK", "ErrNoKey"}, value : Value \cup {Empty}, version : Nat]
PutReply == [err : {"OK", "ErrVersion", "ErrNoKey", "ErrMaybe"}]

ASSUME ReplyAssumption == Nil \notin GetArgs \cup PutArgs \cup GetReply \cup PutReply

absent == [value |-> Empty, version |-> 0]

MapInit ==
    /\ store = [k \in Key |-> absent]
    /\ call = [c \in Client |-> Nil]
    /\ effect = [c \in Client |-> Nil]
    /\ result = [c \in Client |-> Nil]

begin(c, args) ==
    /\ call[c] = Nil
    /\ call' = [call EXCEPT ![c] = args]
    /\ result' = [result EXCEPT ![c] = Nil]
    /\ UNCHANGED <<store, effect>>

\* Get sees the entry of its key.
look(c) ==
    /\ call[c] # Nil
    /\ call[c].op = "Get"
    /\ LET entry == store[call[c].key]
       IN  effect' = [effect EXCEPT ![c] =
               [err |-> IF entry.version = 0 THEN "ErrNoKey" ELSE "OK",
                value |-> entry.value, version |-> entry.version]]
    /\ UNCHANGED <<store, call, result>>

performed(c) == call[c].op = "Put" /\ effect[c] = [err |-> "OK"]

\* Put finds the version it names, and is performed: at most once per call.
perform(c) ==
    /\ call[c] # Nil
    /\ call[c].op = "Put"
    /\ ~performed(c)
    /\ store[call[c].key].version = call[c].version
    /\ store' = [store EXCEPT ![call[c].key] =
           [value |-> call[c].value, version |-> call[c].version + 1]]
    /\ effect' = [effect EXCEPT ![c] = [err |-> "OK"]]
    /\ UNCHANGED <<call, result>>

\* Put finds another version.
refuse(c) ==
    /\ call[c] # Nil
    /\ call[c].op = "Put"
    /\ ~performed(c)
    /\ store[call[c].key].version # call[c].version
    /\ effect' = [effect EXCEPT ![c] =
           [err |-> IF store[call[c].key].version = 0 THEN "ErrNoKey" ELSE "ErrVersion"]]
    /\ UNCHANGED <<store, call, result>>

\* What a call has seen does not count before it returns; what it has done does.
forget(c) ==
    /\ call[c] # Nil
    /\ ~performed(c)
    /\ effect' = [effect EXCEPT ![c] = Nil]
    /\ UNCHANGED <<store, call, result>>

\* What a call may return, once it has taken effect.
answers(c) ==
    IF call[c] = Nil \/ effect[c] = Nil THEN {}
    ELSE IF call[c].op = "Put" /\ effect[c].err \in {"OK", "ErrVersion"}
    THEN {effect[c], [err |-> "ErrMaybe"]}
    ELSE {effect[c]}

return(c, answer) ==
    /\ answer \in answers(c)
    /\ call' = [call EXCEPT ![c] = Nil]
    /\ effect' = [effect EXCEPT ![c] = Nil]
    /\ result' = [result EXCEPT ![c] = answer]
    /\ UNCHANGED store

MapNext ==
    \E c \in Client :
        \/ \E args \in Calls : begin(c, args)
        \/ look(c)
        \/ perform(c)
        \/ refuse(c)
        \/ forget(c)
        \/ \E answer \in answers(c) : return(c, answer)

MapSpec == MapInit /\ [][MapNext]_mapVars
=============================================================================
