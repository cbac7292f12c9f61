------------------------------ MODULE Webhooks ------------------------------
(***************************************************************************)
(* The webhook service: dispatch drops an event whose key was dispatched   *)
(* less than an hour ago, and otherwise spawns one POST for every target   *)
(* that wants its type.  What becomes of a POST is not the program's to    *)
(* know: nothing retries it and nothing orders it after another.           *)
(***************************************************************************)
EXTENDS Integers

CONSTANTS
    Types,      \* event types
    Ids,        \* guids of messages and of chats
    Targets,    \* configured webhooks, set once at startup
    Filter,     \* Filter[t]: the types target t asks for ("*" is all of them)
    KeyTtl      \* life of a key in the event cache (1 h)

VARIABLES
    now,        \* the clock, 0 is never
    entries,    \* entries[k]: when key k entered the event cache, 0 if not there
    posted      \* posted[t][k]: the last POST to t for k and its time (history)

Keys    == Types \X Ids
NoPost  == [at |-> 0, body |-> <<>>]
hookVars == <<entries, posted>>

HooksInit ==
    /\ entries = [k \in Keys |-> 0]
    /\ posted = [t \in Targets |-> [k \in Keys |-> NoPost]]

\* cleanup: entries of age KeyTtl and more go.
Cleaned == [k \in Keys |-> IF now - entries[k] < KeyTtl THEN entries[k] ELSE 0]

\* is_duplicate
Duplicate(key) == Cleaned[key] # 0
AdmitLost(key) == entries' = Cleaned  \* mutation: the key is not inserted
Admit(key) == entries' = IF Duplicate(key) THEN Cleaned ELSE [Cleaned EXCEPT ![key] = now]

\* One task per target whose filter names the type.
Post(key, body) ==
    posted' = [t \in Targets |->
        IF key[1] \in Filter[t] THEN [posted[t] EXCEPT ![key] = [at |-> now, body |-> body]]
        ELSE posted[t]]

\* dispatch with a dedup key, and without one.
Dispatch(key, body) ==
    /\ Admit(key)
    /\ IF Duplicate(key) THEN UNCHANGED posted ELSE Post(key, body)

DispatchUnkeyed(key, body) ==
    /\ Post(key, body)
    /\ UNCHANGED entries
=============================================================================
