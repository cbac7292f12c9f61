---------------------------- MODULE RequestReply ----------------------------
(***************************************************************************)
(* What the Private API promises to the HTTP handlers, with no sockets,    *)
(* locks or transactions: a call is opened once and ends once; it ends     *)
(* with an answer only if the helper executed that very action; whatever   *)
(* the caller is told, the action is executed at most once, and it may be  *)
(* executed after the caller failed or went away.                          *)
(***************************************************************************)
EXTENDS Naturals

CONSTANTS Calls, FireAndForget

VARIABLES
    phase,  \* phase[c]: how far call c is, for its caller
    ran     \* ran[c]: how many times its action was executed

vars == <<phase, ran>>

TypeOK ==
    /\ phase \in [Calls -> {"idle", "open", "answered", "failed", "abandoned"}]
    /\ ran \in [Calls -> {0, 1}]

Init ==
    /\ phase = [c \in Calls |-> "idle"]
    /\ ran = [c \in Calls |-> 0]

Move(c, from, to) ==
    /\ phase[c] = from
    /\ phase' = [phase EXCEPT ![c] = to]
    /\ UNCHANGED ran

Open(c) == Move(c, "idle", "open")

\* The caller sees success: the action ran, unless nobody waits for an answer.
Answer(c) ==
    /\ ran[c] = 1 \/ c \in FireAndForget
    /\ Move(c, "open", "answered")

Fail(c)    == c \notin FireAndForget /\ Move(c, "open", "failed")
Abandon(c) == Move(c, "open", "abandoned")

Execute(c) ==
    /\ phase[c] # "idle"
    /\ ran[c] = 0
    /\ ran' = [ran EXCEPT ![c] = 1]
    /\ UNCHANGED phase

Next == \E c \in Calls : Open(c) \/ Answer(c) \/ Fail(c) \/ Abandon(c) \/ Execute(c)

Spec == Init /\ [][Next]_vars
=============================================================================
