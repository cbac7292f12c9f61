--------------------------- MODULE MessageRoutes ---------------------------
(***************************************************************************)
(* The HTTP handlers that change messages and chats: sends (through the    *)
(* helper or AppleScript, with the send cache and the typing cache),       *)
(* reactions, and the edits that are confirmed by polling chat.db (edit,   *)
(* unsend, participants).  What they ask of the helper is a call of        *)
(* RequestReply, which PrivateApi implements; the world is the Messages    *)
(* app, which brings accepted messages to chat.db sooner or later or       *)
(* never, and the user's other devices.                                    *)
(*                                                                         *)
(* A request is one invocation of a handler; the await points of the       *)
(* handlers are the boundaries of the actions.                             *)
(***************************************************************************)
EXTENDS Integers, Sequences, FiniteSets

CONSTANTS
    Requests,   \* invocations of the handlers
    Loads,      \* what they may ask for: functions from Requests to records
    TempGuids,  \* the clients' tempGuids
    Guids,      \* spellings of chat guids
    Canon,      \* normalize_chat_guid
    Groups,     \* normalised guids of the group chats
    Window,     \* the newest messages the AppleScript path looks at (5)
    Backdated,  \* whether chat.db may receive a message older than its newest
    MaxRows,    \* bound: messages in chat.db
    MaxChanges, \* bound: the counter of edits, and of participants
    None        \* absence of a tempGuid or of a result

Kinds  == {"text", "react", "edit", "add", "remove"}
Chats  == {Canon[g] : g \in Guids}
Load   == [kind : Kinds, method : {"private-api", "apple-script"},
           temp : TempGuids \cup {None}, chat : Guids]
Fields == {"edited", "members"}
Ended  == {"done", "failed", "refused", "dropped"}

ASSUME LoadsAssumption == Loads \subseteq [Requests -> Load]
ASSUME CanonAssumption ==
    /\ Canon \in [Guids -> Guids]
    /\ \A g \in Guids : Canon[Canon[g]] = Canon[g]
    /\ Groups \subseteq Guids
ASSUME NoneAssumption == None \notin TempGuids /\ None \notin Nat /\ None \notin Requests

VARIABLES
    req,     \* req[r]: what the client asks; never changes
    pc,      \* pc[r]: the handler's await point
    cache,   \* AppState.send_cache
    typing,  \* AppState.typing_cache
    phase,   \* phase[r]: the helper call of the request, for its caller
    ran,     \* ran[r]: whether the helper executed it
    tries,   \* tries[r]: AppleScript attempts that have failed
    rows,    \* the messages of chat.db by rowid: chat, sender, date
    before,  \* before[r]: pre_send_max_rowid
    fields,  \* the message's date_edited, the group's participant count
    base,    \* base[r]: the field as the handler read it first
    told,    \* told[r]: rowid or field value in a successful response
    taken,   \* history: how often Messages accepted the request
    landed,  \* landed[r]: how many of those have reached chat.db
    arrived  \* history: the last rowid when the request arrived

handler == <<pc, cache, typing, tries, before, base, told, arrived>>
world   == <<rows, fields, taken, landed>>
call    == <<phase, ran>>
vars    == <<req, handler, world, call>>

Helper == INSTANCE RequestReply WITH Calls <- Requests, FireAndForget <- {}

\* The handlers whose tempGuid is in the cache by their own doing.
Holding == {r \in Requests : /\ req[r].kind = "text" /\ req[r].temp # None
                             /\ pc[r] \notin {"idle", "passed"} \cup Ended}

\* A send by AppleScript.
ByScript(r) == req[r].kind = "text" /\ req[r].method = "apple-script"

Row == [chat : Chats, mine : BOOLEAN, by : Requests \cup {None}, date : Nat]

TypeOK ==
    /\ req \in Loads
    /\ pc \in [Requests -> Ended \cup {"idle", "passed", "guarded", "stopping", "ready",
                                       "calling", "scripting", "finding"}]
    /\ cache \subseteq TempGuids
    /\ typing \subseteq Chats
    /\ Helper!TypeOK
    /\ tries \in [Requests -> 0 .. 2]
    /\ rows \in Seq(Row)
    /\ before \in [Requests -> Nat]
    /\ fields \in [Fields -> Nat]
    /\ base \in [Requests -> Nat]
    /\ told \in [Requests -> Nat \cup {None}]
    /\ taken \in [Requests -> Nat] /\ landed \in [Requests -> Nat]
    /\ arrived \in [Requests -> Nat]

Init ==
    /\ req \in Loads
    /\ pc = [r \in Requests |-> "idle"]
    /\ cache = {} /\ typing = {}
    /\ Helper!Init
    /\ tries = [r \in Requests |-> 0]
    /\ rows = << >>
    /\ before = [r \in Requests |-> 0]
    /\ fields = [edited |-> 0, members |-> 2]
    /\ base = [r \in Requests |-> 0]
    /\ told = [r \in Requests |-> None]
    /\ taken = [r \in Requests |-> 0] /\ landed = [r \in Requests |-> 0]
    /\ arrived = [r \in Requests |-> 0]

-----------------------------------------------------------------------------
(* Ending a handler, whatever the exit: the guard's drop frees the tempGuid. *)

Goto(r, p) == pc' = [pc EXCEPT ![r] = p]

\* Mutant: the tempGuid is freed where the send succeeds or gives up only.
UncachedAtEnd(r) == IF r \in Holding /\ pc[r] = "finding" THEN cache \ {req[r].temp} ELSE cache

Uncached(r) == IF r \in Holding THEN cache \ {req[r].temp} ELSE cache

End(r, outcome, answer) ==
    /\ Goto(r, outcome)
    /\ cache' = Uncached(r)
    /\ told' = [told EXCEPT ![r] = answer]
    /\ UNCHANGED <<typing, tries, before, base, arrived>>

Fail(r) == End(r, "failed", None)

-----------------------------------------------------------------------------
(* Sends: the send cache, the typing indicator.                            *)

\* is_send_cached, under the first of two locks.
Check(r) ==
    /\ pc[r] = "idle" /\ req[r].kind = "text"
    /\ arrived' = [arrived EXCEPT ![r] = Len(rows)]
    /\ Goto(r, IF req[r].temp = None THEN "guarded"
               ELSE IF req[r].temp \in cache THEN "refused" ELSE "passed")
    /\ UNCHANGED <<req, cache, typing, tries, before, base, told, world, call>>

\* cache_send, under the second, and the guard.
CacheSend(r) ==
    /\ pc[r] = "passed"
    /\ cache' = cache \cup {req[r].temp}
    /\ Goto(r, "guarded")
    /\ UNCHANGED <<req, typing, tries, before, base, told, arrived, world, call>>

\* The indicator is looked up by the guid as the client spells it.
AutoStop(r) ==
    /\ pc[r] = "guarded"
    /\ typing' = typing \ {req[r].chat}
    /\ Goto(r, IF req[r].chat \in typing THEN "stopping" ELSE "ready")
    /\ UNCHANGED <<req, cache, tries, before, base, told, arrived, world, call>>

\* Whatever becomes of the stop-typing action is ignored.
Stopped(r) ==
    /\ pc[r] = "stopping"
    /\ Goto(r, "ready")
    /\ UNCHANGED <<req, cache, typing, tries, before, base, told, arrived, world, call>>

\* A request that is not valid, a helper that is not ready, a file that cannot be
\* written: before the send cache or after it.
Reject(r) ==
    /\ pc[r] \in {"idle", "ready"}
    /\ Fail(r)
    /\ UNCHANGED <<req, world, call>>

-----------------------------------------------------------------------------
(* Through the helper.                                                     *)

\* send_action; nothing is awaited between the ready check and its permit.
AskSend(r) ==
    /\ pc[r] = "ready" /\ req[r].method = "private-api"
    /\ Helper!Open(r)
    /\ Goto(r, "calling")
    /\ UNCHANGED <<req, cache, typing, tries, before, base, told, arrived, world>>

AskReaction(r) ==
    /\ pc[r] = "idle" /\ req[r].kind = "react"
    /\ Helper!Open(r)
    /\ arrived' = [arrived EXCEPT ![r] = Len(rows)]
    /\ Goto(r, "calling")
    /\ UNCHANGED <<req, cache, typing, tries, before, base, told, world>>

\* current_date_edited, prev_count: what the field was before the action.
FieldOf(r) == IF req[r].kind = "edit" THEN "edited" ELSE "members"

Ask(r) ==
    /\ Helper!Open(r)
    /\ base' = [base EXCEPT ![r] = fields[FieldOf(r)]]
    /\ Goto(r, "calling")
    /\ UNCHANGED <<req, cache, typing, tries, before, told, arrived, world>>

AskEdit(r)   == pc[r] = "idle" /\ req[r].kind = "edit" /\ Ask(r)
AskMember(r) ==
    /\ pc[r] = "idle" /\ req[r].kind \in {"add", "remove"}
    /\ fields["members"] > 1
    /\ Ask(r)

Answered(r) ==
    /\ pc[r] = "calling"
    /\ Helper!Answer(r)
    /\ Goto(r, "finding")
    /\ UNCHANGED <<req, cache, typing, tries, before, base, told, arrived, world>>

\* An error, a timeout, or an answer without an identifier.
CallFailed(r) ==
    /\ pc[r] = "calling"
    /\ Helper!Fail(r) \/ (Helper!Answer(r) /\ req[r].kind \in {"text", "react"})
    /\ Fail(r)
    /\ UNCHANGED <<req, world>>

\* The helper performs the action, whether or not the handler still waits.
Execute(r) ==
    /\ Helper!Execute(r)
    /\ taken' = [taken EXCEPT ![r] = @ + 1]
    /\ UNCHANGED <<req, handler, rows, fields, landed>>

-----------------------------------------------------------------------------
(* Through AppleScript: note the last message, run the script, find a newer. *)

Of(c)     == {i \in 1 .. Len(rows) : rows[i].chat = c}
\* ORDER BY message.date DESC; rows of one date, of which SQLite
\* may return any first, by rowid.
Newer(i, j) == rows[i].date > rows[j].date \/ (rows[i].date = rows[j].date /\ i > j)
\* Mutant: ORDER BY message.date ASC.
Oldest(S) == CHOOSE i \in S : \A j \in S \ {i} : Newer(j, i)

Newest(S) == CHOOSE i \in S : \A j \in S \ {i} : Newer(i, j)
Recent(c) == {i \in Of(c) : Cardinality({j \in Of(c) : Newer(j, i)}) < Window}

\* A query that fails counts as a chat without messages.
Note(r) ==
    /\ pc[r] = "ready" /\ req[r].method = "apple-script" /\ req[r].temp # None
    /\ LET S == Of(Canon[req[r].chat]) IN
          \E n \in {0} \cup (IF S = {} THEN {} ELSE {Newest(S)}) :
             before' = [before EXCEPT ![r] = n]
    /\ Goto(r, "scripting")
    /\ UNCHANGED <<req, cache, typing, tries, base, told, arrived, world, call>>

\* n of the attempts' messages were accepted by Messages.
Accept(r, n) ==
    /\ taken' = [taken EXCEPT ![r] = @ + n]
    /\ UNCHANGED <<rows, fields, landed>>

ScriptRan(r) ==
    /\ pc[r] = "scripting"
    /\ Accept(r, 1)
    /\ Goto(r, "finding")
    /\ UNCHANGED <<req, cache, typing, tries, before, base, told, arrived, call>>

\* Mutant: the fallback follows itself.
LeftTwice(r) == tries[r] = 0 \/ Canon[req[r].chat] \notin Groups

\* Attempts left: after the first the retry, after it the fallback if not a group.
Left(r) == IF tries[r] = 0 THEN TRUE ELSE tries[r] = 1 /\ Canon[req[r].chat] \notin Groups

Again(r) ==
    \/ Left(r) /\ tries' = [tries EXCEPT ![r] = @ + 1]
                /\ UNCHANGED <<pc, cache, typing, before, base, told, arrived>>
    \/ ~Left(r) /\ Fail(r)

\* Any other error than a timeout: Messages did not take the message.
ScriptError(r) ==
    /\ pc[r] = "scripting"
    /\ Again(r)
    /\ UNCHANGED <<req, world, call>>

\* Mutant: a timeout is retried as any other error.
ScriptTimeoutRetried(r) ==
    /\ pc[r] = "scripting"
    /\ \E n \in {0, 1} : Accept(r, n)
    /\ Again(r)
    /\ UNCHANGED <<req, call>>

\* After 30 s osascript is killed, its message perhaps accepted.
ScriptTimeout(r) ==
    /\ pc[r] = "scripting"
    /\ \E n \in {0, 1} : Accept(r, n)
    /\ IF tries[r] = 0 THEN Fail(r) ELSE Again(r)
    /\ UNCHANGED <<req, call>>

-----------------------------------------------------------------------------
(* The awaiter: polls until the condition holds or its time is over.       *)

\* The rows that a poll may return.  By AppleScript, the newest that the user sent to
\* the chat of those after the noted one; through the helper, the one with the guid that
\* it answered: the chat's lastSentMessage, which may be the request's message or any
\* other that was sent to the chat.
Found(r) ==
    LET sent == {i \in Of(Canon[req[r].chat]) : rows[i].mine}
        new  == {i \in sent \cap Recent(Canon[req[r].chat]) : i > before[r]}
    IN  IF ~ByScript(r) THEN sent ELSE IF new = {} THEN {} ELSE {Newest(new)}

\* A message that Messages marked as not sent is an error, through the helper only.
FindMessage(r) ==
    /\ pc[r] = "finding" /\ req[r].kind \in {"text", "react"}
    /\ \E i \in Found(r) :
          \/ End(r, "done", i)
          \/ req[r].method = "private-api" /\ req[r].kind = "text" /\ Fail(r)
    /\ UNCHANGED <<req, world, call>>

Changed(r) == IF req[r].kind = "edit" THEN fields["edited"] > base[r]
                                      ELSE fields["members"] # base[r]

SeeChange(r) ==
    /\ pc[r] = "finding" /\ req[r].kind \notin {"text", "react"}
    /\ Changed(r)
    /\ End(r, "done", fields[FieldOf(r)])
    /\ UNCHANGED <<req, world, call>>

\* Mutant: the wait for a message has no limit.
GiveUpOnRecord(r) ==
    /\ pc[r] = "finding" /\ req[r].kind \notin {"text", "react"}
    /\ Fail(r) \/ End(r, "done", base[r])
    /\ UNCHANGED <<req, world, call>>

\* max_wait is over: no message is a failure; a record is returned as it was last
\* read, which was not the change awaited, unless no poll could read it.
GiveUp(r) ==
    /\ pc[r] = "finding"
    /\ IF req[r].kind \in {"text", "react"} THEN Fail(r)
       ELSE Fail(r) \/ End(r, "done", base[r])
    /\ UNCHANGED <<req, world, call>>

\* The client leaves or the 300 s layer ends the handler; osascript is killed.
Cancel(r) ==
    /\ pc[r] \in {"stopping", "ready", "calling", "scripting", "finding"}
    /\ End(r, "dropped", None)
    /\ IF pc[r] = "calling" THEN Helper!Abandon(r) ELSE UNCHANGED call
    /\ IF pc[r] = "scripting" THEN \E n \in {0, 1} : Accept(r, n) ELSE UNCHANGED world
    /\ UNCHANGED req

-----------------------------------------------------------------------------
(* The typing routes.                                                      *)

Asked(k) == \E r \in Requests : req[r].kind = k
Named    == {Canon[req[r].chat] : r \in {q \in Requests : req[q].kind = "text"}}

StartTyping(g) ==
    /\ Canon[g] \in Named
    /\ typing' = typing \cup {Canon[g]}
    /\ UNCHANGED <<req, pc, cache, tries, before, base, told, arrived, world, call>>

StopTyping(g) ==
    /\ typing' = typing \ {Canon[g]}
    /\ UNCHANGED <<req, pc, cache, tries, before, base, told, arrived, world, call>>

-----------------------------------------------------------------------------
(* Messages and the other devices.                                         *)

Date == {1 + Len(rows)} \cup (IF Backdated THEN {0} ELSE {})

Append1(row) ==
    /\ Len(rows) < MaxRows
    /\ rows' = Append(rows, row)
    /\ UNCHANGED fields

Moved(f, v) ==
    /\ v \in 1 .. MaxChanges
    /\ fields' = [fields EXCEPT ![f] = v]
    /\ UNCHANGED rows

\* What Messages accepted reaches chat.db.
Land(r) ==
    /\ landed[r] < taken[r]
    /\ landed' = [landed EXCEPT ![r] = @ + 1]
    /\ CASE req[r].kind \in {"text", "react"} ->
               Append1([chat |-> Canon[req[r].chat], mine |-> TRUE, by |-> r, date |-> 1 + Len(rows)])
         [] req[r].kind = "edit"   -> Moved("edited", fields["edited"] + 1)
         [] req[r].kind = "add"    -> Moved("members", fields["members"] + 1)
         [] req[r].kind = "remove" -> Moved("members", fields["members"] - 1)
    /\ UNCHANGED <<req, handler, call, taken>>

\* A message received or sent elsewhere, an edit or a change of members elsewhere; of
\* all that, what some request of the load can see.
Elsewhere ==
    /\ \/ \E c \in Named, m \in BOOLEAN, d \in Date :
             Append1([chat |-> c, mine |-> m, by |-> None, date |-> d])
       \/ Asked("edit") /\ Moved("edited", fields["edited"] + 1)
       \/ \E d \in {-1, 1} : /\ Asked("add") \/ Asked("remove")
                            /\ Moved("members", fields["members"] + d)
    /\ UNCHANGED <<req, handler, call, taken, landed>>

-----------------------------------------------------------------------------

Handler(r) ==
    \/ CacheSend(r) \/ AutoStop(r) \/ Stopped(r) \/ AskSend(r) \/ Note(r)
    \/ (pc[r] = "ready" /\ Reject(r))
    \/ Answered(r) \/ CallFailed(r)
    \/ ScriptRan(r) \/ ScriptError(r) \/ ScriptTimeout(r)
    \/ FindMessage(r) \/ SeeChange(r) \/ GiveUp(r)

Next ==
    \/ \E r \in Requests :
          \/ Check(r) \/ AskReaction(r) \/ AskEdit(r) \/ AskMember(r)
          \/ (pc[r] = "idle" /\ Reject(r))
          \/ Handler(r) \/ Cancel(r) \/ Execute(r) \/ Land(r)
    \/ \E g \in Guids : StartTyping(g) \/ StopTyping(g)
    \/ Elsewhere

Spec == Init /\ [][Next]_vars

\* tokio polls every handler, the helper's calls end (PrivateApi!CallsReturn), and
\* scripts and awaiters have time limits.
Fairness == \A r \in Requests : WF_vars(Handler(r))

FairSpec == Spec /\ Fairness

-----------------------------------------------------------------------------
(* Properties.                                                             *)

\* A tempGuid stays in the send cache only while a handler that put it there runs:
\* every exit of every send (refusal, error, success, cancellation) frees it, even
\* when two sends got past the check together.
EntryHeld == \A t \in cache : \E r \in Holding : req[r].temp = t

\* A send is refused as a duplicate only while another with its tempGuid is under
\* way, so that a client may retry what failed.
RefusedRightly ==
    [][\A r \in Requests : pc[r] = "idle" /\ pc'[r] = "refused" =>
          \E q \in Holding \ {r} : req[q].temp = req[r].temp]_vars

\* Messages accepts a request at most once, whatever is retried, times out or is
\* cancelled, but for a send to one person by AppleScript: the fallback follows a
\* retry that may have timed out after it was accepted.
SentOnce ==
    \A r \in Requests :
        taken[r] <= IF ByScript(r) /\ Canon[req[r].chat] \notin Groups THEN 2 ELSE 1

\* The message that a send by AppleScript reports was not in chat.db when the request
\* came, unless the query for the last rowid failed.
ReportsNew ==
    \A r \in Requests : pc[r] = "done" /\ ByScript(r) /\ before[r] > 0 => told[r] > arrived[r]

\* A successful edit, unsend or change of participants reports a change.
EditHonest ==
    \A r \in Requests :
        pc[r] = "done" /\ req[r].kind \in {"edit", "add", "remove"} => told[r] # base[r]

\* Every request ends, although messages may never reach chat.db.
RequestsEnd ==
    \A r \in Requests : pc[r] \notin Ended \cup {"idle"} ~> pc[r] \in Ended
=============================================================================
