--------------------------- MODULE EventPipeline ---------------------------
(***************************************************************************)
(* From chat.db to the webhooks: the listener (Watcher), the broadcast     *)
(* channel, the bridge task of main.rs and the webhook service (Webhooks), *)
(* with the mark_read route, which dispatches an event of its own.         *)
(***************************************************************************)
EXTENDS Watcher

CONSTANTS Targets, Filter

VARIABLES entries, posted

Hooks == INSTANCE Webhooks
            WITH Types <- {"new", "updated", "group", "chat"}, Ids <- Rows \cup Chats, KeyTtl <- Ttl

vars == <<watchVars, entries, posted>>

Init == WatcherInit /\ Hooks!HooksInit

----------------------------------------------------------------------------
\* The bridge of main.rs: the key is made of the type and the "guid" of the
\* payload; the payload of a chat event has no "guid", so it has no key.
KeyOf(e)  == <<e.type, e.id>>
Body(e)   == IF e.type = "chat" THEN <<>> ELSE <<e.ver, e.flag>>
Keyed(e)  == e.type # "chat"

Bridge ==
    /\ feed # <<>>
    /\ feed' = Tail(feed)
    /\ LET e == Head(feed) IN
          IF Keyed(e) THEN Hooks!Dispatch(KeyOf(e), Body(e))
          ELSE Hooks!DispatchUnkeyed(KeyOf(e), Body(e))
    /\ UNCHANGED <<now, dbVars, stateVars, started, lastCheck, batch, history, fates>>

\* mark_read, after the helper's success: that Messages.app marks the chat is ReadChat,
\* before this, after it or never.
MarkRead(c) ==
    /\ Hooks!DispatchUnkeyed(<<"chat", c>>, <<>>)
    /\ UNCHANGED watchVars

Next ==
    \/ (WorldStep \/ ListenerStep) /\ UNCHANGED <<entries, posted>>
    \/ Bridge
    \/ \E c \in Chats : MarkRead(c)

Spec == Init /\ [][Next]_vars

\* The loop's fallback timer ticks every 5 s, its sends and the bridge's
\* receives wait on nobody; that a query works again and again is the
\* environment's share.
Fairness ==
    /\ WF_vars((\E okRows, okReads \in BOOLEAN : Seed(okRows, okReads)) /\ UNCHANGED <<entries, posted>>)
    /\ SF_vars(Poll(TRUE, TRUE) /\ UNCHANGED <<entries, posted>>)
    /\ WF_vars((\E e \in batch : Emit(e)) /\ UNCHANGED <<entries, posted>>)
    /\ WF_vars(Bridge)

FairSpec == Spec /\ Fairness

----------------------------------------------------------------------------
\* Properties

TypeOK ==
    /\ WatcherTypeOK
    /\ entries \in [Hooks!Keys -> 0 .. now]
    /\ \A t \in Targets, k \in Hooks!Keys : posted[t][k].at \in 0 .. now

\* Two POSTs of one key are at least Ttl apart, whatever the watcher forgets
\* and announces again (event_cache.rs, DB polling overlap).
DedupWindow ==
    [][\A t \in Targets, k \in Hooks!Keys :
          k[1] # "chat" /\ posted'[t][k] # posted[t][k]
              => posted[t][k].at = 0 \/ now - posted[t][k].at >= Ttl]_vars

\* A change of a row the watcher has yet to announce, as a new message or as a
\* group change, ends in a POST to every target that asked for it, unless a page
\* was full or the loop stood still for a day.
First(r) == IF r \in Groups THEN "group" ELSE "new"
Unannounced(r) == started /\ r \in owed /\ IF r \in Groups THEN grouped[r] = 0 ELSE seen[r] = 0
Announced(t, r) == posted[t][<<First(r), r>>].at # 0
Wanted(t, r) == r \notin Silent /\ First(r) \in Filter[t]
NewDelivered ==
    \A r \in Rows, t \in Targets : Wanted(t, r) => (Unannounced(r) ~> Announced(t, r) \/ lapsed)

\* A row that came after the caches were seeded is never lost on its way to a target
\* that asked for it: until it is POSTed it is still to be read, in a window InReach
\* speaks of, or its first event is with the listener or in the channel, unless the
\* channel forgot it.  The caches hide no row that was not announced, and the event
\* cache drops no event whose like was not POSTed.
Carries(e, r) == e.type = First(r) /\ e.id = r
UnderWay(r) == (\E e \in batch : Carries(e, r)) \/ (\E i \in 1 .. Len(feed) : Carries(feed[i], r))
NothingLost ==
    \A r \in Rows \ old, t \in Targets :
        started /\ row[r] # Absent /\ Wanted(t, r) /\ <<First(r), r>> \notin lost
            => r \in owed \/ UnderWay(r) \/ Announced(t, r)

\* event_cache.rs:3: only an event that was already delivered is dropped, not a
\* later edit, delivery or read receipt of the same message.
OnlyDuplicatesDropped ==
    [][feed # <<>> /\ feed' = Tail(feed) /\ Keyed(Head(feed)) /\ posted' = posted =>
          \A t \in Targets : Head(feed).type \in Filter[t] =>
              posted[t][KeyOf(Head(feed))].body = Body(Head(feed))]_vars

\* listener.rs:112: the caches are seeded to avoid re-emitting old messages: a
\* row nothing touched since start is never announced.
OldNotReemitted ==
    [][\A e \in batch' \ batch : e.type # "chat" /\ ~lapsed => e.id \in touched]_vars
=============================================================================
