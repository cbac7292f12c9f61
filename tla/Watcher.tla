------------------------------ MODULE Watcher ------------------------------
(***************************************************************************)
(* The iMessage listener: it polls chat.db when the file changes and every *)
(* 5 s, compares what changed in a window of time with what it has seen,   *)
(* and emits events on a broadcast channel.  Nothing tells it what it has  *)
(* read already but its caches, whose entries live one hour, and nothing   *)
(* brings back a row that leaves the window unread.                        *)
(*                                                                         *)
(* Time is counted in coarse units from 1, and 0 is the time of what never *)
(* happened.  Messages.app, which writes chat.db, is outside src/.         *)
(***************************************************************************)
EXTENDS Integers, FiniteSets, Sequences

CONSTANTS
    Texts,      \* message rows with a text
    Groups,     \* message rows that record a group change (item type 1-3, no text)
    Silent,     \* those of them whose item type and action have no event name
    Chats,      \* chats with a read timestamp
    Lookback,   \* a poll looks this far behind the last one (30 s)
    SeedBack,   \* the first poll looks this far back (60 s)
    MaxBack,    \* no poll looks further back than this (24 h)
    Ttl,        \* life of a cache entry (1 h)
    Limit,      \* rows one query returns (1000)
    ChanCap,    \* events the broadcast channel keeps (256)
    MaxLag,     \* bound: delay between a date and the row that carries it
    MaxOutage,  \* bound: how long queries may keep failing
    MaxChanges, \* bound: changes of one row
    MaxTicks    \* bound: how far the clock runs after the start

Rows == Texts \cup Groups

\* The start is late enough for rows older than the first window.
StartTime == SeedBack + 2
MaxTime   == StartTime + MaxTicks

ASSUME RowsAssumption == Silent \subseteq Groups /\ Texts \cap Groups = {} /\ Rows \cap Chats = {}
ASSUME TimesAssumption ==
    /\ Lookback \in Nat /\ SeedBack \in Nat /\ MaxBack \in Nat /\ Ttl \in Nat
    /\ Lookback < SeedBack /\ SeedBack < Ttl /\ Ttl < MaxBack
ASSUME BoundsAssumption ==
    /\ Limit \in Nat \ {0} /\ ChanCap \in Nat \ {0}
    /\ MaxChanges \in Nat /\ MaxTicks \in Nat
\* What makes the window wide enough.
ASSUME ReachAssumption == MaxLag \in Nat /\ MaxOutage \in Nat /\ MaxLag + MaxOutage <= Lookback

VARIABLES
    now,        \* the clock
    \* chat.db
    row,        \* row[r]: newest of its dates, dated changes, an undated flag
    readAt,     \* readAt[c]: last_read_message_timestamp of chat c
    \* PollerState
    seen,       \* seen[r]: when the guid of r entered seen_guids, 0 if not there
    grouped,    \* grouped[r]: the same for its group-change key
    cached,     \* cached[r]: what message_states holds of r, `at` = 0 if nothing
    chatCached, \* chatCached[c]: what chat_states holds of c
    \* IMessageListener
    started,    \* the caches are seeded and the loop runs
    lastCheck,  \* time of the last poll
    batch,      \* events of the last poll not sent yet
    feed,       \* events in the channel its subscriber has not received
    \* history
    lastGood,   \* time of the last poll none of whose queries failed
    touched,    \* rows and chats written since the last poll that read them
    owed,       \* the rows among them with a new date
    lastNew,    \* lastNew[r]: when the guid of r last entered seen_guids
    lapsed,     \* the seeding failed, a page was full, or a poll came a day late
    old,        \* the rows in chat.db when the caches were seeded
    lost        \* type and id of the events the full channel forgot

dbVars    == <<row, readAt>>
stateVars == <<seen, grouped, cached, chatCached>>
history   == <<lastGood, touched, owed, lastNew, lapsed>>
fates     == <<old, lost>>
watchVars == <<now, dbVars, stateVars, started, lastCheck, batch, feed, history, fates>>

Least(a, b)    == IF a < b THEN a ELSE b
Greatest(a, b) == IF a < b THEN b ELSE a

Row       == [mod : 0 .. MaxTime, ver : 0 .. MaxChanges, flag : BOOLEAN]
Absent    == [mod |-> 0, ver |-> 0, flag |-> FALSE]
Cached    == [ver : 0 .. MaxChanges, flag : BOOLEAN, at : 0 .. MaxTime]
NotCached == [ver |-> 0, flag |-> FALSE, at |-> 0]
Event     == [type : {"new", "updated", "group"}, id : Rows, ver : 0 .. MaxChanges, flag : BOOLEAN]
             \cup [type : {"chat"}, id : Chats]

WatcherTypeOK ==
    /\ now \in 1 .. MaxTime
    /\ row \in [Rows -> Row]
    /\ readAt \in [Chats -> 0 .. MaxTime]
    /\ seen \in [Rows -> 0 .. MaxTime]
    /\ grouped \in [Rows -> 0 .. MaxTime]
    /\ cached \in [Rows -> Cached]
    /\ chatCached \in [Chats -> [ts : 0 .. MaxTime, at : 0 .. MaxTime]]
    /\ started \in BOOLEAN
    /\ lastCheck \in 1 .. now
    /\ batch \subseteq Event
    /\ feed \in Seq(Event) /\ Len(feed) <= ChanCap
    /\ lastGood \in 1 .. now
    /\ owed \subseteq Rows /\ touched \subseteq Rows \cup Chats
    /\ lastNew \in [Rows -> 0 .. now]
    /\ lapsed \in BOOLEAN
    /\ old \subseteq Rows
    /\ lost \subseteq {"new", "updated", "group", "chat"} \X (Rows \cup Chats)

\* new: the process starts with some rows in the database.
WatcherInit ==
    /\ now = StartTime
    /\ row \in [Rows -> {Absent} \cup
                   {[mod |-> d, ver |-> 0, flag |-> FALSE] : d \in 1 .. now}]
    /\ readAt \in [Chats -> 0 .. now]
    /\ seen = [r \in Rows |-> 0]
    /\ grouped = [r \in Rows |-> 0]
    /\ cached = [r \in Rows |-> NotCached]
    /\ chatCached = [c \in Chats |-> [ts |-> 0, at |-> 0]]
    /\ started = FALSE
    /\ lastCheck = now
    /\ batch = {}
    /\ feed = <<>>
    /\ lastGood = now
    /\ touched = {}
    /\ owed = {}
    /\ lastNew = [r \in Rows |-> 0]
    /\ lapsed = FALSE
    /\ old = {} /\ lost = {}

----------------------------------------------------------------------------
\* The world: time passes and Messages.app writes chat.db, some of the dates a
\* little in the past.

Tick ==
    /\ now < MaxTime
    /\ now' = now + 1
    /\ UNCHANGED <<dbVars, stateVars, started, lastCheck, batch, feed, history, fates>>

RecentDates == Greatest(1, now - MaxLag) .. now

Note(x) ==
    /\ touched' = touched \cup {x}
    /\ UNCHANGED <<lastGood, lastNew, lapsed, fates>>

Insert(r) ==
    /\ row[r] = Absent
    /\ \E d \in RecentDates : row' = [row EXCEPT ![r].mod = d]
    /\ owed' = owed \cup {r}
    /\ Note(r)
    /\ UNCHANGED <<now, readAt, stateVars, started, lastCheck, batch, feed>>

\* Delivered, read, edited or retracted: one of the date columns is set.
Change(r) ==
    /\ row[r] # Absent
    /\ row[r].ver < MaxChanges
    /\ \E d \in RecentDates :
          row' = [row EXCEPT ![r].ver = @ + 1, ![r].mod = Greatest(@, d)]
    /\ owed' = owed \cup {r}
    /\ Note(r)
    /\ UNCHANGED <<now, readAt, stateVars, started, lastCheck, batch, feed>>

\* is_delivered or did_notify_recipient alone.
Flag(r) ==
    /\ row[r] # Absent
    /\ ~row[r].flag
    /\ row' = [row EXCEPT ![r].flag = TRUE]
    /\ Note(r)
    /\ UNCHANGED <<now, readAt, stateVars, started, lastCheck, batch, feed, owed>>

ReadChat(c) ==
    /\ readAt[c] # now
    /\ readAt' = [readAt EXCEPT ![c] = now]
    /\ Note(c)
    /\ UNCHANGED <<now, row, stateVars, started, lastCheck, batch, feed, owed>>

----------------------------------------------------------------------------
\* poll_messages and poll_chat_reads

\* The rows one of whose dates is in the window, and a page of them, at most
\* Limit.  Which rows are left out of a full page is the order of creation's
\* choice, and any choice here.
MatchedLater(after) == {r \in Rows : row[r] # Absent /\ row[r].mod > after}  \* mutation
Matched(after) == {r \in Rows : row[r] # Absent /\ row[r].mod >= after}
Pages(after) ==
    {page \in SUBSET Matched(after) :
        Cardinality(page) = Least(Limit, Cardinality(Matched(after)))}

\* Trimming: entries of age Ttl and more go.
KeptShort(at) == IF now - at < Lookback THEN at ELSE 0  \* mutation
Kept(at) == IF now - at < Ttl THEN at ELSE 0

\* A group change not seen yet is an event of its own, and the row is left out
\* of the rest of this poll.
ChangesLater(page) == {r \in page \cap Groups : grouped[r] = 0 /\ row[r].mod > lastCheck}  \* mutation
Changes(page) == {r \in page \cap Groups : grouped[r] = 0}
Fresh(page)   == {r \in page \ Changes(page) : seen[r] = 0}
Differs(r)    == cached[r].ver # row[r].ver \/ cached[r].flag # row[r].flag
Updated(page) == {r \in page \ (Changes(page) \cup Fresh(page)) : cached[r].at # 0 /\ Differs(r)}
Unknown(page) == {r \in page \ (Changes(page) \cup Fresh(page)) : cached[r].at = 0}

ReadEvents(reads) == {[type |-> "chat", id |-> c] : c \in reads}
RowEvents(page) ==
    LET of(type, rows) ==
            {[type |-> type, id |-> r, ver |-> row[r].ver, flag |-> row[r].flag] : r \in rows}
    IN  of("group", Changes(page) \ Silent) \cup of("new", Fresh(page))
            \cup of("updated", Updated(page))

NewReads(after) ==
    {c \in Chats : readAt[c] # 0 /\ readAt[c] >= after
                   /\ (chatCached[c].at = 0 \/ readAt[c] > chatCached[c].ts)}

\* The rows whose state goes to message_states.
StoredLater(page) == Updated(page) \cup Unknown(page)  \* mutation: not those just seen
Stored(page) == Fresh(page) \cup Updated(page) \cup Unknown(page)

\* What the two polls store, trimmed.
Remember(page, reads) ==
    /\ grouped' = [r \in Rows |-> IF r \in Changes(page) THEN now ELSE Kept(grouped[r])]
    /\ seen' = [r \in Rows |-> IF r \in Fresh(page) THEN now ELSE Kept(seen[r])]
    /\ cached' = [r \in Rows |->
           IF r \in Stored(page) THEN [ver |-> row[r].ver, flag |-> row[r].flag, at |-> now]
           ELSE IF Kept(cached[r].at) = 0 THEN NotCached ELSE cached[r]]
    /\ chatCached' = [c \in Chats |->
           IF c \in reads THEN [ts |-> readAt[c], at |-> now]
           ELSE IF Kept(chatCached[c].at) = 0 THEN [ts |-> 0, at |-> 0] ELSE chatCached[c]]

----------------------------------------------------------------------------
\* IMessageListener::start

\* What a query yields: a failed one, nothing.
RowsFrom(ok, after)  == IF ok THEN Pages(after) ELSE {{}}
ReadsFrom(ok, after) == IF ok THEN NewReads(after) ELSE {}
MayFail(ok) == ok \/ now - lastGood <= MaxOutage

\* The first poll fills the caches, and its events are dropped.
Seed(okRows, okReads) ==
    /\ ~started
    /\ started' = TRUE
    /\ MayFail(okRows /\ okReads)
    /\ \E page \in RowsFrom(okRows, lastCheck - SeedBack) :
          LET reads == ReadsFrom(okReads, lastCheck - SeedBack) IN
          /\ Remember(page, reads)
          /\ touched' = touched \ (page \cup reads)
          /\ owed' = owed \ page
          /\ lastNew' = [r \in Rows |-> IF r \in Fresh(page) THEN now ELSE lastNew[r]]
          /\ lapsed' = ~(okRows /\ okReads /\ Matched(lastCheck - SeedBack) = page)
    /\ old' = {r \in Rows : row[r] # Absent}
    /\ UNCHANGED <<now, dbVars, lastCheck, batch, feed, lastGood, lost>>

AfterLast == Least(Greatest(lastCheck, now - MaxBack), now)  \* mutation: no lookback
After == Least(Greatest(lastCheck - Lookback, now - MaxBack), now)
DayLate == now - lastCheck > MaxBack - Lookback

\* One turn of the loop, once the events of the last one are sent.  A failed
\* query only yields no event: the turn counts all the same.
Poll(okRows, okReads) ==
    /\ started
    /\ batch = {}
    /\ MayFail(okRows /\ okReads)
    /\ \E page \in RowsFrom(okRows, After) :
          LET reads == ReadsFrom(okReads, After) IN
          /\ batch' = RowEvents(page) \cup ReadEvents(reads)
          /\ Remember(page, reads)
          /\ touched' = touched \ (page \cup reads)
          /\ owed' = owed \ page
          /\ lastNew' = [r \in Rows |-> IF r \in Fresh(page) THEN now ELSE lastNew[r]]
          /\ lapsed' = (lapsed \/ (okRows /\ page # Matched(After)) \/ DayLate)
    /\ lastCheck' = now
    /\ lastGood' = IF okRows /\ okReads THEN now ELSE lastGood
    /\ UNCHANGED <<now, dbVars, started, feed, fates>>

\* Group changes come first, then the other rows, then the chats.
Before(e, f) ==
    \/ e.type = "group" /\ f.type # "group"
    \/ e.type # "chat" /\ f.type = "chat"

\* Mutation: the channel has no limit.
EmitUnbounded(e) ==
    /\ e \in batch
    /\ batch' = batch \ {e}
    /\ feed' = Append(feed, e)
    /\ UNCHANGED <<now, dbVars, stateVars, started, lastCheck, history, fates>>

\* A full channel forgets its oldest event.
Emit(e) ==
    /\ e \in batch
    /\ \A f \in batch : ~Before(f, e)
    /\ batch' = batch \ {e}
    /\ feed' = Append(IF Len(feed) = ChanCap THEN Tail(feed) ELSE feed, e)
    /\ lost' = IF Len(feed) = ChanCap THEN lost \cup {<<Head(feed).type, Head(feed).id>>} ELSE lost
    /\ UNCHANGED <<now, dbVars, stateVars, started, lastCheck, history, old>>

WorldStep ==
    \/ Tick
    \/ \E r \in Rows : Insert(r) \/ Change(r) \/ Flag(r)
    \/ \E c \in Chats : ReadChat(c)

ListenerStep ==
    \/ \E okRows, okReads \in BOOLEAN : Seed(okRows, okReads) \/ Poll(okRows, okReads)
    \/ \E e \in batch : Emit(e)

----------------------------------------------------------------------------
\* Properties

\* A change no poll has read is still in the window of the next one: lastCheck
\* moves on even when the queries fail, and nothing but the window brings the
\* row back (listener.rs:143).
InReach == started /\ ~lapsed /\ ~DayLate => \A r \in owed : row[r].mod >= After

\* The branch that only caches the state of a seen row (pollers.rs:218) never
\* swallows a change: a row whose guid is in seen_guids has a state in
\* message_states, as young or younger, so that its change is an event.
NoSwallow == \A r \in Rows : seen[r] # 0 => cached[r].at >= seen[r]

\* An event about a text row or a chat tells of something written since the last
\* poll that read it, or of a guid that seen_guids has forgotten: the overlap of
\* the windows announces nothing twice within the hour, and the seeding hides
\* what was there (listener.rs:68).
Forgotten(e) == e.type = "new" /\ lastNew[e.id] # 0 /\ now - lastNew[e.id] >= Ttl
NoRepeat ==
    [][\A e \in batch' \ batch :
          e.id \in Texts \cup Chats => lapsed \/ e.id \in touched \/ Forgotten(e)]_watchVars
=============================================================================
