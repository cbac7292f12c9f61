------------------------ MODULE EventPipelineProofs ------------------------
(***************************************************************************)
(* What the watcher and the webhooks promise, for any rows, chats, targets *)
(* and bounds within the assumptions.                                      *)
(*                                                                         *)
(* The window (ReachInv): a change no poll has read is not older than the  *)
(* last good poll by more than MaxLag, failing polls do not carry          *)
(* lastCheck further than MaxOutage beyond it, and the lookback covers     *)
(* both.  The caches (CacheInv): what nothing has touched since it was     *)
(* read is in them as it is in chat.db, or left them after their Ttl, and  *)
(* then the window.  The keys (KeyInv): the entry of a key is as old as    *)
(* its last POST, and an entry stands for a POST to every target of its    *)
(* type (SentInv).  The rows (LostInv): what the caches hide, or no poll   *)
(* owes, was reported: it is on its way, posted, or the full channel       *)
(* forgot it.                                                              *)
(***************************************************************************)
EXTENDS EventPipeline, TLAPS

USE DEF Rows, StartTime, MaxTime

-----------------------------------------------------------------------------
(* Types.                                                                  *)

LEMMA Sizes ==
  /\ Lookback \in Nat /\ SeedBack \in Nat /\ MaxBack \in Nat /\ Ttl \in Nat
  /\ Lookback < SeedBack /\ SeedBack < Ttl /\ Ttl < MaxBack
  /\ Limit \in Nat /\ Limit > 0 /\ ChanCap \in Nat /\ ChanCap > 0
  /\ MaxChanges \in Nat /\ MaxTicks \in Nat
  /\ MaxLag \in Nat /\ MaxOutage \in Nat /\ MaxLag + MaxOutage <= Lookback
BY TimesAssumption, BoundsAssumption, ReachAssumption

LEMMA WatcherTyping == WatcherInit => WatcherTypeOK
<1> SUFFICES ASSUME WatcherInit PROVE WatcherTypeOK
  OBVIOUS
<1>1. now \in 1 .. MaxTime /\ lastCheck \in 1 .. now /\ lastGood \in 1 .. now
  BY Sizes DEF WatcherInit
<1>2. row \in [Rows -> Row]
  <2>1. Absent \in Row
    BY Sizes DEF Absent, Row
  <2>2. \A d \in 1 .. now : [mod |-> d, ver |-> 0, flag |-> FALSE] \in Row
    BY Sizes, <1>1 DEF Row
  <2>3. {Absent} \cup {[mod |-> d, ver |-> 0, flag |-> FALSE] : d \in 1 .. now} \subseteq Row
    BY <2>1, <2>2
  <2> QED BY <2>3 DEF WatcherInit
<1>3. readAt \in [Chats -> 0 .. MaxTime]
  BY Sizes DEF WatcherInit
<1>4. /\ seen \in [Rows -> 0 .. MaxTime] /\ grouped \in [Rows -> 0 .. MaxTime]
      /\ cached \in [Rows -> Cached] /\ chatCached \in [Chats -> [ts : 0 .. MaxTime, at : 0 .. MaxTime]]
  BY Sizes DEF WatcherInit, NotCached, Cached
<1>5. feed \in Seq(Event) /\ Len(feed) <= ChanCap
  BY Sizes DEF WatcherInit
<1>6. lastNew \in [Rows -> 0 .. now] /\ owed \subseteq Rows /\ touched \subseteq Rows \cup Chats
  BY Sizes, <1>1 DEF WatcherInit
<1>7. batch = {} /\ started \in BOOLEAN /\ lapsed \in BOOLEAN /\ old = {} /\ lost = {}
  BY DEF WatcherInit
<1> QED BY <1>1, <1>2, <1>3, <1>4, <1>5, <1>6, <1>7 DEF WatcherTypeOK

LEMMA DatesType ==
  ASSUME WatcherTypeOK
  PROVE  \A d \in RecentDates : d \in 1 .. now /\ d >= now - MaxLag
BY Sizes DEF WatcherTypeOK, RecentDates, Greatest

LEMMA ReadChatType == ASSUME WatcherTypeOK, NEW c \in Chats, ReadChat(c) PROVE WatcherTypeOK'
<1>1. readAt' \in [Chats -> 0 .. MaxTime] /\ touched' \subseteq Rows \cup Chats
  BY DEF WatcherTypeOK, ReadChat, Note
<1>2. UNCHANGED <<now, row, stateVars, started, lastCheck, batch, feed, owed, lastGood, lastNew, lapsed,
                  old, lost>>
  BY DEF ReadChat, Note, fates
<1> QED BY <1>1, <1>2 DEF WatcherTypeOK, stateVars

LEMMA WorldType == ASSUME WatcherTypeOK, WorldStep PROVE WatcherTypeOK'
<1>1. CASE Tick
  <2>1. now' = now + 1 /\ now < MaxTime
    BY <1>1 DEF Tick
  <2>2. UNCHANGED <<dbVars, stateVars, started, lastCheck, batch, feed, history, fates>>
    BY <1>1 DEF Tick
  <2>3. now' \in 1 .. MaxTime /\ lastCheck' \in 1 .. now' /\ lastGood' \in 1 .. now'
    BY Sizes, <2>1, <2>2 DEF WatcherTypeOK, history
  <2>4. lastNew' \in [Rows -> 0 .. now']
    BY Sizes, <2>1, <2>2 DEF WatcherTypeOK, history
  <2> QED BY <2>2, <2>3, <2>4 DEF WatcherTypeOK, dbVars, stateVars, history, fates
<1>2. ASSUME NEW r \in Rows, Insert(r) \/ Change(r) \/ Flag(r) PROVE WatcherTypeOK'
  <2>1. row' \in [Rows -> Row]
    <3>1. row[r] \in Row
      BY DEF WatcherTypeOK
    <3>2. CASE Insert(r)
      <4>1. PICK d \in RecentDates : row' = [row EXCEPT ![r].mod = d]
        BY <3>2 DEF Insert
      <4>2. d \in 0 .. MaxTime
        BY DatesType, Sizes DEF WatcherTypeOK
      <4>3. [row[r] EXCEPT !.mod = d] \in Row
        BY <3>1, <4>2 DEF Row
      <4> QED BY <4>1, <4>3 DEF WatcherTypeOK
    <3>3. CASE Change(r)
      <4>1. PICK d \in RecentDates : row' = [row EXCEPT ![r].ver = @ + 1, ![r].mod = Greatest(@, d)]
        BY <3>3 DEF Change
      <4>2. row' = [row EXCEPT ![r] = [row[r] EXCEPT !.ver = @ + 1, !.mod = Greatest(@, d)]]
        BY <4>1, <3>1 DEF WatcherTypeOK, Row
      <4>3. [row[r] EXCEPT !.ver = @ + 1, !.mod = Greatest(@, d)] \in Row
        <5>1. row[r].ver < MaxChanges
          BY <3>3 DEF Change
        <5>2. d \in 0 .. MaxTime /\ row[r].ver + 1 \in 0 .. MaxChanges
          <6>1. d \in 1 .. now /\ now \in 1 .. MaxTime
            BY DatesType DEF WatcherTypeOK
          <6>2. row[r].ver \in 0 .. MaxChanges
            BY <3>1 DEF Row
          <6> QED BY <5>1, <6>1, <6>2, Sizes
        <5>3. Greatest(row[r].mod, d) \in 0 .. MaxTime
          BY <3>1, <5>2, Sizes DEF Row, Greatest
        <5> QED BY <3>1, <5>2, <5>3 DEF Row
      <4> QED BY <4>2, <4>3 DEF WatcherTypeOK
    <3>4. CASE Flag(r)
      BY <3>1, <3>4 DEF Flag, WatcherTypeOK, Row
    <3> QED BY <1>2, <3>2, <3>3, <3>4
  <2>2. UNCHANGED <<now, readAt, stateVars, started, lastCheck, batch, feed, lastGood, lastNew, lapsed,
                    old, lost>>
    BY <1>2 DEF Insert, Change, Flag, Note, fates
  <2>3. owed' \subseteq Rows /\ touched' \subseteq Rows \cup Chats
    BY <1>2 DEF Insert, Change, Flag, Note, WatcherTypeOK
  <2> QED BY <2>1, <2>2, <2>3 DEF WatcherTypeOK, stateVars
<1> QED BY <1>1, <1>2, ReadChatType DEF WorldStep

\* What a poll stores has its type.
LEMMA RememberType ==
  ASSUME WatcherTypeOK, NEW page \in SUBSET Rows, NEW reads \in SUBSET Chats, Remember(page, reads)
  PROVE  /\ seen' \in [Rows -> 0 .. MaxTime] /\ grouped' \in [Rows -> 0 .. MaxTime]
         /\ cached' \in [Rows -> Cached]
         /\ chatCached' \in [Chats -> [ts : 0 .. MaxTime, at : 0 .. MaxTime]]
<1>1. now \in 0 .. MaxTime
  BY Sizes DEF WatcherTypeOK
<1>2. \A n \in 0 .. MaxTime : Kept(n) \in 0 .. MaxTime
  BY Sizes, <1>1 DEF Kept
<1>3. seen' \in [Rows -> 0 .. MaxTime] /\ grouped' \in [Rows -> 0 .. MaxTime]
  BY <1>1, <1>2 DEF Remember, WatcherTypeOK
<1>4. cached' \in [Rows -> Cached]
  <2>1. NotCached \in Cached
    BY Sizes DEF NotCached, Cached
  <2>2. \A r \in Rows : [ver |-> row[r].ver, flag |-> row[r].flag, at |-> now] \in Cached
    BY <1>1 DEF Cached, WatcherTypeOK, Row
  <2> QED BY <2>1, <2>2 DEF Remember, WatcherTypeOK
<1>5. chatCached' \in [Chats -> [ts : 0 .. MaxTime, at : 0 .. MaxTime]]
  <2>1. \A c \in Chats : [ts |-> readAt[c], at |-> now] \in [ts : 0 .. MaxTime, at : 0 .. MaxTime]
    BY <1>1 DEF WatcherTypeOK
  <2>2. [ts |-> 0, at |-> 0] \in [ts : 0 .. MaxTime, at : 0 .. MaxTime]
    BY Sizes
  <2> QED BY <2>1, <2>2 DEF Remember, WatcherTypeOK
<1> QED BY <1>3, <1>4, <1>5

\* What a poll is: a page and the reads, from queries that may have failed.
LEMMA SeedParts ==
  ASSUME NEW okRows \in BOOLEAN, NEW okReads \in BOOLEAN, Seed(okRows, okReads)
  PROVE  \E page \in SUBSET Rows, reads \in SUBSET Chats :
            /\ ~started /\ started' = TRUE /\ MayFail(okRows /\ okReads)
            /\ page \subseteq Matched(lastCheck - SeedBack)
            /\ reads \subseteq NewReads(lastCheck - SeedBack)
            /\ okReads => reads = NewReads(lastCheck - SeedBack)
            /\ Remember(page, reads)
            /\ touched' = touched \ (page \cup reads) /\ owed' = owed \ page
            /\ lastNew' = [r \in Rows |-> IF r \in Fresh(page) THEN now ELSE lastNew[r]]
            /\ lapsed' = ~(okRows /\ okReads /\ Matched(lastCheck - SeedBack) = page)
            /\ old' = {r \in Rows : row[r] # Absent}
            /\ UNCHANGED <<now, dbVars, lastCheck, batch, feed, lastGood, lost>>
<1> DEFINE after == lastCheck - SeedBack
           reads == ReadsFrom(okReads, after)
<1>1. PICK page \in RowsFrom(okRows, after) :
         /\ Remember(page, reads)
         /\ touched' = touched \ (page \cup reads) /\ owed' = owed \ page
         /\ lastNew' = [r \in Rows |-> IF r \in Fresh(page) THEN now ELSE lastNew[r]]
         /\ lapsed' = ~(okRows /\ okReads /\ Matched(after) = page)
  BY DEF Seed
<1>2. page \subseteq Matched(after) /\ page \subseteq Rows
  BY DEF RowsFrom, Pages, Matched
<1>3. reads \subseteq NewReads(after) /\ reads \subseteq Chats /\ (okReads => reads = NewReads(after))
  BY DEF ReadsFrom, NewReads
<1>4. /\ ~started /\ started' = TRUE /\ MayFail(okRows /\ okReads)
      /\ old' = {r \in Rows : row[r] # Absent}
      /\ UNCHANGED <<now, dbVars, lastCheck, batch, feed, lastGood, lost>>
  BY DEF Seed
<1> QED BY <1>1, <1>2, <1>3, <1>4

LEMMA PollParts ==
  ASSUME NEW okRows \in BOOLEAN, NEW okReads \in BOOLEAN, Poll(okRows, okReads)
  PROVE  \E page \in SUBSET Rows, reads \in SUBSET Chats :
            /\ started /\ batch = {} /\ MayFail(okRows /\ okReads)
            /\ page \subseteq Matched(After)
            /\ reads \subseteq NewReads(After)
            /\ okReads => reads = NewReads(After)
            /\ batch' = RowEvents(page) \cup ReadEvents(reads)
            /\ Remember(page, reads)
            /\ touched' = touched \ (page \cup reads) /\ owed' = owed \ page
            /\ lastNew' = [r \in Rows |-> IF r \in Fresh(page) THEN now ELSE lastNew[r]]
            /\ lapsed' = (lapsed \/ (okRows /\ page # Matched(After)) \/ DayLate)
            /\ lastCheck' = now
            /\ lastGood' = IF okRows /\ okReads THEN now ELSE lastGood
            /\ UNCHANGED <<now, dbVars, started, feed, fates>>
<1> DEFINE reads == ReadsFrom(okReads, After)
<1>1. PICK page \in RowsFrom(okRows, After) :
         /\ batch' = RowEvents(page) \cup ReadEvents(reads)
         /\ Remember(page, reads)
         /\ touched' = touched \ (page \cup reads) /\ owed' = owed \ page
         /\ lastNew' = [r \in Rows |-> IF r \in Fresh(page) THEN now ELSE lastNew[r]]
         /\ lapsed' = (lapsed \/ (okRows /\ page # Matched(After)) \/ DayLate)
  BY DEF Poll
<1>2. page \subseteq Matched(After) /\ page \subseteq Rows
  BY DEF RowsFrom, Pages, Matched
<1>3. reads \subseteq NewReads(After) /\ reads \subseteq Chats /\ (okReads => reads = NewReads(After))
  BY DEF ReadsFrom, NewReads
<1>4. /\ started /\ batch = {} /\ MayFail(okRows /\ okReads)
      /\ lastCheck' = now
      /\ lastGood' = IF okRows /\ okReads THEN now ELSE lastGood
      /\ UNCHANGED <<now, dbVars, started, feed, fates>>
  BY DEF Poll
<1> QED BY <1>1, <1>2, <1>3, <1>4

LEMMA EventsType ==
  ASSUME WatcherTypeOK, NEW page \in SUBSET Rows, NEW reads \in SUBSET Chats
  PROVE  RowEvents(page) \cup ReadEvents(reads) \subseteq Event
<1>1. \A r \in Rows, t \in {"new", "updated", "group"} :
         [type |-> t, id |-> r, ver |-> row[r].ver, flag |-> row[r].flag] \in Event
  BY DEF WatcherTypeOK, Row, Event
<1>2. Changes(page) \subseteq Rows /\ Fresh(page) \subseteq Rows /\ Updated(page) \subseteq Rows
  BY DEF Changes, Fresh, Updated
<1>3. RowEvents(page) \subseteq Event
  BY <1>1, <1>2 DEF RowEvents
<1>4. ReadEvents(reads) \subseteq Event
  BY DEF ReadEvents, Event
<1> QED BY <1>3, <1>4

LEMMA EventKey ==
  \A e \in Event : /\ e.type \in {"new", "updated", "group", "chat"} /\ e.id \in Rows \cup Chats
                   /\ <<e.type, e.id>> \in {"new", "updated", "group", "chat"} \X (Rows \cup Chats)
BY DEF Event

LEMMA ListenerType == ASSUME WatcherTypeOK, ListenerStep PROVE WatcherTypeOK'
<1>1. ASSUME NEW okRows \in BOOLEAN, NEW okReads \in BOOLEAN, Seed(okRows, okReads) PROVE WatcherTypeOK'
  <2>1. PICK page \in SUBSET Rows, reads \in SUBSET Chats :
           /\ started' = TRUE
           /\ Remember(page, reads)
           /\ touched' = touched \ (page \cup reads) /\ owed' = owed \ page
           /\ lastNew' = [r \in Rows |-> IF r \in Fresh(page) THEN now ELSE lastNew[r]]
           /\ lapsed' \in BOOLEAN /\ old' \subseteq Rows
           /\ UNCHANGED <<now, dbVars, lastCheck, batch, feed, lastGood, lost>>
    BY <1>1, SeedParts
  <2>2. lastNew' \in [Rows -> 0 .. now]
    BY <2>1 DEF WatcherTypeOK
  <2> QED BY <2>1, <2>2, RememberType DEF WatcherTypeOK, dbVars
<1>2. ASSUME NEW okRows \in BOOLEAN, NEW okReads \in BOOLEAN, Poll(okRows, okReads) PROVE WatcherTypeOK'
  <2>1. PICK page \in SUBSET Rows, reads \in SUBSET Chats :
           /\ batch' = RowEvents(page) \cup ReadEvents(reads)
           /\ Remember(page, reads)
           /\ touched' = touched \ (page \cup reads) /\ owed' = owed \ page
           /\ lastNew' = [r \in Rows |-> IF r \in Fresh(page) THEN now ELSE lastNew[r]]
           /\ lapsed' \in BOOLEAN
           /\ lastCheck' = now /\ lastGood' \in {now, lastGood}
           /\ UNCHANGED <<now, dbVars, started, feed, fates>>
    BY <1>2, PollParts DEF WatcherTypeOK, DayLate
  <2>2. lastNew' \in [Rows -> 0 .. now] /\ lastCheck' \in 1 .. now /\ lastGood' \in 1 .. now
    BY <2>1 DEF WatcherTypeOK
  <2>3. batch' \subseteq Event
    BY <2>1, EventsType
  <2> QED BY <2>1, <2>2, <2>3, RememberType DEF WatcherTypeOK, dbVars, fates
<1>3. ASSUME NEW e \in batch, Emit(e) PROVE WatcherTypeOK'
  <2>1. e \in Event /\ batch' \subseteq Event
    BY <1>3 DEF Emit, WatcherTypeOK
  <2>2. feed' \in Seq(Event) /\ Len(feed') <= ChanCap
    <3>1. feed \in Seq(Event) /\ Len(feed) \in Nat /\ Len(feed) <= ChanCap
      BY DEF WatcherTypeOK
    <3>2. CASE Len(feed) = ChanCap
      <4>1. feed # << >> /\ feed' = Append(Tail(feed), e)
        BY <1>3, <3>2, Sizes DEF Emit
      <4>2. Tail(feed) \in Seq(Event) /\ Len(Tail(feed)) = Len(feed) - 1
        BY <3>1, <4>1
      <4> QED BY <2>1, <3>1, <4>1, <4>2
    <3>3. CASE Len(feed) # ChanCap
      BY <1>3, <2>1, <3>1, <3>3, Sizes DEF Emit
    <3> QED BY <3>2, <3>3
  <2>3. UNCHANGED <<now, dbVars, stateVars, started, lastCheck, history, old>>
    BY <1>3 DEF Emit
  <2>4. lost' \subseteq {"new", "updated", "group", "chat"} \X (Rows \cup Chats)
    <3>1. CASE Len(feed) = ChanCap
      <4>1. feed \in Seq(Event) /\ Len(feed) > 0
        BY <3>1, Sizes DEF WatcherTypeOK
      <4>2. Head(feed) \in Event
        BY <4>1
      <4>3. lost' = lost \cup {<<Head(feed).type, Head(feed).id>>}
        BY <1>3, <3>1 DEF Emit
      <4> QED BY <4>2, <4>3, EventKey DEF WatcherTypeOK
    <3>2. CASE Len(feed) # ChanCap
      BY <1>3, <3>2 DEF Emit, WatcherTypeOK
    <3> QED BY <3>1, <3>2
  <2> QED BY <2>1, <2>2, <2>3, <2>4 DEF WatcherTypeOK, dbVars, stateVars, history
<1> QED BY <1>1, <1>2, <1>3 DEF ListenerStep

-----------------------------------------------------------------------------
(* The window.                                                             *)

ReachInv ==
    /\ ~started => lastCheck = lastGood /\ ~lapsed
    /\ lastCheck - lastGood <= MaxOutage /\ lastGood <= lastCheck
    /\ ~lapsed => \A r \in owed : row[r] # Absent /\ row[r].mod >= lastGood - MaxLag

LEMMA InWindow ==
  ASSUME WatcherTypeOK, ReachInv, ~lapsed, ~DayLate, NEW r \in owed
  PROVE  row[r] # Absent /\ row[r].mod >= After
<1>1. /\ now \in Int /\ lastCheck \in Int /\ lastGood \in Int /\ lastCheck <= now
      /\ row[r].mod \in Int
  BY DEF WatcherTypeOK, Row
<1>2. After = lastCheck - Lookback
  BY Sizes, <1>1 DEF After, DayLate, Least, Greatest
<1> QED BY Sizes, <1>1, <1>2 DEF ReachInv

LEMMA InWindowSeed ==
  ASSUME WatcherTypeOK, ReachInv, ~started, NEW r \in owed
  PROVE  r \in Matched(lastCheck - SeedBack)
<1>1. lastCheck \in Int /\ lastGood \in Int /\ row[r].mod \in Int /\ r \in Rows
  BY DEF WatcherTypeOK, Row
<1>2. row[r] # Absent /\ row[r].mod >= lastGood - MaxLag /\ lastCheck = lastGood
  BY DEF ReachInv
<1> QED BY Sizes, <1>1, <1>2 DEF Matched

LEMMA ReachInit == WatcherInit => ReachInv
BY Sizes DEF WatcherInit, ReachInv

LEMMA ReachWorld == ASSUME WatcherTypeOK, ReachInv, WorldStep PROVE ReachInv'
<1>1. CASE Tick
  BY <1>1 DEF Tick, ReachInv, dbVars, history
<1>2. ASSUME NEW c \in Chats, ReadChat(c) PROVE ReachInv'
  BY <1>2 DEF ReadChat, Note, ReachInv
<1>3. ASSUME NEW r \in Rows, Insert(r) \/ Change(r) \/ Flag(r) PROVE ReachInv'
  <2>1. UNCHANGED <<started, lastCheck, lastGood, lapsed>>
    BY <1>3 DEF Insert, Change, Flag, Note
  <2>2. row[r] \in Row /\ row \in [Rows -> Row] /\ now >= lastGood /\ now \in Int /\ lastGood \in Int
    BY DEF WatcherTypeOK
  <2>3. \A q \in Rows \ {r} : row'[q] = row[q]
    BY <1>3, <2>2 DEF Insert, Change, Flag
  <2>4. CASE Insert(r)
    <3>1. PICK d \in RecentDates : row' = [row EXCEPT ![r].mod = d]
      BY <2>4 DEF Insert
    <3>2. row'[r].mod = d /\ d \in 1 .. now /\ d >= now - MaxLag
      BY <2>2, <3>1, DatesType DEF Row
    <3>3. row'[r] # Absent /\ row'[r].mod >= lastGood - MaxLag
      BY <2>2, <3>2, Sizes DEF Absent
    <3>4. owed' = owed \cup {r}
      BY <2>4 DEF Insert
    <3> QED BY <2>1, <2>3, <3>3, <3>4 DEF ReachInv, WatcherTypeOK
  <2>5. CASE Change(r)
    <3>1. PICK d \in RecentDates : row' = [row EXCEPT ![r].ver = @ + 1, ![r].mod = Greatest(@, d)]
      BY <2>5 DEF Change
    <3>2. row'[r].mod = Greatest(row[r].mod, d) /\ d \in 1 .. now /\ d >= now - MaxLag
      BY <2>2, <3>1, DatesType DEF Row
    <3>3. row'[r] # Absent /\ row'[r].mod >= lastGood - MaxLag
      BY <2>2, <3>2, Sizes DEF Absent, Greatest, Row
    <3>4. owed' = owed \cup {r}
      BY <2>5 DEF Change
    <3> QED BY <2>1, <2>3, <3>3, <3>4 DEF ReachInv, WatcherTypeOK
  <2>6. CASE Flag(r)
    <3>1. row[r] # Absent /\ row' = [row EXCEPT ![r].flag = TRUE] /\ owed' = owed
      BY <2>6 DEF Flag
    <3>2. row'[r].mod = row[r].mod /\ row'[r] # Absent
      BY <2>2, <3>1 DEF Row, Absent
    <3> QED BY <2>1, <2>3, <3>1, <3>2 DEF ReachInv, WatcherTypeOK
  <2> QED BY <1>3, <2>4, <2>5, <2>6
<1> QED BY <1>1, <1>2, <1>3 DEF WorldStep

LEMMA ReachListener == ASSUME WatcherTypeOK, ReachInv, ListenerStep PROVE ReachInv'
<1>0. /\ now \in Int /\ lastCheck \in Int /\ lastGood \in Int /\ lastCheck <= now /\ lastGood <= now
      /\ owed \subseteq Rows
  BY DEF WatcherTypeOK
<1>1. ASSUME NEW okRows \in BOOLEAN, NEW okReads \in BOOLEAN, Seed(okRows, okReads) PROVE ReachInv'
  <2>1. PICK page \in SUBSET Rows :
           /\ ~started /\ started' = TRUE
           /\ owed' = owed \ page
           /\ lapsed' = ~(okRows /\ okReads /\ Matched(lastCheck - SeedBack) = page)
           /\ UNCHANGED <<now, row, lastCheck, lastGood>>
    BY <1>1, SeedParts DEF dbVars
  <2>2. ~lapsed' => owed' = {}
    BY <2>1, InWindowSeed
  <2> QED BY <2>1, <2>2 DEF ReachInv
<1>2. ASSUME NEW okRows \in BOOLEAN, NEW okReads \in BOOLEAN, Poll(okRows, okReads) PROVE ReachInv'
  <2>1. PICK page \in SUBSET Rows :
           /\ started /\ MayFail(okRows /\ okReads)
           /\ owed' = owed \ page
           /\ lapsed' = (lapsed \/ (okRows /\ page # Matched(After)) \/ DayLate)
           /\ lastCheck' = now
           /\ lastGood' = IF okRows /\ okReads THEN now ELSE lastGood
           /\ UNCHANGED <<now, row, started>>
    BY <1>2, PollParts DEF dbVars
  <2>2. CASE okRows /\ okReads
    <3>1. ~lapsed' => owed' = {}
      <4> SUFFICES ASSUME ~lapsed', NEW r \in owed' PROVE FALSE
        OBVIOUS
      <4>1. ~lapsed /\ ~DayLate /\ page = Matched(After) /\ r \in owed /\ r \notin page
        BY <2>1, <2>2
      <4>2. row[r] # Absent /\ row[r].mod >= After
        BY <4>1, InWindow
      <4> QED BY <1>0, <4>1, <4>2 DEF Matched
    <3> QED BY <1>0, <2>1, <2>2, <3>1, Sizes DEF ReachInv
  <2>3. CASE ~(okRows /\ okReads)
    <3>1. now - lastGood <= MaxOutage
      BY <2>1, <2>3 DEF MayFail
    <3> QED BY <1>0, <2>1, <2>3, <3>1 DEF ReachInv
  <2> QED BY <2>2, <2>3
<1>3. ASSUME NEW e \in batch, Emit(e) PROVE ReachInv'
  BY <1>3 DEF Emit, dbVars, history, ReachInv
<1> QED BY <1>1, <1>2, <1>3 DEF ListenerStep

LEMMA Reached == WatcherTypeOK /\ ReachInv => InReach
<1> SUFFICES ASSUME WatcherTypeOK, ReachInv, ~lapsed, ~DayLate, NEW r \in owed PROVE row[r].mod >= After
  BY DEF InReach
<1> QED BY InWindow

-----------------------------------------------------------------------------
(* A guid is not remembered longer than the state of its row.              *)

Past == \A r \in Rows : seen[r] <= now

SwallowInv == Past /\ NoSwallow

LEMMA SwallowInit == WatcherInit => SwallowInv
BY Sizes DEF WatcherInit, SwallowInv, Past, NoSwallow

LEMMA SwallowPoll ==
  ASSUME WatcherTypeOK, SwallowInv, NEW page \in SUBSET Rows, NEW reads \in SUBSET Chats,
         Remember(page, reads), now' = now
  PROVE  SwallowInv'
<1>0. Past /\ NoSwallow
  BY DEF SwallowInv
<1> SUFFICES ASSUME NEW r \in Rows PROVE seen'[r] <= now /\ (seen'[r] # 0 => cached'[r].at >= seen'[r])
  BY DEF SwallowInv, Past, NoSwallow
<1>1. now \in Nat /\ seen[r] \in Nat /\ seen[r] <= now /\ cached[r].at \in Nat
  BY <1>0, Sizes DEF Past, WatcherTypeOK, Cached
<1>2. /\ seen'[r] = IF r \in Fresh(page) THEN now ELSE Kept(seen[r])
      /\ cached'[r] = IF r \in Stored(page) THEN [ver |-> row[r].ver, flag |-> row[r].flag, at |-> now]
                      ELSE IF Kept(cached[r].at) = 0 THEN NotCached ELSE cached[r]
  BY DEF Remember
<1>3. CASE r \in Fresh(page)
  <2>1. r \in Stored(page)
    BY <1>3 DEF Stored
  <2> QED BY <1>1, <1>2, <1>3, <2>1
<1>4. CASE r \notin Fresh(page) /\ seen'[r] = 0
  BY <1>1, <1>4
<1>5. CASE r \notin Fresh(page) /\ seen'[r] # 0
  <2>1. seen'[r] = seen[r] /\ now - seen[r] < Ttl /\ seen[r] # 0
    BY <1>2, <1>5 DEF Kept
  <2>2. cached[r].at >= seen[r]
    BY <1>0, <2>1 DEF NoSwallow
  <2>3. Kept(cached[r].at) # 0
    BY <1>1, <2>1, <2>2, Sizes DEF Kept
  <2>4. CASE r \in Stored(page)
    BY <1>1, <1>2, <2>1, <2>4
  <2>5. CASE r \notin Stored(page)
    BY <1>1, <1>2, <2>1, <2>2, <2>3, <2>5
  <2> QED BY <2>4, <2>5
<1> QED BY <1>3, <1>4, <1>5

LEMMA SwallowStep == ASSUME WatcherTypeOK, SwallowInv, WorldStep \/ ListenerStep PROVE SwallowInv'
<1>1. CASE WorldStep
  <2>1. UNCHANGED stateVars /\ now' \in {now, now + 1}
    BY <1>1 DEF WorldStep, Tick, Insert, Change, Flag, ReadChat
  <2> QED BY <2>1 DEF stateVars, SwallowInv, Past, NoSwallow, WatcherTypeOK
<1>2. CASE ListenerStep
  <2>1. ASSUME NEW okRows \in BOOLEAN, NEW okReads \in BOOLEAN, Seed(okRows, okReads) PROVE SwallowInv'
    <3>1. PICK page \in SUBSET Rows, reads \in SUBSET Chats : Remember(page, reads) /\ now' = now
      BY <2>1, SeedParts
    <3> QED BY <3>1, SwallowPoll
  <2>2. ASSUME NEW okRows \in BOOLEAN, NEW okReads \in BOOLEAN, Poll(okRows, okReads) PROVE SwallowInv'
    <3>1. PICK page \in SUBSET Rows, reads \in SUBSET Chats : Remember(page, reads) /\ now' = now
      BY <2>2, PollParts
    <3> QED BY <3>1, SwallowPoll
  <2>3. ASSUME NEW e \in batch, Emit(e) PROVE SwallowInv'
    BY <2>3 DEF Emit, stateVars, SwallowInv, Past, NoSwallow
  <2> QED BY <1>2, <2>1, <2>2, <2>3 DEF ListenerStep
<1> QED BY <1>1, <1>2

-----------------------------------------------------------------------------
(* What was read and not touched since.                                    *)

\* The rows: when a guid was new; what is cached; and what a window ever showed.
RowInv(r) ==
    /\ seen[r] # 0 => lastNew[r] = seen[r]
    /\ seen[r] = 0 => lastNew[r] = 0 \/ now - lastNew[r] >= Ttl
    /\ r \notin touched /\ cached[r].at # 0 => cached[r].ver = row[r].ver /\ cached[r].flag = row[r].flag
    /\ started /\ ~lapsed /\ r \notin touched /\ row[r] # Absent /\ row[r].mod >= StartTime - SeedBack =>
          lastNew[r] # 0

\* The chats: what is cached; and what is not, because it has left the window.
ChatInv(c) ==
    /\ readAt[c] <= now
    /\ chatCached[c].at # 0 => chatCached[c].ts <= chatCached[c].at
    /\ c \notin touched /\ chatCached[c].at # 0 => chatCached[c].ts = readAt[c]
    /\ started /\ ~lapsed /\ c \notin touched /\ chatCached[c].at = 0 /\ readAt[c] # 0 =>
          readAt[c] < lastCheck - Lookback

CacheInv ==
    /\ ~started => /\ lastCheck = StartTime
                   /\ \A r \in Rows : seen[r] = 0 /\ cached[r].at = 0
                   /\ \A c \in Chats : chatCached[c].at = 0
    /\ lastCheck >= StartTime
    /\ \A r \in Texts : RowInv(r)
    /\ \A c \in Chats : ChatInv(c)

LEMMA CacheInit == WatcherInit => CacheInv
<1> SUFFICES ASSUME WatcherInit PROVE CacheInv
  OBVIOUS
<1>1. \A r \in Texts : RowInv(r)
  BY Sizes DEF WatcherInit, RowInv, NotCached
<1>2. \A c \in Chats : ChatInv(c)
  <2> TAKE c \in Chats
  <2>1. readAt[c] \in 0 .. now
    BY DEF WatcherInit
  <2> QED BY Sizes, <2>1 DEF WatcherInit, ChatInv
<1> QED BY Sizes, <1>1, <1>2 DEF WatcherInit, CacheInv, NotCached

LEMMA CacheWorld == ASSUME WatcherTypeOK, CacheInv, WorldStep PROVE CacheInv'
<1>0. /\ now \in Int /\ \A r \in Rows : row[r] \in Row /\ lastNew[r] \in Int
      /\ row \in [Rows -> Row] /\ readAt \in [Chats -> 0 .. MaxTime]
  BY DEF WatcherTypeOK
<1>1. CASE Tick
  <2>1. now' = now + 1 /\ UNCHANGED <<row, readAt, stateVars, started, lastCheck, lastNew, touched, lapsed>>
    BY <1>1 DEF Tick, dbVars, history
  <2>2. \A r \in Texts : RowInv(r)'
    <3> TAKE r \in Texts
    <3>1. RowInv(r)
      BY DEF CacheInv
    <3> QED BY <1>0, <2>1, <3>1, Sizes DEF RowInv, stateVars
  <2>3. \A c \in Chats : ChatInv(c)'
    <3> TAKE c \in Chats
    <3>1. ChatInv(c) /\ readAt[c] \in Int
      BY <1>0 DEF CacheInv
    <3> QED BY <1>0, <2>1, <3>1 DEF ChatInv, stateVars
  <2> QED BY <2>1, <2>2, <2>3 DEF CacheInv, stateVars
<1>2. ASSUME NEW c \in Chats, ReadChat(c) PROVE CacheInv'
  <2>1. /\ readAt' = [readAt EXCEPT ![c] = now] /\ touched' = touched \cup {c}
        /\ UNCHANGED <<now, row, stateVars, started, lastCheck, lastNew, lapsed>>
    BY <1>2 DEF ReadChat, Note
  <2>2. \A r \in Texts : RowInv(r)'
    BY <2>1 DEF CacheInv, RowInv, stateVars
  <2>3. \A d \in Chats : ChatInv(d)'
    <3> TAKE d \in Chats
    <3>1. ChatInv(d)
      BY DEF CacheInv
    <3>2. CASE d = c
      BY <1>0, <2>1, <3>1, <3>2 DEF ChatInv, stateVars
    <3>3. CASE d # c
      BY <1>0, <2>1, <3>1, <3>3 DEF ChatInv, stateVars
    <3> QED BY <3>2, <3>3
  <2> QED BY <2>1, <2>2, <2>3 DEF CacheInv, stateVars
<1>3. ASSUME NEW q \in Rows, Insert(q) \/ Change(q) \/ Flag(q) PROVE CacheInv'
  <2>1. /\ touched' = touched \cup {q}
        /\ UNCHANGED <<now, readAt, stateVars, started, lastCheck, lastNew, lapsed>>
    BY <1>3 DEF Insert, Change, Flag, Note
  <2>2. \A r \in Rows \ {q} : row'[r] = row[r]
    BY <1>0, <1>3 DEF Insert, Change, Flag
  <2>3. \A r \in Texts : RowInv(r)'
    <3> TAKE r \in Texts
    <3>1. RowInv(r)
      BY DEF CacheInv
    <3>2. CASE r = q
      BY <2>1, <3>1, <3>2 DEF RowInv, stateVars
    <3>3. CASE r # q
      BY <2>1, <2>2, <3>1, <3>3 DEF RowInv, stateVars
    <3> QED BY <3>2, <3>3
  <2>4. \A c \in Chats : ChatInv(c)'
    BY <2>1 DEF CacheInv, ChatInv, stateVars
  <2> QED BY <2>1, <2>3, <2>4 DEF CacheInv, stateVars
<1> QED BY <1>1, <1>2, <1>3 DEF WorldStep

\* A text row after a poll.
LEMMA RowRead ==
  ASSUME WatcherTypeOK, NEW r \in Texts, RowInv(r),
         NEW page \in SUBSET Rows, NEW reads \in SUBSET Chats, Remember(page, reads),
         touched' = touched \ (page \cup reads),
         lastNew' = [x \in Rows |-> IF x \in Fresh(page) THEN now ELSE lastNew[x]],
         UNCHANGED <<now, row>>,
         started' /\ ~lapsed' /\ r \notin page /\ r \notin touched
            /\ row[r] # Absent /\ row[r].mod >= StartTime - SeedBack => started /\ ~lapsed
  PROVE  RowInv(r)'
<1>0. /\ now \in Int /\ now >= 1 /\ seen[r] \in Int /\ lastNew[r] \in Int /\ r \in Rows
      /\ r \notin Groups /\ r \notin Chats /\ seen[r] >= 0
  BY Sizes, RowsAssumption DEF WatcherTypeOK
<1>1. /\ seen'[r] = IF r \in Fresh(page) THEN now ELSE Kept(seen[r])
      /\ cached'[r] = IF r \in Stored(page) THEN [ver |-> row[r].ver, flag |-> row[r].flag, at |-> now]
                      ELSE IF Kept(cached[r].at) = 0 THEN NotCached ELSE cached[r]
      /\ lastNew'[r] = IF r \in Fresh(page) THEN now ELSE lastNew[r]
  BY <1>0 DEF Remember
<1>2. r \in page => (r \in Fresh(page) <=> seen[r] = 0)
  BY <1>0 DEF Fresh, Changes
<1>3. r \notin page => r \notin Fresh(page) /\ r \notin Stored(page)
  BY DEF Fresh, Stored, Updated, Unknown
<1>4. r \in page => \/ r \in Stored(page)
                    \/ cached[r].at # 0 /\ cached[r].ver = row[r].ver /\ cached[r].flag = row[r].flag
  BY <1>0 DEF Stored, Updated, Unknown, Fresh, Changes, Differs
<1>5. r \notin touched' => r \in page \/ r \notin touched
  BY <1>0
<1>6. /\ seen'[r] # 0 => lastNew'[r] = seen'[r]
      /\ seen'[r] = 0 => lastNew'[r] = 0 \/ now - lastNew'[r] >= Ttl
  BY <1>0, <1>1, Sizes DEF RowInv, Kept
<1>7. r \notin touched' /\ cached'[r].at # 0 => cached'[r].ver = row[r].ver /\ cached'[r].flag = row[r].flag
  <2> SUFFICES ASSUME r \notin touched', cached'[r].at # 0
               PROVE  cached'[r].ver = row[r].ver /\ cached'[r].flag = row[r].flag
    OBVIOUS
  <2>1. CASE r \in Stored(page)
    BY <1>1, <2>1
  <2>2. CASE r \notin Stored(page)
    <3>1. cached'[r] = cached[r]
      BY <1>1, <2>2 DEF NotCached
    <3> QED BY <1>4, <1>5, <2>2, <3>1 DEF RowInv
  <2> QED BY <2>1, <2>2
<1>8. ASSUME started', ~lapsed', r \notin touched', row[r] # Absent, row[r].mod >= StartTime - SeedBack
      PROVE  lastNew'[r] # 0
  <2>1. CASE r \in page
    BY <1>0, <1>1, <1>2, <2>1 DEF RowInv
  <2>2. CASE r \notin page
    <3>1. started /\ ~lapsed /\ r \notin touched
      BY <1>5, <1>8, <2>2
    <3> QED BY <1>0, <1>1, <1>8, <3>1 DEF RowInv
  <2> QED BY <2>1, <2>2
<1> QED BY <1>6, <1>7, <1>8 DEF RowInv

\* A chat after a poll.
LEMMA ChatRead ==
  ASSUME WatcherTypeOK, NEW c \in Chats, ChatInv(c),
         NEW page \in SUBSET Rows, NEW reads \in SUBSET Chats, Remember(page, reads),
         touched' = touched \ (page \cup reads), UNCHANGED <<now, readAt>>,
         started' /\ ~lapsed' /\ c \notin reads /\ c \notin touched /\ readAt[c] # 0 =>
            IF chatCached[c].at = 0 THEN readAt[c] < lastCheck' - Lookback ELSE lastCheck' = now
  PROVE  ChatInv(c)'
<1>0. /\ now \in Int /\ now >= 1 /\ readAt[c] \in Int /\ c \notin Rows
      /\ chatCached[c].at \in Int /\ chatCached[c].ts \in Int
  BY Sizes, RowsAssumption DEF WatcherTypeOK
<1>1. chatCached'[c] = IF c \in reads THEN [ts |-> readAt[c], at |-> now]
                       ELSE IF Kept(chatCached[c].at) = 0 THEN [ts |-> 0, at |-> 0] ELSE chatCached[c]
  BY DEF Remember
<1>2. CASE c \in reads
  BY <1>0, <1>1, <1>2 DEF ChatInv
<1>3. CASE c \notin reads
  <2>1. c \notin touched' <=> c \notin touched
    BY <1>0, <1>3
  <2>2. CASE Kept(chatCached[c].at) = 0
    <3>1. chatCached'[c].at = 0
      BY <1>1, <1>3, <2>2
    <3>2. ASSUME started', ~lapsed', c \notin touched, readAt[c] # 0 PROVE readAt[c] < lastCheck' - Lookback
      <4>1. CASE chatCached[c].at = 0
        BY <1>3, <3>2, <4>1
      <4>2. CASE chatCached[c].at # 0
        <5>1. lastCheck' = now
          BY <1>3, <3>2, <4>2
        <5>3. now - chatCached[c].at >= Ttl
          BY <1>0, <2>2, <4>2, Sizes DEF Kept
        <5>2. readAt[c] <= chatCached[c].at
          BY <3>2, <4>2 DEF ChatInv
        <5> QED BY <1>0, <5>1, <5>2, <5>3, Sizes
      <4> QED BY <4>1, <4>2
    <3> QED BY <2>1, <3>1, <3>2 DEF ChatInv
  <2>3. CASE Kept(chatCached[c].at) # 0
    BY <1>1, <1>3, <2>1, <2>3 DEF ChatInv, Kept
  <2> QED BY <2>2, <2>3
<1> QED BY <1>2, <1>3

\* What a window has to reach: the time of the last poll less the lookback.
LEMMA Window ==
  ASSUME WatcherTypeOK, CacheInv
  PROVE  After \in Int /\ After >= lastCheck - Lookback /\ After > StartTime - SeedBack
<1>1. now \in Int /\ lastCheck \in Int /\ lastCheck <= now
  BY DEF WatcherTypeOK
<1> QED BY <1>1, Sizes DEF After, Least, Greatest, CacheInv

LEMMA CacheListener == ASSUME WatcherTypeOK, CacheInv, ListenerStep PROVE CacheInv'
<1>0. now \in Int /\ lastCheck \in Int /\ lastCheck <= now /\ \A c \in Chats : readAt[c] \in Int
  BY DEF WatcherTypeOK
<1>1. ASSUME NEW okRows \in BOOLEAN, NEW okReads \in BOOLEAN, Seed(okRows, okReads) PROVE CacheInv'
  <2>1. PICK page \in SUBSET Rows, reads \in SUBSET Chats :
           /\ ~started /\ started' = TRUE
           /\ reads \subseteq NewReads(lastCheck - SeedBack)
           /\ okReads => reads = NewReads(lastCheck - SeedBack)
           /\ Remember(page, reads)
           /\ touched' = touched \ (page \cup reads)
           /\ lastNew' = [r \in Rows |-> IF r \in Fresh(page) THEN now ELSE lastNew[r]]
           /\ lapsed' = ~(okRows /\ okReads /\ Matched(lastCheck - SeedBack) = page)
           /\ UNCHANGED <<now, row, readAt, lastCheck>>
    BY <1>1, SeedParts DEF dbVars
  <2>2. /\ lastCheck = StartTime /\ \A r \in Texts : RowInv(r)
        /\ \A c \in Chats : ChatInv(c) /\ chatCached[c].at = 0
    BY <2>1 DEF CacheInv
  <2>3. ASSUME NEW r \in Texts PROVE RowInv(r)'
    <3>1. ~lapsed' /\ row[r] # Absent /\ row[r].mod >= StartTime - SeedBack => r \in page
      BY <2>1, <2>2 DEF Matched
    <3> QED BY <2>1, <2>2, <3>1, RowRead
  <2>4. ASSUME NEW c \in Chats PROVE ChatInv(c)'
    <3>1. ~lapsed' /\ c \notin reads /\ readAt[c] # 0 => readAt[c] < lastCheck - SeedBack
      <4>1. ~lapsed' => reads = NewReads(lastCheck - SeedBack)
        BY <2>1
      <4> QED BY <1>0, <2>2, <4>1, Sizes DEF NewReads
    <3>2. ~lapsed' /\ c \notin reads /\ readAt[c] # 0 => readAt[c] < lastCheck' - Lookback
      BY <1>0, <2>1, <3>1, Sizes
    <3> QED BY <2>1, <2>2, <3>2, ChatRead
  <2> QED BY <2>1, <2>2, <2>3, <2>4 DEF CacheInv
<1>2. ASSUME NEW okRows \in BOOLEAN, NEW okReads \in BOOLEAN, Poll(okRows, okReads) PROVE CacheInv'
  <2>1. PICK page \in SUBSET Rows, reads \in SUBSET Chats :
           /\ started
           /\ Remember(page, reads)
           /\ touched' = touched \ (page \cup reads)
           /\ lastNew' = [r \in Rows |-> IF r \in Fresh(page) THEN now ELSE lastNew[r]]
           /\ lapsed' = (lapsed \/ (okRows /\ page # Matched(After)) \/ DayLate)
           /\ lastCheck' = now
           /\ UNCHANGED <<now, row, readAt, started>>
    BY <1>2, PollParts DEF dbVars
  <2>2. ASSUME NEW r \in Texts PROVE RowInv(r)'
    <3>1. RowInv(r)
      BY DEF CacheInv
    <3> QED BY <2>1, <3>1, RowRead
  <2>3. ASSUME NEW c \in Chats PROVE ChatInv(c)'
    <3>1. ChatInv(c)
      BY DEF CacheInv
    <3>2. ~lapsed' /\ c \notin touched /\ readAt[c] # 0 /\ chatCached[c].at = 0 => readAt[c] < lastCheck' - Lookback
      <4>1. ~lapsed' => ~lapsed
        BY <2>1
      <4> QED BY <1>0, <2>1, <3>1, <4>1, Sizes DEF ChatInv
    <3> QED BY <2>1, <3>1, <3>2, ChatRead
  <2>4. lastCheck' >= StartTime
    BY <1>0, <2>1, Sizes DEF CacheInv
  <2> QED BY <2>1, <2>2, <2>3, <2>4 DEF CacheInv
<1>3. ASSUME NEW e \in batch, Emit(e) PROVE CacheInv'
  <2>1. UNCHANGED <<now, row, readAt, stateVars, started, lastCheck, touched, lastNew, lapsed>>
    BY <1>3 DEF Emit, dbVars, history
  <2> QED BY <2>1 DEF CacheInv, RowInv, ChatInv, stateVars
<1> QED BY <1>1, <1>2, <1>3 DEF ListenerStep

\* An event of a poll tells of something touched, or of a guid forgotten.
LEMMA PollRepeats ==
  ASSUME WatcherTypeOK, CacheInv, started, ~lapsed,
         NEW page \in SUBSET Matched(After), NEW reads \in SUBSET NewReads(After),
         NEW e \in RowEvents(page) \cup ReadEvents(reads), e.id \in Texts \cup Chats
  PROVE  e.id \in touched \/ Forgotten(e)
<1>1. CASE e \in ReadEvents(reads)
  <2>1. PICK c \in reads : e.id = c
    BY <1>1 DEF ReadEvents
  <2>2. /\ c \in Chats /\ readAt[c] # 0 /\ readAt[c] >= After
        /\ chatCached[c].at = 0 \/ readAt[c] > chatCached[c].ts
    BY <2>1 DEF NewReads
  <2>3. ChatInv(c) /\ readAt[c] \in Int /\ lastCheck \in Int
    BY <2>2 DEF CacheInv, WatcherTypeOK
  <2>4. c \in touched
    BY <2>2, <2>3, Window, Sizes DEF ChatInv
  <2> QED BY <2>1, <2>4
<1>2. CASE e \in RowEvents(page)
  <2>1. PICK r \in Changes(page) \cup Fresh(page) \cup Updated(page) :
           /\ e.id = r
           /\ \/ e.type = "group" /\ r \in Changes(page)
              \/ e.type = "new" /\ r \in Fresh(page)
              \/ e.type = "updated" /\ r \in Updated(page)
    BY <1>2 DEF RowEvents
  <2>2. r \in page /\ r \in Rows /\ row[r] # Absent /\ row[r].mod >= After
    BY <2>1 DEF Changes, Fresh, Updated, Matched
  <2>3. r \in Texts
    BY <2>1, <2>2, RowsAssumption
  <2>4. RowInv(r) /\ row[r].mod \in Int
    BY <2>2, <2>3 DEF CacheInv, WatcherTypeOK, Row
  <2>5. r \notin Changes(page)
    BY <2>3, RowsAssumption DEF Changes
  <2>6. CASE e.type = "new" /\ r \in Fresh(page)
    <3>1. seen[r] = 0 /\ row[r].mod >= StartTime - SeedBack
      BY <2>2, <2>4, <2>6, Window, Sizes DEF Fresh
    <3> QED BY <2>1, <2>2, <2>4, <2>6, <3>1 DEF RowInv, Forgotten
  <2>7. CASE e.type = "updated" /\ r \in Updated(page)
    BY <2>1, <2>4, <2>7 DEF RowInv, Updated, Differs
  <2> QED BY <2>1, <2>5, <2>6, <2>7
<1> QED BY <1>1, <1>2

-----------------------------------------------------------------------------
(* The keys of the event cache.                                            *)

PostInv(t, k) ==
    /\ posted[t][k].at \in 0 .. now
    /\ k[1] # "chat" => \/ posted[t][k].at = 0
                        \/ now - posted[t][k].at >= Ttl
                        \/ entries[k] = posted[t][k].at

KeyInv ==
    /\ entries \in [Hooks!Keys -> 0 .. now]
    /\ \A t \in Targets : DOMAIN posted[t] = Hooks!Keys
    /\ \A t \in Targets, k \in Hooks!Keys : PostInv(t, k)

\* What DedupWindow says of a step.
Apart(t, k) ==
    k[1] # "chat" /\ posted'[t][k] # posted[t][k] => posted[t][k].at = 0 \/ now - posted[t][k].at >= Ttl

LEMMA KeyInit == Init => KeyInv
<1> SUFFICES ASSUME Init PROVE KeyInv
  OBVIOUS
<1>1. now \in Int /\ now >= 1
  BY Sizes DEF Init, WatcherInit
<1> QED BY <1>1 DEF Init, Hooks!HooksInit, Hooks!NoPost, KeyInv, PostInv

LEMMA PostChanges ==
  ASSUME KeyInv, NEW key \in Hooks!Keys, NEW body, Hooks!Post(key, body)
  PROVE  \A t \in Targets :
            /\ DOMAIN posted'[t] = Hooks!Keys
            /\ \A k \in Hooks!Keys : \/ posted'[t][k] = posted[t][k]
                                     \/ k = key /\ posted'[t][k].at = now
<1> TAKE t \in Targets
<1>1. posted'[t] = IF key[1] \in Filter[t] THEN [posted[t] EXCEPT ![key] = [at |-> now, body |-> body]]
                   ELSE posted[t]
  BY DEF Hooks!Post
<1>2. DOMAIN posted[t] = Hooks!Keys
  BY DEF KeyInv
<1> QED BY <1>1, <1>2

LEMMA UnkeyedStep ==
  ASSUME KeyInv, now \in Nat, now' = now, NEW key \in Hooks!Keys, key[1] = "chat", NEW body,
         Hooks!DispatchUnkeyed(key, body)
  PROVE  KeyInv' /\ \A t \in Targets, k \in Hooks!Keys : Apart(t, k)
<1>1. entries' = entries /\ Hooks!Post(key, body)
  BY DEF Hooks!DispatchUnkeyed
<1>2. ASSUME NEW t \in Targets, NEW k \in Hooks!Keys PROVE PostInv(t, k)' /\ Apart(t, k)
  <2>1. PostInv(t, k) /\ (posted'[t][k] = posted[t][k] \/ (k = key /\ posted'[t][k].at = now))
    BY <1>1, PostChanges DEF KeyInv
  <2> QED BY <1>1, <2>1 DEF PostInv, Apart
<1> QED BY <1>1, <1>2, PostChanges DEF KeyInv

LEMMA KeyedStep ==
  ASSUME KeyInv, now \in Nat, now > 0, now' = now, NEW key \in Hooks!Keys, NEW body,
         Hooks!Dispatch(key, body)
  PROVE  KeyInv' /\ \A t \in Targets, k \in Hooks!Keys : Apart(t, k)
<1> DEFINE kept == Hooks!Cleaned
<1>1. /\ kept \in [Hooks!Keys -> 0 .. now]
      /\ \A k \in Hooks!Keys : kept[k] = IF now - entries[k] < Ttl THEN entries[k] ELSE 0
  BY DEF Hooks!Cleaned, KeyInv
<1>2. CASE kept[key] # 0
  <2>1. entries' = kept /\ posted' = posted
    BY <1>2 DEF Hooks!Dispatch, Hooks!Admit, Hooks!Duplicate
  <2>2. ASSUME NEW t \in Targets, NEW k \in Hooks!Keys PROVE PostInv(t, k)' /\ Apart(t, k)
    <3>1. PostInv(t, k) /\ entries[k] \in 0 .. now
      BY DEF KeyInv
    <3> QED BY <1>1, <2>1, <3>1, Sizes DEF PostInv, Apart
  <2> QED BY <1>1, <2>1, <2>2 DEF KeyInv
<1>3. CASE kept[key] = 0
  <2>1. entries' = [kept EXCEPT ![key] = now] /\ Hooks!Post(key, body)
    BY <1>3 DEF Hooks!Dispatch, Hooks!Admit, Hooks!Duplicate
  <2> HIDE DEF kept
  <2>2. entries' \in [Hooks!Keys -> 0 .. now]
    BY <1>1, <2>1
  <2>3. ASSUME NEW t \in Targets, NEW k \in Hooks!Keys PROVE PostInv(t, k)' /\ Apart(t, k)
    <3>1. PostInv(t, k) /\ entries[k] \in 0 .. now
      BY DEF KeyInv
    <3>2. posted'[t][k] = posted[t][k] \/ (k = key /\ posted'[t][k].at = now)
      BY <2>1, PostChanges
    <3>3. CASE k = key
      <4>1. entries'[k] = now /\ (entries[k] = 0 \/ now - entries[k] >= Ttl)
        BY <1>1, <1>3, <2>1, <3>1, <3>3, Sizes
      <4> QED BY <3>1, <3>2, <4>1 DEF PostInv, Apart
    <3>4. CASE k # key
      <4>1. entries'[k] = kept[k] /\ posted'[t][k] = posted[t][k]
        BY <1>1, <2>1, <3>2, <3>4
      <4> QED BY <1>1, <3>1, <4>1, Sizes DEF PostInv, Apart
    <3> QED BY <3>3, <3>4
  <2> QED BY <2>1, <2>2, <2>3, PostChanges DEF KeyInv
<1> QED BY <1>2, <1>3

-----------------------------------------------------------------------------
(* No row is lost.  A key is in the event cache only if it was POSTed to   *)
(* whoever asked for it (SentInv); a row that came after the seeding is    *)
(* hidden by the caches, or read, only once its first event was made       *)
(* (LostInv).                                                              *)

SentInv ==
    \A t \in Targets, k \in Hooks!Keys : entries[k] # 0 /\ k[1] \in Filter[t] => posted[t][k].at # 0

\* No POST is taken back.
Stands == \A t \in Targets, k \in Hooks!Keys : posted[t][k].at # 0 => posted'[t][k].at # 0

LEMMA Posting ==
  ASSUME KeyInv, now > 0, NEW key \in Hooks!Keys, NEW body, Hooks!Post(key, body)
  PROVE  Stands /\ \A t \in Targets : key[1] \in Filter[t] => posted'[t][key].at = now
<1>1. ASSUME NEW t \in Targets
      PROVE  posted'[t] = IF key[1] \in Filter[t] THEN [posted[t] EXCEPT ![key] = [at |-> now, body |-> body]]
                          ELSE posted[t]
  BY DEF Hooks!Post
<1>2. ASSUME NEW t \in Targets PROVE DOMAIN posted[t] = Hooks!Keys
  BY DEF KeyInv
<1>3. Stands
  BY PostChanges DEF Stands
<1>4. ASSUME NEW t \in Targets, key[1] \in Filter[t] PROVE posted'[t][key].at = now
  <2>1. posted'[t] = [posted[t] EXCEPT ![key] = [at |-> now, body |-> body]] /\ key \in DOMAIN posted[t]
    BY <1>1, <1>2, <1>4
  <2> QED BY <2>1
<1> QED BY <1>3, <1>4

LEMMA UnkeyedSent ==
  ASSUME KeyInv, SentInv, now > 0, NEW key \in Hooks!Keys, NEW body, Hooks!DispatchUnkeyed(key, body)
  PROVE  SentInv' /\ Stands
<1>1. entries' = entries /\ Hooks!Post(key, body)
  BY DEF Hooks!DispatchUnkeyed
<1>2. Stands
  BY <1>1, Posting
<1> QED BY <1>1, <1>2 DEF SentInv, Stands

\* After a keyed dispatch the key was POSTed, now or before.
LEMMA KeyedSent ==
  ASSUME KeyInv, SentInv, now > 0, NEW key \in Hooks!Keys, NEW body, Hooks!Dispatch(key, body)
  PROVE  SentInv' /\ Stands /\ \A t \in Targets : key[1] \in Filter[t] => posted'[t][key].at # 0
<1> DEFINE kept == Hooks!Cleaned
<1>1. /\ DOMAIN kept = Hooks!Keys
      /\ \A k \in Hooks!Keys : kept[k] # 0 => entries[k] # 0
  BY DEF Hooks!Cleaned
<1>2. CASE kept[key] # 0
  <2>1. entries' = kept /\ posted' = posted
    BY <1>2 DEF Hooks!Dispatch, Hooks!Admit, Hooks!Duplicate
  <2> HIDE DEF kept
  <2> QED BY <1>1, <1>2, <2>1 DEF SentInv, Stands
<1>3. CASE kept[key] = 0
  <2>1. entries' = [kept EXCEPT ![key] = now] /\ Hooks!Post(key, body)
    BY <1>3 DEF Hooks!Dispatch, Hooks!Admit, Hooks!Duplicate
  <2> HIDE DEF kept
  <2>2. Stands /\ \A t \in Targets : key[1] \in Filter[t] => posted'[t][key].at = now
    BY <2>1, Posting
  <2>3. ASSUME NEW t \in Targets, NEW k \in Hooks!Keys, entries'[k] # 0, k[1] \in Filter[t]
        PROVE  posted'[t][k].at # 0
    <3>1. CASE k = key
      BY <2>2, <2>3, <3>1
    <3>2. CASE k # key
      <4>1. entries[k] # 0
        BY <1>1, <2>1, <2>3, <3>2
      <4> QED BY <2>2, <2>3, <4>1 DEF SentInv, Stands
    <3> QED BY <3>1, <3>2
  <2> QED BY <2>2, <2>3 DEF SentInv
<1> QED BY <1>2, <1>3

\* The caches hide r: its guid, or its group-change key, is remembered.
Hidden(r) == IF r \in Groups THEN grouped[r] # 0 ELSE seen[r] # 0

Reported(r) ==
    \A t \in Targets : Wanted(t, r) => UnderWay(r) \/ Announced(t, r) \/ <<First(r), r>> \in lost

LostInv ==
    /\ \A r \in Rows : ~started \/ row[r] = Absent => ~Hidden(r)
    /\ started => \A r \in Rows \ old : Hidden(r) \/ (row[r] # Absent /\ r \notin owed) => Reported(r)

LEMMA LostHolds == LostInv => NothingLost
BY DEF LostInv, NothingLost, Reported

LEMMA LostInit == WatcherInit => LostInv
BY DEF WatcherInit, LostInv, Hidden

LEMMA InTail ==
  ASSUME NEW s \in Seq(Event), s # << >>, NEW i \in 1 .. Len(s)
  PROVE  s[i] = Head(s) \/ (i - 1 \in 1 .. Len(Tail(s)) /\ s[i] = Tail(s)[i - 1])
<1>1. CASE i = 1
  BY <1>1
<1>2. CASE i # 1
  <2>1. Len(Tail(s)) = Len(s) - 1 /\ i - 1 \in 1 .. Len(s) - 1
    BY <1>2
  <2> QED BY <2>1
<1> QED BY <1>1, <1>2

LEMMA InAppend ==
  ASSUME NEW s \in Seq(Event), NEW e \in Event
  PROVE  /\ \A i \in 1 .. Len(s) : i \in 1 .. Len(Append(s, e)) /\ Append(s, e)[i] = s[i]
         /\ Len(s) + 1 \in 1 .. Len(Append(s, e)) /\ Append(s, e)[Len(s) + 1] = e
OBVIOUS

\* What a step may do with a reported row.
LEMMA StillReported ==
  ASSUME NEW r \in Rows, Reported(r), lost \subseteq lost', Stands,
         UnderWay(r) => \/ UnderWay(r)' \/ <<First(r), r>> \in lost'
                        \/ \A t \in Targets : Wanted(t, r) => Announced(t, r)'
  PROVE  Reported(r)'
<1>1. <<First(r), r>> \in Hooks!Keys
  BY DEF First, Hooks!Keys
<1>2. \A t \in Targets : Announced(t, r) => Announced(t, r)'
  BY <1>1 DEF Stands, Announced, First
<1> QED BY <1>2 DEF Reported, Wanted, First

LEMMA LostWorld == ASSUME WatcherTypeOK, LostInv, WorldStep, Stands PROVE LostInv'
<1>1. UNCHANGED <<stateVars, started, batch, feed, old, lost>>
  BY DEF WorldStep, Tick, Insert, Change, Flag, ReadChat, Note, fates
<1>2. ASSUME NEW r \in Rows, Reported(r) PROVE Reported(r)'
  BY <1>1, <1>2, StillReported DEF UnderWay
<1>3. \A r \in Rows : Hidden(r)' = Hidden(r)
  BY <1>1 DEF Hidden, stateVars
<1> DEFINE Told(r) == row[r] # Absent /\ r \notin owed
<1>4. ASSUME NEW r \in Rows PROVE (row'[r] = Absent => row[r] = Absent) /\ (Told(r)' => Told(r))
  <2>1. CASE UNCHANGED <<row, owed>>
    BY <2>1
  <2>2. ASSUME NEW q \in Rows, Insert(q) \/ Change(q) PROVE (row'[r] = Absent => row[r] = Absent) /\ (Told(r)' => Told(r))
    <3>0. row \in [Rows -> Row]
      BY DEF WatcherTypeOK
    <3>1. owed' = owed \cup {q} /\ \A x \in Rows \ {q} : row'[x] = row[x]
      BY <2>2, <3>0 DEF Insert, Change
    <3>2. row'[q] # Absent
      <4>1. row[q] \in Row /\ row \in [Rows -> Row]
        BY DEF WatcherTypeOK
      <4>2. CASE Insert(q)
        <5>1. PICK d \in RecentDates : row' = [row EXCEPT ![q].mod = d]
          BY <4>2 DEF Insert
        <5>2. d \in Int /\ d # 0
          <6>1. d \in 1 .. now /\ now \in Int
            BY DatesType DEF WatcherTypeOK
          <6> QED BY <6>1
        <5>3. row'[q].mod = d
          BY <4>1, <5>1 DEF Row
        <5> QED BY <5>2, <5>3 DEF Absent
      <4>3. CASE Change(q)
        <5>1. row'[q].ver = row[q].ver + 1 /\ row[q].ver \in Nat
          BY <4>1, <4>3 DEF Change, Row
        <5> QED BY <5>1 DEF Absent
      <4> QED BY <2>2, <4>2, <4>3
    <3> QED BY <3>1, <3>2
  <2>3. ASSUME NEW q \in Rows, Flag(q) PROVE (row'[r] = Absent => row[r] = Absent) /\ (Told(r)' => Told(r))
    <3>1. row[q] # Absent /\ row' = [row EXCEPT ![q].flag = TRUE] /\ owed' = owed /\ row \in [Rows -> Row]
      BY <2>3 DEF Flag, WatcherTypeOK
    <3>2. CASE r = q
      <4>1. row'[r].flag /\ row[r] # Absent
        BY <3>1, <3>2 DEF Row
      <4> QED BY <3>1, <4>1 DEF Absent
    <3>3. CASE r # q
      BY <3>1, <3>3
    <3> QED BY <3>2, <3>3
  <2>4. Tick \/ (\E c \in Chats : ReadChat(c)) => UNCHANGED <<row, owed>>
    BY DEF Tick, ReadChat, dbVars, history
  <2> QED BY <2>1, <2>2, <2>3, <2>4 DEF WorldStep
<1> QED BY <1>1, <1>2, <1>3, <1>4 DEF LostInv

\* What the polls hide is what the page holds or what was hidden.
LEMMA HiddenBy ==
  ASSUME NEW page \in SUBSET Rows, NEW reads \in SUBSET Chats, Remember(page, reads), NEW r \in Rows
  PROVE  Hidden(r)' => Hidden(r) \/ r \in page
<1>1. /\ grouped'[r] = IF r \in Changes(page) THEN now ELSE Kept(grouped[r])
      /\ seen'[r] = IF r \in Fresh(page) THEN now ELSE Kept(seen[r])
  BY DEF Remember
<1>2. Changes(page) \subseteq page /\ Fresh(page) \subseteq page
  BY DEF Changes, Fresh
<1> QED BY <1>1, <1>2 DEF Hidden, Kept

\* A row of the page that nothing hides gets its first event.
LEMMA FirstEvent ==
  ASSUME NEW page \in SUBSET Rows, NEW r \in page, ~Hidden(r), r \notin Silent
  PROVE  \E e \in RowEvents(page) : Carries(e, r)
<1>1. CASE r \in Groups
  <2>1. r \in Changes(page) \ Silent
    BY <1>1 DEF Hidden, Changes
  <2>2. [type |-> "group", id |-> r, ver |-> row[r].ver, flag |-> row[r].flag] \in RowEvents(page)
    BY <2>1 DEF RowEvents
  <2> QED BY <1>1, <2>2 DEF Carries, First
<1>2. CASE r \notin Groups
  <2>1. r \in Fresh(page)
    BY <1>2 DEF Hidden, Fresh, Changes
  <2>2. [type |-> "new", id |-> r, ver |-> row[r].ver, flag |-> row[r].flag] \in RowEvents(page)
    BY <2>1 DEF RowEvents
  <2> QED BY <1>2, <2>2 DEF Carries, First
<1> QED BY <1>1, <1>2

LEMMA LostListener == ASSUME WatcherTypeOK, LostInv, ListenerStep, UNCHANGED posted PROVE LostInv'
<1>0. Stands
  BY DEF Stands
<1>1. ASSUME NEW okRows \in BOOLEAN, NEW okReads \in BOOLEAN, Seed(okRows, okReads) PROVE LostInv'
  <2>1. PICK page \in SUBSET Rows, reads \in SUBSET Chats :
           /\ ~started /\ started' = TRUE /\ page \subseteq Matched(lastCheck - SeedBack)
           /\ Remember(page, reads)
           /\ old' = {r \in Rows : row[r] # Absent} /\ row' = row
    BY <1>1, SeedParts DEF dbVars
  <2>2. ASSUME NEW r \in Rows, row[r] = Absent PROVE ~Hidden(r)'
    <3>1. r \notin page /\ ~Hidden(r)
      BY <2>1, <2>2 DEF Matched, LostInv
    <3> QED BY <2>1, <3>1, HiddenBy
  <2> QED BY <2>1, <2>2 DEF LostInv
<1>2. ASSUME NEW okRows \in BOOLEAN, NEW okReads \in BOOLEAN, Poll(okRows, okReads) PROVE LostInv'
  <2>1. PICK page \in SUBSET Rows, reads \in SUBSET Chats :
           /\ started /\ started' = started /\ batch = {} /\ page \subseteq Matched(After)
           /\ batch' = RowEvents(page) \cup ReadEvents(reads)
           /\ Remember(page, reads) /\ owed' = owed \ page
           /\ UNCHANGED <<row, feed, old, lost>>
    BY <1>2, PollParts DEF dbVars, fates
  <2>2. ASSUME NEW r \in Rows, row[r] = Absent PROVE ~Hidden(r)'
    <3>1. r \notin page /\ ~Hidden(r)
      BY <2>1, <2>2 DEF Matched, LostInv
    <3> QED BY <2>1, <3>1, HiddenBy
  <2>3. ASSUME NEW r \in Rows \ old, Hidden(r)' \/ (row[r] # Absent /\ r \notin owed') PROVE Reported(r)'
    <3>1. Hidden(r) \/ r \in page \/ (row[r] # Absent /\ r \notin owed)
      BY <2>1, <2>3, HiddenBy
    <3>2. CASE Hidden(r) \/ (row[r] # Absent /\ r \notin owed)
      <4>1. Reported(r)
        BY <2>1, <3>2 DEF LostInv
      <4>2. UnderWay(r) => UnderWay(r)'
        BY <2>1 DEF UnderWay
      <4> QED BY <1>0, <2>1, <4>1, <4>2, StillReported
    <3>3. CASE r \in page /\ ~Hidden(r)
      <4>1. r \notin Silent => UnderWay(r)'
        BY <2>1, <3>3, FirstEvent DEF UnderWay
      <4> QED BY <4>1 DEF Reported, Wanted
    <3> QED BY <3>1, <3>2, <3>3
  <2> QED BY <2>1, <2>2, <2>3 DEF LostInv
<1>3. ASSUME NEW e \in batch, Emit(e) PROVE LostInv'
  <2>1. /\ batch' = batch \ {e}
        /\ feed' = Append(IF Len(feed) = ChanCap THEN Tail(feed) ELSE feed, e)
        /\ lost' = IF Len(feed) = ChanCap THEN lost \cup {<<Head(feed).type, Head(feed).id>>} ELSE lost
        /\ UNCHANGED <<row, stateVars, started, owed, old>>
    BY <1>3 DEF Emit, dbVars, history
  <2>2. feed \in Seq(Event) /\ e \in Event
    BY <1>3 DEF WatcherTypeOK
  <2>3. ASSUME NEW r \in Rows, Reported(r) PROVE Reported(r)'
    <3>1. ASSUME UnderWay(r) PROVE UnderWay(r)' \/ <<First(r), r>> \in lost'
      <4> DEFINE left == IF Len(feed) = ChanCap THEN Tail(feed) ELSE feed
      <4>1. left \in Seq(Event) /\ (Len(feed) = ChanCap => feed # << >>)
        BY <2>2, Sizes
      <4>2. CASE \E f \in batch : Carries(f, r)
        <5>1. Carries(e, r) => UnderWay(r)'
          BY <2>1, <2>2, <4>1, InAppend DEF UnderWay
        <5>2. ~Carries(e, r) => UnderWay(r)'
          BY <2>1, <4>2 DEF UnderWay
        <5> QED BY <5>1, <5>2
      <4>3. CASE \E i \in 1 .. Len(feed) : Carries(feed[i], r)
        <5>1. PICK i \in 1 .. Len(feed) : Carries(feed[i], r)
          BY <4>3
        <5>2. CASE Len(feed) = ChanCap /\ feed[i] = Head(feed)
          BY <2>1, <5>1, <5>2 DEF Carries
        <5>3. CASE \E j \in 1 .. Len(left) : Carries(left[j], r)
          <6>1. PICK j \in 1 .. Len(left) : Carries(left[j], r)
            BY <5>3
          <6>2. j \in 1 .. Len(Append(left, e)) /\ Append(left, e)[j] = left[j]
            BY <2>2, <4>1, InAppend
          <6>3. feed' = Append(left, e)
            BY <2>1
          <6> QED BY <6>1, <6>2, <6>3 DEF UnderWay
        <5> QED BY <2>2, <4>1, <5>1, <5>2, <5>3, InTail
      <4> QED BY <3>1, <4>2, <4>3 DEF UnderWay
    <3>2. lost \subseteq lost'
      BY <2>1
    <3> QED BY <1>0, <2>3, <3>1, <3>2, StillReported
  <2>4. \A r \in Rows : Hidden(r)' = Hidden(r)
    BY <2>1 DEF Hidden, stateVars
  <2> QED BY <2>1, <2>3, <2>4 DEF LostInv
<1> QED BY <1>1, <1>2, <1>3 DEF ListenerStep

LEMMA LostBridge == ASSUME WatcherTypeOK, KeyInv, SentInv, LostInv, Bridge PROVE SentInv' /\ LostInv'
<1> DEFINE e == Head(feed)
<1>1. /\ feed # << >> /\ feed' = Tail(feed)
      /\ IF Keyed(e) THEN Hooks!Dispatch(KeyOf(e), Body(e)) ELSE Hooks!DispatchUnkeyed(KeyOf(e), Body(e))
      /\ UNCHANGED <<row, stateVars, started, batch, owed, old, lost>>
  BY DEF Bridge, dbVars, history, fates
<1>2. feed \in Seq(Event) /\ e \in Event /\ now > 0
  <2>1. feed \in Seq(Event) /\ now > 0
    BY DEF WatcherTypeOK
  <2> QED BY <1>1, <2>1
<1>3. KeyOf(e) \in Hooks!Keys
  BY <1>2, EventKey DEF KeyOf, Hooks!Keys
<1> HIDE DEF e
<1>4. SentInv' /\ Stands /\ (Keyed(e) => \A t \in Targets : KeyOf(e)[1] \in Filter[t] => posted'[t][KeyOf(e)].at # 0)
  BY <1>1, <1>2, <1>3, KeyedSent, UnkeyedSent
<1>5. ASSUME NEW r \in Rows, Reported(r) PROVE Reported(r)'
  <2>1. ASSUME UnderWay(r), ~UnderWay(r)' PROVE \A t \in Targets : Wanted(t, r) => Announced(t, r)'
    <3>1. PICK i \in 1 .. Len(feed) : Carries(feed[i], r)
      BY <1>1, <2>1 DEF UnderWay
    <3>2. feed[i] = e
      BY <1>1, <1>2, <2>1, <3>1, InTail DEF UnderWay, e
    <3>3. Keyed(e) /\ KeyOf(e) = <<First(r), r>>
      BY <3>1, <3>2 DEF Carries, Keyed, KeyOf, First
    <3> QED BY <1>4, <3>3 DEF Wanted, Announced, First
  <2> QED BY <1>1, <1>4, <1>5, <2>1, StillReported
<1>6. \A r \in Rows : Hidden(r)' = Hidden(r)
  BY <1>1 DEF Hidden, stateVars
<1> QED BY <1>1, <1>4, <1>5, <1>6 DEF LostInv

-----------------------------------------------------------------------------
(* The pipeline.                                                           *)

PipeInv == WatcherTypeOK /\ ReachInv /\ SwallowInv /\ CacheInv /\ KeyInv /\ SentInv /\ LostInv

LEMMA PipeInit == Init => PipeInv
<1>1. Init => SentInv
  BY DEF Init, Hooks!HooksInit, SentInv
<1> QED BY <1>1, WatcherTyping, ReachInit, SwallowInit, CacheInit, KeyInit, LostInit DEF Init, PipeInv

\* What the watcher's other invariants speak of.
watched == <<now, dbVars, stateVars, started, lastCheck, history>>

LEMMA WatcherKept ==
  ASSUME ReachInv, SwallowInv, CacheInv, UNCHANGED watched
  PROVE  ReachInv' /\ SwallowInv' /\ CacheInv'
<1>1. UNCHANGED <<now, row, readAt, seen, grouped, cached, chatCached, started, lastCheck,
                  lastGood, touched, owed, lastNew, lapsed>>
  BY DEF watched, dbVars, stateVars, history
<1>2. ReachInv'
  BY <1>1 DEF ReachInv
<1>3. SwallowInv'
  BY <1>1 DEF SwallowInv, Past, NoSwallow
<1>4. CacheInv'
  BY <1>1 DEF CacheInv, RowInv, ChatInv
<1> QED BY <1>2, <1>3, <1>4

LEMMA BridgeStep ==
  ASSUME PipeInv, Bridge
  PROVE  PipeInv' /\ \A t \in Targets, k \in Hooks!Keys : Apart(t, k)
<1> DEFINE e == Head(feed)
<1>1. /\ feed # << >> /\ feed' = Tail(feed)
      /\ UNCHANGED <<now, dbVars, stateVars, started, lastCheck, batch, history, fates>>
      /\ IF Keyed(e) THEN Hooks!Dispatch(KeyOf(e), Body(e)) ELSE Hooks!DispatchUnkeyed(KeyOf(e), Body(e))
  BY DEF Bridge
<1>2. feed \in Seq(Event) /\ Len(feed) <= ChanCap /\ now \in Nat /\ now > 0
  BY DEF PipeInv, WatcherTypeOK
<1>3. e \in Event /\ feed' \in Seq(Event) /\ Len(feed') <= ChanCap
  BY <1>1, <1>2, Sizes
<1>4. KeyOf(e) \in Hooks!Keys /\ KeyOf(e)[1] = e.type
  BY <1>3 DEF KeyOf, Hooks!Keys, Event
<1>5. WatcherTypeOK'
  BY <1>1, <1>3 DEF PipeInv, WatcherTypeOK, dbVars, stateVars, history, fates
<1>6. ReachInv' /\ SwallowInv' /\ CacheInv'
  BY <1>1, WatcherKept DEF PipeInv, watched
<1> HIDE DEF e
<1>7. KeyInv' /\ \A t \in Targets, k \in Hooks!Keys : Apart(t, k)
  <2>0. now' = now
    BY <1>1
  <2>1. CASE Keyed(e)
    BY <1>1, <1>2, <1>4, <2>0, <2>1, KeyedStep DEF PipeInv
  <2>2. CASE ~Keyed(e)
    BY <1>1, <1>2, <1>4, <2>0, <2>2, UnkeyedStep DEF PipeInv, Keyed
  <2> QED BY <2>1, <2>2
<1>8. SentInv' /\ LostInv'
  BY LostBridge DEF PipeInv
<1> QED BY <1>5, <1>6, <1>7, <1>8 DEF PipeInv

LEMMA MarkReadStep ==
  ASSUME PipeInv, NEW c \in Chats, MarkRead(c)
  PROVE  PipeInv' /\ \A t \in Targets, k \in Hooks!Keys : Apart(t, k)
<1>1. Hooks!DispatchUnkeyed(<<"chat", c>>, << >>) /\ UNCHANGED <<watched, batch, feed, fates>>
  BY DEF MarkRead, watchVars, watched
<1>2. <<"chat", c>> \in Hooks!Keys /\ <<"chat", c>>[1] = "chat"
  BY DEF Hooks!Keys
<1>3. now \in Nat /\ now > 0 /\ now' = now
  BY <1>1 DEF PipeInv, WatcherTypeOK, watched
<1>4. KeyInv' /\ \A t \in Targets, k \in Hooks!Keys : Apart(t, k)
  BY <1>1, <1>2, <1>3, UnkeyedStep DEF PipeInv
<1>5. SentInv' /\ Stands
  BY <1>1, <1>2, <1>3, UnkeyedSent DEF PipeInv
<1>6. ASSUME NEW r \in Rows, Reported(r) PROVE Reported(r)'
  BY <1>1, <1>5, <1>6, StillReported DEF UnderWay, fates
<1>7. LostInv'
  BY <1>1, <1>6 DEF PipeInv, LostInv, Hidden, watched, dbVars, stateVars, history, fates
<1>8. WatcherTypeOK'
  BY <1>1 DEF PipeInv, WatcherTypeOK, watched, dbVars, stateVars, history, fates
<1> QED BY <1>1, <1>4, <1>5, <1>7, <1>8, WatcherKept DEF PipeInv

LEMMA WatcherStep ==
  ASSUME PipeInv, WorldStep \/ ListenerStep, UNCHANGED <<entries, posted>>
  PROVE  PipeInv' /\ \A t \in Targets, k \in Hooks!Keys : Apart(t, k)
<1>1. now' \in {now, now + 1} /\ now \in Nat
  <2>1. WorldStep => now' \in {now, now + 1}
    BY DEF WorldStep, Tick, Insert, Change, Flag, ReadChat
  <2>2. ListenerStep => now' = now
    BY DEF ListenerStep, Seed, Poll, Emit
  <2> QED BY <2>1, <2>2 DEF PipeInv, WatcherTypeOK
<1>2. ASSUME NEW t \in Targets, NEW k \in Hooks!Keys PROVE PostInv(t, k)' /\ Apart(t, k)
  <2>1. PostInv(t, k) /\ entries[k] \in Nat
    BY <1>1 DEF PipeInv, KeyInv
  <2> QED BY <1>1, <2>1, Sizes DEF PostInv, Apart
<1>3. KeyInv'
  BY <1>1, <1>2 DEF PipeInv, KeyInv
<1>4. SentInv' /\ Stands
  BY DEF PipeInv, SentInv, Stands
<1>5. LostInv'
  BY <1>4, LostWorld, LostListener DEF PipeInv
<1> QED
  BY <1>2, <1>3, <1>4, <1>5, WorldType, ListenerType, ReachWorld, ReachListener, SwallowStep, CacheWorld, CacheListener
  DEF PipeInv

LEMMA PipeStep ==
  PipeInv /\ [Next]_vars => PipeInv' /\ \A t \in Targets, k \in Hooks!Keys : Apart(t, k)
<1> SUFFICES ASSUME PipeInv, [Next]_vars
             PROVE  PipeInv' /\ \A t \in Targets, k \in Hooks!Keys : Apart(t, k)
  OBVIOUS
<1>1. CASE UNCHANGED vars
  <2>1. UNCHANGED <<watched, batch, feed, fates, entries, posted>>
    BY <1>1 DEF vars, watchVars, watched
  <2>2. WatcherTypeOK'
    BY <2>1 DEF PipeInv, WatcherTypeOK, watched, dbVars, stateVars, history, fates
  <2>3. KeyInv' /\ \A t \in Targets, k \in Hooks!Keys : Apart(t, k)
    BY <2>1 DEF PipeInv, KeyInv, PostInv, Apart, watched
  <2>4. SentInv' /\ LostInv'
    BY <2>1 DEF PipeInv, SentInv, LostInv, Reported, Hidden, UnderWay, Announced, watched, dbVars, stateVars,
                history, fates, Wanted, First, Carries
  <2> QED BY <2>1, <2>2, <2>3, <2>4, WatcherKept DEF PipeInv
<1>2. CASE Next
  BY <1>2, WatcherStep, BridgeStep, MarkReadStep DEF Next
<1> QED BY <1>1, <1>2

LEMMA Repeats ==
  ASSUME PipeInv, [Next]_vars
  PROVE  \A e \in batch' \ batch : e.id \in Texts \cup Chats => lapsed \/ e.id \in touched \/ Forgotten(e)
<1> SUFFICES ASSUME NEW e \in batch', e \notin batch, e.id \in Texts \cup Chats, ~lapsed
             PROVE  e.id \in touched \/ Forgotten(e)
  OBVIOUS
<1>1. \E okRows, okReads \in BOOLEAN : Poll(okRows, okReads)
  <2>1. UNCHANGED vars => batch' = batch
    BY DEF vars, watchVars
  <2>2. WorldStep => batch' = batch
    BY DEF WorldStep, Tick, Insert, Change, Flag, ReadChat
  <2>3. Bridge \/ (\E c \in Chats : MarkRead(c)) => batch' = batch
    BY DEF Bridge, MarkRead, watchVars
  <2>4. \A okRows, okReads \in BOOLEAN : Seed(okRows, okReads) => batch' = batch
    BY DEF Seed
  <2>5. \A x \in batch : Emit(x) => batch' \subseteq batch
    BY DEF Emit
  <2> QED BY <2>1, <2>2, <2>3, <2>4, <2>5 DEF Next, ListenerStep
<1>2. PICK page \in SUBSET Rows, reads \in SUBSET Chats :
         /\ started
         /\ page \subseteq Matched(After) /\ reads \subseteq NewReads(After)
         /\ batch' = RowEvents(page) \cup ReadEvents(reads)
  BY <1>1, PollParts
<1> QED BY <1>2, PollRepeats DEF PipeInv

\* Every variable keeps its type, for any rows, chats, targets and bounds.
THEOREM PipeTypes == Spec => []TypeOK
<1>1. PipeInv => TypeOK
  BY DEF PipeInv, TypeOK, KeyInv, PostInv
<1> QED BY <1>1, PipeInit, PipeStep, PTL DEF Spec

\* A change no poll has read is in the window of the next one, although failing polls
\* count and dates lie in the past, as far as the lookback covers the two.
THEOREM WindowReaches == Spec => []InReach
<1>1. PipeInv => InReach
  BY Reached DEF PipeInv
<1> QED BY <1>1, PipeInit, PipeStep, PTL DEF Spec

\* A row whose guid is remembered has its state remembered, at least as long: the branch
\* that only stores a state never takes the place of an event.
THEOREM StateOutlives == Spec => []NoSwallow
<1>1. PipeInv => NoSwallow
  BY DEF PipeInv, SwallowInv
<1> QED BY <1>1, PipeInit, PipeStep, PTL DEF Spec

\* A row that came after the seeding is, for every target that asked for it, still to be
\* read, on its way or POSTed, unless the full channel forgot its first event: failing
\* polls, full pages, trimmed caches and the event cache lose nothing.
THEOREM NoneLost == Spec => []NothingLost
<1>1. PipeInv => NothingLost
  BY LostHolds DEF PipeInv
<1> QED BY <1>1, PipeInit, PipeStep, PTL DEF Spec

\* Overlapping windows, failing polls and trimmed caches announce nothing of a text or a
\* chat again within the hour that nothing has touched since it was read.
THEOREM NeverRepeated == Spec => NoRepeat
<1>1. PipeInv /\ [Next]_vars =>
         [\A e \in batch' \ batch :
             e.id \in Texts \cup Chats => lapsed \/ e.id \in touched \/ Forgotten(e)]_watchVars
  BY Repeats
<1> QED BY <1>1, PipeInit, PipeStep, PTL DEF Spec, NoRepeat

\* Two POSTs of one key are an hour apart, whatever the watcher announces again.
THEOREM KeysApart == Spec => DedupWindow
<1>1. PipeInv /\ [Next]_vars =>
         [\A t \in Targets, k \in Hooks!Keys :
             k[1] # "chat" /\ posted'[t][k] # posted[t][k]
                 => posted[t][k].at = 0 \/ now - posted[t][k].at >= Ttl]_vars
  BY PipeStep DEF Apart
<1> QED BY <1>1, PipeInit, PipeStep, PTL DEF Spec, DedupWindow
=============================================================================
