------------------------ MODULE FindMyFriendsProofs ------------------------
(***************************************************************************)
(* Proofs about FindMyFriends: its types, that a refresh is answered once, *)
(* that an answer sent before its timer is complete, and that the cache    *)
(* never falls behind the refresh it was filled from, for any friends,     *)
(* refreshes, fixes and size of the channel.                               *)
(***************************************************************************)
EXTENDS FindMyFriends, TLAPS

----------------------------------------------------------------------------
\* The inductive invariant, in parts.

\* A refresh nobody has asked for has left no trace in the helper or the cache.
Untouched ==
    \A k \in Refreshes :
        stage[k] = "idle" =>
            /\ helper[k] = "off" /\ ~alarm[k] /\ listening # k /\ last # k
            /\ \A j \in Refreshes : kept[j] # k
            /\ \A w \in Ways : thread[k][w] = Idle
            /\ \A h \in Friends : located[k][h] = NoFix /\ answer[k][h] = NoFix

\* What a refresh gathers, or answers, was a friend's place after it was asked for.
Gathered ==
    \A k \in Refreshes, h \in Friends :
        /\ since[k][h] <= place[h].at
        /\ located[k][h] # NoFix => located[k][h].at >= since[k][h]
        /\ answer[k][h] # NoFix => answer[k][h].at >= since[k][h]

\* The refresh applied last has been answered, so that its answer stands.
Applied == last # Original => last \in Refreshes /\ answers[last] # 0

\* Until the answer, a friend that a thread has added, or counted, was located or
\* reported without a location; and a thread that has found all counted is right.
Covered(k, h) == answers[k] # 0 \/ h \in blank[k] \/ located[k][h] # NoFix
Counting ==
    \A k \in Refreshes :
        /\ \A h \in counted[k] : Covered(k, h)
        /\ \A w \in Ways :
              /\ thread[k][w].step # "idle" => Covered(k, thread[k][w].of)
              /\ thread[k][w].step = "full" => party.sharing \subseteq counted[k]
        /\ k \in early => answers[k] # 0

FreshInv    == Untouched /\ Gathered /\ Applied /\ FreshSince
CompleteInv == Counting /\ AnswerComplete

----------------------------------------------------------------------------
\* Types.

LEMMA Nested ==
  ASSUME NEW A, NEW B, NEW C, NEW f \in [A -> [B -> C]], NEW a \in A, NEW b \in B, NEW c \in C
  PROVE  [f EXCEPT ![a][b] = c] \in [A -> [B -> C]]
OBVIOUS

LEMMA FixTypes ==
  ASSUME NEW n \in 0 .. MaxFix, NEW b \in BOOLEAN
  PROVE  [at |-> n, real |-> b] \in Fix
BY DEF Fix

LEMMA InitTypes == FriendInit => FriendTypeOK
<1> SUFFICES ASSUME FriendInit PROVE FriendTypeOK
  OBVIOUS
<1>1. NoFix \in Fix /\ Idle \in Doing /\ 0 \in 0 .. MaxFix
  BY FixesAssumption DEF NoFix, Fix, Doing
<1>2. channel \in Seq(Update)
  BY DEF FriendInit
<1> QED BY <1>1, <1>2 DEF FriendInit, FriendTypeOK

LEMMA PartyTypes ==
  ASSUME FriendTypeOK
  PROVE  party.sharing \subseteq Friends /\ party.fixes \in 0 .. MaxFix /\ party.fixes \in Nat
BY FriendsAssumption, FixesAssumption DEF FriendTypeOK

LEMMA SentTypes ==
  ASSUME FriendTypeOK, NEW u \in Update, Sent(u)
  PROVE  channel' \in Seq(Update)
<1>1. channel \in Seq(Update) /\ ChanCap \in Nat \ {0}
  BY FixesAssumption DEF FriendTypeOK
<1>2. CASE Len(channel) = ChanCap
  <2>1. channel # << >>
    BY <1>1, <1>2
  <2>2. Tail(channel) \in Seq(Update)
    BY <1>1, <2>1
  <2> QED BY <1>2, <2>2 DEF Sent
<1>3. CASE Len(channel) # ChanCap
  BY <1>1, <1>3 DEF Sent
<1> QED BY <1>2, <1>3

LEMMA RespondTypes ==
  ASSUME FriendTypeOK, NEW k \in Refreshes, NEW found \in [Friends -> Fix], Respond(k, found)
  PROVE  answers' \in [Refreshes -> Nat] /\ answer' \in [Refreshes -> [Friends -> Fix]]
<1>1. answers \in [Refreshes -> Nat] /\ answer \in [Refreshes -> [Friends -> Fix]]
  BY DEF FriendTypeOK
<1>2. CASE answers[k] = 0
  BY <1>1, <1>2 DEF Respond
<1>3. CASE answers[k] # 0
  BY <1>1, <1>3 DEF Respond
<1> QED BY <1>2, <1>3

\* A routine of the server: the handler of a request.
LEMMA RouteTypes ==
  ASSUME FriendTypeOK, NEW k \in Refreshes,
         AskFriends(k) \/ ServeFriends(k) \/ RefreshFails(k) \/ ApplyRefresh(k)
  PROVE  FriendTypeOK'
<1>1. CASE AskFriends(k)
  <2>1. since' \in [Refreshes -> [Friends -> 0 .. MaxFix]]
    BY <1>1 DEF AskFriends, FriendTypeOK, Fix
  <2> QED BY <1>1, <2>1 DEF AskFriends, FriendTypeOK
<1>2. CASE ServeFriends(k)
  BY <1>2 DEF ServeFriends, FriendTypeOK, helperVars
<1>3. CASE RefreshFails(k)
  BY <1>3 DEF RefreshFails, FriendTypeOK, helperVars
<1>4. CASE ApplyRefresh(k)
  BY <1>4 DEF ApplyRefresh, FriendTypeOK, helperVars
<1> QED BY <1>1, <1>2, <1>3, <1>4

\* A step of the helper for a refresh.
LEMMA HelperTypes ==
  ASSUME FriendTypeOK, NEW k \in Refreshes,
         \/ NobodyShares(k) \/ Collect(k) \/ Alarm(k)
         \/ \E h \in Friends : LookUp(k, h) \/ Report(k, h)
         \/ \E w \in Ways : Count(k, w) \/ AllCounted(k, w)
  PROVE  FriendTypeOK'
<1> USE DEF serverVars
<1>1. CASE NobodyShares(k)
  <2>1. [h \in Friends |-> NoFix] \in [Friends -> Fix]
    BY FixesAssumption DEF NoFix, Fix
  <2>2. answers' \in [Refreshes -> Nat] /\ answer' \in [Refreshes -> [Friends -> Fix]]
    BY <1>1, <2>1, RespondTypes DEF NobodyShares
  <2> QED BY <1>1, <2>2 DEF NobodyShares, FriendTypeOK
<1>2. CASE Collect(k)
  BY <1>2 DEF Collect, FriendTypeOK
<1>3. CASE Alarm(k)
  <2>1. answers' \in [Refreshes -> Nat] /\ answer' \in [Refreshes -> [Friends -> Fix]]
    BY <1>3, RespondTypes DEF Alarm, FriendTypeOK
  <2> QED BY <1>3, <2>1 DEF Alarm, FriendTypeOK
<1>4. ASSUME NEW h \in Friends, NEW w \in Ways, Turns(k, w, "added", h), Added(k, h)
      PROVE  /\ thread' \in [Refreshes -> [Ways -> Doing]]
             /\ located' \in [Refreshes -> [Friends -> Fix]]
  BY <1>4 DEF FriendTypeOK, Turns, Added, Doing
<1>5. ASSUME NEW h \in Friends, LookUp(k, h) PROVE FriendTypeOK'
  BY <1>4, <1>5 DEF LookUp, FriendTypeOK, Ways
<1>6. ASSUME NEW h \in Friends, Report(k, h) PROVE FriendTypeOK'
  <2>1. thread' \in [Refreshes -> [Ways -> Doing]]
    BY <1>6 DEF Report, FriendTypeOK, Turns, Doing, Ways
  <2>2. located' \in [Refreshes -> [Friends -> Fix]]
    <3>1. located \in [Refreshes -> [Friends -> Fix]] /\ place[h] \in Fix
      BY DEF FriendTypeOK
    <3>2. [located EXCEPT ![k][h] = place[h]] \in [Refreshes -> [Friends -> Fix]]
      BY <3>1, Nested
    <3>3. located' = located \/ Added(k, h)
      BY <1>6 DEF Report
    <3> QED BY <3>1, <3>2, <3>3 DEF Added
  <2>3. blank' \in [Refreshes -> SUBSET Friends]
    BY <1>6 DEF Report, FriendTypeOK
  <2> QED BY <1>6, <2>1, <2>2, <2>3 DEF Report, FriendTypeOK
<1>7. ASSUME NEW w \in Ways, Count(k, w) PROVE FriendTypeOK'
  <2>1. thread[k][w] \in [step : {"added", "full"}, of : Friends]
    BY <1>7 DEF Count, FriendTypeOK, Doing, Idle
  <2>2. counted' \in [Refreshes -> SUBSET Friends]
    BY <1>7, <2>1 DEF Count, FriendTypeOK
  <2>3. thread' \in [Refreshes -> [Ways -> Doing]]
    <3> DEFINE h == thread[k][w].of
    <3>1. thread \in [Refreshes -> [Ways -> Doing]] /\ h \in Friends
      BY <2>1 DEF FriendTypeOK
    <3>2. Idle \in Doing /\ [step |-> "full", of |-> h] \in Doing
      BY <3>1 DEF Doing
    <3>3. /\ [thread EXCEPT ![k][w] = Idle] \in [Refreshes -> [Ways -> Doing]]
          /\ [thread EXCEPT ![k][w] = [step |-> "full", of |-> h]] \in [Refreshes -> [Ways -> Doing]]
      BY <3>1, <3>2, Nested
    <3>4. \/ thread' = [thread EXCEPT ![k][w] = Idle]
          \/ thread' = [thread EXCEPT ![k][w] = [step |-> "full", of |-> h]]
      BY <1>7 DEF Count, Turns
    <3> QED BY <3>3, <3>4
  <2> QED BY <1>7, <2>2, <2>3 DEF Count, FriendTypeOK
<1>8. ASSUME NEW w \in Ways, AllCounted(k, w) PROVE FriendTypeOK'
  <2>1. answers' \in [Refreshes -> Nat] /\ answer' \in [Refreshes -> [Friends -> Fix]]
    BY <1>8, RespondTypes DEF AllCounted, FriendTypeOK
  <2>2. thread' \in [Refreshes -> [Ways -> Doing]]
    BY <1>8 DEF AllCounted, FriendTypeOK, Doing
  <2> QED BY <1>8, <2>1, <2>2 DEF AllCounted, FriendTypeOK
<1> QED BY <1>1, <1>2, <1>3, <1>5, <1>6, <1>7, <1>8

\* Time, fixes and events.
LEMMA EventTypes ==
  ASSUME FriendTypeOK,
         \/ FriendsAge \/ OnEvent
         \/ \E h \in Friends, address \in BOOLEAN : Moved(h, address)
         \/ \E u \in Update, found \in BOOLEAN : Geocoded(u, found)
  PROVE  FriendTypeOK'
<1> USE DEF serverVars, helperVars
<1>1. CASE FriendsAge
  BY <1>1 DEF FriendsAge, FriendTypeOK
<1>2. CASE OnEvent
  <2>1. Head(channel) \in Update /\ Tail(channel) \in Seq(Update)
    BY <1>2 DEF OnEvent, FriendTypeOK
  <2>2. friends' \in [Friends -> Fix]
    BY <1>2, <2>1 DEF OnEvent, FriendTypeOK, Update
  <2> QED BY <1>2, <2>1, <2>2 DEF OnEvent, FriendTypeOK
<1>3. ASSUME NEW h \in Friends, NEW address \in BOOLEAN, Moved(h, address) PROVE FriendTypeOK'
  <2> DEFINE fix == [at |-> place[h].at + 1, real |-> h \notin party.vague]
  <2>1. fix \in Fix
    <3>1. place[h] \in Fix /\ place[h].at \in 0 .. MaxFix
      BY DEF FriendTypeOK, Fix
    <3>2. place[h].at + 1 \in 0 .. MaxFix
      BY <1>3, <3>1, PartyTypes, FixesAssumption DEF Moved
    <3> QED BY <3>2, FixTypes
  <2>2. [of |-> h, fix |-> fix] \in Update
    BY <2>1 DEF Update
  <2>3. place' \in [Friends -> Fix] /\ coding' \subseteq Update /\ channel' \in Seq(Update)
    BY <1>3, <2>1, <2>2, SentTypes DEF Moved, FriendTypeOK
  <2> QED BY <1>3, <2>3 DEF Moved, FriendTypeOK
<1>4. ASSUME NEW u \in Update, NEW found \in BOOLEAN, Geocoded(u, found) PROVE FriendTypeOK'
  <2>1. [u EXCEPT !.fix.real = found] \in Update
    BY DEF Update, Fix
  <2>2. channel' \in Seq(Update)
    BY <1>4, <2>1, SentTypes DEF Geocoded
  <2> QED BY <1>4, <2>2 DEF Geocoded, FriendTypeOK
<1> QED BY <1>1, <1>2, <1>3, <1>4

LEMMA StepTypes == FriendTypeOK /\ [FriendStep]_friendVars => FriendTypeOK'
<1> SUFFICES ASSUME FriendTypeOK, [FriendStep]_friendVars PROVE FriendTypeOK'
  OBVIOUS
<1>1. CASE FriendStep
  BY <1>1, RouteTypes, HelperTypes, EventTypes DEF FriendStep
<1>2. CASE UNCHANGED friendVars
  BY <1>2 DEF friendVars, helperVars, serverVars, FriendTypeOK
<1> QED BY <1>1, <1>2

----------------------------------------------------------------------------
\* One answer.

LEMMA StepOnce == FriendTypeOK /\ AnsweredOnce /\ [FriendStep]_friendVars => AnsweredOnce'
<1> SUFFICES ASSUME FriendTypeOK, AnsweredOnce, [FriendStep]_friendVars PROVE AnsweredOnce'
  OBVIOUS
<1>1. answers \in [Refreshes -> Nat]
  BY DEF FriendTypeOK
<1>2. ASSUME NEW k \in Refreshes, NEW found, Respond(k, found) PROVE AnsweredOnce'
  BY <1>1, <1>2 DEF AnsweredOnce, Respond
<1>3. ASSUME answers' = answers PROVE AnsweredOnce'
  BY <1>3 DEF AnsweredOnce
<1>4. ASSUME NEW k \in Refreshes,
             NobodyShares(k) \/ Alarm(k) \/ \E w \in Ways : AllCounted(k, w)
      PROVE  AnsweredOnce'
  BY <1>2, <1>4 DEF NobodyShares, Alarm, AllCounted
<1>5. ASSUME NEW k \in Refreshes,
             \/ AskFriends(k) \/ ServeFriends(k) \/ RefreshFails(k) \/ ApplyRefresh(k) \/ Collect(k)
             \/ \E h \in Friends : LookUp(k, h) \/ Report(k, h)
             \/ \E w \in Ways : Count(k, w)
      PROVE  answers' = answers
  BY <1>5 DEF AskFriends, ServeFriends, RefreshFails, ApplyRefresh, Collect, LookUp, Report, Count,
              helperVars
<1>6. ASSUME \/ FriendsAge \/ OnEvent
             \/ \E h \in Friends, address \in BOOLEAN : Moved(h, address)
             \/ \E u \in Update, found \in BOOLEAN : Geocoded(u, found)
      PROVE  answers' = answers
  BY <1>6 DEF FriendsAge, OnEvent, Moved, Geocoded, helperVars
<1>7. UNCHANGED friendVars => answers' = answers
  BY DEF friendVars, helperVars
<1> QED BY <1>3, <1>4, <1>5, <1>6, <1>7 DEF FriendStep

----------------------------------------------------------------------------
\* What a request leaves alone until it is made.

Still(k) ==
    /\ helper[k] = "off" /\ ~alarm[k] /\ listening # k /\ last # k
    /\ \A j \in Refreshes : kept[j] # k
    /\ \A w \in Ways : thread[k][w] = Idle
    /\ \A h \in Friends : located[k][h] = NoFix /\ answer[k][h] = NoFix

LEMMA StepUntouched == FriendTypeOK /\ Untouched /\ [FriendStep]_friendVars => Untouched'
<1> SUFFICES ASSUME FriendTypeOK, Untouched, [FriendStep]_friendVars,
                    NEW k \in Refreshes, stage'[k] = "idle"
             PROVE  Still(k)'
  BY DEF Untouched, Still
<1>1. stage \in [Refreshes -> {"idle", "asked", "done", "failed"}]
  BY DEF FriendTypeOK
<1>2. /\ helper \in [Refreshes -> {"off", "listing", "collecting"}] /\ alarm \in [Refreshes -> BOOLEAN]
      /\ kept \in [Refreshes -> Refreshes \cup {Original}]
      /\ thread \in [Refreshes -> [Ways -> Doing]]
      /\ located \in [Refreshes -> [Friends -> Fix]] /\ answer \in [Refreshes -> [Friends -> Fix]]
  BY DEF FriendTypeOK
<1>3. ASSUME stage[k] = "idle" PROVE Still(k)
  BY <1>3 DEF Untouched, Still
\* The request is another's.
<1>4. ASSUME NEW r \in Refreshes,
             AskFriends(r) \/ ServeFriends(r) \/ RefreshFails(r) \/ ApplyRefresh(r)
      PROVE  Still(k)'
  <2>1. r # k /\ stage[k] = "idle"
    BY <1>1, <1>4 DEF AskFriends, ServeFriends, RefreshFails, ApplyRefresh
  <2>2. Still(k)
    BY <1>3, <2>1
  <2>3. /\ helper'[k] = helper[k] /\ last' \in {last, r}
        /\ UNCHANGED <<alarm, listening, kept, thread, located, answer>>
    BY <1>2, <1>4, <2>1 DEF AskFriends, ServeFriends, RefreshFails, ApplyRefresh, helperVars
  <2> QED BY <2>1, <2>2, <2>3 DEF Still
\* The helper works for another, and touches nothing that is k's.
<1>5. ASSUME NEW r \in Refreshes,
             \/ NobodyShares(r) \/ Collect(r) \/ Alarm(r)
             \/ \E h \in Friends : LookUp(r, h) \/ Report(r, h)
             \/ \E w \in Ways : Count(r, w) \/ AllCounted(r, w)
      PROVE  Still(k)'
  <2>1. stage' = stage /\ last' = last
    BY <1>5 DEF NobodyShares, Collect, Alarm, LookUp, Report, Count, AllCounted, serverVars
  <2>2. Still(k)
    BY <1>3, <2>1
  <2>3. r # k
    <3>1. NobodyShares(r) \/ Collect(r) \/ (\E h \in Friends : LookUp(r, h)) => helper[r] # "off"
      BY DEF NobodyShares, Collect, LookUp
    <3>2. Alarm(r) => alarm[r]
      BY DEF Alarm
    <3>3. (\E h \in Friends : Report(r, h)) => listening = r
      BY DEF Report
    <3>4. ASSUME NEW w \in Ways, Count(r, w) \/ AllCounted(r, w) PROVE thread[r][w] # Idle
      BY <3>4 DEF Count, AllCounted, Idle
    <3> QED BY <1>5, <2>2, <3>1, <3>2, <3>3, <3>4 DEF Still
  <2>4. /\ helper'[k] = helper[k] /\ alarm'[k] = alarm[k]
        /\ listening' \in {listening, r, kept[r]}
        /\ \A j \in Refreshes : kept'[j] \in {kept[j], listening}
    BY <1>2, <1>5, <2>3 DEF NobodyShares, Collect, Alarm, LookUp, Report, Count, AllCounted
  <2>5. thread'[k] = thread[k]
    BY <1>2, <1>5, <2>3
       DEF NobodyShares, Collect, Alarm, LookUp, Report, Count, AllCounted, Turns
  <2>6. located'[k] = located[k]
    BY <1>2, <1>5, <2>3
       DEF NobodyShares, Collect, Alarm, LookUp, Report, Count, AllCounted, Added
  <2>7. answer'[k] = answer[k]
    BY <1>2, <1>5, <2>3
       DEF NobodyShares, Collect, Alarm, LookUp, Report, Count, AllCounted, Respond
  <2> QED BY <2>1, <2>2, <2>3, <2>4, <2>5, <2>6, <2>7 DEF Still
<1>6. ASSUME \/ FriendsAge \/ OnEvent
             \/ \E h \in Friends, address \in BOOLEAN : Moved(h, address)
             \/ \E u \in Update, found \in BOOLEAN : Geocoded(u, found)
             \/ UNCHANGED friendVars
      PROVE  Still(k)'
  <2>1. stage' = stage /\ last' = last /\ UNCHANGED helperVars
    BY <1>6 DEF FriendsAge, OnEvent, Moved, Geocoded, serverVars, friendVars
  <2> QED BY <1>3, <2>1 DEF helperVars, Still
<1> QED BY <1>4, <1>5, <1>6 DEF FriendStep

----------------------------------------------------------------------------
\* What a refresh gathers was true after it was asked for.

LEMMA StepGathered ==
  FriendTypeOK /\ Untouched /\ Gathered /\ [FriendStep]_friendVars => Gathered'
<1> SUFFICES ASSUME FriendTypeOK, Untouched, Gathered, [FriendStep]_friendVars,
                    NEW k \in Refreshes, NEW h \in Friends
             PROVE  /\ since'[k][h] <= place'[h].at
                    /\ located'[k][h] # NoFix => located'[k][h].at >= since'[k][h]
                    /\ answer'[k][h] # NoFix => answer'[k][h].at >= since'[k][h]
  BY DEF Gathered
<1>1. /\ since \in [Refreshes -> [Friends -> 0 .. MaxFix]] /\ place \in [Friends -> Fix]
      /\ located \in [Refreshes -> [Friends -> Fix]] /\ answer \in [Refreshes -> [Friends -> Fix]]
  BY DEF FriendTypeOK
<1>2. place[h].at \in Nat /\ since[k][h] \in Nat
  BY <1>1, FixesAssumption DEF Fix
<1>3. /\ since[k][h] <= place[h].at
      /\ located[k][h] # NoFix => located[k][h].at >= since[k][h]
      /\ answer[k][h] # NoFix => answer[k][h].at >= since[k][h]
  BY DEF Gathered
<1>4. ASSUME NEW r \in Refreshes, AskFriends(r)
      PROVE  /\ UNCHANGED <<place, located, answer>>
             /\ since'[k] = since[k] \/ (since'[k][h] = place[h].at /\ stage[k] = "idle")
  <2>1. since' = [since EXCEPT ![r] = [j \in Friends |-> place[j].at]]
    BY <1>4 DEF AskFriends
  <2>2. stage[r] = "idle" /\ UNCHANGED <<place, located, answer>>
    BY <1>4 DEF AskFriends
  <2>3. CASE r = k
    <3>1. since'[k] = [j \in Friends |-> place[j].at]
      BY <1>1, <2>1, <2>3
    <3>2. since'[k][h] = place[h].at
      BY <3>1
    <3> QED BY <2>2, <2>3, <3>2
  <2>4. CASE r # k
    <3>1. since'[k] = since[k]
      BY <1>1, <2>1, <2>4
    <3> QED BY <2>2, <3>1
  <2> QED BY <2>3, <2>4
<1>5. stage[k] = "idle" => located[k][h] = NoFix /\ answer[k][h] = NoFix
  BY DEF Untouched
<1>6. ASSUME NEW r \in Refreshes, NobodyShares(r) \/ Alarm(r) \/ \E w \in Ways : AllCounted(r, w)
      PROVE  /\ UNCHANGED <<place, located, since>>
             /\ answer'[k][h] \in {answer[k][h], NoFix, located[k][h]}
  <2>1. UNCHANGED <<place, located, since>>
    BY <1>6 DEF NobodyShares, Alarm, AllCounted, serverVars
  <2>2. Respond(r, [j \in Friends |-> NoFix]) \/ Respond(r, located[r])
    BY <1>6 DEF NobodyShares, Alarm, AllCounted
  <2>3. ASSUME NEW found \in [Friends -> Fix], Respond(r, found)
        PROVE  answer'[k] \in {answer[k], IF k = r THEN found ELSE answer[k]}
    BY <1>1, <2>3 DEF Respond
  <2>4. [j \in Friends |-> NoFix] \in [Friends -> Fix] /\ located[r] \in [Friends -> Fix]
    BY <1>1, FixesAssumption DEF Fix, NoFix
  <2>5. answer'[k] \in {answer[k], [j \in Friends |-> NoFix], located[k]}
    BY <2>2, <2>3, <2>4
  <2> QED BY <2>1, <2>5
<1>7. ASSUME NEW r \in Refreshes, \E j \in Friends : LookUp(r, j) \/ Report(r, j)
      PROVE  /\ UNCHANGED <<place, answer, since>>
             /\ located'[k][h] \in {located[k][h], place[h]}
  BY <1>1, <1>7 DEF LookUp, Report, Added, serverVars
<1>8. ASSUME NEW j \in Friends, NEW address \in BOOLEAN, Moved(j, address)
      PROVE  /\ UNCHANGED <<located, answer, since>>
             /\ place'[h].at \in {place[h].at, place[h].at + 1}
  BY <1>1, <1>8 DEF Moved, helperVars, serverVars
<1>9. ASSUME \/ \E r \in Refreshes :
                    \/ ServeFriends(r) \/ RefreshFails(r) \/ ApplyRefresh(r) \/ Collect(r)
                    \/ \E w \in Ways : Count(r, w)
             \/ FriendsAge \/ OnEvent
             \/ \E u \in Update, found \in BOOLEAN : Geocoded(u, found)
             \/ UNCHANGED friendVars
      PROVE  UNCHANGED <<place, located, answer, since>>
  BY <1>9 DEF ServeFriends, RefreshFails, ApplyRefresh, Collect, Count, FriendsAge, OnEvent, Geocoded,
              friendVars, helperVars, serverVars
<1>10. CASE \E r \in Refreshes : AskFriends(r)
  BY <1>2, <1>3, <1>4, <1>5, <1>10
<1>11. CASE \E r \in Refreshes : NobodyShares(r) \/ Alarm(r) \/ \E w \in Ways : AllCounted(r, w)
  BY <1>3, <1>6, <1>11
<1>12. CASE \E r \in Refreshes, j \in Friends : LookUp(r, j) \/ Report(r, j)
  BY <1>3, <1>7, <1>12
<1>13. CASE \E j \in Friends, address \in BOOLEAN : Moved(j, address)
  BY <1>2, <1>3, <1>8, <1>13
<1>14. CASE UNCHANGED <<place, located, answer, since>>
  BY <1>3, <1>14
<1> QED BY <1>9, <1>10, <1>11, <1>12, <1>13, <1>14 DEF FriendStep

----------------------------------------------------------------------------
\* The cache and the refresh applied last.

\* What was answered stays answered, and as it was.
LEMMA StepAnswered ==
  ASSUME FriendTypeOK, [FriendStep]_friendVars, NEW k \in Refreshes, answers[k] # 0
  PROVE  answers'[k] # 0 /\ answer'[k] = answer[k]
<1>1. /\ answers \in [Refreshes -> Nat] /\ answer \in [Refreshes -> [Friends -> Fix]]
  BY DEF FriendTypeOK
<1>2. ASSUME NEW r \in Refreshes, NEW found, Respond(r, found)
      PROVE  answers'[k] # 0 /\ answer'[k] = answer[k]
  BY <1>1, <1>2 DEF Respond
<1>3. CASE \E r \in Refreshes : NobodyShares(r) \/ Alarm(r) \/ \E w \in Ways : AllCounted(r, w)
  BY <1>2, <1>3 DEF NobodyShares, Alarm, AllCounted
<1>4. CASE \E r \in Refreshes :
              \/ AskFriends(r) \/ ServeFriends(r) \/ RefreshFails(r) \/ ApplyRefresh(r) \/ Collect(r)
              \/ \E h \in Friends : LookUp(r, h) \/ Report(r, h)
              \/ \E w \in Ways : Count(r, w)
  BY <1>4 DEF AskFriends, ServeFriends, RefreshFails, ApplyRefresh, Collect, LookUp, Report, Count,
              helperVars
<1>5. CASE \/ FriendsAge \/ OnEvent
           \/ \E h \in Friends, address \in BOOLEAN : Moved(h, address)
           \/ \E u \in Update, found \in BOOLEAN : Geocoded(u, found)
           \/ UNCHANGED friendVars
  BY <1>5 DEF FriendsAge, OnEvent, Moved, Geocoded, friendVars, helperVars
<1> QED BY <1>3, <1>4, <1>5 DEF FriendStep

LEMMA StepFresh ==
  FriendTypeOK /\ FreshInv /\ [FriendStep]_friendVars => Applied' /\ FreshSince'
<1> SUFFICES ASSUME FriendTypeOK, Untouched, Gathered, Applied, FreshSince, [FriendStep]_friendVars
             PROVE  Applied' /\ FreshSince'
  BY DEF FreshInv
<1>1. /\ since \in [Refreshes -> [Friends -> 0 .. MaxFix]] /\ friends \in [Friends -> Fix]
      /\ answer \in [Refreshes -> [Friends -> Fix]] /\ last \in Refreshes \cup {Original}
      /\ channel \in Seq(Update)
  BY DEF FriendTypeOK
<1>2. Original \notin Refreshes
  BY FriendsAssumption
\* A refresh is applied.
<1>3. ASSUME NEW k \in Refreshes, ApplyRefresh(k) PROVE Applied' /\ FreshSince'
  <2>1. /\ last' = k /\ friends' = answer[k] /\ answers[k] # 0
        /\ UNCHANGED <<answer, answers, since>>
    BY <1>3 DEF ApplyRefresh, helperVars
  <2>2. \A h \in Friends : answer[k][h] # NoFix => answer[k][h].at >= since[k][h]
    BY DEF Gathered
  <2> QED BY <2>1, <2>2 DEF Applied, FreshSince
\* Any other step leaves the last refresh, its answer and its start.
<1>4. ASSUME last' = last, \A k \in Refreshes : last = k => since'[k] = since[k],
             \A h \in Friends : friends'[h].at >= friends[h].at \/ friends[h] = NoFix,
             \A h \in Friends : friends'[h].at \in Nat
      PROVE  Applied' /\ FreshSince'
  <2>1. CASE last = Original
    BY <1>4, <2>1 DEF Applied, FreshSince
  <2>2. CASE last # Original
    <3>1. last \in Refreshes /\ answers[last] # 0
      BY <2>2 DEF Applied
    <3>2. answers'[last] # 0 /\ answer'[last] = answer[last] /\ since'[last] = since[last]
      BY <1>4, <3>1, StepAnswered
    <3>3. ASSUME NEW h \in Friends, answer[last][h] # NoFix
          PROVE  friends'[h].at >= since[last][h]
      <4>1. friends[h].at >= since[last][h]
        BY <2>2, <3>3 DEF FreshSince
      <4>2. since[last][h] \in Nat /\ friends[h].at \in Nat
        BY <1>1, <3>1, FixesAssumption DEF Fix
      <4>3. CASE friends[h] = NoFix
        BY <1>4, <4>1, <4>2, <4>3 DEF NoFix
      <4>4. CASE friends'[h].at >= friends[h].at
        BY <1>4, <4>1, <4>2, <4>4
      <4> QED BY <1>4, <4>3, <4>4
    <3> QED BY <1>4, <3>1, <3>2, <3>3 DEF Applied, FreshSince
  <2> QED BY <2>1, <2>2
<1>5. \A h \in Friends : friends[h].at \in Nat
  BY <1>1, FixesAssumption DEF Fix
<1>6. ASSUME NEW k \in Refreshes, AskFriends(k)
      PROVE  last' = last /\ friends' = friends /\ \A j \in Refreshes : last = j => since'[j] = since[j]
  <2>1. last # k
    BY <1>6 DEF AskFriends, Untouched
  <2> QED BY <1>1, <1>6, <2>1 DEF AskFriends
<1>7. CASE OnEvent
  <2> DEFINE u == Head(channel)
  <2>1. u \in Update
    BY <1>1, <1>7 DEF OnEvent
  <2>2. friends' = friends \/ (Accepted(u) /\ friends' = [friends EXCEPT ![u.of] = u.fix])
    <3>1. friends' = IF Accepted(u) THEN [friends EXCEPT ![u.of] = u.fix] ELSE friends
      BY <1>7 DEF OnEvent
    <3> QED BY <3>1
  <2>6. u.of \in Friends /\ u.fix.at \in Nat
    BY <2>1, FixesAssumption DEF Update, Fix
  <2>3. \A h \in Friends : friends'[h].at >= friends[h].at \/ friends[h] = NoFix
    <3>1. Accepted(u) => friends[u.of] = NoFix \/ u.fix.at >= friends[u.of].at
      BY Zenon DEF Accepted
    <3>2. CASE friends' = friends
      BY <1>5, <3>2
    <3>3. CASE /\ friends[u.of] = NoFix \/ u.fix.at >= friends[u.of].at
               /\ friends' = [friends EXCEPT ![u.of] = u.fix]
      BY <1>1, <1>5, <2>6, <3>3
    <3> QED BY <2>2, <3>1, <3>2, <3>3
  <2>4. \A h \in Friends : friends'[h].at \in Nat
    BY <1>1, <1>5, <2>6, <2>2
  <2>5. last' = last /\ since' = since
    BY <1>7 DEF OnEvent
  <2> QED BY <1>4, <2>3, <2>4, <2>5
<1>8. ASSUME \/ \E k \in Refreshes :
                    \/ ServeFriends(k) \/ RefreshFails(k) \/ NobodyShares(k) \/ Collect(k) \/ Alarm(k)
                    \/ \E h \in Friends : LookUp(k, h) \/ Report(k, h)
                    \/ \E w \in Ways : Count(k, w) \/ AllCounted(k, w)
             \/ FriendsAge
             \/ \E h \in Friends, address \in BOOLEAN : Moved(h, address)
             \/ \E w \in Update, found \in BOOLEAN : Geocoded(w, found)
             \/ UNCHANGED friendVars
      PROVE  UNCHANGED <<friends, since, last>>
  <2>1. ASSUME NEW k \in Refreshes,
               \/ NobodyShares(k) \/ Collect(k) \/ Alarm(k)
               \/ \E h \in Friends : LookUp(k, h) \/ Report(k, h)
               \/ \E w \in Ways : Count(k, w) \/ AllCounted(k, w)
        PROVE  UNCHANGED <<friends, since, last>>
    BY <2>1 DEF NobodyShares, Collect, Alarm, LookUp, Report, Count, AllCounted, serverVars
  <2>2. ASSUME NEW k \in Refreshes, ServeFriends(k) \/ RefreshFails(k)
        PROVE  UNCHANGED <<friends, since, last>>
    BY <2>2 DEF ServeFriends, RefreshFails
  <2>3. ASSUME \/ FriendsAge \/ UNCHANGED friendVars
               \/ \E h \in Friends, address \in BOOLEAN : Moved(h, address)
               \/ \E w \in Update, found \in BOOLEAN : Geocoded(w, found)
        PROVE  UNCHANGED <<friends, since, last>>
    BY <2>3 DEF FriendsAge, Moved, Geocoded, friendVars, serverVars
  <2> QED BY <1>8, <2>1, <2>2, <2>3
<1>9. ASSUME UNCHANGED <<friends, since, last>> PROVE Applied' /\ FreshSince'
  BY <1>4, <1>5, <1>9
<1>10. ASSUME NEW k \in Refreshes, AskFriends(k) PROVE Applied' /\ FreshSince'
  BY <1>4, <1>5, <1>6, <1>10
<1> QED BY <1>3, <1>7, <1>8, <1>9, <1>10 DEF FriendStep

----------------------------------------------------------------------------
\* The threads that count, and the answers sent before the timer.

Sound(k, w) ==
    /\ thread[k][w].step # "idle" => Covered(k, thread[k][w].of)
    /\ thread[k][w].step = "full" => party.sharing \subseteq counted[k]

LEMMA ThreadTypes ==
  ASSUME FriendTypeOK, NEW k \in Refreshes, NEW w \in Ways, thread[k][w].step # "idle"
  PROVE  thread[k][w].of \in Friends
<1>1. thread[k][w] \in Doing
  BY DEF FriendTypeOK
<1> QED BY <1>1 DEF Doing, Idle

\* A friend that is in stays in.
LEMMA StepCovered ==
  ASSUME FriendTypeOK, [FriendStep]_friendVars, NEW k \in Refreshes, NEW h \in Friends, Covered(k, h)
  PROVE  Covered(k, h)'
<1>1. /\ located \in [Refreshes -> [Friends -> Fix]] /\ blank \in [Refreshes -> SUBSET Friends]
      /\ place \in [Friends -> Fix]
  BY DEF FriendTypeOK
<1>2. answers[k] # 0 => answers'[k] # 0
  BY StepAnswered
<1>3. ASSUME NEW r \in Refreshes, NEW j \in Friends, LookUp(r, j) \/ Report(r, j)
      PROVE  /\ blank[k] \subseteq blank'[k]
             /\ located'[k][h] = located[k][h] \/ located'[k][h].at # 0
  <2>1. located' = located \/ (located' = [located EXCEPT ![r][j] = place[j]] /\ place[j].at # 0)
    BY <1>3 DEF LookUp, Report, Added
  <2>2. blank' = blank \/ blank' = [blank EXCEPT ![r] = @ \cup {j}]
    BY <1>3 DEF LookUp, Report
  <2> QED BY <1>1, <2>1, <2>2
<1>4. CASE \E r \in Refreshes :
              \/ AskFriends(r) \/ ServeFriends(r) \/ RefreshFails(r) \/ ApplyRefresh(r)
              \/ NobodyShares(r) \/ Collect(r) \/ Alarm(r)
              \/ \E w \in Ways : Count(r, w) \/ AllCounted(r, w)
  <2>1. UNCHANGED <<located, blank>>
    BY <1>4 DEF AskFriends, ServeFriends, RefreshFails, ApplyRefresh, NobodyShares, Collect, Alarm,
                Count, AllCounted, helperVars
  <2> QED BY <1>2, <2>1 DEF Covered
<1>5. CASE \/ FriendsAge \/ OnEvent
           \/ \E j \in Friends, address \in BOOLEAN : Moved(j, address)
           \/ \E u \in Update, found \in BOOLEAN : Geocoded(u, found)
           \/ UNCHANGED friendVars
  <2>1. UNCHANGED <<located, blank>>
    BY <1>5 DEF FriendsAge, OnEvent, Moved, Geocoded, friendVars, helperVars
  <2> QED BY <1>2, <2>1 DEF Covered
<1>6. CASE \E r \in Refreshes, j \in Friends : LookUp(r, j) \/ Report(r, j)
  BY <1>2, <1>3, <1>6 DEF Covered, NoFix
<1> QED BY <1>4, <1>5, <1>6 DEF FriendStep

\* A thread that does not move stays sound.
LEMMA StepSound ==
  ASSUME FriendTypeOK, [FriendStep]_friendVars, NEW k \in Refreshes, NEW w \in Ways, Sound(k, w),
         thread'[k][w] = thread[k][w], counted[k] \subseteq counted'[k], party' = party
  PROVE  Sound(k, w)'
<1>1. CASE thread[k][w].step = "idle"
  BY <1>1 DEF Sound
<1>2. CASE thread[k][w].step # "idle"
  <2>1. thread[k][w].of \in Friends
    BY <1>2, ThreadTypes
  <2>2. Covered(k, thread[k][w].of)'
    BY <1>2, <2>1, StepCovered DEF Sound, Covered
  <2> QED BY <2>2 DEF Sound
<1> QED BY <1>1, <1>2

LEMMA StepComplete ==
  FriendTypeOK /\ CompleteInv /\ [FriendStep]_friendVars => CompleteInv'
<1> SUFFICES ASSUME FriendTypeOK, Counting, AnswerComplete, [FriendStep]_friendVars
             PROVE  Counting' /\ AnswerComplete'
  BY DEF CompleteInv
<1>1. /\ thread \in [Refreshes -> [Ways -> Doing]] /\ counted \in [Refreshes -> SUBSET Friends]
      /\ answers \in [Refreshes -> Nat] /\ answer \in [Refreshes -> [Friends -> Fix]]
      /\ blank \in [Refreshes -> SUBSET Friends] /\ early \subseteq Refreshes
  BY DEF FriendTypeOK
<1>2. \A k \in Refreshes : \A w \in Ways : Sound(k, w)
  BY DEF Counting, Sound
<1>3. \A k \in Refreshes : \A h \in counted[k] : Covered(k, h)'
  BY <1>1, StepCovered DEF Counting
<1>4. \A k \in early : answers[k] # 0 /\ answers'[k] # 0 /\ answer'[k] = answer[k]
  BY <1>1, StepAnswered DEF Counting
\* What is to be shown, of the threads, the counts and the answers.
<1>5. ASSUME \A k \in Refreshes, w \in Ways : Sound(k, w)',
             \A k \in Refreshes : \A h \in counted'[k] : Covered(k, h)',
             \A k \in early' : answers'[k] # 0
      PROVE  Counting'
  BY <1>5 DEF Counting, Sound
<1>6. ASSUME early' = early, party' = party, \A k \in Refreshes : blank[k] \subseteq blank'[k]
      PROVE  AnswerComplete' /\ \A k \in early' : answers'[k] # 0
  BY <1>1, <1>4, <1>6 DEF AnswerComplete
\* Steps that leave the threads where they are.
<1>7. ASSUME UNCHANGED <<party, thread, counted, blank, early>> PROVE Counting' /\ AnswerComplete'
  <2>1. \A k \in Refreshes, w \in Ways : Sound(k, w)'
    BY <1>2, <1>7, StepSound
  <2> QED BY <1>3, <1>5, <1>6, <1>7, <2>1
<1>8. CASE \E r \in Refreshes :
              \/ AskFriends(r) \/ ServeFriends(r) \/ RefreshFails(r) \/ ApplyRefresh(r)
              \/ NobodyShares(r) \/ Collect(r) \/ Alarm(r)
  <2>1. UNCHANGED <<party, thread, counted, blank, early>>
    BY <1>8 DEF AskFriends, ServeFriends, RefreshFails, ApplyRefresh, NobodyShares, Collect, Alarm,
                helperVars
  <2> QED BY <1>7, <2>1
<1>9. CASE \/ FriendsAge \/ OnEvent
           \/ \E h \in Friends, address \in BOOLEAN : Moved(h, address)
           \/ \E u \in Update, found \in BOOLEAN : Geocoded(u, found)
           \/ UNCHANGED friendVars
  <2>1. UNCHANGED <<party, thread, counted, blank, early>>
    BY <1>9 DEF FriendsAge, OnEvent, Moved, Geocoded, friendVars, helperVars
  <2> QED BY <1>7, <2>1
\* A thread adds a friend.
<1>10. ASSUME NEW r \in Refreshes, NEW h \in Friends, NEW v \in Ways,
              Turns(r, v, "added", h), Covered(r, h)',
              UNCHANGED <<party, counted, early>>, \A k \in Refreshes : blank[k] \subseteq blank'[k]
       PROVE  Counting' /\ AnswerComplete'
  <2>1. ASSUME NEW k \in Refreshes, NEW w \in Ways, k # r \/ w # v PROVE Sound(k, w)'
    <3>1. thread'[k][w] = thread[k][w]
      BY <1>1, <1>10, <2>1 DEF Turns
    <3> QED BY <1>2, <1>10, <3>1, StepSound
  <2>2. Sound(r, v)'
    <3>1. thread'[r][v] = [step |-> "added", of |-> h]
      BY <1>1, <1>10 DEF Turns
    <3> QED BY <1>10, <3>1 DEF Sound, Covered
  <2>3. \A k \in Refreshes, w \in Ways : Sound(k, w)'
    BY <2>1, <2>2
  <2> QED BY <1>3, <1>5, <1>6, <1>10, <2>3
<1>11. ASSUME NEW r \in Refreshes, NEW h \in Friends, LookUp(r, h) PROVE Counting' /\ AnswerComplete'
  <2>1. Covered(r, h)'
    <3>1. place[h].at # 0 /\ located \in [Refreshes -> [Friends -> Fix]] /\ answers' = answers
      BY <1>11 DEF LookUp, FriendTypeOK
    <3> QED BY <1>11, <3>1 DEF LookUp, Added, Covered, NoFix
  <2> QED BY <1>10, <1>11, <2>1 DEF LookUp, Ways
<1>12. ASSUME NEW r \in Refreshes, NEW h \in Friends, Report(r, h) PROVE Counting' /\ AnswerComplete'
  <2>1. CASE place[h].at # 0
    <3>1. located \in [Refreshes -> [Friends -> Fix]] /\ UNCHANGED <<answers, blank>>
      BY <1>12, <2>1 DEF Report, FriendTypeOK
    <3>2. Covered(r, h)'
      BY <1>12, <2>1, <3>1 DEF Report, Added, Covered, NoFix
    <3> QED BY <1>10, <1>12, <3>1, <3>2 DEF Report, Ways
  <2>2. CASE place[h].at = 0
    <3>1. blank' = [blank EXCEPT ![r] = @ \cup {h}]
      BY <1>12, <2>2 DEF Report
    <3>2. Covered(r, h)' /\ \A k \in Refreshes : blank[k] \subseteq blank'[k]
      BY <1>1, <3>1 DEF Covered
    <3> QED BY <1>10, <1>12, <3>2 DEF Report, Ways
  <2> QED BY <2>1, <2>2
\* A thread counts its friend.
<1>13. ASSUME NEW r \in Refreshes, NEW v \in Ways, Count(r, v) PROVE Counting' /\ AnswerComplete'
  <2>1. thread[r][v].step = "added" /\ UNCHANGED <<party, early, blank>>
    BY <1>13 DEF Count
  <2>0. PICK h \in Friends : h = thread[r][v].of
    BY <2>1, ThreadTypes
  <2>2. Covered(r, h)
    BY <1>2, <2>1, <2>0 DEF Sound
  <2>3. Covered(r, h)'
    BY <2>2, StepCovered
  <2>4. counted' = [counted EXCEPT ![r] = counted[r] \cup {h}]
    BY <1>13, <2>0 DEF Count
  <2>5. \A k \in Refreshes : \A j \in counted'[k] : Covered(k, j)'
    <3>1. ASSUME NEW k \in Refreshes, NEW j \in counted'[k] PROVE Covered(k, j)'
      <4>1. j \in counted[k] \/ (k = r /\ j = h)
        BY <1>1, <2>4
      <4> QED BY <1>3, <2>3, <4>1 DEF Covered
    <3> QED BY <3>1
  <2>6. ASSUME NEW k \in Refreshes, NEW w \in Ways, k # r \/ w # v PROVE Sound(k, w)'
    <3>1. thread'[k][w] = thread[k][w]
      BY <1>1, <1>13, <2>6 DEF Count, Turns
    <3>2. counted[k] \subseteq counted'[k]
      BY <1>1, <2>4
    <3> QED BY <1>2, <2>1, <3>1, <3>2, StepSound
  <2>7. Sound(r, v)'
    <3>1. CASE AllIn(counted[r] \cup {h})
      <4>0. thread' = [thread EXCEPT ![r][v] = [step |-> "full", of |-> h]]
        BY <1>13, <2>0, <3>1 DEF Count, Turns
      <4>1. thread'[r][v] = [step |-> "full", of |-> h]
        BY <1>1, <4>0
      <4>2. party'.sharing \subseteq counted'[r]
        BY <1>1, <2>1, <2>4, <3>1 DEF AllIn
      <4> QED BY <2>3, <4>1, <4>2 DEF Sound, Covered
    <3>2. CASE ~AllIn(counted[r] \cup {h})
      <4>0. thread' = [thread EXCEPT ![r][v] = Idle]
        BY <1>13, <2>0, <3>2 DEF Count
      <4>1. thread'[r][v] = Idle
        BY <1>1, <4>0
      <4> QED BY <4>1 DEF Sound, Idle
    <3> QED BY <3>1, <3>2
  <2>8. \A k \in Refreshes, w \in Ways : Sound(k, w)'
    BY <2>6, <2>7
  <2> QED BY <1>5, <1>6, <2>1, <2>5, <2>8
\* A thread that has found all counted answers.
<1>14. ASSUME NEW r \in Refreshes, NEW v \in Ways, AllCounted(r, v) PROVE Counting' /\ AnswerComplete'
  <2>1. /\ thread[r][v].step = "full" /\ UNCHANGED <<party, counted, blank>>
        /\ thread' = [thread EXCEPT ![r][v] = Idle]
        /\ early' = IF answers[r] = 0 THEN early \cup {r} ELSE early
    BY <1>14 DEF AllCounted
  <2>2. ASSUME NEW k \in Refreshes, NEW w \in Ways PROVE Sound(k, w)'
    <3>1. CASE k = r /\ w = v
      <4>1. thread'[k][w] = Idle
        BY <1>1, <2>1, <3>1
      <4> QED BY <4>1 DEF Sound, Idle
    <3>2. CASE k # r \/ w # v
      <4>1. thread'[k][w] = thread[k][w]
        BY <1>1, <2>1, <3>2
      <4> QED BY <1>2, <2>1, <4>1, StepSound
    <3> QED BY <3>1, <3>2
  <2>3. \A k \in Refreshes : \A h \in counted'[k] : Covered(k, h)'
    BY <1>3, <2>1
  <2>4. CASE answers[r] # 0
    <3>1. early' = early
      BY <2>1, <2>4
    <3> QED BY <1>5, <1>6, <2>1, <2>2, <2>3, <3>1
  <2>5. CASE answers[r] = 0
    <3>1. answers'[r] = 1 /\ answer'[r] = located[r]
      BY <1>1, <1>14, <2>5 DEF AllCounted, Respond
    <3>2. party.sharing \subseteq counted[r]
      BY <1>2, <2>1 DEF Sound
    <3>3. \A h \in party.sharing \ blank[r] : located[r][h] # NoFix
      BY <2>5, <3>2 DEF Counting, Covered
    <3>4. \A k \in early' : answers'[k] # 0
      BY <1>4, <2>1, <3>1
    <3>5. AnswerComplete'
      BY <1>4, <2>1, <3>1, <3>3 DEF AnswerComplete
    <3> QED BY <1>5, <2>2, <2>3, <3>4, <3>5
  <2> QED BY <2>4, <2>5
<1> QED BY <1>7, <1>8, <1>9, <1>11, <1>12, <1>13, <1>14 DEF FriendStep

----------------------------------------------------------------------------
\* The theorems.

FriendInv == FriendTypeOK /\ AnsweredOnce /\ FreshInv /\ CompleteInv

LEMMA InitInv == FriendInit => FriendInv
<1> SUFFICES ASSUME FriendInit PROVE FriendInv
  OBVIOUS
<1>1. FriendTypeOK
  BY InitTypes
<1>2. AnsweredOnce
  BY DEF FriendInit, AnsweredOnce
<1>3. FreshInv
  BY FriendsAssumption, FixesAssumption
  DEF FriendInit, FreshInv, Untouched, Gathered, Applied, FreshSince, NoFix
<1>4. CompleteInv
  BY DEF FriendInit, CompleteInv, Counting, AnswerComplete, Covered, Idle
<1> QED BY <1>1, <1>2, <1>3, <1>4 DEF FriendInv

LEMMA StepInv == FriendInv /\ [FriendStep]_friendVars => FriendInv'
<1> SUFFICES ASSUME FriendInv, [FriendStep]_friendVars PROVE FriendInv'
  OBVIOUS
<1>1. FriendTypeOK'
  BY StepTypes DEF FriendInv
<1>2. AnsweredOnce'
  BY StepOnce DEF FriendInv
<1>3. FreshInv'
  BY StepUntouched, StepGathered, StepFresh DEF FriendInv, FreshInv
<1>4. CompleteInv'
  BY StepComplete DEF FriendInv
<1> QED BY <1>1, <1>2, <1>3, <1>4 DEF FriendInv

LEMMA Inductive == FriendSpec => []FriendInv
BY InitInv, StepInv, PTL DEF FriendSpec

\* The variables of the routes, the helper and the event handler keep their types.
THEOREM FriendTypes == FriendSpec => []FriendTypeOK
<1>1. FriendInv => FriendTypeOK
  BY DEF FriendInv
<1> QED BY <1>1, Inductive, PTL

\* The callback, the pass over the cache and the timer never answer a refresh twice
\* (the response box of refreshFindMyFriends).
THEOREM OneAnswer == FriendSpec => []AnsweredOnce
<1>1. FriendInv => AnsweredOnce
  BY DEF FriendInv
<1> QED BY <1>1, Inductive, PTL

\* The cache never shows a friend the last refresh found where the friend was before
\* that refresh was asked for, in whatever order answers and events are applied.
THEOREM NeverStale == FriendSpec => []FreshSince
<1>1. FriendInv => FreshSince
  BY DEF FriendInv, FreshInv
<1> QED BY <1>1, Inductive, PTL

\* An answer sent before the timer holds every friend that was located, however the
\* steps of the two threads that count are interleaved.
THEOREM CompleteEarly == FriendSpec => []AnswerComplete
<1>1. FriendInv => AnswerComplete
  BY DEF FriendInv, CompleteInv
<1> QED BY <1>1, Inductive, PTL
=============================================================================
