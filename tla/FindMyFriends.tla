--------------------------- MODULE FindMyFriends ---------------------------
(***************************************************************************)
(* The locations of friends: the cache in AppState, the routes that refill *)
(* it from the helper's answer, the events that update it between two      *)
(* refreshes, and the helper, which collects the locations of one refresh  *)
(* from a callback it shares with every other, from the session's cache,   *)
(* and gives up after 15 s.  Answers and events travel to different tasks  *)
(* of the server, so neither waits for the other.                          *)
(***************************************************************************)
EXTENDS Naturals, Sequences

CONSTANTS
    Friends,    \* handles that share their location
    Refreshes,  \* requests that may refresh the cache
    Gets,       \* those of them that do so only if the cache is old or empty
    Parties,    \* records: sharing, the friends of a behaviour; vague, those of them whose fixes
                \* are an address without coordinates; asks, its requests; able, whether the
                \* session has the method that refreshes its own cache; fixes, of a friend
    Original,   \* the callback the session had before the helper
    ChanCap,    \* events the broadcast channel keeps (256)
    MaxFix      \* bound: fixes of one friend

ASSUME FriendsAssumption ==
    /\ Gets \subseteq Refreshes /\ Original \notin Refreshes
    /\ Parties \subseteq [sharing : SUBSET Friends, vague : SUBSET Friends, asks : SUBSET Refreshes, able : BOOLEAN, fixes : 0 .. MaxFix]
ASSUME FixesAssumption   == MaxFix \in Nat /\ ChanCap \in Nat \ {0}

VARIABLES
    party,      \* who shares and who asks in this behaviour; never changes
    place,      \* place[h]: the fix Apple's session has of h
    listening,  \* locationUpdateCallback
    \* of refreshFindMyFriends, one call per refresh
    helper,     \* "off", then "listing", then "collecting"
    kept,       \* origCallback
    alarm,      \* the 15 s timer is set
    thread,     \* thread[k][w]: what the callback, or the pass over the cache, is doing
    located,    \* the locations gathered; of two of one friend the later counts
    counted,    \* completedHandles
    answer,     \* the locations in the answer
    answers,    \* how many answers were sent
    \* the server
    stage,      \* of the route: "idle", "asked", "done" or "failed"
    coding,     \* updates whose address is being geocoded
    channel,    \* updates in the broadcast channel
    friends,    \* AppState.findmy_friends_cache
    recent,     \* its last refresh is less than 300 s old
    \* history
    since,      \* since[k]: place when k was asked for
    last,       \* the refresh applied last
    early,      \* refreshes answered before their timer
    blank       \* blank[k]: friends whose report held no location

helperVars == <<listening, helper, kept, alarm, thread, located, counted, answer, answers, early, blank>>
serverVars == <<stage, friends, recent, since, last>>
friendVars == <<party, place, helperVars, serverVars, coding, channel>>

Fix    == [at : 0 .. MaxFix, real : BOOLEAN]
NoFix  == [at |-> 0, real |-> FALSE]
Update == [of : Friends, fix : Fix]
Ways   == {"callback", "cache"}
Idle   == [step |-> "idle"]
Doing  == {Idle} \cup [step : {"added", "full"}, of : Friends]

FriendTypeOK ==
    /\ party \in Parties
    /\ place \in [Friends -> Fix]
    /\ listening \in Refreshes \cup {Original}
    /\ helper \in [Refreshes -> {"off", "listing", "collecting"}]
    /\ kept \in [Refreshes -> Refreshes \cup {Original}]
    /\ alarm \in [Refreshes -> BOOLEAN]
    /\ thread \in [Refreshes -> [Ways -> Doing]]
    /\ located \in [Refreshes -> [Friends -> Fix]]
    /\ counted \in [Refreshes -> SUBSET Friends]
    /\ answer \in [Refreshes -> [Friends -> Fix]]
    /\ answers \in [Refreshes -> Nat]
    /\ stage \in [Refreshes -> {"idle", "asked", "done", "failed"}]
    /\ coding \subseteq Update
    /\ channel \in Seq(Update)
    /\ friends \in [Friends -> Fix]
    /\ recent \in BOOLEAN
    /\ since \in [Refreshes -> [Friends -> 0 .. MaxFix]]
    /\ last \in Refreshes \cup {Original}
    /\ early \subseteq Refreshes
    /\ blank \in [Refreshes -> SUBSET Friends]

FriendInit ==
    /\ party \in Parties
    /\ place = [h \in Friends |-> NoFix]
    /\ listening = Original
    /\ helper = [k \in Refreshes |-> "off"]
    /\ kept = [k \in Refreshes |-> Original]
    /\ alarm = [k \in Refreshes |-> FALSE]
    /\ thread = [k \in Refreshes |-> [w \in Ways |-> Idle]]
    /\ located = [k \in Refreshes |-> [h \in Friends |-> NoFix]]
    /\ counted = [k \in Refreshes |-> {}]
    /\ answer = [k \in Refreshes |-> [h \in Friends |-> NoFix]]
    /\ answers = [k \in Refreshes |-> 0]
    /\ stage = [k \in Refreshes |-> "idle"]
    /\ coding = {}
    /\ channel = << >>
    /\ friends = [h \in Friends |-> NoFix]
    /\ recent = FALSE
    /\ since = [k \in Refreshes |-> [h \in Friends |-> 0]]
    /\ last = Original
    /\ early = {}
    /\ blank = [k \in Refreshes |-> {}]

-----------------------------------------------------------------------------
(* The routes.                                                             *)

NeedsRefresh(k) == k \in Gets => ~recent \/ \A h \in Friends : friends[h] = NoFix

AskFriends(k) ==
    /\ k \in party.asks
    /\ stage[k] = "idle"
    /\ NeedsRefresh(k)
    /\ stage' = [stage EXCEPT ![k] = "asked"]
    /\ helper' = [helper EXCEPT ![k] = "listing"]
    /\ since' = [since EXCEPT ![k] = [h \in Friends |-> place[h].at]]
    /\ UNCHANGED <<party, place, listening, kept, alarm, thread, located, counted, answer, answers, early, blank>>
    /\ UNCHANGED <<friends, recent, last, coding, channel>>

\* The cache is young enough.
ServeFriends(k) ==
    /\ k \in party.asks
    /\ stage[k] = "idle"
    /\ ~NeedsRefresh(k)
    /\ stage' = [stage EXCEPT ![k] = "done"]
    /\ UNCHANGED <<party, place, helperVars, friends, recent, since, last, coding, channel>>

\* No session, no connection, or no answer in time.
RefreshFails(k) ==
    /\ stage[k] = "asked"
    /\ answers[k] = 0
    /\ stage' = [stage EXCEPT ![k] = "failed"]
    /\ UNCHANGED <<party, place, helperVars, friends, recent, since, last, coding, channel>>

\* Under one lock the cache is cleared and filled from the answer.
ApplyRefresh(k) ==
    /\ stage[k] = "asked"
    /\ answers[k] # 0
    /\ stage' = [stage EXCEPT ![k] = "done"]
    /\ friends' = answer[k]
    /\ recent' = TRUE
    /\ last' = k
    /\ UNCHANGED <<party, place, helperVars, since, coding, channel>>

FriendsAge ==
    /\ recent
    /\ recent' = FALSE
    /\ UNCHANGED <<party, place, helperVars, stage, friends, since, last, coding, channel>>

-----------------------------------------------------------------------------
(* The helper: one refresh.                                                *)

\* sendResponse: the box of the refresh lets one answer through.
RespondAgain(k, found) ==  \* mutation
    /\ answers' = [answers EXCEPT ![k] = @ + 1]
    /\ answer' = [answer EXCEPT ![k] = found]
Respond(k, found) ==
    IF answers[k] = 0
    THEN /\ answers' = [answers EXCEPT ![k] = 1]
         /\ answer' = [answer EXCEPT ![k] = found]
    ELSE UNCHANGED <<answers, answer>>

\* The completion of getFriendsSharingLocationsWithMe, with nobody to locate.
NobodyShares(k) ==
    /\ helper[k] = "listing"
    /\ helper' = [helper EXCEPT ![k] = "off"]
    /\ Respond(k, [h \in Friends |-> NoFix])
    /\ UNCHANGED <<party, place, listening, kept, alarm, thread, located, counted, early, blank>>
    /\ UNCHANGED <<serverVars, coding, channel>>

\* With friends: the callback is saved and replaced, the timer set.
Collect(k) ==
    /\ helper[k] = "listing"
    /\ party.sharing # {}
    /\ helper' = [helper EXCEPT ![k] = "collecting"]
    /\ kept' = [kept EXCEPT ![k] = listening]
    /\ alarm' = [alarm EXCEPT ![k] = TRUE]
    /\ listening' = k
    /\ UNCHANGED <<party, place, thread, located, counted, answer, answers, early, blank>>
    /\ UNCHANGED <<serverVars, coding, channel>>

Turns(k, w, step, h) == thread' = [thread EXCEPT ![k][w] = [step |-> step, of |-> h]]

\* Nobody reads what a refresh gathers once it is answered, and it is not kept here.
Added(k, h) ==
    located' = IF answers[k] = 0 THEN [located EXCEPT ![k][h] = place[h]] ELSE located

\* The session reports a friend to the callback it has: the location, if there
\* is one, is added before the friend is counted.
Report(k, h) ==
    /\ listening = k
    /\ h \in party.sharing
    /\ thread[k]["callback"] = Idle
    /\ Turns(k, "callback", "added", h)
    /\ IF place[h].at # 0
       THEN Added(k, h) /\ UNCHANGED blank
       ELSE blank' = [blank EXCEPT ![k] = @ \cup {h}] /\ UNCHANGED located
    /\ UNCHANGED <<party, place, listening, helper, kept, alarm, counted, answer, answers, early>>
    /\ UNCHANGED <<serverVars, coding, channel>>

\* The pass over the friends that have not reported, once the session is done
\* refreshing: a friend it has a location of is added.
LookUp(k, h) ==
    /\ party.able
    /\ helper[k] = "collecting"
    /\ thread[k]["cache"] = Idle
    /\ h \in party.sharing \ counted[k]
    /\ place[h].at # 0
    /\ Turns(k, "cache", "added", h)
    /\ Added(k, h)
    /\ UNCHANGED <<party, place, listening, helper, kept, alarm, counted, answer, answers, early, blank>>
    /\ UNCHANGED <<serverVars, coding, channel>>

AllButOneIn(seen) == \E h \in party.sharing : party.sharing \ {h} \subseteq seen  \* mutation
AllIn(seen)       == party.sharing \subseteq seen

\* The friend is counted, and the count compared with the number of friends.
Count(k, w) ==
    /\ thread[k][w].step = "added"
    /\ LET h == thread[k][w].of
           seen == counted[k] \cup {h}
       IN /\ counted' = [counted EXCEPT ![k] = seen]
          /\ IF AllIn(seen) THEN Turns(k, w, "full", h)
             ELSE thread' = [thread EXCEPT ![k][w] = Idle]
    /\ UNCHANGED <<party, place, listening, helper, kept, alarm, located, answer, answers, early, blank>>
    /\ UNCHANGED <<serverVars, coding, channel>>

\* All have been counted: the saved callback goes back and the answer out.
AllCounted(k, w) ==
    /\ thread[k][w].step = "full"
    /\ thread' = [thread EXCEPT ![k][w] = Idle]
    /\ listening' = kept[k]
    /\ Respond(k, located[k])
    /\ early' = IF answers[k] = 0 THEN early \cup {k} ELSE early
    /\ UNCHANGED <<party, place, helper, kept, alarm, located, counted, blank>>
    /\ UNCHANGED <<serverVars, coding, channel>>

\* After 15 s, whatever has come by then.
Alarm(k) ==
    /\ alarm[k]
    /\ alarm' = [alarm EXCEPT ![k] = FALSE]
    /\ listening' = kept[k]
    /\ Respond(k, located[k])
    /\ UNCHANGED <<party, place, helper, kept, thread, located, counted, early, blank>>
    /\ UNCHANGED <<serverVars, coding, channel>>

-----------------------------------------------------------------------------
(* Events.                                                                 *)

\* A full channel forgets its oldest event.
Sent(u) == channel' = Append(IF Len(channel) = ChanCap THEN Tail(channel) ELSE channel, u)

\* A friend has a new fix and the swizzled session tells the helper, which sends
\* it, or has the address looked up first if the coordinates are zero.
Moved(h, address) ==
    LET fix == [at |-> place[h].at + 1, real |-> h \notin party.vague]
        u   == [of |-> h, fix |-> fix]
    IN
    /\ h \in party.sharing
    /\ place[h].at < party.fixes
    /\ place' = [place EXCEPT ![h] = fix]
    /\ IF h \in party.vague /\ address
       THEN coding' = coding \cup {u} /\ UNCHANGED channel
       ELSE Sent(u) /\ UNCHANGED coding
    /\ UNCHANGED <<party, helperVars, serverVars>>

Geocoded(u, found) ==
    /\ u \in coding
    /\ coding' = coding \ {u}
    /\ Sent([u EXCEPT !.fix.real = found])
    /\ UNCHANGED <<party, place, helperVars, serverVars>>

\* The event handler of main.rs: an older fix, and zero coordinates over real
\* ones, are rejected.
AcceptedAlways(u) == TRUE  \* mutation
Accepted(u) ==
    LET old == friends[u.of]
    IN old = NoFix \/ (u.fix.at >= old.at /\ (old.real => u.fix.real))

OnEvent ==
    /\ channel # << >>
    /\ channel' = Tail(channel)
    /\ LET u == Head(channel) IN
          friends' = IF Accepted(u) THEN [friends EXCEPT ![u.of] = u.fix] ELSE friends
    /\ UNCHANGED <<party, place, helperVars, stage, recent, since, last, coding>>

-----------------------------------------------------------------------------
FriendStep ==
    \/ \E k \in Refreshes :
          \/ AskFriends(k) \/ ServeFriends(k) \/ RefreshFails(k) \/ ApplyRefresh(k)
          \/ NobodyShares(k) \/ Collect(k) \/ Alarm(k)
          \/ \E h \in Friends : LookUp(k, h) \/ Report(k, h)
          \/ \E w \in Ways : Count(k, w) \/ AllCounted(k, w)
    \/ FriendsAge
    \/ \E h \in Friends, address \in BOOLEAN : Moved(h, address)
    \/ \E u \in Update, found \in BOOLEAN : Geocoded(u, found)
    \/ OnEvent

FriendSpec == FriendInit /\ [][FriendStep]_friendVars

-----------------------------------------------------------------------------
(* Properties.                                                             *)

\* A friend the last refresh found is never shown where the friend was before
\* that refresh was asked for, however late the events sent before it come
\* (main.rs, "Reject older timestamps").
FreshSince ==
    last # Original =>
        \A h \in Friends : answer[last][h] # NoFix => friends[h].at >= since[last][h]

\* An answer sent before the timer lacks no friend that was located: the two
\* threads that count never let one of them finish for the other.
AnswerComplete ==
    \A k \in early : \A h \in party.sharing \ blank[k] : answer[k][h] # NoFix

\* The callback, the pass over the cache and the timer answer a refresh once.
AnsweredOnce == \A k \in Refreshes : answers[k] <= 1
=============================================================================
