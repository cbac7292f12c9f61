-------------------------- MODULE FaceTimeSession --------------------------
(***************************************************************************)
(* A FaceTime link and the task behind it, which looks in the notification *)
(* center every second for somebody who asks to join, has the helper admit *)
(* the first it can, waits, and leaves the call.  All tasks read the same  *)
(* notifications.                                                          *)
(*                                                                         *)
(* Time is counted in polls; a timer is what is left of it.  A call of the *)
(* helper waits for the permit and for room in the sockets before its line *)
(* is written, and nothing limits that.                                    *)
(***************************************************************************)
EXTENDS HelperActions, FiniteSets, Naturals

CONSTANTS
    Sessions,      \* requests for a link
    Answering,     \* those of them that answer an incoming call
    Joins,         \* notifications: who asks to join the call of which session
    Lookback,      \* a query looks this far back (5 s)
    AdmitTimeout,  \* how long a task polls (120 s)
    PostAdmitWait, \* and waits after an admission (15 s)
    TxTimeout,     \* life of a transaction (120 s)
    Scenes         \* records: held, the sessions of a behaviour; comers, its notifications

ASSUME SessionsAssumption ==
    /\ Answering \subseteq Sessions
    /\ \A j \in Joins : DOMAIN j = {"who", "to"} /\ j.to \in Sessions
    /\ \A c \in Scenes : c.held \subseteq Sessions /\ c.comers \subseteq Joins /\ IsFiniteSet(c.comers)
ASSUME WaitsAssumption ==
    /\ Lookback \in Nat \ {0, 1} /\ AdmitTimeout \in Nat \ {0}
    /\ PostAdmitWait \in Nat \ {0} /\ TxTimeout \in Nat \ {0}

VARIABLES
    scene,     \* what this behaviour is about; never changes
    task,      \* task[s]: how far the handler and then the task of session s is
    wait,      \* what is left of the sleep or of the transaction it awaits
    left,      \* what is left of AdmitTimeout
    found,     \* the notifications of the last query it has still to look at
    failing,   \* history: queries that failed in a row, at most Lookback
    age,       \* age[j]: how long ago notification j came, 0 before that
    lobby,     \* members that wait to be let in
    joined,    \* sessions whose call this Mac has joined
    approved,  \* history: approved[s], the members the task of s had approved
    watched,   \* history: <<s, j>>, j came while s polled and s has not read it
    up         \* history: up[s], how long the task of s runs while none of its calls waits to be
               \* written, counted to one more than EndsBy

faceVars == <<scene, task, wait, left, found, failing, age, lobby, joined, approved, watched, up>>

Writing == {"asking", "leaving"}  \* a call that has still to be written
Sleepy  == {"polling", "hanging", "answering", "connecting"}
Stages  == {"idle", "answered", "looking", "over", "failed"} \cup Writing \cup Sleepy

FaceTypeOK ==
    /\ scene \in Scenes
    /\ task \in [Sessions -> Stages]
    /\ wait \in [Sessions -> Nat]
    /\ left \in [Sessions -> 0 .. AdmitTimeout]
    /\ found \in [Sessions -> SUBSET Joins]
    /\ failing \in [Sessions -> 0 .. Lookback]
    /\ age \in [Joins -> 0 .. Lookback + 2]
    /\ lobby \subseteq Joins
    /\ joined \subseteq Sessions
    /\ approved \in [Sessions -> SUBSET Joins]
    /\ watched \subseteq Sessions \X Joins
    /\ up \in [Sessions -> Nat]

FaceInit ==
    /\ scene \in Scenes
    /\ task = [s \in Sessions |-> "idle"]
    /\ wait = [s \in Sessions |-> 0]
    /\ left = [s \in Sessions |-> 0]
    /\ found = [s \in Sessions |-> {}]
    /\ failing = [s \in Sessions |-> 0]
    /\ age = [j \in Joins |-> 0]
    /\ lobby = {}
    /\ joined = {}
    /\ approved = [s \in Sessions |-> {}]
    /\ watched = {}
    /\ up = [s \in Sessions |-> 0]

Goes(s, step)      == task' = [task EXCEPT ![s] = step]
Sleeps(s, n)       == wait' = [wait EXCEPT ![s] = n]
StopsWatching(s)   == watched' = {w \in watched : w[1] # s}
calls              == <<scene, age, lobby>>

\* The time a task takes at the most before it leaves, apart from what its calls wait
\* to be written.  It looks at AdmitTimeout only between two queries: the last may
\* come just before, each notification it finds may cost a transaction, and an
\* admission another pause.
EndsBy == AdmitTimeout - 1 + TxTimeout * Cardinality(scene.comers) + PostAdmitWait

-----------------------------------------------------------------------------
(* create_session and answer_call.                                         *)

AnswerIncoming(s) ==
    /\ task[s] = "idle" /\ s \in scene.held \cap Answering
    /\ Goes(s, "answered")
    /\ joined' = joined \cup {s}
    /\ UNCHANGED <<calls, wait, left, found, failing, approved, watched, up>>

\* The link of an answered call comes after a pause; the call of the other is
\* nobody's yet.  The task starts and the route returns.
GetLink(s) ==
    /\ s \in scene.held
    /\ task[s] = IF s \in Answering THEN "answered" ELSE "idle"
    /\ Goes(s, "polling")
    /\ left' = [left EXCEPT ![s] = AdmitTimeout]
    /\ UNCHANGED <<calls, wait, found, failing, joined, approved, watched, up>>

\* The helper refuses, is not there or does not answer; or the link is no link.
NoLink(s) ==
    /\ s \in scene.held /\ task[s] \in {"idle", "answered"}
    /\ Goes(s, "failed")
    /\ UNCHANGED <<calls, wait, left, found, failing, joined, approved, watched, up>>

-----------------------------------------------------------------------------
(* admit_self                                                              *)

SinceLast(j) == age[j] \in {1, 2}  \* mutation: nothing but what came since the last query
Recent(j)    == age[j] \in 1 .. Lookback + 1

\* What the query of s does not return, nor has lost to the failures before it.
Unheard(s) == {w \in watched : w[1] # s \/ (failing[s] < Lookback /\ ~Recent(w[2]))}

\* Mutant: the timer is set anew by each query.
QueryJoinsRestarts(s) ==
    /\ task[s] = "polling" /\ wait[s] = 0 /\ left[s] > 0
    /\ Goes(s, "looking")
    /\ found' = [found EXCEPT ![s] = {j \in Joins : Recent(j)}]
    /\ failing' = [failing EXCEPT ![s] = 0]
    /\ watched' = Unheard(s)
    /\ left' = [left EXCEPT ![s] = AdmitTimeout]
    /\ UNCHANGED <<calls, wait, joined, approved, up>>

QueryJoins(s) ==
    /\ task[s] = "polling" /\ wait[s] = 0 /\ left[s] > 0
    /\ Goes(s, "looking")
    /\ found' = [found EXCEPT ![s] = {j \in Joins : Recent(j)}]
    /\ failing' = [failing EXCEPT ![s] = 0]
    /\ watched' = Unheard(s)
    /\ UNCHANGED <<calls, wait, left, joined, approved, up>>

\* The database cannot be opened or read.
QueryFails(s) ==
    /\ task[s] = "polling" /\ wait[s] = 0 /\ left[s] > 0
    /\ Sleeps(s, 1)
    /\ failing' = [failing EXCEPT ![s] = IF @ < Lookback THEN @ + 1 ELSE @]
    /\ UNCHANGED <<calls, task, left, found, joined, approved, watched, up>>

\* The next notification, oldest first, goes to the helper: send_action takes the
\* permit, locks the clients and writes.
AsksAdmission(s) ==
    /\ task[s] = "looking" /\ found[s] # {}
    /\ Goes(s, "asking")
    /\ UNCHANGED <<calls, wait, left, found, failing, joined, approved, watched, up>>

Oldest(s, j) == j \in found[s] /\ \A i \in found[s] : age[i] <= age[j]
Unmet(j)     == IF j \in lobby THEN {} ELSE {"member"}
Ends(j)      == Outcome(AdmitPendingMember, Unmet(j))

\* What the write has left of the transaction, which was created before it.
Waits(s) == \E n \in 0 .. TxTimeout : Sleeps(s, n)

\* The line is written and the member let in, which takes it out of the pending members
\* (assumed of FaceTime: at once); the answer is on its way, or lost.
Approve(s, j) ==
    /\ task[s] = "asking" /\ Oldest(s, j)
    /\ Ends(j) = "ok"
    /\ Goes(s, "answering")
    /\ Waits(s)
    /\ found' = [found EXCEPT ![s] = @ \ {j}]
    /\ lobby' = lobby \ {j}
    /\ approved' = [approved EXCEPT ![s] = @ \cup {j}]
    /\ UNCHANGED <<scene, age, left, failing, joined, watched, up>>

AfterRefusalAdmitted(s) == Goes(s, "connecting")  \* mutation: the error is not looked at
AfterRefusal(s)         == Goes(s, "looking")

\* Mutant: the notification stays in the list.
RejectedAgain(s, j) ==
    /\ task[s] = "asking" /\ Oldest(s, j)
    /\ Ends(j) = "error"
    /\ AfterRefusal(s)
    /\ UNCHANGED <<calls, wait, left, found, failing, joined, approved, watched, up>>

Rejected(s, j) ==
    /\ task[s] = "asking" /\ Oldest(s, j)
    /\ Ends(j) = "error"
    /\ AfterRefusal(s)
    /\ found' = [found EXCEPT ![s] = @ \ {j}]
    /\ UNCHANGED <<calls, wait, left, failing, joined, approved, watched, up>>

\* The line reaches nobody, which the task learns at once, or the helper leaves it
\* unanswered, or cannot do it whoever waits; or the error comes late.
NoAnswer(s, j) ==
    /\ task[s] = "asking" /\ Oldest(s, j)
    /\ Goes(s, "hanging")
    /\ Waits(s)
    /\ found' = [found EXCEPT ![s] = @ \ {j}]
    /\ UNCHANGED <<calls, left, failing, joined, approved, watched, up>>

Admit(s) ==
    /\ task[s] = "answering"
    /\ Goes(s, "connecting")
    /\ Sleeps(s, PostAdmitWait)
    /\ found' = [found EXCEPT ![s] = {}]
    /\ UNCHANGED <<calls, left, failing, joined, approved, watched, up>>

TimesOut(s) ==
    /\ task[s] \in {"hanging", "answering"} /\ wait[s] = 0
    /\ Goes(s, "looking")
    /\ UNCHANGED <<calls, wait, left, found, failing, joined, approved, watched, up>>

SleepsAgain(s) ==
    /\ task[s] = "looking" /\ found[s] = {}
    /\ Goes(s, "polling")
    /\ Sleeps(s, 1)
    /\ UNCHANGED <<calls, left, found, failing, joined, approved, watched, up>>

GivesUp(s) ==
    /\ task[s] = "polling" /\ wait[s] = 0 /\ left[s] = 0
    /\ Goes(s, "leaving")
    /\ StopsWatching(s)
    /\ UNCHANGED <<calls, wait, left, found, failing, joined, approved, up>>

-----------------------------------------------------------------------------
(* admit_and_leave, after the admission or without one.                    *)

Connects(s) ==
    /\ task[s] = "connecting" /\ wait[s] = 0
    /\ Goes(s, "leaving")
    /\ UNCHANGED <<calls, wait, left, found, failing, joined, approved, watched, up>>

\* leave_call("") is written, and not waited for; no call has the empty string for
\* its UUID.
Leave(s) ==
    /\ task[s] = "leaving"
    /\ Goes(s, "over")
    /\ up' = [up EXCEPT ![s] = 0]
    /\ joined' = IF Outcome(LeaveCall, {"call"}) = "ok" THEN {} ELSE joined
    /\ UNCHANGED <<calls, wait, left, found, failing, approved, watched>>

-----------------------------------------------------------------------------
(* The others, and time.                                                   *)

Knock(j) ==
    /\ j \in scene.comers /\ age[j] = 0
    /\ task[j.to] \notin {"idle", "answered", "failed"}
    /\ age' = [age EXCEPT ![j] = 1]
    /\ lobby' = lobby \cup {j}
    /\ watched' = watched \cup {<<s, j>> : s \in {t \in Sessions : task[t] = "polling" /\ left[t] > 0}}
    /\ UNCHANGED <<scene, task, wait, left, found, failing, joined, approved, up>>

TurnsBack(j) ==
    /\ j \in lobby
    /\ lobby' = lobby \ {j}
    /\ UNCHANGED <<scene, task, wait, left, found, failing, age, joined, approved, watched, up>>

\* A task whose time has come runs before time goes on.
Due(s) == task[s] = "looking" \/ (task[s] \in Sleepy /\ wait[s] = 0)
Down(n) == IF n = 0 THEN 0 ELSE n - 1

TickSessions ==
    /\ \E s \in Sessions : task[s] \in Sleepy \cup Writing
    /\ \A s \in Sessions : ~Due(s)
    /\ wait' = [s \in Sessions |-> Down(wait[s])]
    /\ left' = [s \in Sessions |-> Down(left[s])]
    /\ age' = [j \in Joins |-> IF age[j] = 0 \/ age[j] = Lookback + 2 THEN age[j] ELSE age[j] + 1]
    /\ up' = [s \in Sessions |-> IF task[s] \in Sleepy /\ up[s] <= EndsBy THEN up[s] + 1 ELSE up[s]]
    /\ UNCHANGED <<scene, task, found, failing, lobby, joined, approved, watched>>

-----------------------------------------------------------------------------
SessionStep(s) ==
    \/ QueryJoins(s) \/ QueryFails(s) \/ AsksAdmission(s) \/ Admit(s) \/ TimesOut(s)
    \/ SleepsAgain(s) \/ GivesUp(s) \/ Connects(s)

WrittenStep(s) == Leave(s) \/ \E j \in Joins : Approve(s, j) \/ Rejected(s, j) \/ NoAnswer(s, j)

FaceStep ==
    \/ \E s \in Sessions : AnswerIncoming(s) \/ GetLink(s) \/ NoLink(s) \/ SessionStep(s) \/ WrittenStep(s)
    \/ \E j \in Joins : Knock(j) \/ TurnsBack(j)
    \/ TickSessions

\* The runtime polls a task whose timer has fired, and time goes on.  Nothing says
\* that a line is ever written: another call may hold the permit for good.
FaceFairness ==
    /\ \A s \in Sessions : WF_faceVars(SessionStep(s))
    /\ WF_faceVars(TickSessions)

FaceSpec == FaceInit /\ [][FaceStep]_faceVars

-----------------------------------------------------------------------------
(* Properties.                                                             *)

\* Whoever asks to join while a task polls is read by that task before the
\* window of its queries has gone by, unless as many queries in a row failed: the
\* window covers the polls that are missed.
KnockHeard ==
    \A w \in watched : age[w[2]] > Lookback + 1 => failing[w[1]] = Lookback

\* A task that stays for a participant has had one let in, and no other task the same
\* one, although all read the same notifications, members turn back and answers get
\* lost: an error or a timeout of the helper is never taken for an admission.
AdmittedTruly ==
    \A s \in Sessions :
        /\ task[s] = "connecting" => approved[s] # {}
        /\ \A t \in Sessions \ {s} : approved[s] \cap approved[t] = {}

\* Apart from the time its calls wait to be written, no task runs longer than EndsBy
\* before it leaves: queries that fail, notifications that keep coming and refusals do
\* not put off the end, and of the answers that stay out only those about the last
\* query's notifications take it past AdmitTimeout.
EndsInTime == \A s \in Sessions : up[s] <= EndsBy

\* Every task comes to its end, whoever asks to join and whatever queries and admissions
\* fail, unless a call it makes is never written.
SessionEnds ==
    \A s \in Sessions : []<>(task[s] \notin Writing) => (task[s] = "polling" ~> task[s] = "over")

\* facetime_session.rs:129, "Empty string UUID tells the dylib to leave whatever
\* active call it's in": the Mac is out of a call whose task has left it.
HostLeaves == \A s \in Sessions : task[s] = "over" => s \notin joined
=============================================================================
