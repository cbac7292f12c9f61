----------------------- MODULE FaceTimeSessionProofs -----------------------
(***************************************************************************)
(* The FaceTime tasks, for any sessions, notifications and time limits.    *)
(*                                                                         *)
(* A notification a task has not read is as old as its failures in a row   *)
(* and the poll it sleeps through, so the window loses it only to as many  *)
(* failures as it is long (HeardInv).  A member that is let in has left    *)
(* the lobby and knocks once, so no other task finds it there (LobbyInv).  *)
(* The time a task has run and the time its work in hand may still take    *)
(* stay below what its last query leaves it (EndInv); what a call waits to *)
(* be written has no limit and is in neither.                              *)
(***************************************************************************)
EXTENDS FaceTimeSession, FiniteSetTheorems, WellFoundedInduction, TLAPS

-----------------------------------------------------------------------------
(* What the helper answers.                                                *)

Guard(N) == [need : N, otherwise : {"error", "silent", "skipped"}]

LEMMA Least == ASSUME NEW S \in SUBSET Nat, S # {} PROVE \E m \in S : \A k \in S : m <= k
<1>1. PICK m \in S : \A k \in S : ~ <<k, m>> \in OpToRel(<, Nat)
  BY NatLessThanWellFounded, WFMin, Zenon
<1>2. ASSUME NEW k \in S PROVE m <= k
  <2>1. ~ (<<k, m>> \in Nat \X Nat /\ k < m)
    BY <1>1, Zenon DEF OpToRel
  <2> QED BY <2>1
<1> QED BY <1>2

\* A handler with a guard that fails does not succeed.
LEMMA GuardFails ==
  ASSUME NEW N, NEW guards \in Seq(Guard(N)), NEW missing, NEW i \in DOMAIN guards, guards[i].need \in missing
  PROVE  Outcome(guards, missing) # "ok"
<1> DEFINE failed == {k \in DOMAIN guards : guards[k].need \in missing}
           ending == {k \in failed : guards[k].otherwise # "skipped"}
           first  == CHOOSE k \in ending : \A j \in ending : k <= j
<1>1. ending \in SUBSET Nat /\ failed # {}
  OBVIOUS
<1>2. CASE ending = {}
  BY <1>1, <1>2 DEF Outcome
<1>3. CASE ending # {}
  <2>1. \E k \in ending : \A j \in ending : k <= j
    BY <1>1, <1>3, Least
  <2>2. first \in ending
    BY <2>1
  <2>3. guards[first] \in Guard(N)
    BY <2>2
  <2>4. guards[first].otherwise # "ok"
    BY <2>3 DEF Guard
  <2> QED BY <1>3, <2>4 DEF Outcome
<1> QED BY <1>2, <1>3

LEMMA OneGuard ==
  ASSUME NEW N, NEW n \in N
  PROVE  /\ Must(n) \in Seq(Guard(N)) /\ Hush(n) \in Seq(Guard(N))
         /\ Len(Must(n)) = 1 /\ Must(n)[1].need = n
BY DEF Must, Hush, Guard

LEMMA Concat ==
  ASSUME NEW S, NEW front \in Seq(S), NEW back \in Seq(S)
  PROVE  /\ front \o back \in Seq(S) /\ Len(front \o back) = Len(front) + Len(back)
         /\ \A i \in 1 .. Len(front) : (front \o back)[i] = front[i]
         /\ \A i \in 1 .. Len(back) : (front \o back)[Len(front) + i] = back[i]
OBVIOUS

LEMMA InFront ==
  ASSUME NEW S, NEW front \in Seq(S), NEW back \in Seq(S), NEW i \in DOMAIN front
  PROVE  i \in DOMAIN (front \o back) /\ (front \o back)[i] = front[i]
OBVIOUS

LEMMA AtBack ==
  ASSUME NEW S, NEW front \in Seq(S), NEW back \in Seq(S), Len(back) = 1
  PROVE  \E i \in DOMAIN (front \o back) : (front \o back)[i] = back[1]
<1>1. front \o back \in Seq(S) /\ Len(front \o back) = Len(front) + 1 /\ (front \o back)[Len(front) + 1] = back[1]
  BY Concat
<1> QED BY <1>1

\* Nobody is admitted who does not wait.
LEMMA AdmitsMember == ASSUME NEW missing, "member" \in missing PROVE Outcome(AdmitPendingMember, missing) # "ok"
<1> DEFINE N == {"conversationUUID", "handleUUID", "conversations", "conversation", "pendingMembers", "member",
                 "approve selector"}
           head == Must("conversationUUID") \o Must("handleUUID") \o Must("conversations") \o Must("conversation")
                   \o Hush("pendingMembers")
           all == head \o Must("member") \o Hush("approve selector")
<1>1. /\ Must("conversationUUID") \in Seq(Guard(N)) /\ Must("handleUUID") \in Seq(Guard(N))
      /\ Must("conversations") \in Seq(Guard(N)) /\ Must("conversation") \in Seq(Guard(N))
      /\ Hush("pendingMembers") \in Seq(Guard(N)) /\ Hush("approve selector") \in Seq(Guard(N))
  BY OneGuard
<1>2. Must("member") \in Seq(Guard(N)) /\ Len(Must("member")) = 1 /\ Must("member")[1].need = "member"
  BY OneGuard
<1> HIDE DEF N
<1>3. head \in Seq(Guard(N))
  BY <1>1, Concat, Zenon
<1>4. AdmitPendingMember = all
  BY DEF AdmitPendingMember
<1> HIDE DEF head
<1>5. head \o Must("member") \in Seq(Guard(N)) /\ all \in Seq(Guard(N))
  BY <1>1, <1>2, <1>3, Concat, Zenon
<1>6. PICK i \in DOMAIN (head \o Must("member")) : (head \o Must("member"))[i] = Must("member")[1]
  BY <1>2, <1>3, AtBack, Zenon
<1>7. i \in DOMAIN all /\ all[i] = (head \o Must("member"))[i]
  BY <1>1, <1>5, <1>6, InFront, Zenon
<1> HIDE DEF all
<1> QED BY <1>2, <1>4, <1>5, <1>6, <1>7, GuardFails

-----------------------------------------------------------------------------
(* The invariant.                                                          *)

\* A task that polls sleeps for one poll at most.
WaitInv ==
    \A s \in Sessions :
        /\ task[s] \in {"idle", "answered"} => wait[s] = 0
        /\ task[s] = "polling" => wait[s] <= 1

HeardInv ==
    \A w \in watched :
        /\ task[w[1]] = "polling" /\ age[w[2]] # 0
        /\ failing[w[1]] = Lookback \/ age[w[2]] <= failing[w[1]] + 2 - wait[w[1]]

\* An answer on its way is about an admission.
AnswerInv == \A s \in Sessions : task[s] = "answering" => approved[s] # {}

LobbyInv ==
    \A j \in Joins :
        /\ j \in lobby => age[j] # 0 /\ \A s \in Sessions : j \notin approved[s]
        /\ \A s \in Sessions : j \in approved[s] => age[j] # 0

FaceInv == FaceTypeOK /\ WaitInv /\ HeardInv /\ AnswerInv /\ LobbyInv /\ AdmittedTruly

LEMMA Times ==
  /\ Lookback \in Nat /\ Lookback > 1 /\ AdmitTimeout \in Nat
  /\ PostAdmitWait \in Nat /\ TxTimeout \in Nat
BY WaitsAssumption

LEMMA FaceStart == FaceInit => FaceInv
<1> SUFFICES ASSUME FaceInit PROVE FaceInv
  OBVIOUS
<1>1. FaceTypeOK
  BY Times DEF FaceInit, FaceTypeOK, Stages, Writing, Sleepy
<1>2. WaitInv /\ HeardInv /\ AnswerInv /\ LobbyInv /\ AdmittedTruly
  BY DEF FaceInit, WaitInv, HeardInv, AnswerInv, LobbyInv, AdmittedTruly
<1> QED BY <1>1, <1>2 DEF FaceInv

-----------------------------------------------------------------------------
(* A step of a session.                                                    *)

LEMMA SessionTypes ==
  ASSUME FaceInv, NEW s \in Sessions, AnswerIncoming(s) \/ GetLink(s) \/ NoLink(s) \/ SessionStep(s) \/ WrittenStep(s)
  PROVE  FaceTypeOK'
<1> USE Times DEF FaceInv, FaceTypeOK, Goes, Sleeps, StopsWatching, calls, Stages, Writing, Sleepy
<1>1. CASE AnswerIncoming(s)
  BY <1>1 DEF AnswerIncoming
<1>2. CASE GetLink(s)
  BY <1>2 DEF GetLink
<1>3. CASE NoLink(s)
  BY <1>3 DEF NoLink
<1>4. CASE QueryJoins(s)
  BY <1>4 DEF QueryJoins, Unheard
<1>5. CASE QueryFails(s)
  BY <1>5 DEF QueryFails
<1>6. CASE SleepsAgain(s)
  BY <1>6 DEF SleepsAgain
<1>7. CASE GivesUp(s)
  BY <1>7 DEF GivesUp
<1>8. CASE TimesOut(s)
  BY <1>8 DEF TimesOut
<1>9. CASE Connects(s)
  BY <1>9 DEF Connects
<1>10. CASE Leave(s)
  BY <1>10 DEF Leave
<1>11. ASSUME NEW j \in Joins, Approve(s, j) PROVE FaceTypeOK'
  BY <1>11 DEF Approve, Waits
<1>12. ASSUME NEW j \in Joins, Rejected(s, j) PROVE FaceTypeOK'
  BY <1>12 DEF Rejected, AfterRefusal
<1>13. ASSUME NEW j \in Joins, NoAnswer(s, j) PROVE FaceTypeOK'
  BY <1>13 DEF NoAnswer, Waits
<1>14. CASE AsksAdmission(s)
  BY <1>14 DEF AsksAdmission
<1>15. CASE Admit(s)
  BY <1>15 DEF Admit
<1> QED BY <1>1, <1>2, <1>3, <1>4, <1>5, <1>6, <1>7, <1>8, <1>9, <1>10, <1>11, <1>12, <1>13, <1>14, <1>15
        DEF SessionStep, WrittenStep

LEMMA SessionWaits ==
  ASSUME FaceInv, NEW s \in Sessions, AnswerIncoming(s) \/ GetLink(s) \/ NoLink(s) \/ SessionStep(s) \/ WrittenStep(s)
  PROVE  WaitInv' /\ HeardInv'
<1> DEFINE Good == WaitInv' /\ HeardInv'
<1> USE Times DEF FaceInv, FaceTypeOK, Goes, Sleeps, StopsWatching, calls, WaitInv, HeardInv
<1>1. CASE AnswerIncoming(s)
  BY <1>1 DEF AnswerIncoming
<1>2. CASE GetLink(s)
  BY <1>2 DEF GetLink
<1>3. CASE NoLink(s)
  BY <1>3 DEF NoLink
<1>4. CASE QueryJoins(s)
  <2>1. \A w \in watched : w[1] = s => failing[s] = Lookback \/ Recent(w[2])
    BY <1>4 DEF QueryJoins, Recent
  <2>2. watched' = {w \in watched : w[1] # s}
    BY <1>4, <2>1 DEF QueryJoins, Unheard
  <2> QED BY <1>4, <2>2 DEF QueryJoins
<1>5. CASE QueryFails(s)
  BY <1>5 DEF QueryFails
<1>6. CASE SleepsAgain(s)
  BY <1>6 DEF SleepsAgain
<1>7. CASE GivesUp(s)
  BY <1>7 DEF GivesUp
<1>8. CASE TimesOut(s)
  BY <1>8 DEF TimesOut
<1>9. CASE Connects(s)
  BY <1>9 DEF Connects
<1>10. CASE Leave(s)
  BY <1>10 DEF Leave
<1>11. ASSUME NEW j \in Joins, Approve(s, j) PROVE Good
  BY <1>11 DEF Approve, Waits
<1>12. ASSUME NEW j \in Joins, Rejected(s, j) PROVE Good
  BY <1>12 DEF Rejected, AfterRefusal
<1>13. ASSUME NEW j \in Joins, NoAnswer(s, j) PROVE Good
  BY <1>13 DEF NoAnswer, Waits
<1>14. CASE AsksAdmission(s)
  BY <1>14 DEF AsksAdmission
<1>15. CASE Admit(s)
  BY <1>15 DEF Admit
<1> QED BY <1>1, <1>2, <1>3, <1>4, <1>5, <1>6, <1>7, <1>8, <1>9, <1>10, <1>11, <1>12, <1>13, <1>14, <1>15
        DEF SessionStep, WrittenStep

LEMMA SessionAdmits ==
  ASSUME FaceInv, NEW s \in Sessions, AnswerIncoming(s) \/ GetLink(s) \/ NoLink(s) \/ SessionStep(s) \/ WrittenStep(s)
  PROVE  AnswerInv' /\ LobbyInv' /\ AdmittedTruly'
<1> DEFINE Good == AnswerInv' /\ LobbyInv' /\ AdmittedTruly'
<1> USE DEF FaceInv, FaceTypeOK, Goes, Sleeps, StopsWatching, calls, AnswerInv, LobbyInv, AdmittedTruly
<1>1. ASSUME NEW j \in Joins, Approve(s, j) PROVE Good
  <2>1. j \in lobby
    BY <1>1, AdmitsMember DEF Approve, Ends, Unmet
  <2> QED BY <1>1, <2>1 DEF Approve
<1>2. ASSUME UNCHANGED <<age, lobby, approved>>, task' = [task EXCEPT ![s] = task'[s]],
             task'[s] \notin {"answering", "connecting"}
      PROVE  Good
  BY <1>2
<1>3. CASE AnswerIncoming(s)
  BY <1>2, <1>3 DEF AnswerIncoming
<1>4. CASE GetLink(s)
  BY <1>2, <1>4 DEF GetLink
<1>5. CASE NoLink(s)
  BY <1>2, <1>5 DEF NoLink
<1>6. CASE QueryJoins(s)
  BY <1>2, <1>6 DEF QueryJoins
<1>7. CASE QueryFails(s)
  BY <1>7 DEF QueryFails
<1>8. CASE SleepsAgain(s)
  BY <1>2, <1>8 DEF SleepsAgain
<1>9. CASE GivesUp(s)
  BY <1>2, <1>9 DEF GivesUp
<1>10. CASE TimesOut(s)
  BY <1>2, <1>10 DEF TimesOut
<1>11. CASE Connects(s)
  BY <1>2, <1>11 DEF Connects
<1>12. CASE Leave(s)
  BY <1>2, <1>12 DEF Leave
<1>13. ASSUME NEW j \in Joins, Rejected(s, j) PROVE Good
  BY <1>2, <1>13 DEF Rejected, AfterRefusal
<1>14. ASSUME NEW j \in Joins, NoAnswer(s, j) PROVE Good
  BY <1>2, <1>14 DEF NoAnswer
<1>15. CASE AsksAdmission(s)
  BY <1>2, <1>15 DEF AsksAdmission
<1>16. CASE Admit(s)
  BY <1>16 DEF Admit
<1> QED BY <1>1, <1>3, <1>4, <1>5, <1>6, <1>7, <1>8, <1>9, <1>10, <1>11, <1>12, <1>13, <1>14, <1>15, <1>16
        DEF SessionStep, WrittenStep

-----------------------------------------------------------------------------
(* The others, and time.                                                   *)

LEMMA KnockKeeps == ASSUME FaceInv, NEW j \in Joins, Knock(j) PROVE FaceInv'
<1> USE Times DEF FaceInv, FaceTypeOK, Knock
<1>1. FaceTypeOK'
  OBVIOUS
<1>2. WaitInv'
  BY DEF WaitInv
<1>3. HeardInv'
  <2> SUFFICES ASSUME NEW w \in watched'
               PROVE  /\ task[w[1]] = "polling" /\ age'[w[2]] # 0
                      /\ failing[w[1]] = Lookback \/ age'[w[2]] <= failing[w[1]] + 2 - wait[w[1]]
    BY DEF HeardInv
  <2>1. CASE w \in watched
    BY <2>1 DEF HeardInv
  <2>2. CASE w \notin watched
    <3>1. PICK s \in Sessions : w = <<s, j>> /\ task[s] = "polling"
      BY <2>2
    <3> QED BY <3>1 DEF WaitInv
  <2> QED BY <2>1, <2>2
<1>4. LobbyInv'
  BY DEF LobbyInv
<1>5. AnswerInv' /\ AdmittedTruly'
  BY DEF AnswerInv, AdmittedTruly
<1> QED BY <1>1, <1>2, <1>3, <1>4, <1>5

LEMMA TurnsBackKeeps == ASSUME FaceInv, NEW j \in Joins, TurnsBack(j) PROVE FaceInv'
BY DEF FaceInv, FaceTypeOK, TurnsBack, WaitInv, HeardInv, AnswerInv, LobbyInv, AdmittedTruly

LEMMA TickKeeps == ASSUME FaceInv, TickSessions PROVE FaceInv'
<1> USE Times DEF FaceInv, FaceTypeOK, TickSessions
<1>1. FaceTypeOK'
  BY DEF Down
<1>2. WaitInv'
  BY DEF WaitInv, Down
<1>3. HeardInv'
  BY DEF HeardInv, WaitInv, Due, Down, Sleepy
<1>4. AnswerInv' /\ LobbyInv' /\ AdmittedTruly'
  BY DEF AnswerInv, LobbyInv, AdmittedTruly
<1> QED BY <1>1, <1>2, <1>3, <1>4

LEMMA FaceStays == FaceInv /\ UNCHANGED faceVars => FaceInv'
BY DEF FaceInv, FaceTypeOK, faceVars, WaitInv, HeardInv, AnswerInv, LobbyInv, AdmittedTruly

LEMMA FaceKeeps == FaceInv /\ [FaceStep]_faceVars => FaceInv'
<1> SUFFICES ASSUME FaceInv, [FaceStep]_faceVars PROVE FaceInv'
  OBVIOUS
<1>1. CASE UNCHANGED faceVars
  BY <1>1, FaceStays
<1>2. ASSUME NEW s \in Sessions, AnswerIncoming(s) \/ GetLink(s) \/ NoLink(s) \/ SessionStep(s) \/ WrittenStep(s)
      PROVE  FaceInv'
  BY <1>2, SessionTypes, SessionWaits, SessionAdmits DEF FaceInv
<1> QED BY <1>1, <1>2, KnockKeeps, TurnsBackKeeps, TickKeeps DEF FaceStep

THEOREM FaceInvariant == FaceSpec => []FaceInv
BY FaceStart, FaceKeeps, PTL DEF FaceSpec

-----------------------------------------------------------------------------
(* The end of a task.                                                      *)

\* The transactions some notifications may cost.
Cost(S) == TxTimeout * Cardinality(S)

\* When the last query is answered at the latest.
LastBy == AdmitTimeout - 1 + Cost(scene.comers)

\* What a task has run, and has still to run for what it has in hand.  The time its
\* calls wait to be written is gone for AdmitTimeout, and not counted as run.
EndsAt(s) ==
    /\ found[s] \subseteq scene.comers
    /\ task[s] \in {"idle", "answered", "failed", "over"} => up[s] = 0
    /\ task[s] \in {"polling", "looking", "asking", "hanging", "answering"} /\ left[s] > 0
         => up[s] + left[s] <= AdmitTimeout
    /\ task[s] = "polling" => up[s] + wait[s] <= LastBy + 1
    /\ task[s] \in {"looking", "asking"} => up[s] + Cost(found[s]) <= LastBy
    /\ task[s] \in {"hanging", "answering"} => up[s] + wait[s] + Cost(found[s]) <= LastBy
    /\ task[s] = "connecting" => up[s] + wait[s] <= LastBy + PostAdmitWait
    /\ task[s] = "leaving" => up[s] <= LastBy + PostAdmitWait

EndInv ==
    /\ \A j \in Joins : age[j] # 0 => j \in scene.comers
    /\ \A s \in Sessions : EndsAt(s)

LEMMA Products ==
  ASSUME NEW k \in Nat, NEW m \in Nat, NEW n \in Nat, m <= n
  PROVE  k * m \in Nat /\ k * m <= k * n
<1>1. PICK d \in Nat : n = m + d
  <2>1. n - m \in Nat /\ n = m + (n - m)
    OBVIOUS
  <2> QED BY <2>1
<1>2. k * n = k * m + k * d /\ k * m \in Nat /\ k * d \in Nat
  BY <1>1
<1> QED BY <1>2

LEMMA Costs ==
  ASSUME FaceTypeOK
  PROVE  /\ IsFiniteSet(scene.comers) /\ LastBy \in Nat /\ AdmitTimeout - 1 \in Nat
         /\ EndsBy = LastBy + PostAdmitWait /\ PostAdmitWait >= 1
         /\ \A S \in SUBSET scene.comers : Cost(S) \in Nat /\ AdmitTimeout - 1 + Cost(S) <= LastBy
         /\ \A S \in SUBSET scene.comers : \A j \in S : Cost(S) = Cost(S \ {j}) + TxTimeout
<1>0. IsFiniteSet(scene.comers)
  BY SessionsAssumption DEF FaceTypeOK
<1>1. ASSUME NEW S \in SUBSET scene.comers
      PROVE  Cost(S) \in Nat /\ Cost(S) <= Cost(scene.comers)
  <2>1. IsFiniteSet(S) /\ Cardinality(S) <= Cardinality(scene.comers)
    BY <1>0, FS_Subset
  <2>2. Cardinality(S) \in Nat /\ Cardinality(scene.comers) \in Nat
    BY <1>0, <2>1, FS_CardinalityType
  <2> QED BY <2>1, <2>2, Times, Products DEF Cost
<1>2. ASSUME NEW S \in SUBSET scene.comers, NEW j \in S
      PROVE  Cost(S) = Cost(S \ {j}) + TxTimeout
  <2>1. IsFiniteSet(S)
    BY <1>0, FS_Subset
  <2>2. Cardinality(S \ {j}) = Cardinality(S) - 1 /\ Cardinality(S) \in Nat
    BY <2>1, FS_RemoveElement, FS_CardinalityType
  <2>3. \A k \in Nat, n \in Nat : k * n = k * (n - 1) + k
    OBVIOUS
  <2> QED BY <2>2, <2>3, Times DEF Cost
<1>3. Cost(scene.comers) \in Nat
  BY <1>1
<1>4. AdmitTimeout - 1 \in Nat /\ PostAdmitWait >= 1
  BY WaitsAssumption
<1>5. LastBy \in Nat /\ \A S \in SUBSET scene.comers : Cost(S) \in Nat /\ AdmitTimeout - 1 + Cost(S) <= LastBy
  BY <1>1, <1>3, <1>4 DEF LastBy
<1>6. EndsBy = LastBy + PostAdmitWait
  BY <1>3, <1>4, Times DEF EndsBy, LastBy, Cost
<1> QED BY <1>0, <1>2, <1>4, <1>5, <1>6

\* The sessions a step leaves alone.
LEMMA OtherEnds ==
  ASSUME NEW s, NEW t, scene' = scene, EndsAt(t),
         task'[t] = task[t] /\ wait'[t] = wait[t] /\ left'[t] = left[t] /\ found'[t] = found[t] /\ up'[t] = up[t]
  PROVE  EndsAt(t)'
BY DEF EndsAt, LastBy, Cost

LEMMA EndSession ==
  ASSUME FaceInv, EndInv, NEW s \in Sessions, AnswerIncoming(s) \/ GetLink(s) \/ NoLink(s) \/ SessionStep(s) \/ WrittenStep(s)
  PROVE  EndInv'
<1> USE Times DEF FaceInv, FaceTypeOK, Goes, Sleeps
<1>1. scene' = scene /\ age' = age /\ LastBy' = LastBy /\ \A S : Cost(S)' = Cost(S)
  <2>1. scene' = scene /\ age' = age
    BY DEF AnswerIncoming, GetLink, NoLink, SessionStep, QueryJoins, QueryFails, SleepsAgain, GivesUp, TimesOut,
           Connects, AsksAdmission, Admit, WrittenStep, Leave, Approve, Rejected, NoAnswer, calls
  <2> QED BY <2>1 DEF LastBy, Cost
<1>2. ASSUME NEW t \in Sessions \ {s}
      PROVE  task'[t] = task[t] /\ wait'[t] = wait[t] /\ left'[t] = left[t] /\ found'[t] = found[t] /\ up'[t] = up[t]
  BY DEF AnswerIncoming, GetLink, NoLink, SessionStep, QueryJoins, QueryFails, SleepsAgain, GivesUp, TimesOut,
         Connects, AsksAdmission, Admit, WrittenStep, Leave, Approve, Rejected, NoAnswer, AfterRefusal, Waits
<1>3. /\ up[s] \in Nat /\ wait[s] \in Nat /\ left[s] \in 0 .. AdmitTimeout /\ EndsAt(s)
      /\ found[s] \subseteq scene.comers
  BY DEF EndInv, EndsAt
<1>4. /\ LastBy \in Nat /\ AdmitTimeout - 1 \in Nat /\ PostAdmitWait >= 1
      /\ \A S \in SUBSET scene.comers : Cost(S) \in Nat /\ AdmitTimeout - 1 + Cost(S) <= LastBy
      /\ \A S \in SUBSET scene.comers : \A j \in S : Cost(S) = Cost(S \ {j}) + TxTimeout
  BY Costs
<1>5. EndsAt(s)'
  <2> USE DEF EndsAt
  <2>1. CASE AnswerIncoming(s)
    BY <1>1, <1>3, <2>1 DEF AnswerIncoming
  <2>2. CASE GetLink(s)
    <3>1. up[s] = 0 /\ wait[s] = 0
      BY <1>3, <2>2 DEF GetLink, WaitInv
    <3> QED BY <1>1, <1>3, <1>4, <2>2, <3>1 DEF GetLink
  <2>3. CASE NoLink(s)
    BY <1>1, <1>3, <2>3 DEF NoLink
  <2>4. CASE QueryJoins(s)
    <3>1. found'[s] \subseteq scene.comers
      BY <2>4 DEF QueryJoins, Recent, EndInv
    <3>2. Cost(found'[s]) \in Nat /\ AdmitTimeout - 1 + Cost(found'[s]) <= LastBy
      BY <1>4, <3>1
    <3>3. /\ task'[s] = "looking" /\ up'[s] = up[s] /\ left'[s] = left[s] /\ left[s] > 0
          /\ up[s] + left[s] <= AdmitTimeout
      BY <1>3, <2>4 DEF QueryJoins
    <3>4. Cost(found[s])' = Cost(found'[s])
      BY DEF Cost
    <3> HIDE DEF FaceTypeOK
    <3> QED BY <1>1, <1>3, <1>4, <3>1, <3>2, <3>3, <3>4
  <2>5. CASE QueryFails(s)
    <3>1. AdmitTimeout - 1 <= LastBy
      <4> DEFINE none == Cost({})
      <4>1. {} \in SUBSET scene.comers
        OBVIOUS
      <4>2. none \in Nat /\ AdmitTimeout - 1 + none <= LastBy
        BY <1>4, <4>1, Zenon
      <4> HIDE DEF none, FaceTypeOK, FaceInv
      <4> QED BY <1>4, <4>2
    <3> QED BY <1>1, <1>3, <1>4, <2>5, <3>1 DEF QueryFails
  <2>6. CASE SleepsAgain(s)
    BY <1>1, <1>3, <1>4, <2>6 DEF SleepsAgain
  <2>7. CASE GivesUp(s)
    BY <1>1, <1>3, <1>4, <2>7 DEF GivesUp
  <2>8. CASE TimesOut(s)
    <3>1. Cost(found[s])' = Cost(found[s])
      BY <2>8 DEF TimesOut, Cost
    <3> QED BY <1>1, <1>3, <1>4, <2>8, <3>1 DEF TimesOut
  <2>9. CASE Connects(s)
    BY <1>1, <1>3, <1>4, <2>9 DEF Connects
  <2>10. CASE Leave(s)
    BY <1>1, <1>3, <1>4, <2>10 DEF Leave
  <2>11. ASSUME NEW j \in Joins, Approve(s, j) \/ NoAnswer(s, j) PROVE EndsAt(s)'
    <3>1. Cost(found[s])' = Cost(found[s] \ {j}) /\ j \in found[s] /\ found'[s] = found[s] \ {j}
      BY <2>11 DEF Approve, NoAnswer, Oldest, Cost
    <3>2. Cost(found[s]) = Cost(found[s] \ {j}) + TxTimeout /\ Cost(found[s] \ {j}) \in Nat
      BY <1>3, <1>4, <3>1
    <3>3. task[s] = "asking" /\ task'[s] \in {"hanging", "answering"} /\ up'[s] = up[s] /\ left'[s] = left[s]
      BY <2>11 DEF Approve, NoAnswer
    <3>4. wait'[s] \in 0 .. TxTimeout
      BY <2>11 DEF Approve, NoAnswer, Waits
    <3> HIDE DEF FaceTypeOK
    <3> QED BY <1>1, <1>3, <1>4, <3>1, <3>2, <3>3, <3>4
  <2>12. ASSUME NEW j \in Joins, Rejected(s, j) PROVE EndsAt(s)'
    <3>1. Cost(found[s])' = Cost(found[s] \ {j}) /\ j \in found[s] /\ found'[s] = found[s] \ {j}
      BY <2>12 DEF Rejected, Oldest, Cost
    <3>2. Cost(found[s]) = Cost(found[s] \ {j}) + TxTimeout /\ Cost(found[s] \ {j}) \in Nat
      BY <1>3, <1>4, <3>1
    <3>3. task[s] = "asking" /\ task'[s] = "looking" /\ up'[s] = up[s] /\ left'[s] = left[s]
      BY <2>12 DEF Rejected, AfterRefusal
    <3> HIDE DEF FaceTypeOK
    <3> QED BY <1>1, <1>3, <1>4, <3>1, <3>2, <3>3
  <2>13. CASE AsksAdmission(s)
    <3>1. Cost(found[s])' = Cost(found[s])
      BY <2>13 DEF AsksAdmission, Cost
    <3> QED BY <1>1, <1>3, <1>4, <2>13, <3>1 DEF AsksAdmission
  <2>14. CASE Admit(s)
    <3>1. Cost(found[s]) \in Nat
      BY <1>3, <1>4
    <3> QED BY <1>1, <1>3, <1>4, <2>14, <3>1 DEF Admit
  <2> QED BY <2>1, <2>2, <2>3, <2>4, <2>5, <2>6, <2>7, <2>8, <2>9, <2>10, <2>11, <2>12, <2>13, <2>14
          DEF SessionStep, WrittenStep
<1>6. ASSUME NEW t \in Sessions PROVE EndsAt(t)'
  <2>1. CASE t = s
    BY <1>5, <2>1
  <2>2. CASE t # s
    BY <1>1, <1>2, <2>2, OtherEnds DEF EndInv
  <2> QED BY <2>1, <2>2
<1> QED BY <1>1, <1>6 DEF EndInv

LEMMA EndTick == ASSUME FaceInv, EndInv, TickSessions PROVE EndInv'
<1>1. scene' = scene /\ LastBy' = LastBy /\ \A S : Cost(S)' = Cost(S)
  BY DEF TickSessions, LastBy, Cost
<1>2. \A j \in Joins : age'[j] # 0 => j \in scene'.comers
  BY <1>1 DEF TickSessions, EndInv
<1>3. ASSUME NEW s \in Sessions PROVE EndsAt(s)'
  <2>1. /\ LastBy \in Nat /\ EndsBy = LastBy + PostAdmitWait /\ PostAdmitWait >= 1 /\ PostAdmitWait \in Nat
        /\ \A S \in SUBSET scene.comers : Cost(S) \in Nat
    BY Costs, Times DEF FaceInv
  <2>2. /\ wait'[s] = Down(wait[s]) /\ left'[s] = Down(left[s]) /\ task'[s] = task[s] /\ found'[s] = found[s]
        /\ up'[s] = IF task[s] \in Sleepy /\ up[s] <= EndsBy THEN up[s] + 1 ELSE up[s]
        /\ ~Due(s)
    BY DEF TickSessions
  <2>3. up[s] \in Nat /\ wait[s] \in Nat /\ left[s] \in Nat /\ EndsAt(s)
    BY Times DEF FaceInv, FaceTypeOK, EndInv
  <2>4. Cost(found[s]) \in Nat /\ Cost(found[s])' = Cost(found[s])
    <3>1. found[s] \subseteq scene.comers
      BY <2>3 DEF EndsAt
    <3> QED BY <2>1, <2>2, <3>1 DEF Cost
  <2>5. task[s] \in Sleepy => wait[s] > 0 /\ up[s] <= EndsBy
    BY <2>1, <2>2, <2>3, <2>4 DEF Due, EndsAt, Sleepy
  <2> QED BY <1>1, <2>1, <2>2, <2>3, <2>4, <2>5, Times DEF EndsAt, Due, Down, Sleepy
<1> QED BY <1>2, <1>3 DEF EndInv

LEMMA EndKeeps == FaceInv /\ EndInv /\ [FaceStep]_faceVars => EndInv'
<1> SUFFICES ASSUME FaceInv, EndInv, [FaceStep]_faceVars PROVE EndInv'
  OBVIOUS
<1>1. ASSUME UNCHANGED <<scene, task, wait, left, found, up>>, \A j \in Joins : age'[j] # 0 => j \in scene.comers
      PROVE  EndInv'
  BY <1>1, OtherEnds DEF EndInv
<1>2. CASE UNCHANGED faceVars
  BY <1>1, <1>2 DEF faceVars, EndInv
<1>3. ASSUME NEW j \in Joins, Knock(j) \/ TurnsBack(j) PROVE EndInv'
  <2>1. UNCHANGED <<scene, task, wait, left, found, up>>
    BY <1>3 DEF Knock, TurnsBack
  <2>2. \A i \in Joins : age'[i] # 0 => i \in scene.comers
    BY <1>3 DEF Knock, TurnsBack, EndInv, FaceInv, FaceTypeOK
  <2> QED BY <1>1, <2>1, <2>2
<1> QED BY <1>2, <1>3, EndSession, EndTick DEF FaceStep

LEMMA EndStart == FaceInit => EndInv
BY DEF FaceInit, EndInv, EndsAt

-----------------------------------------------------------------------------
(* What follows.                                                           *)

\* Every stage, timer and list of the tasks stays within its limits
\* (facetime_session.rs, the loops of admit_self and admit_and_leave).
THEOREM FaceTypes == FaceSpec => []FaceTypeOK
BY FaceInvariant, PTL DEF FaceInv

\* Who asks to join while a task polls is read by it before the window of its
\* queries is over, or as many queries in a row have failed as the window is long.
THEOREM KnocksHeard == FaceSpec => []KnockHeard
<1>1. FaceInv => KnockHeard
  BY Times DEF FaceInv, FaceTypeOK, HeardInv, WaitInv, KnockHeard
<1> QED BY <1>1, FaceInvariant, PTL

\* A task that stays has had a member let in, and no two tasks the same one.
THEOREM AdmittedOnce == FaceSpec => []AdmittedTruly
BY FaceInvariant, PTL DEF FaceInv

\* A task turns to leaving within a time of its own, apart from what its calls wait to be
\* written, however many queries fail, whoever asks to join and however many answers
\* stay out.
THEOREM EndsSoon == FaceSpec => []EndsInTime
<1>1. FaceInv /\ EndInv => EndsInTime
  <2> SUFFICES ASSUME FaceInv, EndInv, NEW s \in Sessions PROVE up[s] <= EndsBy
    BY DEF EndsInTime
  <2>1. /\ LastBy \in Nat /\ EndsBy = LastBy + PostAdmitWait /\ PostAdmitWait >= 1 /\ PostAdmitWait \in Nat
        /\ Cost(found[s]) \in Nat
    BY Costs, Times DEF FaceInv, EndInv, EndsAt
  <2>2. up[s] \in Nat /\ wait[s] \in Nat /\ task[s] \in Stages /\ EndsAt(s)
    BY DEF FaceInv, FaceTypeOK, EndInv
  <2> QED BY <2>1, <2>2 DEF EndsAt, Stages, Writing, Sleepy
<1>2. FaceInit => FaceInv /\ EndInv
  BY FaceStart, EndStart
<1>3. FaceInv /\ EndInv /\ [FaceStep]_faceVars => FaceInv' /\ EndInv'
  BY FaceKeeps, EndKeeps
<1> QED BY <1>1, <1>2, <1>3, PTL DEF FaceSpec
=============================================================================
