-------------------------- MODULE InjectionProofs ---------------------------
(***************************************************************************)
(* The processes this program launches, and the one it is.                 *)
(*                                                                         *)
(* Fresh devices, for any apps, refreshes and launches (Injection).        *)
(* The argument: the lock lets one refresh in (LockInv); once it has       *)
(* killed FindMy and cleared the flag, no process whose lines were read by *)
(* then can raise it (GoneInv), so that it is up again only by one         *)
(* launched after, or by a line that was late (FlagInv).                   *)
(***************************************************************************)
EXTENDS Injection, Lifecycle, SequenceTheorems, TLAPS

\* A process that cannot raise the flag any more.
Mute(p) == ~p.alive /\ ~(p.conn = "open" /\ p.said = "ready")

Settled == {"settling", "polling", "fetching"}

LockInv == \A r \in Renewals : renewal[r] \notin Resting => guard = {r}

GoneInv ==
    \A r \in Renewals :
        /\ renewal[r] \in Settled \cup {"killed"} =>
              \A i \in stale[r] : i \in DOMAIN procs[FindMy] /\ ~procs[FindMy][i].alive
        /\ renewal[r] \in Settled => \A i \in stale[r] : Mute(procs[FindMy][i])

FlagInv ==
    \A r \in Renewals :
        /\ renewal[r] \in Settled /\ flag => raisedBy \notin stale[r]
        /\ renewal[r] \in {"fetching", "done"} => seenBy[r] \notin stale[r]

\* A loop that goes on has not failed too often.
LoopInv == \A a \in Injected : loop[a] # "gave up" => failures[a] < MaxFailures

InjectInv == InjectTypeOK /\ LoopInv /\ LockInv /\ GoneInv /\ FlagInv

-----------------------------------------------------------------------------
(* The processes.                                                          *)

ProcsOK == procs \in [Injected -> Seq(Process)]

LEMMA AppsAssumed == FindMy \in Injected /\ MaxFailures \in Nat \ {0} /\ Launches \in [Injected -> Nat]
BY InjectionAssumption

LEMMA KilledSeq ==
  ASSUME ProcsOK, NEW a \in Injected
  PROVE  /\ Killed(a) \in Seq(Process) /\ Len(Killed(a)) = Len(procs[a])
         /\ DOMAIN Killed(a) = DOMAIN procs[a]
         /\ \A j \in DOMAIN procs[a] : Killed(a)[j] = [procs[a][j] EXCEPT !.alive = FALSE]
<1>1. procs[a] \in Seq(Process) /\ DOMAIN procs[a] = 1 .. Len(procs[a]) /\ Len(procs[a]) \in Nat
  BY DEF ProcsOK
<1>2. ASSUME NEW j \in 1 .. Len(procs[a]) PROVE [procs[a][j] EXCEPT !.alive = FALSE] \in Process
  <2>1. procs[a][j] \in Process
    BY <1>1
  <2> QED BY <2>1 DEF Process
<1>3. Killed(a) \in [1 .. Len(procs[a]) -> Process]
  BY <1>1, <1>2 DEF Killed
<1>4. Killed(a) \in Seq(Process)
  BY <1>1, <1>3, SeqDef
<1> QED BY <1>1, <1>3, <1>4 DEF Killed

LEMMA StartedSeq ==
  ASSUME ProcsOK, NEW a \in Injected, Started(a)
  PROVE  /\ ProcsOK'
         /\ Len(procs'[a]) = Len(procs[a]) + 1
         /\ \A b \in Injected \ {a} : procs'[b] = procs[b]
         /\ \A j \in DOMAIN procs[a] : procs'[a][j] = procs[a][j]
         /\ DOMAIN procs'[a] = DOMAIN procs[a] \cup {Len(procs[a]) + 1}
<1>1. procs[a] \in Seq(Process) /\ DOMAIN procs[a] = 1 .. Len(procs[a]) /\ Len(procs[a]) \in Nat
  BY DEF ProcsOK
<1>2. Launched \in Process
  BY DEF Launched, Process
<1>3. procs' = [procs EXCEPT ![a] = Append(procs[a], Launched)]
  BY DEF Started
<1>4. /\ Append(procs[a], Launched) \in Seq(Process)
      /\ Len(Append(procs[a], Launched)) = Len(procs[a]) + 1
      /\ \A j \in 1 .. Len(procs[a]) : Append(procs[a], Launched)[j] = procs[a][j]
  BY <1>1, <1>2
<1> QED BY <1>1, <1>3, <1>4 DEF ProcsOK

\* Processes of FindMy are only added, a dead one stays dead, a mute one mute.
Onward ==
    /\ ProcsOK'
    /\ Len(procs'[FindMy]) >= Len(procs[FindMy])
    /\ \A j \in DOMAIN procs[FindMy] :
          /\ j \in DOMAIN procs'[FindMy]
          /\ ~procs[FindMy][j].alive => ~procs'[FindMy][j].alive
          /\ Mute(procs[FindMy][j]) => Mute(procs'[FindMy][j])

LEMMA OnwardSame == ASSUME ProcsOK, UNCHANGED procs PROVE Onward
<1>1. procs[FindMy] \in Seq(Process) /\ Len(procs[FindMy]) \in Nat
  BY AppsAssumed DEF ProcsOK
<1> QED BY <1>1 DEF Onward, ProcsOK, Mute

\* One process changes, which neither revives it nor gives it a voice.
LEMMA OnwardOne ==
  ASSUME ProcsOK, NEW a \in Injected, NEW i \in DOMAIN procs[a], NEW new \in Process,
         procs' = [procs EXCEPT ![a] = [procs[a] EXCEPT ![i] = new]],
         ~procs[a][i].alive => ~new.alive,
         Mute(procs[a][i]) => Mute(new)
  PROVE  Onward
<1>1. /\ ProcsOK'
      /\ \A b \in Injected : Len(procs'[b]) = Len(procs[b]) /\ DOMAIN procs'[b] = DOMAIN procs[b]
      /\ \A b \in Injected : \A j \in DOMAIN procs[b] :
            procs'[b][j] = IF b = a /\ j = i THEN new ELSE procs[b][j]
  <2>1. procs[a] \in Seq(Process) /\ DOMAIN procs[a] = 1 .. Len(procs[a]) /\ i \in 1 .. Len(procs[a])
    BY DEF ProcsOK
  <2>2. /\ [procs[a] EXCEPT ![i] = new] \in Seq(Process)
        /\ Len([procs[a] EXCEPT ![i] = new]) = Len(procs[a])
        /\ \A j \in 1 .. Len(procs[a]) : [procs[a] EXCEPT ![i] = new][j] = IF j = i THEN new ELSE procs[a][j]
    BY <2>1
  <2>3. DOMAIN [procs[a] EXCEPT ![i] = new] = DOMAIN procs[a]
    BY <2>1
  <2> QED BY <2>1, <2>2, <2>3 DEF ProcsOK
<1>2. procs[FindMy] \in Seq(Process) /\ Len(procs[FindMy]) \in Nat
  BY AppsAssumed DEF ProcsOK
<1>3. ASSUME NEW j \in DOMAIN procs[FindMy]
      PROVE  /\ j \in DOMAIN procs'[FindMy]
             /\ ~procs[FindMy][j].alive => ~procs'[FindMy][j].alive
             /\ Mute(procs[FindMy][j]) => Mute(procs'[FindMy][j])
  <2>1. CASE FindMy = a /\ j = i
    BY <1>1, <2>1, AppsAssumed
  <2>2. CASE ~(FindMy = a /\ j = i)
    BY <1>1, <2>2, AppsAssumed
  <2> QED BY <2>1, <2>2
<1>4. Len(procs'[FindMy]) >= Len(procs[FindMy])
  BY <1>1, <1>2, AppsAssumed
<1> QED BY <1>1, <1>3, <1>4 DEF Onward

LEMMA OnwardKilled ==
  ASSUME ProcsOK, NEW a \in Injected, procs' = [procs EXCEPT ![a] = Killed(a)]
  PROVE  Onward /\ \A j \in DOMAIN procs'[a] : ~procs'[a][j].alive
<1>1. /\ Killed(a) \in Seq(Process) /\ Len(Killed(a)) = Len(procs[a])
      /\ DOMAIN Killed(a) = DOMAIN procs[a]
      /\ \A j \in DOMAIN procs[a] : Killed(a)[j] = [procs[a][j] EXCEPT !.alive = FALSE]
  BY KilledSeq
<1>2. /\ procs[FindMy] \in Seq(Process) /\ Len(procs[FindMy]) \in Nat
      /\ procs[a] \in Seq(Process) /\ procs \in [Injected -> Seq(Process)]
  BY AppsAssumed DEF ProcsOK
<1>3. procs'[a] = Killed(a) /\ \A b \in Injected \ {a} : procs'[b] = procs[b]
  BY <1>2
<1>4. ProcsOK'
  BY <1>1, <1>2 DEF ProcsOK
<1>5. \A j \in DOMAIN procs[a] : procs[a][j] \in Process
  BY <1>2
<1>6. \A j \in DOMAIN procs[a] :
         /\ ~Killed(a)[j].alive
         /\ Killed(a)[j].said = procs[a][j].said /\ Killed(a)[j].conn = procs[a][j].conn
  BY <1>1, <1>5 DEF Process
<1>7. CASE FindMy = a
  <2>1. \A j \in DOMAIN procs[FindMy] : Mute(procs[FindMy][j]) => Mute(procs'[FindMy][j])
    BY <1>3, <1>6, <1>7 DEF Mute
  <2> QED BY <1>1, <1>2, <1>3, <1>4, <1>6, <1>7, <2>1 DEF Onward
<1>8. CASE FindMy # a
  <2>1. procs'[FindMy] = procs[FindMy]
    BY <1>3, <1>8, AppsAssumed
  <2> QED BY <1>1, <1>2, <1>3, <1>4, <1>6, <2>1 DEF Onward
<1> QED BY <1>7, <1>8

LEMMA OnwardStarted == ASSUME ProcsOK, NEW a \in Injected, Started(a) PROVE Onward
<1>1. /\ ProcsOK'
      /\ Len(procs'[a]) = Len(procs[a]) + 1
      /\ \A b \in Injected \ {a} : procs'[b] = procs[b]
      /\ \A j \in DOMAIN procs[a] : procs'[a][j] = procs[a][j]
      /\ DOMAIN procs'[a] = DOMAIN procs[a] \cup {Len(procs[a]) + 1}
  BY StartedSeq
<1>2. procs[FindMy] \in Seq(Process) /\ Len(procs[FindMy]) \in Nat
  BY AppsAssumed DEF ProcsOK
<1>3. CASE FindMy = a
  BY <1>1, <1>2, <1>3 DEF Onward
<1>4. CASE FindMy # a
  <2>1. procs'[FindMy] = procs[FindMy]
    BY <1>1, <1>4, AppsAssumed
  <2> QED BY <1>1, <1>2, <2>1 DEF Onward
<1> QED BY <1>3, <1>4

LEMMA PingOn == ASSUME ProcsOK, NEW a \in Injected, NEW i \in DOMAIN procs[a], Ping(a, i) PROVE Onward
<1> DEFINE new == [procs[a][i] EXCEPT !.said = "ping", !.conn = "open"]
<1>1. procs[a] \in Seq(Process) /\ procs[a][i] \in Process
  BY DEF ProcsOK
<1>2. new \in Process /\ new.alive = procs[a][i].alive
  BY <1>1 DEF Process
<1>3. procs' = [procs EXCEPT ![a] = [procs[a] EXCEPT ![i] = new]]
  BY DEF Ping
<1>4. procs[a][i].alive
  BY DEF Ping
<1> HIDE DEF new
<1> QED BY <1>2, <1>3, <1>4, OnwardOne DEF Mute

LEMMA ReadyOn == ASSUME ProcsOK, NEW i \in DOMAIN procs[FindMy], Ready(i) PROVE Onward
<1> DEFINE new == [procs[FindMy][i] EXCEPT !.said = "ready"]
<1>1. procs[FindMy] \in Seq(Process) /\ procs[FindMy][i] \in Process
  BY AppsAssumed DEF ProcsOK
<1>2. new \in Process /\ new.alive = procs[FindMy][i].alive
  BY <1>1 DEF Process
<1>3. procs' = [procs EXCEPT ![FindMy] = [procs[FindMy] EXCEPT ![i] = new]]
  BY DEF Ready
<1>4. procs[FindMy][i].alive
  BY DEF Ready
<1> HIDE DEF new
<1> QED BY <1>2, <1>3, <1>4, OnwardOne, AppsAssumed DEF Mute

LEMMA ExitOn ==
  ASSUME ProcsOK, NEW a \in Injected, NEW i \in DOMAIN procs[a], NEW clean \in BOOLEAN, Exit(a, i, clean)
  PROVE  Onward
<1> DEFINE new == [procs[a][i] EXCEPT !.alive = FALSE, !.clean = clean]
<1>1. procs[a] \in Seq(Process) /\ procs[a][i] \in Process
  BY DEF ProcsOK
<1>2. new \in Process /\ ~new.alive
  BY <1>1 DEF Process
<1>3. procs' = [procs EXCEPT ![a] = [procs[a] EXCEPT ![i] = new]]
  BY DEF Exit
<1>4. procs[a][i].alive
  BY DEF Exit
<1> HIDE DEF new
<1> QED BY <1>2, <1>3, <1>4, OnwardOne DEF Mute

LEMMA HearReadyOn == ASSUME ProcsOK, NEW i \in DOMAIN procs[FindMy], HearReady(i) PROVE Onward
<1> DEFINE new == [procs[FindMy][i] EXCEPT !.conn = "heard"]
<1>1. procs[FindMy] \in Seq(Process) /\ procs[FindMy][i] \in Process
  BY AppsAssumed DEF ProcsOK
<1>2. new \in Process /\ new.alive = procs[FindMy][i].alive /\ new.conn = "heard"
  BY <1>1 DEF Process
<1>3. procs' = [procs EXCEPT ![FindMy] = [procs[FindMy] EXCEPT ![i] = new]]
  BY DEF HearReady
<1> HIDE DEF new
<1> QED BY <1>2, <1>3, OnwardOne, AppsAssumed DEF Mute

LEMMA HearEndOn == ASSUME ProcsOK, NEW a \in Injected, NEW i \in DOMAIN procs[a], HearEnd(a, i) PROVE Onward
<1> DEFINE new == [procs[a][i] EXCEPT !.conn = "closed", !.said = "nothing"]
<1>1. procs[a] \in Seq(Process) /\ procs[a][i] \in Process
  BY DEF ProcsOK
<1>2. new \in Process /\ new.alive = procs[a][i].alive /\ new.conn = "closed"
  BY <1>1 DEF Process
<1>3. procs' = [procs EXCEPT ![a] = [procs[a] EXCEPT ![i] = new]]
  BY DEF HearEnd
<1> HIDE DEF new
<1> QED BY <1>2, <1>3, OnwardOne DEF Mute

LEMMA StepOnward == ASSUME ProcsOK, InjectStep PROVE Onward
<1>1. ASSUME NEW a \in Injected,
             LoopKills(a) \/ LoopStops(a) \/ LoopLaunches(a) \/ LaunchFails(a)
             \/ \E long \in BOOLEAN : ChildExits(a, long)
      PROVE  Onward
  <2>1. CASE LoopKills(a)
    BY <2>1, OnwardKilled DEF LoopKills
  <2>2. CASE LoopStops(a) \/ LaunchFails(a) \/ \E long \in BOOLEAN : ChildExits(a, long)
    BY <2>2, OnwardSame DEF LoopStops, LaunchFails, ChildExits
  <2>3. CASE LoopLaunches(a)
    BY <2>3, OnwardStarted DEF LoopLaunches
  <2> QED BY <1>1, <2>1, <2>2, <2>3
<1>2. ASSUME NEW a \in Injected, NEW i \in DOMAIN procs[a],
             Ping(a, i) \/ HearEnd(a, i) \/ \E clean \in BOOLEAN : Exit(a, i, clean)
      PROVE  Onward
  BY <1>2, PingOn, HearEndOn, ExitOn
<1>3. ASSUME NEW i \in DOMAIN procs[FindMy], Ready(i) \/ HearReady(i) PROVE Onward
  BY <1>3, ReadyOn, HearReadyOn
<1>4. ASSUME NEW r \in Renewals, RenewalStep(r) \/ RefuseRenewal(r) \/ RenewalDropped(r) PROVE Onward
  <2>1. CASE KillFindMy(r)
    BY <2>1, OnwardKilled, AppsAssumed DEF KillFindMy
  <2>2. CASE RelaunchFindMy(r)
    BY <2>2, OnwardStarted, AppsAssumed DEF RelaunchFindMy
  <2>3. CASE ~(KillFindMy(r) \/ RelaunchFindMy(r))
    <3>1. UNCHANGED procs
      BY <1>4, <2>3 DEF RenewalStep, BeginRenewal, RefuseRenewal, ClearFindMyReady, PollReady, PollTimesOut,
         RenewalFails, ReadDevices, RenewalDropped, EndRenewal
    <3> QED BY <3>1, OnwardSame
  <2> QED BY <2>1, <2>2, <2>3
<1> QED BY <1>1, <1>2, <1>3, <1>4 DEF InjectStep

-----------------------------------------------------------------------------
(* The types.                                                              *)

TypesInv == InjectTypeOK /\ LoopInv

LEMMA Typed == InjectTypeOK => ProcsOK
BY DEF InjectTypeOK, ProcsOK

LEMMA InjectStart == InjectInit => InjectInv
<1> SUFFICES ASSUME InjectInit PROVE InjectInv
  OBVIOUS
<1>1. procs \in [Injected -> Seq(Process)]
  BY EmptySeq DEF InjectInit
<1>2. InjectTypeOK
  <2>1. 0 \in 0 .. MaxFailures /\ 0 \in Nat
    BY AppsAssumed
  <2>2. loop \in [Injected -> {"killing", "asleep", "watching", "connected", "gave up"}]
    BY DEF InjectInit
  <2>3. renewal \in [Renewals -> Resting \cup {"keyed", "killed", "settling", "polling", "fetching"}]
    BY DEF InjectInit, Resting
  <2>4. child \in [Injected -> Nat] /\ failures \in [Injected -> 0 .. MaxFailures]
    BY <2>1 DEF InjectInit
  <2>5. seenBy \in [Renewals -> Nat] /\ raisedBy \in Nat
    BY <2>1 DEF InjectInit
  <2>6. stale \in [Renewals -> LaunchSets]
    <3>1. {} \in LaunchSets
      BY DEF LaunchSets
    <3> QED BY <3>1 DEF InjectInit
  <2> QED BY <1>1, <2>2, <2>3, <2>4, <2>5, <2>6 DEF InjectInit, InjectTypeOK
<1>4. LoopInv
  BY AppsAssumed DEF InjectInit, LoopInv
<1>3. LockInv /\ GoneInv /\ FlagInv
  BY DEF InjectInit, LockInv, GoneInv, FlagInv, Resting, Settled
<1> QED BY <1>2, <1>3, <1>4 DEF InjectInv

LEMMA TurnTypes ==
  ASSUME InjectTypeOK, LoopInv, NEW a \in Injected, NEW count \in Nat, count <= MaxFailures, Turn(a, count)
  PROVE  /\ failures' \in [Injected -> 0 .. MaxFailures]
         /\ loop' \in [Injected -> {"killing", "asleep", "watching", "connected", "gave up"}]
         /\ LoopInv'
<1>1. count \in 0 .. MaxFailures
  BY AppsAssumed
<1>2. /\ failures' \in [Injected -> 0 .. MaxFailures]
      /\ loop' \in [Injected -> {"killing", "asleep", "watching", "connected", "gave up"}]
  BY <1>1 DEF Turn, InjectTypeOK
<1>3. \A b \in Injected : failures'[b] = (IF b = a THEN count ELSE failures[b])
  BY DEF Turn, InjectTypeOK
<1>4. \A b \in Injected :
         loop'[b] = (IF b = a THEN IF count < MaxFailures THEN "killing" ELSE "gave up" ELSE loop[b])
  BY DEF Turn, InjectTypeOK
<1> QED BY <1>2, <1>3, <1>4 DEF LoopInv

LEMMA StepTypes == ASSUME TypesInv, InjectStep PROVE TypesInv'
<1> USE DEF TypesInv
<1>0. procs' \in [Injected -> Seq(Process)] /\ procs \in [Injected -> Seq(Process)]
  BY StepOnward, Typed DEF Onward, ProcsOK
<1>n. \A a \in Injected : Len(procs[a]) \in Nat
  BY <1>0
<1>1. ASSUME NEW a \in Injected, LaunchFails(a) PROVE TypesInv'
  <2>0. loop[a] # "gave up"
    BY <1>1 DEF LaunchFails
  <2>a. failures[a] \in 0 .. MaxFailures
    BY DEF InjectTypeOK
  <2>b. failures[a] < MaxFailures
    BY <2>0 DEF LoopInv
  <2>1. failures[a] < MaxFailures /\ failures[a] \in Nat /\ MaxFailures \in Nat
    BY <2>a, <2>b, AppsAssumed
  <2>2. failures[a] + 1 \in Nat /\ failures[a] + 1 <= MaxFailures
    BY <2>1
  <2>3. Turn(a, failures[a] + 1)
    BY <1>1 DEF LaunchFails
  <2> QED BY <1>0, <1>1, <2>2, <2>3, TurnTypes DEF LaunchFails, InjectTypeOK, renewVars
<1>2. ASSUME NEW a \in Injected, NEW long \in BOOLEAN, ChildExits(a, long) PROVE TypesInv'
  <2>0. loop[a] # "gave up"
    BY <1>2 DEF ChildExits
  <2>a. failures[a] \in 0 .. MaxFailures
    BY DEF InjectTypeOK
  <2>b. failures[a] < MaxFailures
    BY <2>0 DEF LoopInv
  <2>1. failures[a] < MaxFailures /\ failures[a] \in Nat /\ MaxFailures \in Nat \ {0}
    BY <2>a, <2>b, AppsAssumed
  <2> DEFINE count == IF procs[a][child[a]].clean THEN 0 ELSE IF long THEN 1 ELSE failures[a] + 1
  <2>2. count \in Nat /\ count <= MaxFailures
    BY <2>1
  <2>3. Turn(a, count)
    BY <1>2 DEF ChildExits
  <2> HIDE DEF count
  <2> QED BY <1>0, <1>2, <2>2, <2>3, TurnTypes DEF ChildExits, InjectTypeOK, renewVars
<1>3. ASSUME NEW a \in Injected, LoopKills(a) \/ LoopStops(a) \/ LoopLaunches(a) PROVE TypesInv'
  <2>1. loop' \in [Injected -> {"killing", "asleep", "watching", "connected", "gave up"}]
    BY <1>3 DEF LoopKills, LoopStops, LoopLaunches, InjectTypeOK
  <2>2. child' \in [Injected -> Nat]
    <3>1. CASE UNCHANGED child
      BY <3>1 DEF InjectTypeOK
    <3>2. CASE child' = [child EXCEPT ![a] = Len(procs[a]) + 1]
      <4>1. Len(procs[a]) + 1 \in Nat
        BY <1>n
      <4> QED BY <3>2, <4>1 DEF InjectTypeOK
    <3> QED BY <1>3, <3>1, <3>2 DEF LoopKills, LoopStops, LoopLaunches
  <2>3. LoopInv'
    BY <1>3 DEF LoopKills, LoopStops, LoopLaunches, InjectTypeOK, LoopInv
  <2> QED BY <1>0, <1>3, <2>1, <2>2, <2>3 DEF LoopKills, LoopStops, LoopLaunches, InjectTypeOK, renewVars
<1>4. ASSUME NEW a \in Injected, NEW i \in DOMAIN procs[a],
             Ping(a, i) \/ HearEnd(a, i) \/ \E clean \in BOOLEAN : Exit(a, i, clean)
      PROVE  TypesInv'
  <2>1. UNCHANGED <<raisedBy, loopVars, renewVars>> /\ flag' \in BOOLEAN
    BY <1>4 DEF Ping, HearEnd, Exit, InjectTypeOK
  <2> QED BY <1>0, <2>1 DEF InjectTypeOK, LoopInv, loopVars, renewVars
<1>5. ASSUME NEW i \in DOMAIN procs[FindMy], Ready(i) \/ HearReady(i) PROVE TypesInv'
  <2>1. i \in Nat
    BY <1>0, AppsAssumed
  <2>2. UNCHANGED <<loopVars, renewVars>> /\ flag' \in BOOLEAN /\ raisedBy' \in Nat
    BY <1>5, <2>1 DEF Ready, HearReady, InjectTypeOK
  <2> QED BY <1>0, <2>2 DEF InjectTypeOK, LoopInv, loopVars, renewVars
<1>6. ASSUME NEW r \in Renewals, RenewalStep(r) \/ RefuseRenewal(r) \/ RenewalDropped(r) PROVE TypesInv'
  <2> USE DEF RenewalStep, BeginRenewal, RefuseRenewal, KillFindMy, ClearFindMyReady, RelaunchFindMy, PollReady,
              PollTimesOut, RenewalFails, ReadDevices, RenewalDropped, EndRenewal, TryLock, Cleared, Resting
  <2>1. renewal' \in [Renewals -> Resting \cup {"keyed", "killed", "settling", "polling", "fetching"}]
    BY <1>6 DEF InjectTypeOK
  <2>2. guard' \subseteq Renewals /\ flag' \in BOOLEAN
    BY <1>6 DEF InjectTypeOK
  <2>3. stale' \in [Renewals -> LaunchSets] /\ seenBy' \in [Renewals -> Nat]
    <3>1. /\ stale \in [Renewals -> LaunchSets] /\ seenBy \in [Renewals -> Nat] /\ raisedBy \in Nat
      BY DEF InjectTypeOK
    <3>2. DOMAIN procs[FindMy] \in LaunchSets
      <4>1. DOMAIN procs[FindMy] = 1 .. Len(procs[FindMy]) /\ Len(procs[FindMy]) \in Nat
        BY <1>0, AppsAssumed
      <4> QED BY <4>1 DEF LaunchSets
    <3>3. {i \in stale[r] : ~Unread(i)} \in LaunchSets
      <4>1. stale[r] \in LaunchSets
        BY <3>1
      <4> QED BY <4>1 DEF LaunchSets
    <3>4. \/ stale' = stale
          \/ stale' = [stale EXCEPT ![r] = DOMAIN procs[FindMy]]
          \/ stale' = [stale EXCEPT ![r] = {i \in stale[r] : ~Unread(i)}]
      BY <1>6
    <3>5. \/ seenBy' = seenBy
          \/ seenBy' = [seenBy EXCEPT ![r] = raisedBy]
      BY <1>6
    <3> HIDE DEF TypesInv
    <3>6. stale' \in [Renewals -> LaunchSets]
      BY <3>1, <3>2, <3>3, <3>4
    <3> QED BY <3>1, <3>5, <3>6
  <2>4. UNCHANGED <<raisedBy, loopVars>>
    BY <1>6
  <2> QED BY <1>0, <2>1, <2>2, <2>3, <2>4 DEF InjectTypeOK, LoopInv, loopVars
<1> QED BY <1>1, <1>2, <1>3, <1>4, <1>5, <1>6 DEF InjectStep

-----------------------------------------------------------------------------
(* The refresh.                                                            *)

\* Nothing of the refreshes changes: the flag goes up only by a process that is not mute.
LEMMA Undisturbed ==
  ASSUME InjectInv, InjectTypeOK', Onward, UNCHANGED renewVars,
         flag' => \/ flag /\ raisedBy' = raisedBy
                  \/ raisedBy' \in DOMAIN procs[FindMy] /\ ~Mute(procs[FindMy][raisedBy'])
  PROVE  LockInv' /\ GoneInv' /\ FlagInv'
<1> USE DEF renewVars, InjectInv
<1>1. LockInv'
  BY DEF LockInv
<1>2. GoneInv'
  BY DEF GoneInv, Onward
<1>3. FlagInv'
  <2>1. ASSUME NEW r \in Renewals, renewal[r] \in Settled, flag' PROVE raisedBy' \notin stale[r]
    <3>1. CASE flag /\ raisedBy' = raisedBy
      BY <2>1, <3>1 DEF FlagInv
    <3>2. CASE ~Mute(procs[FindMy][raisedBy'])
      BY <2>1, <3>2 DEF GoneInv
    <3> QED BY <2>1, <3>1, <3>2
  <2> QED BY <2>1 DEF FlagInv
<1> QED BY <1>1, <1>2, <1>3

LEMMA ByOthers ==
  ASSUME InjectInv, InjectTypeOK', Onward, InjectStep,
         ~\E r \in Renewals : RenewalStep(r) \/ RefuseRenewal(r) \/ RenewalDropped(r)
  PROVE  LockInv' /\ GoneInv' /\ FlagInv'
<1>1. UNCHANGED renewVars
  <2>1. ASSUME NEW a \in Injected,
               \/ LoopKills(a) \/ LoopStops(a) \/ LoopLaunches(a) \/ LaunchFails(a)
               \/ \E long \in BOOLEAN : ChildExits(a, long)
        PROVE  UNCHANGED renewVars
    BY <2>1 DEF LoopKills, LoopStops, LoopLaunches, LaunchFails, ChildExits
  <2>2. ASSUME NEW a \in Injected, NEW i \in DOMAIN procs[a],
               Ping(a, i) \/ HearEnd(a, i) \/ \E clean \in BOOLEAN : Exit(a, i, clean)
        PROVE  UNCHANGED renewVars
    BY <2>2 DEF Ping, HearEnd, Exit
  <2>3. ASSUME NEW i \in DOMAIN procs[FindMy], Ready(i) \/ HearReady(i)
        PROVE  UNCHANGED renewVars
    BY <2>3 DEF Ready, HearReady
  <2> QED BY <2>1, <2>2, <2>3 DEF InjectStep
<1>2. CASE ~\E i \in DOMAIN procs[FindMy] : HearReady(i)
  <2>1. (flag' => flag) /\ raisedBy' = raisedBy
    <3>1. ASSUME NEW a \in Injected,
                 LoopKills(a) \/ LoopStops(a) \/ LoopLaunches(a) \/ LaunchFails(a)
                 \/ \E long \in BOOLEAN : ChildExits(a, long)
          PROVE  (flag' => flag) /\ raisedBy' = raisedBy
      BY <3>1 DEF LoopKills, LoopStops, LoopLaunches, LaunchFails, ChildExits
    <3>2. ASSUME NEW a \in Injected, NEW i \in DOMAIN procs[a],
                 Ping(a, i) \/ HearEnd(a, i) \/ \E clean \in BOOLEAN : Exit(a, i, clean)
          PROVE  (flag' => flag) /\ raisedBy' = raisedBy
      <4>1. CASE HearEnd(a, i)
        <5>1. (flag' = (flag /\ a # FindMy)) /\ raisedBy' = raisedBy
          BY <4>1 DEF HearEnd
        <5> QED BY <5>1, Zenon
      <4>2. CASE Ping(a, i) \/ \E clean \in BOOLEAN : Exit(a, i, clean)
        BY <4>2 DEF Ping, Exit
      <4> QED BY <3>2, <4>1, <4>2
    <3>3. ASSUME NEW i \in DOMAIN procs[FindMy], Ready(i) PROVE (flag' => flag) /\ raisedBy' = raisedBy
      BY <3>3 DEF Ready
    <3> QED BY <1>2, <3>1, <3>2, <3>3 DEF InjectStep
  <2> QED BY <1>1, <2>1, Undisturbed
<1>3. ASSUME NEW i \in DOMAIN procs[FindMy], HearReady(i)
      PROVE  LockInv' /\ GoneInv' /\ FlagInv'
  <2>1. raisedBy' \in DOMAIN procs[FindMy] /\ ~Mute(procs[FindMy][raisedBy'])
    BY <1>3 DEF HearReady, Mute
  <2> QED BY <1>1, <2>1, Undisturbed
<1> QED BY <1>2, <1>3

\* A step of a request that leaves the others where they are.
Moves(r) == \A q \in Renewals \ {r} :
               renewal'[q] = renewal[q] /\ stale'[q] = stale[q] /\ seenBy'[q] = seenBy[q]

\* What the holder of the lock does is no concern of a request at rest.
LEMMA Holder ==
  ASSUME InjectInv, NEW r \in Renewals, renewal[r] \notin Resting
  PROVE  guard = {r} /\ \A q \in Renewals \ {r} : renewal[q] \in Resting
<1>1. guard = {r}
  BY DEF InjectInv, LockInv
<1> QED BY <1>1 DEF InjectInv, LockInv

\* The others are at rest: their invariants hold as they did.
LEMMA AtRest ==
  ASSUME InjectInv, InjectTypeOK', NEW r \in Renewals, Moves(r),
         \A q \in Renewals \ {r} : renewal[q] \in Resting,
         renewal'[r] \notin Resting => guard' = {r},
         renewal'[r] \in Settled \cup {"killed"} =>
            \A i \in stale'[r] : i \in DOMAIN procs'[FindMy] /\ ~procs'[FindMy][i].alive,
         renewal'[r] \in Settled => \A i \in stale'[r] : Mute(procs'[FindMy][i]),
         renewal'[r] \in Settled /\ flag' => raisedBy' \notin stale'[r],
         renewal'[r] \in {"fetching", "done"} => seenBy'[r] \notin stale'[r]
  PROVE  LockInv' /\ GoneInv' /\ FlagInv'
<1>1. \A q \in Renewals \ {r} : renewal'[q] \in Resting /\ renewal'[q] = renewal[q]
  BY DEF Moves
<1>2. \A s \in Resting : s \notin Settled /\ s # "killed" /\ s # "fetching"
  BY DEF Resting, Settled
<1>3. LockInv'
  BY <1>1 DEF LockInv
<1>4. GoneInv'
  BY <1>1, <1>2 DEF GoneInv
<1>5. ASSUME NEW q \in Renewals \ {r} PROVE renewal'[q] \in {"fetching", "done"} => seenBy'[q] \notin stale'[q]
  BY <1>1 DEF InjectInv, FlagInv, Moves
<1>6. FlagInv'
  BY <1>1, <1>2, <1>5 DEF FlagInv
<1> QED BY <1>3, <1>4, <1>6

LEMMA ByRequest ==
  ASSUME InjectInv, InjectTypeOK', Onward, NEW r \in Renewals,
         RenewalStep(r) \/ RefuseRenewal(r) \/ RenewalDropped(r)
  PROVE  LockInv' /\ GoneInv' /\ FlagInv'
<1>0. /\ renewal \in [Renewals -> Resting \cup {"keyed", "killed", "settling", "polling", "fetching"}]
      /\ stale \in [Renewals -> LaunchSets] /\ seenBy \in [Renewals -> Nat]
      /\ procs[FindMy] \in Seq(Process) /\ Len(procs[FindMy]) \in Nat
      /\ DOMAIN procs[FindMy] = 1 .. Len(procs[FindMy])
      /\ procs \in [Injected -> Seq(Process)]
  <2>1. procs[FindMy] \in Seq(Process) /\ procs \in [Injected -> Seq(Process)]
    BY AppsAssumed DEF InjectInv, InjectTypeOK
  <2>2. /\ renewal \in [Renewals -> Resting \cup {"keyed", "killed", "settling", "polling", "fetching"}]
        /\ stale \in [Renewals -> LaunchSets] /\ seenBy \in [Renewals -> Nat]
    BY DEF InjectInv, InjectTypeOK
  <2> QED BY <2>1, <2>2
<1>1. Moves(r)
  BY <1>0 DEF Moves, RenewalStep, BeginRenewal, RefuseRenewal, KillFindMy, ClearFindMyReady, RelaunchFindMy, PollReady,
     PollTimesOut, RenewalFails, ReadDevices, RenewalDropped, EndRenewal
<1>2. CASE BeginRenewal(r)
  <2>1. guard = {} /\ guard' = {r} /\ renewal'[r] = "keyed"
    BY <1>0, <1>2 DEF BeginRenewal, TryLock
  <2>2. \A q \in Renewals : renewal[q] \in Resting
    BY <2>1 DEF InjectInv, LockInv
  <2> QED BY <1>1, <2>1, <2>2, AtRest DEF Settled
<1>3. CASE RefuseRenewal(r)
  <2>1. /\ renewal'[r] = "refused" /\ renewal[r] = "idle" /\ UNCHANGED <<procs, flag, raisedBy, guard, stale, seenBy>>
    BY <1>0, <1>3 DEF RefuseRenewal
  <2>2. \A q \in Renewals : renewal'[q] = IF q = r THEN "refused" ELSE renewal[q]
    BY <1>0, <1>3 DEF RefuseRenewal
  <2>3. LockInv'
    BY <2>1, <2>2 DEF InjectInv, LockInv, Resting
  <2>4. GoneInv'
    BY <2>1, <2>2 DEF InjectInv, GoneInv, Settled
  <2>5. FlagInv'
    BY <2>1, <2>2 DEF InjectInv, FlagInv, Settled
  <2> QED BY <2>3, <2>4, <2>5
<1>4. CASE KillFindMy(r)
  <2>1. /\ renewal[r] = "keyed" /\ renewal'[r] = "killed" /\ UNCHANGED guard
        /\ stale'[r] = DOMAIN procs[FindMy]
    BY <1>0, <1>4 DEF KillFindMy
  <2>2. guard = {r} /\ \A q \in Renewals \ {r} : renewal[q] \in Resting
    BY <2>1, Holder DEF Resting
  <2>3. \A j \in DOMAIN procs'[FindMy] : ~procs'[FindMy][j].alive
    BY <1>4, OnwardKilled, Typed, AppsAssumed DEF KillFindMy, InjectInv
  <2>4. \A j \in stale'[r] : j \in DOMAIN procs'[FindMy]
    BY <2>1 DEF Onward
  <2> QED BY <1>1, <2>1, <2>2, <2>3, <2>4, AtRest DEF Settled
<1>5. CASE ClearFindMyReady(r)
  <2>1. /\ renewal[r] = "killed" /\ renewal'[r] = "settling" /\ UNCHANGED <<procs, guard>> /\ flag' = FALSE
        /\ stale'[r] = {i \in stale[r] : ~Unread(i)}
    BY <1>0, <1>5 DEF ClearFindMyReady, Cleared
  <2>2. guard = {r} /\ \A q \in Renewals \ {r} : renewal[q] \in Resting
    BY <2>1, Holder DEF Resting
  <2>3. \A i \in stale[r] : i \in DOMAIN procs[FindMy] /\ ~procs[FindMy][i].alive
    BY <2>1 DEF InjectInv, GoneInv
  <2>4. \A i \in stale'[r] : Mute(procs[FindMy][i])
    BY <2>1, <2>3 DEF Unread, Mute
  <2> QED BY <1>1, <2>1, <2>2, <2>3, <2>4, AtRest DEF Settled
<1>6. CASE RelaunchFindMy(r)
  <2>1. renewal[r] = "settling" /\ renewal'[r] = "polling" /\ UNCHANGED <<guard, stale, seenBy, flag, raisedBy>>
    BY <1>0, <1>6 DEF RelaunchFindMy
  <2>2. guard = {r} /\ \A q \in Renewals \ {r} : renewal[q] \in Resting
    BY <2>1, Holder DEF Resting
  <2>3. /\ \A i \in stale[r] : i \in DOMAIN procs[FindMy] /\ Mute(procs[FindMy][i])
        /\ flag => raisedBy \notin stale[r]
    BY <1>0, <2>1 DEF InjectInv, GoneInv, FlagInv, Settled
  <2>4. \A i \in stale[r] : i \in DOMAIN procs'[FindMy] /\ Mute(procs'[FindMy][i])
    BY <2>3 DEF Onward
  <2>5. \A i \in stale[r] : ~procs'[FindMy][i].alive
    BY <2>4 DEF Mute
  <2> QED BY <1>1, <2>1, <2>2, <2>3, <2>4, <2>5, AtRest DEF Settled
<1>7. CASE PollReady(r)
  <2>1. /\ renewal[r] = "polling" /\ renewal'[r] = "fetching" /\ seenBy'[r] = raisedBy
        /\ flag /\ UNCHANGED <<procs, guard, stale, flag, raisedBy>>
    BY <1>0, <1>7 DEF PollReady
  <2>2. guard = {r} /\ \A q \in Renewals \ {r} : renewal[q] \in Resting
    BY <2>1, Holder DEF Resting
  <2>3. /\ \A i \in stale[r] : i \in DOMAIN procs[FindMy] /\ ~procs[FindMy][i].alive
        /\ \A i \in stale[r] : Mute(procs[FindMy][i])
        /\ flag => raisedBy \notin stale[r]
    BY <2>1 DEF InjectInv, GoneInv, FlagInv, Settled
  <2> QED BY <1>1, <2>1, <2>2, <2>3, AtRest DEF Settled
<1>8. CASE ReadDevices(r)
  <2>1. /\ renewal[r] = "fetching" /\ renewal'[r] = "done" /\ UNCHANGED <<procs, stale, seenBy, flag, raisedBy>>
    BY <1>0, <1>8 DEF ReadDevices, EndRenewal
  <2>2. \A q \in Renewals \ {r} : renewal[q] \in Resting
    BY <2>1, Holder DEF Resting
  <2>3. seenBy[r] \notin stale[r]
    BY <2>1 DEF InjectInv, FlagInv
  <2> QED BY <1>1, <2>1, <2>2, <2>3, AtRest DEF Settled, Resting
<1>9. CASE PollTimesOut(r) \/ RenewalFails(r) \/ RenewalDropped(r)
  <2>1. renewal[r] \notin Resting /\ renewal'[r] = "failed"
    BY <1>0, <1>9 DEF PollTimesOut, RenewalFails, RenewalDropped, EndRenewal, Resting
  <2>2. \A q \in Renewals \ {r} : renewal[q] \in Resting
    BY <2>1, Holder
  <2> QED BY <1>1, <2>1, <2>2, AtRest DEF Settled, Resting
<1> QED BY <1>2, <1>3, <1>4, <1>5, <1>6, <1>7, <1>8, <1>9 DEF RenewalStep

LEMMA InjectNext == InjectInv /\ [InjectStep]_injectVars => InjectInv'
<1> SUFFICES ASSUME InjectInv, [InjectStep]_injectVars PROVE InjectInv'
  OBVIOUS
<1>1. CASE InjectStep
  <2>1. InjectTypeOK' /\ LoopInv'
    BY <1>1, StepTypes DEF InjectInv, TypesInv
  <2>2. Onward
    BY <1>1, StepOnward, Typed DEF InjectInv
  <2>3. LockInv' /\ GoneInv' /\ FlagInv'
    BY <1>1, <2>1, <2>2, ByOthers, ByRequest
  <2> QED BY <2>1, <2>3 DEF InjectInv
<1>2. CASE UNCHANGED injectVars
  <2>1. InjectTypeOK' /\ LoopInv'
    BY <1>2 DEF InjectInv, InjectTypeOK, LoopInv, injectVars
  <2>2. LockInv' /\ GoneInv' /\ FlagInv'
    BY <1>2 DEF InjectInv, LockInv, GoneInv, FlagInv, injectVars, Mute
  <2> QED BY <2>1, <2>2 DEF InjectInv
<1> QED BY <1>1, <1>2

\* The loops, the processes and the refreshes keep their types, for any apps,
\* requests and bounds; no loop counts past MaxFailures.
THEOREM InjectTypes == InjectSpec => []InjectTypeOK
<1>1. InjectInv => InjectTypeOK
  BY DEF InjectInv
<1> QED BY <1>1, InjectStart, InjectNext, PTL DEF InjectSpec

\* The readiness a refresh of the devices takes for fresh data is that of a
\* process launched after it killed the app, or of one whose "ready" was still unread
\* when the flag was cleared (icloud.rs, refresh_findmy_devices).
THEOREM FreshReadiness == InjectSpec => []FreshDevices
<1>1. InjectInv => FreshDevices
  BY DEF InjectInv, FlagInv, FreshDevices
<1> QED BY <1>1, InjectStart, InjectNext, PTL DEF InjectSpec

-----------------------------------------------------------------------------
(* One instance, and what becomes of its pid file (Lifecycle), for any      *)
(* processes, pids and command lines.                                      *)
(*                                                                         *)
(* The argument: as long as no start read the file while another was at    *)
(* it, the file holds the pid of the instance past the check (OwnInv); so  *)
(* whoever reads it then has that pid in hand (AloneInv), and the pid is    *)
(* nobody else's (PidInv).                                                 *)

\* No two processes have one pid.
PidInv ==
    \A i \in Programs : phase[i] # "off" =>
        /\ pidOf[i] \notin alien
        /\ \A j \in Programs \ {i} : phase[j] # "off" => pidOf[j] # pidOf[i]

OwnInv ==
    \A i \in Programs :
        /\ phase[i] # "orphaned"
        /\ phase[i] = "opened" => pidFile = "torn"
        /\ phase[i] \in {"written", "serving", "closing"} => pidFile = pidOf[i]

\* While one is past the check, another that has read the file has read its pid.
AloneInv ==
    \A i, j \in Programs : i # j /\ phase[i] \in Past =>
        /\ phase[j] \notin Past
        /\ phase[j] = "read" =>
              phase[i] \in {"written", "serving", "closing", "unlinked"} /\ glimpse[j] = pidOf[i]

ReadInv == \A i, j \in Programs : i # j /\ phase[i] = "read" => phase[j] # "read"

LifeInv == LifeTypeOK /\ PidInv /\ PidFileAccounted /\ (~raced => OwnInv /\ AloneInv /\ ReadInv)

-----------------------------------------------------------------------------
\* The first state, then one lemma per part of the invariant.
LEMMA LifeInitially == LifeInit => LifeInv
  <1> USE LifecycleAssumption
  <1>1. NoPid \in Pids
    BY DEF NoPid
  <1>2. LifeInit => LifeTypeOK
    <2>1. "off" \in Phases /\ Unset \in Ports
      BY DEF Phases, Ports
    <2> QED
      BY <1>1, <2>1 DEF LifeInit, LifeTypeOK
  <1>3. LifeInit => PidInv /\ PidFileAccounted /\ OwnInv /\ AloneInv /\ ReadInv
    BY DEF LifeInit, PidInv, PidFileAccounted, OwnInv, AloneInv, ReadInv, Past, Owning
  <1> QED
    BY <1>2, <1>3 DEF LifeInv

LEMMA LifeTyped == ASSUME LifeTypeOK, LifeStep PROVE LifeTypeOK'
  <1> USE LifecycleAssumption DEF LifeTypeOK
  <1>0. NoPid \in Pids /\ Unset \in Ports
    BY DEF NoPid, Ports
  <1>1. ASSUME NEW i \in Programs, NEW c \in CommandLines, Launch(i, c) PROVE LifeTypeOK'
    <2>1. ToYamlConfig(c) \in Ports /\ IntoAppConfig(Resolved(c)) \in Ports
      BY DEF Ports, IntoAppConfig, Resolved, ToYamlConfig
    <2>2. \A j \in Programs : port'[j] \in Ports
      BY <1>1, <2>1 DEF Launch
    <2>3. port' \in [Programs -> Ports]
      BY <1>1, <2>2 DEF Launch
    <2>4. configYml' \in Ports
      BY <1>0, <1>1 DEF Launch
    <2>5. phase' \in [Programs -> Phases] /\ pidOf' \in [Programs -> Pids]
      BY <1>1 DEF Launch, Phases
    <2> QED
      BY <1>1, <2>3, <2>4, <2>5 DEF Launch
  <1>2. ASSUME NEW i \in Programs,
               WriteConfig(i) \/ AlreadyRunning(i) \/ ExitEarly(i) \/ Perish(i)
        PROVE LifeTypeOK'
    <2>1. Gone(i) /\ pidFile' = pidFile /\ raced' = raced /\ left_over' \in BOOLEAN
      BY <1>2 DEF WriteConfig, AlreadyRunning, ExitEarly, Perish
    <2>2. configYml' \in Ports
      BY <1>0, <1>2 DEF WriteConfig, AlreadyRunning, ExitEarly, Perish
    <2>3. "off" \in Phases
      BY DEF Phases
    <2> QED
      BY <1>0, <2>1, <2>2, <2>3 DEF Gone, Forgets
  <1>3. ASSUME NEW i \in Programs,
               \/ ReadPidFile(i) \/ Pass(i) \/ OpenPidFile(i) \/ WritePidFile(i) \/ WriteUnlinked(i)
               \/ Serve(i) \/ BindFails(i) \/ Stop(i)
        PROVE LifeTypeOK'
    <2>1. PICK from \in Phases, to \in Phases : Proceeds(i, from, to)
      BY <1>3 DEF ReadPidFile, Pass, OpenPidFile, WritePidFile, WriteUnlinked, Serve, BindFails, Stop,
         Phases, Past, Owning
    <2>2. /\ glimpse' \in [Programs -> Pids \cup {"absent", "torn"}]
          /\ pidFile' \in Pids \cup {"absent", "torn"}
          /\ raced' \in BOOLEAN /\ left_over' \in BOOLEAN
      BY <1>3 DEF ReadPidFile, Pass, OpenPidFile, WritePidFile, WriteUnlinked, Serve, BindFails, Stop
    <2> QED
      BY <2>1, <2>2 DEF Proceeds
  <1>4. ASSUME NEW i \in Programs, Cleanup(i) \/ MainEnds(i) PROVE LifeTypeOK'
    BY <1>0, <1>4 DEF Cleanup, MainEnds, UnlinkPidFile, Forgets, Phases, Past
  <1>5. CASE Others
    BY <1>5 DEF Others
  <1> QED
    BY <1>1, <1>2, <1>3, <1>4, <1>5 DEF LifeStep

LEMMA PidsApart == ASSUME LifeTypeOK, PidInv, LifeStep PROVE PidInv'
  <1> USE DEF LifeTypeOK, PidInv
  <1>1. ASSUME NEW i \in Programs, NEW c \in CommandLines, Launch(i, c) PROVE PidInv'
    BY <1>1 DEF Launch, Taken
  <1>2. ASSUME NEW i \in Programs,
               WriteConfig(i) \/ AlreadyRunning(i) \/ ExitEarly(i) \/ Perish(i)
        PROVE PidInv'
    BY <1>2 DEF WriteConfig, AlreadyRunning, ExitEarly, Perish, Gone, Forgets
  <1>3. ASSUME NEW i \in Programs,
               \/ ReadPidFile(i) \/ Pass(i) \/ OpenPidFile(i) \/ WritePidFile(i) \/ WriteUnlinked(i)
               \/ Serve(i) \/ BindFails(i) \/ Stop(i)
        PROVE PidInv'
    BY <1>3 DEF ReadPidFile, Pass, OpenPidFile, WritePidFile, WriteUnlinked, Serve, BindFails, Stop,
       Proceeds
  <1>4. ASSUME NEW i \in Programs, Cleanup(i) \/ MainEnds(i) PROVE PidInv'
    BY <1>4 DEF Cleanup, MainEnds, UnlinkPidFile, Forgets
  <1>5. CASE Others
    BY <1>5 DEF Others, Taken
  <1> QED
    BY <1>1, <1>2, <1>3, <1>4, <1>5 DEF LifeStep

LEMMA FileAccounted ==
  ASSUME LifeTypeOK, PidFileAccounted, ~raced => OwnInv /\ AloneInv, LifeStep
  PROVE  PidFileAccounted'
  <1> USE DEF LifeTypeOK, PidFileAccounted, Owning
  <1>1. ASSUME NEW i \in Programs, NEW c \in CommandLines, Launch(i, c) PROVE PidFileAccounted'
    BY <1>1 DEF Launch
  <1>2. ASSUME NEW i \in Programs,
               WriteConfig(i) \/ AlreadyRunning(i) \/ ExitEarly(i) \/ Perish(i)
        PROVE PidFileAccounted'
    BY <1>2 DEF WriteConfig, AlreadyRunning, ExitEarly, Perish, Gone, Forgets
  <1>3. ASSUME NEW i \in Programs,
               \/ ReadPidFile(i) \/ Pass(i) \/ WriteUnlinked(i) \/ Serve(i) \/ BindFails(i) \/ Stop(i)
        PROVE PidFileAccounted'
    BY <1>3 DEF ReadPidFile, Pass, WriteUnlinked, Serve, BindFails, Stop, Proceeds
  <1>4. ASSUME NEW i \in Programs, OpenPidFile(i) \/ WritePidFile(i) PROVE PidFileAccounted'
    BY <1>4 DEF OpenPidFile, WritePidFile, Proceeds, OwnInv
  <1>5. ASSUME NEW i \in Programs, Cleanup(i) \/ MainEnds(i) PROVE PidFileAccounted'
    BY <1>5 DEF Cleanup, MainEnds, UnlinkPidFile
  <1>6. CASE Others
    BY <1>6 DEF Others
  <1> QED
    BY <1>1, <1>2, <1>3, <1>4, <1>5, <1>6 DEF LifeStep

\* Where no starts have raced: a start that passes leaves no one else in.
LEMMA Alone ==
  ASSUME LifeTypeOK, PidInv, OwnInv, AloneInv, ReadInv, LifeStep, ~raced'
  PROVE  OwnInv' /\ AloneInv' /\ ReadInv'
  <1> USE LifecycleAssumption DEF LifeTypeOK, PidInv, OwnInv, AloneInv, ReadInv, Past, Owning
  <1>1. ASSUME NEW i \in Programs, NEW c \in CommandLines, Launch(i, c)
        PROVE  OwnInv' /\ AloneInv' /\ ReadInv'
    BY <1>1 DEF Launch
  <1>2. ASSUME NEW i \in Programs,
               WriteConfig(i) \/ AlreadyRunning(i) \/ ExitEarly(i) \/ Perish(i)
        PROVE  OwnInv' /\ AloneInv' /\ ReadInv'
    <2>1. Gone(i) /\ pidFile' = pidFile
      BY <1>2 DEF WriteConfig, AlreadyRunning, ExitEarly, Perish
    <2>2. phase'[i] = "off"
      BY <2>1 DEF Gone
    <2>3. \A j \in Programs \ {i} :
              phase'[j] = phase[j] /\ pidOf'[j] = pidOf[j] /\ glimpse'[j] = glimpse[j]
      BY <2>1 DEF Gone, Forgets
    <2>4. OwnInv'
      BY <2>1, <2>2, <2>3
    <2>5. AloneInv'
      BY <2>2, <2>3
    <2>6. ReadInv'
      BY <2>2, <2>3
    <2> QED
      BY <2>4, <2>5, <2>6
  <1>3. ASSUME NEW i \in Programs, ReadPidFile(i) PROVE OwnInv' /\ AloneInv' /\ ReadInv'
    <2>1. /\ phase'[i] = "read" /\ glimpse'[i] = pidFile
          /\ pidFile' = pidFile /\ pidOf' = pidOf
          /\ \A j \in Programs \ {i} : phase'[j] = phase[j] /\ glimpse'[j] = glimpse[j]
      BY <1>3 DEF ReadPidFile, Proceeds
    <2>2. \A j \in Programs \ {i} :
              phase[j] \notin {"read", "passed", "opened", "orphaned", "unlinked"}
      BY <1>3 DEF ReadPidFile
    <2>3. OwnInv'
      BY <2>1
    <2>4. AloneInv'
      BY <2>1, <2>2
    <2>5. ReadInv'
      BY <2>1, <2>2
    <2> QED
      BY <2>3, <2>4, <2>5
  <1>4. ASSUME NEW i \in Programs, Pass(i) PROVE OwnInv' /\ AloneInv' /\ ReadInv'
    BY <1>4 DEF Pass, Proceeds, IsRunning, Taken
  <1>5. ASSUME NEW i \in Programs, OpenPidFile(i) \/ WritePidFile(i) \/ WriteUnlinked(i)
        PROVE  OwnInv' /\ AloneInv' /\ ReadInv'
    BY <1>5 DEF OpenPidFile, WritePidFile, WriteUnlinked, Proceeds
  <1>6. ASSUME NEW i \in Programs, Serve(i) \/ BindFails(i) \/ Stop(i)
        PROVE  OwnInv' /\ AloneInv' /\ ReadInv'
    BY <1>6 DEF Serve, BindFails, Stop, Proceeds
  <1>7. ASSUME NEW i \in Programs, Cleanup(i) \/ MainEnds(i) PROVE OwnInv' /\ AloneInv' /\ ReadInv'
    BY <1>7 DEF Cleanup, MainEnds, UnlinkPidFile, Forgets
  <1>8. CASE Others
    BY <1>8 DEF Others
  <1> QED
    BY <1>1, <1>2, <1>3, <1>4, <1>5, <1>6, <1>7, <1>8 DEF LifeStep

LEMMA RacedStays == ASSUME LifeStep, raced PROVE raced'
  BY DEF LifeStep, Launch, WriteConfig, ReadPidFile, AlreadyRunning, Pass, OpenPidFile, WritePidFile,
     WriteUnlinked, ExitEarly, Serve, BindFails, Stop, Cleanup, MainEnds, Perish, Others

\* The inductive invariant, for any processes, pids, other programs and command lines.
THEOREM LifeInvariant == LifeSpec => []LifeInv
  <1>1. LifeInit => LifeInv
    BY LifeInitially
  <1>2. LifeInv /\ [LifeStep]_lifeVars => LifeInv'
    <2>1. ASSUME LifeInv, LifeStep PROVE LifeInv'
      BY <2>1, LifeTyped, PidsApart, FileAccounted, Alone, RacedStays DEF LifeInv
    <2>2. ASSUME LifeInv, UNCHANGED lifeVars PROVE LifeInv'
      BY <2>2 DEF LifeInv, lifeVars, LifeTypeOK, PidInv, PidFileAccounted, OwnInv, AloneInv, ReadInv
    <2> QED
      BY <2>1, <2>2
  <1> QED
    BY <1>1, <1>2, PTL DEF LifeSpec

\* No two instances are past the check of the pid file, unless two starts, or a
\* start and an end, were at the file at once.
THEOREM OneInstance == LifeSpec => []Exclusive
  <1>1. LifeInv => Exclusive
    BY DEF LifeInv, AloneInv, Exclusive
  <1> QED
    BY <1>1, LifeInvariant, PTL

\* A pid file is left behind only by an instance that died or exited early.
THEOREM PidFileOwned == LifeSpec => []PidFileAccounted
  <1>1. LifeInv => PidFileAccounted
    BY DEF LifeInv
  <1> QED
    BY <1>1, LifeInvariant, PTL
=============================================================================
