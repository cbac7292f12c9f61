----------------------------- MODULE Injection -----------------------------
(***************************************************************************)
(* How the helper gets into the apps: one loop per app that kills it,      *)
(* starts it with the dylib and waits until it exits, and the refresh of   *)
(* FindMy's devices, which kills the app behind the loop's back, starts it *)
(* anew and takes the readiness flag for the sign of fresh data.           *)
(*                                                                         *)
(* Of the server only what these tasks see is here: the map of clients and *)
(* the readiness flags.  A process that is killed says nothing more, but   *)
(* the end of its connection may be noticed at any time.                   *)
(***************************************************************************)
EXTENDS Naturals, Sequences

CONSTANTS
    Injected,     \* apps with an injection loop
    FindMy,       \* the one whose devices are refreshed
    Renewals,     \* requests to refresh the devices
    MaxFailures,  \* failures in a row after which a loop gives up (5)
    Launches      \* bound: Launches[a], launches of app a the system allows before it refuses

ASSUME InjectionAssumption ==
    FindMy \in Injected /\ MaxFailures \in Nat \ {0} /\ Launches \in [Injected -> Nat]

VARIABLES
    procs,     \* procs[a]: the processes of app a, in the order of their launches
    flag,      \* findmy_ready; nothing here reads the flag of another app
    raisedBy,  \* history: the process whose "ready" raised it last
    loop,      \* loop[a]: "killing", "asleep", "watching", "connected" or "gave up"
    child,     \* child[a]: the process the loop waits for
    failures,  \* failure_count
    renewal,   \* renewal[r]: how far the handler of request r is
    guard,     \* findmy_refresh_lock: the requests that hold it
    stale,     \* history: the processes that r killed, but those still unheard at its clearing
    seenBy     \* history: the process whose readiness r saw

injectVars == <<procs, flag, raisedBy, loop, child, failures, renewal, guard, stale, seenBy>>
loopVars   == <<loop, child, failures>>
renewVars  == <<renewal, guard, stale, seenBy>>

Process == [alive : BOOLEAN, clean : BOOLEAN, said : {"nothing", "ping", "ready"},
            conn : {"none", "open", "heard", "closed"}]
Launched == [alive |-> TRUE, clean |-> FALSE, said |-> "nothing", conn |-> "none"]

LaunchSets == SUBSET Nat  \* sets of processes of an app
Resting == {"idle", "done", "failed", "refused"}

InjectTypeOK ==
    /\ procs \in [Injected -> Seq(Process)]
    /\ flag \in BOOLEAN
    /\ raisedBy \in Nat
    /\ loop \in [Injected -> {"killing", "asleep", "watching", "connected", "gave up"}]
    /\ child \in [Injected -> Nat]
    /\ failures \in [Injected -> 0 .. MaxFailures]
    /\ renewal \in [Renewals -> Resting \cup {"keyed", "killed", "settling", "polling", "fetching"}]
    /\ guard \subseteq Renewals
    /\ stale \in [Renewals -> LaunchSets]
    /\ seenBy \in [Renewals -> Nat]

InjectInit ==
    /\ procs = [a \in Injected |-> << >>]
    /\ flag = FALSE
    /\ raisedBy = 0
    /\ loop = [a \in Injected |-> "killing"]
    /\ child = [a \in Injected |-> 0]
    /\ failures = [a \in Injected |-> 0]
    /\ renewal = [r \in Renewals |-> "idle"]
    /\ guard = {}
    /\ stale = [r \in Renewals |-> {}]
    /\ seenBy = [r \in Renewals |-> 0]

-----------------------------------------------------------------------------
(* Processes and their connections.                                        *)

Killed(a)  == [i \in DOMAIN procs[a] |-> [procs[a][i] EXCEPT !.alive = FALSE]]
CanStart(a) == Len(procs[a]) < Launches[a]
Started(a) == procs' = [procs EXCEPT ![a] = Append(@, Launched)]
Connected(a, i) == procs[a][i].conn \in {"open", "heard"}
AnyClient  == \E a \in Injected : \E i \in DOMAIN procs[a] : Connected(a, i)

\* The dylib connects, sends its ping, and "ready" when the app is initialised.
Ping(a, i) ==
    /\ procs[a][i].alive /\ procs[a][i].said = "nothing"
    /\ procs' = [procs EXCEPT ![a][i].said = "ping", ![a][i].conn = "open"]
    /\ UNCHANGED <<flag, raisedBy, loopVars, renewVars>>

Ready(i) ==
    /\ procs[FindMy][i].alive /\ procs[FindMy][i].said = "ping"
    /\ procs' = [procs EXCEPT ![FindMy][i].said = "ready"]
    /\ UNCHANGED <<flag, raisedBy, loopVars, renewVars>>

\* It crashes, or the user quits the app; only the loop looks at the status.
Exit(a, i, clean) ==
    /\ procs[a][i].alive
    /\ clean => i = child[a]
    /\ procs' = [procs EXCEPT ![a][i].alive = FALSE, ![a][i].clean = clean]
    /\ UNCHANGED <<flag, raisedBy, loopVars, renewVars>>

HearReady(i) ==
    /\ procs[FindMy][i].conn = "open" /\ procs[FindMy][i].said = "ready"
    /\ procs' = [procs EXCEPT ![FindMy][i].conn = "heard"]
    /\ flag' = TRUE
    /\ raisedBy' = i
    /\ UNCHANGED <<loopVars, renewVars>>

\* The flag of the app goes down, whichever of its connections ended.
HearEnd(a, i) ==
    /\ ~procs[a][i].alive
    /\ Connected(a, i) /\ (procs[a][i].said = "ready" => procs[a][i].conn = "heard")
    /\ procs' = [procs EXCEPT ![a][i].conn = "closed", ![a][i].said = "nothing"]
    /\ flag' = (flag /\ a # FindMy)
    /\ UNCHANGED <<raisedBy, loopVars, renewVars>>

-----------------------------------------------------------------------------
(* inject_app_dylib: one turn of the loop is a kill, a second's sleep, a   *)
(* check, a launch and a wait.                                             *)

LoopKills(a) ==
    /\ loop[a] = "killing"
    /\ procs' = [procs EXCEPT ![a] = Killed(a)]
    /\ loop' = [loop EXCEPT ![a] = "asleep"]
    /\ UNCHANGED <<flag, raisedBy, child, failures, renewVars>>

\* Any client at all ends the loop.
LoopStops(a) ==
    /\ loop[a] = "asleep" /\ AnyClient
    /\ loop' = [loop EXCEPT ![a] = "connected"]
    /\ UNCHANGED <<procs, flag, raisedBy, child, failures, renewVars>>

LoopLaunches(a) ==
    /\ loop[a] = "asleep" /\ ~AnyClient
    /\ CanStart(a)
    /\ Started(a)
    /\ child' = [child EXCEPT ![a] = Len(procs[a]) + 1]
    /\ loop' = [loop EXCEPT ![a] = "watching"]
    /\ UNCHANGED <<flag, raisedBy, failures, renewVars>>

Turn(a, count) ==
    /\ failures' = [failures EXCEPT ![a] = count]
    /\ loop' = [loop EXCEPT ![a] = IF count < MaxFailures THEN "killing" ELSE "gave up"]

LaunchFails(a) ==
    /\ loop[a] = "asleep" /\ ~AnyClient
    /\ ~CanStart(a)
    /\ Turn(a, failures[a] + 1)
    /\ UNCHANGED <<procs, flag, raisedBy, child, renewVars>>

\* long: the last failure is more than 15 s old.
ChildExits(a, long) ==
    /\ loop[a] = "watching"
    /\ ~procs[a][child[a]].alive
    /\ Turn(a, IF procs[a][child[a]].clean THEN 0 ELSE IF long THEN 1 ELSE failures[a] + 1)
    /\ UNCHANGED <<procs, flag, raisedBy, child, renewVars>>

-----------------------------------------------------------------------------
(* refresh_findmy_devices.  Whatever ends the handler drops the guard.     *)

TryLock(r) == guard = {} /\ guard' = {r}

\* The key is cached or fetched; both it and the restart need a ready app.
BeginRenewal(r) ==
    /\ renewal[r] = "idle"
    /\ flag
    /\ TryLock(r)
    /\ renewal' = [renewal EXCEPT ![r] = "keyed"]
    /\ UNCHANGED <<procs, flag, raisedBy, loopVars, stale, seenBy>>

RefuseRenewal(r) ==
    /\ renewal[r] = "idle"
    /\ guard # {} \/ ~flag
    /\ renewal' = [renewal EXCEPT ![r] = "refused"]
    /\ UNCHANGED <<procs, flag, raisedBy, loopVars, guard, stale, seenBy>>

KillFindMy(r) ==
    /\ renewal[r] = "keyed"
    /\ procs' = [procs EXCEPT ![FindMy] = Killed(FindMy)]
    /\ stale' = [stale EXCEPT ![r] = DOMAIN procs[FindMy]]
    /\ renewal' = [renewal EXCEPT ![r] = "killed"]
    /\ UNCHANGED <<flag, raisedBy, loopVars, guard, seenBy>>

Uncleared == UNCHANGED flag  \* mutation
Cleared   == flag' = FALSE

Unread(i) == ~procs[FindMy][i].alive /\ procs[FindMy][i].conn = "open" /\ procs[FindMy][i].said = "ready"

\* killall is awaited; neither the killed process's last lines nor the end of its
\* connection need have been read.
ClearFindMyReady(r) ==
    /\ renewal[r] = "killed"
    /\ Cleared
    /\ stale' = [stale EXCEPT ![r] = {i \in stale[r] : ~Unread(i)}]
    /\ renewal' = [renewal EXCEPT ![r] = "settling"]
    /\ UNCHANGED <<procs, raisedBy, loopVars, guard, seenBy>>

\* Two seconds later.
RelaunchFindMy(r) ==
    /\ renewal[r] = "settling"
    /\ CanStart(FindMy)
    /\ Started(FindMy)
    /\ renewal' = [renewal EXCEPT ![r] = "polling"]
    /\ UNCHANGED <<flag, raisedBy, loopVars, guard, stale, seenBy>>

PollReady(r) ==
    /\ renewal[r] = "polling"
    /\ flag
    /\ seenBy' = [seenBy EXCEPT ![r] = raisedBy]
    /\ renewal' = [renewal EXCEPT ![r] = "fetching"]
    /\ UNCHANGED <<procs, flag, raisedBy, loopVars, guard, stale>>

\* The binary is missing or cannot be started, the 30 s are over, the devices
\* cannot be decrypted; or the HTTP server drops the handler.
EndRenewal(r, how) ==
    /\ renewal' = [renewal EXCEPT ![r] = how]
    /\ guard' = guard \ {r}
    /\ UNCHANGED <<procs, flag, raisedBy, loopVars, stale, seenBy>>

RenewalFails(r)   == renewal[r] \in {"settling", "fetching"} /\ EndRenewal(r, "failed")
PollForever(r)    == FALSE  \* mutation
PollTimesOut(r)   == renewal[r] = "polling" /\ EndRenewal(r, "failed")
RenewalDropped(r) == renewal[r] \notin Resting /\ EndRenewal(r, "failed")

\* Ten seconds later the devices are read and decrypted.
ReadDevices(r) == renewal[r] = "fetching" /\ EndRenewal(r, "done")

-----------------------------------------------------------------------------
RenewalStep(r) ==
    \/ BeginRenewal(r) \/ KillFindMy(r) \/ ClearFindMyReady(r) \/ RelaunchFindMy(r)
    \/ PollReady(r) \/ PollTimesOut(r) \/ RenewalFails(r) \/ ReadDevices(r)

InjectStep ==
    \/ \E a \in Injected :
          \/ LoopKills(a) \/ LoopStops(a) \/ LoopLaunches(a) \/ LaunchFails(a)
          \/ \E long \in BOOLEAN : ChildExits(a, long)
          \/ \E i \in DOMAIN procs[a] :
                \/ Ping(a, i) \/ HearEnd(a, i) \/ \E clean \in BOOLEAN : Exit(a, i, clean)
    \/ \E i \in DOMAIN procs[FindMy] : Ready(i) \/ HearReady(i)
    \/ \E r \in Renewals : RenewalStep(r) \/ RefuseRenewal(r) \/ RenewalDropped(r)

\* The handler's task and the readers of the connections run.
InjectFairness ==
    /\ \A r \in Renewals : WF_injectVars(RenewalStep(r))
    /\ WF_injectVars(\E i \in DOMAIN procs[FindMy] : HearReady(i))

InjectSpec == InjectInit /\ [][InjectStep]_injectVars

-----------------------------------------------------------------------------
(* Properties.                                                             *)

\* The readiness a refresh takes for fresh data is that of a process launched
\* after it killed the app, although the flag is the app's, the end of the
\* killed process may still be unread, and the loop launches processes too;
\* unless the killed process's own "ready" was still unread when the flag was cleared.
FreshDevices ==
    \A r \in Renewals : renewal[r] \in {"fetching", "done"} => seenBy[r] \notin stale[r]

\* A refresh that was let in ends and gives the lock back, whatever becomes of
\* the app it restarts.
RefreshEnds == \A r \in Renewals : renewal[r] \notin Resting ~> renewal[r] \in Resting /\ r \notin guard
=============================================================================
