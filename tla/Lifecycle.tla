----------------------------- MODULE Lifecycle -----------------------------
(***************************************************************************)
(* The process itself: its command line and configuration, the pid file    *)
(* that keeps a second instance away, and the ways it ends.  The check of  *)
(* the pid file reads it, asks the system for the pid, truncates the file  *)
(* and writes it, in steps of their own; a clean end removes it twice.     *)
(*                                                                         *)
(* What run_server starts in between has modules of its own.  A clean end  *)
(* also kills the apps its configuration enables, whoever launched them:   *)
(* that they are another instance's, Exclusive excludes.                   *)
(***************************************************************************)
EXTENDS Naturals

CONSTANTS
    Programs,      \* processes that run this program, one after the other
    Pids,          \* of the processes of this user
    Strangers,     \* those among them that may come to belong to other programs
    CommandLines   \* [command, config, flags, port]: the subcommand or "serve"; --config, "none",
                   \* "good" or "bad"; the flags that are there; the port in the flags or the file

ASSUME LifecycleAssumption ==
    Pids # {} /\ Strangers \subseteq Pids /\ {"absent", "torn"} \cap Pids = {}

VARIABLES
    phase,      \* phase[i]: how far main is
    pidOf,      \* pidOf[i]
    port,       \* port[i]: to listen on, or to write in config.yml
    glimpse,    \* glimpse[i]: what it read in the pid file, while it judges that
    pidFile,    \* "absent", "torn" (truncated, not written yet), or a pid
    configYml,  \* the port in config.yml; Unset if it names none, is absent or does not parse
    alien,      \* the pids other programs have
    raced,      \* history: a start read the pid file while another start or end was at it
    left_over   \* history: an instance ended after it had opened the pid file and did not remove it

lifeVars == <<phase, pidOf, port, glimpse, pidFile, configYml, alien, raced, left_over>>

Owning == {"opened", "written", "serving", "closing"}
Past   == Owning \cup {"passed", "orphaned", "unlinked"}
Phases == Past \cup {"off", "bootstrapping", "resolved", "read"}
Unset == 0
Ports == {Unset, 1234} \cup {c.port : c \in CommandLines}
NoPid == CHOOSE p \in Pids : TRUE   \* of a process that is not there

LifeTypeOK ==
    /\ phase \in [Programs -> Phases]
    /\ pidOf \in [Programs -> Pids]
    /\ port \in [Programs -> Ports]
    /\ glimpse \in [Programs -> Pids \cup {"absent", "torn"}]
    /\ pidFile \in Pids \cup {"absent", "torn"}
    /\ configYml \in Ports
    /\ alien \subseteq Strangers
    /\ raced \in BOOLEAN /\ left_over \in BOOLEAN

LifeInit ==
    /\ phase = [i \in Programs |-> "off"]
    /\ pidOf = [i \in Programs |-> NoPid]
    /\ port = [i \in Programs |-> Unset]
    /\ glimpse = [i \in Programs |-> "absent"]
    /\ pidFile = "absent" /\ configYml = Unset /\ alien = {}
    /\ raced = FALSE /\ left_over = FALSE

-----------------------------------------------------------------------------
(* Command line and configuration.                                         *)

\* --config must be readable and parse; flags replace config.yml, they are not
\* merged with it; a config.yml that is absent or does not parse gives nothing.
Resolves(c) == c.config # "bad"

HasAny(c) == c.flags # {}
ToYamlConfig(c) == IF "socket_port" \in c.flags THEN c.port ELSE Unset

Resolved(c) ==
    IF c.config = "good" THEN c.port ELSE IF HasAny(c) THEN ToYamlConfig(c) ELSE configYml

\* The defaults for what was not given.
IntoAppConfig(given) == IF given = Unset THEN 1234 ELSE given

-----------------------------------------------------------------------------
(* A process.                                                              *)

Taken == alien \cup {pidOf[i] : i \in {j \in Programs : phase[j] # "off"}}

Proceeds(i, from, to) ==
    /\ phase[i] = from /\ phase' = [phase EXCEPT ![i] = to]
    /\ UNCHANGED <<pidOf, port, configYml, alien>>

\* Its memory goes with a process.
Forgets(i) ==
    /\ pidOf' = [pidOf EXCEPT ![i] = NoPid]
    /\ port' = [port EXCEPT ![i] = Unset]
    /\ glimpse' = [glimpse EXCEPT ![i] = "absent"]

Gone(i) == phase' = [phase EXCEPT ![i] = "off"] /\ Forgets(i) /\ UNCHANGED alien

\* An unlinked file still takes what is written to it.
UnlinkPidFile(i, next) ==
    /\ phase' = [j \in Programs |-> IF j = i THEN next
                                   ELSE IF phase[j] = "opened" THEN "orphaned" ELSE phase[j]]
    /\ pidFile' = "absent"

\* main up to the pid file; what does not resolve ends it before.
Launch(i, c) ==
    /\ Resolves(c) /\ phase[i] = "off"
    /\ phase' = [phase EXCEPT ![i] = IF c.command = "bootstrap" THEN "bootstrapping" ELSE "resolved"]
    /\ \E p \in Pids \ Taken : pidOf' = [pidOf EXCEPT ![i] = p]
    /\ port' = [port EXCEPT ![i] = IF c.command = "bootstrap" THEN ToYamlConfig(c)
                                  ELSE IntoAppConfig(Resolved(c))]
    /\ configYml' = IF c.command = "bootstrap" THEN Unset ELSE configYml
    /\ UNCHANGED <<glimpse, pidFile, alien, raced, left_over>>

\* bootstrap_config has truncated config.yml; of two that write it at once the
\* text may be a mixture that does not parse.
WriteConfig(i) ==
    /\ phase[i] = "bootstrapping" /\ Gone(i)
    /\ configYml' \in IF configYml = Unset THEN {port[i]} ELSE {port[i], Unset}
    /\ UNCHANGED <<pidFile, raced, left_over>>

ReadPidFile(i) ==
    /\ Proceeds(i, "resolved", "read")
    /\ glimpse' = [glimpse EXCEPT ![i] = pidFile]
    /\ raced' = (raced \/ \E j \in Programs \ {i} :
                    phase[j] \in {"read", "passed", "opened", "orphaned", "unlinked"})
    /\ UNCHANGED <<pidFile, left_over>>

\* is_running asks for any process of the user that has the pid, itself included.
IsRunning(pid) == pid \in Taken

\* A mutant: the start that is refused removes the pid file on its way out.
AlreadyRunningTidied(i) ==
    /\ IsRunning(glimpse[i])
    /\ phase[i] = "read" /\ Gone(i)
    /\ pidFile' = "absent"
    /\ UNCHANGED <<configYml, raced, left_over>>

AlreadyRunning(i) ==
    /\ IsRunning(glimpse[i])
    /\ phase[i] = "read" /\ Gone(i)
    /\ UNCHANGED <<pidFile, configYml, raced, left_over>>

Pass(i) ==
    /\ ~IsRunning(glimpse[i])
    /\ Proceeds(i, "read", "passed")
    /\ glimpse' = [glimpse EXCEPT ![i] = "absent"]
    /\ UNCHANGED <<pidFile, raced, left_over>>

OpenPidFile(i) ==
    /\ Proceeds(i, "passed", "opened")
    /\ pidFile' = "torn"
    /\ UNCHANGED <<glimpse, raced, left_over>>

\* Over the pid of another start, whose last digits may stay.
WritePidFile(i) ==
    /\ Proceeds(i, "opened", "written")
    /\ pidFile' \in IF pidFile = "torn" THEN {pidOf[i]} ELSE Pids
    /\ UNCHANGED <<glimpse, raced, left_over>>

WriteUnlinked(i) ==
    /\ Proceeds(i, "orphaned", "written")
    /\ UNCHANGED <<glimpse, pidFile, raced, left_over>>

\* An older macOS, a runtime or a chat.db that does not open.
ExitEarly(i) ==
    /\ phase[i] = "written" /\ Gone(i)
    /\ left_over' = TRUE
    /\ UNCHANGED <<pidFile, configYml, raced>>

\* run_server, until start_server listens.  A Private API port that is taken does not
\* stop it; an HTTP port that is taken, by anybody, is logged and ends it cleanly.
Serve(i) ==
    /\ \A j \in Programs : phase[j] = "serving" => port[j] # port[i]
    /\ Proceeds(i, "written", "serving")
    /\ UNCHANGED <<glimpse, pidFile, raced, left_over>>

\* A mutant: the error of start_server is returned, past the clean-up.
BindFailsAtOnce(i) ==
    /\ phase[i] = "written" /\ Gone(i)
    /\ UNCHANGED <<pidFile, configYml, raced, left_over>>

BindFails(i) ==
    /\ Proceeds(i, "written", "closing")
    /\ UNCHANGED <<glimpse, pidFile, raced, left_over>>

\* ctrl_c, or an error of the HTTP server.
Stop(i) ==
    /\ Proceeds(i, "serving", "closing")
    /\ UNCHANGED <<glimpse, pidFile, raced, left_over>>

\* The end of run_server kills the apps and removes the file; main removes it again.
Cleanup(i) ==
    /\ phase[i] = "closing" /\ UnlinkPidFile(i, "unlinked")
    /\ UNCHANGED <<pidOf, port, glimpse, configYml, alien, raced, left_over>>

MainEnds(i) ==
    /\ phase[i] = "unlinked" /\ UnlinkPidFile(i, "off") /\ Forgets(i)
    /\ UNCHANGED <<configYml, alien, raced, left_over>>

\* Killed, panicked, or interrupted before ctrl_c is awaited.
Perish(i) ==
    /\ phase[i] # "off" /\ Gone(i)
    /\ left_over' = (left_over \/ phase[i] \in Owning)
    /\ UNCHANGED <<pidFile, configYml, raced>>

\* A program of the user starts, or ends.
Others ==
    /\ \/ \E p \in Strangers \ Taken : alien' = alien \cup {p}
       \/ \E p \in alien : alien' = alien \ {p}
    /\ UNCHANGED <<phase, pidOf, port, glimpse, pidFile, configYml, raced, left_over>>

LifeStep ==
    \/ \E i \in Programs :
        \/ \E c \in CommandLines : Launch(i, c)
        \/ WriteConfig(i) \/ ReadPidFile(i) \/ AlreadyRunning(i) \/ Pass(i)
        \/ OpenPidFile(i) \/ WritePidFile(i) \/ WriteUnlinked(i)
        \/ ExitEarly(i) \/ Serve(i) \/ BindFails(i) \/ Stop(i) \/ Cleanup(i) \/ MainEnds(i) \/ Perish(i)
    \/ Others

LifeSpec == LifeInit /\ [][LifeStep]_lifeVars

-----------------------------------------------------------------------------
\* "Single-instance check via PID file": unless a start read the pid file while
\* another start or end was at it, no two instances are past the check at once,
\* however the earlier ones ended and whoever has their pids now.  So no clean-up
\* kills the apps of an instance that serves.
Exclusive ==
    \A i, j \in Programs : i # j /\ phase[i] \in Past /\ phase[j] \in Past => raced

\* A pid file that is there belongs to an instance that will remove it, even when
\* two starts raced; and unless they did, it holds that instance's pid.  Only an
\* instance that died or exited early leaves one, and with it the start after next
\* refused, should another program have come by the pid.
PidFileAccounted ==
    pidFile # "absent" /\ ~left_over =>
        \E i \in Programs :
            /\ phase[i] \in Owning
            /\ raced \/ pidFile = IF phase[i] = "opened" THEN "torn" ELSE pidOf[i]
=============================================================================
