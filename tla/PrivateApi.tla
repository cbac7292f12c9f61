----------------------------- MODULE PrivateApi -----------------------------
(***************************************************************************)
(* The Private API service: HTTP handlers call send_action, which takes a  *)
(* one-permit semaphore, registers a transaction, writes one JSON line to  *)
(* every connected helper dylib and awaits the answer; one reader task per *)
(* connection resolves transactions and keeps the readiness flags; one     *)
(* timeout task per transaction rejects it after 120 s.  The helpers are   *)
(* the processes of Messages, FaceTime and FindMy that hold the dylib.     *)
(*                                                                         *)
(* A call is one invocation of send_action; its v4 transaction id is the   *)
(* call itself.  A connection id is a v4 uuid too, taken here in order.    *)
(* Await points of the handlers are the boundaries of the actions.         *)
(***************************************************************************)
EXTENDS Naturals, Sequences

CONSTANTS
    Calls,          \* invocations of send_action
    FireAndForget,  \* those whose Action carries no transaction_type
    Spawned,        \* those made by a spawned task, the others by HTTP handlers
    Apps,           \* processes the dylib is injected into
    Target,         \* the one app whose dispatcher knows the action of a call
    SlowStart,      \* apps that report ready only after initialising IMCore
    Restartable,    \* apps whose flag a route clears before restarting them
    NConns,         \* bound: connections the helpers make in a behaviour
    SockCap,        \* bound: lines a socket holds before a write must wait
    None,           \* absence of a call, a connection or a process
    Garbled         \* a line that does not parse

Conns    == 1 .. NConns
Outcomes == {"ok", "error", "no_clients", "timeout"}

ASSUME CallsAssumption ==
    /\ FireAndForget \subseteq Calls
    /\ Spawned \subseteq Calls
    /\ Target \in [Calls -> Apps]
    /\ SlowStart \subseteq Apps
    /\ Restartable \subseteq Apps
ASSUME BoundsAssumption == NConns \in Nat /\ SockCap \in Nat \ {0}
ASSUME NoneAssumption ==
    /\ None \notin Calls \cup Apps /\ None \notin Conns /\ None \notin Outcomes
    /\ Garbled \notin Calls

VARIABLES
    \* send_action
    pc,        \* pc[c]: where the handler of call c stands
    permit,    \* the call whose permit is out, or None
    cooling,   \* the call whose spawned task still holds the permit, or None
    todo,      \* clients the writing call has not reached yet
    at,        \* the client whose writer is locked by the writing call, or None
    wrote,     \* write_success of the writing call, FALSE when none writes
    \* TransactionManager
    pending,   \* the pending map
    timers,    \* timeout tasks still asleep
    slot,      \* slot[c]: what was sent on the oneshot channel of c, or None
    \* the server's side of the connections
    clients,   \* keys of the clients map
    process,   \* process[k]: the process client k registered, or None
    reader,    \* reader[k]: the reader task of connection k
    ready,     \* ready[a]: the readiness flag of app a
    inbox,     \* inbox[k]: lines from the helper not read yet
    torn,      \* torn[k]: the last line written to k was cut by a cancellation
    \* the helpers
    owner,     \* owner[k]: the app that made connection k, or None before it
    open,      \* connections whose helper end is open
    link,      \* link[a]: the current connection of app a, or None
    slow,      \* apps still initialising on their main queue
    outbox,    \* outbox[k]: lines written by the server, not read by the helper
    work,      \* work[a]: calls app a has started and not answered
    runs       \* runs[c]: how many times a helper executed c (history)

callVars == <<pc, permit, cooling, todo, at, wrote>>
txnVars  == <<pending, timers, slot>>
connVars == <<clients, process, reader, ready>>
helpVars == <<owner, open, link, slow, work, runs>>
vars == <<callVars, txnVars, connVars, helpVars, inbox, outbox, torn>>

Steps    == {"idle", "queued", "writing", "awaiting", "returned", "cancelled"}
Ping     == [type |-> "ping"]
Ready    == [type |-> "ready"]
ReplyMsg == [type : {"reply"}, call : Calls, ok : BOOLEAN]
Msg      == {Ping, Ready} \cup ReplyMsg

TypeOK ==
    /\ pc \in [Calls -> Steps]
    /\ permit \in Calls \cup {None}
    /\ cooling \in Calls \cup {None}
    /\ todo \subseteq Conns
    /\ at \in Conns \cup {None}
    /\ wrote \in BOOLEAN
    /\ pending \subseteq Calls
    /\ timers \subseteq Calls
    /\ slot \in [Calls -> Outcomes \cup {None}]
    /\ clients \subseteq Conns
    /\ process \in [Conns -> Apps \cup {None}]
    /\ reader \in [Conns -> {"off", "on", "ended", "gone"}]
    /\ ready \in [Apps -> BOOLEAN]
    /\ inbox \in [Conns -> Seq(Msg)]
    /\ torn \in [Conns -> BOOLEAN]
    /\ owner \in [Conns -> Apps \cup {None}]
    /\ open \subseteq Conns
    /\ link \in [Apps -> Conns \cup {None}]
    /\ slow \subseteq Apps
    /\ outbox \in [Conns -> Seq(Calls \cup {Garbled})]
    /\ work \in [Apps -> SUBSET Calls]
    /\ runs \in [Calls -> Nat]

Init ==
    /\ pc = [c \in Calls |-> "idle"]
    /\ permit = None
    /\ cooling = None
    /\ todo = {}
    /\ at = None
    /\ wrote = FALSE
    /\ pending = {}
    /\ timers = {}
    /\ slot = [c \in Calls |-> None]
    /\ clients = {}
    /\ process = [k \in Conns |-> None]
    /\ reader = [k \in Conns |-> "off"]
    /\ ready = [a \in Apps |-> FALSE]
    /\ inbox = [k \in Conns |-> <<>>]
    /\ torn = [k \in Conns |-> FALSE]
    /\ owner = [k \in Conns |-> None]
    /\ open = {}
    /\ link = [a \in Apps |-> None]
    /\ slow = {}
    /\ outbox = [k \in Conns |-> <<>>]
    /\ work = [a \in Apps |-> {}]
    /\ runs = [c \in Calls |-> 0]

----------------------------------------------------------------------------
\* TransactionManager: resolve, reject and the timeout task take the entry out
\* of the map before they send; without an entry they do nothing.

\* Mutations: the entry goes and nothing is sent; a late outcome is sent anyway.
SettleUnsent(c, outcome) == pending' = pending \ {c} /\ UNCHANGED slot
SettleAgain(c, outcome) ==
    /\ pending' = pending \ {c}
    /\ slot' = [slot EXCEPT ![c] = outcome]

Settle(c, outcome) ==
    IF c \in pending
    THEN /\ pending' = pending \ {c}
         /\ slot' = [slot EXCEPT ![c] = outcome]
    ELSE UNCHANGED <<pending, slot>>

\* The 120 s sleep of the task that create spawned is over.
Timeout(c) ==
    /\ c \in timers
    /\ timers' = timers \ {c}
    /\ Settle(c, "timeout")
    /\ UNCHANGED <<callVars, connVars, helpVars, inbox, outbox, torn>>

----------------------------------------------------------------------------
\* send_action

\* The clients mutex is held across the whole write loop.
ClientsLocked == \E c \in Calls : pc[c] = "writing"

\* A handler reaches acquire_owned().await.
Invoke(c) ==
    /\ pc[c] = "idle"
    /\ pc' = [pc EXCEPT ![c] = "queued"]
    /\ UNCHANGED <<permit, cooling, todo, at, wrote>>
    /\ UNCHANGED <<txnVars, connVars, helpVars, inbox, outbox, torn>>

\* The permit arrives, create registers the transaction and spawns its timeout,
\* and the handler locks the clients map.
Begin(c) ==
    /\ pc[c] = "queued"
    /\ permit = None
    /\ permit' = c
    /\ pc' = [pc EXCEPT ![c] = "writing"]
    /\ todo' = clients
    /\ pending' = IF c \in FireAndForget THEN pending ELSE pending \cup {c}
    /\ timers' = IF c \in FireAndForget THEN timers ELSE timers \cup {c}
    /\ UNCHANGED <<cooling, at, wrote, slot, connVars, helpVars, inbox, outbox, torn>>

\* Mutation: the loop may come back to a client it has served.
PickAgain(c, k) ==
    /\ pc[c] = "writing"
    /\ at = None
    /\ k \in todo
    /\ at' = k
    /\ UNCHANGED <<pc, permit, cooling, todo, wrote>>
    /\ UNCHANGED <<txnVars, connVars, helpVars, inbox, outbox, torn>>

\* The loop locks the next client's writer.
PickClient(c, k) ==
    /\ pc[c] = "writing"
    /\ at = None
    /\ k \in todo
    /\ at' = k
    /\ todo' = todo \ {k}
    /\ UNCHANGED <<pc, permit, cooling, wrote>>
    /\ UNCHANGED <<txnVars, connVars, helpVars, inbox, outbox, torn>>

\* write_all puts the whole line in the socket, which must have room.  After a
\* torn line it only lengthens it.
WriteLine(c, k) ==
    /\ pc[c] = "writing"
    /\ at = k
    /\ k \in open
    /\ Len(outbox[k]) < SockCap
    /\ outbox' = [outbox EXCEPT ![k] = Append(@, IF torn[k] THEN Garbled ELSE c)]
    /\ torn' = [torn EXCEPT ![k] = FALSE]
    /\ wrote' = TRUE
    /\ at' = None
    /\ UNCHANGED <<pc, permit, cooling, todo>>
    /\ UNCHANGED <<txnVars, connVars, helpVars, inbox>>

\* The helper's end is closed: the kernel may still take the bytes, and lose
\* them, or report an error.
WriteToClosed(c, k) ==
    /\ pc[c] = "writing"
    /\ at = k
    /\ k \notin open
    /\ wrote' \in {wrote, TRUE}
    /\ at' = None
    /\ UNCHANGED <<pc, permit, cooling, todo>>
    /\ UNCHANGED <<txnVars, connVars, helpVars, inbox, outbox, torn>>

\* The loop is over: reject when nothing was written, spawn the task that keeps
\* the permit for 200 ms more, and await the channel if there is one.
FinishWrite(c) ==
    /\ pc[c] = "writing"
    /\ at = None
    /\ todo = {}
    /\ cooling' = c
    /\ pc' = [pc EXCEPT ![c] = IF c \in FireAndForget THEN "returned" ELSE "awaiting"]
    /\ IF wrote \/ c \in FireAndForget
       THEN UNCHANGED <<pending, slot>>
       ELSE Settle(c, "no_clients")
    /\ wrote' = FALSE
    /\ UNCHANGED <<permit, todo, at, timers>>
    /\ UNCHANGED <<connVars, helpVars, inbox, outbox, torn>>

\* Mutation: the spawned task ends without its permit.
ReleaseLost(c) ==
    /\ cooling = c
    /\ cooling' = None
    /\ UNCHANGED <<pc, permit, todo, at, wrote>>
    /\ UNCHANGED <<txnVars, connVars, helpVars, inbox, outbox, torn>>

\* 200 ms later.
ReleasePermit(c) ==
    /\ cooling = c
    /\ cooling' = None
    /\ permit' = None
    /\ UNCHANGED <<pc, todo, at, wrote>>
    /\ UNCHANGED <<txnVars, connVars, helpVars, inbox, outbox, torn>>

\* rx.await yields.
Return(c) ==
    /\ pc[c] = "awaiting"
    /\ slot[c] # None
    /\ pc' = [pc EXCEPT ![c] = "returned"]
    /\ UNCHANGED <<permit, cooling, todo, at, wrote>>
    /\ UNCHANGED <<txnVars, connVars, helpVars, inbox, outbox, torn>>

\* The HTTP server drops the handler's future: the client went away or the
\* 300 s request timeout passed.  Drop releases the permit and the mutexes the future
\* holds; the transaction and its timeout task stay.  A write_all that was
\* waiting for room may have put the start of its line in the socket.
Cancel(c) ==
    /\ c \notin Spawned
    /\ pc[c] \in {"queued", "writing", "awaiting"}
    /\ pc' = [pc EXCEPT ![c] = "cancelled"]
    /\ IF pc[c] = "writing"
       THEN /\ permit' = None
            /\ todo' = {}
            /\ at' = None
            /\ IF at \in open /\ Len(outbox[at]) >= SockCap
               THEN \E cut \in BOOLEAN : torn' = [torn EXCEPT ![at] = @ \/ cut]
               ELSE torn' = torn
            /\ wrote' = FALSE
       ELSE UNCHANGED <<permit, todo, at, torn, wrote>>
    /\ UNCHANGED <<cooling, txnVars, connVars, helpVars, inbox, outbox>>

----------------------------------------------------------------------------
\* The TCP server: the accept loop and one reader task per connection.

Accept(k) ==
    /\ owner[k] # None
    /\ reader[k] = "off"
    /\ ~ClientsLocked
    /\ clients' = clients \cup {k}
    /\ reader' = [reader EXCEPT ![k] = "on"]
    /\ UNCHANGED <<process, ready, callVars, txnVars, helpVars, inbox, outbox, torn>>

Reads(k, type) ==
    /\ reader[k] = "on"
    /\ inbox[k] # <<>>
    /\ Head(inbox[k]).type = type
    /\ inbox' = [inbox EXCEPT ![k] = Tail(@)]

\* A ping registers the process; it needs the client's mutex.
ReadPing(k) ==
    /\ Reads(k, "ping")
    /\ at # k
    /\ process' = [process EXCEPT ![k] = owner[k]]
    /\ UNCHANGED <<clients, reader, ready, callVars, txnVars, helpVars, outbox, torn>>

ReadReady(k) ==
    /\ Reads(k, "ready")
    /\ ready' = [ready EXCEPT ![owner[k]] = TRUE]
    /\ UNCHANGED <<clients, process, reader, callVars, txnVars, helpVars, outbox, torn>>

\* Mutation: an answer resolves any transaction that waits.
ResolveAny(k) ==
    /\ Reads(k, "reply")
    /\ \E c \in pending : Settle(c, IF Head(inbox[k]).ok THEN "ok" ELSE "error")
    /\ UNCHANGED <<timers, callVars, connVars, helpVars, outbox, torn>>

\* A line with a transactionId: reject on a non-empty error, else resolve.
ReadReply(k) ==
    /\ Reads(k, "reply")
    /\ LET m == Head(inbox[k]) IN Settle(m.call, IF m.ok THEN "ok" ELSE "error")
    /\ UNCHANGED <<timers, callVars, connVars, helpVars, outbox, torn>>

\* read_line returns 0 or an error, which may hide lines still in flight: under
\* the client's mutex the flag of the registered process is cleared.
ReadEof(k) ==
    /\ reader[k] = "on"
    /\ k \notin open
    /\ at # k
    /\ ready' = [a \in Apps |-> ready[a] /\ process[k] # a]
    /\ reader' = [reader EXCEPT ![k] = "ended"]
    /\ inbox' = [inbox EXCEPT ![k] = <<>>]
    /\ UNCHANGED <<clients, process, callVars, txnVars, helpVars, outbox, torn>>

RemoveClient(k) ==
    /\ reader[k] = "ended"
    /\ ~ClientsLocked
    /\ clients' = clients \ {k}
    /\ reader' = [reader EXCEPT ![k] = "gone"]
    /\ UNCHANGED <<process, ready, callVars, txnVars, helpVars, inbox, outbox, torn>>

\* clear_findmy_ready, called by the route that restarts the app.
ClearReady(a) ==
    /\ a \in Restartable
    /\ ready' = [ready EXCEPT ![a] = FALSE]
    /\ UNCHANGED <<clients, process, reader, callVars, txnVars, helpVars>>
    /\ UNCHANGED <<inbox, outbox, torn>>

----------------------------------------------------------------------------
\* A helper: everything runs on the app's main queue.

Say(k, msgs) == inbox' = [inbox EXCEPT ![k] = @ \o msgs]

\* onConnect sends ping, and ready at once unless IMCore has to be initialised
\* first, in a block put on the main queue.
HelloReadyFirst(a) == IF a \in SlowStart THEN <<Ready>> ELSE <<Ready, Ping>>  \* mutation
Hello(a) == IF a \in SlowStart THEN <<Ping>> ELSE <<Ping, Ready>>

Connect(a, k) ==
    /\ link[a] = None
    /\ owner[k] = None
    /\ \A j \in Conns : j < k => owner[j] # None
    /\ owner' = [owner EXCEPT ![k] = a]
    /\ open' = open \cup {k}
    /\ link' = [link EXCEPT ![a] = k]
    /\ Say(k, Hello(a))
    /\ slow' = slow \cup ({a} \cap SlowStart)
    /\ UNCHANGED <<work, runs, callVars, txnVars, connVars, outbox, torn>>

SendReady(a) ==
    /\ a \in slow
    /\ slow' = slow \ {a}
    /\ Say(link[a], <<Ready>>)
    /\ UNCHANGED <<owner, open, link, work, runs>>
    /\ UNCHANGED <<callVars, txnVars, connVars, outbox, torn>>

\* A line that does not parse and an action this app's dispatcher does not know
\* are only logged.
KnowsAll(a, line)  == line # Garbled  \* mutation
KnowsTorn(a, line) == line = Garbled \/ Target[line] = a  \* mutation
Knows(a, line)     == line # Garbled /\ Target[line] = a

\* A line is taken from the socket and dispatched.
HelperRead(a) ==
    LET k == link[a]
        line == Head(outbox[k])
    IN
    /\ k # None
    /\ a \notin slow
    /\ outbox[k] # <<>>
    /\ outbox' = [outbox EXCEPT ![k] = Tail(@)]
    /\ IF Knows(a, line)
       THEN /\ runs' = [runs EXCEPT ![line] = @ + 1]
            /\ work' = IF line \in FireAndForget THEN work
                       ELSE [work EXCEPT ![a] = @ \cup {line}]
       ELSE UNCHANGED <<runs, work>>
    /\ UNCHANGED <<owner, open, link, slow, callVars, txnVars, connVars, inbox, torn>>

\* respond and respondError write to the connection of the moment.
Reply(a, c, ok) ==
    /\ c \in work[a]
    /\ link[a] # None
    /\ work' = [work EXCEPT ![a] = @ \ {c}]
    /\ Say(link[a], <<[type |-> "reply", call |-> c, ok |-> ok]>>)
    /\ UNCHANGED <<owner, open, link, slow, runs>>
    /\ UNCHANGED <<callVars, txnVars, connVars, outbox, torn>>

\* A handler returns without answering, or answers while there is no connection.
NoReply(a, c) ==
    /\ c \in work[a]
    /\ work' = [work EXCEPT ![a] = @ \ {c}]
    /\ UNCHANGED <<owner, open, link, slow, runs>>
    /\ UNCHANGED <<callVars, txnVars, connVars, inbox, outbox, torn>>

\* The helper's end closes, with what the helper had not read: the app exits or
\* is killed, or only the connection fails and a new one follows.
Disconnect(a, exits) ==
    LET k == link[a] IN
    /\ k # None
    /\ link' = [link EXCEPT ![a] = None]
    /\ open' = open \ {k}
    /\ outbox' = [outbox EXCEPT ![k] = <<>>]
    /\ slow' = slow \ {a}
    /\ work' = IF exits THEN [work EXCEPT ![a] = {}] ELSE work
    /\ UNCHANGED <<owner, runs, callVars, txnVars, connVars, inbox, torn>>

----------------------------------------------------------------------------

ServiceStep ==
    \/ \E c \in Calls :
          \/ Begin(c) \/ FinishWrite(c) \/ ReleasePermit(c) \/ Return(c) \/ Timeout(c)
          \/ \E k \in Conns : PickClient(c, k) \/ WriteLine(c, k) \/ WriteToClosed(c, k)
    \/ \E k \in Conns :
          Accept(k) \/ ReadPing(k) \/ ReadReady(k) \/ ReadReply(k) \/ ReadEof(k)
          \/ RemoveClient(k)

HelperStep ==
    \E a \in Apps :
        \/ SendReady(a) \/ HelperRead(a)
        \/ \E k \in Conns : Connect(a, k)
        \/ \E c \in Calls : NoReply(a, c) \/ \E ok \in BOOLEAN : Reply(a, c, ok)
        \/ \E exits \in BOOLEAN : Disconnect(a, exits)

Next ==
    \/ ServiceStep
    \/ HelperStep
    \/ \E c \in Calls : Invoke(c) \/ Cancel(c)
    \/ \E a \in Apps : ClearReady(a)

\* The tokio runtime runs every task that can run, and timers expire.  A handler
\* takes a permit that stays free; tokio's semaphore, which serves its waiters in
\* turn, promises more.
ServiceFairness ==
    /\ \A c \in Calls :
          /\ WF_vars(Begin(c))
          /\ WF_vars(\E k \in Conns : PickClient(c, k))
          /\ WF_vars(\E k \in Conns : WriteLine(c, k) \/ WriteToClosed(c, k))
          /\ WF_vars(FinishWrite(c))
          /\ WF_vars(ReleasePermit(c))
          /\ WF_vars(Return(c))
          /\ WF_vars(Timeout(c))

\* A helper whose main queue runs reads its socket and finishes initialising.
HelperFairness == \A a \in Apps : WF_vars(HelperRead(a)) /\ WF_vars(SendReady(a))

Spec     == Init /\ [][Next]_vars
FairSpec == Spec /\ ServiceFairness /\ HelperFairness
\* The service alone is fair: an app may stop reading without closing its socket.
\* The HTTP server's request timeout ends every handler.
HungSpec ==
    /\ Spec
    /\ ServiceFairness
    /\ \A c \in Calls : WF_vars(Cancel(c))

----------------------------------------------------------------------------
\* Properties

\* The semaphore's permit is out exactly while a handler writes or the task
\* spawned by its send_action sleeps: it is never held for a handler that
\* failed, was cancelled or returned long ago, and never by two of them, so two
\* lines are never written within 200 ms of each other (service.rs:204-256).
PermitAccounted ==
    \A c \in Calls : (permit = c) <=> (pc[c] = "writing" \/ cooling = c)

\* A handler that awaits its channel will hear of it: either the outcome is
\* already in the channel, or the transaction is still in the map with its
\* timeout task asleep.  A pending transaction has no outcome yet.
NoStrandedCaller ==
    /\ \A c \in Calls : pc[c] = "awaiting" => slot[c] # None \/ c \in pending
    /\ \A c \in pending : c \in timers /\ slot[c] = None

\* An outcome, once sent, is never replaced: an answer that races the timeout
\* or the rejection of its transaction is lost, not delivered on top of it.
SettledOnce ==
    [][\A c \in Calls : slot[c] # None => slot'[c] = slot[c]]_vars

\* A helper executes a call at most once, although the line goes to every
\* connected client and a restarted app may have two connections in the map.
AtMostOnce == \A c \in Calls : runs[c] <= 1

\* A handler told of success had its own action executed by the app that knows
\* it: no answer reaches the wrong transaction.
AnswerIsOwn == \A c \in Calls : slot[c] = "ok" => runs[c] > 0

\* The routes' readiness check (require_*_private_api) never passes without a
\* registered client of that app in the map.
ReadyImpliesClient ==
    \A a \in Apps : ready[a] =>
        \E k \in clients : process[k] = a /\ reader[k] = "on"

\* Every handler gets an outcome or is dropped.
CallsReturn ==
    \A c \in Calls : pc[c] = "queued" ~> pc[c] \in {"returned", "cancelled"}

\* A transaction times out after 120 s (transaction.rs:5), and its caller is
\* told: the timeout bounds the call whatever the helpers do.
TimeoutHonoured ==
    \A c \in Calls : slot[c] = "timeout" ~> pc[c] \in {"returned", "cancelled"}

\* The implemented promise.
Phase(c) ==
    CASE pc[c] = "idle" -> "idle"
      [] pc[c] \in {"queued", "writing", "awaiting"} -> "open"
      [] pc[c] = "cancelled" -> "abandoned"
      [] pc[c] = "returned" /\ (c \in FireAndForget \/ slot[c] = "ok") -> "answered"
      [] OTHER -> "failed"

Promise == INSTANCE RequestReply WITH phase <- [c \in Calls |-> Phase(c)], ran <- runs

\* The service and the helpers implement the promise.
KeepsPromise == Promise!Spec
=============================================================================
