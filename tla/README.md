# imessage-rs in TLA+

TLA+ models of imessage-rs, the TLC runs that check them on small instances and
TLAPS proofs of what matters most for every instance. Every definition is read
off the source at one commit; `PROJECT.json` gives the lines each one stands
for, the hazards the properties are aimed at, and a mutation of the code that
breaks each property.

## The system

imessage-rs is one tokio process beside Messages.app. It serves an HTTP API,
reads `chat.db` (which it never writes), and acts through AppleScript or through
a dylib injected into Messages, FaceTime and FindMy, which connects back over
TCP.

| component | state it keeps | operations | hard behaviour |
|---|---|---|---|
| Private API service (`imessage-private-api/src/service.rs`, `transaction.rs`) | write permit, map of clients, readiness flags, pending transactions | `send_action`; accept; per-connection reader; timeout task per transaction | many handlers, two mutexes held across a write, cancellation at every await, answer against timeout, clients that die or reconnect |
| Helper dylib (`swift/Sources/IMHelper`) | the current connection, requests in progress | connect, ping/ready, dispatch, respond, reconnect | restarts between reading and answering, answers on another connection than the question |
| Database watcher (`imessage-watcher`) | three caches with a 1 h life, time of the last poll | seeding poll, poll, emit | a lookback window, caches trimmed apart, failed queries, late rows, suspension |
| Webhook service and the bridges (`imessage-webhooks`, `src/main.rs`) | event cache, targets | bridge, `dispatch` | deduplication against real repetitions, fire-and-forget POSTs, a channel that forgets |
| Message routes (`routes/message.rs`, `state.rs`) | send cache, typing cache | send, react, edit, unsend | check-then-insert, guards that fire on cancellation, matching a sent row by rowid |
| Awaiter (`awaiter.rs`) and the routes that poll `chat.db` after acting | none | poll with growing delay until a deadline | timeout taken for success |
| FindMy (`routes/icloud.rs`, handler in `main.rs`) | location map, key, refresh guard | refresh devices, refresh friends, events | restart of the app during a refresh, old data over new |
| FaceTime sessions (`facetime_session.rs`) | sessions, admitted handles | create, answer, admit, leave | spawned tasks that outlive their request |
| Helper handlers (`ChatActions.swift`, `MessageActions.swift`, ...) | Apple's frameworks | one per action | guards that answer with an error, with nothing, or with success for work not done |
| Chunked uploads (`routes/message.rs`) | a directory per attachmentGuid | chunk, last chunk | POSTs side by side on one directory, repeated or failing at any call |
| Injection (`injection.rs`) | failure count and time | kill, wait, spawn, retry | gives up, or stops because another app is connected |
| AppleScript (`imessage-apple`) | none | send with restart and fallback | a retry of what may have happened |
| Lifecycle (`main.rs`, `config.rs`, `process.rs`) | pid file, `config.yml`, ports, task handles | bootstrap, start, signals, shutdown | check-then-write, early exits, crashes, pids that come to others |
| chat.db repository, serializers, typedstream and plist decoders, middleware | none | pure queries and conversions | - |

Interaction: the routes call `send_action`; the helpers' answers resolve its
transactions and their events go to a broadcast channel; the watcher's events go
to another; two bridges in `main.rs` carry both to the webhook service; the
routes also dispatch events of their own.

What makes each correct, in a sentence: the service never strands, lies to or
deadlocks a caller and never executes an action twice; the watcher misses no
change and announces none twice; the webhook service drops duplicates and only
duplicates; the send routes send once per tempGuid and return the row they sent;
the awaiter reports what happened; FindMy keeps the newest location; a FaceTime
task stays for whom it admitted and leaves in time; a refresh of the devices reads the data
of the new process; an upload is sent whole and once; one instance runs, unless two
start at the same instant, and its pid file goes with it.

## Modules

### PrivateApi

One action per stretch of code between two awaits. `Calls` are invocations of
`send_action`; the v4 transaction id of a call is the call itself, and a
connection id a number taken in order.

| code | model |
|---|---|
| `acquire_owned().await`, `create`, lock of the clients map | `Invoke`, `Begin` (`permit`, `pending`, `timers`, `todo`) |
| the write loop, one locked client after another | `PickClient`, `WriteLine`, `WriteToClosed` (`at`, `wrote`) |
| reject for want of clients, the task that releases the permit after 200 ms, `rx.await` | `FinishWrite`, `ReleasePermit`, `Return` |
| the 120 s task; `resolve`, `reject` | `Timeout`, `Settle` |
| a future dropped by the HTTP server (client gone, 300 s layer) | `Cancel`: permit and locks go, the transaction stays, a line may be torn |
| accept loop, reader task | `Accept`, `ReadPing`, `ReadReady`, `ReadReply`, `ReadEof`, `RemoveClient` |
| the helper | `Connect`, `SendReady`, `HelperRead`, `Reply`, `NoReply`, `Disconnect` |

Sockets are two sequences per connection. The server's writes wait for room
(`SockCap`); the helper's do not, because Network.framework queues them. A helper
that closes its end loses what it had not read. An app that reconnects gets a new
connection while the server may still hold the old one in its map. All lines go
to all clients; an app executes the actions its dispatcher knows (`Target`).

`RequestReply` is what the routes rely on, with no sockets, locks or
transactions: a call opens once and ends once, with an answer only if the action
ran; an action runs at most once, possibly after its caller failed or left.
`PrivateApi!KeepsPromise` is the refinement, checked and proved.

### Watcher, Webhooks, EventPipeline, EventPipelineProofs

`Watcher` is the listener. Time is a coarse clock from `StartTime`; 0 is the time
of what never happened. A row of `chat.db` keeps the newest of its five dates, a
count of dated changes and one undated flag, which is what the window query and
`is_message_updated` tell apart. A poll (`Poll`) is one action: the query and the
caches are under one lock and nothing else writes them. Its events are a set sent
one at a time (`Emit`), group changes before messages before chats. Either query
may fail. The world writes rows, some dated up to `MaxLag` ago.

`Webhooks` is `dispatch` with its event cache and filters. `EventPipeline`
composes them with the bridge of `main.rs`, whose key is `<<type, guid>>`, and with the
`mark_read` route, which dispatches without a key once the helper has answered; that the
chat is read in `chat.db` is a step of Messages (`ReadChat`), before it, after it or never.

History variables: `touched` and `owed` (written since a poll last read it, and
with a new date), `lastNew`, `lastGood`, `lapsed`, `posted`, `old` (the rows that were
there at the seeding) and `lost` (the events the full channel forgot, by type and id).

### MessageRoutes, MessageRoutesProofs

The handlers that change messages and chats, each a walk through the await
points of one request; the synchronous stretches between them are one action.
`pc[r]` names the await: `passed` is the gap between the two locks of
`check_send_cache`, `stopping` the stop-typing action, `ready` the start of
Messages or a conversion, `calling` the helper, `scripting` `osascript`,
`finding` the awaiter's sleep.

| code | model |
|---|---|
| `is_send_cached`, `cache_send`, the guard and its drop | `Check`, `CacheSend`, `Uncached` in `End` |
| `typing_cache` and its routes | `AutoStop`, `StartTyping`, `StopTyping` |
| `send_action` and what follows it | `AskSend`, `AskReaction`, `AskEdit`, `AskMember`, `Answered`, `CallFailed`: calls of `RequestReply`, which `PrivateApi` is proved to implement |
| `pre_send_max_rowid`, `send_message` of `imessage-apple` | `Note`, `ScriptRan`, `ScriptError`, `ScriptTimeout` (`tries`) |
| `await_message`, `await_condition` | `FindMessage`, `SeeChange`, `GiveUp` |
| the handler dropped by the server, `osascript` killed with it | `Cancel` |
| Messages, `chat.db`, other devices | `Execute`, `Accept`, `Land`, `Elsewhere` |

Assumed of the world: a script that ends in an error other than a timeout was not
accepted by Messages; what was accepted may reach `chat.db` at any time or never; an
action the helper executes is performed (`HelperActions` says where it is not).
`Elsewhere` is restricted to what the requests of the load can see. The helper's answer
to a send names the chat's `lastSentMessage`, which may be any message that was sent to
the chat (`Found`), so that `ReportsNew` is about sends by AppleScript; it also excepts
a request whose query for the last rowid failed, which counts as an empty chat. History
variables: `taken`, `landed`, `arrived`.

The header of `send_message` (actions.rs:19) says "On timeout, restart Messages and
retry"; its body gives up on a timeout and retries any other error. The model
follows the body.

### HelperActions, ActionRoutes, ActionRoutesProofs

`HelperActions` is a table: for every action of the three dispatchers the guards of
its handler, in the order of the code, each with what it needs (a field, a chat, a
class or a selector) and what happens without it: an error, no answer (`Hush`), or a
call that is skipped (`Soft`, a selector that is not there) by a handler that goes on and
answers success. So a message is reported as sent that a chat without `sendMessage:`
never sent, or one that is empty for want of its initializer. `Fields` is what the
builders of `actions.rs` put into an action. `Outcome` runs a handler with a set of needs
that are not met: the first guard that ends it decides, and if none does, whether it
skipped anything. A need that two guards share is one need, met or not for both. The scan
for links before a send (`IMDDController`) is left out: without it the message goes as it
is. So is a part of a multipart message that has a `filePath`, which no builder sends.

`ActionRoutes` has the routes that ask for an action and are not sends, as data
(`Routes`: what chat.db must show first, the actions, what chat.db must show after)
and as one handler that walks through them.

| code | model |
|---|---|
| input checks, `require_private_api`, reads of chat.db | `Refuse`, `Begin`, `Already` |
| `send_action`, fire-and-forget or awaited | `Ask`, `Answered`, `Refused`, `Expire` |
| `await_condition` and what follows it | `Finish`, `Poll`, `Misread`, `GiveUp` |
| `create_chat` by AppleScript | `Script` |
| the server drops the handler | `Drop` |
| the helper reads a line; its app dies | `Handle`, `Die` |
| the user; Messages writes chat.db | `User`, `Sync` |

The helper's socket is one queue: `PrivateApi` has its detail. A handler that skipped a
part may have had its effect or not. Each load lacks no piece of the frameworks or one.

### FindMyFriends, FindMyFriendsProofs

`refreshFindMyFriends` of the helper as its threads run it: the callback of Apple's
session and the pass over its cache, each between its two critical sections
(`Collect`, `Count`), and the timer (`Alarm`). Events of fixes are geocoded in any
order and go through a channel that forgets (`Geocoded`, `Report`) to the handler of
`main.rs` (`OnEvent`), while the route applies answers (`ApplyRefresh`) that clear and
refill the map. A fix is its number in the order of Apple's session, and whether it
has coordinates.

### Injection, InjectionProofs

`inject_app_dylib` per app and `refresh_findmy_devices`, which kills and relaunches the
app behind the loop's back. A process has what it said, what was heard of it, and
whether it lives; the readiness flag belongs to the app, not to the process. The flag is
lowered once `killall` has returned, whatever of the killed process is still unread: a
"ready" of it that is read later raises the flag again, and nothing in the code tells
whose it was. `stale` (history) is what a refresh killed, except a process whose "ready"
was unread at that moment; `FreshDevices` is about the others. The run has no such
"ready" (it takes two launches of FindMy before the kill and one after it), the theorem
has every number of launches.

### FaceTimeSession, FaceTimeSessionProofs

`create_session`, `answer_call` and the task `admit_and_leave`. Time is in ticks of
the poll interval; code that does not wait runs before the next tick (`Due`). The
notifications are rows of a database read with a lookback window. `approved`, `failing`,
`watched` and `up` are history.

An admission is two steps: `AsksAdmission`, after which the task waits for the permit, the clients
lock and `write_all` (`Writing`), and what the helper makes of the line: `Approve`,
`Rejected` or `NoAnswer`. The task is spawned, so the 300 s layer does not reach it, and
the wait to be written has no limit: `PrivateApiHung` is that caller. It gets no fairness
here, and no clock: `up` counts the ticks a task runs outside it, and `EndsBy` bounds
those. The deadline is tested between two queries, and each notification of the last one
may cost what is left of a transaction, whose 120 s began before the write (`Waits`). An
answer may be lost after the approval or come after the timeout, and a line that reaches
nobody is an error at once; the task goes on either way. Assumed of FaceTime: a member
that was approved is no longer among the pending ones (FaceTimeActions.swift:221-228 only
asks for it), or the next task could have it approved again (`AdmittedTruly`).

### ChunkUpload, ChunkUploadProofs

`send_attachment_chunk` between any two calls of the file system: `MakeFolder`,
`OpenChunk` (which cuts a file that is there), `WriteChunk` (which may fail), `List`,
`ReadChunk` one file at a time, `Join`, `RemoveChunk` one file at a time, `EndRemoval` (the
directory, or an error, which the code ignores) and `SendJoined`. `spared` (history) is
what a removal that failed left of the chunks it had joined.

### Lifecycle

The process from its command line to its end; what `run_server` starts in between is
in the other modules. A behaviour has processes that start, end and start again with
other pids, and other programs of the user whose pids come and go.

| code | model |
|---|---|
| `CliArgs`, `resolve_config`, `bootstrap_config` | `Launch`, `WriteConfig` (`Resolves`, `Resolved`, `IntoAppConfig`) |
| `read_to_string` of the pid file, `is_running`, exit | `ReadPidFile`, `Pass`, `AlreadyRunning` |
| `fs::write` of the pid: open and truncate, then write | `OpenPidFile`, `WritePidFile`, `WriteUnlinked` |
| `require_min_sequoia`, `Runtime::new`, `MessageRepository::open` | `ExitEarly` |
| Private API port, `start_server`, `ctrl_c` | `Serve`, `BindFails`, `Stop` |
| `killall` and `remove_file` in `run_server`, `remove_file` in `main` | `Cleanup`, `MainEnds` |
| killed, panicked | `Perish` |

A file that is unlinked while another start has it open takes that start's pid with
it (`orphaned`); one written twice may keep digits of both. `raced` and `left_over`
are history: a start read the file while another start, or an end, was at it; an
instance ended without removing its file. Of the options only the HTTP port is told
apart, as only it decides how a start goes on. `killall` is not an action: what it
does to the apps of another instance, `Exclusive` rules out.

## Runs

| run | instance | what it shows |
|---|---|---|
| `PrivateApi` | 3 calls, one of them fire-and-forget, 1 app, 1 connection | permit accounting, no stranded caller, one outcome, one execution, honest answers; a torn line followed by other writes stays harmless |
| `PrivateApiLive` | a call to FindMy, 2 apps, 2 connections, one app slow to start and one that a route restarts; or two calls on one socket with room for a line; fair | flags imply clients; the promise is kept across reconnections (an action runs once, a call ends once); every call returns, also one that waits for the permit or for room |
| `PrivateApiHung` | a helper that may stop reading | **violated**: the 120 s timeout does not bound the call |
| `EventPipeline` | 1 message, dates up to 1 late, outage of 1, lookback 2, life 4, 4 ticks, two targets, fair | nothing missed, swallowed, repeated or lost |
| `EventPipelineMixed` | 1 group change, 1 chat, channel of 1 | types under overflow; a row that comes after the seeding is to be read, on its way or posted, unless the channel forgot it |
| `EventPipelineDropped` | 1 message changed twice | **violated**: the second update is dropped as a duplicate |
| `EventPipelineSeeded` | 1 group change | **violated**: what the seeding read is announced as a new message |
| `MessageRoutes` | 2 requests with one or two tempGuids and chats: sends both ways to a person and to a group, a reaction, two edits, an add and a remove; 2 rows, 3 changes, fair | the cache is freed, refusals are just, nothing is sent twice, sends report new rows, requests end |
| `MessageRoutesStale` | a send by AppleScript, a row of an earlier date arriving late | **violated**: an old message is reported as the one sent |
| `MessageRoutesUnedited` | two edits | **violated**: an edit that never happened is reported as done |
| `Server` | see below | success means done, silence has a cause, typing indicators can be stopped, confirmations are true; locations are never older than the refresh; the devices are the new process's; every knock is read and admitted by one task, which leaves in time once its calls are written; uploads are sent whole and once; one instance runs and owns the pid file; requests, refreshes and tasks end |
| `FaceTimeStays` | the FaceTime tasks of `Server` | **violated**: the Mac stays in the call its task has left |

Bounds. Three calls race for the permit, the locks and a timeout, and are needed for a
torn line, a line glued to it and one after; the second connection of an app is the
reconnection, and a third repeats it; `SockCap = 1` makes a write wait after one line.
`PrivateApi` uses symmetry of calls with the same target (safety only). `PrivateApiLive`
has two casts (the constraint `MCCasts`, which keeps nothing fair from happening): one
call and two connections of two apps, and two calls that contend for the permit, the locks and the only room of one
socket. In the pipeline the times keep the order `MaxLag + MaxOutage <= Lookback <
SeedBack < Ttl < MaxBack` of 30 s, 60 s, 1 h and 24 h, and the clock runs long enough
for an entry to expire and for a gap beyond `MaxBack - Lookback`. No instance fills a
page (`Limit`): `lapsed` excepts that. In `MessageRoutes` two requests already share a
tempGuid, a chat or a record, each may be dropped or land late, and with two rows there
is one to note and one to find; the load of each behaviour is one of the pairs above,
since unrelated requests only multiply states. `Window` is the code's 5 cut to 1, so
that a newer row can hide the one sent (2 in `MessageRoutesStale`, which needs the older
one in view). `Backdated` separates rows that arrive in the order of their dates, where
`ReportsNew` holds, from late ones, where it does not. Helper calls are those of
`RequestReply`, with no transport.

`Server` holds six modules that share no state; a behaviour moves one of them, its
`focus`, so that the states add up instead of multiplying.
- asks: one request of each route, with all its needs met and with each of them
  missing, and eight pairs of requests on one chat (two typing routes, typing and a
  send, two renames, delete against delete, read and create, icons, read and unread);
- friends: two refreshes of one friend, one of two friends, one of a friend without
  coordinates, and one that finds nobody; up to two fixes and a channel of one event;
- injection: two apps, two launches of FindMy and one of Messages, two failures to
  give up (5 in the code), one refresh of the devices;
- facetime: two tasks and one notification, one task and two; a lookback of 2 polls (5 in
  the code), a deadline of 3, so that an outage as long as the lookback fits before it, and
  one poll for a transaction and for the pause after an admission (longer ones repeat its
  ticks);
- uploads, whose removals may fail part way: two chunks and the last repeated, two names
  for one chunk and an index that is too large, one chunk repeated;
- lifecycle: two processes that start over and over with five command lines (none,
  a flag, a `--config` that parses and one that does not, a bootstrap), and two pids,
  one of which another program may take. Two pids make every reuse happen: a process
  may find its own pid in the file of one that died.
`CHECK_DEADLOCK FALSE` everywhere: the calls end, and the bounded clock stops.

Fairness. `ServiceFairness`: tokio polls every runnable task and timers fire, each
weakly fair. `Begin` is too, which is less than tokio's semaphore gives: it serves its
waiters in turn, while here others may go by as long as the permit does not stay free.
With finitely many calls that is enough, and a permit that never comes back violates
`CallsReturn`. `HelperFairness`: the app's main queue runs; `PrivateApiHung` drops it,
and keeps `WF(Cancel)` for the 300 s layer. In `EventPipeline` the seeding, the sends
and the bridge are weakly fair, and the poll whose queries both succeed strongly: the 5
s timer always ticks, and outages end. `CallsReturn` and `NewDelivered` need nothing of
Messages.app. In `MessageRoutes` each handler is weakly fair: tokio polls it, a helper
call ends (`CallsReturn`), and `osascript` and the awaiter have time limits; nothing is
assumed of Messages, so that `RequestsEnd` holds for what never reaches `chat.db`. In
`Server` the handlers and the loops' and the refresh's own steps are weakly fair (tokio
polls them, each wait of theirs has a limit, and the 300 s layer drops a handler that a
write holds up); the helper, the apps, the user and `chat.db` are not: nothing they
leave undone keeps a request or a refresh from ending. A FaceTime task has no such
layer: its own steps and the clock are weakly fair, what follows a write (`WrittenStep`)
is not, and `SessionEnds` is about a task that is not for ever in `Writing`.

## Findings

1. A caller is not bounded by its transaction's timeout (`PrivateApiHung`):
   `write_all` has none, under the permit and the clients lock.
2. A second update of a message within the hour never reaches the webhooks
   (`EventPipelineDropped`): the key does not say what changed.
3. Group-change rows, seeded ones too, are announced as `new-message` by the poll
   after the one that announced the change (`EventPipelineSeeded`).
4. A message of the user's that syncs late, with an earlier date than the newest, may
   be reported by an AppleScript send as the message it sent (`MessageRoutesStale`):
   the "max ROWID" is that of the newest message by date.
5. Edits, unsends and changes of participants that do not happen within 30 s are
   answered as successes (`MessageRoutesUnedited`): the awaiter returns the last
   record it read, and the routes do not test it again.

6. A FaceTime task that leaves its call with an empty UUID does not leave it
   (`FaceTimeStays`): the helper looks for a call of that UUID. This assumes that no
   call has the empty string as its UUID.

What the code does and no run refutes, because nothing in it promises otherwise:
- An injection loop ends when any helper is connected: if Messages connects during
  their first second, FindMy and FaceTime are never injected.
- Actions without a transaction are answered with success when no helper is connected.
- A handler answers success also for calls it skips, on a macOS without their selector: a
  send without `sendMessage:`, a deletion without `deleteChatItems:` (`Soft`).
- A send through the helper may report another message of the chat: the helper answers
  with `lastSentMessage` (MessageActions.swift:78, 90).
- A refresh of the devices may take the readiness of the FindMy it killed for that of the
  next, if it is read after the flag was cleared.
- A FaceTime task whose admission or leave waits behind a write that is never done does
  not end: finding 1 in a task that no layer drops.
- A typing entry leaves the cache before the stop is sent, and a stop that fails leaves
  the indicator on.
- `delete_chat` takes a failed query for the absence of the chat; a rename takes any
  change of the name for its own.
- The parts of a multipart message are written with `attachment`, and the helper reads
  `filePath`: parts with a file lose it (`Transfers`).
- A forced download waits up to ten minutes, and the 300 s layer ends it.
- A refresh of the friends drops those who did not answer within its 15 s; two at once
  save and restore each other's callback.
- All FaceTime tasks read all notifications, so that a task may admit into the
  conversation of another; an admission that waits 120 s for a silent helper makes the
  task miss what comes meanwhile; a knock in the last second of the deadline is not read.
- An upload counts files, not indices: two names for one chunk stand in for a missing
  one; two last POSTs that overlap both send, and so does a last POST that is repeated
  after a removal that failed (`let _ =`, message.rs:1227); a send that fails has lost
  its chunks.

`NoRepeat` also excepts, by `Forgotten`, a message written an hour or more after
its guid entered `seen_guids`, which is announced as new again.

## Proofs

`PrivateApiProofs` proves, for any calls, apps, bounds and targets satisfying
`CallsAssumption` and `NoneAssumption`: type correctness, every safety invariant
of the runs above, `SettledOnce`, and `Spec => KeepsPromise`. None of the
invariants but the type is inductive alone. The argument:

- `PermitInv` relates `permit`, `cooling`, the writing handler and the locks.
- `TxnInv` says where a transaction's entry, timer and outcome can be for each pc.
- `ConnInv` and `PingInv` say that a connection belongs to one app for good, that
  a `ready` line in a socket has its ping before it or the process registered,
  and that readers and clients go together.
- `RunInv` counts, for the one call in the write loop, the places its line can
  be (`In`, `Once`, `Holds`): not yet written, in the socket of the target's only
  current connection, or executed. That bounds executions by one.
- `AnswerInv`: an `ok` in a socket or a channel is backed by an execution.

Lemmas on sequences carry the parts about sockets.

`MessageRoutesProofs` proves `EntryHeld`, `RefusedRightly` and `SentOnce` for any
requests, loads, tempGuids and chats satisfying the module's assumptions. `EntryHeld`
needs `KindInv` (a handler past the check has a tempGuid of its own), and the step that
ends a handler is the interesting one: it may free an entry that another handler
also put there, never one that nobody held. `SentOnce` needs `TakenInv`, which says
how much may have been accepted before each attempt: nothing before the first two,
one before the fallback, and only where there is a fallback. With `FindInv` (whoever
looks for a result had one accepted) it gives `DoneExactlyOnce`: what is reported done
was accepted, and once, or for a script to a person once or twice.

`FindMyFriendsProofs` proves `AnsweredOnce`, `FreshSince` and `AnswerComplete` for any
friends, refreshes, parties and bounds. `FreshInv` follows a fix through the places it
can be (gathered, in an answer, in the map, with the geocoder, in the channel): what a
refresh gathers is not older than what the session had when it was asked for, and what
the map holds of a friend it found stays so, because the handler rejects older fixes.
`CompleteInv` says that a friend counted before the timer has a location gathered, or
was reported without one. Both need that a request that was not yet asked for has
touched nothing (`Untouched`).

`ChunkUploadProofs` proves `ChunkSentOnce` and `SentInFull` for any POSTs and deliveries
satisfying `DeliveryAssumption`. `ChunkInv`: what was joined is gone from the directory
or was spared by a removal that failed (`Consumed`), and the POST that created a file
creates no other (`Born`), so what is read later is another file; two that read at one
time have met (`Meeting`). `FullInv`: the count of the files, with distinct indices
below the total, says that each index is there (`AllThere`, from the pigeonhole theorem
of the library), and the indices read and still to read are 0 to the total (`Ordered`);
as long as nothing was careless one POST runs at a time, and an index whose file is cut
is known (`Careful`).

`EventPipelineProofs` proves `TypeOK`, `InReach`, `NoSwallow`, `NoRepeat`, `DedupWindow`
and `NothingLost` for any rows, chats, targets and bounds satisfying `Watcher`'s
assumptions: a row is no chat, the constants of the code are ordered as in the code, and
`MaxLag + MaxOutage <= Lookback`. Like the properties, it leaves out a seeding that
failed, a page that was full and a poll a day late (`lapsed`, `DayLate`). `ReachInv` is
why the window is wide enough: an unread change is no older than the last good poll by
more than `MaxLag`, and failing polls carry `lastCheck` no further than `MaxOutage`
beyond it. `SwallowInv` says that a row whose guid is remembered has a state remembered,
as young or younger. `CacheInv`: what nothing has touched since it was read is cached as
it is in `chat.db`, or left its cache after the `Ttl`, when the window has left it
behind too. `KeyInv`: the entry of a key is as old as its last POST, unless it was
evicted for its age.

`NothingLost` is the promise of the whole pipeline: a row that came after the seeding is
to be read, on its way, or posted to each target that asked for it, unless the full
channel forgot it. (A row to be read is in the window as far as `InReach` goes: an
overlong page or a late poll may leave it behind.) It needs the watcher's and the
webhooks' caches at once. `LostInv`: before the seeding the caches hide no row, and
after it what they hide, or no poll owes, was reported. `SentInv`: an entry of the event
cache, whoever asked for it, stands for a POST to every target of its type, so that an
event dropped as a duplicate was posted. Every step from the row to the POST keeps the
event (`UnderWay`) or names it in `lost`. What it cannot say, that a row to be read is
read, is `NewDelivered`, and remains with TLC.

`InjectionProofs` proves `FreshDevices` for any apps, requests and launches. `LockInv`
lets one request in at a time; `GoneInv` says that a process launched before its kill is
dead and, once the flag was lowered, mute (no `ready` of it is unread) or not among the
`stale`, so `FlagInv`: the flag is not up again by a stale one. A dead process never
lives again and a mute one never speaks (`Onward`), whatever the loops do meanwhile.

The same module proves `Exclusive` and `PidFileAccounted` of `Lifecycle`, for any
processes, pids, other programs and command lines. As long as no start read the file
while another was at it, the file holds the pid of the instance past the check
(`OwnInv`), no other process has that pid (`PidInv`), and whoever has read the file
since has it in hand and will be refused (`AloneInv`). `PidFileAccounted` needs none of
this when starts did race.

`FaceTimeSessionProofs` proves `KnockHeard`, `AdmittedTruly` and `EndsInTime` for any
sessions, people and scenes with finitely many of them asking to join, and any lookback
and time limits. `HeardInv` is the arithmetic of the window: a knock that a polling task
has not read is no older than the queries that failed in a row since, the sleep that is
left and one poll. `LobbyInv`: a member that was approved is no longer among those who
wait, so the helper refuses it to the next task (`AdmitsMember`, from the guards of
`admitPendingMember`). `EndInv` bounds the time a task has run, apart from what its
calls waited to be written, by what it still has in hand: each notification of the last
query may hang for a transaction (`Cost`), they are at most those who ask to join, and
an admission adds one pause.

`ActionRoutesProofs` proves `OkMeansDone`, `SilenceExplained`, `TypingCovered` and
`ConfirmedRightly` for any requests and loads satisfying `AskLoadsAssumption` (a request
asks for a route of the table, the chat is there or not, a body has finitely many
parts). Its lemmas go through the tables once: `HandlerEnds` says that no handler skips
anything, nor falls silent, for want of a chat, a message or a field that its builder
sends, `PlanOf` what each route has still to ask for at each point. `AskInv` relates the
steps of a handler to its plan (`PlanInv`), a success to an execution (`DoneInv`), and
chat.db to Messages (`DbInv`: it knows no deletion and no download that Messages does
not). `TypingCovered` is the hard one, as the helper reads its socket later: `TypingInv`
speaks of the indicator that will be on once all in the socket is read (`Starting`), and
of who has still to cache the chat or to stop what it took from the cache (`Covers`).

`MessageRoutesProofs` also proves the full type and `ReportsNew`. The row a send finds
is the greatest of a set by date and rowid (`NewestIn`), what a request brought to
chat.db came after it (`LandInv`), and the rowid noted before the script covers all that
was there (`NotedInv`). The last needs that rows are not backdated, which is the
hypothesis of `NewReported`; without it the code is wrong, as `MessageRoutesStale`
shows. Of the row a send through the helper reports nothing is claimed. `ShownOnce`
counts the rows a request has in chat.db: they are no more than landed (`ShownInv`),
which are no more than were accepted, so a client sees its message once, or twice where
a script may be retried.

`HelperUsed` shows that every step of the handlers is a step of `RequestReply` or leaves
it alone, once a call that was not made is known to be idle. With `Implements`, which
shows that `PrivateApi` keeps what `RequestReply` promises, the routes may be reasoned
about without the transport, as these proofs do.

Assumptions that a proof asked for: `None` is no request (`NoneAssumption` of
`MessageRoutes`), the loads of `ActionRoutes` name routes of its table
(`AskLoadsAssumption`), and "absent" and "torn" are no pids (`LifecycleAssumption`).
One property was too strong in general and only held on the pairs of requests a run
had: `ConfirmedRightly` now excepts a deletion beside a request that creates the chat
anew, and the run has that pair. `KnockHeard` failed for a task whose window lost a
knock to failures before the query that succeeded; such a knock leaves `watched`
(`Unheard`), and the deadline of the run is long enough for it.

What the runs check and no theorem states: `RefreshEnds`, `SessionEnds`, `AsksEnd`,
`RequestsEnd`, `CallsReturn` and `NewDelivered`, because liveness is out of the prover's
reach. `EndsInTime` is the part of `SessionEnds` that a safety theorem can state. The
types of every module are proved in its own. The induction theorems of the library take
an operator and cannot be used, but the least element of a set of numbers follows from
the well-foundedness of < (`Least`), which is what the choices of a first failed guard
or a newest row need.

## Not modelled

- `stop()` and the forwarding of the helpers' typing, alias and FaceTime events, which
  the bridge of `main.rs` passes on unchanged.
- Two simultaneous connections of one app (`TCPClient.scheduleReconnect` has two
  callers): `Connect` waits until the app has none.
- The fate of a POST to a webhook.
- Of the lifecycle: logging, directories, the parsing of options and files, and the
  options that do not decide how a start goes on.
- The conversion cache of attachments: files beside the originals.
- The purge of the send cache, which never finds an entry five minutes old because
  handlers end after 300 s.
- Conversions and formats (serializers, typedstream, plist, the encryption of FindMy's
  files), SQL text and the remaining middleware: pure, or I/O with no
  state. Their inputs are bytes, beyond a finite instance.

## Where the project can grow

A theorem for every safety property of the runs is there. The timers of `TCPClient`
would be a second version of `Connect`. The bridge of the helpers' events to the
webhooks could join `EventPipeline`, and the order of its dispatches with those of the
watcher be compared. A larger instance of `Lifecycle` with three
pids (232 000 states before its local data were cut) passes on its own.
