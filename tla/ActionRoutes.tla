---------------------------- MODULE ActionRoutes ----------------------------
(***************************************************************************)
(* The routes that ask the helper for something and are not sends: a check *)
(* against chat.db, one or two actions, sometimes a wait until chat.db     *)
(* shows the result, and what the route does afterwards.  Messages holds   *)
(* the truth (app), chat.db follows it at its own pace (db), and the user  *)
(* acts on Messages directly.  Actions travel to the helper in the order   *)
(* of their writes, over a connection that may be lost.                    *)
(*                                                                         *)
(* The load of a behaviour says what each request asks for and which       *)
(* pieces of Apple's frameworks this macOS lacks.                          *)
(***************************************************************************)
EXTENDS HelperActions, Naturals, SequencesExt

CONSTANTS
    Askers,    \* invocations of the routes
    AskLoads   \* records: asks, from the Askers of a behaviour to routes; lacking, the needs this
               \* macOS cannot meet; parts, of a multipart body; there, the chat to begin with

Attributes == {"chat", "message", "name", "notified", "icon", "read", "typing", "member",
               "shared", "vetted", "alias", "transfers", "downloaded"}

VARIABLES
    load,     \* what is asked for in this behaviour; never changes
    at,       \* at[r]: how far the handler is
    todo,     \* todo[r]: the actions it has still to ask for
    line,     \* the actions in the helper's socket, <<request, action>>
    heard,    \* heard[r]: the outcome of the transaction, once there is one
    app,      \* Messages
    db,       \* chat.db
    base,     \* base[r]: the name chat.db showed when the route checked
    indicated, \* whether AppState.typing_cache holds the chat; there is one
    told,     \* told[r]: what the response says
    applied,  \* history: the requests whose last action was executed in full
    misread,  \* history: the requests that took a failed query for an answer
    untidy    \* history: a typing action overlapped another, failed or was dropped

handlers == <<at, todo, heard, base, indicated, told, misread>>
askVars  == <<load, handlers, line, app, db, applied, untidy>>

Asking == {"acting", "waiting", "scripting", "confirming"}
Over   == {"done", "failed", "dropped"}

-----------------------------------------------------------------------------
(* The routes: what chat.db must show before they act, the actions they    *)
(* ask for, and what chat.db must show before they report success.         *)

Asks(checks, actions, awaits) == [checks |-> checks, actions |-> actions, awaits |-> awaits]

update               == Asks({"chat"}, <<"set-display-name">>, "name")
delete_chat          == Asks({"chat"}, <<"delete-chat">>, "no-chat")
mark_read            == Asks({}, <<"mark-chat-read">>, "nothing")
mark_unread          == Asks({}, <<"mark-chat-unread">>, "nothing")
leave                == Asks({}, <<"leave-chat">>, "nothing")
start_typing         == Asks({}, <<"start-typing">>, "nothing")
stop_typing          == Asks({}, <<"stop-typing">>, "nothing")
set_icon             == Asks({"chat"}, <<"update-group-photo">>, "nothing")
remove_icon          == Asks({"chat"}, <<"update-group-photo">>, "nothing")
share_contact        == Asks({"chat"}, <<"share-nickname">>, "nothing")
delete_message       == Asks({"chat", "message"}, <<"delete-message">>, "nothing")
share_contact_status == Asks({"chat"}, <<"should-offer-nickname-sharing">>, "nothing")
create               == Asks({}, <<"create-chat">>, "message")
create_script        == Asks({}, << >>, "chat")
notify_message       == Asks({"chat", "message"}, <<"notify-anyways">>, "notified")
get_embedded_media   == Asks({"chat", "message"}, <<"balloon-bundle-media-path">>, "nothing")
send_multipart       == Asks({}, <<"send-multipart">>, "nothing")
get_focus_status     == Asks({}, <<"check-focus-status">>, "nothing")
availability(action) == Asks({}, <<action>>, "nothing")
get_account_info     == Asks({}, <<"get-account-info">>, "nothing")
change_alias         == Asks({}, <<"get-account-info", "modify-active-alias">>, "nothing")
get_contact_card     == Asks({}, <<"get-nickname-info">>, "nothing")
leave_call           == Asks({}, <<"leave-call">>, "nothing")
force_download       == Asks({}, <<"download-purged-attachment">>, "downloaded")

\* The sends, edits and participants of MessageRoutes, as far as the helper goes.
sends(action)        == Asks({}, <<action>>, "nothing")

Routes ==
    [update |-> update, delete_chat |-> delete_chat, mark_read |-> mark_read,
     mark_unread |-> mark_unread, leave |-> leave, start_typing |-> start_typing,
     stop_typing |-> stop_typing, set_icon |-> set_icon, remove_icon |-> remove_icon,
     share_contact |-> share_contact, delete_message |-> delete_message,
     share_contact_status |-> share_contact_status, create |-> create,
     create_script |-> create_script, notify_message |-> notify_message,
     get_embedded_media |-> get_embedded_media, send_multipart |-> send_multipart,
     get_focus_status |-> get_focus_status,
     imessage_availability |-> availability("check-imessage-availability"),
     facetime_availability |-> availability("check-facetime-availability"),
     get_account_info |-> get_account_info, change_alias |-> change_alias,
     get_contact_card |-> get_contact_card, leave_call |-> leave_call,
     force_download |-> force_download,
     send_text |-> sends("send-message"), send_reaction |-> sends("send-reaction"),
     send_attachment |-> sends("send-attachment"), edit_message |-> sends("edit-message"),
     unsend_message |-> sends("unsend-message"), query |-> sends("search-messages"),
     add_participant |-> sends("add-participant"), remove_participant |-> sends("remove-participant")]

Asked      == DOMAIN load.asks
Route(r)   == load.asks[r]
Checks(r)  == Routes[Route(r)].checks
Actions(r) == Routes[Route(r)].actions
Awaits(r)  == Routes[Route(r)].awaits

OfTyping   == {"start_typing", "stop_typing", "send_multipart"}

ASSUME AskLoadsAssumption ==
    \A l \in AskLoads :
        /\ DOMAIN l.asks \subseteq Askers /\ l.asks \in [DOMAIN l.asks -> DOMAIN Routes]
        /\ l.there \in {0, 1} /\ IsFiniteSet(l.parts)

\* Routes that fail when the answer lacks an identifier, the message it names, a path
\* or the file at the path.
Particular == {"create", "send_multipart", "get_embedded_media", "send_text", "send_reaction",
               "send_attachment", "edit_message", "unsend_message"}

\* The optional fields of the request's action.
Options(r) == IF Route(r) = "set_icon" THEN {"filePath"} ELSE {}

\* The keys of each part of a multipart body, as the route writes them.
PartKeys(p) == {"partIndex"} \cup p
Parts       == {PartKeys(p) : p \in load.parts}

-----------------------------------------------------------------------------
(* The helper.                                                             *)

Handler(r, a) ==
    LET f == Fields(a) \cup Options(r)
    IN IF a = "leave-call" THEN FaceTimeHandler(a, f) ELSE MessagesHandler(a, f)

\* The needs of the handler that are not met.  create-chat makes its chat.
Missing(r, a) ==
    LET guards == Handler(r, a) IN
    {n \in {guards[i].need : i \in 1 .. Len(guards)} :
        \/ n \in load.lacking
        \/ n \in {"chat", "message"} /\ app[n] = 0 /\ a # "create-chat"
        \/ n \in FieldNames /\ n \notin Fields(a) \cup Options(r) \cup (IF a = "create-chat" THEN OnGuid ELSE {})}

\* What Messages is like when the action is done.
Effect(r, a) ==
    CASE a = "set-display-name"   -> [name |-> 1]
      [] a = "delete-chat"        -> [chat |-> 0]
      [] a = "mark-chat-read"     -> [read |-> 1]
      [] a = "mark-chat-unread"   -> [read |-> 0]
      [] a = "leave-chat"         -> [member |-> 0]
      [] a = "start-typing"       -> [typing |-> 1]
      [] a = "stop-typing"        -> [typing |-> 0]
      [] a = "update-group-photo" -> [icon |-> IF "filePath" \in Options(r) THEN 1 ELSE 0]
      [] a = "share-nickname"     -> [shared |-> 1]
      [] a = "delete-message"     -> [message |-> 0]
      [] a = "create-chat"        -> [chat |-> 1, message |-> 1]
      [] a = "notify-anyways"     -> [notified |-> 1]
      [] a = "modify-active-alias" -> [alias |-> 1]
      [] a = "send-multipart"     -> [transfers |-> Cardinality(Transfers(Parts))]
      [] a = "download-purged-attachment" -> [downloaded |-> 1]
      [] OTHER                    -> << >>

\* Messages with an effect upon it.
After(effect) == [x \in Attributes |-> IF x \in DOMAIN effect THEN effect[x] ELSE app[x]]

-----------------------------------------------------------------------------
(* The beginning and the end of a handler.                                 *)

AskInit ==
    /\ load \in AskLoads
    /\ at = [r \in Askers |-> "idle"] /\ todo = [r \in Askers |-> << >>]
    /\ line = << >> /\ heard = [r \in Askers |-> "nothing"]
    /\ app = [x \in Attributes |-> CASE x \in {"chat", "message"} -> load.there
                                    [] x \in {"member", "vetted"} -> 1
                                    [] OTHER -> 0]
    /\ db = app
    /\ base = [r \in Askers |-> 0] /\ told = [r \in Askers |-> "nothing"]
    /\ indicated = FALSE /\ applied = {} /\ misread = {} /\ untidy = FALSE

End(r, how, what) ==
    /\ at' = [at EXCEPT ![r] = how]
    /\ told' = [told EXCEPT ![r] = what]

\* Input that is not valid, a chat or message that is not there, a query that fails,
\* a helper that is not ready, and then the chat is out of the typing cache already;
\* or a part of a multipart body whose file is missing.
Refuse(r) ==
    /\ at[r] = "idle" \/ (at[r] = "acting" /\ Route(r) = "send_multipart" /\ todo[r] = Actions(r))
    /\ End(r, "failed", "nothing")
    /\ \/ UNCHANGED <<indicated, untidy>>
       \/ /\ at[r] = "idle" /\ Route(r) = "send_multipart" /\ indicated
          /\ indicated' = FALSE /\ untidy' = TRUE
    /\ UNCHANGED <<load, todo, line, heard, app, db, base, applied, misread>>

Passed(r) ==
    /\ \A x \in Checks(r) : db[x] = 1
    /\ Route(r) = "notify_message" => db["notified"] = 0

\* Mutant: a send forgets the indicator it takes out of the cache.
QueueForgetful(r) == Actions(r)

\* A send takes the chat out of the typing cache first and stops its indicator.
Queue(r) ==
    IF Route(r) = "send_multipart" /\ indicated THEN <<"stop-typing", "send-multipart">> ELSE Actions(r)

Begin(r) ==
    /\ at[r] = "idle" /\ Passed(r)
    /\ Route(r) = "update" => db["name"] # 1
    /\ at' = [at EXCEPT ![r] = IF Route(r) = "create_script" THEN "scripting" ELSE "acting"]
    /\ base' = [base EXCEPT ![r] = db["name"]]
    /\ todo' = [todo EXCEPT ![r] = Queue(r)]
    /\ indicated' = (indicated /\ Route(r) # "send_multipart")
    /\ untidy' = (untidy \/ (Route(r) \in OfTyping /\ \E q \in Asked \ {r} :
                                 Route(q) \in OfTyping /\ at[q] \in Asking))
    /\ UNCHANGED <<load, line, heard, app, db, told, applied, misread>>

\* No name is given, or the chat has it already.
Already(r) ==
    /\ at[r] = "idle" /\ Passed(r) /\ Route(r) = "update"
    /\ End(r, "done", "unchanged")
    /\ UNCHANGED <<load, todo, line, heard, app, db, base, indicated, applied, misread, untidy>>

\* send_action: the line is written to the helper's socket, or to a connection that is
\* dead or to none.  A fire-and-forget action succeeds in all three cases.
Ask(r) ==
    /\ at[r] = "acting" /\ todo[r] # << >>
    /\ LET a == Head(todo[r]) IN
          /\ line' \in {line, Append(line, <<r, a>>)}
          /\ untidy' = (untidy \/ (a \in {"start-typing", "stop-typing"} /\ line' = line))
          /\ IF a \in FireAndForgetActions
             THEN todo' = [todo EXCEPT ![r] = Tail(@)] /\ UNCHANGED <<at, heard>>
             ELSE /\ at' = [at EXCEPT ![r] = "waiting"]
                  /\ heard' = [heard EXCEPT ![r] = "nothing"]
                  /\ UNCHANGED todo
    /\ UNCHANGED <<load, app, db, base, indicated, told, applied, misread>>

\* Mutant: an answer with an error counts as an answer.
AnsweredAnyhow(r) ==
    /\ at[r] = "waiting" /\ heard[r] # "nothing"
    /\ at' = [at EXCEPT ![r] = "acting"]
    /\ todo' = [todo EXCEPT ![r] = Tail(@)]
    /\ UNCHANGED <<load, line, heard, app, db, base, indicated, told, applied, misread, untidy>>

Answered(r) ==
    /\ at[r] = "waiting" /\ heard[r] \in {"ok", "unlisted"}
    /\ ~(heard[r] = "unlisted" /\ Route(r) = "change_alias")
    /\ at' = [at EXCEPT ![r] = "acting"]
    /\ todo' = [todo EXCEPT ![r] = Tail(@)]
    /\ UNCHANGED <<load, line, heard, app, db, base, indicated, told, applied, misread, untidy>>

\* An error of the helper; an answer without what the route asked for (an identifier,
\* a path to a file that exists); an alias the account does not have.
Refused(r) ==
    /\ at[r] = "waiting"
    /\ \/ heard[r] = "error"
       \/ heard[r] = "ok" /\ Route(r) \in Particular
       \/ heard[r] = "unlisted" /\ Route(r) = "change_alias"
    /\ IF Route(r) = "get_focus_status" THEN End(r, "done", "unknown") ELSE End(r, "failed", "nothing")
    /\ UNCHANGED <<load, todo, line, heard, app, db, base, indicated, applied, misread, untidy>>

\* Mutant: an answer that never comes is waited for.
ExpireHeard(r) ==
    /\ at[r] = "waiting" /\ heard[r] = "error"
    /\ End(r, "failed", "nothing")
    /\ UNCHANGED <<load, todo, line, heard, app, db, base, indicated, applied, misread, untidy>>

\* No client was connected, or the transaction's 120 s are over.
Expire(r) ==
    /\ at[r] = "waiting" /\ heard[r] \in {"nothing", "silent"}
    /\ IF Route(r) = "get_focus_status" THEN End(r, "done", "unknown") ELSE End(r, "failed", "nothing")
    /\ UNCHANGED <<load, todo, line, heard, app, db, base, indicated, applied, misread, untidy>>

\* What a route does after its actions; mark_read and mark_unread announce the change
\* as EventPipeline has it.
Finish(r) ==
    /\ at[r] = "acting" /\ todo[r] = << >>
    /\ IF Awaits(r) # "nothing"
       THEN at' = [at EXCEPT ![r] = "confirming"] /\ UNCHANGED told
       ELSE End(r, "done", "ok")
    /\ indicated' = CASE Route(r) = "start_typing" -> TRUE
                      [] Route(r) = "stop_typing"  -> FALSE
                      [] OTHER                     -> indicated
    /\ UNCHANGED <<load, todo, line, heard, app, db, base, applied, misread, untidy>>

-----------------------------------------------------------------------------
(* Chats made by AppleScript, and the waits for chat.db.                   *)

\* create_chat of imessage-apple: the script may fail with its chat made or not.
Script(r) ==
    /\ at[r] = "scripting"
    /\ \/ /\ at' = [at EXCEPT ![r] = "confirming"] /\ UNCHANGED told
          /\ app' = After([chat |-> 1, message |-> 1])
          /\ applied' = applied \cup {r}
       \/ /\ End(r, "failed", "nothing")
          /\ app' \in {app, After([chat |-> 1, message |-> 1])}
          /\ UNCHANGED applied
    /\ UNCHANGED <<load, todo, line, heard, db, base, indicated, misread, untidy>>

\* Mutant: any record of the attachment will do.
ShownAny(r) == Route(r) = "force_download" \/ db["chat"] = 0

\* What a poll of the route waits to see.
Shown(r) ==
    CASE Awaits(r) = "name"    -> db["name"] # base[r]
      [] Awaits(r) = "no-chat" -> db["chat"] = 0
      [] OTHER                 -> db[Awaits(r)] = 1

\* The chat of the message found is read in a query of its own.
Poll(r) ==
    /\ at[r] = "confirming" /\ Shown(r)
    /\ IF Route(r) = "create" /\ db["chat"] = 0 THEN End(r, "failed", "nothing") ELSE End(r, "done", "ok")
    /\ UNCHANGED <<load, todo, line, heard, app, db, base, indicated, applied, misread, untidy>>

\* unwrap_or_default: a query that fails returns no chat, which is what the route waits for.
Misread(r) ==
    /\ at[r] = "confirming" /\ Route(r) = "delete_chat"
    /\ End(r, "done", "ok")
    /\ misread' = misread \cup {r}
    /\ UNCHANGED <<load, todo, line, heard, app, db, base, indicated, applied, untidy>>

\* The time is over: a rename returns the record of the last poll, a notification what
\* it has, the others fail.
GiveUp(r) ==
    /\ at[r] = "confirming"
    /\ \/ Route(r) \in {"update", "notify_message"} /\ End(r, "done", "as-is")
       \/ Route(r) # "notify_message" /\ End(r, "failed", "nothing")
    /\ UNCHANGED <<load, todo, line, heard, app, db, base, indicated, applied, misread, untidy>>

\* The client leaves, or the 300 s layer ends the handler, perhaps in the middle of the
\* writes of send_action.
Drop(r) ==
    /\ at[r] \in Asking
    /\ End(r, "dropped", "nothing")
    /\ \/ UNCHANGED line
       \/ at[r] = "acting" /\ todo[r] # << >> /\ line' = Append(line, <<r, Head(todo[r])>>)
    /\ untidy' = (untidy \/ Route(r) \in OfTyping)
    /\ UNCHANGED <<load, todo, heard, app, db, base, indicated, applied, misread>>

-----------------------------------------------------------------------------
(* The helper, its app and the user.                                       *)

\* A handler that skips a part may have done what counts in the others.
Handle ==
    /\ line # << >>
    /\ LET r == Head(line)[1]
           a == Head(line)[2]
           o == Outcome(Handler(r, a), Missing(r, a))
       IN /\ app' \in CASE o = "ok"      -> {After(Effect(r, a))}
                          [] o = "skipped" -> {app, After(Effect(r, a))}
                          [] OTHER         -> {app}
          /\ applied' = IF o = "ok" /\ a = Last(Actions(r))
                        THEN applied \cup {r} ELSE applied
          /\ untidy' = (untidy \/ (a \in {"start-typing", "stop-typing"} /\ o # "ok"))
          /\ heard' = IF at[r] = "waiting" /\ heard[r] = "nothing" /\ a = Head(todo[r])
                      THEN [heard EXCEPT ![r] = CASE o = "skipped" -> "ok"
                                                  [] o = "ok" /\ a = "get-account-info" /\ app["vetted"] = 0
                                                                 -> "unlisted"
                                                  [] OTHER       -> o]
                      ELSE heard
    /\ line' = Tail(line)
    /\ UNCHANGED <<load, at, todo, db, base, indicated, told, misread>>

\* The app dies with what it has not read, and its indicator with it.
Die ==
    /\ line # << >>
    /\ line' = << >>
    /\ app' = [app EXCEPT !["typing"] = 0]
    /\ UNCHANGED <<load, handlers, db, applied, untidy>>

\* The attributes the behaviour is about.
Concerned ==
    UNION {Checks(r) \cup {"chat"} \cup
           UNION {DOMAIN Effect(r, Actions(r)[i]) : i \in 1 .. Len(Actions(r))} : r \in Asked}

\* The user deletes, renames, reads; the account loses an alias.
User ==
    /\ \/ \E x \in {"chat", "message"} \cap Concerned : app[x] = 1 /\ app' = [app EXCEPT ![x] = 0]
       \/ "name" \in Concerned /\ app["name"] # 2 /\ app' = [app EXCEPT !["name"] = 2]
       \/ "read" \in Concerned /\ app["read"] = 0 /\ app' = [app EXCEPT !["read"] = 1]
       \/ "alias" \in Concerned /\ app["vetted"] = 1 /\ app' = [app EXCEPT !["vetted"] = 0]
    /\ UNCHANGED <<load, handlers, line, db, applied, untidy>>

\* Messages writes an attribute to chat.db.
Sync(x) ==
    /\ db[x] # app[x]
    /\ x \in {"chat", "message", "name", "notified", "downloaded"} \cap Concerned
    /\ db' = [db EXCEPT ![x] = app[x]]
    /\ UNCHANGED <<load, handlers, line, app, applied, untidy>>

-----------------------------------------------------------------------------

RouteStep(r) ==
    \/ Ask(r) \/ Answered(r) \/ Refused(r) \/ Expire(r) \/ Finish(r)
    \/ Script(r) \/ Poll(r) \/ Misread(r) \/ GiveUp(r)

AskNext ==
    \/ \E r \in Asked : Refuse(r) \/ Begin(r) \/ Already(r) \/ RouteStep(r) \/ Drop(r)
    \/ Handle \/ Die \/ User
    \/ \E x \in Attributes : Sync(x)

AskFairness == \A r \in Askers : WF_askVars(RouteStep(r))

AskSpec == AskInit /\ [][AskNext]_askVars /\ AskFairness

-----------------------------------------------------------------------------
(* Properties.                                                             *)

AskTypeOK ==
    /\ load \in AskLoads
    /\ at \in [Askers -> Asking \cup Over \cup {"idle"}]
    /\ \A r \in Askers : Len(todo[r]) <= 2
    /\ \A i \in 1 .. Len(line) : line[i][1] \in Asked
    /\ heard \in [Askers -> {"nothing", "ok", "error", "silent", "unlisted"}]
    /\ app \in [Attributes -> Nat] /\ db \in [Attributes -> Nat]
    /\ base \in [Askers -> Nat]
    /\ told \in [Askers -> {"nothing", "ok", "unknown", "unchanged", "as-is"}]
    /\ indicated \in BOOLEAN /\ untidy \in BOOLEAN
    /\ applied \subseteq Asked /\ misread \subseteq Asked

\* A route that reports success of a transaction had its last action executed in full,
\* unless this macOS lacks a selector whose call the handler skips (Soft): no error,
\* timeout, lost connection or dropped handler is taken for success, whatever the user
\* does meanwhile.
OkMeansDone ==
    \A r \in Asked :
        told[r] = "ok" /\ Actions(r) # << >> /\ Last(Actions(r)) \notin FireAndForgetActions
        => \/ r \in applied
           \/ \E i \in 1 .. Len(Handler(r, Last(Actions(r)))) :
                 LET g == Handler(r, Last(Actions(r)))[i]
                 IN g.otherwise = "skipped" /\ g.need \in load.lacking

\* The helper leaves a transaction without an answer only for want of a piece of the
\* frameworks, but for two handlers that say nothing of a message they do not find:
\* every builder sends the fields its handler insists on.
SilenceExplained ==
    \A r \in Asked :
        heard[r] = "silent" => load.lacking # {} \/ Route(r) \in {"notify_message", "get_embedded_media"}

\* An indicator that is on in Messages can be stopped by the next send: the chat is in
\* the typing cache whenever no typing action is under way, unless one was lost, failed,
\* was dropped or overlapped another.
TypingCovered ==
    app["typing"] = 1 /\ ~untidy /\ line = << >>
    /\ (\A r \in Asked : Route(r) \in OfTyping => at[r] \notin Asking) => indicated

\* A chat that is reported deleted is gone from Messages, or the route took a failed
\* query for its absence, or another request makes it; an attachment is reported
\* downloaded only when it is there.
ConfirmedRightly ==
    \A r \in Asked :
        /\ Route(r) = "delete_chat" /\ told[r] = "ok" =>
              app["chat"] = 0 \/ r \in misread \/ \E q \in Asked : Route(q) \in {"create", "create_script"}
        /\ Route(r) = "force_download" /\ told[r] = "ok" => app["downloaded"] = 1

\* Every request ends, whatever the helper does or leaves undone.
AsksEnd == \A r \in Askers : at[r] \in Asking ~> at[r] \in Over
=============================================================================
