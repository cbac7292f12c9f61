------------------------------ MODULE MCServer ------------------------------
(***************************************************************************)
(* Instances for TLC of the modules that share no state: the routes that   *)
(* ask the helper, FindMy's friends, the injection loops with the refresh  *)
(* of FindMy's devices, the FaceTime tasks, the chunks of an upload, and   *)
(* the life of the process.  A behaviour moves one of them, its focus; the *)
(* others rest in their initial states.                                    *)
(***************************************************************************)
EXTENDS ActionRoutes, FindMyFriends, Injection, FaceTimeSession, ChunkUpload,
        Lifecycle

CONSTANTS
    Foci,           \* the modules of a run: "asks", "friends", "injection", "facetime", "uploads", "lifecycle"
    first, second, third, \* invocations of routes
    amy, bob,       \* friends
    messages, findmy, \* apps
    ours, theirs,   \* sessions: of a new link, and of an incoming call
    low, high \* pids

VARIABLE focus

-----------------------------------------------------------------------------
(* ActionRoutes.  One request of each route, on a macOS that has everything *)
(* and on one that lacks one piece its handlers need; and pairs of requests *)
(* that touch the same state.                                              *)

MCPairs ==
    {<<"start_typing", "stop_typing">>, <<"start_typing", "send_multipart">>, <<"update", "update">>,
     <<"delete_chat", "delete_message">>, <<"delete_chat", "mark_read">>, <<"delete_chat", "create">>,
     <<"set_icon", "remove_icon">>, <<"mark_read", "mark_unread">>}

MCNeeds(k) ==
    UNION {LET guards == IF a = "leave-call" THEN FaceTimeHandler(a, Fields(a) \cup {"filePath"})
                         ELSE MessagesHandler(a, Fields(a) \cup {"filePath"})
           IN {guards[i].need : i \in 1 .. Len(guards)} : a \in ToSet(Routes[k].actions)}
    \ (FieldNames \cup {"chat", "message"})

MCLoad(asks, lacking) ==
    [asks |-> asks, lacking |-> lacking, parts |-> {{"text"}, {"attachment", "name"}},
     there |-> IF \E r \in DOMAIN asks : asks[r] \in {"create", "create_script"} THEN 0 ELSE 1]

MCAskLoads ==
    {MCLoad(first :> k, {}) : k \in DOMAIN Routes}
    \cup UNION {{MCLoad(first :> k, {n}) : n \in MCNeeds(k)} : k \in DOMAIN Routes}
    \cup {MCLoad(first :> p[1] @@ second :> p[2], {}) : p \in MCPairs}

-----------------------------------------------------------------------------
(* FindMyFriends.  Two refreshes of one friend; one of two friends; one of  *)
(* a friend without coordinates; and one that finds nobody.                *)

MCParty(sharing, vague, asks, able, fixes) ==
    [sharing |-> sharing, vague |-> vague, asks |-> asks, able |-> able, fixes |-> fixes]

MCParties ==
    {MCParty({amy}, {}, {first, second}, FALSE, 1), MCParty({amy, bob}, {}, {first}, TRUE, 1),
     MCParty({amy}, {amy}, {first}, TRUE, 2), MCParty({}, {}, {first}, TRUE, 0)}

-----------------------------------------------------------------------------
(* Injection: FindMy is launched twice, Messages once.  FaceTimeSession: two *)
(* tasks and one notification; one task and two.                           *)

MCLaunches == (messages :> 1) @@ (findmy :> 2)

MCJoin(who, to) == [who |-> who, to |-> to]
MCJoins == {MCJoin(amy, ours), MCJoin(bob, ours), MCJoin(amy, theirs)}

MCScenes ==
    {[held |-> {ours, theirs}, comers |-> {MCJoin(amy, theirs)}],
     [held |-> {ours}, comers |-> {MCJoin(amy, ours), MCJoin(bob, ours)}]}

-----------------------------------------------------------------------------
(* ChunkUpload: two chunks of which the last is repeated; two names for one *)
(* chunk, and an index that is too large; and a single chunk, repeated.     *)

MCChunk(idx, name, total, final) == [idx |-> idx, name |-> name, total |-> total, final |-> final]

MCDeliveries ==
    {first :> MCChunk(0, "a", 2, FALSE) @@ second :> MCChunk(1, "a", 2, TRUE) @@ third :> MCChunk(1, "a", 2, TRUE),
     first :> MCChunk(0, "a", 2, FALSE) @@ second :> MCChunk(0, "b", 2, TRUE) @@ third :> MCChunk(2, "a", 2, TRUE),
     first :> MCChunk(0, "a", 1, TRUE) @@ second :> MCChunk(0, "a", 1, TRUE)}

-----------------------------------------------------------------------------
(* Lifecycle: two processes at a time, each with any command line, and one  *)
(* pid that another program may take.                                       *)

MCLine(command, config, flags, given) == [command |-> command, config |-> config, flags |-> flags, port |-> given]

MCCommandLines ==
    {MCLine("serve", "none", {}, Unset), MCLine("serve", "none", {"password"}, Unset),
     MCLine("serve", "good", {}, 8080), MCLine("serve", "bad", {}, Unset),
     MCLine("bootstrap", "none", {"socket_port"}, 8080)}

-----------------------------------------------------------------------------
MCInit ==
    /\ focus \in Foci
    /\ AskInit    /\ (focus # "asks"     => load = CHOOSE l \in AskLoads : TRUE)
    /\ FriendInit /\ (focus # "friends"  => party = CHOOSE p \in Parties : TRUE)
    /\ FaceInit   /\ (focus # "facetime" => scene = CHOOSE c \in Scenes : TRUE)
    /\ UploadInit /\ (focus # "uploads"  => delivery = CHOOSE d \in Deliveries : TRUE)
    /\ InjectInit /\ LifeInit

MCNext ==
    /\ UNCHANGED focus
    /\ \/ focus = "asks"      /\ AskNext    /\ UNCHANGED <<friendVars, injectVars, faceVars, uploadVars, lifeVars>>
       \/ focus = "friends"   /\ FriendStep /\ UNCHANGED <<askVars, injectVars, faceVars, uploadVars, lifeVars>>
       \/ focus = "injection" /\ InjectStep /\ UNCHANGED <<askVars, friendVars, faceVars, uploadVars, lifeVars>>
       \/ focus = "facetime"  /\ FaceStep   /\ UNCHANGED <<askVars, friendVars, injectVars, uploadVars, lifeVars>>
       \/ focus = "uploads"   /\ UploadStep /\ UNCHANGED <<askVars, friendVars, injectVars, faceVars, lifeVars>>
       \/ focus = "lifecycle" /\ LifeStep   /\ UNCHANGED <<askVars, friendVars, injectVars, faceVars, uploadVars>>

mcVars == <<focus, askVars, friendVars, injectVars, faceVars, uploadVars, lifeVars>>

\* Initially nothing of what is fair is enabled, so the fairness of a module asks
\* nothing of a behaviour that rests in it.
MCSpec ==
    /\ MCInit /\ [][MCNext]_mcVars
    /\ AskFairness /\ InjectFairness /\ FaceFairness
=============================================================================
