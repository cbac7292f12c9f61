------------------------- MODULE ActionRoutesProofs -------------------------
(***************************************************************************)
(* Proofs about ActionRoutes, for any requests, routes and frameworks.     *)
(***************************************************************************)
EXTENDS ActionRoutes, FiniteSetTheorems, SequenceTheorems, WellFoundedInduction, TLAPS

-----------------------------------------------------------------------------
(* Handlers as sequences of guards.                                        *)

\* The needs that are not pieces of the frameworks: facts about Messages, and fields.
Plain == {"chat", "message"} \cup FieldNames

\* A handler never skips what it was asked to do for want of a plain need, nor falls
\* silent for want of one of Q.
Guarded(guards, Q) ==
    \E S : /\ guards \in Seq(S)
           /\ \A g \in S : /\ g.otherwise \in {"error", "silent", "skipped"}
                           /\ g.otherwise = "skipped" => g.need \notin Plain
                           /\ g.otherwise = "silent" => g.need \notin Q

LEMMA MustGuarded == ASSUME NEW n, NEW Q PROVE Guarded(Must(n), Q)
<1> DEFINE S == {[need |-> n, otherwise |-> "error"]}
<1>1. Must(n) \in Seq(S)
  BY DEF Must
<1>2. \A g \in S : g.otherwise = "error"
  OBVIOUS
<1> HIDE DEF S
<1> QED BY <1>1, <1>2 DEF Guarded

LEMMA HushGuarded == ASSUME NEW n, NEW Q, n \notin Q PROVE Guarded(Hush(n), Q)
<1> DEFINE S == {[need |-> n, otherwise |-> "silent"]}
<1>1. Hush(n) \in Seq(S)
  BY DEF Hush
<1>2. \A g \in S : g.otherwise = "silent" /\ g.need = n
  OBVIOUS
<1> HIDE DEF S
<1> QED BY <1>1, <1>2 DEF Guarded

LEMMA SoftGuarded == ASSUME NEW n, NEW Q, n \notin Plain PROVE Guarded(Soft(n), Q)
<1> DEFINE S == {[need |-> n, otherwise |-> "skipped"]}
<1>1. Soft(n) \in Seq(S)
  BY DEF Soft
<1>2. \A g \in S : g.otherwise = "skipped" /\ g.need = n
  OBVIOUS
<1> HIDE DEF S
<1> QED BY <1>1, <1>2 DEF Guarded

LEMMA NoneGuarded == ASSUME NEW Q PROVE Guarded(<< >>, Q)
<1> DEFINE S == {}
<1>1. << >> \in Seq(S) /\ \A g \in S : FALSE
  OBVIOUS
<1> HIDE DEF S
<1> QED BY <1>1 DEF Guarded

LEMMA BothGuarded ==
  ASSUME NEW front, NEW back, NEW Q, Guarded(front, Q), Guarded(back, Q)
  PROVE  Guarded(front \o back, Q)
<1>1. PICK S : /\ front \in Seq(S)
               /\ \A g \in S : /\ g.otherwise \in {"error", "silent", "skipped"}
                               /\ g.otherwise = "skipped" => g.need \notin Plain
                               /\ g.otherwise = "silent" => g.need \notin Q
  BY DEF Guarded
<1>2. PICK T : /\ back \in Seq(T)
               /\ \A g \in T : /\ g.otherwise \in {"error", "silent", "skipped"}
                               /\ g.otherwise = "skipped" => g.need \notin Plain
                               /\ g.otherwise = "silent" => g.need \notin Q
  BY DEF Guarded
<1>3. front \in Seq(S \cup T) /\ back \in Seq(S \cup T)
  BY <1>1, <1>2
<1>4. front \o back \in Seq(S \cup T)
  BY <1>3
<1> QED BY <1>1, <1>2, <1>4 DEF Guarded

LEMMA Least == ASSUME NEW S \in SUBSET Nat, S # {} PROVE \E m \in S : \A k \in S : m <= k
<1>1. PICK m \in S : \A k \in S : ~ <<k, m>> \in OpToRel(<, Nat)
  BY NatLessThanWellFounded, WFMin, Zenon
<1>2. ASSUME NEW k \in S PROVE m <= k
  <2>1. ~ (<<k, m>> \in Nat \X Nat /\ k < m)
    BY <1>1, Zenon DEF OpToRel
  <2> QED BY <2>1
<1> QED BY <1>2

\* The outcome is that of a guard that fails.
LEMMA OutcomeOf ==
  ASSUME NEW guards, NEW Q, Guarded(guards, Q), NEW missing
  PROVE  \/ Outcome(guards, missing) = "ok"
         \/ \E i \in 1 .. Len(guards) : /\ guards[i].need \in missing
                                        /\ Outcome(guards, missing) = guards[i].otherwise
                                        /\ guards[i].otherwise \in {"error", "silent", "skipped"}
                                        /\ guards[i].otherwise = "skipped" => guards[i].need \notin Plain
                                        /\ guards[i].otherwise = "silent" => guards[i].need \notin Q
<1> DEFINE failed == {i \in DOMAIN guards : guards[i].need \in missing}
           ending == {i \in failed : guards[i].otherwise # "skipped"}
           first  == CHOOSE i \in ending : \A j \in ending : i <= j
<1>1. PICK S : /\ guards \in Seq(S)
               /\ \A g \in S : /\ g.otherwise \in {"error", "silent", "skipped"}
                               /\ g.otherwise = "skipped" => g.need \notin Plain
                               /\ g.otherwise = "silent" => g.need \notin Q
  BY DEF Guarded
<1>2. CASE failed = {}
  BY <1>2 DEF Outcome
<1>3. CASE failed # {} /\ ending = {}
  <2>1. PICK i \in failed : guards[i].otherwise = "skipped"
    BY <1>3
  <2>2. i \in 1 .. Len(guards) /\ guards[i] \in S /\ guards[i].need \in missing
    BY <1>1, <2>1
  <2>3. Outcome(guards, missing) = "skipped"
    BY <1>3 DEF Outcome
  <2> QED BY <1>1, <2>1, <2>2, <2>3
<1>4. CASE failed # {} /\ ending # {}
  <2>1. ending \in SUBSET Nat /\ ending # {}
    BY <1>1, <1>4
  <2>2. \E i \in ending : \A j \in ending : i <= j
    BY <2>1, Least
  <2>3. first \in ending
    BY <2>2
  <2>4. Outcome(guards, missing) = guards[first].otherwise
    BY <1>4 DEF Outcome
  <2> HIDE DEF first
  <2>5. first \in 1 .. Len(guards) /\ guards[first] \in S /\ guards[first].need \in missing
    BY <1>1, <2>3
  <2> QED BY <1>1, <2>4, <2>5
<1> QED BY <1>2, <1>3, <1>4

-----------------------------------------------------------------------------
(* The handlers, one by one.  Only some of those about a message fall       *)
(* silent for want of a plain need.                                        *)

\* Pieces of the frameworks for want of which a handler is silent or skips its work.
Pieces ==
    {"IMMessage", "message initializer", "reaction initializer", "sendMessage", "item", "part",
     "retractMessagePart", "deleteChatItems", "markChatItemAsNotifyRecipient", "an answer", "registry",
     "retargetTransfer", "registerTransferWithDaemon", "acceptTransfer", "_setDisplayName",
     "leave or leaveiMessageGroup", "_chat_remove", "IMPinnedConversationsController",
     "pinned identifiers", "setPinned",
     "sendGroupPhotoUpdate", "setLocalUserIsTyping", "markAllMessagesAsRead", "markLastMessageAsUnread",
     "plugin item", "data source", "generator", "setDisplayName", "shouldOffer", "IMNicknameController",
     "allowHandles", "answerOrJoinCall", "disconnectCall", "a case", "pendingMembers", "approve selector",
     "links", "invalidate selector"}

LEMMA PiecesApart == \A n \in Pieces : n \notin Plain
<1> SUFFICES ASSUME NEW n \in Plain PROVE n \notin Pieces
  OBVIOUS
<1>1. n \in FieldNames \cup {"chat", "message"}
  BY DEF Plain
<1> QED BY <1>1 DEF Pieces, FieldNames

LEMMA PieceGuarded ==
  ASSUME NEW Q \in SUBSET Plain, NEW n \in Pieces
  PROVE  Guarded(Hush(n), Q) /\ Guarded(Soft(n), Q)
<1>1. n \notin Plain /\ n \notin Q
  BY PiecesApart
<1> QED BY <1>1, HushGuarded, SoftGuarded

LEMMA GetChatGuarded == ASSUME NEW Q PROVE Guarded(GetChat, Q)
BY MustGuarded, BothGuarded, Zenon DEF GetChat

LEMMA TransferGuarded == ASSUME NEW Q \in SUBSET Plain PROVE Guarded(PrepareFileTransfer, Q)
<1>1. Guarded(Soft("retargetTransfer"), Q) /\ Guarded(Soft("registerTransferWithDaemon"), Q)
  BY PieceGuarded DEF Pieces
<1>2. \A n : Guarded(Must(n), Q)
  BY MustGuarded
<1>3. \A x, y : Guarded(x, Q) /\ Guarded(y, Q) => Guarded(x \o y, Q)
  BY BothGuarded
<1> QED BY <1>1, <1>2, <1>3, Zenon DEF PrepareFileTransfer

LEMMA TapbackGuarded ==
  ASSUME NEW Q \in SUBSET Plain, NEW off
  PROVE  Guarded(EmojiTapback, Q) /\ Guarded(StickerTapback(off), Q)
<1>1. Guarded(SendTapback, Q)
  BY MustGuarded, BothGuarded, Zenon DEF SendTapback
<1>2. Guarded(EmojiTapback, Q)
  BY <1>1, MustGuarded, BothGuarded, Zenon DEF EmojiTapback
<1>3. Guarded(IF off THEN << >> ELSE PrepareFileTransfer, Q)
  BY TransferGuarded, NoneGuarded
<1>4. Guarded(StickerTapback(off), Q)
  BY <1>1, <1>3, MustGuarded, BothGuarded, Zenon DEF StickerTapback
<1> QED BY <1>2, <1>4

LEMMA SendMessageGuarded == ASSUME NEW Q \in SUBSET Plain, NEW f PROVE Guarded(SendMessage(f), Q)
<1> DEFINE plain    == CreateAndSend("message initializer")
           reaction == CreateAndSend("reaction initializer")
           tapback == IF "reactionType" \notin f THEN plain
                      ELSE IF "emoji" \in f THEN EmojiTapback
                      ELSE IF "stickerPath" \in f THEN StickerTapback("removal" \in f)
                      ELSE reaction
           rest == IF "selectedMessageGuid" \notin f THEN plain ELSE Must("message") \o tapback
<1>1. Guarded(plain, Q) /\ Guarded(reaction, Q)
  <2>1. /\ Guarded(Hush("IMMessage"), Q) /\ Guarded(Soft("sendMessage"), Q)
        /\ Guarded(Soft("message initializer"), Q) /\ Guarded(Soft("reaction initializer"), Q)
    BY PieceGuarded DEF Pieces
  <2> QED BY <2>1, BothGuarded, Zenon DEF CreateAndSend
<1> HIDE DEF plain, reaction
<1>2. Guarded(tapback, Q)
  <2>1. Guarded(EmojiTapback, Q) /\ Guarded(StickerTapback("removal" \in f), Q)
    BY TapbackGuarded
  <2>2. tapback \in {plain, reaction, EmojiTapback, StickerTapback("removal" \in f)}
    OBVIOUS
  <2> QED BY <1>1, <2>1, <2>2
<1> HIDE DEF tapback
<1>3. Guarded(rest, Q)
  <2>1. Guarded(Must("message") \o tapback, Q)
    BY <1>2, MustGuarded, BothGuarded, Zenon
  <2>2. rest \in {plain, Must("message") \o tapback}
    OBVIOUS
  <2> QED BY <1>1, <2>1, <2>2
<1>4. SendMessage(f) = GetChat \o rest
  BY DEF SendMessage, tapback, plain, reaction
<1> HIDE DEF rest
<1>5. Guarded(GetChat \o rest, Q)
  BY <1>3, GetChatGuarded, BothGuarded, Zenon
<1> QED BY <1>4, <1>5

LEMMA MessagesGuarded ==
  ASSUME NEW a, NEW f, NEW Q \in SUBSET Plain,
         a \in {"edit-message", "unsend-message", "delete-message", "notify-anyways", "balloon-bundle-media-path"}
            => "messageGuid" \notin Q,
         a \in {"notify-anyways", "balloon-bundle-media-path"} => "message" \notin Q /\ "url" \notin Q,
         a = "check-typing-status" => "chatGuid" \notin Q /\ "chat" \notin Q,
         a = "send-multipart" => "parts" \notin Q
  PROVE  Guarded(MessagesHandler(a, f), Q)
<1>1. \A n \in Pieces : Guarded(Hush(n), Q) /\ Guarded(Soft(n), Q)
  BY PieceGuarded
<1>2. \A n : Guarded(Must(n), Q)
  BY MustGuarded
<1>3. \A x, y : Guarded(x, Q) /\ Guarded(y, Q) => Guarded(x \o y, Q)
  BY BothGuarded
<1>4. Guarded(GetChat, Q) /\ Guarded(PrepareFileTransfer, Q) /\ \A g : Guarded(SendMessage(g), Q)
  BY GetChatGuarded, TransferGuarded, SendMessageGuarded
<1>5. /\ Guarded(OnChat("setLocalUserIsTyping"), Q) /\ Guarded(OnChat("markAllMessagesAsRead"), Q)
      /\ Guarded(OnChat("markLastMessageAsUnread"), Q) /\ Guarded(SetDisplayName, Q) /\ Guarded(LeaveChat, Q)
  <2>1. \A n \in Pieces : Guarded(OnChat(n), Q)
    BY <1>1, <1>3, <1>4, Zenon DEF OnChat
  <2> QED BY <1>2, <1>3, <2>1 DEF Pieces, SetDisplayName, LeaveChat
<1>6. /\ Guarded(UpdateChatPinned, Q) /\ Guarded(DeleteChat, Q) /\ Guarded(AddParticipant, Q)
      /\ Guarded(RemoveParticipant, Q) /\ Guarded(CreateChat(f), Q)
  <2>1. Guarded(UpdateChatPinned, Q) /\ Guarded(DeleteChat, Q)
    BY <1>1, <1>2, <1>3, <1>4, Zenon DEF Pieces, UpdateChatPinned, DeleteChat
  <2>2. Guarded(AddParticipant, Q) /\ Guarded(RemoveParticipant, Q)
    BY <1>2, <1>3, <1>4, Zenon DEF AddParticipant, RemoveParticipant, Invite
  <2>3. Guarded(CreateChat(f), Q)
    BY <1>2, <1>3, <1>4, Zenon DEF CreateChat
  <2> QED BY <2>1, <2>2, <2>3
<1>7. a \in {"edit-message", "unsend-message", "delete-message"} =>
         Guarded(EditMessage, Q) /\ Guarded(UnsendMessage, Q) /\ Guarded(DeleteMessage, Q)
  <2> SUFFICES ASSUME a \in {"edit-message", "unsend-message", "delete-message"}
               PROVE  Guarded(EditMessage, Q) /\ Guarded(UnsendMessage, Q) /\ Guarded(DeleteMessage, Q)
    OBVIOUS
  <2>1. Guarded(Hush("messageGuid"), Q)
    BY HushGuarded
  <2> QED BY <1>1, <1>2, <1>3, <1>4, <2>1, Zenon DEF Pieces, EditMessage, UnsendMessage, DeleteMessage
<1>8. a \in {"notify-anyways", "balloon-bundle-media-path"} =>
         Guarded(NotifyAnyways, Q) /\ Guarded(BalloonBundleMediaPath, Q)
  <2> SUFFICES ASSUME a \in {"notify-anyways", "balloon-bundle-media-path"}
               PROVE  Guarded(NotifyAnyways, Q) /\ Guarded(BalloonBundleMediaPath, Q)
    OBVIOUS
  <2>1. Guarded(Hush("messageGuid"), Q) /\ Guarded(Hush("message"), Q) /\ Guarded(Hush("url"), Q)
    BY HushGuarded
  <2> QED BY <1>1, <1>2, <1>3, <1>4, <2>1, Zenon DEF Pieces, NotifyAnyways, BalloonBundleMediaPath
<1>9. a = "send-multipart" => Guarded(SendMultipart(f), Q)
  <2> SUFFICES ASSUME a = "send-multipart" PROVE Guarded(SendMultipart(f), Q)
    OBVIOUS
  <2>1. Guarded(Hush("parts"), Q)
    BY HushGuarded
  <2> QED BY <1>3, <1>4, <2>1, Zenon DEF SendMultipart
<1>10. /\ Guarded(SearchMessages, Q) /\ Guarded(SendAttachment(f), Q) /\ Guarded(UpdateGroupPhoto(f), Q)
       /\ Guarded(DownloadPurgedAttachment, Q)
  <2>1. Guarded(SearchMessages, Q) /\ Guarded(SendAttachment(f), Q) /\ Guarded(DownloadPurgedAttachment, Q)
    BY <1>1, <1>2, <1>3, <1>4, Zenon DEF Pieces, SearchMessages, SendAttachment, DownloadPurgedAttachment
  <2>2. Guarded(IF "filePath" \in f THEN PrepareFileTransfer ELSE << >>, Q)
    BY <1>4, NoneGuarded
  <2>3. Guarded(UpdateGroupPhoto(f), Q)
    BY <1>1, <1>3, <1>4, <2>2, Zenon DEF Pieces, UpdateGroupPhoto
  <2> QED BY <2>1, <2>3
<1>11. /\ Guarded(CheckFocusStatus, Q) /\ Guarded(CheckAvailability, Q) /\ Guarded(GetAccountInfo, Q)
       /\ Guarded(ModifyActiveAlias, Q)
  BY <1>1, <1>2, <1>3, Zenon DEF Pieces, CheckFocusStatus, CheckAvailability, GetAccountInfo, ModifyActiveAlias
<1>12. /\ Guarded(ShouldOfferNicknameSharing, Q) /\ Guarded(ShareNickname, Q) /\ Guarded(GetNicknameInfo(f), Q)
  <2>1. Guarded(IF "address" \in f THEN Must("handle") ELSE << >>, Q)
    BY <1>2, NoneGuarded
  <2> QED BY <1>1, <1>2, <1>3, <1>4, <2>1, Zenon DEF Pieces, ShouldOfferNicknameSharing, ShareNickname, GetNicknameInfo
<1>13. a = "check-typing-status" => Guarded(CheckTypingStatus, Q)
  <2> SUFFICES ASSUME a = "check-typing-status" PROVE Guarded(CheckTypingStatus, Q)
    OBVIOUS
  <2>1. Guarded(Hush("chatGuid"), Q) /\ Guarded(Hush("chat"), Q)
    BY HushGuarded
  <2> QED BY <1>1, <1>3, <2>1, Zenon DEF Pieces, CheckTypingStatus
<1>14. Guarded(Hush("a case"), Q)
  BY <1>1 DEF Pieces
<1> QED BY <1>4, <1>5, <1>6, <1>7, <1>8, <1>9, <1>10, <1>11, <1>12, <1>13, <1>14 DEF MessagesHandler

LEMMA FaceTimeGuarded ==
  ASSUME NEW a, NEW f, NEW Q \in SUBSET Plain
  PROVE  Guarded(FaceTimeHandler(a, f), Q)
<1>1. \A n \in Pieces : Guarded(Hush(n), Q) /\ Guarded(Soft(n), Q)
  BY PieceGuarded
<1>2. \A n : Guarded(Must(n), Q)
  BY MustGuarded
<1>3. \A x, y : Guarded(x, Q) /\ Guarded(y, Q) => Guarded(x \o y, Q)
  BY BothGuarded
<1>4. Guarded(AnswerCall, Q) /\ Guarded(LeaveCall, Q)
  BY <1>1, <1>2, <1>3, Zenon DEF Pieces, AnswerCall, LeaveCall, OnCall
<1>5. Guarded(GenerateLink(f), Q)
  <2>1. Guarded(IF "callUUID" \in f THEN Must("call") \o Must("conversation") ELSE << >>, Q)
    BY <1>2, <1>3, NoneGuarded
  <2> QED BY <1>2, <1>3, <2>1, Zenon DEF GenerateLink
<1>6. Guarded(AdmitPendingMember, Q) /\ Guarded(GetActiveLinks, Q) /\ Guarded(InvalidateLink, Q)
  BY <1>1, <1>2, <1>3, Zenon DEF Pieces, AdmitPendingMember, GetActiveLinks, InvalidateLink
<1>7. Guarded(Hush("a case"), Q)
  BY <1>1 DEF Pieces
<1> QED BY <1>4, <1>5, <1>6, <1>7 DEF FaceTimeHandler


-----------------------------------------------------------------------------
(* The routes.                                                             *)

RouteNames ==
    {"update", "delete_chat", "mark_read", "mark_unread", "leave", "start_typing", "stop_typing",
     "set_icon", "remove_icon", "share_contact", "delete_message", "share_contact_status",
     "create", "create_script", "notify_message", "get_embedded_media", "send_multipart",
     "get_focus_status", "imessage_availability", "facetime_availability", "get_account_info",
     "change_alias", "get_contact_card", "leave_call", "force_download", "send_text",
     "send_reaction", "send_attachment", "edit_message", "unsend_message", "query",
     "add_participant", "remove_participant"}

LEMMA RouteDomain == DOMAIN Routes = RouteNames
BY Zenon DEF Routes, RouteNames

\* What each route asks of the helper.
LEMMA RouteActions ==
  ASSUME NEW k \in DOMAIN Routes
  PROVE  \/ k = "create_script" /\ Routes[k].actions = << >>
         \/ k = "change_alias" /\ Routes[k].actions = <<"get-account-info", "modify-active-alias">>
         \/ \E a : /\ Routes[k].actions = <<a>> /\ k \notin {"create_script", "change_alias"}
                   /\ (a = "start-typing") <=> (k = "start_typing")
                   /\ (a = "stop-typing") <=> (k = "stop_typing")
                   /\ a = "create-chat" => k = "create"
                   /\ a = "notify-anyways" => k = "notify_message"
                   /\ a = "balloon-bundle-media-path" => k = "get_embedded_media"
                   /\ a # "check-typing-status"
                   /\ k = "send_multipart" => a = "send-multipart"
<1>1. Routes["update"].actions = <<"set-display-name">>
  BY DEF Routes, update, Asks
<1>2. Routes["delete_chat"].actions = <<"delete-chat">>
  BY DEF Routes, delete_chat, Asks
<1>3. Routes["mark_read"].actions = <<"mark-chat-read">>
  BY DEF Routes, mark_read, Asks
<1>4. Routes["mark_unread"].actions = <<"mark-chat-unread">>
  BY DEF Routes, mark_unread, Asks
<1>5. Routes["leave"].actions = <<"leave-chat">>
  BY DEF Routes, leave, Asks
<1>6. Routes["start_typing"].actions = <<"start-typing">>
  BY DEF Routes, start_typing, Asks
<1>7. Routes["stop_typing"].actions = <<"stop-typing">>
  BY DEF Routes, stop_typing, Asks
<1>8. Routes["set_icon"].actions = <<"update-group-photo">>
  BY DEF Routes, set_icon, Asks
<1>9. Routes["remove_icon"].actions = <<"update-group-photo">>
  BY DEF Routes, remove_icon, Asks
<1>10. Routes["share_contact"].actions = <<"share-nickname">>
  BY DEF Routes, share_contact, Asks
<1>11. Routes["delete_message"].actions = <<"delete-message">>
  BY DEF Routes, delete_message, Asks
<1>12. Routes["share_contact_status"].actions = <<"should-offer-nickname-sharing">>
  BY DEF Routes, share_contact_status, Asks
<1>13. Routes["create"].actions = <<"create-chat">>
  BY DEF Routes, create, Asks
<1>14. Routes["create_script"].actions = << >>
  BY DEF Routes, create_script, Asks
<1>15. Routes["notify_message"].actions = <<"notify-anyways">>
  BY DEF Routes, notify_message, Asks
<1>16. Routes["get_embedded_media"].actions = <<"balloon-bundle-media-path">>
  BY DEF Routes, get_embedded_media, Asks
<1>17. Routes["send_multipart"].actions = <<"send-multipart">>
  BY DEF Routes, send_multipart, Asks
<1>18. Routes["get_focus_status"].actions = <<"check-focus-status">>
  BY DEF Routes, get_focus_status, Asks
<1>19. Routes["imessage_availability"].actions = <<"check-imessage-availability">>
  BY DEF Routes, availability, Asks
<1>20. Routes["facetime_availability"].actions = <<"check-facetime-availability">>
  BY DEF Routes, availability, Asks
<1>21. Routes["get_account_info"].actions = <<"get-account-info">>
  BY DEF Routes, get_account_info, Asks
<1>22. Routes["change_alias"].actions = <<"get-account-info", "modify-active-alias">>
  BY DEF Routes, change_alias, Asks
<1>23. Routes["get_contact_card"].actions = <<"get-nickname-info">>
  BY DEF Routes, get_contact_card, Asks
<1>24. Routes["leave_call"].actions = <<"leave-call">>
  BY DEF Routes, leave_call, Asks
<1>25. Routes["force_download"].actions = <<"download-purged-attachment">>
  BY DEF Routes, force_download, Asks
<1>26. Routes["send_text"].actions = <<"send-message">>
  BY DEF Routes, sends, Asks
<1>27. Routes["send_reaction"].actions = <<"send-reaction">>
  BY DEF Routes, sends, Asks
<1>28. Routes["send_attachment"].actions = <<"send-attachment">>
  BY DEF Routes, sends, Asks
<1>29. Routes["edit_message"].actions = <<"edit-message">>
  BY DEF Routes, sends, Asks
<1>30. Routes["unsend_message"].actions = <<"unsend-message">>
  BY DEF Routes, sends, Asks
<1>31. Routes["query"].actions = <<"search-messages">>
  BY DEF Routes, sends, Asks
<1>32. Routes["add_participant"].actions = <<"add-participant">>
  BY DEF Routes, sends, Asks
<1>33. Routes["remove_participant"].actions = <<"remove-participant">>
  BY DEF Routes, sends, Asks
<1> QED BY <1>1, <1>2, <1>3, <1>4, <1>5, <1>6, <1>7, <1>8, <1>9, <1>10, <1>11, <1>12, <1>13, <1>14, <1>15,
           <1>16, <1>17, <1>18, <1>19, <1>20, <1>21, <1>22, <1>23, <1>24, <1>25, <1>26, <1>27, <1>28,
           <1>29, <1>30, <1>31, <1>32, <1>33, RouteDomain DEF RouteNames

LEMMA RouteAwaits ==
  /\ Routes["delete_chat"].awaits = "no-chat" /\ Routes["force_download"].awaits = "downloaded"
  /\ Routes["create_script"].awaits # "nothing"
BY DEF Routes, delete_chat, force_download, create_script, Asks

-----------------------------------------------------------------------------
(* Handlers meet their requests.                                           *)

\* The actions whose handlers say nothing of a chat or a message they do not find.
Terse == {"notify-anyways", "balloon-bundle-media-path", "check-typing-status"}

\* The plain needs a request may fail to meet: of its builder's fields none is amiss.
Wanting(r, a) ==
    IF a \in Terse THEN {}
    ELSE {"chat", "message"} \cup
         (FieldNames \ (Fields(a) \cup Options(r) \cup (IF a = "create-chat" THEN OnGuid ELSE {})))

LEMMA MessageFieldsSent ==
  /\ \A a \in {"edit-message", "unsend-message", "delete-message"} : "messageGuid" \in Fields(a)
  /\ "parts" \in Fields("send-multipart")
BY DEF Fields, MessageFields

LEMMA HandlerGuarded == ASSUME NEW r, NEW a PROVE Guarded(Handler(r, a), Wanting(r, a))
<1>1. Wanting(r, a) \in SUBSET Plain
  BY DEF Wanting, Plain
<1>2. CASE a = "leave-call"
  BY <1>1, <1>2, FaceTimeGuarded DEF Handler
<1>3. CASE a # "leave-call"
  <2>1. a \in {"edit-message", "unsend-message", "delete-message"} => "messageGuid" \notin Wanting(r, a)
    BY MessageFieldsSent DEF Wanting
  <2>2. a = "send-multipart" => "parts" \notin Wanting(r, a)
    BY MessageFieldsSent DEF Wanting
  <2>3. a \in Terse => Wanting(r, a) = {}
    BY DEF Wanting
  <2>4. Guarded(MessagesHandler(a, Fields(a) \cup Options(r)), Wanting(r, a))
    BY <1>1, <2>1, <2>2, <2>3, MessagesGuarded DEF Terse
  <2> QED BY <1>3, <2>4 DEF Handler
<1> QED BY <1>2, <1>3

\* How a handler ends: done; skipped, for want of a piece of the frameworks; or silent,
\* for want of one, but for the two.
Skippable(r, a) ==
    \E i \in 1 .. Len(Handler(r, a)) :
        LET g == Handler(r, a)[i] IN g.otherwise = "skipped" /\ g.need \in load.lacking

LEMMA HandlerEnds ==
  ASSUME NEW r, NEW a
  PROVE  LET o == Outcome(Handler(r, a), Missing(r, a)) IN
         /\ o \in {"ok", "error", "silent", "skipped"}
         /\ o = "skipped" => Skippable(r, a)
         /\ o = "silent" => load.lacking # {} \/ a \in Terse
<1> DEFINE guards == Handler(r, a)
           o == Outcome(guards, Missing(r, a))
<1>1. \A n \in Missing(r, a) :
         n \in load.lacking \/ (n \in Plain /\ (a \notin Terse => n \in Wanting(r, a)))
  BY DEF Missing, Wanting, Plain
<1>2. Guarded(guards, Wanting(r, a))
  BY HandlerGuarded
<1> HIDE DEF guards
<1>3. CASE o = "ok"
  BY <1>3 DEF guards
<1>4. CASE o # "ok"
  <2>1. PICK i \in 1 .. Len(guards) :
               /\ guards[i].need \in Missing(r, a)
               /\ o = guards[i].otherwise
               /\ guards[i].otherwise \in {"error", "silent", "skipped"}
               /\ guards[i].otherwise = "skipped" => guards[i].need \notin Plain
               /\ guards[i].otherwise = "silent" => guards[i].need \notin Wanting(r, a)
    BY <1>2, <1>4, OutcomeOf
  <2>2. o = "skipped" => Skippable(r, a)
    BY <1>1, <2>1 DEF Skippable, guards
  <2>3. o = "silent" => load.lacking # {} \/ a \in Terse
    BY <1>1, <2>1
  <2> QED BY <2>1, <2>2, <2>3 DEF guards
<1> QED BY <1>3, <1>4


-----------------------------------------------------------------------------
(* What a request has still to ask for, and what is on its way.            *)

Plans(r) ==
    CASE Route(r) = "send_multipart" -> {<< >>, <<"send-multipart">>, <<"stop-typing", "send-multipart">>}
      [] Route(r) = "change_alias"   -> {<< >>, <<"modify-active-alias">>,
                                         <<"get-account-info", "modify-active-alias">>}
      [] OTHER                       -> {<< >>, Actions(r)}

Named(r) == {Actions(r)[i] : i \in 1 .. Len(Actions(r))} \cup {"stop-typing"}

Sent == {p \in Asked \X UNION {Named(r) : r \in Asked} : p[2] \in Named(p[1])}

LEMMA Loaded ==
  ASSUME load \in AskLoads
  PROVE  /\ Asked \subseteq Askers /\ load.there \in {0, 1} /\ IsFiniteSet(load.parts)
         /\ \A r \in Asked : Route(r) \in DOMAIN Routes
BY AskLoadsAssumption DEF Asked, Route

\* The actions of a request of this load.
LEMMA ActionsOf ==
  ASSUME load \in AskLoads, NEW r \in Asked
  PROVE  \/ Route(r) = "create_script" /\ Actions(r) = << >>
         \/ Route(r) = "change_alias" /\ Actions(r) = <<"get-account-info", "modify-active-alias">>
         \/ \E a : /\ Actions(r) = <<a>> /\ Route(r) \notin {"create_script", "change_alias"}
                   /\ (a = "start-typing") <=> (Route(r) = "start_typing")
                   /\ (a = "stop-typing") <=> (Route(r) = "stop_typing")
                   /\ a = "create-chat" => Route(r) = "create"
                   /\ a = "notify-anyways" => Route(r) = "notify_message"
                   /\ a = "balloon-bundle-media-path" => Route(r) = "get_embedded_media"
                   /\ a # "check-typing-status"
                   /\ Route(r) = "send_multipart" => a = "send-multipart"
BY Loaded, RouteActions DEF Actions

LEMMA NamedOf ==
  ASSUME load \in AskLoads, NEW r \in Asked, NEW a \in Named(r)
  PROVE  /\ a = "create-chat" => Route(r) = "create"
         /\ a = "notify-anyways" => Route(r) = "notify_message"
         /\ a = "balloon-bundle-media-path" => Route(r) = "get_embedded_media"
         /\ a # "check-typing-status"
<1>1. CASE Actions(r) = << >>
  BY <1>1 DEF Named
<1>2. CASE Actions(r) = <<"get-account-info", "modify-active-alias">>
  <2>1. a \in {"get-account-info", "modify-active-alias", "stop-typing"}
    BY <1>2 DEF Named
  <2> QED BY <2>1
<1>3. ASSUME NEW b, Actions(r) = <<b>>, b = "create-chat" => Route(r) = "create",
             b = "notify-anyways" => Route(r) = "notify_message",
             b = "balloon-bundle-media-path" => Route(r) = "get_embedded_media",
             b # "check-typing-status"
      PROVE  /\ a = "create-chat" => Route(r) = "create"
             /\ a = "notify-anyways" => Route(r) = "notify_message"
             /\ a = "balloon-bundle-media-path" => Route(r) = "get_embedded_media"
             /\ a # "check-typing-status"
  <2>1. a \in {b, "stop-typing"}
    BY <1>3 DEF Named
  <2> QED BY <1>3, <2>1
<1> QED BY <1>1, <1>2, <1>3, ActionsOf

\* A plan is followed one action at a time, to the last of the route.
LEMMA PlanOf ==
  ASSUME load \in AskLoads, NEW r \in Asked, NEW p \in Plans(r)
  PROVE  /\ Len(p) <= 2
         /\ p # << >> =>
              /\ Tail(p) \in Plans(r) /\ Head(p) \in Named(r) /\ Actions(r) # << >>
              /\ Tail(p) = << >> => Head(p) = Last(Actions(r))
              /\ Head(p) = "start-typing" => Route(r) = "start_typing" /\ Tail(p) = << >>
              /\ Head(p) = "stop-typing" =>
                    \/ Route(r) = "stop_typing" /\ Tail(p) = << >>
                    \/ Route(r) = "send_multipart" /\ Tail(p) = <<"send-multipart">>
              /\ Route(r) = "send_multipart" => Head(p) \in {"stop-typing", "send-multipart"}
              /\ Route(r) \in {"start_typing", "stop_typing"} => Head(p) = Last(Actions(r))
<1>1. CASE Route(r) = "send_multipart"
  <2>1. Actions(r) = <<"send-multipart">>
    BY <1>1, ActionsOf
  <2>2. "send-multipart" \in Named(r) /\ "stop-typing" \in Named(r) /\ Last(Actions(r)) = "send-multipart"
    BY <2>1 DEF Named, Last
  <2>3. CASE p = << >>
    BY <2>3
  <2>4. CASE p = <<"send-multipart">>
    BY <1>1, <2>1, <2>2, <2>4 DEF Plans
  <2>5. CASE p = <<"stop-typing", "send-multipart">>
    BY <1>1, <2>1, <2>2, <2>5 DEF Plans
  <2> QED BY <1>1, <2>3, <2>4, <2>5 DEF Plans
<1>2. CASE Route(r) = "change_alias"
  <2>1. Actions(r) = <<"get-account-info", "modify-active-alias">>
    BY <1>2, ActionsOf
  <2>2. /\ "get-account-info" \in Named(r) /\ "modify-active-alias" \in Named(r)
        /\ Last(Actions(r)) = "modify-active-alias"
    BY <2>1 DEF Named, Last
  <2>3. CASE p = << >>
    BY <2>3
  <2>4. CASE p = <<"modify-active-alias">>
    BY <1>2, <2>1, <2>2, <2>4 DEF Plans
  <2>5. CASE p = <<"get-account-info", "modify-active-alias">>
    BY <1>2, <2>1, <2>2, <2>5 DEF Plans
  <2> QED BY <1>2, <2>3, <2>4, <2>5 DEF Plans
<1>3. CASE Route(r) \notin {"send_multipart", "change_alias"}
  <2>1. Plans(r) = {<< >>, Actions(r)}
    BY <1>3 DEF Plans
  <2>2. CASE p = << >>
    BY <2>2
  <2>3. CASE p # << >>
    <3>1. p = Actions(r)
      BY <2>1, <2>3
    <3>2. PICK a : /\ p = <<a>>
                   /\ (a = "start-typing") <=> (Route(r) = "start_typing")
                   /\ (a = "stop-typing") <=> (Route(r) = "stop_typing")
      BY <1>3, <2>3, <3>1, ActionsOf
    <3>3. Tail(p) = << >> /\ Head(p) = a /\ Last(Actions(r)) = a /\ a \in Named(r) /\ Len(p) = 1
      BY <3>1, <3>2 DEF Named, Last
    <3> QED BY <1>3, <2>1, <2>3, <3>1, <3>2, <3>3
  <2> QED BY <2>2, <2>3
<1> QED BY <1>1, <1>2, <1>3

LEMMA QueuePlanned ==
  ASSUME load \in AskLoads, NEW r \in Asked
  PROVE  Queue(r) \in Plans(r) /\ (Queue(r) = << >> <=> Actions(r) = << >>)
<1>1. CASE Route(r) = "send_multipart"
  <2>1. Actions(r) = <<"send-multipart">>
    BY <1>1, ActionsOf
  <2> QED BY <1>1, <2>1 DEF Queue, Plans
<1>2. CASE Route(r) = "change_alias"
  <2>1. Actions(r) = <<"get-account-info", "modify-active-alias">>
    BY <1>2, ActionsOf
  <2> QED BY <1>2, <2>1 DEF Queue, Plans
<1>3. CASE Route(r) \notin {"send_multipart", "change_alias"}
  BY <1>3 DEF Queue, Plans
<1> QED BY <1>1, <1>2, <1>3


-----------------------------------------------------------------------------
(* The invariant.                                                          *)

AllPlans == {<< >>} \cup UNION {Plans(r) : r \in Asked}

AskTypes ==
    /\ load \in AskLoads
    /\ at \in [Askers -> Asking \cup Over \cup {"idle"}]
    /\ todo \in [Askers -> AllPlans]
    /\ line \in Seq(Sent)
    /\ heard \in [Askers -> {"nothing", "ok", "error", "silent", "unlisted"}]
    /\ app \in [Attributes -> Nat] /\ db \in [Attributes -> Nat]
    /\ base \in [Askers -> Nat]
    /\ told \in [Askers -> {"nothing", "ok", "unknown", "unchanged", "as-is"}]
    /\ indicated \in BOOLEAN /\ untidy \in BOOLEAN
    /\ applied \subseteq Asked /\ misread \subseteq Asked

\* A handler is at a step of its route.
PlanInv ==
    \A r \in Asked :
        /\ todo[r] \in Plans(r)
        /\ at[r] = "idle" => todo[r] = << >>
        /\ at[r] = "waiting" => todo[r] # << >> /\ Head(todo[r]) \notin FireAndForgetActions
        /\ at[r] = "confirming" => todo[r] = << >>
        /\ at[r] = "scripting" => Route(r) = "create_script"

\* A request that is past the transaction its route ends with had it executed, or a
\* missing piece made the handler skip it.
Transacts(r) == Actions(r) # << >> /\ Last(Actions(r)) \notin FireAndForgetActions
Done(r)      == r \in applied \/ Skippable(r, Last(Actions(r)))
Past(r) ==
    \/ told[r] = "ok"
    \/ at[r] = "confirming"
    \/ at[r] = "acting" /\ todo[r] = << >>
    \/ at[r] = "waiting" /\ Head(todo[r]) = Last(Actions(r)) /\ heard[r] \in {"ok", "unlisted"}

DoneInv == \A r \in Asked : Transacts(r) /\ Past(r) => Done(r)

\* chat.db knows no deletion and no download that Messages does not.
NoCreator == \A r \in Asked : Route(r) \notin {"create", "create_script"}
DbInv ==
    /\ NoCreator /\ db["chat"] = 0 => app["chat"] = 0
    /\ db["downloaded"] = 1 => app["downloaded"] = 1

\* The indicator will be on once the helper has read its socket.
Starting ==
    \/ app["typing"] = 1 /\ \A j \in 1 .. Len(line) : line[j][2] # "stop-typing"
    \/ \E i \in 1 .. Len(line) :
          /\ line[i][2] = "start-typing"
          /\ \A j \in 1 .. Len(line) : j > i => line[j][2] # "stop-typing"

Busy(r) == Route(r) \in OfTyping /\ at[r] \in Asking

\* The routes that have still to cache the chat, or to stop the indicator they have
\* taken from the cache.
Covers(r) ==
    /\ at[r] = "acting"
    /\ \/ Route(r) = "start_typing" /\ todo[r] = << >>
       \/ Route(r) = "send_multipart" /\ todo[r] = <<"stop-typing", "send-multipart">>

\* The routes that have stopped it.
Stops(r) ==
    /\ at[r] \in Asking
    /\ \/ Route(r) = "stop_typing" /\ todo[r] = << >>
       \/ Route(r) = "send_multipart" /\ todo[r] \in {<< >>, <<"send-multipart">>}

TypingInv ==
    ~untidy =>
        /\ Starting => indicated \/ \E r \in Asked : Covers(r)
        /\ \A r, q \in Asked : Busy(r) /\ Busy(q) => r = q
        /\ (\E r \in Asked : Stops(r)) => ~Starting

AskInv ==
    AskTypes /\ PlanInv /\ DoneInv /\ SilenceExplained /\ DbInv /\ ConfirmedRightly /\ TypingInv

LEMMA AskStart == AskInit => AskInv
<1> SUFFICES ASSUME AskInit PROVE AskInv
  OBVIOUS
<1>1. load \in AskLoads
  BY DEF AskInit
<1>2. load.there \in {0, 1} /\ Asked \subseteq Askers
  BY <1>1, Loaded
<1>3. line \in Seq(Sent) /\ Len(line) = 0
  BY DEF AskInit
<1>4. app \in [Attributes -> Nat] /\ db = app /\ app["typing"] = 0
  BY <1>2 DEF AskInit, Attributes
<1>5. AskTypes
  BY <1>1, <1>3, <1>4 DEF AskInit, AskTypes, AllPlans
<1>6. PlanInv
  BY <1>2 DEF AskInit, PlanInv, Plans
<1>7. DoneInv /\ SilenceExplained /\ ConfirmedRightly
  BY <1>2 DEF AskInit, DoneInv, Past, SilenceExplained, ConfirmedRightly
<1>8. DbInv
  BY <1>4 DEF AskInit, DbInv
<1>9. TypingInv
  BY <1>2, <1>3, <1>4 DEF AskInit, TypingInv, Starting, Busy, Stops, Asking
<1> QED BY <1>5, <1>6, <1>7, <1>8, <1>9 DEF AskInv

LEMMA Steady ==
  ASSUME load' = load
  PROVE  /\ Asked' = Asked /\ Sent' = Sent /\ NoCreator' = NoCreator /\ AllPlans' = AllPlans
         /\ \A r : /\ Route(r)' = Route(r) /\ Actions(r)' = Actions(r) /\ Awaits(r)' = Awaits(r)
                   /\ Plans(r)' = Plans(r) /\ Named(r)' = Named(r) /\ Transacts(r)' = Transacts(r)
         /\ \A r, a : Skippable(r, a)' = Skippable(r, a)
BY DEF Asked, Sent, AllPlans, NoCreator, Route, Actions, Awaits, Plans, Named, Transacts, Skippable, Handler, Options

\* The types of a state whose load is that of the state before.
LEMMA TypesKept ==
  ASSUME load' = load, load \in AskLoads,
         at' \in [Askers -> Asking \cup Over \cup {"idle"}],
         todo' \in [Askers -> AllPlans],
         line' \in Seq(Sent),
         heard' \in [Askers -> {"nothing", "ok", "error", "silent", "unlisted"}],
         app' \in [Attributes -> Nat], db' \in [Attributes -> Nat], base' \in [Askers -> Nat],
         told' \in [Askers -> {"nothing", "ok", "unknown", "unchanged", "as-is"}],
         indicated' \in BOOLEAN, untidy' \in BOOLEAN, applied' \subseteq Asked, misread' \subseteq Asked
  PROVE  AskTypes'
<1>1. Asked' = Asked /\ Sent' = Sent /\ AllPlans' = AllPlans
  BY Steady
<1> QED BY <1>1 DEF AskTypes

LEMMA LineKept ==
  ASSUME AskTypes, NEW p \in Sent, line' = line \/ line' = Append(line, p)
  PROVE  line' \in Seq(Sent)
<1>1. line \in Seq(Sent)
  BY DEF AskTypes
<1>2. Append(line, p) \in Seq(Sent)
  BY <1>1, AppendProperties
<1> QED BY <1>1, <1>2

LEMMA PlanKept ==
  ASSUME PlanInv, load' = load, NEW r \in Asked,
         \A q \in Asked : q # r => todo'[q] = todo[q] /\ at'[q] = at[q],
         todo'[r] \in Plans(r),
         at'[r] = "idle" => todo'[r] = << >>,
         at'[r] = "waiting" => todo'[r] # << >> /\ Head(todo'[r]) \notin FireAndForgetActions,
         at'[r] = "confirming" => todo'[r] = << >>,
         at'[r] = "scripting" => Route(r) = "create_script"
  PROVE  PlanInv'
<1>1. Asked' = Asked /\ \A q : Plans(q)' = Plans(q) /\ Route(q)' = Route(q)
  BY Steady
<1> QED BY <1>1 DEF PlanInv

LEMMA PlanStill == ASSUME PlanInv, UNCHANGED <<load, todo, at>> PROVE PlanInv'
BY Steady DEF PlanInv


-----------------------------------------------------------------------------
(* Types and plans.                                                        *)

LEMMA Facts ==
  ASSUME AskInv
  PROVE  /\ AskTypes /\ PlanInv /\ Asked \subseteq Askers
         /\ \A r \in Asked : \A a \in Named(r) : <<r, a>> \in Sent
         /\ \A r \in Asked : todo[r] # << >> =>
               Tail(todo[r]) \in Plans(r) /\ Head(todo[r]) \in Named(r)
         /\ \A r \in Asked : Plans(r) \subseteq AllPlans
<1>1. AskTypes /\ PlanInv /\ load \in AskLoads
  BY DEF AskInv, AskTypes
<1>2. \A r \in Asked : \A a \in Named(r) : <<r, a>> \in Sent
  BY DEF Sent
<1>3. \A r \in Asked : todo[r] # << >> => Tail(todo[r]) \in Plans(r) /\ Head(todo[r]) \in Named(r)
  BY <1>1, PlanOf DEF PlanInv
<1>4. \A r \in Asked : Plans(r) \subseteq AllPlans
  BY Zenon DEF AllPlans
<1> QED BY <1>1, <1>2, <1>3, <1>4, Loaded

\* A step of a handler that leaves its plan and the socket alone.
LEMMA RestTypes ==
  ASSUME AskInv, NEW r \in Asked, UNCHANGED <<load, todo, line, heard, app, db>>,
         NEW step \in {"confirming"} \cup Over, at' = [at EXCEPT ![r] = step],
         step = "confirming" => todo[r] = << >>,
         NEW what \in {"nothing", "ok", "unknown", "unchanged", "as-is"}, told' = told \/ told' = [told EXCEPT ![r] = what],
         base' = base, indicated' \in BOOLEAN, untidy' \in BOOLEAN,
         applied' \subseteq Asked, misread' \subseteq Asked
  PROVE  AskTypes' /\ PlanInv'
<1>1. AskTypes /\ PlanInv /\ Asked \subseteq Askers
  BY Facts
<1>2. AskTypes'
  BY <1>1, Steady DEF AskTypes, Asking
<1>3. PlanInv'
  BY <1>1, Steady DEF AskTypes, PlanInv, Over
<1> QED BY <1>2, <1>3

LEMMA BeginTypes == ASSUME AskInv, NEW r \in Asked, Begin(r) PROVE AskTypes' /\ PlanInv'
<1>1. AskTypes /\ PlanInv /\ Asked \subseteq Askers
  BY Facts
<1>2. Queue(r) \in Plans(r)
  BY <1>1, QueuePlanned DEF AskTypes
<1>3. /\ UNCHANGED <<load, line, heard, app, db, told, applied, misread>>
      /\ at' = [at EXCEPT ![r] = IF Route(r) = "create_script" THEN "scripting" ELSE "acting"]
      /\ base' = [base EXCEPT ![r] = db["name"]] /\ todo' = [todo EXCEPT ![r] = Queue(r)]
      /\ indicated' \in BOOLEAN /\ untidy' \in BOOLEAN
  BY <1>1 DEF Begin, AskTypes
<1>4. db["name"] \in Nat
  BY <1>1 DEF AskTypes, Attributes
<1>5. todo' \in [Askers -> AllPlans]
  <2>1. Plans(r) \subseteq AllPlans
    BY Facts
  <2> QED BY <1>1, <1>2, <1>3, <2>1 DEF AskTypes
<1>6. AskTypes'
  BY <1>1, <1>3, <1>4, <1>5, TypesKept DEF AskTypes, Asking
<1>7. /\ at'[r] \in {"acting", "scripting"} /\ (at'[r] = "scripting" => Route(r) = "create_script")
      /\ todo'[r] = Queue(r) /\ \A q \in Asked : q # r => todo'[q] = todo[q] /\ at'[q] = at[q]
  BY <1>1, <1>3 DEF AskTypes
<1>8. load' = load /\ PlanInv
  BY <1>1, <1>3
<1>9. PlanInv'
  BY <1>2, <1>7, <1>8, PlanKept
<1> QED BY <1>6, <1>9

LEMMA AskTypesKeep == ASSUME AskInv, NEW r \in Asked, Ask(r) PROVE AskTypes' /\ PlanInv'
<1>1. AskTypes /\ PlanInv /\ Asked \subseteq Askers
  BY Facts
<1> DEFINE a == Head(todo[r])
<1>2. /\ at[r] = "acting" /\ todo[r] # << >> /\ line' \in {line, Append(line, <<r, a>>)}
      /\ UNCHANGED <<load, app, db, base, indicated, told, applied, misread>>
  BY DEF Ask
<1>3. Tail(todo[r]) \in Plans(r) /\ <<r, a>> \in Sent
  BY <1>2, Facts
<1>4. untidy' \in BOOLEAN
  BY <1>1 DEF Ask, AskTypes
<1>5. line' \in Seq(Sent)
  BY <1>1, <1>2, <1>3, LineKept
<1>6. CASE a \in FireAndForgetActions
  <2>1. todo' = [todo EXCEPT ![r] = Tail(@)] /\ UNCHANGED <<at, heard>>
    BY <1>6 DEF Ask
  <2>2. Plans(r) \subseteq AllPlans
    BY Facts
  <2>3. AskTypes'
    BY <1>1, <1>2, <1>3, <1>4, <1>5, <2>1, <2>2, TypesKept DEF AskTypes
  <2>4. todo'[r] = Tail(todo[r]) /\ at'[r] = "acting"
    BY <1>1, <1>2, <2>1 DEF AskTypes
  <2>5. PlanInv'
    BY <1>1, <1>2, <1>3, <2>1, <2>4, PlanKept
  <2> QED BY <2>3, <2>5
<1>7. CASE a \notin FireAndForgetActions
  <2>1. at' = [at EXCEPT ![r] = "waiting"] /\ heard' = [heard EXCEPT ![r] = "nothing"] /\ UNCHANGED todo
    BY <1>7 DEF Ask
  <2>2. AskTypes'
    BY <1>1, <1>2, <1>4, <1>5, <2>1, TypesKept DEF AskTypes, Asking
  <2>3. at'[r] = "waiting" /\ todo[r] \in Plans(r)
    BY <1>1, <2>1 DEF AskTypes, PlanInv
  <2>4. PlanInv'
    BY <1>1, <1>2, <1>7, <2>1, <2>3, PlanKept
  <2> QED BY <2>2, <2>4
<1> QED BY <1>6, <1>7

LEMMA AnsweredTypes == ASSUME AskInv, NEW r \in Asked, Answered(r) PROVE AskTypes' /\ PlanInv'
<1>1. AskTypes /\ PlanInv /\ Asked \subseteq Askers
  BY Facts
<1>2. /\ at[r] = "waiting" /\ at' = [at EXCEPT ![r] = "acting"] /\ todo' = [todo EXCEPT ![r] = Tail(@)]
      /\ UNCHANGED <<load, line, heard, app, db, base, indicated, told, applied, misread, untidy>>
  BY DEF Answered
<1>3. Tail(todo[r]) \in Plans(r)
  BY <1>1, <1>2, Facts DEF PlanInv
<1>4. Plans(r) \subseteq AllPlans
  BY Facts
<1>5. AskTypes'
  BY <1>1, <1>2, <1>3, <1>4, TypesKept DEF AskTypes, Asking
<1>6. todo'[r] = Tail(todo[r]) /\ at'[r] = "acting"
  BY <1>1, <1>2 DEF AskTypes
<1>7. PlanInv'
  BY <1>1, <1>2, <1>3, <1>6, PlanKept
<1> QED BY <1>5, <1>7

LEMMA ScriptTypes == ASSUME AskInv, NEW r \in Asked, Script(r) PROVE AskTypes' /\ PlanInv'
<1>1. AskTypes /\ PlanInv /\ Asked \subseteq Askers
  BY Facts
<1> DEFINE made == After([chat |-> 1, message |-> 1])
<1>2. made \in [Attributes -> Nat]
  BY <1>1 DEF AskTypes, After
<1> HIDE DEF made
<1>3. /\ at[r] = "scripting" /\ UNCHANGED <<load, todo, line, heard, db, base, indicated, misread, untidy>>
      /\ app' \in {app, made} /\ applied' \subseteq Asked
      /\ \E step \in {"confirming", "failed"} : at' = [at EXCEPT ![r] = step]
      /\ told' = told \/ told' = [told EXCEPT ![r] = "nothing"]
  BY <1>1 DEF Script, End, made, AskTypes
<1>4. todo[r] = << >>
  <2>1. Plans(r) = {<< >>}
    BY <1>1, <1>3, ActionsOf DEF PlanInv, AskTypes, Plans
  <2> QED BY <1>1, <2>1 DEF PlanInv
<1>5. told' \in [Askers -> {"nothing", "ok", "unknown", "unchanged", "as-is"}]
  BY <1>1, <1>3 DEF AskTypes
<1>6. at' \in [Askers -> Asking \cup Over \cup {"idle"}]
  BY <1>1, <1>3 DEF AskTypes, Asking, Over
<1>7. AskTypes'
  BY <1>1, <1>2, <1>3, <1>5, <1>6, TypesKept DEF AskTypes
<1>8. at'[r] \in {"confirming", "failed"} /\ todo[r] \in Plans(r) /\ \A q \in Asked : q # r => at'[q] = at[q]
  BY <1>1, <1>3 DEF AskTypes, PlanInv
<1>9. PlanInv'
  BY <1>1, <1>3, <1>4, <1>8, PlanKept
<1> QED BY <1>7, <1>9

LEMMA DropTypes == ASSUME AskInv, NEW r \in Asked, Drop(r) PROVE AskTypes' /\ PlanInv'
<1>1. AskTypes /\ PlanInv /\ Asked \subseteq Askers
  BY Facts
<1>2. /\ UNCHANGED <<load, todo, heard, app, db, base, indicated, applied, misread>>
      /\ at' = [at EXCEPT ![r] = "dropped"] /\ told' = [told EXCEPT ![r] = "nothing"]
      /\ line' = line \/ (todo[r] # << >> /\ line' = Append(line, <<r, Head(todo[r])>>))
      /\ untidy' \in BOOLEAN
  BY <1>1 DEF Drop, End, AskTypes
<1>3. line' \in Seq(Sent)
  <2>1. CASE line' = line
    BY <1>1, <2>1 DEF AskTypes
  <2>2. CASE line' # line
    <3>1. todo[r] # << >> /\ line' = Append(line, <<r, Head(todo[r])>>)
      BY <1>2, <2>2
    <3>2. <<r, Head(todo[r])>> \in Sent
      BY <3>1, Facts
    <3> QED BY <1>1, <3>1, <3>2, LineKept
  <2> QED BY <2>1, <2>2
<1>4. /\ at' \in [Askers -> Asking \cup Over \cup {"idle"}]
      /\ told' \in [Askers -> {"nothing", "ok", "unknown", "unchanged", "as-is"}]
  BY <1>1, <1>2 DEF AskTypes, Over
<1>5. AskTypes'
  BY <1>1, <1>2, <1>3, <1>4, TypesKept DEF AskTypes
<1>6. PlanInv'
  BY <1>1, <1>2, Steady DEF AskTypes, PlanInv
<1> QED BY <1>5, <1>6

LEMMA EndTypes ==
  ASSUME AskInv, NEW r \in Asked,
         \/ Refuse(r) \/ Already(r) \/ Refused(r) \/ Expire(r) \/ Finish(r) \/ Poll(r) \/ Misread(r) \/ GiveUp(r)
  PROVE  AskTypes' /\ PlanInv'
<1>1. AskTypes /\ PlanInv /\ Asked \subseteq Askers
  BY Facts
<1>2. UNCHANGED <<load, todo, line, heard, app, db, base>>
  BY DEF Refuse, Already, Refused, Expire, Finish, Poll, Misread, GiveUp
<1>3. indicated' \in BOOLEAN /\ untidy' \in BOOLEAN /\ applied' \subseteq Asked /\ misread' \subseteq Asked
  <2>1. CASE Finish(r)
    BY <1>1, <2>1 DEF Finish, AskTypes
  <2>2. CASE ~Finish(r)
    BY <1>1, <2>2 DEF Refuse, Already, Refused, Expire, Poll, Misread, GiveUp, AskTypes
  <2> QED BY <2>1, <2>2
<1>4. PICK step \in {"confirming"} \cup Over, what \in {"nothing", "ok", "unknown", "unchanged", "as-is"} :
         /\ at' = [at EXCEPT ![r] = step] /\ (told' = told \/ told' = [told EXCEPT ![r] = what])
         /\ step = "confirming" => todo[r] = << >>
  <2>1. CASE Finish(r)
    BY <2>1 DEF Finish, End, Over
  <2>2. CASE Refuse(r) \/ Already(r) \/ Refused(r) \/ Expire(r)
    BY <2>2 DEF Refuse, Already, Refused, Expire, End, Over
  <2>3. CASE Poll(r) \/ Misread(r) \/ GiveUp(r)
    BY <2>3 DEF Poll, Misread, GiveUp, End, Over
  <2> QED BY <2>1, <2>2, <2>3
<1> QED BY <1>2, <1>3, <1>4, RestTypes

\* The effect of an action upon Messages.
LEMMA EffectType ==
  ASSUME AskTypes, NEW r, NEW a
  PROVE  After(Effect(r, a)) \in [Attributes -> Nat]
<1>1. Cardinality(Transfers(Parts)) \in Nat
  <2>1. IsFiniteSet(load.parts)
    BY Loaded DEF AskTypes
  <2>2. IsFiniteSet(Parts)
    <3> DEFINE f == [p \in load.parts |-> PartKeys(p)]
    <3>1. f \in Surjection(load.parts, Parts)
      BY DEF Parts, Surjection
    <3> QED BY <2>1, <3>1, FS_Surjection
  <2>3. Transfers(Parts) \subseteq Parts
    BY DEF Transfers
  <2> QED BY <2>2, <2>3, FS_Subset, FS_CardinalityType
<1>2. \A x \in DOMAIN Effect(r, a) : Effect(r, a)[x] \in Nat
  BY <1>1 DEF Effect
<1> QED BY <1>2 DEF After, AskTypes

LEMMA HandleTypes == ASSUME AskInv, Handle PROVE AskTypes' /\ PlanInv'
<1>1. AskTypes /\ PlanInv /\ Asked \subseteq Askers
  BY Facts
<1> DEFINE r == Head(line)[1]
           a == Head(line)[2]
           o == Outcome(Handler(r, a), Missing(r, a))
<1>2. line # << >> /\ Head(line) \in Sent /\ r \in Asked /\ line' = Tail(line) /\ Tail(line) \in Seq(Sent)
  BY <1>1 DEF Handle, AskTypes, Sent
<1>3. o \in {"ok", "error", "silent", "skipped"}
  BY HandlerEnds
<1>4. app' = app \/ app' = After(Effect(r, a))
  BY DEF Handle
<1>5. applied' = IF o = "ok" /\ a = Last(Actions(r)) THEN applied \cup {r} ELSE applied
  BY DEF Handle
<1>6. untidy' \in BOOLEAN
  BY <1>1 DEF Handle, AskTypes
<1>7. heard' = heard \/ \E h \in {"ok", "unlisted", "error", "silent"} : heard' = [heard EXCEPT ![r] = h]
  BY <1>3 DEF Handle
<1>8. UNCHANGED <<load, at, todo, db, base, indicated, told, misread>>
  BY DEF Handle
<1> HIDE DEF r, a, o
<1>9. app' \in [Attributes -> Nat]
  BY <1>1, <1>4, EffectType DEF AskTypes
<1>10. AskTypes'
  BY <1>1, <1>2, <1>5, <1>6, <1>7, <1>8, <1>9, Steady DEF AskTypes
<1>11. PlanInv'
  BY <1>1, <1>8, PlanStill
<1> QED BY <1>10, <1>11

LEMMA WorldTypes == ASSUME AskInv, Die \/ User \/ \E x \in Attributes : Sync(x) PROVE AskTypes' /\ PlanInv'
<1>1. AskTypes /\ PlanInv
  BY Facts
<1>2. UNCHANGED <<load, at, todo, heard, base>> /\ UNCHANGED <<indicated, told, misread, applied, untidy>>
  BY DEF Die, User, Sync, handlers
<1>3. line' \in {line, << >>} /\ app' \in [Attributes -> Nat] /\ db' \in [Attributes -> Nat]
  <2>1. CASE Die
    BY <1>1, <2>1 DEF Die, AskTypes
  <2>2. CASE User
    <3>1. line' = line /\ db' = db /\ \E x \in Attributes, v \in Nat : app' = [app EXCEPT ![x] = v]
      BY <2>2 DEF User, Attributes
    <3>2. line' \in {line, << >>} /\ app \in [Attributes -> Nat] /\ db' \in [Attributes -> Nat]
      BY <1>1, <3>1 DEF AskTypes
    <3>3. PICK x \in Attributes, v \in Nat : app' = [app EXCEPT ![x] = v]
      BY <3>1
    <3>4. app' \in [Attributes -> Nat]
      BY <3>2, <3>3
    <3> QED BY <3>2, <3>4
  <2>3. CASE \E x \in Attributes : Sync(x)
    BY <1>1, <2>3 DEF Sync, AskTypes
  <2> QED BY <2>1, <2>2, <2>3
<1>4. line' \in Seq(Sent)
  <2>1. line \in Seq(Sent) /\ << >> \in Seq(Sent)
    BY <1>1, EmptySeq DEF AskTypes
  <2> QED BY <1>3, <2>1, Zenon
<1>5. AskTypes'
  <2>1. /\ load \in AskLoads /\ at' \in [Askers -> Asking \cup Over \cup {"idle"}]
        /\ todo' \in [Askers -> AllPlans]
        /\ heard' \in [Askers -> {"nothing", "ok", "error", "silent", "unlisted"}]
        /\ base' \in [Askers -> Nat]
    BY <1>1, <1>2 DEF AskTypes
  <2>2. /\ told' \in [Askers -> {"nothing", "ok", "unknown", "unchanged", "as-is"}]
        /\ indicated' \in BOOLEAN /\ untidy' \in BOOLEAN /\ applied' \subseteq Asked /\ misread' \subseteq Asked
    BY <1>1, <1>2 DEF AskTypes
  <2> QED BY <1>2, <1>3, <1>4, <2>1, <2>2, TypesKept
<1>6. PlanInv'
  BY <1>1, <1>2, PlanStill
<1> QED BY <1>5, <1>6

-----------------------------------------------------------------------------
(* What a step may do to Messages and to what the routes report.           *)

LEMMA AfterOf ==
  ASSUME NEW e, NEW x \in Attributes
  PROVE  After(e)[x] = IF x \in DOMAIN e THEN e[x] ELSE app[x]
BY DEF After

LEMMA EffectOf ==
  ASSUME NEW r, NEW a
  PROVE  /\ After(Effect(r, a))["typing"] = CASE a = "start-typing" -> 1 [] a = "stop-typing" -> 0 [] OTHER -> app["typing"]
         /\ a # "create-chat" => After(Effect(r, a))["chat"] \in {0, app["chat"]}
         /\ After(Effect(r, a))["downloaded"] \in {1, app["downloaded"]}
<1>1. {"typing", "chat", "downloaded"} \subseteq Attributes
  BY DEF Attributes
<1>2. /\ a = "start-typing" => DOMAIN Effect(r, a) = {"typing"} /\ Effect(r, a)["typing"] = 1
      /\ a = "stop-typing" => DOMAIN Effect(r, a) = {"typing"} /\ Effect(r, a)["typing"] = 0
      /\ a \notin {"start-typing", "stop-typing"} => "typing" \notin DOMAIN Effect(r, a)
  BY DEF Effect
<1>3. a # "create-chat" => "chat" \notin DOMAIN Effect(r, a) \/ Effect(r, a)["chat"] = 0
  BY DEF Effect
<1>4. /\ a = "download-purged-attachment" => DOMAIN Effect(r, a) = {"downloaded"} /\ Effect(r, a)["downloaded"] = 1
      /\ a # "download-purged-attachment" => "downloaded" \notin DOMAIN Effect(r, a)
  BY DEF Effect
<1> QED BY <1>1, <1>2, <1>3, <1>4, AfterOf

\* An action that is read from the socket is one its request asks for.
LEMMA HeadOf ==
  ASSUME AskInv, line # << >>
  PROVE  /\ Head(line)[1] \in Asked
         /\ Head(line)[2] = "create-chat" => Route(Head(line)[1]) = "create"
         /\ Head(line)[2] = "notify-anyways" => Route(Head(line)[1]) = "notify_message"
         /\ Head(line)[2] = "balloon-bundle-media-path" => Route(Head(line)[1]) = "get_embedded_media"
         /\ Head(line)[2] # "check-typing-status"
<1>1. load \in AskLoads /\ line \in Seq(Sent)
  BY Facts DEF AskTypes
<1>2. Head(line) \in Sent
  BY <1>1
<1>3. Head(line)[1] \in Asked /\ Head(line)[2] \in Named(Head(line)[1])
  BY <1>2 DEF Sent
<1> QED BY <1>1, <1>3, NamedOf

LEMMA AppMoves ==
  ASSUME AskInv, AskNext
  PROVE  /\ app'["downloaded"] \in {1, app["downloaded"]}
         /\ NoCreator => app'["chat"] \in {0, app["chat"]}
<1>1. AskTypes /\ {"typing", "chat", "downloaded"} \subseteq Attributes
  BY Facts DEF Attributes
<1>2. CASE Handle
  <2>1. app' = app \/ app' = After(Effect(Head(line)[1], Head(line)[2]))
    BY <1>2 DEF Handle
  <2>2. NoCreator => Head(line)[2] # "create-chat"
    BY <1>2, HeadOf DEF Handle, NoCreator
  <2> QED BY <2>1, <2>2, EffectOf
<1>3. CASE Die
  BY <1>1, <1>3 DEF Die, AskTypes
<1>4. CASE User
  <2>1. app' = app \/ \E x \in Attributes \ {"downloaded"}, v \in Nat : (x = "chat" => v = 0) /\ app' = [app EXCEPT ![x] = v]
    BY <1>4 DEF User, Attributes
  <2> QED BY <1>1, <2>1 DEF AskTypes
<1>5. CASE \E r \in Asked : Script(r)
  <2>1. PICK r \in Asked : Script(r)
    BY <1>5
  <2>2. ~NoCreator
    BY <1>1, <2>1, Facts DEF Script, PlanInv, NoCreator
  <2>3. app' = app \/ app' = After([chat |-> 1, message |-> 1])
    BY <2>1 DEF Script
  <2> QED BY <1>1, <2>2, <2>3, AfterOf
<1>6. CASE app' = app
  BY <1>6
<1>7. app' = app \/ Handle \/ Die \/ User \/ \E r \in Asked : Script(r)
  BY DEF AskNext, RouteStep, Refuse, Begin, Already, Drop, Ask, Answered, Refused, Expire, Finish, Poll, Misread, GiveUp, Sync
<1> QED BY <1>2, <1>3, <1>4, <1>5, <1>6, <1>7

LEMMA LoadStays == ASSUME AskNext PROVE load' = load /\ misread \subseteq misread'
BY DEF AskNext, RouteStep, Refuse, Begin, Already, Drop, Ask, Answered, Refused, Expire, Finish, Script, Poll,
       Misread, GiveUp, Handle, Die, User, Sync, handlers

\* How a route comes to report success.
LEMMA ToldMoves ==
  ASSUME AskInv, AskNext, NEW q \in Asked, told'[q] = "ok"
  PROVE  told[q] = "ok" \/ Finish(q) \/ Poll(q) \/ (Misread(q) /\ q \in misread')
<1>1. AskTypes /\ Asked \subseteq Askers
  BY Facts
<1>2. CASE told' = told
  BY <1>2
<1>3. ASSUME NEW r \in Asked, NEW what, what # "ok", told' = [told EXCEPT ![r] = what] PROVE told[q] = "ok"
  BY <1>1, <1>3 DEF AskTypes
<1>4. ASSUME NEW r \in Asked, Finish(r) \/ Poll(r) \/ Misread(r)
      PROVE  told[q] = "ok" \/ Finish(q) \/ Poll(q) \/ (Misread(q) /\ q \in misread')
  <2>1. CASE r = q
    BY <1>4, <2>1 DEF Misread
  <2>2. CASE r # q
    <3>1. told' = told \/ \E what : told' = [told EXCEPT ![r] = what]
      BY <1>4 DEF Finish, Poll, Misread, End
    <3> QED BY <1>1, <2>2, <3>1 DEF AskTypes
  <2> QED BY <2>1, <2>2
<1>5. \/ told' = told
      \/ \E r \in Asked : \/ Finish(r) \/ Poll(r) \/ Misread(r)
                           \/ \E what : what # "ok" /\ told' = [told EXCEPT ![r] = what]
  <2>1. CASE \E r \in Asked : Refuse(r) \/ Already(r) \/ Drop(r) \/ Refused(r) \/ Expire(r) \/ GiveUp(r) \/ Script(r)
    BY <2>1 DEF Refuse, Already, Drop, Refused, Expire, GiveUp, Script, End
  <2>2. CASE \E r \in Asked : Begin(r) \/ Ask(r) \/ Answered(r)
    BY <2>2 DEF Begin, Ask, Answered
  <2>3. CASE Handle \/ Die \/ User \/ \E x \in Attributes : Sync(x)
    BY <2>3 DEF Handle, Die, User, Sync, handlers
  <2> QED BY <2>1, <2>2, <2>3 DEF AskNext, RouteStep
<1> QED BY <1>2, <1>3, <1>4, <1>5

LEMMA HeardMoves ==
  ASSUME Handle
  PROVE  LET r == Head(line)[1]
             a == Head(line)[2]
             o == Outcome(Handler(r, a), Missing(r, a))
         IN  heard' = heard \/ \E h : /\ heard' = [heard EXCEPT ![r] = h]
                                      /\ h = "silent" => o = "silent"
                                      /\ h \in {"ok", "unlisted"} => o \in {"ok", "skipped"}
                                      /\ at[r] = "waiting" /\ a = Head(todo[r])
<1> DEFINE r == Head(line)[1]
           a == Head(line)[2]
           o == Outcome(Handler(r, a), Missing(r, a))
           h == CASE o = "skipped" -> "ok"
                  [] o = "ok" /\ a = "get-account-info" /\ app["vetted"] = 0 -> "unlisted"
                  [] OTHER -> o
<1>1. heard' = heard \/ (heard' = [heard EXCEPT ![r] = h] /\ at[r] = "waiting" /\ a = Head(todo[r]))
  BY Zenon DEF Handle
<1>2. o \in {"ok", "error", "silent", "skipped"}
  BY HandlerEnds
<1> HIDE DEF r, a, o
<1>3. (h = "silent" => o = "silent") /\ (h \in {"ok", "unlisted"} => o \in {"ok", "skipped"})
  BY <1>2
<1> HIDE DEF h
<1> QED BY <1>1, <1>3 DEF r, a, o

LEMMA SilenceKeeps == ASSUME AskInv, AskNext PROVE SilenceExplained'
<1>1. AskTypes /\ Asked \subseteq Askers /\ SilenceExplained /\ load' = load
  BY Facts, LoadStays DEF AskInv
<1>2. ASSUME \A r \in Asked : heard'[r] = "silent" => heard[r] = "silent" PROVE SilenceExplained'
  BY <1>1, <1>2, Steady DEF SilenceExplained
<1>3. CASE Handle
  <2> DEFINE r == Head(line)[1]
             a == Head(line)[2]
             o == Outcome(Handler(r, a), Missing(r, a))
  <2>1. o = "silent" => load.lacking # {} \/ a \in Terse
    BY HandlerEnds
  <2>2. r \in Asked /\ (a \in Terse => Route(r) \in {"notify_message", "get_embedded_media"})
    BY <1>3, HeadOf DEF Handle, Terse
  <2>3. heard' = heard \/ \E h : heard' = [heard EXCEPT ![r] = h] /\ (h = "silent" => o = "silent")
    BY <1>3, HeardMoves
  <2> HIDE DEF r, a, o
  <2>4. \A q \in Asked : heard'[q] = "silent" => heard[q] = "silent" \/ (q = r /\ o = "silent")
    BY <1>1, <2>3 DEF AskTypes
  <2> QED BY <1>1, <2>1, <2>2, <2>4, Steady DEF SilenceExplained
<1>4. CASE \E r \in Asked : Ask(r)
  <2>1. PICK r \in Asked : Ask(r)
    BY <1>4
  <2>2. heard' = heard \/ heard' = [heard EXCEPT ![r] = "nothing"]
    BY <2>1 DEF Ask
  <2>3. \A q \in Asked : heard'[q] = "silent" => heard[q] = "silent"
    BY <1>1, <2>2 DEF AskTypes
  <2> QED BY <1>2, <2>3
<1>5. CASE heard' = heard
  BY <1>2, <1>5
<1>6. heard' = heard \/ Handle \/ \E r \in Asked : Ask(r)
  BY DEF AskNext, RouteStep, Refuse, Begin, Already, Drop, Answered, Refused, Expire, Finish, Script, Poll,
         Misread, GiveUp, Die, User, Sync, handlers
<1> QED BY <1>3, <1>4, <1>5, <1>6

LEMMA DbKeeps == ASSUME AskInv, AskNext PROVE DbInv'
<1>1. AskTypes /\ DbInv /\ load' = load /\ NoCreator' = NoCreator /\ {"chat", "downloaded"} \subseteq Attributes
  BY Facts, LoadStays, Steady DEF AskInv, Attributes
<1>2. CASE db' = db
  BY <1>1, <1>2, AppMoves DEF DbInv
<1>3. CASE \E x \in Attributes : Sync(x)
  <2>1. PICK x \in Attributes : app' = app /\ db' = [db EXCEPT ![x] = app[x]]
    BY <1>3 DEF Sync
  <2>2. \A y \in Attributes : db'[y] = IF y = x THEN app[y] ELSE db[y]
    BY <1>1, <2>1 DEF AskTypes
  <2>3. db'["chat"] \in {app["chat"], db["chat"]} /\ db'["downloaded"] \in {app["downloaded"], db["downloaded"]}
    BY <1>1, <2>2
  <2> QED BY <1>1, <2>1, <2>3 DEF DbInv
<1>4. db' = db \/ \E x \in Attributes : Sync(x)
  BY DEF AskNext, RouteStep, Refuse, Begin, Already, Drop, Ask, Answered, Refused, Expire, Finish, Script, Poll,
         Misread, GiveUp, Handle, Die, User, handlers
<1> QED BY <1>2, <1>3, <1>4

LEMMA ConfirmedKeeps == ASSUME AskInv, AskNext PROVE ConfirmedRightly'
<1>1. ConfirmedRightly /\ DbInv /\ AskTypes /\ load' = load /\ misread \subseteq misread'
  BY Facts, LoadStays DEF AskInv
<1>2. Asked' = Asked /\ \A q : Route(q)' = Route(q)
  BY <1>1, Steady
<1>3. ASSUME NEW r \in Asked, Route(r) = "delete_chat", told'[r] = "ok", NoCreator
      PROVE  app'["chat"] = 0 \/ r \in misread'
  <2>1. app["chat"] = 0 \/ r \in misread'
    <3>1. CASE told[r] = "ok"
      BY <1>1, <1>3, <3>1 DEF ConfirmedRightly, NoCreator
    <3>2. ~(Finish(r) /\ told[r] # "ok")
      <4> SUFFICES ASSUME Finish(r), told[r] # "ok" PROVE FALSE
        OBVIOUS
      <4>1. Awaits(r) = "no-chat"
        BY <1>3, RouteAwaits DEF Awaits
      <4> QED BY <1>3, <4>1 DEF Finish
    <3>3. CASE Poll(r)
      <4>1. Awaits(r) = "no-chat"
        BY <1>3, RouteAwaits DEF Awaits
      <4>2. db["chat"] = 0
        BY <3>3, <4>1 DEF Poll, Shown
      <4> QED BY <1>1, <1>3, <4>2 DEF DbInv
    <3> QED BY <1>3, <3>1, <3>2, <3>3, ToldMoves
  <2> QED BY <1>3, <2>1, AppMoves
<1>4. ASSUME NEW r \in Asked, Route(r) = "force_download", told'[r] = "ok" PROVE app'["downloaded"] = 1
  <2>1. Awaits(r) = "downloaded"
    BY <1>4, RouteAwaits DEF Awaits
  <2>2. app["downloaded"] = 1
    <3>1. CASE told[r] = "ok"
      BY <1>1, <1>4, <3>1 DEF ConfirmedRightly
    <3>2. ~(Finish(r) /\ told[r] # "ok")
      BY <1>4, <2>1 DEF Finish
    <3>3. CASE Poll(r)
      BY <1>1, <2>1, <3>3 DEF Poll, Shown, DbInv
    <3>4. ~Misread(r)
      BY <1>4 DEF Misread
    <3> QED BY <1>4, <3>1, <3>2, <3>3, <3>4, ToldMoves
  <2> QED BY <2>2, AppMoves
<1> QED BY <1>2, <1>3, <1>4 DEF ConfirmedRightly, NoCreator

-----------------------------------------------------------------------------
(* Success means done.                                                     *)

\* A step of one request at most.
LEMMA DoneBy ==
  ASSUME AskInv, load' = load, applied \subseteq applied', NEW r \in Asked,
         \A q \in Asked : q # r =>
            told'[q] = told[q] /\ at'[q] = at[q] /\ todo'[q] = todo[q] /\ heard'[q] = heard[q],
         \/ ~Transacts(r) \/ Past(r) \/ Done(r)
         \/ /\ told'[r] # "ok" /\ at'[r] # "confirming" /\ (at'[r] = "acting" => todo'[r] # << >>)
            /\ at'[r] = "waiting" /\ Head(todo'[r]) = Last(Actions(r)) /\ heard'[r] \in {"ok", "unlisted"}
                  => r \in applied' \/ Skippable(r, Last(Actions(r)))
  PROVE  DoneInv'
<1>1. /\ Asked' = Asked /\ \A q : Transacts(q)' = Transacts(q) /\ Actions(q)' = Actions(q)
      /\ \A q, a : Skippable(q, a)' = Skippable(q, a)
  BY Steady
<1>2. \A q \in Asked : Transacts(q) /\ Past(q) => Done(q)
  BY DEF AskInv, DoneInv
<1>3. ASSUME NEW q \in Asked, Transacts(q), Past(q)' PROVE q \in applied' \/ Skippable(q, Last(Actions(q)))
  <2>1. CASE q # r
    <3>1. Past(q)
      BY <1>1, <1>3, <2>1 DEF Past
    <3> QED BY <1>2, <1>3, <3>1 DEF Done
  <2>2. CASE q = r
    <3>1. CASE Past(r) \/ Done(r)
      BY <1>2, <1>3, <2>2, <3>1 DEF Done
    <3>2. CASE ~Past(r) /\ ~Done(r)
      BY <1>1, <1>3, <2>2, <3>2 DEF Past
    <3> QED BY <3>1, <3>2
  <2> QED BY <2>1, <2>2
<1> QED BY <1>1, <1>3 DEF DoneInv, Done

LEMMA DoneRoute ==
  ASSUME AskInv, AskNext, NEW r \in Asked,
         Refuse(r) \/ Begin(r) \/ Already(r) \/ RouteStep(r) \/ Drop(r)
  PROVE  DoneInv'
<1>1. AskTypes /\ PlanInv /\ Asked \subseteq Askers /\ load' = load /\ load \in AskLoads
  BY Facts, LoadStays DEF AskTypes
<1>2. applied \subseteq applied'
  BY DEF RouteStep, Refuse, Begin, Already, Drop, Ask, Answered, Refused, Expire, Finish, Script, Poll, Misread, GiveUp
<1>3. CASE Refuse(r) \/ Already(r) \/ Refused(r) \/ Expire(r) \/ GiveUp(r) \/ Drop(r)
  <2>1. PICK how \in Over, what \in {"nothing", "unchanged", "unknown", "as-is"} :
           at' = [at EXCEPT ![r] = how] /\ told' = [told EXCEPT ![r] = what]
    BY <1>3 DEF Refuse, Already, Refused, Expire, GiveUp, Drop, End, Over
  <2>2. todo' = todo /\ heard' = heard
    BY <1>3 DEF Refuse, Already, Refused, Expire, GiveUp, Drop
  <2>3. told'[r] # "ok" /\ at'[r] \in Over /\ \A q \in Asked : q # r => told'[q] = told[q] /\ at'[q] = at[q]
    BY <1>1, <2>1 DEF AskTypes
  <2> QED BY <1>1, <1>2, <2>2, <2>3, DoneBy DEF Over
<1>4. CASE Begin(r)
  <2>1. \/ Actions(r) = << >> \/ Queue(r) # << >>
    BY <1>1, QueuePlanned
  <2>2. /\ told' = told /\ heard' = heard /\ todo' = [todo EXCEPT ![r] = Queue(r)]
        /\ at' = [at EXCEPT ![r] = IF Route(r) = "create_script" THEN "scripting" ELSE "acting"]
    BY <1>4 DEF Begin
  <2>3. /\ todo'[r] = Queue(r) /\ at'[r] \in {"scripting", "acting"}
        /\ \A q \in Asked : q # r => todo'[q] = todo[q] /\ at'[q] = at[q]
    BY <1>1, <2>2 DEF AskTypes
  <2>4. told[r] = "ok" => Past(r)
    BY DEF Past
  <2> QED BY <1>1, <1>2, <2>1, <2>2, <2>3, <2>4, DoneBy DEF Transacts
<1>5. CASE Ask(r)
  <2>1. told' = told /\ todo[r] # << >> /\ todo[r] \in Plans(r) /\ (told[r] = "ok" => Past(r))
    BY <1>1, <1>5 DEF Ask, Past, PlanInv
  <2>2. CASE Head(todo[r]) \in FireAndForgetActions
    <3>1. at[r] = "acting" /\ at' = at /\ heard' = heard /\ todo' = [todo EXCEPT ![r] = Tail(@)]
      BY <1>5, <2>2 DEF Ask
    <3>2. todo'[r] = Tail(todo[r]) /\ \A q \in Asked : q # r => todo'[q] = todo[q]
      BY <1>1, <3>1 DEF AskTypes
    <3>3. Tail(todo[r]) = << >> => ~Transacts(r)
      BY <1>1, <2>1, <2>2, PlanOf DEF Transacts
    <3> QED BY <1>1, <1>2, <2>1, <3>1, <3>2, <3>3, DoneBy
  <2>3. CASE Head(todo[r]) \notin FireAndForgetActions
    <3>1. at' = [at EXCEPT ![r] = "waiting"] /\ heard' = [heard EXCEPT ![r] = "nothing"] /\ todo' = todo
      BY <1>5, <2>3 DEF Ask
    <3>2. at'[r] = "waiting" /\ heard'[r] = "nothing" /\ \A q \in Asked : q # r => at'[q] = at[q] /\ heard'[q] = heard[q]
      BY <1>1, <3>1 DEF AskTypes
    <3> QED BY <1>1, <1>2, <2>1, <3>1, <3>2, DoneBy
  <2> QED BY <2>2, <2>3
<1>6. CASE Answered(r)
  <2>1. /\ at[r] = "waiting" /\ heard[r] \in {"ok", "unlisted"} /\ told' = told /\ heard' = heard
        /\ at' = [at EXCEPT ![r] = "acting"] /\ todo' = [todo EXCEPT ![r] = Tail(@)]
    BY <1>6 DEF Answered
  <2>2. /\ todo'[r] = Tail(todo[r]) /\ at'[r] = "acting"
        /\ \A q \in Asked : q # r => todo'[q] = todo[q] /\ at'[q] = at[q]
    BY <1>1, <2>1 DEF AskTypes
  <2>3. todo[r] # << >> /\ todo[r] \in Plans(r)
    BY <1>1, <2>1 DEF PlanInv
  <2>4. Tail(todo[r]) = << >> => Past(r)
    BY <1>1, <2>1, <2>3, PlanOf DEF Past
  <2>5. told[r] = "ok" => Past(r)
    BY DEF Past
  <2> QED BY <1>1, <1>2, <2>1, <2>2, <2>4, <2>5, DoneBy
<1>7. CASE Finish(r) \/ Poll(r) \/ Misread(r)
  <2>1. Past(r)
    BY <1>7 DEF Finish, Poll, Misread, Past
  <2>2. PICK how, what : at' = [at EXCEPT ![r] = how] /\ (told' = told \/ told' = [told EXCEPT ![r] = what])
    BY <1>7 DEF Finish, Poll, Misread, End
  <2>3. todo' = todo /\ heard' = heard
    BY <1>7 DEF Finish, Poll, Misread
  <2>4. \A q \in Asked : q # r => told'[q] = told[q] /\ at'[q] = at[q]
    BY <1>1, <2>2 DEF AskTypes
  <2> QED BY <1>1, <1>2, <2>1, <2>3, <2>4, DoneBy
<1>8. CASE Script(r)
  <2>1. ~Transacts(r)
    BY <1>1, <1>8, ActionsOf DEF Script, PlanInv, Transacts
  <2>2. PICK how, what : at' = [at EXCEPT ![r] = how] /\ (told' = told \/ told' = [told EXCEPT ![r] = what])
    BY <1>8 DEF Script, End
  <2>3. todo' = todo /\ heard' = heard
    BY <1>8 DEF Script
  <2>4. \A q \in Asked : q # r => told'[q] = told[q] /\ at'[q] = at[q]
    BY <1>1, <2>2 DEF AskTypes
  <2> QED BY <1>1, <1>2, <2>1, <2>3, <2>4, DoneBy
<1> QED BY <1>3, <1>4, <1>5, <1>6, <1>7, <1>8 DEF RouteStep

LEMMA DoneKeeps == ASSUME AskInv, AskNext PROVE DoneInv'
<1>1. AskTypes /\ PlanInv /\ Asked \subseteq Askers /\ load' = load
  BY Facts, LoadStays
<1>2. CASE \E r \in Asked : Refuse(r) \/ Begin(r) \/ Already(r) \/ RouteStep(r) \/ Drop(r)
  BY <1>2, DoneRoute
<1>3. CASE Handle
  <2> DEFINE r == Head(line)[1]
             a == Head(line)[2]
             o == Outcome(Handler(r, a), Missing(r, a))
  <2>1. r \in Asked /\ (o = "skipped" => Skippable(r, a))
    BY <1>3, HeadOf, HandlerEnds DEF Handle
  <2>2. heard' = heard \/ \E h : /\ heard' = [heard EXCEPT ![r] = h]
                                 /\ h \in {"ok", "unlisted"} => o \in {"ok", "skipped"}
                                 /\ at[r] = "waiting" /\ a = Head(todo[r])
    BY <1>3, HeardMoves
  <2>3. /\ told' = told /\ at' = at /\ todo' = todo
        /\ applied' = IF o = "ok" /\ a = Last(Actions(r)) THEN applied \cup {r} ELSE applied
    BY <1>3 DEF Handle
  <2> HIDE DEF r, a, o
  <2>4. applied \subseteq applied'
    BY <2>3
  <2>5. CASE heard' = heard
    <3>1. \/ Past(r)
          \/ /\ told[r] # "ok" /\ at[r] # "confirming" /\ (at[r] = "acting" => todo[r] # << >>)
             /\ ~(at[r] = "waiting" /\ Head(todo[r]) = Last(Actions(r)) /\ heard[r] \in {"ok", "unlisted"})
      BY DEF Past
    <3> QED BY <1>1, <2>1, <2>3, <2>4, <2>5, <3>1, DoneBy
  <2>6. ASSUME NEW h, heard' = [heard EXCEPT ![r] = h], h \in {"ok", "unlisted"} => o \in {"ok", "skipped"},
               at[r] = "waiting" /\ a = Head(todo[r])
        PROVE  DoneInv'
    <3>1. /\ heard' = [heard EXCEPT ![r] = h] /\ at[r] = "waiting" /\ a = Head(todo[r])
          /\ h \in {"ok", "unlisted"} => o \in {"ok", "skipped"}
      BY <2>6
    <3>2. heard'[r] = h /\ \A q \in Asked : q # r => heard'[q] = heard[q]
      BY <1>1, <2>1, <3>1 DEF AskTypes
    <3>3. told[r] = "ok" => Past(r)
      BY DEF Past
    <3>4. at'[r] = "waiting" /\ Head(todo'[r]) = Last(Actions(r)) /\ heard'[r] \in {"ok", "unlisted"}
             => r \in applied' \/ Skippable(r, Last(Actions(r)))
      BY <2>1, <2>3, <3>1, <3>2
    <3> QED BY <1>1, <2>1, <2>3, <2>4, <3>1, <3>2, <3>3, <3>4, DoneBy
  <2> QED BY <2>2, <2>5, <2>6, Zenon
<1>4. CASE Die \/ User \/ \E x \in Attributes : Sync(x)
  <2>1. UNCHANGED <<told, at, todo, heard, applied>>
    BY <1>4 DEF Die, User, Sync, handlers
  <2>2. \A q : Past(q)' = Past(q)
    BY <1>1, <2>1, Steady DEF Past
  <2>3. DoneInv
    BY DEF AskInv
  <2> QED BY <1>1, <2>1, <2>2, <2>3, Steady DEF DoneInv, Done
<1> QED BY <1>2, <1>3, <1>4 DEF AskNext

-----------------------------------------------------------------------------
(* The indicator.                                                          *)

\* An action at the end of the socket: a start turns the indicator on in the end, a
\* stop off, and another leaves it as it is going to be.
LEMMA StartingAppend ==
  ASSUME line \in Seq(Sent), NEW p \in Sent, line' = Append(line, p), app' = app
  PROVE  /\ p[2] = "stop-typing" => ~Starting'
         /\ p[2] \notin {"start-typing", "stop-typing"} => (Starting' => Starting)
<1>1. /\ Len(line) \in Nat /\ Len(line') = Len(line) + 1 /\ line'[Len(line) + 1] = p
      /\ \A i \in 1 .. Len(line) : line'[i] = line[i]
  BY AppendProperties
<1>2. ASSUME p[2] = "stop-typing" PROVE ~Starting'
  <2>1. Len(line) + 1 \in 1 .. Len(line') /\ line'[Len(line) + 1][2] = "stop-typing"
    BY <1>1, <1>2
  <2>2. \A i \in 1 .. Len(line') : line'[i][2] = "start-typing" => i < Len(line) + 1
    <3>1. \A i \in 1 .. Len(line') : i = Len(line) + 1 \/ i < Len(line) + 1
      BY <1>1
    <3> QED BY <1>1, <1>2, <3>1
  <2> QED BY <1>1, <2>1, <2>2 DEF Starting
<1>3. ASSUME p[2] \notin {"start-typing", "stop-typing"}, Starting' PROVE Starting
  <2>1. CASE app["typing"] = 1 /\ \A j \in 1 .. Len(line') : line'[j][2] # "stop-typing"
    BY <1>1, <2>1 DEF Starting
  <2>2. CASE \E i \in 1 .. Len(line') : /\ line'[i][2] = "start-typing"
                                       /\ \A j \in 1 .. Len(line') : j > i => line'[j][2] # "stop-typing"
    <3>1. PICK i \in 1 .. Len(line') : /\ line'[i][2] = "start-typing"
                                      /\ \A j \in 1 .. Len(line') : j > i => line'[j][2] # "stop-typing"
      BY <2>2
    <3>2. i \in 1 .. Len(line)
      BY <1>1, <1>3, <3>1
    <3>3. line[i][2] = "start-typing" /\ \A j \in 1 .. Len(line) : j > i => line[j][2] # "stop-typing"
      BY <1>1, <3>1, <3>2
    <3> QED BY <3>2, <3>3 DEF Starting
  <2> QED BY <1>3, <2>1, <2>2 DEF Starting
<1> QED BY <1>2, <1>3

\* The helper reads what comes first.
LEMMA StartingTail ==
  ASSUME line \in Seq(Sent), line # << >>, line' = Tail(line),
         Head(line)[2] = "start-typing" \/ app'["typing"] # 1
            \/ (app'["typing"] = app["typing"] /\ Head(line)[2] # "stop-typing"),
         Starting'
  PROVE  Starting
<1>1. /\ Len(line) \in Nat /\ Len(line) >= 1 /\ Len(line') = Len(line) - 1 /\ line[1] = Head(line)
      /\ \A i \in 1 .. Len(line') : line'[i] = line[i + 1]
  BY HeadTailProperties, EmptySeq
<1>2. CASE \E i \in 1 .. Len(line') : /\ line'[i][2] = "start-typing"
                                     /\ \A j \in 1 .. Len(line') : j > i => line'[j][2] # "stop-typing"
  <2>1. PICK i \in 1 .. Len(line') : /\ line'[i][2] = "start-typing"
                                    /\ \A j \in 1 .. Len(line') : j > i => line'[j][2] # "stop-typing"
    BY <1>2
  <2>2. i + 1 \in 1 .. Len(line) /\ line[i + 1][2] = "start-typing"
    BY <1>1, <2>1
  <2>3. ASSUME NEW j \in 1 .. Len(line), j > i + 1 PROVE line[j][2] # "stop-typing"
    <3>1. j - 1 \in 1 .. Len(line') /\ j - 1 > i /\ (j - 1) + 1 = j
      BY <1>1, <2>1, <2>3
    <3>2. line'[j - 1] = line[j]
      BY <1>1, <3>1
    <3> QED BY <2>1, <3>1, <3>2
  <2> QED BY <2>2, <2>3 DEF Starting
<1>3. CASE app'["typing"] = 1 /\ \A j \in 1 .. Len(line') : line'[j][2] # "stop-typing"
  <2>1. ASSUME NEW j \in 1 .. Len(line), j > 1 PROVE line[j][2] # "stop-typing"
    <3>1. j - 1 \in 1 .. Len(line') /\ (j - 1) + 1 = j
      BY <1>1, <2>1
    <3>2. line'[j - 1] = line[j]
      BY <1>1, <3>1
    <3> QED BY <1>3, <3>1, <3>2
  <2>2. 1 \in 1 .. Len(line)
    BY <1>1
  <2>3. CASE Head(line)[2] = "start-typing"
    BY <1>1, <2>1, <2>2, <2>3 DEF Starting
  <2>4. CASE app["typing"] = 1 /\ Head(line)[2] # "stop-typing"
    <3>1. \A j \in 1 .. Len(line) : line[j][2] # "stop-typing"
      <4>1. \A j \in 1 .. Len(line) : j = 1 \/ j > 1
        BY <1>1
      <4> QED BY <1>1, <2>1, <2>4, <4>1
    <3> QED BY <2>4, <3>1 DEF Starting
  <2> QED BY <1>3, <2>3, <2>4
<1> QED BY <1>2, <1>3 DEF Starting

\* A step that turns nothing on, and frees no request from its duty.
LEMMA Quiet ==
  ASSUME AskInv, load' = load, Starting' => Starting, untidy => untidy',
         ~untidy' => /\ indicated => indicated'
                     /\ \A q \in Asked :
                           (Busy(q)' => Busy(q)) /\ (Covers(q) => Covers(q)' \/ indicated') /\ (Stops(q)' => Stops(q))
  PROVE  TypingInv'
<1>1. Asked' = Asked /\ TypingInv
  BY Steady DEF AskInv
<1> QED BY <1>1 DEF TypingInv

\* The duties of a request that is not at its first step depend on its state alone.
LEMMA DutiesKept ==
  ASSUME load' = load, NEW q, at'[q] = at[q], todo'[q] = todo[q]
  PROVE  Busy(q)' = Busy(q) /\ Covers(q)' = Covers(q) /\ Stops(q)' = Stops(q)
BY Steady DEF Busy, Covers, Stops

LEMMA StartingKept == ASSUME line' = line, app'["typing"] = app["typing"] PROVE Starting' = Starting
BY DEF Starting

\* Another step of one request, which had no duty to stop.
LEMMA QuietStep ==
  ASSUME AskInv, load' = load, NEW r \in Asked,
         \A q \in Asked : q # r => at'[q] = at[q] /\ todo'[q] = todo[q],
         Starting' => Starting, untidy => untidy',
         ~untidy' => /\ indicated => indicated'
                     /\ Busy(r)' => Busy(r)
                     /\ Covers(r) => Covers(r)' \/ indicated'
                     /\ Stops(r)' => Stops(r)
  PROVE  TypingInv'
<1>1. \A q \in Asked : q # r => Busy(q)' = Busy(q) /\ Covers(q)' = Covers(q) /\ Stops(q)' = Stops(q)
  BY DutiesKept
<1> QED BY <1>1, Quiet

\* What a request of the typing routes has to do.
LEMMA Duties ==
  ASSUME AskInv, NEW r \in Asked
  PROVE  /\ load \in AskLoads /\ todo[r] \in Plans(r)
         /\ Route(r) \in {"start_typing", "stop_typing"} /\ todo[r] # << >>
               => Head(todo[r]) = Last(Actions(r))
         /\ Route(r) = "start_typing" => Actions(r) = <<"start-typing">>
         /\ Route(r) = "stop_typing" => Actions(r) = <<"stop-typing">>
         /\ Route(r) = "send_multipart" => Actions(r) = <<"send-multipart">>
<1>1. load \in AskLoads /\ todo[r] \in Plans(r)
  BY Facts DEF AskTypes, PlanInv
<1> QED BY <1>1, PlanOf, ActionsOf

LEMMA TypingBegin == ASSUME AskInv, NEW r \in Asked, Begin(r) PROVE TypingInv'
<1>1. AskTypes /\ Asked \subseteq Askers /\ load' = load /\ load \in AskLoads
  BY Facts DEF Begin, AskTypes
<1>2. /\ at[r] = "idle" /\ line' = line /\ app' = app
      /\ at' = [at EXCEPT ![r] = IF Route(r) = "create_script" THEN "scripting" ELSE "acting"]
      /\ todo' = [todo EXCEPT ![r] = Queue(r)]
      /\ indicated' = (indicated /\ Route(r) # "send_multipart")
      /\ untidy' = (untidy \/ (Route(r) \in OfTyping /\ \E q \in Asked \ {r} : Route(q) \in OfTyping /\ at[q] \in Asking))
  BY DEF Begin
<1>3. /\ todo'[r] = Queue(r) /\ at'[r] = IF Route(r) = "create_script" THEN "scripting" ELSE "acting"
      /\ \A q \in Asked : q # r => todo'[q] = todo[q] /\ at'[q] = at[q]
  BY <1>1, <1>2 DEF AskTypes
<1>4. Starting' = Starting
  BY <1>2, StartingKept
<1>5. untidy => untidy'
  BY <1>1, <1>2 DEF AskTypes
<1>6. CASE Route(r) \notin OfTyping
  <2>1. ~Busy(r)' /\ ~Covers(r) /\ ~Stops(r)'
    BY <1>1, <1>6, Steady DEF Busy, Covers, Stops, OfTyping
  <2>2. Busy(r)' = FALSE /\ indicated' = indicated
    BY <1>1, <1>2, <1>6, <2>1 DEF AskTypes, OfTyping
  <2> QED BY <1>1, <1>3, <1>4, <1>5, <2>1, <2>2, QuietStep
<1>7. CASE Route(r) \in OfTyping
  <2> SUFFICES ASSUME ~untidy' PROVE TypingInv'
    BY DEF TypingInv
  <2>1. ~untidy /\ \A q \in Asked : q # r => ~Busy(q)
    BY <1>1, <1>2, <1>7 DEF Busy, AskTypes
  <2>2. \A q \in Asked : (Covers(q) \/ Stops(q)) => Busy(q)
    BY DEF Covers, Stops, Busy, OfTyping, Asking
  <2>3. ~Busy(r)
    BY <1>2 DEF Busy, Asking
  <2>4. Starting => indicated
    BY <2>1, <2>2, <2>3 DEF AskInv, TypingInv
  <2>5. \A q \in Asked : q # r => ~Busy(q)' /\ ~Stops(q)'
    BY <1>1, <1>3, <2>1, <2>2, DutiesKept
  <2>6. Starting' => indicated' \/ Covers(r)'
    <3>1. CASE Route(r) # "send_multipart"
      BY <1>2, <1>4, <2>4, <3>1
    <3>2. CASE Route(r) = "send_multipart"
      <4>1. Starting => Queue(r) = <<"stop-typing", "send-multipart">>
        BY <2>4, <3>2 DEF Queue
      <4>2. at'[r] = "acting" /\ Route(r)' = Route(r)
        BY <1>1, <1>3, <3>2, Steady
      <4> QED BY <1>3, <1>4, <3>2, <4>1, <4>2 DEF Covers
    <3> QED BY <3>1, <3>2
  <2>7. Stops(r)' => ~Starting'
    <3>1. Route(r)' = Route(r) /\ (Route(r) = "stop_typing" => Queue(r) # << >>)
      <4>1. Route(r) = "stop_typing" => Actions(r) = <<"stop-typing">>
        BY Duties
      <4> QED BY <1>1, <4>1, Steady DEF Queue
    <3>2. Route(r) = "send_multipart" /\ indicated => Queue(r) \notin {<< >>, <<"send-multipart">>}
      BY DEF Queue
    <3> QED BY <1>3, <1>4, <2>4, <3>1, <3>2 DEF Stops
  <2>8. Asked' = Asked
    BY <1>1, Steady
  <2> QED BY <2>5, <2>6, <2>7, <2>8 DEF TypingInv
<1> QED BY <1>6, <1>7

\* A plan that begins with a stop is not one that has stopped.
LEMMA TypingAsk == ASSUME AskInv, NEW r \in Asked, Ask(r) PROVE TypingInv'
<1>1. AskTypes /\ PlanInv /\ Asked \subseteq Askers /\ load' = load /\ load \in AskLoads /\ line \in Seq(Sent)
  BY Facts DEF Ask, AskTypes
<1> DEFINE a == Head(todo[r])
<1>2. /\ at[r] = "acting" /\ todo[r] # << >> /\ todo[r] \in Plans(r) /\ <<r, a>> \in Sent
      /\ a = "start-typing" => Route(r) = "start_typing" /\ Tail(todo[r]) = << >>
      /\ a = "stop-typing" =>
            \/ Route(r) = "stop_typing" /\ Tail(todo[r]) = << >>
            \/ Route(r) = "send_multipart" /\ Tail(todo[r]) = <<"send-multipart">>
      /\ Route(r) = "send_multipart" => a \in {"stop-typing", "send-multipart"}
      /\ Route(r) \in {"start_typing", "stop_typing"} => a = Last(Actions(r))
  <2>1. at[r] = "acting" /\ todo[r] # << >> /\ todo[r] \in Plans(r)
    BY <1>1 DEF Ask, PlanInv
  <2>2. <<r, a>> \in Sent
    BY <2>1, Facts
  <2> HIDE DEF a
  <2> QED BY <1>1, <2>1, <2>2, PlanOf DEF a
<1>3. /\ line' \in {line, Append(line, <<r, a>>)} /\ app' = app /\ indicated' = indicated
      /\ untidy' = (untidy \/ (a \in {"start-typing", "stop-typing"} /\ line' = line))
  BY DEF Ask
<1>4. a \in FireAndForgetActions => todo' = [todo EXCEPT ![r] = Tail(@)] /\ at' = at
  BY DEF Ask
<1>5. a \notin FireAndForgetActions => todo' = todo /\ at' = [at EXCEPT ![r] = "waiting"]
  BY DEF Ask
<1> HIDE DEF a
<1>6. \A q \in Asked : q # r => todo'[q] = todo[q] /\ at'[q] = at[q]
  BY <1>1, <1>4, <1>5 DEF AskTypes
<1>7. Route(r)' = Route(r) /\ (untidy => untidy') /\ {"start-typing", "stop-typing"} \subseteq FireAndForgetActions
  BY <1>1, <1>3, Steady DEF FireAndForgetActions, AskTypes
<1>8. CASE a \notin {"start-typing", "stop-typing"}
  <2>1. Starting' => Starting
    <3>1. CASE line' = line
      BY <1>3, <3>1, StartingKept
    <3>2. CASE line' = Append(line, <<r, a>>)
      <4>1. <<r, a>>[2] \notin {"start-typing", "stop-typing"}
        BY <1>8
      <4> QED BY <1>1, <1>2, <1>3, <3>2, <4>1, StartingAppend
    <3> QED BY <1>3, <3>1, <3>2
  <2>2. Busy(r)' => Busy(r)
    BY <1>2, <1>7 DEF Busy, Asking
  <2>3. ~Covers(r) \/ Covers(r)'
    <3>1. todo[r] # <<"stop-typing", "send-multipart">>
      BY <1>8 DEF a
    <3> QED BY <1>2, <3>1 DEF Covers
  <2>4. Stops(r)' => Stops(r)
    <3>1. Route(r) \notin {"start_typing", "stop_typing"}
      <4>1. Last(<<"start-typing">>) = "start-typing" /\ Last(<<"stop-typing">>) = "stop-typing"
        BY DEF Last
      <4>2. /\ Route(r) = "start_typing" => Actions(r) = <<"start-typing">>
            /\ Route(r) = "stop_typing" => Actions(r) = <<"stop-typing">>
        BY Duties
      <4> QED BY <1>2, <1>8, <4>1, <4>2
    <3>2. Route(r) = "send_multipart" => todo[r] = <<"send-multipart">>
      BY <1>2, <1>8 DEF Plans, a
    <3>3. at[r] \in Asking
      BY <1>2 DEF Asking
    <3> QED BY <1>7, <3>1, <3>2, <3>3 DEF Stops
  <2> QED BY <1>1, <1>3, <1>6, <1>7, <2>1, <2>2, <2>3, <2>4, QuietStep
<1>9. CASE a \in {"start-typing", "stop-typing"}
  <2> SUFFICES ASSUME ~untidy' PROVE TypingInv'
    BY DEF TypingInv
  <2>1. line' = Append(line, <<r, a>>) /\ ~untidy /\ todo' = [todo EXCEPT ![r] = Tail(@)] /\ at' = at
    BY <1>1, <1>3, <1>4, <1>7, <1>9 DEF AskTypes
  <2>2. todo'[r] = Tail(todo[r]) /\ Asked' = Asked
    BY <1>1, <2>1, Steady DEF AskTypes
  <2>3. \A q, p \in Asked : Busy(q)' /\ Busy(p)' => q = p
    BY <1>1, <2>1, Steady DEF AskInv, TypingInv, Busy
  <2>4. CASE a = "start-typing"
    <3>1. Covers(r)'
      BY <1>2, <1>7, <2>1, <2>2, <2>4 DEF Covers
    <3>2. \A q \in Asked : ~Stops(q)'
      <4>1. Busy(r)' /\ ~Stops(r)'
        BY <1>2, <1>7, <2>1, <2>4 DEF Busy, Stops, OfTyping, Asking
      <4>2. \A q \in Asked : Stops(q)' => Busy(q)'
        BY DEF Stops, Busy, OfTyping
      <4> QED BY <2>3, <4>1, <4>2
    <3> QED BY <2>2, <2>3, <3>1, <3>2 DEF TypingInv
  <2>5. CASE a = "stop-typing"
    <3>1. <<r, a>>[2] = "stop-typing"
      BY <2>5
    <3>2. ~Starting'
      BY <1>1, <1>2, <1>3, <2>1, <3>1, StartingAppend
    <3> QED BY <2>3, <2>2, <3>2 DEF TypingInv
  <2> QED BY <1>9, <2>4, <2>5
<1> QED BY <1>8, <1>9

\* The steps that only end a request, or leave it where it waits for chat.db.
LEMMA TypingEnd ==
  ASSUME AskInv, NEW r \in Asked,
         \/ Refuse(r) \/ Already(r) \/ Refused(r) \/ Expire(r) \/ Poll(r) \/ Misread(r) \/ GiveUp(r)
  PROVE  TypingInv'
<1>1. AskTypes /\ PlanInv /\ Asked \subseteq Askers /\ load \in AskLoads
  BY Facts DEF AskTypes
<1>2. PICK how \in Over : at' = [at EXCEPT ![r] = how]
  BY DEF Refuse, Already, Refused, Expire, Poll, Misread, GiveUp, End, Over
<1>3. UNCHANGED <<load, todo, line, app>>
  BY DEF Refuse, Already, Refused, Expire, Poll, Misread, GiveUp
<1>4. (indicated' = indicated /\ untidy' = untidy) \/ (untidy' /\ Refuse(r))
  BY DEF Refuse, Already, Refused, Expire, Poll, Misread, GiveUp
<1>5. at'[r] \in Over /\ \A q \in Asked : q # r => at'[q] = at[q]
  BY <1>1, <1>2 DEF AskTypes
<1>6. ~Covers(r)
  <2>1. CASE Refuse(r)
    <3>1. Route(r) = "send_multipart" => Actions(r) = <<"send-multipart">>
      BY Duties
    <3> QED BY <2>1, <3>1 DEF Refuse, Covers
  <2>2. CASE ~Refuse(r)
    <3>1. at[r] # "acting"
      BY <2>2 DEF Already, Refused, Expire, Poll, Misread, GiveUp
    <3> QED BY <3>1 DEF Covers
  <2> QED BY <2>1, <2>2
<1>7. ~Busy(r)' /\ ~Stops(r)'
  BY <1>5 DEF Busy, Stops, Over, Asking
<1>8. Starting' = Starting
  BY <1>3, StartingKept
<1> QED BY <1>3, <1>4, <1>5, <1>6, <1>7, <1>8, QuietStep

LEMMA TypingRest ==
  ASSUME AskInv, NEW r \in Asked, Answered(r) \/ Finish(r) \/ Script(r) \/ Drop(r)
  PROVE  TypingInv'
<1>1. AskTypes /\ PlanInv /\ Asked \subseteq Askers /\ load \in AskLoads
  BY Facts DEF AskTypes
<1>2. CASE Answered(r)
  <2>1. /\ UNCHANGED <<load, line, app, indicated, untidy>> /\ at[r] = "waiting"
        /\ at' = [at EXCEPT ![r] = "acting"] /\ todo' = [todo EXCEPT ![r] = Tail(@)]
    BY <1>2 DEF Answered
  <2>2. /\ at'[r] = "acting" /\ todo'[r] = Tail(todo[r])
        /\ \A q \in Asked : q # r => at'[q] = at[q] /\ todo'[q] = todo[q]
    BY <1>1, <2>1 DEF AskTypes
  <2>3. todo[r] # << >> /\ Head(todo[r]) \notin FireAndForgetActions /\ todo[r] \in Plans(r)
    BY <1>1, <2>1 DEF PlanInv
  <2>4. Route(r) \notin {"start_typing", "stop_typing"}
    <3>1. Last(<<"start-typing">>) = "start-typing" /\ Last(<<"stop-typing">>) = "stop-typing"
      BY DEF Last
    <3>2. /\ Route(r) = "start_typing" => Actions(r) = <<"start-typing">>
          /\ Route(r) = "stop_typing" => Actions(r) = <<"stop-typing">>
      BY Duties
    <3>3. Route(r) \in {"start_typing", "stop_typing"} => Head(todo[r]) = Last(Actions(r))
      BY <2>3, Duties
    <3> QED BY <2>3, <3>1, <3>2, <3>3 DEF FireAndForgetActions
  <2>5. Route(r) = "send_multipart" => todo[r] = <<"send-multipart">>
    BY <2>3 DEF Plans, FireAndForgetActions
  <2>6. Route(r)' = Route(r) /\ Starting' = Starting /\ at[r] \in Asking
    BY <2>1, Steady, StartingKept DEF Asking
  <2>7. (Busy(r)' => Busy(r)) /\ ~Covers(r) /\ (Stops(r)' => Stops(r))
    BY <2>1, <2>4, <2>5, <2>6 DEF Busy, Covers, Stops
  <2> QED BY <2>1, <2>2, <2>6, <2>7, QuietStep
<1>3. CASE Finish(r)
  <2>1. /\ UNCHANGED <<load, line, app, untidy, todo>> /\ at[r] = "acting" /\ todo[r] = << >>
        /\ indicated' = CASE Route(r) = "start_typing" -> TRUE [] Route(r) = "stop_typing"  -> FALSE [] OTHER -> indicated
        /\ \E how \in {"confirming", "done"} : at' = [at EXCEPT ![r] = how]
    BY <1>3 DEF Finish, End
  <2>2. \A q \in Asked : q # r => at'[q] = at[q]
    BY <1>1, <2>1 DEF AskTypes
  <2>3. Route(r)' = Route(r) /\ Starting' = Starting /\ at[r] \in Asking
    BY <2>1, Steady, StartingKept DEF Asking
  <2>4. (Busy(r)' => Busy(r)) /\ (Stops(r)' => Stops(r))
    BY <2>1, <2>3 DEF Busy, Stops
  <2>5. CASE Route(r) = "stop_typing"
    <3> SUFFICES ASSUME ~untidy' PROVE TypingInv'
      BY DEF TypingInv
    <3>1. Stops(r) /\ ~untidy
      BY <2>1, <2>3, <2>5 DEF Stops
    <3>2. ~Starting
      BY <3>1 DEF AskInv, TypingInv
    <3>3. \A q \in Asked : Busy(q)' => Busy(q)
      BY <2>1, <2>2, <2>4, DutiesKept
    <3>4. \A p, q \in Asked : Busy(p) /\ Busy(q) => p = q
      BY <3>1 DEF AskInv, TypingInv
    <3>5. Asked' = Asked
      BY <2>1, Steady
    <3> QED BY <2>3, <3>2, <3>3, <3>4, <3>5 DEF TypingInv
  <2>6. CASE Route(r) # "stop_typing"
    <3>1. (indicated => indicated') /\ (Covers(r) => indicated')
      BY <2>1, <2>6 DEF Covers
    <3> QED BY <2>1, <2>2, <2>3, <2>4, <3>1, QuietStep
  <2> QED BY <2>5, <2>6
<1>4. CASE Script(r)
  <2>1. /\ UNCHANGED <<load, todo, line, indicated, untidy>> /\ at[r] = "scripting"
        /\ app' = app \/ app' = After([chat |-> 1, message |-> 1])
        /\ \E how : at' = [at EXCEPT ![r] = how]
    BY <1>4 DEF Script, End
  <2>2. \A q \in Asked : q # r => at'[q] = at[q]
    BY <1>1, <2>1 DEF AskTypes
  <2>3. Route(r) = "create_script" /\ Route(r)' = Route(r)
    BY <1>1, <2>1, Steady DEF PlanInv
  <2>4. app'["typing"] = app["typing"]
    <3>1. "typing" \in Attributes /\ "typing" \notin DOMAIN [chat |-> 1, message |-> 1]
      BY DEF Attributes
    <3> QED BY <2>1, <3>1, AfterOf
  <2>5. Starting' = Starting
    BY <2>1, <2>4, StartingKept
  <2>6. ~Busy(r)' /\ ~Covers(r) /\ ~Stops(r)'
    BY <2>3 DEF Busy, Covers, Stops, OfTyping
  <2> QED BY <2>1, <2>2, <2>5, <2>6, QuietStep
<1>5. CASE Drop(r)
  <2>1. /\ UNCHANGED <<load, todo, app, indicated>> /\ at' = [at EXCEPT ![r] = "dropped"]
        /\ line' = line \/ (at[r] = "acting" /\ todo[r] # << >> /\ line' = Append(line, <<r, Head(todo[r])>>))
        /\ untidy' = (untidy \/ Route(r) \in OfTyping)
    BY <1>5 DEF Drop, End
  <2>2. CASE Route(r) \in OfTyping
    BY <2>1, <2>2 DEF TypingInv
  <2>3. CASE Route(r) \notin OfTyping
    <3>1. at'[r] = "dropped" /\ \A q \in Asked : q # r => at'[q] = at[q]
      BY <1>1, <2>1 DEF AskTypes
    <3>2. Starting' => Starting
      <4>1. CASE line' = line
        BY <2>1, <4>1, StartingKept
      <4>2. CASE line' # line
        <5> DEFINE p == <<r, Head(todo[r])>>
        <5>1. todo[r] # << >> /\ line' = Append(line, p) /\ todo[r] \in Plans(r)
          BY <1>1, <2>1, <4>2 DEF PlanInv
        <5>2. Head(todo[r]) \notin {"start-typing", "stop-typing"}
          BY <1>1, <2>3, <5>1, PlanOf DEF OfTyping
        <5>3. p \in Sent /\ p[2] \notin {"start-typing", "stop-typing"}
          BY <5>1, <5>2, Facts
        <5> HIDE DEF p
        <5>4. line \in Seq(Sent) /\ app' = app
          BY <1>1, <2>1 DEF AskTypes
        <5> QED BY <5>1, <5>3, <5>4, StartingAppend
      <4> QED BY <4>1, <4>2
    <3>3. ~Busy(r)' /\ ~Covers(r) /\ ~Stops(r)' /\ untidy' = untidy
      BY <1>1, <2>1, <2>3, <3>1, Steady DEF Busy, Covers, Stops, OfTyping, Asking, AskTypes
    <3> QED BY <2>1, <3>1, <3>2, <3>3, QuietStep
  <2> QED BY <2>2, <2>3
<1> QED BY <1>2, <1>3, <1>4, <1>5

LEMMA TypingWorld ==
  ASSUME AskInv, Handle \/ Die \/ User \/ \E x \in Attributes : Sync(x)
  PROVE  TypingInv'
<1>1. AskTypes /\ line \in Seq(Sent) /\ "typing" \in Attributes
  BY Facts DEF AskTypes, Attributes
<1>2. UNCHANGED <<load, at, todo, indicated>>
  BY DEF Handle, Die, User, Sync, handlers
<1>3. untidy => untidy'
  BY <1>1 DEF Handle, Die, User, Sync, AskTypes
<1>4. untidy' \/ (Starting' => Starting)
  <2>1. CASE Handle
    <3> DEFINE r == Head(line)[1]
               a == Head(line)[2]
               o == Outcome(Handler(r, a), Missing(r, a))
    <3>1. /\ line # << >> /\ line' = Tail(line)
          /\ app' = app \/ app' = After(Effect(r, a))
          /\ o = "ok" => app' = After(Effect(r, a))
          /\ untidy' = (untidy \/ (a \in {"start-typing", "stop-typing"} /\ o # "ok"))
      BY <2>1 DEF Handle
    <3>2. /\ a = "stop-typing" => After(Effect(r, a))["typing"] = 0
          /\ a \notin {"start-typing", "stop-typing"} => After(Effect(r, a))["typing"] = app["typing"]
      BY EffectOf
    <3>3. untidy' \/ a = "start-typing" \/ app'["typing"] # 1 \/ (app'["typing"] = app["typing"] /\ a # "stop-typing")
      <4> HIDE DEF r, a, o
      <4>1. CASE a \notin {"start-typing", "stop-typing"}
        <5>1. app' = app \/ app' = After(Effect(r, a))
          BY <3>1
        <5> QED BY <3>2, <4>1, <5>1
      <4>2. CASE a = "stop-typing" /\ o = "ok"
        <5>1. app' = After(Effect(r, a))
          BY <3>1, <4>2
        <5> QED BY <3>2, <4>2, <5>1
      <4>3. CASE a = "stop-typing" /\ o # "ok"
        BY <1>1, <3>1, <4>3 DEF AskTypes
      <4> QED BY <4>1, <4>2, <4>3
    <3> QED BY <1>1, <3>1, <3>3, StartingTail
  <2>2. CASE Die
    <3>1. line' = << >> /\ app'["typing"] = 0
      BY <1>1, <2>2 DEF Die, AskTypes
    <3> QED BY <3>1 DEF Starting
  <2>3. CASE User \/ \E x \in Attributes : Sync(x)
    <3>1. line' = line /\ (app' = app \/ \E x \in Attributes \ {"typing"}, v \in Nat : app' = [app EXCEPT ![x] = v])
      BY <2>3 DEF User, Sync, Attributes
    <3>2. app'["typing"] = app["typing"]
      BY <1>1, <3>1 DEF AskTypes
    <3> QED BY <3>1, <3>2, StartingKept
  <2> QED BY <2>1, <2>2, <2>3
<1>5. CASE untidy'
  BY <1>5 DEF TypingInv
<1>6. CASE Starting' => Starting
  BY <1>2, <1>3, <1>6, DutiesKept, Quiet
<1> QED BY <1>4, <1>5, <1>6

-----------------------------------------------------------------------------
(* The theorems.                                                           *)

LEMMA AskKeeps == ASSUME AskInv, AskNext PROVE AskInv'
<1>1. AskTypes' /\ PlanInv'
  <2>1. CASE \E r \in Asked : Begin(r) \/ Ask(r) \/ Answered(r) \/ Script(r) \/ Drop(r)
    BY <2>1, BeginTypes, AskTypesKeep, AnsweredTypes, ScriptTypes, DropTypes
  <2>2. CASE \E r \in Asked : Refuse(r) \/ Already(r) \/ Refused(r) \/ Expire(r) \/ Finish(r) \/ Poll(r) \/ Misread(r) \/ GiveUp(r)
    BY <2>2, EndTypes
  <2>3. CASE Handle \/ Die \/ User \/ \E x \in Attributes : Sync(x)
    BY <2>3, HandleTypes, WorldTypes
  <2> QED BY <2>1, <2>2, <2>3 DEF AskNext, RouteStep
<1>2. TypingInv'
  <2>1. CASE \E r \in Asked : Begin(r) \/ Ask(r)
    BY <2>1, TypingBegin, TypingAsk
  <2>2. CASE \E r \in Asked : Refuse(r) \/ Already(r) \/ Refused(r) \/ Expire(r) \/ Poll(r) \/ Misread(r) \/ GiveUp(r)
    BY <2>2, TypingEnd
  <2>3. CASE \E r \in Asked : Answered(r) \/ Finish(r) \/ Script(r) \/ Drop(r)
    BY <2>3, TypingRest
  <2>4. CASE Handle \/ Die \/ User \/ \E x \in Attributes : Sync(x)
    BY <2>4, TypingWorld
  <2> QED BY <2>1, <2>2, <2>3, <2>4 DEF AskNext, RouteStep
<1>3. DoneInv' /\ SilenceExplained' /\ DbInv' /\ ConfirmedRightly'
  BY DoneKeeps, SilenceKeeps, DbKeeps, ConfirmedKeeps
<1> QED BY <1>1, <1>2, <1>3 DEF AskInv

LEMMA AskStill == ASSUME AskInv, UNCHANGED askVars PROVE AskInv'
<1>1. load' = load /\ UNCHANGED <<at, todo, heard, base, indicated, told, misread>>
      /\ UNCHANGED <<line, app, db, applied, untidy>>
  BY DEF askVars, handlers
<1>2. AskTypes /\ PlanInv /\ DoneInv /\ SilenceExplained /\ DbInv /\ ConfirmedRightly
  BY DEF AskInv
<1>3. AskTypes'
  BY <1>1, <1>2, TypesKept DEF AskTypes
<1>4. PlanInv'
  BY <1>1, <1>2, PlanStill
<1>5. DoneInv'
  BY <1>1, <1>2, Steady DEF DoneInv, Past, Done
<1>6. SilenceExplained' /\ DbInv' /\ ConfirmedRightly'
  BY <1>1, <1>2, Steady DEF SilenceExplained, DbInv, ConfirmedRightly
<1>7. TypingInv'
  <2>1. Starting' = Starting /\ \A q \in Asked : Busy(q)' = Busy(q) /\ Covers(q)' = Covers(q) /\ Stops(q)' = Stops(q)
    BY <1>1, StartingKept, DutiesKept
  <2> QED BY <1>1, <2>1, Quiet
<1> QED BY <1>3, <1>4, <1>5, <1>6, <1>7 DEF AskInv

LEMMA AskInvariant == AskSpec => []AskInv
<1>1. AskInv /\ [AskNext]_askVars => AskInv'
  BY AskKeeps, AskStill
<1> QED BY <1>1, AskStart, PTL DEF AskSpec

\* The types of the routes' state hold at all times, for any requests and frameworks.
THEOREM AskTyped == AskSpec => []AskTypeOK
<1>1. AskInv => AskTypeOK
  <2> SUFFICES ASSUME AskInv PROVE AskTypeOK
    OBVIOUS
  <2>1. AskTypes /\ PlanInv /\ load \in AskLoads
    BY DEF AskInv, AskTypes
  <2>2. \A r \in Askers : Len(todo[r]) <= 2
    <3>1. ASSUME NEW r \in Askers PROVE Len(todo[r]) <= 2
      <4>1. todo[r] \in AllPlans
        BY <2>1 DEF AskTypes
      <4>2. CASE todo[r] = << >>
        BY <4>2
      <4>3. CASE \E q \in Asked : todo[r] \in Plans(q)
        BY <2>1, <4>3, PlanOf
      <4> QED BY <4>1, <4>2, <4>3 DEF AllPlans
    <3> QED BY <3>1
  <2>3. \A i \in 1 .. Len(line) : line[i][1] \in Asked
    <3>1. \A i \in 1 .. Len(line) : line[i] \in Sent
      BY <2>1 DEF AskTypes
    <3> QED BY <3>1 DEF Sent
  <2> QED BY <2>1, <2>2, <2>3 DEF AskTypes, AskTypeOK
<1> QED BY <1>1, AskInvariant, PTL

\* A route that reports success of a transaction had its last action executed in full,
\* or a piece of the frameworks is missing for want of which the handler skips it.
THEOREM SuccessMeansDone == AskSpec => []OkMeansDone
<1>1. AskInv => OkMeansDone
  BY DEF AskInv, DoneInv, Transacts, Past, Done, Skippable, OkMeansDone
<1> QED BY <1>1, AskInvariant, PTL

\* The helper leaves no transaction without an answer but for want of a piece of the
\* frameworks, or in the two handlers that say nothing of a message they do not find.
THEOREM SilenceAccounted == AskSpec => []SilenceExplained
<1>1. AskInv => SilenceExplained
  BY DEF AskInv
<1> QED BY <1>1, AskInvariant, PTL

\* An indicator that is on is one the next send will stop, unless a typing action was
\* lost, failed, was dropped or overlapped another.
THEOREM IndicatorCovered == AskSpec => []TypingCovered
<1>1. AskInv => TypingCovered
  <2> SUFFICES ASSUME AskInv, app["typing"] = 1, ~untidy, line = << >>,
                      \A r \in Asked : Route(r) \in OfTyping => at[r] \notin Asking
               PROVE  indicated
    BY DEF TypingCovered
  <2>1. Starting
    BY DEF Starting
  <2>2. \A r \in Asked : ~Covers(r)
    BY DEF Covers, OfTyping, Asking
  <2> QED BY <2>1, <2>2 DEF AskInv, TypingInv
<1> QED BY <1>1, AskInvariant, PTL

\* A chat reported deleted is gone, and an attachment reported downloaded is there, but
\* for a failed query taken for an answer and a chat that another request makes.
THEOREM Confirmed == AskSpec => []ConfirmedRightly
<1>1. AskInv => ConfirmedRightly
  BY DEF AskInv
<1> QED BY <1>1, AskInvariant, PTL

=============================================================================
