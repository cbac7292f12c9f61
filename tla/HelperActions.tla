--------------------------- MODULE HelperActions ---------------------------
(***************************************************************************)
(* What the handlers of the injected helper need, and what the server      *)
(* sends them.  A handler is a sequence of guards in the order of its      *)
(* code.  A need is a field of the action's data or a fact about the app:  *)
(* a class or selector of Apple's private frameworks, or a chat, message   *)
(* or call the handler looks up.  A need that is not met ends the handler  *)
(* with an error or with no answer at all, or makes it skip a part of what *)
(* it was asked to do, go on, and answer success all the same.             *)
(***************************************************************************)
EXTENDS Naturals, Sequences

Must(n) == << [need |-> n, otherwise |-> "error"] >>
Hush(n) == << [need |-> n, otherwise |-> "silent"] >>
Soft(n) == << [need |-> n, otherwise |-> "skipped"] >>

\* How a handler ends when exactly these needs are not met: the first of its guards
\* that ends it decides, and without one whether it skipped anything.  "ok" and
\* "skipped" are both told to the server as success.
Outcome(guards, missing) ==
    LET failed == {i \in DOMAIN guards : guards[i].need \in missing}
        ending == {i \in failed : guards[i].otherwise # "skipped"}
    IN IF ending # {} THEN guards[CHOOSE i \in ending : \A j \in ending : i <= j].otherwise
       ELSE IF failed = {} THEN "ok" ELSE "skipped"

-----------------------------------------------------------------------------
(* Helpers of PrivateAPI.swift, and the making of a file transfer.         *)
(* "message": the history controller loads it.                             *)

GetChat     == Must("chatGuid") \o Must("registry") \o Must("chat")
SendTapback == Must("IMTapbackSender") \o Must("tapback initializer")

PrepareFileTransfer ==
    Must("transfer center") \o Must("transfer") \o Must("path selector") \o Must("copy")
    \o Soft("retargetTransfer") \o Soft("registerTransferWithDaemon")

EmojiTapback        == Must("IMEmojiTapback") \o SendTapback
StickerTapback(off) == (IF off THEN << >> ELSE PrepareFileTransfer) \o Must("IMStickerTapback") \o SendTapback

-----------------------------------------------------------------------------
(* Messages: f is the set of fields that are there and not empty.          *)

\* createAndSend: without its initializer an empty message is sent.
CreateAndSend(initializer) == Hush("IMMessage") \o Soft(initializer) \o Soft("sendMessage")

SendMessage(f) ==
    GetChat \o
    IF "selectedMessageGuid" \notin f THEN CreateAndSend("message initializer")
    ELSE Must("message") \o
         IF "reactionType" \notin f THEN CreateAndSend("message initializer")
         ELSE IF "emoji" \in f THEN EmojiTapback
         ELSE IF "stickerPath" \in f THEN StickerTapback("removal" \in f)
         ELSE CreateAndSend("reaction initializer")

EditMessage   == GetChat \o Hush("messageGuid") \o Must("message") \o Must("item") \o Must("edit selector")
UnsendMessage == GetChat \o Hush("messageGuid") \o Must("message") \o Must("item")
                 \o Soft("part") \o Soft("retractMessagePart")
DeleteMessage == GetChat \o Hush("messageGuid") \o Must("message") \o Must("item")
                 \o Soft("deleteChatItems")
NotifyAnyways == GetChat \o Hush("messageGuid") \o Hush("message") \o Hush("item")
                 \o Soft("markChatItemAsNotifyRecipient")

SearchMessages == Must("query") \o Must("search")

\* The parts that become file transfers: the key is filePath; any other part is
\* its text, which is empty if the part has none.
Transfers(parts)  == {p \in parts : "filePath" \in p}
SendMultipart(f) == Hush("parts") \o SendMessage(f)

-----------------------------------------------------------------------------
(* Chats.                                                                  *)

OnChat(selector) == GetChat \o Soft(selector)

\* It looks for its chat without a transaction, and answers with an event.
CheckTypingStatus == Hush("chatGuid") \o Hush("registry") \o Hush("chat") \o Hush("an answer")
SetDisplayName    == Must("newName") \o OnChat("_setDisplayName")
Invite(selectors) == GetChat \o Must("address") \o Must("handle") \o selectors
\* "consent": the chat says that it takes the handle; one that cannot say is not asked.
AddParticipant    == Invite(Must("consent") \o Must("inviteParticipants"))
RemoveParticipant == Invite(Must("removeParticipants"))
CreateChat(f)     == Must("addresses") \o Must("handle") \o Must("registry") \o Must("new chat")
                     \o SendMessage(f \cup {"chatGuid"})
DeleteChat        == GetChat \o Hush("registry") \o Soft("_chat_remove")
LeaveChat         == OnChat("leave or leaveiMessageGroup")

UpdateChatPinned ==
    GetChat \o Hush("IMPinnedConversationsController") \o Hush("pinned identifiers") \o Soft("setPinned")

-----------------------------------------------------------------------------
(* Attachments.                                                            *)

SendAttachment(f)   == Must("filePath") \o PrepareFileTransfer \o SendMessage(f)
UpdateGroupPhoto(f) ==
    GetChat \o (IF "filePath" \in f THEN PrepareFileTransfer ELSE << >>) \o Soft("sendGroupPhotoUpdate")

DownloadPurgedAttachment ==
    Must("attachmentGuid") \o Must("transfer center") \o Must("purged")
    \o Soft("registerTransferWithDaemon") \o Soft("acceptTransfer")

BalloonBundleMediaPath == GetChat \o Hush("messageGuid") \o Hush("message") \o Hush("plugin item")
                          \o Hush("data source") \o Hush("generator") \o Hush("url")

-----------------------------------------------------------------------------
(* Accounts and handles.                                                   *)

CheckFocusStatus  == Must("address") \o Must("handle") \o Must("availability manager")
CheckAvailability == Must("address") \o Must("aliasType") \o Must("IDS symbols") \o Must("query controller")

GetAccountInfo    == Must("account")
ModifyActiveAlias == Must("alias") \o Must("account") \o Soft("setDisplayName")

ShouldOfferNicknameSharing == GetChat \o Must("IMNicknameController") \o Hush("shouldOffer")
ShareNickname              == GetChat \o Hush("IMNicknameController") \o Soft("allowHandles")
GetNicknameInfo(f)         == Must("IMNicknameController") \o
                              (IF "address" \in f THEN Must("handle") ELSE << >>)

-----------------------------------------------------------------------------
(* FaceTime.  "waiting", "connected": the status of the call.              *)

OnCall(status) == Must("callUUID") \o Must("call") \o Must(status)
AnswerCall     == OnCall("waiting") \o Soft("answerOrJoinCall")
LeaveCall      == OnCall("connected") \o Soft("disconnectCall")

GenerateLink(f) ==
    Must("XPC client") \o (IF "callUUID" \in f THEN Must("call") \o Must("conversation") ELSE << >>)
    \o Must("link")

AdmitPendingMember ==
    Must("conversationUUID") \o Must("handleUUID") \o Must("conversations") \o Must("conversation")
    \o Hush("pendingMembers") \o Must("member") \o Hush("approve selector")

GetActiveLinks == Must("conversations") \o Soft("links")
InvalidateLink == Must("url") \o Must("conversations") \o Hush("links") \o Must("link")
                  \o Must("XPC client") \o Hush("invalidate selector")

-----------------------------------------------------------------------------
(* The three dispatchers: what an app does with an action it knows.        *)

MessagesHandler(a, f) ==
    CASE a = "start-typing"       -> OnChat("setLocalUserIsTyping")
      [] a = "stop-typing"        -> OnChat("setLocalUserIsTyping")
      [] a = "mark-chat-read"     -> OnChat("markAllMessagesAsRead")
      [] a = "mark-chat-unread"   -> OnChat("markLastMessageAsUnread")
      [] a = "check-typing-status" -> CheckTypingStatus
      [] a = "set-display-name"   -> SetDisplayName
      [] a = "add-participant"    -> AddParticipant
      [] a = "remove-participant" -> RemoveParticipant
      [] a = "create-chat"        -> CreateChat(f)
      [] a = "delete-chat"        -> DeleteChat
      [] a = "leave-chat"         -> LeaveChat
      [] a = "update-chat-pinned" -> UpdateChatPinned
      [] a \in {"send-message", "send-reaction"} -> SendMessage(f)
      [] a = "edit-message"       -> EditMessage
      [] a = "unsend-message"     -> UnsendMessage
      [] a = "send-multipart"     -> SendMultipart(f)
      [] a = "delete-message"     -> DeleteMessage
      [] a = "notify-anyways"     -> NotifyAnyways
      [] a = "search-messages"    -> SearchMessages
      [] a = "send-attachment"    -> SendAttachment(f)
      [] a = "balloon-bundle-media-path" -> BalloonBundleMediaPath
      [] a = "update-group-photo" -> UpdateGroupPhoto(f)
      [] a = "download-purged-attachment" -> DownloadPurgedAttachment
      [] a = "check-focus-status" -> CheckFocusStatus
      [] a \in {"check-imessage-availability", "check-facetime-availability"} -> CheckAvailability
      [] a = "get-account-info"   -> GetAccountInfo
      [] a = "modify-active-alias" -> ModifyActiveAlias
      [] a = "should-offer-nickname-sharing" -> ShouldOfferNicknameSharing
      [] a = "share-nickname"     -> ShareNickname
      [] a = "get-nickname-info"  -> GetNicknameInfo(f)
      [] OTHER                    -> Hush("a case")

FaceTimeHandler(a, f) ==
    CASE a = "answer-call"          -> AnswerCall
      [] a = "leave-call"           -> LeaveCall
      [] a = "generate-link"        -> GenerateLink(f)
      [] a = "admit-pending-member" -> AdmitPendingMember
      [] a = "get-active-links"     -> GetActiveLinks
      [] a = "invalidate-link"      -> InvalidateLink
      [] OTHER                      -> Hush("a case")

-----------------------------------------------------------------------------
(* actions.rs: the fields an action carries, beside the options a request  *)
(* may add to a send, and whether it is a transaction.                     *)

OnGuid == {"chatGuid"}

\* Mutant: the builders forget which message is meant.
MessageFieldsForgotten(a) ==
    CASE a = "send-message"   -> {"chatGuid", "message"}
      [] a = "send-multipart" -> {"chatGuid", "parts"}
      [] a = "search-messages" -> {"query", "matchType"}
      [] OTHER                -> OnGuid

MessageFields(a) ==
    CASE a = "send-message"    -> {"chatGuid", "message"}
      [] a = "send-multipart"  -> {"chatGuid", "parts"}
      [] a = "send-reaction"   -> {"chatGuid", "selectedMessageGuid", "reactionType"}
      [] a = "edit-message"    -> {"chatGuid", "messageGuid", "editedMessage", "backwardsCompatibilityMessage"}
      [] a = "search-messages" -> {"query", "matchType"}
      [] OTHER                 -> {"chatGuid", "messageGuid"}

ChatFields(a) ==
    CASE a = "create-chat"      -> {"addresses", "message", "service"}
      [] a \in {"add-participant", "remove-participant"} -> {"chatGuid", "address"}
      [] a = "set-display-name" -> {"chatGuid", "newName"}
      [] OTHER                  -> OnGuid

HandleFields(a) == IF a = "check-focus-status" THEN {"address"} ELSE {"aliasType", "address"}

AttachmentFields(a) == IF a = "send-attachment" THEN {"chatGuid", "filePath"} ELSE {"attachmentGuid"}

OtherFields(a) ==
    CASE a = "get-nickname-info"   -> {"address"}
      [] a = "modify-active-alias" -> {"alias"}
      [] a \in {"answer-call", "leave-call"} -> {"callUUID"}
      [] a = "admit-pending-member" -> {"conversationUUID", "handleUUID"}
      [] OTHER                     -> {}

Fields(a) ==
    CASE a \in {"send-message", "send-multipart", "send-reaction", "edit-message", "unsend-message",
                "balloon-bundle-media-path", "notify-anyways", "search-messages", "delete-message"}
            -> MessageFields(a)
      [] a \in {"create-chat", "start-typing", "stop-typing", "mark-chat-read", "mark-chat-unread",
                "add-participant", "remove-participant", "set-display-name", "update-group-photo",
                "should-offer-nickname-sharing", "share-nickname", "leave-chat", "delete-chat",
                "check-typing-status"}
            -> ChatFields(a)
      [] a \in {"check-focus-status", "check-imessage-availability", "check-facetime-availability"}
            -> HandleFields(a)
      [] a \in {"send-attachment", "download-purged-attachment"} -> AttachmentFields(a)
      [] OTHER -> OtherFields(a)

FieldNames ==
    {"chatGuid", "messageGuid", "parts", "query", "newName", "address", "addresses", "filePath",
     "attachmentGuid", "aliasType", "alias", "callUUID", "conversationUUID", "handleUUID", "url"}

FireAndForgetActions ==
    {"start-typing", "stop-typing", "mark-chat-read", "mark-chat-unread", "share-nickname",
     "download-purged-attachment", "leave-call"}
=============================================================================
