--------------------------- MODULE ConversationApi ---------------------------
(***************************************************************************)
(* The endpoints of internal/platform/chat and chat_settings that are not  *)
(* a turn (ChatTurn has those).  A conversation has its owner for its key, *)
(* its settings have the conversation.                                     *)
(***************************************************************************)
EXTENDS ApiSteps

Conversation == "conversation"
ChatSetting == "chat_setting"
Message == "message"

CreateConversationRequest == Body({"title", "model"}, {})
UpdateConversationRequest == Body({}, {"title", "model"})
UpdateChatSettingRequest == Body({"text"}, {})

notFound == 404

\* canAccess: the owner may, whoever may on the conversation, or on its owner.
CanAccess(level) == Check("held", Conversation, level, notFound)

ServiceCreate == CreateBoth(Conversation, ChatSetting)
ServiceGet == FindByID(Conversation, notFound) \o CanAccess("read")
ServiceList == ListWhere(Conversation, "key")
ServiceUpdate ==
    FindByID(Conversation, notFound) \o CanAccess("write") \o Save(Conversation)

ServiceDelete ==
    FindByID(Conversation, notFound) \o CanAccess("manage")
        \o DeleteWhere(Message, "key", EvenIfNone) \o Delete(Conversation, notFound)
ServiceListMessages == ServiceGet \o ListWhere(Message, "key")

CreateConversation == Endpoint(Self, Bind \o ServiceCreate \o Reply(201))
ListConversations == Endpoint(Self, Bind \o ServiceList \o Reply(200))
UpdateConversation ==
    Endpoint(Needs("held", Conversation, "write"),
             RequireIDParam \o Bind \o ServiceUpdate \o Reply(200))
DeleteConversation ==
    Endpoint(Needs("held", Conversation, "manage"),
             RequireIDParam \o ServiceDelete \o Reply(200))
GetMessages ==
    Endpoint(Needs("held", Conversation, "read"),
             RequireIDParam \o Bind \o ServiceListMessages \o Reply(200))

RegisterRoutes ==
    {Route("POST /conversations", Conversation, "mine", CreateConversationRequest,
           <<>>, CreateConversation),
     Route("GET /conversations", Conversation, "mine", NoBody, <<>>, ListConversations),
     Route("PUT /conversations/:id", Conversation, "path", UpdateConversationRequest,
           <<>>, UpdateConversation),
     Route("DELETE /conversations/:id", Conversation, "path", NoBody, <<>>,
           DeleteConversation),
     Route("GET /conversations/:id/messages", Conversation, "path", NoBody, <<>>,
           GetMessages)}

-----------------------------------------------------------------------------
\* RequireCustomCheckOnParam, with the Get above for its check.
requireAccess == RequireIDParam \o ServiceGet

FindByConversationID == Seek(ChatSetting) \o IfMissing(notFound)
SettingsGet == FindByConversationID
SettingsUpsert == FindByConversationID \o Save(ChatSetting)

GetSettings ==
    Endpoint(Needs("held", Conversation, "read"), GetByIDHandler(SettingsGet))
UpdateSettings ==
    Endpoint(Needs("held", Conversation, "read"), UpdateHandler(SettingsUpsert))

SettingsRoutes ==
    {Route("GET /conversations/:id/settings", Conversation, "path", NoBody,
           requireAccess, GetSettings),
     Route("PUT /conversations/:id/settings", Conversation, "path",
           UpdateChatSettingRequest, requireAccess, UpdateSettings)}
=============================================================================
