------------------------------- MODULE ModelApi -------------------------------
(***************************************************************************)
(* The endpoints of internal/platform/providerkey and custommodel: what is *)
(* the caller's own, and what is everybody's.  A key belongs to an owner   *)
(* and a provider; no constraint keeps it the only one.                    *)
(***************************************************************************)
EXTENDS ApiSteps

Key == "provider_key"

SetKeyRequest == Body({"text"}, {})

mapError == [notFound |-> 404, other |-> 500]

SetKey == Encrypt \o Upsert(Key)
ListKeys == ListWhere(Key, "owner")
DeleteKey == DeleteWhere(Key, "key", mapError.notFound)

ManageKeys == RequireAccessLevelWildcard(Key, "manage")
AllKeys == Needs("any", Key, "manage")

SetGlobal == Endpoint(AllKeys, Bind \o SetKey \o Reply(200))
ListGlobal == Endpoint(AllKeys, ListKeys \o Reply(200))
DeleteGlobal == Endpoint(AllKeys, DeleteKey \o Reply(200))
SetMine == Endpoint(Self, Bind \o SetKey \o Reply(200))
ListMine == Endpoint(Self, ListKeys \o Reply(200))
DeleteMine == Endpoint(Self, DeleteKey \o Reply(200))

RegisterRoutes ==
    {Route("POST /provider-keys/me", Key, "mine/path", SetKeyRequest, <<>>, SetMine),
     Route("GET /provider-keys/me", Key, "mine/path", NoBody, <<>>, ListMine),
     Route("DELETE /provider-keys/me/:provider", Key, "mine/path", NoBody, <<>>,
           DeleteMine),
     Route("POST /provider-keys", Key, "global/path", SetKeyRequest, ManageKeys,
           SetGlobal),
     Route("GET /provider-keys", Key, "global/path", NoBody, ManageKeys, ListGlobal),
     Route("DELETE /provider-keys/:provider", Key, "global/path", NoBody, ManageKeys,
           DeleteGlobal)}

-----------------------------------------------------------------------------
Model == "custom_model"

CreateCustomModelRequest == Body({"text"}, {})

modelError == [notFound |-> 404, other |-> 500]   \* mapError of custommodel

ModelCreate == Encrypt \o Create(Model)
ModelsOfOwner == ListWhere(Model, "key")
GlobalModels == ListWhere(Model, "global")

ModelDelete == DeleteWhere(Model, "id and key", modelError.notFound)

ManageModels == RequireAccessLevelWildcard(Model, "manage")
AllModels == Needs("any", Model, "manage")

CreateMyModel == Endpoint(Self, Bind \o ModelCreate \o Reply(201))
ListMyModels == Endpoint(Self, ModelsOfOwner \o Reply(200))
DeleteMyModel == Endpoint(Self, RequireIDParam \o ModelDelete \o Reply(200))
ListAccessible == Endpoint(Self, ModelsOfOwner \o GlobalModels \o Reply(200))
CreateGlobalModel == Endpoint(AllModels, Bind \o ModelCreate \o Reply(201))
ListGlobalModels == Endpoint(AllModels, GlobalModels \o Reply(200))
DeleteGlobalModel == Endpoint(AllModels, RequireIDParam \o ModelDelete \o Reply(200))

ModelRoutes ==
    {Route("POST /custom-models/me", Model, "mine", CreateCustomModelRequest, <<>>,
           CreateMyModel),
     Route("GET /custom-models/me", Model, "mine", NoBody, <<>>, ListMyModels),
     Route("DELETE /custom-models/me/:id", Model, "mine+id", NoBody, <<>>, DeleteMyModel),
     Route("GET /custom-models/available", Model, "mine", NoBody, <<>>, ListAccessible),
     Route("POST /custom-models", Model, "global", CreateCustomModelRequest,
           ManageModels, CreateGlobalModel),
     Route("GET /custom-models", Model, "global", NoBody, ManageModels,
           ListGlobalModels),
     Route("DELETE /custom-models/:id", Model, "global+id", NoBody, ManageModels,
           DeleteGlobalModel)}
=============================================================================
