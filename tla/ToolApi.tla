------------------------------- MODULE ToolApi -------------------------------
(***************************************************************************)
(* The endpoints of internal/platform/customtool and agenttool.  The rows  *)
(* of a tool's versions have its id for their key; a tool of the catalog   *)
(* is made by the seeders, and only its visibility ever changes.           *)
(***************************************************************************)
EXTENDS ApiSteps

CustomTool == "custom_tool"
ToolVersion == "tool_version"

CreateToolRequest == Body({"key", "text", "visibility"}, {})   \* key: the name
UpdateToolRequest == Body({}, {"text", "visibility"})
CreateVersionRequest == Body({"version"}, {})

mapError == [notFound |-> 404, other |-> 500]

ServiceCreateTool == Create(CustomTool) \o GrantCreatorAccess
ServiceGetTool == FindByID(CustomTool, mapError.notFound)
ServiceUpdateTool == FindByID(CustomTool, mapError.notFound) \o Save(CustomTool)

RepositoryDeleteTool ==
    DeleteWhere(ToolVersion, "key", EvenIfNone) \o Delete(CustomTool, mapError.notFound)

ServiceListToolsForCaller == ListForCaller(CustomTool, CustomTool)

ServiceCreateVersion == FindByID(CustomTool, mapError.notFound) \o Create(ToolVersion)
ListVersionsForTool == ListWhere(ToolVersion, "key")

CreateTool ==
    Endpoint(Needs("any", CustomTool, "write"),
             Bind \o ServiceCreateTool \o Reply(201))
GetTool == Endpoint(Needs("id", CustomTool, "read"), GetByIDHandler(ServiceGetTool))
UpdateTool ==
    Endpoint(Needs("id", CustomTool, "write"), UpdateHandler(ServiceUpdateTool))
DeleteTool ==
    Endpoint(Needs("id", CustomTool, "manage"), DeleteHandler(RepositoryDeleteTool))
ListTools ==
    Endpoint(Needs("listed", CustomTool, "read"), ListHandler(ServiceListToolsForCaller))
\* A source is built for the server itself; whether it compiles, the reply says.
CheckSource == Endpoint(Needs("any", CustomTool, "write"), Bind \o Reply(200))
CreateVersion ==
    Endpoint(Needs("id", CustomTool, "manage"),
             RequireIDParam \o Bind \o ServiceCreateVersion \o Reply(201))
ListVersions ==
    Endpoint(Needs("id", CustomTool, "read"),
             RequireIDParam \o Bind \o ListVersionsForTool \o Reply(200))

ToolRoutes ==
    {Route("POST /custom-tools", CustomTool, "body", CreateToolRequest,
           RequireAccessLevelWildcard(CustomTool, "write"), CreateTool),
     Route("POST /custom-tools/check-source", CustomTool, "none", NoBody,
           RequireAccessLevelWildcard(CustomTool, "write"), CheckSource),
     Route("GET /custom-tools", CustomTool, "none", NoBody, <<>>, ListTools),
     Route("GET /custom-tools/:id", CustomTool, "path", NoBody,
           RequireAccessLevelOnParam(CustomTool, "read"), GetTool),
     Route("PUT /custom-tools/:id", CustomTool, "path", UpdateToolRequest,
           RequireAccessLevelOnParam(CustomTool, "write"), UpdateTool),
     Route("DELETE /custom-tools/:id", CustomTool, "path", NoBody,
           RequireAccessLevelOnParam(CustomTool, "manage"), DeleteTool),
     Route("POST /custom-tools/:id/versions", CustomTool, "path", CreateVersionRequest,
           RequireAccessLevelOnParam(CustomTool, "manage"), CreateVersion),
     Route("GET /custom-tools/:id/versions", CustomTool, "path", NoBody,
           RequireAccessLevelOnParam(CustomTool, "read"), ListVersions)}

-----------------------------------------------------------------------------
AgentTool == "agent_tool"

SetVisibilityRequest == Body({"visibility"}, {})   \* agenttool.UpdateToolRequest

catalogError == [notFound |-> 404, other |-> 500]   \* mapError of agenttool

CatalogGet == FindByID(AgentTool, catalogError.notFound)
CatalogUpdate == FindByID(AgentTool, catalogError.notFound) \o Save(AgentTool)
CatalogListForCaller == ListForCaller(AgentTool, AgentTool)

GetAgentTool == Endpoint(Needs("id", AgentTool, "read"), GetByIDHandler(CatalogGet))
UpdateAgentTool ==
    Endpoint(Needs("id", AgentTool, "manage"), UpdateHandler(CatalogUpdate))
ListAgentTools ==
    Endpoint(Needs("listed", AgentTool, "read"), ListHandler(CatalogListForCaller))

CatalogRoutes ==
    {Route("GET /agent-tools", AgentTool, "none", NoBody, <<>>, ListAgentTools),
     Route("GET /agent-tools/:id", AgentTool, "path", NoBody,
           RequireAccessLevelOnParam(AgentTool, "read"), GetAgentTool),
     Route("PUT /agent-tools/:id", AgentTool, "path", SetVisibilityRequest,
           RequireAccessLevelOnParam(AgentTool, "manage"), UpdateAgentTool)}
=============================================================================
