---------------------------- MODULE ConnectionApi ----------------------------
(***************************************************************************)
(* The endpoints of internal/platform/sshconn and commandrule.  A rule     *)
(* belongs to the connection its key names, and has no access of its own.  *)
(***************************************************************************)
EXTENDS ApiSteps

SSHConnection == "ssh_connection"   \* table and resource type

CreateSSHConnectionRequest == Body({"name"}, {})
UpdateSSHConnectionRequest == Body({}, {"name", "mode"})

mapError == [notFound |-> 404, testFailed |-> 400, other |-> 500]

ServiceCreate ==
    May(mapError.testFailed) \o Encrypt \o Create(SSHConnection)
        \o GrantCreatorAccess
ServiceGetByID == FindByID(SSHConnection, mapError.notFound)
ServiceUpdate ==
    FindByID(SSHConnection, mapError.notFound) \o Encrypt \o Save(SSHConnection)
ServiceDelete == Delete(SSHConnection, mapError.notFound)
ServiceListForCaller == ListForCaller(SSHConnection, SSHConnection)

HandlerCreate ==
    Endpoint(Needs("any", SSHConnection, "write"), Bind \o ServiceCreate \o Reply(201))
HandlerGet ==
    Endpoint(Needs("id", SSHConnection, "read"), GetByIDHandler(ServiceGetByID))
HandlerUpdate ==
    Endpoint(Needs("id", SSHConnection, "write"), UpdateHandler(ServiceUpdate))
HandlerDelete ==
    Endpoint(Needs("id", SSHConnection, "manage"), DeleteHandler(ServiceDelete))
HandlerList ==
    Endpoint(Needs("listed", SSHConnection, "read"), ListHandler(ServiceListForCaller))

RegisterRoutes ==
    {Route("POST /ssh-connections", SSHConnection, "none", CreateSSHConnectionRequest,
           RequireAccessLevelWildcard(SSHConnection, "write"), HandlerCreate),
     Route("GET /ssh-connections", SSHConnection, "none", NoBody, <<>>, HandlerList),
     Route("GET /ssh-connections/:id", SSHConnection, "path", NoBody,
           RequireAccessLevelOnParam(SSHConnection, "read"), HandlerGet),
     Route("PUT /ssh-connections/:id", SSHConnection, "path", UpdateSSHConnectionRequest,
           RequireAccessLevelOnParam(SSHConnection, "write"), HandlerUpdate),
     Route("DELETE /ssh-connections/:id", SSHConnection, "path", NoBody,
           RequireAccessLevelOnParam(SSHConnection, "manage"), HandlerDelete)}

-----------------------------------------------------------------------------
Rule == "rule"

CreateRuleRequest == Body({"key", "program"}, {"allowed"})   \* key: the connection
UpdateRuleRequest == Body({}, {"program", "allowed"})

ruleError == [notFound |-> 404, other |-> 500]   \* mapError of commandrule

ManageNamed == Check("named", SSHConnection, "manage", 403)
RuleCreate == Create(Rule)
RuleUpdate == FindByID(Rule, ruleError.notFound) \o Save(Rule)
RuleDelete == Delete(Rule, ruleError.notFound)
ListForConnection == ListWhere(Rule, "key")

CreateRule ==
    Endpoint(Needs("named", SSHConnection, "manage"),
             Bind \o ManageNamed \o RuleCreate \o Reply(201))
ListRules ==
    Endpoint(Needs("named", SSHConnection, "manage"),
             Bind \o ManageNamed \o ListForConnection \o Reply(200))
UpdateRule ==
    Endpoint(Needs("named", SSHConnection, "manage"),
             RequireIDParam \o FindByID(Rule, ruleError.notFound) \o ManageNamed
                 \o Bind \o RuleUpdate \o Reply(200))
DeleteRule ==
    Endpoint(Needs("named", SSHConnection, "manage"),
             RequireIDParam \o FindByID(Rule, ruleError.notFound) \o ManageNamed
                 \o RuleDelete \o Reply(200))

RuleRoutes ==
    {Route("POST /command-rules", Rule, "body", CreateRuleRequest, <<>>, CreateRule),
     Route("GET /command-rules", Rule, "body", Body({"key"}, {}), <<>>, ListRules),
     Route("PUT /command-rules/:id", Rule, "path", UpdateRuleRequest, <<>>, UpdateRule),
     Route("DELETE /command-rules/:id", Rule, "path", NoBody, <<>>, DeleteRule)}
=============================================================================
