-------------------------------- MODULE MCApi --------------------------------
(***************************************************************************)
(* Api in eight parts, each with the few rows that make its requests meet.   *)
(* User 1 may manage everything; what user 2 may do differs.               *)
(***************************************************************************)
EXTENDS Api, TLC

Conn == INSTANCE ConnectionApi
Tool == INSTANCE ToolApi
Role == INSTANCE RoleApi
User == INSTANCE UserApi
Model == INSTANCE ModelApi
Chat == INSTANCE ConversationApi

MCRow(cols) == [life |-> "live", by |-> 0, cols |-> cols]
MCTable(rows) == [i \in Ids |-> IF i \in DOMAIN rows THEN MCRow(rows[i]) ELSE Free]
MCGrant(grantee, type, resource, level) ==
    [key |-> <<grantee, type, resource>>, level |-> level, effect |-> "accepted"]

MCPart(routes, rows, keys, ids) ==
    [routes |-> [n \in {r.name : r \in routes} |-> CHOOSE r \in routes : r.name = n],
     rows |-> [t \in DOMAIN rows |-> MCTable(rows[t])], keys |-> keys, ids |-> ids,
     values |-> [visibility |-> "public", enabled |-> FALSE, level |-> "read",
                 effect |-> "prohibited", role |-> 1, version |-> "v1", allowed |-> TRUE]]

MCGrants(type, level) ==
    [access |-> <<MCGrant(<<"user", 1>>, type, 0, "manage"),
                  MCGrant(<<"user", 2>>, type, 1, level)>>,
     user_role |-> <<>>]

RevokeRoutes == {r \in Role!RegisterRoutes :
                     r.name \in {"DELETE /resource-access/:id"}}
GrantRoutes == {r \in Role!RegisterRoutes : r.name \in {"POST /resource-access"}}

MCConnections ==
    MCPart(Conn!RegisterRoutes \cup RevokeRoutes,
           [ssh_connection |-> <<[key |-> 0, name |-> 0, mode |-> 0]>>]
               @@ MCGrants("ssh_connection", "write"),
           [access |-> {}], {1, 2})

MCRules ==
    MCPart(Conn!RuleRoutes \cup RevokeRoutes,
           [rule |-> <<[key |-> 1, program |-> 0, allowed |-> FALSE]>>]
               @@ MCGrants("ssh_connection", "manage"),
           [rule |-> {1}], {1, 2})

MCTools ==
    MCPart(Tool!ToolRoutes \cup RevokeRoutes,
           [custom_tool |-> <<[key |-> "t1", text |-> 0, visibility |-> "private"]>>,
            tool_version |-> <<[key |-> 1, version |-> "v0"]>>]
               @@ MCGrants("custom_tool", "read"),
           [custom_tool |-> {"t1", "t2"}], {1, 2})

MCCatalog ==
    MCPart(Tool!CatalogRoutes \cup GrantRoutes,
           [agent_tool |-> <<[key |-> "ssh", visibility |-> "private"]>>]
               @@ MCGrants("agent_tool", "read"),
           [access |-> {<<<<"user", 2>>, "agent_tool", 1>>, <<<<"user", 2>>, "agent_tool", 0>>}],
           {1})

MCRoles ==
    MCPart(Role!RegisterRoutes,
           [role |-> <<[key |-> "admin"]>>,
            access |-> <<MCGrant(<<"user", 1>>, "role", 0, "manage"),
                         MCGrant(<<"user", 1>>, "user", 0, "manage"),
                         MCGrant(<<"role", 1>>, "role", 1, "write")>>,
            user_role |-> <<[key |-> <<2, 1>>]>>],
           [role |-> {"admin", "dev"}, access |-> {<<<<"role", 1>>, "role", 1>>}], {1, 2})

MCUsers ==
    MCPart(User!RegisterRoutes \cup User!AuthRoutes,
           [user |-> <<[key |-> "u1", email |-> 0, enabled |-> TRUE],
                       [key |-> "u2", email |-> 0, enabled |-> TRUE]>>]
               @@ MCGrants("user", "read"),
           [user |-> {"u2", "u3"}], {1, 2})

MCModels ==
    MCPart(Model!RegisterRoutes \cup Model!ModelRoutes,
           [provider_key |-> <<[key |-> <<0, 1>>, text |-> 0]>>,
            custom_model |-> <<[key |-> 2, text |-> 0]>>]
               @@ MCGrants("provider_key", "manage"),
           [provider_key |-> {}], {1})

MCConversations ==
    MCPart(Chat!RegisterRoutes \cup Chat!SettingsRoutes,
           [conversation |-> <<[key |-> 1, title |-> 0, model |-> 0]>>,
            chat_setting |-> <<[key |-> 1, text |-> 0]>>,
            message |-> <<[key |-> 1]>>]
               @@ MCGrants("conversation", "read"),
           [conversation |-> {}], {1})

MCParts ==
    [connections |-> MCConnections, rules |-> MCRules, tools |-> MCTools,
     catalog |-> MCCatalog, roles |-> MCRoles, users |-> MCUsers, models |-> MCModels,
     conversations |-> MCConversations]
MCKeyedById == Conn!WithId
=============================================================================
