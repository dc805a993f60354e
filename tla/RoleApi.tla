------------------------------- MODULE RoleApi -------------------------------
(***************************************************************************)
(* The endpoints of internal/platform/rbac.  A grant has for its key the   *)
(* grantee, the type and the resource, an assignment the user and the      *)
(* role; neither table has a unique constraint on it.                      *)
(***************************************************************************)
EXTENDS ApiSteps

Role == "role"
UserRole == "user_role"
ResourceAccess == "access"

RoleRequest == Body({"key"}, {})        \* CreateRoleRequest; key: the name
UpdateRoleRequest == Body({}, {"key"})
AssignRoleRequest == Body({"role"}, {})
GrantResourceAccessRequest == Body({"key", "level", "effect"}, {})

mapError == [notFound |-> 404, roleExists |-> 409, other |-> 500]

ServiceCreateRole == Seek(Role) \o IfFound(mapError.roleExists) \o Create(Role)
ServiceGetRole == FindByID(Role, mapError.notFound)
ServiceUpdateRole == FindByID(Role, mapError.notFound) \o Save(Role)
ServiceDeleteRole == Delete(Role, mapError.notFound)
ServiceListRoles == List(Role)

\* A role the user has already is not assigned again; that is no error.
ServiceAssignRole == Seek(UserRole) \o IfFound(200) \o Create(UserRole)
ServiceGrant == Upsert(ResourceAccess)
ServiceGetResourceAccess == FindByID(ResourceAccess, mapError.notFound)
ServiceRevoke == Delete(ResourceAccess, mapError.notFound)
ServiceListResourceAccess == List(ResourceAccess)
MyResourceAccess == ListWhere(ResourceAccess, "granted")

CreateRole == Endpoint(Needs("any", Role, "write"), CreateHandler(ServiceCreateRole))
GetRole == Endpoint(Needs("id", Role, "read"), GetByIDHandler(ServiceGetRole))
UpdateRole == Endpoint(Needs("id", Role, "write"), UpdateHandler(ServiceUpdateRole))
DeleteRole == Endpoint(Needs("id", Role, "manage"), DeleteHandler(ServiceDeleteRole))
ListRoles == Endpoint(Needs("any", Role, "read"), ListHandler(ServiceListRoles))
AssignRoleToUser ==
    Endpoint(Needs("id", "user", "manage"),
             RequireIDParam \o Bind \o ServiceAssignRole \o Reply(200))

ManageNamed == Check("named", "named", "manage", 403)

GrantResourceAccess ==
    Endpoint(Needs("named", "named", "manage"),
             Bind \o ManageNamed \o ServiceGrant \o Reply(200))
ListResourceAccess ==
    Endpoint(Needs("any", "resource_access", "read"),
             ListHandler(ServiceListResourceAccess))
RevokeResourceAccess ==
    Endpoint(Needs("named", "named", "manage"),
             RequireIDParam \o ServiceGetResourceAccess \o ManageNamed
                 \o ServiceRevoke \o Reply(200))
\* The levels on whole types, asked for one type after another, are left out.
GetMyAccess == Endpoint(Self, MyResourceAccess \o Reply(200))

RegisterRoutes ==
    {Route("POST /roles", Role, "body", RoleRequest,
           RequireAccessLevelWildcard(Role, "write"), CreateRole),
     Route("GET /roles", Role, "none", NoBody,
           RequireAccessLevelWildcard(Role, "read"), ListRoles),
     Route("GET /roles/:id", Role, "path", NoBody,
           RequireAccessLevelOnParam(Role, "read"), GetRole),
     Route("PUT /roles/:id", Role, "path", UpdateRoleRequest,
           RequireAccessLevelOnParam(Role, "write"), UpdateRole),
     Route("DELETE /roles/:id", Role, "path", NoBody,
           RequireAccessLevelOnParam(Role, "manage"), DeleteRole),
     Route("POST /users/:id/roles", "user", "path/role", AssignRoleRequest,
           RequireAccessLevelOnParam("user", "manage"), AssignRoleToUser),
     Route("POST /resource-access", ResourceAccess, "body",
           GrantResourceAccessRequest, <<>>, GrantResourceAccess),
     Route("GET /resource-access", ResourceAccess, "none", NoBody,
           RequireAccessLevelWildcard("resource_access", "read"), ListResourceAccess),
     Route("DELETE /resource-access/:id", ResourceAccess, "path", NoBody, <<>>,
           RevokeResourceAccess),
     Route("GET /me/access", ResourceAccess, "none", NoBody, <<>>, GetMyAccess)}
=============================================================================
