------------------------------- MODULE UserApi -------------------------------
(***************************************************************************)
(* The endpoints of internal/platform/user and auth.  Tokens are signed,   *)
(* never stored: whoever has one is who it says until it expires.          *)
(***************************************************************************)
EXTENDS ApiSteps

User == "user"

CreateUserRequest == Body({"key", "email"}, {})   \* key: the username
UpdateUserRequest == Body({}, {"email", "enabled"})
LoginRequest == Body({"key"}, {})

mapError == [notFound |-> 404, usernameTaken |-> 409, other |-> 500]

ExistsByUsername == Seek(User)
ServiceRegister ==
    ExistsByUsername \o IfFound(mapError.usernameTaken) \o May(mapError.other)
        \o Create(User)
ServiceGetByID == FindByID(User, mapError.notFound)
ServiceUpdate == FindByID(User, mapError.notFound) \o Save(User)
ServiceDelete == Delete(User, mapError.notFound)
ServiceListForCaller == ListForCaller(User, User)

CreateUser == Endpoint(Needs("any", User, "write"), CreateHandler(ServiceRegister))
GetUser == Endpoint(Needs("id", User, "read"), GetByIDHandler(ServiceGetByID))
UpdateUser == Endpoint(Needs("id", User, "write"), UpdateHandler(ServiceUpdate))
DeleteUser == Endpoint(Needs("id", User, "manage"), DeleteHandler(ServiceDelete))
ListUsers == Endpoint(Needs("listed", User, "read"), ListHandler(ServiceListForCaller))

RegisterRoutes ==
    {Route("POST /users", User, "body", CreateUserRequest,
           RequireAccessLevelWildcard(User, "write"), CreateUser),
     Route("GET /users", User, "none", NoBody, <<>>, ListUsers),
     Route("GET /users/:id", User, "path", NoBody,
           RequireAccessLevelOnParam(User, "read"), GetUser),
     Route("PUT /users/:id", User, "path", UpdateUserRequest,
           RequireAccessLevelOnParam(User, "write"), UpdateUser),
     Route("DELETE /users/:id", User, "path", NoBody,
           RequireAccessLevelOnParam(User, "manage"), DeleteUser)}

-----------------------------------------------------------------------------
\* A pair of tokens for the user in hand.
generateTokenPair == <<[do |-> "issue"]>>
InvalidCredentials == 401
InvalidToken == 401

\* parseRefreshToken: one that was signed here for the user of the path, and has
\* not expired.
parseRefreshToken == <<[do |-> "auth", refuse |-> InvalidToken]>>

ServiceLogin ==
    Seek(User) \o IfMissing(InvalidCredentials) \o May(InvalidCredentials)
        \o generateTokenPair

ServiceRefresh ==
    parseRefreshToken \o FindByID(User, InvalidToken) \o generateTokenPair

Login == Endpoint(Self, Bind \o ServiceLogin \o Reply(200))
Refresh == Endpoint(Self, Bind \o ServiceRefresh \o Reply(200))

AuthRoutes ==
    {PublicRoute("POST /auth/login", User, "body", LoginRequest, Login),
     PublicRoute("POST /auth/refresh", User, "path", NoBody, Refresh)}
=============================================================================
