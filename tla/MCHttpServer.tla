----------------------------- MODULE MCHttpServer -----------------------------
(* Model checking of HttpServer: requests that go every way, and environments. *)
EXTENDS HttpServer

CONSTANTS c1, c2, proxy, spoofed, ann

MCClients == {c1, c2}

MCDelays == <<1, 2, 4>>  \* and Timeout = 50: tenths of a second

MCProxies == <<proxy>>

MCAddresses == {c1, c2, proxy, spoofed}

Bearer(credentials) == [scheme |-> "Bearer", credentials |-> credentials]

Own == Generate(ann)

Authorizations ==
    {Missing, Blank, Bearer(OpsToken), Bearer(Own), [Bearer(Own) EXCEPT !.scheme = "bearer"],
     [Bearer(Own) EXCEPT !.scheme = "Basic"]}
    \union {Bearer(token) : token \in
              {[Own EXCEPT !.secret = "other"], [Own EXCEPT !.algorithm = "other"],
               [Own EXCEPT !.issuer = "other"], [Own EXCEPT !.audience = "other"],
               [Own EXCEPT !.expired = TRUE], [Own EXCEPT !.subject = Missing],
               [Own EXCEPT !.subject = Blank]}}

Picture == [mimeType |-> "png", size |-> MaxSize, signature |-> "png"]

Uploads ==
    {Missing, Picture, [Picture EXCEPT !.size = 0], [Picture EXCEPT !.size = MaxSize + 1],
     [Picture EXCEPT !.mimeType = "other"], [Picture EXCEPT !.mimeType = "jpg"],
     [Picture EXCEPT !.signature = "other"]}

BodyFiles ==
    {Null, Blank, Text, Other, [Picture EXCEPT !.size = 1],
     [Picture EXCEPT !.size = Missing], [Picture EXCEPT !.size = 1, !.mimeType = Missing]}

With(to, authorization) == [NoInput EXCEPT !.to = to, !.authorization = authorization]

Json(input) == [input EXCEPT !.body = "json"]

Delete == Json(With("delete", Bearer(Own)))

AllInputs ==
    {[Json([NoInput EXCEPT !.to = "facebook"]) EXCEPT !.token = token] : token \in Values}
    \union {[Json([NoInput EXCEPT !.to = to]) EXCEPT !.token = Text] : to \in LoginRoutes}
    \union {[NoInput EXCEPT !.to = "refresh", !.body = body] : body \in {"none", "malformed", "too large"}}
    \union {With("delete", authorization) : authorization \in Authorizations}
    \union {[Delete EXCEPT !.file = file] : file \in BodyFiles}
    \union {[Delete EXCEPT !.userId = c2]}
    \union {[With("put", Bearer(Own)) EXCEPT !.upload = upload] : upload \in Uploads}
    \union {With("put", Missing)}
    \union {With("metrics", a) : a \in {Missing, Bearer(Own), Bearer(OpsToken)}}
    \union {With(to, Missing) : to \in {"detailed", "health", "docs", "unknown", "preflight"}}
    \union {[NoInput EXCEPT !.forwarded = <<address>>] : address \in {spoofed, c2}}

MCInputs ==
    [c \in Clients |-> IF c = c1 THEN AllInputs
                       ELSE {Json([NoInput EXCEPT !.to = "logout", !.token = Text]), NoInput}]

----------------------------------------------------------------------------
\* the environment of a development machine, and a complete one for production
Development ==
    [v \in Settings \union Numbers \union Flags
            \union {"NODE_ENV", "JWT_ISSUER", "JWT_AUDIENCE", "S3_ENDPOINT",
                    "S3_PUBLIC_BASE_URL", "CORS_ALLOWED_ORIGINS", "OPS_TOKEN"} |->
        CASE v = "TRUST_PROXY_HOPS" -> 1
          [] v = "RATE_LIMIT_PER_MINUTE" -> 2
          [] v = "AUTH_RATE_LIMIT_PER_MINUTE" -> 1
          [] OTHER -> Unset]

Deployed ==
    [Development EXCEPT !["NODE_ENV"] = "production", !["FB_CLIENT_ID"] = 8,
        !["FB_CLIENT_SECRET"] = 8, !["JWT_SECRET"] = 32, !["S3_BUCKET"] = 8, !["OPS_TOKEN"] = 16,
        !["CORS_ALLOWED_ORIGINS"] = "origins", !["DB_HOST"] = 9, !["DB_PORT"] = 5432,
        !["DB_USER"] = 8, !["DB_PASSWORD"] = 20, !["DB_DATABASE"] = 8]

MCRawEnvs ==
    {Development, Deployed,
     [Development EXCEPT !["NODE_ENV"] = "test", !["TRUST_PROXY_HOPS"] = Empty],
     [Deployed EXCEPT !["OPS_TOKEN"] = Empty, !["S3_ACCESS_KEY_ID"] = Empty,
                      !["CORS_ALLOWED_ORIGINS"] = Unset, !["DB_PASSWORD"] = Unset,
                      !["DB_PORT"] = Empty],
     [Deployed EXCEPT !["JWT_SECRET"] = 31],
     [Deployed EXCEPT !["S3_ACCESS_KEY_ID"] = 20],
     [Deployed EXCEPT !["RATE_LIMIT_PER_MINUTE"] = Empty],
     [Deployed EXCEPT !["PORT"] = NotANumber],
     [Deployed EXCEPT !["OPS_TOKEN"] = 15],
     [Deployed EXCEPT !["S3_ENDPOINT"] = "text"]}
    \union {[Deployed EXCEPT ![secret] = absent] : secret \in Secrets, absent \in {Unset, Empty}}
===============================================================================
