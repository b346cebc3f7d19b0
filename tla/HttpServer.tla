------------------------------ MODULE HttpServer ------------------------------
(****************************************************************************)
(* The HTTP side of a process: what config/middlewares.ts and the routes do *)
(* with a request, in their order, from one await to the next, until it is  *)
(* answered.  The work itself is in the other modules; here a use case ends *)
(* in one of the ways its callers tell apart, except for the exchange with  *)
(* Facebook, which a login runs step by step.                               *)
(****************************************************************************)
EXTENDS FacebookGateway, RateLimiter, AccessToken, Environment

CONSTANTS
    RawEnvs,  \* environments a process may be started with
    Inputs,   \* the requests each client may send
    OpsToken  \* OPS_TOKEN, where it is set

\* a client has an address of its own
ASSUME ClientsAssumption == Clients \subseteq Addresses

\* a variable is absent, empty or a text, whose length or number is known
ASSUME RawEnvsAssumption ==
    \A r \in RawEnvs :
        /\ \A v \in Settings \ {"DB_PORT"} : r[v] \in Nat \union {Unset, Empty}
        /\ \A n \in Numbers : r[n] \in Nat \union {Unset, Empty, NotANumber}

\* a JSON body has what it likes, in a multipart body a file has its type and
\* its length from multer
ASSUME InputsAssumption ==
    \A c \in Clients : \A input \in Inputs[c] :
        /\ input.forwarded \in Seq(Addresses)
        /\ input.userId \in Users \union {Missing}
        /\ input.file \in Files \union Values
        /\ input.upload \in Files => Missing \notin {input.upload.mimeType, input.upload.size}

VARIABLES
    phase,     \* of the process: boot, serving or exit 1
    raw,       \* its environment
    env,       \* what it has read from it
    request,   \* the request of each client
    admitted   \* history: what each limiter let through for each client in its window

vars == <<phase, raw, env, request, admitted, hits, facebook>>

config == <<phase, raw, env>>

counts == <<hits, admitted>>

LoginRoutes == {"facebook", "refresh", "logout"}

PictureRoutes == {"put", "delete"}

OpsRoutes == {"detailed", "metrics"}

Routes == LoginRoutes \union PictureRoutes \union OpsRoutes \union {"health"}

\* A request: where to, X-Forwarded-For and Authorization as the client sent
\* them, the JSON body (its class, the token it names, a file, a userId) and
\* the part "picture" of a multipart body.
NoInput == [to |-> "health", forwarded |-> <<>>, authorization |-> Missing, body |-> "none",
            token |-> Missing, file |-> Missing, userId |-> Missing, upload |-> Missing]

NoRequest == [pc |-> "none", input |-> NoInput, userId |-> Missing, file |-> Missing,
              cause |-> "none", status |-> 0]

TypeOK ==
    /\ GatewayTypeOK
    /\ phase \in {"boot", "serving", "exit 1"}
    /\ raw \in RawEnvs
    /\ env \in {Unset} \union {Env(r) : r \in RawEnvs}
    /\ hits \in [Limiters -> [Addresses -> Nat]]
    /\ admitted \in [Limiters -> [Clients -> Nat]]
    /\ \A c \in Clients :
         /\ request[c].pc \in {"none", "body", "upload", "controller", "perform", "answered"}
         /\ request[c].input \in Inputs[c] \union {NoInput}
         /\ request[c].userId \in Users \union {Missing}
         /\ request[c].file \in Files \union Values
         /\ request[c].cause \in {"none", "refusal", "dependency", "duplicate", "value"}
         /\ request[c].status \in {0, 200, 204, 400, 401, 404, 409, 413, 429, 500, 502}

Init ==
    /\ phase = "boot"
    /\ raw \in RawEnvs
    /\ env = Unset
    /\ request = [c \in Clients |-> NoRequest]
    /\ hits = NoHits
    /\ admitted = [limiter \in Limiters |-> [c \in Clients |-> 0]]
    /\ GatewayInit

\* importing env.ts: an invalid configuration ends the process
Boot ==
    /\ phase = "boot"
    /\ IF Valid(raw) THEN phase' = "serving" /\ env' = Env(raw)
                     ELSE phase' = "exit 1" /\ env' = env
    /\ UNCHANGED <<raw, request, counts, facebook>>

At(c, pc) == phase = "serving" /\ request[c].pc = pc

Answer(c, status) == request' = [request EXCEPT ![c].pc = "answered", ![c].status = status]

----------------------------------------------------------------------------
(* Middlewares *)

Address(c, input) == Ip(c, input.forwarded, env.trustProxyHops)

\* A limiter lets the request through to "next", or answers 429; under test
\* it is skipped.
Limited(c, limiter, input, next, refused) ==
    LET limit == env.limits[limiter]
        address == Address(c, input)
    IN  \/ env.isTest /\ next /\ UNCHANGED counts
        \/ /\ ~env.isTest
           /\ Hit(limiter, address, limit)
           /\ IF Exhausted(limiter, address, limit)
                THEN refused /\ UNCHANGED admitted
                ELSE next /\ admitted' = [admitted EXCEPT ![limiter][c] = @ + 1]

Became(c, input, pc, status) ==
    request' = [request EXCEPT ![c] =
        [NoRequest EXCEPT !.pc = pc, !.input = input, !.status = status]]

\* up to the body parser; cors comes before the limiter, and answers a
\* preflight itself unless it has no origin to let in
Arrive(c, input) ==
    /\ At(c, "none")
    /\ IF input.to = "preflight" /\ env.cors
         THEN Became(c, input, "answered", 204) /\ UNCHANGED counts
         ELSE Limited(c, "global", input, Became(c, input, "body", 0),
                                          Became(c, input, "answered", 429))
    /\ UNCHANGED <<config, facebook>>

\* a limiter's window, of the client's own address or another
WindowPasses(limiter, address) ==
    /\ phase = "serving"
    /\ WindowEnds(limiter, address)
    /\ admitted' = [admitted EXCEPT ![limiter] =
                      [c \in Clients |-> IF c = address THEN 0 ELSE @[c]]]
    /\ UNCHANGED <<config, request, facebook>>

To(c, pc) == request' = [request EXCEPT ![c].pc = pc]

OpsAuth(header) ==
    IF ~env.hasOpsToken THEN (IF env.isProduction THEN 404 ELSE 200)
    ELSE IF header = [scheme |-> "Bearer", credentials |-> OpsToken] THEN 200 ELSE 401

\* json(), and then the route with its own middlewares up to the next await
Body(c) ==
    LET input == request[c].input
    IN  /\ At(c, "body")
        /\ UNCHANGED <<config, facebook>>
        /\ \/ input.body = "malformed" /\ Answer(c, 400) /\ UNCHANGED counts
           \/ input.body = "too large" /\ Answer(c, 413) /\ UNCHANGED counts
           \/ /\ input.body \in {"none", "json"}
              /\ \/ /\ input.to \in LoginRoutes
                    /\ Limited(c, "auth", input, To(c, "controller"), Answer(c, 429))
                 \/ /\ input.to \in PictureRoutes
                    /\ LET user == Authenticate(input.authorization)
                       IN  IF user = Missing THEN Answer(c, 401)
                           ELSE request' = [request EXCEPT ![c].userId = user,
                                  ![c].pc = IF input.to = "put" THEN "upload" ELSE "controller"]
                    /\ UNCHANGED counts
                 \/ /\ input.to \in OpsRoutes
                    /\ LET status == OpsAuth(input.authorization)
                       IN  IF status = 200 THEN To(c, "controller") ELSE Answer(c, status)
                    /\ UNCHANGED counts
                 \/ input.to = "health" /\ To(c, "controller") /\ UNCHANGED counts
                 \/ /\ input.to = "docs" /\ UNCHANGED counts
                    /\ Answer(c, IF env.apiDocs THEN 200 ELSE 404)
                 \/ input.to \in {"unknown", "preflight"} /\ Answer(c, 404) /\ UNCHANGED counts

\* multer: one part named "picture", within the limit
Upload(c) ==
    LET upload == request[c].input.upload
    IN  /\ At(c, "upload")
        /\ IF upload \in Files /\ upload.size <= MaxSize
             THEN request' = [request EXCEPT ![c].pc = "controller", ![c].file = upload]
             ELSE Answer(c, 400)
        /\ UNCHANGED <<config, counts, facebook>>

----------------------------------------------------------------------------
(* Controllers *)

\* Mutant: the body is spread last, over what the middlewares found out.
MergedBodyLast(c) ==
    LET found == request[c]
        input == found.input
    IN  [userId |-> IF input.userId # Missing THEN input.userId ELSE found.userId,
         file |-> IF input.file # Missing THEN input.file ELSE found.file,
         token |-> input.token]

\* { ...req.body, ...req.locals }
Merged(c) ==
    LET found == request[c]
        input == found.input
    IN  [userId |-> IF found.userId # Missing THEN found.userId ELSE input.userId,
         file |-> IF found.file # Missing THEN found.file ELSE input.file,
         token |-> input.token]

ValidInput(c) ==
    LET input == request[c].input
    IN  CASE input.to \in LoginRoutes -> RequiredText(Merged(c).token)
          [] input.to \in PictureRoutes -> ValidPicture(Merged(c).file)
          [] OTHER -> TRUE

\* the controllers' own catch for AuthenticationError, then mapError
MapError(error) ==
    CASE error = "AuthenticationError" -> 401
      [] error = "ExternalServiceError" -> 502
      [] error = "UserNotFoundError" -> 404
      [] error = "ConcurrentModificationError" -> 409
      [] error = "Error" -> 500

Succeeds(c, status) == Answer(c, status)

Fails(c, error, cause) ==
    request' = [request EXCEPT ![c].pc = "answered", ![c].status = MapError(error),
                               ![c].cause = cause]

\* Controller.handle: the validators are built and run outside its try
Handle(c) ==
    LET to == request[c].input.to
        merged == Merged(c)
    IN  /\ At(c, "controller")
        /\ \/ to \in PictureRoutes /\ BuildThrows(merged.file) /\ Fails(c, "Error", "value")
              /\ UNCHANGED facebook
           \/ ~(to \in PictureRoutes /\ BuildThrows(merged.file)) /\ ~ValidInput(c) /\ Answer(c, 400)
              /\ UNCHANGED facebook
           \/ /\ ValidInput(c)
              /\ request' = [request EXCEPT ![c].pc = "perform", ![c].userId = merged.userId,
                                            ![c].file = merged.file]
              /\ IF to = "facebook" THEN LoadUser(c) ELSE UNCHANGED facebook
        /\ UNCHANGED <<config, counts>>

\* the exchange with Facebook, its step
Ask(c) ==
    /\ phase = "serving"
    /\ Exchange(c)
    /\ UNCHANGED <<config, counts, request>>

\* Login once Facebook has answered.  The e-mail may be another identity's (401);
\* the insert may meet the identity itself, under another e-mail (an error like
\* that of a database that is down).
PerformLogin(c) ==
    LET verdict == facebook[c].verdict
    IN  /\ At(c, "perform") /\ request[c].input.to = "facebook"
        /\ Conclude(c)
        /\ \/ verdict = "user" /\ Succeeds(c, 200)
           \/ verdict = "user" /\ (Fails(c, "Error", "dependency") \/ Fails(c, "Error", "duplicate"))
           \/ verdict \in {"user", "nobody"}
              /\ Fails(c, "AuthenticationError", facebook[c].cause)
           \/ verdict = "unavailable" /\ Fails(c, "ExternalServiceError", facebook[c].cause)
        /\ UNCHANGED <<config, counts>>

\* refresh (RefreshTokens has its steps): rotated, refused, or a failing statement
PerformRefresh(c) ==
    /\ At(c, "perform") /\ request[c].input.to = "refresh"
    /\ \/ Succeeds(c, 200)
       \/ Fails(c, "AuthenticationError", "none")
       \/ Fails(c, "Error", "dependency")
    /\ UNCHANGED <<config, counts, facebook>>

\* 204 whether or not the token exists
PerformLogout(c) ==
    /\ At(c, "perform") /\ request[c].input.to = "logout"
    /\ Succeeds(c, 204) \/ Fails(c, "Error", "dependency")
    /\ UNCHANGED <<config, counts, facebook>>

\* the extension of the key is taken from the type
TypeIsRead(c) == request[c].file = Missing \/ (request[c].file \in Files /\ request[c].file.mimeType # Missing)

\* A name without a character of \w, on a request that leaves no picture:
\* setPicture dereferences the null of its match.
NameMatches(c, name) == request[c].file # Missing \/ name # "no word character"

\* PictureChange has the steps of a change
PerformPicture(c, name) ==
    /\ At(c, "perform") /\ request[c].input.to \in PictureRoutes
    /\ \/ Fails(c, "UserNotFoundError", "none")
       \/ Fails(c, "Error", "dependency")
       \/ ~(TypeIsRead(c) /\ NameMatches(c, name)) /\ Fails(c, "Error", "value")
       \/ /\ TypeIsRead(c) /\ NameMatches(c, name)
          /\ Succeeds(c, 200) \/ Fails(c, "ConcurrentModificationError", "none")
    /\ UNCHANGED <<config, counts, facebook>>

\* health, detailed health (a database that is down is a report, not an
\* error) and metrics
Report(c) ==
    /\ At(c, "perform") /\ request[c].input.to \in OpsRoutes \union {"health"}
    /\ Succeeds(c, 200)
    /\ UNCHANGED <<config, counts, facebook>>

\* the client has the answer
Leave(c) ==
    /\ At(c, "answered")
    /\ request' = [request EXCEPT ![c] = NoRequest]
    /\ UNCHANGED <<config, counts, facebook>>

----------------------------------------------------------------------------
Next ==
    \/ Boot
    \/ \E limiter \in Limiters, address \in Addresses : WindowPasses(limiter, address)
    \/ \E c \in Clients :
         \/ \E input \in Inputs[c] : Arrive(c, input)
         \/ Body(c) \/ Upload(c) \/ Handle(c) \/ Ask(c)
         \/ PerformLogin(c) \/ PerformRefresh(c) \/ PerformLogout(c)
         \/ \E name \in {"a name", "no word character"} : PerformPicture(c, name)
         \/ Report(c) \/ Leave(c)

Spec == Init /\ [][Next]_vars

----------------------------------------------------------------------------
(* Properties *)

\* Who is to blame is told right (docs/api.md:28-37), with three exceptions
\* and no other, wherever a dependency fails and whatever clients send.  A
\* dependency that failed is a 5xx, also when it was Facebook, to its last
\* attempt, while a token was checked; but where Facebook refuses this service
\* (facebook-api.ts:45) the client's good token is a 401.  Nothing failed and
\* yet a 5xx: the second row of an identity (user-account.ts:41), and DELETE
\* /users/picture on a body's file or a user's name that is taken as it is
\* (controller.ts:12, user-profile.ts:10).
ServerErrorsExplained ==
    \A c \in Clients :
        LET to == request[c].input.to
            cause == request[c].cause
        IN  request[c].pc = "answered" =>
              IF request[c].status >= 500
                THEN \/ cause = "dependency"
                     \/ cause = "duplicate" /\ to = "facebook"
                     \/ cause = "value" /\ to = "delete"
                ELSE cause = "none" \/ (cause = "refusal" /\ to = "facebook")

\* What a controller acts on, after the body and the findings of the
\* middlewares were merged: the user is the one of a token of this service, a
\* picture with a type and a content is what both say and not too large, and
\* operational data is for who has the token, or outside production.
WorkIsAuthorised ==
    \A c \in Clients :
        LET input == request[c].input
            file == request[c].file
        IN  request[c].pc = "perform" =>
              /\ input.to \in PictureRoutes =>
                   /\ input.authorization.credentials = Generate(request[c].userId)
                   /\ file \in Files /\ Missing \notin {file.mimeType, file.size} =>
                        file.mimeType = file.signature /\ file.size \in 1..MaxSize
              /\ input.to = "put" => file \in Files /\ Missing \notin {file.mimeType, file.size}
              /\ input.to \in OpsRoutes =>
                   IF env.hasOpsToken THEN input.authorization.credentials = OpsToken
                                      ELSE ~env.isProduction

\* Each client has the quota of each limiter in its window, all of it and no
\* more, whatever the others send and whatever X-Forwarded-For it sends, where
\* TRUST_PROXY_HOPS matches the deployment (ADR-0008).
QuotasHold ==
    [][env' # Unset /\ env'.trustProxyHops = Len(Proxies) /\ ~env'.isTest =>
         \A c \in Clients :
            /\ \A limiter \in Limiters : admitted'[limiter][c] <= env'.limits[limiter]
            /\ request[c].status # 429 /\ request'[c].status = 429 =>
                 \E limiter \in Limiters : admitted[limiter][c] = env.limits[limiter]]_vars

\* A process that serves in production has secrets of its own, and no half of
\* a key pair, which the storage client would replace by other credentials
\* without a word.  A value kept for development it runs on only to reach its
\* database: operations.md:7 requires the DB_* settings in production, but
\* env.ts:9-13 has their defaults everywhere, the password's too.
OnlyDatabaseKeepsDefaults ==
    phase = "serving" /\ env.isProduction =>
        /\ \A v \in Settings : env.settings[v] = Default => v \in Connection
        /\ \A secret \in Secrets : env.settings[secret] \notin {Unset, Empty}
        /\ env.settings["JWT_SECRET"] >= 32
        /\ \/ \A key \in KeyPair : env.settings[key] = Unset
           \/ \A key \in KeyPair : env.settings[key] \notin {Unset, Empty}
===============================================================================
