------------------------------ MODULE Environment ------------------------------
(****************************************************************************)
(* main/config/env.ts: the variables a process starts with, the schema they *)
(* are checked against and what the application reads.  A text is known by  *)
(* its length, a URL or a list of origins by being one; S3_REGION, for      *)
(* which any text is good, is left out.                                     *)
(****************************************************************************)
EXTENDS Naturals

CONSTANTS Unset, Empty,  \* not in the environment, or ''
          NotANumber,
          Default        \* the value the schema has for development

ASSUME MarksAssumption ==
    {Unset, Empty, NotANumber, Default} \intersect Nat = {} /\ Default # Unset

Secrets == {"FB_CLIENT_ID", "FB_CLIENT_SECRET", "JWT_SECRET", "S3_BUCKET"}

KeyPair == {"S3_ACCESS_KEY_ID", "S3_SECRET_ACCESS_KEY"}

\* to the database
Connection == {"DB_HOST", "DB_PORT", "DB_USER", "DB_PASSWORD", "DB_DATABASE"}

Settings == Secrets \union KeyPair \union Connection

Counts == {"TRUST_PROXY_HOPS", "REFRESH_TOKEN_PURGE_INTERVAL_MINUTES",
           "OUTBOX_POLL_INTERVAL_SECONDS"}

Limits == {"RATE_LIMIT_PER_MINUTE", "AUTH_RATE_LIMIT_PER_MINUTE"}

Numbers == Counts \union Limits \union {"PORT", "DB_PORT"}

Flags == {"S3_FORCE_PATH_STYLE", "API_DOCS_ENABLED"}

\* emptyToUndefined, for the variables that go through it
Given(raw, variable) ==
    IF raw[variable] = Empty
         /\ variable \in KeyPair \union Flags
                \union {"OPS_TOKEN", "S3_ENDPOINT", "S3_PUBLIC_BASE_URL"}
      THEN Unset ELSE raw[variable]

\* z.coerce.number(): '' is 0
Number(raw, variable, default) ==
    IF raw[variable] = Unset THEN default
    ELSE IF raw[variable] = Empty THEN 0
    ELSE raw[variable]

\* decided before validation
Production(raw) == raw["NODE_ENV"] = "production"

LongEnough(value, min) == value # Unset /\ (IF value = Empty THEN 0 ELSE value) >= min

\* Mutant: JWT_SECRET keeps its default in production.
RequiredSecretsButJwt(raw) ==
    Production(raw) =>
        \A secret \in Secrets \ {"JWT_SECRET"} : LongEnough(raw[secret], 1)

RequiredSecrets(raw) ==
    Production(raw) =>
        \A secret \in Secrets :
            LongEnough(raw[secret], IF secret = "JWT_SECRET" THEN 32 ELSE 1)

\* outside production each of the two has a default
WholeKeyPair(raw) ==
    Production(raw) =>
        (Given(raw, "S3_ACCESS_KEY_ID") = Unset <=> Given(raw, "S3_SECRET_ACCESS_KEY") = Unset)

Valid(raw) ==
    /\ RequiredSecrets(raw)
    /\ WholeKeyPair(raw)
    /\ \A name \in {"JWT_ISSUER", "JWT_AUDIENCE"} : raw[name] # Empty
    /\ \A url \in {"S3_ENDPOINT", "S3_PUBLIC_BASE_URL"} : Given(raw, url) \in {Unset, "url"}
    /\ \A flag \in Flags : Given(raw, flag) \in {Unset, "true", "false"}
    /\ \A number \in Numbers : raw[number] # NotANumber
    /\ \A limit \in Limits : Number(raw, limit, 1) >= 1
    /\ Given(raw, "OPS_TOKEN") # Unset => Given(raw, "OPS_TOKEN") >= 16

\* The defaults are for development, but for those of the database, which
\* hold everywhere.
Setting(raw, v) ==
    IF v = "DB_PORT" THEN Number(raw, v, Default)
    ELSE IF Given(raw, v) = Unset /\ (v \in Connection \/ ~Production(raw)) THEN Default
    ELSE Given(raw, v)

\* what the application reads
Env(raw) ==
    [isProduction |-> Production(raw),
     isTest |-> raw["NODE_ENV"] = "test",
     settings |-> [v \in Settings |-> Setting(raw, v)],
     trustProxyHops |-> Number(raw, "TRUST_PROXY_HOPS", 0),
     limits |-> [global |-> Number(raw, "RATE_LIMIT_PER_MINUTE", 100),
                 auth |-> Number(raw, "AUTH_RATE_LIMIT_PER_MINUTE", 10)],
     hasOpsToken |-> Given(raw, "OPS_TOKEN") # Unset,
     \* cors lets every origin in or those of a list; with neither it passes on
     cors |-> raw["CORS_ALLOWED_ORIGINS"] = "origins" \/ ~Production(raw),
     apiDocs |-> IF Given(raw, "API_DOCS_ENABLED") = Unset
                   THEN ~Production(raw)
                   ELSE raw["API_DOCS_ENABLED"] = "true"]
===============================================================================
