----------------------------- MODULE AccessToken -----------------------------
(****************************************************************************)
(* JWTs as JwtTokenHandler signs and verifies them, and the middleware that *)
(* asks for one.  "own" is what this service is configured with.            *)
(****************************************************************************)
EXTENDS RequestValidation

CONSTANTS Users

Origins == {"own", "other"}

Tokens == [secret : Origins, algorithm : {"HS256", "other"}, issuer : Origins,
           audience : Origins, expired : BOOLEAN, subject : Users \union {Missing, Blank}]

ASSUME TokensAssumption == Missing \notin Tokens

Generate(user) == [secret |-> "own", algorithm |-> "HS256", issuer |-> "own",
                   audience |-> "own", expired |-> FALSE, subject |-> user]

Verify(token) ==
    /\ token.secret = "own" /\ token.algorithm = "HS256"
    /\ token.issuer = "own" /\ token.audience = "own"
    /\ ~token.expired

\* Mutant: an empty subject passes.
ValidateAnySubject(token) ==
    IF token \in Tokens /\ Verify(token) THEN token.subject ELSE Missing

\* the user of a token that passes, or Missing
Validate(token) ==
    IF token \in Tokens /\ Verify(token) /\ token.subject # Blank THEN token.subject ELSE Missing

\* a scheme, as it is spelled, and what follows it: "Bearer" in any case, RFC 6750
BearerToken(header) ==
    IF Required(header) /\ header.scheme \in {"Bearer", "bearer"} THEN header.credentials ELSE Missing

\* The user the request acts for; Missing: 401 with a challenge
Authenticate(header) == Validate(BearerToken(header))
===============================================================================
