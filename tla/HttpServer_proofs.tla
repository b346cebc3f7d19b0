--------------------------- MODULE HttpServer_proofs ---------------------------
(****************************************************************************)
(* HttpServer and the exchange with Facebook it is composed with, for any   *)
(* clients, proxies, environments and requests.                             *)
(*                                                                          *)
(* The time of a login: an attempt costs Timeout + MaxDelay at most, its    *)
(* delay included, so the time spent is bounded, at every moment, by the    *)
(* calls that are over and by the attempts of the present one that failed.  *)
(*                                                                          *)
(* The requests: what a stage of the pipeline has found out holds until the *)
(* controller acts on it, because a request only moves on and a process     *)
(* that serves keeps its configuration.                                     *)
(****************************************************************************)
EXTENDS HttpServer, TLAPS

AttemptTime == Timeout + MaxDelay

AttemptsTime(n) == n * AttemptTime

\* what the calls that are over, and the failed attempts, can have taken
Within(e) ==
    /\ e.call = "none" => e.elapsed = 0
    /\ e.call = "app token" => e.elapsed <= AttemptsTime(e.attempt)
    /\ e.call = "debug token" => e.elapsed <= CallTime + AttemptsTime(e.attempt)
    /\ e.call = "user info" => e.elapsed <= 2 * CallTime + AttemptsTime(e.attempt)
    /\ e.call = "done" => e.elapsed <= 3 * CallTime

GatewayInv == GatewayTypeOK /\ \A c \in Clients : Within(facebook[c])

\* a failed last attempt, and nothing else, is told as one
Blamed(e) ==
    /\ e.cause = "dependency" <=> e.verdict = "unavailable"
    /\ e.cause \in Causes

Pcs == {"none", "body", "upload", "controller", "perform", "answered"}

Statuses == {0, 200, 204, 400, 401, 404, 409, 413, 429, 500, 502}

Culprits == {"none", "refusal", "dependency", "duplicate", "value"}

Request(c) ==
    [pc : Pcs, input : Inputs[c] \union {NoInput}, userId : Users \union {Missing},
     file : Files \union Values, cause : Culprits, status : Statuses]

\* a request that is under way is one of the client's
Sent(c, r) == r.pc # "none" => r.input \in Inputs[c]

Complete(file) == file \in Files /\ Missing \notin {file.mimeType, file.size}

Checked(file) == Complete(file) => file.mimeType = file.signature /\ file.size \in 1..MaxSize

\* what the middlewares found out
Granted(r) ==
    /\ r.pc = "upload" => r.input.to = "put"
    /\ r.pc \in {"upload", "controller", "perform"} /\ r.input.to \in PictureRoutes =>
         r.userId # Missing /\ r.input.authorization.credentials = Generate(r.userId)
    /\ r.pc \in {"controller", "perform"} /\ r.input.to = "put" => Complete(r.file)
    /\ r.pc \in {"controller", "perform"} /\ r.input.to \in OpsRoutes =>
         OpsAuth(r.input.authorization) = 200

\* and the validators
Validated(r) == r.pc = "perform" /\ r.input.to \in PictureRoutes => Checked(r.file)

\* the statuses an error of each cause may have, route by route
Explains(cause, status, to) ==
    IF status >= 500
      THEN \/ cause = "dependency"
           \/ cause = "duplicate" /\ to = "facebook"
           \/ cause = "value" /\ to = "delete"
      ELSE cause = "none" \/ (cause = "refusal" /\ to = "facebook")

\* an error has its cause when it is told, and no request that is under way
Explained(r) ==
    IF r.pc = "answered" THEN Explains(r.cause, r.status, r.input.to) ELSE r.cause = "none"

RequestOK(c, r) == r \in Request(c) /\ Sent(c, r) /\ Granted(r) /\ Validated(r) /\ Explained(r)

ConfigOK ==
    /\ raw \in RawEnvs
    /\ phase \in {"boot", "serving", "exit 1"}
    /\ IF phase = "serving" THEN Valid(raw) /\ env = Env(raw)
       ELSE /\ env = Unset
            /\ \A c \in Clients : request[c].pc = "none"
            /\ \A limiter \in Limiters, c \in Clients :
                 hits[limiter][c] = 0 /\ admitted[limiter][c] = 0

\* the proxies are where the configuration says, so that addresses are clients'
Matches == phase = "serving" /\ env.trustProxyHops = Len(Proxies) /\ ~env.isTest

CountsOK ==
    /\ hits \in [Limiters -> [Addresses -> Nat]]
    /\ admitted \in [Limiters -> [Clients -> Nat]]
    /\ Matches =>
         \A limiter \in Limiters, c \in Clients :
            /\ admitted[limiter][c] = hits[limiter][c]
            /\ hits[limiter][c] <= env.limits[limiter]

RequestsOK ==
    /\ request = [c \in Clients |-> request[c]]
    /\ \A c \in Clients : RequestOK(c, request[c])

BlameOK == \A c \in Clients : Blamed(facebook[c])

IInv == GatewayInv /\ BlameOK /\ ConfigOK /\ CountsOK /\ RequestsOK

----------------------------------------------------------------------------
(* The exchange with Facebook *)

\* The bounds are natural numbers.
LEMMA Times == Retries \in Nat /\ AttemptTime \in Nat /\ CallTime \in Nat /\ 0 \in 0..Retries
<1>1. Retries \in Nat /\ Timeout \in Nat /\ MaxDelay \in Nat
  BY DelaysAssumption, TimeoutAssumption DEF Retries
<1>2. \A n \in Nat, a \in Nat : (n + 1) * a \in Nat
  OBVIOUS
<1> QED BY <1>1, <1>2 DEF AttemptTime, CallTime

\* An attempt, and the delay after it, are within AttemptTime.
LEMMA Latency ==
  ASSUME NEW time \in Latencies
  PROVE  /\ time \in Nat /\ time <= AttemptTime
         /\ \A i \in 1..Retries :
              RetryDelays[i] \in Nat /\ time + RetryDelays[i] <= AttemptTime
<1>1. Timeout \in Nat /\ MaxDelay \in Nat /\ time \in Nat /\ time <= Timeout
  BY DelaysAssumption, TimeoutAssumption
<1>2. \A i \in 1..Retries : RetryDelays[i] \in Nat /\ RetryDelays[i] <= MaxDelay
  BY DelaysAssumption DEF Retries
<1> QED BY <1>1, <1>2 DEF AttemptTime

\* One more attempt, and the last one of a call.
LEMMA OneMore ==
  ASSUME NEW n \in 0..Retries
  PROVE  /\ AttemptsTime(n) \in Nat
         /\ AttemptsTime(n) + AttemptTime = AttemptsTime(n + 1)
         /\ AttemptsTime(n) + AttemptTime <= CallTime
         /\ AttemptsTime(0) = 0
<1>1. Retries \in Nat /\ AttemptTime \in Nat /\ n \in Nat /\ n <= Retries
  BY Times
<1>2. \A m \in Nat, k \in Nat, a \in Nat :
        m <= k => /\ m * a \in Nat /\ m * a + a = (m + 1) * a
                  /\ (m + 1) * a <= (k + 1) * a /\ 0 * a = 0
  OBVIOUS
<1>3. CallTime = (Retries + 1) * AttemptTime
  BY DEF CallTime, AttemptTime
<1> HIDE DEF AttemptTime, CallTime, Retries
<1> QED BY <1>1, <1>2, <1>3 DEF AttemptsTime

LEMMA InitGateway == GatewayInit => GatewayInv
<1>1. 0 \in 0..Retries
  BY Times
<1>2. NoExchange \in Exchanges /\ Within(NoExchange)
  BY <1>1 DEF NoExchange, Exchanges, Causes, Within
<1> QED BY <1>2 DEF GatewayInit, GatewayInv, GatewayTypeOK

\* The fields of an exchange.
LEMMA Fields ==
  ASSUME GatewayInv, NEW c \in Clients
  PROVE  /\ facebook[c].call \in {"none", "app token", "debug token", "user info", "done"}
         /\ facebook[c].attempt \in 0..Retries /\ facebook[c].elapsed \in Nat
         /\ Within(facebook[c])
<1>1. facebook[c] \in Exchanges
  BY DEF GatewayInv, GatewayTypeOK
<1> QED BY <1>1 DEF GatewayInv, Exchanges

\* It is enough that the exchange a step puts in place is a bounded one.
LEMMA ProceedStep ==
  ASSUME GatewayInv, NEW c \in Clients, NEW e \in Exchanges, Within(e), Proceed(c, e)
  PROVE  GatewayInv'
<1>1. \A d \in Clients : facebook'[d] = IF d = c THEN e ELSE facebook[d]
  BY DEF GatewayInv, GatewayTypeOK, Proceed
<1>2. \A d \in Clients : Within(facebook'[d])
  BY <1>1 DEF GatewayInv
<1> QED BY <1>2 DEF GatewayInv, GatewayTypeOK, Proceed, Within

\* An attempt of the present call ends and its time is spent: the exchange
\* has not used up the call.
LEMMA WithinCall ==
  ASSUME GatewayInv, NEW c \in Clients, Calling(c), NEW time \in Nat, time <= AttemptTime
  PROVE  /\ facebook[c].elapsed + time \in Nat
         /\ facebook[c].call = "app token" => facebook[c].elapsed + time <= CallTime
         /\ facebook[c].call = "debug token" => facebook[c].elapsed + time <= 2 * CallTime
         /\ facebook[c].elapsed + time <= 3 * CallTime
<1> DEFINE e == facebook[c]
           a == AttemptsTime(e.attempt)
           old == e.elapsed
<1>1. /\ e.call \in {"app token", "debug token", "user info"}
      /\ e.attempt \in 0..Retries /\ e.elapsed \in Nat /\ Within(e)
  BY Fields DEF Calling
<1>2. /\ e.call = "app token" => old <= a
      /\ e.call = "debug token" => old <= CallTime + a
      /\ e.call = "user info" => old <= 2 * CallTime + a
  BY <1>1 DEF Within
<1>3. /\ a \in Nat /\ a + AttemptTime <= CallTime
      /\ CallTime \in Nat /\ AttemptTime \in Nat /\ old \in Nat
  BY <1>1, OneMore, Times
<1>4. old + time \in Nat
  BY <1>3
<1> HIDE DEF a, old
<1>5. /\ old <= a => old + time <= CallTime /\ old + time <= 3 * CallTime
      /\ old <= CallTime + a => old + time <= 2 * CallTime /\ old + time <= 3 * CallTime
      /\ old <= 2 * CallTime + a => old + time <= 3 * CallTime
  BY <1>3
<1> HIDE DEF e
<1>6. /\ e.call = "app token" => old + time <= CallTime
      /\ e.call = "debug token" => old + time <= 2 * CallTime
      /\ old + time <= 3 * CallTime
  BY <1>1, <1>2, <1>5
<1> QED BY <1>4, <1>6 DEF old, e

\* The answer decides the login.
LEMMA DecideStep ==
  ASSUME GatewayInv, NEW c \in Clients, Calling(c), NEW time \in Latencies,
         NEW verdict \in Verdicts, NEW cause \in Causes,
         Decide(c, verdict, cause, time)
  PROVE  GatewayInv'
<1> DEFINE e == [facebook[c] EXCEPT !.call = "done", !.verdict = verdict,
                                    !.cause = cause, !.elapsed = @ + time]
<1>1. time \in Nat /\ time <= AttemptTime
  BY Latency
<1>2. facebook[c].elapsed + time \in Nat /\ facebook[c].elapsed + time <= 3 * CallTime
  BY <1>1, WithinCall
<1>3. e \in Exchanges /\ e.call = "done" /\ e.elapsed = facebook[c].elapsed + time
  BY <1>2 DEF GatewayInv, GatewayTypeOK, Exchanges
<1>4. Proceed(c, e)
  BY DEF Decide
<1> HIDE DEF e
<1>5. Within(e)
  BY <1>2, <1>3 DEF Within
<1> QED BY <1>3, <1>4, <1>5, ProceedStep

\* A call that begins has spent nothing.
LEMMA NoAttemptYet ==
  ASSUME NEW spent \in Nat
  PROVE  /\ spent <= CallTime => spent <= CallTime + 0
         /\ spent <= 2 * CallTime => spent <= 2 * CallTime + 0
  BY Times

\* The answer leads to the next call.
LEMMA GoOnStep ==
  ASSUME GatewayInv, NEW c \in Clients, NEW time \in Latencies, NEW call,
         \/ facebook[c].call = "app token" /\ call = "debug token"
         \/ facebook[c].call = "debug token" /\ call = "user info",
         GoOn(c, call, time)
  PROVE  GatewayInv'
<1> DEFINE e == [facebook[c] EXCEPT !.call = call, !.attempt = 0, !.elapsed = @ + time]
<1>1. time \in Nat /\ time <= AttemptTime
  BY Latency
<1>2. /\ facebook[c].elapsed + time \in Nat
      /\ call = "debug token" => facebook[c].elapsed + time <= CallTime
      /\ call = "user info" => facebook[c].elapsed + time <= 2 * CallTime
  BY <1>1, WithinCall DEF Calling
<1>3. 0 \in 0..Retries /\ AttemptsTime(0) = 0 /\ CallTime \in Nat
  <2>1. 0 \in 0..Retries
    BY Times
  <2> QED BY <2>1, Times, OneMore
<1>4. /\ e \in Exchanges
      /\ e.call = call /\ e.attempt = 0 /\ e.elapsed = facebook[c].elapsed + time
  BY <1>2, <1>3 DEF GatewayInv, GatewayTypeOK, Exchanges
<1>5. Proceed(c, e)
  BY DEF GoOn
<1> DEFINE total == facebook[c].elapsed + time
<1> HIDE DEF e, total
<1>6. /\ total <= CallTime => total <= CallTime + 0
      /\ total <= 2 * CallTime => total <= 2 * CallTime + 0
  BY <1>2, <1>3, NoAttemptYet DEF total
<1>7. Within(e)
  <2>1. CASE call = "debug token"
    <3>1. total <= CallTime
      BY <2>1, <1>2 DEF total
    <3>2. e.elapsed <= CallTime + AttemptsTime(e.attempt)
      BY <3>1, <1>3, <1>4, <1>6 DEF total
    <3> QED BY <2>1, <3>2, <1>4 DEF Within
  <2>2. CASE call = "user info"
    <3>1. total <= 2 * CallTime
      BY <2>2, <1>2 DEF total
    <3>2. e.elapsed <= 2 * CallTime + AttemptsTime(e.attempt)
      BY <3>1, <1>3, <1>4, <1>6 DEF total
    <3> QED BY <2>2, <3>2, <1>4 DEF Within
  <2> QED BY <2>1, <2>2
<1> QED BY <1>4, <1>5, <1>7, ProceedStep

\* The call is tried again after its delay.
LEMMA TryAgainStep ==
  ASSUME GatewayInv, NEW c \in Clients, TryAgain(c)
  PROVE  GatewayInv'
<1> DEFINE n == facebook[c].attempt
           old == facebook[c].elapsed
<1>1. PICK time \in Latencies :
        Proceed(c, [facebook[c] EXCEPT !.attempt = n + 1,
                                       !.elapsed = @ + time + RetryDelays[n + 1]])
  BY DEF TryAgain
<1> DEFINE delay == RetryDelays[n + 1]
           spent == time + delay
           e == [facebook[c] EXCEPT !.attempt = n + 1,
                                    !.elapsed = @ + time + RetryDelays[n + 1]]
<1>2. /\ n \in 0..Retries /\ old \in Nat /\ Within(facebook[c])
      /\ facebook[c].call \in {"app token", "debug token", "user info"}
  BY Fields DEF TryAgain, Calling
<1>3. n + 1 \in 0..Retries /\ n + 1 \in 1..Retries
  <2>1. n < Retries
    BY DEF TryAgain
  <2>2. n \in 0..Retries /\ Retries \in Nat
    BY <1>2, Times
  <2> HIDE DEF n
  <2> QED BY <2>1, <2>2
<1>7. delay \in Nat /\ time \in Nat /\ time + delay <= AttemptTime
  <2> HIDE DEF n
  <2> QED BY <1>3, Latency
<1>8. spent \in Nat /\ spent <= AttemptTime /\ old + spent = old + time + delay
  <2>1. old \in Nat /\ delay \in Nat /\ time \in Nat /\ time + delay <= AttemptTime
    BY <1>2, <1>7
  <2>2. \A x \in Nat, y \in Nat, z \in Nat : y + z \in Nat /\ x + (y + z) = x + y + z
    OBVIOUS
  <2> HIDE DEF delay, old
  <2> QED BY <2>1, <2>2
<1>4. /\ e \in Exchanges
      /\ e.call = facebook[c].call /\ e.attempt = n + 1 /\ e.elapsed = old + spent
  <2>1. facebook[c] \in Exchanges
    BY DEF GatewayInv, GatewayTypeOK
  <2>2. e = [facebook[c] EXCEPT !.attempt = n + 1, !.elapsed = old + spent]
    BY <1>8
  <2>3. old + spent \in Nat
    <3>1. old \in Nat /\ spent \in Nat
      BY <1>2, <1>8
    <3> HIDE DEF old, spent
    <3> QED BY <3>1
  <2> HIDE DEF n, old, spent, e
  <2> QED BY <2>1, <2>2, <2>3, <1>3 DEF Exchanges
<1> DEFINE before == AttemptsTime(n)
           after == AttemptsTime(n + 1)
<1>5. /\ before \in Nat /\ after = before + AttemptTime
      /\ CallTime \in Nat /\ AttemptTime \in Nat
  BY <1>2, OneMore, Times
<1>6. Within(e)
  <2>1. /\ facebook[c].call = "app token" => old <= before
        /\ facebook[c].call = "debug token" => old <= CallTime + before
        /\ facebook[c].call = "user info" => old <= 2 * CallTime + before
    BY <1>2 DEF Within
  <2>2. /\ facebook[c].call = "app token" => e.elapsed <= after
        /\ facebook[c].call = "debug token" => e.elapsed <= CallTime + after
        /\ facebook[c].call = "user info" => e.elapsed <= 2 * CallTime + after
    <3>1. e.elapsed = old + spent
      BY <1>4
    <3>2. old \in Nat /\ spent \in Nat /\ spent <= AttemptTime
      BY <1>2, <1>8
    <3> HIDE DEF e, old, spent, before, after
    <3>3. /\ old <= before => old + spent <= after
          /\ old <= CallTime + before => old + spent <= CallTime + after
          /\ old <= 2 * CallTime + before => old + spent <= 2 * CallTime + after
      BY <1>5, <3>2
    <3> QED BY <3>1, <3>3, <2>1
  <2>3. AttemptsTime(e.attempt) = after
    BY <1>4
  <2> HIDE DEF e, after
  <2> QED BY <1>2, <1>4, <2>2, <2>3 DEF Within
<1> HIDE DEF e
<1> QED BY <1>1, <1>4, <1>6, ProceedStep DEF e

\* A login begins, or takes its verdict.
LEMMA IdleStep ==
  ASSUME GatewayInv, NEW c \in Clients, LoadUser(c) \/ Conclude(c)
  PROVE  GatewayInv'
<1>1. 0 \in 0..Retries /\ AttemptsTime(0) = 0
  <2>1. 0 \in 0..Retries
    BY Times
  <2> QED BY <2>1, OneMore
<1>2. CASE LoadUser(c)
  <2> DEFINE e == [NoExchange EXCEPT !.call = "app token"]
  <2>1. e \in Exchanges /\ Proceed(c, e)
    BY <1>1, <1>2 DEF NoExchange, Exchanges, Causes, LoadUser
  <2>2. e.call = "app token" /\ e.attempt = 0 /\ e.elapsed = 0 /\ 0 <= AttemptsTime(0)
    BY <1>1 DEF NoExchange
  <2> HIDE DEF e
  <2>3. Within(e)
    BY <2>2 DEF Within
  <2> QED BY <2>1, <2>3, ProceedStep
<1>3. CASE Conclude(c)
  <2>1. NoExchange \in Exchanges /\ Within(NoExchange)
    BY <1>1 DEF NoExchange, Exchanges, Causes, Within
  <2> QED BY <1>3, <2>1, ProceedStep DEF Conclude
<1> QED BY <1>2, <1>3

\* One attempt of a call comes to an end.
LEMMA ExchangeStep ==
  ASSUME GatewayInv, NEW c \in Clients, Exchange(c)
  PROVE  GatewayInv'
<1> USE DEF Calling, Verdicts, Causes
<1>1. CASE AppToken(c)
  BY <1>1, GoOnStep DEF AppToken
<1>2. CASE DebugToken(c)
  BY <1>2, GoOnStep, DecideStep DEF DebugToken
<1>3. CASE UserInfo(c)
  BY <1>3, DecideStep DEF UserInfo
<1>4. CASE CallRefused(c)
  BY <1>4, DecideStep DEF CallRefused
<1>5. CASE TryAgain(c)
  BY <1>5, TryAgainStep
<1>6. CASE GiveUp(c)
  BY <1>6, DecideStep DEF GiveUp
<1> QED BY <1>1, <1>2, <1>3, <1>4, <1>5, <1>6 DEF Exchange

LEMMA InitGatewayBlame == GatewayInit => BlameOK
<1>1. Blamed(NoExchange)
  BY DEF Blamed, NoExchange, Causes
<1> QED BY <1>1 DEF GatewayInit, BlameOK, Blamed

\* An exchange that goes on keeps what was found out, and a verdict says who is to blame.
LEMMA ProceedBlame ==
  ASSUME IInv, NEW c \in Clients, NEW e, Blamed(e), Proceed(c, e)
  PROVE  BlameOK'
<1>1. \A d \in Clients : facebook'[d] = IF d = c THEN e ELSE facebook[d]
  BY DEF IInv, GatewayInv, GatewayTypeOK, Proceed
<1>2. \A d \in Clients : Blamed(facebook'[d])
  BY <1>1 DEF IInv, BlameOK
<1> QED BY <1>2 DEF BlameOK, Blamed, Causes

LEMMA BlameStep ==
  ASSUME IInv, NEW c \in Clients, LoadUser(c) \/ Conclude(c) \/ Exchange(c)
  PROVE  BlameOK'
<1>1. facebook[c] \in Exchanges /\ Blamed(facebook[c])
  BY DEF IInv, GatewayInv, GatewayTypeOK, BlameOK
<1>2. Blamed(NoExchange) /\ Blamed([NoExchange EXCEPT !.call = "app token"])
  BY DEF Blamed, NoExchange, Causes
<1>3. ASSUME NEW verdict, NEW cause \in Causes, NEW time,
             cause = "dependency" <=> verdict = "unavailable",
             Decide(c, verdict, cause, time)
      PROVE  BlameOK'
  <2> DEFINE e == [facebook[c] EXCEPT !.call = "done", !.verdict = verdict,
                                      !.cause = cause, !.elapsed = @ + time]
  <2>1. e.cause = cause /\ e.verdict = verdict /\ Proceed(c, e)
    BY <1>1, <1>3 DEF Decide, Exchanges
  <2> HIDE DEF e
  <2> QED BY <2>1, <1>3, ProceedBlame DEF Blamed
<1>4. ASSUME NEW call, NEW time, GoOn(c, call, time)
      PROVE  BlameOK'
  <2> DEFINE e == [facebook[c] EXCEPT !.call = call, !.attempt = 0, !.elapsed = @ + time]
  <2>1. e.cause = facebook[c].cause /\ e.verdict = facebook[c].verdict /\ Proceed(c, e)
    BY <1>1, <1>4 DEF GoOn, Exchanges
  <2> HIDE DEF e
  <2> QED BY <2>1, <1>1, ProceedBlame DEF Blamed
<1>5. CASE LoadUser(c) \/ Conclude(c)
  BY <1>2, <1>5, ProceedBlame DEF LoadUser, Conclude
<1>6. CASE AppToken(c)
  BY <1>4, <1>6 DEF AppToken
<1>7. CASE DebugToken(c)
  BY <1>3, <1>4, <1>7 DEF DebugToken, Causes
<1>8. CASE UserInfo(c)
  BY <1>3, <1>8 DEF UserInfo, Causes
<1>9. CASE CallRefused(c)
  BY <1>3, <1>9 DEF CallRefused, Causes
<1>10. CASE TryAgain(c)
  <2>1. PICK time \in Latencies :
          Proceed(c, [facebook[c] EXCEPT
                        !.attempt = facebook[c].attempt + 1,
                        !.elapsed = @ + time + RetryDelays[facebook[c].attempt + 1]])
    BY <1>10 DEF TryAgain
  <2> DEFINE e == [facebook[c] EXCEPT
                     !.attempt = facebook[c].attempt + 1,
                     !.elapsed = @ + time + RetryDelays[facebook[c].attempt + 1]]
  <2>2. e.cause = facebook[c].cause /\ e.verdict = facebook[c].verdict /\ Proceed(c, e)
    BY <1>1, <2>1 DEF Exchanges
  <2> HIDE DEF e
  <2> QED BY <2>2, <1>1, ProceedBlame DEF Blamed
<1>11. CASE GiveUp(c)
  BY <1>3, <1>11 DEF GiveUp, Causes
<1> QED BY <1>5, <1>6, <1>7, <1>8, <1>9, <1>10, <1>11 DEF Exchange

----------------------------------------------------------------------------
(* Configuration *)

\* Limits are numbers, and in production no default but the database's is left.
LEMMA ValidEnv ==
  ASSUME NEW r \in RawEnvs, Valid(r), NEW e, e = Env(r)
  PROVE  /\ \A limiter \in Limiters : e.limits[limiter] \in Nat
         /\ e.isProduction =>
              /\ \A v \in Settings : e.settings[v] = Default => v \in Connection
              /\ \A secret \in Secrets : e.settings[secret] \notin {Unset, Empty}
              /\ e.settings["JWT_SECRET"] >= 32
              /\ \/ \A key \in KeyPair : e.settings[key] = Unset
                 \/ \A key \in KeyPair : e.settings[key] \notin {Unset, Empty}
<1>1. \A limit \in Limits, default \in Nat : Number(r, limit, default) \in Nat
  <2> TAKE limit \in Limits, default \in Nat
  <2>1. limit \in Numbers
    BY DEF Numbers
  <2>2. r[limit] \in Nat \union {Unset, Empty, NotANumber} /\ r[limit] # NotANumber
    BY <2>1, RawEnvsAssumption DEF Valid
  <2> QED BY <2>2 DEF Number
<1>2. \A limiter \in Limiters : e.limits[limiter] \in Nat
  <2>1. e.limits = [global |-> Number(r, "RATE_LIMIT_PER_MINUTE", 100),
                    auth |-> Number(r, "AUTH_RATE_LIMIT_PER_MINUTE", 10)]
    BY DEF Env
  <2>2. /\ Number(r, "RATE_LIMIT_PER_MINUTE", 100) \in Nat
        /\ Number(r, "AUTH_RATE_LIMIT_PER_MINUTE", 10) \in Nat
    BY <1>1 DEF Limits
  <2>3. e.limits["global"] \in Nat /\ e.limits["auth"] \in Nat
    BY <2>1, <2>2
  <2> QED BY <2>3 DEF Limiters
<1>3. ASSUME Production(r)
      PROVE  /\ \A v \in Settings : e.settings[v] = Default => v \in Connection
             /\ \A secret \in Secrets : e.settings[secret] \notin {Unset, Empty}
             /\ e.settings["JWT_SECRET"] >= 32
             /\ \/ \A key \in KeyPair : e.settings[key] = Unset
                \/ \A key \in KeyPair : e.settings[key] \notin {Unset, Empty}
  \* outside the connection what was given is what is read
  <2>1. \A v \in Secrets \union KeyPair : e.settings[v] = Given(r, v)
    <3> TAKE v \in Secrets \union KeyPair
    <3>1. v \in Settings /\ v \notin Connection /\ v # "DB_PORT"
      BY DEF Settings, Secrets, KeyPair, Connection
    <3>2. e.settings[v] = Setting(r, v)
      BY <3>1 DEF Env
    <3> QED BY <1>3, <3>1, <3>2 DEF Setting
  <2>2. \A v \in Secrets \union KeyPair : r[v] \in Nat \union {Unset, Empty}
    <3>1. Secrets \union KeyPair \subseteq Settings \ {"DB_PORT"}
      BY DEF Settings, Secrets, KeyPair
    <3> QED BY <3>1, RawEnvsAssumption
  <2>3. \A secret \in Secrets : Given(r, secret) = r[secret]
    BY DEF Given, Secrets, KeyPair, Flags
  <2>4. \A secret \in Secrets :
          LongEnough(r[secret], IF secret = "JWT_SECRET" THEN 32 ELSE 1)
    BY <1>3 DEF Valid, RequiredSecrets
  <2>5. \A secret \in Secrets :
          /\ r[secret] \in Nat
          /\ r[secret] >= IF secret = "JWT_SECRET" THEN 32 ELSE 1
    <3> SUFFICES ASSUME NEW secret \in Secrets, NEW value, value = r[secret],
                        NEW min, min = IF secret = "JWT_SECRET" THEN 32 ELSE 1
                 PROVE  value \in Nat /\ value >= min
      OBVIOUS
    <3>1. value \in Nat \union {Unset, Empty} /\ LongEnough(value, min) /\ min \in {1, 32}
      BY <2>2, <2>4
    <3> QED BY <3>1 DEF LongEnough
  <2>6. \A secret \in Secrets : e.settings[secret] \in Nat
    BY <2>1, <2>3, <2>5
  <2>7. e.settings["JWT_SECRET"] >= 32
    <3>1. "JWT_SECRET" \in Secrets
      BY DEF Secrets
    <3> QED BY <2>1, <2>3, <2>5, <3>1
  <2>8. \A key \in KeyPair : e.settings[key] \in Nat \union {Unset}
    <3> TAKE key \in KeyPair
    <3>1. e.settings[key] = IF r[key] = Empty THEN Unset ELSE r[key]
      BY <2>1 DEF Given
    <3> QED BY <2>2, <3>1
  <2>9. \A key, other \in KeyPair : e.settings[key] = Unset <=> e.settings[other] = Unset
    <3>1. Given(r, "S3_ACCESS_KEY_ID") = Unset <=> Given(r, "S3_SECRET_ACCESS_KEY") = Unset
      BY <1>3 DEF Valid, WholeKeyPair
    <3> QED BY <2>1, <3>1 DEF KeyPair
  <2>10. Unset # Default /\ Unset \notin Nat /\ Empty \notin Nat /\ Default \notin Nat
    BY MarksAssumption
  <2> QED BY <2>6, <2>7, <2>8, <2>9, <2>10 DEF Settings
<1>4. e.isProduction => Production(r)
  BY DEF Env
<1> QED BY <1>2, <1>3, <1>4

LEMMA ServingEnv ==
  ASSUME IInv, phase = "serving"
  PROVE  \A limiter \in Limiters : env.limits[limiter] \in Nat
BY ValidEnv DEF IInv, ConfigOK

\* A process that serves keeps its configuration.
LEMMA ConfigKept ==
  ASSUME IInv, phase = "serving", UNCHANGED config
  PROVE  ConfigOK'
BY DEF IInv, ConfigOK, config

----------------------------------------------------------------------------
(* Limiters *)

\* As many hops as there are proxies lead to the client, whatever it has
\* written into X-Forwarded-For.
LEMMA OwnAddress ==
  ASSUME NEW c \in Clients, NEW forwarded \in Seq(Addresses)
  PROVE  Ip(c, forwarded, Len(Proxies)) = c
<1> DEFINE chain == Proxies \o <<c>> \o forwarded
<1>1. Proxies \in Seq(Addresses) /\ <<c>> \in Seq(Addresses) /\ Proxies \o <<c>> \in Seq(Addresses)
  BY ProxiesAssumption, ClientsAssumption
<1>2. Len(chain) = Len(Proxies) + 1 + Len(forwarded)
  BY <1>1
<1>3. Len(Proxies) \in Nat /\ Len(forwarded) \in Nat
  BY <1>1
<1>4. chain[Len(Proxies) + 1] = c
  <2>1. (Proxies \o <<c>>)[Len(Proxies) + 1] = c
    BY <1>1
  <2>2. Len(Proxies \o <<c>>) = Len(Proxies) + 1
    BY <1>1
  <2> QED BY <1>1, <1>3, <2>1, <2>2
<1>5. Len(Proxies) < Len(chain)
  <2> HIDE DEF chain
  <2> QED BY <1>2, <1>3
<1> QED BY <1>4, <1>5 DEF Ip

\* A count set anew leaves counts.
LEMMA CountsSet ==
  ASSUME NEW S, NEW T, NEW f \in [S -> [T -> Nat]], NEW x \in S, NEW y, NEW n,
         y \in T => n \in Nat
  PROVE  [f EXCEPT ![x][y] = n] \in [S -> [T -> Nat]]
<1>1. f[x] \in [T -> Nat]
  OBVIOUS
<1>2. [f[x] EXCEPT ![y] = n] \in [T -> Nat]
  BY <1>1
<1>3. [f EXCEPT ![x][y] = n] = [f EXCEPT ![x] = [f[x] EXCEPT ![y] = n]]
  OBVIOUS
<1> QED BY <1>2, <1>3

LEMMA CountsKept ==
  ASSUME IInv, UNCHANGED <<config, counts>>
  PROVE  CountsOK'
BY DEF IInv, CountsOK, Matches, config, counts

\* A request counts for its client, in the limiter and in the history, and
\* past the limit in neither.
LEMMA LimitedStep ==
  ASSUME IInv, phase = "serving", UNCHANGED config,
         NEW c \in Clients, NEW input \in Inputs[c], NEW limiter \in Limiters,
         ~env.isTest, Hit(limiter, Address(c, input), env.limits[limiter]),
         IF Exhausted(limiter, Address(c, input), env.limits[limiter])
           THEN UNCHANGED admitted
           ELSE admitted' = [admitted EXCEPT ![limiter][c] = @ + 1]
  PROVE  CountsOK'
<1> DEFINE address == Address(c, input)
           limit == env.limits[limiter]
<1>1. /\ hits \in [Limiters -> [Addresses -> Nat]]
      /\ admitted \in [Limiters -> [Clients -> Nat]]
      /\ limit \in Nat
  BY ServingEnv DEF IInv, CountsOK
<1>2. hits' = [hits EXCEPT ![limiter][address] = IF @ < limit THEN @ + 1 ELSE @]
  BY DEF Hit
<1>3. hits[limiter][address] >= limit => admitted' = admitted
  BY DEF Exhausted
<1>4. ~(hits[limiter][address] >= limit) => admitted' = [admitted EXCEPT ![limiter][c] = @ + 1]
  BY DEF Exhausted
<1> HIDE DEF limit, address
<1>5. hits' \in [Limiters -> [Addresses -> Nat]]
  <2>1. PICK n : n = IF hits[limiter][address] < limit THEN hits[limiter][address] + 1
                     ELSE hits[limiter][address]
    OBVIOUS
  <2>2. hits' = [hits EXCEPT ![limiter][address] = n]
    BY <1>2, <2>1
  <2>3. address \in Addresses => n \in Nat
    <3>1. address \in Addresses => hits[limiter][address] \in Nat
      BY <1>1
    <3> QED BY <2>1, <3>1
  <2> QED BY <1>1, <2>2, <2>3, CountsSet
<1>6. admitted' \in [Limiters -> [Clients -> Nat]]
  <2>1. PICK n : n = admitted[limiter][c] + 1
    OBVIOUS
  <2>2. n \in Nat /\ (admitted' = admitted \/ admitted' = [admitted EXCEPT ![limiter][c] = n])
    BY <1>1, <1>3, <1>4, <2>1
  <2>3. [admitted EXCEPT ![limiter][c] = n] \in [Limiters -> [Clients -> Nat]]
    BY <1>1, <2>2, CountsSet
  <2> QED BY <1>1, <2>2, <2>3
<1>7. ASSUME Matches, NEW l \in Limiters, NEW d \in Clients
      PROVE  admitted'[l][d] = hits'[l][d] /\ hits'[l][d] <= env.limits[l]
  <2>1. address = c /\ c \in Addresses /\ d \in Addresses
    BY <1>7, OwnAddress, InputsAssumption, ClientsAssumption DEF address, Address, Matches
  <2>2. admitted[l][d] = hits[l][d] /\ hits[l][d] <= env.limits[l]
    BY <1>7 DEF IInv, CountsOK
  <2>3. CASE l = limiter /\ d = c
    <3>1. hits[l][d] \in Nat /\ env.limits[l] = limit
      BY <1>1, <2>1, <2>3 DEF limit
    <3>2. hits'[l][d] = IF hits[l][d] < limit THEN hits[l][d] + 1 ELSE hits[l][d]
      BY <1>1, <1>2, <2>1, <2>3
    <3>3. admitted'[l][d] = IF hits[l][d] >= limit THEN admitted[l][d] ELSE admitted[l][d] + 1
      BY <1>1, <1>3, <1>4, <2>1, <2>3
    <3> QED BY <1>1, <2>2, <3>1, <3>2, <3>3
  <2>4. CASE ~(l = limiter /\ d = c)
    <3>1. hits'[l][d] = hits[l][d]
      BY <1>1, <1>2, <2>1, <2>4
    <3>2. admitted'[l][d] = admitted[l][d]
      BY <1>1, <1>3, <1>4, <2>4
    <3> QED BY <2>2, <3>1, <3>2
  <2> QED BY <2>3, <2>4
<1> QED BY <1>5, <1>6, <1>7 DEF CountsOK, Matches, config

\* Where the hops match the proxies, a client is refused when its own quota is spent.
LEMMA RefusedAtLimit ==
  ASSUME IInv, Matches, NEW c \in Clients, NEW input \in Inputs[c], NEW limiter \in Limiters,
         Exhausted(limiter, Address(c, input), env.limits[limiter])
  PROVE  admitted[limiter][c] = env.limits[limiter]
<1>1. Address(c, input) = c
  BY OwnAddress, InputsAssumption DEF Address, Matches
<1>2. hits[limiter][c] \in Nat /\ env.limits[limiter] \in Nat
  BY ServingEnv, ClientsAssumption DEF IInv, CountsOK, Matches
<1>3. hits[limiter][c] >= env.limits[limiter]
  BY <1>1 DEF Exhausted
<1>4. admitted[limiter][c] = hits[limiter][c] /\ hits[limiter][c] <= env.limits[limiter]
  BY DEF IInv, CountsOK
<1> QED BY <1>2, <1>3, <1>4

\* A window ends for the limiter and for the history.
LEMMA WindowStep ==
  ASSUME IInv, NEW limiter \in Limiters, NEW address \in Addresses, WindowPasses(limiter, address)
  PROVE  CountsOK'
<1>1. hits \in [Limiters -> [Addresses -> Nat]] /\ admitted \in [Limiters -> [Clients -> Nat]]
  BY DEF IInv, CountsOK
<1>2. /\ hits' = [hits EXCEPT ![limiter][address] = 0]
      /\ admitted' = [admitted EXCEPT ![limiter] =
                        [c \in Clients |-> IF c = address THEN 0 ELSE @[c]]]
      /\ UNCHANGED config /\ phase = "serving"
  BY DEF WindowPasses, WindowEnds
<1>3. hits' \in [Limiters -> [Addresses -> Nat]] /\ admitted' \in [Limiters -> [Clients -> Nat]]
  BY <1>1, <1>2
<1>4. ASSUME Matches, NEW l \in Limiters, NEW d \in Clients
      PROVE  admitted'[l][d] = hits'[l][d] /\ hits'[l][d] <= env.limits[l]
  <2>1. d \in Addresses /\ env.limits[l] \in Nat
    BY <1>2, ServingEnv, ClientsAssumption
  <2>2. admitted[l][d] = hits[l][d] /\ hits[l][d] <= env.limits[l]
    BY <1>4 DEF IInv, CountsOK
  <2>3. hits'[l][d] = IF l = limiter /\ d = address THEN 0 ELSE hits[l][d]
    BY <1>1, <1>2, <2>1
  <2>4. admitted'[l][d] = IF l = limiter /\ d = address THEN 0 ELSE admitted[l][d]
    BY <1>1, <1>2
  <2> QED BY <2>1, <2>2, <2>3, <2>4
<1> QED BY <1>2, <1>3, <1>4 DEF CountsOK, Matches, config

----------------------------------------------------------------------------
(* Requests *)

\* Only the client's own request changes, to one that is all right.
LEMMA RequestStep ==
  ASSUME IInv, UNCHANGED env, NEW c \in Clients, NEW r, RequestOK(c, r),
         request' = [request EXCEPT ![c] = r]
  PROVE  RequestsOK'
<1>1. /\ request' = [d \in Clients |-> request'[d]]
      /\ \A d \in Clients : request'[d] = IF d = c THEN r ELSE request[d]
  BY DEF IInv, RequestsOK
<1>2. \A d \in Clients : RequestOK(d, request'[d])
  BY <1>1 DEF IInv, RequestsOK
<1>3. ASSUME NEW d, NEW q PROVE RequestOK(d, q)' <=> RequestOK(d, q)
  <2>1. \A header : OpsAuth(header)' = OpsAuth(header)
    BY DEF OpsAuth
  <2>2. Granted(q)' <=> Granted(q)
    BY <2>1 DEF Granted
  <2> QED BY <2>2 DEF RequestOK, Request, Sent, Validated, Explained
<1>4. \A d \in Clients : RequestOK(d, request[d])'
  BY <1>2, <1>3 DEF RequestOK, Request, Sent, Granted, OpsAuth, Validated, Explained
<1> QED BY <1>1, <1>4 DEF RequestsOK

\* The fields of a request.
LEMMA RequestFields ==
  ASSUME IInv, NEW c \in Clients, NEW r, r = request[c]
  PROVE  /\ RequestOK(c, r) /\ c \in DOMAIN request
         /\ r = [pc |-> r.pc, input |-> r.input, userId |-> r.userId,
                 file |-> r.file, cause |-> r.cause, status |-> r.status]
         /\ r.pc \in Pcs /\ r.input \in Inputs[c] \union {NoInput}
         /\ r.userId \in Users \union {Missing} /\ r.file \in Files \union Values
         /\ r.cause \in Culprits /\ r.status \in Statuses
<1>1. RequestOK(c, r) /\ c \in DOMAIN request
  BY DEF IInv, RequestsOK
<1> QED BY <1>1 DEF RequestOK, Request

\* An answer that is no error's.
LEMMA AnswerStep ==
  ASSUME IInv, UNCHANGED env, NEW c \in Clients, NEW status \in Statuses,
         request[c].pc \notin {"none", "answered"}, status < 500,
         Answer(c, status)
  PROVE  RequestsOK'
<1> SUFFICES ASSUME NEW r, r = request[c],
                    NEW a, a = [r EXCEPT !.pc = "answered", !.status = status]
             PROVE  RequestsOK'
  OBVIOUS
<1>1. a = [pc |-> "answered", input |-> r.input, userId |-> r.userId,
           file |-> r.file, cause |-> r.cause, status |-> status]
  <2>1. r \in Request(c)
    BY RequestFields DEF RequestOK
  <2> QED BY <2>1 DEF Request
<1>2. request' = [request EXCEPT ![c] = a]
  BY RequestFields DEF Answer
<1>3. r.cause = "none" /\ r.input \in Inputs[c]
  BY RequestFields DEF RequestOK, Explained, Sent
<1>4. RequestOK(c, a)
  <2>1. a \in Request(c)
    BY <1>1, RequestFields DEF Request, Pcs
  <2>2. a.pc = "answered" /\ a.input = r.input /\ a.status = status /\ a.cause = r.cause
    BY <1>1
  <2>3. Explained(a)
    <3>1. ~(status >= 500)
      BY DEF Statuses
    <3> QED BY <2>2, <3>1, <1>3 DEF Explained, Explains
  <2> QED BY <2>1, <2>2, <2>3, <1>3 DEF RequestOK, Sent, Granted, Validated
<1> QED BY <1>2, <1>4, RequestStep

\* The statuses of errors.
LEMMA MapErrors ==
  /\ MapError("AuthenticationError") = 401
  /\ MapError("ExternalServiceError") = 502
  /\ MapError("UserNotFoundError") = 404
  /\ MapError("ConcurrentModificationError") = 409
  /\ MapError("Error") = 500
BY DEF MapError

\* An error whose status says whose it is.
LEMMA FailStep ==
  ASSUME IInv, UNCHANGED env, NEW c \in Clients, NEW error, NEW because \in Culprits,
         request[c].pc \in {"controller", "perform"}, MapError(error) \in Statuses,
         Explains(because, MapError(error), request[c].input.to),
         Fails(c, error, because)
  PROVE  RequestsOK'
<1> SUFFICES ASSUME NEW r, r = request[c], NEW status, status = MapError(error),
                    NEW a, a = [r EXCEPT !.pc = "answered", !.status = status,
                                         !.cause = because]
             PROVE  RequestsOK'
  OBVIOUS
<1>1. a = [pc |-> "answered", input |-> r.input, userId |-> r.userId,
           file |-> r.file, cause |-> because, status |-> status]
  <2>1. r \in Request(c)
    BY RequestFields DEF RequestOK
  <2> QED BY <2>1 DEF Request
<1>2. request' = [request EXCEPT ![c] = a]
  BY RequestFields DEF Fails
<1>3. r.input \in Inputs[c]
  BY RequestFields DEF RequestOK, Sent
<1>4. RequestOK(c, a)
  <2>1. a \in Request(c)
    BY <1>1, RequestFields DEF Request, Pcs
  <2>2. a.pc = "answered" /\ a.input = r.input /\ a.status = status /\ a.cause = because
    BY <1>1
  <2> QED BY <2>1, <2>2, <1>3 DEF RequestOK, Sent, Granted, Validated, Explained
<1> QED BY <1>2, <1>4, RequestStep

\* A request that goes on with a finding more.
LEMMA GoesOn ==
  ASSUME IInv, UNCHANGED env, NEW c \in Clients, NEW pc, NEW user, NEW file,
         request[c].pc \notin {"none", "answered"},
         pc \in {"upload", "controller", "perform"},
         user \in Users \union {Missing}, file \in Files \union Values,
         NEW r, r = [request[c] EXCEPT !.pc = pc, !.userId = user, !.file = file],
         Granted(r), Validated(r),
         request' = [request EXCEPT ![c] = r]
  PROVE  RequestsOK'
<1> SUFFICES ASSUME NEW q, q = request[c] PROVE RequestsOK'
  OBVIOUS
<1>1. r = [pc |-> pc, input |-> q.input, userId |-> user,
           file |-> file, cause |-> q.cause, status |-> q.status]
  <2>1. q \in Request(c)
    BY RequestFields DEF RequestOK
  <2> QED BY <2>1 DEF Request
<1>2. q.cause = "none" /\ q.input \in Inputs[c]
  BY RequestFields DEF RequestOK, Explained, Sent
<1>3. r \in Request(c)
  BY <1>1, RequestFields DEF Request, Pcs
<1>4. r.pc = pc /\ r.cause = q.cause /\ r.input = q.input
  BY <1>1
<1>5. RequestOK(c, r)
  BY <1>2, <1>3, <1>4 DEF RequestOK, Sent, Explained
<1> QED BY <1>5, RequestStep

\* What is found in an authorization that is let through is a token of this
\* service's for that user.
LEMMA Authenticated ==
  ASSUME NEW header, NEW user, user = Authenticate(header), user # Missing
  PROVE  user \in Users /\ header.credentials = Generate(user)
<1> DEFINE token == BearerToken(header)
<1>1. token \in Tokens /\ Verify(token) /\ token.subject # Blank /\ user = token.subject
  BY DEF Authenticate, Validate
<1>2. token = header.credentials
  BY <1>1, TokensAssumption DEF BearerToken
<1> HIDE DEF token
<1>3. token = [secret |-> token.secret, algorithm |-> token.algorithm, issuer |-> token.issuer,
               audience |-> token.audience, expired |-> token.expired, subject |-> token.subject]
  BY <1>1 DEF Tokens
<1>4. token = Generate(user)
  BY <1>1, <1>3 DEF Verify, Generate, Tokens
<1>5. user \in Users
  BY <1>1 DEF Tokens
<1> QED BY <1>2, <1>4, <1>5

\* What the validators let through is what it says it is.
LEMMA ValidFile ==
  ASSUME NEW file, ValidPicture(file)
  PROVE  Checked(file)
<1> SUFFICES ASSUME Complete(file)
             PROVE  file.mimeType = file.signature /\ file.size \in 1..MaxSize
  BY DEF Checked
<1>1. file \in Files /\ file.mimeType # Missing /\ file.size # Missing
  BY DEF Complete
<1>2. Image(file)
  BY <1>1, FilesAssumption DEF ValidPicture, Values
<1>3. file.mimeType \in Extensions
  BY <1>1, <1>2 DEF Image, AllowedMimeTypes
<1>4. file.signature = file.mimeType
  BY <1>1, <1>2, <1>3 DEF Image, FileSignature, ExpectedSignatures
<1>5. file.size \in 0..MaxSize /\ file.size # 0
  BY <1>1, <1>2 DEF Image, MaxFileSize, RequiredBuffer
<1> QED BY <1>4, <1>5, ValuesAssumption

\* The missing values are no files.
LEMMA NoFile == Missing \notin Files /\ Null \notin Files
BY FilesAssumption DEF Values

LEMMA RequestsKept ==
  ASSUME IInv, UNCHANGED <<env, request>>
  PROVE  RequestsOK'
BY DEF IInv, RequestsOK, RequestOK, Request, Sent, Granted, OpsAuth, Validated, Explained

LEMMA FacebookKept ==
  ASSUME IInv, UNCHANGED facebook
  PROVE  GatewayInv' /\ BlameOK'
BY DEF IInv, GatewayInv, GatewayTypeOK, Within, BlameOK, Blamed

\* A request goes to the next stage with no new finding.
LEMMA ToStep ==
  ASSUME IInv, UNCHANGED env, NEW c \in Clients, NEW r, r = request[c],
         r.pc \in {"body", "upload"}, To(c, "controller"),
         r.input.to \notin PictureRoutes,
         r.input.to \in OpsRoutes => OpsAuth(r.input.authorization) = 200
  PROVE  RequestsOK'
<1> PICK a : a = [r EXCEPT !.pc = "controller"]
  OBVIOUS
<1>1. r \in Request(c) /\ r.cause = "none" /\ r.input \in Inputs[c]
  BY RequestFields DEF RequestOK, Explained, Sent
<1>2. /\ a \in Request(c)
      /\ a.pc = "controller" /\ a.input = r.input /\ a.cause = r.cause
  BY <1>1 DEF Request, Pcs
<1>3. request' = [request EXCEPT ![c] = a]
  BY RequestFields DEF To
<1>4. Granted(a) /\ Validated(a)
  BY <1>2 DEF Granted, Validated, PictureRoutes
<1>5. RequestOK(c, a)
  BY <1>1, <1>2, <1>4 DEF RequestOK, Sent, Explained
<1> QED BY <1>3, <1>5, RequestStep

\* The preflight, the global limiter.
LEMMA ArriveStep ==
  ASSUME IInv, NEW c \in Clients, NEW input \in Inputs[c], Arrive(c, input)
  PROVE  RequestsOK' /\ CountsOK'
<1>1. phase = "serving" /\ UNCHANGED config /\ UNCHANGED env
  BY DEF Arrive, At, config
<1>2. ASSUME NEW pc \in {"body", "answered"}, NEW status \in {0, 204, 429},
             Became(c, input, pc, status)
      PROVE  RequestsOK'
  <2> PICK q : q = NoRequest
    OBVIOUS
  <2> PICK r : r = [q EXCEPT !.pc = pc, !.input = input, !.status = status]
    OBVIOUS
  <2>1. q \in Request(c) /\ q.cause = "none"
    BY DEF NoRequest, Request, Pcs, Statuses, Culprits, Values
  <2>2. request' = [request EXCEPT ![c] = r]
    BY <1>2 DEF Became
  <2>3. r = [pc |-> pc, input |-> input, userId |-> q.userId,
             file |-> q.file, cause |-> q.cause, status |-> status]
    BY <2>1 DEF Request
  <2>4. r \in Request(c)
    <3>1. status \in Statuses /\ pc \in Pcs /\ input \in Inputs[c] \union {NoInput}
      BY <1>2 DEF Statuses, Pcs
    <3>2. /\ q.userId \in Users \union {Missing} /\ q.file \in Files \union Values
          /\ q.cause \in Culprits
      BY <2>1 DEF Request
    <3> QED BY <2>3, <3>1, <3>2 DEF Request
  <2>5. r.pc = pc /\ r.input = input /\ r.cause = q.cause /\ r.status = status
    BY <2>3
  <2>6. RequestOK(c, r)
    BY <1>2, <2>1, <2>4, <2>5
       DEF RequestOK, Sent, Granted, Validated, Explained, Explains
  <2> QED BY <1>1, <2>2, <2>6, RequestStep
<1>3. CASE input.to = "preflight" /\ env.cors
  BY <1>1, <1>2, <1>3, CountsKept DEF Arrive
<1>4. CASE ~(input.to = "preflight" /\ env.cors)
  <2>1. Limited(c, "global", input, Became(c, input, "body", 0),
                                    Became(c, input, "answered", 429))
    BY <1>4 DEF Arrive
  <2>2. Became(c, input, "body", 0) \/ Became(c, input, "answered", 429)
    BY <2>1 DEF Limited
  <2>3. CountsOK'
    <3>1. CASE UNCHANGED counts
      BY <1>1, <3>1, CountsKept
    <3>2. CASE /\ ~env.isTest /\ Hit("global", Address(c, input), env.limits["global"])
               /\ IF Exhausted("global", Address(c, input), env.limits["global"])
                    THEN UNCHANGED admitted
                    ELSE admitted' = [admitted EXCEPT !["global"][c] = @ + 1]
      BY <1>1, <3>2, LimitedStep DEF Limiters
    <3> QED BY <2>1, <3>1, <3>2 DEF Limited
  <2> QED BY <1>2, <2>2, <2>3
<1> QED BY <1>3, <1>4

\* A picture route's token is authenticated.
LEMMA AuthenticatedStep ==
  ASSUME IInv, UNCHANGED env, NEW c \in Clients, NEW r, r = request[c],
         r.pc = "body", r.input.to \in PictureRoutes,
         NEW user, user = Authenticate(r.input.authorization), user # Missing,
         NEW pc, pc = IF r.input.to = "put" THEN "upload" ELSE "controller",
         request' = [request EXCEPT ![c].userId = user, ![c].pc = pc]
  PROVE  RequestsOK'
<1> SUFFICES ASSUME NEW a, a = [r EXCEPT !.pc = pc, !.userId = user, !.file = r.file]
             PROVE  RequestsOK'
  OBVIOUS
<1>1. r \in Request(c)
  BY RequestFields DEF RequestOK
<1>2. a = [pc |-> pc, input |-> r.input, userId |-> user,
           file |-> r.file, cause |-> r.cause, status |-> r.status]
  BY <1>1 DEF Request
<1>3. a = [r EXCEPT !.userId = user, !.pc = pc]
  BY <1>1, <1>2 DEF Request
<1>4. request' = [request EXCEPT ![c] = a]
  BY <1>3, RequestFields
<1>5. user \in Users /\ r.input.authorization.credentials = Generate(user)
  BY Authenticated
<1>6. a.pc = pc /\ a.input = r.input /\ a.userId = user
  BY <1>2
<1>7. Granted(a) /\ Validated(a)
  BY <1>5, <1>6 DEF Granted, Validated, PictureRoutes, OpsRoutes
<1>8. r.file \in Files \union Values
  BY RequestFields
<1> QED BY <1>4, <1>5, <1>7, <1>8, GoesOn

\* Parsing the body, and the middlewares of the routes.
LEMMA BodyStep ==
  ASSUME IInv, NEW c \in Clients, Body(c)
  PROVE  RequestsOK' /\ CountsOK'
<1> SUFFICES ASSUME NEW r, r = request[c] PROVE RequestsOK' /\ CountsOK'
  OBVIOUS
<1>1. phase = "serving" /\ r.pc = "body" /\ UNCHANGED config /\ UNCHANGED env
  BY DEF Body, At, config
<1>2. r.input \in Inputs[c]
  BY <1>1, RequestFields DEF RequestOK, Sent
<1>3. \A status \in {200, 400, 401, 404, 413, 429} : Answer(c, status) => RequestsOK'
  BY <1>1, AnswerStep DEF Statuses
<1>4. ASSUME UNCHANGED counts PROVE CountsOK'
  BY <1>1, <1>4, CountsKept
<1>5. CASE r.input.to \in LoginRoutes /\
           Limited(c, "auth", r.input, To(c, "controller"), Answer(c, 429))
  <2>1. To(c, "controller") \/ Answer(c, 429)
    BY <1>5 DEF Limited
  <2>2. RequestsOK'
    BY <1>1, <1>3, <1>5, <2>1, ToStep DEF LoginRoutes, PictureRoutes, OpsRoutes
  <2>3. CASE UNCHANGED counts
    BY <1>4, <2>2, <2>3
  <2>4. CASE /\ ~env.isTest /\ Hit("auth", Address(c, r.input), env.limits["auth"])
             /\ IF Exhausted("auth", Address(c, r.input), env.limits["auth"])
                  THEN UNCHANGED admitted
                  ELSE admitted' = [admitted EXCEPT !["auth"][c] = @ + 1]
    BY <1>1, <1>2, <2>2, <2>4, LimitedStep DEF Limiters
  <2> QED BY <1>5, <2>3, <2>4 DEF Limited
<1>6. CASE /\ r.input.to \in PictureRoutes /\ UNCHANGED counts
           /\ LET user == Authenticate(r.input.authorization)
              IN  IF user = Missing THEN Answer(c, 401)
                  ELSE request' = [request EXCEPT ![c].userId = user,
                         ![c].pc = IF r.input.to = "put" THEN "upload" ELSE "controller"]
  <2> SUFFICES ASSUME NEW user, user = Authenticate(r.input.authorization),
                      NEW pc, pc = IF r.input.to = "put" THEN "upload" ELSE "controller"
               PROVE  RequestsOK'
    BY <1>4, <1>6
  <2>1. \/ user = Missing /\ Answer(c, 401)
        \/ user # Missing /\ request' = [request EXCEPT ![c].userId = user, ![c].pc = pc]
    BY <1>6
  <2>2. CASE Answer(c, 401)
    BY <1>3, <2>2
  <2>3. CASE user # Missing /\ request' = [request EXCEPT ![c].userId = user, ![c].pc = pc]
    BY <1>1, <1>6, <2>3, AuthenticatedStep
  <2> QED BY <2>1, <2>2, <2>3
<1>7. CASE /\ r.input.to \in OpsRoutes /\ UNCHANGED counts
           /\ LET status == OpsAuth(r.input.authorization)
              IN  IF status = 200 THEN To(c, "controller") ELSE Answer(c, status)
  <2>1. OpsAuth(r.input.authorization) \in {200, 401, 404}
    BY DEF OpsAuth
  <2>2. r.input.to \notin PictureRoutes
    BY <1>7 DEF PictureRoutes, OpsRoutes
  <2> QED BY <1>1, <1>3, <1>4, <1>7, <2>1, <2>2, ToStep
<1>8. CASE r.input.to = "health" /\ To(c, "controller") /\ UNCHANGED counts
  BY <1>1, <1>4, <1>8, ToStep DEF PictureRoutes, OpsRoutes
<1>9. CASE (\E status \in {200, 400, 404, 413} : Answer(c, status)) /\ UNCHANGED counts
  BY <1>3, <1>4, <1>9
<1>10. CASE r.input.body \in {"malformed", "too large"}
  BY <1>9, <1>10 DEF Body
<1>11. CASE r.input.body \in {"none", "json"}
  <2>1. CASE r.input.to \in {"docs", "unknown", "preflight"}
    <3>1. UNCHANGED counts /\ \E status \in {200, 404} : Answer(c, status)
      BY <1>11, <2>1 DEF Body, LoginRoutes, PictureRoutes, OpsRoutes
    <3> QED BY <1>9, <3>1
  <2>2. CASE r.input.to \notin {"docs", "unknown", "preflight"}
    BY <1>5, <1>6, <1>7, <1>8, <1>11, <2>2 DEF Body
  <2> QED BY <2>1, <2>2
<1> QED BY <1>10, <1>11 DEF Body

\* A part that is a file, from multer.
LEMMA UploadStep ==
  ASSUME IInv, NEW c \in Clients, Upload(c)
  PROVE  RequestsOK'
<1> SUFFICES ASSUME NEW r, r = request[c], NEW upload, upload = r.input.upload,
                    NEW a, a = [r EXCEPT !.pc = "controller", !.userId = r.userId, !.file = upload]
             PROVE  RequestsOK'
  OBVIOUS
<1>1. r.pc = "upload" /\ UNCHANGED env
  BY DEF Upload, At, config
<1>2. r.input \in Inputs[c] /\ Granted(r) /\ r \in Request(c) /\ r.userId \in Users \union {Missing}
  BY <1>1, RequestFields DEF RequestOK, Sent
<1>3. CASE upload \in Files /\ request' = [request EXCEPT ![c].pc = "controller", ![c].file = upload]
  <2>1. a = [pc |-> "controller", input |-> r.input, userId |-> r.userId,
             file |-> upload, cause |-> r.cause, status |-> r.status]
    BY <1>2 DEF Request
  <2>2. a = [r EXCEPT !.pc = "controller", !.file = upload]
    BY <1>2, <2>1 DEF Request
  <2>3. request' = [request EXCEPT ![c] = a]
    BY <1>3, <2>2, RequestFields
  <2>4. Complete(upload)
    BY <1>2, <1>3, InputsAssumption DEF Complete
  <2>5. a.pc = "controller" /\ a.input = r.input /\ a.userId = r.userId /\ a.file = upload
    BY <2>1
  <2>6. Granted(a) /\ Validated(a)
    BY <1>1, <1>2, <2>4, <2>5 DEF Granted, Validated, PictureRoutes, OpsRoutes
  <2> QED BY <1>1, <1>2, <1>3, <2>3, <2>6, GoesOn
<1>4. CASE Answer(c, 400)
  BY <1>1, <1>4, AnswerStep DEF Statuses
<1> QED BY <1>3, <1>4 DEF Upload

\* What the merge leaves of the findings: the user and the file that were
\* found, where something was.
LEMMA MergedFields ==
  ASSUME IInv, NEW c \in Clients, NEW r, r = request[c], r.pc = "controller",
         NEW user, user = Merged(c).userId, NEW file, file = Merged(c).file
  PROVE  /\ user \in Users \union {Missing} /\ file \in Files \union Values
         /\ r.userId # Missing => user = r.userId
         /\ Complete(r.file) => file = r.file
<1>1. r.input \in Inputs[c]
  BY RequestFields DEF RequestOK, Sent
<1>2. /\ user = IF r.userId # Missing THEN r.userId ELSE r.input.userId
      /\ file = IF r.file # Missing THEN r.file ELSE r.input.file
  BY DEF Merged
<1>3. /\ r.input.userId \in Users \union {Missing}
      /\ r.input.file \in Files \union Values
  BY <1>1, InputsAssumption
<1>4. Complete(r.file) => r.file # Missing
  BY NoFile DEF Complete
<1> QED BY <1>2, <1>3, <1>4, RequestFields

\* A request that is valid is worked on.
LEMMA PerformStarts ==
  ASSUME IInv, UNCHANGED env, NEW c \in Clients, NEW r, r = request[c], r.pc = "controller",
         NEW user, user = Merged(c).userId, NEW file, file = Merged(c).file, ValidInput(c),
         request' = [request EXCEPT ![c].pc = "perform", ![c].userId = user, ![c].file = file]
  PROVE  RequestsOK'
<1> PICK a : a = [r EXCEPT !.pc = "perform", !.userId = user, !.file = file]
  OBVIOUS
<1>1. r \in Request(c) /\ Granted(r)
  BY RequestFields DEF RequestOK
<1>2. a.pc = "perform" /\ a.input = r.input /\ a.userId = user /\ a.file = file
  BY <1>1 DEF Request
<1>3. request' = [request EXCEPT ![c] = a]
  BY RequestFields
<1>4. /\ user \in Users \union {Missing} /\ file \in Files \union Values
      /\ r.userId # Missing => user = r.userId
      /\ Complete(r.file) => file = r.file
  BY MergedFields
<1>5. Granted(a)
  BY <1>1, <1>2, <1>4 DEF Granted
<1>6. Validated(a)
  <2>1. r.input.to \in PictureRoutes => ValidPicture(file)
    BY DEF ValidInput, LoginRoutes, PictureRoutes
  <2> QED BY <1>2, <2>1, ValidFile DEF Validated
<1> QED BY <1>2, <1>3, <1>4, <1>5, <1>6, GoesOn

\* The errors of the use cases and their causes.
LEMMA FailsStep ==
  ASSUME IInv, UNCHANGED env, NEW c \in Clients, request[c].pc \in {"controller", "perform"}
  PROVE  /\ Fails(c, "AuthenticationError", "none") => RequestsOK'
         /\ Fails(c, "UserNotFoundError", "none") => RequestsOK'
         /\ Fails(c, "ConcurrentModificationError", "none") => RequestsOK'
         /\ Fails(c, "ExternalServiceError", "dependency") => RequestsOK'
         /\ Fails(c, "Error", "dependency") => RequestsOK'
         /\ request[c].input.to = "facebook" =>
              /\ Fails(c, "AuthenticationError", "refusal") => RequestsOK'
              /\ Fails(c, "Error", "duplicate") => RequestsOK'
         /\ request[c].input.to = "delete" /\ Fails(c, "Error", "value") => RequestsOK'
<1>1. ASSUME NEW error, NEW status \in Statuses, status = MapError(error),
             NEW because \in Culprits, Explains(because, status, request[c].input.to),
             Fails(c, error, because)
      PROVE  RequestsOK'
  BY <1>1, FailStep
<1>2. /\ {401, 404, 409, 500, 502} \subseteq Statuses
      /\ 500 >= 500 /\ 502 >= 500
      /\ \A status \in {401, 404, 409} : ~(status >= 500)
  BY DEF Statuses
<1> QED BY <1>1, <1>2, MapErrors DEF Explains, Culprits

LEMMA HandleStep ==
  ASSUME IInv, NEW c \in Clients, Handle(c)
  PROVE  RequestsOK' /\ GatewayInv' /\ BlameOK'
<1> PICK r : r = request[c]
  OBVIOUS
<1> PICK user, file : user = Merged(c).userId /\ file = Merged(c).file
  OBVIOUS
<1>1. r.pc = "controller" /\ UNCHANGED env
  BY DEF Handle, At, config
<1>2. CASE r.input.to \in PictureRoutes /\ BuildThrows(file)
           /\ Fails(c, "Error", "value") /\ UNCHANGED facebook
  <2>1. r.input.to = "put" => file \in Files
    <3>1. r.input.to = "put" => Complete(r.file)
      BY <1>1, RequestFields DEF RequestOK, Granted
    <3> QED BY <1>1, <3>1, MergedFields DEF Complete
  <2>2. r.input.to = "delete"
    BY <1>2, <2>1, NoFile DEF PictureRoutes, BuildThrows
  <2> QED BY <1>1, <1>2, <2>2, FailsStep, FacebookKept
<1>3. CASE Answer(c, 400) /\ UNCHANGED facebook
  BY <1>1, <1>3, AnswerStep, FacebookKept DEF Statuses
<1>4. CASE /\ ValidInput(c)
           /\ request' = [request EXCEPT ![c].pc = "perform", ![c].userId = user, ![c].file = file]
           /\ LoadUser(c) \/ UNCHANGED facebook
  <2>1. RequestsOK'
    BY <1>1, <1>4, PerformStarts
  <2>2. GatewayInv' /\ BlameOK'
    BY <1>4, IdleStep, BlameStep, FacebookKept DEF IInv
  <2> QED BY <2>1, <2>2
<1> QED BY <1>2, <1>3, <1>4 DEF Handle

\* How a use case ends.
LEMMA SucceedStep ==
  ASSUME IInv, UNCHANGED env, NEW c \in Clients, NEW status \in {200, 204},
         request[c].pc = "perform", Succeeds(c, status)
  PROVE  RequestsOK'
BY AnswerStep DEF Succeeds, Statuses

\* A login takes the verdict: Facebook's failure is not told as a bad token.
LEMMA PerformLoginStep ==
  ASSUME IInv, NEW c \in Clients, PerformLogin(c)
  PROVE  RequestsOK' /\ GatewayInv' /\ BlameOK'
<1>1. /\ request[c].pc = "perform" /\ request[c].input.to = "facebook"
      /\ UNCHANGED env /\ Conclude(c)
  BY DEF PerformLogin, At, config
<1>2. GatewayInv' /\ BlameOK'
  BY <1>1, IdleStep, BlameStep DEF IInv
<1>3. /\ facebook[c].verdict \in {"user", "nobody"} => facebook[c].cause \in {"none", "refusal"}
      /\ facebook[c].verdict = "unavailable" => facebook[c].cause = "dependency"
  BY DEF IInv, BlameOK, Blamed, Causes
<1>4. \/ Succeeds(c, 200)
      \/ Fails(c, "Error", "dependency") \/ Fails(c, "Error", "duplicate")
      \/ Fails(c, "ExternalServiceError", "dependency")
      \/ Fails(c, "AuthenticationError", "none") \/ Fails(c, "AuthenticationError", "refusal")
  BY <1>3 DEF PerformLogin
<1>5. RequestsOK'
  BY <1>1, <1>4, SucceedStep, FailsStep
<1> QED BY <1>2, <1>5

LEMMA PerformPictureStep ==
  ASSUME IInv, NEW c \in Clients, NEW name, PerformPicture(c, name)
  PROVE  RequestsOK'
<1>1. request[c].pc = "perform" /\ UNCHANGED env /\ request[c].input.to \in PictureRoutes
  BY DEF PerformPicture, At, config
<1>2. request[c].input.to = "put" => TypeIsRead(c) /\ NameMatches(c, name)
  <2>1. request[c].input.to = "put" => Complete(request[c].file)
    BY <1>1, RequestFields DEF RequestOK, Granted
  <2> QED BY <2>1, NoFile DEF Complete, TypeIsRead, NameMatches
<1>3. ~(TypeIsRead(c) /\ NameMatches(c, name)) => request[c].input.to = "delete"
  BY <1>1, <1>2 DEF PictureRoutes
<1> QED BY <1>1, <1>3, SucceedStep, FailsStep DEF PerformPicture

LEMMA PerformOtherStep ==
  ASSUME IInv, NEW c \in Clients, PerformRefresh(c) \/ PerformLogout(c) \/ Report(c)
  PROVE  RequestsOK'
<1>1. request[c].pc = "perform" /\ UNCHANGED env
  BY DEF PerformRefresh, PerformLogout, Report, At, config
<1> QED BY <1>1, SucceedStep, FailsStep DEF PerformRefresh, PerformLogout, Report

\* The client is ready for its next request.
LEMMA LeaveStep ==
  ASSUME IInv, NEW c \in Clients, Leave(c)
  PROVE  RequestsOK'
<1> PICK r : r = NoRequest
  OBVIOUS
<1>1. request' = [request EXCEPT ![c] = r] /\ UNCHANGED env
  BY DEF Leave, config
<1>2. RequestOK(c, r)
  BY DEF NoRequest, RequestOK, Request, Sent, Granted, Validated, Explained, Pcs, Statuses,
         Culprits, Values
<1> QED BY <1>1, <1>2, RequestStep

\* A process that boots has no request yet.
LEMMA BootStep ==
  ASSUME IInv, Boot
  PROVE  ConfigOK' /\ CountsOK' /\ RequestsOK'
<1>1. /\ phase = "boot" /\ UNCHANGED <<raw, request, hits, admitted>>
      /\ \/ Valid(raw) /\ phase' = "serving" /\ env' = Env(raw)
         \/ phase' = "exit 1" /\ env' = env
  BY DEF Boot, counts
<1>2. /\ env = Unset /\ raw \in RawEnvs
      /\ \A c \in Clients : request[c].pc = "none"
      /\ \A limiter \in Limiters, c \in Clients :
           hits[limiter][c] = 0 /\ admitted[limiter][c] = 0
  BY <1>1 DEF IInv, ConfigOK
<1>3. ConfigOK'
  BY <1>1, <1>2 DEF ConfigOK
<1>4. CountsOK'
  <2>1. phase' = "serving" => \A limiter \in Limiters : env'.limits[limiter] \in Nat
    BY <1>1, <1>2, ValidEnv
  <2>2. ASSUME phase' = "serving", NEW limiter \in Limiters, NEW c \in Clients
        PROVE  /\ admitted'[limiter][c] = hits'[limiter][c]
               /\ hits'[limiter][c] <= env'.limits[limiter]
    <3>1. hits'[limiter][c] = 0 /\ admitted'[limiter][c] = 0 /\ env'.limits[limiter] \in Nat
      BY <1>1, <1>2, <2>1, <2>2
    <3> QED BY <3>1
  <2> QED BY <1>1, <2>2 DEF IInv, CountsOK, Matches
<1>5. RequestsOK'
  <2>1. \A c \in Clients : RequestOK(c, request[c]) /\ request'[c] = request[c]
    BY <1>1 DEF IInv, RequestsOK
  <2> QED BY <1>1, <1>2, <2>1
          DEF IInv, RequestsOK, RequestOK, Request, Sent, Granted, Validated, Explained
<1> QED BY <1>3, <1>4, <1>5

----------------------------------------------------------------------------
LEMMA InitIInv == Init => IInv
<1> SUFFICES ASSUME Init PROVE IInv
  OBVIOUS
<1>1. GatewayInv /\ BlameOK
  BY InitGateway, InitGatewayBlame DEF Init
<1>2. ConfigOK
  BY ClientsAssumption DEF Init, ConfigOK, NoRequest, NoHits
<1>3. CountsOK
  <2>1. phase # "serving"
    BY DEF Init
  <2> QED BY <2>1 DEF Init, CountsOK, Matches, NoHits
<1>4. RequestsOK
  <2>1. \A c \in Clients : RequestOK(c, NoRequest)
    BY DEF NoRequest, RequestOK, Request, Sent, Granted, Validated, Explained, Pcs, Statuses,
           Culprits, Values
  <2> QED BY <2>1 DEF Init, RequestsOK
<1> QED BY <1>1, <1>2, <1>3, <1>4 DEF IInv

\* the steps of a client's request
Served(c) ==
    \/ \E input \in Inputs[c] : Arrive(c, input)
    \/ Body(c) \/ Upload(c) \/ Handle(c) \/ Ask(c)
    \/ PerformLogin(c) \/ PerformRefresh(c) \/ PerformLogout(c)
    \/ \E name \in {"a name", "no word character"} : PerformPicture(c, name)
    \/ Report(c) \/ Leave(c)

LEMMA ClientStep ==
  ASSUME IInv, NEW c \in Clients,
         Served(c)
  PROVE  IInv'
<1>1. phase = "serving" /\ UNCHANGED config
  BY DEF Arrive, Body, Upload, Handle, Ask, PerformLogin, PerformRefresh, PerformLogout,
         PerformPicture, Report, Leave, At, Served
<1>2. ConfigOK'
  BY <1>1, ConfigKept
<1>3. CASE (\E input \in Inputs[c] : Arrive(c, input)) \/ Body(c)
  <2>1. UNCHANGED facebook
    BY <1>3 DEF Arrive, Body
  <2> QED BY <1>2, <1>3, <2>1, ArriveStep, BodyStep, FacebookKept DEF IInv
<1>4. CASE \/ Upload(c) \/ PerformRefresh(c) \/ PerformLogout(c) \/ Report(c) \/ Leave(c)
           \/ \E name \in {"a name", "no word character"} : PerformPicture(c, name)
  <2>1. UNCHANGED facebook /\ UNCHANGED counts
    BY <1>4 DEF Upload, PerformRefresh, PerformLogout, Report, Leave, PerformPicture
  <2>2. RequestsOK'
    BY <1>4, UploadStep, PerformOtherStep, PerformPictureStep, LeaveStep
  <2> QED BY <1>1, <1>2, <2>1, <2>2, CountsKept, FacebookKept DEF IInv
<1>5. CASE Handle(c) \/ PerformLogin(c)
  <2>1. UNCHANGED counts
    BY <1>5 DEF Handle, PerformLogin
  <2> QED BY <1>1, <1>2, <1>5, <2>1, CountsKept, HandleStep, PerformLoginStep DEF IInv
<1>6. CASE Ask(c)
  <2>1. Exchange(c) /\ UNCHANGED counts /\ UNCHANGED <<env, request>>
    BY <1>6 DEF Ask, config
  <2>2. GatewayInv' /\ BlameOK'
    BY <2>1, ExchangeStep, BlameStep DEF IInv
  <2>3. RequestsOK' /\ CountsOK'
    BY <1>1, <2>1, CountsKept, RequestsKept
  <2> QED BY <1>2, <2>2, <2>3 DEF IInv
<1> QED BY <1>3, <1>4, <1>5, <1>6 DEF Served

LEMMA NextIInv == IInv /\ [Next]_vars => IInv'
<1> SUFFICES ASSUME IInv, [Next]_vars PROVE IInv'
  OBVIOUS
<1>1. CASE Boot
  <2>1. UNCHANGED facebook
    BY <1>1 DEF Boot
  <2> QED BY <1>1, <2>1, BootStep, FacebookKept DEF IInv
<1>2. ASSUME NEW limiter \in Limiters, NEW address \in Addresses, WindowPasses(limiter, address)
      PROVE  IInv'
  <2>1. phase = "serving" /\ UNCHANGED config /\ UNCHANGED <<env, request>> /\ UNCHANGED facebook
    BY <1>2 DEF WindowPasses, config
  <2>2. CountsOK'
    BY <1>2, WindowStep
  <2> QED BY <2>1, <2>2, ConfigKept, RequestsKept, FacebookKept DEF IInv
<1>3. ASSUME NEW c \in Clients,
             Served(c)
      PROVE  IInv'
  BY <1>3, ClientStep
<1>4. CASE UNCHANGED vars
  <2>1. UNCHANGED facebook /\ UNCHANGED <<config, counts>> /\ UNCHANGED <<env, request>>
    BY <1>4 DEF vars, config, counts
  <2>2. ConfigOK'
    BY <2>1 DEF IInv, ConfigOK, config, counts
  <2> QED BY <2>1, <2>2, CountsKept, RequestsKept, FacebookKept DEF IInv
<1> QED BY <1>1, <1>2, <1>3, <1>4 DEF Next, Served

\* The strengthened invariant of the server holds in every reachable state.
THEOREM Invariant == Spec => []IInv
<1> QED BY InitIInv, NextIInv, PTL DEF Spec

----------------------------------------------------------------------------
\* Type correctness (TypeOK): among others, a request acts for a user the
\* service knows or for none.
THEOREM TypeCorrect == Spec => []TypeOK
<1>1. IInv => TypeOK
  <2> SUFFICES ASSUME IInv PROVE TypeOK
    OBVIOUS
  <2>1. GatewayTypeOK
    BY DEF IInv, GatewayInv
  <2>2. /\ phase \in {"boot", "serving", "exit 1"} /\ raw \in RawEnvs
        /\ env \in {Unset} \union {Env(r) : r \in RawEnvs}
    BY DEF IInv, ConfigOK
  <2>3. hits \in [Limiters -> [Addresses -> Nat]] /\ admitted \in [Limiters -> [Clients -> Nat]]
    BY DEF IInv, CountsOK
  <2>4. ASSUME NEW c \in Clients
        PROVE  /\ request[c].pc \in {"none", "body", "upload", "controller", "perform", "answered"}
               /\ request[c].input \in Inputs[c] \union {NoInput}
               /\ request[c].userId \in Users \union {Missing}
               /\ request[c].file \in Files \union Values
               /\ request[c].cause \in {"none", "refusal", "dependency", "duplicate", "value"}
               /\ request[c].status \in {0, 200, 204, 400, 401, 404, 409, 413, 429, 500, 502}
    BY RequestFields DEF Pcs, Statuses, Culprits
  <2> QED BY <2>1, <2>2, <2>3, <2>4 DEF TypeOK
<1> QED BY <1>1, Invariant, PTL

\* A 5xx is a dependency's failure, and such a failure a 5xx, but for the
\* second row of an identity, the values that DELETE takes as they are, and a
\* service that Facebook refuses (ServerErrorsExplained): whatever clients
\* send, however Facebook and the database fail, and in whatever environment.
THEOREM ErrorsExplained == Spec => []ServerErrorsExplained
<1>1. IInv => ServerErrorsExplained
  <2> SUFFICES ASSUME IInv, NEW c \in Clients, request[c].pc = "answered"
               PROVE  Explains(request[c].cause, request[c].status, request[c].input.to)
    BY DEF ServerErrorsExplained, Explains
  <2> QED BY RequestFields DEF RequestOK, Explained
<1> QED BY <1>1, Invariant, PTL

\* A controller acts for the user of a valid token, on a picture that is what
\* it says, and tells operational data only to whom it may (WorkIsAuthorised).
THEOREM Authorised == Spec => []WorkIsAuthorised
<1>1. IInv => WorkIsAuthorised
  <2> SUFFICES ASSUME IInv, NEW c \in Clients, NEW r, r = request[c], r.pc = "perform"
               PROVE
                 /\ r.input.to \in PictureRoutes =>
                      /\ r.input.authorization.credentials = Generate(r.userId)
                      /\ r.file \in Files /\ Missing \notin {r.file.mimeType, r.file.size} =>
                           r.file.mimeType = r.file.signature /\ r.file.size \in 1..MaxSize
                 /\ r.input.to = "put" =>
                      r.file \in Files /\ Missing \notin {r.file.mimeType, r.file.size}
                 /\ r.input.to \in OpsRoutes =>
                      IF env.hasOpsToken THEN r.input.authorization.credentials = OpsToken
                                         ELSE ~env.isProduction
    BY DEF WorkIsAuthorised
  <2>1. Granted(r) /\ Validated(r)
    BY RequestFields DEF RequestOK
  <2>2. r.input.to \in OpsRoutes =>
          IF env.hasOpsToken THEN r.input.authorization.credentials = OpsToken
                             ELSE ~env.isProduction
    <3>1. \A header : OpsAuth(header) = 200 =>
            IF env.hasOpsToken THEN header.credentials = OpsToken ELSE ~env.isProduction
      BY DEF OpsAuth
    <3> QED BY <2>1, <3>1 DEF Granted
  <2> QED BY <2>1, <2>2 DEF Granted, Validated, Checked, Complete
<1> QED BY <1>1, Invariant, PTL

\* A production process serves with secrets of its own, with no half of a key
\* pair, and with no default but those of the database's connection
\* (OnlyDatabaseKeepsDefaults), whatever environment it was started with.
THEOREM ProductionSettings == Spec => []OnlyDatabaseKeepsDefaults
<1>1. IInv => OnlyDatabaseKeepsDefaults
  BY ValidEnv DEF IInv, ConfigOK, OnlyDatabaseKeepsDefaults
<1> QED BY <1>1, Invariant, PTL

\* A login waits for Facebook no longer than its three calls can take
\* (LoginTimeBounded), with any list of retry delays and any timeout.
THEOREM LoginTime == Spec => []LoginTimeBounded
<1>1. IInv => LoginTimeBounded
  <2> SUFFICES ASSUME GatewayInv, NEW c \in Clients PROVE facebook[c].elapsed <= 3 * CallTime
    BY DEF IInv, LoginTimeBounded
  <2>1. CallTime \in Nat
    BY Times
  <2>2. CASE Calling(c)
    <3>1. 0 \in Nat /\ 0 <= AttemptTime
      BY Times
    <3>2. facebook[c].elapsed + 0 <= 3 * CallTime /\ facebook[c].elapsed \in Nat
      BY <2>2, <3>1, WithinCall, Fields
    <3> QED BY <3>2
  <2>3. CASE ~Calling(c)
    <3>1. facebook[c].elapsed = 0 \/ facebook[c].elapsed <= 3 * CallTime
      BY <2>3, Fields DEF Calling, Within
    <3> QED BY <2>1, <3>1
  <2> QED BY <2>2, <2>3
<1> QED BY <1>1, Invariant, PTL

----------------------------------------------------------------------------
Becomes(c, r) == request' = [request EXCEPT ![c] = r]

Refused(c) == request[c].status # 429 /\ request'[c].status = 429

\* A 429 is an answer of a limiter, for an address that has spent its quota.
LEMMA RefusalStep ==
  ASSUME IInv, Matches, NEW c \in Clients, NEW d \in Clients,
         Served(c),
         Refused(d)
  PROVE  \E limiter \in Limiters : admitted[limiter][d] = env.limits[limiter]
<1> PICK r : r = request[c]
  OBVIOUS
<1>1. /\ r \in Request(c) /\ c \in DOMAIN request
      /\ request = [e \in Clients |-> request[e]]
  BY RequestFields DEF RequestOK, IInv, RequestsOK
<1>2. ~env.isTest
  BY DEF Matches
\* what becomes of a request that is answered, or goes on
<1>3. ASSUME NEW status, Answer(c, status) PROVE d = c /\ status = 429
  <2>1. request'[c].status = status
    BY <1>1, <1>3 DEF Answer, Request
  <2>2. d # c => request'[d] = request[d]
    BY <1>1, <1>3 DEF Answer
  <2> QED BY <2>1, <2>2 DEF Refused
<1>4. ASSUME NEW error, NEW because, Fails(c, error, because) PROVE d = c /\ MapError(error) = 429
  <2>1. request'[c].status = MapError(error)
    BY <1>1, <1>4 DEF Fails, Request
  <2>2. d # c => request'[d] = request[d]
    BY <1>1, <1>4 DEF Fails
  <2> QED BY <2>1, <2>2 DEF Refused
<1>5. ASSUME NEW q, Becomes(c, q), q.status = r.status \/ q.status # 429
      PROVE  FALSE
  <2>1. request'[c] = q /\ (d # c => request'[d] = request[d])
    BY <1>1, <1>5 DEF Becomes
  <2> QED BY <1>5, <2>1 DEF Refused
<1>6. CASE \E input \in Inputs[c] : Arrive(c, input)
  <2>1. PICK input \in Inputs[c] : Arrive(c, input)
    BY <1>6
  <2>2. ASSUME NEW pc, NEW status \in {0, 204}, Became(c, input, pc, status) PROVE FALSE
    <3>1. \E q : q.status = status /\ Becomes(c, q)
      BY <2>2 DEF Became, Becomes, NoRequest
    <3>2. PICK q : q.status = status /\ Becomes(c, q)
      BY <3>1
    <3> QED BY <1>5, <2>2, <3>2
  <2>3. ~Became(c, input, "answered", 204) /\ ~Became(c, input, "body", 0)
    BY <2>2
  <2>4. Exhausted("global", Address(c, input), env.limits["global"])
    BY <1>2, <2>1, <2>3 DEF Arrive, Limited
  <2>5. d = c
    <3>1. Became(c, input, "answered", 429)
      BY <1>2, <2>1, <2>3 DEF Arrive, Limited
    <3> QED BY <1>1, <3>1 DEF Became, Refused
  <2> QED BY <2>4, <2>5, RefusedAtLimit DEF Limiters
<1>7. CASE Body(c)
  <2>1. r.input \in Inputs[c] /\ r.pc = "body"
    BY <1>7, RequestFields DEF Body, At, RequestOK, Sent
  <2>2. ASSUME To(c, "controller") PROVE FALSE
    <3> PICK q : q = [r EXCEPT !.pc = "controller"]
      OBVIOUS
    <3>1. q.status = r.status
      BY <1>1 DEF Request
    <3>2. Becomes(c, q)
      BY <1>1, <2>2 DEF To, Becomes
    <3> QED BY <1>5, <3>1, <3>2
  <2>3. ASSUME NEW user, NEW pc,
               request' = [request EXCEPT ![c].userId = user, ![c].pc = pc]
        PROVE  FALSE
    <3> PICK q : q = [r EXCEPT !.userId = user, !.pc = pc]
      OBVIOUS
    <3>1. q.status = r.status
      BY <1>1 DEF Request
    <3>2. Becomes(c, q)
      BY <1>1, <2>3 DEF Becomes
    <3> QED BY <1>5, <3>1, <3>2
  <2>4. /\ ~Answer(c, 200) /\ ~Answer(c, 400) /\ ~Answer(c, 401)
        /\ ~Answer(c, 404) /\ ~Answer(c, 413)
    BY <1>3
  <2>5. Exhausted("auth", Address(c, r.input), env.limits["auth"]) /\ Answer(c, 429)
    <3>1. r.input.body \in {"none", "json"}
      BY <1>7, <2>4 DEF Body
    <3>2. r.input.to \notin PictureRoutes
      <4> SUFFICES ASSUME r.input.to \in PictureRoutes,
                          NEW user, user = Authenticate(r.input.authorization),
                          NEW pc, pc = IF r.input.to = "put" THEN "upload" ELSE "controller"
                   PROVE  FALSE
        OBVIOUS
      <4>1. \/ Answer(c, 401)
            \/ request' = [request EXCEPT ![c].userId = user, ![c].pc = pc]
        BY <1>7, <3>1, <2>4 DEF Body, LoginRoutes, PictureRoutes, OpsRoutes
      <4> QED BY <2>3, <2>4, <4>1
    <3>3. r.input.to \notin OpsRoutes \union {"health", "docs", "unknown", "preflight"}
      <4>1. PICK status : status = OpsAuth(r.input.authorization)
        OBVIOUS
      <4>2. status \in {200, 401, 404}
        BY <4>1 DEF OpsAuth
      <4>3. r.input.to \in OpsRoutes => To(c, "controller") \/ (status # 200 /\ Answer(c, status))
        BY <1>7, <3>1, <2>4, <4>1 DEF Body, LoginRoutes, PictureRoutes, OpsRoutes
      <4>4. r.input.to \notin OpsRoutes
        BY <2>2, <2>4, <4>2, <4>3
      <4>5. r.input.to # "health"
        BY <1>7, <3>1, <2>2, <2>4 DEF Body, LoginRoutes, PictureRoutes, OpsRoutes
      <4>6. r.input.to \notin {"docs", "unknown", "preflight"}
        BY <1>7, <3>1, <2>4 DEF Body, LoginRoutes, PictureRoutes, OpsRoutes
      <4> QED BY <4>4, <4>5, <4>6
    <3>4. Limited(c, "auth", r.input, To(c, "controller"), Answer(c, 429))
      BY <1>7, <3>1, <3>2, <3>3 DEF Body
    <3> QED BY <1>2, <2>2, <3>4 DEF Limited
  <2>6. d = c
    BY <1>3, <2>5
  <2> QED BY <2>1, <2>5, <2>6, RefusedAtLimit DEF Limiters
<1>8. CASE Upload(c)
  <2> PICK q : q = [r EXCEPT !.pc = "controller", !.file = r.input.upload]
    OBVIOUS
  <2>1. q.status = r.status
    BY <1>1 DEF Request
  <2>2. Answer(c, 400) \/ Becomes(c, q)
    BY <1>1, <1>8 DEF Upload, Becomes
  <2>3. ~Answer(c, 400)
    BY <1>3
  <2> QED BY <1>5, <2>1, <2>2, <2>3
<1>9. CASE Handle(c)
  <2> PICK user, file : user = Merged(c).userId /\ file = Merged(c).file
    OBVIOUS
  <2> PICK q : q = [r EXCEPT !.pc = "perform", !.userId = user, !.file = file]
    OBVIOUS
  <2>1. q.status = r.status
    BY <1>1 DEF Request
  <2>2. Answer(c, 400) \/ Fails(c, "Error", "value") \/ Becomes(c, q)
    BY <1>1, <1>9 DEF Handle, Becomes
  <2>3. ~Answer(c, 400) /\ ~Fails(c, "Error", "value")
    BY <1>3, <1>4, MapErrors
  <2> QED BY <1>5, <2>1, <2>2, <2>3
<1>10. CASE Ask(c)
  BY <1>10 DEF Ask, Refused
<1>11. CASE Leave(c)
  <2>1. NoRequest.status # 429
    BY DEF NoRequest
  <2>2. Becomes(c, NoRequest)
    BY <1>11 DEF Leave, Becomes
  <2> QED BY <1>5, <2>1, <2>2
<1>12. CASE \/ PerformLogin(c) \/ PerformRefresh(c) \/ PerformLogout(c) \/ Report(c)
            \/ \E name \in {"a name", "no word character"} : PerformPicture(c, name)
  <2>1. \/ \E status \in {200, 204} : Answer(c, status)
        \/ \E error \in {"AuthenticationError", "ExternalServiceError", "UserNotFoundError",
                         "ConcurrentModificationError", "Error"} :
             \E because : Fails(c, error, because)
    BY <1>12 DEF PerformLogin, PerformRefresh, PerformLogout, Report, PerformPicture, Succeeds
  <2> QED BY <1>3, <1>4, <2>1, MapErrors
<1> QED BY <1>6, <1>7, <1>8, <1>9, <1>10, <1>11, <1>12 DEF Served

\* Where TRUST_PROXY_HOPS matches the deployment each client has its quota,
\* all of it and no more (QuotasHold), for any proxies, any limits, any
\* clients and whatever X-Forwarded-For they send.
THEOREM Quotas == Spec => QuotasHold
<1> DEFINE Quota ==
      env' # Unset /\ env'.trustProxyHops = Len(Proxies) /\ ~env'.isTest =>
        \A c \in Clients :
           /\ \A limiter \in Limiters : admitted'[limiter][c] <= env'.limits[limiter]
           /\ request[c].status # 429 /\ request'[c].status = 429 =>
                \E limiter \in Limiters : admitted[limiter][c] = env.limits[limiter]
<1>1. IInv /\ [Next]_vars => [Quota]_vars
  <2> SUFFICES ASSUME IInv, Next, NEW c \in Clients,
                      env' # Unset, env'.trustProxyHops = Len(Proxies), ~env'.isTest
               PROVE
                 /\ \A limiter \in Limiters : admitted'[limiter][c] <= env'.limits[limiter]
                 /\ request[c].status # 429 /\ request'[c].status = 429 =>
                      \E limiter \in Limiters : admitted[limiter][c] = env.limits[limiter]
    OBVIOUS
  <2>1. IInv'
    BY NextIInv
  <2>2. \A limiter \in Limiters : admitted'[limiter][c] <= env'.limits[limiter]
    <3>1. Matches'
      BY <2>1 DEF IInv, ConfigOK, Matches
    <3> QED BY <2>1, <3>1 DEF IInv, CountsOK
  <2>3. ASSUME Refused(c)
        PROVE  \E limiter \in Limiters : admitted[limiter][c] = env.limits[limiter]
    <3>1. CASE \/ Boot
               \/ \E limiter \in Limiters, address \in Addresses : WindowPasses(limiter, address)
      BY <2>3, <3>1 DEF Boot, WindowPasses, Refused
    <3>2. ASSUME NEW e \in Clients,
                 Served(e)
          PROVE  \E limiter \in Limiters : admitted[limiter][c] = env.limits[limiter]
      <4>1. phase = "serving" /\ env' = env
        BY <3>2 DEF Arrive, Body, Upload, Handle, Ask, PerformLogin, PerformRefresh,
                    PerformLogout, PerformPicture, Report, Leave, At, config, Served
      <4>2. Matches
        BY <4>1 DEF Matches
      <4> QED BY <2>3, <3>2, <4>2, RefusalStep
    <3> QED BY <3>1, <3>2 DEF Next, Served
  <2> QED BY <2>2, <2>3 DEF Refused
<1> QED BY <1>1, Invariant, PTL DEF Spec, QuotasHold
===============================================================================
