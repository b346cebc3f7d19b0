---------------------------- MODULE FacebookGateway ----------------------------
(****************************************************************************)
(* FacebookApi.loadUser over AxiosHttpClient.get: three calls, one after    *)
(* the other, each tried again after a failure that may pass.  A login      *)
(* waits for all of it, so the time it has spent is part of the state.      *)
(*                                                                          *)
(* What Facebook says is reduced to what the code asks of it: that the      *)
(* token is valid and this app's, and that the user has an e-mail.  The     *)
(* cause is what the code forgets with its catch: whether it was the token  *)
(* that was no good, this service that was refused, or Facebook that was    *)
(* down.                                                                    *)
(****************************************************************************)
EXTENDS Naturals, Sequences

CONSTANTS
    Clients,      \* each has one login at a time
    RetryDelays,  \* RETRY_DELAYS_MS
    MaxDelay,     \* the longest of them
    Timeout,      \* TIMEOUT_MS
    Latencies     \* how long an attempt takes

ASSUME DelaysAssumption ==
    /\ RetryDelays \in Seq(Nat) /\ MaxDelay \in Nat
    /\ \A i \in 1..Len(RetryDelays) : RetryDelays[i] <= MaxDelay

ASSUME TimeoutAssumption == Timeout \in Nat /\ Latencies \subseteq 0..Timeout

VARIABLE facebook  \* the exchange of each client's login

Retries == Len(RetryDelays)

Verdicts == {"user", "nobody", "unavailable"}

\* of a failed exchange, other than the token itself
Causes == {"none", "refusal", "dependency"}

NoExchange ==
    [call |-> "none", attempt |-> 0, elapsed |-> 0, verdict |-> "none", cause |-> "none"]

Exchanges ==
    [call : {"none", "app token", "debug token", "user info", "done"},
     attempt : 0..Retries, elapsed : Nat,
     verdict : Verdicts \union {"none"}, cause : Causes]

GatewayTypeOK == facebook \in [Clients -> Exchanges]

GatewayInit == facebook = [c \in Clients |-> NoExchange]

Calling(c) == facebook[c].call \in {"app token", "debug token", "user info"}

Proceed(c, exchange) == facebook' = [facebook EXCEPT ![c] = exchange]

LoadUser(c) == Proceed(c, [NoExchange EXCEPT !.call = "app token"])

\* the caller takes the verdict
Conclude(c) ==
    /\ facebook[c].call = "done"
    /\ Proceed(c, NoExchange)

Decide(c, verdict, cause, time) ==
    Proceed(c, [facebook[c] EXCEPT !.call = "done", !.verdict = verdict,
                                   !.cause = cause, !.elapsed = @ + time])

GoOn(c, call, time) ==
    Proceed(c, [facebook[c] EXCEPT !.call = call, !.attempt = 0, !.elapsed = @ + time])

AppToken(c) ==
    /\ facebook[c].call = "app token"
    /\ \E time \in Latencies : GoOn(c, "debug token", time)

\* a token that is invalid, or another app's, is nobody's
DebugToken(c) ==
    /\ facebook[c].call = "debug token"
    /\ \E time \in Latencies : GoOn(c, "user info", time) \/ Decide(c, "nobody", "none", time)

\* without an e-mail the account cannot be linked
UserInfo(c) ==
    /\ facebook[c].call = "user info"
    /\ \E time \in Latencies, verdict \in {"user", "nobody"} : Decide(c, verdict, "none", time)

\* Any other answer below 500 is not tried again, whatever it refuses: the
\* user's token, or this service (its credentials, or the rate of its calls).
\* The first call knows the service alone.
CallRefused(c) ==
    /\ Calling(c)
    /\ \E time \in Latencies, cause \in {"none", "refusal"} :
         /\ cause = "none" => facebook[c].call # "app token"
         /\ Decide(c, "nobody", cause, time)

\* Mutant: the attempts start over after the last delay.
TryAgainForever(c) ==
    /\ Calling(c)
    /\ facebook[c].elapsed < 100 * Timeout
    /\ \E time \in Latencies :
         Proceed(c, [facebook[c] EXCEPT !.attempt = 0, !.elapsed = @ + time])

\* no answer, or one from 500 up: wait and try again
TryAgain(c) ==
    LET attempt == facebook[c].attempt
    IN  /\ Calling(c) /\ attempt < Retries
        /\ \E time \in Latencies :
             Proceed(c, [facebook[c] EXCEPT !.attempt = attempt + 1,
                                            !.elapsed = @ + time + RetryDelays[attempt + 1]])

\* Mutant: loadUser's catch takes every error for a bad token.
GiveUpQuietly(c) ==
    /\ Calling(c) /\ facebook[c].attempt = Retries
    /\ \E time \in Latencies : Decide(c, "nobody", "dependency", time)

\* the same on the last attempt: ExternalServiceError
GiveUp(c) ==
    /\ Calling(c) /\ facebook[c].attempt = Retries
    /\ \E time \in Latencies : Decide(c, "unavailable", "dependency", time)

Exchange(c) ==
    AppToken(c) \/ DebugToken(c) \/ UserInfo(c) \/ CallRefused(c) \/ TryAgain(c) \/ GiveUp(c)

GatewayNext ==
    \E c \in Clients :
        (~Calling(c) /\ LoadUser(c)) \/ Exchange(c) \/ Conclude(c)

GatewaySpec == GatewayInit /\ [][GatewayNext]_facebook

----------------------------------------------------------------------------
(* Properties *)

\* the time a call can take, with all its attempts and the delays between them
CallTime == (Retries + 1) * (Timeout + MaxDelay)

\* A login waits for Facebook no longer than its three calls can take, however
\* they fail: the delays of the attempts do not add up without end.
LoginTimeBounded == \A c \in Clients : facebook[c].elapsed <= 3 * CallTime
===============================================================================
