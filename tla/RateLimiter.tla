----------------------------- MODULE RateLimiter -----------------------------
(****************************************************************************)
(* The two limiters of a process, express-rate-limit with its memory store: *)
(* hits per address, in a window that starts with an address's first hit.   *)
(* Hits past the limit change nothing, so the count stops there.            *)
(****************************************************************************)
EXTENDS Naturals, Sequences

CONSTANTS Addresses,
          Proxies    \* the reverse proxies in front of the process, nearest first

ASSUME ProxiesAssumption == Proxies \in Seq(Addresses)

Limiters == {"global", "auth"}

VARIABLE hits

NoHits == [limiter \in Limiters |-> [address \in Addresses |-> 0]]

\* Mutant: one hop too few, the nearest proxy's address for everyone.
IpOneHopShort(client, forwarded, hops) ==
    LET chain == Proxies \o <<client>> \o forwarded
    IN  IF hops <= 1 THEN chain[1] ELSE chain[hops]

\* req.ip: past "trust proxy" hops, in the socket's address and then, from its
\* end, X-Forwarded-For, where each proxy has added whom it serves to what the
\* client sent
Ip(client, forwarded, hops) ==
    LET chain == Proxies \o <<client>> \o forwarded
    IN  IF hops < Len(chain) THEN chain[hops + 1] ELSE chain[Len(chain)]

Exhausted(limiter, address, limit) == hits[limiter][address] >= limit

Hit(limiter, address, limit) ==
    hits' = [hits EXCEPT ![limiter][address] = IF @ < limit THEN @ + 1 ELSE @]

WindowEnds(limiter, address) ==
    /\ hits[limiter][address] > 0
    /\ hits' = [hits EXCEPT ![limiter][address] = 0]
===============================================================================
