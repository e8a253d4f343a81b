----------------------------- MODULE JwksCache -----------------------------
(***************************************************************************)
(* The signing keys of the token issuer and the API's cache of them        *)
(* (_JwksCache and _fetch_jwks in app/core/security/auth.py).              *)
(*                                                                         *)
(* get_key runs under a lock, synchronously on the event loop, so one      *)
(* request at a time is between Ask and its answer; the issuer publishes   *)
(* and withdraws keys, and time passes, at any moment, also while a fetch  *)
(* is under way.                                                           *)
(***************************************************************************)
EXTENDS Integers

CONSTANTS Kids,        \* key identifiers
          TTL,         \* ENTRA_JWKS_CACHE_TTL_SECONDS
          MaxFetch,    \* longest fetch (urlopen timeout)
          MaxTime      \* bound of the clock

ASSUME SettingsAssumption ==
    /\ TTL \in Int
    /\ MaxFetch \in Nat /\ MaxTime \in Nat

VARIABLES
    now,
    published,   \* kids the issuer publishes now
    lastSeen,    \* kid -> when it was last published
    keys,        \* _keys_by_kid
    expiresAt,   \* _expires_at
    pc,          \* "idle", "fetching" or "refetching" (force_refresh=True)
    want,        \* the kid asked for
    started,     \* the time _get_keys read before it fetched; 0 while idle
    reply,       \* the kids in the issuer's response; empty before it
    steady,      \* kids published all the time since the last request asked
    verdict      \* "none", "key", "not_found" or "fetch_failed"

issuerVars == <<published, lastSeen>>
cacheVars == <<keys, expiresAt>>
askVars == <<pc, want, started, reply, verdict>>
vars == <<now, issuerVars, cacheVars, askVars, steady>>

TypeOK ==
    /\ now \in Nat
    /\ published \in SUBSET Kids
    /\ lastSeen \in [Kids -> Nat]
    /\ keys \in SUBSET Kids
    /\ expiresAt \in Int
    /\ pc \in {"idle", "fetching", "refetching"}
    /\ want \in Kids
    /\ started \in Nat
    /\ reply \in SUBSET Kids
    /\ steady \in SUBSET Kids
    /\ verdict \in {"none", "key", "not_found", "fetch_failed"}

Init ==
    /\ now = 1
    /\ published \in SUBSET Kids
    /\ lastSeen = [k \in Kids |-> IF k \in published THEN 1 ELSE 0]
    /\ keys = {}
    /\ expiresAt = 0
    /\ pc = "idle"
    /\ want \in Kids
    /\ started = 0
    /\ reply = {}
    /\ steady = {}
    /\ verdict = "none"

-----------------------------------------------------------------------------
(* The issuer and the clock.                                               *)

Rotate(new) ==
    /\ published' = new
    /\ lastSeen' = [k \in Kids |-> IF k \in new THEN now ELSE lastSeen[k]]
    /\ steady' = steady \cap new
    /\ UNCHANGED <<now, cacheVars, askVars>>

Tick ==
    /\ now < MaxTime
    /\ pc # "idle" => now < started + MaxFetch
    /\ now' = now + 1
    /\ lastSeen' = [k \in Kids |-> IF k \in published THEN now' ELSE lastSeen[k]]
    /\ UNCHANGED <<published, cacheVars, askVars, steady>>

-----------------------------------------------------------------------------
(* get_key.                                                                *)

Usable == keys # {} /\ now < expiresAt

\* _get_keys reads the clock and sends the request.
StartFetch(how) ==
    /\ pc' = how
    /\ started' = now
    /\ reply' = {}

\* get_key returns or raises, and what it held of the fetch is gone.
Settle(v) ==
    /\ pc' = "idle"
    /\ verdict' = v
    /\ started' = 0
    /\ reply' = {}

\* The wanted key is in a usable cache.
Hit(k) ==
    /\ pc = "idle"
    /\ want' = k
    /\ steady' = published
    /\ Usable /\ k \in keys
    /\ Settle("key")
    /\ UNCHANGED <<now, issuerVars, cacheVars>>

\* Mutant: no refresh on a miss.
MissUnforced(k) ==
    /\ pc = "idle"
    /\ want' = k
    /\ steady' = published
    /\ k \notin keys \/ ~ Usable
    /\ \/ Usable /\ Settle("not_found")
       \/ ~ Usable /\ StartFetch("fetching") /\ verdict' = "none"
    /\ UNCHANGED <<now, issuerVars, cacheVars>>

\* The cache is empty or past its time: an unforced fetch; the key is not in a
\* usable cache: a forced one.
Miss(k) ==
    /\ pc = "idle"
    /\ want' = k
    /\ steady' = published
    /\ ~ (Usable /\ k \in keys)
    /\ StartFetch(IF Usable THEN "refetching" ELSE "fetching")
    /\ verdict' = "none"
    /\ UNCHANGED <<now, issuerVars, cacheVars>>

\* The issuer answers with the keys it publishes at that moment (an answer
\* without keys is a failure, see FetchFails).
IssuerResponds ==
    /\ pc # "idle"
    /\ reply = {}
    /\ published # {}
    /\ reply' = published
    /\ UNCHANGED <<now, issuerVars, cacheVars, pc, want, started, steady, verdict>>

\* Mutant: the expiry counts from the end of the fetch.
KeepFromNow == keys' = reply /\ expiresAt' = now + TTL

\* The response replaces the cache; it expires a TTL after the fetch began.
Keep == keys' = reply /\ expiresAt' = started + TTL

\* The wanted key is there, or still missing after a forced fetch.
FetchedLast ==
    /\ pc # "idle"
    /\ reply # {}
    /\ Keep
    /\ \/ want \in reply /\ Settle("key")
       \/ want \notin reply /\ pc = "refetching" /\ Settle("not_found")
    /\ UNCHANGED <<now, issuerVars, want, steady>>

\* Mutant: as long as the wanted key is missing, fetch once more.
FetchedWithoutWantedAgain ==
    /\ pc # "idle"
    /\ reply # {}
    /\ want \notin reply
    /\ Keep
    /\ StartFetch("refetching")
    /\ UNCHANGED <<now, issuerVars, want, steady, verdict>>

\* The wanted key is missing after an unforced fetch: fetch once more.
FetchedWithoutWanted ==
    /\ pc = "fetching"
    /\ reply # {}
    /\ want \notin reply
    /\ Keep
    /\ StartFetch("refetching")
    /\ UNCHANGED <<now, issuerVars, want, steady, verdict>>

\* Mutant: a failed fetch leaves the old keys usable for another TTL.
FetchFailsExtending ==
    /\ pc # "idle"
    /\ expiresAt' = now + TTL
    /\ Settle(IF want \in keys THEN "key" ELSE "fetch_failed")
    /\ UNCHANGED <<now, issuerVars, keys, want, steady>>

\* Mutant: a fetch has no timeout.
FetchFailsOnceAnswered ==
    /\ pc # "idle"
    /\ reply # {}
    /\ Settle("fetch_failed")
    /\ UNCHANGED <<now, issuerVars, cacheVars, want, steady>>

\* Any failure, an unusable payload or no key in it: AuthenticationError, and
\* the cache stays.
FetchFails ==
    /\ pc # "idle"
    /\ Settle("fetch_failed")
    /\ UNCHANGED <<now, issuerVars, cacheVars, want, steady>>

Next ==
    \/ Tick
    \/ \E new \in SUBSET Kids : Rotate(new)
    \/ \E k \in Kids : Hit(k) \/ Miss(k)
    \/ IssuerResponds \/ FetchedLast \/ FetchedWithoutWanted \/ FetchFails

Spec == Init /\ [][Next]_vars

-----------------------------------------------------------------------------
(* Properties.                                                             *)

Larger(a, b) == IF a > b THEN a ELSE b

\* get_key would return k's key to a request at this moment: out of the usable
\* cache, or out of the response that has just come.
Trusted(k) ==
    \/ pc = "idle" /\ Usable /\ k \in keys
    \/ pc # "idle" /\ k = want /\ k \in reply

\* A key the issuer has withdrawn is trusted for at most a TTL, or for the one
\* fetch that was under way, whatever fails and however often it rotates.
TrustedKeysAreRecent ==
    \A k \in Kids : Trusted(k) => now - lastSeen[k] <= Larger(TTL, MaxFetch)

\* A key the issuer publishes all the time is never reported missing, however
\* old the cache is when the first token signed with it arrives.
PublishedKeysAreFound == verdict = "not_found" => want \notin steady

\* What makes both hold: the cache expires a TTL after a time at which the
\* issuer published all of it, and an answer lists what was published since
\* the fetch began.
CacheInv ==
    /\ TypeOK
    /\ \A k \in Kids : lastSeen[k] <= now /\ (k \in published => lastSeen[k] = now)
    /\ \A k \in keys : lastSeen[k] >= expiresAt - TTL
    /\ pc # "idle" =>
          /\ started <= now /\ now <= started + MaxFetch
          /\ \A k \in reply : lastSeen[k] >= started
          /\ steady \subseteq published
          /\ reply # {} => steady \subseteq reply
    /\ PublishedKeysAreFound
=============================================================================
