--------------------------- MODULE PipelineProofs ---------------------------
(***************************************************************************)
(* Proofs about JwksCache, for any keys, TTL and length of a fetch, and    *)
(* about Pipeline, for any requests, tokens, settings and keys.  What is   *)
(* proved of the key cache carries over, because every step of the         *)
(* pipeline is a step of the cache or leaves it alone.                     *)
(***************************************************************************)
EXTENDS Pipeline, TLAPS

-----------------------------------------------------------------------------
(* The key cache by itself.                                                *)

LEMMA InitInv == Init => CacheInv
  <1>. SUFFICES ASSUME Init PROVE CacheInv
    OBVIOUS
  <1>1. lastSeen \in [Kids -> Nat]
    BY DEF Init
  <1>2. now = 1 /\ \A k \in Kids : lastSeen[k] = IF k \in published THEN 1 ELSE 0
    BY DEF Init
  <1>3. TypeOK
    BY <1>1, SettingsAssumption DEF Init, TypeOK
  <1>. QED
    BY <1>2, <1>3 DEF Init, CacheInv, PublishedKeysAreFound

\* The issuer and the clock keep the invariant: what was published stays seen.
LEMMA EnvironmentStep ==
    ASSUME CacheInv, Tick \/ \E new \in SUBSET Kids : Rotate(new)
    PROVE  CacheInv'
  <1>. USE SettingsAssumption
       DEF CacheInv, TypeOK, PublishedKeysAreFound, cacheVars, askVars
  <1>1. CASE Tick
    BY <1>1 DEF Tick
  <1>2. ASSUME NEW new \in SUBSET Kids, Rotate(new) PROVE CacheInv'
    <2>1. lastSeen' \in [Kids -> Nat]
      BY <1>2 DEF Rotate
    <2>2. \A k \in Kids : lastSeen'[k] = IF k \in new THEN now ELSE lastSeen[k]
      BY <1>2 DEF Rotate
    <2>. QED
      BY <1>2, <2>1, <2>2 DEF Rotate
  <1>. QED
    BY <1>1, <1>2

\* So does every step of get_key.
LEMMA GetKeyStep ==
    ASSUME CacheInv,
           \/ \E k \in Kids : Hit(k) \/ Miss(k)
           \/ IssuerResponds \/ FetchedLast \/ FetchedWithoutWanted \/ FetchFails
    PROVE  CacheInv'
  <1>. USE SettingsAssumption
       DEF CacheInv, TypeOK, PublishedKeysAreFound, cacheVars, askVars, issuerVars,
           StartFetch, Settle, Keep
  <1>1. ASSUME NEW k \in Kids, Hit(k) PROVE CacheInv'
    BY <1>1 DEF Hit
  <1>2. ASSUME NEW k \in Kids, Miss(k) PROVE CacheInv'
    BY <1>2 DEF Miss
  <1>3. CASE IssuerResponds
    BY <1>3 DEF IssuerResponds
  <1>4. CASE FetchedLast
    BY <1>4 DEF FetchedLast
  <1>5. CASE FetchedWithoutWanted
    BY <1>5 DEF FetchedWithoutWanted
  <1>6. CASE FetchFails
    BY <1>6 DEF FetchFails
  <1>. QED
    BY <1>1, <1>2, <1>3, <1>4, <1>5, <1>6

LEMMA NextInv == CacheInv /\ [Next]_vars => CacheInv'
  <1>1. ASSUME CacheInv, UNCHANGED vars PROVE CacheInv'
    BY <1>1 DEF CacheInv, TypeOK, PublishedKeysAreFound, vars, issuerVars, cacheVars, askVars
  <1>. QED
    BY <1>1, EnvironmentStep, GetKeyStep DEF Next

\* The inductive invariant of the cache, its types among it.
THEOREM Inductive == Spec => []CacheInv
  BY InitInv, NextInv, PTL DEF Spec

\* A withdrawn key is trusted no longer than a TTL or one fetch, for any
\* settings, any rotation and any failures of the issuer.
THEOREM TrustIsBounded == Spec => []TrustedKeysAreRecent
  <1>1. CacheInv => TrustedKeysAreRecent
    BY SettingsAssumption DEF CacheInv, TypeOK, TrustedKeysAreRecent, Trusted, Usable, Larger
  <1>. QED
    BY <1>1, Inductive, PTL

\* A key that is published all the time is never reported missing.
THEOREM RefreshOnMiss == Spec => []PublishedKeysAreFound
  <1>1. CacheInv => PublishedKeysAreFound
    BY DEF CacheInv
  <1>. QED
    BY <1>1, Inductive, PTL

-----------------------------------------------------------------------------
(* The pipeline's steps in the cache.                                      *)

LEMMA TokenTypes ==
    ASSUME PInv, NEW r \in Requests, ask[r].token # NoToken
    PROVE  ask[r].token.kid \in Kids
  <1>1. ask[r] \in AllAsks
    BY DEF PInv
  <1>2. ask[r].token \in Tokens
    BY <1>1 DEF AllAsks
  <1>. QED
    BY <1>2, TokensAssumption

LEMMA StepOfCache ==
    ASSUME PInv, [PNext]_allVars
    PROVE  [Next]_vars
  <1>. SUFFICES ASSUME PNext, vars' # vars PROVE Next
    BY DEF allVars
  <1>1. ASSUME NEW r \in Requests, Enter(r) \/ RequestStep(r) PROVE Next
    <2>1. CASE AskForKey(r)
      BY <2>1, TokenTypes DEF AskForKey, Next
    <2>2. CASE Fetch(r)
      BY <2>2 DEF Fetch, Next
    <2>. QED
      BY <1>1, <2>1, <2>2 DEF RequestStep, Enter, RejectBody, PassAnonymously,
            RefuseEarly, Handle
  <1>2. CASE Around
    BY <1>2 DEF Around, Next
  <1>. QED
    BY <1>1, <1>2 DEF PNext, SetUpTelemetry, InstrumentApp

-----------------------------------------------------------------------------
(* The invariant of the composition.                                       *)

LEMMA PInitInv == PInit => PInv
  <1>. SUFFICES ASSUME PInit PROVE PInv
    OBVIOUS
  <1>1. TypeOK
    BY InitInv DEF PInit, CacheInv
  <1>2. ask \in [Requests -> AllAsks]
    BY DEF PInit
  <1>3. pc = "idle" /\ \A r \in Requests : stage[r] = "idle"
    BY DEF PInit, Init
  <1>. QED
    BY <1>1, <1>2, <1>3 DEF PInit, PInv, Stages, Answers, Codes, NoAnswer, At, Noted

LEMMA ResponseType ==
    ASSUME NEW r \in Requests, NEW code \in Codes
    PROVE  Response(r, code) \in Answers
  BY DEF Response, Answers, Codes

\* What a step may do to the stages: none is inside a fetch but the request
\* the cache is busy with.
LEMMA RequestInv ==
    ASSUME PInv, CacheInv, NEW r \in Requests, Enter(r) \/ RequestStep(r)
    PROVE  PInv'
  <1>. USE DEF At, Go
  <1>1. TypeOK'
    <2>1. [PNext]_allVars
      BY DEF PNext
    <2>. QED
      BY <2>1, StepOfCache, NextInv DEF CacheInv
  <1>2. stage' \in [Requests -> Stages] /\ UNCHANGED <<ask, replicaVars>>
        /\ \A s \in Requests \ {r} : stage'[s] = stage[s]
    <2>1. CASE Enter(r)
      BY <2>1 DEF Enter, PInv, Stages
    <2>2. CASE RejectBody(r) \/ PassAnonymously(r) \/ RefuseEarly(r) \/ Handle(r)
      BY <2>2 DEF RejectBody, PassAnonymously, RefuseEarly, Handle, Answer, PInv, Stages
    <2>3. CASE AskForKey(r) \/ Fetch(r)
      BY <2>3 DEF AskForKey, Fetch, Proceed, Answer, PInv, Stages
    <2>. QED
      BY <2>1, <2>2, <2>3 DEF RequestStep
  <1>3. noted' \in [Requests -> BOOLEAN]
    BY DEF Enter, RequestStep, RejectBody, PassAnonymously, RefuseEarly, Handle,
           AskForKey, Fetch, PInv
  <1>4. answer' \in [Requests -> Answers]
    <2>1. Judgement(r) \in Codes \cup {"pass"}
      BY DEF Judgement, Codes
    <2>2. ASSUME NEW code \in Codes, Answer(r, code) PROVE answer' \in [Requests -> Answers]
      BY <2>2, ResponseType DEF Answer, PInv
    <2>3. CASE UNCHANGED answer
      BY <2>3 DEF PInv
    <2>4. CASE AskForKey(r) \/ Fetch(r)
      BY <2>1, <2>2, <2>3, <2>4 DEF AskForKey, Fetch, Proceed
    <2>5. CASE RejectBody(r) \/ RefuseEarly(r) \/ Handle(r)
      BY <2>2, <2>5 DEF RejectBody, RefuseEarly, Handle, Codes
    <2>. QED
      BY <2>3, <2>4, <2>5 DEF RequestStep, Enter, PassAnonymously
  <1>5. Noted'
    <2>1. CASE Enter(r)
      BY <2>1 DEF Enter, LoopFree, PInv, Noted, replicaVars
    <2>2. CASE RequestStep(r)
      <3>1. stage[r] # "idle" /\ noted' = noted
        BY <2>2 DEF RequestStep, RejectBody, PassAnonymously, RefuseEarly, Handle,
              AskForKey, Fetch
      <3>. QED
        BY <1>2, <3>1 DEF PInv, Noted, replicaVars
    <2>. QED
      BY <2>1, <2>2
  <1>6. CASE pc = "idle"
    <2>1. \A s \in Requests \ {r} : stage'[s] # "fetching"
      BY <1>2, <1>6 DEF PInv
    <2>2. CASE AskForKey(r)
      <3>1. want' = ask[r].token.kid
        BY <2>2 DEF AskForKey, Hit, Miss
      <3>2. pc' # "idle" <=> stage'[r] = "fetching"
        BY <2>2 DEF AskForKey, Proceed, Answer, PInv
      <3>. QED
        BY <1>1, <1>2, <1>3, <1>4, <1>5, <2>1, <2>2, <3>1, <3>2 DEF AskForKey, PInv, replicaVars
    <2>3. CASE ~ AskForKey(r)
      <3>1. pc' = pc /\ stage'[r] # "fetching"
        BY <1>6, <2>3 DEF Enter, RequestStep, RejectBody, PassAnonymously,
              RefuseEarly, Handle, Fetch, Answer, PInv, vars, askVars
      <3>. QED
        BY <1>1, <1>2, <1>3, <1>4, <1>5, <1>6, <2>1, <3>1 DEF PInv, replicaVars
    <2>. QED
      BY <2>2, <2>3
  <1>7. CASE pc # "idle"
    <2>1. Fetch(r)
      BY <1>7 DEF Enter, RequestStep, RejectBody, PassAnonymously, RefuseEarly,
            Handle, AskForKey, LoopFree
    <2>2. want' = want
      BY <2>1 DEF Fetch, FetchedLast, FetchedWithoutWanted, FetchFails
    <2>3. pc' # "idle" <=> stage'[r] = "fetching"
      BY <2>1 DEF Fetch, Proceed, Answer, PInv
    <2>4. \A s \in Requests \ {r} : stage'[s] # "fetching"
      BY <1>2, <2>1 DEF Fetch, PInv
    <2>. QED
      BY <1>1, <1>2, <1>3, <1>4, <1>5, <2>1, <2>2, <2>3, <2>4 DEF Fetch, PInv, replicaVars
  <1>. QED
    BY <1>6, <1>7

LEMMA PNextInv == PInv /\ CacheInv /\ [PNext]_allVars => PInv' /\ CacheInv'
  <1>. SUFFICES ASSUME PInv, CacheInv, [PNext]_allVars PROVE PInv' /\ CacheInv'
    OBVIOUS
  <1>1. CacheInv'
    BY StepOfCache, NextInv
  <1>2. TypeOK'
    BY <1>1 DEF CacheInv
  <1>3. ASSUME NEW r \in Requests, Enter(r) \/ RequestStep(r) PROVE PInv'
    BY <1>3, RequestInv
  <1>. DEFINE Same == UNCHANGED <<ask, stage, noted, answer, settings, pc, want>>
              Kept == boot' \in {"setup", "instrument", "serving"} /\ traced' \in BOOLEAN
  <1>4. Same /\ Kept /\ Noted' => PInv'
    BY <1>2 DEF PInv, At
  <1>. HIDE DEF Same, Kept
  <1>5. CASE SetUpTelemetry \/ InstrumentApp
    <2>1. Same
      BY <1>5 DEF SetUpTelemetry, InstrumentApp, requestVars, vars, askVars, Same
    <2>2. Kept
      BY <1>5 DEF SetUpTelemetry, InstrumentApp, PInv, Kept
    <2>3. Noted'
      BY <1>5, <2>1 DEF SetUpTelemetry, InstrumentApp, PInv, Noted, At, Same
    <2>. QED
      BY <1>1, <1>4, <2>1, <2>2, <2>3
  <1>6. CASE Around \/ UNCHANGED allVars
    <2>1. Same
      BY <1>6 DEF Around, Tick, Rotate, IssuerResponds, askVars, allVars, vars,
            pipelineVars, requestVars, replicaVars, Same
    <2>2. Kept
      BY <1>6 DEF Around, allVars, pipelineVars, replicaVars, PInv, Kept
    <2>3. Noted'
      BY <1>6, <2>1 DEF Around, allVars, pipelineVars, replicaVars, PInv, Noted, At, Same
    <2>. QED
      BY <1>1, <1>4, <2>1, <2>2, <2>3
  <1>. QED
    BY <1>1, <1>3, <1>4, <1>5, <1>6 DEF PNext

LEMMA PInvariant == PSpec => [](PInv /\ CacheInv)
  <1>1. PInit => PInv /\ CacheInv
    BY PInitInv, InitInv DEF PInit
  <1>. QED
    BY <1>1, PNextInv, PTL DEF PSpec

\* The pipeline's invariant: types, and at most one request inside get_key,
\* which is the one the cache fetches for.
THEOREM Composed == PSpec => []PInv
  BY PInvariant, PTL

\* The pipeline uses the key cache as JwksCache specifies it, so all that is
\* proved of the cache holds in the pipeline.
THEOREM CacheIsUsedWell == PSpec => Spec
  <1>1. PInit => Init
    BY DEF PInit
  <1>2. PInv /\ [PNext]_allVars => [Next]_vars
    BY StepOfCache
  <1>. QED
    BY <1>1, <1>2, PInvariant, PTL DEF PSpec, Spec

-----------------------------------------------------------------------------
(* Whose id an answer carries.                                             *)

LEMMA InitIds == PInit => KnownIdsReachTheClient
  BY DEF PInit, KnownIdsReachTheClient, At

LEMMA NextIds ==
    ASSUME PInv, KnownIdsReachTheClient, [PNext]_allVars
    PROVE  KnownIdsReachTheClient'
  <1>. USE DEF At, Go
  <1>1. CASE ~ \E s \in Requests : RequestStep(s)
    <2>1. \A r \in Requests :
             stage'[r] = "answered" => /\ stage[r] = "answered" /\ answer'[r] = answer[r]
                                       /\ noted'[r] = noted[r] /\ ask'[r] = ask[r]
      BY <1>1 DEF PInv, PNext, Enter, SetUpTelemetry, InstrumentApp, Around, allVars,
            pipelineVars, requestVars
    <2>. QED
      BY <2>1 DEF KnownIdsReachTheClient
  <1>2. ASSUME NEW s \in Requests, RequestStep(s) PROVE KnownIdsReachTheClient'
    <2>1. ask' = ask /\ noted' = noted /\ stage[s] # "idle"
      BY <1>2 DEF RequestStep, RejectBody, PassAnonymously, RefuseEarly, Handle,
            AskForKey, Fetch
    <2>2. \/ (\E code \in Codes \cup {"pass"} : Answer(s, code))
          \/ stage'[s] # "answered" /\ answer' = answer
              /\ \E to : stage' = [stage EXCEPT ![s] = to]
      <3>1. Judgement(s) \in Codes \cup {"pass"}
        BY DEF Judgement, Codes
      <3>2. CASE RejectBody(s) \/ RefuseEarly(s) \/ Handle(s)
        BY <3>2 DEF RejectBody, RefuseEarly, Handle, Codes
      <3>3. CASE PassAnonymously(s)
        BY <3>3 DEF PassAnonymously, PInv
      <3>4. CASE AskForKey(s) \/ Fetch(s)
        BY <3>1, <3>4 DEF AskForKey, Fetch, Proceed, PInv
      <3>. QED
        BY <1>2, <3>2, <3>3, <3>4 DEF RequestStep
    <2>3. ASSUME NEW code \in Codes \cup {"pass"}, Answer(s, code)
          PROVE  KnownIdsReachTheClient'
      <3>1. /\ answer'[s] = Response(s, code)
            /\ \A r \in Requests \ {s} : answer'[r] = answer[r] /\ stage'[r] = stage[r]
        BY <2>3 DEF Answer, PInv
      <3>2. /\ Response(s, code).code = code
            /\ Response(s, code).id = "span" => traced
            /\ (traced \/ ask[s].id) /\ code # "internal_error"
                  => Response(s, code).id # "none"
        BY DEF Response
      <3>3. noted[s] = traced
        BY <2>1 DEF PInv, Noted
      <3>. QED
        BY <2>1, <3>1, <3>2, <3>3 DEF KnownIdsReachTheClient
    <2>4. CASE /\ stage'[s] # "answered" /\ answer' = answer
               /\ \E to : stage' = [stage EXCEPT ![s] = to]
      BY <2>1, <2>4 DEF KnownIdsReachTheClient, PInv
    <2>. QED
      BY <2>2, <2>3, <2>4
  <1>. QED
    BY <1>1, <1>2

\* Trace ids in answers are those of the log records, and no answer of the app
\* itself drops an id that is known, however the telemetry came up.
THEOREM IdsAreCarried == PSpec => []KnownIdsReachTheClient
  <1>1. PInv /\ KnownIdsReachTheClient /\ [PNext]_allVars => KnownIdsReachTheClient'
    BY NextIds
  <1>. QED
    BY <1>1, InitIds, PInvariant, PTL DEF PSpec

-----------------------------------------------------------------------------
(* Who is let in.                                                          *)

\* When get_key has returned the key, it is one the issuer published lately.
LEMMA KeyIsRecent ==
    ASSUME PInv, CacheInv, NEW r \in Requests, AskForKey(r) \/ Fetch(r),
           pc' = "idle", verdict' = "key"
    PROVE  now - lastSeen[ask[r].token.kid] <= Larger(TTL, MaxFetch)
  <1>. DEFINE k == ask[r].token.kid
  <1>1. k \in Kids
    BY TokenTypes DEF AskForKey, Fetch, PInv
  <1>2. lastSeen[k] \in Nat /\ now \in Nat /\ started \in Nat /\ expiresAt \in Int
    BY <1>1 DEF PInv, TypeOK
  <1>3. CASE AskForKey(r)
    <2>1. Usable /\ k \in keys
      BY <1>3 DEF AskForKey, Hit, Miss, StartFetch
    <2>. QED
      BY <1>1, <1>2, <2>1, SettingsAssumption DEF CacheInv, Usable, Larger
  <1>4. CASE Fetch(r)
    <2>1. FetchedLast /\ want = k
      BY <1>4 DEF Fetch, FetchedWithoutWanted, FetchFails, StartFetch, Settle, PInv
    <2>2. k \in reply /\ pc # "idle"
      BY <2>1 DEF FetchedLast, Settle
    <2>3. lastSeen[k] >= started /\ now <= started + MaxFetch
      BY <1>1, <2>2 DEF CacheInv
    <2>. QED
      BY <1>2, <2>3, SettingsAssumption DEF Larger
  <1>. QED
    BY <1>3, <1>4

\* A handler starts only for a sound, living token with the role and a key
\* that was published lately, for any settings and any interleaving of
\* requests, rotation and time.
THEOREM OnlyEntitledAreHandled == PSpec => HandledMeansEntitled
  <1>1. ASSUME PInv, CacheInv, [PNext]_allVars, NEW r \in Requests,
               settings.auth # "off",
               stage[r] # "handling", stage'[r] = "handling"
        PROVE  LET token == ask[r].token IN
               /\ token # NoToken
               /\ token.flaws = {}
               /\ now < token.exp + Leeway
               /\ Granted(ask[r])
               /\ now - lastSeen[token.kid] <= Larger(TTL, MaxFetch)
    <2>. USE DEF Go, At
    <2>1. PICK s \in Requests : Enter(s) \/ RequestStep(s)
      BY <1>1 DEF PNext, SetUpTelemetry, InstrumentApp, Around, allVars, pipelineVars,
            requestVars
    <2>2. r = s /\ (AskForKey(r) \/ Fetch(r)) /\ pc' = "idle" /\ Judgement(r) = "pass"
      <3>1. CASE Enter(s) \/ RejectBody(s) \/ RefuseEarly(s) \/ PassAnonymously(s) \/ Handle(s)
        BY <1>1, <3>1 DEF Enter, RejectBody, RefuseEarly, PassAnonymously, Handle,
              Answer, PInv
      <3>2. CASE AskForKey(s) \/ Fetch(s)
        BY <1>1, <3>2 DEF AskForKey, Fetch, Proceed, Answer, PInv
      <3>. QED
        BY <2>1, <3>1, <3>2 DEF RequestStep
    <2>3. verdict' = "key" /\ Decodes(ask[r].token) /\ ask[r].needs \in Effective(ask[r].token.roles)
      BY <2>2 DEF Judgement
    <2>4. Granted(ask[r])
      BY <2>3 DEF Effective, Granted
    <2>5. ask[r].token # NoToken
      <3>1. CASE AskForKey(r)
        BY <3>1 DEF AskForKey
      <3>2. CASE Fetch(r)
        BY <1>1, <3>2 DEF Fetch, PInv
      <3>. QED
        BY <2>2, <3>1, <3>2
    <2>. QED
      BY <1>1, <2>2, <2>3, <2>4, <2>5, KeyIsRecent DEF Decodes
  <1>2. PInv /\ CacheInv /\ [PNext]_allVars =>
          [\A r \in Requests :
              /\ settings.auth # "off"
              /\ stage[r] # "handling" /\ stage'[r] = "handling"
              => LET token == ask[r].token IN
                 /\ token # NoToken
                 /\ token.flaws = {}
                 /\ now < token.exp + Leeway
                 /\ Granted(ask[r])
                 /\ now - lastSeen[token.kid] <= Larger(TTL, MaxFetch)]_allVars
    BY <1>1
  <1>. QED
    BY <1>2, PInvariant, PTL DEF PSpec, HandledMeansEntitled

\* Nobody who is entitled is refused unless a fetch failed, for any settings,
\* any rotation and any interleaving of requests.
THEOREM EntitledAreNotRefused == PSpec => EntitledAreLetIn
  <1>1. ASSUME PInv, CacheInv, CacheInv', [PNext]_allVars, NEW r \in Requests,
               answer[r] = NoAnswer,
               answer'[r].code \in {"authentication_error", "authorization_error"},
               settings.auth = "on",
               ask[r].token # NoToken, ask[r].token.flaws = {},
               now < ask[r].token.exp + Leeway, Granted(ask[r]),
               ask[r].token.kid \in steady'
        PROVE  verdict' = "fetch_failed"
    <2>. USE DEF Go, At
    <2>1. answer' # answer
      BY <1>1 DEF NoAnswer
    <2>2. PICK s \in Requests : Enter(s) \/ RequestStep(s)
      BY <1>1, <2>1 DEF PNext, SetUpTelemetry, InstrumentApp, Around, allVars, pipelineVars,
            requestVars
    <2>3. PICK code \in Codes \cup {"pass"} :
             /\ Answer(s, code)
             /\ \/ code \in {"validation_error", "ok", "app_error", "internal_error"}
                \/ RefuseEarly(s)
                \/ (AskForKey(s) \/ Fetch(s)) /\ pc' = "idle" /\ code = Judgement(s)
      <3>1. Judgement(s) \in Codes \cup {"pass"}
        BY DEF Judgement, Codes
      <3>2. CASE Enter(s) \/ PassAnonymously(s)
        BY <2>1, <3>2 DEF Enter, PassAnonymously
      <3>3. CASE RejectBody(s) \/ Handle(s) \/ RefuseEarly(s)
        BY <3>3 DEF RejectBody, Handle, RefuseEarly, Codes
      <3>4. CASE AskForKey(s) \/ Fetch(s)
        BY <2>1, <3>1, <3>4 DEF AskForKey, Fetch, Proceed
      <3>. QED
        BY <2>2, <3>2, <3>3, <3>4 DEF RequestStep
    <2>4. r = s
      BY <1>1, <2>3 DEF Answer, NoAnswer, PInv
    <2>5. answer'[r].code = code
      BY <1>1, <2>3, <2>4 DEF Answer, Response, PInv
    <2>6. ~ RefuseEarly(r)
      BY <1>1 DEF RefuseEarly
    <2>7. (AskForKey(r) \/ Fetch(r)) /\ pc' = "idle" /\ code = Judgement(r)
      BY <1>1, <2>3, <2>4, <2>5, <2>6
    <2>8. ask[r].needs \in Effective(ask[r].token.roles) /\ Decodes(ask[r].token)
      BY <1>1 DEF Granted, Effective, Decodes
    <2>9. verdict' # "key"
      BY <1>1, <2>5, <2>7, <2>8 DEF Judgement
    <2>10. CASE verdict' = "not_found"
      <3>1. want' \notin steady'
        BY <1>1, <2>10 DEF CacheInv, PublishedKeysAreFound
      <3>2. CASE AskForKey(r)
        BY <3>2, <3>1, <1>1 DEF AskForKey, Hit, Miss
      <3>3. CASE Fetch(r)
        BY <3>3, <3>1, <1>1 DEF Fetch, FetchedLast, FetchedWithoutWanted, FetchFails, PInv
      <3>. QED
        BY <2>7, <3>2, <3>3
    <2>11. verdict' \in {"key", "not_found", "fetch_failed"}
      BY <2>7 DEF AskForKey, Fetch, Hit, Miss, FetchedLast, FetchedWithoutWanted,
            FetchFails, StartFetch, Settle
    <2>. QED
      BY <2>9, <2>10, <2>11
  <1>2. PInv /\ CacheInv /\ CacheInv' /\ [PNext]_allVars =>
          [\A r \in Requests :
              LET token == ask[r].token IN
              /\ answer[r] = NoAnswer
              /\ answer'[r].code \in {"authentication_error", "authorization_error"}
              /\ settings.auth = "on"
              /\ token # NoToken
              /\ token.flaws = {}
              /\ now < token.exp + Leeway
              /\ Granted(ask[r])
              /\ token.kid \in steady'
              => verdict' = "fetch_failed"]_allVars
    BY <1>1
  <1>. QED
    BY <1>2, PInvariant, PTL DEF PSpec, EntitledAreLetIn

-----------------------------------------------------------------------------
(* How much is left to do.                                                 *)

\* The cache's share of a request that is inside get_key.
LEMMA FetchStepsLeft ==
    ASSUME PInv, CacheInv, NEW r \in Requests, At(r, "fetching")
    PROVE  StepsLeft(r) \in 2 .. 5
  BY DEF At, PInv, StepsLeft, FetchesLeft

\* A step of the request itself brings it nearer.
LEMMA OwnStepIsNearer ==
    ASSUME PInv, CacheInv, NEW r \in Requests, Enter(r) \/ RequestStep(r)
    PROVE  StepsLeft(r)' < StepsLeft(r)
  <1>. USE DEF At, Go, StepsLeft, FetchesLeft
  <1>1. stage[r] \in Stages /\ stage \in [Requests -> Stages]
    BY DEF PInv
  <1>2. CASE Enter(r)
    BY <1>1, <1>2 DEF Enter
  <1>3. CASE RejectBody(r) \/ PassAnonymously(r) \/ RefuseEarly(r) \/ Handle(r)
    BY <1>1, <1>3 DEF RejectBody, PassAnonymously, RefuseEarly, Handle, Answer
  <1>4. ASSUME Proceed(r), pc' = "idle" PROVE stage'[r] \in {"handling", "answered"}
    BY <1>1, <1>4 DEF Proceed, Answer
  <1>5. ASSUME Proceed(r), pc' # "idle" PROVE stage'[r] = "fetching"
    BY <1>1, <1>5 DEF Proceed
  <1>6. CASE AskForKey(r)
    BY <1>4, <1>5, <1>6 DEF AskForKey
  <1>7. CASE Fetch(r)
    <2>1. StepsLeft(r) \in 2 .. 5
      BY <1>7, FetchStepsLeft DEF Fetch
    <2>2. CASE FetchedLast \/ FetchFails
      BY <1>4, <1>7, <2>1, <2>2 DEF Fetch, FetchedLast, FetchFails, Settle
    <2>3. CASE FetchedWithoutWanted
      <3>1. StepsLeft(r) = 4
        BY <1>7, <2>3 DEF Fetch, FetchedWithoutWanted
      <3>2. StepsLeft(r)' = 3
        BY <1>5, <1>7, <2>3 DEF Fetch, FetchedWithoutWanted, StartFetch
      <3>. QED
        BY <3>1, <3>2
    <2>. QED
      BY <1>7, <2>2, <2>3 DEF Fetch
  <1>. QED
    BY <1>2, <1>3, <1>6, <1>7 DEF RequestStep

\* A request is inside get_key alone, so that others leave its fetch as it is.
LEMMA OthersStandBack ==
    ASSUME PInv, CacheInv, NEW r \in Requests, Enter(r) \/ RequestStep(r),
           NEW s \in Requests \ {r}
    PROVE  stage'[s] = stage[s] /\ StepsLeft(s)' = StepsLeft(s)
  <1>1. stage'[s] = stage[s]
    BY DEF PInv, Enter, RequestStep, RejectBody, PassAnonymously, RefuseEarly, Handle,
           AskForKey, Fetch, Proceed, Answer, Go
  <1>2. At(s, "fetching") => pc' = pc /\ reply' = reply
    BY DEF PInv, At, Enter, RequestStep, RejectBody, PassAnonymously, RefuseEarly, Handle,
           AskForKey, Fetch, LoopFree, vars, cacheVars, askVars
  <1>. QED
    BY <1>1, <1>2 DEF StepsLeft, FetchesLeft, At

\* A request has seven steps before it when it arrives and uses one up with each,
\* whatever tokens and rotations make of the fetches and however many requests
\* there are.
THEOREM RequestsAreShort == PSpec => NearerToTheAnswer
  <1>1. ASSUME PInv, CacheInv, [PNext]_allVars, NEW s \in Requests
        PROVE  Nearer(s)
    <2>1. StepsLeft(s) \in Int /\ StepsLeft(s)' \in Int
      BY DEF StepsLeft, FetchesLeft
    <2>2. ASSUME NEW r \in Requests, Enter(r) \/ RequestStep(r) PROVE Nearer(s)
      BY <1>1, <2>1, <2>2, OwnStepIsNearer, OthersStandBack DEF Nearer
    <2>3. CASE Around /\ IssuerResponds
      BY <2>1, <2>3 DEF Around, IssuerResponds, pipelineVars, requestVars, StepsLeft,
            FetchesLeft, At, Nearer
    <2>4. CASE UNCHANGED <<stage, pc, reply>>
      BY <2>1, <2>4 DEF StepsLeft, FetchesLeft, At, Nearer
    <2>. QED
      BY <1>1, <2>2, <2>3, <2>4 DEF PNext, SetUpTelemetry, InstrumentApp, Around, Tick,
            Rotate, vars, askVars, allVars, pipelineVars, requestVars
  <1>2. PInv /\ CacheInv /\ [PNext]_allVars => [\A r \in Requests : Nearer(r)]_allVars
    BY <1>1
  <1>. QED
    BY <1>2, PInvariant, PTL DEF PSpec, NearerToTheAnswer
=============================================================================
