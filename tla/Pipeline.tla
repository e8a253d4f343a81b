------------------------------ MODULE Pipeline ------------------------------
(***************************************************************************)
(* What a request passes before and after its handler, in one replica:     *)
(* start-up of telemetry, CorrelationIdMiddleware, get_auth_context with   *)
(* validate_access_token, require_roles, body validation, the exception    *)
(* handlers, and the middleware again on the way out.                      *)
(*                                                                         *)
(* It is composed with JwksCache: the dependencies call get_key on the     *)
(* event loop, so while one request is inside a fetch no other moves; the  *)
(* issuer and the clock do.  From get_key's return to the verdict on the   *)
(* roles nothing is awaited: that is one action.                           *)
(*                                                                         *)
(* The handler is one action here, with every outcome TodoStore gives it.  *)
(***************************************************************************)
EXTENDS JwksCache

CONSTANTS Requests,
          Asks,        \* request -> what its client may send
          Tokens,      \* [kid, exp, flaws, roles]
          NoToken,
          NotRSA,      \* kids whose published key is not an RSA key
          Leeway,      \* ENTRA_CLOCK_SKEW_SECONDS
          Settings     \* [auth, exporter, debug] a replica may be started with

\* Flaws of a token that are found before its key is asked for, and after.
EarlyFlaws == {"malformed", "algorithm", "no_kid"}
LateFlaws == {"signature", "claims", "issuer", "no_app"}
Roles == {"Todos.Read", "Todos.Write", "Other"}

ASSUME TokensAssumption ==
    /\ Tokens \subseteq [kid : Kids, exp : Nat, roles : SUBSET Roles,
                         flaws : SUBSET (EarlyFlaws \cup LateFlaws)]
    /\ NoToken \notin Tokens
    /\ Leeway \in Nat
    /\ NotRSA \subseteq Kids

AllAsks == [needs : {"Todos.Read", "Todos.Write"},
            token : Tokens \cup {NoToken},
            body : {"valid", "invalid", "not_json"},
            id : BOOLEAN]     \* whether x-correlation-id is sent

ASSUME AsksAssumption == Asks \in [Requests -> SUBSET AllAsks]
ASSUME SettingsOfReplicas ==
    Settings \subseteq [auth : {"off", "on", "incomplete"},
                        exporter : BOOLEAN,   \* enabled, with a connection string
                        debug : BOOLEAN]

VARIABLES
    settings,   \* get_settings(): read once
    boot,       \* how far app/main.py is: "setup", "instrument", "serving"
    traced,     \* a tracer provider is there, and the app is instrumented
    ask,        \* request -> what its client sent
    stage,      \* request -> where it is
    noted,      \* request -> whether request.state holds the span's ids
    answer      \* request -> the response: "ok" or the code of the error, the
                \* form of the body, and whose id the header carries

replicaVars == <<settings, boot, traced>>
requestVars == <<ask, stage, noted, answer>>
pipelineVars == <<replicaVars, requestVars>>
allVars == <<vars, pipelineVars>>

Stages == {"idle", "entered", "fetching", "handling", "answered"}
Codes == {"none", "ok", "authentication_error", "authorization_error",
          "validation_error", "app_error", "internal_error"}
Answers == [code : Codes, body : {"none", "payload", "envelope", "traceback"},
            id : {"none", "client", "span"}]
NoAnswer == [code |-> "none", body |-> "none", id |-> "none"]

PInit ==
    /\ Init
    /\ settings \in Settings
    /\ boot = "setup"
    /\ traced = FALSE
    /\ ask \in {a \in [Requests -> AllAsks] : \A r \in Requests : a[r] \in Asks[r]}
    /\ stage = [r \in Requests |-> "idle"]
    /\ noted = [r \in Requests |-> FALSE]
    /\ answer = [r \in Requests |-> NoAnswer]

-----------------------------------------------------------------------------
(* Start-up.                                                               *)

\* setup_telemetry: without the exporter the SDK's own provider is set; with
\* it, an exception of configure_azure_monitor leaves none.
SetUpTelemetry ==
    /\ boot = "setup"
    /\ boot' = "instrument"
    /\ traced' \in IF settings.exporter THEN BOOLEAN ELSE {TRUE}
    /\ UNCHANGED <<vars, settings, requestVars>>

\* instrument_app: failures are logged, and the app serves without spans.
InstrumentApp ==
    /\ boot = "instrument"
    /\ boot' = "serving"
    /\ traced' \in {traced, FALSE}
    /\ UNCHANGED <<vars, settings, requestVars>>

-----------------------------------------------------------------------------
(* A request.                                                              *)

\* Another request runs only while none is inside the synchronous get_key.
LoopFree == boot = "serving" /\ pc = "idle"

At(r, s) == stage[r] = s
Go(r, s) == stage' = [stage EXCEPT ![r] = s]

\* Mutant: errors are answered outside the middleware.
ResponseOutside(r, code) ==
    [code |-> code,
     id |-> IF traced /\ code = "ok" THEN "span" ELSE "none",
     body |-> IF code = "ok" THEN "payload" ELSE "envelope"]

\* AppErrors and validation errors are answered inside the middleware, whose
\* second half then sets the headers.  Any other exception passes through it
\* and is answered by handle_unexpected_error, or in debug mode by a traceback
\* instead.
Response(r, code) ==
    IF code = "internal_error"
      THEN [code |-> code, id |-> "none",
            body |-> IF settings.debug THEN "traceback" ELSE "envelope"]
      ELSE [code |-> code,
            id |-> IF traced THEN "span" ELSE IF ask[r].id THEN "client" ELSE "none",
            body |-> IF code = "ok" THEN "payload" ELSE "envelope"]

Answer(r, code) ==
    /\ Go(r, "answered")
    /\ answer' = [answer EXCEPT ![r] = Response(r, code)]

\* The first half of CorrelationIdMiddleware.dispatch.
Enter(r) ==
    /\ LoopFree
    /\ At(r, "idle")
    /\ Go(r, "entered")
    /\ noted' = [noted EXCEPT ![r] = traced]
    /\ UNCHANGED <<vars, replicaVars, ask, answer>>

\* The framework parses the body before it runs the dependencies.
RejectBody(r) ==
    /\ LoopFree
    /\ At(r, "entered")
    /\ ask[r].body = "not_json"
    /\ Answer(r, "validation_error")
    /\ UNCHANGED <<vars, replicaVars, ask, noted>>

\* REQUIRE_AUTH=false: an anonymous context, which require_roles lets pass.
PassAnonymously(r) ==
    /\ LoopFree
    /\ At(r, "entered") /\ ask[r].body # "not_json"
    /\ settings.auth = "off"
    /\ Go(r, "handling")
    /\ UNCHANGED <<vars, replicaVars, ask, noted, answer>>

\* AuthenticationError before a key is asked for: no bearer token, no tenant
\* or audience configured, or a token header that will not do.
RefuseEarly(r) ==
    /\ LoopFree
    /\ At(r, "entered") /\ ask[r].body # "not_json"
    /\ settings.auth # "off"
    /\ \/ ask[r].token = NoToken
       \/ settings.auth = "incomplete"
       \/ ask[r].token # NoToken /\ ask[r].token.flaws \cap EarlyFlaws # {}
    /\ Answer(r, "authentication_error")
    /\ UNCHANGED <<vars, replicaVars, ask, noted>>

\* Mutant: a role implies no other.
EffectiveLiterally(roles) == roles

\* _expand_effective_roles.
Effective(roles) ==
    roles \cup (IF "Todos.Write" \in roles THEN {"Todos.Read"} ELSE {})

\* Mutant: the lifetime is checked against the time at which the fetch began.
DecodesAsOfThen(token) == token.flaws = {} /\ started < token.exp + Leeway

\* jwt.decode and the checks after it accept the token now.
Decodes(token) == token.flaws = {} /\ now < token.exp + Leeway

\* What validate_access_token and _enforce_roles make of get_key's return.  A
\* key that is not an RSA key raises outside the try.
Judgement(r) ==
    LET token == ask[r].token IN
    IF verdict' # "key" THEN "authentication_error"
    ELSE IF token.kid \in NotRSA THEN "internal_error"
    ELSE IF ~ Decodes(token) THEN "authentication_error"
    ELSE IF ask[r].needs \notin Effective(token.roles) THEN "authorization_error"
    ELSE "pass"

\* Mutant: a fetch under way is not waited for.
ProceedNotAwaiting(r) ==
    IF pc' = "idle" /\ Judgement(r) = "pass"
      THEN Go(r, "handling") /\ UNCHANGED answer
      ELSE Answer(r, "authentication_error")

\* get_key returns in this step, or is in a fetch after it.
Proceed(r) ==
    IF pc' # "idle" THEN Go(r, "fetching") /\ UNCHANGED answer
    ELSE IF Judgement(r) = "pass" THEN Go(r, "handling") /\ UNCHANGED answer
    ELSE Answer(r, Judgement(r))

AskForKey(r) ==
    /\ LoopFree
    /\ At(r, "entered") /\ ask[r].body # "not_json"
    /\ settings.auth = "on"
    /\ ask[r].token # NoToken
    /\ ask[r].token.flaws \cap EarlyFlaws = {}
    /\ Hit(ask[r].token.kid) \/ Miss(ask[r].token.kid)
    /\ Proceed(r)
    /\ UNCHANGED <<replicaVars, ask, noted>>

Fetch(r) ==
    /\ At(r, "fetching")
    /\ FetchedLast \/ FetchedWithoutWanted \/ FetchFails
    /\ Proceed(r)
    /\ UNCHANGED <<replicaVars, ask, noted>>

\* Path, query and body are validated, then the handler runs.
Handle(r) ==
    /\ LoopFree
    /\ At(r, "handling")
    /\ IF ask[r].body = "invalid"
         THEN Answer(r, "validation_error")
         ELSE \E code \in {"ok", "app_error", "internal_error"} : Answer(r, code)
    /\ UNCHANGED <<vars, replicaVars, ask, noted>>

RequestStep(r) ==
    \/ RejectBody(r) \/ PassAnonymously(r) \/ RefuseEarly(r)
    \/ AskForKey(r) \/ Fetch(r) \/ Handle(r)

\* What happens around the requests (before them, it shows in PInit).
Around ==
    /\ boot = "serving"
    /\ Tick \/ (\E new \in SUBSET Kids : Rotate(new)) \/ IssuerResponds
    /\ UNCHANGED pipelineVars

PNext ==
    \/ SetUpTelemetry \/ InstrumentApp
    \/ \E r \in Requests : Enter(r) \/ RequestStep(r)
    \/ Around

PSpec == PInit /\ [][PNext]_allVars

\* The event loop comes back to every request, and urlopen has a timeout.
PFairSpec == PSpec /\ \A r \in Requests : WF_allVars(RequestStep(r))

-----------------------------------------------------------------------------
(* Properties.                                                             *)

\* Requests enter once it is settled whether there are spans, and the two
\* halves of the middleware find the same.
Noted == \A r \in Requests : ~ At(r, "idle") => boot = "serving" /\ noted[r] = traced

\* Types, and: the cache is in a fetch exactly while one request is inside
\* get_key, for the key of that request's token.
PInv ==
    /\ TypeOK
    /\ settings \in Settings
    /\ boot \in {"setup", "instrument", "serving"}
    /\ traced \in BOOLEAN
    /\ ask \in [Requests -> AllAsks]
    /\ stage \in [Requests -> Stages]
    /\ noted \in [Requests -> BOOLEAN]
    /\ answer \in [Requests -> Answers]
    /\ pc # "idle" => \E r \in Requests : At(r, "fetching")
    /\ \A r \in Requests : At(r, "fetching") =>
          /\ pc # "idle"
          /\ settings.auth = "on"
          /\ ask[r].token # NoToken
          /\ want = ask[r].token.kid
          /\ \A s \in Requests \ {r} : ~ At(s, "fetching")
    /\ Noted

\* The role a token must list for the operation, as README.md has it: Write is
\* enough for reading.
Granted(a) ==
    \/ a.needs \in a.token.roles
    \/ a.needs = "Todos.Read" /\ "Todos.Write" \in a.token.roles

\* With authentication on, a handler starts only for a token that is sound and
\* alive at that moment, however long the fetch took, that has the role, and
\* whose key the issuer published within the last TTL (or the one fetch).
HandledMeansEntitled ==
    [][\A r \in Requests :
          /\ settings.auth # "off"
          /\ stage[r] # "handling" /\ stage'[r] = "handling"
          => LET token == ask[r].token IN
             /\ token # NoToken
             /\ token.flaws = {}
             /\ now < token.exp + Leeway
             /\ Granted(ask[r])
             /\ now - lastSeen[token.kid] <= Larger(TTL, MaxFetch)]_allVars

\* Who holds a sound and living token with the role, signed with a key the
\* issuer has published since the request asked for it, is refused only if a
\* fetch failed: no state of the cache, of other requests or of the rotation
\* keeps him out.
EntitledAreLetIn ==
    [][\A r \in Requests :
          LET token == ask[r].token IN
          /\ answer[r] = NoAnswer
          /\ answer'[r].code \in {"authentication_error", "authorization_error"}
          /\ settings.auth = "on"
          /\ token # NoToken
          /\ token.flaws = {}
          /\ now < token.exp + Leeway
          /\ Granted(ask[r])
          /\ token.kid \in steady'
          => verdict' = "fetch_failed"]_allVars

\* A trace id in an answer is one the request's log records carry, so support
\* finds them by it; and an answer that does not come from the outermost error
\* handler carries an id whenever the middleware knows one, the span's or the
\* client's.
KnownIdsReachTheClient ==
    \A r \in Requests : At(r, "answered") =>
        /\ answer[r].id = "span" => noted[r]
        /\ (noted[r] \/ ask[r].id) /\ answer[r].code # "internal_error"
              => answer[r].id # "none"

\* How many steps a request has before it at most, those of the issuer for it
\* included: an unforced fetch, a forced one, and an answer of either.
FetchesLeft == IF pc = "fetching" THEN 2 ELSE 1

StepsLeft(r) ==
    CASE At(r, "idle") -> 7
      [] At(r, "entered") -> 6
      [] At(r, "fetching") -> 2 * FetchesLeft + (IF reply = {} THEN 1 ELSE 0)
      [] At(r, "handling") -> 1
      [] OTHER -> 0

Nearer(r) ==
    /\ StepsLeft(r)' <= StepsLeft(r)
    /\ stage'[r] # stage[r] => StepsLeft(r)' < StepsLeft(r)

\* A request only gets nearer to its answer, and asks the issuer twice at most:
\* neither a kid that does not exist nor rotations nor other requests make it
\* begin or fetch anew.
NearerToTheAnswer ==
    [][\A r \in Requests : Nearer(r)]_allVars

\* Every request that has entered is answered, whatever the issuer does: a
\* fetch holds up all requests, but it ends.
EveryRequestAnswered ==
    \A r \in Requests : At(r, "entered") ~> At(r, "answered")

-----------------------------------------------------------------------------
(* What the repository says of the program, and the program does not do.   *)

\* Of unhandled errors: "Returned by fallback exception handler."
\* (docs/guides/error-contract.md:40), so with the envelope; and of all answers:
\* "ensure the response includes correlation headers"
\* (docs/design/instrument-flow.md:50), so with an id if one is known.
ErrorsKeepTheContract ==
    \A r \in Requests : At(r, "answered") /\ answer[r].code # "ok" =>
        /\ answer[r].body = "envelope"
        /\ noted[r] \/ ask[r].id => answer[r].id # "none"
=============================================================================
