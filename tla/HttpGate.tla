------------------------------ MODULE HttpGate ------------------------------
(***************************************************************************)
(* Who may do what over HTTP (ravn-server api.rs, auth.rs, state.rs): the  *)
(* middleware that resolves a bearer to a role, the ingest endpoint with   *)
(* its token bucket and its two ways of checking a ServiceAccount token,   *)
(* one of them a call to the cluster during which other requests run.      *)
(*                                                                         *)
(* A bearer is a static token, or a JWT reduced to what the checks read:   *)
(* whether its signature, issuer, audience and expiry pass for users or    *)
(* for the cluster, and its claim of groups. A group is a sequence of      *)
(* words: a claim that is a string is split into its words, an item of a   *)
(* claim that is an array is not.                                          *)
(***************************************************************************)
EXTENDS Naturals, Sequences, FiniteSets, SequencesExt

CONSTANTS
  Configs,     \* settings the server may be started with
  Bearers,     \* what callers of /ingest may present
  Requests,    \* [path, method, header, query], the last two bearers or NoBearer
  Clients,     \* concurrent callers of /ingest
  BucketSize, Refill,     \* rate_limit_capacity, rate_limit_refill_rate per tick
  MaxClock, MaxRequests   \* bounds

ASSUME HttpGateAssumption ==
  /\ BucketSize \in Nat \ {0} /\ Refill \in Nat /\ MaxClock \in Nat /\ MaxRequests \in Nat
  /\ Configs \subseteq [adminToken : BOOLEAN, viewerToken : BOOLEAN, oidc : BOOLEAN, jwks : BOOLEAN,
                 review : BOOLEAN, adminGroup : STRING, viewerGroup : STRING]

VARIABLES
  config,
  clock,     \* Instant::now()
  tokens,    \* TokenBucket.tokens
  refilled,  \* TokenBucket.last_refill
  caller,    \* per client what its ingest request waits for
  admitted,  \* history: the last request that reached its handler
  persisted, \* history: the last bearer whose message was persisted
  grants,    \* history: when the bucket said yes
  served     \* requests so far

hgVars == <<config, clock, tokens, refilled, caller, admitted, persisted, grants, served>>

NoBearer == [kind |-> "none", goodFor |-> {}, claim |-> "none", words |-> <<>>]
NoRequest == [path |-> "/health", method |-> "GET", header |-> NoBearer, query |-> NoBearer]

HgInit ==
  /\ config \in Configs
  /\ clock = 0 /\ tokens = BucketSize /\ refilled = 0
  /\ caller = [c \in Clients |-> NoBearer]
  /\ admitted = NoRequest /\ persisted = NoBearer /\ grants = <<>> /\ served = 0

HgTick == clock < MaxClock /\ clock' = clock + 1
          /\ UNCHANGED <<config, tokens, refilled, caller, admitted, persisted, grants, served>>

-----------------------------------------------------------------------------
(* auth.rs *)

\* verify: kid in the JWKS, RS256 signature, issuer, audience, expiry.
Verify(bearer, audience) == bearer.kind = "jwt" /\ audience \in bearer.goodFor

\* extract_groups
Groups(bearer) ==
  IF bearer.claim = "text" THEN {<<w>> : w \in Range(bearer.words)}
  ELSE IF bearer.claim = "list" THEN {bearer.words} ELSE {}

\* UserAuth::authorize, of a bearer that verifies.
UserRole(bearer) ==
  IF config.adminGroup # "none" /\ <<config.adminGroup>> \in Groups(bearer) THEN "admin"
  ELSE IF config.viewerGroup = "none" \/ <<config.viewerGroup>> \in Groups(bearer) THEN "viewer"
  ELSE "nobody"

\* IngestAuth::validate
LocallyValid(bearer) == config.jwks /\ Verify(bearer, "cluster")

-----------------------------------------------------------------------------
(* api.rs: auth_mw *)

AuthEnabled == config.adminToken \/ config.viewerToken \/ config.oidc
PublicPaths == {"/ready", "/metrics", "/enroll", "/ingest", "/auth/config", "/api/system/health"}
\* The router merges these outside of the middleware.
UngatedPaths == {"/health", "/openapi.json"}
SafeMethods == {"GET", "HEAD"}

\* Both are routes of GET alone: another method is a 405 and reaches no handler.
ASSUME UngatedAssumption == \A r \in Requests : r.path \in UngatedPaths => r.method \in SafeMethods

\* The Authorization header before the access_token of the query.
Bearer(r) == IF r.header # NoBearer THEN r.header ELSE r.query

\* role_for, then authorize; "invalid" when neither knows the bearer.
Role(bearer) ==
  IF config.adminToken /\ bearer.kind = "admin" THEN "admin"
  ELSE IF config.viewerToken /\ bearer.kind = "viewer" THEN "viewer"
  ELSE IF config.oidc /\ Verify(bearer, "user") THEN UserRole(bearer)
  ELSE "invalid"

\* (mutation of Authorized: any role may use any method)
AuthorizedAll(method, role) == role \in {"admin", "viewer"}

Authorized(method, role) == role = "admin" \/ (role = "viewer" /\ method \in SafeMethods)

\* The middleware, up to the handler.
Passes(r) ==
  \/ ~AuthEnabled \/ r.path \in PublicPaths \cup UngatedPaths
  \/ Bearer(r) # NoBearer /\ Authorized(r.method, Role(Bearer(r)))

Request(r) ==
  /\ served < MaxRequests /\ served' = served + 1
  /\ admitted' = IF Passes(r) THEN r ELSE admitted
  /\ UNCHANGED <<config, clock, tokens, refilled, caller, persisted, grants>>

-----------------------------------------------------------------------------
(* state.rs: TokenBucket::consume, and api.rs: ingest *)

Lesser(a, b) == IF a < b THEN a ELSE b

Refilled == Lesser(tokens + (clock - refilled) * Refill, BucketSize)

\* Under the limiter's lock, before anything else is looked at; refused with a 429, or
\* the rest: 404 when ingest is off, 401 without a bearer, the local check, and where
\* that fails a TokenReview.
IngestRequest(c, bearer) ==
  /\ caller[c] = NoBearer
  /\ served < MaxRequests /\ served' = served + 1
  /\ refilled' = clock
  /\ IF Refilled < 1
     THEN tokens' = Refilled /\ UNCHANGED <<grants, persisted, caller>>
     ELSE LET enabled == config.jwks \/ config.review
              local == bearer # NoBearer /\ LocallyValid(bearer) IN
          /\ tokens' = Refilled - 1
          /\ grants' = Append(grants, clock)
          /\ persisted' = IF enabled /\ local THEN bearer ELSE persisted
          /\ caller' = [caller EXCEPT ![c] =
               IF bearer # NoBearer /\ config.review /\ ~local THEN bearer ELSE NoBearer]
  /\ UNCHANGED <<config, clock, admitted>>

\* TokenReviewValidator::validate: the cluster answers, or does not.
TokenReviewed(c) ==
  /\ caller[c] # NoBearer
  /\ caller' = [caller EXCEPT ![c] = NoBearer]
  /\ \/ /\ caller[c].kind = "jwt" /\ "cluster" \in caller[c].goodFor
        /\ persisted' = caller[c]
     \/ UNCHANGED persisted
  /\ UNCHANGED <<config, clock, tokens, refilled, admitted, grants, served>>

HgNext ==
  \/ HgTick
  \/ \E r \in Requests : Request(r)
  \/ \E c \in Clients : TokenReviewed(c) \/ \E b \in Bearers \cup {NoBearer} : IngestRequest(c, b)

-----------------------------------------------------------------------------
(* Properties *)

\* A caller who may decide: it presented the admin token, or a user token that is good
\* and whose groups, split or listed, name the admin group.
Trusted(r) ==
  \E b \in {r.header, r.query} \ {NoBearer} :
    \/ b.kind = "admin" /\ config.adminToken
    \/ /\ b.kind = "jwt" /\ "user" \in b.goodFor
       /\ \E n \in DOMAIN b.words : b.words[n] = config.adminGroup
       /\ b.claim = "list" => Len(b.words) = 1

\* With authentication on, no request that mutates reaches a handler (approve, reject,
\* labels, deletion, results, settings) but an admin's, and nothing is persisted over
\* HTTP for a bearer that is not the cluster's.
AdmittedIsEarned ==
  /\ AuthEnabled /\ admitted.method \notin SafeMethods /\ admitted.path \notin PublicPaths
       => Trusted(admitted)
  /\ persisted # NoBearer => "cluster" \in persisted.goodFor /\ (config.jwks \/ config.review)

\* In no interval does the bucket say yes more often than a full bucket and what
\* flowed in meanwhile allow.
IngestIsBounded ==
  \A i, j \in DOMAIN grants : i <= j =>
    (j - i) + 1 <= BucketSize + (grants[j] - grants[i]) * Refill
=============================================================================
