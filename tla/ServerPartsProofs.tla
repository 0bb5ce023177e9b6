------------------------- MODULE ServerPartsProofs -------------------------
(***************************************************************************)
(* Proofs about parts of the control plane that share no state, each with  *)
(* the specification that lets its own next-state relation run: the gate   *)
(* and the MCP server in front of it (HttpGate, McpBridge), the registry   *)
(* of agents (FleetRegistry) and the live feed (LiveFeed).                 *)
(***************************************************************************)
EXTENDS FleetRegistry, LiveFeed, McpBridge, SequenceTheorems, TLAPS

-----------------------------------------------------------------------------
(* HttpGate and McpBridge *)

\* Requests of any caller, and the lines of the MCP server, in any order.
GateNext == (HgNext /\ UNCHANGED mcpVars) \/ (McpNext /\ UNCHANGED hgVars)
GateSpec == HgInit /\ McpInit /\ [][GateNext]_<<hgVars, mcpVars>>

GateTypeOK ==
  /\ config \in Configs
  /\ clock \in Nat /\ refilled \in Nat /\ refilled <= clock
  /\ tokens \in Nat /\ tokens <= BucketSize
  /\ grants \in Seq(Nat)

\* Who waits for a TokenReview waits because there is one.
CallersOK == DOMAIN caller = Clients /\ \A c \in Clients : caller[c] # NoBearer => config.review

\* What is left in the bucket counts with the grants since any one of them.
BucketOK ==
  \A i \in 1..Len(grants) :
    /\ grants[i] <= refilled
    /\ (Len(grants) - i) + 1 + tokens <= BucketSize + (refilled - grants[i]) * Refill

HgInv == GateTypeOK /\ CallersOK /\ BucketOK /\ AdmittedIsEarned /\ IngestIsBounded

Calls == [stage : {"sent", "served"}, id : Nat, tool : ReadTools \cup MutatingTools,
          limit : 1..MaxEventLimit, ok : BOOLEAN]

McpTypeOK ==
  /\ bridge.mutations \in BOOLEAN
  /\ call \in Calls \cup {NoCall}
  /\ lines \in [read : Nat, asked : Nat]
  /\ stdout.id \in Nat /\ replied \in Nat
  /\ byBridge \subseteq 1..lines.asked

\* The call in hand is the last request read, one the bridge lets through; it has
\* changed the proposal exactly when it was served and said so.
CallOK ==
  call # NoCall =>
    /\ call.id = lines.asked /\ lines.asked = replied + 1
    /\ ~Refused(call.tool, TRUE)
    /\ call.stage = "sent" => call.id \notin byBridge
    /\ call.stage = "served" /\ call.tool \in MutatingTools => (call.ok <=> call.id \in byBridge)

\* A reply to no request names no tool.
NullReplyOK == stdout.id = 0 => stdout.tool = "none"

McpInv == McpTypeOK /\ CallOK /\ NullReplyOK /\ RepliesAreTrue /\ BridgeAddsNoRights

GateInv == HgInv /\ McpInv

\* With authentication on, a request that mutates and passes the middleware on a path
\* it guards is an admin's.
LEMMA PassesIsTrusted ==
  ASSUME NEW r, Passes(r), AuthEnabled, r.path \notin PublicPaths \cup UngatedPaths,
         r.method \notin SafeMethods
  PROVE  Trusted(r)
<1> DEFINE b == Bearer(r)
<1>1. b # NoBearer /\ Authorized(r.method, Role(b))
  BY DEF Passes
<1>2. b \in {r.header, r.query} \ {NoBearer}
  BY <1>1 DEF Bearer
<1>3. Role(b) = "admin"
  BY <1>1 DEF Authorized
<1> HIDE DEF b
<1>4. CASE config.adminToken /\ b.kind = "admin"
  BY <1>2, <1>4 DEF Trusted
<1>5. CASE ~(config.adminToken /\ b.kind = "admin")
  <2>1. Verify(b, "user") /\ UserRole(b) = "admin"
    BY <1>3, <1>5 DEF Role
  <2>2. b.kind = "jwt" /\ "user" \in b.goodFor /\ <<config.adminGroup>> \in Groups(b)
    BY <2>1 DEF Verify, UserRole
  <2>3. CASE b.claim = "text"
    <3>1. PICK w \in Range(b.words) : <<config.adminGroup>> = <<w>>
      BY <2>2, <2>3 DEF Groups
    <3>2. w = config.adminGroup
      BY <3>1
    <3>3. \E n \in DOMAIN b.words : b.words[n] = config.adminGroup
      BY <3>1, <3>2 DEF Range
    <3> QED BY <1>2, <2>2, <2>3, <3>3 DEF Trusted
  <2>4. CASE b.claim = "list"
    <3>1. b.words = <<config.adminGroup>>
      BY <2>2, <2>4 DEF Groups
    <3>2. Len(b.words) = 1 /\ 1 \in DOMAIN b.words /\ b.words[1] = config.adminGroup
      BY <3>1
    <3> QED BY <1>2, <2>2, <3>2 DEF Trusted
  <2>5. b.claim = "text" \/ b.claim = "list"
    BY <2>2 DEF Groups
  <2> QED BY <2>3, <2>4, <2>5
<1> QED BY <1>4, <1>5

\* Sums of refills.
LEMMA RefillsAdd ==
  ASSUME NEW a \in Nat, NEW b \in Nat, NEW c \in Nat, a <= b, b <= c
  PROVE  /\ (b - a) * Refill + (c - b) * Refill = (c - a) * Refill
         /\ (b - a) * Refill \in Nat /\ (c - b) * Refill \in Nat /\ (c - a) * Refill \in Nat
<1>1. Refill \in Nat
  BY HttpGateAssumption
<1>2. \A x, y, z \in Nat : x * z + y * z = (x + y) * z /\ x * z \in Nat
  OBVIOUS
<1>3. b - a \in Nat /\ c - b \in Nat /\ c - a \in Nat /\ (b - a) + (c - b) = c - a
  OBVIOUS
<1> QED BY <1>1, <1>2, <1>3

\* A full bucket, and nobody admitted.
LEMMA HgInitInv == HgInit => HgInv
<1> SUFFICES ASSUME HgInit PROVE HgInv
  OBVIOUS
<1>1. GateTypeOK /\ CallersOK
  BY HttpGateAssumption, EmptySeq DEF HgInit, GateTypeOK, CallersOK
<1>2. BucketOK /\ IngestIsBounded
  BY EmptySeq DEF HgInit, BucketOK, IngestIsBounded
<1>3. AdmittedIsEarned
  BY DEF HgInit, AdmittedIsEarned, NoRequest, SafeMethods
<1> QED BY <1>1, <1>2, <1>3 DEF HgInv

\* A step that leaves alone what Trusted and the bucket read.
LEMMA HgStutter == ASSUME HgInv, UNCHANGED hgVars PROVE HgInv'
  BY DEF HgInv, hgVars, GateTypeOK, CallersOK, BucketOK, AdmittedIsEarned, AuthEnabled, Trusted,
         IngestIsBounded

\* Time passes.
LEMMA HgTickInv == ASSUME HgInv, HgTick PROVE HgInv'
<1>1. clock' = clock + 1 /\ UNCHANGED <<config, tokens, refilled, caller, admitted, persisted, grants, served>>
  BY DEF HgTick
<1>2. GateTypeOK' /\ CallersOK' /\ BucketOK' /\ IngestIsBounded'
  BY <1>1 DEF HgInv, GateTypeOK, CallersOK, BucketOK, IngestIsBounded
<1>3. AdmittedIsEarned'
  BY <1>1 DEF HgInv, AdmittedIsEarned, AuthEnabled, Trusted
<1> QED BY <1>2, <1>3 DEF HgInv

\* A request reaches its handler or does not.
LEMMA RequestInv == ASSUME HgInv, NEW r \in Requests, Request(r) PROVE HgInv'
<1>1. /\ admitted' = IF Passes(r) THEN r ELSE admitted
      /\ UNCHANGED <<config, clock, tokens, refilled, caller, persisted, grants>>
  BY DEF Request
<1>2. GateTypeOK' /\ CallersOK' /\ BucketOK' /\ IngestIsBounded'
  BY <1>1 DEF HgInv, GateTypeOK, CallersOK, BucketOK, IngestIsBounded
<1>3. AdmittedIsEarned'
  <2>0. AdmittedIsEarned /\ AuthEnabled' = AuthEnabled
    BY <1>1 DEF HgInv, AuthEnabled
  <2>1. CASE ~Passes(r)
    BY <1>1, <2>0, <2>1 DEF AdmittedIsEarned, Trusted
  <2>2. CASE Passes(r)
    <3>1. AuthEnabled /\ r.method \notin SafeMethods /\ r.path \notin PublicPaths => Trusted(r)
      BY <2>2, UngatedAssumption, PassesIsTrusted
    <3> QED BY <1>1, <2>0, <2>2, <3>1 DEF AdmittedIsEarned, Trusted
  <2> QED BY <2>1, <2>2
<1> QED BY <1>2, <1>3 DEF HgInv

\* The bucket, asked: it is refilled up to its size, and gives one token or none.
LEMMA ConsumeInv ==
  ASSUME GateTypeOK, BucketOK, IngestIsBounded, UNCHANGED <<config, clock>>,
         refilled' = clock,
         \/ tokens' = Refilled /\ grants' = grants
         \/ Refilled >= 1 /\ tokens' = Refilled - 1 /\ grants' = Append(grants, clock)
  PROVE  GateTypeOK' /\ BucketOK' /\ IngestIsBounded'
<1> DEFINE n == Len(grants)
           w == (clock - refilled) * Refill
<1>1. /\ clock \in Nat /\ refilled \in Nat /\ refilled <= clock /\ tokens \in Nat
      /\ tokens <= BucketSize /\ BucketSize \in Nat \ {0} /\ Refill \in Nat
      /\ grants \in Seq(Nat) /\ n \in Nat /\ config \in Configs
  BY HttpGateAssumption, LenProperties DEF GateTypeOK
<1>2. w \in Nat
  BY <1>1, RefillsAdd
<1>3. Refilled \in Nat /\ Refilled <= BucketSize /\ Refilled <= tokens + w
  BY <1>1, <1>2 DEF Refilled, Lesser
<1>4. \A i \in 1..n : grants[i] \in Nat /\ grants[i] <= refilled
  BY <1>1, ElementOfSeq DEF BucketOK
<1>5. ASSUME NEW i \in 1..n
      PROVE  /\ (n - i) + 1 + Refilled <= BucketSize + (clock - grants[i]) * Refill
             /\ (clock - grants[i]) * Refill \in Nat /\ grants[i] <= clock
  <2> DEFINE u == (refilled - grants[i]) * Refill
             v == (clock - grants[i]) * Refill
  <2>1. u + w = v /\ u \in Nat /\ v \in Nat
    BY <1>1, <1>4, RefillsAdd
  <2>2. (n - i) + 1 + tokens <= BucketSize + u
    BY DEF BucketOK
  <2>3. grants[i] <= clock
    BY <1>1, <1>4
  <2>4. Refilled \in Nat /\ Refilled <= tokens + w
    BY <1>3
  <2> HIDE DEF u, v, w, n
  <2>5. n - i \in Int
    BY <1>1
  <2> QED BY <1>1, <1>2, <2>1, <2>2, <2>3, <2>4, <2>5 DEF v, n
<1> HIDE DEF w
<1>6. CASE tokens' = Refilled /\ grants' = grants
  <2>1. GateTypeOK'
    BY <1>1, <1>3, <1>6 DEF GateTypeOK
  <2>2. BucketOK'
    BY <1>5, <1>6 DEF BucketOK
  <2>3. IngestIsBounded'
    BY <1>6 DEF IngestIsBounded
  <2> QED BY <2>1, <2>2, <2>3
<1>7. CASE Refilled >= 1 /\ tokens' = Refilled - 1 /\ grants' = Append(grants, clock)
  <2>1. /\ grants' \in Seq(Nat) /\ Len(grants') = n + 1 /\ grants'[n + 1] = clock
        /\ \A i \in 1..n : grants'[i] = grants[i]
        /\ DOMAIN grants' = 1..(n + 1) /\ DOMAIN grants = 1..n
    BY <1>1, <1>7, AppendProperties, LenProperties
  <2>a. Refilled >= 1 /\ tokens' = Refilled - 1 /\ refilled' = clock
    BY <1>7
  <2>2. GateTypeOK'
    BY <1>1, <1>3, <2>a, <2>1 DEF GateTypeOK
  <2>z. (clock - clock) * Refill = 0
    BY <1>1
  <2>3. BucketOK'
    <3> SUFFICES ASSUME NEW i \in 1..(n + 1)
                 PROVE  /\ grants'[i] <= clock
                        /\ (n + 1 - i) + 1 + (Refilled - 1) <= BucketSize + (clock - grants'[i]) * Refill
      BY <2>a, <2>1 DEF BucketOK
    <3>1. CASE i = n + 1
      BY <1>1, <1>3, <2>1, <2>z, <3>1
    <3>2. CASE i \in 1..n
      <4>1. grants'[i] = grants[i] /\ grants[i] <= clock
        BY <3>2, <2>1, <1>5
      <4> DEFINE v == (clock - grants[i]) * Refill
      <4>2. (n - i) + 1 + Refilled <= BucketSize + v /\ v \in Nat
        BY <3>2, <1>5
      <4> HIDE DEF v, n
      <4>3. (n + 1 - i) + 1 + (Refilled - 1) <= BucketSize + v
        BY <4>2, <1>1, <1>3 DEF n
      <4> QED BY <4>1, <4>3 DEF v
    <3> QED BY <3>1, <3>2, <1>1
  <2>4. IngestIsBounded'
    <3> SUFFICES ASSUME NEW i \in 1..(n + 1), NEW j \in 1..(n + 1), i <= j
                 PROVE  (j - i) + 1 <= BucketSize + (grants'[j] - grants'[i]) * Refill
      BY <2>1 DEF IngestIsBounded
    <3>1. CASE j \in 1..n
      <4>1. i \in 1..n
        BY <3>1, <1>1
      <4> QED BY <3>1, <4>1, <2>1 DEF IngestIsBounded
    <3>2. CASE j = n + 1 /\ i = n + 1
      BY <3>2, <2>1, <2>z, <1>1
    <3>3. CASE j = n + 1 /\ i \in 1..n
      <4> DEFINE v == (clock - grants[i]) * Refill
      <4>1. (n - i) + 1 + Refilled <= BucketSize + v /\ v \in Nat
        BY <3>3, <1>5
      <4>2. (grants'[j] - grants'[i]) * Refill = v
        BY <3>3, <2>1
      <4> HIDE DEF v
      <4>3. (j - i) + 1 <= BucketSize + v
        BY <3>3, <4>1, <1>1, <1>3, <1>7
      <4> QED BY <4>2, <4>3
    <3> QED BY <3>1, <3>2, <3>3, <1>1
  <2> QED BY <2>2, <2>3, <2>4
<1> QED BY <1>6, <1>7

\* The ingest endpoint: the bucket first, then the two ways of checking a token.
LEMMA IngestRequestInv ==
  ASSUME HgInv, NEW c \in Clients, NEW b, IngestRequest(c, b)
  PROVE  HgInv'
<1>0. GateTypeOK /\ CallersOK /\ BucketOK /\ AdmittedIsEarned /\ IngestIsBounded
  BY DEF HgInv
<1> DEFINE local == b # NoBearer /\ LocallyValid(b)
<1>1. /\ refilled' = clock /\ UNCHANGED <<config, clock, admitted>>
      /\ \/ Refilled < 1 /\ tokens' = Refilled /\ UNCHANGED <<grants, persisted, caller>>
         \/ /\ ~(Refilled < 1) /\ tokens' = Refilled - 1 /\ grants' = Append(grants, clock)
            /\ persisted' = IF (config.jwks \/ config.review) /\ local THEN b ELSE persisted
            /\ caller' = [caller EXCEPT ![c] =
                 IF b # NoBearer /\ config.review /\ ~local THEN b ELSE NoBearer]
  BY DEF IngestRequest
<1>2. Refilled \in Int
  <2>1. /\ clock \in Nat /\ refilled \in Nat /\ tokens \in Nat /\ BucketSize \in Nat /\ Refill \in Nat
    BY <1>0, HttpGateAssumption DEF GateTypeOK
  <2> QED BY <2>1 DEF Refilled, Lesser
<1>3. GateTypeOK' /\ BucketOK' /\ IngestIsBounded'
  <2>1. \/ tokens' = Refilled /\ grants' = grants
        \/ Refilled >= 1 /\ tokens' = Refilled - 1 /\ grants' = Append(grants, clock)
    BY <1>1, <1>2
  <2> QED BY <2>1, <1>0, <1>1, ConsumeInv
<1>4. CallersOK'
  <2>1. \/ caller' = caller
        \/ \E x : caller' = [caller EXCEPT ![c] = x] /\ (x # NoBearer => config.review)
    BY <1>1
  <2> QED BY <2>1, <1>0, <1>1 DEF CallersOK
<1>5. local => "cluster" \in b.goodFor /\ config.jwks
  BY DEF LocallyValid, Verify
<1> HIDE DEF local
<1>6. AdmittedIsEarned'
  <2>1. (AuthEnabled /\ admitted.method \notin SafeMethods /\ admitted.path \notin PublicPaths
           => Trusted(admitted))'
    BY <1>0, <1>1 DEF AdmittedIsEarned, AuthEnabled, Trusted
  <2>2. (persisted # NoBearer => "cluster" \in persisted.goodFor /\ (config.jwks \/ config.review))'
    BY <1>0, <1>1, <1>5 DEF AdmittedIsEarned
  <2> QED BY <2>1, <2>2 DEF AdmittedIsEarned
<1> QED BY <1>3, <1>4, <1>6 DEF HgInv

\* The cluster answers, or does not.
LEMMA TokenReviewedInv == ASSUME HgInv, NEW c \in Clients, TokenReviewed(c) PROVE HgInv'
<1>0. GateTypeOK /\ CallersOK /\ BucketOK /\ AdmittedIsEarned /\ IngestIsBounded
  BY DEF HgInv
<1>1. /\ caller[c] # NoBearer /\ caller' = [caller EXCEPT ![c] = NoBearer]
      /\ \/ "cluster" \in caller[c].goodFor /\ persisted' = caller[c]
         \/ persisted' = persisted
      /\ UNCHANGED <<config, clock, tokens, refilled, admitted, grants, served>>
  BY DEF TokenReviewed
<1>2. GateTypeOK' /\ CallersOK' /\ BucketOK' /\ IngestIsBounded'
  BY <1>0, <1>1 DEF GateTypeOK, CallersOK, BucketOK, IngestIsBounded
<1>3. (AuthEnabled /\ admitted.method \notin SafeMethods /\ admitted.path \notin PublicPaths
         => Trusted(admitted))'
  BY <1>0, <1>1 DEF AdmittedIsEarned, AuthEnabled, Trusted
<1>4. config.review
  BY <1>0, <1>1 DEF CallersOK
<1>5. (persisted # NoBearer => "cluster" \in persisted.goodFor /\ (config.jwks \/ config.review))'
  BY <1>0, <1>1, <1>4 DEF AdmittedIsEarned
<1> QED BY <1>2, <1>3, <1>5 DEF HgInv, AdmittedIsEarned

\* Every step of the gate keeps its invariant.
LEMMA HgStep == ASSUME HgInv, HgNext PROVE HgInv'
  BY HgTickInv, RequestInv, IngestRequestInv, TokenReviewedInv DEF HgNext

\* A limit is cast, then clamped: it is one of the allowed ones.
LEMMA LimitsAreClamped ==
  ASSUME NEW tool, NEW given \in {{}} \cup {{n} : n \in Limits}
  PROVE  AskedLimit(tool, given) \in 1..MaxEventLimit
<1>1. /\ MaxEventLimit \in Nat \ {0} /\ DefaultLimit \in 1..MaxEventLimit
      /\ Limits \subseteq Nat /\ 2 ^ LimitWidth \in Nat \ {0}
  BY BridgeAssumption
<1>2. \A n \in Limits : ClampLimit(n) \in 1..MaxEventLimit
  <2> SUFFICES ASSUME NEW n \in Limits PROVE ClampLimit(n) \in 1..MaxEventLimit
    OBVIOUS
  <2> DEFINE cast == n % (2 ^ LimitWidth)
  <2>1. cast \in Nat
    <3>1. \A d \in Nat \ {0} : n % d \in Nat
      BY <1>1
    <3> QED BY <3>1, <1>1
  <2> HIDE DEF cast
  <2>2. (IF cast < 1 THEN 1 ELSE Lesser(cast, MaxEventLimit)) \in 1..MaxEventLimit
    BY <2>1, <1>1 DEF Lesser
  <2> QED BY <2>2 DEF ClampLimit, cast
<1> DEFINE m == CHOOSE n \in given : TRUE
<1>3. given # {} => m \in Limits
  OBVIOUS
<1>4. AskedLimit(tool, given) =
        IF tool = "get_event" THEN MaxEventLimit ELSE IF given = {} THEN DefaultLimit ELSE ClampLimit(m)
  BY DEF AskedLimit
<1> HIDE DEF m
<1>5. given # {} => ClampLimit(m) \in 1..MaxEventLimit
  BY <1>2, <1>3
<1> QED BY <1>1, <1>4, <1>5

\* What the bridge lets through is what it advertises.
LEMMA CatalogIsTrue ==
  ASSUME NEW tool \in ReadTools \cup MutatingTools
  PROVE  tool \in ToolCatalog <=> ~Refused(tool, TRUE)
  BY DEF ToolCatalog, Refused, ReadTools, MutatingTools, ChecksArguments

\* The bridge starts with nothing read and nothing answered.
LEMMA McpInitInv == McpInit => McpInv
<1> SUFFICES ASSUME McpInit PROVE McpInv
  OBVIOUS
<1>1. McpTypeOK /\ CallOK /\ NullReplyOK
  BY DEF McpInit, McpTypeOK, CallOK, NullReplyOK
<1>2. RepliesAreTrue
  BY DEF McpInit, RepliesAreTrue, MutatingTools
<1>3. BridgeAddsNoRights
  BY CatalogIsTrue DEF McpInit, BridgeAddsNoRights
<1> QED BY <1>1, <1>2, <1>3 DEF McpInv

\* The gate's steps change nothing the bridge's invariant reads.
LEMMA McpStutter == ASSUME McpInv, UNCHANGED <<mcpVars, config>> PROVE McpInv'
<1>1. UNCHANGED <<bridge, proposal, call, lines, stdout, replied, byBridge, config>>
  BY DEF mcpVars
<1>2. McpTypeOK' /\ CallOK' /\ NullReplyOK' /\ RepliesAreTrue'
  BY <1>1 DEF McpInv, McpTypeOK, CallOK, NullReplyOK, RepliesAreTrue, Refused
<1>3. BridgeAddsNoRights'
  BY <1>1 DEF McpInv, BridgeAddsNoRights, Trusted, AuthEnabled, BridgeRequest, ToolCatalog, Refused
<1> QED BY <1>2, <1>3 DEF McpInv

\* What the bridge has decided stays within its rights by a step that decides nothing.
LEMMA RightsStay ==
  ASSUME BridgeAddsNoRights, UNCHANGED <<bridge, byBridge, config>>
  PROVE  BridgeAddsNoRights'
  BY DEF BridgeAddsNoRights, Trusted, AuthEnabled, BridgeRequest, ToolCatalog, Refused

\* A line without a call: malformed, a notification, answered or refused here.
LEMMA LineInv ==
  ASSUME McpInv, UNCHANGED <<config, bridge, proposal, call, byBridge>>,
         \/ ReadLine(FALSE) /\ Write(0, "none", "parse_error")
         \/ ReadLine(FALSE) /\ UNCHANGED <<stdout, replied>>
         \/ \E tool, outcome : ReadLine(TRUE) /\ Write(lines'.asked, tool, outcome) /\ outcome # "done"
  PROVE  McpInv'
<1>0. McpTypeOK /\ CallOK /\ NullReplyOK /\ RepliesAreTrue /\ BridgeAddsNoRights
  BY DEF McpInv
<1>1. /\ call = NoCall /\ call' = NoCall /\ replied = lines.asked
      /\ lines.asked \in Nat /\ lines.read \in Nat /\ replied \in Nat /\ byBridge \subseteq 1..lines.asked
  BY <1>0 DEF ReadLine, McpTypeOK, RepliesAreTrue
<1>2. BridgeAddsNoRights'
  BY <1>0, RightsStay
<1>3. CASE ReadLine(FALSE) /\ Write(0, "none", "parse_error")
  <2>1. /\ lines' \in [read : Nat, asked : Nat] /\ lines'.asked = lines.asked
        /\ stdout'.id = 0 /\ stdout'.tool = "none" /\ replied' = replied
    BY <1>1, <1>3 DEF ReadLine, Write
  <2>2. McpTypeOK' /\ CallOK' /\ NullReplyOK'
    BY <1>0, <1>1, <2>1 DEF McpTypeOK, CallOK, NullReplyOK
  <2>3. RepliesAreTrue'
    BY <1>1, <2>1 DEF RepliesAreTrue, MutatingTools
  <2> QED BY <1>2, <2>2, <2>3 DEF McpInv
<1>4. CASE ReadLine(FALSE) /\ UNCHANGED <<stdout, replied>>
  <2>1. lines' \in [read : Nat, asked : Nat] /\ lines'.asked = lines.asked
    BY <1>1, <1>4 DEF ReadLine
  <2>2. McpTypeOK' /\ CallOK' /\ NullReplyOK'
    BY <1>0, <1>1, <1>4, <2>1 DEF McpTypeOK, CallOK, NullReplyOK
  <2>3. RepliesAreTrue'
    BY <1>0, <1>1, <1>4, <2>1 DEF RepliesAreTrue
  <2> QED BY <1>2, <2>2, <2>3 DEF McpInv
<1>5. ASSUME NEW tool, NEW outcome, ReadLine(TRUE), Write(lines'.asked, tool, outcome), outcome # "done"
      PROVE  McpInv'
  <2>1. /\ lines' \in [read : Nat, asked : Nat] /\ lines'.asked = lines.asked + 1
        /\ stdout' = [id |-> lines.asked + 1, tool |-> tool, outcome |-> outcome]
        /\ replied' = replied + 1
    BY <1>1, <1>5 DEF ReadLine, Write
  <2>2. stdout'.id = lines.asked + 1 /\ stdout'.outcome # "done" /\ lines.asked + 1 \notin byBridge
    BY <1>1, <1>5, <2>1
  <2>3. McpTypeOK' /\ CallOK' /\ NullReplyOK'
    BY <1>0, <1>1, <2>1, <2>2 DEF McpTypeOK, CallOK, NullReplyOK
  <2>4. RepliesAreTrue'
    BY <1>1, <2>1, <2>2 DEF RepliesAreTrue
  <2> QED BY <1>2, <2>3, <2>4 DEF McpInv
<1> QED BY <1>3, <1>4, <1>5

\* A call begins: its id is new, and its limit clamped.
LEMMA StartCallInv ==
  ASSUME McpInv, UNCHANGED config, NEW tool \in ReadTools \cup MutatingTools \cup {"other"},
         NEW given \in {{}} \cup {{n} : n \in Limits}, StartCall(tool, given)
  PROVE  McpInv'
<1>0. McpTypeOK /\ CallOK /\ NullReplyOK /\ RepliesAreTrue /\ BridgeAddsNoRights
  BY DEF McpInv
<1> DEFINE lim == AskedLimit(tool, given)
<1>1. /\ ~Refused(tool, TRUE) /\ call = NoCall
      /\ lines' = [read |-> lines.read + 1, asked |-> lines.asked + 1]
      /\ call' = [stage |-> "sent", id |-> lines'.asked, tool |-> tool, limit |-> lim, ok |-> FALSE]
      /\ UNCHANGED <<bridge, proposal, stdout, replied, byBridge>>
  BY DEF StartCall, ReadLine
<1>2. /\ replied = lines.asked /\ lines.asked \in Nat /\ lines.read \in Nat /\ replied \in Nat
      /\ byBridge \subseteq 1..lines.asked
  BY <1>0, <1>1 DEF McpTypeOK, RepliesAreTrue
<1>3. lim \in 1..MaxEventLimit
  BY LimitsAreClamped
<1>4. tool \in ReadTools \cup MutatingTools
  BY <1>1 DEF Refused
<1> HIDE DEF lim
<1>5. /\ lines'.asked = lines.asked + 1 /\ lines' \in [read : Nat, asked : Nat]
      /\ call' \in Calls /\ call' # NoCall /\ call'.id = lines.asked + 1 /\ call'.tool = tool
      /\ call'.stage = "sent" /\ call'.limit = lim
  BY <1>1, <1>2, <1>3, <1>4 DEF Calls, NoCall
<1>6. McpTypeOK' /\ NullReplyOK'
  BY <1>0, <1>1, <1>2, <1>5 DEF McpTypeOK, NullReplyOK
<1>7. CallOK'
  BY <1>1, <1>2, <1>5 DEF CallOK, Refused
<1>8. RepliesAreTrue'
  BY <1>0, <1>1, <1>2, <1>3, <1>5 DEF RepliesAreTrue
<1>9. BridgeAddsNoRights'
  BY <1>0, <1>1, RightsStay
<1> QED BY <1>6, <1>7, <1>8, <1>9 DEF McpInv

\* The control plane serves the call: it decides only with the rights of the token.
LEMMA ServeCallInv == ASSUME McpInv, UNCHANGED hgVars, ServeCall PROVE McpInv'
<1>0. McpTypeOK /\ CallOK /\ NullReplyOK /\ RepliesAreTrue /\ BridgeAddsNoRights
  BY DEF McpInv
<1> DEFINE ok == Passes(BridgeRequest(call.tool)) /\ Takes(call.tool)
           decides == ok /\ call.tool \in MutatingTools
<1>1. /\ call # NoCall /\ call.stage = "sent"
      /\ byBridge' = IF decides THEN byBridge \cup {call.id} ELSE byBridge
      /\ call' = [call EXCEPT !.stage = "served", !.ok = ok]
      /\ UNCHANGED <<bridge, lines, stdout, replied>>
  BY DEF ServeCall
<1>2. /\ call \in Calls /\ call.id = lines.asked /\ lines.asked = replied + 1
      /\ lines.asked \in Nat /\ replied \in Nat /\ stdout.id \in Nat /\ byBridge \subseteq 1..lines.asked
      /\ call.id \notin byBridge /\ ~Refused(call.tool, TRUE)
  BY <1>0, <1>1 DEF McpTypeOK, CallOK
<1>3. ok \in BOOLEAN
  BY DEF Passes, Takes
<1>4. decides => bridge.mutations /\ (AuthEnabled => Trusted(BridgeRequest("approve_remediation")))
  <2> SUFFICES ASSUME decides
               PROVE  bridge.mutations /\ (AuthEnabled => Trusted(BridgeRequest("approve_remediation")))
    OBVIOUS
  <2>1. bridge.mutations
    BY <1>0, <1>2 DEF Refused, McpTypeOK
  <2> DEFINE r == BridgeRequest("approve_remediation")
  <2>2. BridgeRequest(call.tool) = r
    BY DEF BridgeRequest, MutatingTools
  <2>3. r.path = "/api/x" /\ r.method = "POST"
    BY DEF BridgeRequest, MutatingTools
  <2> HIDE DEF r
  <2>4. r.path \notin PublicPaths \cup UngatedPaths /\ r.method \notin SafeMethods
    BY <2>3 DEF PublicPaths, UngatedPaths, SafeMethods
  <2>5. Passes(r)
    BY <2>2
  <2>6. AuthEnabled => Trusted(r)
    BY <2>4, <2>5, PassesIsTrusted
  <2> QED BY <2>1, <2>6 DEF r
<1> HIDE DEF ok, decides
<1>5. /\ call' \in Calls /\ call' # NoCall /\ call'.id = call.id /\ call'.tool = call.tool
      /\ call'.stage = "served" /\ call'.limit = call.limit /\ call'.ok = ok
  BY <1>1, <1>2, <1>3 DEF Calls, NoCall
<1>6. McpTypeOK' /\ NullReplyOK'
  BY <1>0, <1>1, <1>2, <1>5 DEF McpTypeOK, NullReplyOK
<1>7. CallOK'
  <2>1. call.tool \in MutatingTools => (decides <=> ok)
    BY DEF decides
  <2>2. call.tool \in MutatingTools => (call.id \in byBridge' <=> ok)
    BY <2>1, <1>1, <1>2
  <2> QED BY <1>1, <1>2, <1>3, <1>5, <2>2 DEF CallOK, Refused
<1>8. RepliesAreTrue'
  <2>1. stdout.id # lines.asked
    BY <1>0, <1>2 DEF RepliesAreTrue
  <2>2. stdout.id \in byBridge' <=> stdout.id \in byBridge
    BY <2>1, <1>1, <1>2
  <2> QED BY <1>0, <1>1, <1>2, <1>5, <2>2 DEF RepliesAreTrue
<1>9. BridgeAddsNoRights'
  <2>1. byBridge' # {} =>
          bridge.mutations /\ (AuthEnabled => Trusted(BridgeRequest("approve_remediation")))
    BY <1>0, <1>1, <1>4 DEF BridgeAddsNoRights
  <2>2. \A tool \in ReadTools \cup MutatingTools : tool \in ToolCatalog <=> ~Refused(tool, TRUE)
    BY CatalogIsTrue
  <2> QED BY <1>1, <2>1, <2>2
          DEF hgVars, BridgeAddsNoRights, Trusted, AuthEnabled, BridgeRequest, ToolCatalog, Refused
<1> QED BY <1>6, <1>7, <1>8, <1>9 DEF McpInv

\* The call is over: the reply says what is known of it.
LEMMA EndCallInv == ASSUME McpInv, UNCHANGED config, ReplyCall \/ LoseCall PROVE McpInv'
<1>0. McpTypeOK /\ CallOK /\ NullReplyOK /\ RepliesAreTrue /\ BridgeAddsNoRights
  BY DEF McpInv
<1>1. /\ call # NoCall /\ call' = NoCall /\ UNCHANGED <<bridge, proposal, lines, byBridge>>
  BY DEF ReplyCall, LoseCall
<1>2. PICK outcome :
        /\ Write(call.id, call.tool, outcome)
        /\ outcome = "done" => call.stage = "served" /\ call.ok
        /\ outcome \in {"denied", "refused"} =>
             call.stage = "served" /\ (~call.ok \/ call.tool = "get_event")
  <2>1. CASE LoseCall
    BY <2>1 DEF LoseCall
  <2>2. CASE ReplyCall
    <3>1. CASE Write(call.id, call.tool, IF call.ok THEN "done" ELSE "denied")
      <4>1. CASE call.ok
        <5>1. Write(call.id, call.tool, "done")
          BY <3>1, <4>1
        <5> QED BY <5>1, <4>1, <2>2 DEF ReplyCall
      <4>2. CASE ~call.ok
        <5>1. Write(call.id, call.tool, "denied")
          BY <3>1, <4>2
        <5> QED BY <5>1, <4>2, <2>2 DEF ReplyCall
      <4> QED BY <4>1, <4>2
    <3>2. CASE call.tool = "get_event" /\ Write(call.id, call.tool, "denied")
      BY <2>2, <3>2 DEF ReplyCall
    <3> QED BY <2>2, <3>1, <3>2 DEF ReplyCall
  <2> QED BY <2>1, <2>2
<1>3. /\ call \in Calls /\ call.id = lines.asked /\ lines.asked = replied + 1
      /\ lines.asked \in Nat /\ replied \in Nat /\ byBridge \subseteq 1..lines.asked
      /\ call.stage = "served" /\ call.tool \in MutatingTools => (call.ok <=> call.id \in byBridge)
  BY <1>0, <1>1 DEF McpTypeOK, CallOK
<1>4. /\ stdout'.id = lines.asked /\ stdout'.tool = call.tool /\ stdout'.outcome = outcome
      /\ replied' = lines.asked /\ lines.asked # 0
  BY <1>2, <1>3 DEF Write
<1>5. McpTypeOK' /\ CallOK' /\ NullReplyOK'
  BY <1>0, <1>1, <1>3, <1>4 DEF McpTypeOK, CallOK, NullReplyOK
<1>6. RepliesAreTrue'
  <2>1. call.tool \in MutatingTools => call.tool # "get_event"
    BY DEF MutatingTools
  <2> QED BY <1>1, <1>2, <1>3, <1>4, <2>1 DEF RepliesAreTrue
<1>7. BridgeAddsNoRights'
  BY <1>0, <1>1, RightsStay
<1> QED BY <1>5, <1>6, <1>7 DEF McpInv

\* Someone else decides: nothing the invariant reads.
LEMMA PortalInv == ASSUME McpInv, UNCHANGED config, NEW tool, PortalDecides(tool) PROVE McpInv'
<1>1. UNCHANGED <<bridge, call, lines, stdout, replied, byBridge, config>>
  BY DEF PortalDecides
<1>2. McpTypeOK' /\ CallOK' /\ NullReplyOK' /\ RepliesAreTrue'
  BY <1>1 DEF McpInv, McpTypeOK, CallOK, NullReplyOK, RepliesAreTrue, Refused
<1>3. BridgeAddsNoRights'
  BY <1>1, RightsStay DEF McpInv
<1> QED BY <1>2, <1>3 DEF McpInv

\* Every step of the bridge keeps its invariant.
LEMMA McpStep == ASSUME McpInv, McpNext, UNCHANGED hgVars PROVE McpInv'
<1>0. UNCHANGED config
  BY DEF hgVars
<1>1. CASE Malformed \/ Notification
  BY <1>0, <1>1, LineInv DEF Malformed, Notification
<1>2. CASE AnswerHere
  <2>1. /\ ReadLine(TRUE) /\ Write(lines'.asked, "none", "answered")
        /\ UNCHANGED <<bridge, proposal, call, byBridge>>
    BY <1>2 DEF AnswerHere
  <2>2. \E tool, outcome : ReadLine(TRUE) /\ Write(lines'.asked, tool, outcome) /\ outcome # "done"
    BY <2>1
  <2> QED BY <1>0, <2>1, <2>2, LineInv
<1>3. ASSUME NEW tool, NEW wellFormed, RefuseCall(tool, wellFormed) PROVE McpInv'
  <2>1. /\ ReadLine(TRUE) /\ Write(lines'.asked, tool, "refused")
        /\ UNCHANGED <<bridge, proposal, call, byBridge>>
    BY <1>3 DEF RefuseCall
  <2>2. \E to, outcome : ReadLine(TRUE) /\ Write(lines'.asked, to, outcome) /\ outcome # "done"
    BY <2>1
  <2> QED BY <1>0, <2>1, <2>2, LineInv
<1>4. CASE ServeCall
  BY <1>4, ServeCallInv
<1>5. CASE ReplyCall \/ LoseCall
  BY <1>0, <1>5, EndCallInv
<1> QED BY <1>0, <1>1, <1>2, <1>3, <1>4, <1>5, StartCallInv, PortalInv DEF McpNext

\* The gate lets nobody do what is not theirs to do, nor too often, directly or through
\* the MCP server, whoever calls in which order (auth_mw, ingest, TokenBucket::consume,
\* dispatch, serve_stdio): for any settings, requests, bucket and refill rate.
THEOREM GateIsSafe == GateSpec => []GateHolds
<1>1. HgInit /\ McpInit => GateInv
  BY HgInitInv, McpInitInv DEF GateInv
<1>2. GateInv /\ [GateNext]_<<hgVars, mcpVars>> => GateInv'
  <2> SUFFICES ASSUME GateInv, [GateNext]_<<hgVars, mcpVars>> PROVE GateInv'
    OBVIOUS
  <2>0. HgInv /\ McpInv
    BY DEF GateInv
  <2>1. CASE HgNext /\ UNCHANGED mcpVars
    <3>1. UNCHANGED config
      BY <2>1 DEF HgNext, HgTick, Request, TokenReviewed, IngestRequest
    <3> QED BY <2>0, <2>1, <3>1, HgStep, McpStutter DEF GateInv
  <2>2. CASE McpNext /\ UNCHANGED hgVars
    BY <2>0, <2>2, HgStutter, McpStep DEF GateInv
  <2>3. CASE UNCHANGED <<hgVars, mcpVars>>
    <3>1. UNCHANGED hgVars /\ UNCHANGED <<mcpVars, config>>
      BY <2>3 DEF hgVars
    <3> QED BY <2>0, <3>1, HgStutter, McpStutter DEF GateInv
  <2> QED BY <2>1, <2>2, <2>3 DEF GateNext
<1>3. GateInv => GateHolds
  BY DEF GateInv, HgInv, McpInv, GateHolds
<1> QED BY <1>1, <1>2, <1>3, PTL DEF GateSpec

-----------------------------------------------------------------------------
(* FleetRegistry *)

FlSpec == FlInit /\ [][FlNext]_flVars

Rows == [lastSeen : Nat, lastHeartbeat : Nat]
PutsInHand ==
  [pc : {"delete", "insert", "commit"}, agent : Agents, new : Puts,
   seen : SUBSET (Keys \X Values), dead : SUBSET (Keys \X Values), waits : BOOLEAN]

FlTypeOK ==
  /\ now \in Nat
  /\ agents \in [Agents -> Rows \cup {NoRow}]
  /\ labels \in [Agents -> SUBSET (Keys \X Values)]
  /\ put \in [Writers -> PutsInHand \cup {NoPut}]
  /\ listing \in [busy : {TRUE}, rows : [Agents -> Rows \cup {NoRow}]] \cup {NotListing}
  /\ heard \in [Agents -> Nat]
  /\ DOMAIN shown = Agents /\ DOMAIN since = Agents /\ DOMAIN last = Agents

\* A transaction that has inserted holds the agent and its keys: no row that it did
\* not delete has one of them, and no other one that has inserted does.
InsertedOK ==
  \A w \in Writers : put[w].pc = "commit" =>
    /\ put[w].new # {} => Registered(put[w].agent)
    /\ KeysOf(labels[put[w].agent] \ put[w].dead) \cap KeysOf(put[w].new) = {}
    /\ \A v \in Writers \ {w} : put[v].pc = "commit" /\ put[v].agent = put[w].agent =>
         KeysOf(put[v].new) \cap KeysOf(put[w].new) = {}

\* Where no two transactions overlapped there is one at most, and the rows it has seen,
\* then deleted, are all there are.
AloneOK ==
  \A w \in Writers : Open(w) /\ put[w].agent \notin mixed =>
    /\ \A v \in Writers \ {w} : Open(v) => put[v].agent # put[w].agent
    /\ put[w].pc = "delete" /\ put[w].waits => labels[put[w].agent] \subseteq put[w].seen
    /\ put[w].pc # "delete" => labels[put[w].agent] \subseteq put[w].dead

\* No row claims a later sign of life than there was.
SeenOK(a, row) == row # NoRow => row.lastSeen <= heard[a] /\ heard[a] <= now

\* While a listing runs it shows nothing yet, and the labels are among those it may show.
ListingOK ==
  listing # NotListing =>
    \A a \in Agents : labels[a] \in since[a] /\ shown[a] = NoRow /\ SeenOK(a, listing.rows[a])

FlInv ==
  /\ FlTypeOK /\ InsertedOK /\ AloneOK /\ ListingOK
  /\ \A a \in Agents : SeenOK(a, agents[a])
  /\ LabelsFollowPuts /\ ListingWasTrue

\* No row is the absence of one, no listing the absence of one, no put idle.
LEMMA FlDistinct ==
  /\ \A row \in Rows : row # NoRow
  /\ \A rows : [busy |-> TRUE, rows |-> rows] # NotListing
  /\ \A p \in PutsInHand : p.pc # "idle"
  /\ NoPut.pc = "idle"
  BY DEF Rows, NoRow, NotListing, PutsInHand, NoPut

\* The registry starts empty.
LEMMA FlInitInv == FlInit => FlInv
<1> SUFFICES ASSUME FlInit PROVE FlInv
  OBVIOUS
<1>1. FlTypeOK
  <2>1. Never \in Nat
    BY FleetAssumption DEF Never
  <2> QED BY <2>1 DEF FlInit, FlTypeOK
<1>2. InsertedOK /\ AloneOK
  BY DEF FlInit, InsertedOK, AloneOK, Open, NoPut
<1>3. ListingOK /\ \A a \in Agents : SeenOK(a, agents[a])
  BY DEF FlInit, ListingOK, SeenOK
<1>4. LabelsFollowPuts /\ ListingWasTrue
  BY DEF FlInit, LabelsFollowPuts, ListingWasTrue
<1> QED BY <1>1, <1>2, <1>3, <1>4 DEF FlInv

\* Time passes: a sign of life only gets older.
LEMMA FlTickInv == ASSUME FlInv, FlTick PROVE FlInv'
<1>0. /\ FlTypeOK /\ InsertedOK /\ AloneOK /\ ListingOK /\ LabelsFollowPuts /\ ListingWasTrue
      /\ \A a \in Agents : SeenOK(a, agents[a])
  BY DEF FlInv
<1>1. now' = now + 1 /\ UNCHANGED <<agents, labels, put, nputs, last, mixed, heard, since, listing, shown>>
  BY DEF FlTick, tables
<1>2. FlTypeOK'
  <2>1. now' \in Nat
    BY <1>0, <1>1 DEF FlTypeOK
  <2> QED BY <1>0, <1>1, <2>1 DEF FlTypeOK
<1>3. InsertedOK' /\ AloneOK' /\ LabelsFollowPuts' /\ ListingWasTrue'
  BY <1>0, <1>1 DEF InsertedOK, AloneOK, LabelsFollowPuts, ListingWasTrue, Registered, Open
<1>4. \A a \in Agents : heard[a] \in Nat /\ now \in Nat
  BY <1>0 DEF FlTypeOK
<1>5. ListingOK' /\ \A a \in Agents : SeenOK(a, agents[a])'
  BY <1>0, <1>1, <1>4 DEF ListingOK, SeenOK
<1> QED BY <1>2, <1>3, <1>5 DEF FlInv

\* A sign of life: the row is there, and was seen no later than now.
LEMMA UpsertInv ==
  ASSUME FlInv, NEW a \in Agents, NEW row \in Rows, row.lastSeen <= now, Upsert(a, row)
  PROVE  FlInv'
<1>0. /\ FlTypeOK /\ InsertedOK /\ AloneOK /\ ListingOK /\ LabelsFollowPuts /\ ListingWasTrue
      /\ \A b \in Agents : SeenOK(b, agents[b])
  BY DEF FlInv
<1>1. /\ agents' = [agents EXCEPT ![a] = row] /\ heard' = [heard EXCEPT ![a] = now]
      /\ UNCHANGED <<now, labels, put, nputs, last, mixed, since, listing, shown>>
  BY DEF Upsert
<1>2. FlTypeOK'
  <2>1. agents' \in [Agents -> Rows \cup {NoRow}]
    BY <1>0, <1>1 DEF FlTypeOK
  <2>2. heard' \in [Agents -> Nat]
    BY <1>0, <1>1 DEF FlTypeOK
  <2> QED BY <1>0, <1>1, <2>1, <2>2 DEF FlTypeOK
<1>3. \A b \in Agents : Registered(b) => Registered(b)'
  BY <1>0, <1>1, FlDistinct DEF Registered, FlTypeOK
<1>4. InsertedOK'
  <2>1. \A w \in Writers : put[w].pc = "commit" => put[w].agent \in Agents
    BY <1>0 DEF FlTypeOK, PutsInHand, NoPut
  <2> QED BY <1>0, <1>1, <1>3, <2>1 DEF InsertedOK
<1>5. AloneOK' /\ ListingWasTrue'
  BY <1>0, <1>1 DEF AloneOK, Open, ListingWasTrue
<1>6. LabelsFollowPuts'
  BY <1>0, <1>1, <1>3 DEF LabelsFollowPuts
<1>7. /\ now \in Nat /\ \A b \in Agents : heard[b] \in Nat
      /\ \A b \in Agents : heard'[b] = IF b = a THEN now ELSE heard[b]
      /\ \A b \in Agents : agents'[b] = IF b = a THEN row ELSE agents[b]
  BY <1>0, <1>1 DEF FlTypeOK
<1>8. \A b \in Agents : SeenOK(b, agents[b])'
  BY <1>0, <1>1, <1>7 DEF SeenOK
<1>9. ListingOK'
  <2> SUFFICES ASSUME listing # NotListing, NEW b \in Agents
               PROVE  labels[b] \in since[b] /\ shown[b] = NoRow /\ SeenOK(b, listing.rows[b])'
    BY <1>1 DEF ListingOK
  <2>1. labels[b] \in since[b] /\ shown[b] = NoRow /\ SeenOK(b, listing.rows[b])
    BY <1>0 DEF ListingOK
  <2>2. listing.rows[b] \in Rows \cup {NoRow}
    BY <1>0 DEF FlTypeOK
  <2>3. listing.rows[b] # NoRow => listing.rows[b].lastSeen \in Nat
    BY <2>2 DEF Rows
  <2> QED BY <2>1, <2>3, <1>1, <1>7 DEF SeenOK
<1> QED BY <1>2, <1>4, <1>5, <1>6, <1>8, <1>9 DEF FlInv

\* Events, heartbeats and enrollments are such signs.
LEMMA SignsInv ==
  ASSUME FlInv, NEW a \in Agents, Touch(a) \/ RecordHeartbeat(a) \/ RecordEnrollment(a)
  PROVE  FlInv'
<1>1. /\ now \in Nat /\ Never \in Nat
      /\ agents[a] \in Rows \cup {NoRow} /\ SeenOK(a, agents[a]) /\ heard[a] \in Nat
  BY FleetAssumption DEF FlInv, FlTypeOK, Never
<1>2. Registered(a) => /\ agents[a] \in Rows /\ agents[a].lastHeartbeat \in Nat
                       /\ agents[a].lastSeen \in Nat /\ agents[a].lastSeen <= now
  BY <1>1 DEF Registered, SeenOK, Rows
<1>3. \E row \in Rows : row.lastSeen <= now /\ Upsert(a, row)
  <2>1. CASE Touch(a)
    <3> DEFINE hb == IF Registered(a) THEN agents[a].lastHeartbeat ELSE Never
    <3>1. Upsert(a, [lastSeen |-> now, lastHeartbeat |-> hb]) /\ hb \in Nat
      BY <2>1, <1>1, <1>2 DEF Touch
    <3> HIDE DEF hb
    <3> QED BY <3>1, <1>1 DEF Rows
  <2>2. CASE RecordHeartbeat(a)
    BY <2>2, <1>1 DEF RecordHeartbeat, Rows
  <2>3. CASE RecordEnrollment(a)
    <3>1. CASE Registered(a)
      <4>1. Upsert(a, agents[a])
        BY <2>3, <3>1 DEF RecordEnrollment
      <4> QED BY <4>1, <3>1, <1>2
    <3>2. CASE ~Registered(a)
      <4>1. Upsert(a, [lastSeen |-> now, lastHeartbeat |-> Never])
        BY <2>3, <3>2 DEF RecordEnrollment
      <4> QED BY <4>1, <1>1 DEF Rows
    <3> QED BY <3>1, <3>2
  <2> QED BY <2>1, <2>2, <2>3
<1> QED BY <1>3, UpsertInv

\* A step of a transaction that commits nothing, once its own parts are shown.
LEMMA PutStepInv ==
  ASSUME FlInv, UNCHANGED <<now, agents, labels, last, heard, since, listing, shown>>,
         FlTypeOK', InsertedOK', AloneOK', mixed \subseteq mixed'
  PROVE  FlInv'
<1>0. /\ ListingOK /\ LabelsFollowPuts /\ ListingWasTrue
      /\ \A a \in Agents : SeenOK(a, agents[a])
  BY DEF FlInv
<1>1. ListingOK' /\ LabelsFollowPuts' /\ ListingWasTrue' /\ \A a \in Agents : SeenOK(a, agents[a])'
  BY <1>0 DEF ListingOK, LabelsFollowPuts, ListingWasTrue, SeenOK, Registered
<1> QED BY <1>1 DEF FlInv

\* What a transaction in hand is.
LEMMA PutTypes ==
  ASSUME FlTypeOK, NEW w \in Writers, put[w].pc # "idle"
  PROVE  /\ put[w] \in PutsInHand /\ put[w].pc \in {"delete", "insert", "commit"}
         /\ put[w].agent \in Agents /\ put[w].new \in Puts /\ put[w].waits \in BOOLEAN
         /\ put[w].seen \in SUBSET (Keys \X Values) /\ put[w].dead \in SUBSET (Keys \X Values)
         /\ Open(w)
<1>1. put[w] \in PutsInHand
  BY FlDistinct DEF FlTypeOK
<1> QED BY <1>1 DEF PutsInHand, Open

\* A transaction begins. Of an agent that another one is open for, nothing is said.
LEMMA PutBeginInv ==
  ASSUME FlInv, NEW w \in Writers, NEW a \in Agents, NEW ls \in Puts, PutBegin(w, a, ls)
  PROVE  FlInv'
<1>0. FlTypeOK /\ InsertedOK /\ AloneOK
  BY DEF FlInv
<1> DEFINE p == [pc |-> "delete", agent |-> a, new |-> ls, seen |-> {}, dead |-> {}, waits |-> FALSE]
<1>1. /\ put[w].pc = "idle" /\ put' = [put EXCEPT ![w] = p]
      /\ UNCHANGED <<now, agents, labels, last, heard, since, listing, shown>>
      /\ mixed' = IF \E v \in Writers : Open(v) /\ put[v].agent = a THEN mixed \cup {a} ELSE mixed
  BY DEF PutBegin, PutStep
<1>2. p \in PutsInHand /\ p.pc = "delete" /\ p.agent = a /\ p.waits = FALSE
  BY DEF PutsInHand
<1> HIDE DEF p
<1>3. \A v \in Writers : put'[v] = IF v = w THEN p ELSE put[v]
  BY <1>0, <1>1 DEF FlTypeOK
<1>4. FlTypeOK'
  BY <1>0, <1>1, <1>2 DEF FlTypeOK
<1>5. InsertedOK'
  BY <1>0, <1>1, <1>2, <1>3 DEF InsertedOK, Registered
<1>6. AloneOK'
  <2> SUFFICES ASSUME NEW x \in Writers, Open(x)', put'[x].agent \notin mixed'
               PROVE  /\ \A v \in Writers \ {x} : Open(v)' => put'[v].agent # put'[x].agent
                      /\ put'[x].pc = "delete" /\ put'[x].waits => labels[put'[x].agent] \subseteq put'[x].seen
                      /\ put'[x].pc # "delete" => labels[put'[x].agent] \subseteq put'[x].dead
    BY <1>1 DEF AloneOK
  <2>1. CASE x = w
    <3>1. \A v \in Writers : Open(v) => put[v].agent # a
      BY <1>1, <1>2, <1>3, <2>1
    <3> QED BY <1>2, <1>3, <2>1, <3>1 DEF Open
  <2>2. CASE x # w
    <3>1. put'[x] = put[x] /\ Open(x) /\ put[x].agent \notin mixed
      BY <1>1, <1>3, <2>2 DEF Open
    <3>2. put[x].agent # a
      BY <1>1, <3>1
    <3> QED BY <1>0, <1>2, <1>3, <2>2, <3>1, <3>2 DEF AloneOK, Open
  <2> QED BY <2>1, <2>2
<1> QED BY <1>1, <1>4, <1>5, <1>6, PutStepInv

\* A transaction goes on, or is over without a commit.
LEMMA PutGoesOnInv ==
  ASSUME FlInv, NEW w \in Writers,
         PutSnapshot(w) \/ PutDelete(w) \/ PutInsert(w) \/ PutAbort(w)
  PROVE  FlInv'
<1>0. FlTypeOK /\ InsertedOK /\ AloneOK
  BY DEF FlInv
<1> DEFINE a == put[w].agent
<1>1. PICK p : /\ put' = [put EXCEPT ![w] = p]
               /\ UNCHANGED <<now, agents, labels, last, heard, since, listing, shown, mixed>>
               /\ put[w].pc # "idle"
               /\ \/ p = NoPut
                  \/ /\ p \in PutsInHand /\ p.agent = a
                     /\ \/ p.pc = "delete" /\ p.seen = labels[a]
                        \/ /\ p.pc = "insert" /\ put[w].pc = "delete" /\ put[w].waits
                           /\ p.dead = put[w].seen \cap labels[a]
                        \/ /\ p.pc = "commit" /\ put[w].pc = "insert" /\ p.dead = put[w].dead
                           /\ p.new # {} => Registered(a)
                           /\ KeysOf(labels[a] \ p.dead) \cap KeysOf(p.new) = {}
                           /\ \A v \in Others(w) : put[v].pc = "commit" => KeysOf(put[v].new) \cap KeysOf(p.new) = {}
  <2>1. CASE PutSnapshot(w)
    <3> DEFINE p == [put[w] EXCEPT !.seen = labels[a], !.waits = TRUE]
    <3>1. /\ put[w].pc = "delete" /\ put' = [put EXCEPT ![w] = p]
          /\ UNCHANGED <<now, agents, labels, last, heard, since, listing, shown, mixed>>
      BY <2>1 DEF PutSnapshot, PutStep
    <3>2. put[w] \in PutsInHand /\ a \in Agents /\ labels[a] \in SUBSET (Keys \X Values)
      BY <1>0, <3>1, PutTypes DEF FlTypeOK
    <3>3. p \in PutsInHand /\ p.agent = a /\ p.pc = "delete" /\ p.seen = labels[a]
      BY <3>1, <3>2 DEF PutsInHand
    <3> HIDE DEF p
    <3> QED BY <3>1, <3>3
  <2>2. CASE PutDelete(w)
    <3> DEFINE p == [put[w] EXCEPT !.pc = "insert", !.dead = put[w].seen \cap labels[a]]
    <3>1. /\ put[w].pc = "delete" /\ put[w].waits /\ put' = [put EXCEPT ![w] = p]
          /\ UNCHANGED <<now, agents, labels, last, heard, since, listing, shown, mixed>>
      BY <2>2 DEF PutDelete, PutStep
    <3>2. put[w] \in PutsInHand /\ a \in Agents /\ labels[a] \in SUBSET (Keys \X Values)
      BY <1>0, <3>1, PutTypes DEF FlTypeOK
    <3>3. /\ p \in PutsInHand /\ p.agent = a /\ p.pc = "insert"
          /\ p.dead = put[w].seen \cap labels[a]
      BY <3>1, <3>2 DEF PutsInHand
    <3> HIDE DEF p
    <3> QED BY <3>1, <3>3
  <2>3. CASE PutInsert(w)
    <3> DEFINE fails == ~Registered(a) \/ KeysOf(labels[a] \ put[w].dead) \cap KeysOf(put[w].new) # {}
               q == [put[w] EXCEPT !.pc = "commit"]
    <3>1. /\ put[w].pc = "insert"
          /\ \A v \in Others(w) : put[v].pc = "commit" => KeysOf(put[v].new) \cap KeysOf(put[w].new) = {}
          /\ put' = [put EXCEPT ![w] = IF fails /\ put[w].new # {} THEN NoPut ELSE q]
          /\ UNCHANGED <<now, agents, labels, last, heard, since, listing, shown, mixed>>
      BY <2>3 DEF PutInsert, PutStep
    <3>2. put[w] \in PutsInHand
      BY <1>0, <3>1, PutTypes
    <3>3. q \in PutsInHand /\ q.agent = a /\ q.pc = "commit" /\ q.dead = put[w].dead /\ q.new = put[w].new
      BY <3>1, <3>2 DEF PutsInHand
    <3>4. KeysOf({}) = {}
      BY DEF KeysOf
    <3> HIDE DEF q
    <3>5. CASE fails /\ put[w].new # {}
      BY <3>1, <3>5
    <3>6. CASE ~(fails /\ put[w].new # {})
      <4>1. put' = [put EXCEPT ![w] = q]
        BY <3>1, <3>6
      <4>2. q.new # {} => Registered(a)
        BY <3>3, <3>6
      <4>3. KeysOf(labels[a] \ q.dead) \cap KeysOf(q.new) = {}
        BY <3>3, <3>4, <3>6
      <4> QED BY <3>1, <3>3, <4>1, <4>2, <4>3
    <3> QED BY <3>5, <3>6
  <2>4. CASE PutAbort(w)
    BY <2>4, FlDistinct DEF PutAbort, PutStep, Open
  <2> QED BY <2>1, <2>2, <2>3, <2>4
<1>2. /\ put[w] \in PutsInHand /\ a \in Agents /\ Open(w)
  BY <1>0, <1>1, PutTypes
<1>3. \A v \in Writers : put'[v] = IF v = w THEN p ELSE put[v]
  BY <1>0, <1>1 DEF FlTypeOK
<1>4. FlTypeOK'
  BY <1>0, <1>1 DEF FlTypeOK
<1> HIDE DEF a
<1>5. InsertedOK'
  <2> SUFFICES ASSUME NEW x \in Writers, put'[x].pc = "commit"
               PROVE  /\ put'[x].new # {} => Registered(put'[x].agent)
                      /\ KeysOf(labels[put'[x].agent] \ put'[x].dead) \cap KeysOf(put'[x].new) = {}
                      /\ \A v \in Writers \ {x} : put'[v].pc = "commit" /\ put'[v].agent = put'[x].agent =>
                           KeysOf(put'[v].new) \cap KeysOf(put'[x].new) = {}
    BY <1>1 DEF InsertedOK, Registered
  <2>1. p.pc = "commit" =>
          /\ p.agent = a /\ (p.new # {} => Registered(a)) /\ KeysOf(labels[a] \ p.dead) \cap KeysOf(p.new) = {}
          /\ \A v \in Writers \ {w} : put[v].pc = "commit" /\ put[v].agent = a => KeysOf(put[v].new) \cap KeysOf(p.new) = {}
    BY <1>1, FlDistinct DEF Others, Open, a
  <2>2. CASE x = w
    BY <2>1, <2>2, <1>3
  <2>3. CASE x # w
    BY <2>1, <2>3, <1>0, <1>3 DEF InsertedOK
  <2> QED BY <2>2, <2>3
<1>6. AloneOK'
  <2> SUFFICES ASSUME NEW x \in Writers, Open(x)', put'[x].agent \notin mixed
               PROVE  /\ \A v \in Writers \ {x} : Open(v)' => put'[v].agent # put'[x].agent
                      /\ put'[x].pc = "delete" /\ put'[x].waits => labels[put'[x].agent] \subseteq put'[x].seen
                      /\ put'[x].pc # "delete" => labels[put'[x].agent] \subseteq put'[x].dead
    BY <1>1 DEF AloneOK
  <2>1. \A v \in Writers : Open(v)' => Open(v) /\ put'[v].agent = put[v].agent
    BY <1>1, <1>2, <1>3, FlDistinct DEF Open, a
  <2>2. /\ \A v \in Writers \ {x} : Open(v) => put[v].agent # put[x].agent
        /\ put[x].pc = "delete" /\ put[x].waits => labels[put[x].agent] \subseteq put[x].seen
        /\ put[x].pc # "delete" => labels[put[x].agent] \subseteq put[x].dead
    BY <2>1, <1>0 DEF AloneOK
  <2>3. CASE x = w
    <3>1. p # NoPut
      BY <2>3, <1>3, FlDistinct DEF Open
    <3> QED BY <2>1, <2>2, <2>3, <3>1, <1>1, <1>3 DEF a
  <2>4. CASE x # w
    BY <2>1, <2>2, <2>4, <1>3
  <2> QED BY <2>3, <2>4
<1> QED BY <1>1, <1>4, <1>5, <1>6, PutStepInv

\* A transaction commits: keys stay unique, and alone it leaves its own labels.
LEMMA PutCommitInv == ASSUME FlInv, NEW w \in Writers, PutCommit(w) PROVE FlInv'
<1>0. /\ FlTypeOK /\ InsertedOK /\ AloneOK /\ ListingOK /\ LabelsFollowPuts /\ ListingWasTrue
      /\ \A b \in Agents : SeenOK(b, agents[b])
  BY DEF FlInv
<1> DEFINE a == put[w].agent
           ls == (labels[a] \ put[w].dead) \cup put[w].new
<1>1. /\ put[w].pc = "commit" /\ labels' = [labels EXCEPT ![a] = ls]
      /\ last' = [last EXCEPT ![a] = put[w].new]
      /\ since' = IF listing = NotListing THEN since ELSE [since EXCEPT ![a] = since[a] \cup {ls}]
      /\ put' = [put EXCEPT ![w] = NoPut]
      /\ UNCHANGED <<now, agents, nputs, mixed, heard, listing, shown>>
  BY DEF PutCommit, Commit
<1>2. /\ put[w] \in PutsInHand /\ a \in Agents /\ put[w].new \in Puts /\ Open(w)
      /\ put[w].new \subseteq Keys \X Values /\ labels[a] \subseteq Keys \X Values
      /\ \A x, y \in put[w].new : x[1] = y[1] => x = y
  BY <1>0, <1>1, PutTypes, FleetAssumption DEF FlTypeOK
<1>3. /\ \A v \in Writers : put'[v] = IF v = w THEN NoPut ELSE put[v]
      /\ \A b \in Agents : labels'[b] = IF b = a THEN ls ELSE labels[b]
      /\ \A b \in Agents : last'[b] = IF b = a THEN put[w].new ELSE last[b]
  BY <1>0, <1>1 DEF FlTypeOK
<1>4. FlTypeOK'
  <2>1. ls \in SUBSET (Keys \X Values)
    BY <1>2
  <2> HIDE DEF ls, a
  <2> QED BY <1>0, <1>1, <1>2, <2>1 DEF FlTypeOK
<1>5. \A b \in Agents : labels[b] # {} => Registered(b)
  BY <1>0 DEF LabelsFollowPuts
<1>6. ls # {} => Registered(a)
  BY <1>0, <1>1, <1>2, <1>5 DEF InsertedOK
<1>7. \A x, y \in ls : x[1] = y[1] => x = y
  <2>1. KeysOf(labels[a] \ put[w].dead) \cap KeysOf(put[w].new) = {}
    BY <1>0, <1>1 DEF InsertedOK
  <2>2. \A x \in labels[a] \ put[w].dead, y \in put[w].new : x[1] # y[1]
    BY <2>1 DEF KeysOf
  <2>3. \A x, y \in labels[a] : x[1] = y[1] => x = y
    BY <1>0, <1>2 DEF LabelsFollowPuts
  <2> QED BY <1>2, <2>2, <2>3
<1>8. a \notin mixed => ls = put[w].new
  BY <1>0, <1>1, <1>2 DEF AloneOK
<1>9. KeysOf(ls) = KeysOf(labels[a] \ put[w].dead) \cup KeysOf(put[w].new)
  BY DEF KeysOf
<1>a. \A d : KeysOf(ls \ d) \subseteq KeysOf(labels[a] \ d) \cup KeysOf(put[w].new)
  BY DEF KeysOf
<1> HIDE DEF ls, a
<1>10. InsertedOK'
  <2> SUFFICES ASSUME NEW x \in Writers, put'[x].pc = "commit"
               PROVE  /\ put'[x].new # {} => Registered(put'[x].agent)
                      /\ KeysOf(labels'[put'[x].agent] \ put'[x].dead) \cap KeysOf(put'[x].new) = {}
                      /\ \A v \in Writers \ {x} : put'[v].pc = "commit" /\ put'[v].agent = put'[x].agent =>
                           KeysOf(put'[v].new) \cap KeysOf(put'[x].new) = {}
    BY <1>1 DEF InsertedOK, Registered
  <2>1. x # w /\ put'[x] = put[x] /\ put[x].agent \in Agents
    BY <1>0, <1>3, FlDistinct, PutTypes
  <2>2. /\ put[x].new # {} => Registered(put[x].agent)
        /\ KeysOf(labels[put[x].agent] \ put[x].dead) \cap KeysOf(put[x].new) = {}
        /\ \A v \in Writers \ {x} : put[v].pc = "commit" /\ put[v].agent = put[x].agent =>
             KeysOf(put[v].new) \cap KeysOf(put[x].new) = {}
    BY <2>1, <1>0 DEF InsertedOK
  <2>3. KeysOf(labels'[put[x].agent] \ put[x].dead) \cap KeysOf(put[x].new) = {}
    <3>1. CASE put[x].agent = a
      <4>1. KeysOf(put[w].new) \cap KeysOf(put[x].new) = {}
        BY <3>1, <2>1, <2>2, <1>1 DEF a
      <4>2. KeysOf(ls \ put[x].dead) \subseteq KeysOf(labels[a] \ put[x].dead) \cup KeysOf(put[w].new)
        BY <1>a
      <4>3. labels'[put[x].agent] = ls
        BY <3>1, <2>1, <1>3
      <4> QED BY <3>1, <4>1, <4>2, <4>3, <2>2
    <3>2. CASE put[x].agent # a
      BY <3>2, <2>1, <2>2, <1>3
    <3> QED BY <3>1, <3>2
  <2>4. \A v \in Writers \ {x} : put'[v].pc = "commit" => put'[v] = put[v]
    BY <1>3, FlDistinct
  <2> QED BY <2>1, <2>2, <2>3, <2>4
<1>11. AloneOK'
  <2> SUFFICES ASSUME NEW x \in Writers, Open(x)', put'[x].agent \notin mixed
               PROVE  /\ \A v \in Writers \ {x} : Open(v)' => put'[v].agent # put'[x].agent
                      /\ put'[x].pc = "delete" /\ put'[x].waits => labels'[put'[x].agent] \subseteq put'[x].seen
                      /\ put'[x].pc # "delete" => labels'[put'[x].agent] \subseteq put'[x].dead
    BY <1>1 DEF AloneOK
  <2>1. \A v \in Writers : Open(v)' => v # w /\ Open(v) /\ put'[v] = put[v]
    BY <1>3, FlDistinct DEF Open
  <2>2. /\ \A v \in Writers \ {x} : Open(v) => put[v].agent # put[x].agent
        /\ put[x].pc = "delete" /\ put[x].waits => labels[put[x].agent] \subseteq put[x].seen
        /\ put[x].pc # "delete" => labels[put[x].agent] \subseteq put[x].dead
    BY <2>1, <1>0 DEF AloneOK
  <2>3. put[x].agent # a /\ put[x].agent \in Agents
    <3>1. put[x].pc # "idle"
      BY <2>1 DEF Open
    <3> QED BY <3>1, <2>1, <2>2, <1>0, <1>2, PutTypes DEF a
  <2> QED BY <2>1, <2>2, <2>3, <1>3
<1>12. LabelsFollowPuts'
  <2> SUFFICES ASSUME NEW b \in Agents
               PROVE  /\ labels'[b] # {} => Registered(b)
                      /\ \A x, y \in labels'[b] : x[1] = y[1] => x = y
                      /\ b \notin mixed => labels'[b] = last'[b]
    BY <1>1 DEF LabelsFollowPuts, Registered
  <2>1. CASE b = a
    BY <2>1, <1>3, <1>6, <1>7, <1>8
  <2>2. CASE b # a
    BY <2>2, <1>0, <1>3 DEF LabelsFollowPuts
  <2> QED BY <2>1, <2>2
<1>13. ListingOK'
  <2> SUFFICES ASSUME listing # NotListing, NEW b \in Agents
               PROVE  labels'[b] \in since'[b] /\ shown[b] = NoRow /\ SeenOK(b, listing.rows[b])'
    BY <1>1 DEF ListingOK
  <2>1. labels[b] \in since[b] /\ shown[b] = NoRow /\ SeenOK(b, listing.rows[b])
    BY <1>0 DEF ListingOK
  <2>2. since'[b] = IF b = a THEN since[b] \cup {ls} ELSE since[b]
    BY <1>0, <1>1, <1>2 DEF FlTypeOK
  <2> QED BY <2>1, <2>2, <1>1, <1>3 DEF SeenOK
<1>14. ListingWasTrue'
  <2>1. CASE listing = NotListing
    BY <2>1, <1>0, <1>1 DEF ListingWasTrue
  <2>2. CASE listing # NotListing
    BY <2>2, <1>0, <1>1 DEF ListingWasTrue, ListingOK
  <2> QED BY <2>1, <2>2
<1>15. \A b \in Agents : SeenOK(b, agents[b])'
  BY <1>0, <1>1 DEF SeenOK
<1> QED BY <1>4, <1>10, <1>11, <1>12, <1>13, <1>14, <1>15 DEF FlInv

\* The agent goes, and its labels with it; a transaction of it that has inserted
\* nothing stays open.
LEMMA DeleteAgentInv == ASSUME FlInv, NEW a \in Agents, DeleteAgent(a) PROVE FlInv'
<1>0. /\ FlTypeOK /\ InsertedOK /\ AloneOK /\ ListingOK /\ LabelsFollowPuts /\ ListingWasTrue
      /\ \A b \in Agents : SeenOK(b, agents[b])
  BY DEF FlInv
<1>1. /\ agents' = [agents EXCEPT ![a] = NoRow] /\ labels' = [labels EXCEPT ![a] = {}]
      /\ last' = [last EXCEPT ![a] = {}]
      /\ since' = IF listing = NotListing THEN since ELSE [since EXCEPT ![a] = since[a] \cup {{}}]
      /\ UNCHANGED <<now, put, nputs, mixed, heard, listing, shown>>
  BY DEF DeleteAgent
<1>2. \A w \in Writers : put[w].pc = "commit" /\ put[w].agent = a => put[w].new = {}
  BY DEF DeleteAgent, Open
<1>3. /\ \A b \in Agents : labels'[b] = IF b = a THEN {} ELSE labels[b]
      /\ \A b \in Agents : last'[b] = IF b = a THEN {} ELSE last[b]
      /\ \A b \in Agents : agents'[b] = IF b = a THEN NoRow ELSE agents[b]
  BY <1>0, <1>1 DEF FlTypeOK
<1>4. FlTypeOK'
  <2>1. agents' \in [Agents -> Rows \cup {NoRow}]
    BY <1>0, <1>1 DEF FlTypeOK
  <2>2. labels' \in [Agents -> SUBSET (Keys \X Values)]
    BY <1>0, <1>1 DEF FlTypeOK
  <2>3. DOMAIN since' = Agents /\ DOMAIN last' = Agents
    BY <1>0, <1>1 DEF FlTypeOK
  <2> QED BY <1>0, <1>1, <2>1, <2>2, <2>3 DEF FlTypeOK
<1>5. KeysOf({}) = {}
  BY DEF KeysOf
<1>6. InsertedOK'
  <2> SUFFICES ASSUME NEW x \in Writers, put[x].pc = "commit"
               PROVE  /\ put[x].new # {} => Registered(put[x].agent)'
                      /\ KeysOf(labels'[put[x].agent] \ put[x].dead) \cap KeysOf(put[x].new) = {}
                      /\ \A v \in Writers \ {x} : put[v].pc = "commit" /\ put[v].agent = put[x].agent =>
                           KeysOf(put[v].new) \cap KeysOf(put[x].new) = {}
    BY <1>1 DEF InsertedOK, Registered
  <2>1. put[x].agent \in Agents
    BY <1>0, PutTypes
  <2>2. /\ put[x].new # {} => Registered(put[x].agent)
        /\ KeysOf(labels[put[x].agent] \ put[x].dead) \cap KeysOf(put[x].new) = {}
        /\ \A v \in Writers \ {x} : put[v].pc = "commit" /\ put[v].agent = put[x].agent =>
             KeysOf(put[v].new) \cap KeysOf(put[x].new) = {}
    BY <1>0 DEF InsertedOK
  <2>3. CASE put[x].agent = a
    BY <2>2, <2>3, <1>2, <1>5
  <2>4. CASE put[x].agent # a
    <3>1. labels'[put[x].agent] = labels[put[x].agent] /\ agents'[put[x].agent] = agents[put[x].agent]
      BY <2>1, <2>4, <1>3
    <3>2. Registered(put[x].agent)' <=> Registered(put[x].agent)
      BY <3>1, <1>1 DEF Registered
    <3> QED BY <2>2, <3>1, <3>2
  <2> QED BY <2>3, <2>4
<1>7. AloneOK'
  <2>1. \A w \in Writers : Open(w) => labels'[put[w].agent] \subseteq labels[put[w].agent]
    <3> SUFFICES ASSUME NEW w \in Writers, Open(w) PROVE labels'[put[w].agent] \subseteq labels[put[w].agent]
      OBVIOUS
    <3>1. put[w].pc # "idle"
      BY DEF Open
    <3>2. put[w].agent \in Agents
      BY <3>1, <1>0, PutTypes
    <3> QED BY <3>2, <1>3
  <2> QED BY <2>1, <1>0, <1>1 DEF AloneOK, Open
<1>8. LabelsFollowPuts'
  BY <1>0, <1>1, <1>3 DEF LabelsFollowPuts, Registered
<1>9. ListingOK'
  <2> SUFFICES ASSUME listing # NotListing, NEW b \in Agents
               PROVE  labels'[b] \in since'[b] /\ shown[b] = NoRow /\ SeenOK(b, listing.rows[b])'
    BY <1>1 DEF ListingOK
  <2>1. labels[b] \in since[b] /\ shown[b] = NoRow /\ SeenOK(b, listing.rows[b])
    BY <1>0 DEF ListingOK
  <2>2. since'[b] = IF b = a THEN since[b] \cup {{}} ELSE since[b]
    BY <1>0, <1>1 DEF FlTypeOK
  <2> QED BY <2>1, <2>2, <1>1, <1>3 DEF SeenOK
<1>10. ListingWasTrue'
  <2>1. CASE listing = NotListing
    BY <2>1, <1>0, <1>1 DEF ListingWasTrue
  <2>2. CASE listing # NotListing
    BY <2>2, <1>0, <1>1 DEF ListingWasTrue, ListingOK
  <2> QED BY <2>1, <2>2
<1>11. \A b \in Agents : SeenOK(b, agents[b])'
  BY <1>0, <1>1, <1>3 DEF SeenOK
<1> QED BY <1>4, <1>6, <1>7, <1>8, <1>9, <1>10, <1>11 DEF FlInv

\* A listing reads the rows: what it may show starts with the labels of now.
LEMMA ListRowsInv == ASSUME FlInv, ListRows PROVE FlInv'
<1>0. /\ FlTypeOK /\ InsertedOK /\ AloneOK /\ LabelsFollowPuts
      /\ \A b \in Agents : SeenOK(b, agents[b])
  BY DEF FlInv
<1>1. /\ listing' = [busy |-> TRUE, rows |-> agents]
      /\ since' = [a \in Agents |-> {labels[a]}] /\ shown' = [a \in Agents |-> NoRow]
      /\ UNCHANGED <<now, agents, labels, put, nputs, last, mixed, heard>>
  BY DEF ListRows
<1>2. listing' \in [busy : {TRUE}, rows : [Agents -> Rows \cup {NoRow}]] /\ listing'.rows = agents
  BY <1>0, <1>1 DEF FlTypeOK
<1>3. FlTypeOK'
  <2>1. DOMAIN since' = Agents /\ DOMAIN shown' = Agents
    BY <1>1
  <2> QED BY <1>0, <1>1, <1>2, <2>1 DEF FlTypeOK
<1>4. InsertedOK' /\ AloneOK' /\ LabelsFollowPuts'
  BY <1>0, <1>1 DEF InsertedOK, AloneOK, LabelsFollowPuts, Registered, Open
<1>5. ListingOK' /\ ListingWasTrue' /\ \A a \in Agents : SeenOK(a, agents[a])'
  BY <1>0, <1>1, <1>2 DEF ListingOK, ListingWasTrue, SeenOK
<1> QED BY <1>3, <1>4, <1>5 DEF FlInv

\* A listing reads the labels and shows the agents whose rows it read: online only
\* those whose row, and so whose last sign of life, is recent.
LEMMA ListLabelsInv == ASSUME FlInv, ListLabels PROVE FlInv'
<1>0. /\ FlTypeOK /\ InsertedOK /\ AloneOK /\ ListingOK /\ LabelsFollowPuts
      /\ \A b \in Agents : SeenOK(b, agents[b])
  BY DEF FlInv
<1>1. /\ listing # NotListing /\ listing' = NotListing
      /\ UNCHANGED <<now, agents, labels, put, nputs, last, mixed, heard, since>>
  BY DEF ListLabels, tables
<1> DEFINE seen(a) == listing.rows[a].lastSeen
           entry(a) == [labels |-> labels[a], status |-> Status(seen(a), now), silent |-> now - heard[a]]
<1>2. shown' = [a \in Agents |-> IF listing.rows[a] = NoRow THEN NoRow ELSE entry(a)]
  BY DEF ListLabels
<1>3. FlTypeOK'
  <2>1. DOMAIN shown' = Agents
    BY <1>2
  <2> QED BY <1>0, <1>1, <2>1 DEF FlTypeOK
<1>4. InsertedOK' /\ AloneOK' /\ LabelsFollowPuts'
  BY <1>0, <1>1 DEF InsertedOK, AloneOK, LabelsFollowPuts, Registered, Open
<1>5. ListingOK' /\ \A a \in Agents : SeenOK(a, agents[a])'
  BY <1>0, <1>1 DEF ListingOK, SeenOK
<1>6. ListingWasTrue'
  <2> SUFFICES ASSUME NEW a \in Agents, shown'[a] # NoRow
               PROVE  /\ shown'[a].labels \in since[a]
                      /\ shown'[a].status = "online" => shown'[a].silent < StaleAfter
    BY <1>1 DEF ListingWasTrue
  <2>1. listing.rows[a] # NoRow /\ shown'[a] = entry(a)
    BY <1>2
  <2>2. /\ shown'[a].labels = labels[a] /\ shown'[a].status = Status(seen(a), now)
        /\ shown'[a].silent = now - heard[a]
    BY <2>1
  <2>3. labels[a] \in since[a] /\ SeenOK(a, listing.rows[a])
    BY <1>0, <1>1 DEF ListingOK
  <2>4. /\ now \in Nat /\ heard[a] \in Nat /\ StaleAfter \in Nat /\ OfflineAfter \in Nat
        /\ listing.rows[a] \in Rows \cup {NoRow}
    BY <1>0, <1>1, FleetAssumption DEF FlTypeOK
  <2>5. seen(a) \in Nat /\ seen(a) <= heard[a] /\ heard[a] <= now
    BY <2>1, <2>3, <2>4 DEF SeenOK, Rows
  <2> HIDE DEF seen
  <2>6. Status(seen(a), now) = "online" => now - seen(a) < StaleAfter
    BY DEF Status
  <2> QED BY <2>2, <2>3, <2>4, <2>5, <2>6
<1> QED BY <1>3, <1>4, <1>5, <1>6 DEF FlInv

\* A step that changes nothing of the registry.
LEMMA FlStutter == ASSUME FlInv, UNCHANGED flVars PROVE FlInv'
<1>1. UNCHANGED <<now, agents, labels, put, nputs, last, mixed, heard, since, listing, shown>>
  BY DEF flVars, tables
<1>2. FlTypeOK' /\ InsertedOK' /\ AloneOK'
  BY <1>1 DEF FlInv, FlTypeOK, InsertedOK, AloneOK, Registered, Open
<1> QED BY <1>1, <1>2, PutStepInv

\* Labels are those of the last acknowledged put, and a listing shows what held while it
\* ran, whatever puts, deletions, re-registrations and listings overlap (replace_labels,
\* delete_agent, list_agents): for any agents, labels and number of handlers.
THEOREM RegistryIsSafe == FlSpec => []RegistryIsTrue
<1>1. FlInv /\ [FlNext]_flVars => FlInv'
  <2> SUFFICES ASSUME FlInv, [FlNext]_flVars PROVE FlInv'
    OBVIOUS
  <2>1. ASSUME NEW w \in Writers,
               \/ \E a \in Agents, ls \in Puts : PutBegin(w, a, ls)
               \/ PutSnapshot(w) \/ PutDelete(w) \/ PutInsert(w) \/ PutCommit(w) \/ PutAbort(w)
        PROVE  FlInv'
    BY <2>1, PutBeginInv, PutGoesOnInv, PutCommitInv
  <2>2. ASSUME NEW a \in Agents,
               Touch(a) \/ RecordHeartbeat(a) \/ RecordEnrollment(a) \/ DeleteAgent(a)
        PROVE  FlInv'
    BY <2>2, SignsInv, DeleteAgentInv
  <2>3. CASE FlTick \/ ListRows \/ ListLabels
    BY <2>3, FlTickInv, ListRowsInv, ListLabelsInv
  <2> QED BY <2>1, <2>2, <2>3, FlStutter DEF FlNext
<1>2. FlInv => RegistryIsTrue
  BY DEF FlInv, RegistryIsTrue
<1> QED BY <1>1, <1>2, FlInitInv, PTL DEF FlSpec

-----------------------------------------------------------------------------
(* LiveFeed *)

LfSpec == LfInit /\ [][LfNext]_lfVars

Items == [event : Stored \cup {"trip"}, text : Texts \cup {"plain", "agent"}]
Tasks == [event : KubeEvents, delivery : Nat, pc : {"explain", "update", "send"},
          text : Texts \cup {"plain"}]

LfTypeOK ==
  /\ stored \in [Stored -> Texts \cup {"plain", "agent", "none"}]
  /\ ingest \in [Ingesters -> Stored \cup {Unoccupied}]
  /\ feed \in Seq(Items) /\ tasks \subseteq Tasks
  /\ next \in 1..(Len(feed) + 1) /\ lagged \in BOOLEAN
  /\ view \in [Stored -> Texts \cup {"plain", "agent", "none"}]
  /\ delivered \in [Stored -> Nat]

\* What is broadcast, about to be, or explained has a row.
RowsOK ==
  /\ \A i \in Ingesters : ingest[i] # Unoccupied => stored[ingest[i]] # "none"
  /\ \A t \in tasks : stored[t.event] # "none"
  /\ \A n \in 1..Len(feed) : feed[n].event \in Stored => stored[feed[n].event] # "none"

\* The text of the last of the first k items of the feed f that is of e is x.
Latest(f, e, x, k) ==
  IF \E n \in 1..k : f[n].event = e
  THEN \E n \in 1..k : f[n] = [event |-> e, text |-> x] /\ \A m \in (n + 1)..k : f[m].event # e
  ELSE x = "none"

\* The browser of a subscriber that never lagged shows the latest it was forwarded.
ViewOK == ~lagged => \A e \in Stored : Latest(feed, e, view[e], next - 1)

InFeed(e) == \E n \in 1..Len(feed) : feed[n].event = e

\* Of an event delivered once at most: nothing before, then its insert alone, then
\* one task at most, which is ahead of the feed only between its UPDATE and its send.
Once(e) ==
  delivered[e] <= 1 =>
    /\ delivered[e] = 0 => stored[e] = "none" /\ ~InFeed(e) /\ Settled(e) /\ e \notin unknown
    /\ \A i \in Ingesters : ingest[i] = e =>
         /\ \A j \in Ingesters \ {i} : ingest[j] # e
         /\ \A t \in tasks : t.event # e
         /\ ~InFeed(e) /\ stored[e] = Carries(e) /\ e \notin unknown
    /\ \A t \in tasks : t.event = e =>
         /\ \A u \in tasks \ {t} : u.event # e
         /\ InFeed(e) /\ e \notin unknown
         /\ t.pc = "send" => stored[e] = t.text
    /\ InFeed(e) /\ e \notin unknown /\ (\A t \in tasks : t.event = e => t.pc # "send") =>
         Latest(feed, e, stored[e], Len(feed))

LfInv == LfTypeOK /\ RowsOK /\ ViewOK /\ \A e \in Stored : Once(e)

\* Latest reads the first k items alone.
LEMMA LatestReads ==
  ASSUME NEW f, NEW g, NEW e, NEW x, NEW k \in Nat, \A n \in 1..k : f[n] = g[n]
  PROVE  Latest(f, e, x, k) <=> Latest(g, e, x, k)
<1>1. (\E n \in 1..k : f[n].event = e) <=> (\E n \in 1..k : g[n].event = e)
  OBVIOUS
<1>2. \A n \in 1..k : \A m \in (n + 1)..k : f[m] = g[m]
  OBVIOUS
<1>3. (\E n \in 1..k : f[n] = [event |-> e, text |-> x] /\ \A m \in (n + 1)..k : f[m].event # e)
      <=> (\E n \in 1..k : g[n] = [event |-> e, text |-> x] /\ \A m \in (n + 1)..k : g[m].event # e)
  BY <1>2
<1> QED BY <1>1, <1>3 DEF Latest

\* One more item, of another event: the latest is what it was.
LEMMA LatestOther ==
  ASSUME NEW f, NEW e, NEW x, NEW k \in Nat, f[k + 1].event # e, Latest(f, e, x, k)
  PROVE  Latest(f, e, x, k + 1)
<1>1. 1..(k + 1) = 1..k \cup {k + 1}
  OBVIOUS
<1>2. CASE \E n \in 1..k : f[n].event = e
  <2>1. PICK n \in 1..k : f[n] = [event |-> e, text |-> x] /\ \A m \in (n + 1)..k : f[m].event # e
    BY <1>2 DEF Latest
  <2>2. \A m \in (n + 1)..(k + 1) : m \in (n + 1)..k \/ m = k + 1
    OBVIOUS
  <2>3. n \in 1..(k + 1) /\ \A m \in (n + 1)..(k + 1) : f[m].event # e
    BY <2>1, <2>2
  <2>4. \E j \in 1..(k + 1) : f[j].event = e
    BY <1>1, <1>2
  <2> QED BY <2>1, <2>3, <2>4 DEF Latest
<1>3. CASE ~\E n \in 1..k : f[n].event = e
  <2>1. ~\E n \in 1..(k + 1) : f[n].event = e
    BY <1>1, <1>3
  <2> QED BY <1>3, <2>1 DEF Latest
<1> QED BY <1>2, <1>3

\* One more item, of this event: it is the latest.
LEMMA LatestThis ==
  ASSUME NEW f, NEW e, NEW x, NEW k \in Nat, f[k + 1] = [event |-> e, text |-> x]
  PROVE  Latest(f, e, x, k + 1)
<1>1. k + 1 \in 1..(k + 1) /\ f[k + 1].event = e /\ (k + 1 + 1)..(k + 1) = {}
  OBVIOUS
<1> QED BY <1>1 DEF Latest

\* There is one latest text.
LEMMA LatestUnique ==
  ASSUME NEW f, NEW e, NEW x, NEW y, NEW k \in Nat, Latest(f, e, x, k), Latest(f, e, y, k)
  PROVE  x = y
<1>1. CASE \E n \in 1..k : f[n].event = e
  <2>1. PICK n \in 1..k : f[n] = [event |-> e, text |-> x] /\ \A m \in (n + 1)..k : f[m].event # e
    BY <1>1 DEF Latest
  <2>2. PICK j \in 1..k : f[j] = [event |-> e, text |-> y] /\ \A m \in (j + 1)..k : f[m].event # e
    BY <1>1 DEF Latest
  <2>3. f[n].event = e /\ f[j].event = e /\ f[n].text = x /\ f[j].text = y
    BY <2>1, <2>2
  <2>4. ~(n < j) /\ ~(j < n)
    BY <2>1, <2>2, <2>3
  <2>5. n = j
    BY <2>4
  <2> QED BY <2>3, <2>5
<1>2. CASE ~\E n \in 1..k : f[n].event = e
  BY <1>2 DEF Latest
<1> QED BY <1>1, <1>2

\* A broadcast appends an item; those before it stay, and so do the latest of them.
LEMMA BroadcastEffect ==
  ASSUME feed \in Seq(Items), NEW e \in Stored \cup {"trip"}, NEW text \in Texts \cup {"plain", "agent"},
         Broadcast(e, text)
  PROVE  /\ feed' \in Seq(Items) /\ Len(feed') = Len(feed) + 1 /\ Len(feed) \in Nat
         /\ feed'[Len(feed) + 1] = [event |-> e, text |-> text]
         /\ \A n \in 1..Len(feed) : feed'[n] = feed[n]
         /\ \A x : InFeed(x)' <=> InFeed(x) \/ x = e
<1> DEFINE item == [event |-> e, text |-> text]
<1>1. item \in Items /\ item.event = e
  BY DEF Items
<1>2. feed' = Append(feed, item)
  BY DEF Broadcast
<1> HIDE DEF item
<1>3. /\ feed' \in Seq(Items) /\ Len(feed') = Len(feed) + 1 /\ Len(feed) \in Nat
      /\ feed'[Len(feed) + 1] = item
      /\ \A n \in 1..Len(feed) : feed'[n] = feed[n]
  BY <1>1, <1>2
<1>4. 1..Len(feed') = 1..Len(feed) \cup {Len(feed) + 1}
  BY <1>3
<1>5. \A x : InFeed(x)' <=> InFeed(x) \/ x = e
  BY <1>1, <1>3, <1>4 DEF InFeed
<1> QED BY <1>3, <1>5 DEF item

\* The view is of what was forwarded: a broadcast does not change it.
LEMMA ViewStays ==
  ASSUME LfTypeOK, ViewOK, UNCHANGED <<next, lagged, view>>, \A n \in 1..Len(feed) : feed'[n] = feed[n]
  PROVE  ViewOK'
<1> SUFFICES ASSUME ~lagged, NEW e \in Stored PROVE Latest(feed', e, view[e], next - 1)
  BY DEF ViewOK
<1>1. Latest(feed, e, view[e], next - 1)
  BY DEF ViewOK
<1>2. next - 1 \in Nat /\ next - 1 <= Len(feed) /\ Len(feed) \in Nat
  BY DEF LfTypeOK
<1>3. \A n \in 1..(next - 1) : feed[n] = feed'[n]
  BY <1>2
<1> QED BY <1>1, <1>2, <1>3, LatestReads

\* An event that a step is not about keeps its story.
LEMMA OnceStays ==
  ASSUME LfTypeOK, NEW x \in Stored, Once(x),
         delivered'[x] = delivered[x], stored'[x] = stored[x], x \in unknown' <=> x \in unknown,
         \A i \in Ingesters : ingest'[i] = x <=> ingest[i] = x,
         {t \in tasks' : t.event = x} = {t \in tasks : t.event = x},
         \/ feed' = feed
         \/ \E e \in (Stored \cup {"trip"}) \ {x}, text \in Texts \cup {"plain", "agent"} : Broadcast(e, text)
  PROVE  Once(x)'
<1>0. Len(feed) \in Nat /\ feed \in Seq(Items)
  BY DEF LfTypeOK
<1>1. /\ InFeed(x)' <=> InFeed(x)
      /\ \A y : Latest(feed, x, y, Len(feed)) => Latest(feed', x, y, Len(feed'))
  <2>1. CASE feed' = feed
    BY <2>1 DEF InFeed
  <2>2. ASSUME NEW e \in (Stored \cup {"trip"}) \ {x}, NEW text \in Texts \cup {"plain", "agent"}, Broadcast(e, text)
        PROVE  /\ InFeed(x)' <=> InFeed(x)
               /\ \A y : Latest(feed, x, y, Len(feed)) => Latest(feed', x, y, Len(feed'))
    <3>1. /\ Len(feed') = Len(feed) + 1 /\ feed'[Len(feed) + 1] = [event |-> e, text |-> text]
          /\ \A n \in 1..Len(feed) : feed'[n] = feed[n]
          /\ InFeed(x)' <=> InFeed(x) \/ x = e
      BY <1>0, <2>2, BroadcastEffect
    <3>2. feed'[Len(feed) + 1].event # x
      BY <3>1
    <3>3. ASSUME NEW y, Latest(feed, x, y, Len(feed)) PROVE Latest(feed', x, y, Len(feed'))
      <4>1. Latest(feed', x, y, Len(feed))
        BY <1>0, <3>1, <3>3, LatestReads
      <4>2. Latest(feed', x, y, Len(feed) + 1)
        BY <1>0, <3>2, <4>1, LatestOther
      <4> QED BY <3>1, <4>2
    <3> QED BY <3>1, <3>3
  <2> QED BY <2>1, <2>2
<1>2. \A t : t \in tasks' /\ t.event = x <=> t \in tasks /\ t.event = x
  <2>1. \A t : t \in {u \in tasks' : u.event = x} <=> t \in {u \in tasks : u.event = x}
    OBVIOUS
  <2> QED BY <2>1
<1>3. Settled(x)' <=> Settled(x)
  BY <1>2 DEF Settled
<1> SUFFICES ASSUME delivered[x] <= 1
             PROVE  /\ delivered[x] = 0 => stored[x] = "none" /\ ~InFeed(x)' /\ Settled(x)' /\ x \notin unknown'
                    /\ \A i \in Ingesters : ingest'[i] = x =>
                         /\ \A j \in Ingesters \ {i} : ingest'[j] # x
                         /\ \A t \in tasks' : t.event # x
                         /\ ~InFeed(x)' /\ stored[x] = Carries(x) /\ x \notin unknown'
                    /\ \A t \in tasks' : t.event = x =>
                         /\ \A u \in tasks' \ {t} : u.event # x
                         /\ InFeed(x)' /\ x \notin unknown'
                         /\ t.pc = "send" => stored[x] = t.text
                    /\ InFeed(x)' /\ x \notin unknown' /\ (\A t \in tasks' : t.event = x => t.pc # "send") =>
                         Latest(feed', x, stored[x], Len(feed'))
  BY DEF Once, Carries
<1>4. /\ delivered[x] = 0 => stored[x] = "none" /\ ~InFeed(x) /\ Settled(x) /\ x \notin unknown
      /\ \A i \in Ingesters : ingest[i] = x =>
           /\ \A j \in Ingesters \ {i} : ingest[j] # x
           /\ \A t \in tasks : t.event # x
           /\ ~InFeed(x) /\ stored[x] = Carries(x) /\ x \notin unknown
      /\ \A t \in tasks : t.event = x =>
           /\ \A u \in tasks \ {t} : u.event # x
           /\ InFeed(x) /\ x \notin unknown
           /\ t.pc = "send" => stored[x] = t.text
      /\ InFeed(x) /\ x \notin unknown /\ (\A t \in tasks : t.event = x => t.pc # "send") =>
           Latest(feed, x, stored[x], Len(feed))
  BY DEF Once
<1> QED BY <1>1, <1>2, <1>3, <1>4

\* The feed starts empty.
LEMMA LfInitInv == LfInit => LfInv
<1> SUFFICES ASSUME LfInit PROVE LfInv
  OBVIOUS
<1>1. Len(feed) = 0 /\ feed = <<>> /\ next = 1 /\ 1 - 1 = 0 /\ 1..0 = {}
  BY DEF LfInit
<1>2. LfTypeOK
  <2>1. next \in 1..(Len(feed) + 1) /\ feed \in Seq(Items)
    BY <1>1
  <2>2. /\ stored \in [Stored -> Texts \cup {"plain", "agent", "none"}]
        /\ view \in [Stored -> Texts \cup {"plain", "agent", "none"}]
        /\ ingest \in [Ingesters -> Stored \cup {Unoccupied}]
        /\ delivered \in [Stored -> Nat] /\ tasks = {} /\ lagged = FALSE
    BY DEF LfInit
  <2> QED BY <2>1, <2>2 DEF LfTypeOK
<1>3. RowsOK
  BY <1>1 DEF LfInit, RowsOK, Unoccupied
<1>4. ViewOK
  BY <1>1 DEF LfInit, ViewOK, Latest
<1>5. \A e \in Stored : Once(e)
  <2>1. \A e \in Stored : e # Unoccupied
    BY LiveFeedAssumption DEF Stored, Unoccupied
  <2> QED BY <1>1, <2>1 DEF LfInit, Once, InFeed, Settled
<1> QED BY <1>2, <1>3, <1>4, <1>5 DEF LfInv

\* What a row may be given.
LEMMA ExplanationTypes ==
  /\ \A e : Carries(e) \in {"plain", "agent"} /\ Carries(e) # "none"
  /\ \A t \in Tasks : t.text # "none" /\ t.text \in Texts \cup {"plain"} /\ t.event \in KubeEvents
  /\ KubeEvents \subseteq Stored /\ "trip" \notin Stored /\ Unoccupied \notin Stored
  BY LiveFeedAssumption DEF Carries, Tasks, Stored, Unoccupied

\* A row, once there, stays: so do the facts about rows while nobody joins.
LEMMA RowsStay ==
  ASSUME LfTypeOK, RowsOK, UNCHANGED feed,
         \A x \in Stored : stored[x] # "none" => stored'[x] # "none",
         \A i \in Ingesters : ingest'[i] # ingest[i] /\ ingest'[i] # Unoccupied => stored'[ingest'[i]] # "none",
         \A t \in tasks' : \E u \in tasks : u.event = t.event
  PROVE  RowsOK'
<1>1. /\ \A i \in Ingesters : ingest[i] \in Stored \cup {Unoccupied}
      /\ \A t \in tasks : t.event \in Stored
  BY ExplanationTypes DEF LfTypeOK
<1>2. \A i \in Ingesters : ingest'[i] # Unoccupied => stored'[ingest'[i]] # "none"
  BY <1>1 DEF RowsOK
<1>3. \A t \in tasks' : stored'[t.event] # "none"
  BY <1>1 DEF RowsOK
<1>4. \A n \in 1..Len(feed) : feed[n].event \in Stored => stored'[feed[n].event] # "none"
  BY DEF RowsOK
<1> QED BY <1>2, <1>3, <1>4 DEF RowsOK

\* An event is stored, or its INSERT fails after it took effect or before.
LEMMA InsertInv ==
  ASSUME LfInv, NEW i \in Ingesters, NEW e \in Stored, InsertEvent(i, e) \/ InsertEventFails(i, e)
  PROVE  LfInv'
<1>0. LfTypeOK /\ RowsOK /\ ViewOK /\ \A x \in Stored : Once(x)
  BY DEF LfInv
<1>1. /\ ingest[i] = Unoccupied
      /\ delivered' = [delivered EXCEPT ![e] = delivered[e] + 1]
      /\ \/ stored' = stored /\ ingest' = ingest
         \/ /\ stored' = [stored EXCEPT ![e] = IF stored[e] = "none" THEN Carries(e) ELSE stored[e]]
            /\ ingest' = ingest \/ ingest' = [ingest EXCEPT ![i] = e]
      /\ UNCHANGED <<feed, tasks, next, lagged, view, unknown, tripped>>
  BY DEF InsertEvent, InsertEventFails
<1>2. /\ \A x \in Stored : delivered'[x] = IF x = e THEN delivered[x] + 1 ELSE delivered[x]
      /\ \A x \in Stored : delivered[x] \in Nat
      /\ stored[e] # "none" => stored'[e] # "none"
      /\ \A x \in Stored : x # e => stored'[x] = stored[x]
      /\ stored' = stored \/ (stored'[e] # "none" /\ (stored[e] = "none" => stored'[e] = Carries(e)))
  BY <1>0, <1>1, ExplanationTypes DEF LfTypeOK
<1>3. \/ \A j \in Ingesters : ingest'[j] = ingest[j]
      \/ /\ \A j \in Ingesters : ingest'[j] = IF j = i THEN e ELSE ingest[j]
         /\ stored'[e] # "none" /\ (stored[e] = "none" => stored'[e] = Carries(e))
  BY <1>0, <1>1, <1>2, ExplanationTypes DEF LfTypeOK
<1>4. LfTypeOK'
  <2>1. delivered' \in [Stored -> Nat]
    BY <1>0, <1>1 DEF LfTypeOK
  <2>2. stored' \in [Stored -> Texts \cup {"plain", "agent", "none"}]
    BY <1>0, <1>1, ExplanationTypes DEF LfTypeOK
  <2>3. ingest' \in [Ingesters -> Stored \cup {Unoccupied}]
    BY <1>0, <1>1 DEF LfTypeOK
  <2> QED BY <1>0, <1>1, <2>1, <2>2, <2>3 DEF LfTypeOK
<1>5. RowsOK'
  <2>1. \A x \in Stored : stored[x] # "none" => stored'[x] # "none"
    BY <1>2
  <2>2. \A j \in Ingesters : ingest'[j] # ingest[j] => stored'[ingest'[j]] # "none"
    BY <1>3
  <2> QED BY <1>0, <1>1, <2>1, <2>2, RowsStay
<1>6. ViewOK'
  BY <1>0, <1>1, ViewStays
<1>7. ASSUME NEW x \in Stored PROVE Once(x)'
  <2>1. CASE x = e
    <3> SUFFICES ASSUME delivered'[e] <= 1 PROVE Once(e)'
      BY <2>1 DEF Once
    <3>1. delivered[e] = 0 /\ delivered'[e] = 1
      BY <1>2
    <3>2. stored[e] = "none" /\ ~InFeed(e) /\ Settled(e) /\ e \notin unknown
      BY <1>0, <3>1 DEF Once
    <3>3. ~InFeed(e)'
      BY <3>2, <1>1 DEF InFeed
    <3>4. /\ \A t \in tasks' : t.event # e
          /\ \A j \in Ingesters : ingest'[j] = e => /\ \A k \in Ingesters \ {j} : ingest'[k] # e
                                                    /\ stored'[e] = Carries(e)
      BY <3>2, <1>1, <1>3 DEF Settled
    <3> QED BY <3>1, <3>2, <3>3, <3>4, <1>1 DEF Once, Carries
  <2>2. CASE x # e
    <3>1. /\ delivered'[x] = delivered[x] /\ stored'[x] = stored[x]
          /\ \A j \in Ingesters : ingest'[j] = x <=> ingest[j] = x
      BY <2>2, <1>1, <1>2, <1>3, ExplanationTypes
    <3> QED BY <1>0, <1>1, <3>1, OnceStays
  <2> QED BY <2>1, <2>2
<1> QED BY <1>4, <1>5, <1>6, <1>7 DEF LfInv

\* What is broadcast has a row; what was broadcast keeps it.
LEMMA RowsAfterBroadcast ==
  ASSUME LfTypeOK, RowsOK, UNCHANGED stored, NEW e \in Stored \cup {"trip"},
         NEW text \in Texts \cup {"plain", "agent"}, Broadcast(e, text),
         e \in Stored => stored[e] # "none",
         \A i \in Ingesters : ingest'[i] = ingest[i] \/ ingest'[i] = Unoccupied,
         \A t \in tasks' : t \in tasks \/ (t.event = e /\ e \in Stored)
  PROVE  RowsOK'
<1>1. /\ Len(feed') = Len(feed) + 1 /\ Len(feed) \in Nat
      /\ feed'[Len(feed) + 1] = [event |-> e, text |-> text]
      /\ \A n \in 1..Len(feed) : feed'[n] = feed[n]
  BY BroadcastEffect DEF LfTypeOK
<1>2. feed'[Len(feed) + 1].event = e
  BY <1>1
<1>3. \A n \in 1..Len(feed') : n \in 1..Len(feed) \/ n = Len(feed) + 1
  BY <1>1
<1>4. \A n \in 1..Len(feed') : feed'[n].event \in Stored => stored[feed'[n].event] # "none"
  BY <1>1, <1>2, <1>3 DEF RowsOK
<1>5. \A i \in Ingesters : ingest'[i] # Unoccupied => stored[ingest'[i]] # "none"
  BY DEF RowsOK
<1>6. \A t \in tasks' : stored[t.event] # "none"
  BY DEF RowsOK
<1> QED BY <1>4, <1>5, <1>6 DEF RowsOK

\* A stored event is broadcast as it came, and one of Kubernetes gets its task.
LEMMA SendEventInv == ASSUME LfInv, NEW i \in Ingesters, SendEvent(i) PROVE LfInv'
<1>0. LfTypeOK /\ RowsOK /\ ViewOK /\ \A x \in Stored : Once(x)
  BY DEF LfInv
<1>e. PICK e : e = ingest[i]
  OBVIOUS
<1>1. /\ e # Unoccupied /\ Broadcast(e, Carries(e)) /\ tasks' = tasks \cup Explained(e)
      /\ ingest' = [ingest EXCEPT ![i] = Unoccupied]
      /\ UNCHANGED <<stored, next, lagged, view, delivered, unknown, tripped>>
  BY <1>e DEF SendEvent
<1>2. e \in Stored /\ Carries(e) \in Texts \cup {"plain", "agent"} /\ stored[e] # "none"
  BY <1>e, <1>0, <1>1, ExplanationTypes DEF LfTypeOK, RowsOK
<1>3. \A j \in Ingesters : ingest'[j] = IF j = i THEN Unoccupied ELSE ingest[j]
  BY <1>0, <1>1 DEF LfTypeOK
<1>4. /\ Explained(e) \subseteq Tasks /\ \A t \in Explained(e) : t.event = e /\ t.pc = "explain"
      /\ \A t, u \in Explained(e) : t = u
  <2>1. delivered[e] \in Nat
    BY <1>0, <1>2 DEF LfTypeOK
  <2> QED BY <2>1 DEF Explained, Task, Tasks
<1>5. /\ feed' \in Seq(Items) /\ Len(feed') = Len(feed) + 1 /\ Len(feed) \in Nat
      /\ feed'[Len(feed) + 1] = [event |-> e, text |-> Carries(e)]
      /\ \A n \in 1..Len(feed) : feed'[n] = feed[n]
      /\ \A x : InFeed(x)' <=> InFeed(x) \/ x = e
  BY <1>0, <1>1, <1>2, BroadcastEffect DEF LfTypeOK
<1>6. LfTypeOK'
  <2>1. tasks' \subseteq Tasks
    BY <1>0, <1>1, <1>4 DEF LfTypeOK
  <2>2. next \in 1..(Len(feed') + 1)
    BY <1>0, <1>5 DEF LfTypeOK
  <2>3. ingest' \in [Ingesters -> Stored \cup {Unoccupied}]
    BY <1>0, <1>1 DEF LfTypeOK
  <2> QED BY <1>0, <1>1, <1>5, <2>1, <2>2, <2>3 DEF LfTypeOK
<1>7. RowsOK'
  <2>1. \A t \in tasks' : t \in tasks \/ (t.event = e /\ e \in Stored)
    BY <1>1, <1>2, <1>4
  <2> QED BY <1>0, <1>1, <1>2, <1>3, <2>1, RowsAfterBroadcast
<1>8. ViewOK'
  BY <1>0, <1>1, <1>5, ViewStays
<1>9. ASSUME NEW x \in Stored PROVE Once(x)'
  <2>1. CASE x = e
    <3> SUFFICES ASSUME delivered[e] <= 1 PROVE Once(e)'
      BY <1>1, <2>1 DEF Once
    <3>1. /\ \A j \in Ingesters \ {i} : ingest[j] # e
          /\ \A t \in tasks : t.event # e
          /\ stored[e] = Carries(e) /\ e \notin unknown
      BY <1>e, <1>0, <1>2 DEF Once
    <3>2. delivered[e] # 0
      BY <1>e, <1>0, <1>2 DEF Once, Settled
    <3>3. \A j \in Ingesters : ingest'[j] # e
      BY <1>2, <1>3, <3>1, ExplanationTypes
    <3>4. \A t \in tasks' : t.event = e => t.pc = "explain" /\ \A u \in tasks' \ {t} : u.event # e
      BY <1>1, <1>4, <3>1
    <3>5. Latest(feed', e, stored'[e], Len(feed'))
      BY <1>1, <1>5, <3>1, LatestThis
    <3> QED BY <1>1, <1>5, <3>1, <3>2, <3>3, <3>4, <3>5 DEF Once
  <2>2. CASE x # e
    <3>1. \A j \in Ingesters : ingest'[j] = x <=> ingest[j] = x
      BY <1>e, <2>2, <1>3, ExplanationTypes
    <3>2. {t \in tasks' : t.event = x} = {t \in tasks : t.event = x}
      BY <2>2, <1>1, <1>4
    <3> QED BY <2>2, <1>0, <1>1, <1>2, <3>1, <3>2, OnceStays
  <2> QED BY <2>1, <2>2
<1> QED BY <1>6, <1>7, <1>8, <1>9 DEF LfInv

\* A task goes on or is gone, and has perhaps written the explanation: it is the only
\* one of an event delivered once.
LEMMA TaskGoesOnInv ==
  ASSUME LfInv, NEW t \in tasks,
         \/ \E text \in Texts : ExplainAnswers(t, text)
         \/ TaskFails(t) \/ UpdateExplanation(t)
  PROVE  LfInv'
<1>0. LfTypeOK /\ RowsOK /\ ViewOK /\ \A x \in Stored : Once(x)
  BY DEF LfInv
<1>e. PICK e : e = t.event
  OBVIOUS
<1>1. t \in Tasks /\ e \in Stored /\ t.text # "none" /\ t.text \in Texts \cup {"plain"}
  BY <1>0, <1>e, ExplanationTypes DEF LfTypeOK
<1>2. UNCHANGED <<ingest, feed, next, lagged, view, delivered, tripped>> /\ t.pc # "send"
  <2>1. t.pc \in {"explain", "update"}
    BY DEF ExplainAnswers, TaskFails, UpdateExplanation
  <2> QED BY <2>1 DEF ExplainAnswers, TaskFails, UpdateExplanation
<1>3. \/ /\ tasks' = tasks \ {t}
         /\ \/ UNCHANGED <<stored, unknown>>
            \/ stored' = [stored EXCEPT ![e] = t.text] /\ unknown' = unknown \cup {e}
      \/ \E u \in Tasks : /\ tasks' = (tasks \ {t}) \cup {u} /\ u.event = e /\ UNCHANGED unknown
                          /\ \/ UNCHANGED stored /\ u.pc # "send"
                             \/ stored' = [stored EXCEPT ![e] = t.text] /\ u.text = t.text /\ u.pc = "send"
  <2>1. ASSUME NEW text \in Texts, ExplainAnswers(t, text)
        PROVE  \E u \in Tasks : /\ tasks' = (tasks \ {t}) \cup {u} /\ u.event = e /\ UNCHANGED <<stored, unknown>>
                                /\ u.pc # "send"
    <3> DEFINE u == [t EXCEPT !.pc = "update", !.text = text]
    <3>1. u \in Tasks /\ u.event = e /\ u.pc # "send"
      BY <1>1, <1>e DEF Tasks
    <3>2. tasks' = (tasks \ {t}) \cup {u} /\ UNCHANGED <<stored, unknown>>
      BY <2>1 DEF ExplainAnswers
    <3> HIDE DEF u
    <3> QED BY <3>1, <3>2
  <2>2. CASE TaskFails(t)
    BY <2>2, <1>e DEF TaskFails
  <2>3. ASSUME UpdateExplanation(t)
        PROVE  \E u \in Tasks : /\ tasks' = (tasks \ {t}) \cup {u} /\ u.event = e /\ UNCHANGED unknown
                                /\ stored' = [stored EXCEPT ![e] = t.text] /\ u.text = t.text /\ u.pc = "send"
    <3> DEFINE u == [t EXCEPT !.pc = "send"]
    <3>1. u \in Tasks /\ u.event = e /\ u.pc = "send" /\ u.text = t.text
      BY <1>1, <1>e DEF Tasks
    <3>2. /\ tasks' = (tasks \ {t}) \cup {u} /\ UNCHANGED unknown
          /\ stored' = [stored EXCEPT ![e] = t.text]
      BY <2>3, <1>e DEF UpdateExplanation
    <3> HIDE DEF u
    <3> QED BY <3>1, <3>2
  <2> QED BY <2>1, <2>2, <2>3
<1>4. /\ tasks' \subseteq Tasks
      /\ \A u \in tasks' : u \in tasks \/ u.event = e
  BY <1>0, <1>3 DEF LfTypeOK
<1>5. stored' = stored \/ stored' = [stored EXCEPT ![e] = t.text]
  BY <1>3
<1>6. /\ \A x \in Stored : x # e => stored'[x] = stored[x]
      /\ stored' = stored \/ stored'[e] = t.text
  BY <1>0, <1>1, <1>5 DEF LfTypeOK
<1>7. LfTypeOK'
  <2>1. stored' \in [Stored -> Texts \cup {"plain", "agent", "none"}]
    BY <1>0, <1>1, <1>5 DEF LfTypeOK
  <2> QED BY <1>0, <1>2, <1>4, <2>1 DEF LfTypeOK
<1>8. RowsOK'
  <2>1. \A x \in Stored : stored[x] # "none" => stored'[x] # "none"
    BY <1>1, <1>6
  <2>2. \A u \in tasks' : \E v \in tasks : v.event = u.event
    BY <1>4, <1>e
  <2> QED BY <1>0, <1>2, <2>1, <2>2, RowsStay
<1>9. ViewOK'
  BY <1>0, <1>2, ViewStays
<1>10. ASSUME NEW x \in Stored PROVE Once(x)'
  <2>1. CASE x = e
    <3> SUFFICES ASSUME delivered[e] <= 1 PROVE Once(e)'
      BY <1>2, <2>1 DEF Once
    <3>1. /\ \A u \in tasks \ {t} : u.event # e
          /\ InFeed(e) /\ e \notin unknown
          /\ \A j \in Ingesters : ingest[j] # e
      BY <1>0, <1>1, <1>e DEF Once
    <3>2. delivered[e] # 0
      BY <1>0, <1>1, <1>e DEF Once, Settled
    <3>3. Latest(feed, e, stored[e], Len(feed))
      <4>1. \A u \in tasks : u.event = e => u.pc # "send"
        BY <3>1, <1>2
      <4> QED BY <4>1, <3>1, <1>0, <1>1 DEF Once
    <3>4. InFeed(e)'
      BY <3>1, <1>2 DEF InFeed
    <3>5. CASE /\ tasks' = tasks \ {t}
               /\ \/ UNCHANGED <<stored, unknown>>
                  \/ stored' = [stored EXCEPT ![e] = t.text] /\ unknown' = unknown \cup {e}
      <4>1. \A u \in tasks' : u.event # e
        BY <3>1, <3>5
      <4>2. e \notin unknown' => stored' = stored
        BY <3>5
      <4> QED BY <4>1, <4>2, <3>1, <3>2, <3>3, <1>2 DEF Once
    <3>6. ASSUME NEW u \in Tasks, tasks' = (tasks \ {t}) \cup {u}, u.event = e, UNCHANGED unknown,
                 \/ UNCHANGED stored /\ u.pc # "send"
                 \/ stored' = [stored EXCEPT ![e] = t.text] /\ u.text = t.text /\ u.pc = "send"
          PROVE  Once(e)'
      <4>1. \A v \in tasks' : v.event = e <=> v = u
        BY <3>1, <3>6
      <4>2. u.pc = "send" => stored'[e] = u.text
        BY <3>6, <1>0, <1>1 DEF LfTypeOK
      <4>3. u.pc # "send" => stored' = stored
        BY <3>6
      <4>4. \A v \in tasks' \ {u} : v.event # e
        BY <4>1
      <4>5. u \in tasks'
        BY <3>6
      <4> QED BY <4>1, <4>2, <4>3, <4>4, <4>5, <3>1, <3>2, <3>3, <3>4, <3>6, <1>2 DEF Once
    <3> QED BY <3>5, <3>6, <1>3
  <2>2. CASE x # e
    <3>1. stored'[x] = stored[x]
      BY <2>2, <1>6
    <3>2. {u \in tasks' : u.event = x} = {u \in tasks : u.event = x}
      BY <2>2, <1>3, <1>e
    <3>3. x \in unknown' <=> x \in unknown
      BY <2>2, <1>3
    <3> QED BY <1>0, <1>2, <3>1, <3>2, <3>3, OnceStays
  <2> QED BY <2>1, <2>2
<1> QED BY <1>7, <1>8, <1>9, <1>10 DEF LfInv

\* The explained event is broadcast: now the feed ends, for it, with what the table has.
LEMMA SendExplainedInv == ASSUME LfInv, NEW t \in tasks, SendExplained(t) PROVE LfInv'
<1>0. LfTypeOK /\ RowsOK /\ ViewOK /\ \A x \in Stored : Once(x)
  BY DEF LfInv
<1>e. PICK e : e = t.event
  OBVIOUS
<1>1. /\ t.pc = "send" /\ Broadcast(e, t.text) /\ tasks' = tasks \ {t}
      /\ UNCHANGED <<stored, ingest, next, lagged, view, delivered, unknown, tripped>>
  BY <1>e DEF SendExplained
<1>2. e \in Stored /\ t.text \in Texts \cup {"plain", "agent"} /\ stored[e] # "none"
  BY <1>0, <1>e, ExplanationTypes DEF LfTypeOK, RowsOK
<1>3. /\ feed' \in Seq(Items) /\ Len(feed') = Len(feed) + 1 /\ Len(feed) \in Nat
      /\ feed'[Len(feed) + 1] = [event |-> e, text |-> t.text]
      /\ \A n \in 1..Len(feed) : feed'[n] = feed[n]
      /\ \A x : InFeed(x)' <=> InFeed(x) \/ x = e
  BY <1>0, <1>1, <1>2, BroadcastEffect DEF LfTypeOK
<1>4. LfTypeOK'
  <2>1. next \in 1..(Len(feed') + 1)
    BY <1>0, <1>3 DEF LfTypeOK
  <2> QED BY <1>0, <1>1, <1>3, <2>1 DEF LfTypeOK
<1>5. RowsOK'
  BY <1>0, <1>1, <1>2, RowsAfterBroadcast
<1>6. ViewOK'
  BY <1>0, <1>1, <1>3, ViewStays
<1>7. ASSUME NEW x \in Stored PROVE Once(x)'
  <2>1. CASE x = e
    <3> SUFFICES ASSUME delivered[e] <= 1 PROVE Once(e)'
      BY <1>1, <2>1 DEF Once
    <3>1. /\ \A u \in tasks \ {t} : u.event # e
          /\ e \notin unknown /\ stored[e] = t.text
          /\ \A j \in Ingesters : ingest[j] # e
      BY <1>0, <1>1, <1>2, <1>e DEF Once
    <3>2. delivered[e] # 0
      BY <1>0, <1>2, <1>e DEF Once, Settled
    <3>3. Latest(feed', e, stored'[e], Len(feed'))
      BY <1>1, <1>3, <3>1, LatestThis
    <3> QED BY <1>1, <3>1, <3>2, <3>3 DEF Once
  <2>2. CASE x # e
    <3>1. {u \in tasks' : u.event = x} = {u \in tasks : u.event = x}
      BY <2>2, <1>1, <1>e
    <3> QED BY <2>2, <1>0, <1>1, <1>2, <3>1, OnceStays
  <2> QED BY <2>1, <2>2
<1> QED BY <1>4, <1>5, <1>6, <1>7 DEF LfInv

\* A synthetic event is of no stored one.
LEMMA EmitTripInv == ASSUME LfInv, EmitTrip PROVE LfInv'
<1>0. LfTypeOK /\ RowsOK /\ ViewOK /\ \A x \in Stored : Once(x)
  BY DEF LfInv
<1>1. /\ Broadcast("trip", "plain")
      /\ UNCHANGED <<stored, ingest, tasks, next, lagged, view, delivered, unknown>>
  BY DEF EmitTrip
<1>2. /\ feed' \in Seq(Items) /\ Len(feed') = Len(feed) + 1 /\ Len(feed) \in Nat
      /\ \A n \in 1..Len(feed) : feed'[n] = feed[n]
  BY <1>0, <1>1, BroadcastEffect DEF LfTypeOK
<1>3. LfTypeOK'
  <2>1. next \in 1..(Len(feed') + 1)
    BY <1>0, <1>2 DEF LfTypeOK
  <2> QED BY <1>0, <1>1, <1>2, <2>1 DEF LfTypeOK
<1>4. RowsOK'
  <2>1. PICK e, text : e = "trip" /\ text = "plain"
    OBVIOUS
  <2>4. e \in Stored \cup {"trip"} /\ e \notin Stored /\ text \in Texts \cup {"plain", "agent"} /\ Broadcast(e, text)
    BY <1>1, <2>1, ExplanationTypes
  <2>2. /\ \A i \in Ingesters : ingest'[i] = ingest[i] \/ ingest'[i] = Unoccupied
        /\ stored' = stored
    BY <1>1
  <2>3. \A t \in tasks' : t \in tasks \/ (t.event = e /\ e \in Stored)
    BY <1>1
  <2>5. e \in Stored => stored[e] # "none"
    BY <2>4
  <2> QED BY ONLY <1>0, <2>2, <2>3, <2>4, <2>5, RowsAfterBroadcast
<1>5. ViewOK'
  BY <1>0, <1>1, <1>2, ViewStays
<1>6. \A x \in Stored : Once(x)'
  <2>1. \A x \in Stored : "trip" \in (Stored \cup {"trip"}) \ {x}
    BY ExplanationTypes
  <2> QED BY <1>0, <1>1, <2>1, OnceStays
<1> QED BY <1>3, <1>4, <1>5, <1>6 DEF LfInv

\* The subscriber forwards the next item, or skips to the oldest kept.
LEMMA SubscriberInv == ASSUME LfInv, Forward \/ Lag PROVE LfInv'
<1>0. LfTypeOK /\ RowsOK /\ ViewOK /\ \A x \in Stored : Once(x)
  BY DEF LfInv
<1>1. UNCHANGED <<stored, ingest, feed, tasks, delivered, unknown, tripped>>
  BY DEF Forward, Lag
<1>2. RowsOK' /\ \A x \in Stored : Once(x)'
  <2>1. \A x \in Stored : Once(x)'
    BY <1>0, <1>1, OnceStays
  <2> QED BY <1>0, <1>1, <2>1 DEF RowsOK
<1>3. Len(feed) \in Nat /\ next \in 1..(Len(feed) + 1) /\ Capacity \in Nat \ {0}
  BY <1>0, LiveFeedAssumption DEF LfTypeOK
<1>4. CASE Forward
  <2>i. PICK item : item = feed[next]
    OBVIOUS
  <2>1. /\ next <= Len(feed) /\ next' = next + 1 /\ UNCHANGED lagged
        /\ view' = IF item.event \in Stored THEN [view EXCEPT ![item.event] = item.text] ELSE view
    BY <1>4, <2>i DEF Forward
  <2>2. item \in Items
    BY <1>0, <1>3, <2>1, <2>i DEF LfTypeOK
  <2>3. item.text \in Texts \cup {"plain", "agent"} /\ item = [event |-> item.event, text |-> item.text]
    BY <2>2 DEF Items
  <2>4. LfTypeOK'
    <3>1. view' \in [Stored -> Texts \cup {"plain", "agent", "none"}]
      BY <1>0, <2>1, <2>3 DEF LfTypeOK
    <3>2. next' \in 1..(Len(feed) + 1)
      BY <1>3, <2>1
    <3> QED BY <1>0, <1>1, <2>1, <3>1, <3>2 DEF LfTypeOK
  <2>5. ViewOK'
    <3> SUFFICES ASSUME ~lagged, NEW e \in Stored PROVE Latest(feed, e, view'[e], next' - 1)
      BY <1>1, <2>1 DEF ViewOK
    <3>k. PICK k \in Nat : next = k + 1 /\ next - 1 = k /\ next' - 1 = k + 1
      <4>1. next - 1 \in Nat /\ next = (next - 1) + 1 /\ next' - 1 = (next - 1) + 1
        BY <1>3, <2>1
      <4> QED BY <4>1
    <3>1. CASE item.event = e
      <4>1. view'[e] = item.text
        BY <3>1, <1>0, <2>1 DEF LfTypeOK
      <4>2. feed[k + 1] = [event |-> e, text |-> item.text]
        BY <3>1, <3>k, <2>i, <2>3
      <4> QED BY <4>1, <4>2, <3>k, LatestThis
    <3>2. CASE item.event # e
      <4>1. view'[e] = view[e]
        BY <3>2, <1>0, <2>1 DEF LfTypeOK
      <4>2. Latest(feed, e, view[e], k) /\ feed[k + 1].event # e
        BY <3>2, <3>k, <1>0, <2>i DEF ViewOK
      <4> QED BY <4>1, <4>2, <3>k, LatestOther
    <3> QED BY <3>1, <3>2
  <2> QED BY <2>4, <2>5, <1>2 DEF LfInv
<1>5. CASE Lag
  <2>1. next' = Oldest /\ lagged' = TRUE /\ UNCHANGED view
    BY <1>5 DEF Lag
  <2>2. Oldest \in 1..(Len(feed) + 1)
    BY <1>3 DEF Oldest
  <2>3. LfTypeOK' /\ ViewOK'
    BY <1>0, <1>1, <2>1, <2>2 DEF LfTypeOK, ViewOK
  <2> QED BY <2>3, <1>2 DEF LfInv
<1> QED BY <1>4, <1>5

\* Nothing is broadcast that is not in the table, and a subscriber that has not lagged
\* ends with the explanation the table has (persist_message, maybe_explain,
\* stream_events): for any events, texts, ingesters and capacity of the channel.
THEOREM FeedIsTrue == LfSpec => []FeedAgreesWithTable
<1>1. LfInv /\ [LfNext]_lfVars => LfInv'
  <2> SUFFICES ASSUME LfInv, [LfNext]_lfVars PROVE LfInv'
    OBVIOUS
  <2>1. ASSUME NEW i \in Ingesters,
               \/ \E e \in Stored : InsertEvent(i, e) \/ InsertEventFails(i, e)
               \/ SendEvent(i)
        PROVE  LfInv'
    BY <2>1, InsertInv, SendEventInv
  <2>2. ASSUME NEW t \in tasks,
               \/ \E text \in Texts : ExplainAnswers(t, text)
               \/ TaskFails(t) \/ UpdateExplanation(t) \/ SendExplained(t)
        PROVE  LfInv'
    BY <2>2, TaskGoesOnInv, SendExplainedInv
  <2>3. CASE EmitTrip \/ Forward \/ Lag
    BY <2>3, EmitTripInv, SubscriberInv
  <2>4. CASE UNCHANGED lfVars
    <3>1. UNCHANGED <<stored, ingest, feed, tasks, next, lagged, view, delivered, unknown, tripped>>
      BY <2>4 DEF lfVars
    <3>2. \A x \in Stored : Once(x)'
      BY <3>1, OnceStays DEF LfInv
    <3> QED BY <3>1, <3>2 DEF LfInv, LfTypeOK, RowsOK, ViewOK
  <2> QED BY <2>1, <2>2, <2>3, <2>4 DEF LfNext
<1>2. LfInv => FeedAgreesWithTable
  <2> SUFFICES ASSUME LfInv PROVE FeedAgreesWithTable
    OBVIOUS
  <2>0. LfTypeOK /\ RowsOK /\ ViewOK /\ \A x \in Stored : Once(x)
    BY DEF LfInv
  <2>1. DOMAIN feed = 1..Len(feed) /\ Len(feed) \in Nat
    BY <2>0 DEF LfTypeOK
  <2>2. ASSUME NEW e \in Stored, CaughtUp, Settled(e), delivered[e] = 1, e \notin unknown
        PROVE  view[e] = IF \E n \in DOMAIN feed : feed[n].event = e THEN stored[e] ELSE "none"
    <3>1. next - 1 = Len(feed)
      BY <2>0, <2>1, <2>2 DEF LfTypeOK, CaughtUp
    <3>2. Latest(feed, e, view[e], Len(feed))
      BY <2>0, <2>2, <3>1 DEF ViewOK, CaughtUp
    <3>3. CASE InFeed(e)
      <4>1. Latest(feed, e, stored[e], Len(feed))
        BY <2>0, <2>2, <3>3 DEF Once, Settled
      <4>2. view[e] = stored[e]
        BY <2>1, <3>2, <4>1, LatestUnique
      <4> QED BY <3>3, <4>2, <2>1 DEF InFeed
    <3>4. CASE ~InFeed(e)
      BY <3>2, <3>4, <2>1 DEF InFeed, Latest
    <3> QED BY <3>3, <3>4
  <2> QED BY <2>0, <2>1, <2>2 DEF FeedAgreesWithTable, RowsOK
<1> QED BY <1>1, <1>2, LfInitInv, PTL DEF LfSpec
=============================================================================
