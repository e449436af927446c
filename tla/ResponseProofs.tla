--------------------------- MODULE ResponseProofs ---------------------------
(***************************************************************************)
(* Lemmas about the operations of the generated client and the decoders,   *)
(* for every reply.                                                        *)
(***************************************************************************)
EXTENDS ResponseDecode, TLAPS

(***************************************************************************)
(* The operations of the generated client fall into eight groups, each     *)
(* with its requests and its replies.                                      *)
(***************************************************************************)
LEMMA ProbeGroup ==
    ASSUME NEW p \in ProbeOps
    PROVE  RequestOf(p) = ProbeRequest(p) /\ RepliesOf(p) = ProbeReplies(p)
<1>1. p \notin ClientOps /\ p \notin TenantOps /\ p \notin TenantDataOps
  BY DEF ProbeOps, ClientOps, TenantOps, TenantDataOps
<1>2. p \notin SubmitOps /\ p \notin InvoiceOps /\ p \notin LookupOps /\ p \notin WebhookOps
  BY DEF ProbeOps, SubmitOps, InvoiceOps, LookupOps, WebhookOps
<1> QED
  BY <1>1, <1>2 DEF RequestOf, RepliesOf

LEMMA ClientGroup ==
    ASSUME NEW p \in ClientOps
    PROVE  RequestOf(p) = ClientRequest(p) /\ RepliesOf(p) = ClientReplies(p)
<1>1. p \notin ProbeOps /\ p \notin TenantOps /\ p \notin TenantDataOps
  BY DEF ClientOps, ProbeOps, TenantOps, TenantDataOps
<1>2. p \notin SubmitOps /\ p \notin InvoiceOps /\ p \notin LookupOps /\ p \notin WebhookOps
  BY DEF ClientOps, SubmitOps, InvoiceOps, LookupOps, WebhookOps
<1> QED
  BY <1>1, <1>2 DEF RequestOf, RepliesOf

LEMMA TenantGroup ==
    ASSUME NEW p \in TenantOps
    PROVE  RequestOf(p) = TenantRequest(p) /\ RepliesOf(p) = TenantReplies(p)
<1>1. p \notin ProbeOps /\ p \notin ClientOps /\ p \notin TenantDataOps
  BY DEF TenantOps, ProbeOps, ClientOps, TenantDataOps
<1>2. p \notin SubmitOps /\ p \notin InvoiceOps /\ p \notin LookupOps /\ p \notin WebhookOps
  BY DEF TenantOps, SubmitOps, InvoiceOps, LookupOps, WebhookOps
<1> QED
  BY <1>1, <1>2 DEF RequestOf, RepliesOf

LEMMA TenantDataGroup ==
    ASSUME NEW p \in TenantDataOps
    PROVE  RequestOf(p) = TenantDataRequest(p) /\ RepliesOf(p) = TenantDataReplies(p)
<1>1. p \notin ProbeOps /\ p \notin ClientOps /\ p \notin TenantOps
  BY DEF TenantDataOps, ProbeOps, ClientOps, TenantOps
<1>2. p \notin SubmitOps /\ p \notin InvoiceOps /\ p \notin LookupOps /\ p \notin WebhookOps
  BY DEF TenantDataOps, SubmitOps, InvoiceOps, LookupOps, WebhookOps
<1> QED
  BY <1>1, <1>2 DEF RequestOf, RepliesOf

LEMMA SubmitGroup ==
    ASSUME NEW p \in SubmitOps
    PROVE  RequestOf(p) = SubmitRequest(p) /\ RepliesOf(p) = SubmitReplies(p)
<1>1. p \notin ProbeOps /\ p \notin ClientOps /\ p \notin TenantOps /\ p \notin TenantDataOps
  BY DEF SubmitOps, ProbeOps, ClientOps, TenantOps, TenantDataOps
<1>2. p \notin InvoiceOps /\ p \notin LookupOps /\ p \notin WebhookOps
  BY DEF SubmitOps, InvoiceOps, LookupOps, WebhookOps
<1> QED
  BY <1>1, <1>2 DEF RequestOf, RepliesOf

LEMMA InvoiceGroup ==
    ASSUME NEW p \in InvoiceOps
    PROVE  RequestOf(p) = InvoiceRequest(p) /\ RepliesOf(p) = InvoiceReplies(p)
<1>1. p \notin ProbeOps /\ p \notin ClientOps /\ p \notin TenantOps /\ p \notin TenantDataOps
  BY DEF InvoiceOps, ProbeOps, ClientOps, TenantOps, TenantDataOps
<1>2. p \notin SubmitOps /\ p \notin LookupOps /\ p \notin WebhookOps
  BY DEF InvoiceOps, SubmitOps, LookupOps, WebhookOps
<1> QED
  BY <1>1, <1>2 DEF RequestOf, RepliesOf

LEMMA LookupGroup ==
    ASSUME NEW p \in LookupOps
    PROVE  RequestOf(p) = LookupRequest(p) /\ RepliesOf(p) = LookupReplies(p)
<1>1. p \notin ProbeOps /\ p \notin ClientOps /\ p \notin TenantOps /\ p \notin TenantDataOps
  BY DEF LookupOps, ProbeOps, ClientOps, TenantOps, TenantDataOps
<1>2. p \notin SubmitOps /\ p \notin InvoiceOps /\ p \notin WebhookOps
  BY DEF LookupOps, SubmitOps, InvoiceOps, WebhookOps
<1> QED
  BY <1>1, <1>2 DEF RequestOf, RepliesOf

LEMMA WebhookGroup ==
    ASSUME NEW p \in WebhookOps
    PROVE  RequestOf(p) = WebhookRequest(p) /\ RepliesOf(p) = WebhookReplies(p)
<1>1. p \notin ProbeOps /\ p \notin ClientOps /\ p \notin TenantOps /\ p \notin TenantDataOps
  BY DEF WebhookOps, ProbeOps, ClientOps, TenantOps, TenantDataOps
<1>2. p \notin SubmitOps /\ p \notin InvoiceOps /\ p \notin LookupOps
  BY DEF WebhookOps, SubmitOps, InvoiceOps, LookupOps
<1> QED
  BY <1>1, <1>2 DEF RequestOf, RepliesOf

LEMMA OwnOperations ==
    ASSUME NEW p \in Ops
    PROVE  /\ Generated(p) \in Operations /\ Generated(p) # "CreateOAuthToken"
           /\ p \notin Operations
  BY DEF Ops, Generated, Operations, ProbeOps, ClientOps, TenantOps, TenantDataOps,
         SubmitOps, InvoiceOps, LookupOps, WebhookOps
-----------------------------------------------------------------------------
(***************************************************************************)
(* Routes: no two operations' requests are the same to a server that goes  *)
(* by method and path.                                                     *)
(***************************************************************************)
\* Whether some identifiers make one path of two operations' paths.
SameRoute(p, q) ==
    /\ p.method = q.method /\ Len(p.path) = Len(q.path)
    /\ \A i \in DOMAIN p.path : p.path[i] = q.path[i] \/ Id \in {p.path[i], q.path[i]}

\* What the requests of one family of operations have in common, and those of
\* no other: the first segment of the path behind "v1" and "admin".
Stem(r) ==
    IF Len(r.path) = 1 THEN "root"
    ELSE IF r.path[2] = "admin" THEN r.path[3] ELSE r.path[2]

\* The segments that make the stem are there, and written out.
Rooted(r) ==
    \/ Len(r.path) = 1
    \/ /\ Len(r.path) > 1 /\ 2 \in DOMAIN r.path /\ r.path[2] # Id
       /\ r.path[2] = "admin" => 3 \in DOMAIN r.path /\ r.path[3] # Id

LEMMA ProbeStem ==
    ASSUME NEW p \in ProbeOps
    PROVE  Rooted(ProbeRequest(p)) /\ Stem(ProbeRequest(p)) \in {"root", ".well-known"}
  BY DEF ProbeOps, ProbeRequest, Call, Rooted, Stem, Id

LEMMA ClientStem ==
    ASSUME NEW p \in ClientOps
    PROVE  Rooted(ClientRequest(p)) /\ Stem(ClientRequest(p)) = "api-clients"
  BY DEF ClientOps, ClientRequest, ClientPath, Id, Call, WithJson, Rooted, Stem

LEMMA TenantStem ==
    ASSUME NEW p \in TenantOps
    PROVE  Rooted(TenantRequest(p)) /\ Stem(TenantRequest(p)) = "tenants"
  BY DEF TenantOps, TenantRequest, TenantPath, Id, Call, WithJson, Rooted, Stem

LEMMA TenantDataStem ==
    ASSUME NEW p \in TenantDataOps
    PROVE  /\ Rooted(TenantDataRequest(p))
           /\ Stem(TenantDataRequest(p)) \in {"credit-notes", "crypto", "integrations"}
  BY DEF TenantDataOps, TenantDataRequest, Id, Call, WithJson, Keyed, Rooted, Stem

LEMMA SubmitStem ==
    ASSUME NEW p \in SubmitOps
    PROVE  Rooted(SubmitRequest(p)) /\ Stem(SubmitRequest(p)) = "invoices"
  BY DEF SubmitOps, SubmitRequest, InvoicePath, Id, Call, WithJson, Keyed, Rooted, Stem

LEMMA InvoiceStem ==
    ASSUME NEW p \in InvoiceOps
    PROVE  Rooted(InvoiceRequest(p)) /\ Stem(InvoiceRequest(p)) = "invoices"
  BY DEF InvoiceOps, InvoiceRequest, InvoicePath, Id, Call, WithJson, Rooted, Stem

LEMMA LookupStem ==
    ASSUME NEW p \in LookupOps
    PROVE  Rooted(LookupRequest(p)) /\ Stem(LookupRequest(p)) = "lookups"
  BY DEF LookupOps, LookupRequest, Id, Call, Conditional, Rooted, Stem

LEMMA WebhookStem ==
    ASSUME NEW p \in WebhookOps
    PROVE  Rooted(WebhookRequest(p)) /\ Stem(WebhookRequest(p)) \in {"oauth", "webhooks"}
  BY DEF WebhookOps, WebhookRequest, WebhookPath, Id, Call, WithJson, Rooted, Stem

\* Requests that may be taken for each other have one stem.
LEMMA SameStem ==
    ASSUME NEW q, NEW r, Rooted(q), Rooted(r), SameRoute(q, r)
    PROVE  Stem(q) = Stem(r)
<1>1. /\ Len(q.path) = Len(r.path)
      /\ \A i \in DOMAIN q.path : q.path[i] # Id /\ r.path[i] # Id => q.path[i] = r.path[i]
  BY DEF SameRoute
<1>2. CASE Len(q.path) = 1
  BY <1>1, <1>2 DEF Stem
<1>3. CASE Len(q.path) # 1
  <2>1. q.path[2] = r.path[2]
    BY <1>1, <1>3 DEF Rooted
  <2>2. q.path[2] = "admin" => q.path[3] = r.path[3]
    BY <1>1, <1>3, <2>1 DEF Rooted
  <2> QED
    BY <1>1, <1>3, <2>1, <2>2 DEF Stem
<1> QED
  BY <1>2, <1>3
-----------------------------------------------------------------------------
\* Within a family the method, the length of the path or a segment tells.
LEMMA ProbesApart ==
    ASSUME NEW p \in ProbeOps, NEW q \in ProbeOps, SameRoute(ProbeRequest(p), ProbeRequest(q))
    PROVE  p = q
  BY DEF ProbeOps, ProbeRequest, Call, SameRoute, Id

LEMMA ClientsApart ==
    ASSUME NEW p \in ClientOps, NEW q \in ClientOps,
           SameRoute(ClientRequest(p), ClientRequest(q))
    PROVE  p = q
  BY DEF ClientOps, ClientRequest, ClientPath, Id, Call, WithJson, SameRoute

LEMMA TenantsApart ==
    ASSUME NEW p \in TenantOps, NEW q \in TenantOps,
           SameRoute(TenantRequest(p), TenantRequest(q))
    PROVE  p = q
  BY DEF TenantOps, TenantRequest, TenantPath, Id, Call, WithJson, SameRoute

LEMMA TenantDataApart ==
    ASSUME NEW p \in TenantDataOps, NEW q \in TenantDataOps,
           SameRoute(TenantDataRequest(p), TenantDataRequest(q))
    PROVE  p = q
  BY DEF TenantDataOps, TenantDataRequest, Id, Call, WithJson, Keyed, SameRoute

LEMMA SubmitsApart ==
    ASSUME NEW p \in SubmitOps, NEW q \in SubmitOps,
           SameRoute(SubmitRequest(p), SubmitRequest(q))
    PROVE  p = q
  BY DEF SubmitOps, SubmitRequest, InvoicePath, Id, Call, WithJson, Keyed, SameRoute

LEMMA InvoicesApart ==
    ASSUME NEW p \in InvoiceOps, NEW q \in InvoiceOps,
           SameRoute(InvoiceRequest(p), InvoiceRequest(q))
    PROVE  p = q
  BY DEF InvoiceOps, InvoiceRequest, InvoicePath, Id, Call, WithJson, SameRoute

LEMMA LookupsApart ==
    ASSUME NEW p \in LookupOps, NEW q \in LookupOps,
           SameRoute(LookupRequest(p), LookupRequest(q))
    PROVE  p = q
  BY DEF LookupOps, LookupRequest, Id, Call, Conditional, SameRoute

LEMMA WebhooksApart ==
    ASSUME NEW p \in WebhookOps, NEW q \in WebhookOps,
           SameRoute(WebhookRequest(p), WebhookRequest(q))
    PROVE  p = q
  BY DEF WebhookOps, WebhookRequest, WebhookPath, Id, Call, WithJson, SameRoute

\* The bulk submission is the one POST below the invoices that names no invoice,
\* and it is shorter than those that do.
LEMMA SubmitsInvoicesApart ==
    ASSUME NEW p \in SubmitOps, NEW q \in InvoiceOps
    PROVE  /\ ~SameRoute(SubmitRequest(p), InvoiceRequest(q))
           /\ ~SameRoute(InvoiceRequest(q), SubmitRequest(p))
  BY DEF SubmitOps, InvoiceOps, SubmitRequest, InvoiceRequest, InvoicePath, Id, Call,
         WithJson, Keyed, SameRoute

\* No two operations have requests of the same route.
LEMMA RoutesApart ==
    ASSUME NEW p \in Operations, NEW q \in Operations,
           SameRoute(RequestOf(p), RequestOf(q))
    PROVE  p = q
<1> DEFINE S(o) == Stem(RequestOf(o))
<1>1. \A o \in ProbeOps : Rooted(RequestOf(o)) /\ S(o) \in {"root", ".well-known"}
  BY ProbeGroup, ProbeStem
<1>2. \A o \in ClientOps : Rooted(RequestOf(o)) /\ S(o) = "api-clients"
  BY ClientGroup, ClientStem
<1>3. \A o \in TenantOps : Rooted(RequestOf(o)) /\ S(o) = "tenants"
  BY TenantGroup, TenantStem
<1>4. \A o \in TenantDataOps : /\ Rooted(RequestOf(o))
                              /\ S(o) \in {"credit-notes", "crypto", "integrations"}
  BY TenantDataGroup, TenantDataStem
<1>5. \A o \in SubmitOps \cup InvoiceOps : Rooted(RequestOf(o)) /\ S(o) = "invoices"
  BY SubmitGroup, SubmitStem, InvoiceGroup, InvoiceStem
<1>6. \A o \in LookupOps : Rooted(RequestOf(o)) /\ S(o) = "lookups"
  BY LookupGroup, LookupStem
<1>7. \A o \in WebhookOps : Rooted(RequestOf(o)) /\ S(o) \in {"oauth", "webhooks"}
  BY WebhookGroup, WebhookStem
<1> HIDE DEF S
<1>8. S(p) = S(q)
  BY <1>1, <1>2, <1>3, <1>4, <1>5, <1>6, <1>7, SameStem DEF Operations, S
<1>9. \/ p \in ProbeOps /\ q \in ProbeOps
      \/ p \in ClientOps /\ q \in ClientOps
      \/ p \in TenantOps /\ q \in TenantOps
      \/ p \in TenantDataOps /\ q \in TenantDataOps
      \/ p \in SubmitOps \cup InvoiceOps /\ q \in SubmitOps \cup InvoiceOps
      \/ p \in LookupOps /\ q \in LookupOps
      \/ p \in WebhookOps /\ q \in WebhookOps
  BY <1>1, <1>2, <1>3, <1>4, <1>5, <1>6, <1>7, <1>8 DEF Operations
<1>10. CASE p \in SubmitOps \cup InvoiceOps /\ q \in SubmitOps \cup InvoiceOps
  BY <1>10, SubmitGroup, InvoiceGroup, SubmitsApart, InvoicesApart, SubmitsInvoicesApart
<1> QED
  BY <1>9, <1>10, ProbeGroup, ProbesApart, ClientGroup, ClientsApart, TenantGroup,
     TenantsApart, TenantDataGroup, TenantDataApart, LookupGroup, LookupsApart,
     WebhookGroup, WebhooksApart
-----------------------------------------------------------------------------
(***************************************************************************)
(* Replies.                                                                *)
(***************************************************************************)
\* The generated parsers make results of successes, but for a server that is
\* not ready.
LEMMA ResultsAreSuccesses ==
    ASSUME NEW p \in Operations, NEW c \in RepliesOf(p).results
    PROVE  c \in {200, 201, 202} \/ (p = "GetReadiness" /\ c = 503)
<1> USE DEF Limited, Declared
<1>1. CASE p \in ProbeOps
  BY <1>1, ProbeGroup DEF ProbeOps, ProbeReplies
<1>2. CASE p \in ClientOps
  BY <1>2, ClientGroup DEF ClientReplies
<1>3. CASE p \in TenantOps
  BY <1>3, TenantGroup DEF TenantReplies
<1>4. CASE p \in TenantDataOps
  BY <1>4, TenantDataGroup DEF TenantDataReplies
<1>5. CASE p \in SubmitOps
  BY <1>5, SubmitGroup DEF SubmitReplies
<1>6. CASE p \in InvoiceOps
  BY <1>6, InvoiceGroup DEF InvoiceReplies
<1>7. CASE p \in LookupOps
  BY <1>7, LookupGroup DEF LookupReplies
<1>8. CASE p \in WebhookOps
  BY <1>8, WebhookGroup DEF WebhookReplies
<1> QED
  BY <1>1, <1>2, <1>3, <1>4, <1>5, <1>6, <1>7, <1>8 DEF Operations

\* They make errors of refusals only.
LEMMA ErrorsAreRefusals ==
    ASSUME NEW p \in Operations, NEW c \in RepliesOf(p).errors
    PROVE  c \in 400 .. 599
<1> USE DEF Limited, Declared
<1>1. CASE p \in ProbeOps
  BY <1>1, ProbeGroup DEF ProbeReplies
<1>2. CASE p \in ClientOps
  BY <1>2, ClientGroup DEF ClientReplies
<1>3. CASE p \in TenantOps
  BY <1>3, TenantGroup DEF TenantReplies
<1>4. CASE p \in TenantDataOps
  BY <1>4, TenantDataGroup DEF TenantDataReplies
<1>5. CASE p \in SubmitOps
  BY <1>5, SubmitGroup DEF SubmitReplies
<1>6. CASE p \in InvoiceOps
  BY <1>6, InvoiceGroup DEF InvoiceReplies
<1>7. CASE p \in LookupOps
  BY <1>7, LookupGroup DEF LookupReplies
<1>8. CASE p \in WebhookOps
  BY <1>8, WebhookGroup DEF WebhookReplies
<1> QED
  BY <1>1, <1>2, <1>3, <1>4, <1>5, <1>6, <1>7, <1>8 DEF Operations

Results == {"value", "hollow", "absent", "done"}

LEMMA LenientErrorIsApi ==
    ASSUME NEW r
    PROVE  /\ LenientError(r).kind = "api" /\ LenientError(r).status = r.status
           /\ r.body = "envelope" => LenientError(r) = Api(r.status, "canonical")
  BY DEF LenientError, Api, ErrorObjects

\* A reply that is no success, to each SDK.
LEMMA RefusedReply ==
    ASSUME NEW p, NEW r, ~Success(r)
    PROVE  /\ PythonDecode(p, r) = LenientError(r)
           /\ NodeDecode(r) = LenientError(r)
           /\ JavaDecode(p, r) = LenientError(r)
           /\ DotnetDecode(p, r) = DotnetError(p, r)
  BY DEF PythonDecode, NodeDecode, JavaDecode, DotnetDecode

LEMMA ParsedResult ==
    ASSUME NEW p \in Operations, NEW r, ParseReply(p, r).kind \in Results
    PROVE  Success(r) \/ (p = "GetReadiness" /\ r.status = 503)
<1>1. CASE r.json /\ r.status \in RepliesOf(p).results
  BY <1>1, ResultsAreSuccesses DEF Success
<1>2. CASE ~(r.json /\ r.status \in RepliesOf(p).results)
  BY <1>2 DEF ParseReply, GoError, Api, Foreign, Bare, Results
<1> QED
  BY <1>1, <1>2

LEMMA GoKeepsResults ==
    ASSUME NEW p \in Ops \cup Operations, NEW r, GoDecode(p, r).kind \in Results, ~Success(r)
    PROVE  \/ p \in {"taxcodes", "hsncodes"} /\ r.status = 304
           \/ p = "GetReadiness" /\ r.status = 503
<1>1. CASE p \in Operations
  <2>1. GoDecode(p, r) = ParseReply(p, r)
    BY <1>1, OwnOperations DEF GoDecode, Ops
  <2> QED
    BY <1>1, <2>1, ParsedResult
<1>2. CASE p \in {"submit", "get", "list"}
  <2>1. Generated(p) \in Operations /\ p \notin Operations /\ Generated(p) # "GetReadiness"
    BY <1>2, OwnOperations DEF Generated, Ops
  <2>2. GoDecode(p, r) = GoParsed(p, r)
    BY <1>2, <2>1 DEF GoDecode
  <2>3. GoParsed(p, r) = ParseReply(Generated(p), r) \/ GoParsed(p, r) = GoError(r)
    BY DEF GoParsed
  <2>4. GoError(r).kind \notin Results
    BY DEF GoError, Api, Results
  <2> QED
    BY <2>1, <2>2, <2>3, <2>4, ParsedResult
<1>3. CASE p \notin Operations \cup {"submit", "get", "list"}
  <2>1. GoError(r).kind \notin Results
    BY DEF GoError, Api, Results
  <2> QED
    BY <1>3, <2>1 DEF GoDecode
<1> QED
  BY <1>1, <1>2, <1>3

LEMMA GoReadsCode ==
    ASSUME NEW p \in Ops, NEW r, r.status \in 400 .. 599, r.json, r.body = "envelope"
    PROVE  GoDecode(p, r) = Api(r.status, "canonical")
<1>1. ~Success(r) /\ r.status # 304 /\ p \notin Operations
  BY OwnOperations DEF Success
<1>2. GoError(r) = Api(r.status, "canonical")
  BY DEF GoError
<1>3. CASE p \in {"submit", "get", "list"}
  <2> DEFINE q == Generated(p)
  <2>1. q \in Operations /\ q # "GetReadiness"
    BY <1>3, OwnOperations DEF Generated
  <2>2. r.status \notin RepliesOf(q).results
    BY <2>1, ResultsAreSuccesses
  <2>3. ParseReply(q, r) = GoError(r) \/ ParseReply(q, r) = Bare(r.status)
    BY <2>2 DEF ParseReply, GoReadsEnvelope
  <2>4. ParseReply(q, r).kind \notin {"value", "hollow", "foreign"}
    BY <2>3, <1>2 DEF Api, Bare
  <2>5. GoParsed(p, r) = GoError(r)
    BY <2>4 DEF GoParsed
  <2> QED
    BY <1>1, <1>2, <1>3, <2>5 DEF GoDecode
<1>4. CASE p \notin {"submit", "get", "list"}
  BY <1>1, <1>2, <1>4 DEF GoDecode
<1> QED
  BY <1>3, <1>4

LEMMA ReadAlike ==
    ASSUME NEW p \in HandWritten \ {"taxcodes"}, NEW r
    PROVE  LET parsed == ParseReply(Generated(p), r)
           IN  /\ parsed = Value => GoDecode(p, r) = Value
               /\ GoDecode(p, r) = Value => parsed = Value \/ parsed.kind = "bare"
<1> DEFINE q == Generated(p)
<1>1. /\ q \in Operations /\ q # "GetReadiness"
      /\ p \in Ops /\ p \notin Operations /\ p \notin {"submit", "get", "list"}
  BY OwnOperations DEF HandWritten, Generated, Ops
<1>2. ASSUME ParseReply(q, r) = Value PROVE GoDecode(p, r) = Value
  <2>1. r.json /\ r.status \in RepliesOf(q).results
    BY <1>2 DEF ParseReply, GoError, Api, Bare, Foreign, Value
  <2>2. GoUnmarshal(q, r.body) = Value
    BY <1>2, <2>1 DEF ParseReply, GoError, Api, Bare, Foreign, Value
  <2>3. r.body = "record"
    BY <2>2 DEF GoUnmarshal, Value, Foreign, Hollow
  <2>4. Success(r) /\ r.status # 304
    BY <1>1, <2>1, ResultsAreSuccesses DEF Success
  <2>5. GoResult(p, r.body) = Value
    BY <2>3 DEF GoResult, GoUnmarshal
  <2> QED
    BY <1>1, <2>4, <2>5 DEF GoDecode
<1>3. ASSUME GoDecode(p, r) = Value
      PROVE  ParseReply(q, r) = Value \/ ParseReply(q, r).kind = "bare"
  <2>1. Success(r) /\ GoUnmarshal(p, r.body) = Value
    BY <1>1, <1>3 DEF GoDecode, GoResult, GoError, Api, Absent, Value
  <2>2. r.body = "record"
    BY <2>1 DEF GoUnmarshal, Value, Foreign, Hollow
  <2>3. r.status \notin RepliesOf(q).errors
    BY <1>1, <2>1, ErrorsAreRefusals DEF Success
  <2>4. ParseReply(q, r) = GoUnmarshal(q, r.body) \/ ParseReply(q, r) = Bare(r.status)
    BY <2>3 DEF ParseReply
  <2> QED
    BY <2>2, <2>4 DEF GoUnmarshal, Bare
<1> QED
  BY <1>2, <1>3

LEMMA ParsedAlike ==
    ASSUME NEW p \in {"submit", "get", "list"}, NEW r
    PROVE  LET parsed == ParseReply(Generated(p), r)
           IN  parsed = Value <=> GoDecode(p, r) = Value
<1>1. GoDecode(p, r) = GoParsed(p, r)
  BY OwnOperations DEF GoDecode, HandWritten, Ops
<1>2. GoError(r) # Value
  BY DEF GoError, Api, Value
<1> DEFINE parsed == ParseReply(Generated(p), r)
<1>3. GoParsed(p, r) = IF parsed.kind \in {"value", "hollow", "foreign"} THEN parsed ELSE GoError(r)
  BY DEF GoParsed
<1>4. parsed = Value => parsed.kind = "value"
  BY DEF Value
<1> HIDE DEF parsed
<1>5. parsed = Value <=> GoDecode(p, r) = Value
  BY <1>1, <1>2, <1>3, <1>4
<1> QED
  BY <1>5 DEF parsed
-----------------------------------------------------------------------------
(***************************************************************************)
(* Every reply makes an outcome, to every SDK and operation.               *)
(***************************************************************************)
LEMMA ApiOutcome ==
    ASSUME NEW s \in 0 .. 599, NEW c \in {"canonical", "opaque", "sdk"}
    PROVE  Api(s, c) \in Outcomes
  BY DEF Outcomes

LEMMA PlainOutcomes == {Value, Hollow, Absent, Done, Foreign} \subseteq Outcomes
  BY DEF Outcomes

LEMMA BareOutcome ==
    ASSUME NEW s \in 0 .. 599
    PROVE  Bare(s) \in Outcomes
  BY DEF Outcomes

LEMMA LenientErrorOutcome ==
    ASSUME NEW r, r.status \in 0 .. 599
    PROVE  LenientError(r) \in Outcomes
  BY ApiOutcome DEF LenientError

LEMMA ParsedOutcome ==
    ASSUME NEW p, NEW r, r.status \in 0 .. 599
    PROVE  ParseReply(p, r) \in Outcomes /\ GoError(r) \in Outcomes
<1>1. GoUnmarshal(p, r.body) \in Outcomes
  BY PlainOutcomes DEF GoUnmarshal
<1>2. GoError(r) \in Outcomes
  BY ApiOutcome DEF GoError
<1>3. Bare(r.status) \in Outcomes
  BY BareOutcome
<1> QED
  BY <1>1, <1>2, <1>3, PlainOutcomes DEF ParseReply

LEMMA GoOutcome ==
    ASSUME NEW p, NEW r, r.status \in 0 .. 599
    PROVE  GoDecode(p, r) \in Outcomes
<1>1. GoParsed(p, r) \in Outcomes
  BY ParsedOutcome DEF GoParsed
<1>2. GoResult(p, r.body) \in Outcomes
  BY PlainOutcomes DEF GoResult, GoTaxCodes, GoUnmarshal
<1> QED
  BY <1>1, <1>2, ParsedOutcome, PlainOutcomes DEF GoDecode

LEMMA PythonOutcome ==
    ASSUME NEW p, NEW r, r.status \in 0 .. 599
    PROVE  PythonDecode(p, r) \in Outcomes
  BY LenientErrorOutcome, ApiOutcome, PlainOutcomes DEF PythonDecode, PythonRead

LEMMA NodeOutcome ==
    ASSUME NEW r, r.status \in 0 .. 599
    PROVE  NodeDecode(r) \in Outcomes
  BY LenientErrorOutcome, PlainOutcomes DEF NodeDecode, NodeRead

LEMMA JavaOutcome ==
    ASSUME NEW p, NEW r, r.status \in 0 .. 599
    PROVE  JavaDecode(p, r) \in Outcomes
<1>1. /\ JavaLookup(r.body) \in Outcomes /\ JavaWebhooks(r.body) \in Outcomes
      /\ JavaConvert(r.body) \in Outcomes
  BY ApiOutcome, PlainOutcomes DEF JavaLookup, JavaWebhooks, JavaConvert
<1> QED
  BY <1>1, LenientErrorOutcome, ApiOutcome, PlainOutcomes DEF JavaDecode

LEMMA DotnetOutcome ==
    ASSUME NEW p, NEW r, r.status \in 0 .. 599
    PROVE  DotnetDecode(p, r) \in Outcomes
<1>1. DotnetError(p, r) \in Outcomes
  BY ApiOutcome, PlainOutcomes DEF DotnetError
<1>2. DotnetLookup(r.body) \in Outcomes /\ DotnetDeserialize(r.body) \in Outcomes
  BY ApiOutcome, PlainOutcomes DEF DotnetLookup, DotnetDeserialize
<1> QED
  BY <1>1, <1>2, ApiOutcome, PlainOutcomes DEF DotnetDecode

LEMMA PhpOutcome ==
    ASSUME NEW p, NEW r, r.status \in 0 .. 599
    PROVE  PhpDecode(p, r) \in Outcomes
<1>1. PhpError(r) \in Outcomes
  BY ApiOutcome DEF PhpError
<1> QED
  BY <1>1, PlainOutcomes DEF PhpDecode

LEMMA DecodeOutcome ==
    ASSUME NEW s \in Sdks, NEW p, NEW r, r.status \in 0 .. 599
    PROVE  Decode(s, p, r) \in Outcomes
  BY GoOutcome, PythonOutcome, NodeOutcome, JavaOutcome, DotnetOutcome, PhpOutcome
  DEF Decode, Sdks

\* Replies of which an SDK returns nothing, and what it makes of an empty body.
LEMMA GoReturns ==
    ASSUME NEW p, NEW r
    PROVE  LET o == GoDecode(p, r)
           IN  /\ o.kind = "absent" => p \in {"taxcodes", "hsncodes"} /\ r.status = 304
               /\ r.body = "empty" => o.kind \notin {"value", "hollow"}
<1> DEFINE Sound(o) == /\ o.kind # "absent"
                       /\ r.body = "empty" => o.kind \notin {"value", "hollow"}
<1>1. Sound(Foreign) /\ Sound(Bare(r.status)) /\ Sound(GoError(r))
  BY DEF Foreign, Bare, GoError, Api
<1>2. \A q : Sound(GoUnmarshal(q, r.body))
  BY DEF GoUnmarshal, Value, Hollow, Foreign
<1>3. Sound(GoTaxCodes(r.body))
  BY DEF GoTaxCodes, ErrorObjects, Hollow, Foreign
<1> HIDE DEF Sound
<1>4. \A q : Sound(ParseReply(q, r))
  BY <1>1, <1>2 DEF ParseReply
<1>5. Sound(GoParsed(p, r)) /\ Sound(GoResult(p, r.body))
  BY <1>1, <1>2, <1>3, <1>4 DEF GoParsed, GoResult
<1>6. \/ Sound(GoDecode(p, r))
      \/ GoDecode(p, r) = Absent /\ p \in {"taxcodes", "hsncodes"} /\ r.status = 304
  BY <1>1, <1>4, <1>5 DEF GoDecode
<1> QED
  BY <1>6 DEF Sound, Absent

LEMMA JavaReturns ==
    ASSUME NEW p, NEW r, r.body = "empty", JavaDecode(p, r).kind \in {"value", "hollow"}
    PROVE  p = "webhooks"
  BY DEF JavaDecode, JavaLookup, JavaConvert, LenientError, Api, Absent, Done

LEMMA DotnetReturns ==
    ASSUME NEW p, NEW r
    PROVE  /\ DotnetDecode(p, r).kind # "absent"
           /\ r.body = "empty" => DotnetDecode(p, r).kind \notin {"value", "hollow"}
  BY DEF DotnetDecode, DotnetError, DotnetLookup, DotnetDeserialize, Api, Foreign,
         Done, Value, Hollow

LEMMA PhpReturns ==
    ASSUME NEW p, NEW r
    PROVE  /\ PhpDecode(p, r).kind # "absent"
           /\ r.body = "empty" => PhpDecode(p, r).kind \notin {"value", "hollow"}
  BY DEF PhpDecode, PhpError, Api, Foreign, Done, Value, Hollow

LEMMA EmptyReturned ==
    ASSUME NEW p, NEW r, r.body = "empty"
    PROVE  /\ PythonDecode(p, r).kind \notin {"value", "hollow"}
           /\ NodeDecode(r).kind \notin {"value", "hollow"}
  BY DEF PythonDecode, PythonRead, NodeDecode, NodeRead, LenientError, Api, Foreign,
         Done, Absent
=============================================================================
