-------------------------- MODULE RequestPathProofs --------------------------
(***************************************************************************)
(* What the constructors let through, the bearer token of every request,   *)
(* and what becomes of replies, for any set of statuses.                   *)
(***************************************************************************)
EXTENDS RequestPath, ResponseProofs, SequenceTheorems

LEMMA OfferedOps ==
    ASSUME NEW s, NEW o \in Offered(s)
    PROVE  o \in Ops \cup Operations
<1>1. CASE s = "go"
  BY <1>1 DEF Offered
<1>2. CASE s = "node"
  BY <1>2 DEF Offered, Ops
<1>3. CASE s \notin {"go", "node"}
  BY <1>3 DEF Offered
<1> QED
  BY <1>1, <1>2, <1>3

LEMMA OptionFields ==
    ASSUME NEW o \in Options
    PROVE  /\ o.base \in {"none", "empty", "blank", "set", "relative"}
           /\ o.static \in {"none", "empty", "blank", "set"}
           /\ o.id \in {"none", "empty", "blank", "set"}
           /\ o.secret \in {"none", "empty", "blank", "set"}
  BY DEF Options, Strings

LEMMA Provider ==
    ASSUME NEW o \in Options, o.base # "relative"
    PROVE  ClientOf("laravel", o) = ClientOf("dotnet", o)
<1> DEFINE l == LaravelOptions(o)
<1>1. /\ ClientOf("laravel", o) = PhpConstruct(l)
      /\ ClientOf("dotnet", o) = DotnetConstructor(o)
  BY DEF ClientOf
<1>2. /\ Given(l.base) <=> o.base = "set"
      /\ l.static # "none" <=> NotBlank(o.static)
      /\ l.id # "none" <=> NotBlank(o.id)
      /\ l.secret # "none" <=> NotBlank(o.secret)
      /\ o.base = "set" => l.base = o.base
      /\ NotBlank(o.static) => l.static = o.static
  BY OptionFields DEF LaravelOptions, NullableString, NotBlank, Given
<1> QED
  BY <1>1, <1>2 DEF PhpConstruct, DotnetConstructor, Resolve

\* The token that a client of this SDK may send.
Sendable(s, bearer) ==
    \/ bearer \in {"exchanged", "set"}
    \/ bearer = "blank" /\ s \notin {"java", "dotnet"}
    \/ bearer = "empty" /\ s = "php"

LEMMA Resolved ==
    ASSUME NEW o \in Options, NEW b \in BOOLEAN, NEW t \in BOOLEAN, NEW c \in BOOLEAN,
           Resolve(o, b, t, c) # Refused
    PROVE  Resolve(o, b, t, c).bearer = IF t THEN o.static ELSE "exchanged"
  BY DEF Resolve, Client

LEMMA ConstructedSendable ==
    ASSUME NEW s \in Sdks \cup {"laravel"}, NEW o \in Options, ClientOf(s, o) # Refused
    PROVE  Sendable(IF s = "laravel" THEN "php" ELSE s, ClientOf(s, o).bearer)
<1>1. CASE s \in {"go", "python", "node"}
  <2>1. ClientOf(s, o) = EmptyIsAbsent(o)
    BY <1>1 DEF ClientOf, GoNew, PythonInit, NodeConstructor
  <2>2. ClientOf(s, o).bearer = IF Given(o.static) THEN o.static ELSE "exchanged"
    BY <2>1, Resolved DEF EmptyIsAbsent, Given
  <2> QED
    BY <1>1, <2>2, OptionFields DEF Given, Sendable
<1>2. CASE s = "java"
  <2>1. ClientOf(s, o).bearer = IF NotBlank(o.static) THEN o.static ELSE "exchanged"
    BY <1>2, Resolved DEF ClientOf, JavaBuild, NotBlank
  <2> QED
    BY <1>2, <2>1, OptionFields DEF NotBlank, Sendable
<1>3. CASE s = "dotnet"
  <2>1. ClientOf(s, o).bearer = IF NotBlank(o.static) THEN o.static ELSE "exchanged"
    BY <1>3, Resolved DEF ClientOf, DotnetConstructor, NotBlank
  <2> QED
    BY <1>3, <2>1, OptionFields DEF NotBlank, Sendable
<1>4. CASE s = "php"
  <2>1. ClientOf(s, o).bearer = IF o.static # "none" THEN o.static ELSE "exchanged"
    BY <1>4, Resolved DEF ClientOf, PhpConstruct, Given
  <2> QED
    BY <1>4, <2>1, OptionFields DEF Sendable
<1>5. CASE s = "laravel"
  <2> DEFINE l == LaravelOptions(o)
  <2>1. l \in Options
    BY OptionFields DEF LaravelOptions, NullableString, Options, Strings
  <2>2. ClientOf(s, o).bearer = IF l.static # "none" THEN l.static ELSE "exchanged"
    BY <1>5, <2>1, Resolved DEF ClientOf, PhpConstruct, Given
  <2> QED
    BY <1>5, <2>1, <2>2, OptionFields DEF Sendable
<1> QED
  BY <1>1, <1>2, <1>3, <1>4, <1>5 DEF Sdks
-----------------------------------------------------------------------------
(***************************************************************************)
(* The operations' paths, without an identifier in them.                   *)
(***************************************************************************)
\* The strings, those first of which the operations' paths are made.
Pieces == {"healthz", "readyz", "v1", ".well-known", "invoice-jwks.json", "jwks.json",
           "oauth-authorization-server", "admin", "api-clients", "id", "rotate-secret",
           "tenants", "credit-notes", "crypto", "integrations", "odoo", "invoices", "bulk",
           "pdf", "status", "transmit", "lookups", "hsn-codes", "tax-codes", "oauth",
           "token", "webhooks", "test"} \cup STRING

ForToken(path) ==
    LET n == Len(path) IN n >= 2 /\ path[n - 1] = "oauth" /\ path[n] = "token"

\* What the path of an operation tells: it has no dot segments, one asks for a
\* token, one deletes, and the last segment of a POST is written out, and its
\* own if it ends in "status" or "transmit".
Shaped(p, r) ==
    LET n == Len(r.path)
    IN  /\ r.path \in Seq(Pieces) /\ n >= 1
        /\ \A i \in 1 .. n : r.path[i] # "." /\ r.path[i] # ".."
        /\ ForToken(r.path) => p = "CreateOAuthToken"
        /\ r.method = "DELETE" => p = "DeleteWebhook"
        /\ r.method = "POST" => /\ r.path[n] # Id
                                /\ r.path[n] = "status" => p = "UpdateInvoiceStatus"
                                /\ r.path[n] = "transmit" => p = "RetransmitInvoice"
        /\ r.method \in {"GET", "POST", "PUT", "PATCH", "DELETE"}

LEMMA WordPieces ==
    /\ "healthz" \in Pieces /\ "readyz" \in Pieces /\ "v1" \in Pieces
    /\ ".well-known" \in Pieces /\ "invoice-jwks.json" \in Pieces /\ "jwks.json" \in Pieces
    /\ "oauth-authorization-server" \in Pieces /\ "admin" \in Pieces
    /\ "api-clients" \in Pieces /\ "id" \in Pieces /\ "rotate-secret" \in Pieces
    /\ "tenants" \in Pieces /\ "credit-notes" \in Pieces /\ "crypto" \in Pieces
    /\ "integrations" \in Pieces /\ "odoo" \in Pieces /\ "invoices" \in Pieces
    /\ "bulk" \in Pieces /\ "pdf" \in Pieces /\ "status" \in Pieces /\ "transmit" \in Pieces
    /\ "lookups" \in Pieces /\ "hsn-codes" \in Pieces /\ "tax-codes" \in Pieces
    /\ "oauth" \in Pieces /\ "token" \in Pieces /\ "webhooks" \in Pieces /\ "test" \in Pieces
  BY DEF Pieces

LEMMA ProbeShape ==
    ASSUME NEW p \in ProbeOps PROVE Shaped(p, ProbeRequest(p))
  BY WordPieces DEF ProbeOps, ProbeRequest, Call, Id, Shaped, ForToken

LEMMA ClientShape ==
    ASSUME NEW p \in ClientOps PROVE Shaped(p, ClientRequest(p))
  BY WordPieces DEF ClientOps, ClientRequest, ClientPath, Id, Call, WithJson,
     Shaped, ForToken

LEMMA TenantShape ==
    ASSUME NEW p \in TenantOps PROVE Shaped(p, TenantRequest(p))
  BY WordPieces DEF TenantOps, TenantRequest, TenantPath, Id, Call, WithJson,
     Shaped, ForToken

LEMMA TenantDataShape ==
    ASSUME NEW p \in TenantDataOps PROVE Shaped(p, TenantDataRequest(p))
  BY WordPieces DEF TenantDataOps, TenantDataRequest, Id, Call, WithJson, Keyed,
     Shaped, ForToken

LEMMA SubmitShape ==
    ASSUME NEW p \in SubmitOps PROVE Shaped(p, SubmitRequest(p))
  BY WordPieces DEF SubmitOps, SubmitRequest, InvoicePath, Id, Call, WithJson,
     Keyed, Shaped, ForToken

LEMMA InvoiceShape ==
    ASSUME NEW p \in InvoiceOps PROVE Shaped(p, InvoiceRequest(p))
  BY WordPieces DEF InvoiceOps, InvoiceRequest, InvoicePath, Id, Call, WithJson,
     Shaped, ForToken

LEMMA LookupShape ==
    ASSUME NEW p \in LookupOps PROVE Shaped(p, LookupRequest(p))
  BY WordPieces DEF LookupOps, LookupRequest, Id, Call, Conditional, Shaped, ForToken

LEMMA WebhookShape ==
    ASSUME NEW p \in WebhookOps PROVE Shaped(p, WebhookRequest(p))
  BY WordPieces DEF WebhookOps, WebhookRequest, WebhookPath, Id, Call, WithJson,
     Shaped, ForToken

\* Where the paths of the operations on one invoice end.
LEMMA InvoicePaths ==
    ASSUME NEW p \in InvoiceOps
    PROVE  LET t == InvoiceRequest(p).path
           IN  /\ p = "GetInvoice" =>
                    Len(t) = 3 /\ t[1] = "v1" /\ t[2] = "invoices" /\ t[3] = Id
               /\ p # "GetInvoice" => Len(t) = 4
               /\ p = "RenderInvoicePdf" => t[4] = "pdf"
               /\ p = "UpdateInvoiceStatus" => t[4] = "status"
               /\ p = "RetransmitInvoice" => t[4] = "transmit"
  BY DEF InvoiceOps, InvoiceRequest, InvoicePath, Id, Call, WithJson

LEMMA RequestShape ==
    ASSUME NEW p \in Operations PROVE Shaped(p, RequestOf(p))
  BY ProbeGroup, ProbeShape, ClientGroup, ClientShape, TenantGroup, TenantShape,
     TenantDataGroup, TenantDataShape, SubmitGroup, SubmitShape, InvoiceGroup,
     InvoiceShape, LookupGroup, LookupShape, WebhookGroup, WebhookShape DEF Operations

\* What is put together, by hand or by a builder, goes to the endpoint of the
\* operation that the call is about.
LEMMA DraftRoute ==
    ASSUME op \in Ops \cup Operations
    PROVE  /\ Target \in Operations
           /\ Draft.method = RequestOf(Target).method /\ Draft.path = RequestOf(Target).path
<1>1. CASE op \in Operations
  BY <1>1, OwnOperations DEF Target, Draft, Ops
<1>2. CASE op \in Ops
  <2>1. Target = Generated(op) /\ Target \in Operations
    BY <1>2, OwnOperations DEF Target
  <2>2. CASE op \in {"cryptoset", "cryptostatus"}
    <3>1. Target \in TenantDataOps
      BY <2>1, <2>2 DEF Generated, TenantDataOps
    <3>2. RequestOf(Target) = TenantDataRequest(Target)
      BY <3>1, TenantDataGroup
    <3>3. Draft = CryptoRequest
      BY <2>2 DEF Draft
    <3>4. /\ CryptoRequest.method = TenantDataRequest(Target).method
          /\ CryptoRequest.path = TenantDataRequest(Target).path
      BY <2>1, <2>2 DEF CryptoRequest, TenantDataRequest, Generated, Call, WithJson
    <3> QED
      BY <2>1, <3>2, <3>3, <3>4
  <2>3. CASE op \notin {"cryptoset", "cryptostatus"}
    BY <2>1, <2>3 DEF Draft
  <2> QED
    BY <2>1, <2>2, <2>3
<1> QED
  BY <1>1, <1>2
-----------------------------------------------------------------------------
(***************************************************************************)
(* Identifiers in paths.                                                   *)
(***************************************************************************)
LEMMA LargerSeq ==
    ASSUME NEW S, NEW T, S \subseteq T
    PROVE  Seq(S) \subseteq Seq(T)
  OBVIOUS

LEMMA PassedString ==
    ASSUME NEW id \in Passed PROVE id \in Seq(Pieces)
<1>1. <<Id>> \in Seq(Pieces)
  BY WordPieces DEF Id
<1>2. STRING \subseteq Pieces
  BY DEF Pieces
<1>3. Seq(STRING) \subseteq Seq(Pieces)
  BY <1>2, LargerSeq, Zenon
<1>4. Identifiers \subseteq Seq(Pieces)
  BY <1>3, IdentifiersAreStrings, Zenon
<1> QED
  BY <1>1, <1>4 DEF Passed

LEMMA PlacedPath ==
    ASSUME NEW t \in Seq(Pieces), NEW id \in Seq(Pieces)
    PROVE  /\ Placed(t, id) \in Seq(Seq(Pieces))
           /\ Len(Placed(t, id)) = Len(t) /\ DOMAIN Placed(t, id) = 1 .. Len(t)
           /\ \A i \in 1 .. Len(t) : Placed(t, id)[i] = IF t[i] = Id THEN id ELSE <<t[i]>>
<1>1. DOMAIN t = 1 .. Len(t) /\ Len(t) \in Nat /\ \A i \in 1 .. Len(t) : t[i] \in Pieces
  OBVIOUS
<1>2. \A x \in Pieces : <<x>> \in Seq(Pieces)
  OBVIOUS
<1>3. Placed(t, id) = [i \in 1 .. Len(t) |-> IF t[i] = Id THEN id ELSE <<t[i]>>]
  BY <1>1 DEF Placed
<1> DEFINE p == [i \in 1 .. Len(t) |-> IF t[i] = Id THEN id ELSE <<t[i]>>]
<1>4. p \in [1 .. Len(t) -> Seq(Pieces)]
  BY <1>1, <1>2
<1>5. \A i \in 1 .. Len(t) : p[i] = IF t[i] = Id THEN id ELSE <<t[i]>>
  OBVIOUS
<1> HIDE DEF p
<1>6. p \in Seq(Seq(Pieces)) /\ Len(p) = Len(t)
  BY <1>1, <1>4
<1> QED
  BY <1>3, <1>4, <1>5, <1>6 DEF p

\* A contained identifier stays what it is to every reader of the path.
LEMMA ContainedPath ==
    ASSUME NEW p \in Operations, NEW id \in Seq(Pieces), Contained(id)
    PROVE  LET path == Placed(RequestOf(p).path, id)
           IN  Normal(path) = path /\ Readings(path) = {path}
<1> DEFINE t == RequestOf(p).path
           path == Placed(t, id)
<1>1. /\ t \in Seq(Pieces) /\ DOMAIN path = 1 .. Len(t)
      /\ \A i \in 1 .. Len(t) : path[i] = IF t[i] = Id THEN id ELSE <<t[i]>>
      /\ \A i \in 1 .. Len(t) : t[i] # "." /\ t[i] # ".."
  BY RequestShape, PlacedPath DEF Shaped
<1> HIDE DEF path, t
<1>2. \A i \in DOMAIN path : path[i] \notin Dots /\ Len(path[i]) = 1
  BY <1>1 DEF Contained, Dots
<1>3. Normal(path) = path
  BY <1>2 DEF Normal
<1>4. Readings(path) = {path}
  BY <1>2, <1>3 DEF Readings
<1> QED
  BY <1>3, <1>4 DEF path, t

\* A path that ends in one segment, written out.
Ended(path, w) ==
    path \in Seq(Seq(Pieces)) /\ Len(path) >= 1 /\ path[Len(path)] = <<w>>

LEMMA SpliceEnds ==
    ASSUME NEW w, NEW path, Ended(path, w), NEW i \in Int, NEW j \in Int,
           i <= j + 1, 0 <= j, j < Len(path), NEW segments \in Seq(Seq(Pieces))
    PROVE  Ended(Spliced(path, i, j, segments), w)
<1> DEFINE n == Len(path)
           left == SubSeq(path, 1, i - 1)
           right == SubSeq(path, j + 1, n)
<1>1. n \in Nat /\ \A k \in 1 .. n : path[k] \in Seq(Pieces)
  BY DEF Ended
<1>2. left \in Seq(Seq(Pieces))
  BY <1>1, SubSeqProperties
<1>3. /\ right \in Seq(Seq(Pieces)) /\ Len(right) = n - j
      /\ right[n - j] = path[n]
  <2>1. \A k \in j + 1 .. n : path[k] \in Seq(Pieces)
    BY <1>1
  <2>2. /\ right \in Seq(Seq(Pieces)) /\ Len(right) = n - j
        /\ \A k \in 1 .. n - j : right[k] = path[j + k]
    BY <1>1, <2>1, SubSeqProperties
  <2> QED
    BY <1>1, <2>2
<1> HIDE DEF left, right
<1>4. left \o segments \in Seq(Seq(Pieces))
  BY <1>2, ConcatProperties
<1> DEFINE front == left \o segments
<1> HIDE DEF front
<1>5. /\ front \o right \in Seq(Seq(Pieces))
      /\ Len(front \o right) = Len(front) + Len(right)
      /\ \A k \in 1 .. Len(front) + Len(right) :
            (front \o right)[k] = IF k <= Len(front) THEN front[k] ELSE right[k - Len(front)]
  BY <1>3, <1>4, ConcatProperties DEF front
<1>6. Len(front) \in Nat
  BY <1>4 DEF front
<1>7. (front \o right)[Len(front) + Len(right)] = path[n]
  <2> DEFINE k == Len(front) + Len(right)
  <2>1. k \in 1 .. Len(front) + Len(right) /\ ~(k <= Len(front)) /\ k - Len(front) = n - j
    BY <1>1, <1>3, <1>6
  <2> HIDE DEF k
  <2>2. (front \o right)[k] = right[n - j]
    BY <1>5, <2>1
  <2> QED
    BY <1>3, <2>2 DEF k
<1>8. Spliced(path, i, j, segments) = front \o right
  BY DEF Spliced, front, left, right
<1> QED
  BY <1>1, <1>3, <1>5, <1>6, <1>7, <1>8 DEF Ended

LEMMA NormalEnds ==
    ASSUME NEW w, NEW path, Ended(path, w), <<w>> \notin Dots
    PROVE  Ended(Normal(path), w)
<1> DEFINE dots == {i \in DOMAIN path : path[i] \in Dots}
           i == CHOOSE d \in dots : TRUE
<1>1. CASE dots = {}
  BY <1>1 DEF Normal
<1>2. CASE dots # {}
  <2>1. i \in dots
    BY <1>2
  <2> HIDE DEF i
  <2>2. i \in 1 .. Len(path) /\ i # Len(path) /\ Len(path) \in Nat
    BY <2>1 DEF Ended
  <2> DEFINE from == IF path[i] = <<"..">> THEN i - 1 ELSE i
  <2>3. Normal(path) = Spliced(path, from, i, <<>>)
    BY <1>2, <2>2 DEF Normal, i
  <2>4. from \in Int /\ from <= i + 1 /\ i \in Int /\ 0 <= i /\ i < Len(path)
    BY <2>2
  <2> HIDE DEF from
  <2>5. <<>> \in Seq(Seq(Pieces))
    OBVIOUS
  <2>6. Ended(Spliced(path, from, i, <<>>), w)
    BY <2>4, <2>5, SpliceEnds
  <2> QED
    BY <2>3, <2>6
<1> QED
  BY <1>1, <1>2

LEMMA ApartSeq ==
    ASSUME NEW segment \in Seq(Pieces)
    PROVE  [k \in DOMAIN segment |-> <<segment[k]>>] \in Seq(Seq(Pieces))
<1> DEFINE parts == [k \in 1 .. Len(segment) |-> <<segment[k]>>]
<1>1. \A k \in 1 .. Len(segment) : <<segment[k]>> \in Seq(Pieces)
  OBVIOUS
<1>2. parts \in [1 .. Len(segment) -> Seq(Pieces)]
  BY <1>1
<1> HIDE DEF parts
<1>3. parts \in Seq(Seq(Pieces))
  BY <1>2
<1>4. DOMAIN segment = 1 .. Len(segment)
  OBVIOUS
<1> QED
  BY <1>3, <1>4 DEF parts

\* Whatever a reader makes of the identifier, the last segment stays.
LEMMA ReadingEnds ==
    ASSUME NEW w, NEW path, Ended(path, w), <<w>> \notin Dots, NEW reading \in Readings(path)
    PROVE  Ended(reading, w)
<1> DEFINE normal == Normal(path)
           Apart(segment) == [k \in DOMAIN segment |-> <<segment[k]>>]
<1>1. Ended(normal, w)
  BY NormalEnds
<1> HIDE DEF normal
<1>2. CASE reading \in {path, normal}
  BY <1>1, <1>2
<1>3. ASSUME NEW i \in {j \in DOMAIN normal : Len(normal[j]) # 1},
             reading = Spliced(normal, i, i, Apart(normal[i]))
      PROVE  Ended(reading, w)
  <2>1. i \in 1 .. Len(normal) /\ i # Len(normal) /\ Len(normal) \in Nat
    BY <1>1 DEF Ended
  <2>2. normal[i] \in Seq(Pieces)
    BY <1>1, <2>1 DEF Ended
  <2>3. Apart(normal[i]) \in Seq(Seq(Pieces))
    BY <2>2, ApartSeq
  <2> HIDE DEF Apart
  <2> QED
    BY <1>1, <1>3, <2>1, <2>3, SpliceEnds
<1> QED
  BY <1>2, <1>3 DEF Readings, normal

\* The operations of which the application passes a string of its own.
LEMMA FreeFormTargets ==
    ASSUME NEW s, op \in Offered(s), sdk = s, FreeForm
    PROVE  Target \in InvoiceOps \cup {"DeleteWebhook"}
<1>1. op \in Ops \cup Operations
  BY OfferedOps
<1>2. CASE sdk = "go"
  BY <1>2 DEF FreeForm
<1>3. CASE sdk # "go"
  <2>1. op \in Ops /\ op \notin {"cryptoset", "cryptostatus"}
    BY <1>3 DEF Offered, Ops
  <2>2. Target = Generated(op) /\ Draft.path = RequestOf(Generated(op)).path
    BY <2>1, OwnOperations DEF Target, Draft
  <2>3. \E i \in DOMAIN RequestOf(Generated(op)).path : RequestOf(Generated(op)).path[i] = Id
    BY <2>2 DEF FreeForm
  <2>4. CASE op \in {"submit", "list"}
    <3>1. Generated(op) \in SubmitOps /\ Generated(op) # "SubmitBulkInvoices"
      BY <2>4 DEF Generated, SubmitOps
    <3>2. \A i \in DOMAIN SubmitRequest(Generated(op)).path : SubmitRequest(Generated(op)).path[i] # Id
      BY <3>1 DEF SubmitOps, SubmitRequest, InvoicePath, Id, Call, WithJson, Keyed
    <3> QED
      BY <2>3, <3>1, <3>2, SubmitGroup
  <2>5. CASE op \in {"taxcodes", "hsncodes"}
    <3>1. Generated(op) \in LookupOps
      BY <2>5 DEF Generated, LookupOps
    <3>2. \A i \in DOMAIN LookupRequest(Generated(op)).path : LookupRequest(Generated(op)).path[i] # Id
      BY DEF LookupRequest, Id, Call, Conditional
    <3> QED
      BY <2>3, <3>1, <3>2, LookupGroup
  <2>6. CASE op \in {"create", "webhooks"}
    <3>1. Generated(op) \in WebhookOps /\ Generated(op) \in {"CreateWebhook", "ListWebhooks"}
      BY <2>6 DEF Generated, WebhookOps
    <3>2. \A i \in DOMAIN WebhookRequest(Generated(op)).path : WebhookRequest(Generated(op)).path[i] # Id
      BY <3>1 DEF WebhookRequest, WebhookPath, Id, Call, WithJson
    <3> QED
      BY <2>3, <3>1, <3>2, WebhookGroup
  <2>7. CASE op \in {"get", "transmit", "update", "delete"}
    BY <2>2, <2>7 DEF Generated, InvoiceOps
  <2> QED
    BY <2>1, <2>4, <2>5, <2>6, <2>7 DEF Ops
<1> QED
  BY <1>2, <1>3

(***************************************************************************)
(* Go leaves requests alone whose path ends like that of the token         *)
(* endpoint: the request for a token, and those that get an invoice whose  *)
(* identifier ends so.                                                     *)
(***************************************************************************)
\* With a contained identifier, the path ends as the operation's does.
LEMMA ContainedEnd ==
    ASSUME NEW p \in Operations, EndsIn(Placed(RequestOf(p).path, <<Id>>), "oauth", "token")
    PROVE  p = "CreateOAuthToken"
<1> DEFINE t == RequestOf(p).path
           path == Placed(t, <<Id>>)
<1>1. <<Id>> \in Seq(Pieces)
  BY WordPieces DEF Id
<1>2. Shaped(p, RequestOf(p))
  BY RequestShape
<1>3. /\ t \in Seq(Pieces) /\ Len(t) \in Nat /\ Len(t) >= 1 /\ Len(path) = Len(t)
      /\ \A i \in 1 .. Len(t) : path[i] = <<t[i]>>
  <2>1. t \in Seq(Pieces) /\ Len(t) >= 1
    BY <1>2 DEF Shaped
  <2> HIDE DEF t
  <2>2. Len(t) \in Nat
    BY <2>1
  <2>3. Len(path) = Len(t)
    BY <1>1, <2>1, PlacedPath
  <2>4. \A i \in 1 .. Len(t) : path[i] = <<t[i]>>
    BY <1>1, <2>1, PlacedPath
  <2> QED
    BY <2>1, <2>2, <2>3, <2>4
<1> HIDE DEF path, t
<1>4. EndsIn(path, "oauth", "token")
  BY DEF path, t
<1>5. path[Len(t)] = <<t[Len(t)]>>
  BY <1>3
<1>6. /\ <<t[Len(t)]>> = <<"token">> /\ Len(t) >= 2
      /\ path[Len(t) - 1][Len(path[Len(t) - 1])] = "oauth"
  BY <1>3, <1>4, <1>5 DEF EndsIn
<1>7. path[Len(t) - 1] = <<t[Len(t) - 1]>>
  BY <1>3, <1>6
<1>8. t[Len(t)] = "token" /\ t[Len(t) - 1] = "oauth"
  BY <1>6, <1>7
<1> QED
  BY <1>2, <1>3, <1>6, <1>8 DEF Shaped, ForToken, t

LEMMA ElementsIn ==
    ASSUME NEW S, NEW s \in Seq(S)
    PROVE  \A k \in 1 .. Len(s) : s[k] \in S
  OBVIOUS

\* The invoice's identifier is the end of the path.
LEMMA InvoiceEnd ==
    ASSUME NEW path \in Seq(Seq(Pieces)), NEW id \in Seq(Pieces), Len(path) = 3,
           path[1] = <<"v1">>, path[2] = <<"invoices">>, path[3] = id,
           EndsIn(Normal(path), "oauth", "token")
    PROVE  EndsIn(<<id>>, "oauth", "token")
<1>1. DOMAIN path = 1 .. 3
  OBVIOUS
<1>2. path[1] \notin Dots /\ path[2] \notin Dots
  BY DEF Dots
<1>3. CASE id \notin Dots
  <2>1. {i \in DOMAIN path : path[i] \in Dots} = {}
    <3>1. \A i \in {1, 2, 3} : path[i] \notin Dots
      BY <1>2, <1>3
    <3>2. DOMAIN path = {1, 2, 3}
      BY <1>1
    <3> QED
      BY <3>1, <3>2
  <2>2. Normal(path) = path
    BY <2>1 DEF Normal
  <2>3. EndsIn(path, "oauth", "token")
    BY <2>2
  <2>4. Len(id) >= 2 /\ id[Len(id) - 1] = "oauth" /\ id[Len(id)] = "token"
    BY <1>1, <2>3 DEF EndsIn
  <2> QED
    BY <2>4 DEF EndsIn
<1>4. CASE id \in Dots
  <2> DEFINE dots == {i \in DOMAIN path : path[i] \in Dots}
             front(i) == SubSeq(path, 1, i - 1)
  <2>1. dots = {3}
    <3>1. \A i \in {1, 2, 3} : path[i] \in Dots <=> i = 3
      BY <1>2, <1>4
    <3>2. DOMAIN path = {1, 2, 3}
      BY <1>1
    <3> QED
      BY <3>1, <3>2
  <2>2. (CHOOSE d \in dots : TRUE) = 3
    BY <2>1
  <2>3. PICK i \in {2, 3} : Normal(path) = Spliced(path, i, 3, << <<>> >>)
    BY <1>1, <2>1, <2>2 DEF Normal
  <2>4. SubSeq(path, 4, 3) = <<>>
    BY SubSeqEmpty
  <2>5. front(i) \in Seq(Seq(Pieces)) /\ Len(front(i)) = i - 1
    <3>1. i - 1 \in Int /\ 1 <= i - 1 /\ \A k \in 1 .. i - 1 : k \in 1 .. 3
      BY <2>3
    <3>2. \A k \in 1 .. 3 : path[k] \in Seq(Pieces)
      BY ElementsIn
    <3> QED
      BY <3>1, <3>2, SubSeqProperties
  <2>6. Normal(path) = (front(i) \o << <<>> >>) \o <<>>
    BY <1>1, <2>3, <2>4 DEF Spliced
  <2> HIDE DEF front
  <2>7. << <<>> >> \in Seq(Seq(Pieces)) /\ Len(<< <<>> >>) = 1 /\ << <<>> >>[1] = <<>>
    OBVIOUS
  <2> DEFINE last == << <<>> >>
  <2>8. last \in Seq(Seq(Pieces)) /\ Len(last) = 1 /\ last[1] = <<>>
    BY <2>7
  <2> HIDE DEF last
  <2>9. /\ front(i) \o last \in Seq(Seq(Pieces)) /\ Len(front(i) \o last) = i
        /\ (front(i) \o last)[i] = <<>>
    <3>1. /\ front(i) \o last \in Seq(Seq(Pieces))
          /\ Len(front(i) \o last) = Len(front(i)) + Len(last)
          /\ \A k \in 1 .. Len(front(i)) + Len(last) : (front(i) \o last)[k] =
                IF k <= Len(front(i)) THEN front(i)[k] ELSE last[k - Len(front(i))]
      BY <2>5, <2>8, ConcatProperties
    <3>2. Len(front(i)) + Len(last) = i /\ i \in 1 .. i /\ ~(i <= i - 1) /\ i - (i - 1) = 1
      BY <2>5, <2>8
    <3>3. (front(i) \o last)[i] = last[1]
      BY <2>5, <3>1, <3>2
    <3> QED
      BY <2>8, <3>1, <3>2, <3>3
  <2>10. (front(i) \o last) \o <<>> = front(i) \o last
    BY <2>9, ConcatEmptySeq
  <2>11. Len(Normal(path)) = i /\ Normal(path)[i] = <<>>
    BY <2>6, <2>9, <2>10 DEF last
  <2>12. ~EndsIn(Normal(path), "oauth", "token")
    BY <2>11 DEF EndsIn
  <2> QED
    BY <2>12
<1> QED
  BY <1>3, <1>4

LEMMA ExemptPath ==
    ASSUME sdk = "go", op \in Offered("go"), NEW id \in Passed,
           EndsIn(Path(id), "oauth", "token")
    PROVE  \/ op = "CreateOAuthToken"
           \/ Target = "GetInvoice" /\ EndsIn(<<id>>, "oauth", "token")
<1>1. op \in Ops \cup Operations
  BY OfferedOps
<1>2. Target \in Operations /\ Draft.path = RequestOf(Target).path
  BY <1>1, DraftRoute
<1>3. id \in Seq(Pieces)
  BY PassedString
<1> DEFINE path == Placed(RequestOf(Target).path, id)
<1>4. EndsIn(Normal(path), "oauth", "token")
  BY <1>2 DEF Path
<1>5. LET t == RequestOf(Target).path
      IN  /\ path \in Seq(Seq(Pieces)) /\ Len(path) = Len(t)
          /\ \A i \in 1 .. Len(t) : path[i] = IF t[i] = Id THEN id ELSE <<t[i]>>
  <2>1. RequestOf(Target).path \in Seq(Pieces)
    BY <1>2, RequestShape DEF Shaped
  <2> QED
    BY <1>3, <2>1, PlacedPath
<1>6. CASE ~FreeForm
  <2>1. id = <<Id>>
    BY <1>6 DEF Passed
  <2>2. Contained(id)
    BY <2>1 DEF Contained, Dots, Id
  <2>3. Normal(path) = path
    BY <1>2, <1>3, <2>2, ContainedPath
  <2>4. Target = "CreateOAuthToken"
    BY <1>2, <1>4, <2>1, <2>3, ContainedEnd
  <2> QED
    BY <1>1, <2>4, OwnOperations DEF Target
<1>7. CASE FreeForm
  <2>1. Target \in InvoiceOps
    BY <1>7 DEF FreeForm
  <2>2. RequestOf(Target).path = InvoiceRequest(Target).path
    BY <2>1, InvoiceGroup
  <2>3. CASE Target = "GetInvoice"
    <3>1. /\ Len(RequestOf(Target).path) = 3 /\ RequestOf(Target).path[1] = "v1"
          /\ RequestOf(Target).path[2] = "invoices" /\ RequestOf(Target).path[3] = Id
      BY <2>1, <2>2, <2>3, InvoicePaths
    <3>2. /\ path \in Seq(Seq(Pieces)) /\ Len(path) = 3
          /\ path[1] = <<"v1">> /\ path[2] = <<"invoices">> /\ path[3] = id
      BY <1>5, <3>1 DEF Id
    <3> HIDE DEF path
    <3> QED
      BY <1>3, <1>4, <2>3, <3>1, <3>2, InvoiceEnd
  <2>4. CASE Target # "GetInvoice"
    <3>1. PICK w \in {"pdf", "status", "transmit"} :
             Len(RequestOf(Target).path) = 4 /\ RequestOf(Target).path[4] = w
      BY <2>1, <2>2, <2>4, InvoicePaths DEF InvoiceOps
    <3>3. Ended(path, w)
      BY <1>5, <3>1 DEF Ended, Id
    <3>4. <<w>> \notin Dots
      BY DEF Dots
    <3> HIDE DEF path
    <3>5. Ended(Normal(path), w)
      BY <3>3, <3>4, NormalEnds
    <3>6. Normal(path)[Len(Normal(path))] = <<w>> /\ <<w>> # <<"token">> /\ Len(<<w>>) = 1
      BY <3>5 DEF Ended
    <3>7. ~EndsIn(Normal(path), "oauth", "token")
      BY <3>6 DEF EndsIn
    <3> QED
      BY <1>4, <3>7 DEF path
  <2> QED
    BY <2>3, <2>4
<1> QED
  BY <1>6, <1>7
-----------------------------------------------------------------------------
(***************************************************************************)
(* The request and its bearer token, from the options to the wire.         *)
(***************************************************************************)
Routed ==
    /\ request.method = Draft.method
    /\ request.id \in Passed /\ request.path = Path(request.id)

BearerSound ==
    \/ Sendable(sdk, request.bearer)
    \/ request.bearer = "none" /\ op = "CreateOAuthToken"
    \/ /\ request.bearer = "none" /\ sdk = "go" /\ Target = "GetInvoice"
       /\ EndsIn(<<request.id>>, "oauth", "token")

RequestInv ==
    /\ sdk \in Sdks \cup {"laravel"}
    /\ phase = "new" => options \in Options
    /\ phase # "new" => sdk \in Sdks /\ Sendable(sdk, client.bearer)
    /\ phase \in {"called", "built", "authorized", "sent"} => op \in Offered(sdk)
    /\ phase = "built" =>
         \E id \in Passed : request = [method |-> Draft.method, path |-> Path(id), id |-> id,
                                      bearer |-> "none"]
    /\ phase \in {"authorized", "sent"} => Routed /\ BearerSound

LEMMA RequestStep == RequestInv /\ [Next]_vars => RequestInv'
<1> SUFFICES ASSUME RequestInv, [Next]_vars PROVE RequestInv'
  OBVIOUS
<1> USE DEF RequestInv
<1> DEFINE Kept == UNCHANGED <<Draft, Passed, Path(request.id), Target>>
<1>0. UNCHANGED <<sdk, op, request>> => Kept
  BY DEF Draft, CryptoRequest, Target, Passed, FreeForm, Path
<1>1. CASE Construct
  <2>1. /\ phase' = "done" /\ client' = ClientOf(sdk, options) /\ client' # Refused
        /\ sdk' = IF sdk = "laravel" THEN "php" ELSE sdk
    BY <1>1 DEF Construct
  <2>2. sdk' \in Sdks
    BY <2>1 DEF Sdks
  <2>3. Sendable(sdk', client'.bearer)
    BY <1>1, <2>1, ConstructedSendable DEF Construct
  <2> QED
    BY <2>1, <2>2, <2>3
<1>2. CASE ConstructFails
  BY <1>2 DEF ConstructFails
<1>3. CASE NextCall
  BY <1>3 DEF NextCall
<1>4. CASE Build
  BY <1>4 DEF Build, Draft, CryptoRequest, Target, Passed, FreeForm, Path
<1>5. CASE IdentifierRefused \/ BuildFails
  BY <1>5 DEF IdentifierRefused, BuildFails, EndWith
<1>6. CASE SkipAuth
  <2>1. /\ phase = "built" /\ sdk = "go" /\ EndsIn(request.path, "oauth", "token")
        /\ phase' = "authorized"
        /\ UNCHANGED <<sdk, options, client, op, request>>
    BY <1>6 DEF SkipAuth, Exempt, Editing
  <2>2. op \in Offered("go") /\ Routed /\ request.bearer = "none"
    BY <2>1 DEF Routed
  <2>3. BearerSound
    BY <2>1, <2>2, ExemptPath DEF Routed, BearerSound
  <2> QED
    BY <1>0, <2>1, <2>2, <2>3 DEF BearerSound, Routed
<1>7. CASE Authorize
  <2>1. /\ phase = "built" /\ phase' = "authorized"
        /\ request' = [request EXCEPT !.bearer = client.bearer]
        /\ UNCHANGED <<sdk, options, client, op>>
    BY <1>7 DEF Authorize, Editing
  <2>2. /\ request'.bearer = client.bearer /\ request'.id = request.id
        /\ request'.method = Draft.method
        /\ request.id \in Passed /\ request'.path = Path(request.id)
    BY <2>1
  <2>3. Routed'
    BY <2>1, <2>2 DEF Routed, Draft, CryptoRequest, Target, Passed, FreeForm, Path
  <2> QED
    BY <2>1, <2>2, <2>3 DEF BearerSound
<1>8. CASE Unauthorized
  BY <1>8 DEF Unauthorized, EndWith
<1>9. CASE EditFails
  BY <1>9 DEF EditFails, EndWith
<1>10. CASE Send
  <2>1. /\ phase = "authorized" /\ phase' = "sent"
        /\ UNCHANGED <<sdk, options, client, op, request>>
    BY <1>10 DEF Send
  <2> QED
    BY <1>0, <2>1 DEF BearerSound, Routed
<1>11. CASE Answer
  BY <1>11 DEF Answer
<1>12. CASE TransportFails
  BY <1>12 DEF TransportFails, EndWith
<1>13. CASE DecodeReply
  BY <1>13 DEF DecodeReply
<1>14. CASE UNCHANGED vars
  <2>1. UNCHANGED <<sdk, options, client, op, phase, request>>
    BY <1>14 DEF vars
  <2> QED
    BY <1>0, <2>1 DEF BearerSound, Routed
<1> QED
  BY <1>1, <1>2, <1>3, <1>4, <1>5, <1>6, <1>7, <1>8, <1>9, <1>10, <1>11, <1>12,
     <1>13, <1>14 DEF Next

LEMMA RequestInvariant == Spec => []RequestInv
<1>1. Init => RequestInv
  BY DEF Init, RequestInv
<1> QED
  BY <1>1, RequestStep, PTL DEF Spec

\* Every SDK sends the token it was configured with or one it exchanged, whatever
\* the identifier in the path, and Go leaves it out of the request for a token and
\* of those for an invoice that is called like it.
THEOREM BearerKept == Spec => []BearerIsConfigured
<1>1. RequestInv => BearerIsConfigured
  BY DEF RequestInv, BearerSound, BearerIsConfigured, Sendable
<1> QED
  BY <1>1, RequestInvariant, PTL

\* A contained identifier: the path is read in one way, and fits the template it
\* was put into, and no other.
LEMMA ContainedRoute ==
    ASSUME NEW p \in Operations, NEW q \in Operations, NEW id \in Seq(Pieces), Contained(id),
           RequestOf(q).method = RequestOf(p).method
    PROVE  Fits(Placed(RequestOf(p).path, id), RequestOf(q).path) =>
             SameRoute(RequestOf(p), RequestOf(q))
<1> DEFINE t == RequestOf(p).path
           u == RequestOf(q).path
           path == Placed(t, id)
<1>1. t \in Seq(Pieces) /\ u \in Seq(Pieces)
  BY RequestShape DEF Shaped
<1> HIDE DEF t, u
<1>2. /\ Len(path) = Len(t) /\ DOMAIN t = 1 .. Len(t) /\ DOMAIN u = 1 .. Len(u)
      /\ \A i \in 1 .. Len(t) : path[i] = IF t[i] = Id THEN id ELSE <<t[i]>>
  <2>1. DOMAIN t = 1 .. Len(t) /\ DOMAIN u = 1 .. Len(u)
    BY <1>1
  <2>2. Len(path) = Len(t)
    BY <1>1, PlacedPath
  <2>3. \A i \in 1 .. Len(t) : path[i] = IF t[i] = Id THEN id ELSE <<t[i]>>
    BY <1>1, PlacedPath
  <2> QED
    BY <2>1, <2>2, <2>3
<1> HIDE DEF path
<1>3. ASSUME Fits(path, u), NEW i \in 1 .. Len(t), t[i] # Id, u[i] # Id
      PROVE  t[i] = u[i]
  <2>1. <<t[i]>> = <<u[i]>>
    BY <1>2, <1>3 DEF Fits
  <2> QED
    BY <2>1
<1>4. Fits(path, u) => Len(t) = Len(u)
  BY <1>2 DEF Fits
<1> QED
  BY <1>2, <1>3, <1>4 DEF SameRoute, t, u, path

LEMMA OwnRoute ==
    ASSUME NEW p \in Operations, NEW id \in Seq(Pieces), Contained(id)
    PROVE  Fits(Placed(RequestOf(p).path, id), RequestOf(p).path)
<1> DEFINE t == RequestOf(p).path
<1>1. t \in Seq(Pieces)
  BY RequestShape DEF Shaped
<1> HIDE DEF t
<1>2. id # <<>>
  <2>1. Len(id) # Len(<<>>)
    BY DEF Contained
  <2> QED
    BY <2>1
<1>3. Len(Placed(t, id)) = Len(t)
  BY <1>1, PlacedPath
<1>4. \A i \in 1 .. Len(t) : Placed(t, id)[i] = IF t[i] = Id THEN id ELSE <<t[i]>>
  BY <1>1, PlacedPath
<1>5. DOMAIN t = 1 .. Len(t)
  BY <1>1
<1>6. Fits(Placed(t, id), t)
  BY <1>2, <1>3, <1>4, <1>5 DEF Fits
<1> QED
  BY <1>6 DEF t

\* A POST that is read in a way that ends in "status" or "transmit" is taken for
\* the operation whose path ends so.
LEMMA EndRoute ==
    ASSUME NEW w \in {"status", "transmit"}, NEW reading, Ended(reading, w),
           NEW p \in Operations, RequestOf(p).method = "POST", Fits(reading, RequestOf(p).path)
    PROVE  p = IF w = "status" THEN "UpdateInvoiceStatus" ELSE "RetransmitInvoice"
<1> DEFINE t == RequestOf(p).path
<1>1. Shaped(p, RequestOf(p))
  BY RequestShape
<1>2. t \in Seq(Pieces) /\ Len(t) >= 1 /\ t[Len(t)] # Id
  BY <1>1 DEF Shaped
<1> HIDE DEF t
<1>3. Len(reading) = Len(t) /\ Len(t) \in DOMAIN t /\ Fits(reading, t)
  BY <1>2 DEF Fits, t
<1>4. <<w>> = <<t[Len(t)]>>
  BY <1>2, <1>3 DEF Fits, Ended
<1>5. w = t[Len(t)]
  BY <1>4
<1> QED
  BY <1>1, <1>5 DEF Shaped, t

\* Nothing that happens to a request between the call and the wire leads it
\* astray.  With any contained identifier a server takes it for the operation
\* that was called, of all operations of the API; and with any identifier at
\* all, one that writes is taken for no other.
THEOREM RequestsRouted == Spec => []RequestReachesOperation
<1>1. RequestInv => RequestReachesOperation
  <2> DEFINE taken == {p \in Operations : TakenFor(p)}
             id == request.id
  <2> SUFFICES ASSUME RequestInv, phase = "sent"
               PROVE  /\ Contained(id) => taken = {Target}
                      /\ request.method # "GET" => taken \subseteq {Target}
    BY DEF RequestReachesOperation
  <2>1. op \in Ops \cup Operations
    BY OfferedOps DEF RequestInv
  <2>2. /\ Target \in Operations
        /\ request.method = RequestOf(Target).method
        /\ Draft.path = RequestOf(Target).path
        /\ id \in Passed /\ id \in Seq(Pieces)
    BY <2>1, DraftRoute, PassedString DEF RequestInv, Routed
  <2> DEFINE path == Placed(RequestOf(Target).path, id)
  <2>3. request.path \in {path, Normal(path)}
    BY <2>2 DEF RequestInv, Routed, Path
  <2>4. ASSUME Contained(id) PROVE taken = {Target}
    <3>1. Normal(path) = path /\ Readings(path) = {path}
      BY <2>2, <2>4, ContainedPath
    <3>2. Readings(request.path) = {path}
      BY <2>3, <3>1
    <3>3. \A p \in taken : Fits(path, RequestOf(p).path)
      BY <3>2 DEF TakenFor
    <3>4. \A p \in taken : SameRoute(RequestOf(Target), RequestOf(p))
      BY <2>2, <2>4, <3>3, ContainedRoute DEF TakenFor
    <3>5. \A p \in taken : p = Target
      BY <2>2, <3>4, RoutesApart
    <3>6. TakenFor(Target)
      BY <2>2, <2>4, <3>2, OwnRoute DEF TakenFor
    <3> QED
      BY <2>2, <3>5, <3>6
  <2>5. ASSUME ~Contained(id), request.method # "GET", NEW p \in taken PROVE p = Target
    <3>1. FreeForm
      <4>1. Contained(<<Id>>)
        BY DEF Contained, Dots, Id
      <4> QED
        BY <2>2, <2>5, <4>1 DEF Passed
    <3>2. Target \in InvoiceOps \cup {"DeleteWebhook"}
      BY <3>1, FreeFormTargets DEF RequestInv
    <3>3. p \in Operations /\ TakenFor(p) /\ RequestOf(p).method = RequestOf(Target).method
      BY <2>2 DEF TakenFor
    <3>4. CASE Target = "DeleteWebhook"
      <4>1. RequestOf(Target).method = "DELETE"
        BY <3>4, WebhookGroup DEF WebhookOps, WebhookRequest, Call
      <4> QED
        BY <3>3, <3>4, <4>1, RequestShape DEF Shaped
    <3>5. CASE Target \in InvoiceOps
      <4>1. RequestOf(Target) = InvoiceRequest(Target)
        BY <3>5, InvoiceGroup
      <4>2. Target \in {"UpdateInvoiceStatus", "RetransmitInvoice"}
        BY <2>2, <2>5, <3>5, <4>1 DEF InvoiceOps, InvoiceRequest, Call
      <4> DEFINE w == IF Target = "UpdateInvoiceStatus" THEN "status" ELSE "transmit"
      <4>3. /\ Len(RequestOf(Target).path) = 4 /\ RequestOf(Target).path[4] = w
            /\ RequestOf(Target).method = "POST"
        BY <3>5, <4>1, <4>2, InvoicePaths DEF InvoiceRequest, Call, WithJson
      <4>4. w \in {"status", "transmit"} /\ <<w>> \notin Dots
        BY DEF Dots
      <4> HIDE DEF w
      <4>5. RequestOf(Target).path \in Seq(Pieces)
        BY <2>2, RequestShape DEF Shaped
      <4>6. Ended(path, w)
        <5> DEFINE t == RequestOf(Target).path
        <5>1. t \in Seq(Pieces) /\ Len(t) = 4 /\ t[4] = w /\ w # Id
          BY <4>3, <4>4, <4>5 DEF Id
        <5> HIDE DEF t
        <5>2. /\ Placed(t, id) \in Seq(Seq(Pieces)) /\ Len(Placed(t, id)) = Len(t)
              /\ \A i \in 1 .. Len(t) : Placed(t, id)[i] = IF t[i] = Id THEN id ELSE <<t[i]>>
          BY <2>2, <5>1, PlacedPath
        <5>3. Placed(t, id)[4] = <<w>>
          BY <5>1, <5>2
        <5>4. Ended(Placed(t, id), w)
          BY <5>1, <5>2, <5>3 DEF Ended
        <5> QED
          BY <5>4 DEF t
      <4> HIDE DEF path
      <4>7. Ended(request.path, w)
        BY <2>3, <4>4, <4>6, NormalEnds
      <4>8. PICK reading \in Readings(request.path) : Fits(reading, RequestOf(p).path)
        BY <3>3 DEF TakenFor
      <4>9. Ended(reading, w)
        BY <4>4, <4>7, <4>8, ReadingEnds
      <4>10. p = IF w = "status" THEN "UpdateInvoiceStatus" ELSE "RetransmitInvoice"
        BY <3>3, <4>3, <4>4, <4>8, <4>9, EndRoute
      <4> QED
        BY <4>2, <4>10 DEF w
    <3> QED
      BY <3>2, <3>4, <3>5
  <2> QED
    BY <2>4, <2>5
<1> QED
  BY <1>1, RequestInvariant, PTL

LEMMA CompleteOptions ==
    ASSUME NEW o \in Options, \A f \in DOMAIN o : o[f] \in {"none", "set"},
           NEW s \in Sdks \cup {"laravel"}
    PROVE  ClientOf(s, o) = EmptyIsAbsent(o)
<1>1. /\ o.base \in {"none", "set"} /\ o.static \in {"none", "set"}
      /\ o.id \in {"none", "set"} /\ o.secret \in {"none", "set"}
  BY DEF Options
<1>2. /\ (o.base = "set") = Given(o.base) /\ (o.static # "none") = Given(o.static)
      /\ (o.id # "none" /\ o.secret # "none") = (Given(o.id) /\ Given(o.secret))
      /\ NotBlank(o.base) = Given(o.base) /\ NotBlank(o.static) = Given(o.static)
      /\ (NotBlank(o.id) /\ NotBlank(o.secret)) = (Given(o.id) /\ Given(o.secret))
  BY <1>1 DEF Given, NotBlank
<1>3. CASE s \in {"go", "python", "node"}
  BY <1>3 DEF ClientOf, GoNew, PythonInit, NodeConstructor
<1>4. CASE s = "java"
  BY <1>2, <1>4 DEF ClientOf, JavaBuild, EmptyIsAbsent
<1>5. CASE s = "dotnet"
  BY <1>2, <1>5 DEF ClientOf, DotnetConstructor, EmptyIsAbsent
<1>6. PhpConstruct(o) = EmptyIsAbsent(o)
  BY <1>2 DEF PhpConstruct, EmptyIsAbsent
<1>7. LaravelOptions(o) = o
  BY <1>1 DEF LaravelOptions, NullableString, NotBlank, Options
<1>8. CASE s \in {"php", "laravel"}
  BY <1>6, <1>7, <1>8 DEF ClientOf
<1> QED
  BY <1>3, <1>4, <1>5, <1>8 DEF Sdks

\* Options of which each is set or missing mean the same to all six SDKs and to
\* Laravel.
THEOREM OptionsAgree == Spec => []CompleteOptionsAgree
<1>1. RequestInv => CompleteOptionsAgree
  BY CompleteOptions DEF RequestInv, CompleteOptionsAgree
<1> QED
  BY <1>1, RequestInvariant, PTL

\* Whatever the environment leaves unset, empty or blank, the Laravel provider
\* gets from the PHP constructor the client that .NET's constructor would make.
THEOREM ProviderSound == Spec => []ProviderNormalises
<1>1. RequestInv => ProviderNormalises
  BY OptionFields, Provider DEF RequestInv, ProviderNormalises
<1> QED
  BY <1>1, RequestInvariant, PTL
-----------------------------------------------------------------------------
(***************************************************************************)
(* Replies.                                                                *)
(***************************************************************************)
\* What came back is decoded once, by the SDK that was called.
ReplyInv ==
    /\ sdk \in Sdks \cup {"laravel"}
    /\ phase # "new" => sdk \in Sdks
    /\ phase = "new" => reply = None
    /\ phase \notin {"new", "done"} => op \in Offered(sdk)
    /\ phase \in {"called", "built", "authorized", "sent"} => reply = None
    /\ reply # None =>
         /\ reply \in Replies(sdk)
         /\ op \in Offered(sdk)
         /\ phase = "done" => outcome = Decode(sdk, op, reply)
    /\ phase = "answered" => reply \in Replies(sdk)

LEMMA ReplyStep == ReplyInv /\ [Next]_vars => ReplyInv'
<1> SUFFICES ASSUME ReplyInv, [Next]_vars PROVE ReplyInv'
  OBVIOUS
<1> USE DEF ReplyInv
<1>1. CASE Construct
  BY <1>1 DEF Construct, Sdks
<1>2. CASE ConstructFails
  BY <1>2 DEF ConstructFails
<1>3. CASE NextCall
  BY <1>3 DEF NextCall
<1>4. CASE Build
  BY <1>4 DEF Build
<1>5. CASE IdentifierRefused \/ BuildFails
  <2>1. phase \in {"called", "authorized"}
    BY <1>5 DEF IdentifierRefused, BuildFails
  <2> QED
    BY <1>5, <2>1 DEF IdentifierRefused, BuildFails, EndWith
<1>6. CASE SkipAuth
  BY <1>6 DEF SkipAuth, Editing
<1>7. CASE Authorize
  BY <1>7 DEF Authorize, Editing
<1>8. CASE Unauthorized
  BY <1>8 DEF Unauthorized, EndWith
<1>9. CASE EditFails
  BY <1>9 DEF EditFails, EndWith
<1>10. CASE Send
  BY <1>10 DEF Send
<1>11. CASE Answer
  BY <1>11 DEF Answer
<1>12. CASE TransportFails
  BY <1>12 DEF TransportFails, EndWith
<1>13. CASE DecodeReply
  BY <1>13 DEF DecodeReply
<1>14. CASE UNCHANGED vars
  BY <1>14 DEF vars
<1> QED
  BY <1>1, <1>2, <1>3, <1>4, <1>5, <1>6, <1>7, <1>8, <1>9, <1>10, <1>11, <1>12,
     <1>13, <1>14 DEF Next

LEMMA ReplyInvariant == Spec => []ReplyInv
<1>1. Init => ReplyInv
  BY DEF Init, ReplyInv
<1> QED
  BY <1>1, ReplyStep, PTL DEF Spec

\* The statuses that reach a decoder are numbers of an HTTP reply.
LEMMA DecodedReply ==
    ASSUME ReplyInv, Decoded
    PROVE  /\ sdk \in Sdks /\ op \in Offered(sdk)
           /\ reply.status \in 100 .. 599
           /\ outcome = Decode(sdk, op, reply)
  BY StatusesAreCodes DEF ReplyInv, Decoded, Replies

\* Python, Node and Java give every refusal, whatever its body, as their API
\* error with the status.
THEOREM RefusalsTyped == Spec => []RefusalsAreApiErrors
<1>1. ReplyInv => RefusalsAreApiErrors
  <2> SUFFICES ASSUME ReplyInv, TurnedDown, sdk \in {"python", "node", "java"}
               PROVE  RefusalIsApiError(outcome)
    BY DEF RefusalsAreApiErrors
  <2>1. outcome = LenientError(reply)
    BY DecodedReply, RefusedReply DEF TurnedDown, Decode
  <2> QED
    BY <2>1, LenientErrorIsApi DEF RefusalIsApiError
<1> QED
  BY <1>1, ReplyInvariant, PTL

\* An error in the canonical envelope reaches the caller of all six SDKs with
\* its status and its code.
THEOREM CodesArrive == Spec => []CanonicalCodeArrives
<1>1. ReplyInv => CanonicalCodeArrives
  <2> SUFFICES ASSUME ReplyInv, TurnedDown, reply.status >= 400, reply.json,
                      reply.body = "envelope"
               PROVE  outcome = Api(reply.status, "canonical")
    BY DEF CanonicalCodeArrives
  <2>1. /\ op \in Ops /\ reply.status \in 400 .. 599 /\ ~Success(reply)
        /\ sdk \in Sdks /\ outcome = Decode(sdk, op, reply)
    BY DecodedReply DEF TurnedDown
  <2>2. CASE sdk = "go"
    BY <2>1, <2>2, GoReadsCode DEF Decode
  <2>3. CASE sdk \in {"python", "node", "java"}
    BY <2>1, <2>3, RefusedReply, LenientErrorIsApi DEF Decode
  <2>4. CASE sdk = "dotnet"
    BY <2>1, <2>4, RefusedReply DEF Decode, DotnetError
  <2>5. CASE sdk = "php"
    BY <2>1, <2>5 DEF Decode, PhpDecode, PhpError
  <2> QED
    BY <2>1, <2>2, <2>3, <2>4, <2>5 DEF Sdks
<1> QED
  BY <1>1, ReplyInvariant, PTL

\* No refusal is taken for a result.
THEOREM ResultsSucceed == Spec => []ResultMeansSuccess
<1>1. ReplyInv => ResultMeansSuccess
  <2> SUFFICES ASSUME ReplyInv, Decoded, outcome.kind \in Results, ~Success(reply)
               PROVE  \/ NotModified
                      \/ sdk = "php" /\ reply.status < 400
                      \/ op = "GetReadiness" /\ reply.status = 503
    BY DEF ResultMeansSuccess, Results
  <2>1. /\ sdk \in Sdks /\ op \in Offered(sdk) /\ reply.status \in 100 .. 599
        /\ outcome = Decode(sdk, op, reply)
    BY DecodedReply
  <2>2. CASE sdk = "go"
    <3>1. op \in Ops \cup Operations
      BY <2>1, <2>2 DEF Offered
    <3>2. outcome = GoDecode(op, reply)
      BY <2>1, <2>2 DEF Decode
    <3> QED
      BY <2>2, <3>1, <3>2, GoKeepsResults DEF NotModified
  <2>3. CASE sdk \in {"python", "node", "java"}
    <3>1. outcome = LenientError(reply)
      BY <2>1, <2>3, RefusedReply DEF Decode
    <3> QED
      BY <3>1, LenientErrorIsApi DEF Results
  <2>4. CASE sdk = "dotnet"
    <3>1. outcome = DotnetError(op, reply)
      BY <2>1, <2>4, RefusedReply DEF Decode
    <3> QED
      BY <3>1 DEF DotnetError, Foreign, Api, Results
  <2>5. CASE sdk = "php"
    BY <2>1, <2>5 DEF Decode, PhpDecode, PhpError, Api, Results
  <2> QED
    BY <2>1, <2>2, <2>3, <2>4, <2>5 DEF Sdks
<1> QED
  BY <1>1, ReplyInvariant, PTL

\* Nothing is made of an empty answer, and no SDK whose results are never missing
\* returns nothing without an error.
THEOREM NothingFromEmpty == Spec => []EmptyIsNoResult
<1>1. ReplyInv => EmptyIsNoResult
  <2> SUFFICES ASSUME ReplyInv, Decoded
               PROVE  /\ outcome.kind = "absent" => sdk \in {"python", "node", "java"} \/ NotModified
                      /\ reply.body = "empty" /\ outcome.kind \in {"value", "hollow"} =>
                           sdk = "java" /\ op = "webhooks"
    BY DEF EmptyIsNoResult
  <2>1. sdk \in Sdks /\ outcome = Decode(sdk, op, reply)
    BY DecodedReply
  <2>2. CASE sdk = "go"
    BY <2>1, <2>2, GoReturns DEF Decode, NotModified
  <2>3. CASE sdk \in {"python", "node"}
    BY <2>1, <2>3, EmptyReturned DEF Decode
  <2>4. CASE sdk = "java"
    BY <2>1, <2>4, JavaReturns DEF Decode
  <2>5. CASE sdk = "dotnet"
    BY <2>1, <2>5, DotnetReturns DEF Decode
  <2>6. CASE sdk = "php"
    BY <2>1, <2>6, PhpReturns DEF Decode
  <2> QED
    BY <2>1, <2>2, <2>3, <2>4, <2>5, <2>6 DEF Sdks
<1> QED
  BY <1>1, ReplyInvariant, PTL

\* Go's generated parsers and the SDK's own functions, which read the same reply
\* one after the other, do not contradict each other.
THEOREM ParsersAgree == Spec => []FacadeAgreesWithParser
<1>1. ReplyInv => FacadeAgreesWithParser
  <2> SUFFICES ASSUME ReplyInv, Decoded, sdk = "go", op \in Ops \ {"taxcodes"}
               PROVE  LET parsed == ParseReply(Target, reply)
                      IN  /\ parsed = Value => outcome = Value
                          /\ outcome = Value => parsed = Value \/ parsed.kind = "bare"
    BY DEF FacadeAgreesWithParser
  <2>1. Target = Generated(op)
    BY OwnOperations DEF Target
  <2>2. outcome = GoDecode(op, reply)
    BY DecodedReply DEF Decode
  <2>3. CASE op \in {"submit", "get", "list"}
    BY <2>1, <2>2, <2>3, ParsedAlike
  <2>4. CASE op \in HandWritten \ {"taxcodes"}
    BY <2>1, <2>2, <2>4, ReadAlike
  <2> QED
    BY <2>3, <2>4 DEF HandWritten
<1> QED
  BY <1>1, ReplyInvariant, PTL
-----------------------------------------------------------------------------
(***************************************************************************)
(* Types.                                                                  *)
(***************************************************************************)
LEMMA ResolvedType ==
    ASSUME NEW o \in Options, NEW b \in BOOLEAN, NEW t \in BOOLEAN, NEW c \in BOOLEAN
    PROVE  Resolve(o, b, t, c) \in Clients \cup {Refused}
<1>1. \A bearer \in Bearers, base \in {"none", "empty", "blank", "set", "relative"} :
         Client(bearer, base) \in Clients
  BY DEF Client, Clients
<1>2. Client(o.static, o.base) \in Clients /\ Client("exchanged", o.base) \in Clients
  BY <1>1, OptionFields DEF Bearers, Strings
<1> QED
  BY <1>2 DEF Resolve

LEMMA ClientType ==
    ASSUME NEW s \in Sdks \cup {"laravel"}, NEW o \in Options
    PROVE  ClientOf(s, o) \in Clients \cup {Refused}
<1>1. EmptyIsAbsent(o) \in Clients \cup {Refused}
  BY ResolvedType DEF EmptyIsAbsent, Given
<1>2. /\ JavaBuild(o) \in Clients \cup {Refused}
      /\ DotnetConstructor(o) \in Clients \cup {Refused}
  BY ResolvedType DEF JavaBuild, DotnetConstructor, NotBlank
<1>3. \A l \in Options : PhpConstruct(l) \in Clients \cup {Refused}
  BY ResolvedType DEF PhpConstruct, Given
<1>4. LaravelOptions(o) \in Options
  BY OptionFields DEF LaravelOptions, NullableString, Options, Strings
<1> QED
  BY <1>1, <1>2, <1>3, <1>4 DEF ClientOf, Sdks, GoNew, PythonInit, NodeConstructor

LEMMA TypeStep == TypeOK /\ RequestInv /\ ReplyInv /\ [Next]_vars => TypeOK'
<1> SUFFICES ASSUME TypeOK, RequestInv, ReplyInv, [Next]_vars PROVE TypeOK'
  OBVIOUS
<1> USE DEF TypeOK
<1>1. CASE Construct
  <2>1. /\ phase = "new" /\ client' = ClientOf(sdk, options) /\ phase' = "done"
        /\ sdk' = IF sdk = "laravel" THEN "php" ELSE sdk
        /\ options' = None /\ UNCHANGED <<op, request, reply, outcome>>
    BY <1>1 DEF Construct
  <2>2. client' \in Clients \cup {Refused}
    BY <2>1, ClientType DEF RequestInv
  <2>3. sdk' \in Sdks /\ Offered(sdk') = Offered(sdk) /\ reply = None
    BY <2>1 DEF RequestInv, ReplyInv, Offered, Sdks
  <2> QED
    BY <2>1, <2>2, <2>3
<1>2. CASE ConstructFails
  BY <1>2 DEF ConstructFails
<1>3. CASE NextCall
  BY <1>3 DEF NextCall
<1>4. CASE Build
  BY <1>4 DEF Build
<1>5. CASE IdentifierRefused \/ BuildFails
  BY <1>5, PlainOutcomes DEF IdentifierRefused, BuildFails, EndWith
<1>6. CASE SkipAuth
  BY <1>6 DEF SkipAuth, Editing
<1>7. CASE Authorize
  <2>1. /\ phase = "built" /\ phase' = "authorized"
        /\ request' = [request EXCEPT !.bearer = client.bearer]
        /\ UNCHANGED <<sdk, options, client, op, reply, outcome>>
    BY <1>7 DEF Authorize, Editing
  <2>2. request'.bearer = client.bearer
    BY <2>1 DEF RequestInv
  <2>3. client.bearer \in Bearers
    BY <2>1 DEF RequestInv, Sendable, Bearers, Strings
  <2> QED
    BY <2>1, <2>2, <2>3
<1>8. CASE Unauthorized
  <2>1. PICK o \in {Foreign} \cup {Api(s, c) : s \in Statuses, c \in {"canonical", "opaque", "sdk"}} :
           EndWith(o)
    BY <1>8 DEF Unauthorized
  <2>2. o \in Outcomes
    BY <2>1, StatusesAreCodes, ApiOutcome, PlainOutcomes
  <2>3. request' = None
    BY <1>8 DEF Unauthorized
  <2> QED
    BY <2>1, <2>2, <2>3 DEF EndWith
<1>9. CASE EditFails
  BY <1>9, PlainOutcomes DEF EditFails, EndWith
<1>10. CASE Send
  BY <1>10 DEF Send
<1>11. CASE Answer
  BY <1>11 DEF Answer
<1>12. CASE TransportFails
  BY <1>12, PlainOutcomes DEF TransportFails, EndWith
<1>13. CASE DecodeReply
  <2>1. /\ phase = "answered" /\ phase' = "done" /\ outcome' = Decode(sdk, op, reply)
        /\ UNCHANGED <<sdk, options, client, op, request, reply>>
    BY <1>13 DEF DecodeReply
  <2>2. sdk \in Sdks /\ reply.status \in 0 .. 599
    <3>1. reply \in Replies(sdk)
      BY <2>1 DEF ReplyInv
    <3>2. reply.status \in Statuses
      BY <3>1 DEF Replies
    <3>3. sdk \in Sdks
      BY <2>1 DEF ReplyInv
    <3>4. Statuses \subseteq 0 .. 599
      BY StatusesAreCodes
    <3> QED
      BY <3>2, <3>3, <3>4
  <2>3. outcome' \in Outcomes
    BY <2>1, <2>2, DecodeOutcome
  <2> QED
    BY <2>1, <2>3
<1>14. CASE UNCHANGED vars
  BY <1>14 DEF vars
<1> QED
  BY <1>1, <1>2, <1>3, <1>4, <1>5, <1>6, <1>7, <1>8, <1>9, <1>10, <1>11, <1>12,
     <1>13, <1>14 DEF Next

\* Every call ends with an outcome of some SDK, whatever the options, the
\* operation and the reply were: no decoder is without a case for a body, and no
\* API error is without a status, 0 or one of HTTP.
THEOREM PathTypeCorrect == Spec => []TypeOK
<1>1. Init => TypeOK
  BY DEF Init, TypeOK
<1> QED
  BY <1>1, TypeStep, RequestInvariant, ReplyInvariant, PTL DEF Spec
=============================================================================
