----------------------------- MODULE RequestPath -----------------------------
(***************************************************************************)
(* The life of a client: it is constructed from the application's options, *)
(* and makes one API request after another.  A request is put together, is *)
(* given a bearer token, and is sent; whatever comes back is decoded.  The *)
(* reply may be the API's, or that of a proxy or load balancer in between; *)
(* it may also not come at all.  The token source is one of TokenService;  *)
(* here it answers or it does not.                                         *)
(*                                                                         *)
(* No SDK retries a request, and none throws its cached token away when it *)
(* is answered 401.                                                        *)
(***************************************************************************)
EXTENDS ResponseDecode, ClientConfig

CONSTANTS Statuses,     \* HTTP statuses that the HTTP library hands over
          Identifiers   \* what applications pass for an identifier

ASSUME StatusesAreCodes == Statuses \subseteq 100 .. 599

\* A string, as the sequence of what its slashes separate.
ASSUME IdentifiersAreStrings == Identifiers \subseteq Seq(STRING)

VARIABLES sdk,
          options,   \* what the application passes to the constructor
          client,    \* the client it got
          op,        \* the operation it called last
          phase,     \* "new", "called", "built", "authorized", "sent",
                     \* "answered", "done"
          request,   \* the request of the call under way until it is answered,
                     \* or None
          reply,     \* what came back, or None
          outcome    \* how the last call ended, or None

None == [none |-> TRUE]
vars == <<sdk, options, client, op, phase, request, reply, outcome>>

\* A reply of status 204 or 304 has no body.  Only Node looks at its length.
Replies(s) ==
    {r \in [status : Statuses, json : BOOLEAN, sized : BOOLEAN, body : BodyKinds] :
        /\ r.status \in {204, 304} => r.body = "empty"
        /\ s # "node" => r.sized}

Init ==
    /\ sdk \in Sdks \cup {"laravel"} /\ options \in Options
    /\ client = Refused
    /\ op = "none" /\ phase = "new"
    /\ request = None /\ reply = None /\ outcome = None

\* Laravel's client is the PHP SDK's.
Construct ==
    /\ phase = "new"
    /\ client' = ClientOf(sdk, options)
    /\ client' # Refused
    /\ sdk' = IF sdk = "laravel" THEN "php" ELSE sdk
    /\ options' = None
    /\ phase' = "done"
    /\ UNCHANGED <<op, request, reply, outcome>>

\* The constructor throws; the application is configured anew.
ConstructFails ==
    /\ phase = "new"
    /\ ClientOf(sdk, options) = Refused
    /\ options' \in Options
    /\ UNCHANGED <<sdk, client, op, phase, request, reply, outcome>>

NextCall ==
    /\ phase = "done"
    /\ phase' = "called"
    /\ op' \in Offered(sdk)
    /\ request' = None /\ reply' = None /\ outcome' = None
    /\ UNCHANGED <<sdk, options, client>>

\* The call ends early: nothing is sent, or nothing comes back.
EndWith(o) ==
    /\ phase' = "done"
    /\ outcome' = o
    /\ UNCHANGED <<sdk, options, client, op, reply>>

\* The API operation that a call is about.
Target == IF op \in Operations THEN op ELSE Generated(op)

\* Go's requests to the crypto endpoints are put together by hand.
CryptoRequest ==
    IF op = "cryptoset" THEN WithJson(Call("PUT", <<"v1", "crypto">>))
    ELSE Call("GET", <<"v1", "crypto">>)

Draft == IF op \in {"cryptoset", "cryptostatus"} THEN CryptoRequest ELSE RequestOf(Target)

\* The identifier is any string, but that Go wants UUIDs for all but invoices.
FreeForm ==
    /\ \E i \in DOMAIN Draft.path : Draft.path[i] = Id
    /\ sdk = "go" => Target \in InvoiceOps

Passed == IF FreeForm THEN Identifiers ELSE {<<Id>>}

\* An identifier is escaped and put into the path.  Four SDKs, or the libraries
\* that they hand the URL to, then resolve dot segments.
Path(id) ==
    IF sdk \in {"go", "node", "dotnet", "php"} THEN Normal(Placed(Draft.path, id))
    ELSE Placed(Draft.path, id)

\* The request is put together, of the operation's method and path.
Build ==
    /\ phase = "called"
    /\ \E id \in Passed :
          /\ sdk = "dotnet" => id # <<>>
          /\ request' = [method |-> Draft.method, path |-> Path(id), id |-> id,
                         bearer |-> "none"]
    /\ phase' = "built"
    /\ UNCHANGED <<sdk, options, client, op, reply, outcome>>

\* .NET's methods throw at an empty identifier.
IdentifierRefused ==
    /\ phase = "called"
    /\ sdk = "dotnet" /\ <<>> \in Passed
    /\ EndWith(Foreign)
    /\ request' = None

\* The body cannot be marshalled.  Go and PHP find out before they ask for a
\* token, the others after it.
BuildFails ==
    /\ phase = IF sdk \in {"go", "php"} THEN "called" ELSE "authorized"
    /\ Draft.typed
    /\ EndWith(Foreign)
    /\ request' = None

\* Whether the decoded path ends in "/a/b", within a segment or across two.
EndsIn(path, a, b) ==
    LET last == path[Len(path)]
        before == path[Len(path) - 1]
    IN  \/ Len(last) >= 2 /\ last[Len(last) - 1] = a /\ last[Len(last)] = b
        \/ last = <<b>> /\ Len(path) >= 2 /\ before # <<>> /\ before[Len(before)] = a

\* injectAuth leaves requests alone whose path ends like the token endpoint's.
Exempt ==
    /\ sdk = "go"
    /\ EndsIn(request.path, "oauth", "token")

Editing ==
    /\ phase' = "authorized"
    /\ UNCHANGED <<sdk, options, client, op, reply, outcome>>

SkipAuth ==
    /\ phase = "built" /\ Exempt
    /\ Editing
    /\ UNCHANGED request

\* The token source answers, with the configured token or an exchanged one.
Authorize ==
    /\ phase = "built" /\ ~Exempt
    /\ client.bearer = "exchanged" => client.reachable
    /\ request' = [request EXCEPT !.bearer = client.bearer]
    /\ Editing

\* Slip: the loop over the editors drops their errors.
UnauthorizedIgnored ==
    /\ phase = "built" /\ ~Exempt
    /\ client.bearer = "exchanged"
    /\ Editing
    /\ UNCHANGED request

\* The exchange fails: with an API error of the token endpoint, or another
\* exception.
Unauthorized ==
    /\ phase = "built" /\ ~Exempt
    /\ client.bearer = "exchanged"
    /\ \E o \in {Foreign} \cup {Api(s, c) : s \in Statuses, c \in {"canonical", "opaque", "sdk"}} :
          (o # Foreign => client.reachable) /\ EndWith(o)
    /\ request' = None

\* An editor that the application passed to a call of Go's generated client
\* returns an error.
EditFails ==
    /\ phase = "authorized"
    /\ op \in Operations
    /\ EndWith(Foreign)
    /\ request' = None

Send ==
    /\ phase = "authorized"
    /\ phase' = "sent"
    /\ UNCHANGED <<sdk, options, client, op, request, reply, outcome>>

Answer ==
    /\ phase = "sent" /\ client.reachable
    /\ reply' \in Replies(sdk)
    /\ phase' = "answered"
    /\ request' = None
    /\ UNCHANGED <<sdk, options, client, op, outcome>>

\* No host, no connection, a broken one, or a time-out.
TransportFails ==
    /\ phase = "sent"
    /\ EndWith(Foreign)
    /\ request' = None

DecodeReply ==
    /\ phase = "answered"
    /\ phase' = "done"
    /\ outcome' = Decode(sdk, op, reply)
    /\ UNCHANGED <<sdk, options, client, op, request, reply>>

Next ==
    \/ Construct \/ ConstructFails \/ NextCall
    \/ Build \/ IdentifierRefused \/ BuildFails
    \/ SkipAuth \/ Authorize \/ Unauthorized \/ EditFails
    \/ Send \/ Answer \/ TransportFails \/ DecodeReply

Spec == Init /\ [][Next]_vars
-----------------------------------------------------------------------------
TypeOK ==
    /\ sdk \in Sdks \cup {"laravel"}
    /\ options \in Options \cup {None} /\ client \in Clients \cup {Refused}
    /\ phase \in {"new", "called", "built", "authorized", "sent", "answered", "done"}
    /\ op = "none" \/ op \in Offered(sdk)
    /\ request = None \/ request.bearer \in Bearers \cup {"none"}
    /\ reply = None \/ reply \in Replies(sdk)
    /\ outcome \in Outcomes \cup {None}

\* Options of which each is set or missing mean the same to all six SDKs and
\* to Laravel: the same client, or none ("either static_token OR client_id and
\* client_secret are required").
CompleteOptionsAgree ==
    phase = "new" /\ (\A f \in DOMAIN options : options[f] \in {"none", "set"}) =>
        \A s \in Sdks : ClientOf(s, options) = ClientOf(sdk, options)

\* Between the PHP constructor, which takes a blank token for a token, and the
\* environment, in which an unset variable is easily an empty one, stands the
\* Laravel provider: with it, any options make the client that they make in
\* .NET, whose constructor trims by itself.
ProviderNormalises ==
    phase = "new" /\ options.base # "relative" =>
        ClientOf("laravel", options) = ClientOf("dotnet", options)

\* "injectAuth is the per-request middleware that obtains a fresh bearer token
\* and sets the Authorization header": a request leaves with the token that was
\* configured or exchanged, unless it is the one request that asks for tokens,
\* or Go's for an invoice whose own identifier ends in "oauth/token": injectAuth
\* takes that for the other.  A blank one is sent by no SDK that looks for blanks
\* when it is constructed, an empty one by PHP alone.
BearerIsConfigured ==
    phase = "sent" =>
        \/ request.bearer \in {"exchanged", "set"}
        \/ request.bearer = "blank" /\ sdk \notin {"java", "dotnet"}
        \/ request.bearer = "empty" /\ sdk = "php"
        \/ request.bearer = "none" /\ op = "CreateOAuthToken"
        \/ /\ request.bearer = "none" /\ sdk = "go" /\ Target = "GetInvoice"
           /\ EndsIn(<<request.id>>, "oauth", "token")

\* How a server may read a path: as it is, without dot segments, and with empty
\* segments dropped or decoded slashes taken for slashes.
Readings(path) ==
    LET normal == Normal(path)
        Apart(segment) == [k \in DOMAIN segment |-> <<segment[k]>>]
    IN  {path, normal} \cup
        {Spliced(normal, i, i, Apart(normal[i])) : i \in {j \in DOMAIN normal : Len(normal[j]) # 1}}

Fits(path, template) ==
    /\ Len(path) = Len(template)
    /\ \A i \in DOMAIN template :
          IF template[i] = Id THEN path[i] # <<>> ELSE path[i] = <<template[i]>>

\* Whether a server that goes by method and path may take the request for p.
TakenFor(p) ==
    /\ request.method = RequestOf(p).method
    /\ \E path \in Readings(request.path) : Fits(path, RequestOf(p).path)

\* An identifier that the escaping can keep to its place.
Contained(id) == Len(id) = 1 /\ id \notin Dots

\* With a contained identifier in it, the API can take a request for no operation
\* but the one that was called, and takes it for that.  An empty one, a dot segment
\* or one with slashes may lead a reading call to another, like that for the list
\* of invoices; but whatever it is, nothing that writes is taken for anything else.
RequestReachesOperation ==
    phase = "sent" =>
        LET taken == {p \in Operations : TakenFor(p)}
        IN  /\ Contained(request.id) => taken = {Target}
            /\ request.method # "GET" => taken \subseteq {Target}

Decoded == phase = "done" /\ reply # None

\* A reply to an operation of the SDK's own that is no success, but for a 304
\* that Go's lookups asked for.
NotModified == sdk = "go" /\ op \in {"taxcodes", "hsncodes"} /\ reply.status = 304
TurnedDown == Decoded /\ op \in Ops /\ ~Success(reply) /\ ~NotModified

\* "Raised for any non-2xx HTTP response" and its like in the other SDKs: the
\* caller of a refused request gets the API error, with the HTTP status, and
\* nothing else.
RefusalIsApiError(o) == o.kind = "api" /\ o.status = reply.status

\* Python, Node and Java keep it for every reply, canonical or not ("e.g. an
\* HTML 502 from a load balancer").
RefusalsAreApiErrors ==
    TurnedDown /\ sdk \in {"python", "node", "java"} => RefusalIsApiError(outcome)

\* "APIError is returned by the SDK whenever the API responds with a non-success
\* status" (Go, whose generated parsers may fail before the SDK looks) and
\* "Non-success responses throw LinkbridgeApiException" (.NET, whose DecodeError
\* may throw something else): of the two, at least one keeps its word.
EitherRefusalTyped ==
    TurnedDown /\ op \in Offered("go") \cap Offered("dotnet") =>
        \E s \in {"go", "dotnet"} : RefusalIsApiError(Decode(s, op, reply))

\* "TaxCodes returns the tax-code reference list": of an answer that holds it.
TaxCodesAreRead ==
    Decoded /\ sdk = "go" /\ op = "taxcodes" /\ reply.status = 200
        /\ reply.json /\ reply.body = "record" => outcome = Value

\* "Switch on the canonical code": an error in the API's canonical envelope
\* reaches the caller of every SDK with its status and its code.
CanonicalCodeArrives ==
    TurnedDown /\ reply.status >= 400 /\ reply.json /\ reply.body = "envelope" =>
        outcome = Api(reply.status, "canonical")

\* No SDK takes a refusal for a result: a caller that gets a value, or nothing,
\* was answered with a success, unless the SDK is PHP and the status below 400.
\* (A server that is not ready says so with status 503 and a result.)
ResultMeansSuccess ==
    Decoded /\ outcome.kind \in {"value", "hollow", "absent", "done"} =>
        \/ Success(reply)
        \/ NotModified
        \/ sdk = "php" /\ reply.status < 400
        \/ op = "GetReadiness" /\ reply.status = 503

\* Go decodes most replies twice over, in the generated parser of the operation
\* and in the SDK's own function.  They never contradict each other: what the
\* parser has read the SDK returns, and the SDK returns no record that the
\* parser has read as something else (it may not have read it at all).  The
\* function for the tax codes is not like this, see TaxCodesAreRead.
FacadeAgreesWithParser ==
    Decoded /\ sdk = "go" /\ op \in Ops \ {"taxcodes"} =>
        LET parsed == ParseReply(Target, reply)
        IN  /\ parsed = Value => outcome = Value
            /\ outcome = Value => parsed = Value \/ parsed.kind = "bare"

\* An answer without a body is no result.  Only Python, Node and Java may return
\* nothing where a value was due; in Go, where a caller looks at the error alone,
\* nil without an error is a lookup's that was answered 304.  And no SDK makes a
\* value of an empty body, but for Java, which then lists no webhooks.
EmptyIsNoResult ==
    Decoded =>
        /\ outcome.kind = "absent" => sdk \in {"python", "node", "java"} \/ NotModified
        /\ reply.body = "empty" /\ outcome.kind \in {"value", "hollow"} =>
             sdk = "java" /\ op = "webhooks"
=============================================================================
