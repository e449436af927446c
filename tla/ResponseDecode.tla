--------------------------- MODULE ResponseDecode ---------------------------
(***************************************************************************)
(* What each SDK makes of an HTTP reply to an API request.                 *)
(*                                                                         *)
(* A reply is its status, whether the Content-Type says JSON, whether a    *)
(* Content-Length came with it, and what its body is:                      *)
(*    "record"    the object or the list the operation returns             *)
(*    "misfit"    the same with a field, of an entry, of another type      *)
(*    "envelope"  {"error": {"code", "message", "details"}}                *)
(*    "detailed"  the same, its details not a list of strings              *)
(*    "oddcode"   the same, its code not a string                          *)
(*    "textual"   an object whose error is a string                        *)
(*    "null", "scalar" (a number or a string), "notjson", "empty"          *)
(* A reply of status 204 is empty.                                         *)
(* The token endpoint has decoders of its own, see TokenReply.             *)
(***************************************************************************)
EXTENDS Integers, OapiOperations

Sdks == {"go", "python", "node", "java", "dotnet", "php"}

\* The operations of the SDKs' own interfaces.
Ops == {"submit", "get", "list", "create", "webhooks", "taxcodes", "hsncodes",
        "transmit", "update", "delete", "cryptoset", "cryptostatus"}

\* Go adds the operations of its generated client, which the others lack.
Offered(sdk) ==
    CASE sdk = "go" -> (Ops \ {"transmit", "update", "delete"}) \cup Operations
      [] sdk = "node" -> {"submit", "get", "list", "create", "webhooks"}
      [] OTHER -> Ops \ {"cryptoset", "cryptostatus"}

\* Those of which the SDK returns nothing, whatever comes back.
Discards(sdk) ==
    CASE sdk \in {"java", "dotnet"} -> {"transmit", "delete"}
      [] sdk \in {"python", "php"} -> {"delete"}
      [] OTHER -> {}

BodyKinds == {"record", "misfit", "envelope", "detailed", "oddcode", "textual",
              "null", "scalar", "notjson", "empty"}

ErrorObjects == {"envelope", "detailed", "oddcode"}

\* How a call ends: with the record, with a value made out of something else,
\* with nothing where a value was due, with nothing as it should, with the
\* SDK's API error, or with another exception.  The generated Go client also
\* hands over replies of which it has decoded nothing.
Value == [kind |-> "value", status |-> 0, code |-> "none"]
Hollow == [kind |-> "hollow", status |-> 0, code |-> "none"]
Absent == [kind |-> "absent", status |-> 0, code |-> "none"]
Done == [kind |-> "done", status |-> 0, code |-> "none"]
Foreign == [kind |-> "foreign", status |-> 0, code |-> "none"]
Bare(status) == [kind |-> "bare", status |-> status, code |-> "none"]

\* The code is that of the envelope, one of the SDK's own, or missing.
Api(status, code) == [kind |-> "api", status |-> status, code |-> code]

Outcomes == {Value, Hollow, Absent, Done, Foreign} \cup {Bare(s) : s \in 0 .. 599}
            \cup {Api(s, c) : s \in 0 .. 599, c \in {"canonical", "opaque", "sdk"}}

Success(r) == r.status \div 100 = 2
-----------------------------------------------------------------------------
(***************************************************************************)
(* Go.  encoding/json ignores unknown fields and leaves a struct as it is  *)
(* for null.  The generated parsers decode every status that the API       *)
(* description declares before anybody looks at the reply.                 *)
(***************************************************************************)
\* The sets of keys are maps of anything, the tax codes are a list.
AnyObject == {"GetInvoiceJwks", "GetOAuthJwks", "GetOAuthAuthorizationServerMetadata"}
Lists == {"ListTaxCodes"}

GoUnmarshal(op, body) ==
    CASE body = "record" -> Value
      [] body \in {"scalar", "notjson", "empty"} -> Foreign
      [] body = "misfit" /\ op \notin AnyObject -> Foreign
      [] op \in Lists /\ body \notin {"record", "null"} -> Foreign
      [] OTHER -> Hollow

GoReadsEnvelope(op, body) ==
    body \in {"envelope", "null"} \cup IF op \in Lists THEN {} ELSE {"record", "misfit"}

\* Slip: the code is looked for outside the error object.
GoErrorFlat(r) == Api(r.status, "opaque")

GoError(r) == Api(r.status, IF r.body = "envelope" THEN "canonical" ELSE "opaque")

\* The parser of a generated operation.
ParseReply(op, r) ==
    CASE r.json /\ r.status \in RepliesOf(op).results -> GoUnmarshal(op, r.body)
      [] r.json /\ r.status \in RepliesOf(op).errors ->
           IF GoReadsEnvelope(op, r.body) THEN GoError(r) ELSE Foreign
      [] OTHER -> Bare(r.status)

\* The API operation behind each of the SDKs'.
Generated(op) ==
    CASE op = "submit" -> "SubmitInvoice"        [] op = "get" -> "GetInvoice"
      [] op = "list" -> "ListInvoices"           [] op = "create" -> "CreateWebhook"
      [] op = "webhooks" -> "ListWebhooks"       [] op = "taxcodes" -> "ListTaxCodes"
      [] op = "hsncodes" -> "ListHsnCodes"       [] op = "cryptoset" -> "UpsertCryptoMaterial"
      [] op = "cryptostatus" -> "GetCryptoStatus" [] op = "delete" -> "DeleteWebhook"
      [] op = "transmit" -> "RetransmitInvoice"  [] op = "update" -> "UpdateInvoiceStatus"

\* Submit, Get and List leave the reply to the generated parser, and take what
\* it has not made a result of for an error.
GoParsed(op, r) ==
    LET p == ParseReply(Generated(op), r)
    IN  IF p.kind \in {"value", "hollow", "foreign"} THEN p ELSE GoError(r)

\* TaxCodes looks for the list under "items", where the API does not put it.
GoTaxCodes(body) ==
    IF body \in ErrorObjects \cup {"textual", "null"} THEN Hollow ELSE Foreign

GoResult(op, body) ==
    IF op = "taxcodes" THEN GoTaxCodes(body) ELSE GoUnmarshal(op, body)

HandWritten == Ops \ {"submit", "get", "list"}

\* Slip: the look at the status is left out of the hand-written operations.
GoDecodeUnchecked(op, r) ==
    CASE op \in Operations -> ParseReply(op, r)
      [] op \in {"submit", "get", "list"} -> GoParsed(op, r)
      [] OTHER -> GoResult(op, r.body)

\* Slip: the hand-written operations take 200 for the only success.
GoDecodeOnly200(op, r) ==
    CASE op \in Operations -> ParseReply(op, r)
      [] op \in {"submit", "get", "list"} -> GoParsed(op, r)
      [] op \in {"taxcodes", "hsncodes"} /\ r.status = 304 -> Absent
      [] op \in HandWritten /\ r.status = 200 -> GoResult(op, r.body)
      [] OTHER -> GoError(r)

GoDecode(op, r) ==
    CASE op \in Operations -> ParseReply(op, r)
      [] op \in {"submit", "get", "list"} -> GoParsed(op, r)
      [] op \in {"taxcodes", "hsncodes"} /\ r.status = 304 -> Absent
      [] op \in HandWritten /\ Success(r) -> GoResult(op, r.body)
      [] OTHER -> GoError(r)

\* decodeAPIError in Node, APIError.from_response in Python and decodeError in
\* Java never fail, and take a code of any type.
LenientError(r) ==
    Api(r.status, IF r.body \in ErrorObjects THEN "canonical" ELSE "opaque")

(***************************************************************************)
(* Node.  An empty body counts as such when its length was announced.      *)
(***************************************************************************)
NodeRead(r) ==
    CASE r.body = "empty" -> IF r.status = 204 \/ r.sized THEN Absent ELSE Foreign
      [] r.body = "notjson" -> Foreign
      [] r.body = "null" -> Absent
      [] r.body = "record" -> Value
      [] OTHER -> Hollow

\* Slip: resp.ok is not looked at.
NodeDecodeUnchecked(r) == NodeRead(r)

NodeDecode(r) == IF Success(r) THEN NodeRead(r) ELSE LenientError(r)

PythonRead(r) ==
    CASE r.body \in {"empty", "null"} -> Absent
      [] r.body = "notjson" -> Api(r.status, "sdk")
      [] r.body = "record" -> Value
      [] OTHER -> Hollow

\* Slip: raises for the errors of clients and servers only.
PythonDecodeFrom400(op, r) ==
    IF r.status >= 400 THEN LenientError(r)
    ELSE IF op \in Discards("python") THEN Done
    ELSE PythonRead(r)

PythonDecode(op, r) ==
    IF ~Success(r) THEN LenientError(r)
    ELSE IF op \in Discards("python") THEN Done
    ELSE PythonRead(r)

(***************************************************************************)
(* Java.  A value that does not fit the model is an API error of status 0. *)
(* Lookups have no model, and a list of webhooks is whatever the array     *)
(* "data" holds, none if there is none.                                    *)
(***************************************************************************)
JavaLookup(body) ==
    CASE body = "record" -> Value   [] body = "empty" -> Absent   [] OTHER -> Hollow

JavaWebhooks(body) ==
    CASE body = "record" -> Value   [] body = "misfit" -> Api(0, "sdk")   [] OTHER -> Hollow

\* Slip: a mismatch with the model has no status, written -1.
JavaConvertNegative(body) ==
    CASE body = "record" -> Value
      [] body \in {"empty", "null"} -> Absent
      [] body \in {"misfit", "scalar"} -> Api(-1, "sdk")
      [] OTHER -> Hollow

JavaConvert(body) ==
    CASE body = "record" -> Value
      [] body \in {"empty", "null"} -> Absent
      [] body \in {"misfit", "scalar"} -> Api(0, "sdk")
      [] OTHER -> Hollow

JavaDecode(op, r) ==
    IF ~Success(r) THEN LenientError(r)
    ELSE IF r.body = "notjson" THEN Api(r.status, "sdk")
    ELSE CASE op \in Discards("java") -> Done
           [] op \in {"taxcodes", "hsncodes"} -> JavaLookup(r.body)
           [] op = "webhooks" -> JavaWebhooks(r.body)
           [] OTHER -> JavaConvert(r.body)

(***************************************************************************)
(* .NET.  JsonElement throws InvalidOperationException when it is asked    *)
(* for a property of what is not an object, or the text of what is not a   *)
(* string; DecodeError expects JsonException only.  The tax codes are a    *)
(* list.                                                                   *)
(***************************************************************************)
DotnetError(op, r) ==
    CASE r.body \in {"null", "scalar", "oddcode"} -> Foreign
      [] op = "taxcodes" /\ r.body \in {"record", "misfit"} -> Foreign
      [] r.body \in {"envelope", "detailed"} -> Api(r.status, "canonical")
      [] OTHER -> Api(r.status, "opaque")

DotnetLookup(body) ==
    CASE body = "record" -> Value   [] body = "empty" -> Api(0, "sdk")   [] OTHER -> Hollow

\* Slip: nothing is looked for in what Deserialize returns.
DotnetDeserializeNull(body) ==
    CASE body = "record" -> Value
      [] body \in {"empty", "null"} -> Absent
      [] body \in {"misfit", "scalar"} -> Api(0, "sdk")
      [] OTHER -> Hollow

DotnetDeserialize(body) ==
    CASE body = "record" -> Value
      [] body \in {"empty", "null", "misfit", "scalar"} -> Api(0, "sdk")
      [] OTHER -> Hollow

DotnetDecode(op, r) ==
    IF ~Success(r) THEN DotnetError(op, r)
    ELSE IF r.body = "notjson" THEN Api(r.status, "sdk")
    ELSE CASE op \in Discards("dotnet") -> Done
           [] op \in {"taxcodes", "hsncodes"} -> DotnetLookup(r.body)
           [] OTHER -> DotnetDeserialize(r.body)

(***************************************************************************)
(* PHP.  Every operation with a result declares it an array, so that a     *)
(* null or a scalar ends in a TypeError.                                   *)
(***************************************************************************)
PhpError(r) ==
    Api(r.status, IF r.body \in {"envelope", "detailed"} THEN "canonical" ELSE "opaque")

PhpDecode(op, r) ==
    IF r.status >= 400 THEN PhpError(r)
    ELSE IF r.body = "notjson" THEN Foreign
    ELSE IF op \in Discards("php") THEN Done
    ELSE CASE r.body \in {"empty", "null", "scalar"} -> Foreign
           [] r.body = "record" -> Value
           [] OTHER -> Hollow

Decode(sdk, op, r) ==
    CASE sdk = "go" -> GoDecode(op, r)   [] sdk = "python" -> PythonDecode(op, r)
      [] sdk = "node" -> NodeDecode(r)   [] sdk = "java" -> JavaDecode(op, r)
      [] sdk = "dotnet" -> DotnetDecode(op, r) [] sdk = "php" -> PhpDecode(op, r)
=============================================================================
