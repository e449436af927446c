--------------------------- MODULE OapiOperations ---------------------------
(***************************************************************************)
(* The operations of the generated Go client (package oapi): the request   *)
(* that the builder of each puts together, and the statuses for which its  *)
(* parser decodes a JSON body.  The SDK's own operations go through it,    *)
(* and Client.Raw() hands it to the application.                           *)
(*                                                                         *)
(* Query parameters are left out; the segments of a path are kept, with    *)
(* Id in the place of the identifier that the application passes.          *)
(***************************************************************************)
EXTENDS Naturals, Sequences

Id == "id"

ProbeOps == {"GetHealth", "GetReadiness", "GetInvoiceJwks", "GetOAuthJwks",
             "GetOAuthAuthorizationServerMetadata"}
ClientOps == {"ListApiClients", "CreateApiClient", "UpdateApiClient", "RotateApiClientSecret"}
TenantOps == {"ListTenants", "CreateTenant", "GetTenant", "UpdateTenant"}
TenantDataOps == {"SubmitCreditNote", "GetCryptoStatus", "UpsertCryptoMaterial",
                  "SubmitOdooInvoice"}
SubmitOps == {"ListInvoices", "SubmitInvoice", "SubmitBulkInvoices"}
InvoiceOps == {"GetInvoice", "RenderInvoicePdf", "UpdateInvoiceStatus", "RetransmitInvoice"}
LookupOps == {"ListHsnCodes", "ListTaxCodes"}
WebhookOps == {"CreateOAuthToken", "ListWebhooks", "CreateWebhook", "DeleteWebhook",
               "TestWebhook"}

Operations == ProbeOps \cup ClientOps \cup TenantOps \cup TenantDataOps
              \cup SubmitOps \cup InvoiceOps \cup LookupOps \cup WebhookOps
-----------------------------------------------------------------------------
(***************************************************************************)
(* Requests.  A typed body is marshalled by the builder, which may fail.   *)
(* Two kinds of header come from the parameters: the Idempotency-Key,      *)
(* which is set to whatever they hold unless they are nil, and             *)
(* If-None-Match, which is set when it is there.                           *)
(***************************************************************************)
Call(method, path) ==
    [method |-> method, path |-> path, typed |-> FALSE, keyed |-> FALSE, conditional |-> FALSE]

WithJson(request) == [request EXCEPT !.typed = TRUE]
Keyed(request) == [request EXCEPT !.keyed = TRUE]
Conditional(request) == [request EXCEPT !.conditional = TRUE]

ProbeRequest(op) ==
    Call("GET", CASE op = "GetHealth" -> <<"healthz">>
                  [] op = "GetReadiness" -> <<"readyz">>
                  [] op = "GetInvoiceJwks" -> <<"v1", ".well-known", "invoice-jwks.json">>
                  [] op = "GetOAuthJwks" -> <<"v1", ".well-known", "jwks.json">>
                  [] OTHER -> <<"v1", ".well-known", "oauth-authorization-server">>)

ClientPath == <<"v1", "admin", "api-clients">>
ClientRequest(op) ==
    CASE op = "ListApiClients" -> Call("GET", ClientPath)
      [] op = "CreateApiClient" -> WithJson(Call("POST", ClientPath))
      [] op = "UpdateApiClient" -> WithJson(Call("PATCH", ClientPath \o <<Id>>))
      [] OTHER -> Call("POST", ClientPath \o <<Id, "rotate-secret">>)

TenantPath == <<"v1", "admin", "tenants">>
TenantRequest(op) ==
    CASE op = "ListTenants" -> Call("GET", TenantPath)
      [] op = "CreateTenant" -> WithJson(Call("POST", TenantPath))
      [] op = "GetTenant" -> Call("GET", TenantPath \o <<Id>>)
      [] OTHER -> WithJson(Call("PATCH", TenantPath \o <<Id>>))

TenantDataRequest(op) ==
    CASE op = "SubmitCreditNote" -> WithJson(Keyed(Call("POST", <<"v1", "credit-notes">>)))
      [] op = "GetCryptoStatus" -> Call("GET", <<"v1", "crypto">>)
      [] op = "UpsertCryptoMaterial" -> WithJson(Call("PUT", <<"v1", "crypto">>))
      [] OTHER ->
           WithJson(Keyed(Call("POST", <<"v1", "integrations", "odoo", "invoices">>)))

InvoicePath == <<"v1", "invoices">>
SubmitRequest(op) ==
    CASE op = "ListInvoices" -> Call("GET", InvoicePath)
      [] op = "SubmitInvoice" -> WithJson(Keyed(Call("POST", InvoicePath)))
      [] OTHER -> Keyed(Call("POST", InvoicePath \o <<"bulk">>))

\* Slip: the path of another operation on the same invoice.
InvoiceRequestMixed(op) ==
    CASE op = "GetInvoice" -> Call("GET", InvoicePath \o <<Id>>)
      [] op = "RenderInvoicePdf" -> Call("GET", InvoicePath \o <<Id, "pdf">>)
      [] op = "UpdateInvoiceStatus" -> WithJson(Call("POST", InvoicePath \o <<Id, "status">>))
      [] OTHER -> Call("POST", InvoicePath \o <<Id, "status">>)

InvoiceRequest(op) ==
    CASE op = "GetInvoice" -> Call("GET", InvoicePath \o <<Id>>)
      [] op = "RenderInvoicePdf" -> Call("GET", InvoicePath \o <<Id, "pdf">>)
      [] op = "UpdateInvoiceStatus" -> WithJson(Call("POST", InvoicePath \o <<Id, "status">>))
      [] OTHER -> Call("POST", InvoicePath \o <<Id, "transmit">>)

LookupRequest(op) ==
    Conditional(Call("GET", <<"v1", "lookups">> \o
        IF op = "ListHsnCodes" THEN <<"hsn-codes">> ELSE <<"tax-codes">>))

WebhookPath == <<"v1", "webhooks">>
WebhookRequest(op) ==
    CASE op = "CreateOAuthToken" -> WithJson(Call("POST", <<"v1", "oauth", "token">>))
      [] op = "ListWebhooks" -> Call("GET", WebhookPath)
      [] op = "CreateWebhook" -> WithJson(Call("POST", WebhookPath))
      [] op = "DeleteWebhook" -> Call("DELETE", WebhookPath \o <<Id>>)
      [] OTHER -> Call("POST", WebhookPath \o <<Id, "test">>)

RequestOf(op) ==
    CASE op \in ProbeOps -> ProbeRequest(op)
      [] op \in ClientOps -> ClientRequest(op)
      [] op \in TenantOps -> TenantRequest(op)
      [] op \in TenantDataOps -> TenantDataRequest(op)
      [] op \in SubmitOps -> SubmitRequest(op)
      [] op \in InvoiceOps -> InvoiceRequest(op)
      [] op \in LookupOps -> LookupRequest(op)
      [] op \in WebhookOps -> WebhookRequest(op)

KeyedOps == {op \in Operations : RequestOf(op).keyed}

(***************************************************************************)
(* Paths on the wire.  An identifier is put in escaped, so that a slash in *)
(* it starts no segment; but it comes back when the path is decoded.  So a *)
(* segment is the sequence of its pieces, which such slashes separate, and *)
(* the empty segment has none.  Nothing escapes a dot.                     *)
(***************************************************************************)
Placed(template, id) ==
    [i \in DOMAIN template |-> IF template[i] = Id THEN id ELSE <<template[i]>>]

Dots == {<<".">>, <<"..">>}

\* The path with other segments in the place of those from i to j.
Spliced(path, i, j, segments) ==
    SubSeq(path, 1, i - 1) \o segments \o SubSeq(path, j + 1, Len(path))

\* The path without its dot segment, if it has one: "." goes, ".." goes with the
\* segment before it.  At the end they leave a slash behind.
Normal(path) ==
    LET dots == {i \in DOMAIN path : path[i] \in Dots}
        i == CHOOSE d \in dots : TRUE
    IN  IF dots = {} THEN path
        ELSE Spliced(path, IF path[i] = <<"..">> THEN i - 1 ELSE i, i,
                     IF i = Len(path) THEN << <<>> >> ELSE <<>>)
-----------------------------------------------------------------------------
(***************************************************************************)
(* Replies: the statuses whose JSON body is decoded into a result of the   *)
(* operation's own, and those for which it is decoded into an error        *)
(* envelope.  Whatever is behind the rate limiter may be answered 429 or   *)
(* 503.                                                                    *)
(***************************************************************************)
Declared(results, errors) == [results |-> results, errors |-> errors]
Limited(results, errors) == Declared(results, errors \cup {429, 503})

ProbeReplies(op) ==
    CASE op = "GetHealth" -> Declared({200}, {})
      [] op = "GetReadiness" -> Declared({200, 503}, {})
      [] OTHER -> Limited({200}, {})

ClientReplies(op) ==
    CASE op = "ListApiClients" -> Limited({200}, {401, 403})
      [] op = "CreateApiClient" -> Limited({201}, {400, 401, 403, 409})
      [] op = "UpdateApiClient" -> Limited({200}, {400, 401, 403, 404})
      [] OTHER -> Limited({200}, {401, 403, 404})

TenantReplies(op) ==
    CASE op = "ListTenants" -> Limited({200}, {401, 403})
      [] op = "CreateTenant" -> Limited({201}, {400, 401, 403, 409})
      [] op = "GetTenant" -> Limited({200}, {401, 403, 404})
      [] OTHER -> Limited({200}, {400, 401, 403, 404})

TenantDataReplies(op) ==
    CASE op = "SubmitCreditNote" -> Limited({202}, {400, 401, 409, 422})
      [] op = "GetCryptoStatus" -> Limited({200}, {401, 404})
      [] op = "UpsertCryptoMaterial" -> Limited({200}, {401, 422})
      [] OTHER -> Limited({202}, {401, 403, 409, 422})

SubmitReplies(op) ==
    CASE op = "ListInvoices" -> Limited({200}, {400, 401})
      [] op = "SubmitInvoice" -> Limited({200, 202}, {400, 401, 409, 422})
      [] OTHER -> Limited({}, {400, 401, 413})

InvoiceReplies(op) ==
    CASE op = "GetInvoice" -> Limited({200}, {404})
      [] op = "RenderInvoicePdf" -> Limited({}, {401, 403, 404})
      [] op = "UpdateInvoiceStatus" -> Limited({200}, {400, 401, 404, 422})
      [] OTHER -> Limited({}, {404})

LookupReplies(op) == Limited({200}, {400})

WebhookReplies(op) ==
    CASE op \in {"CreateOAuthToken", "ListWebhooks"} -> Limited({200}, {401})
      [] op = "CreateWebhook" -> Limited({201}, {400, 401, 403, 409})
      [] op = "DeleteWebhook" -> Limited({}, {401, 403, 404})
      [] OTHER -> Limited({202}, {401, 403, 404})

RepliesOf(op) ==
    CASE op \in ProbeOps -> ProbeReplies(op)
      [] op \in ClientOps -> ClientReplies(op)
      [] op \in TenantOps -> TenantReplies(op)
      [] op \in TenantDataOps -> TenantDataReplies(op)
      [] op \in SubmitOps -> SubmitReplies(op)
      [] op \in InvoiceOps -> InvoiceReplies(op)
      [] op \in LookupOps -> LookupReplies(op)
      [] op \in WebhookOps -> WebhookReplies(op)
=============================================================================
