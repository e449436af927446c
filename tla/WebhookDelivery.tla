-------------------------- MODULE WebhookDelivery --------------------------
(***************************************************************************)
(* A webhook delivery from the API server to a receiver that verifies it.  *)
(* It may be delayed, repeated, and rewritten on its way: gateways change  *)
(* the case of hex digits, pad, append or duplicate parameters, retype the *)
(* timestamp, corrupt what they forward, and sign it without a secret.     *)
(* Verifiers are stateless, so one delivery is followed at a time, and     *)
(* every SDK is asked about it.                                            *)
(*                                                                         *)
(* The server stamps whole seconds of its own clock; the receiver's clock  *)
(* is off by one of the ticks in Skews, and its secret may be one that was *)
(* replaced, or not set.                                                   *)
(***************************************************************************)
EXTENDS WebhookVerify

CONSTANTS Bodies,     \* payloads
          Skews,      \* receiver's clock minus the server's, in ticks
          Rewrites,   \* how often a delivery may be rewritten
          Horizon     \* end of time, in ticks

ASSUME DeliveryAssumption ==
    /\ Skews \subseteq Int
    /\ Rewrites \in Nat /\ Horizon \in Nat /\ Rate <= Horizon

Secret == "current"
Copies == {Secret, "replaced", NoSecret}

\* What a sender without a secret can sign: the HMAC under the empty one is
\* anybody's to compute, for any second and body.
BareDigests == {Digest(t, b, NoSecret) : t \in 0 .. Horizon \div Rate, b \in Bodies}

\* A time far beyond every window.
FarFuture == 1000 * Horizon

VARIABLES now,       \* the server's clock, in ticks
          skew,      \* the receiver's clock minus now
          secret,    \* the receiver's copy of the secret
          origin,    \* what the server signed: <<seconds, body>>, or <<>>
          header,    \* the delivery as it is now
          body,
          changes,   \* how often it was rewritten
          faithful,  \* whether only in ways that every verifier puts up with
          verdicts   \* what each SDK made of it, <<>> while it is on its way

delivery == <<header, body, changes, faithful>>
vars == <<now, skew, secret, origin, delivery, verdicts>>

Init ==
    /\ now = Rate
    /\ skew \in Skews /\ secret \in Copies
    /\ origin = <<>> /\ header = <<>> /\ body = ""
    /\ changes = 0 /\ faithful = TRUE
    /\ verdicts = <<>>

OnItsWay == origin # <<>> /\ verdicts = <<>>

Tick ==
    /\ now < Horizon
    /\ verdicts = <<>>
    /\ now' = now + 1
    /\ UNCHANGED <<skew, secret, origin, delivery, verdicts>>

\* The server signs a body under the current second and sends it.
Send(b) ==
    LET t == now \div Rate
    IN /\ origin = <<>>
       /\ origin' = <<t, b>>
       /\ header' = << Part("t", "none", "plain", t),
                       Part("v1", "none", "lower", Digest(t, b, Secret)) >>
       /\ body' = b
       /\ UNCHANGED <<now, skew, secret, changes, faithful, verdicts>>

\* Rewritings every verifier is meant to put up with.
FaithfulChanges(h) ==
    {[h EXCEPT ![i].form = "upper"] : i \in {j \in DOMAIN h : h[j].form = "lower"}}
    \cup {Append(h, Part("v2", "none", "lower", 0))}

\* Rewritings on which nothing is promised.
OtherChanges(h) ==
    {[h EXCEPT ![i].pad = p] : i \in DOMAIN h, p \in {"key", "value"}}
    \cup {[h EXCEPT ![i].form = f] :
            i \in {j \in DOMAIN h : h[j].key = "t"},
            f \in NumberForms \ {"huge", "vast"}}
    \cup {[h EXCEPT ![i].form = f, ![i].value = FarFuture] :
            i \in {j \in DOMAIN h : h[j].key = "t"}, f \in {"huge", "vast"}}
    \cup {[h EXCEPT ![i].form = f] :
            i \in {j \in DOMAIN h : h[j].key = "v1"}, f \in DigestForms}
    \cup {[h EXCEPT ![i].value = x] :
            i \in {j \in DOMAIN h : h[j].key = "v1"}, x \in BareDigests}
    \cup {Append(h, Part("v1", "none", "lower", x)) : x \in BareDigests}
    \cup {Append(h, Part(k, "none", "plain", 0)) : k \in {"nothing", "bare"}}
    \cup {<<Part("nothing", "none", "plain", 0)>> \o h}
    \cup {Append(h, Part("t", "none", "plain", t)) : t \in 0 .. Horizon \div Rate}
    \cup {<<>>, <<Part("blank", "none", "plain", 0)>>}

Rewrite ==
    /\ OnItsWay
    /\ changes < Rewrites
    /\ changes' = changes + 1
    /\ \/ header' \in FaithfulChanges(header) /\ UNCHANGED <<body, faithful>>
       \/ header' \in OtherChanges(header) /\ faithful' = FALSE /\ UNCHANGED body
       \/ body' \in Bodies \ {body} /\ faithful' = FALSE /\ UNCHANGED header
    /\ UNCHANGED <<now, skew, secret, origin, verdicts>>

\* A receiver verifies the delivery.
Receive ==
    /\ OnItsWay
    /\ verdicts' = [s \in Sdks |-> Verify(s, secret, body, header, now + skew)]
    /\ UNCHANGED <<now, skew, secret, origin, delivery>>

\* The server tries again, or the network repeats itself: the verifier
\* remembers nothing.
Repeat ==
    /\ verdicts # <<>>
    /\ verdicts' = <<>>
    /\ UNCHANGED <<now, skew, secret, origin, delivery>>

Next ==
    \/ Tick
    \/ \E b \in Bodies : Send(b)
    \/ Rewrite \/ Receive \/ Repeat

Spec == Init /\ [][Next]_vars
-----------------------------------------------------------------------------
\* What a caller of the SDK is told to expect: acceptance, an error of the
\* SDK's own, or a complaint about the arguments.
Outcomes(s) ==
    {"ok", "missing", "malformed", "expired", "mismatch"}
    \cup (IF Dialect(s).needsSecret THEN {"usage"} ELSE {})
    \cup (IF s = "python" THEN {"crash"} ELSE {})

TypeOK ==
    /\ now \in Rate .. Horizon /\ skew \in Skews /\ secret \in Copies
    /\ origin = <<>> \/ origin \in (1 .. Horizon) \X Bodies
    /\ \A i \in DOMAIN header :
         /\ header[i].key \in Keys /\ header[i].pad \in Pads
         /\ header[i].form \in NumberForms \cup DigestForms
    /\ body \in Bodies \cup {""}
    /\ changes \in 0 .. Rewrites /\ faithful \in BOOLEAN
    /\ verdicts # <<>> =>
         DOMAIN verdicts = Sdks /\ \A s \in Sdks : verdicts[s] \in Outcomes(s)

Abs(n) == IF n >= 0 THEN n ELSE -n

\* How far the receiver's clock is from what the server stamped, in ticks.
Distance == Abs((now + skew) - origin[1] * Rate)

Received == verdicts # <<>>

\* Whether SDK s takes a digest so written for one: all of it in hex, and in
\* Node with anything else behind it.
Whole(s, form) == form \in {"lower", "upper"} \/ (s = "node" /\ form = "tail")

\* "v1 = hex(HMAC-SHA256(secret, "{t}.{body}"))" and "MUST reject deliveries
\* whose timestamp falls outside a 5-minute window": however a delivery was
\* delayed, repeated, rewritten and signed anew, what an SDK accepts under the
\* server's secret is a body that the server signed, within the window of the
\* receiver's clock (or less than a second beyond it), and it has the server's
\* digest whole.  Under another secret nothing is accepted, but for what anybody
\* can sign where the receiver's secret is empty, which Go, Python and Node do
\* not refuse as the others do.
AcceptedWasSigned ==
    Received => \A s \in Sdks : verdicts[s] = "ok" =>
        \/ /\ secret = Secret /\ body = origin[2]
           /\ Distance < (Window + 1) * Rate
           /\ \E i \in DOMAIN header :
                /\ header[i].key = "v1" /\ Whole(s, header[i].form)
                /\ header[i].value = Digest(origin[1], body, Secret)
        \/ secret = NoSecret /\ s \in {"go", "python", "node"}

\* What the server signs and the wire leaves readable is accepted by all six
\* within the window, in upper-case hex and with parameters yet unknown.
SignedIsAccepted ==
    Received /\ faithful /\ secret = Secret /\ Distance <= Window * Rate =>
        \A s \in Sdks : verdicts[s] = "ok"

\* On a delivery that is as the server wrote it the six SDKs agree, inside the
\* window and outside, under the right secret and under a replaced one, but
\* for the second past the window's edge, which those that read whole seconds
\* let through.
SdksAgree ==
    Received /\ faithful /\ secret # NoSecret
        /\ Distance \notin Window * Rate + 1 .. (Window + 1) * Rate - 1 =>
            \A s, u \in Sdks : verdicts[s] = verdicts[u]

\* Slip: without a secret there is nothing to verify.
HandleUnguarded ==
    CASE secret = NoSecret -> "next"
      [] verdicts["php"] = "ok" -> "next"
      [] OTHER -> "unauthorized"

\* The Laravel middleware lets a request through to the controller, answers 401
\* for the SignatureErrors of the PHP verifier, or throws where no secret is
\* configured.
Handle ==
    CASE secret = NoSecret -> "misconfigured"
      [] secret # NoSecret /\ verdicts["php"] = "ok" -> "next"
      [] OTHER -> "unauthorized"

\* "Reject webhook requests whose raw payload does not carry a valid signature":
\* no delivery reaches a Laravel controller but one that the server signed under
\* the configured secret, however it was rewritten, delayed or repeated, and
\* none that only a gateway touched, and not beyond what all verifiers put up
\* with, is turned away while it is within the window.
ControllerSeesSigned ==
    Received =>
        /\ Handle = "next" => secret = Secret /\ body = origin[2]
        /\ faithful /\ secret = Secret /\ Distance <= Window * Rate => Handle = "next"

\* "Raises SignatureError on any failure mode".
PythonFailsTyped == Received => verdicts["python"] # "crash"
=============================================================================
