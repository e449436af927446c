----------------------------- MODULE Submission -----------------------------
(***************************************************************************)
(* Submitting invoices: the Idempotency-Key that each SDK sends, replies   *)
(* that are lost or replaced on their way, and an application that calls   *)
(* submit again with the same options until it has a result.  A Go         *)
(* application may also call the writes of the generated client, which     *)
(* make no keys.                                                           *)
(*                                                                         *)
(* The API server is modelled from what the SDKs say of it: it requires a  *)
(* key, files the invoice of a key it has not seen, replays the result of  *)
(* one it has, answers 409 to a key that came with another invoice, and    *)
(* forgets keys after the replay window (24 hours).  Gateways answer in    *)
(* its place, before or after the request has reached it.                  *)
(***************************************************************************)
EXTENDS ResponseDecode, FiniteSets

CONSTANTS Invoices,    \* one application-level submission for each
          None,
          Attempts     \* how often the application calls submit for one

ASSUME AttemptsAssumption == Attempts \in Nat \ {0}

\* What the application passes as key: nothing, "", blanks, or keys of its own.
\* To a write of the generated client it passes the key with the parameters, or
\* through the editor of WithIdempotencyKey, which comes after them.
Pins == {"none", "empty", "spaces", "order-1", "order-2"}
OwnPins == {"order-1", "order-2"}

VARIABLES sdk,
          write,       \* the operation it is passed to
          pin,         \* what the application passes for each invoice
          phase,       \* "ready", "sent", "answered", "done"
          attempt,     \* calls of submit so far
          wire,        \* requests that have not reached the server
          reply,       \* what came back for the current call
          result,      \* how the last call ended, and about which invoice
          filed,       \* how often the server filed each invoice
          seen         \* keys the server remembers, with their invoice

vars == <<sdk, write, pin, phase, attempt, wire, reply, result, filed, seen>>

NoKey == <<"blank">>

\* Keys: one fresh key per call (16 random bytes), and the application's own.
FreshKey(i, n) == <<"lb-", i, n>>
OwnKey(p) == <<"own", p>>
AllKeys == {FreshKey(i, n) : i \in Invoices, n \in 1 .. Attempts}
           \cup {OwnKey(p) : p \in OwnPins} \cup {NoKey}

\* Slip: a fresh key for every call, whatever the application passed.
SubmitKeyFresh(s, w, p, fresh) == fresh

\* Slip: one key for every call without one.
SubmitKeyShared(s, w, p, fresh) ==
    IF p \in OwnPins THEN OwnKey(p) ELSE <<"own", "order-1">>

\* Slip: whatever the application passes is its key, blank or not.
SubmitKeyVerbatim(s, w, p, fresh) == IF w = "submit" /\ p = "none" THEN fresh ELSE OwnKey(p)

\* What each SDK takes for no key at all, and replaces with a fresh one.
GoUnset == {"none", "empty"}
PythonUnset == {"none", "empty"}
NodeUnset == {"none"}
JavaUnset == {"none"}
DotnetUnset == {"none", "empty", "spaces"}
PhpUnset == {"none"}

Unset(s) ==
    CASE s = "go" -> GoUnset     [] s = "python" -> PythonUnset
      [] s = "node" -> NodeUnset [] s = "java" -> JavaUnset
      [] s = "dotnet" -> DotnetUnset [] s = "php" -> PhpUnset

\* The operations that take a key.
Writes(s) == {"submit"} \cup IF s = "go" THEN KeyedOps ELSE {}

\* The key a call sends.  A blank header value is no value to the server.
SubmitKey(s, w, p, fresh) ==
    IF w = "submit" /\ p \in Unset(s) THEN fresh
    ELSE IF p \in OwnPins THEN OwnKey(p) ELSE NoKey

Json(status, body) == [status |-> status, json |-> TRUE, sized |-> TRUE, body |-> body]
Html(status) == [status |-> status, json |-> FALSE, sized |-> TRUE, body |-> "notjson"]

Init ==
    /\ sdk \in Sdks /\ write \in Writes(sdk)
    /\ pin \in [Invoices -> Pins]
    /\ phase = [i \in Invoices |-> "ready"]
    /\ attempt = [i \in Invoices |-> 0]
    /\ wire = {}
    /\ reply = [i \in Invoices |-> None]
    /\ result = [i \in Invoices |-> None]
    /\ filed = [i \in Invoices |-> 0]
    /\ seen = [k \in {} |-> None]

Goto(i, step) == phase' = [phase EXCEPT ![i] = step]

\* The application calls submit, for the first time or again with the same
\* options after a call that brought no result.
Submit(i) ==
    /\ phase[i] = "ready"
    /\ attempt[i] < Attempts
    /\ LET n == attempt[i] + 1
           k == SubmitKey(sdk, write, pin[i], FreshKey(i, n))
       IN /\ attempt' = [attempt EXCEPT ![i] = n]
          /\ wire' = wire \cup {[invoice |-> i, attempt |-> n, key |-> k]}
    /\ Goto(i, "sent")
    /\ UNCHANGED <<sdk, write, pin, reply, result, filed, seen>>

Awaited(q) == phase[q.invoice] = "sent" /\ attempt[q.invoice] = q.attempt

\* A request leaves the wire.  The reply r reaches the call if it still waits,
\* or a gateway's does in its place, or none does.
Settle(q, r, about) ==
    /\ wire' = wire \ {q}
    /\ UNCHANGED <<sdk, write, pin, attempt, result>>
    /\ \/ UNCHANGED <<phase, reply>>
       \/ /\ Awaited(q)
          /\ \E got \in {[http |-> r, about |-> about],
                          [http |-> Html(502), about |-> None]} :
                reply' = [reply EXCEPT ![q.invoice] = got]
          /\ Goto(q.invoice, "answered")

\* The server files the invoice under a key it does not remember.
ServerFiles(q) ==
    /\ q.key # NoKey /\ q.key \notin DOMAIN seen
    /\ filed' = [filed EXCEPT ![q.invoice] = @ + 1]
    /\ seen' = [k \in DOMAIN seen \cup {q.key} |->
                  IF k = q.key THEN q.invoice ELSE seen[k]]
    /\ Settle(q, Json(202, "record"), q.invoice)

\* It turns the request down: no key, or an invoice it does not accept now.
ServerRejects(q) ==
    /\ q.key = NoKey \/ q.key \notin DOMAIN seen
    /\ Settle(q, Json(IF q.key = NoKey THEN 400 ELSE 503, "envelope"), None)
    /\ UNCHANGED <<filed, seen>>

\* It knows the key: the result again, or a conflict.
ServerReplays(q) ==
    /\ q.key \in DOMAIN seen
    /\ IF seen[q.key] = q.invoice
       THEN Settle(q, Json(202, "record"), q.invoice)
       ELSE Settle(q, Json(409, "envelope"), None)
    /\ UNCHANGED <<filed, seen>>

\* The request is lost, and a gateway may say so.
RequestLost(q) ==
    /\ Settle(q, Html(502), None)
    /\ UNCHANGED <<filed, seen>>

\* submit returns or raises.
Return(i) ==
    /\ phase[i] = "answered"
    /\ result' = [result EXCEPT ![i] =
                    [outcome |-> Decode(sdk, write, reply[i].http),
                     about |-> reply[i].about]]
    /\ reply' = [reply EXCEPT ![i] = None]
    /\ Goto(i, "done")
    /\ UNCHANGED <<sdk, write, pin, attempt, wire, filed, seen>>

\* The connection breaks or the time-out passes; the request may be under way.
GiveUp(i) ==
    /\ phase[i] = "sent"
    /\ result' = [result EXCEPT ![i] = [outcome |-> Foreign, about |-> None]]
    /\ Goto(i, "done")
    /\ UNCHANGED <<sdk, write, pin, attempt, wire, reply, filed, seen>>

\* A result, or a reply of the generated client that says as much.
Succeeded(o) == o.kind = "value" \/ (o.kind = "bare" /\ Success(o))

\* The application tries again.
Retry(i) ==
    /\ phase[i] = "done"
    /\ ~Succeeded(result[i].outcome)
    /\ Goto(i, "ready")
    /\ UNCHANGED <<sdk, write, pin, attempt, wire, reply, result, filed, seen>>

Next ==
    \/ \E i \in Invoices : Submit(i) \/ Return(i) \/ GiveUp(i) \/ Retry(i)
    \/ \E q \in wire : \/ ServerFiles(q) \/ ServerRejects(q) \/ ServerReplays(q)
                       \/ RequestLost(q)

Spec == Init /\ [][Next]_vars
-----------------------------------------------------------------------------
TypeOK ==
    /\ sdk \in Sdks /\ write \in Writes(sdk)
    /\ pin \in [Invoices -> Pins]
    /\ phase \in [Invoices -> {"ready", "sent", "answered", "done"}]
    /\ attempt \in [Invoices -> 0 .. Attempts]
    /\ wire \subseteq [invoice : Invoices, attempt : 1 .. Attempts, key : AllKeys]
    /\ DOMAIN seen \subseteq AllKeys \ {NoKey}
    /\ \A k \in DOMAIN seen : seen[k] \in Invoices
    /\ filed \in [Invoices -> 0 .. Attempts]

\* An application that passes a key of its own has its invoice filed at most
\* once, however often it calls submit again, whatever was lost, replaced or
\* late, as long as the server remembers the key; and of two invoices with the
\* same key at most one.
FiledOnce ==
    \A i, j \in Invoices : pin[i] \in OwnPins /\ pin[j] = pin[i] =>
        filed[i] <= 1 /\ (i # j => filed[i] = 0 \/ filed[j] = 0)

\* submit returns a result only for an invoice that the server filed, and the
\* result is that of this invoice and of no other.
ResultIsOwn ==
    \A i \in Invoices :
        phase[i] = "done" /\ (Succeeded(result[i].outcome)
                               \/ result[i].outcome.kind \in {"hollow", "absent"}) =>
            filed[i] > 0 /\ result[i].about = i

\* A call without a key never gets into the way of another: it is filed anew,
\* and the server never answers that its key is taken.  Nor does it answer that
\* there is none, except to a write of the generated client.
KeylessNeverConflicts ==
    \A i \in Invoices :
        phase[i] = "done" /\ pin[i] = "none" /\ result[i].outcome.kind = "api" =>
            /\ result[i].outcome.status # 409
            /\ write = "submit" => result[i].outcome.status # 400

\* The abstract view of a call: what its application can tell of it.
Verdict(o) ==
    CASE Succeeded(o) -> "result"
      [] o.kind \in {"api", "bare"} /\ o.status = 409 -> "taken"
      [] OTHER -> "failed"

Told ==
    [i \in Invoices |->
        CASE phase[i] = "ready" -> "unasked"
          [] phase[i] \in {"sent", "answered"} -> "waiting"
          [] OTHER -> Verdict(result[i].outcome)]

Order == [i \in Invoices |-> IF pin[i] \in OwnPins THEN pin[i] ELSE "none"]

Filing == INSTANCE FilingService WITH
    Orders <- OwnPins, NoOrder <- "none",
    order <- Order, asked <- attempt, told <- Told

\* A key per submit, and a replay window enforced by the API: to the application,
\* submitting over a network that loses, delays and replaces is what
\* FilingService promises, invoices that share a key of its own included.
ImplementsFiling == Filing!Spec
=============================================================================
