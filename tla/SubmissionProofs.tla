-------------------------- MODULE SubmissionProofs --------------------------
(***************************************************************************)
(* Submissions under a key of the application's own are filed once, every  *)
(* result is that of the invoice that was submitted, and calls without a   *)
(* key do not disturb each other, for any number of invoices and attempts. *)
(***************************************************************************)
EXTENDS Submission, ResponseProofs, FiniteSetTheorems

Request == [invoice : Invoices, attempt : 1 .. Attempts, key : AllKeys]

\* What the argument needs of the types.
Typed ==
    /\ sdk \in Sdks
    /\ pin \in [Invoices -> Pins]
    /\ attempt \in [Invoices -> Nat]
    /\ filed \in [Invoices -> Nat]
    /\ \A q \in wire : q.invoice \in Invoices

\* Every request for a pinned invoice carries the application's key, those of
\* calls long given up included.
WireKeyed ==
    \A q \in wire : pin[q.invoice] \in OwnPins => q.key = OwnKey(pin[q.invoice])

\* The server remembers the key of every pinned invoice it has filed.
FiledIsSeen ==
    \A i \in Invoices :
        pin[i] \in OwnPins /\ filed[i] # 0 => OwnKey(pin[i]) \in DOMAIN seen

IInv == Typed /\ WireKeyed /\ FiledIsSeen /\ FiledOnce

LEMMA PinnedKey ==
    ASSUME NEW s \in Sdks, NEW w, NEW p \in OwnPins, NEW fresh
    PROVE  SubmitKey(s, w, p, fresh) = OwnKey(p)
<1>1. p \notin Unset(s)
  BY DEF OwnPins, Sdks, Unset, GoUnset, PythonUnset, NodeUnset, JavaUnset,
         DotnetUnset, PhpUnset
<1> QED
  BY <1>1 DEF SubmitKey

LEMMA InitHolds == Init => IInv
  BY DEF Init, IInv, Typed, WireKeyed, FiledIsSeen, FiledOnce

\* A reply, a loss or a gateway's answer only takes the request off the wire.
LEMMA SettleKeeps ==
    ASSUME NEW q \in wire, NEW r, NEW about, Settle(q, r, about)
    PROVE  wire' \subseteq wire /\ UNCHANGED <<sdk, pin, attempt>>
  BY DEF Settle

LEMMA KeptByQuietSteps ==
    ASSUME IInv, wire' \subseteq wire, UNCHANGED <<sdk, pin, attempt, filed, seen>>
    PROVE  IInv'
  BY DEF IInv, Typed, WireKeyed, FiledIsSeen, FiledOnce

LEMMA StepHolds == IInv /\ [Next]_vars => IInv'
<1> SUFFICES ASSUME IInv, [Next]_vars PROVE IInv'
  OBVIOUS
<1>1. ASSUME NEW i \in Invoices, Submit(i) PROVE IInv'
  <2> DEFINE n == attempt[i] + 1
             k == SubmitKey(sdk, write, pin[i], FreshKey(i, n))
             q == [invoice |-> i, attempt |-> n, key |-> k]
  <2>1. /\ wire' = wire \cup {q} /\ attempt' = [attempt EXCEPT ![i] = n]
        /\ UNCHANGED <<sdk, pin, filed, seen>>
    BY <1>1 DEF Submit
  <2>2. q.invoice = i /\ q.key = k
    OBVIOUS
  <2>3. pin[i] \in OwnPins => k = OwnKey(pin[i])
    BY PinnedKey DEF IInv, Typed
  <2>4. Typed'
    BY <2>1, <2>2 DEF IInv, Typed
  <2>5. WireKeyed'
    BY <2>1, <2>2, <2>3 DEF IInv, WireKeyed
  <2>6. FiledIsSeen' /\ FiledOnce'
    BY <2>1 DEF IInv, FiledIsSeen, FiledOnce
  <2> QED
    BY <2>4, <2>5, <2>6 DEF IInv
<1>2. ASSUME NEW i \in Invoices, Return(i) \/ GiveUp(i) \/ Retry(i) PROVE IInv'
  BY <1>2, KeptByQuietSteps DEF Return, GiveUp, Retry
<1>3. ASSUME NEW q \in wire, ServerFiles(q) PROVE IInv'
  <2> DEFINE i == q.invoice
  <2>1. wire' \subseteq wire /\ UNCHANGED <<sdk, pin, attempt>>
    BY <1>3, SettleKeeps DEF ServerFiles
  <2>2. /\ i \in Invoices /\ filed[i] \in Nat
        /\ filed' = [filed EXCEPT ![i] = filed[i] + 1]
        /\ q.key \notin DOMAIN seen
        /\ DOMAIN seen' = DOMAIN seen \cup {q.key}
    BY <1>3 DEF ServerFiles, IInv, Typed
  <2>3. pin[i] \in OwnPins => q.key = OwnKey(pin[i]) /\ filed[i] = 0
    BY <2>2 DEF IInv, WireKeyed, FiledIsSeen
  <2>4. Typed' /\ WireKeyed'
    BY <2>1, <2>2 DEF IInv, Typed, WireKeyed
  <2>5. FiledIsSeen'
    BY <2>1, <2>2, <2>3 DEF IInv, Typed, FiledIsSeen
  <2>6. ASSUME NEW j \in Invoices, pin[i] \in OwnPins, pin[j] = pin[i] PROVE filed[j] = 0
    BY <2>2, <2>3, <2>6 DEF IInv, FiledIsSeen
  <2>7. \A j \in Invoices : filed'[j] = IF j = i THEN filed[j] + 1 ELSE filed[j]
    BY <2>2 DEF IInv, Typed
  <2>8. FiledOnce'
    BY <2>1, <2>2, <2>6, <2>7 DEF IInv, Typed, FiledOnce
  <2> QED
    BY <2>4, <2>5, <2>8 DEF IInv
<1>4. ASSUME NEW q \in wire, ServerRejects(q) \/ ServerReplays(q) \/ RequestLost(q)
      PROVE  IInv'
  <2>1. wire' \subseteq wire /\ UNCHANGED <<sdk, pin, attempt, filed, seen>>
    BY <1>4, SettleKeeps DEF ServerRejects, ServerReplays, RequestLost
  <2> QED
    BY <2>1, KeptByQuietSteps
<1>5. CASE UNCHANGED vars
  BY <1>5, KeptByQuietSteps DEF vars
<1> QED
  BY <1>1, <1>2, <1>3, <1>4, <1>5 DEF Next

\* An application that passes a key of its own has its invoice filed at most
\* once, and of several invoices with one key at most one: the key reaches the
\* server unchanged in every call of submit, and a request that was given up and
\* arrives late carries it, too.
THEOREM KeyedOnce == Spec => []FiledOnce
<1>1. IInv => FiledOnce
  BY DEF IInv
<1> QED
  BY InitHolds, StepHolds, <1>1, PTL DEF Spec
-----------------------------------------------------------------------------
(***************************************************************************)
(* Types.  The server never files an invoice more often than submit was    *)
(* called for it: every call puts one request on the wire, and filing      *)
(* takes one off.                                                          *)
(***************************************************************************)
Pending(i) == {q \in wire : q.invoice = i}

Counted ==
    /\ IsFiniteSet(wire)
    /\ \A i \in Invoices : filed[i] + Cardinality(Pending(i)) <= attempt[i]

TypeInv == TypeOK /\ Counted /\ DOMAIN reply = Invoices /\ DOMAIN result = Invoices

LEMMA PendingFinite ==
    ASSUME IsFiniteSet(wire), NEW i
    PROVE  IsFiniteSet(Pending(i)) /\ Cardinality(Pending(i)) \in Nat
<1>1. Pending(i) \subseteq wire
  BY DEF Pending
<1> QED
  BY <1>1, FS_Subset, FS_CardinalityType

\* A request more is one more for its invoice and none for the others.
LEMMA PendingAdded ==
    ASSUME IsFiniteSet(wire), NEW q, wire' = wire \cup {q}, NEW i
    PROVE  /\ IsFiniteSet(wire')
           /\ Cardinality(Pending(i)') \in Nat
           /\ Cardinality(Pending(i)') <= Cardinality(Pending(i)) + 1
           /\ q.invoice # i => Cardinality(Pending(i)') = Cardinality(Pending(i))
<1>1. IsFiniteSet(Pending(i)) /\ Cardinality(Pending(i)) \in Nat
  BY PendingFinite
<1>2. Pending(i)' = IF q.invoice = i THEN Pending(i) \cup {q} ELSE Pending(i)
  BY DEF Pending
<1>3. Cardinality(Pending(i) \cup {q}) \in {Cardinality(Pending(i)), Cardinality(Pending(i)) + 1}
  BY <1>1, FS_AddElement
<1>4. IsFiniteSet(wire')
  BY FS_AddElement
<1> QED
  BY <1>1, <1>2, <1>3, <1>4

\* A request less is one less for its invoice.
LEMMA PendingRemoved ==
    ASSUME IsFiniteSet(wire), NEW q \in wire, wire' = wire \ {q}, NEW i
    PROVE  /\ IsFiniteSet(wire')
           /\ Cardinality(Pending(i)') \in Nat
           /\ Cardinality(Pending(i)') = IF q.invoice = i THEN Cardinality(Pending(i)) - 1
                                         ELSE Cardinality(Pending(i))
<1>1. IsFiniteSet(Pending(i)) /\ Cardinality(Pending(i)) \in Nat
  BY PendingFinite
<1>2. Pending(i)' = IF q.invoice = i THEN Pending(i) \ {q} ELSE Pending(i)
  BY DEF Pending
<1>3. q.invoice = i => q \in Pending(i)
  BY DEF Pending
<1>4. q \in Pending(i) => /\ IsFiniteSet(Pending(i) \ {q})
                          /\ Cardinality(Pending(i) \ {q}) = Cardinality(Pending(i)) - 1
  BY <1>1, FS_RemoveElement
<1>5. q \in Pending(i) => Cardinality(Pending(i) \ {q}) \in Nat
  BY <1>4, FS_CardinalityType
<1>6. IsFiniteSet(wire')
  BY FS_RemoveElement
<1> QED
  BY <1>1, <1>2, <1>3, <1>4, <1>5, <1>6

\* The key of a call is one of AllKeys.
LEMMA KeyOfCall ==
    ASSUME NEW s \in Sdks, NEW w, NEW p \in Pins, NEW i \in Invoices, NEW n \in 1 .. Attempts
    PROVE  SubmitKey(s, w, p, FreshKey(i, n)) \in AllKeys
  BY DEF SubmitKey, AllKeys

LEMMA CountsNaturals ==
    ASSUME TypeInv
    PROVE  /\ \A i \in Invoices : /\ filed[i] \in Nat /\ attempt[i] \in Nat
                                  /\ attempt[i] <= Attempts
                                  /\ Cardinality(Pending(i)) \in Nat
                                  /\ filed[i] + Cardinality(Pending(i)) <= attempt[i]
           /\ \A q \in wire : q.invoice \in Invoices /\ q.key \in AllKeys
<1>1. /\ filed \in [Invoices -> 0 .. Attempts] /\ attempt \in [Invoices -> 0 .. Attempts]
      /\ wire \subseteq [invoice : Invoices, attempt : 1 .. Attempts, key : AllKeys]
      /\ Counted
  BY DEF TypeInv, TypeOK
<1>2. ASSUME NEW i \in Invoices PROVE Cardinality(Pending(i)) \in Nat
  BY <1>1, PendingFinite DEF Counted
<1>3. \A q \in wire : q.invoice \in Invoices /\ q.key \in AllKeys
  BY <1>1
<1> QED
  BY <1>1, <1>2, <1>3, AttemptsAssumption DEF Counted

\* A request that leaves the wire without being filed.
LEMMA SettledTyped ==
    ASSUME TypeInv, NEW q \in wire, NEW r, NEW about, Settle(q, r, about)
    PROVE  /\ UNCHANGED <<sdk, write, pin, attempt, result>>
           /\ wire' = wire \ {q}
           /\ q.invoice \in Invoices
           /\ phase' \in [Invoices -> {"ready", "sent", "answered", "done"}]
           /\ DOMAIN reply' = Invoices
<1>1. q.invoice \in Invoices
  BY CountsNaturals
<1> QED
  BY <1>1 DEF Settle, Goto, TypeInv, TypeOK

LEMMA UnfiledTyped ==
    ASSUME TypeInv, NEW q \in wire, NEW r, NEW about, Settle(q, r, about),
           UNCHANGED <<filed, seen>>
    PROVE  TypeInv'
<1>1. /\ UNCHANGED <<sdk, write, pin, attempt, result, filed, seen>>
      /\ wire' = wire \ {q}
      /\ phase' \in [Invoices -> {"ready", "sent", "answered", "done"}]
      /\ DOMAIN reply' = Invoices
  BY SettledTyped
<1>2. IsFiniteSet(wire)
  BY DEF TypeInv, Counted
<1>3. Counted'
  <2>1. IsFiniteSet(wire')
    BY <1>1, <1>2, FS_RemoveElement
  <2>2. ASSUME NEW i \in Invoices
        PROVE  filed'[i] + Cardinality(Pending(i)') <= attempt'[i]
    <3>1. /\ Cardinality(Pending(i)') \in Nat
          /\ Cardinality(Pending(i)') <= Cardinality(Pending(i))
      BY <1>1, <1>2, PendingRemoved, PendingFinite
    <3> QED
      BY <1>1, <3>1, CountsNaturals
  <2> QED
    BY <2>1, <2>2 DEF Counted
<1>4. TypeOK'
  BY <1>1 DEF TypeInv, TypeOK
<1> QED
  BY <1>1, <1>3, <1>4 DEF TypeInv

LEMMA TypeInit == Init => TypeInv
<1> SUFFICES ASSUME Init PROVE TypeInv
  OBVIOUS
<1>1. TypeOK
  BY AttemptsAssumption DEF Init, TypeOK
<1>2. \A i \in Invoices : Pending(i) = {}
  BY DEF Init, Pending
<1>3. IsFiniteSet({}) /\ Cardinality({}) = 0
  BY FS_EmptySet
<1>4. wire = {} /\ \A i \in Invoices : filed[i] = 0 /\ attempt[i] = 0
  BY DEF Init
<1>5. \A i \in Invoices : Cardinality(Pending(i)) = 0
  BY <1>2, <1>3
<1>6. Counted
  BY <1>3, <1>4, <1>5 DEF Counted
<1> QED
  BY <1>1, <1>6 DEF Init, TypeInv

LEMMA TypeStep == TypeInv /\ [Next]_vars => TypeInv'
<1> SUFFICES ASSUME TypeInv, [Next]_vars PROVE TypeInv'
  OBVIOUS
<1>1. ASSUME NEW i \in Invoices, Submit(i) PROVE TypeInv'
  <2> DEFINE n == attempt[i] + 1
             k == SubmitKey(sdk, write, pin[i], FreshKey(i, n))
             q == [invoice |-> i, attempt |-> n, key |-> k]
  <2>1. /\ wire' = wire \cup {q} /\ attempt' = [attempt EXCEPT ![i] = n]
        /\ phase' = [phase EXCEPT ![i] = "sent"] /\ attempt[i] < Attempts
        /\ UNCHANGED <<sdk, write, pin, reply, result, filed, seen>>
    BY <1>1 DEF Submit, Goto
  <2>2. n \in 1 .. Attempts /\ n = attempt[i] + 1
    BY <2>1, CountsNaturals, AttemptsAssumption
  <2>3. k \in AllKeys
    BY <2>2, KeyOfCall DEF TypeInv, TypeOK
  <2>4. q \in [invoice : Invoices, attempt : 1 .. Attempts, key : AllKeys] /\ q.invoice = i
    BY <2>2, <2>3
  <2> HIDE DEF n, k, q
  <2>5. TypeOK'
    BY <2>1, <2>2, <2>4 DEF TypeInv, TypeOK
  <2>6. IsFiniteSet(wire)
    BY DEF TypeInv, Counted
  <2>7. ASSUME NEW j \in Invoices
        PROVE  filed'[j] + Cardinality(Pending(j)') <= attempt'[j]
    <3>1. /\ Cardinality(Pending(j)') \in Nat
          /\ Cardinality(Pending(j)') <= Cardinality(Pending(j)) + 1
          /\ i # j => Cardinality(Pending(j)') = Cardinality(Pending(j))
      BY <2>1, <2>4, <2>6, PendingAdded
    <3>2. attempt'[j] = IF i = j THEN attempt[j] + 1 ELSE attempt[j]
      BY <2>1, <2>2 DEF TypeInv, TypeOK
    <3>3. filed'[j] = filed[j]
      BY <2>1
    <3> QED
      BY <3>1, <3>2, <3>3, CountsNaturals
  <2>8. Counted'
    BY <2>1, <2>6, <2>7, FS_AddElement DEF Counted
  <2> QED
    BY <2>1, <2>5, <2>8 DEF TypeInv
<1>2. ASSUME NEW i \in Invoices, Return(i) \/ GiveUp(i) \/ Retry(i) PROVE TypeInv'
  <2>1. /\ UNCHANGED <<sdk, write, pin, attempt, wire, filed, seen>>
        /\ phase' \in {[phase EXCEPT ![i] = "done"], [phase EXCEPT ![i] = "ready"]}
        /\ DOMAIN reply' = DOMAIN reply /\ DOMAIN result' = DOMAIN result
    BY <1>2 DEF Return, GiveUp, Retry, Goto
  <2>2. TypeOK'
    BY <2>1 DEF TypeInv, TypeOK
  <2>3. Counted'
    BY <2>1 DEF TypeInv, Counted, Pending
  <2> QED
    BY <2>1, <2>2, <2>3 DEF TypeInv
<1>3. ASSUME NEW q \in wire, ServerFiles(q) PROVE TypeInv'
  <2>1. /\ q.key # NoKey /\ filed' = [filed EXCEPT ![q.invoice] = filed[q.invoice] + 1]
        /\ seen' = [k \in DOMAIN seen \cup {q.key} |->
                      IF k = q.key THEN q.invoice ELSE seen[k]]
        /\ Settle(q, Json(202, "record"), q.invoice)
    BY <1>3 DEF ServerFiles
  <2>2. /\ UNCHANGED <<sdk, write, pin, attempt, result>>
        /\ wire' = wire \ {q} /\ q.invoice \in Invoices
        /\ phase' \in [Invoices -> {"ready", "sent", "answered", "done"}]
        /\ DOMAIN reply' = Invoices
    BY <2>1, SettledTyped
  <2>3. IsFiniteSet(wire)
    BY DEF TypeInv, Counted
  <2>4. ASSUME NEW j \in Invoices
        PROVE  /\ filed'[j] + Cardinality(Pending(j)') <= attempt'[j]
               /\ filed'[j] \in 0 .. Attempts
    <3>1. /\ Cardinality(Pending(j)') \in Nat
          /\ Cardinality(Pending(j)') = IF q.invoice = j THEN Cardinality(Pending(j)) - 1
                                        ELSE Cardinality(Pending(j))
      BY <2>2, <2>3, PendingRemoved
    <3>2. filed'[j] = IF q.invoice = j THEN filed[j] + 1 ELSE filed[j]
      BY <2>1, <2>2 DEF TypeInv, TypeOK
    <3>3. attempt'[j] = attempt[j]
      BY <2>2
    <3> QED
      BY <3>1, <3>2, <3>3, CountsNaturals, AttemptsAssumption
  <2>5. filed' \in [Invoices -> 0 .. Attempts]
    BY <2>1, <2>4 DEF TypeInv, TypeOK
  <2>6. /\ DOMAIN seen' = DOMAIN seen \cup {q.key} /\ q.key \in AllKeys
        /\ \A k \in DOMAIN seen' : seen'[k] \in Invoices
    BY <2>1, <2>2, CountsNaturals DEF TypeInv, TypeOK
  <2>7. TypeOK'
    BY <2>1, <2>2, <2>5, <2>6 DEF TypeInv, TypeOK
  <2>8. Counted'
    BY <2>2, <2>3, <2>4, FS_RemoveElement DEF Counted
  <2> QED
    BY <2>2, <2>7, <2>8 DEF TypeInv
<1>4. ASSUME NEW q \in wire, ServerRejects(q) \/ ServerReplays(q) \/ RequestLost(q)
      PROVE  TypeInv'
  BY <1>4, UnfiledTyped DEF ServerRejects, ServerReplays, RequestLost
<1>5. CASE UNCHANGED vars
  BY <1>5 DEF vars, TypeInv, TypeOK, Counted, Pending
<1> QED
  BY <1>1, <1>2, <1>3, <1>4, <1>5 DEF Next

\* Every variable of the submissions keeps its type: requests carry one of the
\* keys there are, and no invoice is filed more often than submit was called.
THEOREM SubmissionTypeCorrect == Spec => []TypeOK
<1>1. TypeInv => TypeOK
  BY DEF TypeInv
<1> QED
  BY TypeInit, TypeStep, <1>1, PTL DEF Spec
-----------------------------------------------------------------------------
(***************************************************************************)
(* Whose result a call returns, and what it says to a call without a key.  *)
(***************************************************************************)
\* What comes back from the server or a gateway that is no result.
Refusals == {Html(502)} \cup {Json(c, "envelope") : c \in {400, 409, 503}}
Filed == Json(202, "record")

\* Whatever Go makes an API error of or hands over bare has the reply's status.
LEMMA GoStatus ==
    ASSUME NEW p \in {"submit"} \cup Operations, NEW r, GoDecode(p, r).kind \in {"api", "bare"}
    PROVE  GoDecode(p, r).status = r.status
<1>1. ASSUME NEW q, ParseReply(q, r).kind \in {"api", "bare"}
      PROVE  ParseReply(q, r).status = r.status
  BY <1>1 DEF ParseReply, GoUnmarshal, GoError, Api, Bare, Value, Hollow, Foreign
<1>2. CASE p \in Operations
  <2>1. p \notin Ops /\ p \notin {"submit", "get", "list", "taxcodes", "hsncodes"}
    BY <1>2, OwnOperations DEF Ops
  <2>2. GoDecode(p, r) = ParseReply(p, r)
    BY <1>2, <2>1 DEF GoDecode, HandWritten
  <2> QED
    BY <1>1, <2>2
<1>3. CASE p = "submit"
  <2>1. GoDecode(p, r) = GoParsed(p, r)
    BY <1>3, OwnOperations DEF GoDecode, HandWritten, Ops
  <2> QED
    BY <2>1 DEF GoParsed, GoError, Api
<1> QED
  BY <1>2, <1>3

LEMMA GoWrites ==
    ASSUME NEW w \in Writes("go")
    PROVE  w \in {"submit"} \cup Operations /\ w # "GetReadiness"
<1>1. "GetReadiness" \in ProbeOps
  BY DEF ProbeOps
<1>2. "GetReadiness" \notin KeyedOps
  BY <1>1, ProbeGroup DEF KeyedOps, ProbeRequest, Call
<1> QED
  BY <1>2 DEF Writes, KeyedOps

\* A refusal is never taken for a result.
LEMMA RefusedCall ==
    ASSUME NEW s \in Sdks, NEW w \in Writes(s), NEW r \in Refusals
    PROVE  LET o == Decode(s, w, r)
           IN  /\ ~Succeeded(o) /\ o.kind \notin {"hollow", "absent"}
               /\ o.kind \in {"api", "bare"} => o.status = r.status
<1> DEFINE o == Decode(s, w, r)
<1>1. r.status \in {400, 409, 502, 503} /\ ~Success(r)
  BY DEF Refusals, Html, Json, Success
<1>2. CASE s = "go"
  <2>1. w \in {"submit"} \cup Operations /\ w \in Ops \cup Operations /\ w # "GetReadiness"
    BY <1>2, GoWrites DEF Ops
  <2>2. o = GoDecode(w, r)
    BY <1>2 DEF Decode
  <2>3. o.kind \notin Results
    BY <1>1, <2>1, <2>2, GoKeepsResults
  <2>4. o.kind \in {"api", "bare"} => o.status = r.status
    BY <2>1, <2>2, GoStatus
  <2> QED
    BY <1>1, <2>3, <2>4 DEF Results, Succeeded, Success
<1>3. CASE s \in {"python", "node", "java"}
  <2>1. o = LenientError(r)
    BY <1>1, <1>3, RefusedReply DEF Decode
  <2> QED
    BY <2>1, LenientErrorIsApi DEF Succeeded
<1>4. CASE s = "dotnet"
  <2>1. o = DotnetError(w, r)
    BY <1>1, <1>4, RefusedReply DEF Decode
  <2> QED
    BY <2>1 DEF DotnetError, Api, Foreign, Succeeded
<1>5. CASE s = "php"
  <2>1. o = PhpError(r)
    BY <1>1, <1>5 DEF Decode, PhpDecode
  <2> QED
    BY <2>1 DEF PhpError, Api, Succeeded
<1> QED
  BY <1>2, <1>3, <1>4, <1>5 DEF Sdks

LEMMA FiledCall ==
    ASSUME NEW s \in Sdks, NEW w \in Writes(s), Decode(s, w, Filed).kind \in {"api", "bare"}
    PROVE  Decode(s, w, Filed).status = 202
<1>1. Success(Filed) /\ Filed.status = 202 /\ Filed.body = "record"
  BY DEF Filed, Json, Success
<1>2. CASE s = "go"
  <2>1. Decode(s, w, Filed) = GoDecode(w, Filed) /\ w \in {"submit"} \cup Operations
    BY <1>2, GoWrites DEF Decode
  <2> QED
    BY <1>1, <2>1, GoStatus
<1>3. CASE s # "go"
  <2>1. w = "submit"
    BY <1>3 DEF Writes
  <2>2. Decode(s, w, Filed) = Value
    BY <1>1, <1>3, <2>1
    DEF Sdks, Decode, PythonDecode, PythonRead, NodeDecode, NodeRead, JavaDecode,
        JavaConvert, DotnetDecode, DotnetDeserialize, PhpDecode, Discards
  <2> QED
    BY <2>2 DEF Value
<1> QED
  BY <1>2, <1>3

\* A request carries the key of its call.
WireKeys ==
    \A q \in wire :
        q.key = SubmitKey(sdk, write, pin[q.invoice], FreshKey(q.invoice, q.attempt))

\* A key is remembered with an invoice that was filed, and a key that was made
\* for a call with the invoice of that call.
SeenIsFiled ==
    \A k \in DOMAIN seen :
        /\ filed[seen[k]] > 0
        /\ \A i \in Invoices, n \in 1 .. Attempts : k = FreshKey(i, n) => seen[k] = i

AnswerFor(i) ==
    \/ reply[i].http = Filed /\ reply[i].about = i /\ filed[i] > 0
    \/ /\ reply[i].http \in Refusals
       /\ pin[i] = "none" => /\ reply[i].http.status # 409
                             /\ write = "submit" => reply[i].http.status # 400

AnswersSound == \A i \in Invoices : phase[i] = "answered" => AnswerFor(i)

AnswerInv ==
    TypeInv /\ WireKeys /\ SeenIsFiled /\ AnswersSound /\ ResultIsOwn /\ KeylessNeverConflicts

\* The key of a call without one of its own.
LEMMA KeylessKey ==
    ASSUME NEW s \in Sdks, NEW w, NEW fresh
    PROVE  SubmitKey(s, w, "none", fresh) = IF w = "submit" THEN fresh ELSE NoKey
<1>1. "none" \in Unset(s) /\ "none" \notin OwnPins
  BY DEF Sdks, Unset, GoUnset, PythonUnset, NodeUnset, JavaUnset, DotnetUnset,
         PhpUnset, OwnPins
<1> QED
  BY <1>1 DEF SubmitKey

\* The keys that are made for calls are told apart, and from the others.
LEMMA FreshKeys ==
    ASSUME NEW i, NEW n, NEW j, NEW m
    PROVE  /\ FreshKey(i, n) = FreshKey(j, m) => i = j /\ n = m
           /\ FreshKey(i, n) # NoKey
           /\ \A p : FreshKey(i, n) # OwnKey(p)
  BY DEF FreshKey, NoKey, OwnKey

\* The answer r to a request reaches the call that waits for it, or a gateway's.
LEMMA SettledAnswers ==
    ASSUME AnswerInv, TypeInv', NEW q \in wire, NEW r, NEW about, Settle(q, r, about),
           \A i \in Invoices : filed[i] > 0 => filed'[i] > 0,
           \/ r = Filed /\ about = q.invoice /\ filed'[q.invoice] > 0
           \/ /\ r \in Refusals
              /\ pin[q.invoice] = "none" =>
                   r.status # 409 /\ (write = "submit" => r.status # 400)
    PROVE  WireKeys' /\ AnswersSound' /\ ResultIsOwn' /\ KeylessNeverConflicts'
<1> DEFINE c == q.invoice
<1>1. /\ UNCHANGED <<sdk, write, pin, attempt, result>>
      /\ wire' = wire \ {q} /\ c \in Invoices
  BY SettledTyped DEF AnswerInv
<1>2. WireKeys'
  BY <1>1 DEF AnswerInv, WireKeys
<1>3. \/ UNCHANGED <<phase, reply>>
      \/ /\ phase' = [phase EXCEPT ![c] = "answered"]
         /\ \/ reply' = [reply EXCEPT ![c] = [http |-> r, about |-> about]]
            \/ reply' = [reply EXCEPT ![c] = [http |-> Html(502), about |-> None]]
  BY DEF Settle, Goto
<1>4. /\ phase \in [Invoices -> {"ready", "sent", "answered", "done"}]
      /\ DOMAIN reply = Invoices
  BY DEF AnswerInv, TypeInv, TypeOK
<1>5. Html(502) \in Refusals /\ Html(502).status = 502
  BY DEF Refusals, Html
<1>6. ASSUME NEW i \in Invoices, phase'[i] = "answered" PROVE AnswerFor(i)'
  <2>1. CASE phase'[i] = phase[i] /\ reply'[i] = reply[i]
    BY <1>1, <1>6, <2>1 DEF AnswerInv, AnswersSound, AnswerFor
  <2>2. CASE i = c /\ reply'[i] = [http |-> r, about |-> about]
    BY <1>1, <2>2 DEF AnswerFor
  <2>3. CASE reply'[i] = [http |-> Html(502), about |-> None]
    BY <1>5, <2>3 DEF AnswerFor
  <2> QED
    BY <1>1, <1>3, <1>4, <2>1, <2>2, <2>3
<1>7. \A i \in Invoices : phase'[i] = "done" => phase[i] = "done"
  BY <1>1, <1>3, <1>4
<1>8. ResultIsOwn'
  BY <1>1, <1>7 DEF AnswerInv, ResultIsOwn
<1>9. KeylessNeverConflicts'
  BY <1>1, <1>7 DEF AnswerInv, KeylessNeverConflicts
<1> QED
  BY <1>2, <1>6, <1>8, <1>9 DEF AnswersSound

LEMMA AnswerInit == Init => AnswerInv
<1> SUFFICES ASSUME Init PROVE AnswerInv
  OBVIOUS
<1>1. \A i \in Invoices : phase[i] = "ready"
  BY DEF Init
<1>2. WireKeys /\ SeenIsFiled
  BY DEF Init, WireKeys, SeenIsFiled
<1>3. AnswersSound /\ ResultIsOwn /\ KeylessNeverConflicts
  BY <1>1 DEF AnswersSound, ResultIsOwn, KeylessNeverConflicts
<1> QED
  BY <1>2, <1>3, TypeInit DEF AnswerInv

LEMMA AnswerStep == AnswerInv /\ [Next]_vars => AnswerInv'
<1> SUFFICES ASSUME AnswerInv, [Next]_vars PROVE AnswerInv'
  OBVIOUS
<1>t. TypeInv'
  BY TypeStep DEF AnswerInv
<1>p. phase \in [Invoices -> {"ready", "sent", "answered", "done"}]
  BY DEF AnswerInv, TypeInv, TypeOK
<1>1. ASSUME NEW i \in Invoices, Submit(i) PROVE AnswerInv'
  <2> DEFINE n == attempt[i] + 1
             k == SubmitKey(sdk, write, pin[i], FreshKey(i, n))
             q == [invoice |-> i, attempt |-> n, key |-> k]
  <2>1. /\ wire' = wire \cup {q} /\ phase' = [phase EXCEPT ![i] = "sent"]
        /\ UNCHANGED <<sdk, write, pin, reply, result, filed, seen>>
    BY <1>1 DEF Submit, Goto
  <2>2. q.key = SubmitKey(sdk, write, pin[q.invoice], FreshKey(q.invoice, q.attempt))
    OBVIOUS
  <2> HIDE DEF q
  <2>3. WireKeys'
    BY <2>1, <2>2 DEF AnswerInv, WireKeys
  <2>4. SeenIsFiled'
    BY <2>1 DEF AnswerInv, SeenIsFiled
  <2>5. \A j \in Invoices : phase'[j] # "sent" => phase'[j] = phase[j]
    BY <1>p, <2>1
  <2>6. AnswersSound' /\ ResultIsOwn' /\ KeylessNeverConflicts'
    BY <2>1, <2>5
    DEF AnswerInv, AnswersSound, AnswerFor, ResultIsOwn, KeylessNeverConflicts
  <2> QED
    BY <1>t, <2>3, <2>4, <2>6 DEF AnswerInv
<1>2. ASSUME NEW i \in Invoices, Return(i) PROVE AnswerInv'
  <2> DEFINE o == Decode(sdk, write, reply[i].http)
  <2>1. /\ phase[i] = "answered" /\ phase' = [phase EXCEPT ![i] = "done"]
        /\ result' = [result EXCEPT ![i] = [outcome |-> o, about |-> reply[i].about]]
        /\ reply' = [reply EXCEPT ![i] = None]
        /\ UNCHANGED <<sdk, write, pin, wire, filed, seen>>
    BY <1>2 DEF Return, Goto
  <2>2. /\ sdk \in Sdks /\ write \in Writes(sdk) /\ AnswerFor(i)
        /\ DOMAIN reply = Invoices /\ DOMAIN result = Invoices
    BY <2>1 DEF AnswerInv, TypeInv, TypeOK, AnswersSound
  <2>3. WireKeys' /\ SeenIsFiled'
    BY <2>1 DEF AnswerInv, WireKeys, SeenIsFiled
  <2>4. \A j \in Invoices : phase'[j] = IF j = i THEN "done" ELSE phase[j]
    BY <1>p, <2>1
  <2>5. /\ \A j \in Invoices : j # i => result'[j] = result[j] /\ reply'[j] = reply[j]
        /\ result'[i].outcome = o /\ result'[i].about = reply[i].about
    BY <2>1, <2>2
  <2>6. AnswersSound'
    BY <2>1, <2>4, <2>5 DEF AnswerInv, AnswersSound, AnswerFor
  <2>7. ASSUME Succeeded(o) \/ o.kind \in {"hollow", "absent"}
        PROVE  filed[i] > 0 /\ reply[i].about = i
    BY <2>2, <2>7, RefusedCall DEF AnswerFor
  <2>8. ResultIsOwn'
    BY <2>1, <2>4, <2>5, <2>7 DEF AnswerInv, ResultIsOwn
  <2>9. ASSUME pin[i] = "none", o.kind = "api"
        PROVE  o.status # 409 /\ (write = "submit" => o.status # 400)
    <3>1. CASE reply[i].http = Filed
      BY <2>2, <2>9, <3>1, FiledCall
    <3>2. CASE reply[i].http \in Refusals
      <4>1. o.status = reply[i].http.status
        BY <2>2, <2>9, <3>2, RefusedCall
      <4>2. reply[i].http # Filed
        BY <3>2 DEF Refusals, Filed, Html, Json
      <4> QED
        BY <2>2, <2>9, <4>1, <4>2 DEF AnswerFor
    <3> QED
      BY <2>2, <3>1, <3>2 DEF AnswerFor
  <2> HIDE DEF o
  <2>10. KeylessNeverConflicts'
    BY <2>1, <2>4, <2>5, <2>9 DEF AnswerInv, KeylessNeverConflicts
  <2> QED
    BY <1>t, <2>3, <2>6, <2>8, <2>10 DEF AnswerInv
<1>3. ASSUME NEW i \in Invoices, GiveUp(i) PROVE AnswerInv'
  <2>1. /\ phase' = [phase EXCEPT ![i] = "done"]
        /\ result' = [result EXCEPT ![i] = [outcome |-> Foreign, about |-> None]]
        /\ UNCHANGED <<sdk, write, pin, wire, reply, filed, seen>>
    BY <1>3 DEF GiveUp, Goto
  <2>2. DOMAIN result = Invoices
    BY DEF AnswerInv, TypeInv
  <2>3. \A j \in Invoices : /\ phase'[j] = IF j = i THEN "done" ELSE phase[j]
                            /\ j # i => result'[j] = result[j]
    BY <1>p, <2>1, <2>2
  <2>4. result'[i].outcome.kind = "foreign"
    BY <2>1, <2>2 DEF Foreign
  <2>5. WireKeys' /\ SeenIsFiled' /\ AnswersSound'
    BY <2>1, <2>3 DEF AnswerInv, WireKeys, SeenIsFiled, AnswersSound, AnswerFor
  <2>6. ResultIsOwn'
    BY <2>1, <2>3, <2>4 DEF AnswerInv, ResultIsOwn, Succeeded
  <2>7. KeylessNeverConflicts'
    BY <2>1, <2>3, <2>4 DEF AnswerInv, KeylessNeverConflicts
  <2> QED
    BY <1>t, <2>5, <2>6, <2>7 DEF AnswerInv
<1>4. ASSUME NEW i \in Invoices, Retry(i) PROVE AnswerInv'
  <2>1. /\ phase' = [phase EXCEPT ![i] = "ready"]
        /\ UNCHANGED <<sdk, write, pin, wire, reply, result, filed, seen>>
    BY <1>4 DEF Retry, Goto
  <2>2. \A j \in Invoices : phase'[j] # "ready" => phase'[j] = phase[j]
    BY <1>p, <2>1
  <2>3. WireKeys' /\ SeenIsFiled'
    BY <2>1 DEF AnswerInv, WireKeys, SeenIsFiled
  <2>4. AnswersSound' /\ ResultIsOwn' /\ KeylessNeverConflicts'
    BY <2>1, <2>2
    DEF AnswerInv, AnswersSound, AnswerFor, ResultIsOwn, KeylessNeverConflicts
  <2> QED
    BY <1>t, <2>3, <2>4 DEF AnswerInv
<1>5. ASSUME NEW q \in wire, ServerFiles(q) PROVE AnswerInv'
  <2> DEFINE i == q.invoice
  <2>1. /\ filed' = [filed EXCEPT ![i] = filed[i] + 1]
        /\ seen' = [k \in DOMAIN seen \cup {q.key} |-> IF k = q.key THEN i ELSE seen[k]]
        /\ Settle(q, Filed, i)
    BY <1>5 DEF ServerFiles, Filed
  <2>2. i \in Invoices /\ sdk \in Sdks
    BY CountsNaturals DEF AnswerInv, TypeInv, TypeOK
  <2>3. \A j \in Invoices : filed'[j] = IF j = i THEN filed[j] + 1 ELSE filed[j]
    BY <2>1 DEF AnswerInv, TypeInv, TypeOK
  <2>4. filed'[i] > 0 /\ \A j \in Invoices : filed[j] > 0 => filed'[j] > 0
    BY <2>2, <2>3, CountsNaturals DEF AnswerInv
  <2>5. WireKeys' /\ AnswersSound' /\ ResultIsOwn' /\ KeylessNeverConflicts'
    BY <1>t, <2>1, <2>4, SettledAnswers
  <2>6. ASSUME NEW j \in Invoices, NEW n \in 1 .. Attempts, q.key = FreshKey(j, n)
        PROVE  j = i
    <3>1. q.key = SubmitKey(sdk, write, pin[i], FreshKey(i, q.attempt))
      BY DEF AnswerInv, WireKeys
    <3>2. \/ q.key = FreshKey(i, q.attempt) \/ q.key = NoKey
          \/ \E p : q.key = OwnKey(p)
      BY <3>1 DEF SubmitKey
    <3> QED
      BY <2>6, <3>2, FreshKeys
  <2>7. \A k \in DOMAIN seen : seen[k] \in Invoices
    BY DEF AnswerInv, TypeInv, TypeOK
  <2>8. SeenIsFiled'
    <3> SUFFICES ASSUME NEW k \in DOMAIN seen'
                 PROVE  /\ filed'[seen'[k]] > 0
                        /\ \A j \in Invoices, n \in 1 .. Attempts :
                             k = FreshKey(j, n) => seen'[k] = j
      BY DEF SeenIsFiled
    <3>1. CASE k = q.key
      BY <2>1, <2>4, <2>6, <3>1
    <3>2. CASE k # q.key
      <4>1. k \in DOMAIN seen /\ seen'[k] = seen[k]
        BY <2>1, <3>2
      <4> QED
        BY <2>4, <2>7, <4>1 DEF AnswerInv, SeenIsFiled
    <3> QED
      BY <3>1, <3>2
  <2> QED
    BY <1>t, <2>5, <2>8 DEF AnswerInv
<1>6. ASSUME NEW q \in wire, ServerRejects(q) \/ ServerReplays(q) \/ RequestLost(q)
      PROVE  AnswerInv'
  <2> DEFINE i == q.invoice
  <2>1. UNCHANGED <<filed, seen>> /\ sdk \in Sdks
    BY <1>6 DEF ServerRejects, ServerReplays, RequestLost, AnswerInv, TypeInv, TypeOK
  <2>2. SeenIsFiled'
    BY <2>1 DEF AnswerInv, SeenIsFiled
  <2>3. /\ i \in Invoices /\ q.attempt \in 1 .. Attempts
        /\ q.key = SubmitKey(sdk, write, pin[i], FreshKey(i, q.attempt))
    BY DEF AnswerInv, WireKeys, TypeInv, TypeOK
  <2>4. ASSUME pin[i] = "none" PROVE q.key = IF write = "submit" THEN FreshKey(i, q.attempt) ELSE NoKey
    BY <2>1, <2>3, <2>4, KeylessKey
  <2>5. CASE RequestLost(q)
    <3>1. Settle(q, Html(502), None)
      BY <2>5 DEF RequestLost
    <3>2. Html(502) \in Refusals /\ Html(502).status = 502
      BY DEF Refusals, Html
    <3> QED
      BY <1>t, <2>1, <2>2, <3>1, <3>2, SettledAnswers DEF AnswerInv
  <2>6. CASE ServerRejects(q)
    <3> DEFINE r == Json(IF q.key = NoKey THEN 400 ELSE 503, "envelope")
    <3>1. Settle(q, r, None)
      BY <2>6 DEF ServerRejects
    <3>2. r \in Refusals /\ r.status \in {400, 503} /\ (q.key # NoKey => r.status = 503)
      <4>1. CASE q.key = NoKey
        BY <4>1 DEF Refusals, Json
      <4>2. CASE q.key # NoKey
        BY <4>2 DEF Refusals, Json
      <4> QED
        BY <4>1, <4>2
    <3>3. pin[i] = "none" /\ write = "submit" => q.key # NoKey
      BY <2>4, FreshKeys
    <3> HIDE DEF r
    <3>4. pin[i] = "none" => r.status # 409 /\ (write = "submit" => r.status # 400)
      BY <3>2, <3>3
    <3> QED
      BY <1>t, <2>1, <2>2, <3>1, <3>2, <3>4, SettledAnswers DEF AnswerInv
  <2>7. CASE ServerReplays(q) /\ seen[q.key] = i
    <3>1. Settle(q, Filed, i) /\ q.key \in DOMAIN seen
      BY <2>7 DEF ServerReplays, Filed
    <3>2. filed[i] > 0
      BY <2>7, <3>1 DEF AnswerInv, SeenIsFiled
    <3> QED
      BY <1>t, <2>1, <2>2, <3>1, <3>2, SettledAnswers DEF AnswerInv
  <2>8. CASE ServerReplays(q) /\ seen[q.key] # i
    <3>1. Settle(q, Json(409, "envelope"), None) /\ q.key \in DOMAIN seen
      BY <2>8 DEF ServerReplays
    <3>2. q.key # FreshKey(i, q.attempt) /\ q.key # NoKey
      BY <2>3, <2>8, <3>1 DEF AnswerInv, SeenIsFiled, TypeInv, TypeOK
    <3>3. pin[i] # "none"
      BY <2>4, <3>2
    <3>4. Json(409, "envelope") \in Refusals
      BY DEF Refusals
    <3> QED
      BY <1>t, <2>1, <2>2, <3>1, <3>3, <3>4, SettledAnswers DEF AnswerInv
  <2> QED
    BY <1>6, <2>5, <2>6, <2>7, <2>8
<1>7. CASE UNCHANGED vars
  BY <1>t, <1>7
  DEF vars, AnswerInv, WireKeys, SeenIsFiled, AnswersSound, AnswerFor, ResultIsOwn,
      KeylessNeverConflicts
<1> QED
  BY <1>1, <1>2, <1>3, <1>4, <1>5, <1>6, <1>7 DEF Next

LEMMA AnswerAlways == Spec => []AnswerInv
  BY AnswerInit, AnswerStep, PTL DEF Spec

\* A result that submit returns is that of an invoice the server has filed, and
\* of the invoice that was submitted, whatever came late or was replaced.
THEOREM OwnResult == Spec => []ResultIsOwn
<1>1. AnswerInv => ResultIsOwn
  BY DEF AnswerInv
<1> QED
  BY <1>1, AnswerAlways, PTL

\* A call without a key is never told that its key is taken or missing.
THEOREM KeylessUndisturbed == Spec => []KeylessNeverConflicts
<1>1. AnswerInv => KeylessNeverConflicts
  BY DEF AnswerInv
<1> QED
  BY <1>1, AnswerAlways, PTL
-----------------------------------------------------------------------------
(***************************************************************************)
(* What FilingService promises.                                            *)
(***************************************************************************)
\* The server remembers an application's key with an invoice submitted under it.
SeenIsOrdered ==
    \A k \in DOMAIN seen, p \in OwnPins : k = OwnKey(p) => pin[seen[k]] = p

Rivalled(i) ==
    \E j \in Invoices : j # i /\ pin[i] \in OwnPins /\ pin[j] = pin[i] /\ filed[j] > 0

\* A call is told that its key is taken when it is, by another invoice.
TakenSound ==
    \A i \in Invoices :
        phase[i] = "answered" /\ reply[i].http.status = 409 => Rivalled(i)

TakenInv == SeenIsOrdered /\ TakenSound

\* Keys of the application's own are told apart, and from the others.
LEMMA OwnKeys ==
    ASSUME NEW p, NEW u
    PROVE  OwnKey(p) # NoKey /\ (OwnKey(p) = OwnKey(u) => p = u)
  BY DEF OwnKey, NoKey

LEMMA KeyOfOrder ==
    ASSUME AnswerInv, NEW q \in wire
    PROVE  /\ \/ q.key = FreshKey(q.invoice, q.attempt) \/ q.key = NoKey
              \/ pin[q.invoice] \in OwnPins /\ q.key = OwnKey(pin[q.invoice])
           /\ q.invoice \in Invoices /\ q.attempt \in 1 .. Attempts
  BY DEF AnswerInv, WireKeys, SubmitKey, TypeInv, TypeOK

LEMMA SettledTaken ==
    ASSUME AnswerInv, TakenInv, NEW q \in wire, NEW r, NEW about, Settle(q, r, about),
           \A i \in Invoices : filed[i] > 0 => filed'[i] > 0,
           r.status = 409 => Rivalled(q.invoice)'
    PROVE  TakenSound'
<1> DEFINE c == q.invoice
<1>1. UNCHANGED pin /\ c \in Invoices
  BY SettledTyped DEF AnswerInv
<1>2. \/ UNCHANGED <<phase, reply>>
      \/ /\ phase' = [phase EXCEPT ![c] = "answered"]
         /\ \/ reply' = [reply EXCEPT ![c] = [http |-> r, about |-> about]]
            \/ reply' = [reply EXCEPT ![c] = [http |-> Html(502), about |-> None]]
  BY DEF Settle, Goto
<1>3. /\ phase \in [Invoices -> {"ready", "sent", "answered", "done"}]
      /\ DOMAIN reply = Invoices
  BY DEF AnswerInv, TypeInv, TypeOK
<1> SUFFICES ASSUME NEW i \in Invoices, phase'[i] = "answered", reply'[i].http.status = 409
             PROVE  Rivalled(i)'
  BY DEF TakenSound
<1>4. CASE phase'[i] = phase[i] /\ reply'[i] = reply[i]
  BY <1>1, <1>4 DEF TakenInv, TakenSound, Rivalled
<1>5. CASE i = c /\ reply'[i] = [http |-> r, about |-> about]
  BY <1>5
<1>6. reply'[i] # [http |-> Html(502), about |-> None]
  BY DEF Html
<1> QED
  BY <1>1, <1>2, <1>3, <1>4, <1>5, <1>6

LEMMA TakenStep == AnswerInv /\ AnswerInv' /\ TakenInv /\ [Next]_vars => TakenInv'
<1> SUFFICES ASSUME AnswerInv, AnswerInv', TakenInv, [Next]_vars PROVE TakenInv'
  OBVIOUS
<1>p. /\ phase \in [Invoices -> {"ready", "sent", "answered", "done"}]
      /\ DOMAIN reply = Invoices
  BY DEF AnswerInv, TypeInv, TypeOK
<1>1. ASSUME NEW i \in Invoices, Submit(i) \/ Return(i) \/ GiveUp(i) \/ Retry(i)
      PROVE  TakenInv'
  <2>1. /\ UNCHANGED <<pin, filed, seen>>
        /\ \/ UNCHANGED reply
           \/ reply' = [reply EXCEPT ![i] = None]
        /\ phase' \in {[phase EXCEPT ![i] = step] : step \in {"ready", "sent", "done"}}
    BY <1>1 DEF Submit, Return, GiveUp, Retry, Goto
  <2>2. \A j \in Invoices : phase'[j] = "answered" =>
            phase[j] = "answered" /\ reply'[j] = reply[j]
    BY <1>p, <2>1
  <2> QED
    BY <2>1, <2>2 DEF TakenInv, SeenIsOrdered, TakenSound, Rivalled
<1>2. ASSUME NEW q \in wire, ServerFiles(q) PROVE TakenInv'
  <2> DEFINE i == q.invoice
  <2>1. /\ filed' = [filed EXCEPT ![i] = filed[i] + 1]
        /\ seen' = [k \in DOMAIN seen \cup {q.key} |-> IF k = q.key THEN i ELSE seen[k]]
        /\ Settle(q, Filed, i)
    BY <1>2 DEF ServerFiles, Filed
  <2>2. UNCHANGED pin
    BY <2>1, SettleKeeps
  <2>3. \A j \in Invoices : filed'[j] = IF j = i THEN filed[j] + 1 ELSE filed[j]
    BY <2>1 DEF AnswerInv, TypeInv, TypeOK
  <2>4. \A j \in Invoices : filed[j] > 0 => filed'[j] > 0
    BY <2>3, CountsNaturals DEF AnswerInv
  <2>5. Filed.status = 202
    BY DEF Filed, Json
  <2>6. TakenSound'
    BY <2>1, <2>4, <2>5, SettledTaken
  <2>7. SeenIsOrdered'
    <3> SUFFICES ASSUME NEW k \in DOMAIN seen', NEW p \in OwnPins, k = OwnKey(p)
                 PROVE  pin'[seen'[k]] = p
      BY DEF SeenIsOrdered
    <3>1. CASE k = q.key
      <4>1. OwnKey(p) # FreshKey(i, q.attempt) /\ OwnKey(p) # NoKey
        BY OwnKeys, FreshKeys
      <4>2. pin[i] \in OwnPins /\ OwnKey(p) = OwnKey(pin[i])
        BY <3>1, <4>1, KeyOfOrder
      <4>3. pin[i] = p
        BY <4>2, OwnKeys
      <4> QED
        BY <2>1, <2>2, <3>1, <4>3
    <3>2. CASE k # q.key
      BY <2>1, <2>2, <3>2 DEF TakenInv, SeenIsOrdered
    <3> QED
      BY <3>1, <3>2
  <2> QED
    BY <2>6, <2>7 DEF TakenInv
<1>3. ASSUME NEW q \in wire, ServerRejects(q) \/ ServerReplays(q) \/ RequestLost(q)
      PROVE  TakenInv'
  <2> DEFINE i == q.invoice
  <2>1. UNCHANGED <<filed, seen, pin>>
    BY <1>3, SettleKeeps DEF ServerRejects, ServerReplays, RequestLost
  <2>2. SeenIsOrdered'
    BY <2>1 DEF TakenInv, SeenIsOrdered
  <2>3. CASE \E r, about : r.status # 409 /\ Settle(q, r, about)
    BY <2>1, <2>2, <2>3, SettledTaken DEF TakenInv
  <2>4. CASE ServerReplays(q) /\ seen[q.key] # i
    <3>1. Settle(q, Json(409, "envelope"), None) /\ q.key \in DOMAIN seen
      BY <2>4 DEF ServerReplays
    <3>2. q.key # FreshKey(i, q.attempt) /\ q.key # NoKey
      BY <2>4, <3>1, KeyOfOrder DEF AnswerInv, SeenIsFiled, TypeInv, TypeOK
    <3>3. pin[i] \in OwnPins /\ q.key = OwnKey(pin[i])
      BY <3>2, KeyOfOrder
    <3>4. pin[seen[q.key]] = pin[i] /\ filed[seen[q.key]] > 0 /\ seen[q.key] \in Invoices
      BY <3>1, <3>3 DEF TakenInv, SeenIsOrdered, AnswerInv, SeenIsFiled, TypeInv, TypeOK
    <3>5. Rivalled(i)'
      BY <2>1, <2>4, <3>3, <3>4 DEF Rivalled
    <3> QED
      BY <2>1, <2>2, <3>1, <3>5, SettledTaken DEF TakenInv
  <2>5. Html(502).status # 409 /\ Json(202, "record").status # 409
        /\ Json(IF q.key = NoKey THEN 400 ELSE 503, "envelope").status # 409
    BY DEF Html, Json
  <2>6. CASE RequestLost(q)
    BY <2>3, <2>5, <2>6 DEF RequestLost
  <2>7. CASE ServerRejects(q)
    BY <2>3, <2>5, <2>7 DEF ServerRejects
  <2>8. CASE ServerReplays(q) /\ seen[q.key] = i
    BY <2>3, <2>5, <2>8 DEF ServerReplays
  <2> QED
    BY <1>3, <2>4, <2>6, <2>7, <2>8
<1>4. CASE UNCHANGED vars
  BY <1>4 DEF vars, TakenInv, SeenIsOrdered, TakenSound, Rivalled
<1> QED
  BY <1>1, <1>2, <1>3, <1>4 DEF Next

\* How a call ends, to its application.
LEMMA VerdictSound ==
    ASSUME AnswerInv, TakenInv, NEW i \in Invoices, phase[i] = "answered"
    PROVE  LET verdict == Verdict(Decode(sdk, write, reply[i].http))
           IN  /\ verdict \in {"result", "taken", "failed"}
               /\ verdict = "result" => filed[i] > 0
               /\ verdict = "taken" => Rivalled(i)
<1> DEFINE o == Decode(sdk, write, reply[i].http)
<1>1. AnswerFor(i) /\ sdk \in Sdks /\ write \in Writes(sdk)
  BY DEF AnswerInv, AnswersSound, TypeInv, TypeOK
<1>2. CASE reply[i].http = Filed
  <2>1. Filed.status = 202
    BY DEF Filed, Json
  <2>2. o.kind \in {"api", "bare"} => o.status = 202
    BY <1>1, <1>2, FiledCall
  <2>3. filed[i] > 0
    BY <1>1, <1>2, CountsNaturals DEF AnswerFor, Refusals, Filed, Html, Json
  <2> QED
    BY <2>2, <2>3 DEF Verdict
<1>3. CASE reply[i].http \in Refusals
  <2>1. ~Succeeded(o) /\ (o.kind \in {"api", "bare"} => o.status = reply[i].http.status)
    BY <1>1, <1>3, RefusedCall
  <2>2. reply[i].http.status = 409 => Rivalled(i)
    BY DEF TakenInv, TakenSound
  <2> QED
    BY <2>1, <2>2 DEF Verdict
<1> QED
  BY <1>1, <1>2, <1>3 DEF AnswerFor

\* The application's view of each call.
LEMMA ToldOf ==
    ASSUME NEW i \in Invoices
    PROVE  /\ phase[i] = "ready" => Told[i] = "unasked"
           /\ phase[i] \in {"sent", "answered"} => Told[i] = "waiting"
           /\ phase[i] = "done" => Told[i] = Verdict(result[i].outcome)
           /\ phase'[i] = "ready" => Told'[i] = "unasked"
           /\ phase'[i] \in {"sent", "answered"} => Told'[i] = "waiting"
           /\ phase'[i] = "done" => Told'[i] = Verdict(result'[i].outcome)
  BY DEF Told

\* A call that goes on and others that do not.
LEMMA ToldChanges ==
    ASSUME AnswerInv, NEW i \in Invoices, NEW step \in {"ready", "sent", "answered", "done"},
           phase' = [phase EXCEPT ![i] = step],
           \A j \in Invoices : j # i => result'[j] = result[j]
    PROVE  Told' = [Told EXCEPT ![i] = Told'[i]]
<1>1. \A j \in Invoices : j # i => phase'[j] = phase[j] /\ result'[j] = result[j]
  BY DEF AnswerInv, TypeInv, TypeOK
<1>2. \A j \in Invoices : j # i => Told'[j] = Told[j]
  BY <1>1 DEF Told
<1>3. Told = [j \in Invoices |-> Told[j]] /\ Told' = [j \in Invoices |-> Told'[j]]
  BY DEF Told
<1> QED
  BY <1>2, <1>3

LEMMA ToldKept ==
    ASSUME AnswerInv, NEW q \in wire, NEW r, NEW about, Settle(q, r, about)
    PROVE  UNCHANGED <<Order, attempt, Told>>
<1>1. UNCHANGED <<pin, attempt, result>> /\ q.invoice \in Invoices
  BY SettledTyped DEF AnswerInv
<1>2. CASE UNCHANGED phase
  BY <1>1, <1>2 DEF Order, Told
<1>3. CASE Awaited(q) /\ Goto(q.invoice, "answered")
  <2>1. phase' = [phase EXCEPT ![q.invoice] = "answered"] /\ phase[q.invoice] = "sent"
    BY <1>3 DEF Awaited, Goto
  <2>2. phase'[q.invoice] = "answered"
    BY <1>1, <2>1 DEF AnswerInv, TypeInv, TypeOK
  <2>3. Told'[q.invoice] = Told[q.invoice]
    BY <1>1, <2>1, <2>2, ToldOf
  <2>4. Told' = [Told EXCEPT ![q.invoice] = Told'[q.invoice]]
    BY <1>1, <2>1, ToldChanges
  <2>5. Told' = Told
    BY <2>3, <2>4 DEF Told
  <2> QED
    BY <1>1, <2>5 DEF Order
<1> QED
  BY <1>2, <1>3 DEF Settle

\* A request on the wire is one of a call that has not been filed.
LEMMA PendingCounts ==
    ASSUME TypeInv, NEW q \in wire
    PROVE  q.invoice \in Invoices /\ filed[q.invoice] < attempt[q.invoice]
<1> DEFINE i == q.invoice
<1>1. i \in Invoices
  BY CountsNaturals
<1>2. IsFiniteSet(wire)
  BY DEF TypeInv, Counted
<1>3. IsFiniteSet(Pending(i)) /\ q \in Pending(i) /\ Cardinality(Pending(i)) \in Nat
  BY <1>2, PendingFinite DEF Pending
<1>4. Cardinality(Pending(i)) # 0
  BY <1>3, FS_EmptySet
<1> QED
  BY <1>1, <1>3, <1>4, CountsNaturals

LEMMA FilingStep ==
    IInv /\ AnswerInv /\ TakenInv /\ [Next]_vars => [Filing!Next]_(Filing!vars)
<1> SUFFICES ASSUME IInv, AnswerInv, TakenInv, [Next]_vars
             PROVE  Filing!Next \/ UNCHANGED <<Order, attempt, filed, Told>>
  BY DEF Filing!vars
<1>p. /\ phase \in [Invoices -> {"ready", "sent", "answered", "done"}]
      /\ DOMAIN result = Invoices
  BY DEF AnswerInv, TypeInv, TypeOK
<1>1. ASSUME NEW i \in Invoices, Submit(i) PROVE Filing!Next
  <2>1. /\ phase[i] = "ready" /\ phase' = [phase EXCEPT ![i] = "sent"]
        /\ attempt' = [attempt EXCEPT ![i] = attempt[i] + 1]
        /\ UNCHANGED <<pin, result, filed>>
    BY <1>1 DEF Submit, Goto
  <2>2. phase'[i] = "sent"
    BY <1>p, <2>1
  <2>3. Told[i] = "unasked" /\ Told' = [Told EXCEPT ![i] = "waiting"]
    BY <2>1, <2>2, ToldOf, ToldChanges
  <2>4. UNCHANGED Order
    BY <2>1 DEF Order
  <2>5. Filing!Ask(i)
    BY <2>1, <2>3, <2>4 DEF Filing!Ask
  <2> QED
    BY <2>5 DEF Filing!Next
<1>2. ASSUME NEW i \in Invoices, Return(i) PROVE Filing!Next
  <2> DEFINE verdict == Verdict(Decode(sdk, write, reply[i].http))
  <2>1. /\ phase[i] = "answered" /\ phase' = [phase EXCEPT ![i] = "done"]
        /\ result' = [result EXCEPT ![i] = [outcome |-> Decode(sdk, write, reply[i].http),
                                            about |-> reply[i].about]]
        /\ UNCHANGED <<pin, attempt, filed>>
    BY <1>2 DEF Return, Goto
  <2>2. phase'[i] = "done" /\ result'[i].outcome = Decode(sdk, write, reply[i].http)
    BY <1>p, <2>1
  <2>3. Told[i] = "waiting" /\ Told'[i] = verdict
    BY <2>1, <2>2, ToldOf
  <2>4. Told' = [Told EXCEPT ![i] = verdict]
    BY <1>p, <2>1, <2>3, ToldChanges
  <2>5. /\ verdict \in {"result", "taken", "failed"}
        /\ verdict = "result" => filed[i] > 0
        /\ verdict = "taken" => Rivalled(i)
    BY <2>1, VerdictSound
  <2>6. Rivalled(i) => \E j \in Filing!SameOrder(i) : j # i /\ filed[j] > 0
    BY DEF Rivalled, Filing!SameOrder, Order, OwnPins
  <2>7. UNCHANGED Order
    BY <2>1 DEF Order
  <2> HIDE DEF verdict
  <2>8. Filing!Tell(i, verdict)
    BY <2>1, <2>3, <2>4, <2>5, <2>6, <2>7 DEF Filing!Tell
  <2> QED
    BY <2>5, <2>8 DEF Filing!Next, Filing!Verdicts
<1>3. ASSUME NEW i \in Invoices, GiveUp(i) PROVE Filing!Next
  <2>1. /\ phase[i] = "sent" /\ phase' = [phase EXCEPT ![i] = "done"]
        /\ result' = [result EXCEPT ![i] = [outcome |-> Foreign, about |-> None]]
        /\ UNCHANGED <<pin, attempt, filed>>
    BY <1>3 DEF GiveUp, Goto
  <2>2. phase'[i] = "done" /\ result'[i].outcome = Foreign
    BY <1>p, <2>1
  <2>3. Verdict(Foreign) = "failed"
    BY DEF Verdict, Succeeded, Foreign
  <2>4. Told[i] = "waiting" /\ Told'[i] = "failed"
    BY <2>1, <2>2, <2>3, ToldOf
  <2>5. Told' = [Told EXCEPT ![i] = "failed"]
    BY <1>p, <2>1, <2>4, ToldChanges
  <2>6. UNCHANGED Order
    BY <2>1 DEF Order
  <2>7. Filing!Tell(i, "failed")
    BY <2>1, <2>4, <2>5, <2>6 DEF Filing!Tell
  <2> QED
    BY <2>7 DEF Filing!Next, Filing!Verdicts
<1>4. ASSUME NEW i \in Invoices, Retry(i) PROVE Filing!Next
  <2>1. /\ phase[i] = "done" /\ phase' = [phase EXCEPT ![i] = "ready"]
        /\ ~Succeeded(result[i].outcome)
        /\ UNCHANGED <<pin, attempt, result, filed>>
    BY <1>4 DEF Retry, Goto
  <2>2. phase'[i] = "ready"
    BY <1>p, <2>1
  <2>3. Verdict(result[i].outcome) \in {"taken", "failed"}
    BY <2>1 DEF Verdict
  <2>4. Told[i] \in {"taken", "failed"} /\ Told'[i] = "unasked"
    BY <2>1, <2>2, <2>3, ToldOf
  <2>5. Told' = [Told EXCEPT ![i] = "unasked"]
    BY <2>1, <2>4, ToldChanges
  <2>6. UNCHANGED Order
    BY <2>1 DEF Order
  <2>7. Filing!Again(i)
    BY <2>1, <2>4, <2>5, <2>6 DEF Filing!Again
  <2> QED
    BY <2>7 DEF Filing!Next
<1>5. ASSUME NEW q \in wire, ServerFiles(q) PROVE Filing!Next
  <2> DEFINE i == q.invoice
  <2>1. /\ q.key \notin DOMAIN seen
        /\ filed' = [filed EXCEPT ![i] = filed[i] + 1]
        /\ Settle(q, Json(202, "record"), i)
    BY <1>5 DEF ServerFiles
  <2>2. i \in Invoices /\ filed[i] < attempt[i]
    BY PendingCounts DEF AnswerInv
  <2>3. UNCHANGED <<Order, attempt, Told>>
    BY <2>1, ToldKept
  <2>4. ASSUME NEW j \in Filing!SameOrder(i) PROVE filed[j] = 0
    <3>1. j \in Invoices /\ pin[i] \in OwnPins /\ pin[j] = pin[i]
      BY <2>2 DEF Filing!SameOrder, Order, OwnPins
    <3>2. q.key = OwnKey(pin[j])
      BY <3>1 DEF IInv, WireKeyed
    <3> QED
      BY <2>1, <3>1, <3>2 DEF IInv, FiledIsSeen
  <2>5. Filing!File(i)
    BY <2>1, <2>2, <2>3, <2>4 DEF Filing!File
  <2> QED
    BY <2>2, <2>5 DEF Filing!Next
<1>6. ASSUME NEW q \in wire, ServerRejects(q) \/ ServerReplays(q) \/ RequestLost(q)
      PROVE  UNCHANGED <<Order, attempt, filed, Told>>
  <2>1. UNCHANGED filed /\ \E r, about : Settle(q, r, about)
    BY <1>6 DEF ServerRejects, ServerReplays, RequestLost
  <2> QED
    BY <2>1, ToldKept
<1>7. CASE UNCHANGED vars
  BY <1>7 DEF vars, Order, Told
<1> QED
  BY <1>1, <1>2, <1>3, <1>4, <1>5, <1>6, <1>7 DEF Next

\* What FilingService promises an application, submitting with any of the six
\* SDKs keeps, for any number of invoices and attempts: one filing for each key
\* of its own, results of what was filed, and no other conflicts than real ones.
THEOREM SubmissionKeepsPromises == Spec => ImplementsFiling
<1>1. Init => Filing!Init
  BY DEF Init, Filing!Init, Order, Told
<1>2. Init => TakenInv
  BY DEF Init, TakenInv, SeenIsOrdered, TakenSound
<1> QED
  BY <1>1, <1>2, InitHolds, StepHolds, AnswerInit, AnswerStep, TakenStep, FilingStep, PTL
  DEF Spec, ImplementsFiling, Filing!Spec
=============================================================================
