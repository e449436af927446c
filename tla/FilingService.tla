--------------------------- MODULE FilingService ---------------------------
(***************************************************************************)
(* What submitting invoices promises an application, whatever happens to   *)
(* its calls on their way:                                                 *)
(*                                                                         *)
(*   - invoices that are submitted under one and the same order, which is  *)
(*     a key of the application's own, are filed once between them,        *)
(*     however often each is submitted again; one without an order is      *)
(*     filed at most once for every call;                                  *)
(*   - a call that returns a result was made for an invoice that is filed, *)
(*     and is the last call for it;                                        *)
(*   - a call is told that its order is taken only when another invoice is *)
(*     filed under it.                                                     *)
(*                                                                         *)
(* An invoice may be filed long after its call has failed.                 *)
(***************************************************************************)
EXTENDS Naturals

CONSTANTS Invoices,
          Orders,
          NoOrder

VARIABLES order,   \* the order of each invoice, or NoOrder
          asked,   \* calls made for it so far
          filed,   \* how often it was filed
          told     \* what its call has been told

vars == <<order, asked, filed, told>>

Verdicts == {"result", "taken", "failed"}

Init ==
    /\ order \in [Invoices -> Orders \cup {NoOrder}]
    /\ asked = [i \in Invoices |-> 0]
    /\ filed = [i \in Invoices |-> 0]
    /\ told = [i \in Invoices |-> "unasked"]

SameOrder(i) == {j \in Invoices : order[i] # NoOrder /\ order[j] = order[i]}

Ask(i) ==
    /\ told[i] = "unasked"
    /\ asked' = [asked EXCEPT ![i] = @ + 1]
    /\ told' = [told EXCEPT ![i] = "waiting"]
    /\ UNCHANGED <<order, filed>>

File(i) ==
    /\ filed[i] < asked[i]
    /\ \A j \in SameOrder(i) : filed[j] = 0
    /\ filed' = [filed EXCEPT ![i] = @ + 1]
    /\ UNCHANGED <<order, asked, told>>

Tell(i, verdict) ==
    /\ told[i] = "waiting"
    /\ verdict = "result" => filed[i] > 0
    /\ verdict = "taken" => \E j \in SameOrder(i) : j # i /\ filed[j] > 0
    /\ told' = [told EXCEPT ![i] = verdict]
    /\ UNCHANGED <<order, asked, filed>>

\* The application gets ready to ask again.
Again(i) ==
    /\ told[i] \in {"taken", "failed"}
    /\ told' = [told EXCEPT ![i] = "unasked"]
    /\ UNCHANGED <<order, asked, filed>>

Next ==
    \E i \in Invoices :
        \/ Ask(i) \/ File(i) \/ Again(i)
        \/ \E verdict \in Verdicts : Tell(i, verdict)

Spec == Init /\ [][Next]_vars
=============================================================================
