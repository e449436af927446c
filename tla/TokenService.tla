---------------------------- MODULE TokenService ----------------------------
(***************************************************************************)
(* What a client's token source promises, whatever it is built from (a     *)
(* mutex, a shared promise, a semaphore):                                  *)
(*                                                                         *)
(*   - at most one credential exchange is in flight, and none is started   *)
(*     while the cached credential may still be used;                      *)
(*   - a call is answered with the cached credential while that may be     *)
(*     used, or with the outcome of an exchange it took part in, and it    *)
(*     fails only because such an exchange failed (or, where calls can be  *)
(*     cut short, because it was);                                         *)
(*   - a failed exchange leaves the cached credential alone, so the next   *)
(*     call starts afresh.                                                 *)
(***************************************************************************)
CONSTANTS Callers,
          Cancellable   \* whether a call may be cut short, cancelled or disposed of

VARIABLES phase,        \* where each call is
          cred,         \* the cached credential: "none", "stale", "usable"
          joined,       \* the calls taking part in the exchange in flight
          verdict,      \* its outcome, once it has one and until it is over
          owed          \* outcomes that calls are due and have not been told

vars == <<phase, cred, joined, verdict, owed>>

Phases == {"idle", "pending", "served", "failed"}
Outcomes == {"served", "failed"}

TypeOK ==
    /\ phase \in [Callers -> Phases]
    /\ cred \in {"none", "stale", "usable"}
    /\ joined \subseteq Callers
    /\ verdict \in Outcomes \cup {"nothing"}
    /\ owed \in [Callers -> Outcomes \cup {"nothing"}]

Init ==
    /\ phase = [c \in Callers |-> "idle"]
    /\ cred = "none"
    /\ joined = {} /\ verdict = "nothing"
    /\ owed = [c \in Callers |-> "nothing"]

\* A call that is under way and neither joined an exchange nor is owed one's
\* outcome; a call may start and go on in one step.
Free(c) == phase[c] \in {"idle", "pending"} /\ c \notin joined /\ owed[c] = "nothing"

Call(c) ==
    /\ phase[c] = "idle"
    /\ phase' = [phase EXCEPT ![c] = "pending"]
    /\ UNCHANGED <<cred, joined, verdict, owed>>

\* A call is told its outcome, or is due it.
Answer(c, outcome) ==
    \/ /\ phase' = [phase EXCEPT ![c] = outcome]
       /\ owed' = [owed EXCEPT ![c] = "nothing"]
    \/ /\ phase' = [phase EXCEPT ![c] = "pending"]
       /\ owed' = [owed EXCEPT ![c] = outcome]

ServeCached(c) ==
    /\ Free(c)
    /\ cred = "usable"
    /\ Answer(c, "served")
    /\ UNCHANGED <<cred, joined, verdict>>

Begin(c) ==
    /\ Free(c)
    /\ joined = {}
    /\ cred # "usable"
    /\ phase' = [phase EXCEPT ![c] = "pending"]
    /\ joined' = {c}
    /\ UNCHANGED <<cred, verdict, owed>>

Join(c) ==
    /\ Free(c)
    /\ joined # {}
    /\ phase' = [phase EXCEPT ![c] = "pending"]
    /\ joined' = joined \cup {c}
    /\ UNCHANGED <<cred, verdict, owed>>

\* Success renews the credential, failure leaves it alone.
Store(outcome) ==
    IF outcome = "served" THEN cred' \in {"stale", "usable"} ELSE UNCHANGED cred

Settle(outcome) ==
    /\ joined # {}
    /\ verdict = "nothing"
    /\ verdict' = outcome
    /\ Store(outcome)
    /\ UNCHANGED <<phase, joined, owed>>

\* The exchange is over, perhaps in the step that settles it: some of its
\* calls are answered at once, the others are owed the same outcome.
End(outcome) ==
    /\ joined # {}
    /\ \/ verdict = "nothing" /\ Store(outcome)
       \/ verdict = outcome /\ UNCHANGED cred
    /\ verdict' = "nothing"
    /\ joined' = {}
    /\ \E now \in SUBSET joined :
         /\ phase' = [c \in Callers |-> IF c \in now THEN outcome ELSE phase[c]]
         /\ owed' = [c \in Callers |-> IF c \in joined \ now THEN outcome
                                       ELSE owed[c]]

Deliver(c) ==
    /\ owed[c] # "nothing"
    /\ phase' = [phase EXCEPT ![c] = owed[c]]
    /\ owed' = [owed EXCEPT ![c] = "nothing"]
    /\ UNCHANGED <<cred, joined, verdict>>

GiveUp(c) ==
    /\ Cancellable
    /\ phase[c] \in {"idle", "pending"}
    /\ c \notin joined
    /\ Answer(c, "failed")
    /\ UNCHANGED <<cred, joined, verdict>>

Finish(c) ==
    /\ phase[c] \in Outcomes
    /\ phase' = [phase EXCEPT ![c] = "idle"]
    /\ UNCHANGED <<cred, joined, verdict, owed>>

\* Time passes, or the local clock is set: a credential ages, or looks young
\* again.
Age ==
    /\ cred # "none"
    /\ cred' \in {"stale", "usable"}
    /\ UNCHANGED <<phase, joined, verdict, owed>>

Next ==
    \/ \E c \in Callers : \/ Call(c) \/ ServeCached(c) \/ Begin(c) \/ Join(c)
                          \/ Deliver(c) \/ GiveUp(c) \/ Finish(c)
    \/ \E outcome \in Outcomes : Settle(outcome) \/ End(outcome)
    \/ Age

Spec == Init /\ [][Next]_vars
=============================================================================
