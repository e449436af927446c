------------------------ MODULE CoalescedTokenSource ------------------------
(***************************************************************************)
(* The token source of the Node SDK.  There are no threads and no lock: a  *)
(* call that finds the cached token stale shares the promise of the        *)
(* exchange in flight (tokenLock.p), or starts one.  An exchange ends in   *)
(* three steps of the event loop: fetchToken settles and fills the cache,  *)
(* the finally callback clears the promise, and each awaiting call resumes *)
(* in a microtask of its own.  Any other callback may run in between.      *)
(*                                                                         *)
(* now is the server's clock and local the reading of Date.now(), ahead of *)
(* now by 0 to MaxStep.  The SDK sets no time-out: an exchange may last    *)
(* for any time.  A client with a static token never comes here.           *)
(***************************************************************************)
EXTENDS TokenReply

CONSTANTS Callers,     \* calls that share one client
          None,
          Lifetimes,   \* lifetimes the server gives to tokens
          Replies,     \* answers of the token endpoint
          Leeway,      \* refresh this long before expiry (60 s)
          Patience,    \* an exchange this short is covered by the leeway
          MaxStep,     \* how far the wall clock may move
          Horizon      \* end of time

\* A token also remembers how long the answer took to reach the client.
Held == [until : Nat, life : Nat, lag : Nat]
Entries == [token : Held, expires : Int]
Flights == [since : Nat, stamp : Nat, status : {"open", "settled"},
            token : Held \cup {None}]

ASSUME NodeAssumption ==
    /\ None \notin Callers \cup Held \cup Entries \cup Flights
    /\ Lifetimes \subseteq Nat \ {0}
    /\ Replies \subseteq Answers
    /\ Leeway \in Nat /\ Patience \in Nat /\ MaxStep \in Nat /\ Horizon \in Nat
    /\ Patience + MaxStep <= Leeway

VARIABLES now,      \* the server's clock
          local,    \* Date.now()
          cache,    \* None, or a token and its expiresAt
          flight,   \* None, or the exchange whose promise is in tokenLock.p
          pc,       \* where each call is
          token     \* the token it is answered with, or None

vars == <<now, local, cache, flight, pc, token>>

Steps == {"idle", "awaiting", "resuming", "served", "failed"}

TypeOK ==
    /\ now \in 0 .. Horizon /\ local \in Nat
    /\ cache \in Entries \cup {None}
    /\ flight \in Flights \cup {None}
    /\ pc \in [Callers -> Steps]
    /\ token \in [Callers -> Held \cup {None}]

\* Slip: the comparison not strict.
FreshInclusive == cache # None /\ cache.expires - local >= Leeway

Fresh == cache # None /\ cache.expires - local > Leeway

Open == flight # None /\ flight.status = "open"
Settled == flight # None /\ flight.status = "settled"

Init ==
    /\ now = 0
    /\ local \in 0 .. MaxStep
    /\ cache = None /\ flight = None
    /\ pc = [c \in Callers |-> "idle"]
    /\ token = [c \in Callers |-> None]
-----------------------------------------------------------------------------
ServeCached(c) ==
    /\ pc[c] = "idle"
    /\ Fresh
    /\ pc' = [pc EXCEPT ![c] = "served"]
    /\ token' = [token EXCEPT ![c] = cache.token]
    /\ UNCHANGED <<now, local, cache, flight>>

\* The promise in tokenLock.p is returned as it is, settled or not.
JoinExchange(c) ==
    /\ pc[c] = "idle"
    /\ ~Fresh
    /\ flight # None
    /\ pc' = [pc EXCEPT ![c] = "awaiting"]
    /\ UNCHANGED <<now, local, cache, flight, token>>

\* Slip: an exchange whether the cached token is good or not.
StartExchangeAlways(c) ==
    /\ pc[c] = "idle"
    /\ flight = None
    /\ flight' = [since |-> now, stamp |-> local, status |-> "open", token |-> None]
    /\ pc' = [pc EXCEPT ![c] = "awaiting"]
    /\ UNCHANGED <<now, local, cache, token>>

StartExchange(c) ==
    /\ pc[c] = "idle"
    /\ ~Fresh
    /\ flight = None
    /\ flight' = [since |-> now, stamp |-> local, status |-> "open", token |-> None]
    /\ pc' = [pc EXCEPT ![c] = "awaiting"]
    /\ UNCHANGED <<now, local, cache, token>>

\* fetchToken resolves: the cache is filled, its clock read at the end.
SettleAccepted ==
    /\ Open
    /\ \E a \in Replies, life \in Lifetimes, issued \in flight.since .. now :
         LET verdict == NodeVerdict(a)
             granted == [until |-> issued + life, life |-> life, lag |-> now - issued]
         IN /\ verdict.ok
            /\ life >= Promised(a)
            /\ cache' = [token |-> granted, expires |-> local + verdict.ttl]
            /\ flight' = [flight EXCEPT !.status = "settled", !.token = granted]
    /\ UNCHANGED <<now, local, pc, token>>

\* Slips: a rejection that leaves the promise as nothing will clear it, and
\* one that clears it without a word to those who share it.
SettleRejectedStuck ==
    /\ Open
    /\ flight' = [flight EXCEPT !.status = "rejected"]
    /\ UNCHANGED <<now, local, cache, pc, token>>

SettleRejectedClearing ==
    /\ Open
    /\ flight' = None
    /\ UNCHANGED <<now, local, cache, pc, token>>

\* fetchToken rejects: a network error, an error status, an answer refused.
SettleRejected ==
    /\ Open
    /\ flight' = [flight EXCEPT !.status = "settled"]
    /\ UNCHANGED <<now, local, cache, pc, token>>

\* Slip: then in place of finally, so a rejected promise stays in tokenLock.p.
ReleaseOnSuccess ==
    /\ Settled
    /\ flight.token # None
    /\ flight' = None
    /\ pc' = [c \in Callers |-> IF pc[c] = "awaiting" THEN "resuming" ELSE pc[c]]
    /\ token' = [c \in Callers |->
                   IF pc[c] = "awaiting" THEN flight.token ELSE token[c]]
    /\ UNCHANGED <<now, local, cache>>

\* The finally callback clears tokenLock.p and settles the promise that the
\* awaiting calls share.
Release ==
    /\ Settled
    /\ flight' = None
    /\ pc' = [c \in Callers |-> IF pc[c] = "awaiting" THEN "resuming" ELSE pc[c]]
    /\ token' = [c \in Callers |->
                   IF pc[c] = "awaiting" THEN flight.token ELSE token[c]]
    /\ UNCHANGED <<now, local, cache>>

\* Slip: a resumed call answers from the cache, whatever its exchange brought.
ResumeFromCache(c) ==
    /\ pc[c] = "resuming"
    /\ pc' = [pc EXCEPT ![c] = IF cache = None THEN "failed" ELSE "served"]
    /\ token' = [token EXCEPT ![c] = IF cache = None THEN None ELSE cache.token]
    /\ UNCHANGED <<now, local, cache, flight>>

Resume(c) ==
    /\ pc[c] = "resuming"
    /\ pc' = [pc EXCEPT ![c] = IF token[c] = None THEN "failed" ELSE "served"]
    /\ UNCHANGED <<now, local, cache, flight, token>>

Finish(c) ==
    /\ pc[c] \in {"served", "failed"}
    /\ pc' = [pc EXCEPT ![c] = "idle"]
    /\ token' = [token EXCEPT ![c] = None]
    /\ UNCHANGED <<now, local, cache, flight>>

\* Microtasks run before the clock advances.
Tick ==
    /\ now < Horizon
    /\ ~Settled
    /\ \A c \in Callers : pc[c] # "resuming"
    /\ now' = now + 1
    /\ local' = local + 1
    /\ UNCHANGED <<cache, flight, pc, token>>

AdjustClock ==
    /\ local' \in now .. now + MaxStep
    /\ UNCHANGED <<now, cache, flight, pc, token>>

Next ==
    \/ \E c \in Callers : \/ ServeCached(c) \/ JoinExchange(c) \/ StartExchange(c)
                          \/ Resume(c) \/ Finish(c)
    \/ SettleAccepted \/ SettleRejected \/ Release
    \/ Tick \/ AdjustClock

Spec == Init /\ [][Next]_vars

\* The event loop runs every callback it owes, and every request ends.
Fairness ==
    /\ WF_vars(SettleAccepted \/ SettleRejected)
    /\ WF_vars(Release)
    /\ \A c \in Callers : WF_vars(Resume(c))

FairSpec == Spec /\ Fairness
-----------------------------------------------------------------------------
\* An awaiting call hangs on a promise that is still in tokenLock.p: no call
\* is left behind by a promise that was cleared or replaced under it.
NobodyAbandoned == (\E c \in Callers : pc[c] = "awaiting") => flight # None

\* While an exchange is open, the cached token is one that the call that
\* started it saw expired or about to ("Coalesce concurrent refreshes onto a
\* single in-flight request").
ExchangeJustified ==
    Open => cache = None \/ cache.expires - flight.stamp <= Leeway

Covered(t) == t.life > Leeway /\ t.lag <= Patience

\* token() "returns a valid bearer token": whenever a call is answered, from
\* the cache or by an exchange it shared, the server honours its token,
\* provided the exchange that brought it was short enough for the leeway.
ServedValid ==
    [][\A c \in Callers :
         pc[c] # "served" /\ pc'[c] = "served" /\ Covered(token'[c])
            => now < token'[c].until]_vars

\* "Returns a valid bearer token, refreshing 60s before expiry": the same of
\* every call answered from the cache, without the proviso.  Nothing bounds an
\* exchange, and a token's life is counted from its end.
CachedAlwaysValid ==
    [][\A c \in Callers :
         pc[c] = "idle" /\ pc'[c] = "served" => now < token'[c].until]_vars

\* A call that awaits an exchange is answered.
AwaitEnds == \A c \in Callers : pc[c] = "awaiting" ~> pc[c] \in {"served", "failed"}

\* What the token source promises, see TokenService.  The exchange is over
\* when its promise has been cleared.
Service == INSTANCE TokenService WITH
    Cancellable <- FALSE,
    phase <- [c \in Callers |->
                IF pc[c] \in {"awaiting", "resuming"} THEN "pending" ELSE pc[c]],
    cred <- IF cache = None THEN "none" ELSE IF Fresh THEN "usable" ELSE "stale",
    joined <- {c \in Callers : pc[c] = "awaiting"},
    verdict <- IF ~Settled THEN "nothing"
               ELSE IF flight.token = None THEN "failed" ELSE "served",
    owed <- [c \in Callers |->
               IF pc[c] # "resuming" THEN "nothing"
               ELSE IF token[c] = None THEN "failed" ELSE "served"]

ImplementsService == Service!Spec
=============================================================================
