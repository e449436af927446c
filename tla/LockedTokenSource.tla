------------------------- MODULE LockedTokenSource -------------------------
(***************************************************************************)
(* The token source of the Go, Python and Java SDKs, which hold a mutex    *)
(* through the check of the cache and the exchange, and of the PHP SDK,    *)
(* where the single thread of a process does what the mutex does.          *)
(*                                                                         *)
(* now is the API server's clock.  local is the reading of the client's    *)
(* clock, which may be set, slewed or truncated: it runs ahead of now by   *)
(* between 0 and MaxStep[sdk].  An exchange and an API request are each    *)
(* over within Timeout.                                                    *)
(***************************************************************************)
EXTENDS TokenReply

CONSTANTS Callers,     \* threads that share one client
          None,
          Dialects,    \* the SDKs considered
          Lifetimes,   \* lifetimes the server gives to tokens
          Replies,     \* answers of the token endpoint
          Leeway,      \* refresh this long before expiry (60 s)
          Timeout,     \* bound on a round trip (30 s)
          MaxStep,     \* how far the client's clock may move, per SDK
          Horizon      \* end of time

Sdks == {"go", "python", "java", "php"}

\* Java and PHP read the clock before the exchange, Go and Python after it.
StampsBefore(s) == s \in {"java", "php"}

\* How far the client may overestimate a token's end of life.
Lag(s) == MaxStep[s] + (IF StampsBefore(s) THEN 0 ELSE Timeout)

Entries == [token : Tokens, expires : Int]

ASSUME CallersAssumption ==
    None \notin Callers /\ None \notin Tokens /\ None \notin Entries
ASSUME DialectsAssumption == Dialects \subseteq Sdks
ASSUME RepliesAssumption ==
    /\ Lifetimes \subseteq Nat \ {0}
    /\ Replies \subseteq Answers
ASSUME TimingAssumption ==
    /\ Leeway \in Nat /\ Timeout \in Nat /\ Horizon \in Nat
    /\ MaxStep \in [Sdks -> Nat]
    /\ 2 * Timeout <= Leeway
    /\ \A s \in Sdks : Lag(s) + Timeout <= Leeway

VARIABLES sdk,      \* which SDK's dialect the client speaks
          static,   \* whether it was configured with a static token
          now,      \* the server's clock
          local,    \* the client's clock
          lock,     \* the caller that holds the mutex, or None
          cache,    \* None, or a token and when the client lets go of it
          pc,       \* where each caller is
          since,    \* when its exchange, or its API request, began
          stamp,    \* its reading of the local clock before the exchange
          token     \* the token it was given

clocks == <<now, local>>
calls == <<pc, since, stamp, token>>
vars == <<sdk, static, clocks, lock, cache, calls>>

Steps == {"idle", "waiting", "checking", "exchanging", "holding", "failed"}

TypeOK ==
    /\ sdk \in Dialects /\ static \in BOOLEAN
    /\ now \in 0 .. Horizon
    /\ local \in Nat
    /\ lock \in Callers \cup {None}
    /\ cache \in Entries \cup {None}
    /\ pc \in [Callers -> Steps]
    /\ since \in [Callers -> Nat]
    /\ stamp \in [Callers -> Nat]
    /\ token \in [Callers -> Tokens \cup {None}]

Verdict(s, a) ==
    CASE s = "go"     -> GoVerdict(a)
      [] s = "python" -> PythonVerdict(a)
      [] s = "java"   -> JavaVerdict(a)
      [] s = "php"    -> PhpVerdict(a)

\* Whether the cached token may still be used, as each SDK writes it.
GoFreshInclusive == cache.expires - local >= Leeway   \* slip: not strict

GoFresh == cache.expires - local > Leeway
PythonFresh == cache.expires - local > Leeway
JavaFresh == cache.expires - local > Leeway
PhpFresh == cache.expires - Leeway > local

Fresh ==
    /\ cache # None
    /\ \/ sdk = "go" /\ GoFresh
       \/ sdk = "python" /\ PythonFresh
       \/ sdk = "java" /\ JavaFresh
       \/ sdk = "php" /\ PhpFresh

Init ==
    /\ sdk \in Dialects /\ static \in BOOLEAN
    /\ now = 0
    /\ local \in 0 .. MaxStep[sdk]
    /\ lock = None
    /\ cache = None
    /\ pc = [c \in Callers |-> "idle"]
    /\ since = [c \in Callers |-> 0]
    /\ stamp = [c \in Callers |-> 0]
    /\ token = [c \in Callers |-> None]
-----------------------------------------------------------------------------
\* A configured static token is handed out without lock or exchange.
UseStatic(c) ==
    /\ pc[c] = "idle" /\ static
    /\ pc' = [pc EXCEPT ![c] = "holding"]
    /\ since' = [since EXCEPT ![c] = now]
    /\ UNCHANGED <<sdk, static, clocks, lock, cache, stamp, token>>

Enter(c) ==
    /\ pc[c] = "idle" /\ ~static
    /\ pc' = [pc EXCEPT ![c] = "waiting"]
    /\ UNCHANGED <<sdk, static, clocks, lock, cache, since, stamp, token>>

Acquire(c) ==
    /\ pc[c] = "waiting"
    /\ lock = None
    /\ lock' = c
    /\ pc' = [pc EXCEPT ![c] = "checking"]
    /\ UNCHANGED <<sdk, static, clocks, cache, since, stamp, token>>

\* The cache is read again under the lock: a refresh that this caller waited
\* for serves it as well.
ServeCached(c) ==
    /\ pc[c] = "checking"
    /\ Fresh
    /\ pc' = [pc EXCEPT ![c] = "holding"]
    /\ token' = [token EXCEPT ![c] = cache.token]
    /\ since' = [since EXCEPT ![c] = now]
    /\ lock' = None
    /\ UNCHANGED <<sdk, static, clocks, cache, stamp>>

\* Slip: the cache is not looked at again once the lock is held.
StartExchangeUnchecked(c) ==
    /\ pc[c] = "checking"
    /\ pc' = [pc EXCEPT ![c] = "exchanging"]
    /\ since' = [since EXCEPT ![c] = now]
    /\ stamp' = [stamp EXCEPT ![c] = local]
    /\ UNCHANGED <<sdk, static, clocks, lock, cache, token>>

StartExchange(c) ==
    /\ pc[c] = "checking"
    /\ ~Fresh
    /\ pc' = [pc EXCEPT ![c] = "exchanging"]
    /\ since' = [since EXCEPT ![c] = now]
    /\ stamp' = [stamp EXCEPT ![c] = local]
    /\ UNCHANGED <<sdk, static, clocks, lock, cache, token>>

Expiry(c, ttl) == (IF StampsBefore(sdk) THEN stamp[c] ELSE local) + ttl

\* The server issued the token at some moment of the exchange, for at least
\* as long as its answer promises.
AdoptToken(c) ==
    /\ pc[c] = "exchanging"
    /\ \E a \in Replies, life \in Lifetimes, issued \in since[c] .. now :
         LET verdict == Verdict(sdk, a)
             granted == IssuedToken(a, issued, life)
         IN /\ verdict.ok
            /\ life >= Promised(a)
            /\ cache' = [token |-> granted, expires |-> Expiry(c, verdict.ttl)]
            /\ token' = [token EXCEPT ![c] = granted]
    /\ pc' = [pc EXCEPT ![c] = "holding"]
    /\ since' = [since EXCEPT ![c] = now]
    /\ lock' = None
    /\ UNCHANGED <<sdk, static, clocks, stamp>>

\* Slips on the error path: the lock kept, the exchange repeated under the
\* lock, the cached token thrown away.
ExchangeFailsLocked(c) ==
    /\ pc[c] = "exchanging"
    /\ pc' = [pc EXCEPT ![c] = "failed"]
    /\ UNCHANGED <<sdk, static, clocks, lock, cache, since, stamp, token>>

ExchangeFailsRetrying(c) ==
    /\ pc[c] = "exchanging"
    /\ pc' = [pc EXCEPT ![c] = "checking"]
    /\ UNCHANGED <<sdk, static, clocks, lock, cache, since, stamp, token>>

ExchangeFailsEvicting(c) ==
    /\ pc[c] = "exchanging"
    /\ pc' = [pc EXCEPT ![c] = "failed"]
    /\ lock' = None
    /\ cache' = None
    /\ UNCHANGED <<sdk, static, clocks, since, stamp, token>>

\* Slip: the answer is stored before its error is looked at.
ExchangeFailsStoring(c) ==
    /\ pc[c] = "exchanging"
    /\ pc' = [pc EXCEPT ![c] = "failed"]
    /\ lock' = None
    /\ cache' = [token |-> None, expires |-> local]
    /\ UNCHANGED <<sdk, static, clocks, since, stamp, token>>

\* A transport error, a time-out, a cancelled context, or an answer that the
\* SDK refuses: the caller gets an error, the lock is released, and what was
\* cached stays.
ExchangeFails(c) ==
    /\ pc[c] = "exchanging"
    /\ pc' = [pc EXCEPT ![c] = "failed"]
    /\ lock' = None
    /\ UNCHANGED <<sdk, static, clocks, cache, since, stamp, token>>

\* The API request made with the token is answered or abandoned, or the
\* caller has dealt with the error.  Whatever the answer, a 401 included, the
\* token source is left alone.
Finish(c) ==
    /\ pc[c] \in {"holding", "failed"}
    /\ pc' = [pc EXCEPT ![c] = "idle"]
    /\ since' = [since EXCEPT ![c] = 0]
    /\ stamp' = [stamp EXCEPT ![c] = 0]
    /\ token' = [token EXCEPT ![c] = None]
    /\ UNCHANGED <<sdk, static, clocks, lock, cache>>

\* No exchange and no API request outlasts its time-out.
Tick ==
    /\ now < Horizon
    /\ \A c \in Callers :
         pc[c] \in {"exchanging", "holding"} => now < since[c] + Timeout
    /\ now' = now + 1
    /\ local' = local + 1
    /\ UNCHANGED <<sdk, static, lock, cache, calls>>

AdjustClock ==
    /\ local' \in now .. now + MaxStep[sdk]
    /\ UNCHANGED <<sdk, static, now, lock, cache, calls>>

Next ==
    \/ \E c \in Callers :
         \/ UseStatic(c) \/ Enter(c) \/ Acquire(c)
         \/ ServeCached(c) \/ StartExchange(c)
         \/ AdoptToken(c) \/ ExchangeFails(c) \/ Finish(c)
    \/ Tick \/ AdjustClock

Spec == Init /\ [][Next]_vars

(***************************************************************************)
(* Threads are scheduled and exchanges end.  Go's sync.Mutex hands the     *)
(* lock to a waiter that has starved for a millisecond, so a waiting       *)
(* goroutine gets it if it is released again and again; the locks of       *)
(* Python and Java make no such promise.                                   *)
(***************************************************************************)
Fairness ==
    \A c \in Callers :
        /\ WF_vars(Acquire(c))
        /\ WF_vars(ServeCached(c) \/ StartExchange(c))
        /\ WF_vars(AdoptToken(c) \/ ExchangeFails(c))
        /\ WF_vars(Finish(c))
        /\ SF_vars(sdk = "go" /\ Acquire(c))

FairSpec == Spec /\ Fairness
-----------------------------------------------------------------------------
\* The lock is held exactly while one caller is checking the cache or is in
\* an exchange: an error path that kept it, or a second caller let in, would
\* break this (Token's deferred unlock; with self._token_lock; synchronized).
MutualExclusion ==
    \A c \in Callers : pc[c] \in {"checking", "exchanging"} <=> lock = c

\* Throughout an exchange the cached token is one that its caller saw expired
\* or about to: no exchange runs beside another that has just refreshed the
\* cache (the second check of current/expires under the lock).
ExchangeJustified ==
    \A c \in Callers :
        pc[c] = "exchanging" =>
            cache = None \/ cache.expires - stamp[c] <= Leeway

\* "Refresh happens 60s before expiry so callers never see a transient 401":
\* as long as the API request that a caller makes with its token may be on the
\* way, the server honours the token, if it was meant to last beyond the
\* leeway at all.
NoTransient401 ==
    \A c \in Callers :
        pc[c] = "holding" /\ token[c] # None /\ token[c].life > Leeway
            => now < token[c].until

\* No caller is given an empty token by the SDKs that test for one.
NoBlankToken ==
    \A c \in Callers : sdk # "php" => token[c] # Blank

\* "Returns a valid bearer token, refreshing lazily": PHP, too.
PhpTokenIsValid ==
    \A c \in Callers : sdk = "php" => token[c] # Blank

\* A caller that holds the lock gives it up: no failure of an exchange leaves
\* the others waiting for ever.
LockIsReleased == \A c \in Callers : lock = c ~> lock # c

\* A goroutine that asks for a token is answered, however many others keep
\* asking and however many exchanges fail.
GoCallsEnd ==
    \A c \in Callers :
        sdk = "go" /\ pc[c] = "waiting" ~> pc[c] \in {"holding", "failed"}

\* What the token source promises, see TokenService.
Service == INSTANCE TokenService WITH
    Cancellable <- FALSE,
    phase <- [c \in Callers |->
                CASE pc[c] = "idle" -> "idle"
                  [] pc[c] = "holding" -> IF static THEN "idle" ELSE "served"
                  [] pc[c] = "failed" -> "failed"
                  [] OTHER -> "pending"],
    cred <- IF cache = None THEN "none" ELSE IF Fresh THEN "usable" ELSE "stale",
    joined <- {c \in Callers : pc[c] = "exchanging"},
    verdict <- "nothing",
    owed <- [c \in Callers |-> "nothing"]

\* Every step of the locked token source is a step of the promised service.
ImplementsService == Service!Spec
=============================================================================
