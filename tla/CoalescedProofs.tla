--------------------------- MODULE CoalescedProofs ---------------------------
(***************************************************************************)
(* What the shared promise of the Node SDK guarantees, for any number of   *)
(* calls, any answers and any clock the assumptions allow: no call is left *)
(* behind, no exchange runs beside a good cache, every token served is one *)
(* the server honours, and TokenService is implemented.                    *)
(***************************************************************************)
EXTENDS CoalescedTokenSource, TLAPS

\* The clock may run ahead, and an exchange in flight is somebody's.
ClockBound == now <= local /\ local <= now + MaxStep
FlightHasCalls == flight # None => \E c \in Callers : pc[c] = "awaiting"

\* An open exchange has brought nothing.
OpenIsEmpty == Open => flight.token = None

\* A cached expiry overestimates the server's by the time the answer took and
\* what the clock may be ahead.
CacheSound == cache # None =>
    cache.expires <= cache.token.until + cache.token.lag + MaxStep

\* A token that has just been brought was issued no longer ago than its
\* exchange took, as no time passes while callbacks are due.
Brought(t) == t.until + t.lag = now + t.life
JustBrought ==
    /\ Settled /\ flight.token # None => Brought(flight.token)
    /\ \A c \in Callers : pc[c] = "resuming" /\ token[c] # None => Brought(token[c])

NodeInv ==
    /\ TypeOK
    /\ NobodyAbandoned /\ ExchangeJustified
    /\ ClockBound /\ FlightHasCalls /\ OpenIsEmpty /\ CacheSound /\ JustBrought

\* An accepted answer gives no longer a life than the server promised.
LEMMA NodeVerdictBound ==
    ASSUME NEW a \in Answers, NodeVerdict(a).ok
    PROVE  NodeVerdict(a).ttl \in Int /\ NodeVerdict(a).ttl <= Promised(a) /\ Promised(a) \in Nat
<1>1. a.expires.secs \in Int
  BY DEF Answers, Expiries
<1> QED
  BY <1>1, FallbackAssumption DEF NodeVerdict, OrFallback, Promised, Accept, Refuse

\* What the step that fills the cache does.
LEMMA Granted ==
    ASSUME NodeInv, SettleAccepted
    PROVE  \E granted \in Held, expires \in Int :
             /\ cache' = [token |-> granted, expires |-> expires]
             /\ flight' = [flight EXCEPT !.status = "settled", !.token = granted]
             /\ granted.until + granted.lag = now + granted.life
             /\ expires <= granted.until + granted.lag + MaxStep
<1>1. PICK a \in Replies, life \in Lifetimes, issued \in flight.since .. now :
        /\ NodeVerdict(a).ok
        /\ life >= Promised(a)
        /\ cache' = [token |-> [until |-> issued + life, life |-> life, lag |-> now - issued],
                     expires |-> local + NodeVerdict(a).ttl]
        /\ flight' = [flight EXCEPT !.status = "settled",
                        !.token = [until |-> issued + life, life |-> life,
                                   lag |-> now - issued]]
  BY DEF SettleAccepted
<1> DEFINE granted == [until |-> issued + life, life |-> life, lag |-> now - issued]
<1>2. /\ a \in Answers /\ life \in Nat /\ now \in Nat /\ local \in Nat /\ MaxStep \in Nat
      /\ local <= now + MaxStep /\ flight \in Flights
  BY NodeAssumption DEF NodeInv, TypeOK, ClockBound, SettleAccepted, Open
<1>3. flight.since \in Nat /\ issued \in Nat /\ issued <= now
  BY <1>2 DEF Flights
<1>4. granted \in Held /\ granted.until + granted.lag = now + granted.life
  BY <1>2, <1>3 DEF Held
<1>5. NodeVerdict(a).ttl \in Int /\ NodeVerdict(a).ttl <= life
  <2>1. NodeVerdict(a).ttl \in Int /\ NodeVerdict(a).ttl <= Promised(a) /\ Promised(a) \in Nat
    BY <1>1, <1>2, NodeVerdictBound
  <2> QED
    BY <1>1, <1>2, <2>1
<1>6. local + NodeVerdict(a).ttl \in Int
      /\ local + NodeVerdict(a).ttl <= granted.until + granted.lag + MaxStep
  BY <1>2, <1>3, <1>5
<1> QED
  BY <1>1, <1>4, <1>6

LEMMA NodeInit == Init => NodeInv
<1> SUFFICES ASSUME Init PROVE NodeInv
  OBVIOUS
<1> USE NodeAssumption DEF Init
<1>1. TypeOK
  BY DEF TypeOK, Steps
<1>2. ClockBound
  BY DEF ClockBound
<1> QED
  BY <1>1, <1>2 DEF NodeInv, NobodyAbandoned, ExchangeJustified, FlightHasCalls,
     OpenIsEmpty, CacheSound, JustBrought, Open, Settled

LEMMA NodeStep == NodeInv /\ [Next]_vars => NodeInv'
<1> SUFFICES ASSUME NodeInv, [Next]_vars PROVE NodeInv'
  OBVIOUS
<1> USE NodeAssumption
<1>t. /\ TypeOK /\ NobodyAbandoned /\ ExchangeJustified /\ ClockBound /\ FlightHasCalls
      /\ OpenIsEmpty /\ CacheSound /\ JustBrought
  BY DEF NodeInv
<1>p. /\ now \in 0 .. Horizon /\ local \in Nat /\ cache \in Entries \cup {None}
      /\ flight \in Flights \cup {None} /\ pc \in [Callers -> Steps]
      /\ token \in [Callers -> Held \cup {None}]
  BY <1>t DEF TypeOK
<1>1. ASSUME NEW c \in Callers, ServeCached(c) PROVE NodeInv'
  <2>1. cache \in Entries /\ cache.token \in Held
    BY <1>p, <1>1 DEF ServeCached, Fresh, Entries
  <2> QED
    BY <1>t, <1>p, <1>1, <2>1
       DEF NodeInv, TypeOK, NobodyAbandoned, ExchangeJustified, ClockBound, FlightHasCalls,
           OpenIsEmpty, CacheSound, JustBrought, Brought, Open, Settled, ServeCached, Steps
<1>2. ASSUME NEW c \in Callers, JoinExchange(c) PROVE NodeInv'
  BY <1>t, <1>p, <1>2
     DEF NodeInv, TypeOK, NobodyAbandoned, ExchangeJustified, ClockBound, FlightHasCalls,
         OpenIsEmpty, CacheSound, JustBrought, Brought, Open, Settled, JoinExchange, Steps
<1>3. ASSUME NEW c \in Callers, StartExchange(c) PROVE NodeInv'
  <2>1. /\ flight' = [since |-> now, stamp |-> local, status |-> "open", token |-> None]
        /\ pc' = [pc EXCEPT ![c] = "awaiting"] /\ pc[c] = "idle" /\ ~Fresh
        /\ UNCHANGED <<now, local, cache, token>>
    BY <1>3 DEF StartExchange
  <2>2. flight' \in Flights /\ flight' # None
    BY <1>p, <2>1 DEF Flights
  <2>3. /\ flight'.status = "open" /\ flight'.token = None /\ flight'.stamp = local
    BY <2>1
  <2>4. TypeOK'
    BY <1>p, <2>1, <2>2 DEF TypeOK, Steps
  <2>5. ExchangeJustified'
    <3>1. cache = None \/ ~(cache.expires - local > Leeway)
      BY <2>1 DEF Fresh
    <3>2. cache # None => cache.expires \in Int
      BY <1>p DEF Entries
    <3> QED
      BY <1>p, <2>1, <2>3, <3>1, <3>2 DEF ExchangeJustified
  <2>6. NobodyAbandoned' /\ FlightHasCalls' /\ OpenIsEmpty'
    BY <1>p, <2>1, <2>2, <2>3 DEF NobodyAbandoned, FlightHasCalls, OpenIsEmpty
  <2>7. ClockBound' /\ CacheSound' /\ JustBrought'
    BY <1>t, <1>p, <2>1, <2>3 DEF ClockBound, CacheSound, JustBrought, Brought, Settled
  <2> QED
    BY <2>4, <2>5, <2>6, <2>7 DEF NodeInv
<1>4. ASSUME NEW c \in Callers, Resume(c) PROVE NodeInv'
  BY <1>t, <1>p, <1>4
     DEF NodeInv, TypeOK, NobodyAbandoned, ExchangeJustified, ClockBound, FlightHasCalls,
         OpenIsEmpty, CacheSound, JustBrought, Brought, Open, Settled, Resume, Steps
<1>5. ASSUME NEW c \in Callers, Finish(c) PROVE NodeInv'
  BY <1>t, <1>p, <1>5
     DEF NodeInv, TypeOK, NobodyAbandoned, ExchangeJustified, ClockBound, FlightHasCalls,
         OpenIsEmpty, CacheSound, JustBrought, Brought, Open, Settled, Finish, Steps
<1>6. CASE SettleAccepted
  <2>1. PICK granted \in Held, expires \in Int :
             /\ cache' = [token |-> granted, expires |-> expires]
             /\ flight' = [flight EXCEPT !.status = "settled", !.token = granted]
             /\ granted.until + granted.lag = now + granted.life
             /\ expires <= granted.until + granted.lag + MaxStep
    BY <1>6, Granted
  <2>2. Open /\ UNCHANGED <<now, local, pc, token>> /\ flight \in Flights
    BY <1>p, <1>6 DEF SettleAccepted, Open
  <2>3. cache' \in Entries /\ cache'.token = granted /\ cache'.expires = expires
    BY <2>1 DEF Entries
  <2>4. flight' \in Flights /\ flight'.status = "settled" /\ flight'.token = granted
        /\ flight' # None
    BY <2>1, <2>2 DEF Flights
  <2>5. TypeOK'
    BY <1>p, <2>2, <2>3, <2>4 DEF TypeOK
  <2>6. CacheSound' /\ JustBrought'
    BY <1>t, <2>1, <2>2, <2>3, <2>4 DEF CacheSound, JustBrought, Brought
  <2> QED
    BY <1>t, <2>2, <2>4, <2>5, <2>6
       DEF NodeInv, NobodyAbandoned, ExchangeJustified, ClockBound, FlightHasCalls,
           OpenIsEmpty, Open
<1>7. CASE SettleRejected
  <2>1. /\ Open /\ flight' = [flight EXCEPT !.status = "settled"]
        /\ UNCHANGED <<now, local, cache, pc, token>> /\ flight \in Flights
    BY <1>p, <1>7 DEF SettleRejected, Open
  <2>2. flight' \in Flights /\ flight'.status = "settled" /\ flight'.token = None
        /\ flight' # None
    BY <1>t, <2>1 DEF Flights, OpenIsEmpty
  <2> QED
    BY <1>t, <1>p, <2>1, <2>2
       DEF NodeInv, TypeOK, NobodyAbandoned, ExchangeJustified, ClockBound, FlightHasCalls,
           OpenIsEmpty, CacheSound, JustBrought, Brought, Open
<1>8. CASE Release
  <2>1. /\ Settled /\ flight' = None
        /\ pc' = [c \in Callers |-> IF pc[c] = "awaiting" THEN "resuming" ELSE pc[c]]
        /\ token' = [c \in Callers |->
                       IF pc[c] = "awaiting" THEN flight.token ELSE token[c]]
        /\ UNCHANGED <<now, local, cache>> /\ flight \in Flights
    BY <1>p, <1>8 DEF Release, Settled
  <2>2. flight.token \in Held \cup {None}
    BY <2>1 DEF Flights
  <2>3. TypeOK'
    BY <1>p, <2>1, <2>2 DEF TypeOK, Steps
  <2>4. JustBrought'
    BY <1>t, <1>p, <2>1 DEF JustBrought, Brought, Settled
  <2> QED
    BY <1>t, <1>p, <2>1, <2>3, <2>4
       DEF NodeInv, NobodyAbandoned, ExchangeJustified, ClockBound, FlightHasCalls,
           OpenIsEmpty, CacheSound, Open
<1>9. CASE Tick
  <2>1. /\ now' = now + 1 /\ local' = local + 1 /\ now < Horizon /\ ~Settled
        /\ \A c \in Callers : pc[c] # "resuming"
        /\ UNCHANGED <<cache, flight, pc, token>>
    BY <1>9 DEF Tick
  <2>2. TypeOK'
    BY <1>p, <2>1 DEF TypeOK
  <2>3. ClockBound'
    BY <1>t, <1>p, <2>1 DEF ClockBound
  <2>4. JustBrought'
    BY <2>1 DEF JustBrought, Settled
  <2> QED
    BY <1>t, <2>1, <2>2, <2>3, <2>4
       DEF NodeInv, NobodyAbandoned, ExchangeJustified, FlightHasCalls, OpenIsEmpty,
           CacheSound, Open
<1>10. CASE AdjustClock
  <2>1. local' \in now .. now + MaxStep /\ UNCHANGED <<now, cache, flight, pc, token>>
    BY <1>10 DEF AdjustClock
  <2>2. TypeOK' /\ ClockBound'
    BY <1>p, <2>1 DEF TypeOK, ClockBound
  <2> QED
    BY <1>t, <2>1, <2>2
       DEF NodeInv, NobodyAbandoned, ExchangeJustified, FlightHasCalls, OpenIsEmpty,
           CacheSound, JustBrought, Brought, Open, Settled
<1>11. CASE UNCHANGED vars
  BY <1>t, <1>11
     DEF vars, NodeInv, TypeOK, NobodyAbandoned, ExchangeJustified, ClockBound,
         FlightHasCalls, OpenIsEmpty, CacheSound, JustBrought, Brought, Open, Settled
<1> QED
  BY <1>1, <1>2, <1>3, <1>4, <1>5, <1>6, <1>7, <1>8, <1>9, <1>10, <1>11 DEF Next

LEMMA NodeAlways == Spec => []NodeInv
  BY NodeInit, NodeStep, PTL DEF Spec

\* Every variable of Node's token source keeps its type.
THEOREM NodeTypeCorrect == Spec => []TypeOK
  BY NodeAlways, PTL DEF NodeInv

\* No call is left behind by a promise that was cleared or replaced under it.
THEOREM NoneAbandoned == Spec => []NobodyAbandoned
  BY NodeAlways, PTL DEF NodeInv

\* An exchange is open only if the call that started it saw no good token.
THEOREM NodeJustified == Spec => []ExchangeJustified
  BY NodeAlways, PTL DEF NodeInv

(***************************************************************************)
(* A call is answered from the cache (in one step) or by the exchange that *)
(* it awaited (when it resumes).                                           *)
(***************************************************************************)
LEMMA ServedStep ==
    NodeInv /\ [Next]_vars =>
        \A c \in Callers :
            pc[c] # "served" /\ pc'[c] = "served" /\ Covered(token'[c])
                => now < token'[c].until
<1> SUFFICES ASSUME NodeInv, [Next]_vars, NEW c \in Callers,
                    pc[c] # "served", pc'[c] = "served", Covered(token'[c])
             PROVE  now < token'[c].until
  OBVIOUS
<1>p. /\ now \in Nat /\ local \in Nat /\ cache \in Entries \cup {None}
      /\ pc \in [Callers -> Steps] /\ token \in [Callers -> Held \cup {None}]
      /\ now <= local /\ CacheSound /\ JustBrought
      /\ Leeway \in Nat /\ Patience \in Nat /\ MaxStep \in Nat /\ Patience + MaxStep <= Leeway
  BY NodeAssumption DEF NodeInv, TypeOK, ClockBound
<1>1. CASE ServeCached(c)
  <2>1. /\ cache # None /\ token'[c] = cache.token /\ cache.expires - local > Leeway
    BY <1>p, <1>1 DEF ServeCached, Fresh
  <2>2. /\ cache.token \in Held /\ cache.expires \in Int
        /\ cache.expires <= cache.token.until + cache.token.lag + MaxStep
    BY <1>p, <2>1 DEF CacheSound, Entries
  <2>3. cache.token.until \in Nat /\ cache.token.lag \in Nat /\ cache.token.lag <= Patience
    BY <2>1, <2>2 DEF Covered, Held
  <2> QED
    BY <1>p, <2>1, <2>2, <2>3
<1>2. CASE Resume(c)
  <2>1. /\ pc[c] = "resuming" /\ token[c] # None /\ token'[c] = token[c]
    BY <1>p, <1>2 DEF Resume
  <2>2. token[c] \in Held /\ token[c].until + token[c].lag = now + token[c].life
    BY <1>p, <2>1 DEF JustBrought, Brought
  <2>3. /\ token[c].until \in Nat /\ token[c].lag \in Nat /\ token[c].life \in Nat
        /\ token[c].life > Leeway /\ token[c].lag <= Patience
    BY <2>1, <2>2 DEF Covered, Held
  <2> QED
    BY <1>p, <2>1, <2>2, <2>3
<1>3. ASSUME NEW d \in Callers, \/ JoinExchange(d) \/ StartExchange(d) \/ Finish(d)
                                \/ d # c /\ (ServeCached(d) \/ Resume(d))
      PROVE  FALSE
  BY <1>p, <1>3 DEF JoinExchange, StartExchange, Finish, ServeCached, Resume
<1>4. CASE \/ SettleAccepted \/ SettleRejected \/ Release
           \/ Tick \/ AdjustClock \/ UNCHANGED vars
  BY <1>p, <1>4 DEF SettleAccepted, SettleRejected, Release, Tick, AdjustClock, vars
<1> QED
  BY <1>1, <1>2, <1>3, <1>4 DEF Next

\* Whenever a call of Node's token() is answered, the server honours its token,
\* provided that the exchange that brought it was short enough for the leeway.
THEOREM NodeServesValid == Spec => ServedValid
<1>1. NodeInv /\ [Next]_vars =>
        [\A c \in Callers :
            pc[c] # "served" /\ pc'[c] = "served" /\ Covered(token'[c])
                => now < token'[c].until]_vars
  BY ServedStep
<1> QED
  BY <1>1, NodeAlways, PTL DEF Spec, ServedValid

(***************************************************************************)
(* The shared promise keeps the promises of TokenService.                  *)
(***************************************************************************)
Phase == [c \in Callers |->
            IF pc[c] \in {"awaiting", "resuming"} THEN "pending" ELSE pc[c]]
Cred == IF cache = None THEN "none" ELSE IF Fresh THEN "usable" ELSE "stale"
Joined == {c \in Callers : pc[c] = "awaiting"}
Outcome == IF ~Settled THEN "nothing"
           ELSE IF flight.token = None THEN "failed" ELSE "served"
Owed == [c \in Callers |->
           IF pc[c] # "resuming" THEN "nothing"
           ELSE IF token[c] = None THEN "failed" ELSE "served"]

LEMMA NodeRefStep == NodeInv /\ [Next]_vars => [Service!Next]_(Service!vars)
<1> SUFFICES ASSUME NodeInv, [Next]_vars PROVE [Service!Next]_(Service!vars)
  OBVIOUS
<1>p. /\ local \in Nat /\ cache \in Entries \cup {None} /\ flight \in Flights \cup {None}
      /\ pc \in [Callers -> Steps] /\ token \in [Callers -> Held \cup {None}]
      /\ NobodyAbandoned /\ FlightHasCalls /\ OpenIsEmpty
      /\ None \notin Callers \cup Held \cup Entries \cup Flights
  BY NodeAssumption DEF NodeInv, TypeOK
<1>v. ASSUME UNCHANGED <<Phase, Cred, Joined, Outcome, Owed>>
      PROVE  [Service!Next]_(Service!vars)
  BY <1>v DEF Phase, Cred, Joined, Outcome, Owed, Service!vars
<1>c. ASSUME NEW c \in Callers, Service!ServeCached(c) \/ Service!Begin(c) \/ Service!Join(c)
               \/ Service!Deliver(c) \/ Service!Finish(c)
      PROVE  [Service!Next]_(Service!vars)
  BY <1>c DEF Service!Next
<1>e. ASSUME NEW o \in {"served", "failed"}, Service!Settle(o) \/ Service!End(o)
      PROVE  [Service!Next]_(Service!vars)
  BY <1>e DEF Service!Next, Service!Outcomes
<1>1. ASSUME NEW c \in Callers, ServeCached(c) PROVE [Service!Next]_(Service!vars)
  <2>1. /\ Phase' = [Phase EXCEPT ![c] = "served"] /\ Owed' = [Owed EXCEPT ![c] = "nothing"]
        /\ Cred = "usable" /\ Cred' = Cred /\ Joined' = Joined /\ Outcome' = Outcome
        /\ Phase[c] = "idle" /\ c \notin Joined /\ Owed[c] = "nothing"
    BY <1>p, <1>1 DEF ServeCached, Fresh, Settled, Phase, Cred, Joined, Outcome, Owed
  <2>2. Service!ServeCached(c)
    BY <2>1 DEF Phase, Cred, Joined, Outcome, Owed,
       Service!ServeCached, Service!Free, Service!Answer
  <2> QED
    BY <1>c, <2>2
<1>2. ASSUME NEW c \in Callers, JoinExchange(c) PROVE [Service!Next]_(Service!vars)
  <2>1. Joined # {}
    BY <1>p, <1>2 DEF JoinExchange, FlightHasCalls, Joined
  <2>2. /\ Phase' = [Phase EXCEPT ![c] = "pending"] /\ Owed' = Owed
        /\ Cred' = Cred /\ Joined' = Joined \cup {c} /\ Outcome' = Outcome
        /\ Phase[c] = "idle" /\ c \notin Joined /\ Owed[c] = "nothing"
    BY <1>p, <1>2 DEF JoinExchange, Fresh, Settled, Phase, Cred, Joined, Outcome, Owed
  <2>3. Service!Join(c)
    BY <2>1, <2>2 DEF Phase, Cred, Joined, Outcome, Owed, Service!Join, Service!Free
  <2> QED
    BY <1>c, <2>3
<1>3. ASSUME NEW c \in Callers, StartExchange(c) PROVE [Service!Next]_(Service!vars)
  <2>1. Joined = {}
    BY <1>p, <1>3 DEF StartExchange, NobodyAbandoned, Joined
  <2>2. ~Settled /\ ~Settled'
    BY <1>3 DEF StartExchange, Settled
  <2>3. /\ Phase' = [Phase EXCEPT ![c] = "pending"] /\ Owed' = Owed
        /\ Cred # "usable" /\ Cred' = Cred /\ Joined' = {c} /\ Outcome' = Outcome
        /\ Phase[c] = "idle" /\ Owed[c] = "nothing"
    BY <1>p, <1>3, <2>1, <2>2 DEF StartExchange, Fresh, Phase, Cred, Joined, Outcome, Owed
  <2>4. Service!Begin(c)
    BY <2>1, <2>3 DEF Phase, Cred, Joined, Outcome, Owed, Service!Begin, Service!Free
  <2> QED
    BY <1>c, <2>4
<1>4. ASSUME NEW c \in Callers, Resume(c) PROVE [Service!Next]_(Service!vars)
  <2>1. /\ pc[c] = "resuming"
        /\ pc' = [pc EXCEPT ![c] = IF token[c] = None THEN "failed" ELSE "served"]
        /\ UNCHANGED <<now, local, cache, flight, token>>
    BY <1>4 DEF Resume
  <2>2. /\ Owed[c] = IF token[c] = None THEN "failed" ELSE "served"
        /\ Phase' = [Phase EXCEPT ![c] = Owed[c]] /\ Owed' = [Owed EXCEPT ![c] = "nothing"]
    BY <1>p, <2>1 DEF Phase, Owed
  <2>3. Cred' = Cred /\ Joined' = Joined /\ Outcome' = Outcome /\ Owed[c] # "nothing"
    BY <1>p, <2>1, <2>2 DEF Fresh, Settled, Cred, Joined, Outcome
  <2>4. Service!Deliver(c)
    BY <2>2, <2>3 DEF Phase, Cred, Joined, Outcome, Owed, Service!Deliver
  <2> QED
    BY <1>c, <2>4
<1>5. ASSUME NEW c \in Callers, Finish(c) PROVE [Service!Next]_(Service!vars)
  <2>1. /\ Phase' = [Phase EXCEPT ![c] = "idle"] /\ Owed' = Owed
        /\ Cred' = Cred /\ Joined' = Joined /\ Outcome' = Outcome
        /\ Phase[c] \in {"served", "failed"}
    BY <1>p, <1>5 DEF Finish, Fresh, Settled, Phase, Cred, Joined, Outcome, Owed
  <2>2. Service!Finish(c)
    BY <2>1 DEF Phase, Cred, Joined, Outcome, Owed, Service!Finish, Service!Outcomes
  <2> QED
    BY <1>c, <2>2
<1>6. CASE SettleAccepted
  <2>1. PICK granted \in Held, expires \in Int :
             /\ cache' = [token |-> granted, expires |-> expires]
             /\ flight' = [flight EXCEPT !.status = "settled", !.token = granted]
    BY <1>6, Granted
  <2>2. Open /\ UNCHANGED <<now, local, pc, token>> /\ flight \in Flights /\ flight # None
    BY <1>p, <1>6 DEF SettleAccepted, Open
  <2>3. cache' \in Entries
    BY <2>1 DEF Entries
  <2>4. flight' \in Flights /\ flight'.status = "settled" /\ flight'.token = granted
    BY <2>1, <2>2 DEF Flights
  <2>5. Joined # {}
    BY <1>p, <2>2 DEF FlightHasCalls, Joined
  <2>6. /\ Phase' = Phase /\ Owed' = Owed /\ Joined' = Joined
        /\ Cred' \in {"stale", "usable"} /\ Outcome = "nothing" /\ Outcome' = "served"
    BY <1>p, <2>2, <2>3, <2>4 DEF Open, Settled, Phase, Cred, Joined, Outcome, Owed
  <2>7. Service!Settle("served")
    BY <2>5, <2>6 DEF Phase, Cred, Joined, Outcome, Owed, Service!Settle, Service!Store
  <2> QED
    BY <1>e, <2>7
<1>7. CASE SettleRejected
  <2>1. /\ Open /\ flight' = [flight EXCEPT !.status = "settled"]
        /\ UNCHANGED <<now, local, cache, pc, token>> /\ flight \in Flights /\ flight # None
    BY <1>p, <1>7 DEF SettleRejected, Open
  <2>2. flight' \in Flights /\ flight'.status = "settled" /\ flight'.token = None
    BY <1>p, <2>1 DEF Flights, OpenIsEmpty
  <2>3. Joined # {}
    BY <1>p, <2>1 DEF FlightHasCalls, Joined
  <2>4. /\ Phase' = Phase /\ Owed' = Owed /\ Joined' = Joined
        /\ Cred' = Cred /\ Outcome = "nothing" /\ Outcome' = "failed"
    BY <1>p, <2>1, <2>2 DEF Open, Settled, Fresh, Phase, Cred, Joined, Outcome, Owed
  <2>5. Service!Settle("failed")
    BY <2>3, <2>4 DEF Phase, Cred, Joined, Outcome, Owed, Service!Settle, Service!Store
  <2> QED
    BY <1>e, <2>5
<1>8. CASE Release
  <2>1. /\ Settled /\ flight' = None /\ flight # None
        /\ pc' = [c \in Callers |-> IF pc[c] = "awaiting" THEN "resuming" ELSE pc[c]]
        /\ token' = [c \in Callers |->
                       IF pc[c] = "awaiting" THEN flight.token ELSE token[c]]
        /\ UNCHANGED <<now, local, cache>>
    BY <1>8 DEF Release, Settled
  <2>2. Joined # {}
    BY <1>p, <2>1 DEF FlightHasCalls, Joined
  <2>3. /\ Phase' = [c \in Callers |-> IF c \in {} THEN Outcome ELSE Phase[c]]
        /\ Owed' = [c \in Callers |-> IF c \in Joined \ {} THEN Outcome ELSE Owed[c]]
        /\ Joined' = {} /\ Outcome \in {"served", "failed"} /\ Outcome' = "nothing"
    BY <1>p, <2>1 DEF Settled, Phase, Joined, Outcome, Owed
  <2>4. Cred' = Cred
    BY <2>1 DEF Cred, Fresh
  <2>5. PICK o \in {"served", "failed"} : o = Outcome
    BY <2>3
  <2>6. /\ Phase' = [c \in Callers |-> IF c \in {} THEN o ELSE Phase[c]]
        /\ Owed' = [c \in Callers |-> IF c \in Joined \ {} THEN o ELSE Owed[c]]
        /\ Joined' = {} /\ Outcome = o /\ Outcome' = "nothing"
    BY <2>3, <2>5
  <2>7. Service!End(o)
    BY <2>2, <2>4, <2>6 DEF Phase, Cred, Joined, Outcome, Owed, Service!End
  <2> QED
    BY <1>e, <2>7
<1>9. CASE Tick \/ AdjustClock
  <2>1. UNCHANGED <<cache, flight, pc, token>>
    BY <1>9 DEF Tick, AdjustClock
  <2>2. /\ Phase' = Phase /\ Joined' = Joined /\ Outcome' = Outcome /\ Owed' = Owed
    BY <2>1 DEF Settled, Phase, Joined, Outcome, Owed
  <2>3. CASE cache = None
    BY <1>v, <2>1, <2>2, <2>3 DEF Cred
  <2>4. CASE cache # None
    <3>1. Cred # "none" /\ Cred' \in {"stale", "usable"}
      BY <2>1, <2>4 DEF Cred
    <3>2. Service!Age
      BY <2>2, <3>1 DEF Phase, Cred, Joined, Outcome, Owed, Service!Age
    <3> QED
      BY <3>2 DEF Service!Next
  <2> QED
    BY <2>3, <2>4
<1>10. CASE UNCHANGED vars
  BY <1>v, <1>10 DEF vars, Fresh, Settled, Phase, Cred, Joined, Outcome, Owed
<1> QED
  BY <1>1, <1>2, <1>3, <1>4, <1>5, <1>6, <1>7, <1>8, <1>9, <1>10 DEF Next

\* What TokenService promises of every token source, Node's shared promise
\* keeps, for any set of calls: one exchange at a time, none started beside a
\* usable token, every sharer told the outcome of the exchange it shared.
THEOREM NodeKeepsPromises == Spec => ImplementsService
<1>1. Init => Service!Init
  BY DEF Init, Settled, Service!Init
<1> QED
  BY <1>1, NodeInit, NodeStep, NodeRefStep, PTL DEF Spec, ImplementsService, Service!Spec
=============================================================================
