----------------------- MODULE LockedTokenSourceProofs -----------------------
(***************************************************************************)
(* Proofs about the locked token source, for every set of callers, every   *)
(* set of answers and lifetimes, and every timing that satisfies           *)
(* TimingAssumption.                                                       *)
(***************************************************************************)
EXTENDS LockedTokenSource, TLAPS

\* The client's clock stays within its allowance of the server's.
ClockBound == local >= now /\ local <= now + MaxStep[sdk]

\* No exchange and no API request has outlasted its time-out.
InFlight ==
    \A c \in Callers : pc[c] \in {"exchanging", "holding"} =>
        since[c] <= now /\ now <= since[c] + Timeout

\* The reading taken before an exchange is off by no more than the clock is.
StampBound ==
    \A c \in Callers :
        pc[c] = "exchanging" => stamp[c] <= since[c] + MaxStep[sdk]

\* The client overestimates the life of what it cached by at most Lag.
CacheSound ==
    cache # None /\ cache.token.life > 0 =>
        cache.expires <= cache.token.until + Lag(sdk)

\* A token handed out outlives the request made with it.
HeldSound ==
    \A c \in Callers :
        pc[c] = "holding" /\ token[c] # None /\ token[c].life > Leeway
            => since[c] + Timeout < token[c].until

\* A caller that has not been served yet holds no token.
NothingHeld == \A c \in Callers : pc[c] # "holding" => token[c] = None

IInv ==
    /\ TypeOK /\ MutualExclusion /\ ExchangeJustified /\ ClockBound
    /\ InFlight /\ StampBound /\ CacheSound /\ HeldSound /\ NothingHeld

-----------------------------------------------------------------------------
\* No SDK believes a token to live longer than the server committed itself to,
\* however expires_in is written (the ttl that Token stores, in each SDK).
LEMMA VerdictBound ==
    ASSUME NEW s \in Sdks, NEW a \in Answers, Verdict(s, a).ok
    PROVE  Verdict(s, a).ttl \in Int /\ Verdict(s, a).ttl <= Promised(a)
<1> USE FallbackAssumption
<1>1. a.expires \in [kind : ExpiryKinds, secs : Int]
      /\ (a.expires.kind \in {"number", "digits"} \/ a.expires.secs = 0)
  BY DEF Answers, Expiries
<1>2. a.expires.secs \in Int
  BY <1>1
<1>3. CASE s = "go"
  BY <1>1, <1>2, <1>3 DEF Verdict, GoVerdict, OrFallback, Promised, Accept, Refuse
<1>4. CASE s = "python"
  BY <1>1, <1>2, <1>4 DEF Verdict, PythonVerdict, Falsy, Missing, Promised, Accept, Refuse
<1>5. CASE s = "java"
  BY <1>1, <1>2, <1>5 DEF Verdict, JavaVerdict, OrFallback, Promised, Accept, Refuse
<1>6. CASE s = "php"
  BY <1>1, <1>2, <1>6 DEF Verdict, PhpVerdict, Promised, Accept, Refuse
<1>7. QED
  BY <1>3, <1>4, <1>5, <1>6 DEF Sdks

\* What an answer promises is a natural number.
LEMMA PromiseIsNatural ==
    ASSUME NEW a \in Answers
    PROVE  Promised(a) \in Nat
<1>1. a.expires.secs \in Int
  BY DEF Answers, Expiries
<1>2. QED
  BY <1>1, FallbackAssumption DEF Promised

\* The allowances are integers, and leave room for two round trips.
LEMMA LagBound ==
    ASSUME NEW s \in Sdks
    PROVE  /\ MaxStep[s] \in Nat /\ Lag(s) \in Nat
           /\ Lag(s) + Timeout <= Leeway
           /\ MaxStep[s] <= Lag(s)
  BY TimingAssumption DEF Lag

\* The freshness test is the same comparison in every SDK.
LEMMA FreshMeaning ==
    ASSUME sdk \in Sdks, cache \in Entries, local \in Nat
    PROVE  Fresh <=> cache # None /\ cache.expires - local > Leeway
<1>1. cache.expires \in Int
  BY DEF Entries
<1>2. PhpFresh <=> cache.expires - local > Leeway
  BY <1>1, TimingAssumption DEF PhpFresh
<1>3. QED
  BY <1>2 DEF Fresh, GoFresh, PythonFresh, JavaFresh, Sdks
-----------------------------------------------------------------------------
LEMMA InitIInv == Init => IInv
<1> SUFFICES ASSUME Init PROVE IInv
  OBVIOUS
<1> USE DEF Init
<1>1. sdk \in Sdks /\ MaxStep[sdk] \in Nat /\ local \in Nat
  BY DialectsAssumption, TimingAssumption
<1>2. TypeOK
  BY <1>1, TimingAssumption DEF TypeOK, Steps
<1>3. MutualExclusion
  BY CallersAssumption DEF MutualExclusion
<1>4. ClockBound
  BY <1>1 DEF ClockBound
<1>5. ExchangeJustified /\ InFlight /\ StampBound /\ CacheSound /\ HeldSound /\ NothingHeld
  BY DEF ExchangeJustified, InFlight, StampBound, CacheSound, HeldSound, NothingHeld
<1>6. QED
  BY <1>2, <1>3, <1>4, <1>5 DEF IInv

LEMMA NextIInv == IInv /\ [Next]_vars => IInv'
<1> SUFFICES ASSUME IInv, [Next]_vars PROVE IInv'
  OBVIOUS
<1> USE DEF IInv
<1>a. sdk \in Sdks /\ MaxStep[sdk] \in Nat /\ Lag(sdk) \in Nat
      /\ Lag(sdk) + Timeout <= Leeway /\ MaxStep[sdk] <= Lag(sdk)
  BY LagBound, DialectsAssumption DEF TypeOK
<1>b. Leeway \in Nat /\ Timeout \in Nat /\ Horizon \in Nat /\ 2 * Timeout <= Leeway
  BY TimingAssumption
<1>c. now \in Nat /\ local \in Nat
  BY <1>b DEF TypeOK
<1>1. ASSUME NEW c \in Callers, UseStatic(c) PROVE IInv'
  <2> USE <1>1 DEF UseStatic
  <2>1. TypeOK'
    BY DEF TypeOK, clocks, Steps
  <2>2. MutualExclusion'
    BY DEF MutualExclusion, TypeOK, clocks
  <2>3. ExchangeJustified'
    BY DEF ExchangeJustified, TypeOK, clocks
  <2>4. ClockBound'
    BY DEF ClockBound, clocks
  <2>5. InFlight'
    BY <1>b, <1>c DEF InFlight, TypeOK, clocks
  <2>6. StampBound'
    BY DEF StampBound, TypeOK, clocks
  <2>7. CacheSound'
    BY DEF CacheSound, Lag, clocks
  <2>8. HeldSound'
    BY DEF HeldSound, NothingHeld, TypeOK, clocks
  <2>9. NothingHeld'
    BY DEF NothingHeld, TypeOK, clocks
  <2>10. QED
    BY <2>1, <2>2, <2>3, <2>4, <2>5, <2>6, <2>7, <2>8, <2>9
<1>2. ASSUME NEW c \in Callers, Enter(c) PROVE IInv'
  <2> USE <1>2 DEF Enter
  <2>1. TypeOK'
    BY DEF TypeOK, clocks, Steps
  <2>2. MutualExclusion'
    BY DEF MutualExclusion, TypeOK, clocks
  <2>3. ExchangeJustified'
    BY DEF ExchangeJustified, TypeOK, clocks
  <2>4. ClockBound'
    BY DEF ClockBound, clocks
  <2>5. InFlight'
    BY <1>b, <1>c DEF InFlight, TypeOK, clocks
  <2>6. StampBound'
    BY DEF StampBound, TypeOK, clocks
  <2>7. CacheSound'
    BY DEF CacheSound, Lag, clocks
  <2>8. HeldSound'
    BY DEF HeldSound, NothingHeld, TypeOK, clocks
  <2>9. NothingHeld'
    BY DEF NothingHeld, TypeOK, clocks
  <2>10. QED
    BY <2>1, <2>2, <2>3, <2>4, <2>5, <2>6, <2>7, <2>8, <2>9
<1>3. ASSUME NEW c \in Callers, Acquire(c) PROVE IInv'
  <2> USE <1>3 DEF Acquire
  <2>1. TypeOK'
    BY DEF TypeOK, clocks, Steps
  <2>2. MutualExclusion'
    BY CallersAssumption DEF MutualExclusion, TypeOK, clocks
  <2>3. ExchangeJustified'
    BY DEF ExchangeJustified, TypeOK, clocks
  <2>4. ClockBound'
    BY DEF ClockBound, clocks
  <2>5. InFlight'
    BY <1>b, <1>c DEF InFlight, TypeOK, clocks
  <2>6. StampBound'
    BY DEF StampBound, TypeOK, clocks
  <2>7. CacheSound'
    BY DEF CacheSound, Lag, clocks
  <2>8. HeldSound'
    BY DEF HeldSound, NothingHeld, TypeOK, clocks
  <2>9. NothingHeld'
    BY DEF NothingHeld, TypeOK, clocks
  <2>10. QED
    BY <2>1, <2>2, <2>3, <2>4, <2>5, <2>6, <2>7, <2>8, <2>9
<1>4. ASSUME NEW c \in Callers, ServeCached(c) PROVE IInv'
  <2> USE <1>4 DEF ServeCached
  <2>0. cache \in Entries /\ cache.expires - local > Leeway
    BY <1>a, FreshMeaning DEF TypeOK, Fresh
  <2>1. TypeOK'
    BY <2>0 DEF TypeOK, clocks, Steps, Entries
  <2>2. MutualExclusion'
    BY CallersAssumption DEF MutualExclusion, TypeOK, clocks
  <2>3. ExchangeJustified'
    BY DEF ExchangeJustified, TypeOK, clocks
  <2>4. ClockBound'
    BY DEF ClockBound, clocks
  <2>5. InFlight'
    BY <1>b, <1>c DEF InFlight, TypeOK, clocks
  <2>6. StampBound'
    BY DEF StampBound, TypeOK, clocks
  <2>7. CacheSound'
    BY DEF CacheSound, Lag, clocks
  <2>8. HeldSound'
    <3>1. cache.token \in Tokens /\ cache.expires \in Int /\ cache # None
      BY <2>0 DEF Entries, Fresh
    <3>2. cache.token.until \in Nat /\ cache.token.life \in Nat
      BY <3>1 DEF Tokens
    <3>3. cache.token.life > Leeway => now + Timeout < cache.token.until
      BY <1>a, <1>b, <1>c, <2>0, <3>1, <3>2 DEF CacheSound, ClockBound
    <3>4. QED
      BY <3>3 DEF HeldSound, TypeOK, clocks
  <2>9. NothingHeld'
    BY DEF NothingHeld, TypeOK, clocks
  <2>10. QED
    BY <2>1, <2>2, <2>3, <2>4, <2>5, <2>6, <2>7, <2>8, <2>9
<1>5. ASSUME NEW c \in Callers, StartExchange(c) PROVE IInv'
  <2> USE <1>5 DEF StartExchange
  <2>0. cache = None \/ cache.expires - local <= Leeway
    <3>1. CASE cache = None
      BY <3>1
    <3>2. CASE cache \in Entries
      BY <1>a, <1>b, <1>c, <3>2, FreshMeaning DEF Entries
    <3>3. QED
      BY <3>1, <3>2 DEF TypeOK
  <2>1. TypeOK'
    BY DEF TypeOK, clocks, Steps
  <2>2. MutualExclusion'
    BY DEF MutualExclusion, TypeOK, clocks
  <2>3. ExchangeJustified'
    BY <2>0 DEF ExchangeJustified, TypeOK, clocks
  <2>4. ClockBound'
    BY DEF ClockBound, clocks
  <2>5. InFlight'
    BY <1>b, <1>c DEF InFlight, TypeOK, clocks
  <2>6. StampBound'
    BY <1>c DEF StampBound, ClockBound, TypeOK, clocks
  <2>7. CacheSound'
    BY DEF CacheSound, Lag, clocks
  <2>8. HeldSound'
    BY DEF HeldSound, NothingHeld, TypeOK, clocks
  <2>9. NothingHeld'
    BY DEF NothingHeld, TypeOK, clocks
  <2>10. QED
    BY <2>1, <2>2, <2>3, <2>4, <2>5, <2>6, <2>7, <2>8, <2>9
<1>6. ASSUME NEW c \in Callers, AdoptToken(c) PROVE IInv'
  <2> USE <1>6 DEF AdoptToken
  <2>1. PICK a \in Replies, life \in Lifetimes, issued \in since[c] .. now :
          /\ Verdict(sdk, a).ok
          /\ life >= Promised(a)
          /\ cache' = [token |-> IssuedToken(a, issued, life),
                       expires |-> Expiry(c, Verdict(sdk, a).ttl)]
          /\ token' = [token EXCEPT ![c] = IssuedToken(a, issued, life)]
    OBVIOUS
  <2> DEFINE ttl == Verdict(sdk, a).ttl
             granted == IssuedToken(a, issued, life)
  <2>2. a \in Answers /\ life \in Nat /\ issued \in Nat /\ since[c] \in Nat
        /\ stamp[c] \in Nat /\ since[c] <= issued /\ issued <= now
    BY <1>c, RepliesAssumption DEF TypeOK
  <2>3. ttl \in Int /\ ttl <= life
    BY <1>a, <2>1, <2>2, VerdictBound, PromiseIsNatural
  <2>4. /\ granted \in Tokens
        /\ granted.life > 0 => granted.until = issued + life /\ granted.life = life
    BY <2>2 DEF IssuedToken, Blank, Tokens
  <2>5. Expiry(c, ttl) \in Int /\ Expiry(c, ttl) <= issued + ttl + Lag(sdk)
    <3>1. CASE StampsBefore(sdk)
      <4>1. stamp[c] <= issued + MaxStep[sdk]
        BY <1>a, <2>2 DEF StampBound
      <4>2. QED
        BY <1>a, <2>2, <2>3, <3>1, <4>1 DEF Expiry, Lag
    <3>2. CASE ~StampsBefore(sdk)
      <4>1. local <= issued + Timeout + MaxStep[sdk]
        BY <1>a, <1>b, <1>c, <2>2 DEF InFlight, ClockBound
      <4>2. QED
        BY <1>a, <1>b, <1>c, <2>2, <2>3, <3>2, <4>1 DEF Expiry, Lag
    <3>3. QED
      BY <3>1, <3>2
  <2> HIDE DEF ttl, granted
  <2>6. cache' = [token |-> granted, expires |-> Expiry(c, ttl)]
        /\ token' = [token EXCEPT ![c] = granted]
    BY <2>1 DEF ttl, granted
  <2>7. cache' \in Entries
    BY <2>4, <2>5, <2>6 DEF Entries
  <2>8. lock = c
    BY DEF MutualExclusion
  <2>11. TypeOK'
    BY <2>4, <2>6, <2>7 DEF TypeOK, clocks, Steps
  <2>12. MutualExclusion'
    BY <2>8, CallersAssumption DEF MutualExclusion, TypeOK
  <2>13. ExchangeJustified'
    BY <2>8, <2>12 DEF ExchangeJustified, MutualExclusion, TypeOK
  <2>14. ClockBound'
    BY DEF ClockBound, clocks
  <2>15. InFlight'
    BY <1>b, <1>c DEF InFlight, TypeOK, clocks
  <2>16. StampBound'
    BY DEF StampBound, TypeOK, clocks
  <2>17. CacheSound'
    <3>1. cache'.token = granted /\ cache'.expires = Expiry(c, ttl) /\ sdk' = sdk
      BY <2>6
    <3>2. granted.life > 0 => Expiry(c, ttl) <= granted.until + Lag(sdk)
      BY <1>a, <2>2, <2>3, <2>4, <2>5
    <3>3. QED
      BY <3>1, <3>2 DEF CacheSound, Lag
  <2>18. HeldSound'
    <3>1. granted.life > Leeway => now + Timeout < granted.until
      BY <1>b, <1>c, <2>2, <2>4 DEF InFlight, Tokens
    <3>2. QED
      BY <2>6, <3>1 DEF HeldSound, TypeOK, clocks
  <2>19. NothingHeld'
    BY <2>6 DEF NothingHeld, TypeOK
  <2>20. QED
    BY <2>11, <2>12, <2>13, <2>14, <2>15, <2>16, <2>17, <2>18, <2>19
<1>7. ASSUME NEW c \in Callers, ExchangeFails(c) PROVE IInv'
  <2> USE <1>7 DEF ExchangeFails
  <2>1. TypeOK'
    BY DEF TypeOK, clocks, Steps
  <2>2. MutualExclusion'
    BY CallersAssumption DEF MutualExclusion, TypeOK, clocks
  <2>3. ExchangeJustified'
    BY DEF ExchangeJustified, TypeOK, clocks
  <2>4. ClockBound'
    BY DEF ClockBound, clocks
  <2>5. InFlight'
    BY <1>b, <1>c DEF InFlight, TypeOK, clocks
  <2>6. StampBound'
    BY DEF StampBound, TypeOK, clocks
  <2>7. CacheSound'
    BY DEF CacheSound, Lag, clocks
  <2>8. HeldSound'
    BY DEF HeldSound, NothingHeld, TypeOK, clocks
  <2>9. NothingHeld'
    BY DEF NothingHeld, TypeOK, clocks
  <2>10. QED
    BY <2>1, <2>2, <2>3, <2>4, <2>5, <2>6, <2>7, <2>8, <2>9
<1>8. ASSUME NEW c \in Callers, Finish(c) PROVE IInv'
  <2> USE <1>8 DEF Finish
  <2>1. TypeOK'
    BY DEF TypeOK, clocks, Steps
  <2>2. MutualExclusion'
    BY DEF MutualExclusion, TypeOK, clocks
  <2>3. ExchangeJustified'
    BY DEF ExchangeJustified, TypeOK, clocks
  <2>4. ClockBound'
    BY DEF ClockBound, clocks
  <2>5. InFlight'
    BY <1>b, <1>c DEF InFlight, TypeOK, clocks
  <2>6. StampBound'
    BY <1>a DEF StampBound, TypeOK, clocks
  <2>7. CacheSound'
    BY DEF CacheSound, Lag, clocks
  <2>8. HeldSound'
    BY DEF HeldSound, NothingHeld, TypeOK, clocks
  <2>9. NothingHeld'
    BY DEF NothingHeld, TypeOK, clocks
  <2>10. QED
    BY <2>1, <2>2, <2>3, <2>4, <2>5, <2>6, <2>7, <2>8, <2>9
<1>9. CASE Tick
  <2> USE <1>9 DEF Tick
  <2>1. TypeOK'
    BY <1>b, <1>c DEF TypeOK, calls
  <2>2. MutualExclusion'
    BY DEF MutualExclusion, calls
  <2>3. ExchangeJustified'
    BY DEF ExchangeJustified, calls
  <2>4. ClockBound'
    BY <1>a, <1>c DEF ClockBound
  <2>5. InFlight'
    BY <1>b, <1>c DEF InFlight, TypeOK, calls
  <2>6. StampBound'
    BY DEF StampBound, calls
  <2>7. CacheSound'
    BY DEF CacheSound, Lag
  <2>8. HeldSound'
    BY DEF HeldSound, calls
  <2>9. NothingHeld'
    BY DEF NothingHeld, calls
  <2>10. QED
    BY <2>1, <2>2, <2>3, <2>4, <2>5, <2>6, <2>7, <2>8, <2>9
<1>10. CASE AdjustClock
  <2> USE <1>10 DEF AdjustClock
  <2>1. TypeOK'
    BY <1>a, <1>c DEF TypeOK, calls
  <2>2. MutualExclusion'
    BY DEF MutualExclusion, calls
  <2>3. ExchangeJustified'
    BY DEF ExchangeJustified, calls
  <2>4. ClockBound'
    BY <1>a, <1>c DEF ClockBound
  <2>5. InFlight'
    BY DEF InFlight, calls
  <2>6. StampBound'
    BY DEF StampBound, calls
  <2>7. CacheSound'
    BY DEF CacheSound, Lag
  <2>8. HeldSound'
    BY DEF HeldSound, calls
  <2>9. NothingHeld'
    BY DEF NothingHeld, calls
  <2>10. QED
    BY <2>1, <2>2, <2>3, <2>4, <2>5, <2>6, <2>7, <2>8, <2>9
<1>11. CASE UNCHANGED vars
  BY <1>11 DEF vars, clocks, calls, TypeOK, MutualExclusion, ExchangeJustified,
     ClockBound, InFlight, StampBound, CacheSound, HeldSound, NothingHeld, Lag
<1>12. QED
  BY <1>1, <1>2, <1>3, <1>4, <1>5, <1>6, <1>7, <1>8, <1>9, <1>10, <1>11 DEF Next

\* The strengthened invariant holds in every state.
THEOREM Inductive == Spec => []IInv
<1>1. Init => IInv
  BY InitIInv
<1>2. IInv /\ [Next]_vars => IInv'
  BY NextIInv
<1>3. QED
  BY <1>1, <1>2, PTL DEF Spec

\* Every variable keeps its type (the fields of tokenSource and the progress
\* of each call to Token).
THEOREM TypeCorrect == Spec => []TypeOK
<1>1. IInv => TypeOK
  BY DEF IInv
<1>2. QED
  BY <1>1, Inductive, PTL

\* The lock is held exactly while a caller checks the cache or exchanges
\* credentials: Token's ts.mu and its counterparts.
THEOREM Exclusive == Spec => []MutualExclusion
<1>1. IInv => MutualExclusion
  BY DEF IInv
<1>2. QED
  BY <1>1, Inductive, PTL

\* No exchange runs beside one that has refreshed the cache: the check of the
\* cache under the lock makes concurrent callers share a refresh.
THEOREM Justified == Spec => []ExchangeJustified
<1>1. IInv => ExchangeJustified
  BY DEF IInv
<1>2. QED
  BY <1>1, Inductive, PTL

\* The promise of tokenSource's comment: while the request made with a token
\* may be on its way, the server still honours the token, for every clock
\* error and every latency that the leeway leaves room for.
THEOREM LeewaySuffices == Spec => []NoTransient401
<1>1. IInv => NoTransient401
  <2> SUFFICES ASSUME IInv, NEW c \in Callers, pc[c] = "holding",
                      token[c] # None, token[c].life > Leeway
               PROVE  now < token[c].until
    BY DEF NoTransient401
  <2>1. token[c].until \in Nat /\ since[c] \in Nat /\ now \in Nat /\ Timeout \in Nat
    BY TimingAssumption DEF IInv, TypeOK, Tokens
  <2>2. since[c] + Timeout < token[c].until /\ now <= since[c] + Timeout
    BY DEF IInv, HeldSound, InFlight
  <2>3. QED
    BY <2>1, <2>2
<1>2. QED
  BY <1>1, Inductive, PTL
-----------------------------------------------------------------------------
\* Nor is an empty token cached by the SDKs that test for one.
CacheNotBlank == sdk # "php" /\ cache # None => cache.token # Blank

BlankFree == NoBlankToken /\ CacheNotBlank

LEMMA AcceptedHasText ==
    ASSUME NEW s \in Sdks \ {"php"}, NEW a, Verdict(s, a).ok
    PROVE  a.token = "text"
  BY DEF Sdks, Verdict, GoVerdict, PythonVerdict, JavaVerdict, Accept, Refuse

LEMMA BlankFreeStep == TypeOK /\ BlankFree /\ [Next]_vars => BlankFree'
<1> SUFFICES ASSUME TypeOK, BlankFree, [Next]_vars PROVE BlankFree'
  OBVIOUS
<1> USE CallersAssumption DEF BlankFree, NoBlankToken, CacheNotBlank
<1>1. ASSUME NEW c \in Callers, ServeCached(c) PROVE BlankFree'
  BY <1>1 DEF ServeCached, Fresh, TypeOK
<1>2. ASSUME NEW c \in Callers, AdoptToken(c) PROVE BlankFree'
  <2>1. PICK a \in Replies, life \in Lifetimes, issued \in since[c] .. now :
          /\ Verdict(sdk, a).ok
          /\ cache' = [token |-> IssuedToken(a, issued, life),
                       expires |-> Expiry(c, Verdict(sdk, a).ttl)]
          /\ token' = [token EXCEPT ![c] = IssuedToken(a, issued, life)]
    BY <1>2 DEF AdoptToken
  <2>2. sdk' = sdk /\ sdk \in Sdks
    BY <1>2, DialectsAssumption DEF AdoptToken, TypeOK
  <2>3. sdk # "php" => IssuedToken(a, issued, life) = [until |-> issued + life, life |-> life]
    BY <2>1, <2>2, AcceptedHasText DEF IssuedToken
  <2>4. life # 0
    BY RepliesAssumption
  <2>5. sdk # "php" => IssuedToken(a, issued, life) # Blank
    BY <2>3, <2>4 DEF Blank
  <2>6. QED
    BY <2>1, <2>2, <2>5 DEF TypeOK
<1>3. ASSUME NEW c \in Callers, Finish(c) PROVE BlankFree'
  BY <1>3 DEF Finish, TypeOK, Blank, Tokens
<1>4. ASSUME NEW c \in Callers,
             UseStatic(c) \/ Enter(c) \/ Acquire(c) \/ StartExchange(c) \/ ExchangeFails(c)
      PROVE  BlankFree'
  BY <1>4 DEF UseStatic, Enter, Acquire, StartExchange, ExchangeFails
<1>5. CASE Tick \/ AdjustClock \/ UNCHANGED vars
  BY <1>5 DEF Tick, AdjustClock, vars, calls
<1>6. QED
  BY <1>1, <1>2, <1>3, <1>4, <1>5 DEF Next

\* No caller of the Go, Python or Java SDK is ever given an empty token: their
\* decoders refuse one, and nothing else fills the cache.
THEOREM NeverBlank == Spec => []NoBlankToken
<1>1. Init => BlankFree
  BY CallersAssumption DEF Init, BlankFree, NoBlankToken, CacheNotBlank, Blank, Tokens
<1>2. TypeOK /\ BlankFree /\ [Next]_vars => BlankFree'
  BY BlankFreeStep
<1>3. BlankFree => NoBlankToken
  BY DEF BlankFree
<1>4. QED
  BY <1>1, <1>2, <1>3, TypeCorrect, PTL DEF Spec
-----------------------------------------------------------------------------
(***************************************************************************)
(* The locked token source keeps the promises of TokenService.  A call     *)
(* that is given the configured token never reaches the service, so a      *)
(* client with one has no call waiting, checking or exchanging.            *)
(***************************************************************************)
StaticIsAlone == static => \A c \in Callers : pc[c] \in {"idle", "holding", "failed"}

LEMMA StaticStep == TypeOK /\ StaticIsAlone /\ [Next]_vars => StaticIsAlone'
<1> SUFFICES ASSUME TypeOK, StaticIsAlone, [Next]_vars PROVE StaticIsAlone'
  OBVIOUS
<1> USE DEF StaticIsAlone, TypeOK
<1>1. ASSUME NEW c \in Callers,
             \/ UseStatic(c) \/ Enter(c) \/ Acquire(c) \/ ServeCached(c)
             \/ StartExchange(c) \/ AdoptToken(c) \/ ExchangeFails(c) \/ Finish(c)
      PROVE  StaticIsAlone'
  BY <1>1 DEF UseStatic, Enter, Acquire, ServeCached, StartExchange, AdoptToken,
              ExchangeFails, Finish
<1>2. CASE Tick \/ AdjustClock \/ UNCHANGED vars
  BY <1>2 DEF Tick, AdjustClock, vars, calls
<1>3. QED
  BY <1>1, <1>2 DEF Next

Phase == [c \in Callers |->
            CASE pc[c] = "idle" -> "idle"
              [] pc[c] = "holding" -> IF static THEN "idle" ELSE "served"
              [] pc[c] = "failed" -> "failed"
              [] OTHER -> "pending"]
Cred == IF cache = None THEN "none" ELSE IF Fresh THEN "usable" ELSE "stale"
Joined == {c \in Callers : pc[c] = "exchanging"}
Owed == [c \in Callers |-> "nothing"]

\* What an accepted answer puts into the cache is an entry.
LEMMA CacheFilled ==
    ASSUME TypeOK, NEW c \in Callers, AdoptToken(c)
    PROVE  cache' \in Entries
<1>1. PICK a \in Replies, life \in Lifetimes, issued \in since[c] .. now :
        /\ Verdict(sdk, a).ok
        /\ cache' = [token |-> IssuedToken(a, issued, life),
                     expires |-> Expiry(c, Verdict(sdk, a).ttl)]
  BY DEF AdoptToken
<1>2. /\ sdk \in Sdks /\ since[c] \in Nat /\ stamp[c] \in Nat /\ local \in Nat
      /\ now \in Nat /\ a \in Answers /\ life \in Nat
  BY DialectsAssumption, RepliesAssumption, TimingAssumption DEF TypeOK
<1>3. issued \in Nat
  BY <1>2
<1>4. IssuedToken(a, issued, life) \in Tokens
  BY <1>2, <1>3 DEF IssuedToken, Blank, Tokens
<1>5. Expiry(c, Verdict(sdk, a).ttl) \in Int
  BY <1>1, <1>2, VerdictBound DEF Expiry
<1>6. QED
  BY <1>1, <1>4, <1>5 DEF Entries

LEMMA LockedRefStep == IInv /\ StaticIsAlone /\ [Next]_vars => [Service!Next]_(Service!vars)
<1> SUFFICES ASSUME IInv, StaticIsAlone, [Next]_vars PROVE [Service!Next]_(Service!vars)
  OBVIOUS
<1>p. /\ pc \in [Callers -> Steps] /\ cache \in Entries \cup {None} /\ None \notin Entries
      /\ MutualExclusion /\ StaticIsAlone
  BY CallersAssumption DEF IInv, TypeOK
<1>v. ASSUME UNCHANGED <<Phase, Cred, Joined>> PROVE [Service!Next]_(Service!vars)
  BY <1>v DEF Phase, Cred, Joined, Service!vars
<1>c. ASSUME NEW c \in Callers, \/ Service!Call(c) \/ Service!ServeCached(c)
                                \/ Service!Begin(c) \/ Service!Finish(c)
      PROVE  [Service!Next]_(Service!vars)
  BY <1>c DEF Service!Next
<1>e. ASSUME NEW o \in {"served", "failed"}, Service!End(o)
      PROVE  [Service!Next]_(Service!vars)
  BY <1>e DEF Service!Next, Service!Outcomes
<1>1. ASSUME NEW c \in Callers, UseStatic(c) PROVE [Service!Next]_(Service!vars)
  <2>1. Phase' = Phase /\ Joined' = Joined
    BY <1>p, <1>1 DEF UseStatic, Phase, Joined
  <2>2. Cred' = Cred
    BY <1>1 DEF UseStatic, clocks, Cred, Fresh, GoFresh, PythonFresh, JavaFresh, PhpFresh
  <2>3. QED
    BY <1>v, <2>1, <2>2
<1>2. ASSUME NEW c \in Callers, Enter(c) PROVE [Service!Next]_(Service!vars)
  <2>1. /\ Phase' = [Phase EXCEPT ![c] = "pending"] /\ Joined' = Joined /\ Phase[c] = "idle"
    BY <1>p, <1>2 DEF Enter, Phase, Joined
  <2>2. Cred' = Cred
    BY <1>2 DEF Enter, clocks, Cred, Fresh, GoFresh, PythonFresh, JavaFresh, PhpFresh
  <2>3. Service!Call(c)
    BY <2>1, <2>2 DEF Phase, Cred, Joined, Service!Call
  <2>4. QED
    BY <1>c, <2>3
<1>3. ASSUME NEW c \in Callers, Acquire(c) PROVE [Service!Next]_(Service!vars)
  <2>1. Phase' = Phase /\ Joined' = Joined
    BY <1>p, <1>3 DEF Acquire, Phase, Joined
  <2>2. Cred' = Cred
    BY <1>3 DEF Acquire, clocks, Cred, Fresh, GoFresh, PythonFresh, JavaFresh, PhpFresh
  <2>3. QED
    BY <1>v, <2>1, <2>2
<1>4. ASSUME NEW c \in Callers, ServeCached(c) PROVE [Service!Next]_(Service!vars)
  <2>1. /\ ~static /\ static' = static
        /\ pc[c] = "checking" /\ pc' = [pc EXCEPT ![c] = "holding"]
    BY <1>p, <1>4 DEF ServeCached, StaticIsAlone
  <2>2. /\ Phase' = [Phase EXCEPT ![c] = "served"] /\ Joined' = Joined
        /\ Phase[c] = "pending" /\ c \notin Joined
    BY <1>p, <2>1 DEF Phase, Joined
  <2>3. Cred' = Cred /\ Cred = "usable"
    BY <1>4 DEF ServeCached, clocks, Cred, Fresh, GoFresh, PythonFresh, JavaFresh, PhpFresh
  <2>4. Service!ServeCached(c)
    BY <2>2, <2>3 DEF Phase, Cred, Joined, Service!ServeCached, Service!Free, Service!Answer
  <2>5. QED
    BY <1>c, <2>4
<1>5. ASSUME NEW c \in Callers, StartExchange(c) PROVE [Service!Next]_(Service!vars)
  <2>1. Joined = {}
    BY <1>p, <1>5 DEF StartExchange, MutualExclusion, Joined
  <2>2. /\ Phase' = [Phase EXCEPT ![c] = "pending"] /\ Joined' = {c} /\ Phase[c] = "pending"
    BY <1>p, <1>5, <2>1 DEF StartExchange, Phase, Joined
  <2>3. Cred' = Cred /\ Cred # "usable"
    BY <1>5 DEF StartExchange, clocks, Cred, Fresh, GoFresh, PythonFresh, JavaFresh, PhpFresh
  <2>4. Service!Begin(c)
    BY <2>1, <2>2, <2>3 DEF Phase, Cred, Joined, Service!Begin, Service!Free
  <2>5. QED
    BY <1>c, <2>4
\* An exchange ends, and the call in it is answered at once.
<1>6. ASSUME NEW c \in Callers, NEW o \in {"served", "failed"}, pc[c] = "exchanging",
             Phase' = [Phase EXCEPT ![c] = o], Joined' = Joined \ {c},
             IF o = "served" THEN Cred' \in {"stale", "usable"} ELSE Cred' = Cred
      PROVE  [Service!Next]_(Service!vars)
  <2>1. Joined = {c}
    BY <1>p, <1>6 DEF MutualExclusion, Joined
  <2>2. /\ {c} \in SUBSET Joined /\ Joined' = {}
        /\ Phase' = [d \in Callers |-> IF d \in {c} THEN o ELSE Phase[d]]
        /\ Owed' = [d \in Callers |-> IF d \in Joined \ {c} THEN o ELSE Owed[d]]
    BY <1>6, <2>1 DEF Phase, Owed
  <2>3. Service!End(o)
    BY <1>6, <2>1, <2>2 DEF Phase, Cred, Joined, Owed, Service!End, Service!Store
  <2>4. QED
    BY <1>e, <2>3
<1>7. ASSUME NEW c \in Callers, AdoptToken(c) PROVE [Service!Next]_(Service!vars)
  <2>1. /\ ~static /\ static' = static
        /\ pc[c] = "exchanging" /\ pc' = [pc EXCEPT ![c] = "holding"]
    BY <1>p, <1>7 DEF AdoptToken, StaticIsAlone
  <2>2. Phase' = [Phase EXCEPT ![c] = "served"] /\ Joined' = Joined \ {c}
    BY <1>p, <2>1 DEF Phase, Joined
  <2>3. cache' \in Entries
    BY <1>7, CacheFilled DEF IInv
  <2>4. Cred' \in {"stale", "usable"}
    BY <1>p, <2>3 DEF Cred
  <2>5. QED
    BY <1>6, <2>1, <2>2, <2>4
<1>8. ASSUME NEW c \in Callers, ExchangeFails(c) PROVE [Service!Next]_(Service!vars)
  <2>1. /\ pc[c] = "exchanging" /\ Phase' = [Phase EXCEPT ![c] = "failed"]
        /\ Joined' = Joined \ {c}
    BY <1>p, <1>8 DEF ExchangeFails, Phase, Joined
  <2>2. Cred' = Cred
    BY <1>8 DEF ExchangeFails, clocks, Cred, Fresh, GoFresh, PythonFresh, JavaFresh, PhpFresh
  <2>3. QED
    BY <1>6, <2>1, <2>2
<1>9. ASSUME NEW c \in Callers, Finish(c) PROVE [Service!Next]_(Service!vars)
  <2>1. /\ Phase' = [Phase EXCEPT ![c] = "idle"] /\ Joined' = Joined
        /\ Phase[c] \in {"served", "failed"} \/ Phase[c] = "idle"
    BY <1>p, <1>9 DEF Finish, Phase, Joined
  <2>2. Cred' = Cred
    BY <1>9 DEF Finish, clocks, Cred, Fresh, GoFresh, PythonFresh, JavaFresh, PhpFresh
  <2>3. CASE Phase[c] = "idle"
    <3>1. Phase' = Phase
      BY <2>1, <2>3 DEF Phase
    <3>2. QED
      BY <1>v, <2>1, <2>2, <3>1
  <2>4. CASE Phase[c] \in {"served", "failed"}
    <3>1. Service!Finish(c)
      BY <2>1, <2>2, <2>4 DEF Phase, Cred, Joined, Service!Finish, Service!Outcomes
    <3>2. QED
      BY <1>c, <3>1
  <2>5. QED
    BY <2>1, <2>3, <2>4
<1>10. CASE Tick \/ AdjustClock
  <2>1. Phase' = Phase /\ Joined' = Joined /\ cache' = cache
    BY <1>10 DEF Tick, AdjustClock, calls, Phase, Joined
  <2>2. CASE cache = None
    BY <1>v, <2>1, <2>2 DEF Cred
  <2>3. CASE cache # None
    <3>1. Cred # "none" /\ Cred' \in {"stale", "usable"}
      BY <2>1, <2>3 DEF Cred
    <3>2. Service!Age
      BY <2>1, <3>1 DEF Phase, Cred, Joined, Service!Age
    <3>3. QED
      BY <3>2 DEF Service!Next
  <2>4. QED
    BY <2>2, <2>3
<1>11. CASE UNCHANGED vars
  BY <1>v, <1>11 DEF vars, calls, clocks, Phase, Cred, Joined, Fresh, GoFresh, PythonFresh,
     JavaFresh, PhpFresh
<1>12. QED
  BY <1>1, <1>2, <1>3, <1>4, <1>5, <1>7, <1>8, <1>9, <1>10, <1>11 DEF Next

\* What TokenService promises of every token source, the mutex of Go, Python
\* and Java and the single thread of PHP keep, for any set of callers.
THEOREM LockKeepsPromises == Spec => ImplementsService
<1>1. Init => Service!Init /\ StaticIsAlone
  BY DEF Init, Service!Init, StaticIsAlone
<1>2. IInv => TypeOK
  BY DEF IInv
<1>3. QED
  BY <1>1, <1>2, InitIInv, NextIInv, StaticStep, LockedRefStep, PTL
     DEF Spec, ImplementsService, Service!Spec
=============================================================================
