--------------------------- MODULE SemaphoreProofs ---------------------------
(***************************************************************************)
(* The permit of the semaphore token source is never lost and never        *)
(* doubled, and no wake-up is lost, for any number of tasks, cancelled and *)
(* disposed of in any order.                                               *)
(***************************************************************************)
EXTENDS SemaphoreTokenSource, SequenceTheorems, FiniteSetTheorems, TLAPS

(***************************************************************************)
(* Queues.                                                                 *)
(***************************************************************************)
LEMMA AppendToQueue ==
    ASSUME NEW S, NEW q \in Seq(S), IsInjective(q), NEW c \in S, c \notin Range(q)
    PROVE  LET r == Append(q, c)
           IN  r \in Seq(S) /\ IsInjective(r) /\ Range(r) = Range(q) \cup {c}
<1> DEFINE r == Append(q, c)
<1>1. /\ r \in Seq(S) /\ Len(r) = Len(q) + 1 /\ Len(q) \in Nat
      /\ DOMAIN q = 1 .. Len(q) /\ DOMAIN r = 1 .. Len(q) + 1
      /\ \A i \in 1 .. Len(q) : r[i] = q[i]
      /\ r[Len(q) + 1] = c
  BY AppendProperties, LenProperties
<1> HIDE DEF r
<1>2. IsInjective(r)
  BY <1>1 DEF IsInjective, Range
<1>3. Range(r) = Range(q) \cup {c}
  BY <1>1 DEF Range
<1> QED
  BY <1>1, <1>2, <1>3 DEF r

LEMMA TailOfQueue ==
    ASSUME NEW S, NEW q \in Seq(S), IsInjective(q), q # <<>>
    PROVE  LET r == Tail(q)
           IN  /\ r \in Seq(S) /\ IsInjective(r)
               /\ Head(q) \in Range(q) /\ Range(r) = Range(q) \ {Head(q)}
<1> DEFINE r == Tail(q)
<1>1. /\ r \in Seq(S) /\ Len(r) = Len(q) - 1 /\ Len(q) \in Nat \ {0}
      /\ DOMAIN q = 1 .. Len(q) /\ DOMAIN r = 1 .. Len(q) - 1
      /\ \A i \in 1 .. Len(q) - 1 : r[i] = q[i + 1]
      /\ Head(q) = q[1]
  BY HeadTailProperties, LenProperties, EmptySeq
<1> HIDE DEF r
<1>2. IsInjective(r)
  BY <1>1 DEF IsInjective
<1>3. ASSUME NEW x \in Range(q), x # Head(q) PROVE x \in Range(r)
  <2>1. PICK i \in 1 .. Len(q) : x = q[i]
    BY <1>1 DEF Range
  <2>2. i # 1 /\ i - 1 \in 1 .. Len(q) - 1 /\ (i - 1) + 1 = i
    BY <1>1, <1>3, <2>1
  <2> QED
    BY <1>1, <2>1, <2>2 DEF Range
<1>4. ASSUME NEW x \in Range(r) PROVE x \in Range(q) /\ x # Head(q)
  <2>1. PICK i \in 1 .. Len(q) - 1 : x = q[i + 1]
    BY <1>1, <1>4 DEF Range
  <2>2. i + 1 \in 1 .. Len(q) /\ i + 1 # 1 /\ 1 \in 1 .. Len(q)
    BY <1>1
  <2>3. q[i + 1] # q[1]
    BY <1>1, <2>2 DEF IsInjective
  <2> QED
    BY <1>1, <2>1, <2>2, <2>3 DEF Range
<1>5. Head(q) \in Range(q)
  BY <1>1 DEF Range
<1> QED
  BY <1>1, <1>2, <1>3, <1>4, <1>5 DEF r

LEMMA RemoveFromQueue ==
    ASSUME NEW S, NEW q \in Seq(S), IsInjective(q), NEW k \in DOMAIN q
    PROVE  LET r == RemoveAt(q, k)
           IN  r \in Seq(S) /\ IsInjective(r) /\ Range(r) = Range(q) \ {q[k]}
<1> DEFINE front == SubSeq(q, 1, k - 1)
           back == SubSeq(q, k + 1, Len(q))
           r == front \o back
<1>1. /\ Len(q) \in Nat /\ DOMAIN q = 1 .. Len(q) /\ k \in 1 .. Len(q)
      /\ \A i \in 1 .. Len(q) : q[i] \in S
  BY LenProperties, ElementOfSeq
<1>2. /\ front \in Seq(S) /\ Len(front) = k - 1
      /\ \A i \in 1 .. k - 1 : front[i] = q[i]
  BY <1>1, SubSeqProperties
<1>3. /\ back \in Seq(S) /\ Len(back) = Len(q) - k
      /\ \A i \in 1 .. Len(q) - k : back[i] = q[i + k]
  <2>1. \A i \in k + 1 .. Len(q) : q[i] \in S
    BY <1>1
  <2>2. /\ back \in Seq(S)
        /\ Len(back) = IF k + 1 <= Len(q) THEN Len(q) - (k + 1) + 1 ELSE 0
        /\ \A i \in 1 .. Len(q) - (k + 1) + 1 : back[i] = q[(k + 1) + i - 1]
    BY <1>1, <2>1, SubSeqProperties
  <2> HIDE DEF back
  <2>3. Len(back) = Len(q) - k
    BY <1>1, <2>2
  <2>4. ASSUME NEW i \in 1 .. Len(q) - k PROVE back[i] = q[i + k]
    <3>1. i \in 1 .. Len(q) - (k + 1) + 1 /\ (k + 1) + i - 1 = i + k
      BY <1>1
    <3> QED
      BY <2>2, <3>1
  <2> QED
    BY <2>2, <2>3, <2>4
<1> HIDE DEF front, back
<1>4. /\ r \in Seq(S) /\ Len(r) = Len(q) - 1
      /\ \A i \in 1 .. Len(q) - 1 : r[i] = IF i <= k - 1 THEN front[i] ELSE back[i - (k - 1)]
  <2>1. /\ r \in Seq(S) /\ Len(r) = Len(front) + Len(back)
        /\ \A i \in 1 .. Len(front) + Len(back) :
              r[i] = IF i <= Len(front) THEN front[i] ELSE back[i - Len(front)]
    BY <1>2, <1>3, ConcatProperties
  <2>2. Len(front) + Len(back) = Len(q) - 1
    BY <1>1, <1>2, <1>3
  <2> HIDE DEF r
  <2> QED
    BY <1>2, <2>1, <2>2
<1>5. /\ DOMAIN r = 1 .. Len(q) - 1
      /\ \A i \in 1 .. Len(q) - 1 : r[i] = IF i < k THEN q[i] ELSE q[i + 1]
  <2>1. DOMAIN r = 1 .. Len(q) - 1
    BY <1>4, LenProperties
  <2>2. ASSUME NEW i \in 1 .. Len(q) - 1 PROVE r[i] = IF i < k THEN q[i] ELSE q[i + 1]
    <3>1. CASE i < k
      BY <1>1, <1>2, <1>4, <3>1
    <3>2. CASE ~(i < k)
      <4>1. i - (k - 1) \in 1 .. Len(q) - k /\ (i - (k - 1)) + k = i + 1
        BY <1>1, <3>2
      <4> QED
        BY <1>1, <1>3, <1>4, <3>2, <4>1
    <3> QED
      BY <3>1, <3>2
  <2> QED
    BY <2>1, <2>2
<1>6. r = RemoveAt(q, k)
  BY DEF RemoveAt, front, back
<1> HIDE DEF r
<1>7. IsInjective(r)
  BY <1>1, <1>5 DEF IsInjective
<1>8. ASSUME NEW x \in Range(q), x # q[k] PROVE x \in Range(r)
  <2>1. PICK i \in 1 .. Len(q) : x = q[i]
    BY <1>1 DEF Range
  <2>2. CASE i < k
    <3>1. i \in 1 .. Len(q) - 1
      BY <1>1, <2>2
    <3> QED
      BY <1>5, <2>1, <2>2, <3>1 DEF Range
  <2>3. CASE i > k
    <3>1. i - 1 \in 1 .. Len(q) - 1 /\ ~(i - 1 < k) /\ (i - 1) + 1 = i
      BY <1>1, <2>3
    <3> QED
      BY <1>5, <2>1, <3>1 DEF Range
  <2> QED
    BY <1>1, <1>8, <2>1, <2>2, <2>3
<1>9. ASSUME NEW x \in Range(r) PROVE x \in Range(q) /\ x # q[k]
  <2>1. PICK i \in 1 .. Len(q) - 1 : x = r[i]
    BY <1>5, <1>9 DEF Range
  <2>2. PICK j \in 1 .. Len(q) : j # k /\ x = q[j]
    <3>1. CASE i < k
      BY <1>1, <1>5, <2>1, <3>1
    <3>2. CASE ~(i < k)
      BY <1>1, <1>5, <2>1, <3>2
    <3> QED
      BY <3>1, <3>2
  <2> QED
    BY <1>1, <2>2 DEF Range, IsInjective
<1> QED
  BY <1>4, <1>6, <1>7, <1>8, <1>9
-----------------------------------------------------------------------------
(***************************************************************************)
(* The semaphore.                                                          *)
(***************************************************************************)
\* One call holds the permit, or the semaphore does.
PermitHeld ==
    /\ \A c, d \in Holders : c = d
    /\ client # "disposed" => (permits = 1 <=> Holders = {})

\* The finally block of a call knows how its try block ended.
ResultKnown == \A c \in Callers : pc[c] = "releasing" => result[c] \in {"served", "failed"}

SemInv == TypeOK /\ PermitHeld /\ ResultKnown /\ NoLostWakeup

LEMMA SemInit == Init => SemInv
<1> SUFFICES ASSUME Init PROVE SemInv
  OBVIOUS
<1>1. Holders = {} /\ Range(queue) = {} /\ IsInjective(queue)
  BY DEF Init, Holders, Holding, Range, IsInjective
<1> QED
  BY <1>1, EmptySeq DEF Init, SemInv, TypeOK, Steps, PermitHeld, ResultKnown, NoLostWakeup

\* A step of a call that holds no permit and does not wait, before it or after.
LEMMA OutsideStep ==
    ASSUME SemInv, NEW c \in Callers, NEW step \in Steps \ (Holding \cup {"queued"}),
           pc[c] \notin Holding \cup {"queued"}, Goto(c, step),
           UNCHANGED <<client, permits, queue, cache, result>>,
           cancelled' \subseteq Callers
    PROVE  SemInv'
<1> USE DEF SemInv
<1>1. pc \in [Callers -> Steps] /\ pc' = [pc EXCEPT ![c] = step]
  BY DEF TypeOK, Goto
<1>2. TypeOK'
  BY <1>1 DEF TypeOK
<1>3. Holders' = Holders
  BY <1>1 DEF Holders, Holding
<1>4. PermitHeld' /\ ResultKnown'
  BY <1>1, <1>3 DEF PermitHeld, ResultKnown, Holding
<1>5. NoLostWakeup'
  BY <1>1 DEF NoLostWakeup
<1> QED
  BY <1>2, <1>4, <1>5

\* A step of a call that holds the permit and keeps it.
LEMMA HolderStep ==
    ASSUME SemInv, NEW c \in Callers, NEW step \in Holding, pc[c] \in Holding,
           Goto(c, step), UNCHANGED <<client, permits, queue, cancelled>>,
           cache' \in {"none", "stale", "usable"},
           NEW r \in {"none", "served", "failed"},
           step = "releasing" => r # "none",
           result' = [result EXCEPT ![c] = r]
    PROVE  SemInv'
<1> USE DEF SemInv
<1>1. /\ pc \in [Callers -> Steps] /\ pc' = [pc EXCEPT ![c] = step]
      /\ result \in [Callers -> {"none", "served", "failed"}]
  BY DEF TypeOK, Goto
<1>2. TypeOK'
  BY <1>1 DEF TypeOK, Holding, Steps
<1>3. Holders' = Holders
  BY <1>1 DEF Holders, Holding
<1>4. PermitHeld' /\ ResultKnown'
  BY <1>1, <1>3 DEF PermitHeld, ResultKnown
<1>5. NoLostWakeup'
  BY <1>1 DEF NoLostWakeup, Holding
<1> QED
  BY <1>2, <1>4, <1>5

LEMMA TakesStep ==
    ASSUME SemInv, NEW c \in Callers, WaitTakes(c)
    PROVE  SemInv'
<1> USE DEF SemInv
<1>1. /\ pc \in [Callers -> Steps] /\ pc' = [pc EXCEPT ![c] = "checking"]
      /\ pc[c] = "entering" /\ client # "disposed" /\ permits = 1 /\ permits' = 0
      /\ UNCHANGED <<client, queue, cancelled, cache, result>>
  BY DEF TypeOK, WaitTakes, Goto
<1>2. TypeOK'
  BY <1>1 DEF TypeOK, Steps
<1>3. Holders = {} /\ Holders' = {c}
  BY <1>1 DEF PermitHeld, Holders, Holding
<1>4. PermitHeld' /\ ResultKnown'
  BY <1>1, <1>3 DEF PermitHeld, ResultKnown
<1>5. NoLostWakeup'
  BY <1>1 DEF NoLostWakeup
<1> QED
  BY <1>2, <1>4, <1>5

LEMMA QueuesStep ==
    ASSUME SemInv, NEW c \in Callers, WaitQueues(c)
    PROVE  SemInv'
<1> USE DEF SemInv
<1>1. /\ pc \in [Callers -> Steps] /\ pc' = [pc EXCEPT ![c] = "queued"]
      /\ pc[c] = "entering" /\ client # "disposed" /\ permits = 0
      /\ queue \in Seq(Callers) /\ queue' = Append(queue, c)
      /\ UNCHANGED <<client, permits, cancelled, cache, result>>
  BY DEF TypeOK, WaitQueues, Goto
<1>2. IsInjective(queue) /\ c \notin Range(queue)
  BY <1>1 DEF NoLostWakeup
<1>3. queue' \in Seq(Callers) /\ IsInjective(queue') /\ Range(queue') = Range(queue) \cup {c}
  BY <1>1, <1>2, AppendToQueue
<1>4. TypeOK'
  BY <1>1, <1>3 DEF TypeOK, Steps
<1>5. Holders' = Holders
  BY <1>1 DEF Holders, Holding
<1>6. PermitHeld' /\ ResultKnown'
  BY <1>1, <1>5 DEF PermitHeld, ResultKnown
<1>7. NoLostWakeup'
  BY <1>1, <1>3 DEF NoLostWakeup
<1> QED
  BY <1>4, <1>6, <1>7

LEMMA CancelledStep ==
    ASSUME SemInv, NEW c \in Callers, WaitCancelled(c)
    PROVE  SemInv'
<1> USE DEF SemInv
<1>1. /\ pc \in [Callers -> Steps] /\ pc' = [pc EXCEPT ![c] = "failed"]
      /\ pc[c] = "queued" /\ queue \in Seq(Callers)
      /\ UNCHANGED <<client, permits, cancelled, cache, result>>
  BY DEF TypeOK, WaitCancelled, Goto
<1>2. Holders' = Holders
  BY <1>1 DEF Holders, Holding
<1>3. PermitHeld' /\ ResultKnown'
  BY <1>1, <1>2 DEF PermitHeld, ResultKnown
<1>4. queue' \in Seq(Callers)
  <2>1. ASSUME NEW i \in DOMAIN queue PROVE RemoveAt(queue, i) \in Seq(Callers)
    <3>1. /\ Len(queue) \in Nat /\ DOMAIN queue = 1 .. Len(queue)
          /\ \A j \in 1 .. Len(queue) : queue[j] \in Callers
      BY <1>1, LenProperties, ElementOfSeq
    <3>2. SubSeq(queue, 1, i - 1) \in Seq(Callers)
      BY <3>1, SubSeqProperties
    <3>3. \A j \in i + 1 .. Len(queue) : queue[j] \in Callers
      BY <3>1
    <3>4. SubSeq(queue, i + 1, Len(queue)) \in Seq(Callers)
      BY <3>1, <3>3, SubSeqProperties
    <3> QED
      BY <3>2, <3>4, ConcatProperties DEF RemoveAt
  <2> QED
    BY <1>1, <2>1 DEF WaitCancelled
<1>5. TypeOK'
  BY <1>1, <1>4 DEF TypeOK, Steps
<1>6. ASSUME client # "disposed" PROVE NoLostWakeup'
  <2>1. IsInjective(queue) /\ c \in Range(queue)
    BY <1>1, <1>6 DEF NoLostWakeup
  <2>2. PICK i \in DOMAIN queue : queue[i] = c /\ queue' = RemoveAt(queue, i)
    BY <2>1 DEF WaitCancelled
  <2>3. IsInjective(queue') /\ Range(queue') = Range(queue) \ {c}
    BY <1>1, <2>1, <2>2, RemoveFromQueue
  <2>4. permits = 0
    BY <1>6, <2>1 DEF NoLostWakeup, TypeOK, Range
  <2> QED
    BY <1>1, <1>6, <2>3, <2>4 DEF NoLostWakeup
<1>7. NoLostWakeup'
  BY <1>1, <1>6 DEF NoLostWakeup
<1> QED
  BY <1>3, <1>5, <1>7

LEMMA ReleaseStep ==
    ASSUME SemInv, NEW c \in Callers, Release(c)
    PROVE  SemInv'
<1> USE DEF SemInv
<1>1. /\ pc \in [Callers -> Steps] /\ result \in [Callers -> {"none", "served", "failed"}]
      /\ pc[c] = "releasing" /\ client # "disposed" /\ queue \in Seq(Callers)
      /\ result[c] \in {"served", "failed"} /\ result' = [result EXCEPT ![c] = "none"]
      /\ UNCHANGED <<client, cancelled, cache>>
  BY DEF TypeOK, Release, ResultKnown
<1>2. Holders = {c} /\ permits = 0
  BY <1>1 DEF PermitHeld, Holders, Holding, TypeOK
<1>3. CASE queue = <<>>
  <2>1. permits' = 1 /\ pc' = [pc EXCEPT ![c] = result[c]] /\ queue' = queue
    BY <1>2, <1>3 DEF Release, Goto
  <2>2. TypeOK'
    BY <1>1, <2>1 DEF TypeOK, Steps
  <2>3. Holders' = {}
    BY <1>1, <1>2, <2>1 DEF Holders, Holding
  <2>4. PermitHeld' /\ ResultKnown'
    BY <1>1, <1>2, <2>1, <2>3 DEF PermitHeld, ResultKnown
  <2>5. NoLostWakeup'
    BY <1>1, <1>3, <2>1 DEF NoLostWakeup
  <2> QED
    BY <2>2, <2>4, <2>5
<1>4. CASE queue # <<>>
  <2> DEFINE h == Head(queue)
  <2>1. /\ queue' = Tail(queue) /\ permits' = permits
        /\ pc' = [pc EXCEPT ![c] = result[c], ![h] = "checking"]
    BY <1>4 DEF Release
  <2>2. /\ Tail(queue) \in Seq(Callers) /\ IsInjective(Tail(queue))
        /\ h \in Range(queue) /\ Range(Tail(queue)) = Range(queue) \ {h}
    BY <1>1, <1>4, TailOfQueue DEF NoLostWakeup
  <2>3. h \in Callers
    BY <1>1, <1>4, HeadTailProperties
  <2> HIDE DEF h
  <2>4. pc[h] = "queued" /\ h # c
    BY <1>1, <2>2, <2>3 DEF NoLostWakeup
  <2>5. \A d \in Callers : pc'[d] = IF d = h THEN "checking"
                                    ELSE IF d = c THEN result[c] ELSE pc[d]
    BY <1>1, <2>1, <2>3, <2>4
  <2>6. pc' \in [Callers -> Steps]
    BY <1>1, <2>1, <2>3 DEF Steps
  <2>7. TypeOK'
    BY <1>1, <1>2, <2>1, <2>2, <2>6 DEF TypeOK
  <2>8. Holders' = {h}
    BY <1>1, <1>2, <2>3, <2>4, <2>5 DEF Holders, Holding
  <2>9. PermitHeld'
    BY <1>1, <1>2, <2>1, <2>8 DEF PermitHeld
  <2>10. ResultKnown'
    BY <1>1, <1>2, <2>4, <2>5 DEF ResultKnown, Holders, Holding
  <2>11. NoLostWakeup'
    BY <1>1, <1>2, <2>1, <2>2, <2>4, <2>5 DEF NoLostWakeup
  <2> QED
    BY <2>7, <2>9, <2>10, <2>11
<1> QED
  BY <1>3, <1>4

LEMMA ReleaseThrowsStep ==
    ASSUME SemInv, NEW c \in Callers, ReleaseThrows(c)
    PROVE  SemInv'
<1> USE DEF SemInv
<1>1. /\ pc \in [Callers -> Steps] /\ result \in [Callers -> {"none", "served", "failed"}]
      /\ pc[c] = "releasing" /\ client = "disposed" /\ pc' = [pc EXCEPT ![c] = "failed"]
      /\ result' = [result EXCEPT ![c] = "none"]
      /\ UNCHANGED <<client, permits, queue, cancelled, cache>>
  BY DEF TypeOK, ReleaseThrows, Goto
<1>2. TypeOK'
  BY <1>1 DEF TypeOK, Steps
<1>3. Holders' \subseteq Holders
  BY <1>1 DEF Holders, Holding
<1>4. PermitHeld' /\ ResultKnown' /\ NoLostWakeup'
  BY <1>1, <1>3 DEF PermitHeld, ResultKnown, NoLostWakeup
<1> QED
  BY <1>2, <1>4

LEMMA SemStep == SemInv /\ [Next]_vars => SemInv'
<1> SUFFICES ASSUME SemInv, [Next]_vars PROVE SemInv'
  OBVIOUS
<1>t. TypeOK
  BY DEF SemInv
<1>1. ASSUME NEW c \in Callers, Call(c) PROVE SemInv'
  BY <1>t, <1>1, OutsideStep DEF Call, TypeOK, Steps, Holding
<1>2. ASSUME NEW c \in Callers, WaitThrows(c) PROVE SemInv'
  BY <1>t, <1>2, OutsideStep DEF WaitThrows, TypeOK, Steps, Holding
<1>3. ASSUME NEW c \in Callers, ServeCached(c) PROVE SemInv'
  BY <1>t, <1>3, HolderStep DEF ServeCached, TypeOK, Holding
<1>4. ASSUME NEW c \in Callers, StartExchange(c) PROVE SemInv'
  <2>1. CASE client = "open"
    BY <1>t, <1>4, <2>1, HolderStep DEF StartExchange, TypeOK, Holding
  <2>2. CASE client # "open"
    BY <1>t, <1>4, <2>2, HolderStep DEF StartExchange, TypeOK, Holding
  <2> QED
    BY <2>1, <2>2
<1>5. ASSUME NEW c \in Callers, AdoptToken(c) PROVE SemInv'
  BY <1>t, <1>5, HolderStep DEF AdoptToken, TypeOK, Holding
<1>6. ASSUME NEW c \in Callers, ExchangeFails(c) PROVE SemInv'
  BY <1>t, <1>6, HolderStep DEF ExchangeFails, TypeOK, Holding
<1>7. ASSUME NEW c \in Callers, Finish(c) PROVE SemInv'
  BY <1>t, <1>7, OutsideStep DEF Finish, TypeOK, Steps, Holding
<1>8. CASE \/ \E c \in Callers : Cancel(c)
           \/ Age
           \/ UNCHANGED vars
  <2>1. UNCHANGED <<client, permits, queue, pc, result>>
    BY <1>8 DEF Cancel, Age, vars
  <2>2. cancelled' \subseteq Callers /\ cache' \in {"none", "stale", "usable"}
    BY <1>t, <1>8 DEF Cancel, Age, vars, TypeOK
  <2> QED
    BY <2>1, <2>2 DEF SemInv, TypeOK, PermitHeld, Holders, ResultKnown, NoLostWakeup
<1>9. CASE DisposeFlag
  BY <1>9 DEF DisposeFlag, SemInv, TypeOK, PermitHeld, Holders, ResultKnown, NoLostWakeup
<1>10. CASE DisposeSemaphore
  BY <1>10, EmptySeq DEF DisposeSemaphore, SemInv, TypeOK, PermitHeld, Holders, ResultKnown,
     NoLostWakeup
<1> QED
  BY <1>1, <1>2, <1>3, <1>4, <1>5, <1>6, <1>7, <1>8, <1>9, <1>10, TakesStep, QueuesStep,
     CancelledStep, ReleaseStep, ReleaseThrowsStep DEF Next, TaskStep

LEMMA SemInvariant == Spec => []SemInv
  BY SemInit, SemStep, PTL DEF Spec

\* The variables keep their types, for any set of tasks.
THEOREM TypeCorrect == Spec => []TypeOK
<1>1. SemInv => TypeOK
  BY DEF SemInv
<1> QED
  BY <1>1, SemInvariant, PTL

\* The permit is in the semaphore or with one call, whatever fails, is cancelled
\* or handed over, for any set of tasks.
THEOREM PermitKept == Spec => []PermitConserved
<1>1. SemInv => PermitConserved
  <2> SUFFICES ASSUME SemInv PROVE PermitConserved
    OBVIOUS
  <2>1. CASE Holders = {}
    BY <2>1, FS_EmptySet DEF SemInv, PermitHeld, PermitConserved, TypeOK
  <2>2. CASE Holders # {}
    <3>1. PICK c \in Holders : TRUE
      BY <2>2
    <3>2. Holders = {c}
      BY <3>1 DEF SemInv, PermitHeld
    <3>3. Cardinality(Holders) = 1
      BY <3>2, FS_Singleton
    <3> QED
      BY <2>2, <3>3 DEF SemInv, PermitHeld, PermitConserved, TypeOK
  <2> QED
    BY <2>1, <2>2
<1> QED
  BY <1>1, SemInvariant, PTL

\* No call sleeps beside a free permit, nor outside the queue that would wake
\* it, for any set of tasks.
THEOREM WakeupKept == Spec => []NoLostWakeup
<1>1. SemInv => NoLostWakeup
  BY DEF SemInv
<1> QED
  BY <1>1, SemInvariant, PTL
-----------------------------------------------------------------------------
(***************************************************************************)
(* The semaphore token source keeps the promises of TokenService.          *)
(***************************************************************************)
Phase == [c \in Callers |->
            IF pc[c] \in {"idle", "served", "failed"} THEN pc[c] ELSE "pending"]
Joined == {c \in Callers : pc[c] = "exchanging"}
Owed == [c \in Callers |-> IF result[c] = "none" THEN "nothing" ELSE result[c]]

\* Outside the finally block no call is owed anything.
OwedInRelease == \A c \in Callers : pc[c] # "releasing" => result[c] = "none"

RefInv == SemInv /\ OwedInRelease

LEMMA OwedStep == SemInv /\ OwedInRelease /\ [Next]_vars => OwedInRelease'
<1> SUFFICES ASSUME SemInv, OwedInRelease, [Next]_vars PROVE OwedInRelease'
  OBVIOUS
<1> USE DEF OwedInRelease
<1>1. /\ pc \in [Callers -> Steps] /\ result \in [Callers -> {"none", "served", "failed"}]
      /\ queue \in Seq(Callers)
  BY DEF SemInv, TypeOK
<1>2. ASSUME NEW c \in Callers, Call(c) \/ WaitThrows(c) \/ WaitTakes(c) \/ WaitQueues(c)
                                \/ WaitCancelled(c) \/ Finish(c)
      PROVE  OwedInRelease'
  BY <1>1, <1>2 DEF Call, WaitThrows, WaitTakes, WaitQueues, WaitCancelled, Finish, Goto
<1>3. ASSUME NEW c \in Callers, ServeCached(c) \/ StartExchange(c) \/ AdoptToken(c)
                                \/ ExchangeFails(c)
      PROVE  OwedInRelease'
  BY <1>1, <1>3 DEF ServeCached, StartExchange, AdoptToken, ExchangeFails, Goto
<1>4. ASSUME NEW c \in Callers, Release(c) PROVE OwedInRelease'
  <2>1. result' = [result EXCEPT ![c] = "none"] /\ pc[c] = "releasing"
    BY <1>4 DEF Release
  <2>2. CASE queue = <<>>
    BY <1>1, <1>4, <2>1, <2>2 DEF Release, Goto
  <2>3. CASE queue # <<>>
    <3>1. pc' = [pc EXCEPT ![c] = result[c], ![Head(queue)] = "checking"]
      BY <1>4, <2>3 DEF Release
    <3>2. Head(queue) \in Range(queue) /\ Head(queue) \in Callers /\ client # "disposed"
      BY <1>1, <1>4, <2>3, TailOfQueue, HeadTailProperties DEF SemInv, NoLostWakeup, Release
    <3>3. pc[Head(queue)] = "queued"
      BY <3>2 DEF SemInv, NoLostWakeup
    <3> QED
      BY <1>1, <2>1, <3>1, <3>2, <3>3
  <2> QED
    BY <2>2, <2>3
<1>5. ASSUME NEW c \in Callers, ReleaseThrows(c) PROVE OwedInRelease'
  BY <1>1, <1>5 DEF ReleaseThrows, Goto
<1>6. CASE \/ \E c \in Callers : Cancel(c)
           \/ DisposeFlag \/ DisposeSemaphore \/ Age \/ UNCHANGED vars
  BY <1>6 DEF Cancel, DisposeFlag, DisposeSemaphore, Age, vars
<1> QED
  BY <1>2, <1>3, <1>4, <1>5, <1>6 DEF Next, TaskStep

LEMMA RefStep == RefInv /\ [Next]_vars => [Service!Next]_(Service!vars)
<1> SUFFICES ASSUME RefInv, [Next]_vars PROVE [Service!Next]_(Service!vars)
  OBVIOUS
<1>t. /\ pc \in [Callers -> Steps] /\ result \in [Callers -> {"none", "served", "failed"}]
      /\ queue \in Seq(Callers) /\ cache \in {"none", "stale", "usable"}
      /\ OwedInRelease /\ PermitHeld /\ ResultKnown
  BY DEF RefInv, SemInv, TypeOK
<1>v. ASSUME UNCHANGED <<Phase, cache, Joined, Owed>> PROVE [Service!Next]_(Service!vars)
  BY <1>v DEF Phase, Joined, Owed, Service!vars
<1>c. ASSUME NEW c \in Callers, Service!Call(c) \/ Service!ServeCached(c) \/ Service!Begin(c)
               \/ Service!Deliver(c) \/ Service!GiveUp(c) \/ Service!Finish(c)
      PROVE  [Service!Next]_(Service!vars)
  BY <1>c DEF Service!Next
<1>e. ASSUME NEW o \in {"served", "failed"}, Service!End(o)
      PROVE  [Service!Next]_(Service!vars)
  BY <1>e DEF Service!Next, Service!Outcomes
\* A call that is cut short while it is owed nothing, or is owed a token.
<1>g. ASSUME NEW c \in Callers, pc[c] \notin {"served", "failed", "exchanging"},
             pc' = [pc EXCEPT ![c] = "failed"], result'[c] = "none",
             result' = [result EXCEPT ![c] = "none"], cache' = cache
      PROVE  [Service!Next]_(Service!vars)
  <2>1. /\ Phase' = [Phase EXCEPT ![c] = "failed"] /\ Owed' = [Owed EXCEPT ![c] = "nothing"]
        /\ Joined' = Joined /\ Phase[c] \in {"idle", "pending"} /\ c \notin Joined
    BY <1>t, <1>g DEF Phase, Joined, Owed, Steps
  <2>2. Service!GiveUp(c)
    BY <1>g, <2>1 DEF Phase, Joined, Owed, Service!GiveUp, Service!Answer
  <2> QED
    BY <1>c, <2>2
<1>1. ASSUME NEW c \in Callers, Call(c) PROVE [Service!Next]_(Service!vars)
  <2>1. CASE client = "open"
    <3>1. /\ Phase' = [Phase EXCEPT ![c] = "pending"] /\ Owed' = Owed /\ Joined' = Joined
          /\ Phase[c] = "idle" /\ cache' = cache
      BY <1>t, <1>1, <2>1 DEF Call, Goto, Phase, Joined, Owed
    <3>2. Service!Call(c)
      BY <3>1 DEF Phase, Joined, Owed, Service!Call
    <3> QED
      BY <1>c, <3>2
  <2>2. CASE client # "open"
    <3>1. result[c] = "none" /\ result' = result
      BY <1>t, <1>1 DEF Call, OwedInRelease
    <3> QED
      BY <1>t, <1>1, <1>g, <2>2, <3>1 DEF Call, Goto
  <2> QED
    BY <2>1, <2>2
<1>2. ASSUME NEW c \in Callers, WaitThrows(c) \/ WaitCancelled(c)
      PROVE  [Service!Next]_(Service!vars)
  <2>1. /\ pc[c] \in {"entering", "queued"} /\ pc' = [pc EXCEPT ![c] = "failed"]
        /\ result' = result /\ cache' = cache
    BY <1>2 DEF WaitThrows, WaitCancelled, Goto
  <2>2. result[c] = "none"
    BY <1>t, <2>1 DEF OwedInRelease
  <2> QED
    BY <1>t, <1>g, <2>1, <2>2
<1>3. ASSUME NEW c \in Callers, WaitTakes(c) \/ WaitQueues(c)
      PROVE  [Service!Next]_(Service!vars)
  BY <1>t, <1>3, <1>v DEF WaitTakes, WaitQueues, Goto, Phase, Joined, Owed
<1>4. ASSUME NEW c \in Callers, ServeCached(c) PROVE [Service!Next]_(Service!vars)
  <2>1. /\ pc[c] = "checking" /\ pc' = [pc EXCEPT ![c] = "releasing"] /\ result[c] = "none"
        /\ result' = [result EXCEPT ![c] = "served"] /\ cache = "usable" /\ cache' = cache
    BY <1>t, <1>4 DEF ServeCached, Goto, OwedInRelease
  <2>2. /\ Phase' = [Phase EXCEPT ![c] = "pending"] /\ Owed' = [Owed EXCEPT ![c] = "served"]
        /\ Joined' = Joined /\ Phase[c] = "pending" /\ c \notin Joined /\ Owed[c] = "nothing"
    BY <1>t, <2>1 DEF Phase, Joined, Owed
  <2>3. Service!ServeCached(c)
    BY <2>1, <2>2 DEF Phase, Joined, Owed, Service!ServeCached, Service!Free, Service!Answer
  <2> QED
    BY <1>c, <2>3
<1>5. ASSUME NEW c \in Callers, StartExchange(c) PROVE [Service!Next]_(Service!vars)
  <2>1. pc[c] = "checking" /\ result[c] = "none" /\ cache # "usable" /\ cache' = cache
    BY <1>t, <1>5 DEF StartExchange, OwedInRelease
  <2>2. CASE client = "open"
    <3>1. pc' = [pc EXCEPT ![c] = "exchanging"] /\ result' = [result EXCEPT ![c] = "none"]
      BY <1>5, <2>2 DEF StartExchange, Goto
    <3>2. Joined = {}
      BY <1>t, <2>1 DEF PermitHeld, Holders, Holding, Joined
    <3>3. /\ Phase' = [Phase EXCEPT ![c] = "pending"] /\ Owed' = Owed /\ Joined' = {c}
          /\ Phase[c] = "pending" /\ Owed[c] = "nothing"
      BY <1>t, <2>1, <3>1, <3>2 DEF Phase, Joined, Owed
    <3>4. Service!Begin(c)
      BY <2>1, <3>2, <3>3 DEF Phase, Joined, Owed, Service!Begin, Service!Free
    <3> QED
      BY <1>c, <3>4
  <2>3. CASE client # "open"
    <3>1. pc' = [pc EXCEPT ![c] = "releasing"] /\ result' = [result EXCEPT ![c] = "failed"]
      BY <1>5, <2>3 DEF StartExchange, Goto
    <3>2. /\ Phase' = [Phase EXCEPT ![c] = "pending"] /\ Owed' = [Owed EXCEPT ![c] = "failed"]
          /\ Joined' = Joined /\ Phase[c] = "pending" /\ c \notin Joined
      BY <1>t, <2>1, <3>1 DEF Phase, Joined, Owed
    <3>3. Service!GiveUp(c)
      BY <2>1, <3>2 DEF Phase, Joined, Owed, Service!GiveUp, Service!Answer
    <3> QED
      BY <1>c, <3>3
  <2> QED
    BY <2>2, <2>3
\* An exchange ends, and its call is owed the outcome.
<1>6. ASSUME NEW c \in Callers, NEW o \in {"served", "failed"}, pc[c] = "exchanging",
             pc' = [pc EXCEPT ![c] = "releasing"], result' = [result EXCEPT ![c] = o],
             IF o = "served" THEN cache' \in {"stale", "usable"} ELSE cache' = cache
      PROVE  [Service!Next]_(Service!vars)
  <2>1. Joined = {c}
    BY <1>t, <1>6 DEF PermitHeld, Holders, Holding, Joined
  <2>2. /\ Phase' = Phase /\ Joined' = {}
        /\ Owed' = [d \in Callers |-> IF d \in Joined THEN o ELSE Owed[d]]
    BY <1>t, <1>6, <2>1 DEF Phase, Joined, Owed
  <2>3. /\ Phase' = [d \in Callers |-> IF d \in {} THEN o ELSE Phase[d]]
        /\ Owed' = [d \in Callers |-> IF d \in Joined \ {} THEN o ELSE Owed[d]]
    BY <2>2 DEF Phase
  <2>4. Service!End(o)
    BY <1>6, <2>1, <2>2, <2>3 DEF Phase, Joined, Owed, Service!End, Service!Store
  <2> QED
    BY <1>e, <2>4
<1>7. ASSUME NEW c \in Callers, AdoptToken(c) PROVE [Service!Next]_(Service!vars)
  BY <1>7, <1>6 DEF AdoptToken, Goto
<1>8. ASSUME NEW c \in Callers, ExchangeFails(c) PROVE [Service!Next]_(Service!vars)
  BY <1>8, <1>6 DEF ExchangeFails, Goto
<1>9. ASSUME NEW c \in Callers, Release(c) PROVE [Service!Next]_(Service!vars)
  <2>1. /\ pc[c] = "releasing" /\ result[c] \in {"served", "failed"}
        /\ result' = [result EXCEPT ![c] = "none"] /\ cache' = cache
    BY <1>t, <1>9 DEF Release, ResultKnown
  <2>2. \A d \in Callers : pc'[d] = (IF d = c THEN result[c] ELSE pc[d])
                           \/ (d # c /\ pc[d] = "queued" /\ pc'[d] = "checking")
    <3>1. CASE queue = <<>>
      BY <1>t, <1>9, <3>1 DEF Release, Goto
    <3>2. CASE queue # <<>>
      <4>1. pc' = [pc EXCEPT ![c] = result[c], ![Head(queue)] = "checking"]
        BY <1>9, <3>2 DEF Release
      <4>2. Head(queue) \in Range(queue) /\ Head(queue) \in Callers /\ client # "disposed"
        BY <1>t, <1>9, <3>2, TailOfQueue, HeadTailProperties
           DEF RefInv, SemInv, NoLostWakeup, Release
      <4>3. pc[Head(queue)] = "queued"
        BY <4>2 DEF RefInv, SemInv, NoLostWakeup
      <4> QED
        BY <1>t, <2>1, <4>1, <4>2, <4>3
    <3> QED
      BY <3>1, <3>2
  <2>3. /\ Phase' = [Phase EXCEPT ![c] = result[c]] /\ Owed' = [Owed EXCEPT ![c] = "nothing"]
        /\ Joined' = Joined /\ Owed[c] = result[c]
    BY <1>t, <2>1, <2>2 DEF Phase, Joined, Owed
  <2>4. Service!Deliver(c)
    BY <2>1, <2>3 DEF Phase, Joined, Owed, Service!Deliver
  <2> QED
    BY <1>c, <2>4
<1>10. ASSUME NEW c \in Callers, ReleaseThrows(c) PROVE [Service!Next]_(Service!vars)
  BY <1>t, <1>10, <1>g DEF ReleaseThrows, Goto
<1>11. ASSUME NEW c \in Callers, Finish(c) PROVE [Service!Next]_(Service!vars)
  <2>1. /\ Phase' = [Phase EXCEPT ![c] = "idle"] /\ Owed' = Owed /\ Joined' = Joined
        /\ Phase[c] \in {"served", "failed"} /\ cache' = cache
    BY <1>t, <1>11 DEF Finish, Goto, Phase, Joined, Owed
  <2>2. Service!Finish(c)
    BY <2>1 DEF Phase, Joined, Owed, Service!Finish, Service!Outcomes
  <2> QED
    BY <1>c, <2>2
<1>12. CASE Age
  BY <1>12 DEF Age, Service!Next, Service!Age
<1>13. CASE \/ \E c \in Callers : Cancel(c)
            \/ DisposeFlag \/ DisposeSemaphore \/ UNCHANGED vars
  BY <1>13, <1>v DEF Cancel, DisposeFlag, DisposeSemaphore, vars, Phase, Joined, Owed
<1> QED
  BY <1>1, <1>2, <1>3, <1>4, <1>5, <1>7, <1>8, <1>9, <1>10, <1>11, <1>12, <1>13
     DEF Next, TaskStep

\* What TokenService promises of every token source, .NET's semaphore keeps, for
\* any set of tasks: one exchange at a time, none beside a usable token, no call
\* that fails but for its own exchange, its cancellation or the disposal.
THEOREM KeepsPromises == Spec => ImplementsService
<1>1. Init => RefInv
  BY SemInit DEF Init, RefInv, OwedInRelease
<1>2. RefInv /\ [Next]_vars => RefInv'
  BY SemStep, OwedStep DEF RefInv
<1>3. Init => Service!Init
  BY DEF Init, Service!Init
<1> QED
  BY <1>1, <1>2, <1>3, RefStep, PTL DEF Spec, ImplementsService, Service!Spec
=============================================================================
