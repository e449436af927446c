---------------------------- MODULE WebhookProofs ----------------------------
(***************************************************************************)
(* What the six webhook verifiers guarantee for every window, every clock  *)
(* and every number of rewritings of a delivery.                           *)
(***************************************************************************)
EXTENDS WebhookDelivery, SequenceTheorems, WellFoundedInduction, TLAPS

(***************************************************************************)
(* Seconds and ticks.                                                      *)
(***************************************************************************)
LEMMA WholeSeconds ==
    ASSUME NEW r \in Nat \ {0}, NEW c \in Int
    PROVE  c \div r \in Int /\ (c \div r) * r <= c /\ c < (c \div r) * r + r
  OBVIOUS

LEMMA TicksApart ==
    ASSUME NEW r \in Int, NEW a \in Int, NEW b \in Int
    PROVE  (a - b) * r = a * r - b * r /\ (a + 1) * r = a * r + r
  OBVIOUS

LEMMA TicksOrdered ==
    ASSUME NEW r \in Nat \ {0}, NEW a \in Int, NEW b \in Int, a < b
    PROVE  a * r + r <= b * r
  OBVIOUS

\* How far the clock is from a timestamp, in ticks.
Apart(t, clock) == clock - t * Rate

\* The window and its edge, in terms of that distance.
LEMMA SizeBounds ==
    ASSUME NEW n \in Int, NEW w \in Int, NEW r \in Int
    PROVE  /\ Abs(n) <= w => n <= w /\ -n <= w
           /\ n < r /\ -n < r => Abs(n) < r
           /\ Abs(n) \notin w + 1 .. r - 1 =>
                (n <= w /\ -n <= w) \/ n >= r \/ -n >= r
  BY DEF Abs

LEMMA WindowSizes ==
    ASSUME NEW t \in Int, NEW clock \in Int
    PROVE  /\ Abs(Apart(t, clock)) <= Window * Rate =>
                Apart(t, clock) <= Window * Rate /\ -Apart(t, clock) <= Window * Rate
           /\ Apart(t, clock) < (Window + 1) * Rate /\ -Apart(t, clock) < (Window + 1) * Rate =>
                Abs(Apart(t, clock)) < (Window + 1) * Rate
           /\ Abs(Apart(t, clock)) \notin Window * Rate + 1 .. (Window + 1) * Rate - 1 =>
                \/ Apart(t, clock) <= Window * Rate /\ -Apart(t, clock) <= Window * Rate
                \/ Apart(t, clock) >= (Window + 1) * Rate
                \/ -Apart(t, clock) >= (Window + 1) * Rate
<1> DEFINE n == Apart(t, clock)
           w == Window * Rate
           r == (Window + 1) * Rate
<1>1. n \in Int /\ w \in Int /\ r \in Int
  BY WindowAssumption DEF Apart
<1> HIDE DEF n, w, r
<1>2. /\ Abs(n) <= w => n <= w /\ -n <= w
      /\ n < r /\ -n < r => Abs(n) < r
      /\ Abs(n) \notin w + 1 .. r - 1 =>
           (n <= w /\ -n <= w) \/ n >= r \/ -n >= r
  BY <1>1, SizeBounds
<1> QED
  BY <1>2, Zenon DEF n, w, r

\* What no verifier takes for outside its window is less than a second beyond it.
LEMMA InsideWindow ==
    ASSUME NEW d, NEW t \in Int, NEW clock \in Int, ~OutsideWindow(d, t, clock)
    PROVE  Apart(t, clock) < (Window + 1) * Rate /\ -Apart(t, clock) < (Window + 1) * Rate
<1> DEFINE q == clock \div Rate
<1>1. Rate \in Nat \ {0} /\ Window \in Nat
  BY WindowAssumption
<1>2. q \in Int /\ q * Rate <= clock /\ clock < q * Rate + Rate
  BY <1>1, WholeSeconds
<1>3. (q - t) * Rate = q * Rate - t * Rate /\ (Window + 1) * Rate = Window * Rate + Rate
  BY <1>1, <1>2, TicksApart
<1>4. Window * Rate \in Int /\ t * Rate \in Int /\ q * Rate \in Int
  BY <1>1, <1>2
<1>5. CASE d.wholeSeconds
  <2>1. ~((q - t) * Rate > Window * Rate) /\ ~((q - t) * Rate < -(Window * Rate))
    BY <1>5 DEF OutsideWindow
  <2> QED
    BY <1>1, <1>2, <1>3, <1>4, <2>1 DEF Apart
<1>6. CASE ~d.wholeSeconds
  <2>1. ~(clock - t * Rate > Window * Rate) /\ ~(clock - t * Rate < -(Window * Rate))
    BY <1>6 DEF OutsideWindow
  <2> QED
    BY <1>1, <1>3, <1>4, <2>1 DEF Apart
<1> QED
  BY <1>5, <1>6

\* What is within the window is so for every verifier.
LEMMA WithinWindow ==
    ASSUME NEW d, NEW t \in Int, NEW clock \in Int,
           Apart(t, clock) <= Window * Rate, -Apart(t, clock) <= Window * Rate
    PROVE  ~OutsideWindow(d, t, clock)
<1> DEFINE q == clock \div Rate
<1>1. Rate \in Nat \ {0} /\ Window \in Nat
  BY WindowAssumption
<1>2. q \in Int /\ q * Rate <= clock /\ clock < q * Rate + Rate
  BY <1>1, WholeSeconds
<1>3. /\ (q - t) * Rate = q * Rate - t * Rate
      /\ (t - Window) * Rate = t * Rate - Window * Rate
  BY <1>1, <1>2, TicksApart
<1>4. Window * Rate \in Int /\ t * Rate \in Int /\ q * Rate \in Int
  BY <1>1, <1>2
<1>5. q * Rate >= (t - Window) * Rate
  <2>1. CASE q < t - Window
    <3>1. q * Rate + Rate <= (t - Window) * Rate
      BY <1>1, <1>2, <2>1, TicksOrdered
    <3> QED
      BY <1>1, <1>2, <1>3, <1>4, <3>1 DEF Apart
  <2>2. CASE ~(q < t - Window)
    BY <1>1, <1>2, <2>2, TicksOrdered
  <2> QED
    BY <2>1, <2>2
<1> HIDE DEF q
<1>6. /\ ~((q - t) * Rate > Window * Rate) /\ ~((q - t) * Rate < -(Window * Rate))
      /\ ~(clock - t * Rate > Window * Rate) /\ ~(clock - t * Rate < -(Window * Rate))
  BY <1>1, <1>2, <1>3, <1>4, <1>5 DEF Apart
<1> QED
  BY <1>6 DEF OutsideWindow, q

\* What is a second or more beyond the window is outside for every verifier.
LEMMA BeyondWindow ==
    ASSUME NEW d, NEW t \in Int, NEW clock \in Int,
           \/ Apart(t, clock) >= (Window + 1) * Rate
           \/ -Apart(t, clock) >= (Window + 1) * Rate
    PROVE  OutsideWindow(d, t, clock)
<1>1. Apart(t, clock) \in Int /\ (Window + 1) * Rate \in Int
  BY WindowAssumption DEF Apart
<1> QED
  BY <1>1, InsideWindow
-----------------------------------------------------------------------------
(***************************************************************************)
(* Indices and parts.                                                      *)
(***************************************************************************)
\* A set of indices has a last one.
LEMMA LastOfIndices ==
    ASSUME NEW n \in Nat, NEW S, S \subseteq 0 .. n, S # {}
    PROVE  Last(S) \in S /\ \A y \in S : Last(S) >= y
<1> DEFINE T == {n - i : i \in S}
<1>1. T \subseteq Nat /\ T # {}
  <2>1. ASSUME NEW i \in S PROVE n - i \in Nat
    <3>1. i \in 0 .. n
      OBVIOUS
    <3> QED
      BY <3>1
  <2>2. PICK i : i \in S
    OBVIOUS
  <2>3. n - i \in T
    BY <2>2
  <2> QED
    BY <2>1, <2>3
<1>2. PICK x \in T : \A y \in T : ~ (<<y, x>> \in OpToRel(<, Nat))
  BY <1>1, NatLessThanWellFounded, WFMin
<1>3. PICK i \in S : x = n - i
  BY <1>2
<1>4. ASSUME NEW j \in S PROVE i >= j
  <2>1. n - j \in T /\ n - j \in Nat /\ x \in Nat
    BY <1>1
  <2>2. ~ (n - j < x)
    BY <1>2, <2>1 DEF OpToRel
  <2> QED
    BY <1>3, <2>2
<1>5. \E k \in S : \A y \in S : k >= y
  BY <1>3, <1>4
<1> QED
  BY <1>5 DEF Last, Max

LEMMA LastOfOne == ASSUME NEW i \in Nat PROVE Last({i}) = i
<1>1. Last({i}) \in {i}
  BY LastOfIndices
<1> QED
  BY <1>1

\* A dialect looks at a prefix of the header, and what it leaves out is empty.
LEMMA PartsAreAPrefix ==
    ASSUME NEW d, NEW S, NEW h \in Seq(S)
    PROVE  \E k \in 0 .. Len(h) :
             /\ Parts(d, h) \in Seq(S)
             /\ DOMAIN Parts(d, h) = 1 .. k
             /\ \A i \in 1 .. k : Parts(d, h)[i] = h[i]
             /\ \A i \in k + 1 .. Len(h) : h[i].key = "nothing"
<1>1. Len(h) \in Nat /\ DOMAIN h = 1 .. Len(h) /\ \A i \in 1 .. Len(h) : h[i] \in S
  BY LenProperties, ElementOfSeq
<1>2. CASE ~d.dropsTrailing
  <2>1. Parts(d, h) = h
    BY <1>2 DEF Parts
  <2>2. Len(h) \in 0 .. Len(h) /\ Len(h) + 1 .. Len(h) = {}
    BY <1>1
  <2> QED
    BY <1>1, <2>1, <2>2
<1>3. CASE d.dropsTrailing
  <2> DEFINE full == {i \in DOMAIN h : h[i].key # "nothing"}
             within == {0} \cup full
             k == Max(within)
  <2>1. k \in within /\ \A y \in within : k >= y
    <3>1. within \subseteq 0 .. Len(h) /\ within # {}
      BY <1>1
    <3> HIDE DEF within
    <3>2. Last(within) \in within /\ \A y \in within : Last(within) >= y
      BY <1>1, <3>1, LastOfIndices
    <3> QED
      BY <3>2 DEF Last
  <2>2. Parts(d, h) = SubSeq(h, 1, k)
    BY <1>3 DEF Parts
  <2>3. k \in 0 .. Len(h)
    BY <1>1, <2>1
  <2> HIDE DEF k
  <2>4. \A i \in 1 .. k : h[i] \in S
    BY <1>1, <2>3
  <2>5. /\ Parts(d, h) \in Seq(S) /\ Len(Parts(d, h)) = k
        /\ \A i \in 1 .. k : Parts(d, h)[i] = h[i]
    <3>1. /\ Parts(d, h) \in Seq(S)
          /\ Len(Parts(d, h)) = IF 1 <= k THEN k - 1 + 1 ELSE 0
          /\ \A i \in 1 .. k - 1 + 1 : Parts(d, h)[i] = h[1 + i - 1]
      BY <2>2, <2>3, <2>4, SubSeqProperties
    <3>2. k - 1 + 1 = k /\ (1 <= k \/ k = 0) /\ \A i \in 1 .. k : 1 + i - 1 = i
      BY <2>3
    <3> QED
      BY <3>1, <3>2
  <2>6. DOMAIN Parts(d, h) = 1 .. k
    BY <2>5, LenProperties
  <2>7. ASSUME NEW i \in k + 1 .. Len(h) PROVE h[i].key = "nothing"
    <3>1. i \in DOMAIN h /\ ~(k >= i)
      BY <1>1, <2>3
    <3> QED
      BY <2>1, <3>1
  <2> QED
    BY <2>3, <2>5, <2>6, <2>7
<1> QED
  BY <1>2, <1>3
-----------------------------------------------------------------------------
(***************************************************************************)
(* The verifiers.                                                          *)
(***************************************************************************)
\* What the six dialects have in common.
LEMMA DialectsShare ==
    ASSUME NEW s \in Sdks
    PROVE  /\ "lower" \in Dialect(s).digests /\ "upper" \in Dialect(s).digests
           /\ "plain" \in Dialect(s).numbers
           /\ \A f \in DigestForms :
                \/ Dialect(s).otherwise[f] \in {"malformed", "mismatch"}
                \/ s = "python" /\ Dialect(s).otherwise[f] = "crash"
<1>1. CASE s = "go"
  BY <1>1 DEF Dialect, GoDialect
<1>2. CASE s = "python"
  BY <1>2 DEF Dialect, PythonDialect
<1>3. CASE s = "node"
  BY <1>3 DEF Dialect, NodeDialect
<1>4. CASE s = "java"
  BY <1>4 DEF Dialect, JavaDialect
<1>5. CASE s = "dotnet"
  BY <1>5 DEF Dialect, DotnetDialect
<1>6. CASE s = "php"
  BY <1>6 DEF Dialect, PhpDialect
<1> QED
  BY <1>1, <1>2, <1>3, <1>4, <1>5, <1>6 DEF Sdks

\* A part of a header: its value is a number or a digest.
Values == Int \cup (Int \X Bodies \X {Secret, NoSecret})
PartSet == [key : Keys, pad : Pads, form : NumberForms \cup DigestForms, value : Values]

\* A header whose timestamps are numbers and whose digests are one and the same,
\* but for those made without a secret.
Carries(h, digest) ==
    /\ h \in Seq(PartSet)
    /\ \A i \in DOMAIN h : h[i].key = "t" => h[i].value \in Int
    /\ \A i \in DOMAIN h : h[i].key = "v1" =>
         h[i].form \in DigestForms /\ h[i].value \in {digest} \cup BareDigests

LEMMA BareAreValues ==
    ASSUME NEW x \in BareDigests
    PROVE  x \in Values /\ x[3] = NoSecret
<1>1. PICK t \in 0 .. Horizon \div Rate, b \in Bodies : x = Digest(t, b, NoSecret)
  BY DEF BareDigests
<1>2. <<t, b, NoSecret>> \in Int \X Bodies \X {Secret, NoSecret}
  <2>1. t \in Int
    OBVIOUS
  <2> QED
    BY <2>1
<1>3. x = <<t, b, NoSecret>>
  BY <1>1 DEF Digest
<1> QED
  BY <1>2, <1>3 DEF Values

\* In a well-formed header the verifiers read a timestamp and a digest.
LEMMA PartsRead ==
    ASSUME NEW d, NEW h, NEW digest, Carries(h, digest), WellFormed(d, h)
    PROVE  LET parts == Parts(d, h)
               time == parts[Last(Occurrences(d, parts, "t"))]
               sig == parts[Last(Occurrences(d, parts, "v1"))]
           IN  /\ time.value \in Int
               /\ sig.form \in DigestForms /\ sig.value \in {digest} \cup BareDigests
               /\ \E i \in DOMAIN h : h[i].key = "v1" /\ sig = h[i]
<1> DEFINE parts == Parts(d, h)
           times == Occurrences(d, parts, "t")
           digests == Occurrences(d, parts, "v1")
<1>1. PICK k \in 0 .. Len(h) :
        /\ DOMAIN parts = 1 .. k
        /\ \A i \in 1 .. k : parts[i] = h[i]
  BY PartsAreAPrefix DEF Carries
<1>2. Len(h) \in Nat /\ DOMAIN h = 1 .. Len(h)
  BY LenProperties DEF Carries
<1>3. times # {} /\ digests # {}
  BY DEF WellFormed
<1>4. times \subseteq 0 .. k /\ digests \subseteq 0 .. k
  BY <1>1 DEF Occurrences
<1>5. Last(times) \in times /\ Last(digests) \in digests
  <2>1. k \in Nat
    BY <1>2
  <2> HIDE DEF times, digests
  <2>2. Last(times) \in times
    BY <1>3, <1>4, <2>1, LastOfIndices
  <2>3. Last(digests) \in digests
    BY <1>3, <1>4, <2>1, LastOfIndices
  <2> QED
    BY <2>2, <2>3
<1>6. /\ Last(times) \in 1 .. k /\ parts[Last(times)].key = "t"
      /\ Last(digests) \in 1 .. k /\ parts[Last(digests)].key = "v1"
  BY <1>1, <1>5 DEF Occurrences, Known
<1> HIDE DEF parts, times, digests
<1>7. /\ Last(times) \in DOMAIN h /\ h[Last(times)].key = "t"
      /\ Last(digests) \in DOMAIN h /\ h[Last(digests)].key = "v1"
      /\ parts[Last(times)] = h[Last(times)] /\ parts[Last(digests)] = h[Last(digests)]
  BY <1>1, <1>2, <1>6
<1>8. /\ parts[Last(times)].value \in Int
      /\ parts[Last(digests)].form \in DigestForms
      /\ parts[Last(digests)].value \in {digest} \cup BareDigests
      /\ \E i \in DOMAIN h : h[i].key = "v1" /\ parts[Last(digests)] = h[i]
  BY <1>7 DEF Carries
<1> QED
  BY <1>8 DEF parts, times, digests

\* The digests that the six dialects read.
LEMMA WholeRead ==
    ASSUME NEW s \in Sdks, NEW form, form \in Dialect(s).digests
    PROVE  Whole(s, form)
<1>1. CASE s = "go"
  BY <1>1 DEF Dialect, GoDialect, Whole
<1>2. CASE s = "python"
  BY <1>2 DEF Dialect, PythonDialect, Whole
<1>3. CASE s = "node"
  BY <1>3 DEF Dialect, NodeDialect, Whole
<1>4. CASE s = "java"
  BY <1>4 DEF Dialect, JavaDialect, Whole
<1>5. CASE s = "dotnet"
  BY <1>5 DEF Dialect, DotnetDialect, Whole
<1>6. CASE s = "php"
  BY <1>6 DEF Dialect, PhpDialect, Whole
<1> QED
  BY <1>1, <1>2, <1>3, <1>4, <1>5, <1>6 DEF Sdks

\* Three of them refuse to work without a secret.
LEMMA SecretNeeded ==
    ASSUME NEW s \in Sdks, ~Dialect(s).needsSecret
    PROVE  s \in {"go", "python", "node"}
<1>1. s # "java"
  BY DEF Dialect, JavaDialect
<1>2. s # "dotnet"
  BY DEF Dialect, DotnetDialect
<1>3. s # "php"
  BY DEF Dialect, PhpDialect
<1> QED
  BY <1>1, <1>2, <1>3 DEF Sdks

\* A header with the digest of second t and body b, whole and within the window.
SignedAt(s, key, b, h, clock, t) ==
    /\ \E i \in DOMAIN h : /\ h[i].key = "v1" /\ Whole(s, h[i].form)
                           /\ h[i].value = Digest(t, b, key)
    /\ ~OutsideWindow(Dialect(s), t, clock)

\* What a verifier accepts has, whole, the digest of the timestamp, the body and
\* the receiver's secret, and is within its window; it is the server's digest,
\* but where the secret is empty.
LEMMA AcceptedIsSigned ==
    ASSUME NEW s \in Sdks, NEW key, NEW b, NEW h, NEW clock, NEW digest,
           Carries(h, digest), Verify(s, key, b, h, clock) = "ok"
    PROVE  /\ key = NoSecret => s \in {"go", "python", "node"}
           /\ key # NoSecret => \E t \in Int : SignedAt(s, key, b, h, clock, t)
                                         /\ digest = Digest(t, b, key)
<1> DEFINE d == Dialect(s)
           parts == Parts(d, h)
           time == parts[Last(Occurrences(d, parts, "t"))]
           sig == parts[Last(Occurrences(d, parts, "v1"))]
<1>1. WellFormed(d, h) /\ ~OutsideWindow(d, time.value, clock)
  BY DEF Verify
<1>2. /\ time.value \in Int
      /\ sig.form \in DigestForms /\ sig.value \in {digest} \cup BareDigests
      /\ \E i \in DOMAIN h : h[i].key = "v1" /\ sig = h[i]
  BY <1>1, PartsRead
<1>3. FormSeen(d, sig) \in DigestForms
  BY <1>2 DEF FormSeen, DigestForms
<1>4. d.otherwise[FormSeen(d, sig)] # "ok"
  BY <1>3, DialectsShare
<1>5. Signs(sig.value, time.value, b, key) /\ FormSeen(d, sig) \in d.digests
  BY <1>4 DEF Verify
<1>6. Whole(s, sig.form)
  <2>1. Whole(s, FormSeen(d, sig))
    BY <1>5, WholeRead
  <2>2. ~Whole(s, "nonhex")
    BY DEF Whole
  <2> QED
    BY <2>1, <2>2 DEF FormSeen
<1>7. key = NoSecret => s \in {"go", "python", "node"}
  <2>1. ~(key = NoSecret /\ d.needsSecret)
    BY DEF Verify
  <2> QED
    BY <2>1, SecretNeeded
<1>8. sig.value = Digest(time.value, b, key)
  BY <1>5 DEF Signs
<1>9. key # NoSecret => sig.value = digest
  <2>1. sig.value[3] = key
    BY <1>8 DEF Digest
  <2> QED
    BY <1>2, <2>1, BareAreValues
<1> HIDE DEF d, time, sig
<1>10. PICK i \in DOMAIN h : h[i].key = "v1" /\ sig = h[i]
  BY <1>2
<1>11. PICK t \in Int : t = time.value
  BY <1>2
<1>12. ~OutsideWindow(Dialect(s), t, clock)
  BY <1>1, <1>11 DEF d
<1>13. SignedAt(s, key, b, h, clock, t)
  BY <1>6, <1>8, <1>10, <1>11, <1>12 DEF SignedAt
<1> QED
  BY <1>7, <1>8, <1>9, <1>11, <1>13

\* A verdict is one that the SDK's callers are told to expect.
LEMMA VerdictExpected ==
    ASSUME NEW s \in Sdks, NEW key, NEW b, NEW h, NEW clock, NEW digest, Carries(h, digest)
    PROVE  Verify(s, key, b, h, clock) \in Outcomes(s)
<1> DEFINE d == Dialect(s)
           parts == Parts(d, h)
           time == parts[Last(Occurrences(d, parts, "t"))]
           sig == parts[Last(Occurrences(d, parts, "v1"))]
           seen == d.otherwise[FormSeen(d, sig)]
<1>1. CASE WellFormed(d, h)
  <2>1. sig.form \in DigestForms
    BY <1>1, PartsRead
  <2>2. FormSeen(d, sig) \in DigestForms
    BY <2>1 DEF FormSeen, DigestForms
  <2>3. seen \in Outcomes(s)
    BY <2>2, DialectsShare DEF Outcomes
  <2>4. \/ Verify(s, key, b, h, clock) = seen
        \/ Verify(s, key, b, h, clock) \in {"missing", "expired", "ok", "mismatch"}
        \/ Verify(s, key, b, h, clock) = "usage" /\ d.needsSecret
        \/ Verify(s, key, b, h, clock) = "crash" /\ s = "python"
    BY <1>1 DEF Verify
  <2> QED
    BY <2>3, <2>4 DEF Outcomes
<1>2. CASE ~WellFormed(d, h)
  <2>1. \/ Verify(s, key, b, h, clock) \in {"missing", "malformed"}
        \/ Verify(s, key, b, h, clock) = "usage" /\ d.needsSecret
    BY <1>2 DEF Verify
  <2> QED
    BY <2>1 DEF Outcomes
<1> QED
  BY <1>1, <1>2
-----------------------------------------------------------------------------
(***************************************************************************)
(* What happens to a header on its way.                                    *)
(***************************************************************************)
\* A part that Carries puts up with.
Fits(x, digest) ==
    /\ x \in PartSet
    /\ x.key = "t" => x.value \in Int
    /\ x.key = "v1" => x.form \in DigestForms /\ x.value \in {digest} \cup BareDigests

LEMMA PartFits ==
    ASSUME NEW h, NEW digest, Carries(h, digest), NEW i \in DOMAIN h
    PROVE  Fits(h[i], digest)
<1>1. h[i] \in PartSet
  BY LenProperties, ElementOfSeq DEF Carries
<1> QED
  BY <1>1 DEF Carries, Fits

LEMMA PartChanged ==
    ASSUME NEW h, NEW digest, Carries(h, digest),
           NEW i \in DOMAIN h, NEW x, Fits(x, digest)
    PROVE  Carries([h EXCEPT ![i] = x], digest)
<1> DEFINE g == [h EXCEPT ![i] = x]
<1>1. h \in Seq(PartSet) /\ i \in 1 .. Len(h) /\ x \in PartSet /\ DOMAIN h = 1 .. Len(h)
  BY LenProperties DEF Carries, Fits
<1>2. /\ g \in Seq(PartSet) /\ Len(g) = Len(h)
      /\ \A j \in 1 .. Len(h) : g[j] = IF j = i THEN x ELSE h[j]
  BY <1>1, ExceptSeq
<1>3. DOMAIN g = 1 .. Len(h)
  BY <1>1
<1> HIDE DEF g
<1>4. Carries(g, digest)
  BY <1>1, <1>2, <1>3 DEF Carries, Fits
<1> QED
  BY <1>4 DEF g

LEMMA PartAdded ==
    ASSUME NEW h, NEW digest, Carries(h, digest), NEW x, Fits(x, digest)
    PROVE  Carries(Append(h, x), digest)
<1> DEFINE g == Append(h, x)
<1>1. h \in Seq(PartSet) /\ x \in PartSet /\ DOMAIN h = 1 .. Len(h) /\ Len(h) \in Nat
  BY LenProperties DEF Carries, Fits
<1>2. /\ g \in Seq(PartSet) /\ Len(g) = Len(h) + 1 /\ g[Len(h) + 1] = x
      /\ \A j \in 1 .. Len(h) : g[j] = h[j]
  BY <1>1, AppendProperties
<1> HIDE DEF g
<1>3. DOMAIN g = 1 .. Len(h) + 1
  BY <1>2, LenProperties
<1>4. Carries(g, digest)
  BY <1>1, <1>2, <1>3 DEF Carries, Fits
<1> QED
  BY <1>4 DEF g

LEMMA PartPrepended ==
    ASSUME NEW h, NEW digest, Carries(h, digest), NEW x, Fits(x, digest)
    PROVE  Carries(<<x>> \o h, digest)
<1> DEFINE g == <<x>> \o h
<1>1. h \in Seq(PartSet) /\ x \in PartSet /\ DOMAIN h = 1 .. Len(h) /\ Len(h) \in Nat
  BY LenProperties DEF Carries, Fits
<1>2. <<x>> \in Seq(PartSet) /\ Len(<<x>>) = 1 /\ <<x>>[1] = x
  BY <1>1
<1>3. /\ g \in Seq(PartSet) /\ Len(g) = 1 + Len(h)
      /\ \A j \in 1 .. 1 + Len(h) : g[j] = IF j <= 1 THEN x ELSE h[j - 1]
  <2>1. /\ g \in Seq(PartSet) /\ Len(g) = Len(<<x>>) + Len(h)
        /\ \A j \in 1 .. Len(<<x>>) + Len(h) :
              g[j] = IF j <= Len(<<x>>) THEN <<x>>[j] ELSE h[j - Len(<<x>>)]
    BY <1>1, <1>2, ConcatProperties
  <2> HIDE DEF g
  <2>2. ASSUME NEW j \in 1 .. 1 + Len(h) PROVE g[j] = IF j <= 1 THEN x ELSE h[j - 1]
    <3>1. CASE j <= 1
      <4>1. j = 1
        BY <3>1
      <4> QED
        BY <1>2, <2>1, <4>1
    <3>2. CASE ~(j <= 1)
      BY <1>2, <2>1, <3>2
    <3> QED
      BY <3>1, <3>2
  <2> QED
    BY <1>2, <2>1, <2>2
<1> HIDE DEF g
<1>4. DOMAIN g = 1 .. 1 + Len(h)
  BY <1>3, LenProperties
<1>5. ASSUME NEW j \in DOMAIN g PROVE Fits(g[j], digest)
  <2>1. CASE j = 1
    BY <1>1, <1>3, <1>4, <2>1
  <2>2. CASE j # 1
    <3>1. j - 1 \in DOMAIN h /\ g[j] = h[j - 1]
      BY <1>1, <1>3, <1>4, <2>2
    <3> QED
      BY <3>1, PartFits
  <2> QED
    BY <2>1, <2>2
<1>6. Carries(g, digest)
  BY <1>3, <1>5 DEF Carries, Fits
<1> QED
  BY <1>6 DEF g

\* No rewriting makes a digest under a secret.
LEMMA ChangesForgeNothing ==
    ASSUME NEW h, NEW digest, Carries(h, digest),
           NEW g \in FaithfulChanges(h) \cup OtherChanges(h)
    PROVE  Carries(g, digest)
<1>f. \A i \in DOMAIN h : Fits(h[i], digest)
  BY PartFits
<1>n. FarFuture \in Int
  BY DeliveryAssumption DEF FarFuture
<1>1. ASSUME NEW i \in DOMAIN h, NEW f, h[i].key = "t" => f \in NumberForms,
             h[i].key # "t" => f \in DigestForms,
             g = [h EXCEPT ![i].form = f]
      PROVE  Carries(g, digest)
  <2>1. Fits(h[i], digest)
    BY <1>f
  <2> DEFINE x == [h[i] EXCEPT !.form = f]
  <2>2. Fits(x, digest)
    BY <1>1, <2>1 DEF Fits, PartSet, Keys, Pads, NumberForms, DigestForms, Values, Part
  <2>3. g = [h EXCEPT ![i] = x]
    BY <1>1
  <2> HIDE DEF x
  <2> QED
    BY <2>2, <2>3, PartChanged
<1>2. CASE g \in {[h EXCEPT ![i].form = "upper"] : i \in {j \in DOMAIN h : h[j].form = "lower"}}
  <2>1. PICK i \in DOMAIN h : h[i].form = "lower" /\ g = [h EXCEPT ![i].form = "upper"]
    BY <1>2
  <2> DEFINE x == [h[i] EXCEPT !.form = "upper"]
  <2>2. Fits(h[i], digest)
    BY <1>f
  <2>3. Fits(x, digest)
    BY <2>2 DEF Fits, PartSet, Keys, Pads, NumberForms, DigestForms, Values, Part
  <2>4. g = [h EXCEPT ![i] = x]
    BY <2>1
  <2> HIDE DEF x
  <2> QED
    BY <2>3, <2>4, PartChanged
<1>3. CASE g = Append(h, Part("v2", "none", "lower", 0))
  <2>1. Fits(Part("v2", "none", "lower", 0), digest)
    BY DEF Fits, PartSet, Keys, Pads, NumberForms, DigestForms, Values, Part
  <2> QED
    BY <1>3, <2>1, PartAdded
<1>4. CASE g \in {[h EXCEPT ![i].pad = p] : i \in DOMAIN h, p \in {"key", "value"}}
  <2>1. PICK i \in DOMAIN h, p \in {"key", "value"} : g = [h EXCEPT ![i].pad = p]
    BY <1>4
  <2> DEFINE x == [h[i] EXCEPT !.pad = p]
  <2>2. Fits(h[i], digest)
    BY <1>f
  <2>3. Fits(x, digest)
    BY <2>2 DEF Fits, PartSet, Keys, Pads, NumberForms, DigestForms, Values, Part
  <2>4. g = [h EXCEPT ![i] = x]
    BY <2>1
  <2> HIDE DEF x
  <2> QED
    BY <2>3, <2>4, PartChanged
<1>5. CASE g \in {[h EXCEPT ![i].form = f] :
                    i \in {j \in DOMAIN h : h[j].key = "t"},
                    f \in NumberForms \ {"huge", "vast"}}
  <2>1. PICK i \in {j \in DOMAIN h : h[j].key = "t"}, f \in NumberForms \ {"huge", "vast"} :
          g = [h EXCEPT ![i].form = f]
    BY <1>5
  <2> QED
    BY <1>1, <2>1
<1>6. CASE g \in {[h EXCEPT ![i].form = f, ![i].value = FarFuture] :
                    i \in {j \in DOMAIN h : h[j].key = "t"}, f \in {"huge", "vast"}}
  <2>1. PICK i \in {j \in DOMAIN h : h[j].key = "t"}, f \in {"huge", "vast"} :
          g = [h EXCEPT ![i].form = f, ![i].value = FarFuture]
    BY <1>6
  <2> DEFINE x == [h[i] EXCEPT !.form = f, !.value = FarFuture]
  <2>2. Fits(h[i], digest)
    BY <1>f
  <2>3. Fits(x, digest)
    BY <1>n, <2>1, <2>2 DEF Fits, PartSet, Keys, Pads, NumberForms, DigestForms, Values, Part
  <2>4. g = [h EXCEPT ![i] = x]
    BY <2>1
  <2> HIDE DEF x
  <2>5. i \in DOMAIN h
    OBVIOUS
  <2> QED
    BY <2>3, <2>4, <2>5, PartChanged
<1>7. CASE g \in {[h EXCEPT ![i].form = f] :
                    i \in {j \in DOMAIN h : h[j].key = "v1"}, f \in DigestForms}
  <2>1. PICK i \in {j \in DOMAIN h : h[j].key = "v1"}, f \in DigestForms :
          g = [h EXCEPT ![i].form = f]
    BY <1>7
  <2> QED
    BY <1>1, <2>1
<1>8. CASE g \in {Append(h, Part(k, "none", "plain", 0)) : k \in {"nothing", "bare"}}
  <2>1. PICK k \in {"nothing", "bare"} : g = Append(h, Part(k, "none", "plain", 0))
    BY <1>8
  <2>2. Fits(Part(k, "none", "plain", 0), digest)
    BY <2>1 DEF Fits, PartSet, Keys, Pads, NumberForms, DigestForms, Values, Part
  <2> QED
    BY <2>1, <2>2, PartAdded
<1>9. CASE g = <<Part("nothing", "none", "plain", 0)>> \o h
  <2>1. Fits(Part("nothing", "none", "plain", 0), digest)
    BY DEF Fits, PartSet, Keys, Pads, NumberForms, DigestForms, Values, Part
  <2> QED
    BY <1>9, <2>1, PartPrepended
<1>10. CASE g \in {Append(h, Part("t", "none", "plain", t)) : t \in 0 .. Horizon \div Rate}
  <2>1. PICK t \in 0 .. Horizon \div Rate : g = Append(h, Part("t", "none", "plain", t))
    BY <1>10
  <2>2. t \in Int
    OBVIOUS
  <2>3. Fits(Part("t", "none", "plain", t), digest)
    BY <2>2 DEF Fits, PartSet, Keys, Pads, NumberForms, DigestForms, Values, Part
  <2> QED
    BY <2>1, <2>3, PartAdded
<1>11. CASE g = <<>>
  <2>1. g \in Seq(PartSet) /\ DOMAIN g = {}
    BY <1>11
  <2> QED
    BY <2>1 DEF Carries
<1>12. CASE g = <<Part("blank", "none", "plain", 0)>>
  <2>1. Fits(Part("blank", "none", "plain", 0), digest)
    BY DEF Fits, PartSet, Keys, Pads, NumberForms, DigestForms, Values, Part
  <2> DEFINE x == Part("blank", "none", "plain", 0)
  <2>2. x.key = "blank" /\ x \in PartSet
    BY <2>1 DEF Fits, Part
  <2> HIDE DEF x
  <2>3. <<x>> \in Seq(PartSet) /\ DOMAIN <<x>> = {1} /\ <<x>>[1] = x
    BY <2>2
  <2>4. Carries(<<x>>, digest)
    BY <2>2, <2>3 DEF Carries
  <2> QED
    BY <1>12, <2>4 DEF x
<1>13. CASE g \in {[h EXCEPT ![i].value = x] :
                    i \in {j \in DOMAIN h : h[j].key = "v1"}, x \in BareDigests}
  <2>1. PICK i \in {j \in DOMAIN h : h[j].key = "v1"}, v \in BareDigests :
          g = [h EXCEPT ![i].value = v]
    BY <1>13
  <2> DEFINE x == [h[i] EXCEPT !.value = v]
  <2>2. Fits(h[i], digest) /\ v \in Values
    BY <1>f, BareAreValues
  <2>3. x \in PartSet /\ x.key = "v1" /\ x.form = h[i].form /\ x.value = v
    BY <2>2 DEF Fits, PartSet
  <2>4. Fits(x, digest)
    BY <2>2, <2>3 DEF Fits
  <2>5. g = [h EXCEPT ![i] = x] /\ i \in DOMAIN h
    BY <2>1
  <2> HIDE DEF x
  <2> QED
    BY <2>4, <2>5, PartChanged
<1>14. CASE g \in {Append(h, Part("v1", "none", "lower", x)) : x \in BareDigests}
  <2>1. PICK v \in BareDigests : g = Append(h, Part("v1", "none", "lower", v))
    BY <1>14
  <2>2. v \in Values
    BY BareAreValues
  <2>3. Fits(Part("v1", "none", "lower", v), digest)
    BY <2>2 DEF Fits, PartSet, Keys, Pads, DigestForms, Part
  <2> QED
    BY <2>1, <2>3, PartAdded
<1>15. CASE g \in FaithfulChanges(h)
  BY <1>2, <1>3, <1>15, Zenon DEF FaithfulChanges
<1>16. CASE g \in OtherChanges(h)
  <2> DEFINE padded == {[h EXCEPT ![i].pad = p] : i \in DOMAIN h, p \in {"key", "value"}}
             retyped == {[h EXCEPT ![i].form = f] :
                            i \in {j \in DOMAIN h : h[j].key = "t"},
                            f \in NumberForms \ {"huge", "vast"}}
             distant == {[h EXCEPT ![i].form = f, ![i].value = FarFuture] :
                            i \in {j \in DOMAIN h : h[j].key = "t"}, f \in {"huge", "vast"}}
             rehexed == {[h EXCEPT ![i].form = f] :
                            i \in {j \in DOMAIN h : h[j].key = "v1"}, f \in DigestForms}
             resigned == {[h EXCEPT ![i].value = x] :
                            i \in {j \in DOMAIN h : h[j].key = "v1"}, x \in BareDigests}
             cosigned == {Append(h, Part("v1", "none", "lower", x)) : x \in BareDigests}
             longer == {Append(h, Part(k, "none", "plain", 0)) : k \in {"nothing", "bare"}}
             restamped == {Append(h, Part("t", "none", "plain", t)) :
                              t \in 0 .. Horizon \div Rate}
             preceded == <<Part("nothing", "none", "plain", 0)>> \o h
             blanked == <<Part("blank", "none", "plain", 0)>>
  <2>1. OtherChanges(h) = padded \cup retyped \cup distant \cup rehexed
                            \cup resigned \cup cosigned \cup longer
                            \cup {preceded} \cup restamped \cup {<<>>, blanked}
    BY DEF OtherChanges
  <2>2. /\ g \in padded => Carries(g, digest)
        /\ g \in retyped => Carries(g, digest)
        /\ g \in distant => Carries(g, digest)
        /\ g \in rehexed => Carries(g, digest)
    BY <1>4, <1>5, <1>6, <1>7
  <2>3. /\ g \in resigned => Carries(g, digest)
        /\ g \in cosigned => Carries(g, digest)
    BY <1>13, <1>14
  <2>4. /\ g \in longer => Carries(g, digest)
        /\ g = preceded => Carries(g, digest)
        /\ g \in restamped => Carries(g, digest)
        /\ g = <<>> \/ g = blanked => Carries(g, digest)
    BY <1>8, <1>9, <1>10, <1>11, <1>12
  <2> HIDE DEF padded, retyped, distant, rehexed, resigned, cosigned, longer,
               restamped, preceded, blanked
  <2> QED
    BY <1>16, <2>1, <2>2, <2>3, <2>4
<1> QED
  BY <1>15, <1>16
-----------------------------------------------------------------------------
(***************************************************************************)
(* A delivery that is as the server wrote it, but for what every verifier  *)
(* is meant to put up with.                                                *)
(***************************************************************************)
AsSent(h, t, b) ==
    /\ Len(h) >= 2
    /\ h[1] = Part("t", "none", "plain", t)
    /\ h[2].key = "v1" /\ h[2].pad = "none" /\ h[2].form \in {"lower", "upper"}
    /\ h[2].value = Digest(t, b, Secret)
    /\ \A i \in 3 .. Len(h) : h[i].key = "v2"

LEMMA FaithfulChangesKeep ==
    ASSUME NEW h, NEW digest, Carries(h, digest), NEW t, NEW b, AsSent(h, t, b),
           NEW g \in FaithfulChanges(h)
    PROVE  AsSent(g, t, b)
<1>1. h \in Seq(PartSet) /\ DOMAIN h = 1 .. Len(h) /\ Len(h) \in Nat
  BY LenProperties DEF Carries
<1>2. CASE g \in {[h EXCEPT ![i].form = "upper"] : i \in {j \in DOMAIN h : h[j].form = "lower"}}
  <2>1. PICK i \in DOMAIN h : h[i].form = "lower" /\ g = [h EXCEPT ![i].form = "upper"]
    BY <1>2
  <2> DEFINE x == [h[i] EXCEPT !.form = "upper"]
  <2>2. h[i] \in PartSet
    BY <1>1, <2>1
  <2>3. /\ x \in PartSet /\ x.key = h[i].key /\ x.pad = h[i].pad
        /\ x.form = "upper" /\ x.value = h[i].value
    BY <2>2 DEF PartSet, DigestForms
  <2>4. g = [h EXCEPT ![i] = x]
    BY <2>1
  <2>5. h[1].form = "plain" /\ i # 1
    BY <2>1 DEF AsSent, Part
  <2> HIDE DEF x
  <2>6. Len(g) = Len(h) /\ \A j \in 1 .. Len(h) : g[j] = IF j = i THEN x ELSE h[j]
    BY <1>1, <2>1, <2>3, <2>4, ExceptSeq
  <2> QED
    BY <1>1, <2>1, <2>3, <2>5, <2>6 DEF AsSent
<1>3. CASE g = Append(h, Part("v2", "none", "lower", 0))
  <2> DEFINE x == Part("v2", "none", "lower", 0)
  <2>1. x \in PartSet /\ x.key = "v2"
    BY DEF PartSet, Keys, Pads, DigestForms, Values, Part
  <2> HIDE DEF x
  <2>2. Len(g) = Len(h) + 1 /\ g[Len(h) + 1] = x /\ \A j \in 1 .. Len(h) : g[j] = h[j]
    BY <1>1, <1>3, <2>1, AppendProperties DEF x
  <2> QED
    BY <1>1, <2>1, <2>2 DEF AsSent
<1> QED
  BY <1>2, <1>3, Zenon DEF FaithfulChanges

\* Every verifier gives the same verdict on it.
LEMMA VerdictOnSent ==
    ASSUME NEW s \in Sdks, NEW key, NEW b, NEW h, NEW t \in Nat \ {0}, NEW clock,
           Carries(h, Digest(t, b, Secret)), AsSent(h, t, b)
    PROVE  Verify(s, key, b, h, clock) =
             IF key = NoSecret /\ Dialect(s).needsSecret THEN "usage"
             ELSE IF OutsideWindow(Dialect(s), t, clock) THEN "expired"
             ELSE IF key = Secret THEN "ok" ELSE "mismatch"
<1> DEFINE d == Dialect(s)
           parts == Parts(d, h)
           times == Occurrences(d, parts, "t")
           digests == Occurrences(d, parts, "v1")
<1>1. h \in Seq(PartSet) /\ DOMAIN h = 1 .. Len(h) /\ Len(h) \in Nat /\ Len(h) >= 2
  BY LenProperties DEF Carries, AsSent
<1>2. /\ h[1].key = "t" /\ h[1].pad = "none" /\ h[1].form = "plain" /\ h[1].value = t
      /\ h[2].key = "v1" /\ h[2].pad = "none" /\ h[2].form \in {"lower", "upper"}
      /\ h[2].value = Digest(t, b, Secret)
      /\ \A i \in 3 .. Len(h) : h[i].key = "v2"
  BY <1>1 DEF Carries, AsSent, Part
<1>3. \A i \in 1 .. Len(h) : h[i].key \in {"t", "v1", "v2"}
  <2> TAKE i \in 1 .. Len(h)
  <2>1. i = 1 \/ i = 2 \/ i \in 3 .. Len(h)
    BY <1>1
  <2> QED
    BY <1>2, <2>1
<1>4. DOMAIN parts = 1 .. Len(h) /\ \A i \in 1 .. Len(h) : parts[i] = h[i]
  <2>1. PICK k \in 0 .. Len(h) :
          /\ DOMAIN parts = 1 .. k
          /\ \A i \in 1 .. k : parts[i] = h[i]
          /\ \A i \in k + 1 .. Len(h) : h[i].key = "nothing"
    BY <1>1, PartsAreAPrefix
  <2>2. k = Len(h)
    <3>1. k \in Int /\ k <= Len(h)
      BY <1>1
    <3>2. k < Len(h) => Len(h) \in k + 1 .. Len(h) /\ Len(h) \in 1 .. Len(h)
      BY <1>1, <3>1
    <3>3. ~(k < Len(h))
      BY <1>3, <2>1, <3>2
    <3>4. Len(h) \in Int
      BY <1>1
    <3> QED
      BY <3>1, <3>3, <3>4
  <2> QED
    BY <2>1, <2>2
<1>5. times = {1} /\ digests = {2}
  <2> HIDE DEF parts
  <2>1. \A i \in 1 .. Len(h) : i = 1 \/ i = 2 \/ i \in 3 .. Len(h)
    BY <1>1
  <2> QED
    BY <1>1, <1>2, <1>4, <2>1 DEF Occurrences, Known
<1>6. Last(times) = 1 /\ Last(digests) = 2
  <2>1. Last({1}) = 1 /\ Last({2}) = 2
    BY LastOfOne
  <2> QED
    BY <1>5, <2>1
<1>7. parts[1] = h[1] /\ parts[2] = h[2]
  BY <1>1, <1>4
<1>8. ReadableTime(d, parts[1])
  BY <1>2, <1>7, DialectsShare DEF ReadableTime
<1>9. WellFormed(d, h)
  <2>1. \A i \in DOMAIN parts : parts[i].key \notin {"bare", "nothing", "blank"}
    BY <1>3, <1>4
  <2>2. \A i \in times : ReadableTime(d, parts[i])
    BY <1>5, <1>8
  <2>3. parts[Last(digests)].form # "empty"
    BY <1>2, <1>6, <1>7
  <2> QED
    BY <1>5, <2>1, <2>2, <2>3 DEF WellFormed
<1>10. FormSeen(d, parts[2]) = parts[2].form /\ parts[2].form \in d.digests
  BY <1>2, <1>7, DialectsShare DEF FormSeen
<1>11. h # <<>> /\ ~(d.blankMissing /\ Len(h) = 1 /\ h[1].key = "blank")
  BY <1>1, <1>2
<1>12. Signs(parts[2].value, t, b, key) <=> key = Secret
  BY <1>2, <1>7 DEF Signs, Digest
<1>13. parts[1].value = t /\ parts[1].form = "plain"
  BY <1>2, <1>7
<1> HIDE DEF parts, times, digests, d
<1> QED
  BY <1>6, <1>9, <1>10, <1>11, <1>12, <1>13 DEF Verify, parts, times, digests, d
-----------------------------------------------------------------------------
(***************************************************************************)
(* The invariant: a delivery on its way carries no digest but the one the  *)
(* server made, and those that take no secret; a faithful one is as it was *)
(* sent; the verdicts are those on the delivery as it is.                  *)
(***************************************************************************)
Unsent == header = <<>> /\ body = "" /\ faithful /\ verdicts = <<>> /\ changes = 0
Sent ==
    /\ origin \in (1 .. Horizon) \X Bodies
    /\ Carries(header, Digest(origin[1], origin[2], Secret))
    /\ faithful => body = origin[2] /\ AsSent(header, origin[1], origin[2])

DeliveryInv ==
    /\ now \in Rate .. Horizon /\ skew \in Skews /\ secret \in Copies
    /\ body \in Bodies \cup {""} /\ changes \in 0 .. Rewrites /\ faithful \in BOOLEAN
    /\ origin = <<>> => Unsent
    /\ origin # <<>> => Sent
    /\ verdicts # <<>> =>
         verdicts = [s \in Sdks |-> Verify(s, secret, body, header, now + skew)]

\* The second that the server stamps.
LEMMA StampedSecond ==
    ASSUME now \in Rate .. Horizon
    PROVE  now \div Rate \in 1 .. Horizon
<1> DEFINE q == now \div Rate
<1>1. Rate \in Nat \ {0} /\ Horizon \in Nat /\ now \in Nat
  BY WindowAssumption, DeliveryAssumption
<1>2. q \in Int /\ q * Rate <= now /\ now < q * Rate + Rate
  BY <1>1, WholeSeconds
<1> HIDE DEF q
<1>3. q >= 1
  <2>1. CASE q < 1
    <3>1. q * Rate + Rate <= 1 * Rate
      BY <1>1, <1>2, <2>1, TicksOrdered
    <3> QED
      BY <1>1, <1>2, <3>1
  <2> QED
    BY <1>2, <2>1
<1>4. q <= q * Rate
  <2>1. \A a \in Nat, r \in Nat \ {0} : a <= a * r
    OBVIOUS
  <2> QED
    BY <1>1, <1>2, <1>3, <2>1
<1> QED
  BY <1>1, <1>2, <1>3, <1>4 DEF q

LEMMA DeliveryInit == Init => DeliveryInv
<1> SUFFICES ASSUME Init PROVE DeliveryInv
  OBVIOUS
<1>1. now = Rate /\ changes = 0
  BY DEF Init
<1>2. now \in Rate .. Horizon /\ changes \in 0 .. Rewrites
  BY <1>1, WindowAssumption, DeliveryAssumption
<1> QED
  BY <1>2 DEF Init, DeliveryInv, Unsent

LEMMA DeliveryStep == DeliveryInv /\ [Next]_vars => DeliveryInv'
<1> SUFFICES ASSUME DeliveryInv, [Next]_vars PROVE DeliveryInv'
  OBVIOUS
<1>1. CASE Tick
  <2>1. now \in Rate .. Horizon /\ now < Horizon /\ now' = now + 1
    BY <1>1 DEF Tick, DeliveryInv
  <2>2. now' \in Rate .. Horizon
    BY <2>1, WindowAssumption, DeliveryAssumption
  <2> QED
    BY <1>1, <2>2 DEF Tick, DeliveryInv, Unsent, Sent, delivery
<1>2. ASSUME NEW b \in Bodies, Send(b) PROVE DeliveryInv'
  <2> DEFINE t == now \div Rate
             h == << Part("t", "none", "plain", t),
                     Part("v1", "none", "lower", Digest(t, b, Secret)) >>
  <2>1. /\ origin = <<>> /\ origin' = <<t, b>> /\ header' = h /\ body' = b
        /\ UNCHANGED <<now, skew, secret, changes, faithful, verdicts>>
    BY <1>2 DEF Send
  <2>2. t \in 1 .. Horizon /\ t \in Int
    <3>1. now \in Rate .. Horizon
      BY DEF DeliveryInv
    <3>2. t \in 1 .. Horizon
      BY <3>1, StampedSecond
    <3> QED
      BY <3>2
  <2> HIDE DEF t
  <2>3. /\ Part("t", "none", "plain", t) \in PartSet
        /\ Part("v1", "none", "lower", Digest(t, b, Secret)) \in PartSet
    BY <2>2 DEF PartSet, Keys, Pads, NumberForms, DigestForms, Values, Part, Digest
  <2>4. /\ h \in Seq(PartSet) /\ DOMAIN h = {1, 2} /\ Len(h) = 2
        /\ h[1] = Part("t", "none", "plain", t)
        /\ h[2] = Part("v1", "none", "lower", Digest(t, b, Secret))
    BY <2>3
  <2> HIDE DEF h
  <2>5. Carries(h, Digest(t, b, Secret))
    BY <2>2, <2>4 DEF Carries, Part, DigestForms
  <2>6. AsSent(h, t, b)
    BY <2>4 DEF AsSent, Part
  <2>7. Sent'
    BY <2>1, <2>2, <2>5, <2>6 DEF Sent
  <2>8. origin' # <<>> /\ verdicts' = <<>>
    BY <2>1 DEF DeliveryInv, Unsent
  <2> QED
    BY <2>1, <2>7, <2>8 DEF DeliveryInv
<1>3. CASE Rewrite
  <2> DEFINE digest == Digest(origin[1], origin[2], Secret)
  <2>a. changes \in 0 .. Rewrites /\ changes < Rewrites /\ changes' = changes + 1
    BY <1>3 DEF Rewrite, DeliveryInv
  <2>b. changes' \in 0 .. Rewrites
    BY <2>a, DeliveryAssumption
  <2>1. /\ origin # <<>> /\ verdicts = <<>> /\ Sent /\ changes' \in 0 .. Rewrites
        /\ UNCHANGED <<now, skew, secret, origin, verdicts>>
    BY <1>3, <2>b DEF Rewrite, OnItsWay, DeliveryInv
  <2>2. CASE header' \in FaithfulChanges(header) /\ UNCHANGED <<body, faithful>>
    <3>1. Carries(header', digest)
      BY <2>1, <2>2, ChangesForgeNothing DEF Sent
    <3>2. faithful => AsSent(header', origin[1], origin[2])
      BY <2>1, <2>2, FaithfulChangesKeep DEF Sent
    <3> QED
      BY <2>1, <2>2, <3>1, <3>2 DEF DeliveryInv, Sent
  <2>3. CASE header' \in OtherChanges(header) /\ faithful' = FALSE /\ UNCHANGED body
    <3>1. Carries(header', digest)
      BY <2>1, <2>3, ChangesForgeNothing DEF Sent
    <3> QED
      BY <2>1, <2>3, <3>1 DEF DeliveryInv, Sent
  <2>4. CASE body' \in Bodies \ {body} /\ faithful' = FALSE /\ UNCHANGED header
    BY <2>1, <2>4 DEF DeliveryInv, Sent
  <2> QED
    BY <1>3, <2>2, <2>3, <2>4 DEF Rewrite
<1>4. CASE Receive
  BY <1>4 DEF Receive, OnItsWay, DeliveryInv, Sent, delivery
<1>5. CASE Repeat
  BY <1>5 DEF Repeat, DeliveryInv, Unsent, Sent, delivery
<1>6. CASE UNCHANGED vars
  BY <1>6 DEF vars, delivery, DeliveryInv, Unsent, Sent
<1> QED
  BY <1>1, <1>2, <1>3, <1>4, <1>5, <1>6 DEF Next

LEMMA DeliveryAlways == Spec => []DeliveryInv
  BY DeliveryInit, DeliveryStep, PTL DEF Spec

LEMMA ReceivedVerdicts ==
    ASSUME DeliveryInv, Received
    PROVE  /\ Sent /\ now + skew \in Int /\ origin[1] \in Nat \ {0}
           /\ \A s \in Sdks : verdicts[s] = Verify(s, secret, body, header, now + skew)
<1>1. origin # <<>>
  BY DEF DeliveryInv, Received, Unsent
<1>2. now + skew \in Int
  <2>1. now \in Rate .. Horizon /\ skew \in Skews
    BY DEF DeliveryInv
  <2> QED
    BY <2>1, DeliveryAssumption
<1>3. Sent
  BY <1>1 DEF DeliveryInv
<1>4. origin[1] \in 1 .. Horizon
  BY <1>3 DEF Sent
<1>5. origin[1] \in Nat \ {0}
  BY <1>4
<1>6. \A s \in Sdks : verdicts[s] = Verify(s, secret, body, header, now + skew)
  BY DEF DeliveryInv, Received
<1> QED
  BY <1>2, <1>3, <1>5, <1>6

\* Every variable of a delivery keeps its type, and every verdict is one that the
\* SDK documents (or, in Python, the exception that it does not).
THEOREM DeliveryTypeCorrect == Spec => []TypeOK
<1>1. DeliveryInv => TypeOK
  <2> SUFFICES ASSUME DeliveryInv PROVE TypeOK
    OBVIOUS
  <2>1. \A i \in DOMAIN header :
          /\ header[i].key \in Keys /\ header[i].pad \in Pads
          /\ header[i].form \in NumberForms \cup DigestForms
    <3>1. CASE origin = <<>>
      <4>1. header = <<>>
        BY <3>1 DEF DeliveryInv, Unsent
      <4>2. DOMAIN header = {}
        BY <4>1
      <4> QED
        BY <4>2
    <3>2. CASE origin # <<>>
      <4>1. header \in Seq(PartSet)
        BY <3>2 DEF DeliveryInv, Sent, Carries
      <4>2. \A i \in DOMAIN header : header[i] \in PartSet
        BY <4>1, LenProperties, ElementOfSeq
      <4> QED
        BY <4>2 DEF PartSet
    <3> QED
      BY <3>1, <3>2
  <2>2. ASSUME verdicts # <<>>
        PROVE  DOMAIN verdicts = Sdks /\ \A s \in Sdks : verdicts[s] \in Outcomes(s)
    <3>1. /\ verdicts = [s \in Sdks |-> Verify(s, secret, body, header, now + skew)]
          /\ Carries(header, Digest(origin[1], origin[2], Secret))
      BY <2>2 DEF DeliveryInv, Unsent, Sent
    <3> QED
      BY <3>1, VerdictExpected
  <2> QED
    BY <2>1, <2>2 DEF DeliveryInv, Sent, TypeOK
<1> QED
  BY <1>1, DeliveryAlways, PTL

\* What was received, in values that a step can name: the second t that the
\* server stamped and the clock of the receiver.
LEMMA DeliveryReceived ==
    ASSUME DeliveryInv, Received
    PROVE  \E t \in Nat \ {0}, clock \in Int :
             /\ origin[1] = t
             /\ Carries(header, Digest(t, origin[2], Secret))
             /\ faithful => body = origin[2] /\ AsSent(header, t, origin[2])
             /\ \A s \in Sdks : verdicts[s] = Verify(s, secret, body, header, clock)
             /\ Distance = Abs(Apart(t, clock))
<1>1. /\ Sent /\ now + skew \in Int /\ origin[1] \in Nat \ {0}
      /\ \A s \in Sdks : verdicts[s] = Verify(s, secret, body, header, now + skew)
  BY ReceivedVerdicts
<1>2. PICK t \in Nat \ {0} : t = origin[1]
  BY <1>1
<1>3. PICK clock \in Int : clock = now + skew
  BY <1>1
<1>4. Distance = Abs(clock - t * Rate)
  BY <1>2, <1>3, Zenon DEF Distance
<1>5. Distance = Abs(Apart(t, clock))
  BY <1>4 DEF Apart
<1>6. \A s \in Sdks : verdicts[s] = Verify(s, secret, body, header, clock)
  BY <1>1, <1>3
<1> QED
  BY <1>1, <1>2, <1>5, <1>6 DEF Sent

\* What an SDK accepts under the server's secret, the server signed, body and
\* all, within a second of the window; under another secret only an empty one
\* accepts anything, and only in Go, Python and Node, however often the delivery
\* was delayed, repeated, rewritten and signed anew, for any window.
THEOREM AcceptsOnlySigned == Spec => []AcceptedWasSigned
<1>1. DeliveryInv => AcceptedWasSigned
  <2> DEFINE carried(s) == \E i \in DOMAIN header :
                 /\ header[i].key = "v1" /\ Whole(s, header[i].form)
                 /\ header[i].value = Digest(origin[1], body, Secret)
  <2> SUFFICES ASSUME DeliveryInv, Received, NEW s \in Sdks, verdicts[s] = "ok"
               PROVE  \/ /\ secret = Secret /\ body = origin[2]
                         /\ Distance < (Window + 1) * Rate
                         /\ carried(s)
                      \/ secret = NoSecret /\ s \in {"go", "python", "node"}
    BY DEF AcceptedWasSigned
  <2>1. PICK t \in Nat \ {0}, clock \in Int :
          /\ origin[1] = t
          /\ Carries(header, Digest(t, origin[2], Secret))
          /\ Verify(s, secret, body, header, clock) = "ok"
          /\ Distance = Abs(Apart(t, clock))
    BY DeliveryReceived
  <2>2. /\ secret = NoSecret => s \in {"go", "python", "node"}
        /\ secret # NoSecret => \E u \in Int : /\ SignedAt(s, secret, body, header, clock, u)
                                         /\ Digest(t, origin[2], Secret) = Digest(u, body, secret)
    BY <2>1, AcceptedIsSigned
  <2>3. CASE secret = NoSecret
    BY <2>2, <2>3
  <2>4. CASE secret # NoSecret
    <3>1. PICK u \in Int : /\ SignedAt(s, secret, body, header, clock, u)
                           /\ Digest(t, origin[2], Secret) = Digest(u, body, secret)
      BY <2>2, <2>4
    <3>2. t = u /\ body = origin[2] /\ secret = Secret
      BY <3>1 DEF Digest
    <3>3. Abs(Apart(t, clock)) < (Window + 1) * Rate
      BY <3>1, <3>2, InsideWindow, WindowSizes DEF SignedAt
    <3>4. carried(s)
      BY <2>1, <3>1, <3>2 DEF SignedAt
    <3> QED
      BY <2>1, <3>2, <3>3, <3>4
  <2> QED
    BY <2>3, <2>4
<1> QED
  BY <1>1, DeliveryAlways, PTL

\* What the server signs and the wire leaves readable is accepted by all six
\* SDKs within the window.
LEMMA SignedAccepted == DeliveryInv => SignedIsAccepted
<1> SUFFICES ASSUME DeliveryInv, Received, faithful, secret = Secret,
                    Distance <= Window * Rate, NEW s \in Sdks
             PROVE  verdicts[s] = "ok"
  BY DEF SignedIsAccepted
<1>1. PICK t \in Nat \ {0}, clock \in Int :
        /\ Carries(header, Digest(t, body, Secret)) /\ AsSent(header, t, body)
        /\ verdicts[s] = Verify(s, secret, body, header, clock)
        /\ Distance = Abs(Apart(t, clock))
  BY DeliveryReceived
<1>2. Abs(Apart(t, clock)) <= Window * Rate
  BY <1>1
<1>3. ~OutsideWindow(Dialect(s), t, clock)
  <2>1. t \in Int
    OBVIOUS
  <2> QED
    BY <1>2, <2>1, WithinWindow, WindowSizes
<1>4. Secret # NoSecret
  BY DEF Secret, NoSecret
<1>5. Verify(s, secret, body, header, clock) =
        IF secret = NoSecret /\ Dialect(s).needsSecret THEN "usage"
        ELSE IF OutsideWindow(Dialect(s), t, clock) THEN "expired"
        ELSE IF secret = Secret THEN "ok" ELSE "mismatch"
  BY <1>1, VerdictOnSent
<1> QED
  BY <1>1, <1>3, <1>4, <1>5

THEOREM SignedGetsThrough == Spec => []SignedIsAccepted
  BY SignedAccepted, DeliveryAlways, PTL

\* On a delivery as the server wrote it the six verifiers agree, but for the
\* second past the edge of the window, which some let through.
THEOREM VerifiersAgree == Spec => []SdksAgree
<1>1. DeliveryInv => SdksAgree
  <2>0. SUFFICES ASSUME DeliveryInv, Received, faithful, secret # NoSecret,
                      Distance \notin Window * Rate + 1 .. (Window + 1) * Rate - 1,
                      NEW s \in Sdks, NEW u \in Sdks
               PROVE  verdicts[s] = verdicts[u]
    BY DEF SdksAgree
  <2>1. PICK t \in Nat \ {0}, clock \in Int :
          /\ Carries(header, Digest(t, body, Secret)) /\ AsSent(header, t, body)
          /\ \A z \in Sdks : verdicts[z] = Verify(z, secret, body, header, clock)
          /\ Distance = Abs(Apart(t, clock))
    BY <2>0, DeliveryReceived
  <2>2. Abs(Apart(t, clock)) \notin Window * Rate + 1 .. (Window + 1) * Rate - 1
    BY <2>0, <2>1
  <2>3. t \in Int
    OBVIOUS
  <2>4. OutsideWindow(Dialect(s), t, clock) <=> OutsideWindow(Dialect(u), t, clock)
    BY <2>2, <2>3, WithinWindow, BeyondWindow, WindowSizes
  <2>5. \A z \in Sdks : verdicts[z] =
          IF secret = NoSecret /\ Dialect(z).needsSecret THEN "usage"
          ELSE IF OutsideWindow(Dialect(z), t, clock) THEN "expired"
          ELSE IF secret = Secret THEN "ok" ELSE "mismatch"
    <3> TAKE z \in Sdks
    <3>0. Carries(header, Digest(t, body, Secret)) /\ AsSent(header, t, body)
      BY <2>1
    <3>1. Verify(z, secret, body, header, clock) =
            IF secret = NoSecret /\ Dialect(z).needsSecret THEN "usage"
            ELSE IF OutsideWindow(Dialect(z), t, clock) THEN "expired"
            ELSE IF secret = Secret THEN "ok" ELSE "mismatch"
      BY <3>0, VerdictOnSent
    <3> QED
      BY <2>1, <3>1
  <2> QED
    BY <2>0, <2>4, <2>5
<1> QED
  BY <1>1, DeliveryAlways, PTL

\* No delivery reaches a Laravel controller but one that the server signed under
\* the configured secret, and none that is readable and in time is turned away.
THEOREM MiddlewareSound == Spec => []ControllerSeesSigned
<1>1. DeliveryInv => ControllerSeesSigned
  <2> SUFFICES ASSUME DeliveryInv, Received PROVE ControllerSeesSigned
    BY DEF ControllerSeesSigned
  <2>p. "php" \in Sdks /\ Secret # NoSecret
    BY DEF Sdks, Secret, NoSecret
  <2>1. ASSUME Handle = "next" PROVE secret = Secret /\ body = origin[2]
    <3>1. verdicts["php"] = "ok"
      BY <2>1 DEF Handle
    <3>s. PICK s \in Sdks : s = "php"
      BY <2>p
    <3>2. PICK t \in Nat \ {0}, clock \in Int :
            /\ Carries(header, Digest(t, origin[2], Secret))
            /\ Verify(s, secret, body, header, clock) = "ok"
      BY <3>s, <3>1, DeliveryReceived
    <3>3. /\ secret = NoSecret => s \in {"go", "python", "node"}
          /\ secret # NoSecret => \E u \in Int : Digest(t, origin[2], Secret) = Digest(u, body, secret)
      BY <3>2, AcceptedIsSigned
    <3>4. secret # NoSecret
      BY <3>s, <3>3
    <3>5. PICK u \in Int : Digest(t, origin[2], Secret) = Digest(u, body, secret)
      BY <3>3, <3>4
    <3> QED
      BY <3>5 DEF Digest
  <2>2. ASSUME faithful, secret = Secret, Distance <= Window * Rate PROVE Handle = "next"
    <3>1. verdicts["php"] = "ok"
      BY <2>p, <2>2, SignedAccepted DEF SignedIsAccepted
    <3> QED
      BY <2>p, <2>2, <3>1 DEF Handle
  <2> QED
    BY <2>1, <2>2 DEF ControllerSeesSigned
<1> QED
  BY <1>1, DeliveryAlways, PTL
=============================================================================
