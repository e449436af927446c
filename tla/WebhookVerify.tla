--------------------------- MODULE WebhookVerify ---------------------------
(***************************************************************************)
(* The six webhook verifiers.  A delivery carries                          *)
(*     X-Linkbridge-Signature: t=<unix seconds>,v1=<hex digest>            *)
(* and is accepted if the digest is that of "<t>.<body>" under the secret  *)
(* and t is within the replay window of the receiver's clock.              *)
(*                                                                         *)
(* A header is the sequence of its comma-separated parts.  A part has a    *)
(* key, blanks inside it or not, a form (how its value is written) and a   *)
(* value: a number of seconds, or the triple a digest was computed from.   *)
(* The verifiers share one skeleton and differ in what they read; each     *)
(* difference is a field of an SDK's dialect.                              *)
(***************************************************************************)
EXTENDS Integers, Sequences, FiniteSetsExt

CONSTANTS Window,   \* MaxWebhookSkew, in seconds (300)
          Rate      \* clock ticks in a second

ASSUME WindowAssumption == Window \in Nat /\ Rate \in Nat \ {0}

Sdks == {"go", "python", "node", "java", "dotnet", "php"}

\* "bare" has no '=', "nothing" is an empty part, "blank" a header of blanks.
Keys == {"t", "v1", "v2", "bare", "nothing", "blank"}

\* Blanks between the key and '=', or between '=' and the value.
Pads == {"none", "key", "value"}

\* How a timestamp is written: 12, +12, 012, 1_2, 1.2e1, with digits of another
\* script, beyond 64 bits, beyond what a float holds, or not a number at all.
NumberForms == {"plain", "plus", "zeros", "underscore", "exponent", "unicode",
                "huge", "vast", "junk"}

\* How a digest is written: hex in lower or upper case, its first half only, hex
\* with something else after it, not hex, not even ASCII, or not there.
DigestForms == {"lower", "upper", "cut", "tail", "nonhex", "nonascii", "empty"}

\* A secret that is not set.
NoSecret == ""

Part(key, pad, form, value) ==
    [key |-> key, pad |-> pad, form |-> form, value |-> value]
Digest(t, body, secret) == <<t, body, secret>>

(***************************************************************************)
(* Go: strconv.ParseInt, SplitN on the trimmed part, hex.DecodeString.     *)
(***************************************************************************)
GoDialect ==
    [numbers |-> {"plain", "plus", "zeros"},
     trims |-> {}, trimsNumber |-> FALSE, dropsTrailing |-> FALSE,
     blankMissing |-> FALSE, wholeSeconds |-> FALSE, needsSecret |-> FALSE,
     digests |-> {"lower", "upper"},
     otherwise |-> [f \in DigestForms |->
                      IF f = "cut" THEN "mismatch" ELSE "malformed"]]

(***************************************************************************)
(* Python: int() takes underscores, blanks, any script and any size, but   *)
(* no float can be subtracted from the largest of them; compare_digest     *)
(* raises TypeError for a string that is not ASCII.                        *)
(***************************************************************************)
PythonDialect ==
    [numbers |-> {"plain", "plus", "zeros", "underscore", "unicode",
                  "huge", "vast"},
     trims |-> {}, trimsNumber |-> TRUE, dropsTrailing |-> FALSE,
     blankMissing |-> FALSE, wholeSeconds |-> FALSE, needsSecret |-> FALSE,
     digests |-> {"lower", "upper"},
     otherwise |-> [f \in DigestForms |->
                      IF f = "nonascii" THEN "crash" ELSE "mismatch"]]

\* Slip: timingSafeEqual, which throws on unequal lengths, without a look at them.
NodeDialectUnequal ==
    [numbers |-> {"plain", "plus", "zeros", "exponent", "huge"},
     trims |-> {"key", "value"}, trimsNumber |-> TRUE, dropsTrailing |-> FALSE,
     blankMissing |-> FALSE, wholeSeconds |-> TRUE, needsSecret |-> FALSE,
     digests |-> {"lower", "upper", "tail"},
     otherwise |-> [f \in DigestForms |-> "crash"]]

(***************************************************************************)
(* Node: Number(), keys and values trimmed, and Buffer.from(v1, "hex"),    *)
(* which stops at the first character that is not hex and never throws.    *)
(***************************************************************************)
NodeDialect ==
    [numbers |-> {"plain", "plus", "zeros", "exponent", "huge"},
     trims |-> {"key", "value"}, trimsNumber |-> TRUE, dropsTrailing |-> FALSE,
     blankMissing |-> FALSE, wholeSeconds |-> TRUE, needsSecret |-> FALSE,
     digests |-> {"lower", "upper", "tail"},
     otherwise |-> [f \in DigestForms |-> "mismatch"]]

(***************************************************************************)
(* Java: Long.parseLong, which reads any script; String.split, which drops *)
(* empty parts at the end.                                                 *)
(***************************************************************************)
JavaDialect ==
    [numbers |-> {"plain", "plus", "zeros", "unicode"},
     trims |-> {"key", "value"}, trimsNumber |-> TRUE, dropsTrailing |-> TRUE,
     blankMissing |-> TRUE, wholeSeconds |-> TRUE, needsSecret |-> TRUE,
     digests |-> {"lower", "upper"},
     otherwise |-> [f \in DigestForms |-> "mismatch"]]

(***************************************************************************)
(* .NET: ASCII digits only.                                                *)
(***************************************************************************)
DotnetDialect ==
    [numbers |-> {"plain", "zeros"},
     trims |-> {"key", "value"}, trimsNumber |-> TRUE, dropsTrailing |-> FALSE,
     blankMissing |-> TRUE, wholeSeconds |-> TRUE, needsSecret |-> TRUE,
     digests |-> {"lower", "upper"},
     otherwise |-> [f \in DigestForms |-> "mismatch"]]

\* Slip: the digest is compared without strtolower.
PhpDialectCased ==
    [numbers |-> {"plain", "huge", "vast"},
     trims |-> {}, trimsNumber |-> FALSE, dropsTrailing |-> FALSE,
     blankMissing |-> FALSE, wholeSeconds |-> TRUE, needsSecret |-> TRUE,
     digests |-> {"lower"},
     otherwise |-> [f \in DigestForms |-> "mismatch"]]

(***************************************************************************)
(* PHP: ^[1-9][0-9]*$, saturating beyond 64 bits.                          *)
(***************************************************************************)
PhpDialect ==
    [numbers |-> {"plain", "huge", "vast"},
     trims |-> {}, trimsNumber |-> FALSE, dropsTrailing |-> FALSE,
     blankMissing |-> FALSE, wholeSeconds |-> TRUE, needsSecret |-> TRUE,
     digests |-> {"lower", "upper"},
     otherwise |-> [f \in DigestForms |-> "mismatch"]]

Dialect(s) ==
    CASE s = "go" -> GoDialect     [] s = "python" -> PythonDialect
      [] s = "node" -> NodeDialect [] s = "java" -> JavaDialect
      [] s = "dotnet" -> DotnetDialect [] s = "php" -> PhpDialect
-----------------------------------------------------------------------------
\* The parts a dialect looks at: all, or all but the empty ones at the end.
Parts(d, header) ==
    IF d.dropsTrailing
    THEN SubSeq(header, 1,
                Max({0} \cup {i \in DOMAIN header : header[i].key # "nothing"}))
    ELSE header

\* A key with a blank behind it is an unknown key to those that do not trim.
Known(d, p, key) == p.key = key /\ (p.pad = "key" => "key" \in d.trims)

Occurrences(d, parts, key) == {i \in DOMAIN parts : Known(d, parts[i], key)}

\* The value of a repeated key is the last one.
Last(S) == Max(S)

ReadableTime(d, p) ==
    /\ p.form \in d.numbers
    /\ p.value > 0
    /\ p.pad = "value" => d.trimsNumber

\* The form of a digest as the dialect sees it.
FormSeen(d, p) ==
    IF p.pad = "value" /\ "value" \notin d.trims /\ p.form \notin {"empty", "nonascii"}
    THEN "nonhex" ELSE p.form

WellFormed(d, header) ==
    LET parts == Parts(d, header)
        times == Occurrences(d, parts, "t")
        digests == Occurrences(d, parts, "v1")
    IN /\ \A i \in DOMAIN parts : parts[i].key \notin {"bare", "nothing", "blank"}
       /\ times # {} /\ \A i \in times : ReadableTime(d, parts[i])
       /\ digests # {} /\ parts[Last(digests)].form # "empty"

\* Slip: where the clock has a fraction, only the past is too far away.
OutsideWindowOneSided(d, t, clock) ==
    LET age == IF d.wholeSeconds THEN ((clock \div Rate) - t) * Rate
               ELSE clock - t * Rate
    IN age > Window * Rate \/ (d.wholeSeconds /\ age < -(Window * Rate))

\* Some read the clock in whole seconds, some with its fraction.
OutsideWindow(d, t, clock) ==
    LET age == IF d.wholeSeconds THEN ((clock \div Rate) - t) * Rate
               ELSE clock - t * Rate
    IN age > Window * Rate \/ age < -(Window * Rate)

\* Slip: a digest of the body alone.
SignsBodyOnly(digest, t, body, secret) ==
    digest[2] = body /\ digest[3] = secret

Signs(digest, t, body, secret) == digest = Digest(t, body, secret)

(***************************************************************************)
(* The verdict of SDK s on a delivery at the given clock reading.          *)
(***************************************************************************)
Verify(s, secret, body, header, clock) ==
    LET d == Dialect(s)
        parts == Parts(d, header)
        time == parts[Last(Occurrences(d, parts, "t"))]
        sig == parts[Last(Occurrences(d, parts, "v1"))]
        blank == d.blankMissing /\ Len(header) = 1 /\ header[1].key = "blank"
    IN IF secret = NoSecret /\ d.needsSecret THEN "usage"
       ELSE IF header = <<>> \/ blank THEN "missing"
       ELSE IF ~WellFormed(d, header) THEN "malformed"
       ELSE IF s = "python" /\ time.form = "vast" THEN "crash"
       ELSE IF OutsideWindow(d, time.value, clock) THEN "expired"
       ELSE IF FormSeen(d, sig) \notin d.digests THEN d.otherwise[FormSeen(d, sig)]
       ELSE IF Signs(sig.value, time.value, body, secret) THEN "ok"
       ELSE "mismatch"
=============================================================================
