----------------------------- MODULE TokenReply -----------------------------
(***************************************************************************)
(* What each SDK makes of one answer of POST /v1/oauth/token.              *)
(*                                                                         *)
(* An answer is the record a transport hands to the SDK, abstracted to     *)
(* what the six decoders tell apart: the status, whether the body is       *)
(* empty, not JSON, JSON but not an object, or an object; the access_token *)
(* member; and the expires_in member with its JSON type.  A decoder        *)
(* returns a verdict: refuse the answer, or accept it and keep its token   *)
(* for ttl seconds.  A refusal stands for whatever the decoder raises.     *)
(***************************************************************************)
EXTENDS Integers

CONSTANT Fallback     \* the lifetime assumed when expires_in is missing (300 s)

ASSUME FallbackAssumption == Fallback \in Nat \ {0}

Bodies == {"empty", "garbage", "nonobject", "object"}
TokenKinds == {"absent", "empty", "text"}

\* expires_in: a JSON number, a string of digits, another string, null, or
\* no such member.  secs is 0 unless there are digits.
ExpiryKinds == {"number", "digits", "words", "null", "absent"}
Expiries == {e \in [kind : ExpiryKinds, secs : Int] :
                e.kind \in {"number", "digits"} \/ e.secs = 0}

Answers == [status : 200 .. 599, body : Bodies, token : TokenKinds,
            expires : Expiries]

Refuse == [ok |-> FALSE, ttl |-> 0]
Accept(ttl) == [ok |-> TRUE, ttl |-> ttl]
Verdicts == [ok : BOOLEAN, ttl : Int]

\* The lifetime an answer commits the server to: the positive one it names,
\* or the one every client falls back to.
Promised(a) == IF a.expires.secs > 0 THEN a.expires.secs ELSE Fallback

Success(a) == a.status \in 200 .. 299
Missing(e) == e.kind \in {"null", "absent"}

\* The lifetime used when a positive one is required.
OrFallback(secs) == IF secs > 0 THEN secs ELSE Fallback

\* A token is known by when the server stops honouring it and how long it was
\* meant to last.  An empty string is a token of no life at all.
Tokens == [until : Nat, life : Nat]
Blank == [until |-> 0, life |-> 0]

\* The token an answer carries, issued by the server at the time issued.
IssuedToken(a, issued, life) ==
    IF a.token = "text" THEN [until |-> issued + life, life |-> life] ELSE Blank

\* Slip: the empty token let through.
GoVerdictUntested(a) ==
    IF /\ a.status = 200
       /\ a.body = "object"
       /\ a.expires.kind \notin {"digits", "words"}
    THEN Accept(OrFallback(a.expires.secs))
    ELSE Refuse

(***************************************************************************)
(* Go: exactly 200; encoding/json refuses a string for an int field and    *)
(* leaves it 0 for null or a missing member.                               *)
(***************************************************************************)
GoVerdict(a) ==
    IF /\ a.status = 200
       /\ a.body = "object"
       /\ a.token = "text"
       /\ a.expires.kind \notin {"digits", "words"}
    THEN Accept(OrFallback(a.expires.secs))
    ELSE Refuse

Falsy(e) == Missing(e) \/ (e.kind = "number" /\ e.secs = 0)

(***************************************************************************)
(* Python: int(expires_in or 300).  A number 0 is falsy, the string "0" is *)
(* not, and a negative lifetime is kept as it is.                          *)
(***************************************************************************)
PythonVerdict(a) ==
    IF /\ Success(a)
       /\ a.body = "object"
       /\ a.expires.kind # "words"
       /\ a.token = "text"
    THEN Accept(IF Falsy(a.expires) THEN Fallback ELSE a.expires.secs)
    ELSE Refuse

(***************************************************************************)
(* Java: Jackson's asLong(0) reads a number or a string of digits, and is  *)
(* 0 for anything else.                                                    *)
(***************************************************************************)
JavaVerdict(a) ==
    IF Success(a) /\ a.body = "object" /\ a.token = "text"
    THEN Accept(OrFallback(a.expires.secs))
    ELSE Refuse

(***************************************************************************)
(* PHP: anything below 400 is an answer; both members must be set and not  *)
(* null, but the token may be empty and the lifetime is cast to int.       *)
(***************************************************************************)
PhpVerdict(a) ==
    IF /\ a.status < 400 /\ a.status # 204
       /\ a.body = "object"
       /\ a.token # "absent"
       /\ ~Missing(a.expires)
    THEN Accept(a.expires.secs)
    ELSE Refuse

(***************************************************************************)
(* Node: expires_in > 0 coerces a string of digits; other strings compare  *)
(* false.                                                                  *)
(***************************************************************************)
NodeVerdict(a) ==
    IF Success(a) /\ a.body = "object" /\ a.token = "text"
    THEN Accept(OrFallback(a.expires.secs))
    ELSE Refuse

(***************************************************************************)
(* .NET: a missing expires_in is 0, but TryGetInt64 on a member that is    *)
(* not a number throws, so the answer is refused.                          *)
(***************************************************************************)
DotnetVerdict(a) ==
    IF /\ Success(a) /\ a.status # 204
       /\ a.body = "object"
       /\ a.token = "text"
       /\ a.expires.kind \in {"number", "absent"}
    THEN Accept(OrFallback(a.expires.secs))
    ELSE Refuse
=============================================================================
