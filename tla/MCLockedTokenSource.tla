------------------------ MODULE MCLockedTokenSource ------------------------
\* One leeway is two ticks of 30 s, so that a time-out is one tick, and the
\* fallback lifetime is shrunk to four.
EXTENDS LockedTokenSource

\* Java may see its clock set back by one tick, the others not at all: with
\* more the timing assumption fails.
MCMaxStep == [s \in Sdks |-> IF StampsBefore(s) THEN 1 ELSE 0]

Answer(body, tok, kind, secs) ==
    [status |-> 200, body |-> body, token |-> tok,
     expires |-> [kind |-> kind, secs |-> secs]]

MCReplies == {
    Answer("object", "text", "number", 4),
    Answer("object", "text", "number", 1),
    Answer("object", "text", "number", -1),
    Answer("object", "text", "null", 0),
    Answer("object", "empty", "number", 4)}

MCRepliesOne == {Answer("object", "text", "number", 3)}
=============================================================================
