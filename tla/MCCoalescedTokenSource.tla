----------------------- MODULE MCCoalescedTokenSource -----------------------
EXTENDS CoalescedTokenSource

Answer(kind, secs) ==
    [status |-> 200, body |-> "object", token |-> "text",
     expires |-> [kind |-> kind, secs |-> secs]]

MCReplies == {Answer("number", 4), Answer("number", 1), Answer("words", 0)}
=============================================================================
