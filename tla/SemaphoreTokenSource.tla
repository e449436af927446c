------------------------ MODULE SemaphoreTokenSource ------------------------
(***************************************************************************)
(* The token source of the .NET SDK: a SemaphoreSlim(1, 1) awaited by      *)
(* tasks that may be cancelled while they wait or exchange, on a client    *)
(* that may be disposed of under them.                                     *)
(*                                                                         *)
(* What time does to the cached token is abstracted to Age; the margins    *)
(* are those of the Java SDK, see LockedTokenSource.  A client with a      *)
(* static token never comes here.                                          *)
(***************************************************************************)
EXTENDS Naturals, SequencesExt

CONSTANT Callers     \* tasks that share one client

VARIABLES client,    \* "open", "flagged" (_disposed set), "disposed"
          permits,   \* the semaphore's count
          queue,     \* its asynchronous waiters, first come first served
          cancelled, \* the calls whose CancellationToken has fired
          cache,     \* "none", "stale" or "usable"
          pc,        \* where each call is
          result     \* what its try block came to, see Release

vars == <<client, permits, queue, cancelled, cache, pc, result>>

Steps == {"idle", "entering", "queued", "checking", "exchanging", "releasing",
          "served", "failed"}
Holding == {"checking", "exchanging", "releasing"}
Holders == {c \in Callers : pc[c] \in Holding}

TypeOK ==
    /\ client \in {"open", "flagged", "disposed"}
    /\ permits \in {0, 1}
    /\ queue \in Seq(Callers)
    /\ cancelled \subseteq Callers
    /\ cache \in {"none", "stale", "usable"}
    /\ pc \in [Callers -> Steps]
    /\ result \in [Callers -> {"none", "served", "failed"}]

Init ==
    /\ client = "open" /\ permits = 1 /\ queue = <<>>
    /\ cancelled = {} /\ cache = "none"
    /\ pc = [c \in Callers |-> "idle"]
    /\ result = [c \in Callers |-> "none"]

Goto(c, step) == pc' = [pc EXCEPT ![c] = step]
-----------------------------------------------------------------------------
\* SendAsync looks at _disposed once, before it asks for a token.
Call(c) ==
    /\ pc[c] = "idle"
    /\ Goto(c, IF client = "open" THEN "entering" ELSE "failed")
    /\ UNCHANGED <<client, permits, queue, cancelled, cache, result>>

\* WaitAsync throws on a disposed semaphore and on a cancelled token, takes a
\* permit that is there, and queues otherwise.
WaitThrows(c) ==
    /\ pc[c] = "entering"
    /\ client = "disposed" \/ c \in cancelled
    /\ Goto(c, "failed")
    /\ UNCHANGED <<client, permits, queue, cancelled, cache, result>>

WaitTakes(c) ==
    /\ pc[c] = "entering"
    /\ client # "disposed" /\ c \notin cancelled
    /\ permits > 0
    /\ permits' = permits - 1
    /\ Goto(c, "checking")
    /\ UNCHANGED <<client, queue, cancelled, cache, result>>

WaitQueues(c) ==
    /\ pc[c] = "entering"
    /\ client # "disposed" /\ c \notin cancelled
    /\ permits = 0
    /\ queue' = Append(queue, c)
    /\ Goto(c, "queued")
    /\ UNCHANGED <<client, permits, cancelled, cache, result>>

\* Slip: a cancelled waiter stays in the queue.
WaitCancelledLingering(c) ==
    /\ pc[c] = "queued"
    /\ c \in cancelled
    /\ Goto(c, "failed")
    /\ UNCHANGED <<client, permits, queue, cancelled, cache, result>>

\* A queued waiter whose token fires leaves the queue, if Dispose has not
\* forgotten it, and throws.  One that was given the permit first keeps it.
WaitCancelled(c) ==
    /\ pc[c] = "queued"
    /\ c \in cancelled
    /\ IF c \in Range(queue)
       THEN \E i \in DOMAIN queue : queue[i] = c /\ queue' = RemoveAt(queue, i)
       ELSE UNCHANGED queue
    /\ Goto(c, "failed")
    /\ UNCHANGED <<client, permits, cancelled, cache, result>>

ServeCached(c) ==
    /\ pc[c] = "checking"
    /\ cache = "usable"
    /\ Goto(c, "releasing")
    /\ result' = [result EXCEPT ![c] = "served"]
    /\ UNCHANGED <<client, permits, queue, cancelled, cache>>

\* Slip: the cache is not looked at under the semaphore.
StartExchangeUnchecked(c) ==
    /\ pc[c] = "checking"
    /\ Goto(c, IF client = "open" THEN "exchanging" ELSE "releasing")
    /\ result' = [result EXCEPT ![c] = IF client = "open" THEN "none" ELSE "failed"]
    /\ UNCHANGED <<client, permits, queue, cancelled, cache>>

\* The exchange is a SendAsync of its own, which looks at _disposed again.
StartExchange(c) ==
    /\ pc[c] = "checking"
    /\ cache # "usable"
    /\ Goto(c, IF client = "open" THEN "exchanging" ELSE "releasing")
    /\ result' = [result EXCEPT ![c] = IF client = "open" THEN "none" ELSE "failed"]
    /\ UNCHANGED <<client, permits, queue, cancelled, cache>>

AdoptToken(c) ==
    /\ pc[c] = "exchanging"
    /\ cache' \in {"stale", "usable"}
    /\ Goto(c, "releasing")
    /\ result' = [result EXCEPT ![c] = "served"]
    /\ UNCHANGED <<client, permits, queue, cancelled>>

\* An error of the transport, a refused answer, a time-out, the call's own
\* cancellation, or the disposal of the HttpClient.  A lifetime beyond the last
\* DateTimeOffset makes AddSeconds throw, when the new token is in the cache but
\* the expiry is still the old one: the cache is as fresh as it was.
ExchangeFails(c) ==
    /\ pc[c] = "exchanging"
    /\ Goto(c, "releasing")
    /\ result' = [result EXCEPT ![c] = "failed"]
    /\ UNCHANGED <<client, permits, queue, cancelled, cache>>

\* Slip: the permit is counted up although a waiter was handed it.
ReleaseTwice(c) ==
    /\ pc[c] = "releasing"
    /\ client # "disposed"
    /\ permits' = permits + 1
    /\ queue' = IF queue = <<>> THEN queue ELSE Tail(queue)
    /\ pc' = [d \in Callers |->
                IF d = c THEN result[c]
                ELSE IF queue # <<>> /\ d = Head(queue) THEN "checking" ELSE pc[d]]
    /\ result' = [result EXCEPT ![c] = "none"]
    /\ UNCHANGED <<client, cancelled, cache>>

\* Slip: a failed call returns without the finally block.
ReleaseOnSuccess(c) ==
    /\ pc[c] = "releasing"
    /\ client # "disposed"
    /\ IF result[c] = "served" /\ queue = <<>>
       THEN permits' = permits + 1 ELSE UNCHANGED permits
    /\ IF result[c] = "served" /\ queue # <<>>
       THEN /\ queue' = Tail(queue)
            /\ pc' = [pc EXCEPT ![c] = result[c], ![Head(queue)] = "checking"]
       ELSE Goto(c, result[c]) /\ UNCHANGED queue
    /\ result' = [result EXCEPT ![c] = "none"]
    /\ UNCHANGED <<client, cancelled, cache>>

\* The finally block: Release hands the permit to the first waiter, or counts
\* it.
Release(c) ==
    /\ pc[c] = "releasing"
    /\ client # "disposed"
    /\ IF queue = <<>>
       THEN /\ permits' = permits + 1
            /\ Goto(c, result[c])
            /\ UNCHANGED queue
       ELSE /\ queue' = Tail(queue)
            /\ pc' = [pc EXCEPT ![c] = result[c], ![Head(queue)] = "checking"]
            /\ UNCHANGED permits
    /\ result' = [result EXCEPT ![c] = "none"]
    /\ UNCHANGED <<client, cancelled, cache>>

\* On a disposed semaphore Release throws ObjectDisposedException, which takes
\* the place of the token or of the error.
ReleaseThrows(c) ==
    /\ pc[c] = "releasing"
    /\ client = "disposed"
    /\ Goto(c, "failed")
    /\ result' = [result EXCEPT ![c] = "none"]
    /\ UNCHANGED <<client, permits, queue, cancelled, cache>>

\* The request made with the token is over, or the error has been dealt with.
\* _disposed is not looked at again before that request is sent.
Finish(c) ==
    /\ pc[c] \in {"served", "failed"}
    /\ Goto(c, "idle")
    /\ cancelled' = cancelled \ {c}
    /\ UNCHANGED <<client, permits, queue, cache, result>>

Cancel(c) ==
    /\ pc[c] # "idle"
    /\ cancelled' = cancelled \cup {c}
    /\ UNCHANGED <<client, permits, queue, cache, pc, result>>

\* Dispose sets the flag, then disposes of the semaphore, which forgets its
\* waiters.
DisposeFlag ==
    /\ client = "open"
    /\ client' = "flagged"
    /\ UNCHANGED <<permits, queue, cancelled, cache, pc, result>>

DisposeSemaphore ==
    /\ client = "flagged"
    /\ client' = "disposed"
    /\ queue' = <<>>
    /\ UNCHANGED <<permits, cancelled, cache, pc, result>>

\* Time passes, or the wall clock is set.
Age ==
    /\ cache # "none"
    /\ cache' \in {"stale", "usable"}
    /\ UNCHANGED <<client, permits, queue, cancelled, pc, result>>

TaskStep(c) ==
    \/ WaitThrows(c) \/ WaitTakes(c) \/ WaitQueues(c) \/ WaitCancelled(c)
    \/ ServeCached(c) \/ StartExchange(c) \/ AdoptToken(c) \/ ExchangeFails(c)
    \/ Release(c) \/ ReleaseThrows(c)

Next ==
    \/ \E c \in Callers : TaskStep(c) \/ Call(c) \/ Finish(c) \/ Cancel(c)
    \/ DisposeFlag \/ DisposeSemaphore \/ Age

Spec == Init /\ [][Next]_vars

\* Ready tasks run, and exchanges end.
FairSpec == Spec /\ \A c \in Callers : WF_vars(TaskStep(c))
-----------------------------------------------------------------------------
\* The permit is in the semaphore or with one call, never lost to a waiter
\* that was cancelled, to an error or to a hand-over, and never doubled.
PermitConserved ==
    /\ client # "disposed" => permits + Cardinality(Holders) = 1
    /\ Cardinality(Holders) <= 1

\* No call is asleep while the permit is free, and none sleeps outside the
\* queue that would wake it: no wake-up is lost to a cancellation.
NoLostWakeup ==
    client # "disposed" =>
        /\ permits > 0 => queue = <<>>
        /\ \A c \in Callers : pc[c] = "queued" <=> c \in Range(queue)
        /\ IsInjective(queue)

\* A call that waits its turn gets it, is cancelled, or finds the client
\* disposed of, however many others fail, are cancelled or keep asking.
WaitEnds ==
    \A c \in Callers : pc[c] = "queued" ~> pc[c] # "queued" \/ client = "disposed"

\* What the token source promises, see TokenService.  An exchange is over when
\* its call has its outcome, and the outcome is told in the finally block.
Service == INSTANCE TokenService WITH
    Cancellable <- TRUE,
    phase <- [c \in Callers |->
                IF pc[c] \in {"idle", "served", "failed"} THEN pc[c] ELSE "pending"],
    cred <- cache,
    joined <- {c \in Callers : pc[c] = "exchanging"},
    verdict <- "nothing",
    owed <- [c \in Callers |-> IF result[c] = "none" THEN "nothing" ELSE result[c]]

ImplementsService == Service!Spec
=============================================================================
