---------------------------- MODULE GitHubClient ----------------------------
(***************************************************************************)
(* The transport every part of the program shares: GitHubClient._request   *)
(* with its retries, and the paged listings built on it (github_api.py).   *)
(* Jobs make one call after the other; what one creates the listings of    *)
(* the others see, newest first.  An attempt may land on the server even   *)
(* when its answer is an error, is late or is lost.                        *)
(***************************************************************************)
EXTENDS Integers, FiniteSets

CONSTANTS
    Jobs,
    MaxAttempts,   \* _MAX_ATTEMPTS
    RetryAfters,   \* retry-after values of secondary rate limits, in seconds
    PageSize,      \* _LIST_PER_PAGE
    MaxPages,      \* _MAX_LIST_PAGES
    MaxItems,      \* bound: items ever created
    MaxCalls       \* bound: calls of all jobs

ASSUME AttemptsAssumption == MaxAttempts \in Nat \ {0}
ASSUME PagesAssumption    == PageSize \in Nat \ {0} /\ MaxPages \in Nat \ {0}
ASSUME BoundsAssumption   == {MaxItems, MaxCalls} \subseteq Nat /\ RetryAfters \subseteq Nat

VARIABLES
    items,   \* the items on the server are numbered 1 .. items
    pc,      \* "idle" or "calling", per job
    call,    \* the call a job makes, or has made last
    calls    \* how many calls have been made

vars == <<items, pc, call, calls>>

Kinds   == {"create", "edit", "list"}

\* How a call ends.  "refused" is an error with a status_code, "unclear" one
\* without: the caller then looks whether its write has landed after all.  An
\* "uncaught" one is httpx's own and no GitHubAPIError.
Results == {"none", "ok", "refused", "unclear", "uncaught"}

\* The locals of _request and _paginate.  History: how often the server carried
\* the call out (2: more than once), whether it answered 5xx, and the items there
\* were at first.
Seen(kind) == IF kind = "list" THEN items ELSE 0

FreshBlank(kind) ==   \* mutant: raise last_error, whatever it is
    [kind |-> kind, attempt |-> 0, slept |-> FALSE, waited |-> 0, last |-> "none",
     pages |-> 0, got |-> {}, landed |-> 0, broken |-> FALSE, before |-> Seen(kind), result |-> "none"]

Fresh(kind) ==
    [kind |-> kind, attempt |-> 0, slept |-> FALSE, waited |-> 0, last |-> "unclear",
     pages |-> 0, got |-> {}, landed |-> 0, broken |-> FALSE, before |-> Seen(kind), result |-> "none"]

Init ==
    /\ items = 0
    /\ pc = [j \in Jobs |-> "idle"]
    /\ call = [j \in Jobs |-> Fresh("list")]
    /\ calls = 0

Begin(j) ==
    /\ pc[j] = "idle" /\ calls < MaxCalls
    /\ \E kind \in Kinds : call' = [call EXCEPT ![j] = Fresh(kind)]
    /\ calls' = calls + 1
    /\ pc' = [pc EXCEPT ![j] = "calling"]
    /\ UNCHANGED items

Idempotent(c) == c.kind # "create"
LastTry(c)    == c.attempt = MaxAttempts - 1

GoOn(j, c) == call' = [call EXCEPT ![j] = c] /\ UNCHANGED pc

\* What is left of a call that has ended: its result and its history.
End(j, c, result) ==
    /\ call' = [call EXCEPT ![j] =
                  [Fresh(c.kind) EXCEPT !.got = c.got, !.landed = c.landed, !.broken = c.broken,
                                        !.before = c.before, !.result = result]]
    /\ pc' = [pc EXCEPT ![j] = "idle"]

RetryUncounted(j, c, error) ==   \* mutant: the attempts are not counted
    GoOn(j, [c EXCEPT !.last = error])

\* Another attempt after 1, 2, ... seconds; the last one raises what it met.
Retry(j, c, error) ==
    IF LastTry(c) THEN End(j, c, error)
    ELSE GoOn(j, [c EXCEPT !.attempt = @ + 1, !.waited = @ + 2 ^ c.attempt, !.last = error])

\* The call as it is once the server has carried the attempt out.
Carried(c) == [c EXCEPT !.landed = IF @ = 0 THEN 1 ELSE 2]
Carry(c)   == /\ c.kind # "list"
              /\ items' = IF c.kind = "create" THEN items + 1 ELSE items
              /\ items' <= MaxItems

\* Page p of n items, newest first, and whether its Link header names a next one.
PageOf(n, p)  == {i \in 1 .. n : p * PageSize <= n - i /\ n - i < (p + 1) * PageSize}
NextLink(n, p) == (p + 1) * PageSize < n

Write(j) ==
    /\ pc[j] = "calling" /\ Carry(call[j])
    /\ End(j, Carried(call[j]), "ok")
    /\ UNCHANGED calls

\* _paginate: every page is a _request of its own, a cap ends the listing.
Page(j) ==
    LET c == call[j]
        d == [c EXCEPT !.got = @ \union PageOf(items, c.pages), !.pages = @ + 1] IN
    /\ pc[j] = "calling" /\ c.kind = "list"
    /\ IF NextLink(items, c.pages) /\ d.pages < MaxPages
       THEN GoOn(j, [d EXCEPT !.attempt = 0, !.slept = FALSE, !.waited = 0, !.last = "unclear"])
       ELSE End(j, d, "ok")
    /\ UNCHANGED <<items, calls>>

\* 4xx, or the primary rate limit: nothing has landed, nothing is repeated.
RejectedShort(j) ==   \* mutant: a listing keeps the pages it has
    /\ pc[j] = "calling"
    /\ End(j, call[j], IF call[j].pages > 0 THEN "ok" ELSE "refused")
    /\ UNCHANGED <<items, calls>>

Rejected(j) ==
    /\ pc[j] = "calling"
    /\ End(j, call[j], "refused")
    /\ UNCHANGED <<items, calls>>

\* 5xx: repeated also for a create, and it may have landed.
ServerError(j) ==
    LET c == [call[j] EXCEPT !.broken = TRUE] IN
    /\ pc[j] = "calling"
    /\ \/ Carry(c) /\ Retry(j, Carried(c), "refused")
       \/ Retry(j, c, "refused") /\ UNCHANGED items
    /\ UNCHANGED calls

\* A timeout or a protocol error: nobody knows whether it has landed.
RetriesAlways(c) == TRUE          \* mutant: "always retry"
Retries(c)       == Idempotent(c)

Unanswered(j) ==
    LET c == call[j]
        after(d) == IF Retries(c) THEN Retry(j, d, "unclear") ELSE End(j, d, "unclear") IN
    /\ pc[j] = "calling"
    /\ \/ Carry(c) /\ after(Carried(c))
       \/ after(c) /\ UNCHANGED items
    /\ UNCHANGED calls

\* ConnectError: nothing was sent.
NotConnected(j) ==
    /\ pc[j] = "calling"
    /\ Retry(j, call[j], "unclear")
    /\ UNCHANGED <<items, calls>>

\* A TLS error is never repeated.
NoTLS(j) ==
    /\ pc[j] = "calling"
    /\ End(j, call[j], "unclear")
    /\ UNCHANGED <<items, calls>>

\* A connection reset while the request is sent or its answer is read: httpx has
\* a ReadError or a WriteError for it, which _request lets pass.
Reset(j) ==
    LET c == call[j] IN
    /\ pc[j] = "calling"
    /\ \/ Carry(c) /\ End(j, Carried(c), "uncaught")
       \/ End(j, c, "uncaught") /\ UNCHANGED items
    /\ UNCHANGED calls

\* 403 with retry-after: slept for once, and that costs an attempt; when it was
\* the last one the error of the attempt before is raised.
AlwaysPatient(c) == TRUE      \* mutant: no secondary_slept
Patient(c)       == ~c.slept

Throttled(j) ==
    LET c == call[j] IN
    /\ pc[j] = "calling"
    /\ \E wait \in RetryAfters :
         LET d == [c EXCEPT !.slept = TRUE, !.waited = @ + wait] IN
         IF ~Patient(c) THEN End(j, c, "refused")
         ELSE IF LastTry(c) THEN End(j, d, c.last)
         ELSE GoOn(j, [d EXCEPT !.attempt = @ + 1])
    /\ UNCHANGED <<items, calls>>

Answer(j) == \/ Write(j) \/ Page(j) \/ Rejected(j) \/ ServerError(j) \/ Unanswered(j)
             \/ NotConnected(j) \/ NoTLS(j) \/ Reset(j) \/ Throttled(j)

Next == \E j \in Jobs : Begin(j) \/ Answer(j)

Spec == Init /\ [][Next]_vars
FairSpec == Spec /\ \A j \in Jobs : WF_vars(Answer(j))

-----------------------------------------------------------------------------
(* Properties *)

TypeOK ==
    /\ items \in 0 .. MaxItems
    /\ pc \in [Jobs -> {"idle", "calling"}]
    /\ calls \in 0 .. MaxCalls
    /\ call \in [Jobs ->
         [kind : Kinds, attempt : 0 .. MaxAttempts - 1, slept : BOOLEAN, waited : Nat,
          last : {"refused", "unclear"}, pages : 0 .. MaxPages, got : SUBSET (1 .. MaxItems),
          landed : 0 .. 2, broken : BOOLEAN, before : 0 .. MaxItems, result : Results]]

\* A call that creates something creates it once, or the server has answered an
\* attempt with a 5xx after all ("a blind retry would post duplicates").
CreatesOnce ==
    \A j \in Jobs : call[j].kind = "create" /\ call[j].landed > 1 => call[j].broken

\* An error with a status code, after which no caller looks again, means that a
\* create has not landed; again a 5xx is the only exception.
RefusedIsRefused ==
    \A j \in Jobs :
        call[j].kind = "create" /\ call[j].result = "refused" /\ call[j].landed > 0
            => call[j].broken

\* Of a create that may have landed the caller is told so: its error has no
\* status code ("dropped connection: the comment may have landed").
LandedIsLookedFor ==
    \A j \in Jobs :
        /\ call[j].kind = "create" /\ call[j].landed > 0 /\ ~call[j].broken
        /\ call[j].result \notin {"none", "ok"}
        => call[j].result = "unclear"

\* A listing that returns has every item that existed when it began, however
\* many were created between its pages, as long as the cap on pages holds.
ListingComplete ==
    \A j \in Jobs :
        call[j].kind = "list" /\ call[j].result = "ok" =>
            \A i \in 1 .. call[j].before : items - i < MaxPages * PageSize => i \in call[j].got

\* Between its attempts a request sleeps no longer than the backoff of all of
\* them and one retry-after.
PatienceEnds ==
    \A j \in Jobs : \E w \in RetryAfters \union {0} :
        call[j].waited <= w + 2 ^ (MaxAttempts - 1) - 1

\* Every call ends, with an answer or an exception.
CallsEnd == \A j \in Jobs : pc[j] = "calling" ~> pc[j] = "idle"
=============================================================================
