--------------------------- MODULE GitHubClientProofs ---------------------------
(***************************************************************************)
(* Proofs about GitHubClient, for any number of jobs, attempts, pages and  *)
(* items.                                                                  *)
(***************************************************************************)
EXTENDS GitHubClient, FiniteSetTheorems, TLAPS

CallType ==
    [kind : Kinds, attempt : 0 .. MaxAttempts - 1, slept : BOOLEAN, waited : Nat,
     last : {"refused", "unclear"}, pages : 0 .. MaxPages, got : SUBSET (1 .. MaxItems),
     landed : 0 .. 2, broken : BOOLEAN, before : 0 .. MaxItems, result : Results]

\* A listing of n items that has got the newest "most" of them.
Covers(c, most, n) == \A i \in 1 .. c.before : n - i < most => i \in c.got

\* While a create goes on after it has landed, the server has answered it a 5xx:
\* every other answer ends the call.
CreateGood(c, at) ==
    c.kind = "create" =>
        /\ at = "calling" /\ c.landed > 0 => c.broken
        /\ c.landed > 1 => c.broken
        /\ c.result = "refused" /\ c.landed > 0 => c.broken

\* A listing has all items of the pages it has read, also of those created since.
ListGood(c, at, n) ==
    c.kind = "list" =>
        /\ c.before <= n
        /\ at = "calling" => /\ Covers(c, c.pages * PageSize, n)
                             /\ c.pages < MaxPages /\ c.result = "none"
        /\ c.result = "ok" => Covers(c, MaxPages * PageSize, n)

\* The attempts so far have slept the backoff of as many, and once a retry-after.
PatienceGood(c) ==
    \E w \in RetryAfters \union {0} :
        /\ c.waited <= w + 2 ^ c.attempt - 1
        /\ ~c.slept => w = 0

IInv ==
    /\ TypeOK
    /\ \A j \in Jobs : /\ CreateGood(call[j], pc[j])
                       /\ ListGood(call[j], pc[j], items)
                       /\ PatienceGood(call[j])

-----------------------------------------------------------------------------
(* Powers of two, which count subsets; products of a page size *)

LEMMA PowerCounts ==
    ASSUME NEW n \in Nat
    PROVE  /\ IsFiniteSet(SUBSET (1 .. n)) /\ Cardinality(SUBSET (1 .. n)) = 2 ^ n
           /\ 2 ^ n \in Nat
<1>1. IsFiniteSet(1 .. n) /\ Cardinality(1 .. n) = IF 1 > n THEN 0 ELSE n - 1 + 1
  BY FS_Interval, 1 \in Int, n \in Int
<1>2. IsFiniteSet(SUBSET (1 .. n)) /\ Cardinality(SUBSET (1 .. n)) = 2 ^ n
  <2>1. Cardinality(1 .. n) = n
    BY <1>1
  <2> QED BY <1>1, <2>1, FS_SUBSET
<1> QED BY <1>2, FS_CardinalityType

LEMMA PowerGrows ==
    ASSUME NEW n \in Nat, NEW m \in Nat, n <= m
    PROVE  2 ^ n <= 2 ^ m
<1>1. SUBSET (1 .. n) \in SUBSET (SUBSET (1 .. m))
  OBVIOUS
<1>2. Cardinality(SUBSET (1 .. n)) <= Cardinality(SUBSET (1 .. m))
  BY <1>1, PowerCounts, FS_Subset
<1> QED BY <1>2, PowerCounts

LEMMA PowerOfZero == 2 ^ 0 = 1
<1>1. SUBSET (1 .. 0) = {{}}
  OBVIOUS
<1> QED BY <1>1, PowerCounts, FS_Singleton

LEMMA PowerDoubles ==
    ASSUME NEW n \in Nat
    PROVE  2 ^ (n + 1) = 2 ^ n + 2 ^ n
<1> DEFINE Old == SUBSET (1 .. n)
           New == {S \union {n + 1} : S \in Old}
           f   == [S \in Old |-> S \union {n + 1}]
<1>1. f \in Bijection(Old, New)
  <2>1. f \in [Old -> New]
    OBVIOUS
  <2>2. \A S, T \in Old : f[S] = f[T] => S = T
    <3> SUFFICES ASSUME NEW S \in Old, NEW T \in Old, S \union {n + 1} = T \union {n + 1}
                 PROVE  S = T
      OBVIOUS
    <3>1. n + 1 \notin S /\ n + 1 \notin T
      OBVIOUS
    <3> QED BY <3>1
  <2>3. \A U \in New : \E S \in Old : f[S] = U
    OBVIOUS
  <2> QED BY <2>1, <2>2, <2>3 DEF Bijection, Injection, Surjection, IsInjective
<1>2. IsFiniteSet(New) /\ Cardinality(New) = Cardinality(Old)
  <2>1. IsFiniteSet(Old) /\ ExistsBijection(Old, New)
    BY <1>1, PowerCounts DEF ExistsBijection
  <2> HIDE DEF Old, New
  <2> QED BY <2>1, FS_Bijection
<1>3. SUBSET (1 .. n + 1) = Old \union New
  <2>1. ASSUME NEW U \in SUBSET (1 .. n + 1) PROVE U \in Old \union New
    <3>1. CASE n + 1 \in U
      <4>1. U \ {n + 1} \in Old /\ U = (U \ {n + 1}) \union {n + 1}
        BY <3>1
      <4> QED BY <4>1
    <3>2. CASE n + 1 \notin U
      BY <3>2
    <3> QED BY <3>1, <3>2
  <2>2. ASSUME NEW S \in Old PROVE S \in SUBSET (1 .. n + 1) /\ S \union {n + 1} \in SUBSET (1 .. n + 1)
    <3>1. \A i \in S : i \in 1 .. n + 1
      OBVIOUS
    <3>2. n + 1 \in 1 .. n + 1
      OBVIOUS
    <3> HIDE DEF Old
    <3> QED BY <3>1, <3>2
  <2>3. New \subseteq SUBSET (1 .. n + 1)
    <3>1. \A U \in New : \E S \in Old : U = S \union {n + 1}
      OBVIOUS
    <3> HIDE DEF Old, New
    <3> QED BY <2>2, <3>1
  <2>4. Old \subseteq SUBSET (1 .. n + 1)
    BY <2>2
  <2> HIDE DEF Old, New
  <2> QED BY <2>1, <2>3, <2>4
<1>4. Old \intersect New = {}
  OBVIOUS
<1> HIDE DEF Old, New
<1>5. Cardinality(Old \union New) = Cardinality(Old) + Cardinality(New) - 0
  <2>1. IsFiniteSet(Old)
    BY PowerCounts DEF Old
  <2> QED BY <1>2, <1>4, <2>1, FS_Union, FS_EmptySet
<1> QED
  <2>1. Cardinality(Old) = 2 ^ n /\ 2 ^ n \in Nat /\ Cardinality(Old \union New) = 2 ^ (n + 1)
    <3>1. Cardinality(SUBSET (1 .. n + 1)) = 2 ^ (n + 1)
      BY PowerCounts
    <3>2. Cardinality(Old) = 2 ^ n /\ 2 ^ n \in Nat
      BY PowerCounts DEF Old
    <3> QED BY <1>3, <3>1, <3>2
  <2> QED BY <1>2, <1>5, <2>1

USE AttemptsAssumption, PagesAssumption, BoundsAssumption

LEMMA Pages ==
    ASSUME NEW p \in Nat
    PROVE  /\ p * PageSize \in Nat
           /\ (p + 1) * PageSize = p * PageSize + PageSize
           /\ 0 * PageSize = 0
OBVIOUS

-----------------------------------------------------------------------------
(* The steps *)

\* What a listing has got it keeps while items are created.
LEMMA CoversMore ==
    ASSUME NEW c, c.before \in Nat, NEW n \in Nat, NEW m \in Nat, m >= n,
           NEW most \in Nat, Covers(c, most, n)
    PROVE  Covers(c, most, m)
BY DEF Covers

LEMMA FreshFacts ==
    ASSUME NEW kind \in Kinds, items \in 0 .. MaxItems
    PROVE  /\ Fresh(kind) \in CallType /\ Fresh(kind).kind = kind
           /\ Fresh(kind).pages = 0 /\ Fresh(kind).result = "none" /\ Fresh(kind).landed = 0
           /\ Fresh(kind).waited = 0 /\ Fresh(kind).attempt = 0 /\ Fresh(kind).slept = FALSE
           /\ kind = "list" => Fresh(kind).before = items
BY DEF Fresh, Seen, CallType, Results

\* What is left to show of a step of one job.
LEMMA JobStep ==
    ASSUME IInv, NEW j \in Jobs, NEW d \in CallType, NEW at \in {"idle", "calling"},
           call' = [call EXCEPT ![j] = d], pc' = [pc EXCEPT ![j] = at],
           items' \in 0 .. MaxItems, items' >= items, calls' \in 0 .. MaxCalls,
           CreateGood(d, at), ListGood(d, at, items'), PatienceGood(d)
    PROVE  IInv'
<1>1. TypeOK
  BY DEF IInv
<1>2. /\ call \in [Jobs -> CallType] /\ items \in 0 .. MaxItems
      /\ pc \in [Jobs -> {"idle", "calling"}]
  BY <1>1 DEF TypeOK, CallType
<1>3. TypeOK'
  BY <1>2 DEF TypeOK, CallType
<1>4. ASSUME NEW k \in Jobs
      PROVE  CreateGood(call[k], pc[k])' /\ ListGood(call[k], pc[k], items)' /\ PatienceGood(call[k])'
  <2>1. CASE k = j
    <3>1. call'[k] = d /\ pc'[k] = at
      BY <1>2, <2>1
    <3> QED BY <3>1
  <2>2. CASE k # j
    <3>1. call'[k] = call[k] /\ pc'[k] = pc[k] /\ call[k] \in CallType
      BY <1>2, <2>2
    <3>2. CreateGood(call[k], pc[k]) /\ ListGood(call[k], pc[k], items) /\ PatienceGood(call[k])
      BY DEF IInv
    <3>3. ASSUME NEW most \in Nat, Covers(call[k], most, items)
          PROVE  Covers(call[k], most, items')
      <4>1. call[k].before \in Nat /\ items \in Nat /\ items' \in Nat
        BY <1>2, <3>1 DEF CallType
      <4> QED BY <3>3, <4>1, CoversMore
    <3>4. ListGood(call[k], pc[k], items')
      <4>1. call[k].pages * PageSize \in Nat /\ MaxPages * PageSize \in Nat /\ call[k].before \in Nat
        BY <3>1, Pages DEF CallType
      <4> QED BY <1>2, <3>2, <3>3, <4>1 DEF ListGood
    <3> QED BY <3>1, <3>2, <3>4
  <2> QED BY <2>1, <2>2
<1> QED BY <1>3, <1>4 DEF IInv

\* What a job that is calling has reached.
LEMMA CallingFacts ==
    ASSUME IInv, NEW j \in Jobs, pc[j] = "calling"
    PROVE  /\ call[j] \in CallType /\ call \in [Jobs -> CallType]
           /\ pc = [pc EXCEPT ![j] = "calling"]
           /\ items \in 0 .. MaxItems /\ calls \in 0 .. MaxCalls
           /\ CreateGood(call[j], "calling") /\ ListGood(call[j], "calling", items)
           /\ PatienceGood(call[j])
<1>1. call \in [Jobs -> CallType] /\ pc \in [Jobs -> {"idle", "calling"}]
  BY DEF IInv, TypeOK, CallType
<1> QED BY <1>1 DEF IInv, TypeOK

\* The call goes on as d.
LEMMA GoOnStep ==
    ASSUME IInv, NEW j \in Jobs, pc[j] = "calling", NEW d \in CallType, GoOn(j, d),
           items' \in 0 .. MaxItems, items' >= items, UNCHANGED calls,
           CreateGood(d, "calling"), ListGood(d, "calling", items'), PatienceGood(d)
    PROVE  IInv'
<1>1. call' = [call EXCEPT ![j] = d] /\ pc' = [pc EXCEPT ![j] = "calling"]
  BY CallingFacts DEF GoOn
<1> QED BY <1>1, CallingFacts, JobStep

\* The call ends.
LEMMA EndStep ==
    ASSUME IInv, NEW j \in Jobs, pc[j] = "calling", NEW c \in CallType, NEW result \in Results,
           End(j, c, result),
           items' \in 0 .. MaxItems, items' >= items, UNCHANGED calls,
           c.kind = "create" => /\ c.landed > 1 => c.broken
                                /\ result = "refused" /\ c.landed > 0 => c.broken,
           c.kind = "list" => /\ c.before <= items'
                              /\ result = "ok" => Covers(c, MaxPages * PageSize, items')
    PROVE  IInv'
<1> DEFINE d == [Fresh(c.kind) EXCEPT !.got = c.got, !.landed = c.landed, !.broken = c.broken,
                                      !.before = c.before, !.result = result]
<1>1. call' = [call EXCEPT ![j] = d] /\ pc' = [pc EXCEPT ![j] = "idle"]
  BY DEF End
<1>2. /\ d \in CallType /\ d.kind = c.kind /\ d.got = c.got /\ d.landed = c.landed
      /\ d.broken = c.broken /\ d.before = c.before /\ d.result = result
      /\ d.waited = 0 /\ d.attempt = 0 /\ d.slept = FALSE
  <2> DEFINE f == Fresh(c.kind)
  <2>1. /\ f \in CallType /\ f.kind = c.kind
        /\ f.waited = 0 /\ f.attempt = 0 /\ f.slept = FALSE
    BY CallingFacts, FreshFacts DEF CallType
  <2> HIDE DEF f
  <2>2. /\ c.got \in SUBSET (1 .. MaxItems) /\ c.landed \in 0 .. 2
        /\ c.broken \in BOOLEAN /\ c.before \in 0 .. MaxItems
    BY DEF CallType
  <2>3. d = [f EXCEPT !.got = c.got, !.landed = c.landed, !.broken = c.broken,
                      !.before = c.before, !.result = result]
    BY DEF f
  <2> HIDE DEF d
  <2> QED BY <2>1, <2>2, <2>3 DEF CallType
<1> HIDE DEF d
<1>3. CreateGood(d, "idle")
  BY <1>2 DEF CreateGood
<1>4. ListGood(d, "idle", items')
  BY <1>2 DEF ListGood, Covers
<1>5. PatienceGood(d)
  <2>1. d.waited <= 0 + 2 ^ d.attempt - 1
    BY <1>2, PowerOfZero
  <2> QED BY <1>2, <2>1 DEF PatienceGood
<1> QED BY <1>1, <1>2, <1>3, <1>4, <1>5, CallingFacts, JobStep

\* Another attempt, or the end of the last.
LEMMA RetryStep ==
    ASSUME IInv, NEW j \in Jobs, pc[j] = "calling", NEW c \in CallType,
           NEW error \in {"refused", "unclear"}, Retry(j, c, error),
           items' \in 0 .. MaxItems, items' >= items, UNCHANGED calls,
           CreateGood(c, "calling"), ListGood(c, "calling", items'), PatienceGood(c)
    PROVE  IInv'
<1>1. CASE LastTry(c)
  <2>1. End(j, c, error)
    BY <1>1 DEF Retry
  <2>2. error \in Results /\ error # "ok"
    BY DEF Results
  <2> QED BY <2>1, <2>2, EndStep DEF CreateGood, ListGood, CallType
<1>2. CASE ~LastTry(c)
  <2> DEFINE a == c.attempt + 1
             w == c.waited + 2 ^ c.attempt
             d == [c EXCEPT !.attempt = a, !.waited = w, !.last = error]
  <2>1. GoOn(j, d)
    BY <1>2 DEF Retry, CallType
  <2>2. c.attempt \in Nat /\ a \in 0 .. MaxAttempts - 1
    BY <1>2 DEF LastTry, CallType
  <2>3. 2 ^ c.attempt \in Nat /\ 2 ^ a = 2 ^ c.attempt + 2 ^ c.attempt
    BY <2>2, PowerCounts, PowerDoubles
  <2>4. c.waited \in Nat /\ w \in Nat
    BY <2>3 DEF CallType
  <2>5. PICK v \in RetryAfters \union {0} : c.waited <= v + 2 ^ c.attempt - 1 /\ (~c.slept => v = 0)
    BY DEF PatienceGood
  <2>6. w <= v + 2 ^ a - 1
    <3>1. v \in Nat
      OBVIOUS
    <3> HIDE DEF a
    <3> QED BY <2>3, <2>4, <2>5, <3>1
  <2> HIDE DEF a, w
  <2>7. /\ d \in CallType /\ d.kind = c.kind /\ d.got = c.got /\ d.landed = c.landed
        /\ d.broken = c.broken /\ d.before = c.before /\ d.result = c.result /\ d.pages = c.pages
        /\ d.waited = w /\ d.attempt = a /\ d.slept = c.slept
    BY <2>2, <2>4 DEF CallType
  <2> HIDE DEF d
  <2>8. PatienceGood(d)
    BY <2>5, <2>6, <2>7 DEF PatienceGood
  <2>9. CreateGood(d, "calling") /\ ListGood(d, "calling", items')
    BY <2>7 DEF CreateGood, ListGood, Covers
  <2> QED BY <2>1, <2>7, <2>8, <2>9, GoOnStep
<1> QED BY <1>1, <1>2

LEMMA BeginStep == ASSUME IInv, NEW j \in Jobs, Begin(j) PROVE IInv'
<1>1. PICK kind \in Kinds : call' = [call EXCEPT ![j] = Fresh(kind)]
  BY DEF Begin
<1>2. items \in 0 .. MaxItems /\ calls \in 0 .. MaxCalls
  BY DEF IInv, TypeOK
<1> DEFINE d == Fresh(kind)
<1>3. /\ d \in CallType /\ d.kind = kind /\ d.pages = 0 /\ d.result = "none" /\ d.landed = 0
      /\ d.waited = 0 /\ d.attempt = 0 /\ d.slept = FALSE
      /\ kind = "list" => d.before = items
  BY <1>2, FreshFacts
<1> HIDE DEF d
<1>4. CreateGood(d, "calling")
  BY <1>3 DEF CreateGood
<1>5. ListGood(d, "calling", items)
  <2>1. \A i \in 1 .. items : ~(items - i < 0)
    BY <1>2
  <2> QED BY <1>2, <1>3, <2>1, Pages DEF ListGood, Covers
<1>6. PatienceGood(d)
  <2>1. d.waited <= 0 + 2 ^ d.attempt - 1 /\ ~d.slept
    BY <1>3, PowerOfZero
  <2> QED BY <2>1 DEF PatienceGood
<1>7. calls' \in 0 .. MaxCalls /\ pc' = [pc EXCEPT ![j] = "calling"] /\ items' = items
  BY <1>2 DEF Begin
<1>8. call' = [call EXCEPT ![j] = d]
  BY <1>1 DEF d
<1>9. items' \in 0 .. MaxItems /\ items' >= items /\ ListGood(d, "calling", items')
  BY <1>2, <1>5, <1>7
<1> QED BY <1>3, <1>4, <1>6, <1>7, <1>8, <1>9, JobStep

\* An attempt that the server has carried out.
LEMMA CarriedFacts ==
    ASSUME IInv, NEW c \in CallType, Carry(c)
    PROVE  /\ Carried(c) \in CallType /\ Carried(c).kind = c.kind /\ c.kind # "list"
           /\ Carried(c).broken = c.broken /\ Carried(c).waited = c.waited
           /\ Carried(c).attempt = c.attempt /\ Carried(c).slept = c.slept
           /\ Carried(c).landed > 1 => c.landed > 0
           /\ items' \in 0 .. MaxItems /\ items' >= items
<1>1. items \in 0 .. MaxItems
  BY DEF IInv, TypeOK
<1>2. c.landed \in 0 .. 2
  BY DEF CallType
<1>3. items' \in 0 .. MaxItems /\ items' >= items
  BY <1>1 DEF Carry
<1>4. c.kind # "list"
  BY DEF Carry
<1> QED BY <1>2, <1>3, <1>4 DEF Carried, CallType

\* A call ends with an attempt that was carried out.
LEMMA CarriedEndStep ==
    ASSUME IInv, NEW j \in Jobs, pc[j] = "calling", UNCHANGED calls, Carry(call[j]),
           NEW result \in Results, result # "refused", End(j, Carried(call[j]), result)
    PROVE  IInv'
<1> DEFINE c == call[j]
           d == Carried(c)
<1>1. c \in CallType /\ CreateGood(c, "calling") /\ Carry(c) /\ End(j, d, result)
  BY CallingFacts
<1>2. /\ d \in CallType /\ d.kind = c.kind /\ d.broken = c.broken /\ c.kind # "list"
      /\ d.landed > 1 => c.landed > 0
      /\ items' \in 0 .. MaxItems /\ items' >= items
  BY <1>1, CarriedFacts
<1> HIDE DEF c, d
<1>3. d.kind = "create" => /\ d.landed > 1 => d.broken
                           /\ result = "refused" /\ d.landed > 0 => d.broken
  BY <1>1, <1>2 DEF CreateGood
<1>4. d.kind = "list" => /\ d.before <= items'
                         /\ result = "ok" => Covers(d, MaxPages * PageSize, items')
  BY <1>2
<1> QED BY <1>1, <1>2, <1>3, <1>4, EndStep

LEMMA WriteStep == ASSUME IInv, NEW j \in Jobs, Write(j) PROVE IInv'
<1>1. "ok" \in Results /\ "ok" # "refused"
  BY DEF Results
<1> QED BY <1>1, CarriedEndStep DEF Write

LEMMA PageStep == ASSUME IInv, NEW j \in Jobs, Page(j) PROVE IInv'
<1> DEFINE c == call[j]
           got == c.got \union PageOf(items, c.pages)
           pages == c.pages + 1
           d == [c EXCEPT !.got = got, !.pages = pages]
           e == [d EXCEPT !.attempt = 0, !.slept = FALSE, !.waited = 0, !.last = "unclear"]
<1>1. /\ pc[j] = "calling" /\ c.kind = "list" /\ UNCHANGED <<items, calls>>
      /\ IF NextLink(items, c.pages) /\ d.pages < MaxPages THEN GoOn(j, e) ELSE End(j, d, "ok")
  BY DEF Page
<1>2. /\ c \in CallType /\ ListGood(c, "calling", items)
      /\ items \in 0 .. MaxItems /\ MaxItems \in Nat /\ MaxPages \in Nat
  BY <1>1, CallingFacts
<1>3. c.pages \in Nat /\ c.pages <= MaxPages /\ pages \in Nat /\ c.before \in Nat
  BY <1>2 DEF CallType
<1>4. got \in SUBSET (1 .. MaxItems)
  BY <1>2 DEF CallType, PageOf
<1>5. \A i \in 1 .. c.before : items - i < pages * PageSize => i \in got
  <2> SUFFICES ASSUME NEW i \in 1 .. c.before, items - i < pages * PageSize
               PROVE  i \in got
    OBVIOUS
  <2>1. i \in 1 .. items /\ i \in Nat /\ items \in Nat
    BY <1>1, <1>2, <1>3 DEF ListGood
  <2>2. CASE items - i < c.pages * PageSize
    BY <1>1, <1>2, <2>2 DEF ListGood, Covers
  <2>3. CASE ~(items - i < c.pages * PageSize)
    <3>1. c.pages * PageSize <= items - i
      BY <1>3, <2>1, <2>3, Pages
    <3> QED BY <2>1, <3>1 DEF PageOf
  <2> QED BY <2>2, <2>3
<1> HIDE DEF got, pages
<1>6. /\ d = [c EXCEPT !.got = got, !.pages = pages]
      /\ d.pages = pages /\ d.kind = "list" /\ d.got = got /\ d.before = c.before /\ d.result = c.result
  BY <1>1, <1>2 DEF CallType
<1>7. c.before <= items /\ c.result = "none" /\ c.pages < MaxPages /\ pages = c.pages + 1
  BY <1>1, <1>2 DEF ListGood, pages
<1>8. CASE NextLink(items, c.pages) /\ d.pages < MaxPages
  <2>1. pages \in 0 .. MaxPages /\ 0 \in 0 .. MaxAttempts - 1
    BY <1>2, <1>3, <1>6, <1>8
  <2>2. /\ e \in CallType /\ e.pages = pages /\ e.kind = "list" /\ e.got = got
        /\ e.before = c.before /\ e.result = c.result
        /\ e.waited = 0 /\ e.attempt = 0 /\ e.slept = FALSE
    BY <1>1, <1>2, <1>4, <2>1 DEF CallType
  <2> HIDE DEF d, e
  <2>3. ListGood(e, "calling", items)
    <3>1. pages < MaxPages
      BY <1>6, <1>8
    <3> QED BY <1>5, <1>7, <2>2, <3>1 DEF ListGood, Covers
  <2>4. PatienceGood(e)
    <3>1. e.waited <= 0 + 2 ^ e.attempt - 1
      BY <2>2, PowerOfZero
    <3> QED BY <2>2, <3>1 DEF PatienceGood
  <2>5. CreateGood(e, "calling")
    BY <2>2 DEF CreateGood
  <2> QED BY <1>1, <1>2, <1>8, <2>2, <2>3, <2>4, <2>5, GoOnStep
<1>9. CASE ~(NextLink(items, c.pages) /\ d.pages < MaxPages)
  <2>1. Covers(d, MaxPages * PageSize, items)
    <3> SUFFICES ASSUME NEW i \in 1 .. c.before, items - i < MaxPages * PageSize
                 PROVE  i \in got
      BY <1>6 DEF Covers
    <3>1. CASE pages = MaxPages
      BY <1>5, <3>1
    <3>2. CASE pages # MaxPages
      <4>1. ~((c.pages + 1) * PageSize < items)
        BY <1>2, <1>3, <1>6, <1>7, <1>9, <3>2 DEF NextLink
      <4>2. pages * PageSize \in Nat /\ ~(pages * PageSize < items)
        BY <1>3, <4>1, Pages DEF pages
      <4>3. items - i < pages * PageSize
        BY <1>2, <1>3, <4>2
      <4> QED BY <1>5, <4>3
    <3> QED BY <3>1, <3>2
  <2>2. d \in CallType
    <3>1. pages \in 0 .. MaxPages
      BY <1>2, <1>3, <1>7
    <3> QED BY <1>2, <1>4, <1>6, <3>1 DEF CallType
  <2>3. End(j, d, "ok") /\ "ok" \in Results /\ items' = items
    BY <1>1, <1>9 DEF Results
  <2> HIDE DEF d
  <2>4. d.kind = "list" /\ d.before <= items' /\ Covers(d, MaxPages * PageSize, items')
    BY <1>6, <1>7, <2>1, <2>3
  <2> QED BY <1>1, <1>2, <2>2, <2>3, <2>4, EndStep
<1> QED BY <1>8, <1>9

\* Answers that carry nothing out end the call, or let it go on.
LEMMA QuietEndStep ==
    ASSUME IInv, NEW j \in Jobs, pc[j] = "calling", NEW result \in Results,
           result # "ok", End(j, call[j], result), UNCHANGED <<items, calls>>
    PROVE  IInv'
<1>1. /\ call[j] \in CallType /\ items \in 0 .. MaxItems
      /\ CreateGood(call[j], "calling") /\ ListGood(call[j], "calling", items)
  BY CallingFacts
<1>2. call[j].kind = "create" => /\ call[j].landed > 1 => call[j].broken
                                 /\ result = "refused" /\ call[j].landed > 0 => call[j].broken
  BY <1>1 DEF CreateGood, CallType
<1>3. call[j].kind = "list" => /\ call[j].before <= items'
                               /\ result = "ok" => Covers(call[j], MaxPages * PageSize, items')
  BY <1>1 DEF ListGood
<1> QED BY <1>1, <1>2, <1>3, EndStep

LEMMA ServerErrorStep == ASSUME IInv, NEW j \in Jobs, ServerError(j) PROVE IInv'
<1> DEFINE c == [call[j] EXCEPT !.broken = TRUE]
<1>1. /\ pc[j] = "calling" /\ UNCHANGED calls
      /\ \/ Carry(c) /\ Retry(j, Carried(c), "refused")
         \/ Retry(j, c, "refused") /\ UNCHANGED items
  BY DEF ServerError
<1>2. /\ call[j] \in CallType /\ items \in 0 .. MaxItems
      /\ ListGood(call[j], "calling", items) /\ PatienceGood(call[j])
  BY <1>1, CallingFacts
<1>3. /\ c \in CallType /\ c.broken = TRUE /\ c.kind = call[j].kind /\ c.pages = call[j].pages
      /\ c.got = call[j].got /\ c.before = call[j].before /\ c.result = call[j].result
      /\ c.waited = call[j].waited /\ c.attempt = call[j].attempt /\ c.slept = call[j].slept
  BY <1>2 DEF CallType
<1> HIDE DEF c
<1>4. CreateGood(c, "calling") /\ ListGood(c, "calling", items) /\ PatienceGood(c)
  BY <1>2, <1>3 DEF CreateGood, ListGood, Covers, PatienceGood
<1>5. CASE Carry(c) /\ Retry(j, Carried(c), "refused")
  <2>1. /\ Carried(c) \in CallType /\ Carried(c).kind = c.kind /\ c.kind # "list"
        /\ Carried(c).broken = TRUE /\ Carried(c).waited = c.waited
        /\ Carried(c).attempt = c.attempt /\ Carried(c).slept = c.slept
        /\ items' \in 0 .. MaxItems /\ items' >= items
    BY <1>3, <1>5, CarriedFacts
  <2>2. CreateGood(Carried(c), "calling") /\ ListGood(Carried(c), "calling", items')
        /\ PatienceGood(Carried(c))
    BY <1>4, <2>1 DEF CreateGood, ListGood, PatienceGood
  <2> QED BY <1>1, <1>5, <2>1, <2>2, RetryStep
<1>6. CASE Retry(j, c, "refused") /\ UNCHANGED items
  BY <1>1, <1>2, <1>3, <1>4, <1>6, RetryStep
<1> QED BY <1>1, <1>5, <1>6

LEMMA UnansweredStep == ASSUME IInv, NEW j \in Jobs, Unanswered(j) PROVE IInv'
<1> DEFINE c == call[j]
           d == Carried(c)
<1>1. /\ pc[j] = "calling" /\ UNCHANGED calls
      /\ \/ Carry(c) /\ IF Retries(c) THEN Retry(j, d, "unclear") ELSE End(j, d, "unclear")
         \/ (IF Retries(c) THEN Retry(j, c, "unclear") ELSE End(j, c, "unclear")) /\ UNCHANGED items
  BY DEF Unanswered
<1>2. /\ c \in CallType /\ items \in 0 .. MaxItems /\ CreateGood(c, "calling")
      /\ ListGood(c, "calling", items) /\ PatienceGood(c)
  BY <1>1, CallingFacts
<1>3. "unclear" \in Results /\ "unclear" # "ok" /\ "unclear" # "refused"
  BY DEF Results
<1>4. CASE Carry(c) /\ Retries(c) /\ Retry(j, d, "unclear")
  <2>1. /\ d \in CallType /\ d.kind = c.kind /\ c.kind # "list" /\ c.kind # "create"
        /\ d.waited = c.waited /\ d.attempt = c.attempt /\ d.slept = c.slept
        /\ items' \in 0 .. MaxItems /\ items' >= items
    BY <1>2, <1>4, CarriedFacts DEF Retries, Idempotent
  <2> HIDE DEF c, d
  <2>2. CreateGood(d, "calling") /\ ListGood(d, "calling", items')
    BY <2>1 DEF CreateGood, ListGood
  <2>3. PatienceGood(d)
    BY <1>2, <2>1 DEF PatienceGood
  <2> QED BY <1>1, <1>4, <2>1, <2>2, <2>3, RetryStep
<1>5. CASE Carry(c) /\ End(j, d, "unclear")
  BY <1>1, <1>3, <1>5, CarriedEndStep
<1>6. CASE (IF Retries(c) THEN Retry(j, c, "unclear") ELSE End(j, c, "unclear")) /\ UNCHANGED items
  BY <1>1, <1>2, <1>3, <1>6, RetryStep, QuietEndStep
<1> QED BY <1>1, <1>4, <1>5, <1>6

LEMMA NotConnectedStep == ASSUME IInv, NEW j \in Jobs, NotConnected(j) PROVE IInv'
<1>1. pc[j] = "calling" /\ Retry(j, call[j], "unclear") /\ UNCHANGED <<items, calls>>
  BY DEF NotConnected
<1> QED BY <1>1, CallingFacts, RetryStep

LEMMA GivenUpStep ==
    ASSUME IInv, NEW j \in Jobs, Rejected(j) \/ NoTLS(j)
    PROVE  IInv'
<1>1. {"refused", "unclear"} \subseteq Results
  BY DEF Results
<1> QED BY <1>1, QuietEndStep DEF Rejected, NoTLS

LEMMA ResetStep == ASSUME IInv, NEW j \in Jobs, Reset(j) PROVE IInv'
<1>1. "uncaught" \in Results /\ "uncaught" # "ok" /\ "uncaught" # "refused"
  BY DEF Results
<1>2. CASE Carry(call[j]) /\ End(j, Carried(call[j]), "uncaught")
  BY <1>1, <1>2, CarriedEndStep DEF Reset
<1>3. CASE End(j, call[j], "uncaught") /\ UNCHANGED items
  BY <1>1, <1>3, QuietEndStep DEF Reset
<1> QED BY <1>2, <1>3 DEF Reset

LEMMA ThrottledStep == ASSUME IInv, NEW j \in Jobs, Throttled(j) PROVE IInv'
<1> DEFINE c == call[j]
<1>1. PICK wait \in RetryAfters :
        LET d == [c EXCEPT !.slept = TRUE, !.waited = @ + wait] IN
        IF ~Patient(c) THEN End(j, c, "refused")
        ELSE IF LastTry(c) THEN End(j, d, c.last)
        ELSE GoOn(j, [d EXCEPT !.attempt = @ + 1])
  BY DEF Throttled
<1> DEFINE w == c.waited + wait
           a == c.attempt + 1
           d == [c EXCEPT !.slept = TRUE, !.waited = w]
           e == [d EXCEPT !.attempt = a]
<1>2. pc[j] = "calling" /\ UNCHANGED <<items, calls>>
  BY DEF Throttled
<1>3. /\ c \in CallType /\ items \in 0 .. MaxItems /\ CreateGood(c, "calling")
      /\ ListGood(c, "calling", items) /\ PatienceGood(c)
  BY <1>2, CallingFacts
<1>4. /\ c.waited \in Nat /\ c.attempt \in 0 .. MaxAttempts - 1 /\ w \in Nat
      /\ c.last \in Results /\ c.last \in {"refused", "unclear"} /\ c.last # "ok"
  BY <1>3 DEF CallType, Results
<1>5. IF ~Patient(c) THEN End(j, c, "refused")
      ELSE IF LastTry(c) THEN End(j, d, c.last) ELSE GoOn(j, e)
  <2>1. [d EXCEPT !.attempt = @ + 1] = e
    BY <1>3 DEF CallType
  <2>2. [c EXCEPT !.slept = TRUE, !.waited = @ + wait] = d
    BY <1>3 DEF CallType
  <2> QED BY <1>1, <2>1, <2>2
<1> HIDE DEF w
<1>6. /\ d \in CallType /\ d.kind = c.kind /\ d.got = c.got /\ d.landed = c.landed
      /\ d.broken = c.broken /\ d.before = c.before /\ d.pages = c.pages /\ d.result = c.result
      /\ d.slept = TRUE /\ d.waited = w
  BY <1>3, <1>4 DEF CallType
<1> HIDE DEF d
<1>7. CASE ~Patient(c)
  <2>1. "refused" \in Results /\ "refused" # "ok"
    BY DEF Results
  <2> QED BY <1>2, <1>5, <1>7, <2>1, QuietEndStep
<1>8. CASE Patient(c) /\ LastTry(c)
  <2>1. d.kind = "create" => /\ d.landed > 1 => d.broken
                             /\ c.last = "refused" /\ d.landed > 0 => d.broken
    BY <1>3, <1>6 DEF CreateGood, CallType
  <2>2. d.kind = "list" => /\ d.before <= items'
                           /\ c.last = "ok" => Covers(d, MaxPages * PageSize, items')
    BY <1>2, <1>3, <1>4, <1>6 DEF ListGood
  <2> QED BY <1>2, <1>3, <1>4, <1>5, <1>6, <1>8, <2>1, <2>2, EndStep
<1>9. CASE Patient(c) /\ ~LastTry(c)
  <2>1. a \in 0 .. MaxAttempts - 1 /\ c.attempt \in Nat /\ a \in Nat /\ c.attempt <= a
    BY <1>4, <1>9 DEF LastTry
  <2>2. 2 ^ c.attempt \in Nat /\ 2 ^ a \in Nat /\ 2 ^ c.attempt <= 2 ^ a
    BY <2>1, PowerCounts, PowerGrows
  <2>3. c.waited <= 2 ^ c.attempt - 1
    <3>1. PICK v \in RetryAfters \union {0} : c.waited <= v + 2 ^ c.attempt - 1 /\ (~c.slept => v = 0)
      BY <1>3 DEF PatienceGood
    <3>2. v = 0
      BY <1>9, <3>1 DEF Patient
    <3> QED BY <1>4, <2>2, <3>1, <3>2
  <2>4. wait \in Nat /\ w <= wait + 2 ^ a - 1
    <3>1. wait \in Nat
      OBVIOUS
    <3> HIDE DEF a
    <3> QED BY <1>4, <2>2, <2>3, <3>1 DEF w
  <2> HIDE DEF a
  <2>5. /\ e \in CallType /\ e.kind = c.kind /\ e.got = c.got /\ e.landed = c.landed
        /\ e.broken = c.broken /\ e.before = c.before /\ e.pages = c.pages /\ e.result = c.result
        /\ e.slept = TRUE /\ e.waited = w /\ e.attempt = a
    BY <1>6, <2>1 DEF CallType
  <2> HIDE DEF e
  <2>6. CreateGood(e, "calling") /\ ListGood(e, "calling", items)
    BY <1>3, <2>5 DEF CreateGood, ListGood, Covers
  <2>7. PatienceGood(e)
    BY <2>4, <2>5 DEF PatienceGood
  <2> QED BY <1>2, <1>3, <1>5, <1>9, <2>5, <2>6, <2>7, GoOnStep
<1> QED BY <1>7, <1>8, <1>9

-----------------------------------------------------------------------------
(* The invariant and what it says *)

LEMMA InitIInv == Init => IInv
<1> SUFFICES ASSUME Init PROVE IInv
  OBVIOUS
<1> DEFINE d == Fresh("list")
<1>1. items = 0 /\ pc = [j \in Jobs |-> "idle"] /\ call = [j \in Jobs |-> d] /\ calls = 0
  BY DEF Init
<1>2. "list" \in Kinds /\ items \in 0 .. MaxItems
  BY <1>1 DEF Kinds
<1>3. /\ d \in CallType /\ d.kind = "list" /\ d.result = "none" /\ d.before = 0
      /\ d.waited = 0 /\ d.attempt = 0 /\ d.slept = FALSE
  <2>1. "list" = "list" => d.before = items
    BY <1>2, FreshFacts
  <2> QED BY <1>1, <1>2, <2>1, FreshFacts
<1> HIDE DEF d
<1>4. TypeOK
  BY <1>1, <1>3 DEF TypeOK, CallType
<1>5. CreateGood(d, "idle") /\ ListGood(d, "idle", 0)
  BY <1>3 DEF CreateGood, ListGood
<1>6. PatienceGood(d)
  <2>1. d.waited <= 0 + 2 ^ d.attempt - 1
    BY <1>3, PowerOfZero
  <2> QED BY <1>3, <2>1 DEF PatienceGood
<1> QED BY <1>1, <1>4, <1>5, <1>6 DEF IInv

LEMMA NextIInv == IInv /\ [Next]_vars => IInv'
<1> SUFFICES ASSUME IInv, [Next]_vars PROVE IInv'
  OBVIOUS
<1>1. CASE Next
  <2>1. PICK j \in Jobs : Begin(j) \/ Answer(j)
    BY <1>1 DEF Next
  <2>2. CASE Begin(j) \/ Write(j) \/ Page(j)
    BY <2>2, BeginStep, WriteStep, PageStep
  <2>3. CASE Rejected(j) \/ NoTLS(j) \/ Reset(j)
    BY <2>3, GivenUpStep, ResetStep
  <2>4. CASE ServerError(j) \/ Unanswered(j) \/ NotConnected(j) \/ Throttled(j)
    BY <2>4, ServerErrorStep, UnansweredStep, NotConnectedStep, ThrottledStep
  <2> QED BY <2>1, <2>2, <2>3, <2>4 DEF Answer
<1>2. CASE UNCHANGED vars
  BY <1>2 DEF vars, IInv, TypeOK
<1> QED BY <1>1, <1>2

LEMMA Invariant == Spec => []IInv
BY InitIInv, NextIInv, PTL DEF Spec

\* The locals of _request and _paginate keep their types: no attempt beyond
\* _MAX_ATTEMPTS is counted and no page beyond _MAX_LIST_PAGES is read.
THEOREM TypesAreKept == Spec => []TypeOK
<1>1. IInv => TypeOK
  BY DEF IInv
<1> QED BY <1>1, Invariant, PTL

\* However many attempts _request makes and whatever answers meet them, a POST
\* is carried out twice only after a 5xx: nothing else lets it be sent again.
THEOREM CreatesLandOnce == Spec => []CreatesOnce
<1>1. IInv => CreatesOnce
  BY DEF IInv, CreateGood, CreatesOnce
<1> QED BY <1>1, Invariant, PTL

\* A create that ends in an error with a status_code has not landed, unless a 5xx
\* met one of its attempts: the callers that read a status_code as "not written"
\* are right.
THEOREM RefusedMeansRefused == Spec => []RefusedIsRefused
<1>1. IInv => RefusedIsRefused
  BY DEF IInv, CreateGood, RefusedIsRefused
<1> QED BY <1>1, Invariant, PTL

\* _paginate misses nothing that was there when it began, for any page size and
\* any number of items created by others while it runs, below the cap on pages.
THEOREM ListingsAreComplete == Spec => []ListingComplete
<1>1. IInv => ListingComplete
  BY DEF IInv, ListGood, Covers, ListingComplete
<1> QED BY <1>1, Invariant, PTL

\* For any _MAX_ATTEMPTS the sleeps of one _request add up to at most its whole
\* exponential backoff and a single retry-after.
THEOREM PatienceIsBounded == Spec => []PatienceEnds
<1>1. IInv => PatienceEnds
  <2> SUFFICES ASSUME IInv, NEW j \in Jobs
               PROVE  \E w \in RetryAfters \union {0} :
                        call[j].waited <= w + 2 ^ (MaxAttempts - 1) - 1
    BY DEF PatienceEnds
  <2> DEFINE c == call[j]
             a == c.attempt
             b == MaxAttempts - 1
  <2>1. c \in CallType /\ PatienceGood(c)
    BY DEF IInv, TypeOK, CallType
  <2>2. a \in Nat /\ b \in Nat /\ a <= b /\ c.waited \in Nat
    BY <2>1 DEF CallType
  <2>3. PICK w \in RetryAfters \union {0} : c.waited <= w + 2 ^ a - 1
    BY <2>1 DEF PatienceGood
  <2>4. w \in Nat
    OBVIOUS
  <2> HIDE DEF a, b
  <2>5. 2 ^ a \in Nat /\ 2 ^ b \in Nat /\ 2 ^ a <= 2 ^ b
    BY <2>2, PowerCounts, PowerGrows
  <2>6. c.waited <= w + 2 ^ b - 1
    BY <2>2, <2>3, <2>4, <2>5
  <2> QED BY <2>6 DEF b
<1> QED BY <1>1, Invariant, PTL
=============================================================================
