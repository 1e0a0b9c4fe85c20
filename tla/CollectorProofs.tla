--------------------------- MODULE CollectorProofs ---------------------------
(***************************************************************************)
(* Proofs about the parts "collection", "branch" and "diagnosis" of the    *)
(* collector: for any number of artifacts, twins and zips, of runs,        *)
(* commits and pages, and for any evidence whose logs are lines.           *)
(***************************************************************************)
EXTENDS MCCollector, FiniteSetTheorems, SequenceTheorems, WellFoundedInduction, TLAPS

allVars == <<part, memoryVars, branchVars, analysisVars, diagnosisVars, collectionVars>>

-----------------------------------------------------------------------------
(* Collection.                                                             *)

EarlySteps == {"run", "jobs", "pulls", "logs", "same-SHA"}
LaterSteps == {"success", "branch", "pull", "compare", "artifacts"}

\* The most requests of a listing, and the most an exhausted budget lets through.
Listing == MaxAttempts * MaxPages
Bound   == Listing - 1 + MaxAttempts * Co!Max({4, MaxPipeline - 1})

\* The zips of the last green run that have been asked for, of those wanted.
AskedGreen(rest, names) == names \ Co!ToSet(rest)

\* So many calls were decided on one reading of the budget, which was not low
\* then; without it the listing of a twin's jobs may be what it ran out in.
OneReading(calls) == \/ overrun <= calls * MaxAttempts - 1
                     \/ ~optional /\ overrun <= Listing - 1

\* Up to the twins nothing is asked for in vain; the calls after the budget's
\* reading are counted one by one; those for the zips of the last green run by
\* the names that are no longer to come.
Spent ==
    /\ step \in EarlySteps => overrun = 0
    /\ step \in {"twins", "success"} => overrun <= Listing - 1
    /\ step = "success"   => (optional => ~low)
    /\ step = "branch"    => OneReading(1)
    /\ step = "pull"      => OneReading(2)
    /\ step = "compare"   => OneReading(3)
    /\ step = "artifacts" => OneReading(4)
    /\ step \in {"junit", "pipeline"} => overrun <= Listing - 1 + 4 * MaxAttempts
    /\ step = "green" =>
         \/ todo = <<>> /\ overrun <= Listing - 1 + 4 * MaxAttempts
         \/ /\ todo \in Seq(Co!Names) /\ Co!IsInjective(todo)
            /\ overrun <= Listing - 1 + MaxAttempts * Cardinality(AskedGreen(todo, zips.run))
            /\ Cardinality(zips.run) < MaxPipeline
    /\ step = "emit" => overrun <= Bound

\* The artifacts of the last green run are listed once, at the end.
GreenLast == "green-artifacts" \in found => step \in {"green", "emit"}

CoInv ==
    /\ step \in EarlySteps \union LaterSteps \union {"twins", "junit", "pipeline", "green", "emit"}
    /\ overrun \in Nat
    /\ offer \in Offers
    /\ DOMAIN zips = {"run", "green"} /\ IsFiniteSet(zips.run)
    /\ GreenLast
    /\ Spent

LEMMA SameFinite == \A S : Co!IsFiniteSet(S) = IsFiniteSet(S)
  BY DEF IsFiniteSet, Co!IsFiniteSet

LEMMA SameCardinality == \A S : Co!Cardinality(S) = Cardinality(S)
  BY SameFinite DEF Cardinality, Co!Cardinality

LEMMA CollectionConstants ==
    /\ MaxPipeline \in Nat /\ MaxAttempts \in Nat /\ MaxAttempts >= 1
    /\ Listing \in Nat /\ MaxAttempts <= Listing
  <1>1. MaxPipeline \in Nat /\ MaxAttempts \in Nat /\ MaxAttempts >= 1 /\ MaxPages \in Nat /\ MaxPages >= 1
    BY CollectionAssumption DEF Co!WellFormedOffers
  <1>2. MaxAttempts * (MaxPages - 1) >= 0 /\ MaxAttempts * MaxPages \in Int
    BY <1>1
  <1>3. MaxAttempts * MaxPages = MaxAttempts * (MaxPages - 1) + MaxAttempts
    BY <1>1
  <1> QED BY <1>1, <1>2, <1>3 DEF Listing

LEMMA AttemptsOfOneMore == \A c \in Nat : /\ MaxAttempts * c \in Nat
                                          /\ MaxAttempts * (c + 1) = MaxAttempts * c + MaxAttempts
  BY CollectionConstants

\* Nothing else can be said of the bound than that it counts the more of the two.
LEMMA BoundFacts ==
    /\ Bound \in Int
    /\ Listing - 1 + 4 * MaxAttempts <= Bound
    /\ \A c \in Nat : c <= MaxPipeline - 1 => Listing - 1 + MaxAttempts * c <= Bound
  <1> DEFINE S == {4, MaxPipeline - 1}
             m == Co!Max(S)
  <1>1. \E x \in S : \A y \in S : x >= y
    BY CollectionConstants
  <1>2. m \in S /\ \A y \in S : m >= y
    BY <1>1 DEF Co!Max
  <1>3. m \in Int /\ 4 <= m /\ MaxPipeline - 1 <= m
    BY <1>2, CollectionConstants
  <1>4. Bound = Listing - 1 + MaxAttempts * m
    BY DEF Bound
  <1> HIDE DEF m
  <1>5. ASSUME NEW c \in Nat, c <= m PROVE MaxAttempts * c <= MaxAttempts * m
    <2>1. MaxAttempts * (m - c) >= 0
      BY <1>3, <1>5, CollectionConstants
    <2>2. MaxAttempts * m = MaxAttempts * c + MaxAttempts * (m - c)
      BY <1>3, CollectionConstants
    <2>3. MaxAttempts * c \in Int /\ MaxAttempts * (m - c) \in Int
      BY <1>3, CollectionConstants
    <2> QED BY <2>1, <2>2, <2>3
  <1>6. MaxAttempts * m \in Int
    BY <1>3, CollectionConstants
  <1>7. MaxAttempts * 4 <= MaxAttempts * m
    BY <1>3, <1>5
  <1>8. Bound \in Int /\ Listing - 1 + 4 * MaxAttempts <= Bound
    BY <1>4, <1>6, <1>7, CollectionConstants
  <1>9. ASSUME NEW c \in Nat, c <= MaxPipeline - 1 PROVE Listing - 1 + MaxAttempts * c <= Bound
    <2>1. MaxAttempts * c <= MaxAttempts * m /\ MaxAttempts * c \in Nat
      BY <1>3, <1>5, <1>9, CollectionConstants, AttemptsOfOneMore
    <2> QED BY <1>4, <1>6, <2>1, CollectionConstants
  <1> QED BY <1>8, <1>9

\* The requests of a call count anew from the first response that finds the budget
\* low, unless it was known to be low before: then they are added.
LEMMA SpendFacts ==
    ASSUME NEW pages, NEW note, NEW most \in Nat, most = MaxAttempts * pages,
           overrun \in Nat, Co!Spend(pages, note)
    PROVE  /\ overrun' \in Nat
           /\ overrun' <= most - 1 \/ (low /\ overrun' <= overrun + most)
  <1>1. PICK n \in 1 .. most : overrun' \in (0 .. n - 1) \union (IF low THEN {overrun + n} ELSE {})
    BY DEF Co!Spend
  <1> QED BY <1>1

LEMMA CallFacts ==
    ASSUME NEW note, overrun \in Nat, Co!Spend(1, note)
    PROVE  /\ overrun' \in Nat
           /\ overrun' <= MaxAttempts - 1 \/ (low /\ overrun' <= overrun + MaxAttempts)
  <1>1. MaxAttempts = MaxAttempts * 1 /\ MaxAttempts \in Nat
    BY CollectionConstants
  <1> QED BY <1>1, SpendFacts

LEMMA ListingFacts ==
    ASSUME NEW note, overrun \in Nat, Co!Spend(MaxPages, note)
    PROVE  /\ overrun' \in Nat
           /\ overrun' <= Listing - 1 \/ (low /\ overrun' <= overrun + Listing)
  BY SpendFacts, CollectionConstants DEF Listing

LEMMA DownloadFacts ==
    ASSUME overrun \in Nat, Co!Spend(1, {}) \/ Co!Spend(1, {"stub"})
    PROVE  /\ overrun' \in Nat
           /\ overrun' <= MaxAttempts - 1 \/ (low /\ overrun' <= overrun + MaxAttempts)
  BY CallFacts

LEMMA CoInitHolds == ASSUME Co!Init PROVE CoInv
  <1>1. IsFiniteSet({})
    BY FS_EmptySet
  <1> QED BY <1>1 DEF Co!Init, CoInv, GreenLast, Spent, EarlySteps

LEMMA GreenLastKeeps == ASSUME GreenLast, Co!Next PROVE GreenLast'
  <1>1. ASSUME NEW piece, NEW pages, Co!Ask(piece, pages), piece # "green-artifacts"
        PROVE  "green-artifacts" \in found' => "green-artifacts" \in found
    BY <1>1 DEF Co!Ask, Co!Obtain
  <1>2. ASSUME NEW piece \in {"run", "jobs", "logs"}, NEW next, Co!Mandatory(piece, next) PROVE GreenLast'
    <2>1. "green-artifacts" \notin found /\ piece # "green-artifacts"
      BY <1>2 DEF GreenLast, Co!Mandatory
    <2>2. found' = found \union {piece} \/ found' = found
      BY <1>2 DEF Co!Mandatory, Co!Obtain
    <2> QED BY <2>1, <2>2 DEF GreenLast
  <1>3. CASE Co!CommitPulls
    <2>1. "green-artifacts" \notin found /\ "green-artifacts" # "pulls"
      BY <1>3 DEF GreenLast, Co!CommitPulls
    <2>2. found' = found \union {"pulls"} \/ found' = found
      BY <1>3 DEF Co!CommitPulls, Co!Obtain
    <2> QED BY <2>1, <2>2 DEF GreenLast
  <1>4. CASE Co!SameSha
    <2>1. "green-artifacts" \notin found /\ "green-artifacts" # "same-SHA"
      BY <1>4 DEF GreenLast, Co!SameSha
    <2>2. found' = found \union {"same-SHA"} \/ found' = found
      BY <1>4 DEF Co!SameSha, Co!Obtain
    <2> QED BY <2>1, <2>2 DEF GreenLast
  <1>5. CASE Co!TwinJobs
    BY <1>1, <1>5 DEF GreenLast, Co!TwinJobs
  <1>6. CASE Co!ReadBudget \/ Co!RankPipeline
    BY <1>6 DEF GreenLast, Co!ReadBudget, Co!RankPipeline
  <1>7. ASSUME NEW piece \in {"success", "branch", "pull", "compare"}, NEW next, NEW wanted,
               Co!OptionalCall(piece, next, wanted)
        PROVE  GreenLast'
    BY <1>1, <1>7 DEF GreenLast, Co!OptionalCall
  <1>8. CASE Co!ListArtifacts
    BY <1>1, <1>8 DEF GreenLast, Co!ListArtifacts
  <1>9. CASE Co!JUnitZip
    <2>1. "green-artifacts" \notin found /\ "green-artifacts" # "junit"
      BY <1>9 DEF GreenLast, Co!JUnitZip
    <2>2. found' = found \union {"junit"} \/ found' = found
      BY <1>9, Zenon DEF Co!JUnitZip, Co!Download
    <2> QED BY <2>1, <2>2 DEF GreenLast
  <1>10. CASE Co!PipelineZip
    <2>1. "green-artifacts" \notin found
      BY <1>10 DEF GreenLast, Co!PipelineZip
    <2>2. found' = found
      BY <1>10, Zenon DEF Co!PipelineZip, Co!Download
    <2> QED BY <2>1, <2>2 DEF GreenLast
  <1>11. CASE Co!ListGreen \/ Co!GreenZip \/ Co!GreenDone
    BY <1>11 DEF GreenLast, Co!ListGreen, Co!GreenZip, Co!GreenDone, Co!Goto
  <1>12. CASE \/ Co!Mandatory("run", "jobs") \/ Co!Mandatory("jobs", "pulls")
              \/ Co!Mandatory("logs", "same-SHA")
    BY <1>2, <1>12
  <1>13. CASE \/ Co!OptionalCall("success", "branch", TRUE) \/ Co!OptionalCall("branch", "pull", TRUE)
              \/ Co!OptionalCall("pull", "compare", Co!HasPull)
              \/ Co!OptionalCall("compare", "artifacts", Co!HasCompare)
    BY <1>7, <1>13
  <1> QED BY <1>3, <1>4, <1>5, <1>6, <1>8, <1>9, <1>10, <1>11, <1>12, <1>13 DEF Co!Next

\* The steps up to the artifacts.
LEMMA EarlyKeeps ==
    ASSUME CoInv,
           \/ Co!Mandatory("run", "jobs") \/ Co!Mandatory("jobs", "pulls") \/ Co!CommitPulls
           \/ Co!Mandatory("logs", "same-SHA") \/ Co!SameSha
    PROVE  CoInv'
  <1>1. overrun = 0
    BY DEF CoInv, Spent, EarlySteps, Co!Mandatory, Co!CommitPulls, Co!SameSha
  <1>2. /\ overrun' = 0 /\ UNCHANGED <<offer, zips>>
        /\ step' \in EarlySteps \union {"twins", "emit"}
    <2>1. CASE \/ Co!Mandatory("run", "jobs") \/ Co!Mandatory("jobs", "pulls")
               \/ Co!Mandatory("logs", "same-SHA")
      BY <1>1, <2>1 DEF Co!Mandatory, Co!Require, Co!Goto, EarlySteps
    <2>2. CASE Co!CommitPulls \/ Co!SameSha
      BY <1>1, <2>2 DEF Co!CommitPulls, Co!SameSha, Co!Require, Co!Goto, EarlySteps
    <2> QED BY <2>1, <2>2
  <1>3. GreenLast'
    BY GreenLastKeeps DEF CoInv, Co!Next
  <1> QED BY <1>2, <1>3, BoundFacts, CollectionConstants DEF CoInv, Spent, EarlySteps, LaterSteps

LEMMA TwinsKeep == ASSUME CoInv, Co!TwinJobs \/ Co!ReadBudget PROVE CoInv'
  <1>1. overrun \in Nat /\ overrun <= Listing - 1 /\ UNCHANGED <<offer, zips>>
    BY DEF CoInv, Spent, Co!TwinJobs, Co!ReadBudget
  <1>2. /\ overrun' \in Nat /\ overrun' <= Listing - 1
        /\ step' \in {"twins", "success", "emit"}
        /\ step' = "success" => (optional' => ~low')
    <2>1. CASE Co!TwinJobs
      <3>1. step' \in {"twins", "emit"}
        BY <2>1 DEF Co!TwinJobs, Co!Goto
      <3>2. CASE Co!Allowed
        BY <1>1, <2>1, <3>1, <3>2, ListingFacts DEF Co!TwinJobs, Co!Ask, Co!Allowed
      <3>3. CASE ~Co!Allowed
        BY <1>1, <2>1, <3>1, <3>3 DEF Co!TwinJobs, Co!Tell
      <3> QED BY <3>2, <3>3
    <2>2. CASE Co!ReadBudget
      BY <1>1, <2>2 DEF Co!ReadBudget, Co!Allowed
    <2> QED BY <2>1, <2>2
  <1>3. GreenLast'
    BY GreenLastKeeps DEF CoInv, Co!Next
  <1> QED BY <1>1, <1>2, <1>3, BoundFacts, CollectionConstants
          DEF CoInv, Spent, EarlySteps, LaterSteps

\* What one more of the calls decided on the same reading adds.
OneMore(next, wanted) ==
    /\ overrun \in Nat /\ overrun' \in Nat /\ UNCHANGED <<offer, zips, optional>>
    /\ step' \in {next, "emit"}
    /\ \/ ~(optional /\ wanted) /\ overrun' = overrun
       \/ optional /\ overrun' <= MaxAttempts - 1
       \/ optional /\ low /\ overrun' <= overrun + MaxAttempts

LEMMA OptionalFacts ==
    ASSUME CoInv, NEW piece, NEW next, NEW wanted, Co!OptionalCall(piece, next, wanted)
    PROVE  OneMore(next, wanted)
  <1>1. overrun \in Nat /\ UNCHANGED <<offer, zips, optional>> /\ step' \in {next, "emit"}
    BY DEF CoInv, Co!OptionalCall, Co!Goto
  <1>2. CASE optional /\ wanted
    BY <1>1, <1>2, CallFacts DEF OneMore, Co!OptionalCall, Co!Ask
  <1>3. CASE ~(optional /\ wanted)
    BY <1>1, <1>3 DEF OneMore, Co!OptionalCall
  <1> QED BY <1>2, <1>3

LEMMA FirstReading ==
    ASSUME OneMore("branch", TRUE), overrun <= Listing - 1, optional => ~low
    PROVE  OneReading(1)' /\ overrun' <= Bound
  <1>1. overrun' <= MaxAttempts - 1 \/ (~optional' /\ overrun' <= Listing - 1)
    BY CollectionConstants DEF OneMore
  <1>2. overrun' \in Nat /\ 1 * MaxAttempts = MaxAttempts
    BY CollectionConstants DEF OneMore
  <1> QED BY <1>1, <1>2, CollectionConstants, BoundFacts DEF OneReading

LEMMA NextReading ==
    ASSUME NEW calls \in {1, 2, 3}, NEW next, NEW wanted, OneMore(next, wanted), OneReading(calls)
    PROVE  OneReading(calls + 1)' /\ overrun' <= Bound
  <1>1. /\ 1 * MaxAttempts = MaxAttempts /\ (1 + 1) * MaxAttempts = 2 * MaxAttempts
        /\ (2 + 1) * MaxAttempts = 3 * MaxAttempts /\ (3 + 1) * MaxAttempts = 4 * MaxAttempts
    BY CollectionConstants
  <1>2. CASE calls = 1
    BY <1>1, <1>2, CollectionConstants, BoundFacts DEF OneMore, OneReading
  <1>3. CASE calls = 2
    BY <1>1, <1>3, CollectionConstants, BoundFacts DEF OneMore, OneReading
  <1>4. CASE calls = 3
    BY <1>1, <1>4, CollectionConstants, BoundFacts DEF OneMore, OneReading
  <1> QED BY <1>2, <1>3, <1>4

LEMMA OptionalKeeps ==
    ASSUME CoInv,
           \/ Co!OptionalCall("success", "branch", TRUE) \/ Co!OptionalCall("branch", "pull", TRUE)
           \/ Co!OptionalCall("pull", "compare", Co!HasPull)
           \/ Co!OptionalCall("compare", "artifacts", Co!HasCompare)
    PROVE  CoInv'
  <1>1. GreenLast'
    BY GreenLastKeeps DEF CoInv, Co!Next
  <1>2. CASE Co!OptionalCall("success", "branch", TRUE)
    <2>1. overrun <= Listing - 1 /\ (optional => ~low)
      BY <1>2 DEF CoInv, Spent, Co!OptionalCall
    <2>2. OneMore("branch", TRUE)
      BY <1>2, OptionalFacts, Zenon
    <2>3. OneReading(1)' /\ overrun' <= Bound
      BY <2>1, <2>2, FirstReading
    <2> QED BY <1>1, <2>2, <2>3 DEF OneMore, CoInv, Spent, EarlySteps, LaterSteps
  <1>3. CASE Co!OptionalCall("branch", "pull", TRUE)
    <2>1. OneReading(1)
      BY <1>3 DEF CoInv, Spent, Co!OptionalCall
    <2>2. OneMore("pull", TRUE)
      BY <1>3, OptionalFacts, Zenon
    <2>3. OneReading(1 + 1)' /\ overrun' <= Bound
      BY <2>1, <2>2, NextReading, Zenon
    <2>4. OneReading(2)'
      BY <2>3 DEF OneReading
    <2> QED BY <1>1, <2>2, <2>3, <2>4 DEF OneMore, CoInv, Spent, EarlySteps, LaterSteps
  <1>4. CASE Co!OptionalCall("pull", "compare", Co!HasPull)
    <2>1. OneReading(2)
      BY <1>4 DEF CoInv, Spent, Co!OptionalCall
    <2>2. OneMore("compare", Co!HasPull)
      BY <1>4, OptionalFacts, Zenon
    <2>3. OneReading(2 + 1)' /\ overrun' <= Bound
      BY <2>1, <2>2, NextReading, Zenon
    <2>4. OneReading(3)'
      BY <2>3 DEF OneReading
    <2> QED BY <1>1, <2>2, <2>3, <2>4 DEF OneMore, CoInv, Spent, EarlySteps, LaterSteps
  <1>5. CASE Co!OptionalCall("compare", "artifacts", Co!HasCompare)
    <2>1. OneReading(3)
      BY <1>5 DEF CoInv, Spent, Co!OptionalCall
    <2>2. OneMore("artifacts", Co!HasCompare)
      BY <1>5, OptionalFacts, Zenon
    <2>3. OneReading(3 + 1)' /\ overrun' <= Bound
      BY <2>1, <2>2, NextReading, Zenon
    <2>4. OneReading(4)'
      BY <2>3 DEF OneReading
    <2> QED BY <1>1, <2>2, <2>3, <2>4 DEF OneMore, CoInv, Spent, EarlySteps, LaterSteps
  <1> QED BY <1>2, <1>3, <1>4, <1>5

LEMMA ArtifactsKeep ==
    ASSUME CoInv, Co!ListArtifacts \/ Co!JUnitZip \/ Co!RankPipeline \/ Co!PipelineZip
    PROVE  CoInv'
  <1>1. overrun \in Nat /\ UNCHANGED offer
    BY DEF CoInv, Co!ListArtifacts, Co!JUnitZip, Co!RankPipeline, Co!PipelineZip
  <1>2. GreenLast'
    BY GreenLastKeeps DEF CoInv, Co!Next
  <1> DEFINE Within == overrun' \in Nat /\ overrun' <= Listing - 1 + 4 * MaxAttempts
  <1>3. ASSUME Within, step' \in {"junit", "pipeline", "emit"}, DOMAIN zips' = {"run", "green"},
               IsFiniteSet(zips'.run)
        PROVE  CoInv'
    BY <1>1, <1>2, <1>3, BoundFacts, CollectionConstants DEF CoInv, Spent, EarlySteps, LaterSteps
  <1>4. CASE Co!ListArtifacts
    <2>1. OneReading(4)
      BY <1>4 DEF CoInv, Spent, Co!ListArtifacts
    <2>2. ASSUME optional PROVE Within
      <3>1. PICK note : Co!Spend(MaxPages, note)
        BY <1>4, <2>2 DEF Co!ListArtifacts, Co!Ask
      <3>2. overrun' \in Nat /\ (overrun' <= Listing - 1 \/ overrun' <= overrun + Listing)
        BY <1>1, <3>1, ListingFacts
      <3>3. overrun <= 4 * MaxAttempts - 1
        BY <2>1, <2>2 DEF OneReading
      <3> QED BY <1>1, <3>2, <3>3, CollectionConstants
    <2>3. ASSUME ~optional PROVE Within
      <3>1. overrun' = overrun
        BY <1>4, <2>3 DEF Co!ListArtifacts, Co!Tell
      <3>2. overrun <= Listing - 1 + 4 * MaxAttempts
        BY <1>1, <2>1, CollectionConstants DEF OneReading
      <3> QED BY <1>1, <3>1, <3>2
    <2>4. step' \in {"junit", "emit"} /\ UNCHANGED zips
      BY <1>4 DEF Co!ListArtifacts, Co!Goto
    <2> HIDE DEF Within
    <2> QED BY <1>3, <2>2, <2>3, <2>4 DEF CoInv
  <1>5. CASE Co!JUnitZip
    <2>1. overrun <= Listing - 1 + 4 * MaxAttempts
      BY <1>5 DEF CoInv, Spent, Co!JUnitZip
    <2>2. overrun' = overrun \/ (Co!Allowed /\ (Co!Spend(1, {}) \/ Co!Spend(1, {"stub"})))
      BY <1>5, Zenon DEF Co!JUnitZip, Co!Download
    <2>3. Within
      BY <1>1, <2>1, <2>2, DownloadFacts, CollectionConstants DEF Co!Allowed
    <2>4. step' \in {"junit", "emit"}
      BY <1>5 DEF Co!JUnitZip, Co!Goto
    <2>5. zips' = zips
      BY <1>5, Zenon DEF Co!JUnitZip, Co!Download
    <2> HIDE DEF Within
    <2> QED BY <1>3, <2>3, <2>4, <2>5 DEF CoInv
  <1>6. CASE Co!RankPipeline
    BY <1>1, <1>3, <1>6 DEF CoInv, Spent, Co!RankPipeline
  <1>7. CASE Co!PipelineZip
    <2>1. overrun <= Listing - 1 + 4 * MaxAttempts
      BY <1>7 DEF CoInv, Spent, Co!PipelineZip
    <2>2. overrun' = overrun \/ (Co!Allowed /\ (Co!Spend(1, {}) \/ Co!Spend(1, {"stub"})))
      BY <1>7, Zenon DEF Co!PipelineZip, Co!Download, Co!Tell
    <2>3. Within
      BY <1>1, <2>1, <2>2, DownloadFacts, CollectionConstants DEF Co!Allowed
    <2>4. step' \in {"pipeline", "emit"}
      BY <1>7 DEF Co!PipelineZip, Co!Goto
    <2>5. \/ zips' = zips
          \/ zips' = [zips EXCEPT !.run = @ \union {Head(todo)}]
      BY <1>7, Zenon DEF Co!PipelineZip, Co!Download
    <2>6. IsFiniteSet(zips.run \union {Head(todo)})
      BY FS_AddElement DEF CoInv
    <2>7. DOMAIN zips' = {"run", "green"} /\ IsFiniteSet(zips'.run)
      BY <2>5, <2>6 DEF CoInv
    <2> HIDE DEF Within
    <2> QED BY <1>3, <2>3, <2>4, <2>7
  <1> QED BY <1>4, <1>5, <1>6, <1>7

\* Going on to the next name leaves one less to come, and no other.
LEMMA TailFacts ==
    ASSUME NEW S, NEW s \in Seq(S), s # <<>>, Co!IsInjective(s)
    PROVE  /\ Tail(s) \in Seq(S) /\ Co!IsInjective(Tail(s))
           /\ Co!ToSet(Tail(s)) = Co!ToSet(s) \ {Head(s)} /\ Head(s) \in Co!ToSet(s)
  <1>1. /\ Tail(s) \in Seq(S) /\ Len(Tail(s)) = Len(s) - 1 /\ Len(s) \in Nat /\ Len(s) >= 1
        /\ \A i \in 1 .. Len(s) - 1 : Tail(s)[i] = s[i + 1]
        /\ Head(s) = s[1] /\ DOMAIN s = 1 .. Len(s) /\ DOMAIN Tail(s) = 1 .. Len(s) - 1
    BY HeadTailProperties
  <1>2. \A a, b \in 1 .. Len(s) : s[a] = s[b] => a = b
    BY <1>1 DEF Co!IsInjective
  <1>3. Co!IsInjective(Tail(s))
    <2> SUFFICES ASSUME NEW a \in 1 .. Len(s) - 1, NEW b \in 1 .. Len(s) - 1, Tail(s)[a] = Tail(s)[b]
                 PROVE  a = b
      BY <1>1 DEF Co!IsInjective
    <2>1. s[a + 1] = s[b + 1] /\ a + 1 \in 1 .. Len(s) /\ b + 1 \in 1 .. Len(s)
      BY <1>1
    <2> QED BY <1>2, <2>1
  <1>4. \A x : x \in Co!ToSet(s) <=> \E i \in 1 .. Len(s) : s[i] = x
    BY <1>1 DEF Co!ToSet
  <1>5. \A x : x \in Co!ToSet(Tail(s)) <=> \E i \in 1 .. Len(s) - 1 : s[i + 1] = x
    BY <1>1 DEF Co!ToSet
  <1>6. ASSUME NEW x PROVE x \in Co!ToSet(Tail(s)) <=> x \in Co!ToSet(s) /\ x # Head(s)
    <2>1. ASSUME x \in Co!ToSet(Tail(s)) PROVE x \in Co!ToSet(s) /\ x # Head(s)
      <3>1. PICK i \in 1 .. Len(s) - 1 : s[i + 1] = x
        BY <1>5, <2>1
      <3>2. i + 1 \in 1 .. Len(s) /\ 1 \in 1 .. Len(s) /\ i + 1 # 1
        BY <1>1
      <3> QED BY <1>1, <1>2, <1>4, <3>1, <3>2
    <2>2. ASSUME x \in Co!ToSet(s), x # Head(s) PROVE x \in Co!ToSet(Tail(s))
      <3>1. PICK i \in 1 .. Len(s) : s[i] = x
        BY <1>4, <2>2
      <3>2. i - 1 \in 1 .. Len(s) - 1 /\ (i - 1) + 1 = i
        BY <1>1, <2>2, <3>1
      <3> QED BY <1>5, <3>1, <3>2
    <2> QED BY <2>1, <2>2
  <1>7. Head(s) \in Co!ToSet(s)
    BY <1>1, <1>4
  <1> QED BY <1>1, <1>3, <1>6, <1>7

\* What the zips of the last green run have cost, and that it is within the bound.
LEMMA AskedFacts ==
    ASSUME CoInv, NEW rest, Cardinality(zips.run) < MaxPipeline
    PROVE  /\ IsFiniteSet(AskedGreen(rest, zips.run)) /\ Cardinality(AskedGreen(rest, zips.run)) \in Nat
           /\ MaxAttempts * Cardinality(AskedGreen(rest, zips.run)) \in Nat
           /\ Listing - 1 + MaxAttempts * Cardinality(AskedGreen(rest, zips.run)) <= Bound
  <1>1. /\ IsFiniteSet(AskedGreen(rest, zips.run)) /\ Cardinality(AskedGreen(rest, zips.run)) \in Nat
        /\ Cardinality(AskedGreen(rest, zips.run)) <= Cardinality(zips.run) /\ Cardinality(zips.run) \in Nat
    BY FS_Subset, FS_CardinalityType DEF AskedGreen, CoInv
  <1>2. PICK c \in Nat : c = Cardinality(AskedGreen(rest, zips.run))
    BY <1>1
  <1>3. c <= MaxPipeline - 1
    BY <1>1, <1>2, CollectionConstants
  <1> QED BY <1>1, <1>2, <1>3, BoundFacts, AttemptsOfOneMore

LEMMA GreenKeeps ==
    ASSUME CoInv, Co!ListGreen \/ Co!GreenZip \/ Co!GreenDone
    PROVE  CoInv'
  <1>1. /\ overrun \in Nat /\ UNCHANGED offer /\ offer \in Offers
        /\ IsFiniteSet(zips.run) /\ Cardinality(zips.run) \in Nat
    BY FS_CardinalityType DEF CoInv, Co!ListGreen, Co!GreenZip, Co!GreenDone
  <1>2. GreenLast'
    BY GreenLastKeeps DEF CoInv, Co!Next
  <1>3. CASE Co!ListGreen
    <2>1. /\ step = "pipeline" /\ overrun <= Listing - 1 + 4 * MaxAttempts
          /\ step' \in {"green", "emit"} /\ UNCHANGED zips
      BY <1>3 DEF CoInv, Spent, Co!ListGreen, Co!Goto
    <2>2. CASE Co!Remaining > 0 /\ Co!LastGreen /\ zips.run # {} /\ Co!Allowed
      <3>1. overrun' \in Nat /\ overrun' <= Listing - 1
        BY <1>1, <1>3, <2>2, ListingFacts DEF Co!ListGreen, Co!Ask, Co!Allowed
      <3>2. Cardinality(zips.run) < MaxPipeline
        BY <1>1, <2>2, SameCardinality, CollectionConstants DEF Co!Remaining
      <3>3. todo' = offer.green \/ todo' = <<>>
        BY <1>3 DEF Co!ListGreen
      <3>4. offer.green \in Seq(Co!Names) /\ Co!IsInjective(offer.green)
        BY <1>1, CollectionAssumption DEF Co!WellFormedOffers
      <3>5. overrun' <= Listing - 1 + MaxAttempts * Cardinality(AskedGreen(todo', zips.run))
        BY <3>1, <3>2, AskedFacts, CollectionConstants
      <3>6. overrun' <= Bound
        BY <3>1, BoundFacts, CollectionConstants
      <3>7. overrun' <= Listing - 1 + 4 * MaxAttempts
        BY <3>1, CollectionConstants
      <3> QED BY <1>1, <1>2, <2>1, <3>1, <3>2, <3>3, <3>4, <3>5, <3>6, <3>7
              DEF CoInv, Spent, EarlySteps, LaterSteps
    <2>3. CASE ~(Co!Remaining > 0 /\ Co!LastGreen /\ zips.run # {} /\ Co!Allowed)
      <3>1. overrun' = overrun /\ found' = found
        BY <1>3, <2>3 DEF Co!ListGreen, Co!Tell
      <3>2. todo' = <<>>
        BY <1>3, <2>1, <2>3, <3>1 DEF CoInv, GreenLast, Co!ListGreen
      <3>3. overrun' <= Bound
        BY <1>1, <2>1, <3>1, BoundFacts, CollectionConstants
      <3> QED BY <1>1, <1>2, <2>1, <3>1, <3>2, <3>3 DEF CoInv, Spent, EarlySteps, LaterSteps
    <2> QED BY <2>2, <2>3
  <1>4. CASE Co!GreenZip
    <2>1. /\ step = "green" /\ step' \in {"green", "emit"} /\ todo # <<>> /\ todo' = Tail(todo)
          /\ todo \in Seq(Co!Names) /\ Co!IsInjective(todo)
          /\ overrun <= Listing - 1 + MaxAttempts * Cardinality(AskedGreen(todo, zips.run))
          /\ Cardinality(zips.run) < MaxPipeline
      BY <1>4 DEF CoInv, Spent, Co!GreenZip, Co!Goto
    <2>2. DOMAIN zips' = {"run", "green"} /\ zips'.run = zips.run
      <3>1. zips' = zips \/ zips' = [zips EXCEPT !.green = @ \union {Head(todo)}]
        BY <1>4, Zenon DEF Co!GreenZip, Co!Download
      <3> QED BY <3>1 DEF CoInv
    <2>3. /\ todo' \in Seq(Co!Names) /\ Co!IsInjective(todo')
          /\ Co!ToSet(todo') = Co!ToSet(todo) \ {Head(todo)} /\ Head(todo) \in Co!ToSet(todo)
      BY <2>1, TailFacts
    <2> DEFINE old == AskedGreen(todo, zips.run)
               new == AskedGreen(todo', zips.run)
    <2>4. IsFiniteSet(old) /\ Cardinality(old) \in Nat /\ MaxAttempts * Cardinality(old) \in Nat
      BY <2>1, AskedFacts
    <2>5. /\ Cardinality(new) \in Nat /\ MaxAttempts * Cardinality(new) \in Nat
          /\ Listing - 1 + MaxAttempts * Cardinality(new) <= Bound
      BY <2>1, AskedFacts
    <2>6. overrun' \in Nat /\ overrun' <= Listing - 1 + MaxAttempts * Cardinality(new)
      <3>1. CASE Head(todo) \in zips.run
        <4>1. new = old \union {Head(todo)} /\ Head(todo) \notin old
          BY <2>3, <3>1 DEF AskedGreen
        <4>2. Cardinality(new) = Cardinality(old) + 1
          BY <2>4, <4>1, FS_AddElement
        <4>3. MaxAttempts * Cardinality(new) = MaxAttempts * Cardinality(old) + MaxAttempts
          BY <2>4, <4>2, AttemptsOfOneMore
        <4>4. Co!Spend(1, {}) \/ Co!Spend(1, {"stub"})
          BY <1>4, <3>1, Zenon DEF Co!GreenZip, Co!Download
        <4>5. /\ overrun' \in Nat
              /\ overrun' <= MaxAttempts - 1 \/ overrun' <= overrun + MaxAttempts
          BY <1>1, <4>4, DownloadFacts
        <4>6. overrun <= Listing - 1 + MaxAttempts * Cardinality(old)
          BY <2>1
        <4> HIDE DEF old, new
        <4> QED BY <1>1, <2>4, <2>5, <4>3, <4>5, <4>6, CollectionConstants
      <3>2. CASE Head(todo) \notin zips.run
        <4>1. new = old
          BY <2>3, <3>2 DEF AskedGreen
        <4>2. overrun' = overrun
          BY <1>4, <3>2 DEF Co!GreenZip
        <4> QED BY <1>1, <2>1, <4>1, <4>2
      <3> QED BY <3>1, <3>2
    <2>7. overrun' <= Bound
      <3> HIDE DEF old, new
      <3> QED BY <2>5, <2>6, BoundFacts, CollectionConstants
    <2> QED BY <1>1, <1>2, <2>1, <2>2, <2>3, <2>6, <2>7 DEF CoInv, Spent, EarlySteps, LaterSteps
  <1>5. CASE Co!GreenDone
    <2>1. step = "green" /\ step' = "emit" /\ overrun' = overrun /\ UNCHANGED zips
      BY <1>5 DEF Co!GreenDone
    <2>2. CASE overrun <= Listing - 1 + 4 * MaxAttempts
      <3>1. overrun <= Bound
        BY <1>1, <2>2, BoundFacts, CollectionConstants
      <3> QED BY <1>1, <1>2, <2>1, <3>1 DEF CoInv, Spent, EarlySteps, LaterSteps
    <2>3. CASE /\ overrun <= Listing - 1 + MaxAttempts * Cardinality(AskedGreen(todo, zips.run))
               /\ Cardinality(zips.run) < MaxPipeline
      <3>1. overrun <= Bound
        BY <1>1, <2>3, AskedFacts, BoundFacts, CollectionConstants
      <3> QED BY <1>1, <1>2, <2>1, <3>1 DEF CoInv, Spent, EarlySteps, LaterSteps
    <2> QED BY <2>1, <2>2, <2>3 DEF CoInv, Spent
  <1> QED BY <1>3, <1>4, <1>5

LEMMA CoNextKeeps == ASSUME CoInv, Co!Next PROVE CoInv'
  BY EarlyKeeps, TwinsKeep, OptionalKeeps, ArtifactsKeep, GreenKeeps DEF Co!Next

\* In the middle of it nothing exceeds the bound either.
LEMMA SpentIsBounded == ASSUME CoInv PROVE overrun <= Bound
  <1>1. overrun \in Nat
    BY DEF CoInv
  <1>2. CASE step # "green"
    BY <1>1, <1>2, BoundFacts, CollectionConstants
       DEF CoInv, Spent, OneReading, EarlySteps, LaterSteps
  <1>3. CASE step = "green"
    <2>1. \/ overrun <= Listing - 1 + 4 * MaxAttempts
          \/ /\ overrun <= Listing - 1 + MaxAttempts * Cardinality(AskedGreen(todo, zips.run))
             /\ Cardinality(zips.run) < MaxPipeline
      BY <1>3 DEF CoInv, Spent
    <2> QED BY <1>1, <2>1, BoundFacts, CollectionConstants, AskedFacts
  <1> QED BY <1>2, <1>3

-----------------------------------------------------------------------------
(* Branch history.                                                         *)

RunType == [sha : Nat \ {0}, outcome : Outcomes \union {"running"}, updated : Nat]

\* Later runs are not on earlier commits, and no two runs have been updated at
\* the same time.
BrInv ==
    /\ commits \in Nat /\ clock \in Nat /\ runs \in Seq(RunType)
    /\ \A i \in DOMAIN runs : runs[i].sha <= commits /\ runs[i].updated <= clock
    /\ \A i, k \in DOMAIN runs : i < k => runs[i].sha <= runs[k].sha
    /\ \A i, k \in DOMAIN runs : runs[i].updated = runs[k].updated => i = k

LEMMA RunFacts ==
    ASSUME BrInv
    PROVE  /\ Len(runs) \in Nat /\ DOMAIN runs = 1 .. Len(runs) /\ Br!Ids = 1 .. Len(runs)
           /\ \A i \in DOMAIN runs : runs[i] \in RunType
           /\ \A i \in DOMAIN runs : runs[i].sha \in Nat /\ runs[i].sha > 0 /\ runs[i].updated \in Nat
  <1>1. Len(runs) \in Nat /\ DOMAIN runs = 1 .. Len(runs) /\ \A i \in DOMAIN runs : runs[i] \in RunType
    BY DEF BrInv
  <1> QED BY <1>1 DEF RunType, Br!Ids

LEMMA BrInitHolds == ASSUME Br!Init PROVE BrInv
  BY DEF Br!Init, BrInv

LEMMA StartKeeps ==
    ASSUME BrInv, NEW sha \in Nat \ {0}, commits' \in Nat, sha <= commits', commits <= commits',
           \A i \in DOMAIN runs : runs[i].sha <= sha, Br!StartRun(sha)
    PROVE  BrInv'
  <1> DEFINE run == [sha |-> sha, outcome |-> "running", updated |-> clock + 1]
  <1>1. run \in RunType /\ runs' = Append(runs, run) /\ clock' = clock + 1
    BY DEF BrInv, RunType, Br!StartRun, Br!Running
  <1> HIDE DEF run
  <1>2. /\ runs' \in Seq(RunType) /\ DOMAIN runs' = 1 .. Len(runs) + 1
        /\ \A i \in 1 .. Len(runs) : runs'[i] = runs[i]
        /\ runs'[Len(runs) + 1] = run
    BY <1>1, RunFacts DEF BrInv
  <1>3. run.sha = sha /\ run.updated = clock + 1
    BY DEF run
  <1>4. \A i \in DOMAIN runs' : runs'[i].sha <= commits' /\ runs'[i].updated <= clock'
    <2> SUFFICES ASSUME NEW i \in DOMAIN runs' PROVE runs'[i].sha <= commits' /\ runs'[i].updated <= clock'
      OBVIOUS
    <2>1. CASE i \in 1 .. Len(runs)
      BY <1>1, <1>2, <2>1, RunFacts DEF BrInv
    <2>2. CASE i = Len(runs) + 1
      BY <1>1, <1>2, <1>3, <2>2 DEF BrInv
    <2> QED BY <1>2, <2>1, <2>2, RunFacts
  <1>5. \A i, k \in DOMAIN runs' : i < k => runs'[i].sha <= runs'[k].sha
    <2> SUFFICES ASSUME NEW i \in DOMAIN runs', NEW k \in DOMAIN runs', i < k
                 PROVE  runs'[i].sha <= runs'[k].sha
      OBVIOUS
    <2>1. i \in 1 .. Len(runs) /\ (k \in 1 .. Len(runs) \/ k = Len(runs) + 1)
      BY <1>2, RunFacts
    <2> QED BY <1>2, <1>3, <2>1, RunFacts DEF BrInv
  <1>6. \A i, k \in DOMAIN runs' : runs'[i].updated = runs'[k].updated => i = k
    <2> SUFFICES ASSUME NEW i \in DOMAIN runs', NEW k \in DOMAIN runs', runs'[i].updated = runs'[k].updated
                 PROVE  i = k
      OBVIOUS
    <2>1. \A n \in 1 .. Len(runs) : runs'[n].updated <= clock /\ runs'[n].updated \in Nat
      BY <1>2, RunFacts DEF BrInv
    <2>2. /\ i \in 1 .. Len(runs) \/ i = Len(runs) + 1
          /\ k \in 1 .. Len(runs) \/ k = Len(runs) + 1
      BY <1>2, RunFacts
    <2>3. clock \in Nat
      BY DEF BrInv
    <2>4. runs'[Len(runs) + 1].updated = clock + 1
      BY <1>2, <1>3
    <2>5. CASE i \in 1 .. Len(runs) /\ k \in 1 .. Len(runs)
      BY <1>2, <2>5, RunFacts DEF BrInv
    <2>6. CASE i = Len(runs) + 1 \/ k = Len(runs) + 1
      BY <2>1, <2>2, <2>3, <2>4, <2>6
    <2> QED BY <2>2, <2>5, <2>6
  <1> QED BY <1>1, <1>2, <1>4, <1>5, <1>6 DEF BrInv

LEMMA ConcludeKeeps ==
    ASSUME BrInv, NEW i \in DOMAIN runs, NEW outcome \in Outcomes, Br!Conclude(i, outcome)
    PROVE  BrInv'
  <1> DEFINE run == [runs[i] EXCEPT !.outcome = outcome, !.updated = clock + 1]
  <1>1. /\ runs' = [runs EXCEPT ![i] = run] /\ clock' = clock + 1 /\ commits' = commits
    BY DEF Br!Conclude
  <1>2. run \in RunType /\ run.sha = runs[i].sha /\ run.updated = clock + 1
    <2>1. runs[i] \in RunType /\ clock + 1 \in Nat
      BY RunFacts DEF BrInv
    <2> QED BY <2>1 DEF RunType
  <1> HIDE DEF run
  <1>3. /\ runs' \in Seq(RunType) /\ DOMAIN runs' = DOMAIN runs
        /\ \A k \in DOMAIN runs : runs'[k] = IF k = i THEN run ELSE runs[k]
    BY <1>1, <1>2, RunFacts DEF BrInv
  <1>4. \A k \in DOMAIN runs : /\ runs'[k].sha = runs[k].sha
                               /\ runs'[k].updated = IF k = i THEN clock + 1 ELSE runs[k].updated
    BY <1>2, <1>3
  <1>5. clock \in Nat /\ \A k \in DOMAIN runs : runs[k].updated \in Nat /\ runs[k].updated <= clock
    BY RunFacts DEF BrInv
  <1>6. \A k \in DOMAIN runs : runs'[k].sha <= commits' /\ runs'[k].updated <= clock'
    BY <1>1, <1>4, <1>5 DEF BrInv
  <1>7. \A k, n \in DOMAIN runs : runs'[k].updated = runs'[n].updated => k = n
    BY <1>4, <1>5 DEF BrInv
  <1> QED BY <1>1, <1>3, <1>4, <1>6, <1>7 DEF BrInv

LEMMA BrNextKeeps == ASSUME BrInv, Br!Next PROVE BrInv'
  <1>1. commits \in Nat /\ \A i \in DOMAIN runs : runs[i].sha <= commits /\ runs[i].sha \in Nat
    BY RunFacts DEF BrInv
  <1>2. ASSUME NEW n \in 1 .. 2, Br!Push(n) PROVE BrInv'
    <2>1. /\ commits' = commits + n /\ Br!StartRun(commits + n) /\ commits + n \in Nat \ {0}
          /\ \A i \in DOMAIN runs : runs[i].sha <= commits + n
      BY <1>1, <1>2 DEF Br!Push
    <2> QED BY <1>1, <2>1, StartKeeps
  <1>3. CASE Br!RunAgain
    <2>1. commits' = commits /\ Br!StartRun(commits) /\ commits \in Nat \ {0}
      BY <1>1, <1>3 DEF Br!RunAgain
    <2> QED BY <1>1, <2>1, StartKeeps
  <1>4. CASE \E i \in DOMAIN runs, outcome \in Outcomes : Br!Conclude(i, outcome)
    BY <1>4, ConcludeKeeps
  <1> QED BY <1>2, <1>3, <1>4 DEF Br!Next

-----------------------------------------------------------------------------
(* First and last of sets of runs.                                         *)

LEMMA LeastExists ==
    ASSUME NEW S, S \subseteq Nat, S # {}
    PROVE  \E n \in S : \A i \in S : n <= i
  <1>1. PICK n \in S : \A i \in S : <<i, n>> \notin OpToRel(<, Nat)
    BY NatLessThanWellFounded, WFMin
  <1>2. \A i \in S : ~(i < n)
    BY <1>1 DEF OpToRel
  <1> QED BY <1>2

LEMMA GreatestExists ==
    ASSUME NEW b \in Nat, NEW S, S \subseteq 0 .. b, S # {}
    PROVE  \E n \in S : \A i \in S : i <= n
  <1> DEFINE D == {b - i : i \in S}
  <1>1. D \subseteq Nat /\ D # {}
    <2>1. \A i \in S : b - i \in Nat
      OBVIOUS
    <2> QED BY <2>1
  <1>2. PICK d \in D : \A e \in D : d <= e
    <2> HIDE DEF D
    <2> QED BY <1>1, LeastExists
  <1>3. PICK n \in S : d = b - n
    OBVIOUS
  <1>4. \A i \in S : b - n <= b - i
    BY <1>2, <1>3
  <1> QED BY <1>4

LEMMA LastFacts ==
    ASSUME BrInv, NEW S, S \subseteq DOMAIN runs, S # {}
    PROVE  Br!LastOf(S) \in S /\ \A k \in S : k <= Br!LastOf(S)
  <1>1. S \subseteq 0 .. Len(runs) /\ Len(runs) \in Nat
    BY RunFacts
  <1>2. \E i \in S : \A k \in S : k <= i
    BY <1>1, GreatestExists
  <1> QED BY <1>2 DEF Br!LastOf

LEMMA FirstFacts ==
    ASSUME BrInv, NEW S, S \subseteq DOMAIN runs, S # {}
    PROVE  Br!FirstOf(S) \in S /\ \A k \in S : Br!FirstOf(S) <= k
  <1>1. S \subseteq Nat
    BY RunFacts
  <1>2. \E i \in S : \A k \in S : i <= k
    BY <1>1, LeastExists
  <1> QED BY <1>2 DEF Br!FirstOf

LEMMA UpdatedFacts ==
    ASSUME BrInv, NEW S, S \subseteq DOMAIN runs, S # {}
    PROVE  /\ Br!NewestUpdated(S) \in S
           /\ Br!OldestUpdated(S) \in S
           /\ \A k \in S \ {Br!OldestUpdated(S)} : Br!Newer(k, Br!OldestUpdated(S))
  <1> DEFINE T == {runs[i].updated : i \in S}
  <1>1. /\ T \subseteq 0 .. clock /\ T # {} /\ clock \in Nat /\ T \subseteq Nat
        /\ \A i \in S : runs[i].updated \in T /\ runs[i].updated \in Nat
        /\ \A i, k \in S : runs[i].updated = runs[k].updated => i = k
    BY RunFacts DEF BrInv
  <1>2. \A t \in T : \E i \in S : t = runs[i].updated
    OBVIOUS
  <1> HIDE DEF T
  <1>3. \E i \in S : \A k \in S \ {i} : Br!Newer(i, k)
    <2>1. PICK t \in T : \A u \in T : u <= t
      BY <1>1, GreatestExists
    <2>2. PICK i \in S : t = runs[i].updated
      BY <1>2
    <2>3. \A k \in S \ {i} : runs[k].updated <= runs[i].updated /\ runs[k].updated # runs[i].updated
      BY <1>1, <2>1, <2>2
    <2> QED BY <1>1, <2>3 DEF Br!Newer
  <1>4. \E i \in S : \A k \in S \ {i} : Br!Newer(k, i)
    <2>1. PICK t \in T : \A u \in T : t <= u
      BY <1>1, LeastExists
    <2>2. PICK i \in S : t = runs[i].updated
      BY <1>2
    <2>3. \A k \in S \ {i} : runs[i].updated <= runs[k].updated /\ runs[k].updated # runs[i].updated
      BY <1>1, <2>1, <2>2
    <2> QED BY <1>1, <2>3 DEF Br!Newer
  <1> QED BY <1>3, <1>4 DEF Br!NewestUpdated, Br!OldestUpdated

LEMMA BrCardinality == \A S : Br!Cardinality(S) = Cardinality(S)
  <1>1. \A S : Br!IsFiniteSet(S) = IsFiniteSet(S)
    BY DEF IsFiniteSet, Br!IsFiniteSet
  <1> QED BY <1>1 DEF Cardinality, Br!Cardinality

\* Sets of runs are finite, and fewer than those of a greater set.
LEMMA SetsOfRuns ==
    ASSUME BrInv
    PROVE  /\ \A S \in SUBSET DOMAIN runs : IsFiniteSet(S) /\ Cardinality(S) \in Nat
           /\ \A T \in SUBSET DOMAIN runs : \A S \in SUBSET T : Cardinality(S) <= Cardinality(T)
  <1>1. IsFiniteSet(DOMAIN runs)
    BY RunFacts, FS_Interval
  <1>2. \A S \in SUBSET DOMAIN runs : IsFiniteSet(S) /\ Cardinality(S) \in Nat
    BY <1>1, FS_Subset, FS_CardinalityType
  <1>3. \A T \in SUBSET DOMAIN runs : \A S \in SUBSET T : Cardinality(S) <= Cardinality(T)
    BY <1>2, FS_Subset
  <1> QED BY <1>2, <1>3

LEMMA NewestFacts ==
    ASSUME BrInv, NEW S \in SUBSET DOMAIN runs, NEW n \in Int
    PROVE  /\ Br!Newest(S, n) \subseteq S
           /\ \A i \in S : i \in Br!Newest(S, n) <=> Cardinality({k \in S : k > i}) < n
           /\ \A i, k \in S : i \in Br!Newest(S, n) /\ i < k => k \in Br!Newest(S, n)
  <1>1. \A i \in S : i \in Br!Newest(S, n) <=> Cardinality({k \in S : k > i}) < n
    BY BrCardinality DEF Br!Newest
  <1>2. ASSUME NEW i \in S, NEW k \in S, i \in Br!Newest(S, n), i < k PROVE k \in Br!Newest(S, n)
    <2>1. {x \in S : x > k} \in SUBSET {x \in S : x > i} /\ {x \in S : x > i} \in SUBSET DOMAIN runs
      BY <1>2, RunFacts
    <2>2. /\ Cardinality({x \in S : x > k}) <= Cardinality({x \in S : x > i})
          /\ Cardinality({x \in S : x > k}) \in Nat /\ Cardinality({x \in S : x > i}) \in Nat
      BY <2>1, SetsOfRuns
    <2> QED BY <1>1, <1>2, <2>2
  <1>3. Br!Newest(S, n) \subseteq S
    BY DEF Br!Newest
  <1> QED BY <1>1, <1>2, <1>3

-----------------------------------------------------------------------------
(* The red streak.                                                         *)

Past(cur) == {i \in DOMAIN runs : Br!Completed(i) /\ i < cur}

\* What is walked of the runs before the delivered one is the newest of them,
\* and reaches as far as the page.
LEMMA WalkedFacts ==
    ASSUME BrInv, NEW cur \in Br!Collectable, NEW lagging \in BOOLEAN,
           lagging => Br!Since(cur) = {cur}, Br!OnPage(cur), NEW older,
           older = Br!Walked(cur, lagging) \ {cur}
    PROVE  /\ cur \in Br!Walked(cur, lagging)
           /\ older \subseteq Past(cur)
           /\ \A i, k \in Past(cur) : i \in older /\ i < k => k \in older
           /\ \A i \in Past(cur) : Br!OnPage(i) => i \in older
  <1> DEFINE C    == {i \in DOMAIN runs : Br!Completed(i)}
             L    == C \ (IF lagging THEN {cur} ELSE {})
             page == Br!StateListed(cur, lagging)
             tail == IF cur \in page THEN {i \in page : i < cur} ELSE page
  <1>1. /\ cur \in C /\ C \in SUBSET DOMAIN runs /\ L \in SUBSET C
        /\ WalkCap \in Nat /\ C \subseteq Nat
    BY BranchAssumption, RunFacts DEF Br!Collectable, Br!Completed, Br!Failed, Br!Running, Br!Ids
  <1>2. page = Br!Newest(L, WalkCap) /\ Br!Walked(cur, lagging) = {cur} \union Br!Newest(tail, WalkCap - 1)
    BY DEF Br!StateListed, Br!Walked, Br!Ids
  <1>3. Past(cur) = {i \in C : i < cur} /\ Past(cur) \subseteq L
    BY <1>1 DEF Past
  <1>4. ASSUME NEW i \in C PROVE Br!Since(i) = {k \in C : k >= i}
    BY DEF Br!Since, Br!Ids
  <1>5. lagging => L \subseteq Past(cur)
    BY <1>1, <1>3, <1>4
  <1> HIDE DEF C, L, page
  <1>6. ~lagging => cur \in page
    <2> SUFFICES ASSUME ~lagging PROVE cur \in page
      OBVIOUS
    <2>1. L = C
      BY DEF L
    <2> DEFINE S == {k \in C : k >= cur}
               R == {k \in C : k > cur}
    <2>2. Cardinality(S) <= WalkCap
      BY <1>1, <1>4, BrCardinality DEF Br!OnPage
    <2>3. S \in SUBSET DOMAIN runs /\ R = S \ {cur} /\ cur \in S
      BY <1>1
    <2>4. IsFiniteSet(S) /\ Cardinality(S) \in Nat
      BY <2>3, SetsOfRuns
    <2> HIDE DEF S
    <2>5. Cardinality(R) = Cardinality(S) - 1
      BY <2>3, <2>4, FS_RemoveElement
    <2>6. Cardinality(R) < WalkCap
      BY <1>1, <2>2, <2>4, <2>5
    <2> QED BY <1>1, <1>2, <2>1, <2>6, NewestFacts
  <1>7. tail = {i \in page : i < cur} /\ page \in SUBSET L /\ tail \in SUBSET Past(cur) /\ tail \in SUBSET DOMAIN runs
    <2>1. page \in SUBSET L
      BY <1>1, <1>2, NewestFacts
    <2>2. tail = {i \in page : i < cur}
      BY <1>3, <1>5, <1>6, <2>1
    <2> QED BY <1>1, <1>3, <2>1, <2>2
  <1> HIDE DEF tail
  <1>8. \A i \in Past(cur) : i \in tail <=> i \in page
    BY <1>1, <1>3, <1>7
  <1>9. /\ WalkCap \in Int /\ WalkCap - 1 \in Int
        /\ L \in SUBSET DOMAIN runs /\ tail \in SUBSET DOMAIN runs
    BY <1>1, <1>7
  <1>10. /\ \A i \in L : i \in page <=> Cardinality({k \in L : k > i}) < WalkCap
         /\ \A i, k \in L : i \in page /\ i < k => k \in page
    BY <1>2, <1>9, NewestFacts
  <1>11. /\ Br!Newest(tail, WalkCap - 1) \subseteq tail
         /\ \A i \in tail : i \in Br!Newest(tail, WalkCap - 1)
                            <=> Cardinality({k \in tail : k > i}) < WalkCap - 1
         /\ \A i, k \in tail : i \in Br!Newest(tail, WalkCap - 1) /\ i < k
                               => k \in Br!Newest(tail, WalkCap - 1)
    BY <1>9, NewestFacts
  <1>12. older = Br!Newest(tail, WalkCap - 1)
    <2>1. cur \notin tail
      BY <1>1, <1>7
    <2> QED BY <1>2, <1>11, <2>1
  <1>13. /\ older \subseteq tail
         /\ \A i \in tail : i \in older <=> Cardinality({k \in tail : k > i}) < WalkCap - 1
         /\ \A i, k \in tail : i \in older /\ i < k => k \in older
    BY <1>11, <1>12
  <1>14. ASSUME NEW i \in Past(cur), NEW k \in Past(cur), i \in older, i < k PROVE k \in older
    <2>1. i \in page /\ k \in L /\ i \in L
      BY <1>3, <1>8, <1>13, <1>14
    <2>2. k \in page
      BY <1>10, <1>14, <2>1
    <2>3. i \in tail /\ k \in tail
      BY <1>8, <2>1, <2>2
    <2> QED BY <1>13, <1>14, <2>3
  <1>15. ASSUME NEW i \in Past(cur), Br!OnPage(i) PROVE i \in older
    <2>1. /\ i \in C /\ i \in L /\ i < cur /\ i \in Nat /\ cur \in Nat
      BY <1>1, <1>3
    <2>2. PICK S : S = {k \in C : k >= i}
      OBVIOUS
    <2>3. S \in SUBSET DOMAIN runs /\ i \in S /\ cur \in S \ {i}
      <3>1. i >= i /\ cur >= i /\ cur # i /\ cur \in C
        BY <1>1, <2>1
      <3>2. S \subseteq C /\ i \in S /\ cur \in S
        BY <2>1, <2>2, <3>1
      <3> QED BY <1>1, <3>1, <3>2
    <2>4. IsFiniteSet(S) /\ Cardinality(S) \in Nat /\ Cardinality(S) <= WalkCap
      <3>1. Br!Since(i) = S
        BY <1>4, <2>1, <2>2
      <3> QED BY <1>15, <2>3, <3>1, SetsOfRuns, BrCardinality DEF Br!OnPage
    <2>5. PICK A : A = S \ {i}
      OBVIOUS
    <2>6. PICK B : B = A \ {cur}
      OBVIOUS
    <2>7. IsFiniteSet(A) /\ Cardinality(A) = Cardinality(S) - 1
      BY <2>3, <2>4, <2>5, FS_RemoveElement
    <2>8. Cardinality(B) = Cardinality(A) - 1
      BY <2>3, <2>5, <2>6, <2>7, FS_RemoveElement
    <2>9. A \in SUBSET DOMAIN runs /\ B \in SUBSET DOMAIN runs
      BY <2>3, <2>5, <2>6
    <2>10. {k \in L : k > i} \in SUBSET A
      <3>1. \A k \in L : k \in C /\ k \in Nat
        BY <1>1
      <3>2. ASSUME NEW k \in L, k > i PROVE k \in A
        BY <2>1, <2>2, <2>5, <3>1, <3>2
      <3> QED BY <3>2
    <2>11. {k \in tail : k > i} \in SUBSET B
      <3>1. \A k \in tail : k \in C /\ k < cur /\ k \in Nat
        BY <1>1, <1>3, <1>7
      <3>2. ASSUME NEW k \in tail, k > i PROVE k \in B
        BY <2>1, <2>2, <2>5, <2>6, <3>1, <3>2
      <3> QED BY <3>2
    <2>12. /\ Cardinality({k \in L : k > i}) \in Nat
           /\ Cardinality({k \in L : k > i}) <= Cardinality(A)
      <3>1. {k \in L : k > i} \in SUBSET DOMAIN runs
        BY <2>9, <2>10
      <3> QED BY <2>9, <2>10, <3>1, SetsOfRuns
    <2>13. /\ Cardinality({k \in tail : k > i}) \in Nat
           /\ Cardinality({k \in tail : k > i}) <= Cardinality(B)
      <3>1. {k \in tail : k > i} \in SUBSET DOMAIN runs
        BY <2>9, <2>11
      <3> QED BY <2>9, <2>11, <3>1, SetsOfRuns
    <2>14. /\ Cardinality({k \in L : k > i}) < WalkCap
           /\ Cardinality({k \in tail : k > i}) < WalkCap - 1
      BY <1>1, <2>4, <2>7, <2>8, <2>12, <2>13
    <2>15. i \in tail
      BY <1>8, <1>10, <2>1, <2>14
    <2> QED BY <1>13, <2>14, <2>15
  <1>16. cur \in Br!Walked(cur, lagging)
    BY <1>2
  <1> QED BY <1>7, <1>13, <1>14, <1>15, <1>16

LEMMA StreakHolds == ASSUME BrInv PROVE Br!StreakIsSinceGreen
  <1> SUFFICES ASSUME NEW cur \in Br!Collectable, NEW lagging \in BOOLEAN, Br!OnPage(cur),
                      lagging => Br!Since(cur) = {cur}
               PROVE  /\ Br!Streak(cur, lagging) \subseteq Br!RedRuns(cur)
                      /\ Br!OnPage(Br!FirstOf(Br!RedRuns(cur))) => Br!Streak(cur, lagging) = Br!RedRuns(cur)
                      /\ Br!StreakGreen(cur, lagging) # None => Br!GreensBefore(cur) # {}
                      /\ Br!GreensBefore(cur) # {} /\ Br!OnPage(Br!LastOf(Br!GreensBefore(cur))) =>
                            Br!StreakGreen(cur, lagging) = runs[Br!LastOf(Br!GreensBefore(cur))].sha
    BY DEF Br!StreakIsSinceGreen
  <1>1. PICK older : older = Br!Walked(cur, lagging) \ {cur}
    OBVIOUS
  <1>2. /\ cur \in Br!Walked(cur, lagging)
        /\ older \subseteq Past(cur)
        /\ \A i, k \in Past(cur) : i \in older /\ i < k => k \in older
        /\ \A i \in Past(cur) : Br!OnPage(i) => i \in older
    BY <1>1, WalkedFacts
  <1> DEFINE greens == {i \in older : Br!Green(i)}
  <1>3. /\ cur \in DOMAIN runs /\ Br!Completed(cur) /\ ~Br!Green(cur)
        /\ DOMAIN runs \subseteq Nat /\ cur \in Nat
        /\ \A i \in Past(cur) : i \in DOMAIN runs /\ i < cur /\ i \in Nat /\ Br!Completed(i)
    BY RunFacts DEF Br!Collectable, Br!Completed, Br!Failed, Br!Running, Br!Green, Br!Ids, Past
  <1>4. /\ Br!Streak(cur, lagging) =
             {cur} \union (IF greens = {} THEN older ELSE {i \in older : i > Br!LastOf(greens)})
        /\ Br!StreakGreen(cur, lagging) = IF greens = {} THEN None ELSE runs[Br!LastOf(greens)].sha
    <2>1. {i \in Br!Walked(cur, lagging) : i # cur /\ Br!Green(i)} = greens
      BY <1>1
    <2> QED BY <1>1, <2>1 DEF Br!Streak, Br!StreakGreen
  <1>5. Br!GreensBefore(cur) = {g \in Past(cur) : Br!Green(g)}
    BY DEF Br!GreensBefore, Past, Br!Ids, Br!Green, Br!Completed, Br!Running
  <1>6. \A i : i \in Br!RedRuns(cur) <=>
              (i = cur \/ i \in Past(cur)) /\ \A g \in Br!GreensBefore(cur) : g < i
    BY <1>3 DEF Br!RedRuns, Br!CompletedUpTo, Past, Br!Ids
  <1>7. greens # {} => Br!LastOf(greens) \in greens /\ \A k \in greens : k <= Br!LastOf(greens)
    <2>1. greens \subseteq DOMAIN runs
      BY <1>2, <1>3
    <2> QED BY <2>1, LastFacts
  <1>8. greens \subseteq Br!GreensBefore(cur) /\ greens \subseteq Nat
    BY <1>2, <1>3, <1>5
  <1>9. ASSUME NEW i \in older, greens # {} => i > Br!LastOf(greens), NEW g \in Br!GreensBefore(cur) PROVE g < i
    <2>1. g \in Past(cur) /\ Br!Green(g) /\ g \in Nat /\ i \in Past(cur) /\ i \in Nat
      BY <1>2, <1>3, <1>5
    <2>2. CASE g = i
      BY <1>7, <1>8, <1>9, <2>1, <2>2
    <2>3. CASE g > i
      <3>1. g \in greens
        BY <1>2, <2>1, <2>3
      <3> QED BY <1>7, <1>8, <1>9, <2>1, <2>3, <3>1
    <2> QED BY <2>1, <2>2, <2>3
  <1>10. Br!Streak(cur, lagging) \subseteq Br!RedRuns(cur)
    <2>1. cur \in Br!RedRuns(cur)
      BY <1>3, <1>5, <1>6
    <2>2. ASSUME NEW i \in older, greens # {} => i > Br!LastOf(greens) PROVE i \in Br!RedRuns(cur)
      BY <1>2, <1>6, <1>9, <2>2
    <2> QED BY <1>4, <2>1, <2>2
  <1>11. ASSUME Br!OnPage(Br!FirstOf(Br!RedRuns(cur))) PROVE Br!RedRuns(cur) \subseteq Br!Streak(cur, lagging)
    <2> SUFFICES ASSUME NEW i \in Br!RedRuns(cur), i # cur PROVE i \in Br!Streak(cur, lagging)
      BY <1>4
    <2>1. i \in Past(cur) /\ Br!RedRuns(cur) \subseteq DOMAIN runs
      BY <1>3, <1>6
    <2> DEFINE first == Br!FirstOf(Br!RedRuns(cur))
    <2>2. first \in Br!RedRuns(cur) /\ first <= i /\ first \in Nat
      BY <1>3, <2>1, FirstFacts
    <2> HIDE DEF first
    <2>3. first \in Past(cur)
      BY <1>3, <1>6, <2>1, <2>2
    <2>4. i \in older
      BY <1>2, <1>3, <1>11, <2>1, <2>2, <2>3 DEF first
    <2>5. greens # {} => i > Br!LastOf(greens)
      BY <1>3, <1>6, <1>7, <1>8, <2>1
    <2> QED BY <1>4, <2>4, <2>5
  <1>12. Br!StreakGreen(cur, lagging) # None => Br!GreensBefore(cur) # {}
    BY <1>4, <1>8
  <1>13. ASSUME Br!GreensBefore(cur) # {}, Br!OnPage(Br!LastOf(Br!GreensBefore(cur)))
         PROVE  Br!StreakGreen(cur, lagging) = runs[Br!LastOf(Br!GreensBefore(cur))].sha
    <2> DEFINE last == Br!LastOf(Br!GreensBefore(cur))
    <2>1. last \in Br!GreensBefore(cur) /\ \A k \in Br!GreensBefore(cur) : k <= last
      <3>1. Br!GreensBefore(cur) \subseteq DOMAIN runs
        BY <1>3, <1>5
      <3> QED BY <1>13, <3>1, LastFacts
    <2> HIDE DEF last
    <2>2. last \in greens
      BY <1>2, <1>5, <1>13, <2>1 DEF last
    <2>3. Br!LastOf(greens) <= last /\ last <= Br!LastOf(greens)
      BY <1>7, <1>8, <2>1, <2>2
    <2>4. Br!LastOf(greens) = last
      BY <1>7, <1>8, <2>2, <2>3
    <2> QED BY <1>4, <2>2, <2>4 DEF last
  <1> QED BY <1>10, <1>11, <1>12, <1>13

-----------------------------------------------------------------------------
(* The first failing commit.                                               *)

\* The boundary the collector promises before a commit it names.
Boundary(sha) ==
    /\ Br!FailedOn(sha)
    /\ \E green \in 1 .. sha - 1 :
          /\ Br!PassedOn(green)
          /\ \A between \in green + 1 .. sha - 1 : ~Br!FailedOn(between)

\* What is recorded for a commit is how one of its runs stands.
LEMMA RecordedFacts ==
    ASSUME BrInv, NEW sha, NEW cur, NEW known, Br!RunsOn(sha, cur, known) # {}
    PROVE  \E i \in DOMAIN runs : /\ runs[i].sha = sha
                                 /\ Br!ConclusionOn(sha, cur, known) = runs[i].outcome
  <1>1. PICK S : S = Br!RunsOn(sha, cur, known)
    OBVIOUS
  <1>2. Br!Listed(cur, known) \subseteq DOMAIN runs
    BY DEF Br!Listed, Br!BranchPage, Br!Newest, Br!Ids
  <1>3. S \subseteq DOMAIN runs /\ \A i \in S : runs[i].sha = sha
    BY <1>1, <1>2 DEF Br!RunsOn
  <1>4. Br!NewestUpdated(S) \in S
    BY <1>1, <1>3, UpdatedFacts
  <1>5. Br!ConclusionOn(sha, cur, known) = runs[Br!NewestUpdated(S)].outcome
    BY <1>1 DEF Br!ConclusionOn
  <1> QED BY <1>3, <1>4, <1>5

\* With the list of commits: the one before the commit named has passed, or is
\* the base of the list.
LEMMA CommitListBoundary ==
    ASSUME BrInv, NEW cur \in Br!Collectable, NEW known, NEW range, range # {},
           NEW base \in DOMAIN runs, Br!Green(base), range = (runs[base].sha + 1) .. runs[cur].sha,
           NEW sha, sha = Br!FromCommitList(range, cur, known), sha # None, Br!Settled(cur, sha)
    PROVE  Boundary(sha)
  <1>2. PICK a, z : /\ a = runs[base].sha /\ z = runs[cur].sha
                    /\ a \in Nat /\ a > 0 /\ z \in Nat
    <2>1. cur \in DOMAIN runs
      BY DEF Br!Collectable, Br!Ids
    <2> QED BY <2>1, RunFacts
  <1>3. range = a + 1 .. z
    BY <1>2
  <1>4. PICK passed : passed = {s \in range : Br!ConclusionOn(s, cur, known) = "success"}
    OBVIOUS
  <1>5. PICK after : after = {s \in range : \A p \in passed : p < s}
    OBVIOUS
  <1>6. /\ \A s \in range : Br!RunsOn(s, cur, known) # {}
        /\ after # {} /\ sha = Br!FirstOf(after)
    BY <1>4, <1>5, Zenon DEF Br!FromCommitList
  <1>7. sha \in after /\ \A s \in after : sha <= s
    <2>1. after \subseteq Nat
      BY <1>2, <1>3, <1>5
    <2>2. \E s \in after : \A t \in after : s <= t
      BY <1>6, <2>1, LeastExists
    <2> QED BY <1>6, <2>2 DEF Br!FirstOf
  <1>8. sha \in range /\ sha \in Nat /\ a < sha /\ sha <= z
    BY <1>2, <1>3, <1>5, <1>7
  <1>9. Br!FailedOn(sha)
    <2>1. PICK i \in DOMAIN runs : /\ runs[i].sha = sha
                                  /\ Br!ConclusionOn(sha, cur, known) = runs[i].outcome
      BY <1>6, <1>8, RecordedFacts
    <2>2. runs[i].outcome # "success"
      <3>1. sha \notin passed
        BY <1>5, <1>7, <1>8
      <3> QED BY <1>4, <1>8, <2>1, <3>1
    <2>3. runs[i].outcome \in Br!Failed
      BY <1>8, <2>1, <2>2 DEF Br!Settled, Br!Ids
    <2> QED BY <2>1, <2>3 DEF Br!FailedOn, Br!Ids
  <1>10. Br!PassedOn(sha - 1)
    <2>1. CASE sha - 1 \in range
      <3>1. sha - 1 \notin after
        BY <1>7, <1>8
      <3>2. PICK p \in passed : ~(p < sha - 1)
        BY <1>5, <2>1, <3>1
      <3>3. p \in range /\ p < sha /\ p \in Nat
        BY <1>2, <1>3, <1>4, <1>5, <1>7, <3>2
      <3>4. p = sha - 1
        BY <1>8, <3>2, <3>3
      <3>5. PICK i \in DOMAIN runs : /\ runs[i].sha = p
                                    /\ Br!ConclusionOn(p, cur, known) = runs[i].outcome
        BY <1>6, <3>3, RecordedFacts
      <3>6. runs[i].outcome = "success"
        BY <1>4, <3>2, <3>5
      <3> QED BY <3>4, <3>5, <3>6 DEF Br!PassedOn, Br!Green, Br!Ids
    <2>2. CASE sha - 1 \notin range
      <3>1. sha - 1 = a
        BY <1>2, <1>3, <1>8, <2>2
      <3> QED BY <1>2, <3>1 DEF Br!PassedOn, Br!Ids
    <2> QED BY <2>1, <2>2
  <1>11. sha - 1 \in 1 .. sha - 1 /\ \A between \in (sha - 1) + 1 .. sha - 1 : FALSE
    BY <1>2, <1>8
  <1> QED BY <1>9, <1>10, <1>11 DEF Boundary

\* Without the list: every run of a commit in between is listed after the run on
\* the green commit and is older than the oldest of those in between.
LEMMA RunsBoundary ==
    ASSUME BrInv, NEW cur \in Br!Collectable, NEW known, NEW last \in DOMAIN runs, Br!Green(last),
           NEW sha, sha = Br!FromRuns(runs[last].sha, cur, known), sha # None, Br!InOrder(cur)
    PROVE  Boundary(sha)
  <1>1. PICK g : g = runs[last].sha
    OBVIOUS
  <1>2. PICK L : L = Br!Listed(cur, known)
    OBVIOUS
  <1>3. PICK since : since = {i \in L : \A k \in L : runs[k].sha = g => Br!Newer(i, k)}
    OBVIOUS
  <1>4. PICK between : between = {i \in since : i # cur /\ runs[i].sha # g}
    OBVIOUS
  <1>5. PICK oldest : oldest = Br!OldestUpdated(between)
    OBVIOUS
  <1>6. /\ \E k \in L : runs[k].sha = g
        /\ between # {} /\ sha = runs[oldest].sha
        /\ Br!ConclusionOn(sha, cur, known) \in Br!Failed
    BY <1>1, <1>2, <1>3, <1>4, <1>5, Zenon DEF Br!FromRuns
  <1>7. L = Br!Newest(DOMAIN runs, PageSize) /\ L \subseteq DOMAIN runs
    BY <1>2, <1>6 DEF Br!Listed, Br!BranchPage, Br!Newest, Br!Ids
  <1>8. \A i \in DOMAIN runs, k \in L : k < i => i \in L
    <2>1. DOMAIN runs \in SUBSET DOMAIN runs /\ PageSize \in Int
      BY BranchAssumption
    <2> QED BY <1>7, <2>1, NewestFacts
  <1>9. /\ cur \in DOMAIN runs
        /\ \A i \in DOMAIN runs : i \in Nat /\ runs[i].sha \in Nat /\ runs[i].sha > 0
                                /\ runs[i].updated \in Nat
        /\ \A i, k \in DOMAIN runs : i < k => runs[i].sha <= runs[k].sha
        /\ \A i, k \in DOMAIN runs : i < k => runs[i].updated < runs[k].updated /\ k <= cur
    BY RunFacts DEF BrInv, Br!Collectable, Br!InOrder, Br!Ids
  <1>10. /\ oldest \in between /\ oldest \in L /\ oldest \in DOMAIN runs /\ sha # g
         /\ \A k \in L : runs[k].sha = g => Br!Newer(oldest, k)
         /\ \A k \in between : k # oldest => Br!Newer(k, oldest)
    <2>1. between \subseteq DOMAIN runs
      BY <1>3, <1>4, <1>7
    <2>2. oldest \in between /\ \A k \in between \ {oldest} : Br!Newer(k, oldest)
      BY <1>5, <1>6, <2>1, UpdatedFacts
    <2> QED BY <1>3, <1>4, <1>6, <2>1, <2>2
  <1>11. sha \in Nat /\ g \in Nat /\ g > 0
    BY <1>1, <1>6, <1>9, <1>10
  <1>12. PICK k \in L : runs[k].sha = g
    BY <1>6
  <1>13. k < oldest /\ g < sha
    <2>1. runs[oldest].updated > runs[k].updated /\ k \in DOMAIN runs
      BY <1>7, <1>10, <1>12 DEF Br!Newer
    <2>2. k < oldest
      BY <1>9, <1>10, <2>1
    <2> QED BY <1>6, <1>9, <1>10, <1>11, <1>12, <2>1, <2>2
  <1>14. Br!FailedOn(sha)
    <2>1. oldest \in Br!RunsOn(sha, cur, known)
      BY <1>2, <1>6, <1>10 DEF Br!RunsOn
    <2>2. PICK i \in DOMAIN runs : /\ runs[i].sha = sha
                                  /\ Br!ConclusionOn(sha, cur, known) = runs[i].outcome
      BY <2>1, RecordedFacts
    <2> QED BY <1>6, <2>2 DEF Br!FailedOn, Br!Ids
  <1>15. Br!PassedOn(g)
    BY <1>1 DEF Br!PassedOn, Br!Ids
  <1>16. ASSUME NEW mid \in g + 1 .. sha - 1, Br!FailedOn(mid) PROVE FALSE
    <2>1. PICK i \in DOMAIN runs : runs[i].sha = mid
      BY <1>16 DEF Br!FailedOn, Br!Ids
    <2>2. mid \in Nat /\ g < mid /\ mid < sha
      BY <1>11, <1>16
    <2>3. ASSUME NEW n \in L, runs[n].sha = g PROVE n < i
      BY <1>7, <1>9, <2>1, <2>2, <2>3, <1>11
    <2>4. i < oldest
      BY <1>6, <1>9, <1>10, <1>11, <2>1, <2>2
    <2>5. i \in L
      BY <1>8, <1>12, <2>3
    <2>6. i \in since
      <3>1. ASSUME NEW n \in L, runs[n].sha = g PROVE Br!Newer(i, n)
        BY <1>7, <1>9, <2>3, <3>1 DEF Br!Newer
      <3> QED BY <1>3, <2>5, <3>1
    <2>7. i # cur /\ i # oldest
      BY <1>9, <1>10, <2>4
    <2>8. Br!Newer(i, oldest)
      BY <1>4, <1>10, <1>11, <2>1, <2>2, <2>6, <2>7
    <2> QED BY <1>9, <1>10, <2>4, <2>8 DEF Br!Newer
  <1>17. g \in 1 .. sha - 1
    BY <1>11, <1>13
  <1> QED BY <1>14, <1>15, <1>16, <1>17 DEF Boundary

LEMMA LastSuccessFacts ==
    ASSUME BrInv, NEW cur, NEW known, Br!LastSuccess(cur, known) # None
    PROVE  /\ Br!LastSuccess(cur, known) \in DOMAIN runs
           /\ Br!Green(Br!LastSuccess(cur, known))
  <1>1. PICK fetched : fetched = IF "last_success" \in known THEN Br!SuccessListed ELSE {}
    OBVIOUS
  <1>2. PICK fromPage : fromPage = {i \in Br!Listed(cur, known) : i # cur /\ Br!Green(i)}
    OBVIOUS
  <1>3. \/ fetched # {} /\ Br!LastSuccess(cur, known) = Br!LastOf(fetched)
        \/ fromPage # {} /\ Br!LastSuccess(cur, known) = Br!NewestUpdated(fromPage)
    BY <1>1, <1>2, Zenon DEF Br!LastSuccess
  <1>4. fetched \subseteq DOMAIN runs /\ \A i \in fetched : Br!Green(i)
    BY <1>1 DEF Br!SuccessListed, Br!Ids
  <1>5. fromPage \subseteq DOMAIN runs /\ \A i \in fromPage : Br!Green(i)
    BY <1>2 DEF Br!Listed, Br!BranchPage, Br!Newest, Br!Ids
  <1>6. fetched # {} => Br!LastOf(fetched) \in fetched
    BY <1>4, LastFacts
  <1>7. fromPage # {} => Br!NewestUpdated(fromPage) \in fromPage
    BY <1>5, UpdatedFacts
  <1> QED BY <1>3, <1>4, <1>5, <1>6, <1>7

LEMMA FirstFailingHolds == ASSUME BrInv PROVE Br!FirstFailingIsFirst
  <1> SUFFICES ASSUME NEW cur \in Br!Collectable, NEW known \in SUBSET Br!Requests,
                      NEW pull \in Br!PullBases(cur, known), NEW sha,
                      sha = Br!NarrowFirstFailing(cur, known, pull), sha # None, Br!Settled(cur, sha),
                      IF Br!CompareRange(cur, known, pull) # {} THEN Br!ListsAfterGreen(cur, known, pull)
                      ELSE Br!InOrder(cur)
               PROVE  Boundary(sha)
    BY Zenon DEF Br!FirstFailingIsFirst, Boundary
  <1>1. PICK last : last = Br!LastSuccess(cur, known)
    OBVIOUS
  <1>2. PICK range : range = Br!CompareRange(cur, known, pull)
    OBVIOUS
  <1>3. /\ last # None
        /\ sha = IF range # {} THEN Br!FromCommitList(Br!Pending(range, runs[last].sha, cur), cur, known)
                 ELSE Br!FromRuns(runs[last].sha, cur, known)
    BY <1>1, <1>2 DEF Br!NarrowFirstFailing
  <1>4. last \in DOMAIN runs /\ Br!Green(last)
    BY <1>1, <1>3, LastSuccessFacts
  <1>5. CASE range # {}
    <2>1. Br!CompareBase(cur, known, pull) = runs[last].sha
      BY <1>1, <1>2, <1>5 DEF Br!ListsAfterGreen
    <2>2. range = (runs[last].sha + 1) .. runs[cur].sha
      BY <1>2, <1>5, <2>1 DEF Br!CompareRange
    <2>3. runs[last].sha \in Nat /\ runs[cur].sha \in Nat
      BY <1>4, RunFacts DEF Br!Collectable, Br!Ids
    <2>4. runs[last].sha \notin range
      BY <2>2, <2>3
    <2>5. Br!Pending(range, runs[last].sha, cur) = range
      BY <1>5, <2>4 DEF Br!Pending
    <2> QED BY <1>3, <1>4, <1>5, <2>2, <2>5, CommitListBoundary
  <1>6. CASE range = {}
    BY <1>2, <1>3, <1>4, <1>6, RunsBoundary
  <1> QED BY <1>5, <1>6

-----------------------------------------------------------------------------
(* Diagnosis: what lines are classified as.                                *)

RowCategories == {"oom", "timeout", "disk_space", "crash", "dependency", "network_dns", "auth",
                  "image_pull", "test_failure", "compile"}

LEMMA Rows == /\ DOMAIN Dg!ClassifyRules = 1 .. 14
              /\ \A i \in 1 .. 14 : Dg!ClassifyRules[i].category \in RowCategories
  <1>1. DOMAIN Dg!ClassifyRules = 1 .. 14
    BY DEF Dg!ClassifyRules
  <1>2. /\ Dg!ClassifyRules[1].category = "oom"
        /\ Dg!ClassifyRules[2].category = "timeout"
        /\ Dg!ClassifyRules[3].category = "timeout"
        /\ Dg!ClassifyRules[4].category = "disk_space"
        /\ Dg!ClassifyRules[5].category = "crash"
        /\ Dg!ClassifyRules[6].category = "dependency"
        /\ Dg!ClassifyRules[7].category = "network_dns"
        /\ Dg!ClassifyRules[8].category = "auth"
        /\ Dg!ClassifyRules[9].category = "auth"
        /\ Dg!ClassifyRules[10].category = "image_pull"
        /\ Dg!ClassifyRules[11].category = "test_failure"
        /\ Dg!ClassifyRules[12].category = "test_failure"
        /\ Dg!ClassifyRules[13].category = "compile"
        /\ Dg!ClassifyRules[14].category = "compile"
    BY DEF Dg!ClassifyRules, Dg!Row
  <1>3. \A i \in 1 .. 14 : Dg!ClassifyRules[i].category \in RowCategories
    BY <1>2 DEF RowCategories
  <1> QED BY <1>1, <1>3

LEMMA LeastFacts ==
    ASSUME NEW S, S \subseteq Nat, S # {}
    PROVE  Dg!Min(S) \in S /\ \A i \in S : Dg!Min(S) <= i
  BY LeastExists DEF Dg!Min

\* A row that is chosen has a category of the table.
LEMMA RowChosen ==
    ASSUME NEW rules, rules \subseteq DOMAIN Dg!ClassifyRules, rules # {}, NEW lines
    PROVE  Dg!HitOf(Dg!ClassifyRules[Dg!Min(rules)], lines).category \in RowCategories
  <1>1. Dg!Min(rules) \in 1 .. 14
    BY Rows, LeastFacts
  <1>2. \A row : Dg!HitOf(row, lines).category = row.category
    BY DEF Dg!HitOf, Dg!NoHit
  <1> QED BY <1>1, <1>2, Rows

LEMMA UnionCategory ==
    ASSUME NEW lines
    PROVE  /\ Dg!ClassifyUnion(lines).category \in RowCategories \union {"unknown"}
           /\ DOMAIN Dg!ClassifyUnion(lines) = DOMAIN Dg!NoHit
  <1>1. PICK rules : rules = Dg!RulesFor(lines \ Dg!Benign)
    OBVIOUS
  <1>2. rules \subseteq DOMAIN Dg!ClassifyRules
    BY <1>1 DEF Dg!RulesFor
  <1>3. CASE rules = {}
    BY <1>1, <1>3 DEF Dg!ClassifyUnion, Dg!HitOfRules, Dg!NoHit
  <1>4. CASE rules # {}
    <2>1. Dg!Preferred(rules) \subseteq DOMAIN Dg!ClassifyRules /\ Dg!Preferred(rules) # {}
      BY <1>2, <1>4 DEF Dg!Preferred
    <2>2. Dg!ClassifyUnion(lines) =
            Dg!HitOf(Dg!ClassifyRules[Dg!Min(Dg!Preferred(rules))], lines)
      BY <1>1, <1>4 DEF Dg!ClassifyUnion, Dg!HitOfRules
    <2>3. \A row, some : DOMAIN Dg!HitOf(row, some) = DOMAIN Dg!NoHit
      BY DEF Dg!HitOf, Dg!NoHit
    <2> QED BY <2>1, <2>2, <2>3, RowChosen
  <1> QED BY <1>3, <1>4

LEMMA LinesCategory ==
    ASSUME NEW lines, DOMAIN lines \subseteq Nat
    PROVE  /\ Dg!ClassifyLines(lines).category \in RowCategories \union {"unknown"}
           /\ Dg!LinesHit(lines) # {} => Dg!ClassifyLines(lines).category \in RowCategories
  <1>1. CASE Dg!LinesHit(lines) = {}
    BY <1>1 DEF Dg!ClassifyLines, Dg!NoHit
  <1>2. CASE Dg!LinesHit(lines) # {}
    <2>1. Dg!Min(Dg!LinesHit(lines)) \in Dg!LinesHit(lines)
      <3>1. Dg!LinesHit(lines) \subseteq Nat
        BY DEF Dg!LinesHit
      <3> QED BY <1>2, <3>1, LeastFacts
    <2>2. PICK line : line = lines[Dg!Min(Dg!LinesHit(lines))]
      OBVIOUS
    <2>3. Dg!RulesFor({line}) # {} /\ Dg!RulesFor({line}) \subseteq DOMAIN Dg!ClassifyRules
      BY <2>1, <2>2 DEF Dg!LinesHit, Dg!RulesFor
    <2>4. Dg!ClassifyLines(lines) = Dg!HitOf(Dg!ClassifyRules[Dg!Min(Dg!RulesFor({line}))], {line})
      BY <1>2, <2>2 DEF Dg!ClassifyLines
    <2> QED BY <2>3, <2>4, RowChosen
  <1> QED BY <1>1, <1>2

LEMMA AnchorFacts ==
    ASSUME NEW e \in Evidence, Dg!AnchorCategory(e) # "none"
    PROVE  /\ e.jobs # <<>> /\ Dg!TerminalCause(e) /\ ~Dg!IgnoreJob(e)
           /\ Dg!AnchorCategory(e) # "unknown" /\ Dg!AnchorCategory(e) # "infra_runner"
  <1>1. /\ Dg!TerminalCause(e) /\ ~Dg!IgnoreJob(e) /\ Dg!AnchorTerminals(e) # {}
        /\ Dg!AnchorCategory(e) = Dg!TerminalCategory[e.jobs[1].anchor[Dg!Min(Dg!AnchorTerminals(e))]]
    BY DEF Dg!AnchorCategory, Dg!TerminalCause
  <1>2. e.jobs # <<>> /\ Dg!AnchorTerminals(e) \subseteq Nat
    <2>1. e.jobs # <<>> /\ Dg!AnchorTerminals(e) \subseteq DOMAIN e.jobs[1].anchor
      BY <1>1 DEF Dg!AnchorTerminals
    <2>2. e.jobs[1].anchor \in Seq(STRING)
      BY <2>1, DiagnosisAssumption DEF Dg!WellFormedEvidence
    <2> QED BY <2>1, <2>2
  <1>3. Dg!IsTerminal(e.jobs[1].anchor[Dg!Min(Dg!AnchorTerminals(e))])
    <2>1. Dg!Min(Dg!AnchorTerminals(e)) \in Dg!AnchorTerminals(e)
      BY <1>1, <1>2, LeastFacts
    <2> QED BY <1>2, <2>1 DEF Dg!AnchorTerminals
  <1>4. ASSUME NEW l, Dg!IsTerminal(l)
        PROVE  Dg!TerminalCategory[l] # "unknown" /\ Dg!TerminalCategory[l] # "infra_runner"
    BY <1>4 DEF Dg!IsTerminal, Dg!TerminalCategory
  <1> QED BY <1>1, <1>2, <1>3, <1>4

-----------------------------------------------------------------------------
(* Diagnosis: what each rule says.                                         *)

\* The same but for whether it is flaky.
Agree(h, k) ==
    /\ h.category = k.category /\ h.confidence = k.confidence
    /\ h.side = k.side /\ h.pattern = k.pattern

\* The same cause.
Alike(v, w) == v.rule = w.rule /\ v.category = w.category /\ v.side = w.side /\ v.short = w.short

\* It has the fields of one.
IsVerdict(v) == DOMAIN v = DOMAIN Dg!NoVerdict

\* A verdict no later diagnosis takes for a short circuit.
PlainVerdict(v) == IsVerdict(v) /\ v.short = "none" /\ v.category # "infra_runner"

\* A verdict that names a cause, or leaves that to the history.
Names(v) == v.rule = "none" \/ v.category # "unknown" \/ v.rule \in {"R15", "R16"}

\* What one rule says at two diagnoses of the same evidence.
Steady(e, v, w) ==
    /\ Alike(v, w) /\ v.analysis = w.analysis /\ PlainVerdict(v) /\ PlainVerdict(w)
    /\ Dg!AnchorCategory(e) # "none" => Names(v)

LEMMA Forms ==
    /\ PlainVerdict(Dg!NoVerdict) /\ Dg!NoVerdict.rule = "none"
    /\ DOMAIN Dg!NoVerdict = {"rule", "category", "confidence", "side", "analysis", "short", "flaky", "pattern"}
  BY DEF PlainVerdict, IsVerdict, Dg!NoVerdict, Dg!Verdict

HitCategories == RowCategories \union {"unknown"}

LEMMA FixedSteady ==
    ASSUME NEW e, NEW v, NEW w, v = w, PlainVerdict(v), Names(v)
    PROVE  Steady(e, v, w)
  BY DEF Steady, Alike

LEMMA TimeoutSteady ==
    ASSUME NEW e, NEW h, NEW k, Agree(h, k), h.category \in HitCategories
    PROVE  Steady(e, Dg!Timeout(e, h), Dg!Timeout(e, k))
  BY Forms DEF Dg!Verdict, Dg!FromHit, Dg!Timeout, Steady, Alike, PlainVerdict, IsVerdict, Names, Agree

LEMMA OutOfMemorySteady ==
    ASSUME NEW e, NEW h, NEW k, Agree(h, k), h.category \in HitCategories
    PROVE  Steady(e, Dg!OutOfMemory(e, h), Dg!OutOfMemory(e, k))
  BY Forms
    DEF Dg!Verdict, Dg!FromHit, Dg!OutOfMemory, Dg!Matched, Steady, Alike, PlainVerdict, IsVerdict, Names,
        Agree

LEMMA DiskFullSteady ==
    ASSUME NEW e, NEW h, NEW k, Agree(h, k), h.category \in HitCategories
    PROVE  Steady(e, Dg!DiskFull(e, h), Dg!DiskFull(e, k))
  BY Forms DEF Dg!Verdict, Dg!FromHit, Dg!DiskFull, Steady, Alike, PlainVerdict, IsVerdict, Names, Agree

LEMMA ImagePullSteady ==
    ASSUME NEW e, NEW h, NEW k, Agree(h, k), h.category \in HitCategories
    PROVE  Steady(e, Dg!ImagePull(e, h), Dg!ImagePull(e, k))
  BY Forms DEF Dg!Verdict, Dg!FromHit, Dg!ImagePull, Steady, Alike, PlainVerdict, IsVerdict, Names, Agree

LEMMA DependencySteady ==
    ASSUME NEW e, NEW h, NEW k, Agree(h, k), h.category \in HitCategories
    PROVE  Steady(e, Dg!Dependency(e, h), Dg!Dependency(e, k))
  BY Forms
    DEF Dg!Verdict, Dg!FromHit, Dg!Dependency, Dg!Matched, Steady, Alike, PlainVerdict, IsVerdict, Names, Agree

LEMMA CompileSteady ==
    ASSUME NEW e, NEW h, NEW k, Agree(h, k), h.category \in HitCategories
    PROVE  Steady(e, Dg!Compile(e, h), Dg!Compile(e, k))
  BY Forms
    DEF Dg!Verdict, Dg!FromHit, Dg!Compile, Dg!Matched, Steady, Alike, PlainVerdict, IsVerdict, Names, Agree

LEMMA JUnitSteady ==
    ASSUME NEW e, NEW code, NEW again
    PROVE  /\ Alike(Dg!JUnit(e, code), Dg!JUnit(e, again))
           /\ PlainVerdict(Dg!JUnit(e, code)) /\ PlainVerdict(Dg!JUnit(e, again))
           /\ Names(Dg!JUnit(e, code))
           /\ e.junit # "generic" => Dg!JUnit(e, code).analysis = Dg!JUnit(e, again).analysis
           /\ code = again => Dg!JUnit(e, code).analysis = Dg!JUnit(e, again).analysis
  <1>1. CASE e.junit \notin {"specific", "generic"}
    BY <1>1, Forms DEF Dg!Verdict, Dg!FromHit, Dg!JUnit, Alike, Names
  <1>2. CASE e.junit \in {"specific", "generic"}
    <2>1. ASSUME NEW c
          PROVE  /\ PlainVerdict(Dg!JUnit(e, c)) /\ Dg!JUnit(e, c).rule = "R10"
                 /\ Dg!JUnit(e, c).category = "test_failure" /\ Dg!JUnit(e, c).side = "code"
                 /\ Dg!JUnit(e, c).short = "none"
                 /\ e.junit # "generic" => Dg!JUnit(e, c).analysis = FALSE
      BY <1>2, Forms DEF Dg!Verdict, Dg!FromHit, Dg!JUnit, PlainVerdict, IsVerdict
    <2> QED BY <2>1 DEF Alike, Names
  <1> QED BY <1>1, <1>2

LEMMA FloodingSteady == ASSUME NEW e PROVE Steady(e, Dg!Flooding(e), Dg!Flooding(e))
  BY Forms DEF Dg!Verdict, Dg!FromHit, Dg!Flooding, Steady, Alike, PlainVerdict, IsVerdict, Names

LEMMA DepletedSteady ==
    ASSUME NEW e, NEW h, NEW k, Agree(h, k), h.category \in HitCategories
    PROVE  Steady(e, Dg!Depleted(e, h), Dg!Depleted(e, k))
  <1>1. PICK line : line = Dg!ClassifyLines(<<e.novelError>>)
    OBVIOUS
  <1>2. line.category \in HitCategories
    <2>1. DOMAIN <<e.novelError>> \subseteq Nat
      OBVIOUS
    <2> QED BY <1>1, <2>1, LinesCategory DEF HitCategories
  <1>3. PICK category : category = IF line.category # "unknown" THEN line.category
                                   ELSE IF h.category # "unknown" THEN h.category ELSE "crash"
    OBVIOUS
  <1>4. category # "unknown" /\ category # "infra_runner"
    BY <1>2, <1>3 DEF HitCategories, RowCategories
  <1>5. PICK confidence : confidence = IF line.confidence = "high" THEN "high" ELSE "medium"
    OBVIOUS
  <1>6. PICK v : v = IF e.drain # "depleted" \/ e.novelError = Dg!NoLine THEN Dg!NoVerdict
                     ELSE [Dg!Verdict("R12", category, confidence, Dg!Side(category))
                             EXCEPT !.pattern = line.pattern]
    OBVIOUS
  <1>7. ASSUME NEW some, some.category = h.category PROVE Dg!Depleted(e, some) = v
    <2>1. (CASE line.category # "unknown" -> line.category
             [] line.category = "unknown" /\ some.category # "unknown" -> some.category
             [] OTHER -> "crash") = category
      BY <1>3, <1>7
    <2> QED BY <1>1, <1>5, <1>6, <2>1, Zenon DEF Dg!Depleted
  <1>8. Dg!Depleted(e, h) = v /\ Dg!Depleted(e, k) = v
    BY <1>7 DEF Agree
  <1>9. PlainVerdict(v) /\ Names(v)
    BY <1>4, <1>6, Forms DEF Dg!Verdict, PlainVerdict, IsVerdict, Names
  <1> QED BY <1>8, <1>9, FixedSteady

LEMMA LastGreenSteady ==
    ASSUME NEW e \in Evidence PROVE Steady(e, Dg!LastGreen(e), Dg!LastGreen(e))
  <1>1. DOMAIN e.green \subseteq Nat
    BY DiagnosisAssumption DEF Dg!WellFormedEvidence
  <1>2. Dg!LinesHit(e.green) # {} => Dg!ClassifyLines(e.green).category \in RowCategories
    BY <1>1, LinesCategory
  <1> QED BY <1>2, Forms
    DEF Dg!Verdict, Dg!FromHit, Dg!LastGreen, Steady, Alike, PlainVerdict, IsVerdict, Names, RowCategories

LEMMA ConfigChangeOnlySteady ==
    ASSUME NEW e \in Evidence, NEW h, NEW k, Agree(h, k), h.category \in HitCategories
    PROVE  Steady(e, Dg!GapFill(e, Dg!ConfigChangeOnly(e, h)), Dg!GapFill(e, Dg!ConfigChangeOnly(e, k)))
  BY Forms, AnchorFacts
    DEF Dg!Verdict, Dg!FromHit, HitCategories, RowCategories, Dg!ConfigChangeOnly, Dg!GapFill,
        Dg!Named, Steady, Alike, PlainVerdict, IsVerdict, Names, Agree

LEMMA HistorySteady ==
    ASSUME NEW e, NEW h, NEW k, Agree(h, k), h.category \in HitCategories
    PROVE  /\ Steady(e, Dg!HistoryResolution(e, h), Dg!HistoryResolution(e, k))
           /\ Steady(e, Dg!HistoryCrossBranch(e, h), Dg!HistoryCrossBranch(e, k))
  BY Forms
    DEF Dg!Verdict, Dg!FromHit, HitCategories, RowCategories, Dg!HistoryResolution,
        Dg!HistoryCrossBranch, Steady, Alike, PlainVerdict, IsVerdict, Names, Agree

LEMMA PipelineOverJobSteady ==
    ASSUME NEW e \in Evidence, NEW h, NEW k, Agree(h, k), h.category \in HitCategories
    PROVE  Steady(e, Dg!PipelineOverJob(e, h), Dg!PipelineOverJob(e, k))
  BY Forms, AnchorFacts
    DEF Dg!Verdict, Dg!FromHit, HitCategories, RowCategories, Dg!PipelineOverJob, Steady, Alike,
        PlainVerdict, IsVerdict, Names, Agree

LEMMA SignatureSteady ==
    ASSUME NEW e, NEW h, NEW k, Agree(h, k), h.category \in HitCategories
    PROVE  Steady(e, Dg!SignatureRule(h), Dg!SignatureRule(k))
  BY Forms DEF Dg!Verdict, Dg!FromHit, Dg!SignatureRule, Steady, Alike, PlainVerdict, IsVerdict, Names, Agree

LEMMA ResidualSteady ==
    ASSUME NEW e \in Evidence, NEW h, NEW k, Agree(h, k), h.category \in HitCategories
    PROVE  /\ Steady(e, Dg!GapFill(e, Dg!Residual(e, h)), Dg!GapFill(e, Dg!Residual(e, k)))
           /\ Dg!GapFill(e, Dg!Residual(e, h)).rule # "none"
  BY Forms, AnchorFacts
    DEF Dg!Verdict, Dg!FromHit, HitCategories, RowCategories, Dg!Residual, Dg!GapFill, Dg!Named,
        Steady, Alike, PlainVerdict, IsVerdict, Names, Agree

\* What the rules after the short circuits say is the same at every diagnosis but
\* for a generic assertion once there is source to read, cannot be mistaken for a
\* short circuit, and names a cause that the failed step names.
LEMMA ChainFacts ==
    ASSUME NEW e \in Evidence, NEW c, NEW d, NEW h, NEW k, Agree(h, k), h.category \in HitCategories,
           NEW code, NEW again, NEW j \in 2 .. 17,
           NEW v, v = Dg!Verdicts(e, c, h, code)[j], NEW w, w = Dg!Verdicts(e, d, k, again)[j]
    PROVE  /\ Alike(v, w) /\ PlainVerdict(v) /\ PlainVerdict(w)
           /\ v.analysis = w.analysis \/ (e.junit = "generic" /\ code # again)
           /\ Dg!AnchorCategory(e) # "none" => Names(v)
           /\ j = 17 => v.rule # "none"
  <1>1. ASSUME Steady(e, v, w)
        PROVE  /\ Alike(v, w) /\ PlainVerdict(v) /\ PlainVerdict(w) /\ v.analysis = w.analysis
               /\ Dg!AnchorCategory(e) # "none" => Names(v)
    BY <1>1 DEF Steady
  <1>2. CASE j = 2
    <2>1. v = Dg!Timeout(e, h) /\ w = Dg!Timeout(e, k)
      BY <1>2 DEF Dg!Verdicts
    <2> QED BY <1>1, <1>2, <2>1, TimeoutSteady
  <1>3. CASE j = 3
    <2>1. v = Dg!OutOfMemory(e, h) /\ w = Dg!OutOfMemory(e, k)
      BY <1>3 DEF Dg!Verdicts
    <2> QED BY <1>1, <1>3, <2>1, OutOfMemorySteady
  <1>4. CASE j = 4
    <2>1. v = Dg!DiskFull(e, h) /\ w = Dg!DiskFull(e, k)
      BY <1>4 DEF Dg!Verdicts
    <2> QED BY <1>1, <1>4, <2>1, DiskFullSteady
  <1>5. CASE j = 5
    <2>1. v = Dg!ImagePull(e, h) /\ w = Dg!ImagePull(e, k)
      BY <1>5 DEF Dg!Verdicts
    <2> QED BY <1>1, <1>5, <2>1, ImagePullSteady
  <1>6. CASE j = 6
    <2>1. v = Dg!Dependency(e, h) /\ w = Dg!Dependency(e, k)
      BY <1>6 DEF Dg!Verdicts
    <2> QED BY <1>1, <1>6, <2>1, DependencySteady
  <1>7. CASE j = 7
    <2>1. v = Dg!Compile(e, h) /\ w = Dg!Compile(e, k)
      BY <1>7 DEF Dg!Verdicts
    <2> QED BY <1>1, <1>7, <2>1, CompileSteady
  <1>8. CASE j = 8
    <2>1. v = Dg!JUnit(e, code) /\ w = Dg!JUnit(e, again)
      BY <1>8 DEF Dg!Verdicts
    <2> QED BY <1>8, <2>1, JUnitSteady
  <1>9. CASE j = 9
    <2>1. v = Dg!Flooding(e) /\ w = Dg!Flooding(e)
      BY <1>9 DEF Dg!Verdicts
    <2> QED BY <1>1, <1>9, <2>1, FloodingSteady
  <1>10. CASE j = 10
    <2>1. v = Dg!Depleted(e, h) /\ w = Dg!Depleted(e, k)
      BY <1>10 DEF Dg!Verdicts
    <2> QED BY <1>1, <1>10, <2>1, DepletedSteady
  <1>11. CASE j = 11
    <2>1. v = Dg!LastGreen(e) /\ w = Dg!LastGreen(e)
      BY <1>11 DEF Dg!Verdicts
    <2> QED BY <1>1, <1>11, <2>1, LastGreenSteady
  <1>12. CASE j = 12
    <2>1. /\ v = Dg!GapFill(e, Dg!ConfigChangeOnly(e, h))
          /\ w = Dg!GapFill(e, Dg!ConfigChangeOnly(e, k))
      BY <1>12 DEF Dg!Verdicts
    <2> QED BY <1>1, <1>12, <2>1, ConfigChangeOnlySteady
  <1>13. CASE j = 13
    <2>1. v = Dg!HistoryResolution(e, h) /\ w = Dg!HistoryResolution(e, k)
      BY <1>13 DEF Dg!Verdicts
    <2> QED BY <1>1, <1>13, <2>1, HistorySteady
  <1>14. CASE j = 14
    <2>1. v = Dg!HistoryCrossBranch(e, h) /\ w = Dg!HistoryCrossBranch(e, k)
      BY <1>14 DEF Dg!Verdicts
    <2> QED BY <1>1, <1>14, <2>1, HistorySteady
  <1>15. CASE j = 15
    <2>1. v = Dg!PipelineOverJob(e, h) /\ w = Dg!PipelineOverJob(e, k)
      BY <1>15 DEF Dg!Verdicts
    <2> QED BY <1>1, <1>15, <2>1, PipelineOverJobSteady
  <1>16. CASE j = 16
    <2>1. v = Dg!SignatureRule(h) /\ w = Dg!SignatureRule(k)
      BY <1>16 DEF Dg!Verdicts
    <2> QED BY <1>1, <1>16, <2>1, SignatureSteady
  <1>17. CASE j = 17
    <2>1. v = Dg!GapFill(e, Dg!Residual(e, h)) /\ w = Dg!GapFill(e, Dg!Residual(e, k))
      BY <1>17 DEF Dg!Verdicts
    <2> QED BY <1>1, <1>17, <2>1, ResidualSteady
  <1> QED BY <1>2, <1>3, <1>4, <1>5, <1>6, <1>7, <1>8, <1>9, <1>10, <1>11, <1>12, <1>13, <1>14,
             <1>15, <1>16, <1>17

-----------------------------------------------------------------------------
(* Diagnosis: the first rule, and the second diagnosis.                    *)

LEMMA ShownFacts ==
    ASSUME NEW e, NEW v, IsVerdict(v),
           NEW shown, shown = Dg!Display(Dg!RefineBlastRadius(e, v))
    PROVE  /\ Alike(shown, v)
           /\ shown.pattern = v.pattern
           /\ shown.analysis = Dg!RefineBlastRadius(e, v).analysis
  <1>1. PICK refined : refined = Dg!RefineBlastRadius(e, v)
    OBVIOUS
  <1>2. refined = v \/ refined = [v EXCEPT !.analysis = FALSE]
    BY <1>1 DEF Dg!RefineBlastRadius
  <1>3. IsVerdict(refined) /\ Alike(refined, v) /\ refined.pattern = v.pattern
    BY <1>2, Forms DEF Alike, IsVerdict
  <1>4. shown = refined \/ shown = [refined EXCEPT !.confidence = "high"]
    BY <1>1 DEF Dg!Display
  <1> QED BY <1>1, <1>3, <1>4, Forms DEF Alike, IsVerdict

\* Whether the analysis is dropped depends on the category only.
LEMMA ShownAlike ==
    ASSUME NEW e, NEW v, NEW w, IsVerdict(v), IsVerdict(w), Alike(v, w),
           NEW shown, shown = Dg!Display(Dg!RefineBlastRadius(e, v)),
           NEW again, again = Dg!Display(Dg!RefineBlastRadius(e, w))
    PROVE  Alike(shown, again) /\ (v.analysis = w.analysis => shown.analysis = again.analysis)
  <1>1. Alike(shown, again)
    <2>1. Alike(shown, v) /\ Alike(again, w)
      BY ShownFacts
    <2> QED BY <2>1 DEF Alike
  <1>2. /\ shown.analysis = Dg!RefineBlastRadius(e, v).analysis
        /\ again.analysis = Dg!RefineBlastRadius(e, w).analysis
    BY ShownFacts
  <1>3. v.analysis = w.analysis => Dg!RefineBlastRadius(e, v).analysis = Dg!RefineBlastRadius(e, w).analysis
    BY Forms DEF Dg!RefineBlastRadius, Alike, IsVerdict
  <1> QED BY <1>1, <1>2, <1>3

\* The rule that decides: the first one with a verdict.
Decides(chain, j) ==
    /\ j \in 1 .. 17 /\ Dg!FirstVerdict(chain) = chain[j] /\ chain[j].rule # "none"
    /\ \A i \in 1 .. 17 : chain[i].rule # "none" => j <= i

LEMMA FirstOfChain ==
    ASSUME NEW chain, DOMAIN chain = 1 .. 17, NEW n \in 1 .. 17, chain[n].rule # "none"
    PROVE  \E j : Decides(chain, j)
  <1>1. PICK hits : hits = {i \in DOMAIN chain : chain[i].rule # "none"}
    OBVIOUS
  <1>2. Dg!FirstVerdict(chain) = chain[Dg!Min(hits)]
    BY <1>1 DEF Dg!FirstVerdict
  <1>3. Dg!Min(hits) \in hits /\ \A i \in hits : Dg!Min(hits) <= i
    BY <1>1, LeastFacts
  <1>4. Decides(chain, Dg!Min(hits))
    BY <1>1, <1>2, <1>3 DEF Decides
  <1> QED BY <1>4

LEMMA ChainDomain ==
    ASSUME NEW e, NEW c, NEW h, NEW code
    PROVE  /\ DOMAIN Dg!Verdicts(e, c, h, code) = 1 .. 17
           /\ Dg!Verdicts(e, c, h, code)[1] = Dg!ShortCircuit(e, c)
  BY DEF Dg!Verdicts

LEMMA HitFacts ==
    ASSUME NEW e, e.jobs # <<>>, NEW c, NEW d
    PROVE  /\ Agree(Dg!UnionHit(e, c), Dg!UnionHit(e, d))
           /\ Dg!UnionHit(e, c).category \in HitCategories
  <1>1. PICK h : h = Dg!ClassifyUnion(Dg!UnionLines(e))
    OBVIOUS
  <1>2. ASSUME NEW some
        PROVE  Dg!UnionHit(e, some) = [h EXCEPT !.flaky = h.flaky \/ some.flaky]
    BY <1>1 DEF Dg!UnionHit
  <1>3. /\ h.category \in HitCategories
        /\ DOMAIN h = {"category", "confidence", "side", "pattern", "flaky", "short", "analysis"}
    <2>1. DOMAIN Dg!NoHit = {"category", "confidence", "side", "pattern", "flaky", "short", "analysis"}
      BY DEF Dg!NoHit
    <2> QED BY <1>1, <2>1, UnionCategory DEF HitCategories
  <1>4. ASSUME NEW some, NEW hit, hit = Dg!UnionHit(e, some)
        PROVE  /\ hit.category = h.category /\ hit.confidence = h.confidence
               /\ hit.side = h.side /\ hit.pattern = h.pattern
    BY <1>2, <1>3, <1>4
  <1> QED BY <1>3, <1>4 DEF Agree

\* A short circuit leaves on the summary what makes it happen again.
LEMMA ShortAgain ==
    ASSUME NEW e, NEW c, NEW s, s = Dg!ShortCircuit(e, c), s.rule # "none",
           NEW d, d.short = s.short, d.category = s.category, d.side = s.side,
           d.pattern = IF s.pattern = "none" THEN c.pattern ELSE s.pattern,
           NEW t, t = Dg!ShortCircuit(e, d)
    PROVE  Alike(s, t) /\ s.analysis = t.analysis
  <1>1. CASE s.rule = "no_failed_jobs"
    BY <1>1 DEF Dg!ShortCircuit, Dg!Verdict, Dg!NoVerdict, Alike
  <1>2. CASE s.rule = "R1"
    <2>1. PICK searched : searched = (Dg!SearchCategory(e, "disk_space") \/ Dg!SearchCategory(e, "image_pull"))
      OBVIOUS
    <2>2. /\ ~searched /\ c.pattern \notin {"no space left", "pull access denied"}
          /\ s = [Dg!Verdict("R1", "infra_runner", "high", "infra") EXCEPT
                    !.short = "infra_runner", !.pattern = c.pattern]
      BY <1>2, <2>1 DEF Dg!ShortCircuit, Dg!Verdict, Dg!NoVerdict
    <2>3. /\ s.short = "infra_runner" /\ s.pattern = c.pattern
          /\ s.category = "infra_runner" /\ s.side = "infra" /\ s.analysis = FALSE
      BY <2>2 DEF Dg!Verdict
    <2>4. d.short = "infra_runner" /\ d.pattern = c.pattern
      BY <2>3
    <2>5. t = [Dg!Verdict("R1", "infra_runner", "high", "infra") EXCEPT
                 !.short = "infra_runner", !.pattern = d.pattern]
      BY <2>1, <2>2, <2>4 DEF Dg!ShortCircuit
    <2> QED BY <1>2, <2>3, <2>5 DEF Alike, Dg!Verdict
  <1>3. CASE s.rule = "R3"
    <2>1. /\ c.short = "flake_same_sha_passed" /\ c.category # "infra_runner"
          /\ s = [Dg!Verdict("R3", c.category, "high", c.side) EXCEPT
                    !.short = c.short, !.flaky = TRUE, !.pattern = c.pattern]
      BY <1>3 DEF Dg!ShortCircuit, Dg!Verdict, Dg!NoVerdict
    <2>2. /\ s.short = "flake_same_sha_passed" /\ s.analysis = FALSE
          /\ s.category = c.category /\ s.side = c.side
      BY <2>1 DEF Dg!Verdict
    <2>3. d.short = "flake_same_sha_passed" /\ d.category # "infra_runner"
      BY <2>1, <2>2
    <2>4. t = [Dg!Verdict("R3", d.category, "high", d.side) EXCEPT
                 !.short = d.short, !.flaky = TRUE, !.pattern = d.pattern]
      BY <2>3 DEF Dg!ShortCircuit
    <2> QED BY <1>3, <2>2, <2>3, <2>4 DEF Alike, Dg!Verdict
  <1>4. s.rule \in {"no_failed_jobs", "R1", "R3"}
    BY DEF Dg!ShortCircuit, Dg!Verdict, Dg!NoVerdict
  <1> QED BY <1>1, <1>2, <1>3, <1>4

LEMMA ShortFacts ==
    ASSUME NEW e, NEW c, NEW s, s = Dg!ShortCircuit(e, c)
    PROVE  /\ IsVerdict(s)
           /\ s.rule # "none" => s.category # "unknown" \/ s.short # "none"
           /\ c.short = "none" /\ c.category # "infra_runner" => s.rule = "none"
           /\ c.short = "no_failed_jobs" => s.rule # "none"
  BY DEF Dg!ShortCircuit, Dg!Verdict, Dg!NoVerdict, IsVerdict

CardFields == {"rule", "category", "confidence", "side", "analysis", "short", "flaky", "pattern"}

LEMMA ApplyFacts ==
    ASSUME NEW c, DOMAIN c = CardFields, NEW v, NEW d, d = Dg!Apply(c, v)
    PROVE  /\ DOMAIN d = CardFields /\ Alike(d, v) /\ d.analysis = v.analysis
           /\ d.pattern = IF v.pattern = "none" THEN c.pattern ELSE v.pattern
  BY DEF Dg!Apply, CardFields, Alike

LEMMA BuiltFacts ==
    ASSUME NEW e
    PROVE  /\ DOMAIN Dg!Built(e) = CardFields
           /\ e.jobs = <<>> => Dg!Built(e).short = "no_failed_jobs"
  <1>1. DOMAIN Dg!Built(e) = CardFields /\ Dg!Built(e).short = Dg!ClassifyFailure(e.jobs, e.passedBefore).short
    BY DEF Dg!Built, CardFields
  <1>2. e.jobs = <<>> => Dg!ClassifyFailure(e.jobs, e.passedBefore).short = "no_failed_jobs"
    BY DEF Dg!ClassifyFailure, Dg!NoHit
  <1> QED BY <1>1, <1>2

\* The chain has a rule that matches: R18, if no other.
\* A summary without failed jobs says so.
Decided(e, c) == e.jobs = <<>> => c.short = "no_failed_jobs"

LEMMA SomeRule ==
    ASSUME NEW e \in Evidence, NEW c, Decided(e, c), NEW code,
           NEW chain, chain = Dg!Verdicts(e, c, Dg!UnionHit(e, c), code)
    PROVE  \E j : Decides(chain, j)
  <1>1. DOMAIN chain = 1 .. 17 /\ chain[1] = Dg!ShortCircuit(e, c)
    BY ChainDomain
  <1>2. CASE e.jobs = <<>>
    <2>1. PICK s : s = Dg!ShortCircuit(e, c)
      OBVIOUS
    <2>2. s.rule # "none"
      BY <1>2, <2>1, ShortFacts DEF Decided
    <2>3. chain[1].rule # "none" /\ 1 \in 1 .. 17
      BY <1>1, <2>1, <2>2
    <2> QED BY <1>1, <2>3, FirstOfChain
  <1>3. CASE e.jobs # <<>>
    <2>1. PICK h : h = Dg!UnionHit(e, c)
      OBVIOUS
    <2>2. Agree(h, h) /\ h.category \in HitCategories
      BY <1>3, <2>1, HitFacts
    <2>3. PICK v : v = chain[17]
      OBVIOUS
    <2>4. v = Dg!Verdicts(e, c, h, code)[17] /\ 17 \in 2 .. 17
      BY <2>1, <2>3
    <2>5. v.rule # "none"
      BY <2>2, <2>4, ChainFacts
    <2>6. chain[17].rule # "none" /\ 17 \in 1 .. 17
      BY <2>3, <2>5
    <2> QED BY <1>1, <2>6, FirstOfChain
  <1> QED BY <1>2, <1>3

\* A diagnosis names a cause that the failed step names.
LEMMA DiagnosisNames ==
    ASSUME NEW e \in Evidence, NEW c, Decided(e, c), NEW code,
           NEW v, v = Dg!Diagnose(e, c, code), Dg!AnchorCategory(e) # "none"
    PROVE  v.category # "unknown" \/ v.short # "none" \/ v.rule \in {"R15", "R16"}
  <1>1. PICK chain : chain = Dg!Verdicts(e, c, Dg!UnionHit(e, c), code)
    OBVIOUS
  <1>2. PICK j \in 1 .. 17 : Dg!FirstVerdict(chain) = chain[j] /\ chain[j].rule # "none"
    BY <1>1, SomeRule DEF Decides
  <1>3. v = Dg!Display(Dg!RefineBlastRadius(e, chain[j]))
    BY <1>1, <1>2 DEF Dg!Diagnose
  <1>4. CASE j = 1
    <2>1. chain[j] = Dg!ShortCircuit(e, c)
      BY <1>1, <1>4, ChainDomain
    <2>2. IsVerdict(chain[j]) /\ (chain[j].category # "unknown" \/ chain[j].short # "none")
      BY <1>2, <2>1, ShortFacts
    <2>3. PICK s : s = chain[j]
      OBVIOUS
    <2>4. v = Dg!Display(Dg!RefineBlastRadius(e, s)) /\ IsVerdict(s)
      BY <1>3, <2>2, <2>3
    <2>5. Alike(v, s)
      BY <2>4, ShownFacts
    <2> QED BY <2>2, <2>3, <2>5 DEF Alike
  <1>5. CASE j \in 2 .. 17
    <2>1. PICK h : h = Dg!UnionHit(e, c)
      OBVIOUS
    <2>2. Agree(h, h) /\ h.category \in HitCategories
      BY <2>1, AnchorFacts, HitFacts
    <2>3. PICK s : s = chain[j]
      OBVIOUS
    <2>4. s = Dg!Verdicts(e, c, h, code)[j]
      BY <1>1, <2>1, <2>3
    <2>5. PlainVerdict(s) /\ Names(s)
      BY <1>5, <2>2, <2>4, ChainFacts
    <2>6. v = Dg!Display(Dg!RefineBlastRadius(e, s)) /\ IsVerdict(s)
      BY <1>3, <2>3, <2>5 DEF PlainVerdict
    <2>7. Alike(v, s)
      BY <2>6, ShownFacts
    <2> QED BY <1>2, <2>3, <2>5, <2>7 DEF Alike, Names
  <1>6. j = 1 \/ j \in 2 .. 17
    OBVIOUS
  <1> QED BY <1>4, <1>5, <1>6

\* The second diagnosis of a summary, over what the first one wrote.
LEMMA DiagnosisAgain ==
    ASSUME NEW e \in Evidence, NEW c, c = Dg!Built(e), NEW code, NEW again,
           NEW v, v = Dg!Diagnose(e, c, code), NEW d, d = Dg!Apply(c, v),
           NEW w, w = Dg!Diagnose(e, d, again)
    PROVE  /\ Alike(v, w)
           /\ v.analysis = w.analysis \/ (e.junit = "generic" /\ code # again)
  <1>1. DOMAIN c = CardFields /\ Decided(e, c)
    BY BuiltFacts DEF Decided
  <1>2. /\ Alike(d, v)
        /\ d.pattern = IF v.pattern = "none" THEN c.pattern ELSE v.pattern
    BY <1>1, ApplyFacts
  <1>3. PICK chain : chain = Dg!Verdicts(e, c, Dg!UnionHit(e, c), code)
    OBVIOUS
  <1>4. PICK next : next = Dg!Verdicts(e, d, Dg!UnionHit(e, d), again)
    OBVIOUS
  <1>5. PICK j \in 1 .. 17 : /\ Dg!FirstVerdict(chain) = chain[j] /\ chain[j].rule # "none"
                             /\ \A i \in 1 .. 17 : chain[i].rule # "none" => j <= i
    BY <1>1, <1>3, SomeRule DEF Decides
  <1>6. v = Dg!Display(Dg!RefineBlastRadius(e, chain[j]))
    BY <1>3, <1>5 DEF Dg!Diagnose
  <1>7. w = Dg!Display(Dg!RefineBlastRadius(e, Dg!FirstVerdict(next)))
    BY <1>4 DEF Dg!Diagnose
  <1>8. /\ chain[1] = Dg!ShortCircuit(e, c) /\ next[1] = Dg!ShortCircuit(e, d)
        /\ IsVerdict(chain[1]) /\ IsVerdict(next[1])
        /\ DOMAIN next = 1 .. 17
    BY <1>3, <1>4, ChainDomain, ShortFacts
  <1>9. CASE j = 1
    <2>1. Alike(v, chain[1]) /\ v.pattern = chain[1].pattern
      <3>1. PICK s : s = chain[1]
        OBVIOUS
      <3>2. IsVerdict(s)
        BY <1>8, <3>1
      <3>3. PICK shown : shown = Dg!Display(Dg!RefineBlastRadius(e, s))
        OBVIOUS
      <3>4. Alike(shown, s) /\ shown.pattern = s.pattern
        BY <3>2, <3>3, ShownFacts
      <3>5. v = shown
        BY <1>6, <1>9, <3>1, <3>3
      <3> QED BY <3>1, <3>4, <3>5
    <2>2. Alike(chain[1], next[1]) /\ chain[1].analysis = next[1].analysis
      <3>1. /\ d.short = chain[1].short /\ d.category = chain[1].category /\ d.side = chain[1].side
            /\ d.pattern = IF chain[1].pattern = "none" THEN c.pattern ELSE chain[1].pattern
        BY <1>2, <2>1 DEF Alike
      <3> QED BY <1>5, <1>8, <1>9, <3>1, ShortAgain
    <2>3. next[1].rule # "none"
      BY <1>5, <1>9, <2>2 DEF Alike
    <2>4. Dg!FirstVerdict(next) = next[1]
      <3>1. PICK i \in 1 .. 17 : /\ Dg!FirstVerdict(next) = next[i]
                                 /\ \A n \in 1 .. 17 : next[n].rule # "none" => i <= n
        <4>1. \E i : Decides(next, i)
          <5>1. DOMAIN next = 1 .. 17 /\ 1 \in 1 .. 17
            BY <1>8
          <5> QED BY <2>3, <5>1, FirstOfChain
        <4> QED BY <4>1 DEF Decides
      <3>2. i = 1
        BY <2>3, <3>1
      <3> QED BY <3>1, <3>2
    <2> QED BY <1>6, <1>7, <1>8, <1>9, <2>2, <2>4, ShownAlike
  <1>10. CASE j \in 2 .. 17
    <2>1. chain[1].rule = "none" /\ e.jobs # <<>>
      <3>1. chain[1].rule = "none"
        BY <1>5, <1>10
      <3>2. PICK s : s = Dg!ShortCircuit(e, c)
        OBVIOUS
      <3>3. c.short # "no_failed_jobs"
        BY <1>8, <3>1, <3>2, ShortFacts
      <3> QED BY <1>1, <3>1, <3>3 DEF Decided
    <2>2. ASSUME NEW i \in 2 .. 17
          PROVE  /\ Alike(chain[i], next[i]) /\ PlainVerdict(chain[i]) /\ PlainVerdict(next[i])
                 /\ chain[i].analysis = next[i].analysis \/ (e.junit = "generic" /\ code # again)
      <3>1. PICK h : h = Dg!UnionHit(e, c)
        OBVIOUS
      <3>2. PICK k : k = Dg!UnionHit(e, d)
        OBVIOUS
      <3>3. Agree(h, k) /\ h.category \in HitCategories
        BY <2>1, <3>1, <3>2, HitFacts
      <3>4. PICK s : s = chain[i]
        OBVIOUS
      <3>5. PICK t : t = next[i]
        OBVIOUS
      <3>6. s = Dg!Verdicts(e, c, h, code)[i] /\ t = Dg!Verdicts(e, d, k, again)[i]
        BY <1>3, <1>4, <3>1, <3>2, <3>4, <3>5
      <3>7. /\ Alike(s, t) /\ PlainVerdict(s) /\ PlainVerdict(t)
            /\ s.analysis = t.analysis \/ (e.junit = "generic" /\ code # again)
        BY <2>2, <3>3, <3>6, ChainFacts
      <3> QED BY <3>4, <3>5, <3>7
    <2>3. Alike(v, chain[j])
      BY <1>6, <1>10, <2>2, ShownFacts DEF PlainVerdict
    <2>4. next[1].rule = "none"
      <3>1. d.short = "none" /\ d.category # "infra_runner"
        BY <1>2, <1>10, <2>2, <2>3 DEF Alike, PlainVerdict
      <3> QED BY <1>8, <3>1, ShortFacts
    <2>5. \A i \in 1 .. 17 : next[i].rule = chain[i].rule
      <3>1. \A i \in 1 .. 17 : i = 1 \/ i \in 2 .. 17
        OBVIOUS
      <3> QED BY <2>1, <2>2, <2>4, <3>1 DEF Alike
    <2>6. Dg!FirstVerdict(next) = next[j]
      <3>1. PICK i \in 1 .. 17 : /\ Dg!FirstVerdict(next) = next[i] /\ next[i].rule # "none"
                                 /\ \A n \in 1 .. 17 : next[n].rule # "none" => i <= n
        <4>1. next[j].rule # "none"
          BY <1>5, <2>5
        <4> QED BY <1>5, <1>8, <4>1, FirstOfChain DEF Decides
      <3>2. i = j
        BY <1>5, <2>5, <3>1
      <3> QED BY <3>1, <3>2
    <2>7. /\ IsVerdict(chain[j]) /\ IsVerdict(next[j])
          /\ Alike(chain[j], next[j])
          /\ chain[j].analysis = next[j].analysis \/ (e.junit = "generic" /\ code # again)
      BY <1>10, <2>2 DEF PlainVerdict
    <2> QED BY <1>6, <1>7, <2>6, <2>7, ShownAlike
  <1>11. j = 1 \/ j \in 2 .. 17
    OBVIOUS
  <1> QED BY <1>9, <1>10, <1>11

-----------------------------------------------------------------------------
(* Diagnosis: the invariant.                                               *)

\* A cause that the failed step names is named.
Answered(e, c) ==
    Dg!AnchorCategory(e) # "none" =>
        c.category # "unknown" \/ c.short # "none" \/ c.rule \in {"R15", "R16"}

\* What the second diagnosis reads is what the first one wrote over the summary as built.
DgInv ==
    /\ evidence \in Evidence /\ phase \in {"collected", "diagnosed", "finished"}
    /\ phase = "collected" => card = Dg!Built(evidence) /\ hunks = FALSE
    /\ phase = "diagnosed" =>
          /\ card = Dg!Apply(Dg!Built(evidence), Dg!Diagnose(evidence, Dg!Built(evidence), FALSE))
          /\ hunks = FALSE
    /\ phase # "collected" => Answered(evidence, card)

LEMMA DgInitHolds == ASSUME Dg!Init PROVE DgInv
  BY DEF Dg!Init, DgInv

\* What is written by a diagnosis, first or second.
LEMMA AppliedAnswers ==
    ASSUME NEW e \in Evidence, NEW c, DOMAIN c = CardFields, Decided(e, c),
           NEW code, NEW d, d = Dg!Apply(c, Dg!Diagnose(e, c, code))
    PROVE  Answered(e, d)
  <1>1. PICK v : v = Dg!Diagnose(e, c, code)
    OBVIOUS
  <1>2. Alike(d, v)
    BY <1>1, ApplyFacts
  <1>3. Answered(e, v)
    BY <1>1, DiagnosisNames DEF Answered
  <1> QED BY <1>2, <1>3 DEF Answered, Alike

\* A summary without failed jobs stays one.
LEMMA FirstDiagnosis ==
    ASSUME NEW e \in Evidence, NEW d, d = Dg!Apply(Dg!Built(e), Dg!Diagnose(e, Dg!Built(e), FALSE))
    PROVE  /\ DOMAIN d = CardFields /\ Decided(e, d)
           /\ Answered(e, d)
  <1>1. PICK c : c = Dg!Built(e)
    OBVIOUS
  <1>2. PICK v : v = Dg!Diagnose(e, c, FALSE)
    OBVIOUS
  <1>3. DOMAIN c = CardFields /\ Decided(e, c)
    BY <1>1, BuiltFacts DEF Decided
  <1>4. DOMAIN d = CardFields /\ Alike(d, v)
    BY <1>1, <1>2, <1>3, ApplyFacts
  <1>5. ASSUME e.jobs = <<>> PROVE v.short = "no_failed_jobs"
    <2> DEFINE code == FALSE
    <2>1. PICK chain : chain = Dg!Verdicts(e, c, Dg!UnionHit(e, c), code)
      OBVIOUS
    <2> HIDE DEF code
    <2>2. PICK j \in 1 .. 17 : /\ Dg!FirstVerdict(chain) = chain[j]
                               /\ \A i \in 1 .. 17 : chain[i].rule # "none" => j <= i
      BY <1>3, <2>1, SomeRule DEF Decides
    <2>3. chain[1] = Dg!ShortCircuit(e, c) /\ c.short = "no_failed_jobs"
      BY <1>3, <1>5, <2>1, ChainDomain DEF Decided
    <2>4. chain[1].rule # "none" /\ chain[1].short = "no_failed_jobs" /\ IsVerdict(chain[1])
      BY <2>3 DEF Dg!ShortCircuit, Dg!Verdict, Dg!NoVerdict, IsVerdict
    <2>5. j = 1
      BY <2>2, <2>4
    <2>6. v = Dg!Display(Dg!RefineBlastRadius(e, chain[1]))
      BY <1>2, <2>1, <2>2, <2>5 DEF Dg!Diagnose, code
    <2>7. PICK s : s = chain[1]
      OBVIOUS
    <2>8. IsVerdict(s) /\ v = Dg!Display(Dg!RefineBlastRadius(e, s))
      BY <2>4, <2>6, <2>7
    <2>9. Alike(v, s)
      BY <2>8, ShownFacts
    <2> QED BY <2>4, <2>7, <2>9 DEF Alike
  <1>6. Answered(e, d)
    BY <1>1, <1>3, AppliedAnswers
  <1> QED BY <1>4, <1>5, <1>6 DEF Alike, Decided

\* A step after the first diagnosis.
SameCause == /\ card'.rule = card.rule /\ card'.category = card.category
             /\ card'.short = card.short /\ card'.side = card.side
             /\ card'.analysis # card.analysis => hunks' /\ evidence.junit = "generic"

LEMMA SecondDiagnosis ==
    ASSUME DgInv, phase = "diagnosed", hunks' \in BOOLEAN,
           card' = Dg!Apply(card, Dg!Diagnose(evidence, card, hunks'))
    PROVE  SameCause /\ Answered(evidence, card')
  <1>1. PICK c : c = Dg!Built(evidence)
    OBVIOUS
  <1>2. PICK v : v = Dg!Diagnose(evidence, c, FALSE)
    OBVIOUS
  <1>3. PICK w : w = Dg!Diagnose(evidence, card, hunks')
    OBVIOUS
  <1>4. evidence \in Evidence /\ card = Dg!Apply(c, v)
    BY <1>1, <1>2 DEF DgInv
  <1>5. DOMAIN card = CardFields /\ Decided(evidence, card) /\ DOMAIN c = CardFields
    BY <1>1, <1>2, <1>4, FirstDiagnosis, BuiltFacts
  <1>6. Alike(card, v) /\ card.analysis = v.analysis
    BY <1>4, <1>5, ApplyFacts
  <1>7. Alike(card', w) /\ card'.analysis = w.analysis
    BY <1>3, <1>5, ApplyFacts
  <1>8. Alike(v, w) /\ (v.analysis = w.analysis \/ (evidence.junit = "generic" /\ FALSE # hunks'))
    <2>1. PICK e : e = evidence
      OBVIOUS
    <2>2. PICK d : d = card
      OBVIOUS
    <2>3. PICK again : again = hunks'
      OBVIOUS
    <2> DEFINE code == FALSE
    <2>4. /\ e \in Evidence /\ c = Dg!Built(e) /\ v = Dg!Diagnose(e, c, code)
          /\ d = Dg!Apply(c, v) /\ w = Dg!Diagnose(e, d, again)
      BY <1>1, <1>2, <1>3, <1>4, <2>1, <2>2, <2>3
    <2> HIDE DEF code
    <2>5. Alike(v, w) /\ (v.analysis = w.analysis \/ (e.junit = "generic" /\ code # again))
      BY ONLY <2>4, DiagnosisAgain
    <2> QED BY <2>1, <2>3, <2>5 DEF code
  <1>9. Answered(evidence, card')
    BY <1>4, <1>5, AppliedAnswers
  <1> QED BY <1>6, <1>7, <1>8, <1>9 DEF Alike, SameCause

LEMMA DgNextKeeps ==
    ASSUME DgInv, Dg!Next
    PROVE  DgInv' /\ (phase = "diagnosed" => SameCause)
  <1>1. CASE Dg!DiagnoseSummary
    <2>1. /\ evidence \in Evidence /\ evidence' = evidence /\ hunks' = FALSE
          /\ phase = "collected" /\ phase' = "diagnosed"
          /\ card' = Dg!Apply(Dg!Built(evidence), Dg!Diagnose(evidence, Dg!Built(evidence), FALSE))
      BY <1>1 DEF DgInv, Dg!DiagnoseSummary
    <2>2. Answered(evidence, card')
      BY <2>1, FirstDiagnosis
    <2> QED BY <2>1, <2>2 DEF DgInv, Answered
  <1>2. ASSUME phase = "diagnosed", phase' = "finished", evidence' = evidence,
               SameCause, Answered(evidence, card')
        PROVE  DgInv'
    BY <1>2 DEF DgInv, Answered
  <1>3. CASE Dg!SkipSource
    <2>1. /\ phase = "diagnosed" /\ phase' = "finished" /\ evidence' = evidence /\ hunks' = FALSE
          /\ card' = Dg!Apply(card, Dg!Diagnose(evidence, card, hunks'))
      BY <1>3 DEF DgInv, Dg!SkipSource
    <2>2. SameCause /\ Answered(evidence, card')
      BY <2>1, SecondDiagnosis
    <2> QED BY <1>2, <2>1, <2>2
  <1>4. ASSUME phase = "diagnosed", card' = card PROVE SameCause /\ Answered(evidence, card')
    BY <1>4 DEF SameCause, DgInv
  <1>5. CASE Dg!NoSource
    <2>1. phase = "diagnosed" /\ phase' = "finished" /\ evidence' = evidence /\ card' = card
      BY <1>5 DEF Dg!NoSource
    <2> QED BY <1>2, <1>4, <2>1
  <1>6. ASSUME NEW failed \in BOOLEAN, Dg!FetchSource(failed)
        PROVE  DgInv' /\ (phase = "diagnosed" => SameCause)
    <2>1. /\ phase = "diagnosed" /\ phase' = "finished" /\ evidence' = evidence /\ hunks' \in BOOLEAN
          /\ card' = card \/ card' = Dg!Apply(card, Dg!Diagnose(evidence, card, hunks'))
      BY <1>6 DEF Dg!FetchSource
    <2>2. SameCause /\ Answered(evidence, card')
      BY <1>4, <2>1, SecondDiagnosis
    <2> QED BY <1>2, <2>1, <2>2
  <1> QED BY <1>1, <1>3, <1>5, <1>6 DEF Dg!Next

LEMMA DiagnosisInvariant == CollectorSpec => [](part = "diagnosis" => DgInv)
  <1> DEFINE I == part = "diagnosis" => DgInv
  <1>1. CollectorInit => I
    BY DgInitHolds DEF CollectorInit
  <1>2. ASSUME I, [CollectorNext]_allVars PROVE I'
    <2>1. CASE part = "diagnosis" /\ Dg!Next /\ part' = part
      BY <1>2, <2>1, DgNextKeeps
    <2>2. CASE UNCHANGED <<part, diagnosisVars>>
      BY <1>2, <2>2 DEF diagnosisVars, DgInv, Answered
    <2>3. CASE part # "diagnosis" /\ part' = part
      BY <2>3
    <2> QED BY <1>2, <2>1, <2>2, <2>3 DEF CollectorNext, allVars
  <1> QED BY <1>1, <1>2, PTL DEF CollectorSpec, allVars

\* A step of the diagnosis is a second diagnosis or none of a summary that has one.
LEMMA DiagnosisSteps ==
    ASSUME part = "diagnosis" => DgInv, [CollectorNext]_allVars
    PROVE  [phase = "diagnosed" => SameCause]_(Dg!vars)
  <1>1. CASE part = "diagnosis" /\ Dg!Next
    BY <1>1, DgNextKeeps
  <1>2. CASE UNCHANGED diagnosisVars
    BY <1>2 DEF diagnosisVars, Dg!vars
  <1> QED BY <1>1, <1>2 DEF CollectorNext, allVars

-----------------------------------------------------------------------------
(* The theorems.                                                           *)

LEMMA CollectionInvariant == CollectorSpec => [](part = "collection" => CoInv)
  <1> DEFINE I == part = "collection" => CoInv
  <1>1. CollectorInit => I
    BY CoInitHolds DEF CollectorInit
  <1>2. ASSUME I, [CollectorNext]_allVars PROVE I'
    <2>1. CASE part = "collection" /\ Co!Next /\ part' = part
      BY <1>2, <2>1, CoNextKeeps
    <2>2. CASE UNCHANGED <<part, collectionVars>>
      BY <1>2, <2>2 DEF collectionVars, CoInv, GreenLast, Spent, OneReading, AskedGreen
    <2>3. CASE part # "collection" /\ part' = part
      BY <2>3
    <2> QED BY <1>2, <2>1, <2>2, <2>3 DEF CollectorNext, allVars
  <1> QED BY <1>1, <1>2, PTL DEF CollectorSpec, allVars

LEMMA BranchInvariant == CollectorSpec => [](part = "branch" => BrInv)
  <1> DEFINE I == part = "branch" => BrInv
  <1>1. CollectorInit => I
    BY BrInitHolds DEF CollectorInit
  <1>2. ASSUME I, [CollectorNext]_allVars PROVE I'
    <2>1. CASE part = "branch" /\ Br!Next /\ part' = part
      BY <1>2, <2>1, BrNextKeeps
    <2>2. CASE UNCHANGED <<part, branchVars>>
      BY <1>2, <2>2 DEF branchVars, BrInv
    <2>3. CASE part # "branch" /\ part' = part
      BY <2>3
    <2> QED BY <1>2, <2>1, <2>2, <2>3 DEF CollectorNext, allVars
  <1> QED BY <1>1, <1>2, PTL DEF CollectorSpec, allVars

\* Once the client has said that the hourly budget is below the floor, a bounded
\* number of further optional requests is made: the rest of the listing that is
\* under way (github_api.py, list_jobs and list_artifacts), and the attempts at four
\* more calls, or at one fewer than the cap on pipeline zips if that is more: the
\* history, the pull request, the compare and the artifacts on the one reading of
\* the budget (cli.py, _fetch_live), and the zips of the last green run, which
\* nothing but the cap ends (cli.py, _collect_artifacts_live).
THEOREM SpentBudgetsStop == CollectorSpec => []OverrunIsBounded
  <1>1. (part = "collection" => CoInv) => OverrunIsBounded
    BY SpentIsBounded DEF OverrunIsBounded, Co!OverrunIsBounded, Bound, Listing
  <1> QED BY <1>1, CollectionInvariant, PTL

\* default_branch_state (deliver/targets.py) counts only runs since the last
\* green one before the delivered failure, all of them when the page of
\* RUN_WALK_CAP runs reaches back that far, and names that green commit.
THEOREM StreaksBeginAfterGreen == CollectorSpec => []StreakIsSinceGreen
  <1>1. (part = "branch" => BrInv) => StreakIsSinceGreen
    BY StreakHolds DEF StreakIsSinceGreen
  <1> QED BY <1>1, BranchInvariant, PTL

\* narrow_first_failing (history.py) names a commit that failed and has a green
\* one before it with no failed one in between, when every run up to it has
\* passed or failed and the list of commits is of those after the green commit
\* named or, without a list, runs concluded in the order they were created.
THEOREM BlamedCommitsFailed == CollectorSpec => []FirstFailingIsFirst
  <1>1. (part = "branch" => BrInv) => FirstFailingIsFirst
    BY FirstFailingHolds DEF FirstFailingIsFirst
  <1> QED BY <1>1, BranchInvariant, PTL

\* A terminal cause in the failed step's own lines that maps to a category is named
\* on the card, unless the history answered or a short circuit did, whatever the
\* evidence (tools/rca/diagnose.py, _gap_fill).
THEOREM TerminalCausesAreNamed == CollectorSpec => []TerminalIsNamed
  <1>1. (part = "diagnosis" => DgInv) => TerminalIsNamed
    BY DEF TerminalIsNamed, Dg!TerminalIsNamed, DgInv, Answered
  <1> QED BY <1>1, DiagnosisInvariant, PTL

\* The second diagnosis of a summary, over the first one's verdict, names the same
\* cause, and asks otherwise for analysis only over a generic assertion with source
\* at hand (tools/rca/diagnose.py, apply_verdict; cli.py, _maybe_fetch_code_context).
THEOREM SecondDiagnosisAgrees == CollectorSpec => DiagnosisIsStable
  <1>1. (part = "diagnosis" => DgInv) /\ [CollectorNext]_allVars
           => [phase = "diagnosed" => SameCause]_(Dg!vars)
    BY DiagnosisSteps
  <1> QED BY <1>1, DiagnosisInvariant, PTL
    DEF CollectorSpec, DiagnosisIsStable, Dg!DiagnosisIsStable, SameCause, allVars
=============================================================================
