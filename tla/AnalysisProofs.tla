--------------------------- MODULE AnalysisProofs ---------------------------
(***************************************************************************)
(* Proofs about the part "analysis" of the collector: for all failures,    *)
(* answers of the model, long quotes and numbers of analyses.              *)
(***************************************************************************)
EXTENDS MCCollector, FiniteSetTheorems, TLAPS

allVars == <<part, memoryVars, branchVars, analysisVars, diagnosisVars, collectionVars>>

Statuses == {"ok", "cached", "skipped", "failed", "unvalidated"}
Cards    == [status : Statuses, result : An!Results \union {None}, asked : Summaries \union {None}]

-----------------------------------------------------------------------------
(* The inductive invariant.                                                *)

\* What the published card has to be of a short-circuited failure; it follows
\* from the answers only if none that blames the code names a source.
InfraGood(s, result) ==
    An!NoSourceClaimed =>
        ((s.short \in An!Short /\ result.side = "code") =>
            result.source # "ai" /\ An!CollectorSays(s, "code"))

\* A result on its way to the choice of the card: whatever the model said, or
\* the collector's card in its place.
Raw(s, result) ==
    /\ result \in An!Results
    /\ IsFiniteSet(result.citations)
    /\ result.source \in An!Sources => InfraGood(s, result)

\* A record after the choice of the card, for failure s: finalising it again
\* changes its confidence at most.
Final(s, rec) ==
    /\ rec \in Cards
    /\ rec.result \in An!Results
    /\ An!Decided(rec.result)
    /\ InfraGood(s, rec.result)
    /\ An!CitesEvidence(rec)
    /\ rec.status \in {"ok", "cached"} =>
          /\ rec.asked \in Summaries
          /\ rec.asked.key = s.key
          /\ ~(rec.result.source = "ai" /\ An!Contradicts(s, rec.result))

\* What the sub-command holds at each of its steps.
PcOK == pc \in {"idle", "lookup", "ask", "repair", "gate", "focus", "finish", "write"}

HeldOK ==
    /\ pc # "idle" => summary \in Summaries
    /\ pc \in {"lookup", "ask", "repair", "gate", "focus", "finish"} =>
          /\ record \in Cards
          /\ record.asked = summary
          /\ record.status \in {"ok", "failed", "unvalidated"}
          /\ record.result # None => Raw(summary, record.result)
    /\ pc \in {"repair", "gate", "focus"} => record.result # None
    /\ pc = "write" => Final(summary, record)

CacheOK ==
    /\ cache \in [An!Keys -> Cards \union {None}]
    /\ \A k \in An!Keys : cache[k] # None =>
          /\ cache[k].status = "ok"
          /\ cache[k].asked.key = k
          /\ Final(cache[k].asked, cache[k])

\* The requests so far, by what is asked next.
PostsOK ==
    /\ posts \in Nat
    /\ posts <= 8
    /\ persona \in An!Personas
    /\ pc = "lookup" => posts = 0
    /\ pc = "ask"    => posts <= 2 * (persona - 1)
    /\ pc = "repair" => posts <= 2 * persona
    /\ pc \in {"gate", "focus"} => posts <= 6
    /\ (pc = "write" /\ record.status \in {"skipped", "cached"}) => posts = 0

PublishedOK ==
    published # None =>
        /\ published.summary \in Summaries
        /\ Final(published.summary, published.record)
        /\ published.record.result.confidence = "high" =>
              An!Grounded(published.record.result, published.summary)
        /\ published.record.status \in {"skipped", "cached"} => published.posts = 0

Inv  == PcOK /\ HeldOK /\ CacheOK /\ PostsOK /\ PublishedOK
IInv == part = "analysis" => Inv

-----------------------------------------------------------------------------
(* The operators of the choice of the card.                                *)

\* Analysis has the operators of FiniteSets under names of its own.
LEMMA SameFinite == \A S : An!IsFiniteSet(S) <=> IsFiniteSet(S)
  BY DEF IsFiniteSet, An!IsFiniteSet

LEMMA SameCardinality == \A S : An!Cardinality(S) = Cardinality(S)
  BY SameFinite DEF Cardinality, An!Cardinality

LEMMA InputFacts ==
    /\ None \notin An!Results /\ None \notin An!Sources /\ None # "code"
    /\ \A a \in Answers : a \in An!Results /\ IsFiniteSet(a.citations)
    /\ \A s \in Summaries : s.det \in An!Results /\ s.det.root /\ s.det.fix /\ IsFiniteSet(s.det.citations)
    /\ \A s, t \in Summaries : s.key = t.key => s.short = t.short
  BY AnalysisAssumption, SameFinite DEF An!WellFormedInputs

LEMMA CardFacts ==
    ASSUME NEW s \in Summaries, NEW source \in An!Sources
    PROVE  LET c == An!Card(s, source) IN
           /\ c \in An!Results
           /\ c.root /\ c.fix /\ c.source = source
           /\ c.side = s.det.side /\ c.citations = s.det.citations
           /\ IsFiniteSet(c.citations)
           /\ c.source # "ai" => InfraGood(s, c)
           /\ An!Decided(c)
  <1>1. s.det \in An!Results /\ s.det.root /\ s.det.fix /\ IsFiniteSet(s.det.citations) /\ None \notin An!Results
    BY InputFacts
  <1> DEFINE c == An!Card(s, source)
  <1>2. /\ c \in An!Results /\ c.root /\ c.fix /\ c.source = source
        /\ c.side = s.det.side /\ c.citations = s.det.citations
    BY <1>1 DEF An!Card, An!Results
  <1>3. c.source # "ai" => InfraGood(s, c)
    BY <1>2 DEF InfraGood, An!CollectorSays
  <1>4. An!Decided(c)
    BY <1>1, <1>2 DEF An!Decided, An!Whole
  <1> QED BY <1>1, <1>2, <1>3, <1>4

LEMMA ProseFacts ==
    /\ An!Prose \in An!Results
    /\ IsFiniteSet(An!Prose.citations)
    /\ An!Prose.side = None /\ An!Prose.source = None
  BY FS_EmptySet DEF An!Prose, An!Results

\* A completion, interpreted, is no claim of the collector.
LEMMA InterpretFacts ==
    ASSUME NEW s \in Summaries, NEW reply \in An!Replies, NEW given
    PROVE  Raw(s, An!Interpret(reply, given).result)
  <1>0. reply.answer \in Answers \/ reply.answer = An!Prose
    BY DEF An!Replies
  <1>1. reply.answer \in An!Results /\ IsFiniteSet(reply.answer.citations)
    BY <1>0, InputFacts, ProseFacts
  <1>2. An!NoSourceClaimed => (reply.answer.source \in An!Sources => reply.answer.side # "code")
    <2>1. CASE reply.answer \in Answers
      BY <2>1, InputFacts DEF An!NoSourceClaimed
    <2>2. CASE reply.answer = An!Prose
      BY <2>2, InputFacts, ProseFacts
    <2> QED BY <1>0, <2>1, <2>2
  <1> DEFINE result == An!Interpret(reply, given).result
  <1>3. /\ result \in An!Results /\ result.citations = reply.answer.citations
        /\ result.side = reply.answer.side /\ result.source = reply.answer.source
    BY <1>1 DEF An!Interpret, An!Results
  <1> HIDE DEF result
  <1>4. result \in An!Results /\ IsFiniteSet(result.citations)
    BY <1>1, <1>3
  <1>5. result.source \in An!Sources => InfraGood(s, result)
    BY <1>2, <1>3 DEF InfraGood
  <1>6. Raw(s, result)
    BY <1>4, <1>5 DEF Raw
  <1> QED BY <1>6 DEF result

\* The choice of the card at the end of an analysis.
Chosen(s, rec) ==
    /\ rec \in Cards
    /\ rec.status \in {"ok", "failed", "unvalidated"}
    /\ rec.result \in An!Results
    /\ IsFiniteSet(rec.result.citations)
    /\ An!Decided(rec.result)
    /\ InfraGood(s, rec.result)
    /\ rec.status = "ok" => ~(rec.result.source = "ai" /\ An!Contradicts(s, rec.result))

LEMMA WithResult ==
    ASSUME NEW rec \in Cards, NEW x \in An!Results
    PROVE  LET r == [rec EXCEPT !.result = x] IN
           r \in Cards /\ r.result = x /\ r.status = rec.status /\ r.asked = rec.asked
  BY DEF Cards

LEMMA FilledInFacts ==
    ASSUME NEW s \in Summaries, NEW result \in An!Results, IsFiniteSet(result.citations), result.root
    PROVE  LET f == An!FilledIn(s, result) IN
           /\ f \in An!Results /\ IsFiniteSet(f.citations)
           /\ f.side = result.side
           /\ An!Decided(f)
  <1>1. s.det \in An!Results /\ IsFiniteSet(s.det.citations) /\ None \notin An!Results
    BY InputFacts
  <1> DEFINE source == IF result.rule \/ ~result.fix THEN "mixed" ELSE "ai"
             cites  == IF result.citations = {} THEN s.det.citations ELSE result.citations
             f      == [result EXCEPT !.source = source, !.fix = TRUE, !.citations = cites, !.rule = TRUE]
  <1>2. An!FilledIn(s, result) = f
    BY DEF An!FilledIn
  <1>3. source \in {"mixed", "ai"} /\ cites \in SUBSET An!Quotes /\ IsFiniteSet(cites)
    BY <1>1 DEF An!Results
  <1> HIDE DEF source, cites
  <1>4. f \in An!Results /\ f.side = result.side /\ f.root = result.root /\ f.fix = TRUE
        /\ f.source = source /\ f.citations = cites
    BY <1>3 DEF An!Results, An!Sources
  <1> HIDE DEF f
  <1>5. An!Decided(f)
    BY <1>1, <1>3, <1>4 DEF An!Decided, An!Whole, An!Sources
  <1> QED BY <1>2, <1>3, <1>4, <1>5

LEMMA FinalizedFacts ==
    ASSUME NEW s \in Summaries, NEW rec \in Cards,
           rec.status \in {"ok", "failed", "unvalidated"},
           rec.result # None => Raw(s, rec.result)
    PROVE  Chosen(s, An!Finalized(s, rec)) /\ An!Finalized(s, rec).asked = rec.asked
  <1> DEFINE f == An!Finalized(s, rec)
  <1>1. /\ rec.status # "skipped"
        /\ "mixed" \in An!Sources /\ "deterministic" \in An!Sources
    BY DEF An!Sources
  <1>2. ASSUME NEW source \in {"mixed", "deterministic"}, f = [rec EXCEPT !.result = An!Card(s, source)]
        PROVE  Chosen(s, f) /\ f.asked = rec.asked
    <2>1. source \in An!Sources /\ source # "ai"
      BY <1>2, <1>1
    <2>2. /\ An!Card(s, source) \in An!Results /\ IsFiniteSet(An!Card(s, source).citations)
          /\ An!Card(s, source).source # "ai" /\ InfraGood(s, An!Card(s, source))
          /\ An!Decided(An!Card(s, source))
      BY <2>1, CardFacts
    <2>3. f \in Cards /\ f.result = An!Card(s, source) /\ f.status = rec.status /\ f.asked = rec.asked
      BY <1>2, <2>2, WithResult
    <2> HIDE DEF f
    <2> QED BY <2>2, <2>3 DEF Chosen
  <1>3. CASE An!Decided(rec.result)
    <2>1. rec.result # None /\ Raw(s, rec.result) /\ rec.result.source \in An!Sources
      BY <1>3 DEF An!Decided, An!Whole
    <2>2. CASE rec.status \in {"ok", "cached"} /\ rec.result.source = "ai" /\ An!Contradicts(s, rec.result)
      <3>1. f = [rec EXCEPT !.result = An!Card(s, "mixed")]
        BY <1>1, <1>3, <2>2 DEF An!Finalized
      <3> QED BY <3>1, <1>2
    <2>3. CASE ~(rec.status \in {"ok", "cached"} /\ rec.result.source = "ai" /\ An!Contradicts(s, rec.result))
      <3>1. f = rec
        BY <1>1, <1>3, <2>3 DEF An!Finalized
      <3> QED BY <1>3, <2>1, <2>3, <3>1 DEF Chosen, Raw
    <2> QED BY <2>2, <2>3
  <1>4. CASE ~An!Decided(rec.result) /\ An!Usable(rec)
    <2>1. rec.result # None /\ Raw(s, rec.result) /\ rec.result.root
      BY <1>4 DEF An!Usable
    <2>2. CASE An!Contradicts(s, rec.result)
      <3>1. f = [rec EXCEPT !.result = An!Card(s, "mixed")]
        BY <1>1, <1>4, <2>2 DEF An!Finalized
      <3> QED BY <3>1, <1>2
    <2>3. CASE ~An!Contradicts(s, rec.result)
      <3>1. f = [rec EXCEPT !.result = An!FilledIn(s, rec.result)]
        BY <1>1, <1>4, <2>3 DEF An!Finalized
      <3>2. rec.result \in An!Results /\ IsFiniteSet(rec.result.citations)
        BY <2>1 DEF Raw
      <3> DEFINE g == An!FilledIn(s, rec.result)
      <3>3. /\ g \in An!Results /\ IsFiniteSet(g.citations)
            /\ g.side = rec.result.side /\ An!Decided(g)
        BY <2>1, <3>2, FilledInFacts
      <3>4. f \in Cards /\ f.result = g /\ f.status = rec.status /\ f.asked = rec.asked
        BY <3>1, <3>3, WithResult
      <3> HIDE DEF f, g
      <3>5. ~An!Contradicts(s, g) /\ InfraGood(s, g)
        BY <2>3, <3>3 DEF An!Contradicts, InfraGood
      <3>6. Chosen(s, f) /\ f.asked = rec.asked
        BY <2>1, <2>3, <3>3, <3>4, <3>5 DEF Chosen
      <3> QED BY <3>6 DEF f
    <2> QED BY <2>2, <2>3
  <1>5. CASE ~An!Decided(rec.result) /\ ~An!Usable(rec)
    <2>1. CASE An!TooWeak(s, rec.result)
      <3>1. f = [rec EXCEPT !.result = An!CannotDetermine, !.status = "unvalidated"]
        BY <1>1, <1>5, <2>1 DEF An!Finalized
      <3> DEFINE g == An!CannotDetermine
      <3>2. /\ g \in An!Results /\ IsFiniteSet(g.citations) /\ g.side = None
            /\ g.root /\ g.fix /\ g.source = "deterministic"
        BY FS_EmptySet DEF An!CannotDetermine, An!Prose, An!Results, An!Sources
      <3>3. f \in Cards /\ f.result = g /\ f.status = "unvalidated" /\ f.asked = rec.asked
        <4>1. "unvalidated" \in Statuses
          BY DEF Statuses
        <4>2. g \in An!Results /\ f = [rec EXCEPT !.result = g, !.status = "unvalidated"]
          BY <3>1, <3>2
        <4> HIDE DEF f, g
        <4> QED BY <4>1, <4>2 DEF Cards
      <3> HIDE DEF f, g
      <3>4. An!Decided(g)
        BY <1>1, <3>2, InputFacts DEF An!Decided, An!Whole
      <3>5. InfraGood(s, g)
        <4>1. ASSUME An!NoSourceClaimed, s.short \in An!Short, g.side = "code"
              PROVE  An!CollectorSays(s, "code")
          BY <4>1, <3>2, InputFacts
        <4> QED BY <4>1, <3>2 DEF InfraGood
      <3>6. Chosen(s, f) /\ f.asked = rec.asked
        BY <3>2, <3>3, <3>4, <3>5 DEF Chosen
      <3> QED BY <3>6 DEF f
    <2>2. CASE ~An!TooWeak(s, rec.result)
      <3>1. f = [rec EXCEPT !.result = An!Card(s, "deterministic")]
        BY <1>1, <1>5, <2>2 DEF An!Finalized
      <3> QED BY <3>1, <1>2
    <2> QED BY <2>1, <2>2
  <1> QED BY <1>3, <1>4, <1>5

LEMMA StampedFacts ==
    ASSUME NEW s, NEW rec \in Cards, rec.result \in An!Results
    PROVE  LET t == An!Stamped(s, rec) IN
           /\ t \in Cards /\ t.status = rec.status /\ t.asked = rec.asked
           /\ t.result \in An!Results
           /\ t.result.root = rec.result.root /\ t.result.fix = rec.result.fix
           /\ t.result.citations = rec.result.citations
           /\ t.result.side = rec.result.side /\ t.result.source = rec.result.source
           /\ t.result.confidence = "high" => An!Grounded(t.result, s)
  <1> DEFINE conf == IF ~An!Grounded(rec.result, s) /\ rec.result.confidence = "high"
                     THEN "medium" ELSE rec.result.confidence
             x    == [rec.result EXCEPT !.confidence = conf]
             t    == [rec EXCEPT !.result = x]
  <1>1. An!Stamped(s, rec) = t
    BY DEF An!Stamped
  <1>2. /\ conf \in {"high", "medium", "low"}
        /\ conf = "high" => An!Grounded(rec.result, s)
    BY DEF An!Results
  <1> HIDE DEF conf
  <1>3. /\ x \in An!Results /\ x.root = rec.result.root /\ x.fix = rec.result.fix
        /\ x.citations = rec.result.citations
        /\ x.side = rec.result.side /\ x.source = rec.result.source /\ x.confidence = conf
    BY <1>2 DEF An!Results
  <1> HIDE DEF x
  <1>4. t \in Cards /\ t.result = x /\ t.status = rec.status /\ t.asked = rec.asked
    BY <1>3, WithResult
  <1>5. x.confidence = "high" => An!Grounded(x, s)
    BY <1>2, <1>3 DEF An!Grounded
  <1> HIDE DEF t
  <1> QED BY <1>1, <1>3, <1>4, <1>5

\* Only side, source and being complete matter to what a card may say.
LEMMA SameSaid ==
    ASSUME NEW s, NEW a \in An!Results, NEW b \in An!Results,
           a.root = b.root, a.fix = b.fix, a.side = b.side, a.source = b.source
    PROVE  /\ An!Decided(a) => An!Decided(b)
           /\ InfraGood(s, a) => InfraGood(s, b)
           /\ An!Contradicts(s, b) => An!Contradicts(s, a)
  BY InputFacts DEF An!Decided, An!Whole, InfraGood, An!Contradicts

LEMMA UserCardFacts ==
    ASSUME NEW s \in Summaries, NEW rec \in Cards,
           rec.status \in {"ok", "failed", "unvalidated"},
           rec.result # None => Raw(s, rec.result)
    PROVE  Chosen(s, An!UserCard(s, rec)) /\ An!UserCard(s, rec).asked = rec.asked
  <1> DEFINE f == An!Finalized(s, rec)
             t == An!Stamped(s, f)
  <1>1. Chosen(s, f) /\ f.asked = rec.asked
    BY FinalizedFacts
  <1>2. An!UserCard(s, rec) = t
    BY DEF An!UserCard
  <1> HIDE DEF f
  <1>3. f \in Cards /\ f.result \in An!Results
    BY <1>1 DEF Chosen
  <1>4. /\ t \in Cards /\ t.status = f.status /\ t.asked = f.asked
        /\ t.result \in An!Results
        /\ t.result.root = f.result.root /\ t.result.fix = f.result.fix
        /\ t.result.citations = f.result.citations
        /\ t.result.side = f.result.side /\ t.result.source = f.result.source
    BY <1>3, StampedFacts
  <1> HIDE DEF t
  <1>5. /\ An!Decided(t.result)
        /\ InfraGood(s, t.result)
        /\ An!Contradicts(s, t.result) => An!Contradicts(s, f.result)
    BY <1>1, <1>3, <1>4, SameSaid DEF Chosen
  <1> QED BY <1>1, <1>2, <1>4, <1>5 DEF Chosen

LEMMA ValidatedFacts ==
    ASSUME NEW s \in Summaries, NEW rec, Chosen(s, rec), rec.asked = s
    PROVE  /\ Final(s, An!Validated(s, rec))
           /\ An!Validated(s, rec).asked = s
           /\ An!Validated(s, rec).status \in {"ok", "failed", "unvalidated"}
  <1> DEFINE cites  == rec.result.citations
             proven == cites \intersect s.evidence
             v      == An!Validated(s, rec)
  <1>1. /\ rec \in Cards /\ rec.result \in An!Results /\ IsFiniteSet(cites)
        /\ An!Decided(rec.result) /\ InfraGood(s, rec.result)
        /\ rec.status \in {"ok", "failed", "unvalidated"}
        /\ rec.status = "ok" => ~(rec.result.source = "ai" /\ An!Contradicts(s, rec.result))
    BY DEF Chosen
  <1>2. cites \in SUBSET An!Quotes /\ An!ModelSources = {"ai", "hybrid", "mixed"}
    BY <1>1 DEF An!Results, An!ModelSources
  <1>3. CASE rec.result.source \notin {"ai", "hybrid", "mixed"}
    <2>1. v = rec
      BY <1>3 DEF An!Validated
    <2>2. An!CitesEvidence(rec)
      BY <1>2, <1>3 DEF An!CitesEvidence
    <2> QED BY <1>1, <2>1, <2>2 DEF Final
  <1>4. CASE rec.result.source \in {"ai", "hybrid", "mixed"} /\ cites # {} /\ proven = cites
    <2>1. v = rec
      BY <1>4 DEF An!Validated
    <2>2. An!CitesEvidence(rec)
      BY <1>4 DEF An!CitesEvidence
    <2> QED BY <1>1, <2>1, <2>2 DEF Final
  <1>5. CASE /\ rec.result.source \in {"ai", "hybrid", "mixed"} /\ proven # cites
             /\ 2 * An!Cardinality(proven) >= An!Cardinality(cites)
    <2> DEFINE kept == proven \union (cites \intersect LongQuotes)
               x    == [rec.result EXCEPT !.citations = kept]
               w    == [rec EXCEPT !.result = x]
    <2>1. v = w
      BY <1>5 DEF An!Validated
    <2>2. kept # {}
      <3>1. /\ cites # {} /\ IsFiniteSet(cites)
            /\ 2 * Cardinality(proven) >= Cardinality(cites)
        BY <1>1, <1>5, SameCardinality
      <3>2. Cardinality(cites) \in Nat /\ Cardinality(cites) # 0
        BY <3>1, FS_EmptySet, FS_CardinalityType
      <3>3. proven = {} => Cardinality(proven) = 0
        BY FS_EmptySet
      <3> HIDE DEF proven, cites
      <3>4. proven # {}
        BY <3>1, <3>2, <3>3
      <3> QED BY <3>4
    <2>3. kept \subseteq s.evidence \union LongQuotes /\ kept \in SUBSET An!Quotes
      BY <1>2
    <2> HIDE DEF kept
    <2>4. /\ x \in An!Results /\ x.root = rec.result.root /\ x.fix = rec.result.fix
          /\ x.side = rec.result.side /\ x.source = rec.result.source /\ x.citations = kept
      BY <1>1, <2>3 DEF An!Results
    <2> HIDE DEF x
    <2>5. w \in Cards /\ w.result = x /\ w.status = rec.status /\ w.asked = s
      BY <1>1, <2>4, WithResult
    <2>6. /\ An!Decided(x) /\ InfraGood(s, x)
          /\ An!Contradicts(s, x) => An!Contradicts(s, rec.result)
      BY <1>1, <2>4, SameSaid
    <2> HIDE DEF w
    <2>7. An!CitesEvidence(w)
      BY <2>2, <2>3, <2>4, <2>5 DEF An!CitesEvidence
    <2>8. Final(s, w)
      BY <1>1, <2>4, <2>5, <2>6, <2>7 DEF Final
    <2> QED BY <1>1, <2>1, <2>5, <2>8
  <1>6. CASE ~(\/ rec.result.source \notin {"ai", "hybrid", "mixed"}
               \/ rec.result.source \in {"ai", "hybrid", "mixed"} /\ cites # {} /\ proven = cites
               \/ /\ rec.result.source \in {"ai", "hybrid", "mixed"} /\ proven # cites
                  /\ 2 * An!Cardinality(proven) >= An!Cardinality(cites))
    <2> DEFINE c == An!Card(s, "deterministic")
               w == [rec EXCEPT !.result = c, !.status = "unvalidated"]
    <2>1. v = w
      BY <1>6 DEF An!Validated
    <2>2. c \in An!Results /\ An!Decided(c) /\ c.source # "ai" /\ InfraGood(s, c)
      <3>1. "deterministic" \in An!Sources
        BY DEF An!Sources
      <3> QED BY <3>1, CardFacts
    <2> HIDE DEF c
    <2>3. w \in Cards /\ w.result = c /\ w.status = "unvalidated" /\ w.asked = s
      BY <1>1, <2>2 DEF Cards, Statuses
    <2> HIDE DEF w
    <2>4. Final(s, w)
      BY <2>2, <2>3 DEF Final, An!CitesEvidence
    <2> QED BY <2>1, <2>3, <2>4
  <1> QED BY <1>3, <1>4, <1>5, <1>6

\* write_analysis: a final card is only stamped once more.
LEMMA WrittenFacts ==
    ASSUME NEW s \in Summaries, NEW rec, Final(s, rec)
    PROVE  LET w == An!Written(s, rec) IN
           /\ Final(s, w) /\ w.status = rec.status
           /\ w.result.confidence = "high" => An!Grounded(w.result, s)
  <1>1. /\ rec \in Cards /\ rec.result \in An!Results
        /\ An!Decided(rec.result) /\ An!Whole(rec.result)
        /\ InfraGood(s, rec.result) /\ An!CitesEvidence(rec)
        /\ rec.status \in {"ok", "cached"} =>
              /\ rec.asked \in Summaries /\ rec.asked.key = s.key
              /\ ~(rec.result.source = "ai" /\ An!Contradicts(s, rec.result))
    BY DEF Final, An!Decided
  <1>2. An!Finalized(s, rec) = rec
    <2>1. CASE rec.status = "skipped"
      <3>1. An!Finalized(s, rec) = [rec EXCEPT !.result = rec.result]
        BY <1>1, <2>1 DEF An!Finalized
      <3> QED BY <1>1, <3>1 DEF Cards
    <2>2. CASE rec.status # "skipped"
      BY <1>1, <2>2 DEF An!Finalized
    <2> QED BY <2>1, <2>2
  <1> DEFINE w == An!Stamped(s, rec)
  <1>3. An!Written(s, rec) = w
    BY <1>2 DEF An!Written, An!UserCard
  <1>4. /\ w \in Cards /\ w.status = rec.status /\ w.asked = rec.asked
        /\ w.result \in An!Results
        /\ w.result.root = rec.result.root /\ w.result.fix = rec.result.fix
        /\ w.result.citations = rec.result.citations
        /\ w.result.side = rec.result.side /\ w.result.source = rec.result.source
        /\ w.result.confidence = "high" => An!Grounded(w.result, s)
    BY <1>1, StampedFacts
  <1> HIDE DEF w
  <1>5. /\ An!Decided(w.result) /\ InfraGood(s, w.result)
        /\ An!Contradicts(s, w.result) => An!Contradicts(s, rec.result)
    BY <1>1, <1>4, SameSaid
  <1>6. An!CitesEvidence(w)
    BY <1>1, <1>4 DEF An!CitesEvidence
  <1>7. Final(s, w)
    BY <1>1, <1>4, <1>5, <1>6 DEF Final
  <1> QED BY <1>3, <1>4, <1>7

\* A kept answer is as good for every failure that has its key.
LEMMA CachedFacts ==
    ASSUME NEW s \in Summaries, NEW rec \in Cards,
           rec.status = "ok", rec.asked.key = s.key, Final(rec.asked, rec)
    PROVE  Final(s, [rec EXCEPT !.status = "cached"])
  <1> DEFINE c == [rec EXCEPT !.status = "cached"]
  <1>1. c \in Cards /\ c.result = rec.result /\ c.asked = rec.asked /\ c.status = "cached"
    BY DEF Cards, Statuses
  <1> HIDE DEF c
  <1>2. rec.asked \in Summaries
    BY DEF Final
  <1>3. rec.asked.short = s.short
    BY <1>2, InputFacts
  <1>4. /\ rec.result \in An!Results /\ An!Decided(rec.result)
        /\ InfraGood(rec.asked, rec.result) /\ An!CitesEvidence(rec)
        /\ ~(rec.result.source = "ai" /\ An!Contradicts(rec.asked, rec.result))
    BY DEF Final
  <1>5. An!CitesEvidence(c)
    BY <1>1, <1>4 DEF An!CitesEvidence
  <1>6. InfraGood(s, c.result) /\ ~(c.result.source = "ai" /\ An!Contradicts(s, c.result))
    BY <1>1, <1>3, <1>4 DEF InfraGood, An!CollectorSays, An!Contradicts
  <1>7. Final(s, c)
    BY <1>1, <1>2, <1>4, <1>5, <1>6 DEF Final
  <1> QED BY <1>7 DEF c

-----------------------------------------------------------------------------
(* One lemma per step of the sub-command.                                  *)

LEMMA InitHolds == ASSUME An!Init PROVE Inv
  <1>1. /\ pc = "idle" /\ persona = 1 /\ posts = 0
        /\ cache = [k \in An!Keys |-> None] /\ published = None
    BY DEF An!Init
  <1>2. PcOK /\ HeldOK /\ PostsOK /\ PublishedOK
    BY <1>1 DEF PcOK, HeldOK, PostsOK, PublishedOK, An!Personas
  <1>3. CacheOK
    BY <1>1 DEF CacheOK
  <1> QED BY <1>2, <1>3 DEF Inv

LEMMA BeginKeeps == ASSUME Inv, NEW s \in Summaries, An!Begin(s) PROVE Inv'
  <1>1. /\ summary' = s /\ persona' = 1 /\ posts' = 0
        /\ cache' = cache /\ published' = None
        /\ \/ pc' = "lookup" /\ record' = [An!NoRecord EXCEPT !.asked = s]
           \/ /\ pc' = "write"
              /\ record' = [status |-> "skipped", result |-> An!Card(s, "deterministic"), asked |-> None]
    BY DEF An!Begin
  <1>2. /\ An!Card(s, "deterministic") \in An!Results
        /\ An!Card(s, "deterministic").source = "deterministic"
        /\ InfraGood(s, An!Card(s, "deterministic"))
        /\ An!Decided(An!Card(s, "deterministic"))
    <2>1. "deterministic" \in An!Sources
      BY DEF An!Sources
    <2> QED BY <2>1, CardFacts
  <1>3. CASE pc' = "lookup" /\ record' = [An!NoRecord EXCEPT !.asked = s]
    <2>1. record' = [status |-> "failed", result |-> None, asked |-> s]
      BY <1>3 DEF An!NoRecord
    <2>2. record' \in Cards /\ record'.asked = s /\ record'.status = "failed" /\ record'.result = None
      BY <2>1 DEF Cards, Statuses
    <2>3. PcOK' /\ HeldOK'
      BY <1>1, <1>3, <2>2 DEF PcOK, HeldOK
    <2>4. PostsOK'
      BY <1>1, <1>3 DEF PostsOK, An!Personas
    <2> QED BY <1>1, <2>3, <2>4 DEF Inv, CacheOK, PublishedOK
  <1>4. CASE /\ pc' = "write"
             /\ record' = [status |-> "skipped", result |-> An!Card(s, "deterministic"), asked |-> None]
    <2> DEFINE c == An!Card(s, "deterministic")
    <2>1. record' = [status |-> "skipped", result |-> c, asked |-> None]
      BY <1>4
    <2>2. c \in An!Results /\ InfraGood(s, c) /\ An!Decided(c)
      BY <1>2
    <2> HIDE DEF c
    <2>3. record' \in Cards /\ record'.status = "skipped" /\ record'.result = c
      BY <2>1, <2>2 DEF Cards, Statuses
    <2> DEFINE r == record'
    <2>4. Final(s, r)
      BY <2>2, <2>3 DEF Final, An!CitesEvidence
    <2>5. PcOK' /\ HeldOK'
      BY <1>1, <1>4, <2>4 DEF PcOK, HeldOK
    <2>6. PostsOK'
      BY <1>1, <1>4 DEF PostsOK, An!Personas
    <2> QED BY <1>1, <2>5, <2>6 DEF Inv, CacheOK, PublishedOK
  <1> QED BY <1>1, <1>3, <1>4

LEMMA LookupKeeps == ASSUME Inv, An!Lookup PROVE Inv'
  <1>1. /\ pc = "lookup"
        /\ summary' = summary /\ persona' = persona /\ posts' = posts
        /\ cache' = cache /\ published' = published
    BY DEF An!Lookup
  <1>2. /\ summary \in Summaries /\ summary.key \in An!Keys
        /\ posts = 0 /\ persona \in An!Personas
        /\ record \in Cards /\ record.asked = summary
        /\ record.status \in {"ok", "failed", "unvalidated"}
        /\ record.result # None => Raw(summary, record.result)
    BY <1>1 DEF Inv, HeldOK, PostsOK, An!Keys
  <1>3. CacheOK' /\ PublishedOK'
    BY <1>1 DEF Inv, CacheOK, PublishedOK
  <1>4. CASE cache[summary.key] # None
    <2> DEFINE kept == cache[summary.key]
    <2>1. pc' = "write" /\ record' = [kept EXCEPT !.status = "cached"]
      BY <1>4 DEF An!Lookup
    <2>2. kept \in Cards /\ kept.status = "ok" /\ kept.asked.key = summary.key /\ Final(kept.asked, kept)
      BY <1>2, <1>4 DEF Inv, CacheOK
    <2> HIDE DEF kept
    <2>3. Final(summary, [kept EXCEPT !.status = "cached"])
      BY <1>2, <2>2, CachedFacts
    <2>4. PcOK' /\ HeldOK'
      BY <1>1, <1>2, <2>1, <2>3 DEF PcOK, HeldOK
    <2>5. PostsOK'
      BY <1>1, <1>2, <2>1 DEF PostsOK
    <2> QED BY <1>3, <2>4, <2>5 DEF Inv
  <1>5. CASE ~(cache[summary.key] # None)
    <2>1. pc' = "ask" /\ record' = record
      BY <1>5 DEF An!Lookup
    <2>2. PcOK' /\ HeldOK'
      BY <1>1, <1>2, <2>1 DEF PcOK, HeldOK
    <2>3. PostsOK'
      BY <1>1, <1>2, <2>1 DEF PostsOK, An!Personas
    <2> QED BY <1>3, <2>2, <2>3 DEF Inv
  <1> QED BY <1>4, <1>5

\* A reply, a repair or the grounding gate gives the record a result.
LEMMA BecomesKeeps ==
    ASSUME Inv, pc \in {"ask", "repair", "gate", "focus"},
           NEW st \in {"ok", "failed", "unvalidated"}, NEW result, NEW next,
           An!Becomes(st, result, next),
           result # None => Raw(summary, result),
           next \in {"gate", "repair", "finish"},
           next \in {"gate", "repair"} => result # None,
           summary' = summary
    PROVE  PcOK' /\ HeldOK'
  <1>1. /\ summary \in Summaries /\ record \in Cards /\ record.asked = summary
    BY DEF Inv, HeldOK
  <1>2. record' = [record EXCEPT !.status = st, !.result = result] /\ pc' = next
    BY DEF An!Becomes
  <1>3. result \in An!Results \union {None} /\ st \in Statuses
    BY DEF Raw, Statuses
  <1>4. record' \in Cards /\ record'.asked = summary /\ record'.status = st /\ record'.result = result
    BY <1>1, <1>2, <1>3 DEF Cards
  <1> QED BY <1>1, <1>2, <1>4 DEF PcOK, HeldOK

LEMMA PostsFacts ==
    ASSUME posts \in Nat, An!Posts
    PROVE  posts' \in Nat /\ posts' >= posts /\ posts' <= posts + 2
  BY DEF An!Posts

LEMMA AskKeeps == ASSUME Inv, NEW reply \in An!Replies, An!Ask(reply) PROVE Inv'
  <1>1. /\ pc = "ask" /\ An!Posts
        /\ summary' = summary /\ cache' = cache /\ published' = published
    BY DEF An!Ask
  <1>2. /\ summary \in Summaries /\ posts \in Nat /\ persona \in 1 .. 2 /\ posts <= 2 * (persona - 1)
        /\ record \in Cards /\ record.asked = summary
        /\ record.status \in {"ok", "failed", "unvalidated"}
        /\ record.result # None => Raw(summary, record.result)
    BY <1>1 DEF Inv, HeldOK, PostsOK, An!Personas
  <1>3. posts' \in Nat /\ posts' <= 2 * persona
    BY <1>1, <1>2, PostsFacts
  <1>4. CacheOK' /\ PublishedOK'
    BY <1>1 DEF Inv, CacheOK, PublishedOK
  <1>5. CASE persona' = persona + 1 /\ persona + 1 \in An!Personas /\ UNCHANGED <<record, pc>>
    <2>1. PcOK' /\ HeldOK'
      BY <1>1, <1>2, <1>5 DEF PcOK, HeldOK
    <2>2. PostsOK'
      BY <1>1, <1>2, <1>3, <1>5 DEF PostsOK, An!Personas
    <2> QED BY <1>4, <2>1, <2>2 DEF Inv
  <1>6. CASE An!Becomes("failed", None, "finish") /\ UNCHANGED persona
    <2>1. PcOK' /\ HeldOK'
      BY <1>1, <1>6, BecomesKeeps
    <2>2. PostsOK'
      BY <1>2, <1>3, <1>6 DEF PostsOK, An!Personas, An!Becomes
    <2> QED BY <1>4, <2>1, <2>2 DEF Inv
  <1>7. CASE /\ UNCHANGED persona
             /\ LET outcome == An!Interpret(reply, summary.evidence) IN
                An!Becomes(IF outcome.ok THEN "ok" ELSE "unvalidated", outcome.result,
                           IF outcome.ok THEN "gate" ELSE "repair")
    <2> DEFINE outcome == An!Interpret(reply, summary.evidence)
               st      == IF outcome.ok THEN "ok" ELSE "unvalidated"
               next    == IF outcome.ok THEN "gate" ELSE "repair"
    <2>1. Raw(summary, outcome.result) /\ outcome.result # None
      BY <1>2, InterpretFacts, InputFacts DEF Raw
    <2>2. An!Becomes(st, outcome.result, next)
      BY <1>7
    <2>3. st \in {"ok", "failed", "unvalidated"} /\ next \in {"gate", "repair"}
      OBVIOUS
    <2> HIDE DEF outcome, st, next
    <2>4. PcOK' /\ HeldOK'
      BY <1>1, <2>1, <2>2, <2>3, BecomesKeeps
    <2>5. PostsOK'
      BY <1>2, <1>3, <1>7, <2>2, <2>3 DEF PostsOK, An!Personas, An!Becomes
    <2> QED BY <1>4, <2>4, <2>5 DEF Inv
  <1> QED BY <1>5, <1>6, <1>7 DEF An!Ask

LEMMA RepairKeeps == ASSUME Inv, NEW reply \in An!Replies, An!Repair(reply) PROVE Inv'
  <1>1. /\ pc = "repair" /\ An!Posts
        /\ summary' = summary /\ persona' = persona /\ cache' = cache /\ published' = published
    BY DEF An!Repair
  <1>2. /\ summary \in Summaries /\ posts \in Nat /\ persona \in 1 .. 2 /\ posts <= 2 * persona
        /\ record.result # None => Raw(summary, record.result)
    BY <1>1 DEF Inv, HeldOK, PostsOK, An!Personas
  <1>3. posts' \in Nat /\ posts' <= 6
    BY <1>1, <1>2, PostsFacts
  <1>4. CacheOK' /\ PublishedOK'
    BY <1>1 DEF Inv, CacheOK, PublishedOK
  <1>5. ASSUME NEW st \in {"ok", "failed", "unvalidated"}, NEW result, NEW next \in {"gate", "finish"},
               An!Becomes(st, result, next),
               result # None => Raw(summary, result),
               next = "gate" => result # None,
               next = "finish" \/ st = "ok"
        PROVE  Inv'
    <2>1. PcOK' /\ HeldOK'
      BY <1>1, <1>5, BecomesKeeps
    <2>2. PostsOK'
      BY <1>1, <1>2, <1>3, <1>5 DEF PostsOK, An!Personas, An!Becomes
    <2> QED BY <1>4, <2>1, <2>2 DEF Inv
  <1>6. CASE An!Becomes("failed", None, "finish")
    BY <1>5, <1>6
  <1>7. CASE An!Becomes("unvalidated", record.result, "finish")
    BY <1>2, <1>5, <1>7
  <1>8. CASE LET outcome == An!Interpret(reply, summary.evidence) IN
             An!Becomes(IF outcome.ok THEN "ok" ELSE "unvalidated", outcome.result,
                        IF outcome.ok THEN "gate" ELSE "finish")
    <2> DEFINE outcome == An!Interpret(reply, summary.evidence)
               st      == IF outcome.ok THEN "ok" ELSE "unvalidated"
               next    == IF outcome.ok THEN "gate" ELSE "finish"
    <2>1. Raw(summary, outcome.result) /\ outcome.result # None
      BY <1>2, InterpretFacts, InputFacts DEF Raw
    <2>2. An!Becomes(st, outcome.result, next)
      BY <1>8
    <2>3. st \in {"ok", "failed", "unvalidated"} /\ next \in {"gate", "finish"}
          /\ (next = "finish" \/ st = "ok")
      OBVIOUS
    <2> HIDE DEF outcome, st, next
    <2> QED BY <1>5, <2>1, <2>2, <2>3
  <1> QED BY <1>6, <1>7, <1>8 DEF An!Repair

\* _apply_grounding_gate ends with an answer or with the collector's card.
LEMMA SettledKeeps ==
    ASSUME Inv, pc \in {"gate", "focus"}, NEW result, Raw(summary, result), An!Settled(result),
           summary' = summary
    PROVE  PcOK' /\ HeldOK' /\ pc' = "finish"
  <1> DEFINE x == IF An!Grounded(result, summary) \/ ~An!Grounded(summary.det, summary)
                  THEN result ELSE An!Card(summary, "deterministic")
  <1>1. An!Becomes("ok", x, "finish")
    BY DEF An!Settled
  <1>2. summary \in Summaries
    BY DEF Inv, HeldOK
  <1>3. Raw(summary, An!Card(summary, "deterministic"))
    <2>1. "deterministic" \in An!Sources
      BY DEF An!Sources
    <2> QED BY <1>2, <2>1, CardFacts DEF Raw
  <1>4. Raw(summary, x)
    BY <1>3
  <1> HIDE DEF x
  <1>5. PcOK' /\ HeldOK'
    BY <1>1, <1>4, BecomesKeeps
  <1> QED BY <1>1, <1>5 DEF An!Becomes

LEMMA GateKeeps == ASSUME Inv, An!Gate PROVE Inv'
  <1>1. /\ pc = "gate"
        /\ summary' = summary /\ persona' = persona /\ posts' = posts
        /\ cache' = cache /\ published' = published
    BY DEF An!Gate
  <1>2. record.result # None /\ Raw(summary, record.result)
    BY <1>1 DEF Inv, HeldOK
  <1>3. CacheOK' /\ PublishedOK'
    BY <1>1 DEF Inv, CacheOK, PublishedOK
  <1>4. CASE An!Settled(record.result)
    <2>1. PcOK' /\ HeldOK' /\ pc' = "finish"
      BY <1>1, <1>2, <1>4, SettledKeeps
    <2>2. PostsOK'
      BY <1>1, <2>1 DEF Inv, PostsOK
    <2> QED BY <1>3, <2>1, <2>2 DEF Inv
  <1>5. CASE pc' = "focus" /\ UNCHANGED record
    <2>1. PcOK' /\ HeldOK'
      BY <1>1, <1>2, <1>5 DEF Inv, PcOK, HeldOK
    <2>2. PostsOK'
      BY <1>1, <1>5 DEF Inv, PostsOK
    <2> QED BY <1>3, <2>1, <2>2 DEF Inv
  <1> QED BY <1>4, <1>5 DEF An!Gate

LEMMA AskFocusedKeeps == ASSUME Inv, NEW reply \in An!Replies, An!AskFocused(reply) PROVE Inv'
  <1> DEFINE outcome == An!Interpret(reply, summary.focused)
             x == IF outcome.ok /\ An!Grounded(outcome.result, summary)
                  THEN outcome.result ELSE record.result
  <1>1. /\ pc = "focus" /\ An!Posts /\ An!Settled(x)
        /\ summary' = summary /\ persona' = persona
        /\ cache' = cache /\ published' = published
    BY DEF An!AskFocused
  <1>2. summary \in Summaries /\ record.result # None /\ Raw(summary, record.result)
    BY <1>1 DEF Inv, HeldOK
  <1>3. Raw(summary, x)
    <2>1. Raw(summary, outcome.result)
      BY <1>2, InterpretFacts
    <2> QED BY <1>2, <2>1
  <1> HIDE DEF x
  <1>4. PcOK' /\ HeldOK' /\ pc' = "finish"
    BY <1>1, <1>3, SettledKeeps
  <1>5. posts' \in Nat /\ posts' <= 8
    <2>1. posts \in Nat /\ posts <= 6
      BY <1>1 DEF Inv, PostsOK
    <2> QED BY <1>1, <2>1, PostsFacts
  <1>6. PostsOK'
    BY <1>1, <1>4, <1>5 DEF Inv, PostsOK
  <1>7. CacheOK' /\ PublishedOK'
    BY <1>1 DEF Inv, CacheOK, PublishedOK
  <1> QED BY <1>4, <1>6, <1>7 DEF Inv

LEMMA FinishKeeps == ASSUME Inv, An!Finish PROVE Inv'
  <1> DEFINE u == An!UserCard(summary, record)
             v == An!Validated(summary, u)
  <1>1. /\ pc = "finish" /\ pc' = "write" /\ record' = v
        /\ cache' = IF v.status = "ok" THEN [cache EXCEPT ![summary.key] = v] ELSE cache
        /\ summary' = summary /\ persona' = persona /\ posts' = posts /\ published' = published
    BY DEF An!Finish
  <1>2. /\ summary \in Summaries /\ summary.key \in An!Keys
        /\ record \in Cards /\ record.asked = summary
        /\ record.status \in {"ok", "failed", "unvalidated"}
        /\ record.result # None => Raw(summary, record.result)
    BY <1>1 DEF Inv, HeldOK, An!Keys
  <1>3. Chosen(summary, u) /\ u.asked = summary
    BY <1>2, UserCardFacts
  <1> HIDE DEF u
  <1>4. Final(summary, v) /\ v.asked = summary /\ v.status \in {"ok", "failed", "unvalidated"}
    BY <1>2, <1>3, ValidatedFacts
  <1> HIDE DEF v
  <1>5. PcOK' /\ HeldOK'
    BY <1>1, <1>2, <1>4 DEF PcOK, HeldOK
  <1>6. PostsOK'
    BY <1>1, <1>4 DEF Inv, PostsOK
  <1>7. CacheOK'
    <2>1. CacheOK /\ v \in Cards
      BY <1>4 DEF Inv, Final
    <2>2. CASE v.status = "ok"
      <3>1. cache' = [cache EXCEPT ![summary.key] = v]
        BY <1>1, <2>2
      <3>2. cache' \in [An!Keys -> Cards \union {None}]
        BY <2>1, <3>1 DEF CacheOK
      <3>3. ASSUME NEW k \in An!Keys, cache'[k] # None
            PROVE  cache'[k].status = "ok" /\ cache'[k].asked.key = k /\ Final(cache'[k].asked, cache'[k])
        <4>1. CASE k = summary.key
          <5>1. cache'[k] = v
            BY <1>2, <2>1, <3>1, <4>1 DEF CacheOK
          <5> QED BY <1>4, <2>2, <4>1, <5>1
        <4>2. CASE k # summary.key
          <5>1. cache'[k] = cache[k]
            BY <2>1, <3>1, <4>2 DEF CacheOK
          <5> QED BY <2>1, <3>3, <5>1 DEF CacheOK
        <4> QED BY <4>1, <4>2
      <3> QED BY <3>2, <3>3 DEF CacheOK
    <2>3. CASE v.status # "ok"
      BY <1>1, <2>1, <2>3 DEF CacheOK
    <2> QED BY <2>2, <2>3
  <1>8. PublishedOK'
    BY <1>1 DEF Inv, PublishedOK
  <1> QED BY <1>5, <1>6, <1>7, <1>8 DEF Inv

LEMMA WriteKeeps == ASSUME Inv, An!Write PROVE Inv'
  <1> DEFINE w == An!Written(summary, record)
  <1>1. /\ pc = "write" /\ pc' = "idle"
        /\ published' = [summary |-> summary, record |-> w, posts |-> posts]
        /\ persona' = 1 /\ posts' = 0 /\ cache' = cache
    BY DEF An!Write, An!Over
  <1>2. /\ summary \in Summaries /\ Final(summary, record)
        /\ record.status \in {"skipped", "cached"} => posts = 0
    BY <1>1 DEF Inv, HeldOK, PostsOK
  <1>3. /\ Final(summary, w) /\ w.status = record.status
        /\ w.result.confidence = "high" => An!Grounded(w.result, summary)
    BY <1>2, WrittenFacts
  <1> HIDE DEF w
  <1>4. PublishedOK'
    BY <1>1, <1>2, <1>3 DEF PublishedOK
  <1>5. PcOK' /\ HeldOK' /\ PostsOK' /\ CacheOK'
    BY <1>1 DEF Inv, PcOK, HeldOK, PostsOK, CacheOK, An!Personas
  <1> QED BY <1>4, <1>5 DEF Inv

LEMMA InterruptKeeps == ASSUME Inv, An!Interrupt PROVE Inv'
  <1>1. pc' = "idle" /\ persona' = 1 /\ posts' = 0 /\ cache' = cache /\ published' = published
    BY DEF An!Interrupt, An!Over
  <1> QED BY <1>1 DEF Inv, PcOK, HeldOK, PostsOK, CacheOK, PublishedOK, An!Personas

LEMMA NextKeeps == ASSUME Inv, An!Next PROVE Inv'
  <1>1. CASE \E s \in Summaries : An!Begin(s)
    BY <1>1, BeginKeeps
  <1>2. CASE An!Lookup
    BY <1>2, LookupKeeps
  <1>3. CASE \E reply \in An!Replies : An!Ask(reply) \/ An!Repair(reply) \/ An!AskFocused(reply)
    BY <1>3, AskKeeps, RepairKeeps, AskFocusedKeeps
  <1>4. CASE An!Gate
    BY <1>4, GateKeeps
  <1>5. CASE An!Finish
    BY <1>5, FinishKeeps
  <1>6. CASE An!Write
    BY <1>6, WriteKeeps
  <1>7. CASE An!Interrupt
    BY <1>7, InterruptKeeps
  <1> QED BY <1>1, <1>2, <1>3, <1>4, <1>5, <1>6, <1>7 DEF An!Next

-----------------------------------------------------------------------------
(* The theorems.                                                           *)

LEMMA InvariantHolds == CollectorSpec => []IInv
  <1>1. CollectorInit => IInv
    BY InitHolds DEF CollectorInit, IInv
  <1>2. IInv /\ [CollectorNext]_allVars => IInv'
    <2> SUFFICES ASSUME IInv, [CollectorNext]_allVars, part' = "analysis" PROVE Inv'
      BY DEF IInv
    <2>1. CASE part = "analysis" /\ An!Next
      BY <2>1, NextKeeps DEF IInv
    <2>2. CASE part' = part /\ UNCHANGED analysisVars
      BY <2>2 DEF IInv, analysisVars, Inv, PcOK, HeldOK, PostsOK, CacheOK, PublishedOK
    <2>3. (part = "analysis" /\ An!Next) \/ (part' = part /\ UNCHANGED analysisVars)
      BY DEF CollectorNext, allVars
    <2> QED BY <2>1, <2>2, <2>3
  <1> QED BY <1>1, <1>2, PTL DEF CollectorSpec, allVars

\* High confidence is only published with a quote of the failed step of this
\* run, whatever the model answers and whichever failure filled the cache
\* (_stamp_grounding, write_analysis).
THEOREM HighNeedsTheFailedStep == CollectorSpec => []HighIsGrounded
  <1>1. IInv => HighIsGrounded
    BY DEF IInv, Inv, PublishedOK, HighIsGrounded, An!HighIsGrounded
  <1> QED BY <1>1, InvariantHolds, PTL

\* Whatever is kept in the cache or shown as a valid answer of the model cites,
\* and cites the evidence it was asked about (_interpret_completion,
\* _attach_validation, _cache_put).
THEOREM ValidAnswersCite == CollectorSpec => []AnswerIsCited
  <1>1. IInv => AnswerIsCited
    BY DEF IInv, Inv, PublishedOK, CacheOK, Final, AnswerIsCited, An!AnswerIsCited
  <1> QED BY <1>1, InvariantHolds, PTL

\* An outage or a flake is never published as the model's bug in the code, of
\* any answers none of which both blames the code and names its own source
\* (_contradicts_infra_flake).
THEOREM OutagesStayOutages ==
    ASSUME An!NoSourceClaimed
    PROVE  CollectorSpec => []InfraStaysInfra
  <1>1. IInv => InfraStaysInfra
    BY DEF IInv, Inv, PublishedOK, Final, InfraGood, InfraStaysInfra, An!InfraStaysInfra
  <1> QED BY <1>1, InvariantHolds, PTL

\* No failure costs the bridge more than eight posts, one that is skipped or
\* answered from the cache costs none, and no card is blank (_run_personas,
\* _apply_grounding_gate, _ensure_nonblank).
THEOREM QuestionsAreFew == CollectorSpec => []QuestionsBounded
  <1>1. IInv => QuestionsBounded
    BY DEF IInv, Inv, PostsOK, PublishedOK, Final, An!Decided, QuestionsBounded, An!QuestionsBounded
  <1> QED BY <1>1, InvariantHolds, PTL
=============================================================================
