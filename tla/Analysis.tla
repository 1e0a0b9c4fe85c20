------------------------------ MODULE Analysis ------------------------------
(***************************************************************************)
(* The AI analysis of one failed run after another (tools/rca/analyze.py,  *)
(* the analyze sub-command): the gate that decides whether the model is    *)
(* called, the answer cache, the two personas with one repair call, the    *)
(* focused question when an answer does not quote the failed step, and the *)
(* choice of the card that is published.                                   *)
(*                                                                         *)
(* Text is abstracted to the quotes it contains: a summary has the quotes  *)
(* of its evidence, of its focused evidence (other sections left out) and  *)
(* of the failed step, the anchor.  The model behind the bridge is         *)
(* external: any reply of Answers, an error, or nothing.                   *)
(***************************************************************************)
EXTENDS Integers, FiniteSets

CONSTANTS
    Summaries,    \* collected failures: [key, short, evidence, focused, anchor,
                  \*   det, benign, signature, resolved]
    Answers,      \* completions of the model that are an AnalysisResult
    LongQuotes,   \* quotes of more than 240 characters
    MaxAnalyses,  \* bound on analyses
    None          \* no value

VARIABLES
    pc,         \* what the sub-command does next
    summary,    \* the failure it analyses
    record,     \* the AnalysisRecord so far
    persona,    \* the persona being asked
    posts,      \* requests sent to the bridge for this failure
    cache,      \* the answers kept by cache key
    published,  \* the card the job has written: None or [summary, record, posts]
    analyses    \* analyses begun

vars == <<pc, summary, record, persona, posts, cache, published, analyses>>

Personas == 1 .. 2                       \* trinity, alfred
Short    == {"infra_runner", "infra_widespread", "flake_same_sha_passed"}
HardShort == Short \union {"no_failed_jobs"}
Policies == {"auto", "always", "never"}
Keys     == {s.key : s \in Summaries}

Sources  == {"ai", "mixed", "deterministic", "hybrid"}

\* What an AnalysisResult holds; a source that is none of the four counts for
\* none of them.
Quotes  == UNION ({a.citations : a \in Answers} \union {s.det.citations : s \in Summaries})
Results ==
    [root : BOOLEAN, fix : BOOLEAN, confidence : {"high", "medium", "low"},
     citations : SUBSET Quotes, cannot : BOOLEAN, side : {"infra", "code", "unknown", None},
     rule : BOOLEAN, source : Sources \union {"other", None}]

\* What the code makes sure of: an answer is an AnalysisResult, the collector's
\* card is one and never blank, and the rule in the cache key decides the short
\* circuit.
WellFormedInputs ==
    /\ None \notin Results /\ None \notin Sources \union {"code"}
    /\ Answers \subseteq Results
    /\ \A a \in Answers : IsFiniteSet(a.citations)
    /\ \A s \in Summaries : s.det \in Results /\ s.det.root /\ s.det.fix /\ IsFiniteSet(s.det.citations)
    /\ \A s, t \in Summaries : s.key = t.key => s.short = t.short

\* No answer that blames the code names a source.
NoSourceClaimed == \A a \in Answers : a.source # None => a.side # "code"

Grounded(result, s) == result.citations \intersect s.anchor # {}
Contradicts(s, result) == s.short \in Short /\ result.side = "code"

-----------------------------------------------------------------------------
(* Completions: _interpret_completion.  Whatever is not a valid answer is  *)
(* kept as prose.                                                          *)

Prose == [root |-> TRUE, fix |-> FALSE, confidence |-> "low", citations |-> {},
          cannot |-> TRUE, side |-> None, rule |-> FALSE, source |-> None]

Refusals    == {"no_response", "http_error"}   \* the other persona is tried
Errors      == {"api_error", "empty"}          \* the analysis has failed
Completions == {"answer", "malformed"}
Replies == {[kind |-> k, answer |-> Prose] : k \in Refusals \union Errors \union {"malformed"}}
           \union {[kind |-> "answer", answer |-> a] : a \in Answers}

Cited(result, evidence) == result.citations # {} /\ result.citations \subseteq evidence

Interpret(reply, evidence) ==
    IF reply.kind = "answer" /\ Cited(reply.answer, evidence)
    THEN [ok |-> TRUE, result |-> reply.answer]
    ELSE [ok |-> FALSE, result |-> [reply.answer EXCEPT !.cannot = TRUE]]

-----------------------------------------------------------------------------
(* decide_stgpt_call                                                       *)

DeterministicSufficient(s) == s.signature /\ Grounded(s.det, s)

Calls(s, enabled, key, policy) ==
    /\ enabled
    /\ key
    /\ \/ policy = "always"
       \/ /\ policy = "auto"
          /\ s.short \notin HardShort
          /\ ~DeterministicSufficient(s)
          /\ ~s.resolved

-----------------------------------------------------------------------------
(* finalize_user_card and _attach_validation                               *)

Card(s, source) == [s.det EXCEPT !.source = source]

CannotDetermine ==
    [Prose EXCEPT !.fix = TRUE, !.source = "deterministic"]

TooWeak(s, result) ==
    /\ result # None
    /\ result.cannot
    /\ s.benign \/ (s.det.confidence = "low" /\ ~Grounded(s.det, s))

Whole(result)   == result # None /\ result.root /\ result.fix
Decided(result) == Whole(result) /\ result.source \in Sources
Usable(rec)     == /\ rec.status \in {"ok", "cached"}
                   /\ rec.result # None
                   /\ rec.result.root
                   /\ ~rec.result.cannot

FilledIn(s, result) ==
    [result EXCEPT
        !.source    = IF result.rule \/ ~result.fix THEN "mixed" ELSE "ai",
        !.fix       = TRUE,
        !.citations = IF @ = {} THEN s.det.citations ELSE @,
        !.rule      = TRUE]

FinalizedOnce(s, rec) ==   \* mutant: only a decided card is compared with the short circuit
    CASE rec.status = "skipped" ->
            [rec EXCEPT !.result = IF Whole(@) THEN @ ELSE Card(s, "deterministic")]
      [] rec.status # "skipped" /\ Decided(rec.result) ->
            IF rec.result.source = "ai" /\ Contradicts(s, rec.result)
            THEN [rec EXCEPT !.result = Card(s, "mixed")] ELSE rec
      [] rec.status # "skipped" /\ ~Decided(rec.result) /\ Usable(rec) ->
            [rec EXCEPT !.result = FilledIn(s, @)]
      [] OTHER -> [rec EXCEPT !.result = Card(s, "deterministic")]

\* _finalize_card
Finalized(s, rec) ==
    CASE rec.status = "skipped" ->
            [rec EXCEPT !.result = IF Whole(@) THEN @ ELSE Card(s, "deterministic")]
      [] rec.status # "skipped" /\ Decided(rec.result) ->
            IF rec.status \in {"ok", "cached"} /\ rec.result.source = "ai" /\ Contradicts(s, rec.result)
            THEN [rec EXCEPT !.result = Card(s, "mixed")]
            ELSE rec
      [] rec.status # "skipped" /\ ~Decided(rec.result) /\ Usable(rec) ->
            [rec EXCEPT !.result = IF Contradicts(s, @) THEN Card(s, "mixed") ELSE FilledIn(s, @)]
      [] OTHER ->
            IF TooWeak(s, rec.result)
            THEN [rec EXCEPT !.result = CannotDetermine, !.status = "unvalidated"]
            ELSE [rec EXCEPT !.result = Card(s, "deterministic")]

\* _stamp_grounding, after which no card is blank
Stamped(s, rec) ==
    [rec EXCEPT !.result.confidence =
        IF ~Grounded(rec.result, s) /\ @ = "high" THEN "medium" ELSE @]

UserCard(s, rec) == Stamped(s, Finalized(s, rec))

\* write_analysis on a record that is already final.
WrittenAsIs(s, rec) == rec   \* mutant: only analyze_summary finalises
Written(s, rec) == UserCard(s, rec)

ValidatedLeniently(s, rec) ==   \* mutant: half of the citations is enough to keep all
    IF 2 * Cardinality(rec.result.citations \intersect s.evidence) >= Cardinality(rec.result.citations)
    THEN rec ELSE [rec EXCEPT !.result = Card(s, "deterministic"), !.status = "unvalidated"]

\* The dropped citations are compared by their first 240 characters.
Validated(s, rec) ==
    LET cites == rec.result.citations
        found == cites \intersect s.evidence
    IN  CASE rec.result.source \notin {"ai", "hybrid", "mixed"} -> rec
          [] rec.result.source \in {"ai", "hybrid", "mixed"} /\ cites # {} /\ found = cites -> rec
          [] rec.result.source \in {"ai", "hybrid", "mixed"} /\ found # cites
                /\ 2 * Cardinality(found) >= Cardinality(cites) ->
                [rec EXCEPT !.result.citations = found \union (@ \intersect LongQuotes)]
          [] OTHER -> [rec EXCEPT !.result = Card(s, "deterministic"), !.status = "unvalidated"]

-----------------------------------------------------------------------------

NoRecord == [status |-> "failed", result |-> None, asked |-> None]

Init ==
    /\ pc = "idle"
    /\ summary = None
    /\ record = NoRecord
    /\ persona = 1
    /\ posts = 0
    /\ cache = [k \in Keys |-> None]
    /\ published = None
    /\ analyses = 0

\* The gate, in a job whose workspace holds no card yet.  asked is the failure whose evidence the model was given.
Begin(s) ==
    /\ pc = "idle"
    /\ analyses < MaxAnalyses
    /\ summary' = s
    /\ persona' = 1
    /\ posts' = 0
    /\ analyses' = analyses + 1
    /\ \E enabled, key \in BOOLEAN, policy \in Policies :
          IF Calls(s, enabled, key, policy)
          THEN /\ pc' = "lookup"
               /\ record' = [NoRecord EXCEPT !.asked = s]
          ELSE /\ pc' = "write"
               /\ record' = [status |-> "skipped", result |-> Card(s, "deterministic"), asked |-> None]
    /\ published' = None
    /\ UNCHANGED cache

\* _cache_get: a kept answer is reused as it is.
Lookup ==
    /\ pc = "lookup"
    /\ IF cache[summary.key] # None
       THEN pc' = "write" /\ record' = [cache[summary.key] EXCEPT !.status = "cached"]
       ELSE pc' = "ask" /\ UNCHANGED record
    /\ UNCHANGED <<summary, persona, posts, cache, published, analyses>>

Becomes(status, result, next) ==
    /\ record' = [record EXCEPT !.status = status, !.result = result]
    /\ pc' = next

\* post_chat posts a second time, for plain text, when the bridge rejects the
\* response format.
Posts == \E n \in 1 .. 2 : posts' = posts + n

\* _run_personas
Ask(reply) ==
    /\ pc = "ask"
    /\ Posts
    /\ \/ /\ reply.kind \in Refusals
          /\ persona + 1 \in Personas
          /\ persona' = persona + 1
          /\ UNCHANGED <<record, pc>>
       \/ /\ reply.kind \in Errors \/ (reply.kind \in Refusals /\ persona + 1 \notin Personas)
          /\ Becomes("failed", None, "finish")
          /\ UNCHANGED persona
       \/ /\ reply.kind \in Completions
          /\ LET outcome == Interpret(reply, summary.evidence) IN
             Becomes(IF outcome.ok THEN "ok" ELSE "unvalidated", outcome.result,
                     IF outcome.ok THEN "gate" ELSE "repair")
          /\ UNCHANGED persona
    /\ UNCHANGED <<summary, cache, published, analyses>>

RepairOrNext(reply) ==   \* mutant: a repair that is no answer moves on to the other persona
    /\ pc = "repair"
    /\ Posts
    /\ LET outcome == Interpret(reply, summary.evidence) IN
       IF outcome.ok THEN Becomes("ok", outcome.result, "gate") /\ UNCHANGED persona
       ELSE IF persona + 1 \in Personas
       THEN pc' = "ask" /\ persona' = persona + 1 /\ UNCHANGED record
       ELSE Becomes("unvalidated", outcome.result, "finish") /\ UNCHANGED persona
    /\ UNCHANGED <<summary, cache, published, analyses>>

Repair(reply) ==
    /\ pc = "repair"
    /\ Posts
    /\ \/ reply.kind = "api_error" /\ Becomes("failed", None, "finish")
       \/ reply.kind \in Refusals \union {"empty"} /\ Becomes("unvalidated", record.result, "finish")
       \/ /\ reply.kind \in Completions
          /\ LET outcome == Interpret(reply, summary.evidence) IN
             Becomes(IF outcome.ok THEN "ok" ELSE "unvalidated", outcome.result,
                     IF outcome.ok THEN "gate" ELSE "finish")
    /\ UNCHANGED <<summary, persona, cache, published, analyses>>

\* _apply_grounding_gate: the answer, or else the deterministic card if that
\* one quotes the failed step.
Settled(result) ==
    Becomes("ok",
            IF Grounded(result, summary) \/ ~Grounded(summary.det, summary)
            THEN result ELSE Card(summary, "deterministic"),
            "finish")

Gate ==
    /\ pc = "gate"
    /\ IF Grounded(record.result, summary) \/ summary.focused = summary.evidence
       THEN Settled(record.result)
       ELSE pc' = "focus" /\ UNCHANGED record
    /\ UNCHANGED <<summary, persona, posts, cache, published, analyses>>

AskFocused(reply) ==
    /\ pc = "focus"
    /\ Posts
    /\ LET outcome == Interpret(reply, summary.focused) IN
       Settled(IF outcome.ok /\ Grounded(outcome.result, summary) THEN outcome.result ELSE record.result)
    /\ UNCHANGED <<summary, persona, cache, published, analyses>>

\* The end of analyze_summary; only a validated answer is kept.
Finish ==
    /\ pc = "finish"
    /\ record' = Validated(summary, UserCard(summary, record))
    /\ cache' = IF record'.status = "ok" THEN [cache EXCEPT ![summary.key] = record'] ELSE cache
    /\ pc' = "write"
    /\ UNCHANGED <<summary, persona, posts, published, analyses>>

\* The sub-command is over: nothing of it is left but the cache and the card.
Over ==
    /\ pc' = "idle"
    /\ summary' = None
    /\ record' = NoRecord
    /\ persona' = 1
    /\ posts' = 0

\* write_analysis finalises once more, with the summary as it is on disk.
Write ==
    /\ pc = "write"
    /\ published' = [summary |-> summary, record |-> Written(summary, record), posts |-> posts]
    /\ Over
    /\ UNCHANGED <<cache, analyses>>

\* The job is cancelled or times out.
Interrupt ==
    /\ pc # "idle"
    /\ Over
    /\ UNCHANGED <<cache, published, analyses>>

Next ==
    \/ \E s \in Summaries : Begin(s)
    \/ Lookup
    \/ \E reply \in Replies : Ask(reply) \/ Repair(reply) \/ AskFocused(reply)
    \/ Gate
    \/ Finish
    \/ Write
    \/ Interrupt

Spec == Init /\ [][Next]_vars

-----------------------------------------------------------------------------
(* Properties                                                              *)

ModelSources == {"ai", "hybrid", "mixed"}

\* High confidence is only published for a card that quotes the failed step of
\* this very run, also when the card comes from the cache, was exchanged by the
\* validation after the stamp, or is the deterministic one
\* (tools/rca/analyze.py, _stamp_grounding and write_analysis).
HighIsGrounded ==
    published # None =>
        LET result == published.record.result IN
        result.confidence = "high" => Grounded(result, published.summary)

\* A model answer is kept, and shown as valid, only with citations, each of
\* them in the evidence of the run the model was asked about; quotes too long
\* to be dropped are the exception (tools/rca/analyze.py, _attach_validation).
CitesEvidence(rec) ==
    (rec.status \in {"ok", "cached"} /\ rec.result.source \in ModelSources) =>
        rec.result.citations # {} /\ rec.result.citations \subseteq rec.asked.evidence \union LongQuotes

AnswerIsCited ==
    /\ published # None => CitesEvidence(published.record)
    /\ \A k \in Keys : cache[k] # None => CitesEvidence(cache[k]) /\ cache[k].asked.key = k

\* A runner outage or a flake is never published as the bug in the code that
\* the model made of it: where the card says "code", it is the collector's own
\* of a failure with this cache key (a flake whose log matches a signature).
\* An answer that claims the code and names a source itself, a key the prompt
\* does not ask for, would get through (tools/rca/analyze.py, _finalize_card
\* and _contradicts_infra_flake).
CollectorSays(s, side) == \E t \in Summaries : t.key = s.key /\ t.det.side = side

InfraStaysInfra ==
    published # None =>
        LET result == published.record.result IN
        (published.summary.short \in Short /\ result.side = "code") =>
            result.source # "ai" /\ CollectorSays(published.summary, "code")

\* However the bridge behaves, a failure costs it at most four questions, each
\* posted at most twice, and none where the gate or the cache answered; and
\* the card is never blank (tools/rca/analyze.py, _run_personas, _ensure_nonblank).
QuestionsBounded ==
    /\ posts <= 8
    /\ published # None =>
          /\ published.record.status \in {"skipped", "cached"} => published.posts = 0
          /\ Whole(published.record.result)
=============================================================================
