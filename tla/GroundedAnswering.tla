------------------------- MODULE GroundedAnswering -------------------------
(***************************************************************************)
(* A question put to a workspace: KnowledgeRetrievalService.retrieve        *)
(* (backend/app/retrieval/service.py), GroundedAnswerService.answer         *)
(* (backend/app/answering/service.py), the retry loop of the providers      *)
(* (provider.py) and the two endpoints over them, /search and /answer.      *)
(*                                                                         *)
(* The request is split at its awaits: the embedding call, the two search    *)
(* statements, each with a snapshot of its own, and every provider call.    *)
(* Between them documents are archived and their sources switched off and    *)
(* on.  Every document has a succeeded job and a source of its own.          *)
(***************************************************************************)
EXTENDS Evidence

CONSTANTS Chunks,         \* ids of the chunks that match the query: 1..n
          TopKs,          \* the limits clients ask for
          FlaggedSets,    \* which chunks may carry injection patterns
          MaxMarkers,     \* bound on the markers in a provider's text
          MaxRetries,     \* OPENAI_MAX_RETRIES, ANTHROPIC_MAX_RETRIES
          MaxItems,       \* ANSWER_MAX_EVIDENCE_ITEMS
          MinScore,       \* ANSWER_MIN_HYBRID_SCORE
          RequireMedium,  \* ANSWER_REQUIRE_MEDIUM_BAND
          MaxChanges      \* bound on the changes to documents and sources

ASSUME AnsweringAssumption ==
    /\ IsFiniteSet(Chunks) /\ Chunks = 1..Cardinality(Chunks)
    /\ TopKs # {} /\ TopKs \subseteq 1..50
    /\ \A f \in FlaggedSets : f \subseteq Chunks
    /\ MaxMarkers \in Nat /\ MaxRetries \in Nat /\ MaxItems \in Nat
    /\ MinScore \in Nat /\ MaxChanges \in Nat
    /\ RequireMedium \in BOOLEAN

VARIABLES
    docOf,      \* the document of a chunk, named by its first chunk
    flagged,    \* chunks in which _detect_injection_flags finds a pattern
    archived,   \* archived documents
    active,     \* documents whose source is active
    changes,    \* changes to archived and active so far
    seen,       \* documents an answer could be made from at some moment of the request
    req,        \* the request being served; see RequestStates
    response    \* the response to the last request; see Responses

store == <<docOf, flagged, archived, active, changes>>
vars == <<store, seen, req, response>>

Documents == {docOf[c] : c \in Chunks}
\* Chunks in some order, each at most once.
Lists == SetToAllKPermutations(Chunks)
ListsOf(S) == {list \in Lists : ToSet(list) \subseteq S}
\* The markers of a text over n evidence items, one unknown among them.
Texts(n) == BoundedSeq(1..(n + 1), MaxMarkers)
Bands == {"none", "low", "medium", "high"}

RequestStates ==
    [pc : {"idle", "embed", "lexical", "vector", "fuse", "packet", "provider"},
     kind : {"search", "answer"},
     k : TopKs,
     withArchived : BOOLEAN,
     embedded : BOOLEAN,
     lexical : Lists,
     vector : Lists,
     items : Lists,
     band : Bands,
     attempt : 0..MaxRetries]

\* What the response says and, of what it was made from, the evidence items and
\* the provider's text.
Responses ==
    [status : {"none", "results", "answer", "abstain_no_evidence",
               "abstain_weak_evidence", "provider_failure", "error"},
     items : Lists,
     text : Texts(Cardinality(Chunks)),
     citations : Lists,
     labels : BoundedSeq(Chunks, MaxMarkers)]

IdleRequest == [pc |-> "idle", kind |-> "answer", k |-> CHOOSE k \in TopKs : TRUE,
                withArchived |-> FALSE, embedded |-> FALSE,
                lexical |-> <<>>, vector |-> <<>>,
                items |-> <<>>, band |-> "none", attempt |-> 0]
Plain(status) == [status |-> status, items |-> <<>>, text |-> <<>>,
                  citations |-> <<>>, labels |-> <<>>]

Respond(resp) == response' = resp /\ req' = IdleRequest /\ UNCHANGED <<store, seen>>

\* reciprocal_rank_fusion on what the two searches found; IdentityReranker
\* leaves the order alone.
Results == Fuse(req.lexical, req.vector, req.k)
Outcome == Assess(req.items, req.band, RequireMedium)

-----------------------------------------------------------------------------
(* KnowledgeRetrievalService.retrieve *)

\* A question or query with something left after normalisation; only /search
\* has include_archived.
Ask(kind, k, withArchived) ==
    /\ req.pc = "idle"
    /\ withArchived => kind = "search"
    /\ req' = [IdleRequest EXCEPT !.pc = "embed", !.kind = kind, !.k = k,
                                  !.withArchived = withArchived]
    /\ seen' = active \ archived
    /\ response' = Plain("none")
    /\ UNCHANGED store

\* Nothing but white space: /answer abstains, /search answers 400.
AskBlank(kind) ==
    /\ req.pc = "idle"
    /\ Respond(Plain(IF kind = "answer" THEN "abstain_no_evidence" ELSE "error"))

\* The embedding provider answers or fails, which is not fatal.
Embed(ok) ==
    /\ req.pc = "embed"
    /\ req' = [req EXCEPT !.pc = "lexical", !.embedded = ok]
    /\ UNCHANGED <<store, seen, response>>

\* Mutant: archived documents are not left out.
CandidatesArchived == {c \in Chunks : docOf[c] \in active}

\* A search statement returns a list of candidates, best first: chunks of the
\* documents that are searchable at its snapshot.
Candidates == {c \in Chunks : /\ docOf[c] \in active
                              /\ docOf[c] \in archived => req.withArchived}

\* Each channel is asked for at most three times the limit.
FetchLimit == Least(3 * req.k, 150)

LexicalSearch(list) ==
    /\ req.pc = "lexical"
    /\ Len(list) <= FetchLimit
    /\ req' = [req EXCEPT !.pc = "vector", !.lexical = list]
    /\ UNCHANGED <<store, seen, response>>

\* vector_search, skipped without an embedding.
VectorSearch(list) ==
    /\ req.pc = "vector"
    /\ ~req.embedded => list = <<>>
    /\ Len(list) <= FetchLimit
    /\ req' = [req EXCEPT !.pc = "fuse", !.vector = list]
    /\ UNCHANGED <<store, seen, response>>

\* The scoped session is open from its first set_config to the commit after the
\* answer is made; a statement or the commit fails, and nothing catches it.
DatabaseFails ==
    /\ req.pc # "idle"
    /\ Respond(Plain("error"))

SearchResponds ==
    /\ req.pc = "fuse" /\ req.kind = "search"
    /\ Respond([Plain("results") EXCEPT !.items = Results])

-----------------------------------------------------------------------------
(* GroundedAnswerService.answer after the retrieval *)

BuildPacket ==
    /\ req.pc = "fuse" /\ req.kind = "answer"
    /\ LET items == Items(Results, req.lexical, req.vector, MinScore, MaxItems)
       IN  req' = [req EXCEPT !.pc = "packet", !.items = items,
                              !.band = Band(items, req.lexical, req.vector, docOf, flagged)]
    /\ UNCHANGED <<store, seen, response>>

\* The policy does not let the provider be called.
Abstain ==
    /\ req.pc = "packet"
    /\ Outcome # "answer"
    /\ Respond([Plain(Outcome) EXCEPT !.items = req.items])

CallProvider ==
    /\ req.pc = "packet"
    /\ Outcome = "answer"
    /\ req' = [req EXCEPT !.pc = "provider"]
    /\ UNCHANGED <<store, seen, response>>

\* Mutant: the last attempt is retried once more.
CallFailsOnceMore ==
    /\ req.pc = "provider"
    /\ IF req.attempt <= MaxRetries
       THEN /\ req' = [req EXCEPT !.attempt = @ + 1]
            /\ UNCHANGED <<store, seen, response>>
       ELSE Respond([Plain("provider_failure") EXCEPT !.items = req.items])

\* A time-out, a network error or a transient status: _RetryableError.
CallFails ==
    /\ req.pc = "provider"
    /\ IF req.attempt < MaxRetries
       THEN /\ req' = [req EXCEPT !.attempt = @ + 1]
            /\ UNCHANGED <<store, seen, response>>
       ELSE Respond([Plain("provider_failure") EXCEPT !.items = req.items])

\* A permanent error or a body without text.
CallRejected ==
    /\ req.pc = "provider"
    /\ Respond([Plain("provider_failure") EXCEPT !.items = req.items])

\* The provider returns a text and the ids it cites: those of the markers in
\* the text (OpenAI, Anthropic) or every id (the deterministic provider, whose
\* text quotes a document and may hold any markers).
CallAnswers(text, ids) ==
    /\ req.pc = "provider"
    /\ LET citations == Validate(ids, req.items)
       IN  Respond([status |-> "answer", items |-> req.items, text |-> text,
                    citations |-> citations, labels |-> Rewrite(text, citations)])

-----------------------------------------------------------------------------
(* Changes by other requests: archive_document, update_source *)

StoreChanges(newArchived, newActive) ==
    /\ changes < MaxChanges
    /\ archived' = newArchived
    /\ active' = newActive
    /\ changes' = changes + 1
    /\ seen' = IF req.pc = "idle" THEN seen ELSE seen \cup (newActive \ newArchived)
    /\ UNCHANGED <<docOf, flagged, req, response>>

Archive(d) == d \notin archived /\ StoreChanges(archived \cup {d}, active)

SwitchSource(d) == StoreChanges(archived, IF d \in active THEN active \ {d} ELSE active \cup {d})

-----------------------------------------------------------------------------
Init ==
    /\ docOf \in {f \in [Chunks -> Chunks] : \A c \in Chunks : f[c] <= c /\ f[f[c]] = f[c]}
    /\ flagged \in FlaggedSets
    /\ archived = {}
    /\ active = Documents
    /\ changes = 0
    /\ seen = {}
    /\ req = IdleRequest
    /\ response = Plain("none")

\* Steps of the request being served.
Serve ==
    \/ \E ok \in BOOLEAN : Embed(ok)
    \/ \E list \in ListsOf(Candidates) : LexicalSearch(list) \/ VectorSearch(list)
    \/ DatabaseFails
    \/ SearchResponds
    \/ BuildPacket
    \/ Abstain
    \/ CallProvider
    \/ CallFails
    \/ CallRejected
    \/ \E text \in Texts(Len(req.items)) :
          \E ids \in {Extract(text), DOMAIN req.items} : CallAnswers(text, ids)

Next ==
    \/ \E kind \in {"search", "answer"} :
          \/ \E k \in TopKs, withArchived \in BOOLEAN : Ask(kind, k, withArchived)
          \/ AskBlank(kind)
    \/ Serve
    \/ \E d \in Documents : Archive(d) \/ SwitchSource(d)

Spec == Init /\ [][Next]_vars

-----------------------------------------------------------------------------
TypeOK ==
    /\ docOf \in [Chunks -> Chunks]
    /\ flagged \in FlaggedSets
    /\ archived \subseteq Documents /\ active \subseteq Documents /\ seen \subseteq Documents
    /\ changes \in 0..MaxChanges
    /\ req \in RequestStates
    /\ response \in Responses

\* A chunk that is nowhere worse ranked than another, and somewhere better, comes
\* before it in the fused list, and is not cut off by the limit when the other
\* is in (reciprocal_rank_fusion).
DominanceRespected ==
    LET better(r, s) == r # 0 /\ (s = 0 \/ r < s)
        dominates(c, d) ==
            LET lc == Rank(c, req.lexical)  ld == Rank(d, req.lexical)
                vc == Rank(c, req.vector)   vd == Rank(d, req.vector)
            IN  \/ better(lc, ld) /\ ~better(vd, vc)
                \/ better(vc, vd) /\ ~better(ld, lc)
        results == Results
    IN  req.pc = "fuse" =>
            \A j \in DOMAIN results : \A c \in Chunks :
                dominates(c, results[j]) => \E i \in 1..(j - 1) : results[i] = c

\* With the default policy the provider is called only on evidence that two
\* channels agree on, or that comes from two documents (_calculate_evidence_band and
\* EvidenceSufficiencyPolicy.assess together); and without a vector channel the
\* evidence is never of the band high, whatever was found.
WeakEvidenceIsNotTrusted ==
    /\ RequireMedium /\ req.pc = "provider" =>
          \/ Cardinality({docOf[c] : c \in ToSet(req.items)}) > 1
          \/ ToSet(req.items) \cap ToSet(req.lexical) \cap ToSet(req.vector) # {}
    /\ req.pc = "packet" /\ req.vector = <<>> => req.band # "high"

\* The marker that stands n-th among the cited ones of the provider's text has become
\* the n-th number of the answer, the label of the citation of the very chunk the marker
\* named; there are no other numbers, and none points past the citations
\* (CitationValidator.validate, rewrite_citations_in_answer and the labels the
\* endpoint gives).
LabelsNameTheirSource ==
    LET kept == {i \in DOMAIN response.text : response.text[i] \in ToSet(response.citations)}
        nth(i) == Cardinality({j \in kept : j <= i})
        cited(label) == response.items[response.citations[label]]
    IN  response.status = "answer" =>
            /\ Len(response.labels) = Cardinality(kept)
            /\ \A i \in kept :
                  /\ response.labels[nth(i)] \in DOMAIN response.citations
                  /\ cited(response.labels[nth(i)]) = response.items[response.text[i]]

\* Whatever a response to /answer cites could be searched, not archived and
\* with an active source, at some moment while the request was served, although
\* the two searches and the provider call see different states of the store.
CitedWasSearchable ==
    response.status = "answer" =>
        \A m \in ToSet(response.citations) : docOf[response.items[m]] \in seen
=============================================================================
