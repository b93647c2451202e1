------------------------------ MODULE Evidence ------------------------------
(***************************************************************************)
(* The arithmetic between a search and an answer: reciprocal rank fusion    *)
(* (backend/app/retrieval/hybrid.py), the evidence packet and its band      *)
(* (backend/app/answering/evidence.py), the sufficiency policy              *)
(* (sufficiency.py) and the citations (citation.py).                        *)
(*                                                                         *)
(* A chunk is a number, in the order of the chunk ids; a document is named   *)
(* by one of its chunks.  Scores are integers in units of 10^-9 and shares   *)
(* in units of 10^-6, rounded down where the code has floats.               *)
(***************************************************************************)
EXTENDS Naturals, Sequences, FiniteSets, SequencesExt

RRF_K == 60
Unit == 1000000

Least(a, b) == IF a <= b THEN a ELSE b

\* Sorting: the members of the finite set S in the strict total order R, a set of
\* pairs.  The i-th is the one that i - 1 others come before.
InOrder(S, R) ==
    [i \in 1..Cardinality(S) |-> CHOOSE x \in S : Cardinality({y \in S : <<y, x>> \in R}) = i - 1]

Ascending(S) == InOrder(S, {p \in S \X S : p[1] < p[2]})

\* Filtering: the elements of the list s that are in T, in the order of s.
Keep(s, T) ==
    LET at == Ascending({i \in DOMAIN s : s[i] \in T})
    IN  [j \in DOMAIN at |-> s[at[j]]]

-----------------------------------------------------------------------------
(* reciprocal_rank_fusion *)

\* 1-based rank of c in a candidate list; 0 when it is not there.
Rank(c, list) == IF c \in ToSet(list) THEN CHOOSE i \in DOMAIN list : list[i] = c ELSE 0

\* Mutant: a missing rank counts as rank 0.
ContributionOfMissing(rank) == 1000000000 \div (RRF_K + rank)

Contribution(rank) == IF rank = 0 THEN 0 ELSE 1000000000 \div (RRF_K + rank)

HybridScore(c, lexical, vector) == Contribution(Rank(c, lexical)) + Contribution(Rank(c, vector))

\* The chunks of both lists, each once, by score and then by id; the first
\* limit of them.
Fuse(lexical, vector, limit) ==
    LET chunks == ToSet(lexical) \cup ToSet(vector)
        score == [c \in chunks |-> HybridScore(c, lexical, vector)]
        before == {p \in chunks \X chunks :
                      \/ score[p[1]] > score[p[2]]
                      \/ score[p[1]] = score[p[2]] /\ p[1] < p[2]}
        ordered == InOrder(chunks, before)
    IN  SubSeq(ordered, 1, Least(limit, Len(ordered)))

-----------------------------------------------------------------------------
(* build_evidence_packet; the evidence id of items[i] is E<i> *)

Items(results, lexical, vector, minScore, maxItems) ==
    LET eligible == Keep(results, {c \in ToSet(results) : HybridScore(c, lexical, vector) >= minScore})
    IN  SubSeq(eligible, 1, Least(maxItems, Len(eligible)))

\* _calculate_evidence_band: the score, from the first item's hybrid score, the
\* number of documents, the share of items found by both channels, the number
\* of items and the share of flagged ones.
EvidenceScore(items, lexical, vector, docOf, flagged) ==
    LET n == Len(items)
        docs == Cardinality({docOf[c] : c \in ToSet(items)})
        both == {c \in ToSet(items) : c \in ToSet(lexical) /\ c \in ToSet(vector)}
        suspicious == Cardinality(ToSet(items) \cap flagged)
        top == Least(HybridScore(items[1], lexical, vector) \div 33, Unit)
        diversity == Least((docs * Unit) \div 3, Unit)
        agreement == (Cardinality(both) * Unit) \div n
        breadth == Least((n * Unit) \div 5, Unit)
        score == (40 * top + 25 * diversity + 20 * agreement + 15 * breadth) \div 100
    IN  score - (score * suspicious) \div (5 * n)

\* Mutant: both thresholds are lower than the documented ones.
BandLenient(items, lexical, vector, docOf, flagged) ==
    IF items = <<>> THEN "none"
    ELSE LET score == EvidenceScore(items, lexical, vector, docOf, flagged)
         IN  IF score = 0 THEN "none"
             ELSE IF score < 350000 THEN "low"
             ELSE IF score < 520000 THEN "medium"
             ELSE "high"

Band(items, lexical, vector, docOf, flagged) ==
    IF items = <<>> THEN "none"
    ELSE LET score == EvidenceScore(items, lexical, vector, docOf, flagged)
         IN  IF score = 0 THEN "none"
             ELSE IF score < 450000 THEN "low"
             ELSE IF score < 700000 THEN "medium"
             ELSE "high"

\* EvidenceSufficiencyPolicy.assess with its default min_items.
Assess(items, band, requireMedium) ==
    IF items = <<>> \/ band = "none" THEN "abstain_no_evidence"
    ELSE IF band = "low" /\ requireMedium THEN "abstain_weak_evidence"
    ELSE "answer"

-----------------------------------------------------------------------------
(* Citations.  A marker [E<m>] of the provider's text is the number m. *)

\* _extract_citation_ids, as a set: only membership matters to validate.
Extract(text) == ToSet(text)

\* CitationValidator.validate: the known ids in ascending order, or none at all
\* when one of them is not in the packet (the service catches the error).
Validate(ids, items) ==
    IF ids \subseteq 1..Len(items) THEN Ascending(ids) ELSE <<>>

\* Mutant: labels follow the markers' first appearance in the text.
RewriteByAppearance(text, citations) ==
    LET known == Keep(text, ToSet(citations))
    IN  [i \in DOMAIN known |-> i]

\* rewrite_citations_in_answer: a known marker becomes the position of its
\* citation, an unknown one disappears.
Rewrite(text, citations) ==
    LET known == Keep(text, ToSet(citations))
    IN  [i \in DOMAIN known |-> Rank(known[i], citations)]
=============================================================================
