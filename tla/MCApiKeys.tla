----------------------------- MODULE MCApiKeys -----------------------------
EXTENDS ApiKeys, TLC

\* No definition or property names a particular prefix or request.
Symmetry == Permutations(Prefixes) \cup Permutations(Requests)
=============================================================================
