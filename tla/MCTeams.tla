------------------------------ MODULE MCTeams ------------------------------
EXTENDS Teams, TLC

\* No definition or property names a particular user, team, name or request.
Symmetry == Permutations(Users) \cup Permutations(TeamIds)
                \cup Permutations(Names) \cup Permutations(Requests)
=============================================================================
