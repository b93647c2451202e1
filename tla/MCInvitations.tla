---------------------------- MODULE MCInvitations ----------------------------
EXTENDS Invitations, TLC

\* No definition or property names a particular request.
Symmetry == Permutations(Requests)
=============================================================================
