---------------------------- MODULE MCWorkspaces ----------------------------
EXTENDS Workspaces, TLC

\* No definition or property names a particular request.
Symmetry == Permutations(Requests)
=============================================================================
