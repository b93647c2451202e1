------------------------ MODULE MCGroundedAnswering ------------------------
EXTENDS GroundedAnswering

MCChunks == 1..3
MCFlaggedSets == {{}, {1}, {1, 2, 3}}
=============================================================================
