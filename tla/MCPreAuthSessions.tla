------------------------- MODULE MCPreAuthSessions -------------------------
(* Small instances of PreAuthSessions for TLC. *)
EXTENDS PreAuthSessions
=============================================================================
