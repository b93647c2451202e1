--------------------------- MODULE MCOrgMembership ---------------------------
(* The instance of OrgMembership for TLC. *)
EXTENDS OrgMembership
=============================================================================
