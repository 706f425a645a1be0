--------------------------- MODULE MCOrgMembership ---------------------------
(* OrgMembership with interchangeable users and rows of invitations.          *)
EXTENDS OrgMembership, TLC

Symmetry == Permutations(User) \cup Permutations(InviteId)
=============================================================================
