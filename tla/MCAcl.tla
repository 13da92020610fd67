------------------------------- MODULE MCAcl -------------------------------
(***************************************************************************)
(* An instance of Acl for TLC: an admin named in the settings, and people  *)
(* who may become owners and collaborators.                                *)
(***************************************************************************)
EXTENDS Acl, TLC

CONSTANTS boss, ann, bob

MCAdminLists == {{boss}, {boss, ann}}

\* Requests differ in nothing but their name.
Alike == Permutations(Request)
=============================================================================
