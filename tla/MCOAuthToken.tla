---------------------------- MODULE MCOAuthToken ----------------------------
(* Small instances of OAuthToken for TLC.                                  *)
EXTENDS OAuthToken, TLC

\* Connections, applications and grants are interchangeable.
AllSymmetry ==
    Permutations(Conns) \cup Permutations(ClientIds) \cup Permutations(Grants)
=============================================================================
