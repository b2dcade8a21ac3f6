--------------------------- MODULE MCSealedTokens ---------------------------
(* Instances of SealedTokens for TLC. *)
EXTENDS SealedTokens, TLC

CONSTANTS old, new

\* Nothing tells secrets apart.
Symmetry == Permutations(Secrets)

\* A client that may refresh, and one whose metadata document does not say so.
MCGrants == {[client |-> "app", scope |-> {"read", "write"}, refresh |-> TRUE],
             [client |-> "cli", scope |-> {"read"}, refresh |-> FALSE]}
=============================================================================
