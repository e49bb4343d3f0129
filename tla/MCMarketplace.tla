--------------------------- MODULE MCMarketplace ---------------------------
(* Small instances of Marketplace: two or three nodes, one or two jobs. *)
EXTENDS Marketplace, TLC

CONSTANTS p1, p2, p3

\* Two nodes ask 1, the third asks 2, more than the smaller budget.
MCPriceOf == [p \in Peer |-> CASE p = p1 -> 1 [] p = p2 -> 1 [] p = p3 -> 2]

Symmetry == Permutations(Job) \cup Permutations(EscrowId)
=============================================================================
