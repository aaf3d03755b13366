---------------------------- MODULE MCProfileStore ----------------------------
(* Three printers for ProfileStore; two of them are interchangeable.              *)
EXTENDS ProfileStore, TLC

CONSTANTS a, b, old
MCPrinters == {a, b, old}
Symmetry == Permutations({a, b})
=============================================================================
