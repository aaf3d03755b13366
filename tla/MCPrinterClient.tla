----------------------------- MODULE MCPrinterClient -----------------------------
(* PrinterClient for TLC: the printer connections are interchangeable.  The        *)
(* symmetry is used by the safety run only.                                        *)
EXTENDS PrinterClient, TLC

Symmetry == Permutations(Conns)
==================================================================================
