--------------------------- MODULE MCSymbolReader ---------------------------
(* Limits for SymbolReader: of a part of a byte, of whole bytes, of more    *)
(* than the input has.                                                      *)
EXTENDS SymbolReader

SomeLimits == {1, 2, 3, 4, 5, 6, 8, 14}
=============================================================================
