--------------------------- MODULE MCClientOrders ---------------------------
EXTENDS ClientOrders, TLC

\* Symbols are only compared for equality; ids are counted here.
SymbolSymmetry == Permutations(Symbols)
=============================================================================
