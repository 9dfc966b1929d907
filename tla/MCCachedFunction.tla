-------------------------- MODULE MCCachedFunction --------------------------
EXTENDS CachedFunction, TLC
SizesMix == {NoSize - 1, NoSize, 1, 2}

Symmetry == Permutations(Threads) \union Permutations(Keys)
=============================================================================
