------------------------------ MODULE MCCacheItem ------------------------------
\* CacheItem for TLC: handlers are alike, blocks too.
EXTENDS CacheItem, TLC

Symmetry == Permutations(Handlers)
===============================================================================
