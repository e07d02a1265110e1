--------------------------- MODULE MCCacheSetLru ----------------------------
EXTENDS CacheSetLru
\* Lines and tags are interchangeable.
Symmetry == Permutations(Line) \cup Permutations(Tag)
=============================================================================
