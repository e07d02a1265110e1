----------------------------- MODULE MCCacheSet -----------------------------
EXTENDS CacheSetRefinement
\* Lines and tags are interchangeable.
Symmetry == Permutations(Line) \cup Permutations(Tag)
=============================================================================
