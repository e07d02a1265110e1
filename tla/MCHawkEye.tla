----------------------------- MODULE MCHawkEye ------------------------------
\* The regions are interchangeable.
EXTENDS HawkEye

RegionSymmetry == Permutations(Region)
=============================================================================
