---------------------------- MODULE MCClippingSync ----------------------------
\* A small instance of ClippingSync.
EXTENDS ClippingSync, TLC

CONSTANTS c1, c2, c3, i1, i2, i3, i4

MCClips == {c1, c2, c3}
MCIds == {i1, i2, i3, i4}
ClippingSymmetry == Permutations(MCClips) \cup Permutations(MCIds)
=============================================================================
