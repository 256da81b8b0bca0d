----------------------------- MODULE MC_WhenAny -----------------------------
EXTENDS WhenAny, TLC

\* The calls of the event are interchangeable.
MCSymmetry == Permutations(Call)

=============================================================================
