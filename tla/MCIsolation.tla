----------------------------- MODULE MCIsolation -----------------------------
EXTENDS Isolation, TLC

\* DIDs are interchangeable, and so are the registries other than this node.
Symmetry == Permutations(Registries \ {Self}) \cup Permutations(Dids)
=============================================================================
