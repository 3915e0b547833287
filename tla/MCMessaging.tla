----------------------------- MODULE MCMessaging -----------------------------
EXTENDS Messaging, TLC

\* Requests are told apart by what they carry, not by their ids.
Symmetry == Permutations(CallIds)
=============================================================================
