----------------------------- MODULE MCZContext -----------------------------
(* Instances of ZContext for TLC.                                          *)
EXTENDS ZContext, TLC

Unordered == Permutations(Contexts) \cup Permutations(Sockets)
Nested == {"reenter", "orphan"}
Shared == {"orphan", "create", "raise", "wrap", "handles"}
=============================================================================
