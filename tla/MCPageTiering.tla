---------------------------- MODULE MCPageTiering ----------------------------
(* PageTiering with a few frames, addresses and threads. *)
EXTENDS PageTiering, TLC

\* Addresses and migration threads are interchangeable: nothing in the code
\* orders either.
Symmetry == Permutations(VAs) \cup Permutations(Workers)
==============================================================================
