-------------------------- MODULE MCWasmEdgePlugin --------------------------
(* Plugins, actors and threads are interchangeable. *)
EXTENDS WasmEdgePlugin, TLC

Symmetry == Permutations(Plugins) \cup Permutations(Actors) \cup Permutations(Threads)
=============================================================================
