---------------------------- MODULE MCMapUpdater ----------------------------
(* Instances of MapUpdater for TLC: the worker threads are interchangeable. *)
EXTENDS MapUpdater, TLC

WorkerSymmetry == Permutations(Workers)
=============================================================================
