--------------------------- MODULE MCRunLifecycle ---------------------------
(* The instances of RunLifecycle that TLC checks. *)
EXTENDS RunLifecycle, TLC

WatcherSymmetry == Permutations(Watchers)
=============================================================================
