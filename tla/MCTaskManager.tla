--------------------------- MODULE MCTaskManager ---------------------------
(* TaskManager for TLC: two versions that are installed and one not, two managers one of *)
(* which may be ended, and as many processes as one version may be asked by. *)
EXTENDS TaskManager, TLC

MCPlatforms == {"linux", "windows"}

Symmetry == Permutations(Installed) \cup Permutations(Workers) \cup Permutations(Managers)
=============================================================================
