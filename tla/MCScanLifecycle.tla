--------------------------- MODULE MCScanLifecycle ---------------------------
(***************************************************************************)
(* ScanLifecycle on small instances: two scans of two processes, one       *)
(* reconnaissance step and one vulnerability scanner.                      *)
(***************************************************************************)
EXTENDS ScanLifecycle, TLC

MCVulnSteps == {2}

Symmetry == Permutations(Scans) \cup Permutations(Procs)
=============================================================================
