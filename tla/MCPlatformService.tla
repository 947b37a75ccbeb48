------------------------- MODULE MCPlatformService -------------------------
(* Small instances of PlatformService for TLC. *)
EXTENDS PlatformService, TLC

Symmetry == Permutations(Thread) \cup Permutations(Approver)
=============================================================================
