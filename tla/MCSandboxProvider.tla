-------------------------- MODULE MCSandboxProvider --------------------------
(* Small instances of SandboxProvider for TLC. *)
EXTENDS SandboxProvider, TLC

Symmetry ==
  Permutations(Sessions) \cup Permutations(Requests)
    \cup Permutations(Claims) \cup Permutations(IPs)
==============================================================================
