---------------------------- MODULE MCChatService ----------------------------
(* Small instances of ChatService for TLC. *)
EXTENDS ChatService, TLC

Symmetry ==
  Permutations(Sessions) \cup Permutations(Requests)
    \cup Permutations(Claims) \cup Permutations(IPs)
==============================================================================
