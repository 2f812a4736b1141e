---------------------------- MODULE MCChatBudget -----------------------------
(* Small instances of ChatBudget for TLC. *)
EXTENDS ChatBudget, TLC
==============================================================================
