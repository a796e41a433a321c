-------------------------- MODULE MCFixConversation --------------------------
(* FixConversation with interchangeable chats and sessions. *)
EXTENDS FixConversation, TLC

Symmetry == Permutations(Admins) \cup Permutations(Sessions)
=============================================================================
