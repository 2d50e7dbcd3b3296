----------------------------- MODULE MCChatStream -----------------------------
(* TLC instance of ChatStream. *)
EXTENDS ChatStream

MCNoIndex == -1
MCNoIndexes == {}
==============================================================================
