----------------------------- MODULE MCChatRetry -----------------------------
(* Small instances of ChatRetry.                                            *)
EXTENDS ChatRetry, TLC

CONSTANTS me, colleague

SomeEach == [u \in Users |-> IF u = me THEN 2 ELSE 1]

SymmetricChat == Permutations(Requests) \cup Permutations(ClientIds)

==============================================================================
