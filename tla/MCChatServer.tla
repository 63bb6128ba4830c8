---------------------------- MODULE MCChatServer ----------------------------
(* Small instances of ChatServer for TLC: the .cfg files give the constants. *)
EXTENDS ChatServer, TLC

\* The clients are interchangeable (safety runs only).
AnyClient == Permutations(Clients)
=============================================================================
