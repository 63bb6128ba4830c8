------------------------------ MODULE ChatRoom ------------------------------
(***************************************************************************)
(* What the chat server of port-forwarder promises to the terminals that   *)
(* connect to it, without threads, descriptors or sockets.                 *)
(*                                                                         *)
(* The room has one conversation, log.  A member's text enters it in the   *)
(* order the member typed it; one entry may carry several typed lines, so  *)
(* an entry is [from, upto]: "everything from wrote, up to its line upto". *)
(* Members hear the newest entry only, never their own, and each at most   *)
(* once: two members that hear the same two entries hear them in the same  *)
(* order.                                                                  *)
(***************************************************************************)
EXTENDS Naturals, Sequences

CONSTANTS
  Members,  \* those who may join the room
  MaxLine   \* how many lines a member may type, a natural number

VARIABLES
  log,      \* the entries of the conversation, oldest first
  posted,   \* posted[m]: how many of m's lines have entered the conversation
  heard     \* heard[m]: the entries m was sent, oldest first

roomVars == <<log, posted, heard>>

Entry == [from : Members, upto : Nat]

Init ==
  /\ log = << >>
  /\ posted = [m \in Members |-> 0]
  /\ heard = [m \in Members |-> << >>]

\* The next lines of m, up to line n, become the newest entry.
Post(m, n) ==
  /\ n > posted[m]
  /\ posted' = [posted EXCEPT ![m] = n]
  /\ log' = Append(log, [from |-> m, upto |-> n])
  /\ UNCHANGED heard

\* m is sent the newest entry, which it neither wrote nor was sent before.
Hear(m) ==
  LET newest == log[Len(log)] IN
  /\ log # << >>
  /\ newest.from # m
  /\ \A k \in 1 .. Len(heard[m]) : heard[m][k] # newest
  /\ heard' = [heard EXCEPT ![m] = Append(@, newest)]
  /\ UNCHANGED <<log, posted>>

Next == \E m \in Members : Hear(m) \/ \E n \in 1 .. MaxLine : Post(m, n)

Spec == Init /\ [][Next]_roomVars
=============================================================================
