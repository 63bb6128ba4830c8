------------------------------ MODULE ByteQueue ------------------------------
(***************************************************************************)
(* What a ring buffer between a program and an interrupt handler promises: *)
(* a bounded queue that keeps the order, loses nothing it has accepted and *)
(* invents nothing.  Bytes are numbered as they are offered; a queue whose *)
(* producer cannot wait, as an interrupt handler, lets go of a byte it has *)
(* no room for.                                                            *)
(***************************************************************************)
EXTENDS Naturals, Sequences

CONSTANTS
  Capacity,   \* bytes the queue can hold, a natural number
  CanWait     \* may the producer wait for room

VARIABLES
  open,       \* has the queue been set up: until then it accepts nothing
  offered,    \* bytes offered so far: the next one is number offered + 1
  queue,      \* the bytes in the queue, oldest first
  delivered   \* the bytes taken out, oldest first

queueVars == <<open, offered, queue, delivered>>

Init == open \in BOOLEAN /\ offered = 0 /\ queue = << >> /\ delivered = << >>

Open ==
  /\ ~open /\ open'
  /\ UNCHANGED <<offered, queue, delivered>>

Put(n) ==
  /\ open
  /\ Len(queue) + n <= Capacity
  /\ queue' = queue \o [k \in 1 .. n |-> offered + k]
  /\ offered' = offered + n
  /\ UNCHANGED <<open, delivered>>

Drop ==
  /\ ~CanWait /\ (open => Len(queue) = Capacity)
  /\ offered' = offered + 1
  /\ UNCHANGED <<open, queue, delivered>>

Get(n) ==
  /\ n <= Len(queue)
  /\ delivered' = delivered \o SubSeq(queue, 1, n)
  /\ queue' = SubSeq(queue, n + 1, Len(queue))
  /\ UNCHANGED <<open, offered>>

Next == Open \/ Drop \/ \E n \in 1 .. Capacity : Put(n) \/ Get(n)

Spec == Init /\ [][Next]_queueVars
=============================================================================
