------------------------------ MODULE UartRing ------------------------------
(***************************************************************************)
(* One serial port of the board library: uartSend() and uartRecv() of      *)
(* ciaaUART.c over the ring buffers of the chip library, preempted at any  *)
(* point by the port's interrupt handler.                                  *)
(*                                                                         *)
(*   main      Chip_UART_SendRB(), Chip_UART_ReadRB(): one action per      *)
(*             access to what the handler shares                           *)
(*   handler   Chip_UART_IRQRBHandler(): runs to its end, one action       *)
(*                                                                         *)
(* There is no lock: the handler owns the tail of the transmit ring while  *)
(* THREINT is enabled, main while it is not; the receive ring has one      *)
(* producer and one consumer.  Bytes are numbered in the order they are    *)
(* offered, in each direction.                                             *)
(***************************************************************************)
EXTENDS Integers, Sequences

CONSTANTS
  Count,      \* items of a ring, UART_BUF_SIZE
  Word,       \* range of the uint32_t head and tail, a multiple of Count
  MaxCall,    \* bound: bytes of one call
  MaxTx,      \* bound: bytes ever sent
  MaxRx,      \* bound: bytes that ever arrive
  MaxEarly    \* bound: bytes that arrive before the receive ring is set up

ASSUME SizeAssumption ==
  /\ Count \in Nat \ {0} /\ Word \in Nat /\ Word > Count /\ Word % Count = 0
  /\ MaxCall \in Nat /\ MaxTx \in Nat /\ MaxRx \in Nat /\ MaxEarly \in 0 .. MaxRx

Cells == 0 .. Count - 1

VARIABLES
  tx, rx,         \* the rings: [data, head, tail]
  threint,        \* is THREINT set in the IER register
  \* main
  mpc,
  bytes, ret,     \* of Chip_UART_SendRB()
  part,           \* which of its two calls of RingBuffer_InsertMult()
  cnt1, cnt2,     \* of RingBuffer_InsertMult() and RingBuffer_PopMult()
  ch,             \* of Chip_UART_TXIntHandlerRB(), when main calls it
  dest,           \* what a memcpy() of RingBuffer_PopMult() has copied
  \* the UART: its holding registers, 0 when empty
  thr, rbr,
  \* history
  base,           \* bytes accepted before this call of Chip_UART_SendRB()
  sent, wire,     \* bytes accepted, and those that have left the port
  arrived,        \* bytes that have come in
  received        \* what uartRecv() has returned

sendVars == <<bytes, ret, part, base, sent>>
cntVars  == <<cnt1, cnt2>>
readVars == <<dest, received>>
lineVars == <<wire, rbr, arrived>>
vars == <<tx, rx, threint, mpc, bytes, ret, part, cnt1, cnt2, ch, dest, thr, rbr,
          base, sent, wire, arrived, received>>

NewRing == [data |-> [i \in Cells |-> 0], head |-> 0, tail |-> 0]

Init ==
  /\ tx = NewRing /\ rx = NewRing
  /\ threint = FALSE
  /\ mpc = "data"
  /\ bytes = 0 /\ ret = 0 /\ part = 1 /\ cnt1 = 0 /\ cnt2 = 0
  /\ ch = 0 /\ dest = << >>
  /\ thr = 0 /\ rbr = 0
  /\ base = 0 /\ sent = 0 /\ wire = << >> /\ arrived = 0 /\ received = << >>

-----------------------------------------------------------------------------
(* ring_buffer.c and ring_buffer.h *)

\* head - tail of two uint32_t.
Filled(r) == (r.head - r.tail) % Word

IsFullLate(r, count) == Filled(r) > count     \* (mutant)
IsFull(r, count) == Filled(r) >= count
IsEmpty(r) == r.head = r.tail

\* head & (count - 1), for a count that is a power of two.
Index(k) == k % Count

PlusNoWrap(k, n) == k + n              \* (mutant)
Plus(k, n) == (k + n) % Word

Smaller(a, b) == IF a < b THEN a ELSE b

\* The n items a call may move out of avail, from index on: those before the end
\* of the array, and those that go on at its start.
SegmentOver(index, avail, n) == Smaller(avail, n)      \* (mutant)
Segment1(index, avail, n) == Smaller(Smaller(avail, Count - index), n)

SegmentLost(index, avail, n) == 0      \* (mutant)
Segment2(index, avail, n) == Smaller(avail, n) - Segment1(index, avail, n)

\* memcpy() of n bytes, numbered from first on, into the array.
Written(data, index, first, n) ==
  [i \in Cells |-> IF i \in index .. index + n - 1 THEN first + i - index ELSE data[i]]

\* RingBuffer_Insert() and RingBuffer_Pop() where nothing can come between their
\* steps; an item of no size moves the head only.
Insert(r, size, byte) ==
  [data |-> IF size = 0 THEN r.data ELSE [r.data EXCEPT ![Index(r.head)] = byte],
   head |-> Plus(r.head, 1), tail |-> r.tail]

Front(r) == r.data[Index(r.tail)]
Pop(r)   == [r EXCEPT !.tail = Plus(@, 1)]

-----------------------------------------------------------------------------
(* main: RingBuffer_Init() of the receive ring, one assignment at a time: the *)
(* receive interrupt is enabled before it (ciaaUART.c:71).  The ring is a     *)
(* global: all zero until then.                                               *)

InitSteps == <<"data", "count", "itemSz", "heads">>
Initialising == \E i \in DOMAIN InitSteps : mpc = InitSteps[i]

RxCount  == IF mpc \in {"data", "count"} THEN 0 ELSE Count
RxItemSz == IF mpc \in {"data", "count", "itemSz"} THEN 0 ELSE 1

InitRing ==
  /\ \E i \in DOMAIN InitSteps :
       /\ mpc = InitSteps[i]
       /\ mpc' = IF i = Len(InitSteps) THEN "idle" ELSE InitSteps[i + 1]
  /\ rx' = IF mpc = "heads" THEN [rx EXCEPT !.head = 0, !.tail = 0] ELSE rx
  /\ UNCHANGED <<tx, threint, sendVars, cntVars, ch, readVars, thr, lineVars>>

(* main: Chip_UART_SendRB(). *)

\* (mutant) The interrupt stays enabled.
SendRBOpen(n) ==
  /\ mpc = "idle"
  /\ sent + n <= MaxTx
  /\ bytes' = n /\ ret' = 0 /\ base' = sent
  /\ part' = 1 /\ mpc' = "insert"
  /\ UNCHANGED <<tx, rx, threint, cntVars, ch, readVars, thr, lineVars, sent>>

\* The call, and its IntDisable().
SendRB(n) ==
  /\ mpc = "idle"
  /\ sent + n <= MaxTx
  /\ threint' = FALSE
  /\ bytes' = n /\ ret' = 0 /\ base' = sent
  /\ part' = 1 /\ mpc' = "insert"
  /\ UNCHANGED <<tx, rx, cntVars, ch, readVars, thr, lineVars, sent>>

InsertDone == mpc' = IF part = 1 THEN "txloop" ELSE "enable"

\* RingBuffer_InsertMult() of what is left: how much fits.
InsertMult ==
  /\ mpc = "insert"
  /\ \/ IsFull(tx, Count) /\ InsertDone /\ UNCHANGED cntVars
     \/ /\ ~IsFull(tx, Count)
        /\ cnt1' = Segment1(Index(tx.head), Count - Filled(tx), bytes - ret)
        /\ cnt2' = Segment2(Index(tx.head), Count - Filled(tx), bytes - ret)
        /\ mpc' = "copy"
  /\ UNCHANGED <<tx, rx, threint, sendVars, ch, readVars, thr, lineVars>>

InsertCopy ==
  /\ mpc = "copy"
  /\ tx' = [tx EXCEPT !.data = Written(@, Index(tx.head), base + ret + 1, cnt1)]
  /\ mpc' = "advance"
  /\ UNCHANGED <<rx, threint, sendVars, cntVars, ch, readVars, thr, lineVars>>

\* The head moves after the copy; the second segment follows, if there is one.
InsertAdvance ==
  /\ mpc = "advance"
  /\ tx' = [tx EXCEPT !.head = Plus(@, cnt1)]
  /\ ret' = ret + cnt1 /\ sent' = sent + cnt1
  /\ cnt1' = cnt2 /\ cnt2' = 0
  /\ IF cnt2 > 0 THEN mpc' = "copy" ELSE InsertDone
  /\ UNCHANGED <<rx, threint, bytes, part, base, ch, readVars, thr, lineVars>>

\* Chip_UART_TXIntHandlerRB() called by main: one turn of its loop takes three
\* actions, RingBuffer_Pop() two of them.
TxLoop ==
  /\ mpc = "txloop"
  /\ \/ thr = 0 /\ ~IsEmpty(tx) /\ ch' = Front(tx) /\ mpc' = "pop"
     \/ (thr # 0 \/ IsEmpty(tx)) /\ mpc' = "txempty" /\ UNCHANGED ch
  /\ UNCHANGED <<tx, rx, threint, sendVars, cntVars, readVars, thr, lineVars>>

TxPop ==
  /\ mpc = "pop"
  /\ tx' = Pop(tx)
  /\ mpc' = "byte"
  /\ UNCHANGED <<rx, threint, sendVars, cntVars, ch, readVars, thr, lineVars>>

TxByte ==
  /\ mpc = "byte"
  /\ thr' = ch /\ ch' = 0
  /\ mpc' = "txloop"
  /\ UNCHANGED <<tx, rx, threint, sendVars, cntVars, readVars, lineVars>>

TxEmpty ==
  /\ mpc = "txempty"
  /\ threint' = (threint /\ ~IsEmpty(tx))
  /\ part' = 2 /\ mpc' = "insert"
  /\ UNCHANGED <<tx, rx, bytes, ret, base, sent, cntVars, ch, readVars, thr, lineVars>>

\* (mutant) The interrupt is enabled only if some bytes are left for it.
EnableIfShort ==
  /\ mpc = "enable"
  /\ threint' = (ret < bytes)
  /\ bytes' = 0 /\ ret' = 0 /\ part' = 1 /\ base' = 0
  /\ mpc' = "idle"
  /\ UNCHANGED <<tx, rx, sent, cntVars, ch, readVars, thr, lineVars>>

\* IntEnable(), and the return.
Enable ==
  /\ mpc = "enable"
  /\ threint' = TRUE
  /\ bytes' = 0 /\ ret' = 0 /\ part' = 1 /\ base' = 0
  /\ mpc' = "idle"
  /\ UNCHANGED <<tx, rx, sent, cntVars, ch, readVars, thr, lineVars>>

(* main: Chip_UART_ReadRB(), that is RingBuffer_PopMult(). *)

\* An empty ring returns 0 at once.
ReadRB(n) ==
  /\ mpc = "idle"
  /\ ~IsEmpty(rx)
  /\ cnt1' = Segment1(Index(rx.tail), Filled(rx), n)
  /\ cnt2' = Segment2(Index(rx.tail), Filled(rx), n)
  /\ mpc' = "readcopy"
  /\ UNCHANGED <<tx, rx, threint, sendVars, ch, readVars, thr, lineVars>>

ReadCopy ==
  /\ mpc = "readcopy"
  /\ dest' = [k \in 1 .. cnt1 |-> rx.data[Index(rx.tail) + k - 1]]
  /\ mpc' = "readadvance"
  /\ UNCHANGED <<tx, rx, threint, sendVars, cntVars, ch, received, thr, lineVars>>

ReadAdvance ==
  /\ mpc = "readadvance"
  /\ rx' = [rx EXCEPT !.tail = Plus(@, cnt1)]
  /\ received' = received \o dest
  /\ dest' = << >>
  /\ cnt1' = cnt2 /\ cnt2' = 0
  /\ mpc' = IF cnt2 > 0 THEN "readcopy" ELSE "idle"
  /\ UNCHANGED <<tx, threint, sendVars, ch, thr, lineVars>>

InCall ==
  \/ InitRing
  \/ InsertMult \/ InsertCopy \/ InsertAdvance
  \/ TxLoop \/ TxPop \/ TxByte \/ TxEmpty \/ Enable
  \/ ReadCopy \/ ReadAdvance

-----------------------------------------------------------------------------
(* Chip_UART_IRQRBHandler(). *)

\* Chip_UART_TXIntHandlerRB(): one byte goes to the port if it has room, and the
\* interrupt is turned off with the ring empty.
Transmitter ==
  \/ ~threint /\ UNCHANGED <<tx, thr, threint>>
  \/ /\ threint
     /\ \/ thr = 0 /\ ~IsEmpty(tx) /\ thr' = Front(tx) /\ tx' = Pop(tx)
        \/ (thr # 0 \/ IsEmpty(tx)) /\ UNCHANGED <<tx, thr>>
     /\ threint' = ~IsEmpty(tx')

\* Chip_UART_RXIntHandlerRB(): "New data will be ignored if data not popped in
\* time".
Receiver ==
  /\ rbr' = 0
  /\ rx' = IF rbr = 0 \/ IsFull(rx, RxCount) THEN rx ELSE Insert(rx, RxItemSz, rbr)

\* The handler loops while the port has room, or bytes: that is as many of these
\* as there are turns.
UART_IRQHandler ==
  /\ (threint /\ thr = 0) \/ rbr # 0
  /\ Transmitter
  /\ Receiver
  /\ UNCHANGED <<mpc, sendVars, cntVars, ch, readVars, wire, arrived>>

(* The port. *)

Shift ==
  /\ thr # 0
  /\ wire' = Append(wire, thr)
  /\ thr' = 0
  /\ UNCHANGED <<tx, rx, threint, mpc, sendVars, cntVars, ch, readVars, rbr, arrived>>

Arrive ==
  /\ rbr = 0 /\ arrived < IF Initialising THEN MaxEarly ELSE MaxRx
  /\ arrived' = arrived + 1
  /\ rbr' = arrived + 1
  /\ UNCHANGED <<tx, rx, threint, mpc, sendVars, cntVars, ch, readVars, thr, wire>>

Next ==
  \/ \E n \in 1 .. MaxCall : SendRB(n) \/ ReadRB(n)
  \/ InCall \/ UART_IRQHandler \/ Shift \/ Arrive

Spec == Init /\ [][Next]_vars

\* Main runs on while it is in a call, the interrupt is taken and the port sends.
Fairness == WF_vars(InCall) /\ WF_vars(UART_IRQHandler) /\ WF_vars(Shift)

FairSpec == Spec /\ Fairness

-----------------------------------------------------------------------------
RingOK(r, max) ==
  /\ r \in [data : [Cells -> 0 .. max], head : 0 .. Word - 1, tail : 0 .. Word - 1]
  /\ Filled(r) \in 0 .. Count

TypeOK ==
  /\ RingOK(tx, MaxTx) /\ RingOK(rx, MaxRx)
  /\ threint \in BOOLEAN
  /\ Initialising \/
     mpc \in {"idle", "insert", "copy", "advance", "txloop", "pop", "byte", "txempty",
              "enable", "readcopy", "readadvance"}
  /\ bytes \in 0 .. MaxCall /\ ret \in 0 .. bytes /\ part \in {1, 2}
  /\ cnt1 \in 0 .. Count /\ cnt2 \in 0 .. Count
  /\ ch \in 0 .. MaxTx /\ thr \in 0 .. MaxTx /\ rbr \in 0 .. MaxRx
  /\ dest \in Seq(1 .. MaxRx) /\ received \in Seq(1 .. MaxRx)
  /\ base \in 0 .. MaxTx /\ sent \in 0 .. MaxTx /\ wire \in Seq(1 .. MaxTx)
  /\ arrived \in 0 .. MaxRx

Content(r) == [k \in 1 .. Filled(r) |-> r.data[Index(r.tail + k - 1)]]

Register(byte) == IF byte = 0 THEN << >> ELSE <<byte>>

\* uartSend() and the handler make a queue of the transmit ring: every byte that
\* a call says it has taken leaves the port once and in order, whether main or
\* the handler feeds the port and wherever the counters wrap around.
Outgoing == INSTANCE ByteQueue
              WITH Capacity <- Count, CanWait <- TRUE, open <- TRUE, offered <- sent,
                   queue <- Content(tx),
                   delivered <- wire \o Register(thr)
                                     \o (IF mpc = "byte" THEN <<ch>> ELSE << >>)

SendsInOrder == Outgoing!Spec

\* The handler and uartRecv() make one of the receive ring: a byte is let go only
\* when the ring is full or not initialised yet, and one that went in is returned
\* once and in order although the handler runs between the steps of a read.  What
\* comes in during RingBuffer_Init() leaves no trace in the ring.
Incoming == INSTANCE ByteQueue
              WITH Capacity <- Count, CanWait <- FALSE, open <- ~Initialising,
                   offered <- arrived - Len(Register(rbr)),
                   queue <- IF Initialising THEN << >> ELSE Content(rx),
                   delivered <- received

ReceivesInOrder == Incoming!Spec

\* uartSend() tries twice: when it returns less than it was given the ring is
\* full, so a caller that tries again later loses no room.
ShortSendMeansFull == mpc = "enable" /\ ret < bytes => IsFull(tx, Count)

\* No memcpy() of RingBuffer_InsertMult() or RingBuffer_PopMult() goes past the end
\* of the array, wherever a call finds the counters and whatever the handler does
\* between the computation of the segments and the copies.
CopiesInArray ==
  /\ mpc = "copy" => Index(tx.head) + cnt1 <= Count
  /\ mpc = "readcopy" => Index(rx.tail) + cnt1 <= Count

\* No byte waits in the ring for an interrupt that is off: when main is not sending,
\* THREINT is on as long as there is something left, although both main and the
\* handler turn it off.
NoByteStranded ==
  mpc \in {"idle", "readcopy", "readadvance"} /\ ~IsEmpty(tx) => threint

\* Every accepted byte goes out: main leaves the interrupt enabled for what it
\* could not feed itself, and the handler turns it off on an empty ring only.
AllIsSent == \A k \in 1 .. MaxTx : (sent >= k) ~> (Len(wire) >= k)
=============================================================================
