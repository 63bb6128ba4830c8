-------------------------- MODULE I2cMaster_proofs --------------------------
(***************************************************************************)
(* Theorems about the I2C master: its types, the acknowledgement of the    *)
(* last byte, the release of the bus, and that every transfer is one of    *)
(* I2cTransfer, for any bytes and any requests.                            *)
(***************************************************************************)
EXTENDS I2cMaster, TLAPS

Busy == xfer.status = "BUSY"

\* All bytes of the caller that have not been sent are counted by txSz.
Counted == Len(sent) + xfer.txSz = Len(xfer.request.tx)
NoneRead == given = <<>> /\ xfer.rx = <<>> /\ xfer.rxSz = xfer.request.room
SomeRead == xfer.txSz = 0 /\ xfer.rxSz > 0 /\ Len(xfer.rx) + xfer.rxSz = xfer.request.room

\* The stages of a transfer, told apart by STAT, the bus and the control bits.
Ended == ~Busy /\ stat = "none" /\ "STA" \notin con /\ (phase = "free" \/ "STO" \in con)

Starting ==
  /\ Busy /\ stat = "none" /\ "STA" \in con
  /\ phase \in {"free", "writing"} \/ "STO" \in con
  /\ Counted /\ NoneRead
Started ==
  /\ Busy /\ stat \in {"08", "10"} /\ phase = "started" /\ "STO" \notin con
  /\ Counted /\ NoneRead
Addressing ==
  /\ Busy /\ stat = "none" /\ phase = "started" /\ con = {}
  /\ Counted /\ NoneRead /\ (dat % 2 = 1 <=> xfer.txSz = 0)
Asking ==
  /\ Busy /\ stat \in {"18", "20", "28", "30"} /\ phase = "writing" /\ con = {}
  /\ Counted /\ NoneRead
Writing ==
  /\ Busy /\ stat = "none" /\ phase = "writing" /\ con = {}
  /\ Len(sent) + 1 + xfer.txSz = Len(xfer.request.tx)
  /\ dat = xfer.request.tx[Len(sent) + 1]
  /\ NoneRead
Turned ==
  /\ Busy /\ stat \in {"40", "48"} /\ phase = "reading" /\ con = {}
  /\ Counted /\ NoneRead /\ xfer.txSz = 0
Reading ==
  /\ Busy /\ stat = "none" /\ phase = "reading" /\ con \subseteq {"AA"}
  /\ "AA" \in con <=> AckNext(xfer.rxSz)
  /\ Counted /\ SomeRead /\ given = xfer.rx
Got ==
  /\ Busy /\ stat \in {"50", "58"} /\ phase = "reading" /\ con \subseteq {"AA"}
  /\ stat = "50" <=> AckNext(xfer.rxSz)
  /\ Counted /\ SomeRead /\ given = Append(xfer.rx, dat)
Broken ==
  /\ Busy /\ stat \in {"38", "00"} /\ "STO" \notin con
  /\ stat = "38" => phase = "free"

Stages ==
  \/ Ended \/ Starting \/ Started \/ Addressing \/ Asking \/ Writing
  \/ Turned \/ Reading \/ Got \/ Broken

\* A refusal is on its way to the handler, or the caller asked to ignore it.
RefusedInv == Busy /\ refused => Ignores \/ stat \in {"20", "30", "48"}

IInv == TypeOK /\ Stages /\ RefusedInv

-----------------------------------------------------------------------------
(* The parts of a request have their types, in the idle state too.         *)
LEMMA RequestType ==
  ASSUME NEW r \in Requests \cup {Idle}
  PROVE  /\ r.slaveAddr \in Nat /\ r.tx \in Seq(Bytes) /\ r.room \in Nat
         /\ Len(r.tx) \in Nat /\ \A i \in 1 .. Len(r.tx) : r.tx[i] \in Nat
<1>1. r.slaveAddr \in Nat /\ r.tx \in Seq(Bytes) /\ r.room \in Nat
  <2>1. CASE r \in Requests
    BY <2>1, RequestsAssumption
  <2>2. CASE r = Idle
    BY <2>2 DEF Idle
  <2>3. QED
    BY <2>1, <2>2
<1>2. Len(r.tx) \in Nat /\ \A i \in 1 .. Len(r.tx) : r.tx[i] \in Bytes
  BY <1>1
<1>3. QED
  BY <1>1, <1>2, RequestsAssumption

(* The initial state is idle.                                              *)
LEMMA InitIInv == Init => IInv
<1> SUFFICES ASSUME Init PROVE IInv
  OBVIOUS
<1>1. xfer = [request |-> Idle, txSz |-> 0, rx |-> <<>>, rxSz |-> 0, status |-> "OK"]
  BY DEF Init, Transfer, Idle
<1>2. TypeOK
  <2>1. xfer \in [request : Requests \cup {Idle}, txSz : Nat, rx : Seq(Bytes), rxSz : Nat,
                  status : {"BUSY", "OK"} \cup Failures]
    BY <1>1
  <2>2. xfer.txSz <= Len(xfer.request.tx) /\ xfer.rxSz <= xfer.request.room
    BY <1>1 DEF Idle
  <2>3. <<>> \in Seq(Nat) /\ <<>> \in Seq(Bytes)
    OBVIOUS
  <2>4. con \subseteq {"STA", "STO", "AA"} /\ stat \in Codes \cup {"none"} /\ dat \in Nat
    BY DEF Init
  <2>5. QED
    BY <2>1, <2>2, <2>3, <2>4 DEF TypeOK, Init
<1>3. Stages /\ RefusedInv
  BY <1>1 DEF Init, Stages, Ended, Busy, RefusedInv
<1>4. QED
  BY <1>2, <1>3 DEF IInv

(* The handler leaves the transfer and the three control bits typed.       *)
LEMMA ControlType ==
  ASSUME TypeOK, NEW set \in SUBSET {"STA", "STO", "AA"}, Control(set)
  PROVE  /\ con' \subseteq {"STA", "STO", "AA"} /\ stat' = "none"
         /\ "STA" \in con' <=> "STA" \in set
         /\ "AA" \in con' <=> "AA" \in set
         /\ "STO" \in con' <=> "STO" \in con \cup set
  BY DEF TypeOK, Control

(* Starting a transfer.                                                    *)
LEMMA XferKeeps ==
  ASSUME IInv, NEW r \in Requests, Xfer(r)
  PROVE  IInv'
<1>1. xfer' = [request |-> r, txSz |-> Len(r.tx), rx |-> <<>>, rxSz |-> r.room, status |-> "BUSY"]
  BY DEF Xfer, Transfer
<1>2. r.tx \in Seq(Bytes) /\ r.room \in Nat /\ Len(r.tx) \in Nat
  BY RequestType
<1>3. TypeOK'
  <2>1. xfer' \in [request : Requests \cup {Idle}, txSz : Nat, rx : Seq(Bytes), rxSz : Nat,
                   status : {"BUSY", "OK"} \cup Failures]
    BY <1>1, <1>2
  <2>2. xfer'.txSz <= Len(xfer'.request.tx) /\ xfer'.rxSz <= xfer'.request.room
    BY <1>1, <1>2
  <2>3. <<>> \in Seq(Nat) /\ <<>> \in Seq(Bytes)
    OBVIOUS
  <2>4. con' \subseteq {"STA", "STO", "AA"} /\ stat' \in Codes \cup {"none"}
    BY DEF Xfer, IInv, TypeOK
  <2>5. QED
    BY <2>1, <2>2, <2>3, <2>4 DEF TypeOK, IInv, Xfer
<1>4. Starting'
  <2>1. Counted' /\ NoneRead' /\ Busy'
    BY <1>1, <1>2 DEF Counted, NoneRead, Busy, Xfer
  <2>2. ~Busy
    BY DEF Xfer, Busy
  <2>3. Ended
    BY <2>2 DEF IInv, Stages, Starting, Started, Addressing, Asking, Writing, Turned,
       Reading, Got, Broken
  <2>4. QED
    BY <2>1, <2>3 DEF Ended, Starting, Xfer
<1>5. RefusedInv'
  BY DEF RefusedInv, Xfer
<1>6. QED
  BY <1>3, <1>4, <1>5 DEF IInv, Stages

(* STAT tells the stage the handler is called in.                          *)
LEMMA StageOfStat ==
  ASSUME Stages
  PROVE  /\ stat \in {"08", "10"} => Started
         /\ stat \in {"18", "20", "28", "30"} => Asking
         /\ stat \in {"40", "48"} => Turned
         /\ stat \in {"50", "58"} => Got
         /\ stat \in {"38", "00"} => Broken
  BY DEF Stages, Ended, Starting, Started, Addressing, Asking, Writing, Turned,
     Reading, Got, Broken

(* What TypeOK asks of xfer after a step that leaves the history alone.    *)
XferTyped(x) ==
  /\ x \in [request : Requests \cup {Idle}, txSz : Nat, rx : Seq(Bytes), rxSz : Nat,
            status : {"BUSY", "OK"} \cup Failures]
  /\ x.txSz <= Len(x.request.tx) /\ x.rxSz <= x.request.room

LEMMA TypeFrame ==
  ASSUME TypeOK, NEW set \in SUBSET {"STA", "STO", "AA"}, Control(set),
         XferTyped(xfer'), dat' \in Nat, UNCHANGED <<phase, history>>
  PROVE  TypeOK'
  BY ControlType DEF TypeOK, XferTyped, history

(* A transfer that ends with STOP, or on a free bus, has ended.            *)
LEMMA FinishKeeps ==
  ASSUME IInv, NEW status \in {"OK"} \cup Failures, NEW set \in SUBSET {"STO"},
         Finish(status, set), UNCHANGED <<phase, history>>,
         phase = "free" \/ set = {"STO"}
  PROVE  IInv'
<1>1. XferTyped(xfer')
  BY DEF Finish, IInv, TypeOK, XferTyped, Failures
<1>2. TypeOK'
  BY <1>1, TypeFrame DEF Finish, IInv, TypeOK
<1>3. xfer'.status = status /\ status # "BUSY"
  BY DEF Finish, IInv, TypeOK, Failures
<1>4. Ended'
  BY <1>3, ControlType DEF Ended, Busy, Finish, IInv
<1>5. RefusedInv'
  BY <1>3 DEF RefusedInv, Busy
<1>6. QED
  BY <1>2, <1>4, <1>5 DEF IInv, Stages

(* The handler after the address of a read, and after every byte.          *)
LEMMA ReadOnKeeps ==
  ASSUME IInv, Busy, NEW rx \in Seq(Bytes), NEW left \in Nat, ReadOn(rx, left),
         UNCHANGED <<phase, history>>,
         phase = "reading", "STO" \notin con, con \subseteq {"AA"}, Counted, xfer.txSz = 0,
         left <= xfer.request.room, Len(rx) + left = xfer.request.room, given = rx,
         refused => Ignores
  PROVE  IInv'
<1>1. xfer' = [request |-> xfer.request, txSz |-> xfer.txSz, rx |-> rx, rxSz |-> left,
               status |-> IF left = 0 THEN "OK" ELSE "BUSY"]
  BY DEF ReadOn, IInv, TypeOK, Busy
<1> DEFINE set == {f \in {"AA", "STO"} : IF f = "AA" THEN AckNext(left) ELSE left = 0}
<1>2. set \in SUBSET {"STA", "STO", "AA"} /\ Control(set)
  BY DEF ReadOn
<1>3. TypeOK'
  <2>1. XferTyped(xfer')
    BY <1>1 DEF XferTyped, IInv, TypeOK, Failures
  <2>2. dat' \in Nat
    BY DEF ReadOn, IInv, TypeOK
  <2>3. QED
    BY <1>2, <2>1, <2>2, TypeFrame DEF IInv
<1>4. /\ con' \subseteq {"STA", "STO", "AA"} /\ stat' = "none" /\ "STA" \notin con'
      /\ "AA" \in con' <=> AckNext(left)
      /\ "STO" \in con' <=> left = 0
  BY <1>2, ControlType DEF IInv
<1>5. CASE left = 0
  <2>1. Ended'
    BY <1>1, <1>4, <1>5 DEF Ended, Busy
  <2>2. RefusedInv'
    BY <1>1, <1>5 DEF RefusedInv, Busy
  <2>3. QED
    BY <1>3, <2>1, <2>2 DEF IInv, Stages
<1>6. CASE left # 0
  <2>1. /\ xfer'.request = xfer.request /\ xfer'.txSz = 0 /\ xfer'.rx = rx
        /\ xfer'.rxSz = left /\ xfer'.status = "BUSY"
    BY <1>1, <1>6
  <2>2. ("AA" \in con <=> AckNext(xfer.rxSz))'
    BY <1>4, <2>1 DEF AckNext, LastAck
  <2>3. Counted' /\ SomeRead' /\ given' = xfer'.rx
    BY <1>6, <2>1 DEF Counted, SomeRead, history
  <2>4. Busy' /\ stat' = "none" /\ phase' = "reading" /\ con' \subseteq {"AA"}
    BY <1>4, <1>6, <2>1 DEF Busy
  <2>5. Reading'
    BY <2>2, <2>3, <2>4 DEF Reading
  <2>6. RefusedInv'
    BY <2>1 DEF RefusedInv, Ignores, history
  <2>7. QED
    BY <1>3, <2>5, <2>6 DEF IInv, Stages
<1>7. QED
  BY <1>5, <1>6

(* Every case of the handler.                                              *)
LEMMA HandlerKeeps ==
  ASSUME IInv, XferHandler
  PROVE  IInv'
<1>0. /\ TypeOK /\ Stages /\ RefusedInv
      /\ UNCHANGED <<phase, history>>
      /\ xfer.request \in Requests \cup {Idle}
  BY DEF IInv, XferHandler, TypeOK
<1>1. CASE SlaveAddress
  <2>1. Started /\ Control({}) /\ xfer' = xfer
    BY <1>0, <1>1, StageOfStat DEF SlaveAddress, Changed
  <2>2. dat' \in Nat /\ (dat' % 2 = 1 <=> xfer.txSz = 0)
    <3>1. xfer.request.slaveAddr \in Nat
      BY <1>0, RequestType
    <3>2. QED
      BY <1>1, <3>1 DEF SlaveAddress
  <2>3. TypeOK'
    BY <1>0, <2>1, <2>2, TypeFrame DEF TypeOK, XferTyped
  <2>4. con' = {} /\ stat' = "none"
    BY <1>0, <2>1 DEF Control, Started, TypeOK
  <2>5. Addressing'
    BY <1>0, <2>1, <2>2, <2>4 DEF Addressing, Started, Busy, Counted, NoneRead, history
  <2>6. RefusedInv'
    BY <1>0, <2>1 DEF RefusedInv, Started, Busy, Ignores, history
  <2>7. QED
    BY <2>3, <2>5, <2>6 DEF IInv, Stages
<1>2. CASE Nak
  <2>1. Finish("NAK", {"STO"})
    BY <1>2 DEF Nak
  <2>2. QED
    BY <1>0, <2>1, FinishKeeps DEF Failures
<1>3. CASE SendByte
  <2>1. Asking /\ Control({}) /\ xfer.txSz # 0 /\ xfer' = [xfer EXCEPT !.txSz = @ - 1]
    BY <1>0, <1>3, StageOfStat DEF SendByte, Acked, Changed
  <2>2. /\ xfer' = [request |-> xfer.request, txSz |-> xfer.txSz - 1, rx |-> xfer.rx,
                    rxSz |-> xfer.rxSz, status |-> xfer.status]
        /\ Len(xfer.request.tx) \in Nat /\ Len(sent) \in Nat
        /\ xfer.txSz \in 1 .. Len(xfer.request.tx)
    <3>1. Len(xfer.request.tx) \in Nat /\ Len(sent) \in Nat
      BY <1>0, RequestType DEF TypeOK
    <3>2. xfer.txSz \in 1 .. Len(xfer.request.tx)
      BY <1>0, <2>1, <3>1 DEF TypeOK
    <3>3. QED
      BY <1>0, <2>1, <3>1, <3>2 DEF TypeOK
  <2>3. dat' = xfer.request.tx[Len(sent) + 1] /\ dat' \in Nat
    <3>1. Len(xfer.request.tx) - xfer.txSz + 1 = Len(sent) + 1
      BY <2>1, <2>2 DEF Asking, Counted
    <3>2. Len(sent) + 1 \in 1 .. Len(xfer.request.tx)
      BY <2>2, <3>1
    <3>3. QED
      BY <1>0, <1>3, <3>1, <3>2, RequestType DEF SendByte
  <2>4. TypeOK'
    <3>1. XferTyped(xfer')
      BY <1>0, <2>2 DEF TypeOK, XferTyped
    <3>2. QED
      BY <1>0, <2>1, <2>3, <3>1, TypeFrame
  <2>5. con' = {} /\ stat' = "none"
    BY <2>1 DEF Control, Asking
  <2>6. Writing'
    <3>1. Len(sent') + 1 + xfer'.txSz = Len(xfer'.request.tx)
      BY <1>0, <2>1, <2>2 DEF Asking, Counted, history
    <3>2. QED
      BY <1>0, <2>1, <2>2, <2>3, <2>5, <3>1 DEF Writing, Asking, Busy, NoneRead, history
  <2>7. RefusedInv'
    BY <1>0, <1>3, <2>2 DEF RefusedInv, SendByte, Acked, Changed, Busy, Ignores, history
  <2>8. QED
    BY <2>4, <2>6, <2>7 DEF IInv, Stages
<1>4. CASE TurnAround
  <2>1. Asking /\ Control({"STA"}) /\ xfer' = xfer /\ dat' = dat
    BY <1>0, <1>4, StageOfStat DEF TurnAround, Acked, Changed, driver
  <2>2. TypeOK'
    BY <1>0, <2>1, TypeFrame DEF TypeOK, XferTyped
  <2>3. Starting'
    BY <1>0, <2>1 DEF Starting, Asking, Control, Busy, Counted, NoneRead, history
  <2>4. RefusedInv'
    BY <1>0, <1>4, <2>1 DEF RefusedInv, TurnAround, Acked, Changed, Busy, Ignores, history
  <2>5. QED
    BY <2>2, <2>3, <2>4 DEF IInv, Stages
<1>5. CASE Written
  <2>1. Finish("OK", {"STO"})
    BY <1>5 DEF Written
  <2>2. QED
    BY <1>0, <2>1, FinishKeeps
<1>6. CASE Addressed
  <2>1. Turned /\ ReadOn(xfer.rx, xfer.rxSz) /\ stat = "40"
    BY <1>0, <1>6, StageOfStat DEF Addressed, Changed
  <2>2. xfer.rx \in Seq(Bytes) /\ xfer.rxSz \in Nat /\ xfer.request.room \in Nat
    BY <1>0, RequestType DEF TypeOK
  <2>3. Len(xfer.rx) + xfer.rxSz = xfer.request.room /\ given = xfer.rx
    BY <2>1, <2>2 DEF Turned, NoneRead
  <2>4. refused => Ignores
    BY <1>0, <2>1 DEF RefusedInv, Turned
  <2>5. /\ Busy /\ phase = "reading" /\ "STO" \notin con /\ con \subseteq {"AA"}
        /\ Counted /\ xfer.txSz = 0
    BY <2>1 DEF Turned
  <2>6. QED
    BY <1>0, <2>1, <2>2, <2>3, <2>4, <2>5, ReadOnKeeps DEF TypeOK
<1>7. CASE Received
  <2>1. Got /\ ReadOn(Append(xfer.rx, dat), xfer.rxSz - 1)
    BY <1>0, <1>7, StageOfStat DEF Received, Changed
  <2>2. /\ given = Append(xfer.rx, dat) /\ given \in Seq(Bytes)
        /\ xfer.rx \in Seq(Bytes) /\ xfer.rxSz \in Nat \ {0} /\ xfer.request.room \in Nat
        /\ xfer.rxSz <= xfer.request.room
    BY <1>0, <2>1, RequestType DEF TypeOK, Got, SomeRead
  <2>3. Len(given) + (xfer.rxSz - 1) = xfer.request.room
    BY <2>1, <2>2 DEF Got, SomeRead
  <2>4. refused => Ignores
    BY <1>0, <2>1 DEF RefusedInv, Got
  <2>5. /\ Busy /\ phase = "reading" /\ "STO" \notin con /\ con \subseteq {"AA"}
        /\ Counted /\ xfer.txSz = 0
    BY <2>1 DEF Got, SomeRead
  <2>6. xfer.rxSz - 1 \in Nat /\ xfer.rxSz - 1 <= xfer.request.room
    BY <2>2
  <2>7. QED
    BY <1>0, <2>1, <2>2, <2>3, <2>4, <2>5, <2>6, ReadOnKeeps
<1>8. CASE SlaveNak
  <2>1. Finish("SLAVE_NAK", {"STO"})
    BY <1>8 DEF SlaveNak
  <2>2. QED
    BY <1>0, <2>1, FinishKeeps DEF Failures
<1>9. CASE ArbLost
  <2>1. Finish("ARBLOST", {}) /\ phase = "free"
    BY <1>0, <1>9, StageOfStat DEF ArbLost, Changed, Broken
  <2>2. QED
    BY <1>0, <2>1, FinishKeeps DEF Failures
<1>10. CASE BusError
  <2>1. Finish("BUS_ERROR", {"STO"})
    BY <1>10 DEF BusError
  <2>2. QED
    BY <1>0, <2>1, FinishKeeps DEF Failures
<1>11. QED
  BY <1>1, <1>2, <1>3, <1>4, <1>5, <1>6, <1>7, <1>8, <1>9, <1>10 DEF XferHandler

(* Every step of the controller and the bus.                               *)
LEMMA BusKeeps ==
  ASSUME IInv, Bus
  PROVE  IInv'
<1>0. /\ TypeOK /\ Stages /\ RefusedInv
      /\ xfer.request \in Requests \cup {Idle}
  BY DEF IInv, TypeOK
<1>1. ASSUME NEW code \in {"08", "10"}, NEW from \in {"free", "writing"}, Start(code, from)
      PROVE  IInv'
  <2>1. Starting
    BY <1>0, <1>1 DEF Start, Stages, Ended, Starting, Started, Addressing, Asking, Writing,
       Turned, Reading, Got, Broken
  <2>2. Started'
    BY <1>1, <2>1 DEF Started, Starting, Start, Busy, Counted, NoneRead, driver, history
  <2>3. TypeOK'
    BY <1>0, <1>1 DEF TypeOK, Start, driver, history, Codes
  <2>4. RefusedInv'
    BY <1>0, <1>1 DEF RefusedInv, Start, Busy, Ignores, driver, history
  <2>5. QED
    BY <2>2, <2>3, <2>4 DEF IInv, Stages
<1>2. CASE Stop
  <2>1. Ended \/ Starting
    BY <1>0, <1>2 DEF Stop, Stages, Ended, Starting, Started, Addressing, Asking, Writing,
       Turned, Reading, Got, Broken
  <2>2. Ended' \/ Starting'
    BY <1>2, <2>1 DEF Ended, Starting, Stop, Busy, Counted, NoneRead, driver, history
  <2>3. TypeOK'
    BY <1>0, <1>2 DEF TypeOK, Stop, driver, history
  <2>4. RefusedInv'
    BY <1>0, <1>2 DEF RefusedInv, Stop, Busy, Ignores, driver, history
  <2>5. QED
    BY <2>2, <2>3, <2>4 DEF IInv, Stages
<1>3. ASSUME NEW ack \in BOOLEAN, Address(ack)
      PROVE  IInv'
  <2>1. Addressing
    BY <1>0, <1>3 DEF Address, Clocking, Stages, Ended, Starting, Started, Addressing, Asking,
       Writing, Turned, Reading, Got, Broken
  <2>2. /\ UNCHANGED <<xfer, dat, con, sent, given>> /\ con' = {}
        /\ refused' = (refused \/ ~ack)
    BY <1>3, <2>1 DEF Address, Addressing, driver
  <2>3. \/ /\ dat % 2 = 0 /\ phase' = "writing"
           /\ stat' = IF ack THEN "18" ELSE "20"
        \/ /\ dat % 2 = 1 /\ phase' = "reading"
           /\ stat' = IF ack THEN "40" ELSE "48"
    BY <1>3 DEF Address
  <2>4. Asking' \/ Turned'
    BY <2>1, <2>2, <2>3 DEF Addressing, Asking, Turned, Busy, Counted, NoneRead
  <2>5. TypeOK'
    <3>1. stat' \in Codes /\ phase' \in {"writing", "reading"}
      BY <2>3 DEF Codes
    <3>2. refused' \in BOOLEAN
      BY <2>2
    <3>3. QED
      BY <1>0, <2>2, <3>1, <3>2 DEF TypeOK
  <2>6. RefusedInv'
    <3>1. ~ack => stat' \in {"20", "48"}
      BY <2>3
    <3>2. refused /\ Busy => Ignores
      BY <1>0, <2>1 DEF RefusedInv, Addressing
    <3>3. QED
      BY <2>2, <3>1, <3>2 DEF RefusedInv, Ignores, Busy
  <2>7. QED
    BY <2>4, <2>5, <2>6 DEF IInv, Stages
<1>4. ASSUME NEW ack \in BOOLEAN, Send(ack)
      PROVE  IInv'
  <2>1. Writing
    BY <1>0, <1>4 DEF Send, Clocking, Stages, Ended, Starting, Started, Addressing, Asking,
       Writing, Turned, Reading, Got, Broken
  <2>2. /\ UNCHANGED <<xfer, dat, con, phase, given>> /\ sent' = Append(sent, dat)
        /\ stat' = (IF ack THEN "28" ELSE "30") /\ refused' = (refused \/ ~ack)
    BY <1>4 DEF Send, driver
  <2>3. sent \in Seq(Nat) /\ dat \in Nat
    BY <1>0 DEF TypeOK
  <2>4. sent' \in Seq(Nat) /\ Len(sent') = Len(sent) + 1
    BY <2>2, <2>3
  <2>5. Asking'
    BY <2>1, <2>2, <2>3, <2>4 DEF Writing, Asking, Busy, Counted, NoneRead
  <2>6. TypeOK'
    <3>1. stat' \in Codes /\ refused' \in BOOLEAN
      BY <2>2 DEF Codes
    <3>2. QED
      BY <1>0, <2>2, <2>4, <3>1 DEF TypeOK
  <2>7. RefusedInv'
    <3>1. ~ack => stat' = "30"
      BY <2>2
    <3>2. refused /\ Busy => Ignores
      BY <1>0, <2>1 DEF RefusedInv, Writing
    <3>3. QED
      BY <2>2, <3>1, <3>2 DEF RefusedInv, Ignores, Busy
  <2>8. QED
    BY <2>5, <2>6, <2>7 DEF IInv, Stages
<1>5. ASSUME NEW b \in Bytes, Receive(b)
      PROVE  IInv'
  <2>1. Reading
    BY <1>0, <1>5 DEF Receive, Clocking, Stages, Ended, Starting, Started, Addressing, Asking,
       Writing, Turned, Reading, Got, Broken
  <2>2. /\ UNCHANGED <<xfer, con, phase, sent, refused>> /\ dat' = b
        /\ given' = Append(given, b) /\ stat' = IF "AA" \in con THEN "50" ELSE "58"
    BY <1>5 DEF Receive
  <2>3. given' \in Seq(Bytes) /\ dat' \in Nat
    BY <1>0, <2>2, RequestsAssumption DEF TypeOK
  <2>4. Got'
    BY <2>1, <2>2 DEF Reading, Got, Busy, Counted, SomeRead, AckNext, LastAck
  <2>5. TypeOK'
    BY <1>0, <2>2, <2>3 DEF TypeOK, Codes
  <2>6. RefusedInv'
    BY <1>0, <2>1, <2>2 DEF RefusedInv, Reading, Busy, Ignores
  <2>7. QED
    BY <2>4, <2>5, <2>6 DEF IInv, Stages
<1>6. ASSUME NEW which \in {"38", "00"}, Fault(which)
      PROVE  IInv'
  <2>1. Addressing \/ Writing \/ Reading
    BY <1>0, <1>6 DEF Fault, Clocking, Stages, Ended, Starting, Started, Addressing, Asking,
       Writing, Turned, Reading, Got, Broken
  <2>2. Broken'
    BY <1>6, <2>1 DEF Fault, Addressing, Writing, Reading, Broken, Busy, driver
  <2>3. TypeOK'
    BY <1>0, <1>6 DEF TypeOK, Fault, driver, history, Codes
  <2>4. RefusedInv'
    BY <1>0, <1>6, <2>1 DEF RefusedInv, Fault, Addressing, Writing, Reading, Busy, Ignores,
       driver, history
  <2>5. QED
    BY <2>2, <2>3, <2>4 DEF IInv, Stages
<1>7. QED
  BY <1>1, <1>2, <1>3, <1>4, <1>5, <1>6 DEF Bus

(* IInv is inductive.                                                      *)
LEMMA NextKeeps == IInv /\ [Next]_vars => IInv'
<1> SUFFICES ASSUME IInv, [Next]_vars PROVE IInv'
  OBVIOUS
<1>1. CASE Next
  BY <1>1, XferKeeps, HandlerKeeps, BusKeeps DEF Next
<1>2. CASE UNCHANGED vars
  <2>1. TypeOK'
    BY <1>2 DEF vars, history, IInv, TypeOK
  <2>2. Stages'
    BY <1>2 DEF vars, history, IInv, Stages, Ended, Starting, Started, Addressing, Asking,
       Writing, Turned, Reading, Got, Broken, Busy, Counted, NoneRead, SomeRead, AckNext, LastAck
  <2>3. RefusedInv'
    BY <1>2 DEF vars, history, IInv, RefusedInv, Busy, Ignores
  <2>4. QED
    BY <2>1, <2>2, <2>3 DEF IInv
<1>3. QED
  BY <1>1, <1>2

LEMMA SpecIInv == Spec => []IInv
  BY InitIInv, NextKeeps, PTL DEF Spec

-----------------------------------------------------------------------------
(* The counters of a transfer never pass zero and what is stored is bytes, *)
(* whatever the requests and the bus.                                      *)
THEOREM TypeCorrect == Spec => []TypeOK
<1>1. IInv => TypeOK
  BY DEF IInv
<1>2. QED
  BY <1>1, SpecIInv, PTL

(* The master refuses the last byte and no other, for any number of bytes  *)
(* asked for.                                                              *)
THEOREM LastByteIsRefused == Spec => []OnlyLastByteNacked
<1>1. IInv => OnlyLastByteNacked
  <2> SUFFICES ASSUME IInv PROVE OnlyLastByteNacked
    OBVIOUS
  <2>1. stat \in {"50", "58"} => Got /\ xfer.rxSz \in Nat
    BY StageOfStat DEF IInv, TypeOK
  <2>2. QED
    BY <2>1 DEF OnlyLastByteNacked, Got, SomeRead, AckNext
<1>2. QED
  BY <1>1, SpecIInv, PTL

(* Whatever case of the handler ends a transfer, the bus is given back.    *)
THEOREM BusIsGivenBack == Spec => []BusReleased
<1>1. IInv => BusReleased
  BY DEF IInv, BusReleased, Stages, Ended, Starting, Started, Addressing, Asking, Writing,
     Turned, Reading, Got, Broken, Busy
<1>2. QED
  BY <1>1, SpecIInv, PTL

(* Whatever a transfer has gone through, and the one before it, the        *)
(* controller has something to do while its caller polls it.               *)
THEOREM AlwaysSomethingToDo == Spec => []NeverStuck
<1>1. IInv => NeverStuck
  BY DEF IInv, NeverStuck, Stages, Ended, Starting, Started, Addressing, Asking, Writing,
     Turned, Reading, Got, Broken, Busy
<1>2. QED
  BY <1>1, SpecIInv, PTL

-----------------------------------------------------------------------------
(* The refinement: every step of the driver, the controller or the bus is  *)
(* one of I2cTransfer, or leaves what the caller sees alone.               *)
LEMMA InitRefines == Init => Promise!Init
  BY DEF Init, Promise!Init, Transfer, Idle

LEMMA FinishRefines ==
  ASSUME IInv, Busy, NEW status \in {"OK"} \cup Failures, NEW set, Finish(status, set),
         UNCHANGED <<phase, history>>, status = "OK" => Promise!Complete /\ xfer.rx = given
  PROVE  Promise!End
<1>1. /\ xfer'.status = status /\ xfer'.rx = xfer.rx /\ xfer'.request = xfer.request
      /\ status # "BUSY"
  BY DEF Finish, IInv, TypeOK, Failures
<1>2. QED
  BY <1>1 DEF Promise!End, Busy, history

LEMMA ReadOnRefines ==
  ASSUME IInv, Busy, NEW rx, NEW left, ReadOn(rx, left), UNCHANGED <<phase, history>>,
         rx = given, left = 0 => Promise!Complete
  PROVE  Promise!End \/ Promise!Store
<1>1. /\ xfer'.rx = given /\ xfer'.request = xfer.request
      /\ xfer'.status = IF left = 0 THEN "OK" ELSE "BUSY"
  BY DEF ReadOn, IInv, TypeOK, Busy
<1>2. QED
  BY <1>1 DEF Promise!End, Promise!Store, Busy, history

LEMMA HandlerRefines ==
  ASSUME IInv, XferHandler
  PROVE  Promise!Next \/ UNCHANGED Promise!tvars
<1>0. /\ TypeOK /\ Stages /\ RefusedInv /\ Busy
      /\ UNCHANGED <<phase, history>>
      /\ xfer.request.room \in Nat /\ Len(xfer.request.tx) \in Nat
      /\ xfer.txSz \in Nat /\ xfer.rxSz \in Nat /\ Len(sent) \in Nat
  <2>1. TypeOK /\ Stages /\ RefusedInv /\ UNCHANGED <<phase, history>>
    BY DEF IInv, XferHandler
  <2>2. xfer.request.room \in Nat /\ Len(xfer.request.tx) \in Nat
    BY <2>1, RequestType DEF TypeOK
  <2>3. xfer.txSz \in Nat /\ xfer.rxSz \in Nat /\ Len(sent) \in Nat
    BY <2>1 DEF TypeOK
  <2>4. Busy
    BY DEF XferHandler, SlaveAddress, Nak, SendByte, Acked, TurnAround, Written, Addressed,
       Received, SlaveNak, ArbLost, BusError, Changed, Busy
  <2>5. QED
    BY <2>1, <2>2, <2>3, <2>4
<1>1. CASE SlaveAddress \/ TurnAround
  BY <1>0, <1>1 DEF SlaveAddress, TurnAround, driver, history, Promise!tvars
<1>2. CASE SendByte
  <2>1. xfer' = [xfer EXCEPT !.txSz = @ - 1]
    BY <1>2 DEF SendByte
  <2>2. xfer'.status = xfer.status /\ xfer'.request = xfer.request /\ xfer'.rx = xfer.rx
    BY <1>0, <2>1 DEF TypeOK
  <2>3. QED
    BY <1>0, <2>2 DEF history, Promise!tvars
<1>3. CASE Nak \/ SlaveNak \/ ArbLost \/ BusError
  <2>1. \E status \in Failures, set \in SUBSET {"STO"} : Finish(status, set)
    BY <1>3 DEF Nak, SlaveNak, ArbLost, BusError, Failures
  <2>2. Promise!End
    BY <1>0, <2>1, FinishRefines DEF Failures
  <2>3. QED
    BY <2>2 DEF Promise!Next
<1>4. CASE Written
  <2>1. Asking /\ Finish("OK", {"STO"}) /\ xfer.txSz = 0 /\ xfer.rxSz = 0
    BY <1>0, <1>4, StageOfStat DEF Written, Acked, Changed
  <2>2. xfer.rx = given /\ Len(given) = xfer.request.room /\ Len(sent) = Len(xfer.request.tx)
    BY <1>0, <2>1 DEF Asking, Counted, NoneRead
  <2>3. refused => Ignores
    BY <1>0, <1>4 DEF RefusedInv, Written, Acked, Changed
  <2>4. Promise!End
    BY <1>0, <2>1, <2>2, <2>3, FinishRefines DEF Promise!Complete, Ignores
  <2>5. QED
    BY <2>4 DEF Promise!Next
<1>5. CASE Addressed
  <2>1. Turned /\ ReadOn(xfer.rx, xfer.rxSz) /\ stat = "40"
    BY <1>0, <1>5, StageOfStat DEF Addressed, Changed
  <2>2. /\ xfer.rx = given /\ Len(given) + xfer.rxSz = xfer.request.room
        /\ Len(sent) = Len(xfer.request.tx) /\ (refused => Ignores)
    BY <1>0, <2>1 DEF Turned, Counted, NoneRead, RefusedInv
  <2>3. xfer.rxSz = 0 => Promise!Complete
    BY <1>0, <2>2 DEF Promise!Complete, Ignores, TypeOK
  <2>4. QED
    BY <1>0, <2>1, <2>2, <2>3, ReadOnRefines DEF Promise!Next
<1>6. CASE Received
  <2>1. Got /\ ReadOn(Append(xfer.rx, dat), xfer.rxSz - 1)
    BY <1>0, <1>6, StageOfStat DEF Received, Changed
  <2>2. /\ Append(xfer.rx, dat) = given
        /\ Len(sent) = Len(xfer.request.tx) /\ (refused => Ignores)
    BY <1>0, <2>1 DEF Got, Counted, SomeRead, RefusedInv
  <2>3. Len(given) = Len(xfer.rx) + 1 /\ Len(xfer.rx) + xfer.rxSz = xfer.request.room
    BY <1>0, <2>1, <2>2 DEF TypeOK, Got, SomeRead
  <2>4. xfer.rxSz - 1 = 0 => Promise!Complete
    BY <1>0, <2>2, <2>3 DEF Promise!Complete, Ignores, TypeOK
  <2>5. QED
    BY <1>0, <2>1, <2>2, <2>4, ReadOnRefines DEF Promise!Next
<1>7. QED
  BY <1>1, <1>2, <1>3, <1>4, <1>5, <1>6 DEF XferHandler

LEMMA BusRefines ==
  ASSUME IInv, Bus
  PROVE  Promise!Next \/ UNCHANGED Promise!tvars
<1>0. /\ TypeOK /\ Stages
      /\ xfer.request.room \in Nat /\ Len(xfer.request.tx) \in Nat
      /\ xfer.txSz \in Nat /\ xfer.rxSz \in Nat /\ Len(sent) \in Nat
  <2>1. TypeOK /\ Stages
    BY DEF IInv
  <2>2. xfer.request.room \in Nat /\ Len(xfer.request.tx) \in Nat
    BY <2>1, RequestType DEF TypeOK
  <2>3. xfer.txSz \in Nat /\ xfer.rxSz \in Nat /\ Len(sent) \in Nat
    BY <2>1 DEF TypeOK
  <2>4. QED
    BY <2>1, <2>2, <2>3
<1>1. CASE Start("08", "free") \/ Start("10", "writing") \/ Stop
           \/ \E which \in {"38", "00"} : Fault(which)
  BY <1>1 DEF Start, Stop, Fault, driver, history, Promise!tvars
<1>2. ASSUME NEW ack \in BOOLEAN, Address(ack)
      PROVE  Promise!Refuse \/ UNCHANGED Promise!tvars
  <2>1. Addressing
    BY <1>0, <1>2 DEF Address, Clocking, Stages, Ended, Starting, Started, Addressing, Asking,
       Writing, Turned, Reading, Got, Broken
  <2>2. CASE ack
    BY <1>0, <1>2, <2>2 DEF Address, driver, Promise!tvars, TypeOK
  <2>3. CASE ~ack
    BY <1>2, <2>1, <2>3 DEF Address, Addressing, Busy, driver, Promise!Refuse
  <2>4. QED
    BY <2>2, <2>3
<1>3. ASSUME NEW ack \in BOOLEAN, Send(ack)
      PROVE  Promise!Put
  <2>1. Writing
    BY <1>0, <1>3 DEF Send, Clocking, Stages, Ended, Starting, Started, Addressing, Asking,
       Writing, Turned, Reading, Got, Broken
  <2>2. Len(sent) < Len(xfer.request.tx) /\ dat = xfer.request.tx[Len(sent) + 1]
    BY <1>0, <2>1 DEF Writing
  <2>3. refused' \in {refused, TRUE}
    BY <1>0, <1>3 DEF Send, TypeOK
  <2>4. QED
    BY <1>3, <2>1, <2>2, <2>3 DEF Send, Writing, Busy, driver, Promise!Put
<1>4. ASSUME NEW b \in Bytes, Receive(b)
      PROVE  Promise!Get
  <2>1. Reading
    BY <1>0, <1>4 DEF Receive, Clocking, Stages, Ended, Starting, Started, Addressing, Asking,
       Writing, Turned, Reading, Got, Broken
  <2>2. /\ Len(sent) = Len(xfer.request.tx) /\ Len(given) < xfer.request.room
        /\ xfer.rx = given
    BY <1>0, <2>1 DEF Reading, Counted, SomeRead, TypeOK
  <2>3. QED
    BY <1>4, <2>1, <2>2 DEF Receive, Reading, Busy, Promise!Get
<1>5. QED
  BY <1>1, <1>2, <1>3, <1>4 DEF Bus, Promise!Next

(* The driver implements I2cTransfer: on any bus, for any requests, OK is  *)
(* returned only when every byte went out once and in order, every byte    *)
(* that came in is in the buffer, and no refusal was passed over that the  *)
(* caller had not asked to ignore.                                         *)
THEOREM TransferImplemented == Spec => IsTransfer
<1>1. IInv /\ [Next]_vars => [Promise!Next]_(Promise!tvars)
  <2> SUFFICES ASSUME IInv, [Next]_vars PROVE Promise!Next \/ UNCHANGED Promise!tvars
    OBVIOUS
  <2>1. ASSUME NEW r \in Requests, Xfer(r) PROVE Promise!Next
    <3>1. Promise!Begin
      BY <2>1 DEF Xfer, Transfer, Promise!Begin
    <3>2. QED
      BY <3>1 DEF Promise!Next
  <2>2. CASE UNCHANGED vars
    BY <2>2 DEF vars, history, Promise!tvars
  <2>3. QED
    BY <2>1, <2>2, HandlerRefines, BusRefines DEF Next
<1>2. QED
  BY <1>1, SpecIInv, InitRefines, PTL DEF Spec, IsTransfer, Promise!Spec
=============================================================================
