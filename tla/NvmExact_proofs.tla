--------------------------- MODULE NvmExact_proofs ---------------------------
(***************************************************************************)
(* Theorems about calls of the serial memories of which no transfer fails: *)
(* a read returns the cells that were asked for; a write leaves in every   *)
(* cell the last byte that lands there and all else as it was, but for the *)
(* extra bytes of mem48Write(); and these are the cells that were asked    *)
(* for when the chunks fit their pages.                                    *)
(***************************************************************************)
EXTENDS Nvm_proofs

-----------------------------------------------------------------------------
(* Reads.                                                                  *)

\* The first transfer of a read sends the address and receives nothing.
Asked == at = "pointed" =>
  /\ Busy => xfer.request.tx = AddressBytes(call.op, call.addr) /\ xfer.request.room = 0
  /\ ~Turned

\* Where the pointer is once n address bytes have been taken.
Aim(n) ==
  /\ n = 1 /\ Wide = 2 => chip[Device].ptr = ((call.addr \div Radix) % Radix) % Size[Device]
  /\ n = Wide => chip[Device].ptr = Cell(0)
Aiming == at = "pointed" /\ Talking /\ ~refused => Aim(Len(sent))
Aimed == at = "pointed" /\ xfer.status = "OK" => chip[Device].ptr = Cell(0)

\* Every byte that was given is that of its cell, and the pointer is at the next.
Exactly(bytes) == \A i \in 1 .. Len(bytes) : bytes[i] = cell[Device][Cell(i - 1)]
Following == at = "reading" /\ ~failed =>
  /\ xfer.request.room = call.len % Word
  /\ chip[Device].ptr = Cell(Len(given)) /\ Exactly(given)

\* All of them have been stored when the transfer succeeds.
Complete == at = "reading" /\ xfer.status = "OK" =>
  xfer.rx = given /\ Len(given) = xfer.request.room
Return == at = "idle" /\ call.op \notin Writes /\ call.len < Word /\ ~failed =>
  Len(xfer.rx) = call.len /\ Exactly(xfer.rx)

ReadInv == Asked /\ Aiming /\ Aimed /\ Following /\ Complete /\ Return

LEMMA InitReadInv == NvmInit => ReadInv
<1> SUFFICES ASSUME NvmInit PROVE ReadInv
  OBVIOUS
<1>1. at = "idle" /\ xfer.rx = <<>> /\ call.len = 0
  BY DEF NvmInit, Init, Transfer, Quiet
<1>2. QED
  BY <1>1 DEF ReadInv, Asked, Aiming, Aimed, Following, Complete, Return, Exactly

\* What a step that is not of main keeps, when it leaves the pointer of the
\* memory, what was given, and the cells of a memory that is read.
LEMMA ReadFrame ==
  ASSUME NvmInv, ReadInv, UNCHANGED main, xfer'.request = xfer.request,
         UNCHANGED given, chip'[Device].ptr = chip[Device].ptr,
         at # "sent" => cell'[Device] = cell[Device]
  PROVE  /\ UNCHANGED <<at, call, failed>> /\ Device' = Device /\ Wide' = Wide
         /\ \A n : Aim(n)' = Aim(n)
         /\ Following'
         /\ at # "sent" => \A b : Exactly(b)' = Exactly(b)
<1>1. UNCHANGED <<at, call, done, failed>>
  BY DEF main
<1>2. Device' = Device /\ Wide' = Wide /\ \A k : Cell(k)' = Cell(k)
  BY <1>1 DEF Device, Wide, Cell
<1>3. \A n : Aim(n)' = Aim(n)
  BY <1>1, <1>2 DEF Aim
<1>4. at # "sent" => \A b : Exactly(b)' = Exactly(b)
  BY <1>2 DEF Exactly
<1>5. Following'
  BY <1>1, <1>2, <1>4 DEF ReadInv, Following
<1>6. QED
  BY <1>1, <1>2, <1>3, <1>4, <1>5

\* A step of the bus after which no bytes are being sent.
LEMMA BusKeepsReads ==
  ASSUME NvmInv, ReadInv, UNCHANGED main, UNCHANGED <<xfer, given>>,
         chip'[Device].ptr = chip[Device].ptr,
         at # "sent" => cell'[Device] = cell[Device],
         Aiming', at = "pointed" => ~Turned'
  PROVE  ReadInv'
<1>1. /\ UNCHANGED <<at, call, failed>> /\ Device' = Device
      /\ Following' /\ (at # "sent" => \A b : Exactly(b)' = Exactly(b))
  BY ReadFrame
<1>2. \A k : Cell(k)' = Cell(k)
  BY <1>1 DEF Cell
<1>3. Asked'
  BY <1>1 DEF ReadInv, Asked, Busy, AddressBytes
<1>4. Aimed' /\ Complete'
  BY <1>1, <1>2 DEF ReadInv, Aimed, Complete
<1>5. Return'
  BY <1>1, <1>2 DEF ReadInv, Return, Exactly
<1>6. QED
  BY <1>1, <1>3, <1>4, <1>5 DEF ReadInv

-----------------------------------------------------------------------------
(* Main.                                                                   *)
LEMMA BeginsRead ==
  ASSUME NvmInv, ReadInv,
         (\E c \in Calls : Begin(c)) \/ Delay \/ WritePage \/ WriteReturns \/ ReadPoint
  PROVE  ReadInv'
<1>1. CASE (\E c \in Calls : Begin(c)) \/ Delay \/ WritePage
  <2>1. at' \in {"page", "point", "sent"}
    BY <1>1 DEF Begin, Delay, WritePage
  <2>2. QED
    BY <2>1 DEF ReadInv, Asked, Aiming, Aimed, Following, Complete, Return
<1>2. CASE WriteReturns
  <2>1. at' = "idle" /\ call' = call /\ call.op \in Writes
    BY <1>2 DEF WriteReturns, NvmInv, MainTyped
  <2>2. QED
    BY <2>1 DEF ReadInv, Asked, Aiming, Aimed, Following, Complete, Return
<1>3. CASE ReadPoint
  <2>1. /\ at' = "pointed" /\ UNCHANGED call
        /\ Xfer([slaveAddr |-> Dev(call.op), tx |-> AddressBytes(call.op, call.addr),
                 room |-> 0, options |-> {}])
    BY <1>3 DEF ReadPoint, Write
  <2>2. /\ xfer'.request.tx = AddressBytes(call.op, call.addr) /\ xfer'.request.room = 0
        /\ xfer'.status = "BUSY" /\ stat' = "none" /\ "STA" \in con'
    BY <2>1 DEF Xfer, Transfer
  <2>3. ~Talking' /\ ~Turned'
    BY <2>2 DEF Talking, Asking, Writing, Turned
  <2>4. Asked'
    BY <2>1, <2>2, <2>3 DEF Asked, AddressBytes
  <2>5. QED
    BY <2>1, <2>2, <2>3, <2>4 DEF ReadInv, Aiming, Aimed, Following, Complete, Return
<1>4. QED
  BY <1>1, <1>2, <1>3

LEMMA ReadDataReads ==
  ASSUME NvmInv, ReadInv, ReadData
  PROVE  ReadInv'
<1>1. /\ at = "pointed" /\ at' = "reading" /\ UNCHANGED <<call, cell, chip>>
      /\ failed' = (failed \/ xfer.status # "OK")
      /\ Xfer([slaveAddr |-> Dev(call.op), tx |-> <<>>, room |-> call.len % Word, options |-> {}])
  BY DEF ReadData, Read, Note
<1>2. given' = <<>> /\ xfer'.request.room = call.len % Word /\ xfer'.status = "BUSY"
  BY <1>1 DEF Xfer, Transfer
<1>3. Device' = Device /\ \A k : Cell(k)' = Cell(k)
  BY <1>1 DEF Device, Cell
<1>4. Following'
  <2>1. SUFFICES ASSUME ~failed' PROVE chip'[Device].ptr = Cell(0)
    BY <1>1, <1>2, <1>3 DEF Following, Exactly
  <2>2. QED
    BY <1>1, <2>1 DEF ReadInv, Aimed
<1>5. QED
  BY <1>1, <1>2, <1>4 DEF ReadInv, Asked, Aiming, Aimed, Complete, Return

LEMMA ReadReturnsReads ==
  ASSUME NvmInv, ReadInv, ReadReturns
  PROVE  ReadInv'
<1>1. /\ at = "reading" /\ at' = "idle" /\ UNCHANGED <<call, cell, xfer>>
      /\ failed' = (failed \/ xfer.status # "OK")
  BY DEF ReadReturns, Note, vars
<1>2. Device' = Device /\ \A k : Cell(k)' = Cell(k)
  BY <1>1 DEF Device, Cell
<1>3. Return'
  <2>1. SUFFICES ASSUME call.len < Word, ~failed'
                 PROVE  Len(xfer.rx) = call.len /\ Exactly(xfer.rx)
    BY <1>1, <1>2 DEF Return, Exactly
  <2>2. call.len % Word = call.len
    BY <2>1, CallTyped, Constants DEF NvmInv
  <2>3. QED
    BY <1>1, <2>1, <2>2 DEF ReadInv, Following, Complete
<1>4. QED
  BY <1>1, <1>3 DEF ReadInv, Asked, Aiming, Aimed, Following, Complete

-----------------------------------------------------------------------------
(* The handler ends a transfer well when all bytes have been sent and none *)
(* was refused, or when all have been received.                            *)
LEMMA HandlerSucceeds ==
  ASSUME NvmInv, XferHandler, xfer'.status = "OK"
  PROVE  \/ /\ Asking /\ Len(sent) = Len(xfer.request.tx) /\ ~refused
            /\ xfer.request.room = 0 /\ xfer'.rx = given /\ given = <<>>
         \/ /\ Turned /\ Len(sent) = Len(xfer.request.tx) /\ ~refused
            /\ xfer.request.room = 0 /\ xfer'.rx = given /\ given = <<>>
         \/ /\ Got /\ xfer'.rx = given /\ Len(given) = xfer.request.room
            /\ xfer.request.room > 0
<1>1. TypeOK /\ Stages /\ Busy
  BY HandlerLeads DEF NvmInv, IInv
<1>2. xfer = [request |-> xfer.request, txSz |-> xfer.txSz, rx |-> xfer.rx, rxSz |-> xfer.rxSz,
              status |-> xfer.status]
  BY <1>1 DEF TypeOK
<1>3. ~(SlaveAddress \/ TurnAround \/ SendByte)
  BY <1>1, <1>2 DEF SlaveAddress, TurnAround, SendByte, driver, Busy
<1>4. ~(Nak \/ SlaveNak \/ ArbLost \/ BusError)
  BY <1>2 DEF Nak, SlaveNak, ArbLost, BusError, Finish
<1>5. xfer.request \in Requests \cup {Idle} /\ Len(xfer.request.tx) \in Nat
      /\ xfer.request.room \in Nat
  BY <1>1, RequestType DEF TypeOK
<1>6. ASSUME stat \notin {"20", "30", "48"} PROVE ~refused
  BY <1>1, <1>6 DEF NvmInv, Using, Ignores, IInv, RefusedInv
<1>7. CASE Written \/ Addressed
  <2>1. /\ Asking \/ Turned
        /\ stat \notin {"20", "30", "48"} /\ xfer'.rx = xfer.rx
    <3>1. CASE Written
      <4>1. stat \in {"18", "28"}
        BY <1>1, <3>1 DEF Written, Acked, Changed, NvmInv, Using, Ignores
      <4>2. QED
        BY <1>1, <1>2, <3>1, <4>1, StageOfStat DEF Written, Finish
    <3>2. CASE Addressed
      BY <1>1, <1>2, <3>2, StageOfStat DEF Addressed, ReadOn, Changed
    <3>3. QED
      BY <1>7, <3>1, <3>2
  <2>2. xfer.txSz = 0 /\ xfer.rxSz = 0
    <3>1. CASE Written
      BY <3>1 DEF Written
    <3>2. CASE Addressed
      <4>1. Turned
        BY <1>1, <3>2, StageOfStat DEF Addressed, Changed
      <4>2. QED
        BY <1>1, <1>2, <3>2, <4>1 DEF Addressed, ReadOn, Busy, Turned
    <3>3. QED
      BY <1>7, <3>1, <3>2
  <2>3. Counted /\ NoneRead
    BY <2>1 DEF Asking, Turned
  <2>4. Len(sent) \in Nat
    BY <1>1 DEF TypeOK
  <2>5. QED
    BY <1>5, <1>6, <2>1, <2>2, <2>3, <2>4 DEF Counted, NoneRead
<1>8. CASE Received
  <2>1. Got /\ xfer'.rx = Append(xfer.rx, dat)
    BY <1>1, <1>2, <1>8, StageOfStat DEF Received, ReadOn, Changed
  <2>2. xfer.rxSz - 1 = 0
    BY <1>1, <1>2, <1>8 DEF Received, ReadOn, Busy
  <2>3. xfer.rx \in Seq(Bytes) /\ xfer.rxSz \in Nat
    BY <1>1 DEF TypeOK
  <2>4. given = Append(xfer.rx, dat) /\ Len(xfer.rx) + xfer.rxSz = xfer.request.room
    BY <2>1 DEF Got, SomeRead
  <2>5. Len(given) = Len(xfer.rx) + 1
    BY <2>3, <2>4
  <2>6. QED
    BY <1>5, <2>1, <2>2, <2>3, <2>4, <2>5
<1>9. QED
  BY <1>3, <1>4, <1>7, <1>8 DEF XferHandler

LEMMA HandlingReads ==
  ASSUME NvmInv, ReadInv, Handling
  PROVE  ReadInv'
<1>1. XferHandler /\ UNCHANGED main /\ UNCHANGED <<cell, chip>>
  BY DEF Handling
<1>2. /\ Busy /\ stat' = "none" /\ UNCHANGED <<sent, given, refused>>
      /\ xfer'.request = xfer.request /\ (Talking' => Asking)
  BY <1>1, HandlerLeads
<1>3. /\ UNCHANGED <<at, call, failed>> /\ Device' = Device /\ Wide' = Wide
      /\ \A n : Aim(n)' = Aim(n)
      /\ Following'
  BY <1>1, <1>2, ReadFrame
<1>4. Asked'
  <2>1. ~Turned'
    BY <1>2 DEF Turned
  <2>2. QED
    BY <1>2, <1>3, <2>1 DEF ReadInv, Asked, AddressBytes
<1>5. Aiming'
  BY <1>2, <1>3 DEF ReadInv, Aiming, Talking
<1>6. Aimed'
  <2>1. SUFFICES ASSUME at = "pointed", xfer'.status = "OK" PROVE chip[Device].ptr = Cell(0)
    BY <1>1, <1>3 DEF Aimed, Cell
  <2>2. xfer.request.room = 0 /\ ~Turned /\ Len(xfer.request.tx) = Wide
    BY <1>2, <2>1 DEF ReadInv, Asked, NvmInv, Using
  <2>3. Asking /\ Len(sent) = Wide /\ ~refused
    BY <1>1, <2>1, <2>2, HandlerSucceeds
  <2>4. QED
    BY <2>1, <2>3 DEF ReadInv, Aiming, Aim, Talking
<1>7. Complete'
  <2>1. SUFFICES ASSUME at = "reading", xfer'.status = "OK"
                 PROVE  xfer'.rx = given /\ Len(given) = xfer.request.room
    BY <1>2, <1>3 DEF Complete
  <2>2. Len(<<>>) = 0
    OBVIOUS
  <2>3. QED
    BY <1>1, <2>1, <2>2, HandlerSucceeds
<1>8. Return'
  BY <1>2, <1>3 DEF Return, NvmInv, Using
<1>9. QED
  BY <1>3, <1>4, <1>5, <1>6, <1>7, <1>8 DEF ReadInv

-----------------------------------------------------------------------------
(* The bus.                                                                *)
LEMMA StoreReads ==
  ASSUME NvmInv, Store \/ Forget, at # "sent"
  PROVE  cell'[Device] = cell[Device]
<1>1. Device \in Devices /\ cell[Device] \in [0 .. Size[Device] - 1 -> Bytes]
  BY CallTyped DEF NvmInv, CellsTyped
<1>2. DOMAIN chip[Device].latch = {}
  BY <1>1 DEF NvmInv, Latching
<1>3. CASE Store
  <2>1. cell'[Device] = Over(chip[Device].latch, cell[Device])
    BY <1>1, <1>3 DEF Store
  <2>2. QED
    BY <1>1, <1>2, <2>1 DEF Over
<1>4. QED
  BY <1>3 DEF Forget

LEMMA StorePointer ==
  ASSUME NvmInv, Store \/ Forget
  PROVE  chip'[Device].ptr = chip[Device].ptr
<1>1. Device \in Devices /\ ChipTyped(Device, chip[Device])
  BY CallTyped DEF NvmInv, ChipsTyped
<1>2. QED
  BY <1>1 DEF Store, Forget, ChipTyped

LEMMA QuietBusReads ==
  ASSUME NvmInv, ReadInv, UNCHANGED main,
         \/ Start("08", "free") /\ UNCHANGED <<cell, chip>>
         \/ Stop /\ Store
         \/ \E which \in {"38", "00"} : Failing(which)
  PROVE  ReadInv'
<1>1. UNCHANGED <<xfer, given>>
  BY DEF Start, Stop, Failing, Fault, driver, history
<1>2. ~Talking' /\ ~Turned'
  <2>1. stat' \in {"08", "38", "00"} \/ phase' = "free"
    BY DEF Start, Stop, Failing, Fault
  <2>2. QED
    BY <2>1 DEF Talking, Asking, Writing, Turned
<1>3. chip'[Device].ptr = chip[Device].ptr /\ (at # "sent" => cell'[Device] = cell[Device])
  BY StoreReads, StorePointer DEF Failing
<1>4. Aiming'
  BY <1>2 DEF Aiming
<1>5. QED
  BY <1>1, <1>2, <1>3, <1>4, BusKeepsReads

LEMMA AnswerReads ==
  ASSUME NvmInv, ReadInv, Answer \/ Silence, UNCHANGED main, UNCHANGED cell
  PROVE  ReadInv'
<1>1. PICK ack \in BOOLEAN : Address(ack) /\ (ack => Answer) /\ (~ack => Silence)
  BY DEF Answer, Silence
<1>2. Stages /\ TypeOK
  BY DEF NvmInv, IInv
<1>3. Addressing
  BY <1>1, <1>2, BusStage DEF Address
<1>4. Busy /\ Fresh /\ sent = <<>> /\ Slave = Selected /\ Selected = Device
  BY <1>3 DEF Addressing, Fresh, NvmInv, Using
<1>5. UNCHANGED <<xfer, sent, given>>
  BY <1>1 DEF Address, driver
<1>6. chip'[Device].ptr = chip[Device].ptr
  <2>1. CASE ack
    <3>1. Chip(Device, Listening(chip[Device]))
      BY <1>1, <1>4, <2>1 DEF Answer
    <3>2. Device \in Devices /\ DOMAIN chip = Devices
      BY CallTyped DEF NvmInv, ChipsTyped
    <3>3. QED
      BY <3>1, <3>2 DEF Chip, Listening
  <2>2. CASE ~ack
    BY <1>1, <2>2 DEF Silence
  <2>3. QED
    BY <2>1, <2>2
<1>7. Aiming'
  <2>1. UNCHANGED <<at, call>>
    BY DEF main
  <2>2. Wide' \in 1 .. 2 /\ Len(sent') = 0
    BY <1>4, <1>5 DEF Wide
  <2>3. Aim(0)'
    BY <2>2 DEF Aim
  <2>4. QED
    BY <2>2, <2>3 DEF Aiming
<1>8. at = "pointed" => ~Turned'
  <2>1. SUFFICES ASSUME at = "pointed" PROVE phase' # "reading"
    BY DEF Turned
  <2>2. Len(xfer.request.tx) = Wide /\ Wide \in 1 .. 2
    BY <1>4, <2>1 DEF NvmInv, Using, Wide
  <2>3. xfer.txSz # 0
    <3>1. Len(sent) = 0 /\ Len(sent) + xfer.txSz = Len(xfer.request.tx)
      BY <1>3, <1>4 DEF Addressing, Counted
    <3>2. QED
      BY <2>2, <3>1
  <2>4. dat % 2 # 1
    BY <1>3, <2>3 DEF Addressing
  <2>5. QED
    BY <1>1, <2>4 DEF Address
<1>9. QED
  BY <1>5, <1>6, <1>7, <1>8, BusKeepsReads

LEMMA RefuseReads ==
  ASSUME NvmInv, ReadInv, Refuse, UNCHANGED main, UNCHANGED cell
  PROVE  ReadInv'
<1>1. UNCHANGED <<xfer, given, chip>> /\ refused' /\ stat' = "30"
  BY DEF Refuse, Send, driver
<1>2. Aiming' /\ ~Turned'
  BY <1>1 DEF Aiming, Turned
<1>3. QED
  BY <1>1, <1>2, BusKeepsReads

LEMMA TakeReads ==
  ASSUME NvmInv, ReadInv, Take, UNCHANGED main, UNCHANGED cell
  PROVE  ReadInv'
<1>1. Send(TRUE) /\ Stages /\ TypeOK
  BY DEF Take, NvmInv, IInv
<1>2. Writing
  BY <1>1, BusStage DEF Send
<1>3. /\ UNCHANGED <<xfer, given>> /\ stat' = "28" /\ refused' = refused
      /\ sent' = Append(sent, dat)
  BY <1>1 DEF Send, driver, TypeOK
<1>4. /\ Busy /\ stat = "none" /\ dat = xfer.request.tx[Len(sent) + 1]
      /\ Len(sent) + 1 + xfer.txSz = Len(xfer.request.tx)
  BY <1>2 DEF Writing
<1>5. /\ ~refused /\ Selected = Device /\ Device \in Devices
      /\ Device = Mem \/ Device = Mem48
      /\ at \in {"sent", "pointed", "reading"} /\ call.addr \in Nat
  BY <1>4, NoneIgnored, CallTyped DEF NvmInv, Using
<1>6. /\ Len(sent) \in Nat /\ xfer.txSz \in Nat /\ Len(sent') = Len(sent) + 1
      /\ Len(xfer.request.tx) \in Nat
  BY <1>1, <1>3, RequestType DEF TypeOK
<1>7. at # "reading"
  <2>1. at = "reading" => Len(xfer.request.tx) = 0
    BY <1>4 DEF NvmInv, Using
  <2>2. QED
    BY <1>4, <1>6, <2>1
<1>8. CASE at = "sent"
  <2>1. at' = "sent"
    BY <1>8 DEF main
  <2>2. QED
    BY <2>1 DEF ReadInv, Asked, Aiming, Aimed, Following, Complete, Return
<1>9. CASE at = "pointed"
  <2>1. UNCHANGED <<at, call>>
    BY DEF main
  <2>2. Device' = Device /\ Wide' = Wide /\ \A k : Cell(k)' = Cell(k)
    BY <2>1 DEF Device, Wide, Cell
  <2>3. /\ Len(xfer.request.tx) = Wide /\ Wide \in 1 .. 2 /\ Wide = Width
        /\ dat = AddressBytes(call.op, call.addr)[Len(sent) + 1]
    BY <1>4, <1>5, <1>9 DEF NvmInv, Using, ReadInv, Asked, Wide, Width
  <2>4. Len(sent) < Wide
    BY <1>4, <1>6, <2>3
  <2>5. Aim(Len(sent)) /\ chip[Device].got = Len(sent)
    BY <1>2, <1>5, <1>9, <2>4 DEF ReadInv, Aiming, NvmInv, Counting, Talking
  <2>6. chip'[Device].ptr = NextPointer
    <3>1. TakePointer
      BY <1>5, <1>6, <2>3, <2>4, <2>5 DEF Take, TakeData
    <3>2. Chip(Device, [chip[Device] EXCEPT !.got = chip[Device].got + 1,
                                            !.ptr = Pointed(chip[Device])])
      BY <1>5, <3>1 DEF TakePointer
    <3>3. Pointed(chip[Device]) = NextPointer
      BY <1>5, <2>5 DEF Pointed, NextPointer
    <3>4. /\ chip[Device] = [ptr |-> chip[Device].ptr, got |-> chip[Device].got,
                             latch |-> chip[Device].latch, busy |-> chip[Device].busy]
          /\ DOMAIN chip = Devices
      BY <1>5 DEF NvmInv, ChipsTyped, ChipTyped
    <3>5. chip'[Device] = [chip[Device] EXCEPT !.got = chip[Device].got + 1,
                                               !.ptr = Pointed(chip[Device])]
      BY <1>5, <3>2, <3>4 DEF Chip
    <3>6. chip'[Device].ptr = Pointed(chip[Device])
      BY <3>4, <3>5, CountAndPoint
    <3>7. QED
      BY <3>3, <3>6
  <2>7. /\ Len(sent) + 1 = 1 /\ Wide = 2 =>
             NextPointer = ((call.addr \div Radix) % Radix) % Size[Device]
        /\ Len(sent) + 1 = Wide => NextPointer = call.addr % Size[Device]
    <3>1. Len(sent) = 1 => chip[Device].ptr = ((call.addr \div Radix) % Radix) % Size[Device]
      BY <2>3, <2>4, <2>5 DEF Aim
    <3>2. QED
      BY <1>5, <1>6, <2>3, <2>4, <3>1, AimsPointer
  <2>8. Aiming'
    <3>1. call.addr + 0 = call.addr
      BY <1>5
    <3>2. PICK n \in Nat : n = Len(sent) + 1
      BY <1>6
    <3>3. Aim(n)'
      BY <2>1, <2>2, <2>6, <2>7, <3>1, <3>2 DEF Aim, Cell
    <3>4. QED
      BY <1>6, <3>2, <3>3 DEF Aiming
  <2>9. Asked'
    BY <1>3, <2>1 DEF ReadInv, Asked, Turned, Busy, AddressBytes
  <2>10. QED
    BY <1>3, <1>4, <1>9, <2>1, <2>8, <2>9 DEF ReadInv, Aimed, Following, Complete, Return, Busy
<1>10. QED
  BY <1>5, <1>7, <1>8, <1>9

LEMMA GiveReads ==
  ASSUME NvmInv, ReadInv, Give, UNCHANGED main, UNCHANGED cell
  PROVE  ReadInv'
<1>1. /\ Clocking("reading") /\ UNCHANGED xfer /\ stat' \in {"50", "58"}
      /\ given' = Append(given, cell[Selected][chip[Selected].ptr])
  BY DEF Give, Receive
<1>2. Stages /\ TypeOK
  BY DEF NvmInv, IInv
<1>3. Reading /\ Busy
  BY <1>1, <1>2, BusStage DEF Reading
<1>4. /\ Selected = Device /\ Device \in Devices /\ call.addr \in Nat
      /\ at \in {"sent", "pointed", "reading"}
  BY <1>3, CallTyped DEF NvmInv, Using
<1>5. UNCHANGED <<at, call, failed>> /\ Device' = Device /\ \A k : Cell(k)' = Cell(k)
  <2>1. UNCHANGED <<at, call, failed>>
    BY DEF main
  <2>2. QED
    BY <2>1 DEF Device, Cell
<1>6. at # "pointed"
  <2>1. xfer.request.room > 0
    <3>1. xfer.rxSz \in Nat /\ xfer.rxSz > 0 /\ xfer.rxSz <= xfer.request.room
      BY <1>2, <1>3 DEF Reading, SomeRead, TypeOK
    <3>2. xfer.request.room \in Nat
      BY <1>2, RequestType DEF TypeOK
    <3>3. QED
      BY <3>1, <3>2
  <2>2. QED
    BY <1>3, <2>1 DEF ReadInv, Asked
<1>7. CASE at = "reading"
  <2>1. Following'
    <3>1. SUFFICES ASSUME ~failed
                   PROVE  /\ chip'[Device].ptr = Cell(Len(given'))
                          /\ \A i \in 1 .. Len(given') : given'[i] = cell[Device][Cell(i - 1)]
      BY <1>1, <1>5, <1>7 DEF Following, Exactly, ReadInv
    <3>2. /\ chip[Device].ptr = Cell(Len(given))
          /\ \A i \in 1 .. Len(given) : given[i] = cell[Device][Cell(i - 1)]
      BY <1>7, <3>1 DEF ReadInv, Following, Exactly
    <3>3. PICK n \in Nat : n = Len(given) /\ Len(given') = n + 1
      BY <1>1, <1>2 DEF TypeOK
    <3>4. chip'[Device].ptr = (chip[Device].ptr + 1) % Size[Device]
      <4>1. Chip(Device, [chip[Device] EXCEPT !.ptr = (chip[Device].ptr + 1) % Size[Device]])
        BY <1>4 DEF Give
      <4>2. /\ chip[Device] = [ptr |-> chip[Device].ptr, got |-> chip[Device].got,
                               latch |-> chip[Device].latch, busy |-> chip[Device].busy]
            /\ DOMAIN chip = Devices
        BY <1>4 DEF NvmInv, ChipsTyped, ChipTyped
      <4>3. QED
        BY <1>4, <4>1, <4>2 DEF Chip
    <3>5. chip'[Device].ptr = Cell(n + 1)
      <4>1. PICK a \in Nat : a = call.addr + n
        BY <1>4
      <4>2. PICK z \in Nat \ {0} : z = Size[Device]
        BY <1>4, Constants
      <4>3. ((a % z) + 1) % z = (a + 1) % z
        BY NextAfter
      <4>4. call.addr + (n + 1) = a + 1
        BY <1>4, <4>1
      <4>5. QED
        BY <3>2, <3>3, <3>4, <4>1, <4>2, <4>3, <4>4 DEF Cell
    <3>6. ASSUME NEW i \in 1 .. n + 1
          PROVE  given'[i] = cell[Device][Cell(i - 1)]
      <4>1. CASE i \in 1 .. n
        BY <1>1, <1>2, <3>2, <3>3, <4>1 DEF TypeOK
      <4>2. CASE i = n + 1
        <5>1. given'[i] = cell[Device][chip[Device].ptr]
          BY <1>1, <1>2, <1>4, <3>3, <4>2 DEF TypeOK
        <5>2. i - 1 = n
          BY <4>2
        <5>3. QED
          BY <3>2, <3>3, <5>1, <5>2
      <4>3. QED
        BY <4>1, <4>2
    <3>7. QED
      BY <3>3, <3>5, <3>6
  <2>2. QED
    BY <1>1, <1>3, <1>5, <1>7, <2>1 DEF ReadInv, Asked, Aiming, Aimed, Complete, Return, Busy
<1>8. CASE at = "sent"
  BY <1>5, <1>8 DEF ReadInv, Asked, Aiming, Aimed, Following, Complete, Return
<1>9. QED
  BY <1>4, <1>6, <1>7, <1>8

-----------------------------------------------------------------------------
LEMMA NvmNextReads == NvmInv /\ ReadInv /\ [NvmNext]_nvars => ReadInv'
<1> SUFFICES ASSUME NvmInv, ReadInv, [NvmNext]_nvars PROVE ReadInv'
  OBVIOUS
<1>1. CASE (\E c \in Calls : Begin(c)) \/ Main
  BY <1>1, BeginsRead, ReadDataReads, ReadReturnsReads DEF Main
<1>2. CASE Handling
  BY <1>2, HandlingReads
<1>3. CASE Wire
  BY <1>3, QuietBusReads, AnswerReads, TakeReads, RefuseReads, GiveReads DEF Wire
<1>4. CASE UNCHANGED nvars
  <2>1. UNCHANGED <<at, call, failed, cell, chip, xfer, stat, con, dat, phase, sent, given,
                    refused>>
    BY <1>4 DEF nvars, main, vars, history
  <2>2. Device' = Device /\ Wide' = Wide /\ \A k : Cell(k)' = Cell(k)
    BY <2>1 DEF Device, Wide, Cell
  <2>3. Busy' = Busy /\ Turned' = Turned /\ Talking' = Talking
    BY <2>1 DEF Busy, Turned, Talking, Asking, Writing, Counted, NoneRead
  <2>4. Asked' /\ Aiming' /\ Aimed'
    BY <2>1, <2>2, <2>3 DEF ReadInv, Asked, Aiming, Aimed, Aim, AddressBytes
  <2>5. Following' /\ Complete' /\ Return'
    BY <2>1, <2>2 DEF ReadInv, Following, Complete, Return, Exactly
  <2>6. QED
    BY <2>4, <2>5 DEF ReadInv
<1>5. QED
  BY <1>1, <1>2, <1>3, <1>4 DEF NvmNext

(* A read of which no transfer failed returns exactly the cells asked for, *)
(* in order and wrapping at the end of the memory, for any number of bytes *)
(* that rxSz can hold.                                                     *)
THEOREM ReadsAreExact == NvmSpec => []ReadIsExact
<1>1. NvmInv /\ ReadInv => ReadIsExact
  <2>1. SUFFICES ASSUME NvmInv, ReadInv, at = "idle", call.op \notin Writes,
                        call.len < Word, ~failed
                 PROVE  xfer.rx = [i \in 1 .. call.len |-> cell[Device][Cell(i - 1)]]
    BY DEF ReadIsExact
  <2>2. Len(xfer.rx) = call.len /\ \A i \in 1 .. call.len : xfer.rx[i] = cell[Device][Cell(i - 1)]
    BY <2>1 DEF ReadInv, Return, Exactly
  <2>3. xfer.rx \in Seq(Bytes)
    BY <2>1 DEF NvmInv, IInv, TypeOK
  <2>4. QED
    BY <2>2, <2>3
<1>2. NvmSpec => []ReadInv
  BY InitReadInv, NvmNextReads, SpecNvmInv, PTL DEF NvmSpec
<1>3. QED
  BY <1>1, <1>2, SpecNvmInv, PTL

-----------------------------------------------------------------------------
(* Writes.  What cell c holds once the first n bytes have been written.    *)
Last(k, n) == \A j \in k + 1 .. n - 1 : Lands(j) # Lands(k)
Holds(n, c, v) ==
  \/ \E k \in 0 .. n - 1 : c = Lands(k) /\ Last(k, n) /\ v = Data(k)
  \/ (\A k \in 0 .. n - 1 : c # Lands(k)) /\ v = before[Device][c]
Spoilt(n, c) ==
  /\ Device # Mem
  /\ \E e \in Ends : e <= n /\ c = Spill(e) /\ \A i \in e .. n - 1 : c # Lands(i)
Exact(n) == \A c \in 0 .. Size[Device] - 1 : Spoilt(n, c) \/ Holds(n, c, cell[Device][c])

Reached(n) == IF n < call.len THEN n ELSE call.len
Clean == IsWrite /\ ~failed
Between == /\ Clean /\ at = "page" => Exact(Reached(done))
           /\ Clean /\ at = "idle" => Exact(call.len)

\* The page holds the data of which t bytes have been taken, and the byte after.
Paged(t) == \A c \in 0 .. Size[Device] - 1 :
  LET latch == chip[Device].latch
  IN  \/ t > ChunkLen /\ c = Spill(done + ChunkLen)
      \/ c \notin DOMAIN latch /\ \A i \in 0 .. ChunkLen - 1 : i < t => c # Lands(done + i)
      \/ \E i \in 0 .. ChunkLen - 1 :
           /\ i < t /\ c = Lands(done + i) /\ c \in DOMAIN latch /\ latch[c] = Data(done + i)
           /\ \A j \in i + 1 .. ChunkLen - 1 : j < t => c # Lands(done + j)

\* A page that is on its way to the memory, and its transfer may yet succeed.
Succeeded == xfer.status = "OK"
Pending == (Busy /\ ~Broken) \/ (Succeeded /\ "STO" \in con)
Paging == Clean /\ at = "sent" /\ Pending =>
  Exact(done) /\ (~refused => Paged(Len(sent) - Wide))
Full == at = "sent" /\ Succeeded => Len(sent) = Len(xfer.request.tx) /\ ~refused
Stored == Clean /\ at = "sent" /\ Succeeded /\ "STO" \notin con => Exact(done + ChunkLen)

Readers == at \in {"point", "pointed", "reading"} => call.op \notin Writes

WriteInv == Readers /\ Between /\ Paging /\ Full /\ Stored

LEMMA InitWriteInv == NvmInit => WriteInv
<1> SUFFICES ASSUME NvmInit PROVE WriteInv
  OBVIOUS
<1>1. at = "idle" /\ call = Quiet
  BY DEF NvmInit
<1>2. ~IsWrite
  BY <1>1 DEF IsWrite, Quiet, Writes
<1>3. QED
  BY <1>1, <1>2 DEF WriteInv, Readers, Between, Paging, Full, Stored, Clean

LEMMA LandFrame ==
  ASSUME UNCHANGED call
  PROVE  /\ Device' = Device /\ IsWrite' = IsWrite /\ Ends' = Ends
         /\ \A k : Lands(k)' = Lands(k) /\ Spill(k)' = Spill(k)
         /\ \A k, n : Last(k, n)' = Last(k, n)
<1>1. Device' = Device /\ IsWrite' = IsWrite /\ Ends' = Ends
  BY DEF Device, IsWrite, Ends
<1>2. \A k : Lands(k)' = Lands(k)
  BY <1>1 DEF Lands, ChunkStart, InPage, Cell
<1>3. \A k : Spill(k)' = Spill(k)
  BY <1>1, <1>2 DEF Spill, PageNext, InPage
<1>4. \A k, n : Last(k, n)' = Last(k, n)
  BY <1>2 DEF Last
<1>5. QED
  BY <1>1, <1>2, <1>3, <1>4

\* What is exact stays so while the cells, the call and done stay.
LEMMA WriteFrame ==
  ASSUME NvmInv, UNCHANGED <<call, before>>, cell'[Device] = cell[Device]
  PROVE  /\ Device' = Device /\ IsWrite' = IsWrite
         /\ \A n : Exact(n)' = Exact(n) /\ Reached(n)' = Reached(n)
         /\ done' = done /\ chip'[Device].latch = chip[Device].latch =>
              Wide' = Wide /\ ChunkLen' = ChunkLen /\ \A t : Paged(t)' = Paged(t)
<1>1. Device' = Device /\ IsWrite' = IsWrite
  BY LandFrame
<1>2. \A k : Lands(k)' = Lands(k)
  BY LandFrame
<1>3. \A k : Spill(k)' = Spill(k)
  BY LandFrame
<1>4. Ends' = Ends /\ \A k, n : Last(k, n)' = Last(k, n)
  BY LandFrame
<1>5. \A n, c, v : Holds(n, c, v)' = Holds(n, c, v)
  BY <1>1, <1>2, <1>4 DEF Holds, Data
<1>6. \A n, c : Spoilt(n, c)' = Spoilt(n, c)
  BY <1>1, <1>2, <1>3, <1>4 DEF Spoilt
<1>7. \A n : Exact(n)' = Exact(n) /\ Reached(n)' = Reached(n)
  BY <1>1, <1>5, <1>6 DEF Exact, Reached
<1>8. ASSUME done' = done, chip'[Device].latch = chip[Device].latch
      PROVE  Wide' = Wide /\ ChunkLen' = ChunkLen /\ \A t : Paged(t)' = Paged(t)
  <2>1. Wide' = Wide /\ ChunkLen' = ChunkLen
    BY <1>8, CallFrame
  <2>2. QED
    BY <1>1, <1>2, <1>3, <1>8, <2>1 DEF Paged, Data
<1>9. QED
  BY <1>1, <1>7, <1>8

\* A step that leaves the memories and main alone.
LEMMA BusKeepsWrites ==
  ASSUME NvmInv, WriteInv, UNCHANGED main, UNCHANGED xfer, cell'[Device] = cell[Device],
         ~refused' => UNCHANGED <<sent, refused>>, Pending' => Pending /\ UNCHANGED con,
         Succeeded => UNCHANGED <<sent, refused, con>>,
         at = "sent" => chip'[Device].latch = chip[Device].latch
  PROVE  WriteInv'
<1>1. UNCHANGED <<at, call, done, failed, before>>
  BY DEF main
<1>2. /\ IsWrite' = IsWrite /\ Clean' = Clean /\ Succeeded' = Succeeded
      /\ \A n : Exact(n)' = Exact(n) /\ Reached(n)' = Reached(n)
      /\ at = "sent" => Wide' = Wide /\ ChunkLen' = ChunkLen /\ \A t : Paged(t)' = Paged(t)
  BY <1>1, WriteFrame DEF Clean, Succeeded
<1>3. Between'
  BY <1>1, <1>2 DEF WriteInv, Between
<1>4. Paging'
  BY <1>1, <1>2 DEF WriteInv, Paging
<1>5. Full' /\ Stored'
  BY <1>1, <1>2 DEF WriteInv, Full, Stored
<1>6. QED
  BY <1>1, <1>3, <1>4, <1>5 DEF WriteInv, Readers

-----------------------------------------------------------------------------
(* Main.                                                                   *)
LEMMA BeginWrites ==
  ASSUME NvmInv, WriteInv, NEW c \in Calls, Begin(c)
  PROVE  WriteInv'
<1>1. /\ at' = (IF c.op \in Writes THEN "page" ELSE "point") /\ done' = 0
      /\ before' = cell /\ cell' = cell
      /\ call' = c /\ call'.len \in Nat
  BY NvmAssumption DEF Begin
<1>2. Reached(done)' = 0
  BY <1>1 DEF Reached
<1>3. Exact(0)'
  BY <1>1 DEF Exact, Holds
<1>4. QED
  BY <1>1, <1>2, <1>3 DEF WriteInv, Readers, Between, Paging, Full, Stored

LEMMA PageWrites ==
  ASSUME NvmInv, WriteInv, WritePage
  PROVE  WriteInv'
<1>1. /\ at = "page" /\ at' = "sent" /\ Left > 0
      /\ UNCHANGED <<call, done, before, failed, cell, chip>>
      /\ \E r : Xfer(r)
  BY DEF WritePage, Write
<1>2. xfer'.status = "BUSY" /\ sent' = <<>>
  BY <1>1 DEF Xfer, Transfer
<1>3. ~Succeeded'
  BY <1>2 DEF Succeeded
<1>4. /\ IsWrite' = IsWrite /\ Clean' = Clean
      /\ \A n : Exact(n)' = Exact(n)
      /\ Wide' = Wide /\ ChunkLen' = ChunkLen /\ \A t : Paged(t)' = Paged(t)
  BY <1>1, WriteFrame DEF Clean
<1>5. Clean => Exact(done)
  <2>1. Reached(done) = done
    BY <1>1, CallTyped DEF NvmInv, MainTyped, Left, Reached
  <2>2. QED
    BY <1>1, <2>1 DEF WriteInv, Between
<1>6. Paged(0 - Wide)
  <2>1. DOMAIN chip[Device].latch = {}
    BY <1>1, CallTyped DEF NvmInv, Latching
  <2>2. 0 - Wide < 0 /\ 0 - Wide \in Int
    BY DEF Wide
  <2>3. \A i \in 0 .. ChunkLen - 1 : ~(i < 0 - Wide)
    BY <2>2
  <2>4. QED
    BY <2>1, <2>3 DEF Paged
<1>7. Len(sent') - Wide = 0 - Wide
  BY <1>2
<1>8. QED
  BY <1>1, <1>3, <1>4, <1>5, <1>6, <1>7 DEF WriteInv, Readers, Between, Paging, Full, Stored

LEMMA DelayWrites ==
  ASSUME NvmInv, WriteInv, Delay
  PROVE  WriteInv'
<1>1. /\ at = "sent" /\ at' = "page" /\ "STO" \notin con /\ done' = done + Chunk
      /\ UNCHANGED <<call, before, cell>> /\ failed' = (failed \/ xfer.status # "OK")
  BY DEF Delay, Note
<1>2. IsWrite' = IsWrite /\ \A n : Exact(n)' = Exact(n) /\ Reached(n)' = Reached(n)
  BY <1>1, WriteFrame
<1>3. ASSUME Clean' PROVE Exact(Reached(done'))
  <2>1. Clean /\ Succeeded
    BY <1>1, <1>2, <1>3 DEF Clean, Succeeded
  <2>2. Exact(done + ChunkLen)
    BY <1>1, <2>1 DEF WriteInv, Stored
  <2>3. Reached(done + Chunk) = done + ChunkLen
    <3>1. done \in Nat /\ call.len \in Nat /\ Chunk \in Nat
      BY <1>1, <2>1, ChunkEnds DEF Clean
    <3>2. ChunkLen \in 1 .. Chunk
      BY <1>1, <2>1, ChunkEnds DEF Clean
    <3>3. QED
      BY <3>1, <3>2 DEF Reached, ChunkLen, Left
  <2>4. QED
    BY <1>1, <2>2, <2>3
<1>4. Reached(done)' = Reached(done')
  BY <1>1 DEF Reached
<1>5. QED
  BY <1>1, <1>2, <1>3, <1>4 DEF WriteInv, Readers, Between, Paging, Full, Stored

LEMMA OtherMainWrites ==
  ASSUME NvmInv, WriteInv, WriteReturns \/ ReadPoint \/ ReadData \/ ReadReturns
  PROVE  WriteInv'
<1>1. CASE WriteReturns
  <2>1. /\ at = "page" /\ at' = "idle" /\ Left <= 0
        /\ UNCHANGED <<call, done, before, failed, cell>>
    BY <1>1 DEF WriteReturns
  <2>2. Reached(done) = call.len
    BY <2>1, CallTyped DEF NvmInv, MainTyped, Left, Reached
  <2>3. Clean' = Clean /\ \A n : Exact(n)' = Exact(n)
    BY <2>1, WriteFrame DEF Clean
  <2>4. QED
    BY <2>1, <2>2, <2>3 DEF WriteInv, Readers, Between, Paging, Full, Stored
<1>2. CASE ReadPoint \/ ReadData
  <2>1. at' \in {"pointed", "reading"} /\ call' = call /\ call.op \notin Writes
    BY <1>2 DEF ReadPoint, ReadData, WriteInv, Readers
  <2>2. QED
    BY <2>1 DEF WriteInv, Readers, Between, Paging, Full, Stored
<1>3. CASE ReadReturns
  <2>1. at' = "idle" /\ call' = call /\ call.op \notin Writes
    BY <1>3 DEF ReadReturns, WriteInv, Readers
  <2>2. QED
    BY <2>1 DEF WriteInv, Readers, Between, Paging, Full, Stored, Clean, IsWrite
<1>4. QED
  BY <1>1, <1>2, <1>3

-----------------------------------------------------------------------------
(* The handler.                                                            *)
LEMMA HandlingWrites ==
  ASSUME NvmInv, WriteInv, Handling
  PROVE  WriteInv'
<1>1. XferHandler /\ UNCHANGED main /\ UNCHANGED <<cell, chip>>
  BY DEF Handling
<1>2. /\ Busy /\ stat' = "none" /\ UNCHANGED <<sent, refused>> /\ xfer'.request = xfer.request
      /\ ~Busy' => Broken \/ "STO" \in con'
  BY <1>1, HandlerLeads
<1>3. UNCHANGED <<at, call, done, failed, before>>
  BY <1>1 DEF main
<1>4. /\ IsWrite' = IsWrite /\ Clean' = Clean
      /\ \A n : Exact(n)' = Exact(n) /\ Reached(n)' = Reached(n)
      /\ Wide' = Wide /\ ChunkLen' = ChunkLen /\ \A t : Paged(t)' = Paged(t)
  BY <1>1, <1>3, WriteFrame DEF Clean
<1>5. Broken => ~Busy' /\ ~Succeeded'
  <2>1. xfer = [request |-> xfer.request, txSz |-> xfer.txSz, rx |-> xfer.rx, rxSz |-> xfer.rxSz,
                status |-> xfer.status]
    BY DEF NvmInv, IInv, TypeOK
  <2>2. SUFFICES ASSUME Broken PROVE xfer'.status \in {"ARBLOST", "BUS_ERROR"}
    BY DEF Busy, Succeeded
  <2>3. stat \in {"38", "00"}
    BY <2>2 DEF Broken
  <2>4. ArbLost \/ BusError
    BY <1>1, <2>3 DEF XferHandler, SlaveAddress, Nak, SendByte, TurnAround, Written, Addressed,
       Received, SlaveNak, Acked, Changed
  <2>5. QED
    BY <2>1, <2>4 DEF ArbLost, BusError, Finish
<1>6. Paging'
  <2>1. Pending' => Pending
    BY <1>2, <1>5 DEF Pending
  <2>2. QED
    BY <1>2, <1>3, <1>4, <2>1 DEF WriteInv, Paging
<1>7. Full'
  <2>1. SUFFICES ASSUME at = "sent", xfer'.status = "OK"
                 PROVE  Len(sent) = Len(xfer.request.tx) /\ ~refused
    BY <1>2, <1>3 DEF Full, Succeeded
  <2>2. xfer.request.room = 0
    <3>1. Len(xfer.request.tx) = ChunkLen + 2 /\ ChunkLen \in 1 .. Chunk
      BY <2>1 DEF NvmInv, Message
    <3>2. Chunk \in Nat
      BY Constants
    <3>3. Len(xfer.request.tx) # 0
      BY <3>1, <3>2
    <3>4. xfer.request.tx # <<>>
      BY <3>3
    <3>5. QED
      BY <1>2, <3>4 DEF NvmInv, Using
  <2>3. QED
    BY <1>1, <2>1, <2>2, HandlerSucceeds
<1>8. Stored'
  <2>1. Succeeded' => "STO" \in con'
    BY <1>2, <1>5 DEF Busy, Succeeded
  <2>2. QED
    BY <2>1 DEF Stored
<1>9. Readers' /\ Between'
  BY <1>3, <1>4 DEF WriteInv, Readers, Between
<1>10. QED
  BY <1>6, <1>7, <1>8, <1>9 DEF WriteInv

-----------------------------------------------------------------------------
(* The bus.                                                                *)
LEMMA QuietBusWrites ==
  ASSUME NvmInv, WriteInv, UNCHANGED main, UNCHANGED cell,
         \/ Start("08", "free") /\ UNCHANGED chip
         \/ Answer \/ Silence \/ Refuse \/ Give
  PROVE  WriteInv'
<1>1. Stages
  BY DEF NvmInv, IInv
<1>2. Starting \/ Addressing \/ Writing \/ Reading
  BY <1>1, BusStage DEF Start, Answer, Silence, Refuse, Give, Address, Send, Receive
<1>3. Busy /\ ~Broken /\ ~Succeeded
  BY <1>2 DEF Starting, Addressing, Writing, Reading, Busy, Broken, Succeeded
<1>4. /\ UNCHANGED <<xfer, con>>
      /\ UNCHANGED sent \/ refused'
      /\ UNCHANGED refused \/ refused'
  <2>1. CASE Start("08", "free")
    BY <2>1 DEF Start, driver, history
  <2>2. CASE Answer
    BY <2>2 DEF Answer, Address, driver, NvmInv, IInv, TypeOK
  <2>3. CASE Silence \/ Refuse
    BY <2>3 DEF Silence, Refuse, Address, Send, driver
  <2>4. CASE Give
    BY <2>4 DEF Give, Receive
  <2>5. QED
    BY <2>1, <2>2, <2>3, <2>4
<1>5. at = "sent" => chip'[Device].latch = chip[Device].latch
  <2>1. Device \in Devices /\ ChipTyped(Device, chip[Device]) /\ DOMAIN chip = Devices
    BY CallTyped DEF NvmInv, ChipsTyped
  <2>2. CASE Answer
    BY <2>1, <2>2 DEF Answer, Chip, Listening
  <2>3. CASE Give
    <3>1. Selected = Device
      BY <1>3 DEF NvmInv, Using
    <3>2. Chip(Device, [chip[Device] EXCEPT !.ptr = (chip[Device].ptr + 1) % Size[Device]])
      BY <2>3, <3>1 DEF Give
    <3>3. QED
      BY <2>1, <3>2 DEF Chip, ChipTyped
  <2>4. QED
    BY <2>2, <2>3 DEF Silence, Refuse
<1>6. Pending
  BY <1>3 DEF Pending
<1>7. QED
  BY <1>3, <1>4, <1>5, <1>6, BusKeepsWrites

LEMMA FailingWrites ==
  ASSUME NvmInv, WriteInv, UNCHANGED main, NEW which \in {"38", "00"}, Failing(which)
  PROVE  WriteInv'
<1>1. Stages /\ Fault(which) /\ (Store \/ Forget)
  BY DEF NvmInv, IInv, Failing
<1>2. Addressing \/ Writing \/ Reading
  BY <1>1, BusStage DEF Fault
<1>3. UNCHANGED <<xfer, con, sent, refused>> /\ stat' = which
  BY <1>1 DEF Fault, driver, history
<1>4. Busy /\ ~Succeeded /\ at \in {"sent", "pointed", "reading"}
  BY <1>2 DEF Addressing, Writing, Reading, Busy, Succeeded, NvmInv, Using
<1>5. ~Pending' /\ ~Succeeded'
  <2>1. Broken' \/ "STO" \in con
    BY <1>1, <1>2, <1>3, <1>4 DEF Broken, Busy, Fault
  <2>2. "STO" \notin con
    BY <1>1 DEF Fault, Clocking
  <2>3. QED
    BY <1>3, <1>4, <2>1, <2>2 DEF Pending, Succeeded
<1>6. UNCHANGED <<at, call>>
  BY DEF main
<1>7. QED
  BY <1>4, <1>5, <1>6 DEF WriteInv, Readers, Between, Paging, Full, Stored

\* Nothing of a chunk is in the page before its first byte of data.
LEMMA StoreOfNothing ==
  ASSUME NvmInv, Store, at = "sent", NEW t \in Int, t < 0, Paged(t)
  PROVE  cell'[Device] = cell[Device] /\ DOMAIN chip[Device].latch = {}
<1>1. /\ Device \in Devices /\ cell[Device] \in [0 .. Size[Device] - 1 -> Bytes]
      /\ ChipTyped(Device, chip[Device])
  BY CallTyped DEF NvmInv, CellsTyped, ChipsTyped
<1>2. ChunkLen \in Nat
  BY Constants DEF NvmInv, Message
<1>3. \A c \in 0 .. Size[Device] - 1 : c \notin DOMAIN chip[Device].latch
  <2>1. \A i \in 0 .. ChunkLen - 1 : ~(i < t)
    OBVIOUS
  <2>2. ~(t > ChunkLen)
    BY <1>2
  <2>3. QED
    BY <2>1, <2>2 DEF Paged
<1>4. DOMAIN chip[Device].latch = {}
  BY <1>1, <1>3 DEF ChipTyped
<1>5. cell'[Device] = Over(chip[Device].latch, cell[Device])
  BY <1>1 DEF Store
<1>6. QED
  BY <1>1, <1>4, <1>5 DEF Over

\* The page of a chunk that was sent in full makes the next chunk exact.
LEMMA StoreOfChunk ==
  ASSUME NvmInv, Store, UNCHANGED main, IsWrite, at = "sent", Exact(done),
         NEW t, Paged(t), t = ChunkLen + 2 - Wide
  PROVE  Exact(done + ChunkLen)'
<1> DEFINE n == done + ChunkLen
<1> DEFINE latch == chip[Device].latch
<1>1. UNCHANGED <<call, done, before>> /\ Device' = Device
  BY DEF main, Device
<1>2. /\ \A k : Lands(k)' = Lands(k)
      /\ Ends' = Ends
      /\ \A k, m : Last(k, m)' = Last(k, m)
      /\ \A k : Spill(k)' = Spill(k)
      /\ ChunkLen' = ChunkLen
  BY <1>1, CallFrame, LandFrame
<1>3. /\ Device \in Devices /\ cell[Device] \in [0 .. Size[Device] - 1 -> Bytes]
      /\ cell'[Device] = Over(latch, cell[Device])
  BY CallTyped DEF NvmInv, CellsTyped, Store
<1>4. done \in Nat /\ ChunkLen \in Nat /\ n \in Nat /\ n \in Ends /\ call.len \in Nat
  BY ChunkEnds
<1>5. ASSUME NEW c \in 0 .. Size[Device] - 1
      PROVE  Spoilt(n, c) \/ Holds(n, c, cell'[Device][c])
  <2>1. CASE ChunkLen + 2 - Wide > ChunkLen /\ c = Spill(n)
    <3>1. Device # Mem
      BY <1>4, <2>1 DEF Wide
    <3>2. \A i \in n .. n - 1 : c # Lands(i)
      BY <1>4
    <3>3. QED
      BY <1>4, <2>1, <3>1, <3>2 DEF Spoilt
  <2>2. CASE /\ c \notin DOMAIN latch
             /\ \A i \in 0 .. ChunkLen - 1 : i < ChunkLen + 2 - Wide => c # Lands(done + i)
    <3>1. cell'[Device][c] = cell[Device][c]
      BY <1>3, <2>2 DEF Over
    <3>2. ASSUME NEW i \in done .. n - 1 PROVE c # Lands(i)
      <4>1. /\ i - done \in 0 .. ChunkLen - 1 /\ i - done < ChunkLen + 2 - Wide
            /\ done + (i - done) = i
        BY <1>4 DEF Wide
      <4>2. QED
        BY <2>2, <4>1
    <3>3. CASE Spoilt(done, c)
      <4>1. PICK e \in Ends : e <= done /\ c = Spill(e) /\ \A i \in e .. done - 1 : c # Lands(i)
        BY <3>3 DEF Spoilt
      <4>2. e \in Nat
        BY <1>4 DEF Ends
      <4>3. e <= n /\ \A i \in e .. n - 1 : c # Lands(i)
        BY <1>4, <3>2, <4>1, <4>2
      <4>4. QED
        BY <3>3, <4>1, <4>3 DEF Spoilt
    <3>4. CASE Holds(done, c, cell[Device][c])
      <4>1. CASE \E k \in 0 .. done - 1 : c = Lands(k) /\ Last(k, done) /\ cell[Device][c] = Data(k)
        <5>1. PICK k \in 0 .. done - 1 : c = Lands(k) /\ Last(k, done) /\ cell[Device][c] = Data(k)
          BY <4>1
        <5>2. Last(k, n)
          BY <1>4, <3>2, <5>1 DEF Last
        <5>3. k \in 0 .. n - 1
          BY <1>4
        <5>4. QED
          BY <3>1, <5>1, <5>2, <5>3 DEF Holds
      <4>2. CASE (\A k \in 0 .. done - 1 : c # Lands(k)) /\ cell[Device][c] = before[Device][c]
        <5>1. \A k \in 0 .. n - 1 : c # Lands(k)
          BY <1>4, <3>2, <4>2
        <5>2. QED
          BY <3>1, <4>2, <5>1 DEF Holds
      <4>3. QED
        BY <3>4, <4>1, <4>2 DEF Holds
    <3>5. QED
      BY <3>3, <3>4 DEF Exact
  <2>3. CASE \E i \in 0 .. ChunkLen - 1 :
               /\ i < ChunkLen + 2 - Wide /\ c = Lands(done + i)
               /\ c \in DOMAIN latch /\ latch[c] = Data(done + i)
               /\ \A j \in i + 1 .. ChunkLen - 1 : j < ChunkLen + 2 - Wide => c # Lands(done + j)
    <3>1. PICK i \in 0 .. ChunkLen - 1 :
               /\ c = Lands(done + i) /\ c \in DOMAIN latch /\ latch[c] = Data(done + i)
               /\ \A j \in i + 1 .. ChunkLen - 1 : j < ChunkLen + 2 - Wide => c # Lands(done + j)
      BY <2>3
    <3>2. cell'[Device][c] = Data(done + i)
      BY <1>3, <3>1 DEF Over
    <3>3. ASSUME NEW j \in done + i + 1 .. n - 1 PROVE Lands(j) # c
      <4>1. /\ j - done \in i + 1 .. ChunkLen - 1 /\ j - done < ChunkLen + 2 - Wide
            /\ done + (j - done) = j
        BY <1>4 DEF Wide
      <4>2. QED
        BY <3>1, <4>1
    <3>4. Last(done + i, n) /\ done + i \in 0 .. n - 1
      BY <1>4, <3>1, <3>3 DEF Last
    <3>5. QED
      BY <3>1, <3>2, <3>4 DEF Holds
  <2>4. QED
    BY <2>1, <2>2, <2>3 DEF Paged
<1> HIDE DEF n, latch
<1>6. \A c \in 0 .. Size[Device] - 1 : Spoilt(n, c)' \/ Holds(n, c, cell[Device][c])'
  BY <1>1, <1>2, <1>5 DEF Spoilt, Holds, Data, n
<1>7. QED
  BY <1>1, <1>6 DEF Exact, n

LEMMA StopWrites ==
  ASSUME NvmInv, WriteInv, UNCHANGED main, Stop, Store
  PROVE  WriteInv'
<1>1. UNCHANGED <<at, call, done, failed, before>>
  BY DEF main
<1>2. /\ Stages /\ UNCHANGED <<xfer, sent, refused>> /\ stat = "none"
      /\ con' = con \ {"STO"} /\ "STO" \in con
  BY DEF Stop, driver, history, NvmInv, IInv
<1>3. Ended \/ Starting
  BY <1>2, BusStage
<1>4. CASE at # "sent"
  <2>1. cell'[Device] = cell[Device]
    BY <1>4, StoreReads
  <2>2. IsWrite' = IsWrite /\ Clean' = Clean
        /\ \A n : Exact(n)' = Exact(n) /\ Reached(n)' = Reached(n)
    BY <1>1, <2>1, WriteFrame DEF Clean
  <2>3. QED
    BY <1>1, <1>4, <2>2 DEF WriteInv, Readers, Between, Paging, Full, Stored
<1>5. CASE at = "sent" /\ Starting
  <2>1. Busy /\ sent = <<>> /\ ~refused /\ ~Broken /\ ~Succeeded
    BY <1>2, <1>5, NoneIgnored DEF Starting, NvmInv, Using, Fresh, Broken, Busy, Succeeded
  <2>2. ~Succeeded' /\ Pending
    BY <1>2, <2>1 DEF Pending, Succeeded
  <2>3. ASSUME Clean
        PROVE  Exact(done)' /\ Paged(Len(sent) - Wide)'
    <3> DEFINE t == Len(sent) - Wide
    <3>1. Exact(done) /\ Paged(t)
      BY <1>5, <2>1, <2>2, <2>3 DEF WriteInv, Paging
    <3>2. t \in Int /\ t < 0
      BY <2>1 DEF Wide
    <3> HIDE DEF t
    <3>3. cell'[Device] = cell[Device]
      BY <1>5, <3>1, <3>2, StoreOfNothing
    <3>4. DOMAIN chip'[Device].latch = {}
      BY StoreKeeps, CallTyped DEF NvmInv
    <3>5. Exact(done)'
      BY <1>1, <3>1, <3>3, WriteFrame
    <3>6. Device' = Device /\ Wide' = Wide /\ ChunkLen' = ChunkLen
      BY <1>1, CallFrame
    <3>7. \A i \in 0 .. ChunkLen - 1 : ~(i < t)
      BY <3>2
    <3>8. Paged(t)'
      BY <1>2, <3>4, <3>6, <3>7 DEF Paged, t
    <3>9. QED
      BY <3>5, <3>8 DEF t
  <2>4. Clean' = Clean
    BY <1>1 DEF Clean, IsWrite
  <2>5. QED
    BY <1>1, <1>5, <2>2, <2>3, <2>4 DEF WriteInv, Readers, Between, Paging, Full, Stored
<1>6. CASE at = "sent" /\ Ended
  <2>1. ~Busy /\ ~Pending'
    BY <1>2, <1>6 DEF Ended, Pending, Busy
  <2>2. ASSUME Clean, Succeeded PROVE Exact(done + ChunkLen)'
    <3>1. PICK t : t = Len(sent) - Wide
      OBVIOUS
    <3>2. Exact(done) /\ Paged(t)
      BY <1>2, <1>6, <2>2, <3>1 DEF WriteInv, Paging, Full, Pending
    <3>3. t = ChunkLen + 2 - Wide
      <4>1. Len(sent) = ChunkLen + 2
        BY <1>6, <2>2 DEF WriteInv, Full, NvmInv, Message
      <4>2. ChunkLen \in Nat /\ Wide \in 1 .. 2
        BY <1>6, Constants DEF NvmInv, Message, Wide
      <4>3. QED
        BY <3>1, <4>1, <4>2
    <3>4. QED
      BY <1>6, <2>2, <3>2, <3>3, StoreOfChunk DEF Clean
  <2>3. Clean' = Clean /\ Succeeded' = Succeeded
    BY <1>1, <1>2 DEF Clean, IsWrite, Succeeded
  <2>4. Stored'
    BY <1>6, <2>2, <2>3 DEF Stored
  <2>5. Full'
    BY <1>1, <1>2, <2>3 DEF WriteInv, Full
  <2>6. QED
    BY <1>1, <1>6, <2>1, <2>4, <2>5 DEF WriteInv, Readers, Between, Paging
<1>7. QED
  BY <1>3, <1>4, <1>5, <1>6

LEMMA TakeWrites ==
  ASSUME NvmInv, WriteInv, Take, UNCHANGED main, UNCHANGED cell
  PROVE  WriteInv'
<1> DEFINE latch == chip[Device].latch
<1>1. UNCHANGED <<at, call, done, failed, before>>
  BY DEF main
<1>2. Send(TRUE) /\ Stages /\ TypeOK
  BY DEF Take, NvmInv, IInv
<1>3. Writing
  BY <1>2, BusStage DEF Send
<1>4. /\ UNCHANGED <<xfer, con>> /\ refused' = refused /\ stat' = "28"
      /\ Len(sent) \in Nat /\ Len(sent') = Len(sent) + 1 /\ xfer.txSz \in Nat
  BY <1>2 DEF Send, driver, TypeOK
<1>5. Busy /\ stat = "none" /\ con = {} /\ ~Broken /\ Pending /\ ~Succeeded /\ ~Succeeded'
  BY <1>3, <1>4 DEF Writing, Busy, Broken, Pending, Succeeded
<1>6. ~refused /\ Selected = Device /\ Device \in Devices /\ at \in {"sent", "pointed", "reading"}
  BY <1>5, NoneIgnored, CallTyped DEF NvmInv, Using
<1>7. /\ IsWrite' = IsWrite /\ Clean' = Clean
      /\ \A n : Exact(n)' = Exact(n)
  BY <1>1, WriteFrame DEF Clean
<1>8. /\ Device' = Device /\ Wide' = Wide /\ ChunkLen' = ChunkLen /\ \A k : Lands(k)' = Lands(k)
      /\ \A k : Spill(k)' = Spill(k)
  <2>1. Device' = Device /\ Wide' = Wide /\ ChunkLen' = ChunkLen
    BY <1>1, CallFrame
  <2>2. QED
    BY <1>1, <2>1, LandFrame
<1>9. Wide \in 1 .. 2 /\ Wide = Width
  BY <1>6 DEF Wide, Width
<1>10. PICK t \in Int : t = Len(sent) - Wide
  <2>1. PICK k \in Nat : k = Len(sent)
    BY <1>4
  <2>2. k - Wide \in Int
    BY <1>9
  <2>3. QED
    BY <2>1, <2>2
<1>11. /\ chip[Device] = [ptr |-> chip[Device].ptr, got |-> chip[Device].got,
                           latch |-> latch, busy |-> chip[Device].busy]
       /\ DOMAIN chip = Devices
  BY <1>6 DEF NvmInv, ChipsTyped, ChipTyped
<1>12. chip[Device].got = IF Len(sent) < Wide THEN Len(sent) ELSE Wide
  BY <1>3, <1>6 DEF NvmInv, Counting, Talking
<1>13. ASSUME at = "sent", Clean
       PROVE  Paged(t + 1)'
  <2>1. Paged(t)
    BY <1>10, <1>5, <1>6, <1>13 DEF WriteInv, Paging
  <2>2. ChunkLen \in Nat /\ done \in Nat /\ IsWrite
    BY <1>13, ChunkEnds DEF Clean
  <2>3. CASE TakePointer
    <3>1. t < 0
      BY <1>10, <1>4, <1>6, <1>9, <1>12, <2>3 DEF TakePointer
    <3>2. chip'[Device].latch = latch
      <4>1. PICK g, p : Chip(Device, [chip[Device] EXCEPT !.got = g, !.ptr = p])
        BY <1>6, <2>3 DEF TakePointer
      <4>2. chip'[Device] = [chip[Device] EXCEPT !.got = g, !.ptr = p]
        BY <1>6, <1>11, <4>1 DEF Chip
      <4>3. QED
        BY <1>11, <4>2, CountAndPoint
    <3>3. \A i \in 0 .. ChunkLen - 1 : ~(i < t) /\ ~(i < t + 1)
      BY <1>9, <3>1
    <3>4. ~(t > ChunkLen)
      BY <1>9, <2>2, <3>1
    <3> HIDE DEF latch
    <3>5. \A c \in 0 .. Size[Device] - 1 : c \notin DOMAIN latch
      BY <2>1, <3>3, <3>4 DEF Paged, latch
    <3>6. QED
      BY <1>4, <1>8, <3>2, <3>3, <3>5 DEF Paged
  <2>4. CASE TakeData
    <3>1. Len(sent) >= Wide
      BY <1>4, <1>6, <1>9, <1>12, <2>4 DEF TakeData
    <3>2. PICK j \in 0 .. ChunkLen :
            /\ Len(sent) = Wide + j
            /\ chip[Device].ptr = Target(j) /\ (j < ChunkLen => dat = Data(done + j))
      BY <1>3, <1>4, <1>6, <1>13, <2>2, <3>1, TakesData
    <3>3. t = j
      BY <1>10, <1>9, <3>2
    <3> DEFINE page == Over([c \in {chip[Device].ptr} |-> dat], latch)
    <3>4. chip'[Device].latch = page
      <4>1. Chip(Device, [chip[Device] EXCEPT !.latch = page, !.ptr = PageNext(Device, chip[Device].ptr)])
        BY <1>6, <2>4 DEF TakeData
      <4> HIDE DEF page
      <4>2. chip'[Device] = [chip[Device] EXCEPT !.latch = page, !.ptr = PageNext(Device, chip[Device].ptr)]
        BY <1>6, <1>11, <4>1 DEF Chip
      <4>3. QED
        BY <1>11, <4>2, LatchAndPoint
    <3>5. /\ DOMAIN page = {Target(j)} \cup DOMAIN latch
          /\ page[Target(j)] = dat
          /\ \A c \in DOMAIN latch \ {Target(j)} : page[c] = latch[c]
      BY <3>2 DEF Over
    <3> HIDE DEF page, latch
    <3>6. ASSUME NEW c \in 0 .. Size[Device] - 1
          PROVE  \/ j + 1 > ChunkLen /\ c = Spill(done + ChunkLen)
                 \/ /\ c \notin DOMAIN page
                    /\ \A i \in 0 .. ChunkLen - 1 : i < j + 1 => c # Lands(done + i)
                 \/ \E i \in 0 .. ChunkLen - 1 :
                      /\ i < j + 1 /\ c = Lands(done + i)
                      /\ c \in DOMAIN page /\ page[c] = Data(done + i)
                      /\ \A k \in i + 1 .. ChunkLen - 1 : k < j + 1 => c # Lands(done + k)
      <4>1. \/ c \notin DOMAIN latch /\ \A i \in 0 .. ChunkLen - 1 : i < j => c # Lands(done + i)
            \/ \E i \in 0 .. ChunkLen - 1 :
                 /\ i < j /\ c = Lands(done + i) /\ c \in DOMAIN latch /\ latch[c] = Data(done + i)
                 /\ \A k \in i + 1 .. ChunkLen - 1 : k < j => c # Lands(done + k)
        BY <2>1, <2>2, <3>3 DEF Paged, latch
      <4>2. j < ChunkLen => Target(j) = Lands(done + j)
        BY DEF Target
      <4>3. CASE c = Target(j)
        <5>1. CASE j = ChunkLen
          BY <2>2, <4>3, <5>1 DEF Target
        <5>2. CASE j < ChunkLen
          <6>1. j \in 0 .. ChunkLen - 1 /\ j < j + 1
            BY <2>2, <5>2
          <6>2. c = Lands(done + j) /\ c \in DOMAIN page /\ page[c] = Data(done + j)
            BY <3>2, <3>5, <4>2, <4>3, <5>2
          <6>3. \A k \in j + 1 .. ChunkLen - 1 : ~(k < j + 1)
            BY <2>2
          <6>4. QED
            BY <6>1, <6>2, <6>3
        <5>3. QED
          BY <2>2, <5>1, <5>2
      <4>4. CASE c # Target(j)
        <5>1. \A i \in 0 .. ChunkLen - 1 : i = j => c # Lands(done + i)
          BY <2>2, <4>2, <4>4
        <5>2. \A i \in 0 .. ChunkLen - 1 : i < j + 1 => i < j \/ i = j
          BY <2>2
        <5>3. \A i \in 0 .. ChunkLen - 1 : i < j => i < j + 1
          BY <2>2
        <5>4. c \in DOMAIN page <=> c \in DOMAIN latch
          BY <3>5, <4>4
        <5>5. c \in DOMAIN latch => page[c] = latch[c]
          BY <3>5, <4>4
        <5>6. CASE c \notin DOMAIN latch /\ \A i \in 0 .. ChunkLen - 1 : i < j => c # Lands(done + i)
          BY <5>1, <5>2, <5>4, <5>6
        <5>7. CASE \E i \in 0 .. ChunkLen - 1 :
                 /\ i < j /\ c = Lands(done + i) /\ c \in DOMAIN latch /\ latch[c] = Data(done + i)
                 /\ \A k \in i + 1 .. ChunkLen - 1 : k < j => c # Lands(done + k)
          <6>1. PICK i \in 0 .. ChunkLen - 1 :
                 /\ i < j /\ c = Lands(done + i) /\ c \in DOMAIN latch /\ latch[c] = Data(done + i)
                 /\ \A k \in i + 1 .. ChunkLen - 1 : k < j => c # Lands(done + k)
            BY <5>7
          <6>2. \A k \in i + 1 .. ChunkLen - 1 : k < j + 1 => c # Lands(done + k)
            BY <5>1, <5>2, <6>1
          <6>3. QED
            BY <5>3, <5>4, <5>5, <6>1, <6>2
        <5>8. QED
          BY <4>1, <5>6, <5>7
      <4>5. QED
        BY <4>3, <4>4
    <3>7. QED
      BY <1>1, <1>8, <3>3, <3>4, <3>6 DEF Paged, Data
  <2>5. QED
    BY <2>3, <2>4 DEF Take
<1>14. Len(sent') - Wide' = t + 1
  BY <1>10, <1>4, <1>8, <1>9
<1>15. Paging'
  BY <1>1, <1>5, <1>7, <1>8, <1>13, <1>14 DEF WriteInv, Paging
<1>16. QED
  BY <1>1, <1>5, <1>6, <1>15 DEF WriteInv, Readers, Between, Full, Stored

LEMMA NvmNextWrites == NvmInv /\ WriteInv /\ [NvmNext]_nvars => WriteInv'
<1> SUFFICES ASSUME NvmInv, WriteInv, [NvmNext]_nvars PROVE WriteInv'
  OBVIOUS
<1>1. CASE (\E c \in Calls : Begin(c)) \/ Main
  BY <1>1, BeginWrites, PageWrites, DelayWrites, OtherMainWrites DEF Main
<1>2. CASE Handling
  BY <1>2, HandlingWrites
<1>3. CASE Wire
  BY <1>3, QuietBusWrites, FailingWrites, StopWrites, TakeWrites DEF Wire
<1>4. CASE UNCHANGED nvars
  <2>1. UNCHANGED main /\ UNCHANGED <<cell, chip, xfer, con, stat, phase, sent, refused>>
    BY <1>4 DEF nvars, vars, history
  <2>2. Pending' = Pending
    BY <2>1 DEF Pending, Busy, Broken, Succeeded
  <2>3. QED
    BY <2>1, <2>2, BusKeepsWrites
<1>5. QED
  BY <1>1, <1>2, <1>3, <1>4 DEF NvmNext

(* A write of which no transfer failed has, when it returns, left in every *)
(* cell where bytes landed the last of them, and every other cell as it    *)
(* was, but for the byte that mem48Write() sends after a chunk: also where *)
(* a chunk wraps over the start of its page or over its own data.          *)
THEOREM WritesLand == NvmSpec => []WriteLands
<1>1. NvmInv /\ WriteInv => WriteLands
  <2>1. SUFFICES ASSUME NvmInv, WriteInv, IsWrite, at = "idle", ~failed,
                        NEW c \in DOMAIN cell[Device] \ Damage
                 PROVE  \/ c \notin Landed /\ cell[Device][c] = before[Device][c]
                        \/ \E k \in 0 .. call.len - 1 :
                             /\ c = Lands(k) /\ cell[Device][c] = Data(k)
                             /\ \A j \in k + 1 .. call.len - 1 : Lands(j) # c
    BY DEF WriteLands, IsWrite
  <2>2. c \in 0 .. Size[Device] - 1
    <3>1. cell[Device] \in [0 .. Size[Device] - 1 -> Bytes]
      BY <2>1, CallTyped DEF NvmInv, CellsTyped
    <3>2. QED
      BY <2>1, <3>1
  <2>3. call.len \in Nat
    BY <2>1, CallTyped DEF NvmInv
  <2>4. Spoilt(call.len, c) \/ Holds(call.len, c, cell[Device][c])
    BY <2>1, <2>2 DEF WriteInv, Between, Clean, Exact
  <2>5. ~Spoilt(call.len, c)
    BY <2>1 DEF Spoilt, Damage
  <2>6. QED
    BY <2>4, <2>5 DEF Holds, Last, Landed
<1>2. NvmSpec => []WriteInv
  BY InitWriteInv, NvmNextWrites, SpecNvmInv, PTL DEF NvmSpec
<1>3. QED
  BY <1>1, <1>2, SpecNvmInv, PTL

-----------------------------------------------------------------------------
(* Writes that fit.                                                        *)

LEMMA LandsWhereItFits ==
  ASSUME MainTyped, Fits, NEW k \in 0 .. call.len - 1
  PROVE  Lands(k) = Cell(k)
<1>1. call.len \in Nat /\ call.addr \in Nat /\ Device \in Devices
  BY CallTyped
<1>2. PICK c \in Nat \ {0} : c = Chunk
  BY Constants
<1>3. PICK m \in Nat, i \in 0 .. c - 1 : k = m * c + i /\ k \div c = m
  <2>1. k \in Nat
    BY <1>1
  <2>2. \E m \in Nat, i \in 0 .. c - 1 : k = m * c + i /\ k \div c = m /\ k % c = i
    BY <2>1, Divide, Zenon
  <2>3. QED
    BY <2>2
<1>4. PICK b \in Nat : b = m * c
  OBVIOUS
<1>5. ChunkStart(k) = b /\ k - b = i /\ k = b + i
  BY <1>2, <1>3, <1>4 DEF ChunkStart
<1>6. PICK a \in Nat : a = call.addr + b
  BY <1>1
<1>7. PICK p \in Nat \ {0} : p = PageSize[Device]
  BY <1>1, Constants
<1>8. PICK s \in Nat \ {0} : s = Size[Device]
  BY <1>1, Constants
<1>9. PICK n \in Nat : s = n * p
  BY <1>1, <1>7, <1>8, Multiples
<1>10. \A j \in 1 .. i : (a + j) % p # 0
  <2>1. SUFFICES ASSUME NEW j \in 1 .. i PROVE (a + j) % p # 0
    OBVIOUS
  <2>2. b + j \in 1 .. call.len - 1
    BY <1>1, <1>5
  <2>3. (b + j) % Chunk # 0
    <3>1. j \in 0 .. c - 1 /\ j # 0
      BY <1>3
    <3>2. (m * c + j) % c = j
      BY <3>1, Remainder
    <3>3. QED
      BY <1>2, <1>4, <3>1, <3>2
  <2>4. (call.addr + (b + j)) % PageSize[Device] # 0
    BY <2>2, <2>3 DEF Fits
  <2>5. call.addr + (b + j) = a + j
    BY <1>1, <1>6
  <2>6. QED
    BY <1>7, <2>4, <2>5
<1>11. PICK x \in 0 .. s - 1 : x = a % s
  OBVIOUS
<1>12. (x % p) + i < p /\ x + i < s /\ (x + i) % s = (a + i) % s
  <2>1. i \in Nat
    BY <1>3
  <2>2. ((a % s) % p) + i < p /\ (a % s) + i < s
    BY <1>9, <1>10, <2>1, NoBoundary
  <2>3. ((a % s) + i) % s = (a + i) % s
    BY <2>1, CountOn, Zenon
  <2>4. QED
    BY <1>11, <2>2, <2>3
<1>13. (x \div p) * p + ((x + i) % p) = x + i
  <2>1. x \in Nat /\ i \in Nat
    BY <1>3, <1>11
  <2>2. QED
    BY <1>12, <2>1, PageGoesOn, Zenon
<1>14. (x + i) % s = x + i
  BY <1>11, <1>12
<1>15. a + i = call.addr + k
  BY <1>1, <1>5, <1>6
<1>16. Cell(b) = x
  BY <1>6, <1>8, <1>11 DEF Cell
<1>17. QED
  BY <1>5, <1>7, <1>8, <1>12, <1>13, <1>14, <1>15, <1>16 DEF Lands, InPage, Cell

(* A write that fits its pages and of which no transfer failed has, when   *)
(* it returns, written the cells of its range, the last byte for a cell    *)
(* winning when the range is longer than the memory, and no other cell,    *)
(* but for the byte that mem48Write() sends after a chunk.                 *)
THEOREM WritesAreExact == NvmSpec => []WriteIsExact
<1>1. NvmInv /\ WriteLands => WriteIsExact
  <2>1. SUFFICES ASSUME NvmInv, WriteLands, Fits, at = "idle", ~failed,
                        NEW c \in DOMAIN cell[Device] \ Damage
                 PROVE  \/ c \notin Range /\ cell[Device][c] = before[Device][c]
                        \/ \E k \in 0 .. call.len - 1 :
                             /\ c = Cell(k) /\ cell[Device][c] = Data(k)
                             /\ \A j \in k + 1 .. call.len - 1 : Cell(j) # c
    BY DEF WriteIsExact
  <2>2. \A k \in 0 .. call.len - 1 : Lands(k) = Cell(k)
    BY <2>1, LandsWhereItFits DEF NvmInv
  <2>3. call.op \in Writes /\ call.len \in Nat
    BY <2>1, CallTyped DEF NvmInv, Fits
  <2>4. CASE c \notin Landed /\ cell[Device][c] = before[Device][c]
    BY <2>2, <2>4 DEF Landed, Range
  <2>5. CASE \E k \in 0 .. call.len - 1 :
               /\ c = Lands(k) /\ cell[Device][c] = Data(k)
               /\ \A j \in k + 1 .. call.len - 1 : Lands(j) # c
    <3>1. PICK k \in 0 .. call.len - 1 :
               /\ c = Lands(k) /\ cell[Device][c] = Data(k)
               /\ \A j \in k + 1 .. call.len - 1 : Lands(j) # c
      BY <2>5
    <3>2. \A j \in k + 1 .. call.len - 1 : Cell(j) # c
      BY <2>2, <2>3, <3>1
    <3>3. QED
      BY <2>2, <3>1, <3>2
  <2>6. QED
    BY <2>1, <2>3, <2>4, <2>5 DEF WriteLands
<1>2. QED
  BY <1>1, WritesLand, SpecNvmInv, PTL

(* Which writes fit.  Where the page is a multiple of the 32 bytes of a    *)
(* chunk, those to a multiple of 32, of any length: what the callers of    *)
(* memWrite() and mem48Write() can keep to.                                *)
THEOREM AlignedWritesFit ==
  ASSUME MainTyped, call.op \in Writes, call.addr % Chunk = 0, PageSize[Device] % Chunk = 0
  PROVE  Fits
<1>1. SUFFICES ASSUME NEW k \in 1 .. call.len - 1, k % Chunk # 0,
                      (call.addr + k) % PageSize[Device] = 0
               PROVE  FALSE
  BY DEF Fits
<1>2. call.len \in Nat /\ call.addr \in Nat /\ Device \in Devices /\ k \in Nat
  BY CallTyped
<1>3. PICK c \in Nat \ {0} : c = Chunk
  BY Constants
<1>4. PICK p \in Nat \ {0} : p = PageSize[Device]
  BY <1>2, Constants
<1>5. PICK q \in Nat : call.addr = q * c
  BY <1>2, <1>3, Whole, Zenon
<1>6. PICK n \in Nat : p = n * c
  BY <1>3, <1>4, Whole, Zenon
<1>7. PICK a \in Nat : a = call.addr + k
  BY <1>2
<1>8. PICK i \in Nat : a = i * p
  BY <1>1, <1>4, <1>7, Whole, Zenon
<1>9. (a % p) % c = a % c
  BY <1>6, ModMod, Zenon
<1>10. a % c = k % c
  BY <1>2, <1>5, <1>7, ModAdd
<1>11. 0 % c = 0
  OBVIOUS
<1>12. QED
  BY <1>1, <1>3, <1>4, <1>7, <1>9, <1>10, <1>11

(* Where the page is smaller than a chunk, none that is longer than it:    *)
(* mem48Write() and memWrite() have no size but 32 (ciaaNVM.c:71, :116),   *)
(* whatever the memory.                                                    *)
THEOREM SmallPagesUnfit ==
  ASSUME MainTyped, PageSize[Device] < Chunk, call.len > PageSize[Device]
  PROVE  ~Fits
<1>1. SUFFICES ASSUME Fits PROVE FALSE
  OBVIOUS
<1>2. call.len \in Nat /\ call.addr \in Nat /\ Device \in Devices
  BY CallTyped
<1>3. PICK c \in Nat \ {0} : c = Chunk
  BY Constants
<1>4. PICK p \in Nat \ {0} : p = PageSize[Device]
  BY <1>2, Constants
<1>5. PICK q \in Nat, r \in 0 .. p - 1 : call.addr = q * p + r
  BY <1>2, Divide
<1>6. PICK k \in 1 .. p : k = p - r
  BY <1>5
<1>7. k \in 1 .. call.len - 1 /\ k \in 0 .. c - 1 /\ k # 0
  BY <1>2, <1>3, <1>4, <1>6
<1>8. k % c = k
  BY <1>7
<1>9. PICK x \in Nat : x = q + 1
  OBVIOUS
<1>10. call.addr + k = x * p + 0
  BY <1>2, <1>5, <1>6, <1>9
<1>11. (x * p + 0) % p = 0
  BY Remainder
<1>12. QED
  BY <1>1, <1>3, <1>4, <1>7, <1>8, <1>10, <1>11 DEF Fits
=============================================================================
