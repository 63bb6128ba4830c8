----------------------------- MODULE Nvm_proofs -----------------------------
(***************************************************************************)
(* Theorems about the functions of the serial memories: they use the I2C   *)
(* master as it expects, so their transfers are those of I2cTransfer; no   *)
(* index leaves buf or a memory; a write, torn or not, changes nothing but *)
(* the cells where its bytes land, and these are in the pages of its       *)
(* range.  For memories, pages, chunks and calls of every size that        *)
(* NvmAssumption allows, pages smaller than a chunk among them, and any    *)
(* number of faults.                                                       *)
(***************************************************************************)
EXTENDS Nvm, I2cMaster_proofs, Remainders

\* The bytes of data in the chunk that is sent, the length of its address.
ChunkLen == IF Left > Chunk THEN Chunk ELSE Left
Wide == IF Device = Mem THEN 2 ELSE 1
IsWrite == call.op \in Writes

\* The parts of the types.
MainTyped ==
  /\ at \in {"idle", "page", "sent", "point", "pointed", "reading"}
  /\ call \in Calls \cup {Quiet} /\ done \in Nat /\ buf \in [1 .. Chunk + 2 -> Bytes]
  /\ at \in {"page", "sent"} => call.op \in Writes
CellsTyped == \A d \in Devices : cell[d] \in [0 .. Size[d] - 1 -> Bytes]
ChipTyped(d, m) ==
  /\ m = [ptr |-> m.ptr, got |-> m.got, latch |-> m.latch, busy |-> m.busy]
  /\ m.ptr \in 0 .. Size[d] - 1 /\ m.got \in Nat
  /\ DOMAIN m.latch \subseteq 0 .. Size[d] - 1
  /\ \A c \in DOMAIN m.latch : m.latch[c] \in Bytes
ChipsTyped == DOMAIN chip = Devices /\ \A d \in Devices : ChipTyped(d, chip[d])

\* The stages in which nothing has been sent, and in which bytes go out.
Fresh == Starting \/ Started \/ Addressing
Talking == Asking \/ Writing

\* A transfer is one that the functions ask for: to the memory of the call,
\* and never bytes in both directions.
Using == Busy =>
  /\ at \in {"sent", "pointed", "reading"}
  /\ Selected = Device /\ xfer.request.options = {}
  /\ xfer.request.room = 0 \/ xfer.request.tx = <<>>
  /\ at = "pointed" => Len(xfer.request.tx) = Wide
  /\ at = "reading" => xfer.request.tx = <<>>
  /\ Addressing => Slave = Selected
  /\ Fresh => sent = <<>>

\* The memory has counted the address bytes that it took.
Counting ==
  Talking /\ ~refused => chip[Device].got = IF Len(sent) < Wide THEN Len(sent) ELSE Wide

\* Only a write in progress has a page that is not stored yet.
Latching == \A d \in Devices : DOMAIN chip[d].latch # {} =>
  at = "sent" /\ d = Device /\ ~Broken /\ (Busy \/ "STO" \in con)

\* What is sent is the address and the data of the chunk.
Message ==
  LET tx == xfer.request.tx
      head == AddressBytes(call.op, call.addr + done)
  IN  /\ ChunkLen \in 1 .. Chunk
      /\ Len(tx) = ChunkLen + 2
      /\ \A i \in 1 .. Wide : tx[i] = head[i]
      /\ \A j \in 0 .. ChunkLen - 1 : tx[Wide + 1 + j] = Data(done + j)

\* Where the pointer is once j bytes of data have been taken.
Target(j) == IF j < ChunkLen THEN Lands(done + j) ELSE Spill(done + ChunkLen)
Position(taken) ==
  /\ taken = 1 /\ Wide = 2 =>
       chip[Device].ptr = (((call.addr + done) \div Radix) % Radix) % Size[Device]
  /\ taken - Wide \in 0 .. ChunkLen => chip[Device].ptr = Target(taken - Wide)

\* A value that a cell may have after a write that was torn, or never begun.
Meant(c, v) == c \in Spills \/ \E k \in 0 .. call.len - 1 : c = Lands(k) /\ v = Data(k)

Stepping == IsWrite => \E m \in Nat : done = m * Chunk
Pointing == IsWrite /\ at = "sent" /\ Talking /\ ~refused => Position(Len(sent))
Pages == IsWrite =>
  \A c \in DOMAIN chip[Device].latch : Meant(c, chip[Device].latch[c])
Cells == IsWrite =>
  \A c \in 0 .. Size[Device] - 1 :
    cell[Device][c] = before[Device][c] \/ Meant(c, cell[Device][c])

NvmInv ==
  /\ IInv /\ MainTyped /\ CellsTyped /\ ChipsTyped
  /\ Using /\ Counting /\ Latching /\ (at = "sent" => Message)
  /\ Stepping /\ Pointing /\ Pages /\ Cells

-----------------------------------------------------------------------------
(* The constants and the arithmetic of cells, pages and chunks.            *)
LEMMA Constants ==
  /\ Radix \in Nat \ {0} /\ Word \in Nat \ {0} /\ Chunk \in Nat \ {0}
  /\ Radix > 2 /\ Bytes = 0 .. Radix - 1
  /\ \A d \in Devices : Size[d] \in Nat \ {0} /\ PageSize[d] \in Nat \ {0}
  /\ Mem \in Devices /\ Mem48 \in Devices /\ Mem # Mem48
  /\ \A op : Dev(op) \in Devices
  BY NvmAssumption DEF Devices, Mem, Mem48, Dev

LEMMA Multiples ==
  /\ \A d \in Devices : \E j \in Nat : Size[d] = j * PageSize[d]
  /\ \E k \in Nat : Radix * Radix = k * Size[Mem]
  /\ \E k \in Nat : Radix = k * Size[Mem48]
<1>1. /\ (Radix * Radix) % Size[Mem] = 0 /\ Radix % Size[Mem48] = 0
      /\ \A d \in Devices : Size[d] % PageSize[d] = 0
  BY NvmAssumption
<1>2. Radix * Radix \in Nat /\ \A d \in Devices : Size[d] \in Nat
  BY Constants
<1>3. QED
  BY <1>1, <1>2, Constants, Whole, Zenon

LEMMA CallTyped ==
  ASSUME MainTyped
  PROVE  /\ call.op \in Writes \cup {"memRead", "mem48Read"}
         /\ call.addr \in Nat /\ call.len \in Nat
         /\ Device \in Devices /\ (Device = Mem \/ Device = Mem48)
  BY NvmAssumption DEF MainTyped, Quiet, Device, Dev, Devices

(* The two address bytes of a cell, as the wide memory puts them together. *)
LEMMA WidePoint ==
  ASSUME NEW a \in Nat
  PROVE  ((((a \div Radix) % Radix) % Size[Mem]) * Radix + (a % Radix)) % Size[Mem] = a % Size[Mem]
<1>1. PICK s \in Nat \ {0} : s = Size[Mem]
  BY Constants
<1>2. PICK r \in Nat \ {0} : r = Radix
  BY Constants
<1>3. PICK k \in Nat : r * r = k * s
  BY <1>1, <1>2, Multiples
<1>4. PICK hi \in Nat : hi = (a \div r) % r
  OBVIOUS
<1>5. PICK lo \in Nat : lo = a % r
  OBVIOUS
<1>6. PICK u \in Nat : a = u * (r * r) + (hi * r + lo)
  BY <1>4, <1>5, TwoDigits
<1>7. PICK q \in Nat, m \in 0 .. s - 1 : hi = q * s + m /\ hi % s = m
  BY Divide
<1>8. PICK n \in Nat : n = m * r + lo
  OBVIOUS
<1>9. PICK x \in Nat : x = u * k + q * r
  OBVIOUS
<1>10. a = x * s + n
  <2>1. u * (r * r) = (u * k) * s
    BY <1>3
  <2>2. hi * r = (q * r) * s + m * r
    BY <1>7
  <2>3. x * s = (u * k) * s + (q * r) * s
    BY <1>9
  <2>4. QED
    BY <1>6, <1>8, <2>1, <2>2, <2>3
<1>11. (x * s + n) % s = n % s
  BY ModAdd, Zenon
<1>12. QED
  BY <1>1, <1>2, <1>4, <1>5, <1>7, <1>8, <1>10, <1>11, Zenon

(* The one address byte of a cell, as the narrow memory takes it.          *)
LEMMA NarrowPoint ==
  ASSUME NEW a \in Nat
  PROVE  (a % Radix) % Size[Mem48] = a % Size[Mem48]
<1>1. PICK k \in Nat : Radix = k * Size[Mem48]
  BY Multiples
<1>2. QED
  BY <1>1, Constants, ModMod, Zenon

(* A cell of a page of d is one of d.                                      *)
LEMMA InPageType ==
  ASSUME NEW d \in Devices, NEW a \in 0 .. Size[d] - 1, NEW i \in Nat
  PROVE  InPage(d, a, i) \in 0 .. Size[d] - 1
<1>1. PICK j \in Nat : Size[d] = j * PageSize[d]
  BY Multiples
<1>2. PICK s \in Nat \ {0} : s = Size[d]
  BY Constants
<1>3. PICK p \in Nat \ {0} : p = PageSize[d]
  BY Constants
<1>4. (a + i) % p \in 0 .. p - 1
  <2>1. PICK b \in Nat : b = a + i
    BY <1>2
  <2>2. b % p \in 0 .. p - 1
    OBVIOUS
  <2>3. QED
    BY <2>1, <2>2
<1>5. (a \div p) * p + ((a + i) % p) \in 0 .. s - 1
  BY <1>1, <1>2, <1>3, <1>4, PageInMemory
<1>6. QED
  BY <1>2, <1>3, <1>5 DEF InPage

LEMMA CellType ==
  ASSUME MainTyped, NEW k \in Nat
  PROVE  Cell(k) \in 0 .. Size[Device] - 1
<1>1. PICK n \in Nat : n = call.addr + k
  BY CallTyped
<1>2. PICK s \in Nat \ {0} : s = Size[Device]
  BY CallTyped, Constants
<1>3. n % s \in 0 .. s - 1
  OBVIOUS
<1>4. QED
  BY <1>1, <1>2, <1>3 DEF Cell

(* Chunk m begins at byte m * Chunk.                                       *)
LEMMA InChunk ==
  ASSUME NEW m \in Nat, NEW j \in 0 .. Chunk - 1
  PROVE  ChunkStart(m * Chunk + j) = m * Chunk
<1>1. PICK c \in Nat \ {0} : c = Chunk
  BY Constants
<1>2. (m * c + j) \div c = m
  <2>1. j \in 0 .. c - 1
    BY <1>1
  <2>2. QED
    BY <2>1, Remainder
<1>3. QED
  BY <1>1, <1>2 DEF ChunkStart

(* Where the bytes of a chunk land, counted from its first one.            *)
LEMMA LandsInChunk ==
  ASSUME MainTyped, NEW m \in Nat, done = m * Chunk, NEW j \in 0 .. Chunk - 1
  PROVE  Lands(done + j) = InPage(Device, Cell(done), j)
<1>1. ChunkStart(done + j) = done
  BY InChunk
<1>2. (done + j) - done = j
  BY DEF MainTyped
<1>3. QED
  BY <1>1, <1>2 DEF Lands

LEMMA LandsFirst ==
  ASSUME MainTyped, NEW m \in Nat, done = m * Chunk
  PROVE  Lands(done) = Cell(done)
<1>1. 0 \in 0 .. Chunk - 1 /\ done + 0 = done
  BY Constants DEF MainTyped
<1>2. Lands(done) = InPage(Device, Cell(done), 0)
  BY <1>1, LandsInChunk
<1>3. PICK a \in Nat : a = Cell(done)
  <2>1. PICK s \in Nat \ {0} : s = Size[Device]
    BY CallTyped, Constants
  <2>2. QED
    BY <2>1, CellType DEF MainTyped
<1>4. PICK p \in Nat \ {0} : p = PageSize[Device]
  BY CallTyped, Constants
<1>5. (a \div p) * p + ((a + 0) % p) = a
  BY PageBegins
<1>6. QED
  BY <1>2, <1>3, <1>4, <1>5 DEF InPage

LEMMA OneFurther ==
  ASSUME NEW d \in Devices, NEW a \in Nat, NEW j \in Nat
  PROVE  PageNext(d, InPage(d, a, j)) = InPage(d, a, j + 1)
<1>1. PICK p \in Nat \ {0} : p = PageSize[d]
  BY Constants
<1>2. ASSUME NEW y, y = (a \div p) * p + ((a + j) % p)
      PROVE  (y \div p) * p + ((y + 1) % p) = (a \div p) * p + ((a + (j + 1)) % p)
  BY <1>2, PageSteps, Zenon
<1>3. QED
  BY <1>1, <1>2 DEF PageNext, InPage

LEMMA LandsNext ==
  ASSUME MainTyped, NEW m \in Nat, done = m * Chunk, NEW j \in Nat, j + 1 \in 0 .. Chunk - 1
  PROVE  PageNext(Device, Lands(done + j)) = Lands(done + (j + 1))
<1>1. Cell(done) \in Nat
  <2>1. PICK s \in Nat \ {0} : s = Size[Device]
    BY CallTyped, Constants
  <2>2. QED
    BY <2>1, CellType DEF MainTyped
<1>2. j \in 0 .. Chunk - 1
  BY Constants
<1>3. Lands(done + j) = InPage(Device, Cell(done), j)
  BY <1>2, LandsInChunk
<1>4. Lands(done + (j + 1)) = InPage(Device, Cell(done), j + 1)
  BY LandsInChunk
<1>5. Device \in Devices
  BY CallTyped
<1>6. QED
  BY <1>1, <1>3, <1>4, <1>5, OneFurther

LEMMA DataType == \A k \in Nat : Data(k) \in Bytes
<1>1. SUFFICES ASSUME NEW k \in Nat PROVE Data(k) \in Bytes
  OBVIOUS
<1>2. PICK n \in Nat \ {0} : n = Radix - 2
  BY Constants
<1>3. k % n \in 0 .. n - 1
  OBVIOUS
<1>4. QED
  BY <1>2, <1>3, Constants DEF Data

-----------------------------------------------------------------------------
(* The initial state.                                                      *)
LEMMA InitNvmInv == NvmInit => NvmInv
<1> SUFFICES ASSUME NvmInit PROVE NvmInv
  OBVIOUS
<1>1. IInv
  BY InitIInv DEF NvmInit
<1>2. MainTyped
  BY Constants DEF NvmInit, MainTyped, Junk
<1>3. CellsTyped
  BY Constants DEF NvmInit, CellsTyped
<1>4. ChipsTyped /\ \A d \in Devices : DOMAIN chip[d].latch = {}
  BY Constants DEF NvmInit, ChipsTyped, ChipTyped
<1>5. ~Busy /\ at = "idle" /\ call = Quiet
  BY DEF NvmInit, Init, Transfer, Busy
<1>6. ~IsWrite
  BY <1>5 DEF IsWrite, Quiet, Writes
<1>7. Using /\ Counting /\ Latching
  BY <1>4, <1>5 DEF Using, Counting, Latching, Talking, Asking, Writing
<1>8. QED
  BY <1>1, <1>2, <1>3, <1>4, <1>5, <1>6, <1>7 DEF NvmInv, Stepping, Pointing, Pages, Cells

-----------------------------------------------------------------------------
(* What a call means does not change while it lasts.                       *)
LEMMA CallFrame ==
  ASSUME UNCHANGED <<call, done>>
  PROVE  /\ Device' = Device /\ Wide' = Wide /\ ChunkLen' = ChunkLen
         /\ IsWrite' = IsWrite
         /\ \A k : Lands(k)' = Lands(k)
         /\ \A j : Target(j)' = Target(j)
         /\ \A c, v : Meant(c, v)' = Meant(c, v)
<1>1. Device' = Device /\ Left' = Left
  BY DEF Device, Left
<1>2. Wide' = Wide /\ ChunkLen' = ChunkLen /\ IsWrite' = IsWrite
  BY <1>1 DEF Wide, ChunkLen, IsWrite
<1>3. \A k : Cell(k)' = Cell(k)
  BY <1>1 DEF Cell
<1>4. \A k : Lands(k)' = Lands(k) /\ Spill(k)' = Spill(k)
  BY <1>1, <1>3 DEF Lands, Spill, ChunkStart, PageNext, InPage
<1>5. Spills' = Spills
  BY <1>1, <1>4 DEF Spills, Ends
<1>6. \A j : Target(j)' = Target(j)
  BY <1>2, <1>4 DEF Target
<1>7. \A c, v : Meant(c, v)' = Meant(c, v)
  BY <1>4, <1>5 DEF Meant, Data
<1>8. QED
  BY <1>1, <1>2, <1>4, <1>6, <1>7

(* What the steps of the driver and of the bus leave alone.                *)
LEMMA MainFrame ==
  ASSUME NvmInv, UNCHANGED main, xfer'.request = xfer.request
  PROVE  /\ MainTyped' /\ (at = "sent" => Message)' /\ Stepping'
         /\ at' = at /\ Device' = Device /\ Wide' = Wide /\ IsWrite' = IsWrite
         /\ \A s : chip'[Device].ptr = chip[Device].ptr => Position(s)' = Position(s)
<1>1. UNCHANGED <<at, call, done, buf, before>>
  BY DEF main
<1>2. MainTyped'
  BY <1>1 DEF NvmInv, MainTyped
<1>3. (at = "sent" => Message)'
  BY <1>1, CallFrame DEF NvmInv, Message, Data, AddressBytes
<1>4. Stepping'
  BY <1>1, CallFrame DEF NvmInv, Stepping
<1>5. \A s : chip'[Device].ptr = chip[Device].ptr => Position(s)' = Position(s)
  BY <1>1, CallFrame DEF Position
<1>6. QED
  BY <1>1, <1>2, <1>3, <1>4, <1>5, CallFrame

LEMMA CellFrame ==
  ASSUME NvmInv, UNCHANGED <<cell, main>>
  PROVE  CellsTyped' /\ Cells'
<1>1. UNCHANGED <<call, done, cell, before>>
  BY DEF main
<1>2. CellsTyped'
  BY <1>1 DEF NvmInv, CellsTyped
<1>3. Cells'
  BY <1>1, CallFrame DEF NvmInv, Cells
<1>4. QED
  BY <1>2, <1>3

LEMMA LatchFrame ==
  ASSUME NvmInv, UNCHANGED main, \A d \in Devices : chip'[d].latch = chip[d].latch
  PROVE  Pages'
<1>1. UNCHANGED <<call, done>>
  BY DEF main
<1>2. Device \in Devices
  BY CallTyped DEF NvmInv
<1>3. QED
  BY <1>1, <1>2, CallFrame DEF NvmInv, Pages

(* A step that sets one memory leaves the other alone.                     *)
LEMMA ChipSet ==
  ASSUME ChipsTyped, NEW d \in Devices, NEW m, Chip(d, m), ChipTyped(d, m)
  PROVE  ChipsTyped' /\ chip'[d] = m /\ \A e \in Devices \ {d} : chip'[e] = chip[e]
<1>1. DOMAIN chip' = Devices /\ chip'[d] = m /\ \A e \in Devices \ {d} : chip'[e] = chip[e]
  BY DEF ChipsTyped, Chip
<1>2. \A e \in Devices : ChipTyped(e, chip'[e])
  BY <1>1 DEF ChipsTyped
<1>3. QED
  BY <1>1, <1>2 DEF ChipsTyped, ChipTyped

(* The stage that a step of the bus begins in.                             *)
LEMMA BusStage ==
  ASSUME Stages
  PROVE  /\ Clocking("started") => Addressing
         /\ Clocking("writing") => Writing
         /\ Clocking("reading") => Reading
         /\ stat = "none" /\ "STA" \in con => Starting
         /\ stat = "none" /\ "STO" \in con => Ended \/ Starting
  BY DEF Clocking, Stages, Ended, Starting, Started, Addressing, Asking, Writing, Turned,
     Reading, Got, Broken

-----------------------------------------------------------------------------
(* The steps of main between transfers.                                    *)
LEMMA Quiescent ==
  ASSUME NvmInv, UNCHANGED vars, ~Busy
  PROVE  IInv' /\ Using' /\ Counting' /\ Pointing' /\ ~Busy' /\ ~Broken' /\ con' = con
<1>1. IInv'
  BY NextKeeps DEF NvmInv
<1>2. ~Busy' /\ con' = con
  BY DEF vars, Busy
<1>3. ~Talking' /\ ~Broken'
  BY <1>2 DEF Talking, Asking, Writing, Broken
<1>4. QED
  BY <1>1, <1>2, <1>3 DEF Using, Counting, Pointing

LEMMA NoTransfer ==
  ASSUME NvmInv, at \notin {"sent", "pointed", "reading"} \/ Returned
  PROVE  ~Busy
  BY DEF NvmInv, Using, Busy, Returned

LEMMA BeginKeeps ==
  ASSUME NvmInv, NEW c \in Calls, Begin(c)
  PROVE  NvmInv'
<1>1. /\ at = "idle" /\ call' = c /\ done' = 0 /\ before' = cell
      /\ buf' = [i \in 1 .. Chunk + 2 |-> Junk]
      /\ at' = (IF c.op \in Writes THEN "page" ELSE "point")
      /\ UNCHANGED vars /\ UNCHANGED <<cell, chip>>
  BY DEF Begin
<1>2. ~Busy
  BY <1>1, NoTransfer
<1>3. MainTyped'
  BY <1>1, Constants DEF MainTyped, Junk
<1>4. CellsTyped' /\ ChipsTyped'
  BY <1>1 DEF NvmInv, CellsTyped, ChipsTyped, ChipTyped
<1>5. \A d \in Devices : DOMAIN chip[d].latch = {} /\ chip'[d] = chip[d]
  BY <1>1 DEF NvmInv, Latching
<1>6. Latching'
  BY <1>5 DEF Latching
<1>7. Device' \in Devices
  BY <1>3, CallTyped, Constants DEF Device
<1>8. Stepping' /\ Pages' /\ Cells'
  <2>1. \E m \in Nat : done' = m * Chunk
    BY <1>1, Constants
  <2>2. Pages'
    BY <1>5, <1>7 DEF Pages
  <2>3. Cells'
    BY <1>1 DEF Cells
  <2>4. QED
    BY <2>1, <2>2, <2>3 DEF Stepping
<1>9. QED
  BY <1>1, <1>2, <1>3, <1>4, <1>6, <1>8, Quiescent DEF NvmInv

LEMMA DelayKeeps ==
  ASSUME NvmInv, Delay
  PROVE  NvmInv'
<1>1. /\ at = "sent" /\ Returned /\ "STO" \notin con /\ done' = done + Chunk /\ at' = "page"
      /\ UNCHANGED vars /\ UNCHANGED <<call, buf, before, cell>>
      /\ chip' = [chip EXCEPT ![Dev(call.op)].busy = @ /\ "slow" \in Faults]
  BY DEF Delay
<1>2. ~Busy
  BY <1>1, NoTransfer
<1>3. MainTyped'
  BY <1>1, Constants DEF NvmInv, MainTyped
<1>4. CellsTyped'
  BY <1>1 DEF NvmInv, CellsTyped
<1>5. /\ DOMAIN chip' = Devices
      /\ \A d \in Devices : /\ chip'[d].latch = chip[d].latch /\ chip'[d].ptr = chip[d].ptr
                            /\ chip'[d].got = chip[d].got
                            /\ chip'[d] = [chip[d] EXCEPT !.busy = chip'[d].busy]
  <2>1. DOMAIN chip = Devices
    BY DEF NvmInv, ChipsTyped
  <2>2. \A d \in Devices :
          chip[d] = [ptr |-> chip[d].ptr, got |-> chip[d].got, latch |-> chip[d].latch,
                     busy |-> chip[d].busy]
    BY DEF NvmInv, ChipsTyped, ChipTyped
  <2>3. QED
    BY <1>1, <2>1, <2>2
<1>6. ChipsTyped'
  <2>1. \A d \in Devices : ChipTyped(d, chip[d])
    BY DEF NvmInv, ChipsTyped
  <2>2. \A d \in Devices : ChipTyped(d, chip'[d])
    BY <1>5, <2>1 DEF ChipTyped
  <2>3. QED
    BY <1>5, <2>2 DEF ChipsTyped, ChipTyped
<1>7. \A d \in Devices : DOMAIN chip'[d].latch = {}
  BY <1>1, <1>2, <1>5 DEF NvmInv, Latching
<1>8. Device' = Device /\ IsWrite' = IsWrite /\ Device \in Devices
  BY <1>1, CallTyped DEF Device, IsWrite, NvmInv
<1>9. Latching' /\ Pages'
  BY <1>7, <1>8 DEF Latching, Pages
<1>10. Stepping'
  <2>1. SUFFICES ASSUME IsWrite PROVE \E m \in Nat : done + Chunk = m * Chunk
    BY <1>1, <1>8 DEF Stepping
  <2>2. PICK m \in Nat : done = m * Chunk
    BY <2>1 DEF NvmInv, Stepping
  <2>3. m + 1 \in Nat /\ done + Chunk = (m + 1) * Chunk
    BY <2>2, Constants
  <2>4. QED
    BY <2>3
<1>11. Cells'
  <2>1. \A c, v : Meant(c, v)' = Meant(c, v)
    BY <1>1, <1>8 DEF Meant, Spills, Spill, PageNext, InPage, Ends, Lands, ChunkStart, Cell, Data
  <2>2. QED
    BY <1>1, <1>8, <2>1 DEF NvmInv, Cells
<1>12. QED
  BY <1>1, <1>2, <1>3, <1>4, <1>6, <1>9, <1>10, <1>11, Quiescent DEF NvmInv

(* A call returns.                                                         *)
LEMMA ReturnKeeps ==
  ASSUME NvmInv, WriteReturns \/ ReadReturns
  PROVE  NvmInv'
<1>1. /\ at \in {"page", "reading"} /\ at' = "idle" /\ UNCHANGED vars
      /\ UNCHANGED <<call, done, buf, before, cell, chip>>
  BY DEF WriteReturns, ReadReturns
<1>2. ~Busy
  BY NoTransfer DEF WriteReturns, ReadReturns
<1>3. MainTyped' /\ CellsTyped' /\ ChipsTyped'
  BY <1>1 DEF NvmInv, MainTyped, CellsTyped, ChipsTyped, ChipTyped
<1>4. \A d \in Devices : DOMAIN chip'[d].latch = {}
  BY <1>1 DEF NvmInv, Latching
<1>5. Latching'
  BY <1>4 DEF Latching
<1>6. Stepping' /\ Pages' /\ Cells'
  BY <1>1, CallFrame DEF NvmInv, Stepping, Pages, Cells
<1>7. QED
  BY <1>1, <1>2, <1>3, <1>5, <1>6, Quiescent DEF NvmInv

-----------------------------------------------------------------------------
(* The steps of main that begin a transfer.                                *)
LEMMA AsksKeeps ==
  ASSUME NvmInv, ~Busy, at # "sent", NEW r \in Requests, Xfer(r),
         UNCHANGED <<call, done, before, cell, chip>>,
         at' \in {"sent", "pointed", "reading"}, MainTyped', (at = "sent" => Message)',
         r.slaveAddr = Device, r.options = {}, r.room = 0 \/ r.tx = <<>>,
         at' = "pointed" => Len(r.tx) = Wide, at' = "reading" => r.tx = <<>>
  PROVE  NvmInv'
<1>1. IInv'
  BY XferKeeps DEF NvmInv
<1>2. xfer'.request = r /\ sent' = <<>> /\ Busy' /\ stat' = "none" /\ "STA" \in con'
  BY DEF Xfer, Transfer, Busy
<1>3. ~Talking' /\ ~Broken' /\ ~Addressing'
  BY <1>2 DEF Talking, Asking, Writing, Broken, Addressing
<1>4. Device' = Device /\ Wide' = Wide
  BY CallFrame
<1>5. Using'
  BY <1>2, <1>3, <1>4 DEF Using, Selected
<1>6. Counting' /\ Pointing'
  BY <1>3 DEF Counting, Pointing
<1>7. \A d \in Devices : DOMAIN chip'[d].latch = {}
  BY DEF NvmInv, Latching
<1>8. Latching'
  BY <1>7 DEF Latching
<1>9. Stepping' /\ Pages' /\ Cells'
  BY CallFrame DEF NvmInv, Stepping, Pages, Cells
<1>10. CellsTyped' /\ ChipsTyped'
  BY DEF NvmInv, CellsTyped, ChipsTyped, ChipTyped
<1>11. QED
  BY <1>1, <1>5, <1>6, <1>8, <1>9, <1>10 DEF NvmInv

LEMMA RequestMade ==
  ASSUME NEW d \in Devices, NEW n \in 0 .. Chunk + 2, NEW tx \in [1 .. n -> Bytes],
         NEW room \in 0 .. Word - 1
  PROVE  [slaveAddr |-> d, tx |-> tx, room |-> room, options |-> {}] \in Requests
<1>1. tx \in UNION {[1 .. k -> Bytes] : k \in 0 .. Chunk + 2}
  OBVIOUS
<1>2. QED
  BY <1>1, RequestsCovered

LEMMA AddressType ==
  ASSUME NEW op, NEW a \in Nat
  PROVE  /\ AddressBytes(op, a) \in [1 .. (IF Dev(op) = Mem THEN 2 ELSE 1) -> Bytes]
         /\ AddressBytes(op, a) \in Seq(Bytes)
         /\ Len(AddressBytes(op, a)) = IF Dev(op) = Mem THEN 2 ELSE 1
<1>1. PICK r \in Nat \ {0} : r = Radix
  BY Constants
<1>2. PICK h \in Nat : h = a \div r
  OBVIOUS
<1>3. h % r \in 0 .. r - 1 /\ a % r \in 0 .. r - 1
  OBVIOUS
<1>4. (a \div Radix) % Radix \in Bytes /\ a % Radix \in Bytes
  BY <1>1, <1>2, <1>3, Constants
<1>5. CASE Dev(op) = Mem
  BY <1>4, <1>5 DEF AddressBytes
<1>6. CASE Dev(op) # Mem
  BY <1>4, <1>6 DEF AddressBytes
<1>7. QED
  BY <1>5, <1>6

LEMMA ReadPointKeeps ==
  ASSUME NvmInv, ReadPoint
  PROVE  NvmInv'
<1> DEFINE head == AddressBytes(call.op, call.addr)
<1>1. /\ at = "point" /\ at' = "pointed" /\ UNCHANGED <<call, done, buf, before, cell, chip>>
      /\ Xfer([slaveAddr |-> Device, tx |-> head, room |-> 0, options |-> {}])
  BY DEF ReadPoint, Write, Device
<1>2. ~Busy
  BY <1>1, NoTransfer
<1>3. Device \in Devices /\ call.addr \in Nat
  BY CallTyped DEF NvmInv
<1>4. head \in [1 .. Wide -> Bytes] /\ Len(head) = Wide /\ Wide \in 0 .. Chunk + 2
  BY <1>3, AddressType, Constants DEF Wide, Device
<1>5. 0 \in 0 .. Word - 1
  BY Constants
<1>6. [slaveAddr |-> Device, tx |-> head, room |-> 0, options |-> {}] \in Requests
  BY <1>3, <1>4, <1>5, RequestMade
<1>7. MainTyped'
  BY <1>1 DEF NvmInv, MainTyped
<1> HIDE DEF head
<1>8. QED
  BY <1>1, <1>2, <1>4, <1>6, <1>7, AsksKeeps

LEMMA ReadDataKeeps ==
  ASSUME NvmInv, ReadData
  PROVE  NvmInv'
<1>1. /\ at = "pointed" /\ at' = "reading" /\ UNCHANGED <<call, done, buf, before, cell, chip>>
      /\ Xfer([slaveAddr |-> Device, tx |-> <<>>, room |-> call.len % Word, options |-> {}])
  BY DEF ReadData, Read, Device
<1>2. ~Busy
  BY NoTransfer DEF ReadData
<1>3. Device \in Devices /\ call.len \in Nat
  BY CallTyped DEF NvmInv
<1>4. <<>> \in [1 .. 0 -> Bytes] /\ 0 \in 0 .. Chunk + 2
  BY Constants
<1>5. call.len % Word \in 0 .. Word - 1
  BY <1>3, Constants
<1>6. [slaveAddr |-> Device, tx |-> <<>>, room |-> call.len % Word, options |-> {}] \in Requests
  BY <1>3, <1>4, <1>5, RequestMade
<1>7. MainTyped'
  BY <1>1 DEF NvmInv, MainTyped
<1>8. QED
  BY <1>1, <1>2, <1>6, <1>7, AsksKeeps

LEMMA WritePageKeeps ==
  ASSUME NvmInv, WritePage
  PROVE  NvmInv'
<1> DEFINE head == AddressBytes(call.op, call.addr + done)
<1> DEFINE tx == SubSeq(buf', 1, ChunkLen + 2)
<1>1. /\ at = "page" /\ Left > 0 /\ at' = "sent" /\ UNCHANGED <<call, done, before, cell, chip>>
      /\ buf' = Filled(call.addr + done, ChunkLen)
      /\ Xfer([slaveAddr |-> Device, tx |-> tx, room |-> 0, options |-> {}])
  BY DEF WritePage, Write, Device, ChunkLen
<1>2. ~Busy
  BY <1>1, NoTransfer
<1>3. Device \in Devices /\ call.addr \in Nat /\ call.len \in Nat /\ done \in Nat
  BY CallTyped DEF NvmInv, MainTyped
<1>4. ChunkLen \in 1 .. Chunk
  BY <1>1, <1>3, Constants DEF ChunkLen, Left
<1>5. /\ head \in [1 .. Wide -> Bytes] /\ Len(head) = Wide /\ Wide \in 1 .. 2
  BY <1>3, AddressType DEF Wide, Device
<1>6. buf' = [i \in 1 .. Chunk + 2 |-> CASE i <= Wide -> head[i]
                                     [] i - Wide \in 1 .. ChunkLen -> Data(done + i - Wide - 1)
                                     [] OTHER -> buf[i]]
  BY <1>1, <1>5 DEF NvmInv, MainTyped, Filled
<1>7. /\ buf' \in [1 .. Chunk + 2 -> Bytes]
      /\ \A i \in 1 .. Wide : buf'[i] = head[i]
      /\ \A j \in 0 .. ChunkLen - 1 : buf'[Wide + 1 + j] = Data(done + j)
  <2> HIDE DEF head
  <2>1. \A i \in 1 .. Chunk + 2 : buf[i] \in Bytes
    BY DEF NvmInv, MainTyped
  <2>2. ASSUME NEW i \in 1 .. Chunk + 2
        PROVE  buf'[i] \in Bytes
    <3>1. CASE i <= Wide
      BY <1>5, <1>6, <3>1
    <3>2. CASE i - Wide \in 1 .. ChunkLen
      <4>1. buf'[i] = Data(done + i - Wide - 1)
        BY <1>5, <1>6, <3>2
      <4>2. done + i - Wide - 1 \in Nat
        BY <1>3, <1>5, <3>2
      <4>3. QED
        BY <4>1, <4>2, DataType
    <3>3. CASE ~(i <= Wide) /\ i - Wide \notin 1 .. ChunkLen
      BY <1>6, <2>1, <3>3
    <3>4. QED
      BY <3>1, <3>2, <3>3
  <2>3. ASSUME NEW i \in 1 .. Wide
        PROVE  buf'[i] = head[i]
    BY <1>5, <1>6, Constants
  <2>4. ASSUME NEW j \in 0 .. ChunkLen - 1
        PROVE  buf'[Wide + 1 + j] = Data(done + j)
    <3>1. Wide + 1 + j \in 1 .. Chunk + 2 /\ ~(Wide + 1 + j <= Wide)
          /\ (Wide + 1 + j) - Wide \in 1 .. ChunkLen
      BY <1>4, <1>5, Constants
    <3>2. done + (Wide + 1 + j) - Wide - 1 = done + j
      BY <1>3, <1>5
    <3>3. QED
      BY <1>6, <3>1, <3>2
  <2>5. QED
    BY <1>6, <2>2, <2>3, <2>4
<1>8. /\ tx \in [1 .. ChunkLen + 2 -> Bytes] /\ Len(tx) = ChunkLen + 2
      /\ \A i \in 1 .. ChunkLen + 2 : tx[i] = buf'[i]
  <2>1. buf' \in Seq(Bytes) /\ Len(buf') = Chunk + 2
    BY <1>7, Constants
  <2>2. tx = [i \in 1 .. ChunkLen + 2 |-> buf'[i]] /\ Len(tx) = ChunkLen + 2
    BY <1>4, <2>1, Constants
  <2>3. \A i \in 1 .. ChunkLen + 2 : buf'[i] \in Bytes
    BY <1>4, <1>7, Constants
  <2> HIDE DEF tx
  <2>4. QED
    BY <2>2, <2>3
<1>9. [slaveAddr |-> Device, tx |-> tx, room |-> 0, options |-> {}] \in Requests
  <2> HIDE DEF tx
  <2>1. 0 \in 0 .. Word - 1 /\ ChunkLen + 2 \in 0 .. Chunk + 2
    BY <1>4, Constants
  <2>2. QED
    BY <1>3, <1>8, <2>1, RequestMade
<1>10. MainTyped'
  BY <1>1, <1>7 DEF NvmInv, MainTyped
<1> HIDE DEF tx, head
<1>11. Message'
  <2>1. xfer'.request.tx = tx
    BY <1>1 DEF Xfer, Transfer
  <2>2. ChunkLen' = ChunkLen /\ Wide' = Wide
    BY <1>1, CallFrame
  <2>3. \A i \in 1 .. Wide : tx[i] = head[i]
    BY <1>4, <1>5, <1>7, <1>8
  <2>4. \A j \in 0 .. ChunkLen - 1 : tx[Wide + 1 + j] = Data(done + j)
    BY <1>4, <1>5, <1>7, <1>8
  <2>5. QED
    BY <1>1, <1>4, <1>8, <2>1, <2>2, <2>3, <2>4 DEF Message, head, Data, AddressBytes
<1>12. QED
  BY <1>1, <1>2, <1>9, <1>10, <1>11, AsksKeeps

-----------------------------------------------------------------------------
(* The handler: from which stage the ones that matter here are reached.    *)
LEMMA HandlerLeads ==
  ASSUME NvmInv, XferHandler
  PROVE  /\ IInv' /\ Busy /\ stat' = "none"
         /\ UNCHANGED <<phase, sent, given, refused>> /\ xfer'.request = xfer.request
         /\ Addressing' => Fresh /\ dat' \div 2 = Selected
         /\ Talking' => Asking
         /\ Fresh' => Started \/ (Asking /\ xfer.txSz = 0 /\ xfer.rxSz # 0)
         /\ ~Busy' => Broken \/ "STO" \in con'
<1>1. IInv'
  BY HandlerKeeps DEF NvmInv
<1>2. TypeOK /\ Stages /\ UNCHANGED <<phase, sent, given, refused>>
  BY DEF NvmInv, IInv, XferHandler, history
<1>3. xfer = [request |-> xfer.request, txSz |-> xfer.txSz, rx |-> xfer.rx, rxSz |-> xfer.rxSz,
              status |-> xfer.status]
  BY <1>2 DEF TypeOK
<1>4. CASE SlaveAddress
  <2>1. Started /\ xfer' = xfer /\ stat' = "none" /\ con' \subseteq {"STO"}
    BY <1>2, <1>4, StageOfStat DEF SlaveAddress, Changed, Control, TypeOK
  <2>2. dat' \div 2 = Selected
    <3>1. Selected \in Nat
      BY <1>2, RequestType DEF TypeOK, Selected
    <3>2. QED
      BY <1>4, <3>1 DEF SlaveAddress, Selected
  <2>3. phase' = "started" /\ Busy /\ Busy'
    BY <1>2, <2>1 DEF Started, Busy
  <2>4. ~Talking'
    BY <2>1, <2>3 DEF Talking, Asking, Writing
  <2>5. QED
    BY <1>1, <1>2, <2>1, <2>2, <2>3, <2>4 DEF Fresh
<1>5. CASE SendByte
  <2>1. Asking /\ stat' = "none" /\ con' \subseteq {"STO"}
    BY <1>2, <1>5, StageOfStat DEF SendByte, Acked, Changed, Control, TypeOK
  <2>2. xfer'.request = xfer.request /\ Busy /\ Busy'
    BY <1>3, <1>5, <2>1 DEF SendByte, Asking, Busy
  <2>3. phase' = "writing" /\ con' = {}
    BY <1>2, <1>5, <2>1 DEF Asking, SendByte, Control
  <2>4. ~Fresh'
    BY <2>3 DEF Fresh, Starting, Started, Addressing
  <2>5. QED
    BY <1>1, <1>2, <2>1, <2>2, <2>4 DEF Fresh
<1>6. CASE TurnAround
  <2>1. Asking /\ xfer' = xfer /\ stat' = "none" /\ xfer.txSz = 0 /\ xfer.rxSz # 0
    BY <1>2, <1>6, StageOfStat DEF TurnAround, Acked, Changed, Control, driver
  <2>2. phase' = "writing" /\ "STA" \in con'
    BY <1>2, <1>6, <2>1 DEF TurnAround, Control, Asking
  <2>3. ~Talking' /\ ~Addressing' /\ Busy /\ Busy'
    BY <2>1, <2>2 DEF Talking, Asking, Writing, Addressing, Busy
  <2>4. QED
    BY <1>1, <1>2, <2>1, <2>3
<1>7. ASSUME NEW status \in {"OK"} \cup Failures, NEW set \in SUBSET {"STO"},
             Finish(status, set), Busy, Broken \/ set = {"STO"}
      PROVE  /\ xfer'.request = xfer.request /\ stat' = "none" /\ ~Busy'
             /\ Broken \/ "STO" \in con'
  BY <1>3, <1>7 DEF Finish, Control, Busy, Failures
<1>8. CASE Nak \/ Written \/ SlaveNak \/ ArbLost \/ BusError
  <2>1. Busy
    BY <1>8 DEF Nak, Written, SlaveNak, ArbLost, BusError, Acked, Changed, Busy
  <2>2. ArbLost => Broken
    BY <1>2, StageOfStat DEF ArbLost, Changed
  <2>3. \E status \in {"OK"} \cup Failures, set \in SUBSET {"STO"} :
          Finish(status, set) /\ (Broken \/ set = {"STO"})
    BY <1>8, <2>2 DEF Nak, Written, SlaveNak, ArbLost, BusError, Failures
  <2>4. /\ xfer'.request = xfer.request /\ stat' = "none" /\ ~Busy'
        /\ Broken \/ "STO" \in con'
    BY <1>7, <2>1, <2>3
  <2>5. ~Talking' /\ ~Fresh' /\ ~Addressing'
    BY <2>4 DEF Talking, Asking, Writing, Fresh, Starting, Started, Addressing
  <2>6. QED
    BY <1>1, <1>2, <2>1, <2>4, <2>5
<1>9. CASE Addressed \/ Received
  <2>1. PICK rx, left : ReadOn(rx, left)
    BY <1>9 DEF Addressed, Received
  <2>2. phase = "reading" /\ Busy
    BY <1>2, <1>9, StageOfStat DEF Addressed, Received, Changed, Turned, Got
  <2>3. /\ xfer'.request = xfer.request /\ stat' = "none" /\ "STA" \notin con'
        /\ xfer'.status = (IF left = 0 THEN "OK" ELSE xfer.status)
    BY <1>3, <2>1 DEF ReadOn, Control
  <2>4. ~Talking' /\ ~Fresh' /\ ~Addressing'
    BY <1>2, <2>2, <2>3 DEF Talking, Asking, Writing, Fresh, Starting, Started, Addressing
  <2>5. ~Busy' => "STO" \in con'
    BY <2>1, <2>2, <2>3 DEF ReadOn, Control, Busy
  <2>6. QED
    BY <1>1, <1>2, <2>2, <2>3, <2>4, <2>5
<1>10. QED
  BY <1>4, <1>5, <1>6, <1>8, <1>9 DEF XferHandler

LEMMA HandlingKeeps ==
  ASSUME NvmInv, Handling
  PROVE  NvmInv'
<1>1. XferHandler /\ UNCHANGED main /\ UNCHANGED <<cell, chip>>
  BY DEF Handling
<1>2. /\ IInv' /\ Busy /\ stat' = "none"
      /\ UNCHANGED <<phase, sent, given, refused>> /\ xfer'.request = xfer.request
      /\ Addressing' => Fresh /\ dat' \div 2 = Selected
      /\ Talking' => Asking
      /\ Fresh' => Started \/ (Asking /\ xfer.txSz = 0 /\ xfer.rxSz # 0)
      /\ ~Busy' => Broken \/ "STO" \in con'
  BY <1>1, HandlerLeads
<1>3. /\ MainTyped' /\ (at = "sent" => Message)' /\ Stepping'
      /\ at' = at /\ Device' = Device /\ Wide' = Wide /\ IsWrite' = IsWrite
      /\ Position(Len(sent))' = Position(Len(sent))
  BY <1>1, <1>2, MainFrame
<1>4. CellsTyped' /\ Cells' /\ ChipsTyped' /\ Pages'
  BY <1>1, CellFrame, LatchFrame DEF NvmInv, ChipsTyped, ChipTyped
<1>5. Using'
  <2>1. Fresh' => sent' = <<>>
    <3>1. CASE Started
      BY <1>2, <3>1 DEF NvmInv, Using, Fresh
    <3>2. CASE Asking /\ xfer.txSz = 0 /\ xfer.rxSz # 0
      <4>1. xfer.request.room # 0
        BY <3>2 DEF Asking, NoneRead
      <4>2. xfer.request.tx = <<>>
        BY <1>2, <4>1 DEF NvmInv, Using
      <4>3. Len(sent) = 0 /\ sent \in Seq(Nat)
        BY <3>2, <4>2 DEF Asking, Counted, NvmInv, IInv, TypeOK
      <4>4. QED
        BY <1>2, <4>3
    <3>3. QED
      BY <1>2, <3>1, <3>2
  <2>2. QED
    BY <1>2, <1>3, <2>1 DEF NvmInv, Using, Selected, Slave
<1>6. Counting' /\ Pointing'
  BY <1>1, <1>2, <1>3 DEF NvmInv, Counting, Pointing, Talking
<1>7. Latching'
  <2>1. ~Broken'
    BY <1>2 DEF Broken
  <2>2. QED
    BY <1>1, <1>2, <1>3, <2>1 DEF NvmInv, Latching
<1>8. QED
  BY <1>2, <1>3, <1>4, <1>5, <1>6, <1>7 DEF NvmInv

-----------------------------------------------------------------------------
(* The steps of the bus.                                                   *)
LEMMA NoneIgnored ==
  ASSUME NvmInv, Busy, stat = "none"
  PROVE  ~refused
<1>1. ~Ignores
  BY DEF NvmInv, Using, Ignores
<1>2. QED
  BY <1>1 DEF NvmInv, IInv, RefusedInv

\* What is common to the steps that leave the latched pages alone.
LEMMA BusKeepsRest ==
  ASSUME NvmInv, Bus, UNCHANGED main, UNCHANGED xfer, UNCHANGED cell, ~Broken', ChipsTyped',
         \A d \in Devices : chip'[d].latch = chip[d].latch, Busy,
         ~Addressing' \/ (Slave' = Selected /\ Fresh), Fresh' => Fresh, sent' = sent \/ ~Fresh',
         Counting', Pointing'
  PROVE  NvmInv'
<1>1. IInv'
  BY BusKeeps DEF NvmInv
<1>2. /\ MainTyped' /\ (at = "sent" => Message)' /\ Stepping'
      /\ at' = at /\ Device' = Device /\ Wide' = Wide
  BY MainFrame
<1>3. Busy' /\ xfer'.request = xfer.request /\ Selected' = Selected
  BY DEF Busy, Selected
<1>4. Using'
  BY <1>2, <1>3 DEF NvmInv, Using
<1>5. Latching'
  BY <1>2, <1>3 DEF NvmInv, Latching
<1>6. QED
  BY <1>1, <1>2, <1>4, <1>5, CellFrame, LatchFrame DEF NvmInv

LEMMA StartKeeps ==
  ASSUME NvmInv, Start("08", "free"), UNCHANGED main, UNCHANGED <<cell, chip>>
  PROVE  NvmInv'
<1>1. Stages /\ Bus
  BY DEF NvmInv, IInv, Bus
<1>2. Starting
  BY <1>1, BusStage DEF Start
<1>3. UNCHANGED <<xfer, sent>> /\ stat' = "08"
  BY DEF Start, driver, history
<1>4. ~Broken' /\ ~Addressing' /\ ~Talking'
  BY <1>3 DEF Broken, Addressing, Talking, Asking, Writing
<1>5. Busy /\ Fresh
  BY <1>2 DEF Starting, Fresh
<1>6. ChipsTyped'
  BY DEF NvmInv, ChipsTyped, ChipTyped
<1>7. QED
  BY <1>1, <1>3, <1>4, <1>5, <1>6, BusKeepsRest DEF Counting, Pointing

\* The page is stored, or lost.
LEMMA StoreKeeps ==
  ASSUME NvmInv, UNCHANGED main, Store \/ Forget
  PROVE  /\ ChipsTyped' /\ CellsTyped' /\ Cells' /\ Pages'
         /\ \A d \in Devices : DOMAIN chip'[d].latch = {}
<1>1. /\ UNCHANGED <<call, done, before>>
      /\ Device' = Device /\ IsWrite' = IsWrite /\ Device \in Devices
      /\ \A c, v : Meant(c, v)' = Meant(c, v)
  BY CallFrame, CallTyped DEF main, NvmInv
<1>2. \A d \in Devices : ChipTyped(d, chip[d])
  BY DEF NvmInv, ChipsTyped
<1>3. /\ DOMAIN chip' = Devices
      /\ \A d \in Devices : \E b : chip'[d] = [chip[d] EXCEPT !.latch = <<>>, !.busy = b]
  <2>1. CASE Store
    BY <2>1 DEF Store
  <2>2. CASE Forget
    <3>1. \A d \in Devices : chip[d] = [chip[d] EXCEPT !.busy = chip[d].busy]
      BY <1>2 DEF ChipTyped
    <3>2. DOMAIN chip' = Devices /\ \A d \in Devices : chip'[d] = [chip[d] EXCEPT !.latch = <<>>]
      BY <2>2 DEF Forget
    <3>3. \A d \in Devices : chip'[d] = [chip[d] EXCEPT !.latch = <<>>, !.busy = chip[d].busy]
      BY <1>2, <3>2 DEF ChipTyped
    <3>4. QED
      BY <3>2, <3>3
  <2>3. QED
    BY <2>1, <2>2
<1>4. \A d \in Devices : DOMAIN chip'[d].latch = {} /\ ChipTyped(d, chip'[d])
  <2>1. SUFFICES ASSUME NEW d \in Devices
                 PROVE  DOMAIN chip'[d].latch = {} /\ ChipTyped(d, chip'[d])
    OBVIOUS
  <2>2. PICK b : chip'[d] = [ptr |-> chip[d].ptr, got |-> chip[d].got, latch |-> <<>>, busy |-> b]
    BY <1>2, <1>3 DEF ChipTyped
  <2>3. /\ DOMAIN chip'[d].latch = {}
        /\ chip'[d].ptr = chip[d].ptr /\ chip'[d].got = chip[d].got
        /\ chip'[d] = [ptr |-> chip'[d].ptr, got |-> chip'[d].got, latch |-> chip'[d].latch,
                       busy |-> chip'[d].busy]
    BY <2>2
  <2>4. chip[d].ptr \in 0 .. Size[d] - 1 /\ chip[d].got \in Nat
    BY <1>2 DEF ChipTyped
  <2>5. QED
    BY <2>3, <2>4 DEF ChipTyped
<1>5. ChipsTyped'
  BY <1>3, <1>4 DEF ChipsTyped, ChipTyped
<1>6. \A d \in Devices :
        /\ DOMAIN cell'[d] = 0 .. Size[d] - 1
        /\ \A c \in 0 .. Size[d] - 1 :
             \/ cell'[d][c] = cell[d][c]
             \/ c \in DOMAIN chip[d].latch /\ cell'[d][c] = chip[d].latch[c]
        /\ cell'[d] = [c \in DOMAIN cell'[d] |-> cell'[d][c]]
  <2>0. \A d \in Devices : cell[d] \in [0 .. Size[d] - 1 -> Bytes]
    BY DEF NvmInv, CellsTyped
  <2>1. CASE Store
    <3>1. ASSUME NEW d \in Devices
          PROVE  /\ cell'[d] = Over(chip[d].latch, cell[d])
                 /\ DOMAIN chip[d].latch \subseteq 0 .. Size[d] - 1
      BY <1>2, <2>1 DEF Store, ChipTyped
    <3>2. QED
      BY <2>0, <3>1 DEF Over
  <2>2. CASE Forget
    BY <2>0, <2>2 DEF Forget
  <2>3. QED
    BY <2>1, <2>2
<1>7. CellsTyped'
  <2>1. ASSUME NEW d \in Devices PROVE cell'[d] \in [0 .. Size[d] - 1 -> Bytes]
    <3>1. \A c \in 0 .. Size[d] - 1 : cell'[d][c] \in Bytes
      BY <1>2, <1>6 DEF NvmInv, CellsTyped, ChipTyped
    <3>2. QED
      BY <1>6, <3>1
  <2>2. QED
    BY <2>1 DEF CellsTyped
<1>8. Cells'
  <2>1. SUFFICES ASSUME IsWrite, NEW c \in 0 .. Size[Device] - 1
                 PROVE  cell'[Device][c] = before[Device][c] \/ Meant(c, cell'[Device][c])
    BY <1>1 DEF Cells
  <2>2. CASE cell'[Device][c] = cell[Device][c]
    BY <2>1, <2>2 DEF NvmInv, Cells
  <2>3. CASE c \in DOMAIN chip[Device].latch /\ cell'[Device][c] = chip[Device].latch[c]
    BY <2>1, <2>3 DEF NvmInv, Pages
  <2>4. QED
    BY <1>1, <1>6, <2>2, <2>3
<1>9. Pages'
  BY <1>1, <1>4 DEF Pages
<1>10. QED
  BY <1>4, <1>5, <1>7, <1>8, <1>9

LEMMA StopKeeps ==
  ASSUME NvmInv, Stop, Store, UNCHANGED main
  PROVE  NvmInv'
<1>1. Stages /\ Bus
  BY DEF NvmInv, IInv, Bus
<1>2. Ended \/ Starting
  BY <1>1, BusStage DEF Stop
<1>3. /\ UNCHANGED <<xfer, dat, stat, sent>> /\ stat = "none" /\ phase' = "free"
  BY DEF Stop, driver, history
<1>4. IInv'
  BY <1>1, BusKeeps DEF NvmInv
<1>5. /\ MainTyped' /\ (at = "sent" => Message)' /\ Stepping'
      /\ at' = at /\ Device' = Device /\ Wide' = Wide
  BY <1>3, MainFrame
<1>6. ~Talking' /\ ~Addressing'
  BY <1>3 DEF Talking, Asking, Writing, Addressing
<1>7. Busy => Fresh
  BY <1>2 DEF Ended, Fresh
<1>8. Using'
  BY <1>3, <1>5, <1>6, <1>7 DEF NvmInv, Using, Busy, Selected
<1>9. Counting' /\ Pointing'
  BY <1>6 DEF Counting, Pointing
<1>10. Latching'
  BY StoreKeeps DEF Latching
<1>11. QED
  BY <1>4, <1>5, <1>8, <1>9, <1>10, StoreKeeps DEF NvmInv

LEMMA FailingKeeps ==
  ASSUME NvmInv, NEW which \in {"38", "00"}, Failing(which), UNCHANGED main
  PROVE  NvmInv'
<1>1. Stages /\ Bus /\ Fault(which) /\ (Store \/ Forget)
  BY DEF NvmInv, IInv, Bus, Failing
<1>2. Addressing \/ Writing \/ Reading
  BY <1>1, BusStage DEF Fault
<1>3. UNCHANGED <<xfer, dat, sent>> /\ stat' = which
  BY <1>1 DEF Fault, driver, history
<1>4. IInv'
  BY <1>1, BusKeeps DEF NvmInv
<1>5. /\ MainTyped' /\ (at = "sent" => Message)' /\ Stepping'
      /\ at' = at /\ Device' = Device /\ Wide' = Wide
  BY <1>3, MainFrame
<1>6. ~Talking' /\ ~Fresh' /\ ~Addressing'
  BY <1>3 DEF Talking, Asking, Writing, Fresh, Starting, Started, Addressing
<1>7. Using'
  BY <1>3, <1>5, <1>6 DEF NvmInv, Using, Busy, Selected
<1>8. Counting' /\ Pointing'
  BY <1>6 DEF Counting, Pointing
<1>9. Latching'
  BY <1>1, StoreKeeps DEF Latching
<1>10. QED
  BY <1>1, <1>4, <1>5, <1>7, <1>8, <1>9, StoreKeeps DEF NvmInv

LEMMA AnswerKeeps ==
  ASSUME NvmInv, Answer \/ Silence, UNCHANGED main, UNCHANGED cell
  PROVE  NvmInv'
<1>1. PICK ack \in BOOLEAN : Address(ack) /\ (ack => Answer) /\ (~ack => Silence)
  BY DEF Answer, Silence
<1>2. Stages /\ Bus
  BY <1>1 DEF NvmInv, IInv, Bus
<1>3. Addressing
  BY <1>1, <1>2, BusStage DEF Address
<1>4. Busy /\ Fresh /\ sent = <<>> /\ Slave = Selected /\ Selected = Device
  BY <1>3 DEF Addressing, Fresh, NvmInv, Using
<1>5. /\ UNCHANGED <<xfer, dat, con, sent>> /\ refused' = (refused \/ ~ack)
      /\ stat' \in {"18", "20", "40", "48"} /\ (dat % 2 = 0 \/ phase' = "reading")
  BY <1>1 DEF Address, driver
<1>6. ~Broken' /\ ~Fresh' /\ ~Addressing' /\ (Talking' => dat % 2 = 0)
  BY <1>5 DEF Broken, Fresh, Starting, Started, Addressing, Talking, Asking, Writing
<1>7. Device \in Devices /\ Device' = Device /\ Wide' = Wide /\ Wide \in 1 .. 2
  BY CallFrame, CallTyped DEF main, NvmInv, Wide
<1>8. /\ ChipsTyped' /\ \A d \in Devices : chip'[d].latch = chip[d].latch
      /\ Talking' /\ ~refused' => chip'[Device].got = 0
  <2>1. CASE ack
    <3>1. Chip(Device, Listening(chip[Device]))
      BY <1>1, <1>4, <2>1 DEF Answer
    <3>2. ChipTyped(Device, chip[Device])
      BY <1>7 DEF NvmInv, ChipsTyped
    <3>3. /\ Listening(chip[Device]).latch = chip[Device].latch
          /\ dat % 2 = 0 => Listening(chip[Device]).got = 0
      BY DEF Listening
    <3>4. ChipTyped(Device, Listening(chip[Device]))
      BY <3>2 DEF ChipTyped, Listening
    <3>5. /\ ChipsTyped' /\ chip'[Device] = Listening(chip[Device])
          /\ \A e \in Devices \ {Device} : chip'[e] = chip[e]
      BY <1>7, <3>1, <3>4, ChipSet DEF NvmInv
    <3>6. QED
      BY <1>6, <3>3, <3>5
  <2>2. CASE ~ack
    BY <1>1, <1>5, <2>2 DEF Silence, NvmInv, ChipsTyped, ChipTyped
  <2>3. QED
    BY <2>1, <2>2
<1>9. Counting'
  BY <1>4, <1>5, <1>7, <1>8 DEF Counting
<1>10. Pointing'
  <2>1. Len(sent') = 0
    BY <1>4, <1>5
  <2>2. Position(0)'
    BY <1>7 DEF Position
  <2>3. QED
    BY <2>1, <2>2 DEF Pointing
<1>11. QED
  BY <1>2, <1>4, <1>5, <1>6, <1>8, <1>9, <1>10, BusKeepsRest

LEMMA RefuseKeeps ==
  ASSUME NvmInv, Refuse, UNCHANGED main, UNCHANGED cell
  PROVE  NvmInv'
<1>1. Send(FALSE) /\ UNCHANGED chip
  BY DEF Refuse
<1>2. Stages /\ Bus
  BY <1>1 DEF NvmInv, IInv, Bus
<1>3. Writing
  BY <1>1, <1>2, BusStage DEF Send
<1>4. UNCHANGED <<xfer, dat>> /\ refused' /\ stat' = "30"
  BY <1>1 DEF Send, driver
<1>5. ~Broken' /\ ~Fresh' /\ ~Addressing' /\ Busy
  BY <1>3, <1>4 DEF Broken, Fresh, Starting, Started, Addressing, Writing
<1>6. Counting' /\ Pointing'
  BY <1>4 DEF Counting, Pointing
<1>7. ChipsTyped' /\ \A d \in Devices : chip'[d].latch = chip[d].latch
  BY <1>1 DEF NvmInv, ChipsTyped, ChipTyped
<1>8. QED
  BY <1>2, <1>4, <1>5, <1>6, <1>7, BusKeepsRest

LEMMA GiveKeeps ==
  ASSUME NvmInv, Give, UNCHANGED main, UNCHANGED cell
  PROVE  /\ NvmInv' /\ Bus
<1>1. Clocking("reading") /\ UNCHANGED <<xfer, phase, sent>> /\ stat' \in {"50", "58"}
  BY DEF Give, Receive
<1>2. Stages
  BY DEF NvmInv, IInv
<1>3. Reading /\ Busy
  BY <1>1, <1>2, BusStage DEF Reading
<1>4. Selected = Device /\ Device \in Devices
  BY <1>3, CallTyped DEF NvmInv, Using
<1>5. ChipTyped(Device, chip[Device]) /\ Size[Device] \in Nat \ {0}
  BY <1>4, Constants DEF NvmInv, ChipsTyped
<1>6. Bus
  <2>1. cell[Device][chip[Device].ptr] \in Bytes
    BY <1>4, <1>5 DEF NvmInv, CellsTyped, ChipTyped
  <2>2. QED
    BY <1>4, <2>1 DEF Give, Bus
<1>7. phase' = "reading"
  BY <1>1 DEF Clocking
<1>8. ~Broken' /\ ~Fresh' /\ ~Addressing' /\ ~Talking'
  BY <1>1, <1>7 DEF Broken, Fresh, Starting, Started, Addressing, Talking, Asking, Writing
<1> DEFINE next == (chip[Device].ptr + 1) % Size[Device]
<1> DEFINE m == [ptr |-> next, got |-> chip[Device].got, latch |-> chip[Device].latch,
                 busy |-> chip[Device].busy]
<1>9. Chip(Device, m)
  BY <1>4, <1>5 DEF Give, ChipTyped
<1>10. next \in 0 .. Size[Device] - 1
  <2>1. PICK n \in Nat \ {0} : n = Size[Device]
    BY <1>5
  <2>2. PICK k \in Nat : k = chip[Device].ptr + 1
    BY <1>5, <2>1 DEF ChipTyped
  <2>3. k % n \in 0 .. n - 1
    OBVIOUS
  <2>4. QED
    BY <2>1, <2>2, <2>3
<1> HIDE DEF next
<1>11. ChipTyped(Device, m)
  BY <1>5, <1>10 DEF ChipTyped
<1>12. ChipsTyped' /\ chip'[Device] = m /\ \A e \in Devices \ {Device} : chip'[e] = chip[e]
  BY <1>4, <1>9, <1>11, ChipSet DEF NvmInv
<1>13. \A d \in Devices : chip'[d].latch = chip[d].latch
  BY <1>12
<1>14. NvmInv'
  BY <1>1, <1>3, <1>6, <1>8, <1>12, <1>13, BusKeepsRest DEF Counting, Pointing
<1>15. QED
  BY <1>6, <1>14

(* A byte that the memory takes moves its pointer to the next target.      *)
NextPointer ==
  (IF Len(sent) = 0 THEN dat ELSE chip[Device].ptr * Radix + dat) % Size[Device]

LEMMA AimsPointer ==
  ASSUME NEW a \in Nat, Len(sent) \in Nat, Len(sent) < Wide, Device = Mem \/ Device = Mem48,
         dat = AddressBytes(call.op, a)[Len(sent) + 1],
         Len(sent) = 1 => chip[Device].ptr = ((a \div Radix) % Radix) % Size[Device]
  PROVE  /\ Len(sent) + 1 = 1 /\ Wide = 2 =>
              NextPointer = ((a \div Radix) % Radix) % Size[Device]
         /\ Len(sent) + 1 = Wide => NextPointer = a % Size[Device]
<1>1. CASE Device = Mem48
  <2>1. Wide = 1 /\ Len(sent) = 0 /\ Mem48 # Mem
    BY <1>1, Constants DEF Wide
  <2>2. Dev(call.op) # Mem
    BY <1>1, <2>1 DEF Device
  <2>3. dat = a % Radix
    BY <2>1, <2>2 DEF AddressBytes
  <2>4. NextPointer = (a % Radix) % Size[Mem48]
    BY <1>1, <2>1, <2>3 DEF NextPointer
  <2>5. (a % Radix) % Size[Mem48] = a % Size[Mem48]
    BY NarrowPoint
  <2>6. QED
    BY <1>1, <2>1, <2>4, <2>5
<1>2. CASE Device = Mem
  <2>1. Wide = 2 /\ Dev(call.op) = Mem
    BY <1>2 DEF Wide, Device
  <2>2. AddressBytes(call.op, a) = <<(a \div Radix) % Radix, a % Radix>>
    BY <2>1 DEF AddressBytes
  <2>3. CASE Len(sent) = 0
    <3>1. NextPointer = ((a \div Radix) % Radix) % Size[Device]
      BY <2>2, <2>3 DEF NextPointer
    <3>2. QED
      BY <2>1, <2>3, <3>1
  <2>4. CASE Len(sent) = 1
    <3>1. dat = a % Radix
      BY <2>2, <2>4
    <3>2. NextPointer = (chip[Device].ptr * Radix + dat) % Size[Device]
      BY <2>4 DEF NextPointer
    <3>3. NextPointer = a % Size[Mem]
      BY <1>2, <2>4, <3>1, <3>2, WidePoint, Zenon
    <3>4. QED
      BY <1>2, <2>4, <3>3
  <2>5. Len(sent) \in {0, 1}
    <3>1. PICK n \in Nat : n = Len(sent)
      OBVIOUS
    <3>2. n < 2
      BY <2>1, <3>1
    <3>3. QED
      BY <3>1, <3>2
  <2>6. QED
    BY <2>3, <2>4, <2>5
<1>3. QED
  BY <1>1, <1>2

LEMMA TakesPointer ==
  ASSUME NvmInv, at = "sent", IsWrite, Device \in Devices, Writing, Len(sent) < Wide,
         Position(Len(sent))
  PROVE  /\ Len(sent) + 1 = 1 /\ Wide = 2 =>
              NextPointer = (((call.addr + done) \div Radix) % Radix) % Size[Device]
         /\ (Len(sent) + 1) - Wide \in 0 .. ChunkLen => NextPointer = Target((Len(sent) + 1) - Wide)
<1> DEFINE a == call.addr + done
<1>1. /\ call.addr \in Nat /\ done \in Nat /\ a \in Nat /\ Len(sent) \in Nat
      /\ Device = Mem \/ Device = Mem48
  BY CallTyped DEF NvmInv, MainTyped, IInv, TypeOK
<1>2. Message
  BY DEF NvmInv
<1>3. dat = AddressBytes(call.op, a)[Len(sent) + 1] /\ ChunkLen \in 1 .. Chunk
  <2>1. dat = xfer.request.tx[Len(sent) + 1]
    BY DEF Writing
  <2>2. Len(sent) + 1 \in 1 .. Wide
    BY <1>1 DEF Wide
  <2>3. QED
    BY <1>2, <2>1, <2>2 DEF Message
<1>4. Target(0) = a % Size[Device]
  <2>1. 0 < ChunkLen /\ done + 0 = done
    BY <1>1, <1>3, Constants
  <2>2. PICK m \in Nat : done = m * Chunk
    BY DEF NvmInv, Stepping
  <2>3. Lands(done) = Cell(done)
    BY <2>2, LandsFirst DEF NvmInv
  <2>4. QED
    BY <2>1, <2>3 DEF Target, Cell
<1>5. Wide \in 1 .. 2
  BY DEF Wide
<1>6. Len(sent) = 1 => chip[Device].ptr = ((a \div Radix) % Radix) % Size[Device]
  BY <1>1, <1>5 DEF Position
<1> HIDE DEF a
<1>7. /\ Len(sent) + 1 = 1 /\ Wide = 2 =>
           NextPointer = ((a \div Radix) % Radix) % Size[Device]
      /\ Len(sent) + 1 = Wide => NextPointer = a % Size[Device]
  BY <1>1, <1>3, <1>6, AimsPointer
<1>8. (Len(sent) + 1) - Wide \in 0 .. ChunkLen => Len(sent) + 1 = Wide /\ (Len(sent) + 1) - Wide = 0
  BY <1>1, <1>3, <1>5
<1>9. QED
  BY <1>4, <1>7, <1>8 DEF a

LEMMA NextTarget ==
  ASSUME NvmInv, IsWrite, Device \in Devices, ChunkLen \in 1 .. Chunk,
         NEW j \in 0 .. ChunkLen - 1
  PROVE  PageNext(Device, Target(j)) = Target(j + 1)
<1>1. call.addr \in Nat /\ call.len \in Nat /\ done \in Nat /\ j \in Nat /\ Chunk \in Nat \ {0}
  BY CallTyped, Constants DEF NvmInv, MainTyped
<1>2. Target(j) = Lands(done + j)
  BY <1>1 DEF Target
<1>3. CASE j + 1 = ChunkLen
  <2>1. Target(j + 1) = Spill(done + ChunkLen)
    BY <1>1, <1>3 DEF Target
  <2>2. (done + ChunkLen) - 1 = done + j
    BY <1>1, <1>3
  <2>3. Spill(done + ChunkLen) = PageNext(Device, Lands((done + ChunkLen) - 1))
    BY Zenon DEF Spill
  <2>4. QED
    BY <1>2, <2>1, <2>2, <2>3, Zenon
<1>4. CASE j + 1 < ChunkLen
  <2>1. Target(j + 1) = Lands(done + (j + 1))
    BY <1>4 DEF Target
  <2>2. PICK m \in Nat : done = m * Chunk
    BY DEF NvmInv, Stepping
  <2>3. j + 1 \in 0 .. Chunk - 1
    BY <1>1, <1>4
  <2>4. PageNext(Device, Lands(done + j)) = Lands(done + (j + 1))
    BY <1>1, <2>2, <2>3, LandsNext DEF NvmInv
  <2>5. QED
    BY <1>2, <2>1, <2>4
<1>5. QED
  BY <1>1, <1>3, <1>4

LEMMA CountAndPoint ==
  ASSUME NEW m, m = [ptr |-> m.ptr, got |-> m.got, latch |-> m.latch, busy |-> m.busy],
         NEW p, NEW g
  PROVE  [m EXCEPT !.got = g, !.ptr = p] =
           [ptr |-> p, got |-> g, latch |-> m.latch, busy |-> m.busy]
<1>1. PICK k : k = [m EXCEPT !.got = g]
  OBVIOUS
<1>2. k = [ptr |-> m.ptr, got |-> g, latch |-> m.latch, busy |-> m.busy]
  BY <1>1
<1>3. k = [ptr |-> k.ptr, got |-> k.got, latch |-> k.latch, busy |-> k.busy]
  BY <1>2
<1>4. [k EXCEPT !.ptr = p] = [ptr |-> p, got |-> k.got, latch |-> k.latch, busy |-> k.busy]
  BY <1>3
<1>5. [m EXCEPT !.got = g, !.ptr = p] = [k EXCEPT !.ptr = p]
  BY <1>1
<1>6. QED
  BY <1>2, <1>4, <1>5

LEMMA LatchAndPoint ==
  ASSUME NEW m, m = [ptr |-> m.ptr, got |-> m.got, latch |-> m.latch, busy |-> m.busy],
         NEW p, NEW l
  PROVE  [m EXCEPT !.latch = l, !.ptr = p] =
           [ptr |-> p, got |-> m.got, latch |-> l, busy |-> m.busy]
<1>1. PICK k : k = [m EXCEPT !.latch = l]
  OBVIOUS
<1>2. k = [ptr |-> m.ptr, got |-> m.got, latch |-> l, busy |-> m.busy]
  BY <1>1
<1>3. k = [ptr |-> k.ptr, got |-> k.got, latch |-> k.latch, busy |-> k.busy]
  BY <1>2
<1>4. [k EXCEPT !.ptr = p] = [ptr |-> p, got |-> k.got, latch |-> k.latch, busy |-> k.busy]
  BY <1>3
<1>5. [m EXCEPT !.latch = l, !.ptr = p] = [k EXCEPT !.ptr = p]
  BY <1>1
<1>6. QED
  BY <1>2, <1>4, <1>5

(* The chunk that is sent ends at the end of the call or of a chunk.       *)
LEMMA ChunkEnds ==
  ASSUME NvmInv, IsWrite, at = "sent"
  PROVE  /\ done \in Nat /\ call.len \in Nat /\ ChunkLen \in 1 .. Chunk /\ Chunk \in Nat \ {0}
         /\ done + ChunkLen \in 1 .. call.len /\ done + ChunkLen \in Ends
<1>1. /\ call.len \in Nat /\ done \in Nat /\ Chunk \in Nat \ {0} /\ ChunkLen \in 1 .. Chunk
      /\ done + ChunkLen <= call.len /\ (ChunkLen = Chunk \/ done + ChunkLen = call.len)
  <2>1. /\ call.len \in Nat /\ done \in Nat /\ Chunk \in Nat \ {0} /\ ChunkLen \in 1 .. Chunk
    BY CallTyped, Constants DEF NvmInv, MainTyped, Message
  <2>2. QED
    BY <2>1 DEF ChunkLen, Left
<1>2. done + ChunkLen \in 1 .. call.len
  BY <1>1
<1>3. CASE done + ChunkLen = call.len
  BY <1>1, <1>2, <1>3 DEF Ends
<1>4. CASE ChunkLen = Chunk
  <2>1. PICK q \in Nat : done = q * Chunk
    BY DEF NvmInv, Stepping
  <2>2. PICK x \in Nat : x = q + 1
    OBVIOUS
  <2>3. done + Chunk = x * Chunk + 0
    BY <1>1, <2>1, <2>2
  <2>4. (x * Chunk + 0) % Chunk = 0
    <3>1. 0 \in 0 .. Chunk - 1
      BY <1>1
    <3>2. QED
      BY <1>1, <3>1, Remainder, Zenon
  <2>5. (done + ChunkLen) % Chunk = 0
    BY <1>4, <2>3, <2>4
  <2>6. QED
    BY <1>1, <1>2, <2>5 DEF Ends
<1>5. QED
  BY <1>1, <1>3, <1>4

(* A byte of data comes when the pointer is at the cell it is meant for,   *)
(* and the byte after the chunk when it is where that byte will land.      *)
LEMMA TakesData ==
  ASSUME NvmInv, IsWrite, at = "sent", Writing, ~refused, Len(sent) \in Nat, Len(sent) >= Wide,
         xfer.txSz \in Nat
  PROVE  \E j \in 0 .. ChunkLen :
           /\ Len(sent) = Wide + j /\ (j = ChunkLen => Wide = 1)
           /\ chip[Device].ptr = Target(j) /\ (j < ChunkLen => dat = Data(done + j))
<1>1. /\ Len(xfer.request.tx) = ChunkLen + 2
      /\ \A j \in 0 .. ChunkLen - 1 : xfer.request.tx[Wide + 1 + j] = Data(done + j)
  BY DEF NvmInv, Message
<1>2. ChunkLen \in Nat /\ Wide \in 1 .. 2
  BY ChunkEnds DEF Wide
<1>3. PICK j \in Nat : Len(sent) = Wide + j
  <2>1. PICK k \in Nat : k = Len(sent)
    OBVIOUS
  <2>2. k - Wide \in Nat /\ k = Wide + (k - Wide)
    BY <1>2, <2>1
  <2>3. QED
    BY <2>1, <2>2
<1>4. j <= ChunkLen /\ (j = ChunkLen => Wide = 1)
  BY <1>1, <1>2, <1>3 DEF Writing
<1>5. chip[Device].ptr = Target(j)
  <2>1. Position(Len(sent))
    BY DEF NvmInv, Pointing, Talking
  <2>2. Len(sent) - Wide = j /\ j \in 0 .. ChunkLen
    BY <1>2, <1>3, <1>4
  <2>3. QED
    BY <2>1, <2>2 DEF Position
<1>6. ASSUME j < ChunkLen PROVE dat = Data(done + j)
  <2>1. Len(sent) + 1 = Wide + 1 + j /\ j \in 0 .. ChunkLen - 1
    BY <1>2, <1>3, <1>6
  <2>2. QED
    BY <1>1, <2>1 DEF Writing
<1>7. QED
  BY <1>2, <1>3, <1>4, <1>5, <1>6

(* The memory takes a byte: a pointer that is aimed, or a cell of the page *)
(* that is meant.                                                          *)
LEMMA TakeKeeps ==
  ASSUME NvmInv, Take, UNCHANGED main, UNCHANGED cell
  PROVE  NvmInv'
<1> DEFINE s == Len(sent)
<1> DEFINE m == chip[Device]
<1>1. Send(TRUE) /\ Stages /\ Bus /\ TypeOK
  BY DEF Take, NvmInv, IInv, Bus
<1>2. Writing
  BY <1>1, BusStage DEF Send
<1>3. /\ UNCHANGED <<xfer, dat, con, phase>> /\ stat' = "28"
      /\ sent' = Append(sent, dat) /\ refused' = refused
  BY <1>1 DEF Send, driver, TypeOK
<1>4. /\ Busy /\ stat = "none" /\ dat = xfer.request.tx[s + 1]
      /\ s + 1 + xfer.txSz = Len(xfer.request.tx)
  BY <1>2 DEF Writing
<1>5. /\ ~refused /\ Selected = Device /\ Device \in Devices
      /\ Device = Mem \/ Device = Mem48
      /\ at \in {"sent", "pointed", "reading"}
  BY <1>4, NoneIgnored, CallTyped DEF NvmInv, Using
<1>6. Wide = Width /\ Wide \in 1 .. 2 /\ m.got = IF s < Wide THEN s ELSE Wide
  BY <1>2, <1>5 DEF Wide, Width, NvmInv, Counting, Talking
<1>7. /\ s \in Nat /\ xfer.txSz \in Nat /\ Len(sent') = s + 1 /\ Len(xfer.request.tx) \in Nat
      /\ dat \in Nat
  BY <1>1, <1>3, RequestType DEF TypeOK
<1>8. dat \in Bytes
  <2>1. xfer.request \in Requests \cup {Idle}
    BY <1>1 DEF TypeOK
  <2>2. xfer.request.tx \in Seq(Bytes)
    BY <2>1, RequestType
  <2>3. s + 1 \in 1 .. Len(xfer.request.tx)
    BY <1>4, <1>7
  <2>4. QED
    BY <1>4, <2>2, <2>3
<1>9. ChipTyped(Device, m)
  BY <1>5 DEF NvmInv, ChipsTyped
<1>10. at = "pointed" \/ at = "reading" => s < Wide
  <2>1. at = "pointed" => Len(xfer.request.tx) = Wide
    BY <1>4 DEF NvmInv, Using
  <2>2. at # "reading"
    <3>1. at = "reading" => xfer.request.tx = <<>>
      BY <1>4 DEF NvmInv, Using
    <3>2. Len(xfer.request.tx) # 0
      BY <1>4, <1>7
    <3>3. QED
      BY <3>1, <3>2
  <2>3. QED
    BY <1>4, <1>7, <2>1, <2>2
<1>11. ~Broken' /\ ~Fresh' /\ ~Addressing'
  BY <1>3 DEF Broken, Fresh, Starting, Started, Addressing
<1>12. /\ MainTyped' /\ (at = "sent" => Message)' /\ Stepping'
       /\ at' = at /\ Device' = Device /\ Wide' = Wide /\ IsWrite' = IsWrite
       /\ ChunkLen' = ChunkLen /\ \A j : Target(j)' = Target(j)
       /\ \A c, v : Meant(c, v)' = Meant(c, v)
       /\ UNCHANGED <<call, done>>
  BY <1>3, MainFrame, CallFrame DEF main
<1>13. IInv'
  BY <1>1, BusKeeps DEF NvmInv
<1>14. Busy' /\ Selected' = Selected /\ Using'
  <2>1. Busy' /\ Selected' = Selected /\ xfer'.request = xfer.request
    BY <1>3, <1>4 DEF Busy, Selected
  <2>2. QED
    BY <1>4, <1>11, <1>12, <2>1 DEF NvmInv, Using
<1>15. PICK taken \in Nat : taken = s + 1
  BY <1>7
<1>16. CASE TakePointer
  <2> DEFINE next == NextPointer
  <2> DEFINE n == [ptr |-> next, got |-> s + 1, latch |-> m.latch, busy |-> m.busy]
  <2>1. s < Wide /\ m.got = s
    BY <1>5, <1>6, <1>7, <1>16 DEF TakePointer
  <2>2. Chip(Device, n)
    <3>1. Pointed(m) = NextPointer
      BY <1>5, <2>1 DEF Pointed, NextPointer
    <3>2. Chip(Device, [m EXCEPT !.got = s + 1, !.ptr = NextPointer])
      BY <1>5, <1>16, <2>1, <3>1 DEF TakePointer
    <3>3. m = [ptr |-> m.ptr, got |-> m.got, latch |-> m.latch, busy |-> m.busy]
      BY <1>9 DEF ChipTyped
    <3>4. [m EXCEPT !.got = s + 1, !.ptr = NextPointer] = n
      <4>1. PICK g, p : g = s + 1 /\ p = NextPointer
        OBVIOUS
      <4>2. [m EXCEPT !.got = g, !.ptr = p] =
              [ptr |-> p, got |-> g, latch |-> m.latch, busy |-> m.busy]
        BY <3>3, CountAndPoint
      <4>3. QED
        BY <4>1, <4>2, Zenon
    <3>5. QED
      BY <3>2, <3>4
  <2>3. next \in 0 .. Size[Device] - 1
    <3>1. PICK z \in Nat \ {0} : z = Size[Device]
      BY <1>5, Constants
    <3>2. PICK k \in Nat : k = IF s = 0 THEN dat ELSE m.ptr * Radix + dat
      <4>1. m.ptr \in Nat /\ Radix \in Nat
        BY <1>9, <3>1, Constants DEF ChipTyped
      <4>2. QED
        BY <1>7, <4>1
    <3>3. k % z \in 0 .. z - 1
      OBVIOUS
    <3>4. QED
      BY <3>1, <3>2, <3>3 DEF NextPointer
  <2> HIDE DEF next
  <2>4. ChipTyped(Device, n)
    BY <1>7, <1>9, <2>3 DEF ChipTyped
  <2>5. ChipsTyped' /\ chip'[Device] = n /\ \A e \in Devices \ {Device} : chip'[e] = chip[e]
    BY <1>5, <2>2, <2>4, ChipSet DEF NvmInv
  <2>6. \A d \in Devices : chip'[d].latch = chip[d].latch
    BY <2>5
  <2>7. Counting'
    <3>1. chip'[Device].got = s + 1 /\ s + 1 <= Wide
      BY <1>6, <1>7, <2>1, <2>5
    <3>2. QED
      BY <1>6, <1>7, <1>12, <3>1 DEF Counting
  <2>8. Pointing'
    <3>1. SUFFICES ASSUME IsWrite, at = "sent" PROVE Position(taken)'
      BY <1>7, <1>12, <1>15 DEF Pointing
    <3>2. Position(s)
      BY <1>2, <1>5, <3>1 DEF NvmInv, Pointing, Talking
    <3>3. chip'[Device].ptr = NextPointer
      BY <2>5 DEF next
    <3>4. /\ taken = 1 /\ Wide = 2 =>
               NextPointer = (((call.addr + done) \div Radix) % Radix) % Size[Device]
          /\ taken - Wide \in 0 .. ChunkLen => NextPointer = Target(taken - Wide)
      BY <1>2, <1>5, <1>15, <2>1, <3>1, <3>2, TakesPointer
    <3>5. QED
      BY <1>12, <3>3, <3>4 DEF Position
  <2>9. QED
    BY <1>1, <1>3, <1>4, <1>11, <2>5, <2>6, <2>7, <2>8, BusKeepsRest
<1>17. CASE TakeData
  <2> DEFINE next == PageNext(Device, m.ptr)
  <2> DEFINE page == Over([c \in {m.ptr} |-> dat], m.latch)
  <2> DEFINE n == [ptr |-> next, got |-> m.got, latch |-> page, busy |-> m.busy]
  <2>1. s >= Wide /\ m.got = Wide /\ at = "sent"
    BY <1>5, <1>6, <1>7, <1>10, <1>17 DEF TakeData
  <2>2. Chip(Device, n)
    <3>1. Chip(Device, [m EXCEPT !.latch = page, !.ptr = PageNext(Device, m.ptr)])
      BY <1>5, <1>17 DEF TakeData
    <3>2. m = [ptr |-> m.ptr, got |-> m.got, latch |-> m.latch, busy |-> m.busy]
      BY <1>9 DEF ChipTyped
    <3> HIDE DEF page
    <3>3. [m EXCEPT !.latch = page, !.ptr = PageNext(Device, m.ptr)] = n
      BY <3>2, LatchAndPoint
    <3>4. QED
      BY <3>1, <3>3
  <2>3. next \in 0 .. Size[Device] - 1
    BY <1>5, <1>9, InPageType DEF ChipTyped, PageNext
  <2>4. /\ DOMAIN page = {m.ptr} \cup DOMAIN m.latch
        /\ page[m.ptr] = dat
        /\ \A c \in DOMAIN m.latch \ {m.ptr} : page[c] = m.latch[c]
    BY DEF Over
  <2> HIDE DEF next, page
  <2>5. ChipTyped(Device, n)
    <3>1. DOMAIN page \subseteq 0 .. Size[Device] - 1 /\ \A c \in DOMAIN page : page[c] \in Bytes
      BY <1>8, <1>9, <2>4 DEF ChipTyped
    <3>2. m.got \in Nat
      BY <1>9 DEF ChipTyped
    <3>3. QED
      BY <2>3, <3>1, <3>2 DEF ChipTyped
  <2>6. ChipsTyped' /\ chip'[Device] = n /\ \A e \in Devices \ {Device} : chip'[e] = chip[e]
    BY <1>5, <2>2, <2>5, ChipSet DEF NvmInv
  <2>7. Counting'
    BY <1>6, <1>7, <1>12, <2>1, <2>6 DEF Counting
  <2>8. Latching'
    <3>1. ASSUME NEW d \in Devices, d # Device
          PROVE  DOMAIN chip'[d].latch = {}
      BY <2>6, <3>1 DEF NvmInv, Latching
    <3>2. QED
      BY <1>11, <1>12, <1>14, <2>1, <3>1 DEF Latching
  <2>9. ASSUME IsWrite
        PROVE  Meant(m.ptr, dat) /\ Position(taken)'
    <3>1. /\ ChunkLen \in 1 .. Chunk /\ call.len \in Nat /\ done \in Nat /\ Chunk \in Nat \ {0}
          /\ done + ChunkLen \in 1 .. call.len /\ done + ChunkLen \in Ends
      BY <2>1, <2>9, ChunkEnds
    <3>2. PICK j \in 0 .. ChunkLen :
            /\ s = Wide + j /\ (j = ChunkLen => Wide = 1)
            /\ m.ptr = Target(j) /\ (j < ChunkLen => dat = Data(done + j))
      BY <1>2, <1>5, <1>7, <2>1, <2>9, TakesData
    <3>3. CASE j < ChunkLen
      <4>1. m.ptr = Lands(done + j)
        BY <3>2, <3>3 DEF Target
      <4>2. done + j \in 0 .. call.len - 1
        BY <3>1, <3>3
      <4>3. Meant(m.ptr, dat)
        BY <3>2, <3>3, <4>1, <4>2 DEF Meant
      <4>4. PageNext(Device, m.ptr) = Target(j + 1)
        BY <1>5, <2>9, <3>1, <3>2, <3>3, NextTarget
      <4>5. Position(taken)'
        <5>1. taken - Wide = j + 1 /\ taken # 1
          BY <1>6, <1>15, <3>1, <3>2
        <5>2. chip'[Device].ptr = Target(j + 1)
          BY <2>6, <4>4 DEF next
        <5>3. QED
          BY <1>12, <5>1, <5>2 DEF Position
      <4>6. QED
        BY <4>3, <4>5
    <3>4. CASE j = ChunkLen
      <4>1. m.ptr = Spill(done + ChunkLen)
        BY <3>1, <3>2, <3>4 DEF Target
      <4>2. Device # Mem
        BY <3>2, <3>4 DEF Wide
      <4>3. m.ptr \in Spills
        BY <3>1, <4>1, <4>2 DEF Spills
      <4>4. Position(taken)'
        <5>1. taken - Wide \notin 0 .. ChunkLen /\ taken # 1
          BY <1>6, <1>15, <3>1, <3>2, <3>4
        <5>2. QED
          BY <1>12, <5>1 DEF Position
      <4>5. QED
        BY <4>3, <4>4 DEF Meant
    <3>5. QED
      BY <3>1, <3>3, <3>4
  <2>10. Pointing'
    BY <1>7, <1>12, <1>15, <2>9 DEF Pointing
  <2>11. Pages'
    <3>1. SUFFICES ASSUME IsWrite, NEW c \in DOMAIN page PROVE Meant(c, page[c])
      BY <1>12, <2>6 DEF Pages
    <3>2. CASE c = m.ptr
      BY <2>4, <2>9, <3>1, <3>2
    <3>3. CASE c # m.ptr
      BY <2>4, <3>1, <3>3 DEF NvmInv, Pages
    <3>4. QED
      BY <3>2, <3>3
  <2>12. QED
    BY <1>12, <1>13, <1>14, <2>6, <2>7, <2>8, <2>10, <2>11, CellFrame DEF NvmInv
<1>18. QED
  BY <1>5, <1>16, <1>17 DEF Take

-----------------------------------------------------------------------------
(* Every step.                                                             *)
LEMMA WireKeeps ==
  ASSUME NvmInv, Wire
  PROVE  NvmInv'
<1>1. UNCHANGED main
  BY DEF Wire
<1>2. CASE Start("08", "free") /\ UNCHANGED <<cell, chip>>
  BY <1>1, <1>2, StartKeeps
<1>3. CASE Stop /\ Store
  BY <1>1, <1>3, StopKeeps
<1>4. CASE (Answer \/ Silence \/ Take \/ Refuse \/ Give) /\ UNCHANGED cell
  BY <1>1, <1>4, AnswerKeeps, TakeKeeps, RefuseKeeps, GiveKeeps
<1>5. CASE \E which \in {"38", "00"} : Failing(which)
  BY <1>1, <1>5, FailingKeeps
<1>6. QED
  BY <1>2, <1>3, <1>4, <1>5 DEF Wire

LEMMA NvmNextKeeps == NvmInv /\ [NvmNext]_nvars => NvmInv'
<1> SUFFICES ASSUME NvmInv, [NvmNext]_nvars PROVE NvmInv'
  OBVIOUS
<1>1. CASE NvmNext
  <2>1. CASE \E c \in Calls : Begin(c)
    BY <2>1, BeginKeeps
  <2>2. CASE Main
    BY <2>2, WritePageKeeps, DelayKeeps, ReturnKeeps, ReadPointKeeps, ReadDataKeeps DEF Main
  <2>3. CASE Handling
    BY <2>3, HandlingKeeps
  <2>4. CASE Wire
    BY <2>4, WireKeeps
  <2>5. QED
    BY <1>1, <2>1, <2>2, <2>3, <2>4 DEF NvmNext
<1>2. CASE UNCHANGED nvars
  <2>1. UNCHANGED vars /\ UNCHANGED <<at, call, done, buf, before, cell, chip>>
    BY <1>2 DEF nvars, main
  <2>2. IInv'
    BY <2>1, NextKeeps DEF NvmInv
  <2>3. /\ Busy' = Busy /\ Fresh' = Fresh /\ Talking' = Talking /\ Broken' = Broken
        /\ Addressing' = Addressing /\ Selected' = Selected /\ Slave' = Slave
    BY <2>1 DEF vars, history, Busy, Fresh, Talking, Broken, Starting, Started, Addressing, Asking,
       Writing, Counted, NoneRead, Selected, Slave
  <2>4. UNCHANGED <<xfer, con, sent, refused>>
    BY <2>1 DEF vars, history
  <2>5. MainTyped' /\ CellsTyped' /\ ChipsTyped' /\ Stepping' /\ Pages' /\ Cells'
    BY <2>1, CallFrame DEF NvmInv, MainTyped, CellsTyped, ChipsTyped, ChipTyped, Stepping, Pages,
       Cells
  <2>6. Using' /\ Counting' /\ Latching'
    BY <2>1, <2>3, <2>4, CallFrame DEF NvmInv, Using, Counting, Latching
  <2>7. Pointing' /\ (at = "sent" => Message)'
    <3>1. (at = "sent" => Message)'
      BY <2>1, <2>4, CallFrame DEF NvmInv, Message, Data, AddressBytes
    <3>2. Pointing'
      BY <2>1, <2>3, <2>4, CallFrame DEF NvmInv, Pointing, Position
    <3>3. QED
      BY <3>1, <3>2
  <2>8. QED
    BY <2>2, <2>5, <2>6, <2>7 DEF NvmInv
<1>3. QED
  BY <1>1, <1>2

LEMMA SpecNvmInv == NvmSpec => []NvmInv
  BY InitNvmInv, NvmNextKeeps, PTL DEF NvmSpec

-----------------------------------------------------------------------------
(* No index of the functions leaves the 34 bytes of buf, no pointer or     *)
(* page leaves a memory, and the counters of the driver never pass zero.   *)
THEOREM NvmTypesHold == NvmSpec => []NvmTypeOK
<1>1. NvmInv => NvmTypeOK
  BY DEF NvmInv, NvmTypeOK, MainTyped, CellsTyped, ChipsTyped, ChipTyped, IInv
<1>2. QED
  BY <1>1, SpecNvmInv, PTL

(* A write to any address, of any length, leaves every cell with what it   *)
(* held or with a byte of the data that lands there, or is the extra byte  *)
(* of mem48Write(): at every moment, and whichever transfers fail.         *)
THEOREM TornWriteIsHarmless == NvmSpec => []OldOrNew
<1>1. NvmInv => OldOrNew
  <2>1. SUFFICES ASSUME NvmInv, IsWrite, NEW c \in DOMAIN cell[Device]
                 PROVE  \/ cell[Device][c] = before[Device][c]
                        \/ \E k \in 0 .. call.len - 1 : c = Lands(k) /\ cell[Device][c] = Data(k)
                        \/ c \in Spills
    BY DEF OldOrNew, IsWrite
  <2>2. c \in 0 .. Size[Device] - 1
    <3>1. Device \in Devices
      BY <2>1, CallTyped DEF NvmInv
    <3>2. cell[Device] \in [0 .. Size[Device] - 1 -> Bytes]
      BY <2>1, <3>1 DEF NvmInv, CellsTyped
    <3>3. QED
      BY <2>1, <3>2
  <2>3. cell[Device][c] = before[Device][c] \/ Meant(c, cell[Device][c])
    BY <2>1, <2>2 DEF NvmInv, Cells
  <2>4. QED
    BY <2>3 DEF Meant
<1>2. QED
  BY <1>1, SpecNvmInv, PTL

-----------------------------------------------------------------------------
(* The pages of a write.  Its bytes land in the pages of its range; the    *)
(* other memory, and both while a read goes on, stay as they are.          *)
InItsPages(c) ==
  \E k \in 0 .. call.len - 1 : Cell(k) \div PageSize[Device] = c \div PageSize[Device]
Elsewhere == \A d \in Devices : d # Device \/ ~IsWrite =>
  \A c \in 0 .. Size[d] - 1 : cell[d][c] = before[d][c]

LEMMA SamePage ==
  ASSUME MainTyped, NEW a \in 0 .. Size[Device] - 1, NEW i \in Nat
  PROVE  InPage(Device, a, i) \div PageSize[Device] = a \div PageSize[Device]
<1>1. PICK p \in Nat \ {0} : p = PageSize[Device]
  BY CallTyped, Constants
<1>2. PICK s \in Nat \ {0} : s = Size[Device]
  BY CallTyped, Constants
<1>3. a \in Nat
  BY <1>2
<1>4. ((a \div p) * p + ((a + i) % p)) \div p = a \div p
  BY <1>3, PageStays
<1>5. QED
  BY <1>1, <1>4 DEF InPage

LEMMA StartType ==
  ASSUME NEW k \in Nat
  PROVE  ChunkStart(k) \in 0 .. k /\ k - ChunkStart(k) \in 0 .. Chunk - 1
<1>1. PICK c \in Nat \ {0} : c = Chunk
  BY Constants
<1>2. PICK q \in Nat, r \in 0 .. c - 1 : k = q * c + r /\ k \div c = q
  BY Divide
<1>3. ChunkStart(k) = q * c /\ q * c \in Nat
  BY <1>1, <1>2 DEF ChunkStart
<1>4. QED
  BY <1>1, <1>2, <1>3

LEMMA LandsInItsPages ==
  ASSUME MainTyped, NEW k \in 0 .. call.len - 1
  PROVE  InItsPages(Lands(k)) /\ Lands(k) \in 0 .. Size[Device] - 1
<1>1. call.len \in Nat /\ Device \in Devices
  BY CallTyped
<1>2. PICK b \in 0 .. call.len - 1 : b = ChunkStart(k) /\ k - b \in Nat
  <2>1. ChunkStart(k) \in 0 .. k /\ k - ChunkStart(k) \in 0 .. Chunk - 1
    BY <1>1, StartType
  <2>2. QED
    BY <1>1, <2>1, Constants
<1>3. Cell(b) \in 0 .. Size[Device] - 1
  BY <1>1, CellType
<1>4. Lands(k) = InPage(Device, Cell(b), k - b)
  BY <1>2 DEF Lands
<1>5. QED
  BY <1>1, <1>2, <1>3, <1>4, SamePage, InPageType DEF InItsPages

LEMMA SpillInItsPages ==
  ASSUME MainTyped, NEW c \in Spills
  PROVE  InItsPages(c)
<1>1. PICK k \in 1 .. call.len : c = PageNext(Device, Lands(k - 1))
  BY DEF Spills, Spill, Ends
<1>2. k - 1 \in 0 .. call.len - 1
  BY CallTyped
<1>3. InItsPages(Lands(k - 1)) /\ Lands(k - 1) \in 0 .. Size[Device] - 1
  BY <1>2, LandsInItsPages
<1>4. c \div PageSize[Device] = Lands(k - 1) \div PageSize[Device]
  BY <1>1, <1>3, SamePage DEF PageNext
<1>5. QED
  BY <1>3, <1>4 DEF InItsPages

LEMMA NvmNextElsewhere == NvmInv /\ Elsewhere /\ [NvmNext]_nvars => Elsewhere'
<1> SUFFICES ASSUME NvmInv, Elsewhere, [NvmNext]_nvars PROVE Elsewhere'
  OBVIOUS
<1>1. CASE \E c \in Calls : Begin(c)
  <2>1. before' = cell /\ cell' = cell
    BY <1>1 DEF Begin
  <2>2. QED
    BY <2>1 DEF Elsewhere
<1>2. ASSUME UNCHANGED <<call, before, cell>>
      PROVE  Elsewhere'
  BY <1>2 DEF Elsewhere, Device, IsWrite
<1>3. ASSUME UNCHANGED main, Store
      PROVE  Elsewhere'
  <2>1. UNCHANGED <<call, before>>
    BY <1>3 DEF main
  <2>2. SUFFICES ASSUME NEW d \in Devices, d # Device \/ ~IsWrite, NEW c \in 0 .. Size[d] - 1
                 PROVE  cell'[d][c] = before[d][c]
    BY <2>1 DEF Elsewhere, Device, IsWrite
  <2>3. DOMAIN chip[d].latch = {}
    BY <2>2 DEF NvmInv, MainTyped, Latching, IsWrite
  <2>4. cell'[d] = Over(chip[d].latch, cell[d]) /\ c \in DOMAIN cell[d]
    BY <1>3, <2>2 DEF Store, NvmInv, CellsTyped
  <2>5. cell'[d][c] = cell[d][c]
    BY <2>3, <2>4 DEF Over
  <2>6. QED
    BY <2>2, <2>5 DEF Elsewhere
<1>4. CASE Main \/ Handling \/ UNCHANGED nvars
  BY <1>2, <1>4 DEF Main, WritePage, Delay, WriteReturns, ReadPoint, ReadData, ReadReturns,
     Handling, nvars, main
<1>5. CASE Wire
  <2>1. UNCHANGED main /\ (Store \/ UNCHANGED cell)
    BY <1>5 DEF Wire, Failing, Forget
  <2>2. QED
    BY <1>2, <1>3, <2>1 DEF main
<1>6. QED
  BY <1>1, <1>4, <1>5 DEF NvmNext

(* A write to any address, of any length, changes no cell outside the      *)
(* pages of its range, also when its chunks cross page boundaries and      *)
(* whichever transfers fail; a read changes none.                          *)
THEOREM WritesStayInTheirPages == NvmSpec => []OnlyItsPages
<1>1. NvmInv /\ Elsewhere => OnlyItsPages
  <2>1. SUFFICES ASSUME NvmInv, Elsewhere, NEW d \in Devices, NEW c \in DOMAIN cell[d],
                        cell[d][c] # before[d][c]
                 PROVE  call.op \in Writes /\ d = Device /\ InItsPages(c)
    BY DEF OnlyItsPages, InItsPages
  <2>2. c \in 0 .. Size[d] - 1
    BY <2>1 DEF NvmInv, CellsTyped
  <2>3. IsWrite /\ d = Device
    BY <2>1, <2>2 DEF Elsewhere
  <2>4. Meant(c, cell[d][c])
    BY <2>1, <2>2, <2>3 DEF NvmInv, Cells
  <2>5. InItsPages(c)
    BY <2>1, <2>4, LandsInItsPages, SpillInItsPages DEF NvmInv, Meant
  <2>6. QED
    BY <2>3, <2>5 DEF IsWrite
<1>2. NvmInit => Elsewhere
  BY DEF NvmInit, Elsewhere
<1>3. NvmSpec => []Elsewhere
  BY <1>2, NvmNextElsewhere, SpecNvmInv, PTL DEF NvmSpec
<1>4. QED
  BY <1>1, <1>3, SpecNvmInv, PTL

-----------------------------------------------------------------------------
(* The functions and the memories are one environment of the I2C master:   *)
(* every behaviour is one of the driver.                                   *)
LEMMA NvmNextIsMaster == NvmInv /\ [NvmNext]_nvars => [Next]_vars
<1> SUFFICES ASSUME NvmInv, [NvmNext]_nvars PROVE [Next]_vars
  OBVIOUS
<1>1. CASE \E c \in Calls : Begin(c)
  BY <1>1 DEF Begin
<1>2. CASE Delay \/ WriteReturns \/ ReadReturns
  BY <1>2 DEF Delay, WriteReturns, ReadReturns
<1>3. CASE WritePage \/ ReadPoint \/ ReadData
  <2>1. \E r : Xfer(r)
    BY <1>3 DEF WritePage, ReadPoint, ReadData, Write, Read
  <2>2. PICK r : Xfer(r)
    BY <2>1
  <2>3. NvmInv'
    BY <1>3, WritePageKeeps, ReadPointKeeps, ReadDataKeeps
  <2>4. r \in Requests
    <3>1. xfer'.request = r /\ xfer'.status = "BUSY"
      BY <2>2 DEF Xfer, Transfer
    <3>2. xfer'.request \in Requests \cup {Idle}
      BY <2>3 DEF NvmInv, IInv, TypeOK
    <3>3. xfer'.request.slaveAddr # 0
      <4>1. Busy'
        BY <3>1 DEF Busy
      <4>2. Selected' \in Devices
        BY <2>3, <4>1, Constants DEF NvmInv, Using, Device
      <4>3. QED
        BY <4>2 DEF Selected, Devices, Mem, Mem48
    <3>4. QED
      BY <3>1, <3>2, <3>3 DEF Idle
  <2>5. QED
    BY <2>2, <2>4 DEF Next
<1>4. CASE Handling
  BY <1>4 DEF Handling, Next
<1>5. CASE Wire
  <2>1. CASE Give /\ UNCHANGED <<cell, main>>
    BY <2>1, GiveKeeps DEF Next
  <2>2. CASE Start("08", "free") \/ Stop \/ Answer \/ Silence \/ Take \/ Refuse
    BY <2>2 DEF Answer, Silence, Take, Refuse, Bus, Next
  <2>3. CASE \E which \in {"38", "00"} : Failing(which)
    BY <2>3 DEF Failing, Bus, Next
  <2>4. QED
    BY <1>5, <2>1, <2>2, <2>3 DEF Wire
<1>6. CASE UNCHANGED nvars
  BY <1>6 DEF nvars
<1>7. QED
  BY <1>1, <1>2, <1>3, <1>4, <1>5, <1>6 DEF NvmNext, Main

LEMMA NvmUsesTheMaster == NvmSpec => Spec
<1>1. NvmInit => Init
  BY DEF NvmInit
<1>2. QED
  BY <1>1, NvmNextIsMaster, SpecNvmInv, PTL DEF NvmSpec, Spec

(* The functions ask the driver for nothing that it does not expect, so    *)
(* their transfers are those of I2cTransfer: what the memories receive and *)
(* what a read returns is complete and in order when the status is OK.     *)
THEOREM NvmTransfers == NvmSpec => IsTransfer
  BY NvmUsesTheMaster, TransferImplemented, PTL
=============================================================================
