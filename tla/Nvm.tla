-------------------------------- MODULE Nvm ---------------------------------
(***************************************************************************)
(* The two serial memories of the board: mem48Read(), mem48Write(),        *)
(* memRead() and memWrite() over ciaaI2CWrite() and ciaaI2CRead(), on the  *)
(* bus of I2cMaster, with the memories behind it.  A write goes out in     *)
(* chunks of 32 bytes; what ciaaI2CWrite() and ciaaI2CRead() return is     *)
(* ignored.  The memories are external: what is modelled is what the code  *)
(* relies on, the pointer that follows the address bytes, the page that is *)
(* written at the STOP and wraps, the write cycle in which it answers      *)
(* nothing.                                                                *)
(***************************************************************************)
EXTENDS I2cMaster

CONSTANTS
  Radix,      \* values of a byte (256)
  Word,       \* values of the uint16_t rxSz (65536)
  Chunk,      \* data bytes of a chunk (32)
  PageSize,   \* bytes of a page of each memory, by its slave address
  Size,       \* cells of each memory
  Calls,      \* the calls made: op, addr, len
  MaxCalls,   \* bound on the number of calls
  MaxFaults,  \* bound on the number of faults other than "slow"
  Faults      \* subset of {"nak", "38", "00", "slow"}: what may go wrong

Mem == 80     \* 0x50: two address bytes
Mem48 == 81   \* 0x51: one address byte
Devices == {Mem, Mem48}
Writes == {"memWrite", "mem48Write"}
Dev(op) == IF op \in {"memRead", "memWrite"} THEN Mem ELSE Mem48

ASSUME NvmAssumption ==
  /\ Radix > 2 /\ {Radix, Word, Chunk} \subseteq Nat \ {0}
  /\ Bytes = 0 .. Radix - 1
  /\ {PageSize, Size} \subseteq [Devices -> Nat \ {0}]
  /\ \A d \in Devices : Size[d] % PageSize[d] = 0
  /\ (Radix * Radix) % Size[Mem] = 0 /\ Radix % Size[Mem48] = 0
  /\ Calls \subseteq [op : Writes \cup {"memRead", "mem48Read"}, addr : Nat, len : Nat]

\* The transfers that the four functions ask for are among the requests.
ASSUME RequestsCovered ==
  [slaveAddr : Devices, tx : UNION {[1 .. n -> Bytes] : n \in 0 .. Chunk + 2},
   room : 0 .. Word - 1, options : {{}}] \subseteq Requests

VARIABLES
  at,       \* where main is: "idle", "page", "sent", "point", "pointed", "reading"
  call,     \* the call in progress, or the last one
  done,     \* bytes by which addr, len and pdatos have moved
  buf,      \* uint8_t buf[34] of the write functions
  cell,     \* contents of the memories
  chip,     \* per memory: ptr, address bytes got, latched page, busy
  calls, faults,   \* number of calls begun, of faults met
  before, failed   \* history: contents at the start of the call, a transfer failed

main == <<at, call, done, buf, calls, before, failed>>
nvars == <<vars, main, cell, chip, faults>>

Quiet == [op |-> "memRead", addr |-> 0, len |-> 0]
Junk == Radix - 1   \* a byte that was never assigned

NvmInit ==
  /\ Init
  /\ at = "idle" /\ call = Quiet /\ done = 0 /\ calls = 0 /\ faults = 0
  /\ buf = [i \in 1 .. Chunk + 2 |-> Junk]
  /\ cell = [d \in Devices |-> [c \in 0 .. Size[d] - 1 |-> 0]]
  /\ chip = [d \in Devices |-> [ptr |-> 0, got |-> 0, latch |-> <<>>, busy |-> FALSE]]
  /\ before = cell /\ failed = FALSE

-----------------------------------------------------------------------------
(* The callers and the four functions.                                     *)

\* (mutant) & 0xFF is forgotten.
AddressUnmasked(op, a) == IF Dev(op) = Mem THEN <<a \div Radix, a>> ELSE <<a>>
\* (mutant) the low byte first.
AddressSwapped(op, a) ==
  IF Dev(op) = Mem THEN <<a % Radix, (a \div Radix) % Radix>> ELSE <<a % Radix>>
AddressBytes(op, a) ==
  IF Dev(op) = Mem THEN <<(a \div Radix) % Radix, a % Radix>> ELSE <<a % Radix>>

\* Byte k of the caller's data: distinct, and none of them 0 or Junk.
Data(k) == 1 + (k % (Radix - 2))

Write(op, bytes) ==
  Xfer([slaveAddr |-> Dev(op), tx |-> bytes, room |-> 0, options |-> {}])
Read(op, len) ==
  Xfer([slaveAddr |-> Dev(op), tx |-> <<>>, room |-> len % Word, options |-> {}])

Returned == xfer.status # "BUSY"
Note == failed' = (failed \/ xfer.status # "OK")

Begin(c) ==
  /\ at = "idle" /\ calls < MaxCalls
  /\ at' = IF c.op \in Writes THEN "page" ELSE "point"
  /\ call' = c /\ done' = 0 /\ calls' = calls + 1
  /\ before' = cell /\ failed' = FALSE
  /\ buf' = [i \in 1 .. Chunk + 2 |-> Junk]
  /\ UNCHANGED <<vars, cell, chip, faults>>

\* (mutant) pdatos += 32 is forgotten.
FilledAgain(a, n) ==
  LET head == AddressBytes(call.op, a)
  IN  [i \in DOMAIN buf |-> CASE i <= Len(head) -> head[i]
                              [] i - Len(head) \in 1 .. n -> Data(i - Len(head) - 1)
                              [] OTHER -> buf[i]]
\* Both functions send len + 2 bytes, whatever the length of the address.
Filled(a, n) ==
  LET head == AddressBytes(call.op, a)
  IN  [i \in DOMAIN buf |-> CASE i <= Len(head) -> head[i]
                              [] i - Len(head) \in 1 .. n -> Data(done + i - Len(head) - 1)
                              [] OTHER -> buf[i]]

\* (mutant) while (len > 1).
LeftShort == call.len - done - 1
Left == call.len - done

WritePage ==
  /\ at = "page" /\ Left > 0
  /\ LET n == IF Left > Chunk THEN Chunk ELSE Left
     IN  /\ buf' = Filled(call.addr + done, n)
         /\ Write(call.op, SubSeq(buf', 1, n + 2))
  /\ at' = "sent"
  /\ UNCHANGED <<call, done, calls, before, failed, cell, chip>>

\* (mutant) len -= 32 is forgotten.
DelayStuck ==
  /\ at = "sent" /\ Returned /\ "STO" \notin con
  /\ at' = "page" /\ Note
  /\ chip' = [chip EXCEPT ![Dev(call.op)].busy = @ /\ "slow" \in Faults]
  /\ UNCHANGED <<vars, call, done, buf, calls, before, cell>>

\* The loop after a page, of 65535 turns: longer than a STOP, and meant to be
\* longer than the write cycle; "slow" is a memory that takes longer.
Delay ==
  /\ at = "sent" /\ Returned /\ "STO" \notin con
  /\ done' = done + Chunk
  /\ at' = "page" /\ Note
  /\ chip' = [chip EXCEPT ![Dev(call.op)].busy = @ /\ "slow" \in Faults]
  /\ UNCHANGED <<vars, call, buf, calls, before, cell>>

WriteReturns ==
  /\ at = "page" /\ Left <= 0
  /\ at' = "idle"
  /\ UNCHANGED <<vars, call, done, buf, calls, before, failed, cell, chip>>

\* (mutant) One address byte for either memory.
ReadPointShort ==
  /\ at = "point"
  /\ Write(call.op, SubSeq(AddressBytes(call.op, call.addr), 1, 1))
  /\ at' = "pointed"
  /\ UNCHANGED <<call, done, buf, calls, before, failed, cell, chip>>

ReadPoint ==
  /\ at = "point"
  /\ Write(call.op, AddressBytes(call.op, call.addr))
  /\ at' = "pointed"
  /\ UNCHANGED <<call, done, buf, calls, before, failed, cell, chip>>

ReadData ==
  /\ at = "pointed" /\ Returned
  /\ Read(call.op, call.len)
  /\ at' = "reading" /\ Note
  /\ UNCHANGED <<call, done, buf, calls, before, cell, chip>>

ReadReturns ==
  /\ at = "reading" /\ Returned
  /\ at' = "idle" /\ Note
  /\ UNCHANGED <<vars, call, done, buf, calls, before, cell, chip>>

Main ==
  /\ WritePage \/ Delay \/ WriteReturns \/ ReadPoint \/ ReadData \/ ReadReturns
  /\ UNCHANGED faults

-----------------------------------------------------------------------------
(* The memories on the bus.  Slave is the one that was addressed.          *)

Slave == dat \div 2
Selected == xfer.request.slaveAddr
\* The page of d is written from cell a on and wraps: where its byte i goes.
InPage(d, a, i) == (a \div PageSize[d]) * PageSize[d] + ((a + i) % PageSize[d])
PageNext(d, a) == InPage(d, a, 1)
Chip(d, r) == chip' = [chip EXCEPT ![d] = r]
Healthy == UNCHANGED faults
Faulty(kind) == kind \in Faults /\ faults < MaxFaults /\ faults' = faults + 1

\* A memory that was written may still be busy when it is addressed; that it
\* is ready again shows only then.
Listening(m) ==
  [ptr |-> m.ptr, got |-> IF dat % 2 = 0 THEN 0 ELSE m.got, latch |-> m.latch, busy |-> FALSE]
Answer ==
  /\ Address(TRUE)
  /\ chip[Slave].busy => "slow" \in Faults
  /\ Chip(Slave, Listening(chip[Slave]))
  /\ Healthy
Silence ==
  /\ Address(FALSE)
  /\ (chip[Slave].busy /\ Healthy) \/ Faulty("nak")
  /\ UNCHANGED chip

\* The address bytes set the pointer, the others go to the page.
Width == IF Selected = Mem THEN 2 ELSE 1
Pointed(m) == (IF m.got = 0 THEN dat ELSE m.ptr * Radix + dat) % Size[Selected]
TakePointer ==
  /\ chip[Selected].got < Width
  /\ Chip(Selected, [chip[Selected] EXCEPT !.got = @ + 1, !.ptr = Pointed(chip[Selected])])
Over(f, g) == [c \in DOMAIN f \cup DOMAIN g |-> IF c \in DOMAIN f THEN f[c] ELSE g[c]]
TakeData ==
  /\ chip[Selected].got = Width
  /\ LET m == chip[Selected]
     IN  Chip(Selected, [m EXCEPT !.latch = Over([c \in {m.ptr} |-> dat], @),
                                  !.ptr = PageNext(Selected, @)])
Take == Send(TRUE) /\ (TakePointer \/ TakeData) /\ Healthy
Refuse == Send(FALSE) /\ Faulty("nak") /\ UNCHANGED chip

Give ==
  /\ Receive(cell[Selected][chip[Selected].ptr])
  /\ Chip(Selected, [chip[Selected] EXCEPT !.ptr = (@ + 1) % Size[Selected]])
  /\ Healthy

\* At a STOP the latched page is written; after a fault it may be lost.
Latched(d) == chip[d].latch # <<>>
Store ==
  /\ cell' = [d \in Devices |-> Over(chip[d].latch, cell[d])]
  /\ chip' = [d \in Devices |-> [chip[d] EXCEPT !.latch = <<>>, !.busy = @ \/ Latched(d)]]
Forget ==
  /\ chip' = [d \in Devices |-> [chip[d] EXCEPT !.latch = <<>>]]
  /\ UNCHANGED cell

Failing(which) == Fault(which) /\ Faulty(which) /\ (Store \/ Forget)

Wire ==
  /\ \/ Start("08", "free") /\ Healthy /\ UNCHANGED <<cell, chip>>
     \/ Stop /\ Store /\ Healthy
     \/ (Answer \/ Silence \/ Take \/ Refuse \/ Give) /\ UNCHANGED cell
     \/ \E which \in {"38", "00"} : Failing(which)
  /\ UNCHANGED main

Handling == XferHandler /\ UNCHANGED <<main, cell, chip, faults>>

NvmNext == (\E c \in Calls : Begin(c)) \/ Main \/ Handling \/ Wire

NvmSpec ==
  /\ NvmInit /\ [][NvmNext]_nvars
  /\ WF_nvars(Main) /\ WF_nvars(Handling) /\ WF_nvars(Wire)

-----------------------------------------------------------------------------
(* Types: buf is never read or written outside its Chunk + 2 bytes, the    *)
(* memories hold bytes.                                                    *)
NvmTypeOK ==
  /\ at \in {"idle", "page", "sent", "point", "pointed", "reading"}
  /\ call \in Calls \cup {Quiet} /\ done \in Nat /\ buf \in [1 .. Chunk + 2 -> Bytes]
  /\ \A d \in Devices :
       /\ cell[d] \in [0 .. Size[d] - 1 -> Bytes]
       /\ chip[d].ptr \in 0 .. Size[d] - 1
       /\ DOMAIN chip[d].latch \subseteq 0 .. Size[d] - 1
  /\ TypeOK

\* The cells that a call is about.
Device == Dev(call.op)
Cell(k) == (call.addr + k) % Size[Device]
Range == {Cell(k) : k \in 0 .. call.len - 1}

\* Where byte k of a write lands: a chunk starts at its cell and wraps at the end
\* of the page.
ChunkStart(k) == (k \div Chunk) * Chunk
Lands(k) == InPage(Device, Cell(ChunkStart(k)), k - ChunkStart(k))
Landed == {Lands(k) : k \in 0 .. call.len - 1}

\* Where the byte that mem48Write() sends after the end of a chunk lands, and
\* where it still is at the end.
Ends == {k \in 1 .. call.len : k = call.len \/ k % Chunk = 0}
Spill(k) == PageNext(Device, Lands(k - 1))
Spills == IF Device = Mem THEN {} ELSE {Spill(k) : k \in Ends}
Damage ==
  IF Device = Mem THEN {}
  ELSE {Spill(k) : k \in {e \in Ends : Spill(e) \notin {Lands(i) : i \in e .. call.len - 1}}}

\* The writes that these functions are good for: in no chunk does a page begin
\* after the first byte.
Fits ==
  /\ call.op \in Writes
  /\ \A k \in 1 .. call.len - 1 :
       k % Chunk # 0 => (call.addr + k) % PageSize[Device] # 0

(* Any write, whatever its address and length, leaves every cell with what *)
(* it held or with a byte of the data that lands there, whichever transfer *)
(* fails and wherever: a reset or a lost page in the middle of a write     *)
(* tears it and nothing else.  The one exception is the extra byte of      *)
(* mem48Write(), which goes to the cell after a chunk, in its page         *)
(* (ciaaNVM.c:71).  A byte lands outside its own cell when its chunk does  *)
(* not fit the page.                                                       *)
OldOrNew == call.op \in Writes =>
  \A c \in DOMAIN cell[Device] :
    \/ cell[Device][c] = before[Device][c]
    \/ \E k \in 0 .. call.len - 1 : c = Lands(k) /\ cell[Device][c] = Data(k)
    \/ c \in Spills

(* When a write of which no transfer failed returns, every cell where      *)
(* bytes landed holds the last of them and every other cell what it held,  *)
(* but for that extra byte.  This is also what a write does that does not  *)
(* fit: the chunk wraps over its own data, and over the page's start, and  *)
(* the range beyond the page is left as it was.                            *)
WriteLands ==
  (call.op \in Writes /\ at = "idle" /\ ~failed) =>
    \A c \in DOMAIN cell[Device] \ Damage :
      \/ c \notin Landed /\ cell[Device][c] = before[Device][c]
      \/ \E k \in 0 .. call.len - 1 :
           /\ c = Lands(k) /\ cell[Device][c] = Data(k)
           /\ \A j \in k + 1 .. call.len - 1 : Lands(j) # c

(* What a caller may rely on: a write that fits its pages, and of which no *)
(* transfer failed, has written its whole range with the data, the last    *)
(* byte for a cell winning, and nothing else but that extra byte.  With    *)
(* pages of less than 32 bytes no write longer than a page fits.           *)
WriteIsExact ==
  (Fits /\ at = "idle" /\ ~failed) =>
    \A c \in DOMAIN cell[Device] \ Damage :
      \/ c \notin Range /\ cell[Device][c] = before[Device][c]
      \/ \E k \in 0 .. call.len - 1 :
           /\ c = Cell(k) /\ cell[Device][c] = Data(k)
           /\ \A j \in k + 1 .. call.len - 1 : Cell(j) # c

(* A read of which no transfer failed returns the cells that were asked    *)
(* for, from the address on, if their number fits rxSz.  (A read whose     *)
(* address was refused silently reads from wherever the pointer is.)       *)
ReadIsExact ==
  (at = "idle" /\ call.op \notin Writes /\ call.len < Word /\ ~failed) =>
    xfer.rx = [i \in 1 .. call.len |-> cell[Device][Cell(i - 1)]]

(* Whatever the address and the length of a write, and whatever fails in   *)
(* it, it changes cells of the pages that its range lies in and no others: *)
(* a chunk that crosses a page boundary, and the byte that mem48Write()    *)
(* sends too many, wrap inside the page where the chunk began.  A read     *)
(* changes nothing.                                                        *)
OnlyItsPages ==
  \A d \in Devices : \A c \in DOMAIN cell[d] :
    cell[d][c] # before[d][c] =>
      /\ call.op \in Writes /\ d = Device
      /\ \E k \in 0 .. call.len - 1 : Cell(k) \div PageSize[d] = c \div PageSize[d]

(* Every call returns, also with a memory that refuses everything.         *)
CallsReturn == at # "idle" ~> at = "idle"
=============================================================================
