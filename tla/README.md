# TLA+ models of c-and-plc

The repository is a collection of C and C++ programs. Four parts of it carry
logic of their own, and these are what this project models, checks with TLC and
proves about with TLAPS:

| part | code | modules |
|---|---|---|
| chat server | `src/port-forwarder` | `ChatServer`, `ChatRoom`, `ChatServer_proofs`, `ChatRoom_proofs`, `MCChatServer` |
| LED/UART firmware | `src/CIAA/leds_UART_GPIO/sources` | `LedConsole`, `LedConsole_proofs`, `MCLedConsole` |
| serial ports of the board library | `src/CIAA/leds_UART_GPIO/modules/lpc4337_m4` | `UartRing`, `ByteQueue`, `UartRing_proofs`, `MCUartRing` |
| I2C memories of the board library | same directory | `I2cTransfer`, `I2cMaster`, `I2cMaster_proofs`, `Nvm`, `Nvm_proofs`, `NvmExact_proofs`, `Remainders`, `MCI2cMaster`, `MCNvm` |

Below, `server.cpp` is `src/port-forwarder/src/server.cpp`, `main.c`, `uart.c`,
`functions.c` and `buttons.c` are the firmware's, `ring_buffer.c`,
`uart_18xx_43xx.c`, `ciaaUART.c`, `ciaaNVM.c`, `ciaaI2C.c` and `i2cm_18xx_43xx.c`
(`.h`) those of the board and chip library.

## 1. Inventory

**Chat server** (`server.cpp`, `server.h`, `main.cpp`). State: the slot table
`clientes[MAX_CLIENTS]` (0 marks a free slot), `local_sock`, `is_on`. Three
threads: `main` runs `on()` (create the listening socket, create the two other
threads, connect the server to itself) and `wait()` (join them); `accept_conn()`
accepts, stores the descriptor in the first free slot and writes a notice to
the local connection; `get_msg()` sleeps two seconds, then builds a set from the
table, waits in `select()`, and serves the first ready slot: `recv()`, and
either close and clear the slot or send to every other slot. They share the
table with no lock and interact through the kernel: the lowest free descriptor
is reused, a send may block, answer with a reset or raise SIGPIPE. `off()` and
`wait(int)` are declared and have no body. Correct means: `get_msg()` never uses
a closed or duplicated descriptor and never blocks in `recv()`; no newcomer
is missed; each message goes to every other client once and in order;
what a client types is read, and a leaver's slot comes back, as far as serving the first
ready slot allows.

**Firmware** (`main.c`, `uart.c`, `functions.c`, `buttons.c`, `leds.c`). State:
`input_value`, `duty`, the line buffer, the three PWM LEDs and the blue one,
`pausems_count`. One loop: read a key; with `:` edit a line and take a value
from it; poll four buttons with debouncing; show value and result; pause. The
SysTick interrupt counts the pause down. Correct means: LEDs show the value and
its interpolation, the value is what was typed, bounces count for nothing, the
cursor stays near the buffer, and the loop always comes back to the keyboard.

**Serial ports** (`ciaaUART.c`, `uart_18xx_43xx.c`, `ring_buffer.c`). State: a
transmit and a receive ring per port (free-running 32 bit head and tail) and the
THREINT bit. `uartSend()` disables THREINT, inserts what fits, feeds the port,
inserts again, enables it; `uartRecv()` pops; the interrupt handler pops
transmit bytes while THREINT is set, and inserts received ones. There is no
lock. Correct means: each ring is a bounded queue, and nothing accepted is
stranded.

**I2C memories** (`ciaaNVM.c`, `ciaaI2C.c`, `i2cm_18xx_43xx.c`). State: the
`I2CM_XFER_T` of the transfer (bytes left each way, status), the flags STA, STO and
AA of the controller, the page buffer `buf[34]` of the write functions. A call cuts
a write into chunks of 32 bytes, each one transfer followed by a delay loop; a read
is a transfer that sets the address and one that reads.
`Chip_I2CM_XferBlocking()` calls `Chip_I2CM_XferHandler()` for every state change the
controller reports. No interrupt is used: the actors are the driver, the bus and
the memory, which can refuse, be busy, or fail at any byte. Correct means: a
transfer moves each byte once and in order and says OK only when it did; it gives
the bus back; it ends; a write changes the cells it was asked to and no others, as far as
chunks of 32 bytes and the pages of the memory agree; a read returns the cells it was asked
for.

**Not modelled, and why.**

- The DMA test (`dma.c`): both calls are commented out in `main.c`, and nothing else
  in the program takes a DMA channel, so there is no behaviour to model.
- Analog and digital I/O: register accesses, and one handler that stores four
  results.
- The packet sniffer (`src/tcp-ip/ip_proto.c`): prints headers, keeps no state from
  one packet to the next; its own README says it was taken from the web.
- The assembly example: teaching material.
- The vendored code (LPCOpen, CMSIS DSP, FreeRTOS, lwIP, FatFs, USB and the copies
  of them for the Cortex-M0): third-party, and nearly all of the 175000 lines under
  `src/`. It is modelled where the repository's own code calls into it (the UART,
  ring buffer and I2C master drivers, the PWM and the tick); what else the programs
  call of it is the set-up of pins, clocks and peripherals.

**What is hard here.** Interleavings of three threads over a table without a
lock, with descriptors that are reused the moment they are closed; the order of
`on()` against the first clients; a wake-up that works by writing to oneself; a
slow or reset reader; a scan that always starts at the first slot; an interrupt between any two accesses to a ring; counters
that wrap; a line editor whose two counters disagree; a transfer that may fail in any
of its states and whose result the caller ignores. `PROJECT.json` lists each
hazard at its line.

## 2. Modules and the code

Every step of code that another thread or handler can tell apart is one action,
named after the code. Both builds run without optimisation (the g++ command of
`src/port-forwarder/README.txt` and `etc/target/lpc4337_m4.mk` give no `-O`), so
shared variables are read and written where the code says so.

**`ChatServer`.** Program counters `mpc`, `apc`, `rpc` are the three threads. One
action per access to `clientes[]`: `accept_conn()` is `AcceptLoop`, `Accept`,
`Insert` (one slot per step), `Notify`; `get_msg()` is `WakeUp`, `ReceiveLoop`,
`Build` (one slot), `Select`, `Scan` (one slot), `Recv`/`RecvClosed`, `ClearSlot`,
`Forward` (one slot). `on()` is one action per call that can fail. The kernel is
`owner` (what each descriptor names) and `backlog`; `SendTo` has the three fates
of a `send()`. `Join`, `Say`, `Leave`, `Drain` are what terminals do; `SayAgain` (only in
`EndlessSpec`, which `ChatLive` checks) is one that never stops typing. Texts are
abstracted: a line is the count of lines its author has typed, so one `recv()`
that returns several lines is one entry `[from, upto]`. `log` and `audience` are
history variables.
**`ChatRoom`** is what the clients are promised: one conversation, nobody hears
oneself, nothing twice, nothing out of order. `IsChatRoom` is the refinement.

**`LedConsole`.** `pc` is the place in `main()`. The editor keeps the counters of
both functions (`numBytes`/`readBytes` of `UART_ReadBlocking()`, `toRead`/`pass` of
`UART_Read()`), and `mem` holds `buffer[]` and the stack bytes above it that DEL can
make the editor reach. `strtol` and `check_input` compute on these bytes.
`PollDown`/`PollUp` are the polling loop of `Buttons_GetStat_Antishock()`. A
poll that finds the button down is a step; the counter wraps at `UINT8`. `Show`
writes the PWM through the uint8_t percentage, `SysTick_Handler` is the interrupt.
`typed`, `dels` and `held` are history.

**`UartRing`.** The two rings, `threint`, and `mpc` for `uartSend()` and
`uartRecv()`: `RingBuffer_InsertMult()` and `RingBuffer_PopMult()` are one action
to compute the segments, one per copy, one per move of head or tail, because the
handler may come in between. `UART_IRQHandler` is one action: main cannot run
inside it. A ring is `[data, head, tail]` with counters modulo `Word` (2^32 in the
code). Bytes are numbered in the order offered. `sent`, `wire`, `arrived`,
`received` are history. Chip registers (`thr`, `rbr`: `Shift`, `Arrive`) are
external: one byte each way, where the chip may hold 16, which only adds bytes
the handler treats alike. `InitRing` is `RingBuffer_Init()` of the receive ring, which
runs after `ciaaUARTInit()` has enabled the receive interrupt: up to `MaxEarly` bytes meet
a ring of count 0 or one half set up. `ciaaUARTInit()` itself is register set-up.
**`ByteQueue`** is a bounded queue, with a producer that waits or drops;
`SendsInOrder` and `ReceivesInOrder` show that each ring implements it; it is `open`
once it is set up.

**`I2cMaster`.** One action per case of the switch in `Chip_I2CM_XferHandler()`,
guarded by the STAT codes of its labels: `SlaveAddress`, `Nak`, `SendByte`,
`TurnAround`, `Written`, `Addressed`, `Received` (whose case falls through to that
of `Addressed`), `SlaveNak`, `ArbLost`, `BusError`. `stat` is STAT while SI is set and
"none" otherwise; `con` holds STA, STO and AA with the rules of the handler (SI is
always cleared, STA and AA unless asked for, STO never). The default case of the
switch is not modelled: no code that a master without slave mode reports leads to
it. The controller and the bus (`Start`, `Stop`, `Address`, `Send`, `Receive`, `Fault`)
are external and may refuse or fail at any byte.
**`I2cTransfer`** is what the caller of a blocking transfer is promised; `IsTransfer` is
the refinement.

**`Nvm`** extends `I2cMaster` with its callers and with the memories. `at` is the place in
`memWrite()`, `mem48Write()`, `memRead()` or `mem48Read()`: `WritePage` fills `buf` and starts
a transfer, `Delay` is the rest of the loop, `ReadPoint` and `ReadData` are the two
transfers of a read. What the transfers return is dropped, as in the code, and kept
only in the history variable `failed`. The memories are external, modelled as their
driver uses them: a pointer that wraps in the page while writing, a page that is
written at the STOP, a write cycle in which the memory does not answer. Each memory has
pages of its own, of any size that divides it: nothing in the repository gives their sizes.

Operators marked `(mutant)` are wrong versions of the definition that follows;
no specification uses them. They show that each property notices a
plausible bug.

## 3. What the runs check

| run | instance | shows |
|---|---|---|
| `ChatStartup` | 2 clients, 3 slots, any call failing, clients that come during `on()` | types; no stale slot, no doubled slot, `recv()` never blocks |
| `ChatRooms` | 3 clients and the local connection, 3 slots, 5 descriptors | no lost wake-up, the threads never wait for each other, everyone hears, refinement of `ChatRoom` |
| `ChatLive` | 2 clients that may type for ever, `send()` blocks after one message or one notice, fairness | typed lines are read and slots come back, unless slots before them are read for ever; `accept_conn()` is not held by a notice |
| `ChatEarly` | clients before the local connection | **violated**: `EveryoneHears` |
| `ChatDeaf` | `select()` told of fewer descriptors than there are | **violated**: `EveryTerminalIsHeard` |
| `Console` | keys F : Enter DEL, 4 buttons, buffer of 4, one DEL per line | when a line ends, what it sets, how the value can leave its range, the cursor, the duty shown, the buttons, and that the loop comes back |
| `ConsoleRange` | lines without DEL | **violated**: `ValueInRange` |
| `ConsoleWrap` | the real threshold and counter (5, 256) | **violated**: `Button2Sets255` |
| `Uart` | rings of 4, counters modulo 8, calls of 1 to 5, 9 bytes each way, one byte before the receive ring is set up | types, both refinements of `ByteQueue`, a short send means a full ring, no copy leaves the arrays, no byte waits for an interrupt that is off |
| `UartLive` | rings of 2, counters modulo 4, up to four early bytes, fairness | what was accepted is sent |
| `I2c` | requests of up to 2 bytes out and 3 in, all options, any refusal or fault | refinement of `I2cTransfer`, the last byte only is refused, the bus is given back, the controller is never left with nothing to do, transfers end |
| `Nvm` | two calls, chunks of 3 bytes, a memory with pages of 6 and one with pages of 2, one fault | where each byte of a write lands, also when calls fail; which writes are exact; what a read returns; a write stays in the pages of its range; calls return |

Bounds, and why they are enough:

- *Chat.* Two clients suffice for a slot or a descriptor to be closed by one
  thread and reused by the other, which is what the safety of the table turns on;
  three are needed for two listeners of one message. There are as many slots as
  the smallest table where one is the local connection's and two compete, and in
  `ChatRooms` fewer descriptors than connections, so that numbers are reused and
  `accept()` finds none. `MaxSay` is 1: in the safety runs a client adds at most one line,
  and the entries of different clients still mix. It does not bound `ChatLive`, where
  `SayAgain` numbers the lines anew once they have been received. `MaxNotices`
  bounds how often a failing `accept()` writes its notice, `NoticeBuf` what the local
  connection holds before the `send()` of a notice blocks (never in the safety runs). Clients are
  interchangeable, so the safety runs use symmetry; the liveness runs do not.
- *Console.* One hexadecimal digit, one byte that ends the menu, Enter and DEL are
  the classes the code tells apart; `MAX_BUFFER` is the real one. `Console` shrinks
  the threshold and the counter to 2 and 4 so that wraps happen in a few polls;
  `ConsoleWrap` uses the real values. `MaxDel` bounds DELs in a line and `MaxBig`
  the values on which button 4 is tried.
- *I2c.* Two bytes out and three in make each case of the handler follow each
  other case that can precede it: first, middle and last byte differ, and the
  acknowledge of the last but one is decided a byte ahead.
- *Nvm.* Bytes have 6 values (`Radix`) and chunks 3 bytes. The two-byte memory has 12 cells
  in pages of two chunks, the one-byte memory 6 cells in pages of 2, smaller than a chunk:
  the two ways a chunk and a page can differ. The calls are writes that fit, of one chunk
  and of more, writes that start inside a chunk and cross a page, writes that wrap over
  their own data, writes longer than the memory, and reads that `rxSz` holds and one that it
  does not. Two calls, so that the second meets what a failed first one left. One fault is
  the bound of the run; the safety properties are proved for any number.
- *Uart.* Nine bytes make counters modulo 8 wrap and every position of the array
  be the start of a call; calls longer than the ring force partial sends and both
  segments.

Deadlock is not checked in the chat, UART and memory runs: clients may have nothing
left to do and threads wait in the kernel, and the bounds on bytes and calls end the
others. In the console runs and in `I2c` it is.

Disagreements with the documentation found while modelling (the four violated
runs): a client that connects before the server's own connection takes the
number `local_sock + 1` and is treated as the local one; `select()` is given
`MAX_CLIENTS + 1` instead of the largest descriptor + 1, so clients from
descriptor 11 on are never heard; three or four typed digits set a value above
0xff; a press of 256 to 260 polls counts as none.

What a write does to the memories is said in three steps. `Lands(k)` is the cell where byte
`k` goes: its chunk starts at its own cell and wraps at the end of the page. `OldOrNew`
holds at every moment and for every write: a cell has what it held or a byte that lands
there. `WriteLands` says the same of the end of a write of which no transfer failed, and
which byte it is. `WriteIsExact` is what a caller wants, the range written and nothing
else, and holds for the writes that fit (`Fits`): no page begins inside a chunk. Where pages
are whole chunks these are the writes to multiples of 32. Where pages are smaller than a
chunk, as they may well be in the memory at 0x51 with its one address byte, no write longer
than a page fits: `mem48Write()` cuts chunks of 32 bytes whatever the memory
(`ciaaNVM.c:71`), the chunk wraps over its own data, and the range beyond the page keeps
what it held. The repository promises nothing on page sizes, so this is no finding; the
run has such a memory. `OnlyItsPages` bounds the harm: it ends with the pages of the range.

`mem48Write()` also sends `len + 2` bytes although its address takes one (same line), so one
byte of whatever `buf[]` held goes into the cell after each chunk, in its page; `Spills` and
`Damage` name these cells and exempt them, and only them. Reads are claimed to be exact only
if no transfer failed: a refused address makes the memory answer from wherever its pointer
is.

Two more disagreements with the documentation have no run, because the repository's callers
do not depend on them. The comment at `i2cm_18xx_43xx.h:81` gives `SLAVE_NAK` for an
unanswered address of either direction, and the handler reports `NAK` for a write
(`i2cm_18xx_43xx.c:96`). The option IGNORE_NACK is described as one for the data
(`i2cm_18xx_43xx.h:64`, and the diagram at 351-353 keeps the acknowledge of the address);
the handler also goes on when the address of a write is not answered (the same case,
`i2cm_18xx_43xx.c:96`), and `IsTransfer` says what it does: with the option, a
transfer may end OK although its address was refused.

`LinesAreTaken` and `SlotsComeBack` carry the exception `[]<>Overtaken(c)` because the
starvation is real: `get_msg()` scans from slot 0 and breaks after the first ready slot
(`server.cpp:161-188`), so a client in an early slot that keeps typing is served at every
`select()` and a later one is not read, nor closed when it has left. Without the exception
TLC refutes both properties under `EndlessSpec`. With it they say that this is the only way
to starve. `NoticesGoOut` needs no exception, because the local connection is in slot 0.

`ChatDeaf` is the code's 11 scaled down: three slots with an `NFDS` that leaves one
client's descriptor out. The other chat runs give `NFDS` a value above all
descriptors or let properties speak of those below it, to check everything else.
`EarlyClients = FALSE` in `ChatRooms` and `ChatLive` excludes what `ChatEarly` shows,
and `SleepSuffices` is the assumption the code makes with `sleep(2)`: `get_msg()`
finds the local connection in the table. `ChatLive` has an `accept()` that works: one
that fails until the local connection is full, before that connection is accepted,
leaves `accept_conn()` waiting for a reader that needs it.

## 4. Fairness

- `ChatServer`: weak fairness of each thread. The scheduler of the operating system runs
  each thread that can run; a thread blocked in a call is not enabled. Weak
  fairness of `Drain(c)`: a terminal reads what arrives. Without it a client that
  stops reading blocks `send()`, and with it the room, and no liveness holds; the
  code has no defence. Nobody has to connect, type or leave, and anybody may type for
  ever (`EndlessSpec`). No fairness among the slots is assumed: there is none in the code.
  The properties except a process that SIGPIPE has ended.
- `LedConsole`: the processor runs, the timer ticks, and a held button is released in
  the end. Nobody has to press or type.
- `I2cMaster`: the caller polls SI without end (`Chip_I2CM_XferBlocking()` is such a loop),
  and the controller finishes what it was told to do; a slave that stretches the clock
  for ever would hang the caller, which has no timeout. Faults are free to come or not.
- `Nvm`: the same, and main goes on inside a call. Nobody has to call.
- `UartRing`: main goes on inside a call, the interrupt is taken, the port shifts
  bytes out. Nobody has to call.

## 5. Proofs

For every value of the constants that the named assumptions allow.

`ChatServer_proofs`: `TypeCorrect`, `SlotsAreOpen` (`NoStaleSlot`), `SlotsAreDistinct`
(`OneSlotEach`), `RecvIsPrompt` (`RecvNeverBlocks`), for any number of clients,
slots and descriptors, any failing call, early clients and a short sleep
included. They share the inductive invariant `IInv == TypeOK /\ SlotInv`.
`NoStaleSlot` alone is not inductive: `close()` frees a descriptor that a second
slot, or `accept_conn()` about to store it, might hold. Hence `OneSlotEach` and
`FreshInsert` (the descriptor about to be stored is in no slot but the one being
cleared); hence also `SlotInUse`, `LocalOpen` (a failing `connect()` closes the
server's own socket and not a client's) and `StartOrder`. `ReadyInv` carries
readability from `select()` to `recv()`: only `get_msg()` reads, and no connection
named in the set is closed before it is read. There is one lemma per action and
a frame lemma (`SlotFrame`) for the actions that only add traffic.

`LedConsole_proofs`: `TypeCorrect`, `ResultShown`, `CursorBounded`,
`LineEnds` (`LineEndsAtHalf`), `TakesWhatIsTyped` (`TakenIsTyped`), `RangeIsKept`
(`RangeLeftByLongLine`) and `BouncesDoNothing`. `ResultShown` needs nothing
beyond the property. `CursorBounded` rests on `CursorInv`, which
ties the counters of the two nested functions together: `numBytes + readBytes =
MAX_BUFFER`, and the DELs of a line split into those of the current pass (`toRead -
numBytes`) and those before. `BouncesDoNothing` is an action property: below the threshold
the counter `i` equals the number of polls, because the threshold is less than the range
of the counter. The others turn on what a line is worth. `strtol()` is a recursive
function over the positions of the line, and the library's rules of induction, which take
an operator, are out of the provers' reach. `Induction` is the same rule with a set in
place of the operator: from the library's `WFMin` and `NatLessThanWellFounded`, a set of
numbers that is not empty has a least one (`LeastNumber`), so a set with 0 and the
successor of each of its members is `Nat`. With it, the digits end somewhere in the line
(`DigitsEnd`, `DigitRange`), what they are worth is a natural number for any line
(`WorthIsNatural`), which is what `TypeCorrect` needs, and lines that agree up to the byte
that ends the number are worth the same (`StrtolOfPrefix`). `TakesWhatIsTyped` adds
`LineKept`: without a DEL `buffer[]` starts with what was typed and goes on with the zeros
it was cleared with at the `:`, so the byte after a line ends the number and nothing older
counts. `RangeIsKept` then bounds two hexadecimal digits by 255 (`TwoKeysFit`) and goes
through the assignments to `input_value`. `LineEnds` is `CursorInv` with the test of
`UART_ReadBlocking()`, which compares `readBytes` with what is left of `numBytes` and so
goes on while `2 * readBytes < MAX_BUFFER`.

`ChatRoom_proofs`: `RoomImplemented` (`IsChatRoom`), `HearsAll` (`EveryoneHears`),
`NoWakeupLost` (`NoLostWakeup`) and `ThreadsNeverWaitForEachOther` (`NoMutualWait`), for
any number of clients, slots, descriptors, lines and any send buffer. They assume what the
run `ChatRooms` assumes, by name: `Quiet` (no call of `on()` fails, the process may own
the descriptors 3 to 5, no client comes before the local connection; `ChatEarly` shows
what happens otherwise), and for the last two also `SleepSuffices` and a local connection
that `select()` looks at. On top of `IInv` the argument has six parts. `StartInv`: until
the local connection is accepted (`Calm`) nobody else is there, hence it gets descriptor 5
and the slot that holds `local_sock + 1` is its own. `ConnInv`: a connection is in the
backlog or under one descriptor, so slots in use name different connections. `TurnInv`:
what `msg` is and where the loop variables stand at each place of `get_msg()`. `HeardInv`:
a connection on its way to a slot has been sent nothing, and no slot still to come has had
`msg`, hence nothing is sent twice. `AudienceInv`: who still has to be sent `msg` is in a
slot to come. `WakeInv`: the local connection is stored first and its slot is never
cleared; a slot the set for `select()` was built over and misses was filled since, so its
notice is coming or unread, and a pending notice stays pending until `get_msg()` reads it.
For `NoMutualWait` the set that `select()` is given always has the local connection, so a
notice that was sent and not read makes `select()` return, whoever is waiting in `send()`.

`UartRing_proofs`: `TypeCorrect`, `ShortSend`, `InTheArray`, `NothingIsStranded`
(`NoByteStranded`), and `SendsImplemented` and
`ReceivesImplemented`, the refinements of `ByteQueue`, for every ring size and every `Word`
that is a multiple of it (the code's 2^32 and powers of two). The invariant says which
bytes a ring holds while main is in the middle of a call: between the copies and the
move of the head the two segments lie in free cells, between the copies and the move of
the tail they lie in used ones, and the handler moves only the other counter. The lemmas
on `%` (a difference of counters modulo `Word` is the number of bytes; indices modulo
`Count` of near counters are different) carry it. The handler's part of the receive
ring includes the steps of `RingBuffer_Init()`. `NoByteStranded` is made inductive by
`StrandInv`: the ring is empty until the first call, and from then on only the handler turns
THREINT off between calls, in the step that finds the ring empty.

`I2cMaster_proofs`: `TypeCorrect`, `LastByteIsRefused`, `BusIsGivenBack`,
`AlwaysSomethingToDo` (`NeverStuck`) and `TransferImplemented`, for any bytes, requests,
acknowledges and faults. The invariant `Stages` gives for each phase of the bus, and each
code reported, what has been sent, received and stored and what remains, hence also that
the controller has something to do; `RefusedInv` says that a refusal the transfer has not
yet answered is the one being reported.

`Nvm_proofs`: `NvmTypesHold` (`NvmTypeOK`), `TornWriteIsHarmless` (`OldOrNew`),
`WritesStayInTheirPages` (`OnlyItsPages`) and `NvmTransfers` (`IsTransfer`), for calls of
any address and length, any number of faults, chunks of any length and memories and pages
of any size, provided (`NvmAssumption`) that a memory is a whole number of pages and that
the address bytes reach every cell of it the same number of times. Nothing relates pages to
chunks. `NvmTransfers` follows from `NvmUsesTheMaster`: the four functions, with the
memories behind the bus, are one of the environments `I2cMaster` allows, so everything
proved about the master holds under them. `OldOrNew` speaks of cells only; its invariant
follows a byte on its way there. `Message`: what is on the wire is the address and the data
of the current chunk. `Counting`: the memory has taken as many address bytes as were sent.
`Pointing`: once `j` data bytes are taken the pointer is where the next one lands, because
both wrap in the same page (`LandsNext`); after the last chunk byte it is where the extra
byte of `mem48Write()` lands. `Pages` and `Cells`: a latched byte, and a changed cell, is one
that lands there or such an extra byte. `Latching`: nothing stays latched once a transfer is
over, so that no call stores bytes of an earlier one. A transfer that fails leaves these as
they are, whatever byte it fails at. `OnlyItsPages` follows from `Cells`, since a byte lands
in the page of its chunk's first cell (`LandsInItsPages`, `SpillInItsPages`), and from
`Elsewhere`: the other memory, and both during a read, stay as they are. `Remainders` has
the lemmas on `%` and `\div` that the pages and the address bytes need.

`NvmExact_proofs`: `ReadsAreExact` (`ReadIsExact`), `WritesLand` (`WriteLands`) and
`WritesAreExact` (`WriteIsExact`), from the same assumptions. They rest on
`HandlerSucceeds`: the handler sets the status OK only when every byte was sent and none
refused, or every byte asked for was received, so a caller that ignores the status but met
no failure has had complete transfers. For reads, `Aiming` follows the pointer through the
address bytes, `Aimed` keeps it until the second transfer, whatever STOP comes in between,
and `Following` says that after `n` bytes the pointer is at the next cell and all `n` were
those of their cells; nothing is latched, so no STOP of a read changes a cell under it. For
writes, `Exact(n)` is what the memory holds once the first `n` bytes are there. It is kept
while a chunk goes out (`Paging`: the page holds exactly the last of the bytes taken so far
for each cell) and becomes `Exact` of the next chunk at the STOP (`StoreOfChunk`). A cell
that a chunk spoils is good again when a later byte lands there, hence `Spoilt` looks at the
bytes still to come; and a chunk that wraps over its own data, or a range longer than the
memory, meets a cell twice, hence `Last`. `WritesAreExact` is `WritesLand` for the writes
that fit: there a byte lands in its own cell (`LandsWhereItFits`). Two theorems say which
these are: `AlignedWritesFit` (pages of whole chunks, a multiple of the chunk as the
address, any length) and `SmallPagesUnfit` (pages smaller than a chunk, no write longer
than one).

Only model-checked: liveness (`LinesAreTaken`, `SlotsComeBack`, `NoticesGoOut`,
`ReturnsToKeyboard`, `TwoKeysEndLine`, `AllIsSent`, `TransferEnds`, `CallsReturn`), which
rests on fairness and `ENABLED`, out of the prover's reach. `NeverStuck`, `NoMutualWait`
and `NoByteStranded` are the part of three of them that is a matter of safety: the state
in which the controller, the threads or a byte would wait for ever is not reached, for
every value of the constants. Every other property of the passing runs is proved.

## 6. Left out

Formatting and printing; how notices read; the register set-up of the
peripherals; autobaud; the `memset()` at `main.c:66`, which clears the 4 bytes of `buffer[]`
with the size of the longer `str[]` and so reaches the stack above it, once, before any line
is read (the model lets the bytes next to `buffer[]`
be anything, `Neighbours`); what the PWM does with a duty above 100 percent; the
uninitialised `clientes[]` (taken as zero, as a fresh large allocation is); the
256-byte `send()` of shorter strings, whose tail nobody tells apart; the read and
the write of an `IER` update as two steps (both main and the handler change THREINT only, so
an interrupt in between gives what one of the two orders gives); an optimised build that would keep `pausems_count` in
a register.

## 7. Plan

1. (done) `ChatServer` over `ChatRoom`, `LedConsole`, `UartRing` over `ByteQueue`.
2. (done) `I2cMaster` over `I2cTransfer`, and `Nvm` over `I2cMaster`.
3. (dropped) The DMA channel allocator: no code in the program calls it.
4. (done) Proofs of `UartRing` and `I2cMaster` with their refinements, and of
   `ChatServer` as an implementation of `ChatRoom`.
5. (done) Proofs of the safety properties of `Nvm`, and of its use of the master.
6. (done) Proofs about the line: what `strtol()` makes of it, by induction over its bytes; and
   the safety side of what liveness needs, in `UartRing`, `I2cMaster` and `ChatServer`.
7. (done) Writes to any address and into pages of any size: `OldOrNew`, `WriteLands`,
   `OnlyItsPages`; which of them are exact: `WriteIsExact`.
8. (done) Terminals that type for ever: who can be starved.

Nothing of the plan is left. What remains of the repository is listed in section 6 and in
the components that are not modelled.
