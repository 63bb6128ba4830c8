----------------------------- MODULE I2cMaster ------------------------------
(***************************************************************************)
(* The I2C master of the chip library: Chip_I2CM_XferBlocking() starts a   *)
(* transfer and calls Chip_I2CM_XferHandler() once for every state change  *)
(* the controller reports, until the handler has set a status.  One action *)
(* per case of the handler, and one per thing that happens on the bus.     *)
(* The controller and the bus are hardware, modelled as the driver needs   *)
(* them; they fail in every way the handler has a case for.                *)
(***************************************************************************)
EXTENDS Integers, Sequences

CONSTANTS
  Bytes,      \* values of a byte of data
  Requests    \* what callers pass: slaveAddr, tx, room (for rxSz), options

Options == {"IGNORE_NACK", "LAST_RX_ACK"}
Failures == {"NAK", "SLAVE_NAK", "ARBLOST", "BUS_ERROR"}
Codes == {"08", "10", "18", "20", "28", "30", "38", "40", "48", "50", "58", "00"}

ASSUME RequestsAssumption ==
  /\ Bytes \subseteq Nat
  /\ Requests \subseteq [slaveAddr : Nat, tx : Seq(Bytes), room : Nat,
                         options : SUBSET Options]

VARIABLES
  xfer,     \* the I2CM_XFER_T of the call: request, bytes left, status
  con,      \* the bits STA, STO and AA of CONSET
  stat,     \* STAT while SI is set, "none" while it is clear
  dat,      \* DAT
  phase,    \* the bus: "free", "started", "writing" or "reading"
  sent, given, refused   \* history of the transfer, see I2cTransfer

driver == <<xfer, dat>>
history == <<sent, given, refused>>
vars == <<xfer, con, stat, dat, phase, history>>

Idle == [slaveAddr |-> 0, tx |-> <<>>, room |-> 0, options |-> {}]
Transfer(r, status) ==
  [request |-> r, txSz |-> Len(r.tx), rx |-> <<>>, rxSz |-> r.room, status |-> status]

Init ==
  /\ xfer = Transfer(Idle, "OK")
  /\ con = {} /\ stat = "none" /\ dat = 0 /\ phase = "free"
  /\ sent = <<>> /\ given = <<>> /\ refused = FALSE

-----------------------------------------------------------------------------
(* Chip_I2CM_Xfer(): STO is the one flag that is not cleared.              *)

Xfer(r) ==
  /\ xfer.status # "BUSY"
  /\ xfer' = Transfer(r, "BUSY")
  /\ con' = (con \ {"AA"}) \cup {"STA"}
  /\ stat' = "none"
  /\ sent' = <<>> /\ given' = <<>> /\ refused' = FALSE
  /\ UNCHANGED <<dat, phase>>

-----------------------------------------------------------------------------
(* Chip_I2CM_XferHandler(), one action per case.  SI is always cleared,    *)
(* STA and AA unless they are set, STO never.                              *)

Changed(codes) == xfer.status = "BUSY" /\ stat \in codes
Ignores == "IGNORE_NACK" \in xfer.request.options
LastAck == "LAST_RX_ACK" \in xfer.request.options

Control(set) ==
  /\ con' = (con \ {"STA", "AA"}) \cup set
  /\ stat' = "none"

Finish(status, set) ==
  /\ xfer' = [xfer EXCEPT !.status = status]
  /\ Control(set)
  /\ UNCHANGED dat

SlaveAddress ==
  /\ Changed({"08", "10"})
  /\ dat' = 2 * xfer.request.slaveAddr + (IF xfer.txSz = 0 THEN 1 ELSE 0)
  /\ Control({})
  /\ UNCHANGED xfer

\* (mutant) The address is tried again instead.
NakRetries == Changed({"20", "30"}) /\ ~Ignores /\ Control({"STA"}) /\ UNCHANGED driver
Nak ==
  /\ Changed({"20", "30"}) /\ ~Ignores
  /\ Finish("NAK", {"STO"})

Acked == Changed({"18", "28"}) \/ (Changed({"20", "30"}) /\ Ignores)

SendByte ==
  /\ Acked /\ xfer.txSz # 0
  /\ dat' = xfer.request.tx[Len(xfer.request.tx) - xfer.txSz + 1]
  /\ xfer' = [xfer EXCEPT !.txSz = @ - 1]
  /\ Control({})

\* (mutant) The bytes to receive are forgotten.
NoTurnAround == Acked /\ xfer.txSz = 0 /\ xfer.rxSz # 0 /\ Finish("OK", {"STO"})
TurnAround ==
  /\ Acked /\ xfer.txSz = 0 /\ xfer.rxSz # 0
  /\ Control({"STA"})
  /\ UNCHANGED driver

Written ==
  /\ Acked /\ xfer.txSz = 0 /\ xfer.rxSz = 0
  /\ Finish("OK", {"STO"})

\* The case of 0x50 and 0x58 falls through to the one of 0x40.
\* (mutant) The last byte is acknowledged too.
AckNextLate(left) == left > 0 \/ LastAck
AckNext(left) == left > 1 \/ LastAck
ReadOn(rx, left) ==
  /\ xfer' = [xfer EXCEPT !.rx = rx, !.rxSz = left,
                          !.status = IF left = 0 THEN "OK" ELSE @]
  /\ Control({f \in {"AA", "STO"} : IF f = "AA" THEN AckNext(left) ELSE left = 0})
  /\ UNCHANGED dat

\* (mutant) The address counts as a byte.
AddressedCounts == Changed({"40"}) /\ ReadOn(xfer.rx, xfer.rxSz - 1)
Addressed == Changed({"40"}) /\ ReadOn(xfer.rx, xfer.rxSz)
Received == Changed({"50", "58"}) /\ ReadOn(Append(xfer.rx, dat), xfer.rxSz - 1)

\* (mutant) No STOP for a slave that does not answer.
SlaveNakQuiet == Changed({"48"}) /\ Finish("SLAVE_NAK", {})
SlaveNak == Changed({"48"}) /\ Finish("SLAVE_NAK", {"STO"})
ArbLost == Changed({"38"}) /\ Finish("ARBLOST", {})
BusError == Changed({"00"}) /\ Finish("BUS_ERROR", {"STO"})

XferHandler ==
  /\ \/ SlaveAddress \/ Nak \/ SendByte \/ TurnAround \/ Written
     \/ Addressed \/ Received \/ SlaveNak \/ ArbLost \/ BusError
  /\ UNCHANGED <<phase, history>>

-----------------------------------------------------------------------------
(* The controller and the bus.  Nothing moves while SI is set.             *)

Start(code, from) ==
  /\ stat = "none" /\ phase = from /\ "STA" \in con /\ "STO" \notin con
  /\ stat' = code /\ phase' = "started"
  /\ UNCHANGED <<driver, con, history>>

Stop ==
  /\ stat = "none" /\ "STO" \in con
  /\ con' = con \ {"STO"} /\ phase' = "free"
  /\ UNCHANGED <<driver, stat, history>>

Clocking(p) == stat = "none" /\ phase = p /\ con \cap {"STA", "STO"} = {}

Address(ack) ==
  /\ Clocking("started")
  /\ \/ /\ dat % 2 = 0
        /\ phase' = "writing" /\ stat' = IF ack THEN "18" ELSE "20"
     \/ /\ dat % 2 = 1
        /\ phase' = "reading" /\ stat' = IF ack THEN "40" ELSE "48"
  /\ refused' = (refused \/ ~ack)
  /\ UNCHANGED <<driver, con, sent, given>>

Send(ack) ==
  /\ Clocking("writing")
  /\ stat' = IF ack THEN "28" ELSE "30"
  /\ sent' = Append(sent, dat)
  /\ refused' = (refused \/ ~ack)
  /\ UNCHANGED <<driver, con, phase, given>>

Receive(b) ==
  /\ Clocking("reading")
  /\ dat' = b /\ stat' = IF "AA" \in con THEN "50" ELSE "58"
  /\ given' = Append(given, b)
  /\ UNCHANGED <<xfer, con, phase, sent, refused>>

\* Arbitration lost leaves the bus to another master, a bus error does not.
Fault(which) ==
  /\ \E p \in {"started", "writing", "reading"} : Clocking(p)
  /\ stat' = which
  /\ phase' = IF which = "38" THEN "free" ELSE phase
  /\ UNCHANGED <<driver, con, history>>

Bus ==
  \/ Start("08", "free") \/ Start("10", "writing") \/ Stop
  \/ \E ack \in BOOLEAN : Address(ack) \/ Send(ack)
  \/ \E b \in Bytes : Receive(b)
  \/ \E which \in {"38", "00"} : Fault(which)

Next == (\E r \in Requests : Xfer(r)) \/ XferHandler \/ Bus

Spec == Init /\ [][Next]_vars

\* The caller polls SI without end, and the controller finishes what it has begun.
FairSpec == Spec /\ WF_vars(XferHandler) /\ WF_vars(Bus)

-----------------------------------------------------------------------------
(* Types; the counters are never decremented past zero.                    *)
TypeOK ==
  /\ xfer \in [request : Requests \cup {Idle}, txSz : Nat, rx : Seq(Bytes), rxSz : Nat,
               status : {"BUSY", "OK"} \cup Failures]
  /\ xfer.txSz <= Len(xfer.request.tx) /\ xfer.rxSz <= xfer.request.room
  /\ con \subseteq {"STA", "STO", "AA"} /\ stat \in Codes \cup {"none"} /\ dat \in Nat
  /\ phase \in {"free", "started", "writing", "reading"}
  /\ sent \in Seq(Nat) /\ given \in Seq(Bytes) /\ refused \in BOOLEAN

(* A transfer does what I2cTransfer says, for every behaviour of the bus.  *)
Promise == INSTANCE I2cTransfer WITH
  status <- xfer.status, request <- xfer.request, buffer <- xfer.rx
IsTransfer == Promise!Spec

(* The master acknowledges every byte it receives but the last one, which  *)
(* it refuses unless the caller asked for LAST_RX_ACK: a slave that sees   *)
(* its last byte acknowledged goes on to drive the bus and the STOP is     *)
(* lost (i2cm_18xx_43xx.h, I2CM_XFER_OPTION_LAST_RX_ACK).                  *)
OnlyLastByteNacked ==
  /\ stat = "58" => xfer.rxSz = 1
  /\ stat = "50" => xfer.rxSz > 1 \/ LastAck

(* A transfer that has ended has given the bus back: it is free, or STOP   *)
(* is requested.  XferBlocking() returns in every case of the handler.     *)
BusReleased == xfer.status # "BUSY" => phase = "free" \/ "STO" \in con

(* XferBlocking() polls SI with no timeout, so the controller must never be  *)
(* left with nothing to do: it has a STOP to make, a START on a bus that    *)
(* allows one, or a byte to clock on a bus that is its own, also after a    *)
(* transfer that another one's failure has preceded.                        *)
NeverStuck ==
  xfer.status = "BUSY" /\ stat = "none" =>
    \/ "STO" \in con
    \/ "STA" \in con /\ phase \in {"free", "writing"}
    \/ con \cap {"STA", "STO"} = {} /\ phase # "free"

(* Every transfer ends, with whatever status: Chip_I2CM_XferBlocking() has *)
(* no timeout.                                                             *)
TransferEnds == xfer.status = "BUSY" ~> xfer.status # "BUSY"

=============================================================================
