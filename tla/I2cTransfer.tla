---------------------------- MODULE I2cTransfer -----------------------------
(***************************************************************************)
(* What one blocking transfer of the I2C master promises to its caller,    *)
(* whatever the bus does: the bytes of the caller go out once each and in  *)
(* order, then the bytes of the slave come in, and the status is OK only   *)
(* when all of it happened, the buffer holds what the slave sent and       *)
(* nothing was refused (unless the caller asked to ignore that).           *)
(***************************************************************************)
EXTENDS Naturals, Sequences

CONSTANTS Bytes, Requests

VARIABLES
  status,    \* "BUSY" during a transfer, its result after it
  request,   \* what was asked: the bytes to send, the bytes to receive
  sent,      \* bytes put on the wire
  given,     \* bytes that came over the wire
  buffer,    \* bytes stored for the caller
  refused    \* whether an address or a byte was not acknowledged

tvars == <<status, request, sent, given, buffer, refused>>

Init ==
  /\ status = "OK"
  /\ request = [slaveAddr |-> 0, tx |-> <<>>, room |-> 0, options |-> {}]
  /\ sent = <<>> /\ given = <<>> /\ buffer = <<>> /\ refused = FALSE

Begin ==
  /\ status # "BUSY"
  /\ status' = "BUSY"
  /\ request' \in Requests
  /\ sent' = <<>> /\ given' = <<>> /\ buffer' = <<>> /\ refused' = FALSE

Refuse ==
  /\ status = "BUSY"
  /\ refused' = TRUE
  /\ UNCHANGED <<status, request, sent, given, buffer>>

Put ==
  /\ status = "BUSY"
  /\ Len(sent) < Len(request.tx)
  /\ sent' = Append(sent, request.tx[Len(sent) + 1])
  /\ refused' \in {refused, TRUE}
  /\ UNCHANGED <<status, request, given, buffer>>

Get ==
  /\ status = "BUSY"
  /\ Len(sent) = Len(request.tx)
  /\ Len(given) < request.room
  /\ buffer = given
  /\ \E b \in Bytes : given' = Append(given, b)
  /\ UNCHANGED <<status, request, sent, buffer, refused>>

Store ==
  /\ status = "BUSY"
  /\ buffer' = given
  /\ UNCHANGED <<status, request, sent, given, refused>>

Complete ==
  /\ Len(sent) = Len(request.tx)
  /\ Len(given) = request.room
  /\ refused => "IGNORE_NACK" \in request.options

End ==
  /\ status = "BUSY"
  /\ status' # "BUSY"
  /\ buffer' \in {buffer, given}
  /\ status' = "OK" => Complete /\ buffer' = given
  /\ UNCHANGED <<request, sent, given, refused>>

Next == Begin \/ Refuse \/ Put \/ Get \/ Store \/ End

Spec == Init /\ [][Next]_tvars
=============================================================================
