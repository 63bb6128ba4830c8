------------------------------- MODULE MCNvm --------------------------------
(* Small memories for TLC: bytes of 6 values and chunks of three bytes; the *)
(* two-byte memory has two pages of two chunks, the one-byte memory three   *)
(* pages that are smaller than a chunk.                                     *)
EXTENDS Nvm, TLC

MCBytes == 0 .. Radix - 1
MCSize == (Mem :> 12) @@ (Mem48 :> 6)
MCPageSize == (Mem :> 6) @@ (Mem48 :> 2)
MCRequests ==
  [slaveAddr : Devices, tx : UNION {[1 .. n -> MCBytes] : n \in 0 .. Chunk + 2},
   room : 0 .. Word - 1, options : {{}}]

\* Writes that fit, of one chunk and of two, that cross a page, and that are
\* longer than the memory; reads that fit rxSz and one that does not.
MCCalls ==
  [op : {"memWrite"}, addr : {0, 5}, len : {5, 7}] \cup
  [op : {"mem48Write"}, addr : {2}, len : {2, 7}] \cup
  [op : {"mem48Write"}, addr : {1, 5}, len : {3}] \cup
  [op : {"memRead", "mem48Read"}, addr : {1}, len : {3, 8}]
=============================================================================
