---------------------------- MODULE MCI2cMaster -----------------------------
(* A small instance of I2cMaster for TLC: one slave, every request of up to *)
(* MaxTx bytes out and MaxRx bytes in, with every set of options.           *)
EXTENDS I2cMaster

CONSTANTS MaxTx, MaxRx

MCBytes == {0, 1}
MCRequests ==
  [slaveAddr : {1}, tx : UNION {[1 .. n -> MCBytes] : n \in 0 .. MaxTx},
   room : 0 .. MaxRx, options : SUBSET Options]
=============================================================================
