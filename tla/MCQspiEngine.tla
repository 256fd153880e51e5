----------------------------- MODULE MCQspiEngine -----------------------------
(***************************************************************************)
(* TLC instance of QspiEngineBfm: reads and writes of 1, 2 and 5 bytes and *)
(* the 11-byte descriptor fetch, on both devices; the address has six      *)
(* different nibbles.                                                      *)
(***************************************************************************)
EXTENDS QspiEngineBfm

MCRequests ==
  {[cmd |-> QSPI_CMD_FAST_READ, addr |-> 10854182, device_sel |-> d, byte_len |-> n] :
     d \in qspi_device_sel_t, n \in {1, 5, 11}}
  \cup
  {[cmd |-> QSPI_CMD_WRITE, addr |-> 1193046, device_sel |-> d, byte_len |-> n] :
     d \in qspi_device_sel_t, n \in {1, 2, 5}}
MCSioValues == {9, 6}
=============================================================================
