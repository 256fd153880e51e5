-------------------------------- MODULE Staging --------------------------------
(***************************************************************************)
(* Staged memories for TLC: the packing of a descriptor into its 11 bytes  *)
(* (src/firmware/tcd.py) and the images the instances start from.          *)
(***************************************************************************)
EXTENDS QspiPkg, MemoryImage, TLC

Bytes24(w) == <<w \div 65536, (w \div 256) % 256, w % 256>>

TcdBytes(src, dest, length, nxt, flags) ==
  Bytes24(src.address) \o Bytes24(dest.address) \o <<length>> \o Bytes24(nxt.address)
    \o <<128 * nxt.device + 64 * dest.device + 32 * src.device + 16 * flags>>

Loc(device, address) == [device |-> device, address |-> address]
QUIT == 1
CHAIN == 0

Place(address, bytes) ==
  [a \in address .. address + Len(bytes) - 1 |-> bytes[a - address + 1]]

\* Five bytes from PSRAM0 to PSRAM1, an empty descriptor on PSRAM1, and a QUIT
\* whose other fields are not zero.
CrossChain ==
  [d \in qspi_device_sel_t |->
     IF d = QSPI_PSRAM0
     THEN Place(0, TcdBytes(Loc(0, 64), Loc(1, 64), 5, Loc(1, 32), CHAIN))
          @@ Place(16, TcdBytes(Loc(1, 3), Loc(0, 5), 3, Loc(1, 7), QUIT))
          @@ Place(64, <<18, 52, 86, 120, 154>>)
     ELSE Place(32, TcdBytes(Loc(0, 0), Loc(0, 0), 0, Loc(0, 16), CHAIN))]

\* A chain that rewrites itself: three bytes overlapping by one within PSRAM1,
\* then a copy of one byte over its own head that turns the head into a QUIT.
SelfChain ==
  [d \in qspi_device_sel_t |->
     IF d = QSPI_PSRAM0
     THEN Place(0, TcdBytes(Loc(1, 64), Loc(1, 65), 3, Loc(0, 16), CHAIN))
          @@ Place(16, TcdBytes(Loc(0, 37), Loc(0, 10), 1, Loc(0, 0), CHAIN))
          @@ Place(37, <<16>>)
     ELSE Place(64, <<17, 34, 51, 68>>)]

\* One byte from PSRAM0 to PSRAM1, an empty descriptor on PSRAM1, then a QUIT there.
ShortChain ==
  [d \in qspi_device_sel_t |->
     IF d = QSPI_PSRAM0
     THEN Place(0, TcdBytes(Loc(0, 64), Loc(1, 64), 1, Loc(1, 32), CHAIN))
          @@ Place(64, <<165>>)
     ELSE Place(32, TcdBytes(Loc(0, 0), Loc(0, 0), 0, Loc(1, 48), CHAIN))
          @@ Place(48, TcdBytes(Loc(0, 0), Loc(0, 0), 0, Loc(0, 0), QUIT))]
=============================================================================
