------------------------------- MODULE QspiPkg -------------------------------
(***************************************************************************)
(* The shared types of the ASIC: packages qspi_pkg and sys_control_pkg of  *)
(* src/src/types.svh.  A wire or a flop of one bit is 0 or 1, a SIO value  *)
(* is one nibble, a 24-bit address is a natural number below 2^24.         *)
(***************************************************************************)
EXTENDS Naturals

Bit == {0, 1}
Nibble == 0 .. 15

(***************************************************************************)
(* qspi_pkg.                                                               *)
(***************************************************************************)
ClockedStates ==            \* the states in which SCK toggles
  {"SEND_CMD_1", "SEND_CMD_2", "SEND_ADDR", "WAIT", "READ_DATA", "WRITE_DATA"}
PadStates == {"QSPI_IDLE", "CS_ON", "SCLK_OFF", "CS_OFF"}
qspi_state_t == ClockedStates \cup PadStates

QSPI_CMD_WRITE == 2         \* 8'h02
QSPI_CMD_FAST_READ == 235   \* 8'hEB
qspi_cmd_t == {QSPI_CMD_WRITE, QSPI_CMD_FAST_READ}

qspi_wait_cycles(cmd) == IF cmd = QSPI_CMD_FAST_READ THEN 6 ELSE 0

QSPI_ADDR_SPACE == 16777216         \* 2^24
qspi_addr_t == 0 .. QSPI_ADDR_SPACE - 1

QSPI_PSRAM0 == 0
QSPI_PSRAM1 == 1
qspi_device_sel_t == {QSPI_PSRAM0, QSPI_PSRAM1}

DMA_BUF_DEPTH_MAX == 8
QPI_TCD_BYTES == 11
QPI_MAX_BYTES ==
  IF DMA_BUF_DEPTH_MAX > QPI_TCD_BYTES THEN DMA_BUF_DEPTH_MAX ELSE QPI_TCD_BYTES

qpi_byte_len_t == 0 .. 15           \* $clog2(QPI_MAX_BYTES + 1) = 4 bits
QPI_CYCLE_CNT_MOD == 32             \* $clog2(2 * QPI_MAX_BYTES + 1) = 5 bits
qpi_payload_nibble_cnt_t == 0 .. QPI_CYCLE_CNT_MOD - 1

\* Nibble k \in 0 .. 5 of an address, in wire order: k = 0 is addr[23:20].
NIBBLE_WEIGHT == <<1048576, 65536, 4096, 256, 16, 1>>
AddrNibble(addr, k) == (addr \div NIBBLE_WEIGHT[k + 1]) % 16

(***************************************************************************)
(* sys_control_pkg.  A descriptor (tcd_t, 88 bits) is its 22 nibbles in    *)
(* wire order; nibble 1 is the most significant one of the packed struct.  *)
(***************************************************************************)
sys_control_state_t ==
  {"SYS_CTRL_IDLE", "NEW_FETCH", "FETCH", "NEW_OP", "READ", "WRITE", "UPDATE",
   "STALL"}

TCD_LEN == 22
tcd_t == [1 .. TCD_LEN -> Nibble]

Join(high, low) == 16 * high + low      \* {high, low}, low one nibble

Word24(t, i) ==             \* the 24-bit field whose first nibble is t[i]
  Join(Join(Join(Join(Join(t[i], t[i+1]), t[i+2]), t[i+3]), t[i+4]), t[i+5])

src_ptr(t) == Word24(t, 1)
dest_ptr(t) == Word24(t, 7)
transfer_len(t) == Join(t[13], t[14])
next_tcd(t) == Word24(t, 15)
\* Mutant: a slice of two bits instead of one.
next_tcd_device_wide(t) == t[21] \div 4

next_tcd_device(t) == t[21] \div 8
dest_device(t) == (t[21] \div 4) % 2
src_device(t) == (t[21] \div 2) % 2
quit(t) == t[21] % 2

\* The descriptor with the 24-bit field at nibble i replaced.
WithWord24(t, i, w) ==
  [n \in 1 .. TCD_LEN |-> IF n \in i .. i + 5 THEN AddrNibble(w, n - i) ELSE t[n]]
=============================================================================
