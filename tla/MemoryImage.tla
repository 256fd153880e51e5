------------------------------ MODULE MemoryImage ------------------------------
(***************************************************************************)
(* The contents of the two PSRAM devices, as the sparse images of          *)
(* src/test/reference/chain.py (class MemoryImage) and of the device model *)
(* src/test/models/psram.py (class PsramDevice): a byte that was never     *)
(* written reads as the fill, an access past the top of a device is        *)
(* skipped rather than folded back to address zero.                        *)
(***************************************************************************)
EXTENDS Naturals, Sequences

FILL == 0
ADDR_MAX == 8388607                 \* 0x7FFFFF: A[22:0]

WireAddr(addr) == addr % (ADDR_MAX + 1)     \* a device ignores addr[23]

ByteAt(mem, device, addr) ==
  IF addr \in DOMAIN mem[device] THEN mem[device][addr] ELSE FILL

Poke(mem, device, addr, value) ==
  IF addr > ADDR_MAX THEN mem
  ELSE [mem EXCEPT ![device] =
          [a \in DOMAIN mem[device] \cup {addr} |->
             IF a = addr THEN value ELSE mem[device][a]]]

ReadSpan(mem, device, addr, length) ==
  [k \in 1 .. length |-> ByteAt(mem, device, addr + k - 1)]

\* The nibbles of a byte string, upper nibble of each byte first.
ToNibbles(bytes) ==
  [k \in 1 .. 2 * Len(bytes) |->
     IF k % 2 = 1 THEN bytes[(k + 1) \div 2] \div 16 ELSE bytes[k \div 2] % 16]
=============================================================================
