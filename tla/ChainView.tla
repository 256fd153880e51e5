------------------------------- MODULE ChainView -------------------------------
(***************************************************************************)
(* The controller's registers read as a state of DmaChain: what the        *)
(* refinement mappings of DmaCore and TinyDma share.  in_flight says that  *)
(* a transaction is on the bus, killed that a reset has cut the chain,     *)
(* desc is the descriptor last fetched.                                    *)
(***************************************************************************)
EXTENDS SysController, MemoryImage

VARIABLES in_flight, killed, desc

\* The state a stall resumes into stands for the stall.
owner == IF curr_state = "STALL" THEN stalled_state ELSE curr_state

\* The bytes still to move, the pending UPDATE included.
bytes_left ==
  IF \/ owner = "WRITE" /\ ~in_flight
     \/ curr_state = "UPDATE" /\ stalled_state # "UPDATE"
  THEN remaining - chunk ELSE remaining

after_tcd ==
  IF quit(task_ctrl_desc) = 1 THEN "idle"
  ELSE IF remaining = 0 THEN "fetch" ELSE "read"

after_write == IF bytes_left = 0 THEN "fetch" ELSE "read"

phase ==
  IF killed THEN "idle"
  ELSE [SYS_CTRL_IDLE |-> "idle",
        NEW_FETCH |-> "fetch",
        FETCH |-> IF in_flight THEN "fetch" ELSE after_tcd,
        NEW_OP |-> IF write_pending = 1 THEN "write" ELSE after_tcd,
        READ |-> IF in_flight THEN "read" ELSE "write",
        WRITE |-> IF in_flight THEN "write" ELSE after_write,
        UPDATE |-> after_write,
        STALL |-> "idle"][owner]          \* no stall resumes into a stall

fetching == owner = "FETCH" /\ in_flight

at ==
  IF phase = "idle" THEN [device |-> QSPI_PSRAM0, address |-> 0]
  ELSE IF phase = "fetch" /\ ~fetching
  THEN [device |-> next_tcd_device(task_ctrl_desc),
        address |-> WireAddr(next_tcd(task_ctrl_desc))]
  ELSE [device |-> active_fetch_device, address |-> WireAddr(active_fetch_addr)]

moved == IF phase \in {"read", "write"} THEN transfer_len(desc) - bytes_left ELSE 0

writing_out == phase = "write" /\ owner = "WRITE"
=============================================================================
