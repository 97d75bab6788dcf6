--------------------------- MODULE MCHostSchedules --------------------------
(***************************************************************************)
(* Two hosts and three goroutines that run contracts and change schedules: *)
(* to a valid one, to one that lacks a field, to one with an opcode cost   *)
(* beyond 32 bits and to one whose cost is a multiple of 2^32.  The limit  *)
(* of 32 bits is scaled down.                                              *)
(***************************************************************************)
EXTENDS HostSchedules

MCGasMaps ==
    LET first == FillGasMap(1, 5) IN
    [first |-> first,
     dearer |-> FillGasMap(2, 7),
     incomplete |-> [first EXCEPT !.EthAPICost["Call"] = 0],
     truncated |-> [first EXCEPT !.WASMOpcodeCost[200] = Uint32Limit + 3],
     wrapped |-> [first EXCEPT !.WASMOpcodeCost[200] = 2 * Uint32Limit]]
=============================================================================
