----------------------------- MODULE MCDiskRead -----------------------------
(* Small instance of DiskRead for TLC.  Sizes are in units where a sector, *)
(* the block granularity and a response chunk are 2 bytes and a read is at *)
(* most 4 bytes (two chunks).  Positions and Amounts contain one value for *)
(* every early return of lines 13-25: 1 and 3 are misaligned, 4 is sector  *)
(* 2, which overflows a 1-bit sector field, and 8 is too large and would   *)
(* wrap the 3-bit length field to 0 (line 57) if line 13 let it through.   *)
EXTENDS DiskRead

MCPositions == {0, 1, 2, 4}

MCAmounts == {0, 2, 3, 4, 8}
=============================================================================
