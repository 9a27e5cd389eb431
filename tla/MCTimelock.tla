------------------------------ MODULE MCTimelock ------------------------------
(***************************************************************************)
(* One operator, one program and one buffer: what overlaps is the          *)
(* operator's own scripts, whose transactions land in any order.           *)
(***************************************************************************)
EXTENDS Timelock

CONSTANTS alice, prog, buf
===============================================================================
