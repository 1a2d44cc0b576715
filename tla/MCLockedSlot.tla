---------------------------- MODULE MCLockedSlot ----------------------------
(* LockedSlot for TLC: three pool threads and two distinct stored values.  *)
EXTENDS LockedSlot, TLC

=============================================================================
