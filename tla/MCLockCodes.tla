---------------------------- MODULE MCLockCodes ----------------------------
(* LockCodes on locks of two slots.                                         *)
EXTENDS LockCodes
=============================================================================
