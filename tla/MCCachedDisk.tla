---------------------------- MODULE MCCachedDisk ----------------------------
(* A small instance of CachedDisk for TLC: more blocks than cache entries. *)
EXTENDS CachedDisk, TLC

CONSTANT payload    \* the one block of data that is not zeros or garbage

=============================================================================
