------------------------------ MODULE MCMemory ------------------------------
(* The two memory managers on small heaps.  Of 160 bytes the free list has 136
   left, room for five of its smallest blocks; the buddy heap has eight blocks
   of eight bytes, so a pointer's alignment is not its block's level. *)
EXTENDS Memory
=============================================================================
