------------------------------ MODULE MCTestMm ------------------------------
(* testmm on a heap of four buddy blocks, or on a free list. *)
EXTENDS TestMm
=============================================================================
