----------------------------- MODULE MCNetBoot -----------------------------
(* Values of the constants for model-checking NetBootSystem.               *)
EXTENDS NetBootSystem

MCBytes == 0 .. 4

MCBufSize == [b \in Buffers |-> IF b = "nbkernel" THEN 3 ELSE 1]

(* A kernel of three blocks and an EFI program of two.                     *)
MCFiles == {<<1, 2, 3>>, <<0, 4>>}

(* ... with one too small to boot and one too large for the buffer.        *)
MCAllFiles == MCFiles \cup {<<2>>, <<2, 3, 4, 1>>}

(* Two kernels of two blocks that differ in every byte.                    *)
MCShort == {<<1, 2>>, <<3, 4>>}

(* A kernel.                                                               *)
MCKernel == {<<1, 2, 3>>}

(* An EFI program.                                                         *)
MCProgram == {<<0, 4>>}
=============================================================================
