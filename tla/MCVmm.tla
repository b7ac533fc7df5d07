------------------------------- MODULE MCVmm -------------------------------
(* Vmm for TLC: the pages are those of the processes, and the processes are *)
(* interchangeable (the runs without liveness use that).                    *)
EXTENDS Vmm, TLC

MCPages == Procs \X (0 .. BlockSize - 1)
ProcSymmetry == Permutations(Procs)
=============================================================================
