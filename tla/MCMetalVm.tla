------------------------------ MODULE MCMetalVm ------------------------------
(* The instance of MetalVm that TLC checks.                                 *)
EXTENDS MetalVm

MCParams == {<<"x">>}

\* The search stops where a condition of the properties is gone (the theorems of
\* MetalVmProofs go on).  The pools are followed while they are empty after an
\* error and with frames of an earlier run, with arrays alone in the shell, and
\* with arrays alone and in main in scopes below the second.
Telling ==
    /\ ~dipped /\ ~loose /\ ~uneven
    /\ error \/ stale > 0 => heap.in_use = {}
    /\ vm = "g_sage_shell_vm" => heap.in_use \subseteq Arrays
    /\ depth > 1 /\ heap.in_use # {} => heap.in_use = Arrays /\ mode = "main"
=============================================================================
