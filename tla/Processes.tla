----------------------------- MODULE Processes -----------------------------
(***************************************************************************)
(* The process objects, which message passing and the scheduler share.     *)
(***************************************************************************)

CONSTANTS Procs,  \* the process objects
          Root,   \* the process the kernel boots, which starts the others
          nil
=============================================================================
