---------------------------- MODULE MCKernelLog ----------------------------
(***************************************************************************)
(* Instance of KernelLog for TLC.                                          *)
(***************************************************************************)
EXTENDS KernelLog

CONSTANTS u, v   \* two tasks that log

MCByte == 0..MaxBytes

=============================================================================
