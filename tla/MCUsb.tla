------------------------------- MODULE MCUsb -------------------------------
(***************************************************************************)
(* Instance of Usb for TLC.                                                *)
(***************************************************************************)
EXTENDS Usb

=============================================================================
