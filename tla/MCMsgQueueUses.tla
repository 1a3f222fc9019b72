-------------------------- MODULE MCMsgQueueUses --------------------------
(***************************************************************************)
(* MsgQueue for TLC with two uses of a queue.  usbd receives without       *)
(* timeouts what handlers send to it (drivers/usb/device/core/core.c).     *)
(* hidd receives what the task usbd sends, to which handlers send in turn  *)
(* (drivers/usb/device/class/hid.c); here it also calls                    *)
(* msg_q_recv_timeout, which nobody in the tree does yet.                  *)
(***************************************************************************)
EXTENDS MCMsgQueue

VARIABLE use

ToUsbd == INSTANCE MsgQueue WITH
  QueueOwner <- {}, Sender <- {}, Timeouts <- {}, IsrSends <- TRUE
ToHidd == INSTANCE MsgQueue WITH
  QueueOwner <- {s}, Sender <- {s}, Timeouts <- {0, 1}, IsrSends <- FALSE

MCInit == MsgInit /\ use \in {"usbd", "hidd"}
MCNext ==
  /\ \/ use = "usbd" /\ ToUsbd!MsgNext
     \/ use = "hidd" /\ ToHidd!MsgNext
  /\ UNCHANGED use
MCSpec == MCInit /\ [][MCNext]_<<msgVars, use>>

=============================================================================
