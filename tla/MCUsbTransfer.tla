--------------------------- MODULE MCUsbTransfer ----------------------------
(***************************************************************************)
(* Small instances of UsbTransfer.                                         *)
(***************************************************************************)
EXTENDS UsbTransfer

BothKinds == {"bulk", "control"}
BulkOnly == {"bulk"}
=============================================================================
