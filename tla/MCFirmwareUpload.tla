---------------------------- MODULE MCFirmwareUpload ----------------------------
(* FirmwareUpload on a small instance. *)
EXTENDS FirmwareUpload
=============================================================================
