-------------------------- MODULE MCCoremonProcess --------------------------
(* Bounds for CoremonProcess: the configurations give the values. *)
EXTENDS CoremonProcess
=============================================================================
