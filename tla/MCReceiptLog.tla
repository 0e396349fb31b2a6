---------------------------- MODULE MCReceiptLog ----------------------------
(* Small instances of ReceiptLog. *)
EXTENDS ReceiptLog

=============================================================================
