----------------------------- MODULE PaymentsMC -----------------------------
(***************************************************************************)
(* A small instance of Payments for TLC.                                    *)
(***************************************************************************)
EXTENDS Payments

CONSTANTS pay1, pay2
=============================================================================
