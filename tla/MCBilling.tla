----------------------------- MODULE MCBilling ------------------------------
(***************************************************************************)
(* Small instances of Subscription for TLC: months of five days, two plans, *)
(* one mandate of each kind, two invoices.                                 *)
(***************************************************************************)
EXTENDS Subscription

\* payments.ts:85 says of the key a charge carries: "Ours, so a retry cannot
\* double-charge."  No invoice is collected twice.
RetryCannotDoubleCharge == \A i \in Numbers : Takings(i) <= 1
=============================================================================
