------------------------------ MODULE Purchases ------------------------------
(***************************************************************************)
(* What billing promises, with the webhooks, orders, mandates and runs     *)
(* left out: an invoice may be asked for money, what it is for is granted  *)
(* only after the money has been taken, once and for good, and money taken *)
(* is not kept for nothing.                                                *)
(***************************************************************************)
EXTENDS Naturals, FiniteSets

CONSTANTS Invoices

VARIABLES
  packs,     \* the invoices that are for a pack of minutes
  taken,     \* the invoices money was taken for
  granted,   \* the invoices whose purchase was handed over
  minutes    \* packs of minutes the workspace holds

vars == << packs, taken, granted, minutes >>

Init == packs = {} /\ taken = {} /\ granted = {} /\ minutes = 0

Sell(i) == /\ i \notin packs \cup taken
           /\ packs' = packs \cup {i}
           /\ UNCHANGED << taken, granted, minutes >>

Take(i) == /\ i \notin taken
           /\ taken' = taken \cup {i}
           /\ UNCHANGED << packs, granted, minutes >>

Grant(i) == /\ i \in taken \ granted
            /\ granted' = granted \cup {i}
            /\ minutes' = IF i \in packs THEN minutes + 1 ELSE minutes
            /\ UNCHANGED << packs, taken >>

Next == \E i \in Invoices : Sell(i) \/ Take(i) \/ Grant(i)

Safely == Init /\ [][Next]_vars
Spec == Safely /\ \A i \in Invoices : WF_vars(Grant(i))
=============================================================================
