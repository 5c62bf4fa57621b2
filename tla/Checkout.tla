------------------------------ MODULE Checkout ------------------------------
(***************************************************************************)
(* Packs and plans paid there and then on the gateway's page.  The invoice *)
(* is issued when the page opens; what it buys is applied when the payment *)
(* is reported, by the webhook or by the check on return, in any order and *)
(* any number of times.                                                    *)
(***************************************************************************)
EXTENDS Billing

\* Mutation of StartCheckout: the page opens and no row remembers its order.
StartUnrecorded(kind, plan, from, until) ==
  /\ MembersIn
  /\ CanIssue
  /\ IssueInvoice(kind, plan, from, until)
  /\ page' = [ page EXCEPT ![NextNumber] = "open" ]
  /\ UNCHANGED << today, tenant, sub, payments, orders, methods, bank, charges, held, job >>

\* An invoice, an order at the gateway, then the order's row: the gateway may
\* refuse, which leaves the invoice alone.
StartCheckout(kind, plan, from, until) ==
  /\ MembersIn
  /\ CanIssue
  /\ IssueInvoice(kind, plan, from, until)
  /\ \/ /\ page' = [ page EXCEPT ![NextNumber] = "open" ]
        /\ orders' = [ orders EXCEPT ![NextNumber] = "pending" ]
     \/ "gateway" \in Faults /\ UNCHANGED << page, orders >>
  /\ UNCHANGED << today, tenant, sub, payments, methods, bank, charges, held, job >>

TopUp == StartCheckout("top_up", NoPlan, sub.start, sub.end)

\* A trial buys a whole month from today; an upgrade, what is left of the period.
OnTrial == tenant.status = "trial"
IsUpgrade(p) == ~OnTrial /\ p > tenant.plan
ToPay(p) == OnTrial \/ (IsUpgrade(p) /\ sub.end > sub.start /\ today < sub.end)

BuyPlan(p) ==
  /\ ToPay(p)
  /\ IF OnTrial THEN StartCheckout("plan_change", p, today, NextPeriodEnd(today))
                ELSE StartCheckout("plan_change", p, sub.start, sub.end)

\* A downgrade, or an upgrade with nothing left of the period to pay for, moves at once.
ChangePlan(p) ==
  /\ MembersIn
  /\ ~ToPay(p)
  /\ p # tenant.plan
  /\ sub' = [ sub EXCEPT !.plan = p ]
  /\ tenant' = [ tenant EXCEPT !.plan = p ]
  /\ UNCHANGED << today, invoices, payments, orders, methods, gatewayVars, held, job >>

\* At the gateway: the page is paid or expires; a payment begun before it
\* expired may still go through after.
PagePaid(i) ==
  /\ \/ page[i] = "open"
     \/ page[i] = "expired" /\ "late_payment" \in Faults
  /\ page' = [ page EXCEPT ![i] = "paid" ]
  /\ UNCHANGED << today, dbVars, bank, charges, held, job >>

PageExpires(i) ==
  /\ page[i] = "open"
  /\ page' = [ page EXCEPT ![i] = "expired" ]
  /\ UNCHANGED << today, dbVars, bank, charges, held, job >>

----------------------------------------------------------------------------
\* What was bought.  A trial's first month starts now; an upgrade keeps the period.
Bought(i) ==
  CASE invoices[i].kind = "top_up" ->
         sub' = [ sub EXCEPT !.minutes = @ + 1 ] /\ UNCHANGED tenant
    [] invoices[i].kind = "plan_change" ->
         /\ sub' = [ sub EXCEPT !.plan = invoices[i].plan, !.status = "active",
                                !.start = IF OnTrial THEN today ELSE @,
                                !.end = IF OnTrial THEN NextPeriodEnd(today) ELSE @ ]
         /\ tenant' = [ status |-> IF tenant.status \in {"trial", "past_due"} THEN "active"
                                   ELSE tenant.status,
                        plan |-> invoices[i].plan ]

\* Mutation of Claimable: an order is applied whatever it already is.
ClaimableAgain(i) == orders[i] # "none"

\* An order is claimed by whoever first finds it not paid.
Claimable(i) == orders[i] \in {"pending", "failed"}

ApplyPaidOrder(i) ==
  /\ page[i] = "paid"
  /\ Claimable(i)
  /\ orders' = [ orders EXCEPT ![i] = "paid" ]
  /\ MarkInvoice(i, "paid")
  /\ MarkPayment(i, "captured", Never)
  /\ Bought(i)
  /\ UNCHANGED << today, methods, gatewayVars, held, job >>

\* The check on return finds the order expired: the row is read, and marked
\* failed and its invoice void afterwards.
SyncOrder(i) ==
  /\ page[i] = "expired"
  /\ orders[i] = "pending"
  /\ held = Nothing
  /\ held' = [ Nothing EXCEPT !.doing = "fail_order", !.inv = i ]
  /\ UNCHANGED << today, dbVars, gatewayVars, job >>

\* Mutation of FailOrder: the invoice is made void whatever it has become.
FailOrderHard ==
  /\ held.doing = "fail_order"
  /\ orders' = [ orders EXCEPT ![held.inv] = "failed" ]
  /\ MarkInvoice(held.inv, "void")
  /\ held' = Nothing
  /\ UNCHANGED << today, tenant, sub, payments, methods, gatewayVars, job >>

FailOrder ==
  /\ held.doing = "fail_order"
  /\ orders' = [ orders EXCEPT ![held.inv] = "failed" ]
  /\ IF IsOpen(held.inv) THEN MarkInvoice(held.inv, "void") ELSE UNCHANGED invoices
  /\ held' = Nothing
  /\ UNCHANGED << today, tenant, sub, payments, methods, gatewayVars, job >>

CheckoutNext ==
  \/ TopUp
  \/ \E p \in Plans : BuyPlan(p) \/ ChangePlan(p)
  \/ \E i \in Numbers : PagePaid(i) \/ PageExpires(i) \/ ApplyPaidOrder(i) \/ SyncOrder(i)
  \/ FailOrder
============================================================================
