---------------------------- MODULE Subscription ----------------------------
(***************************************************************************)
(* One workspace's billing whole: checkouts and AutoPay over one           *)
(* subscription, one series of invoices and one ledger.                    *)
(***************************************************************************)
EXTENDS AutoPay, Checkout

Next == Tick \/ CheckoutNext \/ AutoPayNext
Spec == Init /\ [][Next]_vars

FirstReport(i) == \E k \in DOMAIN charges[i] : ~charges[i][k].told /\ ChargeReported(i, k)

\* The gateway repeats a report until it is heard, the job runs every hour, a
\* transaction begun is finished, and a debit that is due is made or refused.
Fairness ==
  /\ SF_vars(Tick)
  /\ WF_vars(SettleHeld) /\ WF_vars(FailOrder)
  /\ \A i \in Numbers :
       /\ WF_vars(ApplyPaidOrder(i))
       /\ WF_vars(FirstReport(i))
       /\ WF_vars(FindRetry(i))
       /\ WF_vars(\E k \in DOMAIN charges[i] : BankDebits(i, k))
  /\ WF_vars(FindDue) /\ WF_vars(RaiseRenewal) /\ WF_vars(ClaimRetry)
  /\ WF_vars(ChargeInvoice) /\ WF_vars(ChargeRefused)
FairSpec == Spec /\ Fairness
----------------------------------------------------------------------------
Tenants == [ status : {"trial", "pending_payment", "active", "past_due"}, plan : Plans ]
Subscriptions ==
  [ status : {"trialing", "active", "past_due", "cancelling"}, plan : Plans,
    start : Nat, end : Nat, renewal : Numbers \cup {NoInvoice},
    cancelled : BOOLEAN, minutes : Nat, overtaken : BOOLEAN ]
Invoices == [ status : {"issued", "paid", "void"},
              kind : {"renewal", "activation", "top_up", "plan_change"},
              plan : Plans \cup {NoPlan}, from : Nat, until : Nat ]
Payments == [ status : {"none", "failed", "scheduled_retry", "captured"},
              retryAt : Nat \cup {Never} ]
Authorisations == [ state : {"none", "asked", "authorised", "refused", "ended"},
                    inv : Numbers \cup {NoInvoice}, took : BOOLEAN ]
Debits == [ state : {"accepted", "collected", "refused"}, told : BOOLEAN, on : Nat ]
Reads == [ doing : {"nothing", "settle_paid", "settle_failed", "fail_order"},
           inv : Numbers \cup {NoInvoice}, renewal : BOOLEAN, wake : BOOLEAN ]
Jobs == [ at : {"idle", "due", "retry", "charge", "recharge", "refused"},
          inv : Numbers \cup {NoInvoice}, plan : Plans \cup {NoPlan} ]

\* Every order at the gateway has its row, and every invoice its number.
TypeOK ==
  /\ today \in Nat
  /\ tenant \in Tenants
  /\ sub \in Subscriptions
  /\ invoices \in Seq(Invoices)
  /\ Len(invoices) <= MaxInvoices
  /\ payments \in [ Numbers -> Payments ]
  /\ orders \in [ Numbers -> {"none", "pending", "paid", "failed"} ]
  /\ page \in [ Numbers -> {"none", "open", "paid", "expired"} ]
  /\ methods \in [ Mandates -> {"none", "pending", "active", "failed", "revoked"} ]
  /\ bank \in [ Mandates -> Authorisations ]
  /\ charges \in [ Numbers -> Seq(Debits) ]
  /\ held \in Reads
  /\ job \in Jobs
  /\ \A i \in Numbers : page[i] = "none" \/ orders[i] # "none"

----------------------------------------------------------------------------
(* Safety.                                                                  *)

\* A period is never invoiced twice: not by a run that stopped half-way, not by the
\* next one, and not when the plan, the mandate or the cancellation change in between;
\* as long as no settlement writes the period of an invoice that another has settled
\* since it was read, which sets the subscription back by a month.
OnePeriodOneInvoice ==
  ~sub.overtaken =>
     \A i, j \in Issued :
        /\ i # j
        /\ invoices[i].kind = "renewal" /\ invoices[j].kind = "renewal"
        => invoices[i].from # invoices[j].from

\* A payment the ledger shows as captured belongs to an invoice that is paid, and a
\* renewal that is paid is no longer waited for; a failure is booked for a retry only
\* while the renewal it belongs to may still be paid.
LedgerAgrees ==
  /\ \A i \in Issued : payments[i].status = "captured" =>
                          invoices[i].status = "paid" /\ ~IsRenewal(i)
  /\ \A i \in Numbers : payments[i].retryAt # Never =>
       /\ payments[i].status = "failed"
       /\ payments[i].retryAt <= invoices[i].from + RetryDays
       /\ invoices[i].kind \in {"renewal", "activation"}

\* What was paid stays paid, whatever is reported, refused, expired or cancelled later.
PaidStands ==
  [][\A i \in Issued : invoices[i].status = "paid" => invoices'[i].status = "paid"]_vars

----------------------------------------------------------------------------
(* The promise: nothing granted before it is paid for, nothing granted     *)
(* twice, and whatever is paid for is granted.                              *)

Taken == { i \in Numbers : Takings(i) > 0 }
Granted == { i \in Issued : invoices[i].status = "paid" }
Packs == { i \in Issued : invoices[i].kind = "top_up" }

Promise == INSTANCE Purchases WITH
  Invoices <- Numbers, packs <- Packs, taken <- Taken, granted <- Granted, minutes <- sub.minutes
KeepsPromise == Promise!Spec

----------------------------------------------------------------------------
(* Liveness.                                                                *)

\* With no process stopping half-way, a renewal whose charge fails is charged again
\* until it is paid, given up or made void (or the bounds of the model are reached).
Resolved(i) == \/ ~IsOpen(i) \/ ~IsRenewal(i)
               \/ payments[i].status = "failed" /\ payments[i].retryAt = Never
OutOfBounds(i) == \/ Len(charges[i]) = MaxTries
                  \/ payments[i].retryAt > LastDay
                  \/ \E k \in DOMAIN charges[i] : charges[i][k].on > LastDay
FailuresResolve ==
  \A i \in Numbers :
     IsRenewal(i) /\ payments[i].status \in {"failed", "scheduled_retry"} ~>
        Resolved(i) \/ OutOfBounds(i)
=============================================================================
