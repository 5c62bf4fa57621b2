------------------------------ MODULE AutoPay ------------------------------
(***************************************************************************)
(* Renewals charged to a mandate: the paid sign-up, mandates and their     *)
(* reports, the hourly renewal run with its retries, and the settling of   *)
(* the charges the gateway reports back.  Reports are facts the gateway    *)
(* may repeat at any time: it sends one until it sees a 200, and then may  *)
(* send it again.                                                          *)
(***************************************************************************)
EXTENDS Billing

----------------------------------------------------------------------------
(* Mandates.                                                                *)

\* A mandate for later charges: the gateway first, then the pending row.
SetUpMandate(m) ==
  /\ MembersIn
  /\ m \notin Activations
  /\ methods[m] = "none"
  /\ methods' = [ methods EXCEPT ![m] = "pending" ]
  /\ bank' = [ bank EXCEPT ![m].state = "asked" ]
  /\ UNCHANGED << today, tenant, sub, invoices, payments, orders, page, charges, held, job >>

\* Turning AutoPay off: cancelled at the gateway, then the row is revoked.
RevokeMandate(m) ==
  /\ methods[m] \notin {"none", "revoked"}
  /\ methods' = [ methods EXCEPT ![m] = "revoked" ]
  /\ bank' = [ bank EXCEPT ![m].state = "ended" ]
  /\ UNCHANGED << today, tenant, sub, invoices, payments, orders, page, charges, held, job >>

\* The invoice a paid sign-up is to pay: the one waiting when its amount still
\* fits, otherwise a new one, the old being voided.
Activate(m, p) ==
  /\ m \in Activations
  /\ methods[m] = "none"
  /\ tenant.status = "pending_payment"
  /\ LET old == sub.renewal
         reuse == IsOpen(old) /\ invoices[old].plan = p
         first == NewInvoice("activation", p, today, NextPeriodEnd(today))
         due == IF reuse THEN old ELSE NextNumber
     IN /\ reuse \/ CanIssue
        /\ tenant' = [ tenant EXCEPT !.plan = p ]
        /\ sub' = [ sub EXCEPT !.plan = p, !.start = today,
                               !.end = NextPeriodEnd(today), !.renewal = due ]
        /\ invoices' = IF reuse THEN invoices
                       ELSE Append(IF IsOpen(old) THEN [ invoices EXCEPT ![old].status = "void" ]
                                                  ELSE invoices, first)
        /\ \/ /\ methods' = [ methods EXCEPT ![m] = "pending" ]
              /\ bank' = [ bank EXCEPT ![m].state = "asked", ![m].inv = due ]
           \/ /\ "gateway" \in Faults      \* createMandate throws, the invoice stands
              /\ UNCHANGED << methods, bank >>
  /\ UNCHANGED << today, payments, orders, page, charges, held, job >>

\* At the gateway: the customer authorises or refuses, or ends it later.
BankDecides(m) ==
  /\ bank[m].state = "asked"
  /\ \/ bank' = [ bank EXCEPT ![m].state = "authorised", ![m].took = m \in Activations ]
     \/ bank' = [ bank EXCEPT ![m].state = "refused" ]
  /\ UNCHANGED << today, dbVars, page, charges, held, job >>

BankEnds(m) ==
  /\ bank[m].state = "authorised"
  /\ bank' = [ bank EXCEPT ![m].state = "ended" ]
  /\ UNCHANGED << today, dbVars, page, charges, held, job >>

----------------------------------------------------------------------------
(* Settling what the gateway reports of an invoice.                         *)

\* What settleCharge reads first; an invoice paid or void needs nothing more.
Seen(i, doing) ==
  [ doing |-> doing, inv |-> i, renewal |-> IsRenewal(i),
    wake |-> tenant.status \in {"trial", "past_due", "pending_payment"} ]

\* A failed renewal is booked for tomorrow until the retry window is over.
RetryAt(i) ==
  IF IsRenewal(i) /\ today + 1 <= invoices[i].from + RetryDays THEN today + 1 ELSE Never

RecordFailure(i) ==
  /\ MarkPayment(i, "failed", RetryAt(i))
  /\ sub' = [ sub EXCEPT !.status = IF IsRenewal(i) /\ sub.end <= today THEN "past_due" ELSE @ ]

\* Mutation of RecordSuccess: the renewal goes on being waited for.
RecordSuccessAndWait(seen) ==
  /\ MarkInvoice(seen.inv, "paid")
  /\ MarkPayment(seen.inv, "captured", Never)
  /\ UNCHANGED << tenant, sub >>

\* The period the invoice was for becomes the current one.
RecordSuccess(seen) ==
  LET i == seen.inv IN
  /\ MarkInvoice(i, "paid")
  /\ MarkPayment(i, "captured", Never)
  /\ sub' = IF seen.renewal
            THEN [ sub EXCEPT !.start = invoices[i].from, !.end = invoices[i].until,
                              !.status = "active", !.renewal = NoInvoice,
                              !.overtaken = @ \/ sub.renewal # i ]
            ELSE sub
  /\ tenant' = [ tenant EXCEPT !.status = IF seen.renewal /\ seen.wake THEN "active" ELSE @ ]

Settle(seen) ==
  \/ seen.doing = "settle_paid" /\ RecordSuccess(seen)
  \/ seen.doing = "settle_failed" /\ RecordFailure(seen.inv) /\ UNCHANGED << tenant, invoices >>

Verdict(i, k) == CASE charges[i][k].state = "collected" -> "settle_paid"
                   [] charges[i][k].state = "refused" -> "settle_failed"
                   [] OTHER -> "nothing"

\* The webhook settles at once, or is overtaken between its read and its writes.
\* The gateway reports a charge until it is heard, and may report it again.
ChargeReported(i, k) ==
  /\ IsOpen(i)
  /\ Verdict(i, k) # "nothing"
  /\ charges' = [ charges EXCEPT ![i][k].told = TRUE ]
  /\ \/ Settle(Seen(i, Verdict(i, k))) /\ UNCHANGED held
     \/ /\ held = Nothing
        /\ held' = Seen(i, Verdict(i, k))
        /\ UNCHANGED << tenant, sub, invoices, payments >>
  /\ UNCHANGED << today, orders, methods, page, bank, job >>

SettleHeld ==
  /\ Settle(held)
  /\ held' = Nothing
  /\ UNCHANGED << today, orders, methods, gatewayVars, job >>

\* An authorised mandate.  An activation mandate has collected the first
\* month: whatever renewal is waiting is settled by it, at once or overtaken
\* between the read and the writes, and the row is marked after that.
MandateActive(m) ==
  /\ bank[m].state = "authorised"
  /\ methods[m] # "none"
  /\ \/ /\ m \in Activations /\ IsOpen(sub.renewal)
        /\ \/ /\ RecordSuccess(Seen(sub.renewal, "settle_paid"))
              /\ methods' = [ methods EXCEPT ![m] = "active" ]
              /\ UNCHANGED held
           \/ /\ held = Nothing
              /\ held' = Seen(sub.renewal, "settle_paid")
              /\ UNCHANGED << tenant, sub, invoices, payments, methods >>
     \/ /\ ~ (m \in Activations /\ IsOpen(sub.renewal))
        /\ methods[m] # "active"
        /\ methods' = [ methods EXCEPT ![m] = "active" ]
        /\ UNCHANGED << tenant, sub, invoices, payments, held >>
  /\ UNCHANGED << today, orders, gatewayVars, job >>

MandateOver(m) ==
  /\ bank[m].state \in {"ended", "refused"}
  /\ LET now == IF bank[m].state = "ended" THEN "revoked" ELSE "failed" IN
       /\ methods[m] \notin {"none", now}
       /\ methods' = [ methods EXCEPT ![m] = now ]
  /\ UNCHANGED << today, tenant, sub, invoices, payments, orders, gatewayVars, held, job >>

----------------------------------------------------------------------------
(* The renewal run.                                                         *)

Due ==
  /\ sub.status \in {"trialing", "active", "past_due"}
  /\ ~sub.cancelled
  /\ sub.renewal = NoInvoice
  /\ sub.end <= today + RenewAhead
  /\ HasActiveMandate

\* The due list is read first, with the plan the invoice will be made out for.
FindDue ==
  /\ job = JobIdle
  /\ Due
  /\ CanIssue
  /\ job' = [ JobIdle EXCEPT !.at = "due", !.plan = tenant.plan ]
  /\ UNCHANGED << today, dbVars, gatewayVars, held >>

\* Mutation of RaiseRenewal: the invoice is committed without its marker.
RaiseUnmarked ==
  /\ job.at = "due"
  /\ CanIssue
  /\ IssueInvoice("renewal", job.plan, sub.end, NextPeriodEnd(sub.end))
  /\ job' = [ job EXCEPT !.at = "charge", !.inv = NextNumber ]
  /\ UNCHANGED << today, tenant, sub, payments, orders, methods, gatewayVars, held >>

\* Only the marker is read again before the invoice is issued and marked.
RaiseRenewal ==
  /\ job.at = "due"
  /\ CanIssue
  /\ IF sub.renewal # NoInvoice
     THEN job' = JobIdle /\ UNCHANGED << sub, invoices >>
     ELSE /\ IssueInvoice("renewal", job.plan, sub.end, NextPeriodEnd(sub.end))
          /\ sub' = [ sub EXCEPT !.renewal = NextNumber ]
          /\ job' = [ job EXCEPT !.at = "charge", !.inv = NextNumber ]
  /\ UNCHANGED << today, tenant, payments, orders, methods, gatewayVars, held >>

Retriable(i) ==
  /\ payments[i].status = "failed"
  /\ payments[i].retryAt # Never /\ payments[i].retryAt <= today
  /\ IsOpen(i) /\ IsRenewal(i)

FindRetry(i) ==
  /\ job = JobIdle
  /\ Retriable(i)
  /\ Len(charges[i]) < MaxTries
  /\ job' = [ JobIdle EXCEPT !.at = "retry", !.inv = i ]
  /\ UNCHANGED << today, dbVars, gatewayVars, held >>

\* Claimed first, so that a second process sees it taken.
ClaimRetry ==
  /\ job.at = "retry"
  /\ IF payments[job.inv].status = "failed"
     THEN /\ MarkPayment(job.inv, "scheduled_retry", Never)
          /\ job' = [ job EXCEPT !.at = "recharge" ]
     ELSE job' = JobIdle /\ UNCHANGED payments
  /\ UNCHANGED << today, tenant, sub, invoices, orders, methods, gatewayVars, held >>

\* The earliest debit date a mandate allows: a day's notice, and for a first
\* charge never before the period it is for.
DebitDay(notBefore) == IF notBefore > today + 1 THEN notBefore ELSE today + 1
Sent(i) == [ state |-> "accepted", told |-> FALSE,
             on |-> DebitDay(IF job.at = "charge" THEN invoices[i].from ELSE today) ]

\* The gateway takes the charge and says so; takes it and the answer is lost;
\* or refuses it, as it does a mandate that has ended.
ChargeInvoice ==
  /\ job.at \in {"charge", "recharge"}
  /\ \/ /\ \E m \in Mandates : methods[m] = "active" /\ bank[m].state = "authorised"
        /\ charges' = [ charges EXCEPT ![job.inv] = Append(@, Sent(job.inv)) ]
        /\ \/ job' = JobIdle
           \/ "lost_answer" \in Faults /\ job' = [ job EXCEPT !.at = "refused" ]
     \/ /\ job' = [ job EXCEPT !.at = "refused" ]
        /\ \/ ~HasActiveMandate
           \/ \E m \in Mandates : methods[m] = "active" /\ bank[m].state # "authorised"
           \/ "gateway" \in Faults
        /\ UNCHANGED charges
  /\ UNCHANGED << today, dbVars, page, bank, held >>

\* Mutation of ChargeRefused: a refusal on the spot is only logged.
ChargeRefusedLogged ==
  /\ job.at = "refused"
  /\ job' = JobIdle
  /\ UNCHANGED << today, dbVars, gatewayVars, held >>

ChargeRefused ==
  /\ job.at = "refused"
  /\ RecordFailure(job.inv)
  /\ job' = JobIdle
  /\ UNCHANGED << today, tenant, invoices, orders, methods, gatewayVars, held >>

\* The process stops in the middle of a run.
Crash ==
  /\ "crash" \in Faults
  /\ job # JobIdle
  /\ job' = JobIdle
  /\ UNCHANGED << today, dbVars, gatewayVars, held >>

\* At the gateway: a charge is collected or refused on its day.
BankDebits(i, k) ==
  /\ k \in DOMAIN charges[i]
  /\ charges[i][k].state = "accepted"
  /\ charges[i][k].on <= today
  /\ \E s \in {"collected", "refused"} :
       charges' = [ charges EXCEPT ![i][k].state = s ]
  /\ UNCHANGED << today, dbVars, page, bank, held, job >>

----------------------------------------------------------------------------
(* Ending the subscription, and thinking better of it.                      *)

Cancel ==
  /\ MembersIn
  /\ ~sub.cancelled
  /\ sub' = [ sub EXCEPT !.status = "cancelling", !.cancelled = TRUE ]
  /\ UNCHANGED << today, tenant, invoices, payments, orders, methods, gatewayVars, held, job >>

\* Whatever the subscription's status was.
Uncancel ==
  /\ MembersIn
  /\ sub' = [ sub EXCEPT !.status = "active", !.cancelled = FALSE ]
  /\ UNCHANGED << today, tenant, invoices, payments, orders, methods, gatewayVars, held, job >>

----------------------------------------------------------------------------
Customer == \/ \E m \in Mandates : SetUpMandate(m) \/ RevokeMandate(m)
            \/ \E m \in Mandates, p \in Plans : Activate(m, p)
            \/ Cancel \/ Uncancel
Bank == \/ \E m \in Mandates : BankDecides(m) \/ BankEnds(m)
        \/ \E i \in Numbers : \E k \in DOMAIN charges[i] : BankDebits(i, k)
Reports == \/ \E i \in Numbers : \E k \in DOMAIN charges[i] : ChargeReported(i, k)
           \/ \E m \in Mandates : MandateActive(m) \/ MandateOver(m)
           \/ SettleHeld
Renewals == \/ FindDue \/ RaiseRenewal \/ ClaimRetry \/ ChargeInvoice \/ ChargeRefused \/ Crash
            \/ \E i \in Numbers : FindRetry(i)

AutoPayNext == Customer \/ Bank \/ Reports \/ Renewals
============================================================================
