------------------------ MODULE Subscription_proofs -------------------------
(***************************************************************************)
(* What Subscription keeps for every price, mandate, period, retry window  *)
(* and number of invoices: its types; a period is not invoiced twice; the  *)
(* ledger agrees with the invoices; what was paid stays paid; and, step by *)
(* step, what Purchases promises.                                          *)
(*                                                                         *)
(* That a period is invoiced once rests on an order among the renewals:    *)
(* the one waited for is the latest, every other lies before the end of    *)
(* the current period, and a new one begins at that end.  Two settlements  *)
(* of one charge would set the end back, and two moments must not disturb  *)
(* the order: a trial that buys a month, and a paid sign-up that starts    *)
(* again, move the end while no renewal has been settled (FirstMonths).    *)
(* The promise rests on what the gateway holds for each invoice (Clean).   *)
(***************************************************************************)
EXTENDS Subscription, TLAPS, SequenceTheorems, FiniteSetTheorems

RenewalsIn == { i \in Issued : invoices[i].kind = "renewal" }
OfOrders == {"top_up", "plan_change"}

\* Whatever names an invoice names one that was issued, and the invoice the
\* subscription waits for is open.
Marked ==
  sub.renewal # NoInvoice =>
     /\ IsOpen(sub.renewal)
     /\ invoices[sub.renewal].kind \in {"renewal", "activation"}
HeldNames ==
  held.doing # "nothing" =>
     /\ held.inv \in Issued
     /\ held.doing = "fail_order" => orders[held.inv] # "none"
JobNames == job.at \in {"retry", "charge", "recharge", "refused"} => job.inv \in Issued
ChargesName == \A i \in Numbers : charges[i] # << >> => i \in Issued
OrdersName ==
  \A i \in Numbers : orders[i] # "none" =>
     /\ i \in Issued
     /\ invoices[i].kind \in OfOrders
     /\ invoices[i].kind = "plan_change" => invoices[i].plan \in Plans
Named == Marked /\ HeldNames /\ JobNames /\ ChargesName /\ OrdersName

\* A settlement that has read but not written yet: if it is to renew, it is to wake
\* the workspace too, or that is done; if it is not, its invoice is not waited for.
LateReads ==
  held.doing \in {"settle_paid", "settle_failed"} =>
     /\ held.renewal => held.wake \/ tenant.status = "active"
     /\ ~held.renewal => sub.renewal # held.inv

\* Before the first month is paid for: a trial waits for its only renewal, a sign-up
\* for its activation and for no renewal.
OnTrialOnly == tenant.status = "trial" => RenewalsIn \subseteq {sub.renewal}
SigningUp ==
  tenant.status = "pending_payment" =>
     /\ RenewalsIn = {}
     /\ job.at # "due"
     /\ \A m \in Mandates : methods[m] # "none" =>
          m \in Activations /\ methods[m] # "active" /\ sub.renewal # NoInvoice
Activating ==
  sub.renewal # NoInvoice /\ invoices[sub.renewal].kind = "activation" =>
     tenant.status = "pending_payment"
FirstMonths ==
  tenant.status # "past_due" /\ OnTrialOnly /\ SigningUp /\ Activating

\* The order among the renewals.
AMonthEach == \A i \in RenewalsIn : invoices[i].until = invoices[i].from + Month
Distinct == \A i, j \in RenewalsIn : i # j => invoices[i].from # invoices[j].from
Behind ==
  \A i \in RenewalsIn \ {sub.renewal} :
     /\ invoices[i].from < sub.end
     /\ sub.renewal \in RenewalsIn => invoices[i].from < invoices[sub.renewal].from
Followed == AMonthEach /\ (~sub.overtaken => Distinct /\ Behind)

\* The ledger: what is captured is paid, and a retry is booked inside its window.
CapturedIsPaid == \A i \in Issued : payments[i].status = "captured" => invoices[i].status = "paid"
BookedInWindow ==
  \A i \in Numbers : payments[i].retryAt # Never =>
     /\ i \in Issued
     /\ payments[i].status = "failed"
     /\ payments[i].retryAt <= invoices[i].from + RetryDays
     /\ invoices[i].kind \in {"renewal", "activation"}
PaymentsName == \A i \in Numbers : payments[i].status # "none" => i \in Issued
Booked == CapturedIsPaid /\ BookedInWindow /\ PaymentsName

Inv == TypeOK /\ Named /\ LateReads /\ FirstMonths /\ Followed /\ Booked

\* What concerns neither the invoices nor the period and what it waits for.
Aside ==
  /\ invoices' = invoices /\ orders' = orders
  /\ tenant'.status = tenant.status
  /\ sub'.renewal = sub.renewal /\ sub'.end = sub.end /\ sub'.overtaken = sub.overtaken

-----------------------------------------------------------------------------
(* The series of invoices.                                                 *)

\* An invoice issued is the next of the series and changes no other.
LEMMA IssuingAppends ==
  ASSUME invoices \in Seq(Invoices), CanIssue, NEW e \in Invoices, invoices' = Append(invoices, e)
  PROVE  /\ invoices' \in Seq(Invoices) /\ Len(invoices') <= MaxInvoices
         /\ NextNumber \in Numbers /\ NextNumber \notin Issued
         /\ Issued' = Issued \cup {NextNumber}
         /\ invoices'[NextNumber] = e
         /\ \A i \in Issued : invoices'[i] = invoices[i]
  BY BillingAssumption DEF CanIssue, NextNumber, Numbers, Issued

\* A mark changes the status of one invoice and nothing else of any.
MarkedAs(t, s, i, status) ==
  /\ t \in Seq(Invoices) /\ Len(t) = Len(s) /\ DOMAIN t = DOMAIN s
  /\ \A j \in DOMAIN s : /\ t[j].kind = s[j].kind
                         /\ t[j].from = s[j].from
                         /\ t[j].until = s[j].until
                         /\ t[j].plan = s[j].plan
  /\ \A j \in DOMAIN s \ {i} : t[j] = s[j]
  /\ t[i].status = status

LEMMA Marking ==
  ASSUME NEW s \in Seq(Invoices), NEW i \in DOMAIN s, NEW status \in {"issued", "paid", "void"}
  PROVE  MarkedAs([ s EXCEPT ![i].status = status ], s, i, status)
  <1> DEFINE t == [ s EXCEPT ![i].status = status ]
  <1>1. s \in [ 1..Len(s) -> Invoices ] /\ DOMAIN s = 1..Len(s)
    OBVIOUS
  <1>2. [ s[i] EXCEPT !.status = status ] \in Invoices
    BY <1>1 DEF Invoices
  <1>3. t = [ s EXCEPT ![i] = [ s[i] EXCEPT !.status = status ] ]
    OBVIOUS
  <1> HIDE DEF t
  <1>4. t \in Seq(Invoices) /\ Len(t) = Len(s) /\ DOMAIN t = DOMAIN s
    BY <1>1, <1>2, <1>3
  <1>5. t[i] = [ s[i] EXCEPT !.status = status ] /\ \A j \in DOMAIN s \ {i} : t[j] = s[j]
    BY <1>1, <1>3
  <1>6. /\ t[i].kind = s[i].kind /\ t[i].from = s[i].from
        /\ t[i].until = s[i].until /\ t[i].plan = s[i].plan /\ t[i].status = status
    BY <1>1, <1>5 DEF Invoices
  <1> QED BY <1>4, <1>5, <1>6 DEF MarkedAs, t

LEMMA MarkingKeeps ==
  ASSUME invoices \in Seq(Invoices), NEW i \in Issued, NEW status \in {"issued", "paid", "void"},
         MarkInvoice(i, status)
  PROVE  /\ invoices' \in Seq(Invoices) /\ Len(invoices') = Len(invoices)
         /\ Issued' = Issued
         /\ \A j \in Issued : /\ invoices'[j].kind = invoices[j].kind
                              /\ invoices'[j].from = invoices[j].from
                              /\ invoices'[j].until = invoices[j].until
                              /\ invoices'[j].plan = invoices[j].plan
         /\ \A j \in Issued \ {i} : invoices'[j] = invoices[j]
         /\ invoices'[i].status = status
  <1>1. MarkedAs(invoices', invoices, i, status)
    BY Marking DEF MarkInvoice, Issued
  <1> QED BY <1>1 DEF MarkedAs, Issued

LEMMA IssuedNumbers ==
  ASSUME TypeOK  PROVE Issued \subseteq Numbers /\ \A i \in Issued : invoices[i] \in Invoices
  BY BillingAssumption DEF TypeOK, Issued, Numbers

-----------------------------------------------------------------------------
(* The steps aside.                                                        *)

\* A step aside keeps the invariant when what it changes keeps its own part.
LEMMA AsideKeeps ==
  ASSUME Inv, TypeOK', Aside,
         \/ held' = held
         \/ HeldNames' /\ LateReads',
         \/ job' = job
         \/ JobNames' /\ (job'.at = "due" => tenant.status # "pending_payment"),
         \/ charges' = charges
         \/ ChargesName',
         \/ payments' = payments
         \/ Booked',
         \/ methods' = methods
         \/ tenant.status # "pending_payment"
         \/ \A m \in Mandates : methods'[m] # "none" =>
              m \in Activations /\ methods'[m] # "active" /\ sub.renewal # NoInvoice
  PROVE  Inv'
  <1>1. Named'
    BY DEF Aside, Inv, Named, Marked, HeldNames, JobNames, ChargesName, OrdersName, IsOpen, Issued
  <1>2. LateReads'
    BY DEF Aside, Inv, LateReads
  <1>3. FirstMonths'
    BY DEF Aside, Inv, FirstMonths, OnTrialOnly, SigningUp, Activating, RenewalsIn, Issued
  <1>4. Followed'
    BY DEF Aside, Inv, Followed, AMonthEach, Distinct, Behind, RenewalsIn, Issued
  <1>5. Booked'
    BY DEF Aside, Inv, Booked, CapturedIsPaid, BookedInWindow, PaymentsName, Issued
  <1> QED BY <1>1, <1>2, <1>3, <1>4, <1>5 DEF Inv

\* A function whose values are sequences, an entry of one of them changed.
LEMMA EntryChanges ==
  ASSUME charges \in [ Numbers -> Seq(Debits) ], NEW i \in Numbers, NEW k \in DOMAIN charges[i],
         NEW e \in Debits
  PROVE  LET cs == [ charges EXCEPT ![i] = [ charges[i] EXCEPT ![k] = e ] ] IN
         /\ cs \in [ Numbers -> Seq(Debits) ]
         /\ \A j \in Numbers : cs[j] # << >> => charges[j] # << >>
  OBVIOUS

\* A day passes.
LEMMA TickKeeps ==
  ASSUME Inv, Tick  PROVE Inv'
  <1>1. TypeOK'
    BY BillingAssumption DEF Inv, TypeOK, Tick, dbVars, gatewayVars
  <1> QED BY <1>1, AsideKeeps DEF Tick, Aside, dbVars, gatewayVars

\* A mandate is only set up by a workspace that is in.
LEMMA SetUpKeeps ==
  ASSUME Inv, NEW m \in Mandates, SetUpMandate(m)  PROVE Inv'
  <1>1. TypeOK'
    BY BillingAssumption, ZenonT(60) DEF Inv, TypeOK, SetUpMandate, Authorisations
  <1> QED BY <1>1, AsideKeeps DEF SetUpMandate, MembersIn, Aside

\* A mandate that is over is not active.
LEMMA RevokeKeeps ==
  ASSUME Inv, NEW m \in Mandates, RevokeMandate(m)  PROVE Inv'
  <1>1. TypeOK'
    BY BillingAssumption, ZenonT(60) DEF Inv, TypeOK, RevokeMandate, Authorisations
  <1>2. \/ tenant.status # "pending_payment"
        \/ \A x \in Mandates : methods'[x] # "none" =>
             x \in Activations /\ methods'[x] # "active" /\ sub.renewal # NoInvoice
    BY DEF Inv, TypeOK, RevokeMandate, FirstMonths, SigningUp
  <1> QED BY <1>1, <1>2, AsideKeeps DEF RevokeMandate, Aside, dbVars, gatewayVars

LEMMA OverKeeps ==
  ASSUME Inv, NEW m \in Mandates, MandateOver(m)  PROVE Inv'
  <1>1. TypeOK'
    BY BillingAssumption DEF Inv, TypeOK, MandateOver, dbVars, gatewayVars
  <1>2. \/ tenant.status # "pending_payment"
        \/ \A x \in Mandates : methods'[x] # "none" =>
             x \in Activations /\ methods'[x] # "active" /\ sub.renewal # NoInvoice
    BY DEF Inv, TypeOK, MandateOver, FirstMonths, SigningUp
  <1> QED BY <1>1, <1>2, AsideKeeps DEF MandateOver, Aside, dbVars, gatewayVars

LEMMA DecidesKeeps ==
  ASSUME Inv, NEW m \in Mandates, BankDecides(m)  PROVE Inv'
  <1>1. PICK s \in {"authorised", "refused"}, b \in {bank[m].took, m \in Activations} :
          bank' = [ bank EXCEPT ![m] = [ bank[m] EXCEPT !.state = s, !.took = b ] ]
    <2>1. bank[m] \in Authorisations
      BY DEF Inv, TypeOK
    <2>2. [ bank[m] EXCEPT !.state = "refused" ] =
            [ bank[m] EXCEPT !.state = "refused", !.took = bank[m].took ]
      BY <2>1 DEF Authorisations
    <2> QED BY <2>1, <2>2 DEF BankDecides, Inv, TypeOK
  <1>2. bank[m] \in Authorisations /\ b \in BOOLEAN
    <2>1. bank[m] \in Authorisations
      BY DEF Inv, TypeOK
    <2>2. bank[m].took \in BOOLEAN /\ (m \in Activations) \in BOOLEAN
      BY <2>1 DEF Authorisations
    <2> QED BY <1>1, <2>1, <2>2, Zenon
  <1>3. [ bank[m] EXCEPT !.state = s, !.took = b ] \in Authorisations
    BY <1>2 DEF Authorisations
  <1>4. TypeOK'
    BY <1>1, <1>3 DEF Inv, TypeOK, BankDecides, dbVars
  <1> QED BY <1>4, AsideKeeps DEF BankDecides, Aside, dbVars

LEMMA EndsKeeps ==
  ASSUME Inv, NEW m \in Mandates, BankEnds(m)  PROVE Inv'
  <1>1. TypeOK'
    BY BillingAssumption, ZenonT(60) DEF Inv, TypeOK, BankEnds, dbVars, gatewayVars, Authorisations
  <1> QED BY <1>1, AsideKeeps DEF BankEnds, Aside, dbVars, gatewayVars

\* Nothing is due before the first month is paid: no mandate is active.
LEMMA FindDueKeeps ==
  ASSUME Inv, FindDue  PROVE Inv'
  <1>1. TypeOK'
    BY BillingAssumption DEF Inv, TypeOK, FindDue, JobIdle, Jobs, Tenants, NoInvoice, dbVars, gatewayVars
  <1>2. JobNames' /\ tenant.status # "pending_payment"
    BY DEF Inv, FindDue, Due, HasActiveMandate, JobNames, JobIdle, FirstMonths, SigningUp
  <1> QED BY <1>1, <1>2, AsideKeeps DEF FindDue, Aside, dbVars, gatewayVars

LEMMA FindRetryKeeps ==
  ASSUME Inv, NEW i \in Numbers, FindRetry(i)  PROVE Inv'
  <1>1. TypeOK'
    BY BillingAssumption DEF Inv, TypeOK, FindRetry, JobIdle, Jobs, NoInvoice, NoPlan, dbVars, gatewayVars
  <1>2. JobNames' /\ job'.at = "retry"
    BY DEF FindRetry, Retriable, IsOpen, Issued, JobNames, JobIdle, dbVars
  <1> QED BY <1>1, <1>2, AsideKeeps DEF FindRetry, Aside, dbVars, gatewayVars

LEMMA CrashKeeps ==
  ASSUME Inv, Crash  PROVE Inv'
  <1>1. TypeOK'
    BY BillingAssumption DEF Inv, TypeOK, Crash, JobIdle, Jobs, NoInvoice, NoPlan, dbVars, gatewayVars
  <1>2. JobNames' /\ job'.at = "idle"
    BY DEF Crash, JobNames, JobIdle
  <1> QED BY <1>1, <1>2, AsideKeeps DEF Crash, Aside, dbVars, gatewayVars

\* A debit is an entry of its charge changed.
LEMMA DebitsKeep ==
  ASSUME Inv, NEW i \in Numbers, NEW k \in DOMAIN charges[i], BankDebits(i, k)  PROVE Inv'
  <1>1. PICK s \in {"collected", "refused"} : charges' = [ charges EXCEPT ![i][k].state = s ]
    BY DEF BankDebits
  <1>2. \A d \in Debits : [ d EXCEPT !.state = s ] \in Debits
    BY DEF Debits
  <1>3. charges' \in [ Numbers -> Seq(Debits) ] /\ ChargesName'
    BY <1>1, <1>2, EntryChanges DEF Inv, TypeOK, Named, ChargesName, BankDebits, dbVars, Issued
  <1>4. TypeOK'
    BY <1>3 DEF Inv, TypeOK, BankDebits, dbVars
  <1> QED BY <1>3, <1>4, AsideKeeps DEF BankDebits, Aside, dbVars

LEMMA CancelKeeps ==
  ASSUME Inv, Cancel  PROVE Inv'
  <1>1. TypeOK'
    BY BillingAssumption DEF Inv, TypeOK, Cancel, Subscriptions, gatewayVars
  <1>2. Aside
    BY DEF Inv, TypeOK, Subscriptions, Cancel, Aside
  <1> QED BY <1>1, <1>2, AsideKeeps DEF Cancel, gatewayVars

LEMMA UncancelKeeps ==
  ASSUME Inv, Uncancel  PROVE Inv'
  <1>1. TypeOK'
    BY BillingAssumption DEF Inv, TypeOK, Uncancel, Subscriptions, gatewayVars
  <1>2. Aside
    BY DEF Inv, TypeOK, Subscriptions, Uncancel, Aside
  <1> QED BY <1>1, <1>2, AsideKeeps DEF Uncancel, gatewayVars

LEMMA PagePaidKeeps ==
  ASSUME Inv, NEW i \in Numbers, PagePaid(i)  PROVE Inv'
  <1>1. TypeOK'
    BY BillingAssumption DEF Inv, TypeOK, PagePaid, dbVars, gatewayVars
  <1> QED BY <1>1, AsideKeeps DEF PagePaid, Aside, dbVars, gatewayVars

LEMMA PageExpiresKeeps ==
  ASSUME Inv, NEW i \in Numbers, PageExpires(i)  PROVE Inv'
  <1>1. TypeOK'
    BY BillingAssumption DEF Inv, TypeOK, PageExpires, dbVars, gatewayVars
  <1> QED BY <1>1, AsideKeeps DEF PageExpires, Aside, dbVars, gatewayVars

LEMMA ChangePlanKeeps ==
  ASSUME Inv, NEW p \in Plans, ChangePlan(p)  PROVE Inv'
  <1>1. TypeOK'
    BY BillingAssumption DEF Inv, TypeOK, ChangePlan, Subscriptions, Tenants, gatewayVars
  <1>2. Aside
    BY DEF Inv, TypeOK, Subscriptions, Tenants, ChangePlan, Aside
  <1> QED BY <1>1, <1>2, AsideKeeps DEF ChangePlan, gatewayVars

\* A retry claimed is booked no longer.
LEMMA ClaimRetryKeeps ==
  ASSUME Inv, ClaimRetry  PROVE Inv'
  <1>1. CASE payments[job.inv].status = "failed"
    <2>1. job.inv \in Issued /\ job.inv \in Numbers
      BY IssuedNumbers DEF Inv, Named, JobNames, ClaimRetry
    <2>2. payments' = [ payments EXCEPT ![job.inv] = [ status |-> "scheduled_retry", retryAt |-> Never ] ]
      BY <1>1 DEF ClaimRetry, MarkPayment
    <2>3. TypeOK'
      BY <1>1, <2>1, <2>2 DEF Inv, TypeOK, ClaimRetry, Payments, Jobs, gatewayVars
    <2>4. Booked'
      BY <2>1, <2>2 DEF Inv, TypeOK, Booked, CapturedIsPaid, BookedInWindow, PaymentsName, ClaimRetry, Issued
    <2>5. JobNames' /\ job'.at = "recharge"
      BY <1>1, <2>1 DEF Inv, TypeOK, Jobs, JobNames, ClaimRetry, Issued
    <2> QED BY <2>3, <2>4, <2>5, AsideKeeps DEF ClaimRetry, Aside, gatewayVars
  <1>2. CASE payments[job.inv].status # "failed"
    <2>1. TypeOK'
      BY <1>2 DEF Inv, TypeOK, ClaimRetry, JobIdle, Jobs, NoInvoice, NoPlan, gatewayVars
    <2>2. JobNames' /\ job'.at = "idle" /\ payments' = payments
      BY <1>2 DEF JobNames, JobIdle, ClaimRetry
    <2> QED BY <2>1, <2>2, AsideKeeps DEF ClaimRetry, Aside, gatewayVars
  <1> QED BY <1>1, <1>2

\* A charge the gateway takes is one more for its invoice.
LEMMA ChargeKeeps ==
  ASSUME Inv, ChargeInvoice  PROVE Inv'
  <1>1. job.inv \in Issued /\ job.inv \in Numbers /\ invoices[job.inv].from \in Nat
    BY IssuedNumbers DEF Inv, Named, JobNames, ChargeInvoice, Invoices
  <1>2. Sent(job.inv) \in Debits
    BY <1>1 DEF Inv, TypeOK, Sent, DebitDay, Debits
  <1>3. charges' \in [ Numbers -> Seq(Debits) ] /\ ChargesName'
    <2>1. CASE charges' = charges
      BY <2>1 DEF Inv, TypeOK, Named, ChargesName, ChargeInvoice, dbVars, Issued
    <2>2. CASE charges' = [ charges EXCEPT ![job.inv] = Append(@, Sent(job.inv)) ]
      BY <1>1, <1>2, <2>2 DEF Inv, TypeOK, Named, ChargesName, ChargeInvoice, dbVars, Issued
    <2> QED BY <2>1, <2>2 DEF ChargeInvoice
  <1>4. job' = JobIdle \/ job' = [ job EXCEPT !.at = "refused" ]
    BY DEF ChargeInvoice
  <1>5. job' \in Jobs /\ JobNames' /\ job'.at # "due"
    <2>1. CASE job' = JobIdle
      BY <2>1 DEF Jobs, JobNames, JobIdle, NoInvoice, NoPlan
    <2>2. CASE job' = [ job EXCEPT !.at = "refused" ]
      <3>1. job' \in Jobs /\ job'.at = "refused" /\ job'.inv = job.inv
        BY <2>2 DEF Inv, TypeOK, Jobs
      <3> QED BY <1>1, <3>1 DEF JobNames, ChargeInvoice, dbVars, Issued
    <2> QED BY <1>3, <1>4, <2>1, <2>2
  <1>6. TypeOK'
    BY <1>3, <1>5 DEF Inv, TypeOK, ChargeInvoice, dbVars
  <1> QED BY <1>3, <1>5, <1>6, AsideKeeps DEF ChargeInvoice, Aside, dbVars

\* A failure is booked for a retry only inside the window of a renewal waited for.
LEMMA FailureKeeps ==
  ASSUME Inv, NEW i \in Issued, RecordFailure(i), invoices' = invoices
  PROVE  /\ sub' \in Subscriptions /\ sub'.renewal = sub.renewal /\ sub'.end = sub.end
         /\ sub'.overtaken = sub.overtaken
         /\ payments' \in [ Numbers -> Payments ]
         /\ Booked'
  <1>1. i \in Numbers /\ invoices[i] \in Invoices
    BY IssuedNumbers DEF Inv
  <1>2. /\ sub' \in Subscriptions /\ sub'.renewal = sub.renewal /\ sub'.end = sub.end
        /\ sub'.overtaken = sub.overtaken
    BY DEF Inv, TypeOK, RecordFailure, Subscriptions
  <1>3. RetryAt(i) \in Nat \cup {Never}
    BY DEF Inv, TypeOK, RetryAt
  <1>4. payments' = [ payments EXCEPT ![i] = [ status |-> "failed", retryAt |-> RetryAt(i) ] ]
    BY DEF RecordFailure, MarkPayment
  <1>5. payments' \in [ Numbers -> Payments ]
    BY <1>1, <1>3, <1>4 DEF Inv, TypeOK, Payments
  <1>6. RetryAt(i) # Never => /\ RetryAt(i) <= invoices[i].from + RetryDays
                             /\ invoices[i].kind \in {"renewal", "activation"}
    BY <1>1 DEF Inv, RetryAt, IsRenewal, Named, Marked, NoInvoice, Numbers
  <1>7. BookedInWindow' /\ CapturedIsPaid' /\ PaymentsName'
    BY <1>1, <1>4, <1>6 DEF Inv, TypeOK, Booked, BookedInWindow, CapturedIsPaid, PaymentsName, Issued
  <1> QED BY <1>2, <1>5, <1>7 DEF Booked

LEMMA RefusedKeeps ==
  ASSUME Inv, ChargeRefused  PROVE Inv'
  <1>1. job.inv \in Issued
    BY DEF Inv, Named, JobNames, ChargeRefused
  <1>2. job' \in Jobs /\ JobNames' /\ job'.at = "idle"
    BY DEF Jobs, JobIdle, JobNames, NoInvoice, NoPlan, ChargeRefused
  <1>3. TypeOK'
    BY <1>1, <1>2, FailureKeeps DEF Inv, TypeOK, ChargeRefused, gatewayVars
  <1> QED BY <1>1, <1>2, <1>3, FailureKeeps, AsideKeeps DEF ChargeRefused, Aside, gatewayVars

\* The order looked at is one whose invoice was issued for it.
LEMMA SyncKeeps ==
  ASSUME Inv, NEW i \in Numbers, SyncOrder(i)  PROVE Inv'
  <1>1. TypeOK'
    BY BillingAssumption DEF Inv, TypeOK, SyncOrder, Nothing, Reads, NoInvoice, dbVars, gatewayVars
  <1>2. HeldNames' /\ LateReads'
    BY DEF Inv, SyncOrder, Named, OrdersName, HeldNames, LateReads, Nothing, Issued, dbVars
  <1> QED BY <1>1, <1>2, AsideKeeps DEF SyncOrder, Aside, dbVars, gatewayVars

-----------------------------------------------------------------------------
(* Settling.                                                               *)

\* What a settlement leaves of the invariant, whoever reported the charge.
Settlement ==
  /\ tenant' \in Tenants /\ sub' \in Subscriptions
  /\ invoices' \in Seq(Invoices) /\ Len(invoices') <= MaxInvoices
  /\ payments' \in [ Numbers -> Payments ]
  /\ Issued' = Issued
  /\ \A j \in Issued : /\ invoices'[j].kind = invoices[j].kind
                       /\ invoices'[j].plan = invoices[j].plan
                       /\ invoices'[j].status \in {invoices[j].status, "paid"}
  /\ tenant'.status \in {tenant.status, "active"}
  /\ sub'.renewal = sub.renewal \/ (sub'.renewal = NoInvoice /\ tenant'.status = "active")
  /\ Marked' /\ OnTrialOnly' /\ Activating' /\ Followed' /\ Booked'

\* A failure reported is booked, and settles nothing.
LEMMA FailureSettles ==
  ASSUME Inv, NEW i \in Issued, RecordFailure(i), UNCHANGED << tenant, invoices >>
  PROVE  Settlement
  <1>1. /\ sub' \in Subscriptions /\ sub'.renewal = sub.renewal /\ sub'.end = sub.end
        /\ sub'.overtaken = sub.overtaken
        /\ payments' \in [ Numbers -> Payments ]
        /\ Booked'
    BY FailureKeeps
  <1>2. Marked' /\ OnTrialOnly' /\ Activating'
    BY <1>1 DEF Inv, Named, FirstMonths, Marked, OnTrialOnly, Activating, RenewalsIn, IsOpen, Issued
  <1>3. Followed'
    BY <1>1 DEF Inv, Followed, AMonthEach, Distinct, Behind, RenewalsIn, Issued
  <1> QED BY <1>1, <1>2, <1>3 DEF Settlement, Inv, TypeOK, Issued

\* A success makes the invoice paid.  When it is the renewal waited for, its month
\* becomes the current one and every renewal lies behind the new end.
LEMMA SuccessSettles ==
  ASSUME Inv, NEW seen \in Reads, seen.inv \in Issued, RecordSuccess(seen),
         seen.renewal => seen.wake \/ tenant.status = "active",
         ~seen.renewal => sub.renewal # seen.inv
  PROVE  Settlement /\ (seen.renewal => sub'.renewal = NoInvoice /\ tenant'.status = "active")
  <1> DEFINE i == seen.inv
  <1>1. /\ invoices' \in Seq(Invoices) /\ Len(invoices') = Len(invoices) /\ Issued' = Issued
        /\ \A j \in Issued : /\ invoices'[j].kind = invoices[j].kind
                             /\ invoices'[j].from = invoices[j].from
                             /\ invoices'[j].until = invoices[j].until
                             /\ invoices'[j].plan = invoices[j].plan
        /\ \A j \in Issued \ {i} : invoices'[j] = invoices[j]
        /\ invoices'[i].status = "paid"
    BY MarkingKeeps DEF RecordSuccess, Inv, TypeOK
  <1>2. i \in Numbers /\ invoices[i] \in Invoices /\ invoices[i].from \in Nat /\ invoices[i].until \in Nat
    BY IssuedNumbers DEF Inv, Invoices
  <1>3. payments' = [ payments EXCEPT ![i] = [ status |-> "captured", retryAt |-> Never ] ]
    BY DEF RecordSuccess, MarkPayment
  <1>4. payments' \in [ Numbers -> Payments ] /\ Booked'
    <2>1. payments' \in [ Numbers -> Payments ]
      BY <1>2, <1>3 DEF Inv, TypeOK, Payments
    <2>2. CapturedIsPaid'
      BY <1>1, <1>2, <1>3, IssuedNumbers DEF Inv, TypeOK, Booked, CapturedIsPaid
    <2>3. BookedInWindow' /\ PaymentsName'
      <3>1. /\ payments'[i].status = "captured" /\ payments'[i].retryAt = Never
            /\ \A j \in Numbers \ {i} : payments'[j] = payments[j]
        BY <1>2, <1>3 DEF Inv, TypeOK
      <3> QED BY <1>1, <1>2, <3>1 DEF Inv, Booked, BookedInWindow, PaymentsName
    <2> QED BY <2>1, <2>2, <2>3 DEF Booked
  <1>5. RenewalsIn' = RenewalsIn
    BY <1>1 DEF RenewalsIn
  <1>6. AMonthEach'
    BY <1>1, <1>5 DEF Inv, Followed, AMonthEach, RenewalsIn
  <1>7. CASE ~seen.renewal
    <2>1. sub' = sub /\ tenant'.status = tenant.status /\ tenant' \in Tenants
      BY <1>7 DEF RecordSuccess, Inv, TypeOK, Tenants
    <2>2. Marked'
      BY <1>1, <1>7, <2>1 DEF Inv, Named, Marked, IsOpen
    <2>3. OnTrialOnly' /\ Activating'
      BY <1>1, <1>5, <2>1 DEF Inv, Named, Marked, FirstMonths, OnTrialOnly, Activating, IsOpen
    <2>4. (~sub.overtaken => Distinct /\ Behind)'
      BY <1>1, <1>5, <2>1 DEF Inv, Followed, Distinct, Behind, RenewalsIn
    <2> QED BY <1>1, <1>4, <1>6, <1>7, <2>1, <2>2, <2>3, <2>4
            DEF Settlement, Followed, Inv, TypeOK, Invoices
  <1>8. CASE seen.renewal
    <2>1. /\ sub' \in Subscriptions
          /\ sub'.renewal = NoInvoice /\ sub'.end = invoices[i].until
          /\ sub'.overtaken = (sub.overtaken \/ sub.renewal # i)
      <3>1. /\ sub' = [ sub EXCEPT !.start = invoices[i].from, !.end = invoices[i].until,
                         !.status = "active", !.renewal = NoInvoice,
                         !.overtaken = sub.overtaken \/ sub.renewal # i ]
            /\ sub \in Subscriptions
        BY <1>8 DEF RecordSuccess, Inv, TypeOK
      <3> DEFINE o == sub.overtaken \/ sub.renewal # i
      <3>2. o \in BOOLEAN
        OBVIOUS
      <3> HIDE DEF o
      <3> QED BY <1>2, <3>1, <3>2 DEF Subscriptions, o
    <2>2. tenant'.status = "active" /\ tenant' \in Tenants
      BY <1>8 DEF RecordSuccess, Inv, TypeOK, Tenants
    <2>3. Marked' /\ OnTrialOnly' /\ Activating'
      BY <2>1, <2>2 DEF Marked, OnTrialOnly, Activating
    <2>4. ~sub'.overtaken => Distinct' /\ Behind'
      <3>1. SUFFICES ASSUME ~sub.overtaken, sub.renewal = i  PROVE Distinct' /\ Behind'
        BY <2>1
      <3>2. Distinct'
        BY <1>1, <1>5, <3>1 DEF Inv, Followed, Distinct, RenewalsIn
      <3>3. \A j \in RenewalsIn : invoices[j].from < invoices[i].until
        <4>1. CASE invoices[i].kind = "renewal"
          <5>1. i \in RenewalsIn /\ invoices[i].until = invoices[i].from + Month
            BY <4>1 DEF RenewalsIn, Inv, Followed, AMonthEach
          <5>2. \A j \in RenewalsIn \ {i} : invoices[j].from < invoices[i].from
            BY <3>1, <5>1 DEF Inv, Followed, Behind
          <5>3. \A j \in RenewalsIn : invoices[j].from \in Nat
            BY IssuedNumbers DEF Inv, RenewalsIn, Invoices
          <5> QED BY <1>2, <5>1, <5>2, <5>3, BillingAssumption
        <4>2. CASE invoices[i].kind # "renewal"
          BY <1>2, <3>1, <4>2 DEF Inv, Named, Marked, FirstMonths, SigningUp, Activating, NoInvoice, Numbers
        <4> QED BY <4>1, <4>2
      <3>4. Behind'
        BY <1>1, <1>5, <2>1, <3>3, IssuedNumbers DEF Inv, Behind, RenewalsIn, NoInvoice, Numbers
      <3> QED BY <3>2, <3>4
    <2> QED BY <1>1, <1>4, <1>6, <1>8, <2>1, <2>2, <2>3, <2>4 DEF Settlement, Followed, Inv, TypeOK, Invoices
  <1> QED BY <1>7, <1>8 DEF Reads

\* Whoever settles keeps the invariant when the rest of what it changes keeps its part.
LEMMA SettlementKeeps ==
  ASSUME Inv, Settlement, TypeOK', orders' = orders, job' = job, ChargesName',
         \/ held' \in {held, Nothing}
         \/ held' = held,
         \A m \in Mandates : methods'[m] # "none" => methods[m] # "none",
         \/ methods' = methods
         \/ tenant'.status # "pending_payment"
  PROVE  Inv'
  <1>1. HeldNames' /\ JobNames' /\ OrdersName'
    BY DEF Inv, Named, HeldNames, JobNames, OrdersName, Settlement, Nothing
  <1>2. LateReads'
    BY IssuedNumbers DEF Inv, Named, HeldNames, LateReads, Settlement, Nothing, NoInvoice, Numbers
  <1>3. RenewalsIn' = RenewalsIn
    BY DEF Settlement, RenewalsIn
  <1>4. SigningUp'
    BY <1>3 DEF Inv, FirstMonths, SigningUp, Settlement
  <1>5. tenant'.status # "past_due"
    BY DEF Inv, FirstMonths, Settlement
  <1> QED BY <1>1, <1>2, <1>4, <1>5 DEF Inv, Settlement, Named, FirstMonths

\* What settleCharge has just read agrees with the database.
LEMMA ReadAfresh ==
  ASSUME Inv, NEW i \in Issued, NEW doing \in {"settle_paid", "settle_failed", "nothing"}
  PROVE  /\ Seen(i, doing) \in Reads /\ Seen(i, doing).inv = i /\ Seen(i, doing).doing = doing
         /\ Seen(i, doing).renewal => Seen(i, doing).wake \/ tenant.status = "active"
         /\ ~Seen(i, doing).renewal => sub.renewal # i
  <1>1. i \in Numbers /\ tenant.status \in {"trial", "pending_payment", "active"}
    BY IssuedNumbers DEF Inv, TypeOK, FirstMonths, Tenants
  <1>2. IsRenewal(i) \in BOOLEAN /\ (tenant.status \in {"trial", "past_due", "pending_payment"}) \in BOOLEAN
    BY DEF IsRenewal
  <1>3. Seen(i, doing) \in Reads
    BY <1>1, <1>2, Zenon DEF Seen, Reads
  <1> QED BY <1>1, <1>3 DEF Seen, IsRenewal

LEMMA SettlingSettles ==
  ASSUME Inv, NEW seen \in Reads, seen.inv \in Issued, Settle(seen),
         seen.renewal => seen.wake \/ tenant.status = "active",
         ~seen.renewal => sub.renewal # seen.inv
  PROVE  Settlement
  BY FailureSettles, SuccessSettles DEF Settle

LEMMA ReportKeeps ==
  ASSUME Inv, NEW i \in Numbers, NEW k \in DOMAIN charges[i], ChargeReported(i, k)  PROVE Inv'
  <1> DEFINE v == Verdict(i, k)
  <1>1. i \in Issued /\ v \in {"settle_paid", "settle_failed"}
    BY DEF ChargeReported, IsOpen, Verdict
  <1> HIDE DEF v
  <1>2. /\ Seen(i, v) \in Reads /\ Seen(i, v).inv = i /\ Seen(i, v).doing = v
        /\ Seen(i, v).renewal => Seen(i, v).wake \/ tenant.status = "active"
        /\ ~Seen(i, v).renewal => sub.renewal # i
    BY <1>1, ReadAfresh
  <1>3. charges' \in [ Numbers -> Seq(Debits) ] /\ \A j \in Numbers : charges'[j] # << >> => charges[j] # << >>
    <2>1. charges[i][k] \in Debits
      BY DEF Inv, TypeOK
    <2>2. [ charges[i][k] EXCEPT !.told = TRUE ] \in Debits
      BY <2>1 DEF Debits
    <2> QED BY <2>2, EntryChanges DEF Inv, TypeOK, ChargeReported
  <1>4. CASE Settle(Seen(i, v)) /\ UNCHANGED held
    <2>1. Settlement
      BY <1>1, <1>2, <1>4, SettlingSettles
    <2>2. TypeOK'
      BY <1>3, <1>4, <2>1 DEF Inv, TypeOK, Settlement, ChargeReported
    <2>3. ChargesName'
      BY <1>3, <2>1 DEF Inv, Named, ChargesName, Settlement
    <2> QED BY <1>4, <2>1, <2>2, <2>3, SettlementKeeps DEF ChargeReported
  <1>5. CASE held' = Seen(i, v) /\ UNCHANGED << tenant, sub, invoices, payments >>
    <2>1. TypeOK'
      BY <1>2, <1>3, <1>5 DEF Inv, TypeOK, ChargeReported
    <2>2. HeldNames' /\ LateReads'
      BY <1>1, <1>2, <1>5 DEF HeldNames, LateReads, Issued
    <2>3. ChargesName'
      BY <1>3, <1>5 DEF Inv, Named, ChargesName, Issued
    <2> QED BY <1>5, <2>1, <2>2, <2>3, AsideKeeps DEF ChargeReported, Aside
  <1> QED BY <1>4, <1>5 DEF ChargeReported, v

LEMMA SettleHeldKeeps ==
  ASSUME Inv, SettleHeld  PROVE Inv'
  <1>1. held.doing \in {"settle_paid", "settle_failed"} /\ Settle(held) /\ held \in Reads
    BY DEF SettleHeld, Settle, Inv, TypeOK
  <1>2. Settlement
    BY <1>1, SettlingSettles DEF Inv, Named, HeldNames, LateReads
  <1>3. TypeOK'
    BY <1>2 DEF Inv, TypeOK, Settlement, SettleHeld, Nothing, Reads, NoInvoice, gatewayVars
  <1>4. ChargesName'
    BY <1>2 DEF Inv, Named, ChargesName, Settlement, SettleHeld, gatewayVars
  <1> QED BY <1>2, <1>3, <1>4, SettlementKeeps DEF SettleHeld

LEMMA MandateActiveKeeps ==
  ASSUME Inv, NEW m \in Mandates, MandateActive(m)  PROVE Inv'
  <1> DEFINE seen == Seen(sub.renewal, "settle_paid")
  <1>1. ASSUME m \in Activations, IsOpen(sub.renewal)
        PROVE  sub.renewal \in Issued /\ seen.renewal
    BY <1>1 DEF IsOpen, Seen, IsRenewal
  <1>2. ASSUME m \in Activations, IsOpen(sub.renewal), RecordSuccess(seen), UNCHANGED held,
               methods' = [ methods EXCEPT ![m] = "active" ]
        PROVE  Inv'
    <2>1. Settlement /\ tenant'.status = "active"
      BY <1>1, <1>2, ReadAfresh, SuccessSettles
    <2>2. TypeOK'
      BY <1>2, <2>1 DEF Inv, TypeOK, Settlement, MandateActive, gatewayVars
    <2>3. ChargesName'
      BY <2>1 DEF Inv, Named, ChargesName, Settlement, MandateActive, gatewayVars
    <2> QED BY <1>2, <2>1, <2>2, <2>3, SettlementKeeps DEF MandateActive, Inv, TypeOK
  <1>3. ASSUME m \in Activations, IsOpen(sub.renewal), held = Nothing, held' = seen,
               UNCHANGED << tenant, sub, invoices, payments, methods >>
        PROVE  Inv'
    <2>1. seen \in Reads /\ seen.inv = sub.renewal /\ seen.doing = "settle_paid"
          /\ seen.renewal /\ (seen.wake \/ tenant.status = "active")
      BY <1>1, <1>3, ReadAfresh
    <2> HIDE DEF seen
    <2>2. TypeOK'
      BY <1>3, <2>1 DEF Inv, TypeOK, MandateActive, gatewayVars
    <2>3. HeldNames' /\ LateReads'
      BY <1>1, <1>3, <2>1 DEF HeldNames, LateReads, Issued
    <2>4. ChargesName'
      BY <1>3 DEF Inv, Named, ChargesName, Issued, MandateActive, gatewayVars
    <2> QED BY <1>3, <2>2, <2>3, <2>4, AsideKeeps DEF MandateActive, Aside, gatewayVars
  <1>4. ASSUME ~ (m \in Activations /\ IsOpen(sub.renewal)),
               methods' = [ methods EXCEPT ![m] = "active" ],
               UNCHANGED << tenant, sub, invoices, payments, held >>
        PROVE  Inv'
    <2>1. TypeOK'
      BY <1>4 DEF Inv, TypeOK, MandateActive, gatewayVars
    <2>2. tenant.status # "pending_payment"
      BY <1>4 DEF Inv, Named, Marked, FirstMonths, SigningUp, MandateActive
    <2> QED BY <1>4, <2>1, <2>2, AsideKeeps DEF MandateActive, Aside, gatewayVars
  <1> QED BY <1>2, <1>3, <1>4 DEF MandateActive

-----------------------------------------------------------------------------
(* Issuing invoices.                                                       *)

\* What a checkout issues is no renewal, and nothing named its number before.
LEMMA CheckoutKeeps ==
  ASSUME Inv, NEW kind \in OfOrders, NEW plan \in Plans \cup {NoPlan},
         NEW from \in Nat, NEW until \in Nat, StartCheckout(kind, plan, from, until),
         kind = "plan_change" => plan \in Plans
  PROVE  Inv'
  <1> DEFINE e == NewInvoice(kind, plan, from, until)
  <1>1. e \in Invoices /\ e.kind \in OfOrders /\ (e.kind = "plan_change" => e.plan \in Plans)
    BY DEF NewInvoice, Invoices, OfOrders
  <1>2. invoices' = Append(invoices, e) /\ CanIssue /\ invoices \in Seq(Invoices)
    BY DEF StartCheckout, IssueInvoice, Inv, TypeOK
  <1> HIDE DEF e
  <1>3. /\ invoices' \in Seq(Invoices) /\ Len(invoices') <= MaxInvoices
        /\ NextNumber \in Numbers /\ NextNumber \notin Issued
        /\ Issued' = Issued \cup {NextNumber}
        /\ invoices'[NextNumber] = e
        /\ \A i \in Issued : invoices'[i] = invoices[i]
    BY <1>1, <1>2, IssuingAppends
  <1>4. TypeOK'
    BY <1>3 DEF Inv, TypeOK, StartCheckout
  <1>5. OrdersName'
    BY <1>1, <1>3 DEF Inv, TypeOK, Named, OrdersName, StartCheckout
  <1>6. Marked' /\ HeldNames' /\ JobNames' /\ ChargesName'
    <2>1. Marked' /\ JobNames' /\ ChargesName'
      BY <1>3 DEF Inv, Named, Marked, JobNames, ChargesName, IsOpen, StartCheckout
    <2>2. \A i \in Numbers : orders[i] # "none" => orders'[i] # "none"
      BY <1>3 DEF Inv, TypeOK, StartCheckout
    <2> QED BY <1>3, <2>1, <2>2, IssuedNumbers DEF Inv, Named, HeldNames, StartCheckout
  <1>7. LateReads'
    BY DEF Inv, LateReads, StartCheckout
  <1>8. RenewalsIn' = RenewalsIn
    BY <1>1, <1>3 DEF RenewalsIn, OfOrders
  <1>9. FirstMonths'
    BY <1>3, <1>8 DEF Inv, FirstMonths, OnTrialOnly, SigningUp, Activating, StartCheckout, Named, Marked, IsOpen
  <1>10. Followed'
    BY <1>3, <1>8 DEF Inv, Followed, AMonthEach, Distinct, Behind, RenewalsIn, StartCheckout
  <1>11. Booked'
    BY <1>3 DEF Inv, Booked, CapturedIsPaid, BookedInWindow, PaymentsName, StartCheckout
  <1> QED BY <1>4, <1>5, <1>6, <1>7, <1>9, <1>10, <1>11 DEF Inv, Named

LEMMA TopUpKeeps ==
  ASSUME Inv, TopUp  PROVE Inv'
  BY CheckoutKeeps DEF TopUp, Inv, TypeOK, Subscriptions, OfOrders

LEMMA BuyPlanKeeps ==
  ASSUME Inv, NEW p \in Plans, BuyPlan(p)  PROVE Inv'
  <1>1. /\ sub.start \in Nat /\ sub.end \in Nat
        /\ today \in Nat /\ NextPeriodEnd(today) \in Nat
        /\ "plan_change" \in OfOrders
    BY BillingAssumption DEF Inv, TypeOK, Subscriptions, NextPeriodEnd, OfOrders
  <1> QED BY <1>1, CheckoutKeeps DEF BuyPlan

LEMMA RenewalTerms ==
  ASSUME Inv
  PROVE  /\ sub.end \in Nat /\ NextPeriodEnd(sub.end) \in Nat
         /\ job.plan \in Plans \cup {NoPlan}
  BY BillingAssumption DEF Inv, TypeOK, Subscriptions, Jobs, NextPeriodEnd

\* A renewal begins where the period ends, after every other, and is waited for.
LEMMA RaiseKeeps ==
  ASSUME Inv, RaiseRenewal  PROVE Inv'
  <1>1. CASE sub.renewal # NoInvoice
    <2>1. TypeOK'
      BY <1>1 DEF Inv, TypeOK, RaiseRenewal, JobIdle, Jobs, NoInvoice, NoPlan, gatewayVars
    <2>2. JobNames' /\ job'.at = "idle"
      BY <1>1 DEF RaiseRenewal, JobIdle, JobNames
    <2> QED BY <1>1, <2>1, <2>2, AsideKeeps DEF RaiseRenewal, Aside, gatewayVars
  <1>2. CASE sub.renewal = NoInvoice
    <2> DEFINE e == NewInvoice("renewal", job.plan, sub.end, NextPeriodEnd(sub.end))
    <2>1. /\ sub.end \in Nat /\ NextPeriodEnd(sub.end) \in Nat /\ job.plan \in Plans \cup {NoPlan}
      BY RenewalTerms
    <2>2. /\ e \in Invoices /\ e.kind = "renewal" /\ e.status = "issued"
          /\ e.from = sub.end /\ e.until = sub.end + Month
      BY <2>1 DEF NewInvoice, Invoices, NextPeriodEnd
    <2>3. /\ invoices' = Append(invoices, e) /\ CanIssue /\ invoices \in Seq(Invoices)
      BY <1>2 DEF RaiseRenewal, IssueInvoice, Inv, TypeOK
    <2> HIDE DEF e
    <2>4. /\ invoices' \in Seq(Invoices) /\ Len(invoices') <= MaxInvoices
          /\ NextNumber \in Numbers /\ NextNumber \notin Issued
          /\ Issued' = Issued \cup {NextNumber}
          /\ invoices'[NextNumber] = e
          /\ \A i \in Issued : invoices'[i] = invoices[i]
      BY <2>2, <2>3, IssuingAppends
    <2>5. /\ sub' \in Subscriptions /\ sub'.renewal = NextNumber /\ sub'.end = sub.end
          /\ sub'.overtaken = sub.overtaken
      BY <1>2, <2>4, ZenonT(60) DEF RaiseRenewal, Inv, TypeOK, Subscriptions
    <2>6. job' \in Jobs /\ job'.at = "charge" /\ job'.inv = NextNumber
      BY <1>2, <2>4, ZenonT(60) DEF RaiseRenewal, Inv, TypeOK, Jobs
    <2>7. TypeOK'
      BY <1>2, <2>4, <2>5, <2>6 DEF Inv, TypeOK, RaiseRenewal, gatewayVars
    <2>8. Marked'
      BY <2>2, <2>4, <2>5 DEF Marked, IsOpen
    <2>9. HeldNames' /\ JobNames' /\ ChargesName' /\ OrdersName'
      BY <1>2, <2>4, <2>6 DEF Inv, Named, HeldNames, JobNames, ChargesName, OrdersName, RaiseRenewal, gatewayVars
    <2>10. LateReads'
      BY <1>2, <2>4, <2>5 DEF Inv, Named, HeldNames, LateReads, RaiseRenewal
    <2>11. RenewalsIn' = RenewalsIn \cup {NextNumber} /\ RenewalsIn \subseteq Issued
      BY <2>2, <2>4 DEF RenewalsIn
    <2>12. FirstMonths'
      <3>1. tenant' = tenant /\ tenant.status # "pending_payment"
        BY <1>2 DEF Inv, FirstMonths, SigningUp, RaiseRenewal
      <3>2. OnTrialOnly'
        BY <1>2, <2>5, <2>11, <3>1, IssuedNumbers DEF Inv, FirstMonths, OnTrialOnly, NoInvoice, Numbers
      <3> QED BY <2>2, <2>4, <2>5, <3>1, <3>2 DEF Inv, FirstMonths, SigningUp, Activating
    <2>13. AMonthEach'
      BY <2>2, <2>4, <2>11 DEF Inv, Followed, AMonthEach
    <2>14. ASSUME ~sub'.overtaken  PROVE Distinct' /\ Behind'
      <3>1. \A i \in RenewalsIn : invoices[i].from \in Nat /\ invoices[i].from < sub.end
        BY <1>2, <2>5, <2>11, <2>14, IssuedNumbers DEF Inv, Followed, Behind, NoInvoice, Numbers, Invoices
      <3>2. Distinct'
        BY <2>1, <2>2, <2>4, <2>5, <2>11, <2>14, <3>1 DEF Inv, Followed, Distinct
      <3>3. Behind'
        BY <2>2, <2>4, <2>5, <2>11, <3>1 DEF Behind
      <3> QED BY <3>2, <3>3
    <2>15. Booked'
      BY <1>2, <2>4 DEF Inv, Booked, CapturedIsPaid, BookedInWindow, PaymentsName, RaiseRenewal
    <2> QED BY <2>7, <2>8, <2>9, <2>10, <2>12, <2>13, <2>14, <2>15 DEF Inv, Named, Followed
  <1> QED BY <1>1, <1>2

-----------------------------------------------------------------------------
(* Orders paid and failed.                                                 *)

\* What an order buys moves the end of the period only on a trial, when no renewal
\* has been settled.
LEMMA PaidOrderKeeps ==
  ASSUME Inv, NEW i \in Numbers, ApplyPaidOrder(i)  PROVE Inv'
  <1>1. i \in Issued /\ invoices[i] \in Invoices /\ invoices[i].kind \in OfOrders
    BY IssuedNumbers DEF Inv, Named, OrdersName, ApplyPaidOrder, Claimable
  <1>2. /\ invoices' \in Seq(Invoices) /\ Len(invoices') = Len(invoices) /\ Issued' = Issued
        /\ \A j \in Issued : /\ invoices'[j].kind = invoices[j].kind
                             /\ invoices'[j].from = invoices[j].from
                             /\ invoices'[j].until = invoices[j].until
                             /\ invoices'[j].plan = invoices[j].plan
        /\ \A j \in Issued \ {i} : invoices'[j] = invoices[j]
        /\ invoices'[i].status = "paid"
    BY <1>1, MarkingKeeps DEF ApplyPaidOrder, Inv, TypeOK
  <1>3. payments' = [ payments EXCEPT ![i] = [ status |-> "captured", retryAt |-> Never ] ]
    BY DEF ApplyPaidOrder, MarkPayment
  <1>4. /\ tenant' \in Tenants /\ sub' \in Subscriptions
        /\ sub'.renewal = sub.renewal /\ sub'.overtaken = sub.overtaken
        /\ sub'.end = sub.end \/ tenant.status = "trial"
        /\ tenant'.status = tenant.status \/ (tenant'.status = "active" /\ tenant.status = "trial")
    <2>1. CASE invoices[i].kind = "top_up"
      <3>1. sub' = [ sub EXCEPT !.minutes = sub.minutes + 1 ] /\ tenant' = tenant
        BY <2>1 DEF ApplyPaidOrder, Bought
      <3>2. sub \in Subscriptions /\ tenant' \in Tenants
        BY <3>1 DEF Inv, TypeOK
      <3>3. sub' \in Subscriptions /\ sub'.renewal = sub.renewal /\ sub'.overtaken = sub.overtaken /\ sub'.end = sub.end
        BY <3>1, <3>2 DEF Subscriptions
      <3> QED BY <3>1, <3>2, <3>3
    <2>2. CASE invoices[i].kind = "plan_change"
      <3> DEFINE start == IF OnTrial THEN today ELSE sub.start
                 end == IF OnTrial THEN NextPeriodEnd(today) ELSE sub.end
                 plan == invoices[i].plan
      <3>1. /\ sub' = [ sub EXCEPT !.plan = plan, !.status = "active", !.start = start, !.end = end ]
            /\ tenant' = [ status |-> IF tenant.status \in {"trial", "past_due"} THEN "active"
                                      ELSE tenant.status, plan |-> plan ]
        BY <2>2 DEF ApplyPaidOrder, Bought
      <3>2. start \in Nat /\ end \in Nat /\ (end = sub.end \/ tenant.status = "trial")
        BY BillingAssumption DEF Inv, TypeOK, Subscriptions, NextPeriodEnd, OnTrial
      <3>3. plan \in Plans
        BY <1>1, <2>2 DEF Inv, Named, OrdersName, ApplyPaidOrder, Claimable
      <3> HIDE DEF start, end, plan
      <3>4. sub' \in Subscriptions /\ sub'.renewal = sub.renewal /\ sub'.overtaken = sub.overtaken /\ sub'.end = end
        BY <3>1, <3>2, <3>3 DEF Inv, TypeOK, Subscriptions
      <3>5. /\ tenant' \in Tenants
            /\ tenant'.status = tenant.status \/ (tenant'.status = "active" /\ tenant.status = "trial")
        BY <3>1, <3>3 DEF Inv, TypeOK, FirstMonths, Tenants
      <3> QED BY <3>2, <3>4, <3>5
    <2> QED BY <1>1, <2>1, <2>2 DEF OfOrders
  <1>5. TypeOK'
    BY <1>2, <1>3, <1>4 DEF Inv, TypeOK, Payments, ApplyPaidOrder, gatewayVars
  <1>6. Named'
    <2>1. Marked'
      BY <1>1, <1>2, <1>4 DEF Inv, Named, Marked, IsOpen, OfOrders
    <2>2. HeldNames' /\ JobNames' /\ ChargesName'
      BY <1>2 DEF Inv, Named, HeldNames, JobNames, ChargesName, ApplyPaidOrder, gatewayVars
    <2>3. OrdersName'
      BY <1>1, <1>2 DEF Inv, TypeOK, Named, OrdersName, ApplyPaidOrder
    <2> QED BY <2>1, <2>2, <2>3 DEF Named
  <1>7. LateReads'
    BY <1>4 DEF Inv, LateReads, ApplyPaidOrder
  <1>8. RenewalsIn' = RenewalsIn /\ RenewalsIn \subseteq Issued
    BY <1>2 DEF RenewalsIn
  <1>9. FirstMonths'
    BY <1>2, <1>4, <1>8 DEF Inv, FirstMonths, OnTrialOnly, SigningUp, Activating, Named, Marked, IsOpen, ApplyPaidOrder
  <1>10. Followed'
    <2>1. AMonthEach' /\ (~sub.overtaken => Distinct')
      BY <1>2, <1>8 DEF Inv, Followed, AMonthEach, Distinct
    <2>2. ~sub.overtaken => Behind'
      BY <1>2, <1>4, <1>8 DEF Inv, Followed, Behind, FirstMonths, OnTrialOnly
    <2> QED BY <1>4, <2>1, <2>2 DEF Followed
  <1>11. Booked'
    <2>1. /\ payments'[i].status = "captured" /\ payments'[i].retryAt = Never
          /\ \A j \in Numbers \ {i} : payments'[j] = payments[j]
      BY <1>3 DEF Inv, TypeOK
    <2>2. CapturedIsPaid'
      BY <1>1, <1>2, <2>1, IssuedNumbers DEF Inv, Booked, CapturedIsPaid
    <2>3. BookedInWindow' /\ PaymentsName'
      BY <1>1, <1>2, <2>1 DEF Inv, Booked, BookedInWindow, PaymentsName
    <2> QED BY <2>2, <2>3 DEF Booked
  <1> QED BY <1>5, <1>6, <1>7, <1>9, <1>10, <1>11 DEF Inv

\* An order that failed voids its invoice if that is still open.
LEMMA FailOrderKeeps ==
  ASSUME Inv, FailOrder  PROVE Inv'
  <1> DEFINE i == held.inv
  <1>1. i \in Issued /\ i \in Numbers /\ invoices[i].kind \in OfOrders
    BY IssuedNumbers DEF Inv, Named, HeldNames, OrdersName, FailOrder
  <1>2. /\ invoices' \in Seq(Invoices) /\ Len(invoices') = Len(invoices) /\ Issued' = Issued
        /\ \A j \in Issued : /\ invoices'[j].kind = invoices[j].kind
                             /\ invoices'[j].from = invoices[j].from
                             /\ invoices'[j].until = invoices[j].until
                             /\ invoices'[j].plan = invoices[j].plan
                             /\ invoices'[j].status = invoices[j].status \/ j = i
                             /\ invoices[j].status = "paid" => invoices'[j].status = "paid"
    <2>1. CASE IsOpen(i)
      <3>1. MarkInvoice(i, "void") /\ invoices[i].status = "issued"
        BY <2>1 DEF FailOrder, IsOpen
      <3> QED BY <1>1, <3>1, MarkingKeeps DEF Inv, TypeOK
    <2>2. CASE ~IsOpen(i)
      BY <2>2 DEF FailOrder, Inv, TypeOK, Issued
    <2> QED BY <2>1, <2>2
  <1>3. TypeOK'
    BY <1>2 DEF Inv, TypeOK, FailOrder, Nothing, Reads, NoInvoice, gatewayVars
  <1>4. Named'
    <2>1. Marked'
      BY <1>1, <1>2 DEF Inv, Named, Marked, IsOpen, OfOrders, FailOrder
    <2>2. HeldNames' /\ JobNames' /\ ChargesName'
      BY <1>2 DEF Inv, Named, HeldNames, JobNames, ChargesName, FailOrder, Nothing, gatewayVars
    <2>3. OrdersName'
      <3>1. \A j \in Numbers : orders'[j] # "none" => orders[j] # "none"
        BY DEF Inv, TypeOK, Named, HeldNames, FailOrder
      <3> QED BY <1>1, <1>2, <3>1 DEF Inv, Named, OrdersName
    <2> QED BY <2>1, <2>2, <2>3 DEF Named
  <1>5. LateReads'
    BY DEF LateReads, FailOrder, Nothing
  <1>6. RenewalsIn' = RenewalsIn /\ RenewalsIn \subseteq Issued
    BY <1>2 DEF RenewalsIn
  <1>7. FirstMonths'
    BY <1>2, <1>6 DEF Inv, FirstMonths, OnTrialOnly, SigningUp, Activating, Named, Marked, IsOpen, FailOrder
  <1>8. Followed'
    BY <1>2, <1>6 DEF Inv, Followed, AMonthEach, Distinct, Behind, FailOrder
  <1>9. Booked'
    BY <1>2 DEF Inv, Booked, CapturedIsPaid, BookedInWindow, PaymentsName, FailOrder
  <1> QED BY <1>3, <1>4, <1>5, <1>7, <1>8, <1>9 DEF Inv

-----------------------------------------------------------------------------
(* The paid sign-up.                                                       *)

\* What Activate does to the series: the invoice waiting serves again, or the next
\* one is issued and the one waiting, if any, made void.
LEMMA ActivateIssues ==
  ASSUME Inv, NEW m \in Mandates, NEW p \in Plans, Activate(m, p)
  PROVE  /\ invoices' \in Seq(Invoices) /\ Len(invoices') <= MaxInvoices
         /\ Issued \subseteq Issued'
         /\ \A j \in Issued : /\ invoices'[j].kind = invoices[j].kind
                              /\ invoices'[j].from = invoices[j].from
                              /\ invoices'[j].plan = invoices[j].plan
                              /\ invoices[j].status = "paid" => invoices'[j].status = "paid"
         /\ \A j \in Issued' \ Issued : invoices'[j].kind = "activation" /\ j \in Numbers
         /\ sub' \in Subscriptions
         /\ sub'.renewal \in Issued' /\ invoices'[sub'.renewal].status = "issued"
         /\ invoices'[sub'.renewal].kind = "activation"
         /\ sub'.renewal \in {sub.renewal} \cup (Issued' \ Issued)
  <1> DEFINE old == sub.renewal
             reuse == IsOpen(old) /\ invoices[old].plan = p
             first == NewInvoice("activation", p, today, NextPeriodEnd(today))
             due == IF reuse THEN old ELSE NextNumber
             voided == IF IsOpen(old) THEN [ invoices EXCEPT ![old].status = "void" ] ELSE invoices
  <1>1. /\ reuse \/ CanIssue
        /\ sub' = [ sub EXCEPT !.plan = p, !.start = today, !.end = NextPeriodEnd(today), !.renewal = due ]
        /\ invoices' = IF reuse THEN invoices ELSE Append(voided, first)
        /\ tenant.status = "pending_payment"
    BY DEF Activate
  <1>2. /\ today \in Nat /\ NextPeriodEnd(today) \in Nat
        /\ invoices \in Seq(Invoices) /\ Len(invoices) <= MaxInvoices
        /\ Issued = 1..Len(invoices)
    BY BillingAssumption DEF Inv, TypeOK, NextPeriodEnd, Issued
  <1>3. CASE reuse
    <2>1. due = old /\ invoices' = invoices /\ old \in Issued /\ old \in Numbers
      BY <1>1, <1>3, IssuedNumbers DEF IsOpen, Inv
    <2>2. sub' \in Subscriptions /\ sub'.renewal = old
      BY <1>1, <1>2, <2>1 DEF Inv, TypeOK, Subscriptions
    <2>3. invoices[old].kind = "activation" /\ invoices[old].status = "issued"
      BY <1>1, <1>3, <2>1, IssuedNumbers
         DEF Inv, Named, Marked, FirstMonths, SigningUp, RenewalsIn, IsOpen, NoInvoice, Numbers
    <2> QED BY <1>2, <2>1, <2>2, <2>3 DEF Issued
  <1>4. CASE ~reuse
    <2>1. /\ voided \in Seq(Invoices) /\ Len(voided) = Len(invoices)
          /\ \A j \in Issued : /\ voided[j].kind = invoices[j].kind
                               /\ voided[j].from = invoices[j].from
                               /\ voided[j].plan = invoices[j].plan
                               /\ invoices[j].status = "paid" => voided[j].status = "paid"
      <3>1. CASE IsOpen(old)
        <4>1. old \in DOMAIN invoices /\ voided = [ invoices EXCEPT ![old].status = "void" ]
              /\ invoices[old].status = "issued"
          BY <3>1 DEF IsOpen, Issued
        <4> HIDE DEF voided, old
        <4>2. MarkedAs(voided, invoices, old, "void")
          BY <1>2, <4>1, Marking
        <4> QED BY <4>1, <4>2 DEF MarkedAs, Issued
      <3>2. CASE ~IsOpen(old)
        BY <1>2, <3>2
      <3> QED BY <3>1, <3>2
    <2>2. first \in Invoices /\ first.kind = "activation" /\ first.status = "issued"
      BY <1>2 DEF NewInvoice, Invoices
    <2>3. invoices' = Append(voided, first) /\ due = NextNumber /\ Len(invoices) < MaxInvoices
      BY <1>1, <1>4 DEF CanIssue
    <2> HIDE DEF voided, first
    <2>4. /\ invoices' \in Seq(Invoices) /\ Len(invoices') = Len(invoices) + 1
          /\ \A j \in 1..Len(invoices) : invoices'[j] = voided[j]
          /\ invoices'[Len(invoices) + 1] = first
      BY <1>2, <2>1, <2>2, <2>3
    <2>5. /\ Issued' = 1..(Len(invoices) + 1) /\ NextNumber = Len(invoices) + 1
          /\ NextNumber \in Numbers /\ Len(invoices) \in Nat
      BY <1>2, <2>3, <2>4, BillingAssumption DEF Issued, NextNumber, Numbers
    <2>6. sub' \in Subscriptions /\ sub'.renewal = NextNumber
      BY <1>1, <1>2, <2>3, <2>5 DEF Inv, TypeOK, Subscriptions
    <2> QED BY <1>2, <2>1, <2>2, <2>3, <2>4, <2>5, <2>6, BillingAssumption
  <1> QED BY <1>3, <1>4

\* A sign-up that starts again moves the end while there is no renewal to come after.
LEMMA ActivateKeeps ==
  ASSUME Inv, NEW m \in Mandates, NEW p \in Plans, Activate(m, p)  PROVE Inv'
  <1>1. /\ m \in Activations /\ tenant.status = "pending_payment"
        /\ tenant' \in Tenants /\ tenant'.status = "pending_payment"
        /\ UNCHANGED << today, payments, orders, page, charges, held, job >>
    BY DEF Activate, Inv, TypeOK, Tenants
  <1>2. /\ methods' \in [ Mandates -> {"none", "pending", "active", "failed", "revoked"} ]
        /\ \A x \in Mandates : methods'[x] = methods[x] \/ (x = m /\ methods'[x] = "pending")
    BY DEF Activate, Inv, TypeOK
  <1>3. sub'.renewal \in Numbers /\ sub'.renewal # NoInvoice
    BY ActivateIssues, BillingAssumption DEF Issued, Numbers, NoInvoice
  <1>4. bank' \in [ Mandates -> Authorisations ]
    <2>1. CASE bank' = bank
      BY <2>1 DEF Inv, TypeOK
    <2>2. CASE bank' = [ bank EXCEPT ![m] = [ bank[m] EXCEPT !.state = "asked", !.inv = sub'.renewal ] ]
      <3>1. [ bank[m] EXCEPT !.state = "asked", !.inv = sub'.renewal ] \in Authorisations
        BY <1>3, ZenonT(60) DEF Inv, TypeOK, Authorisations
      <3> QED BY <2>2, <3>1 DEF Inv, TypeOK
    <2> QED BY <2>1, <2>2 DEF Activate, Inv, TypeOK, Subscriptions
  <1>5. TypeOK'
    BY <1>1, <1>2, <1>4, ActivateIssues DEF Inv, TypeOK
  <1>6. RenewalsIn = {} /\ RenewalsIn' = {}
    BY <1>1, ActivateIssues DEF Inv, FirstMonths, SigningUp, RenewalsIn
  <1>7. Named'
    BY <1>1, ActivateIssues DEF Inv, Named, Marked, HeldNames, JobNames, ChargesName, OrdersName, IsOpen
  <1>8. LateReads'
    BY <1>1, ActivateIssues DEF Inv, Named, HeldNames, LateReads
  <1>9. FirstMonths'
    BY <1>1, <1>2, <1>3, <1>6 DEF Inv, FirstMonths, OnTrialOnly, SigningUp, Activating
  <1>10. Followed'
    BY <1>6 DEF Followed, AMonthEach, Distinct, Behind
  <1>11. Booked'
    BY <1>1, ActivateIssues DEF Inv, Booked, CapturedIsPaid, BookedInWindow, PaymentsName
  <1> QED BY <1>5, <1>7, <1>8, <1>9, <1>10, <1>11 DEF Inv

-----------------------------------------------------------------------------
(* The theorems.                                                           *)

LEMMA InitHolds == Init => Inv
  <1> SUFFICES ASSUME Init  PROVE Inv
    OBVIOUS
  <1>1. PICK s \in Starts, p \in Plans :
          /\ tenant = [ status |-> s, plan |-> p ]
          /\ sub = [ status |-> CASE s = "trial" -> "trialing"
                                  [] s = "pending_payment" -> "past_due"
                                  [] OTHER -> "active",
                     plan |-> p, start |-> 0, end |-> DaysLeft,
                     renewal |-> NoInvoice, cancelled |-> FALSE, minutes |-> 0,
                     overtaken |-> FALSE ]
    BY DEF Init
  <1>2. /\ tenant \in Tenants /\ tenant.status # "past_due"
        /\ sub \in Subscriptions /\ sub.renewal = NoInvoice
    BY <1>1, BillingAssumption DEF Tenants, Subscriptions
  <1>3. invoices = << >> /\ Issued = {} /\ RenewalsIn = {}
    BY DEF Init, Issued, RenewalsIn
  <1>4. TypeOK
    BY <1>2, BillingAssumption
       DEF Init, TypeOK, Payments, Authorisations, Reads, Nothing, Jobs, JobIdle, NoInvoice, NoPlan
  <1>5. Named /\ LateReads
    BY <1>2 DEF Init, Named, Marked, HeldNames, JobNames, ChargesName, OrdersName, LateReads, Nothing, JobIdle
  <1>6. FirstMonths
    BY <1>2, <1>3 DEF Init, FirstMonths, OnTrialOnly, SigningUp, Activating, JobIdle
  <1>7. Followed
    BY <1>3 DEF Followed, AMonthEach, Distinct, Behind
  <1>8. Booked
    BY <1>3 DEF Init, Booked, CapturedIsPaid, BookedInWindow, PaymentsName
  <1> QED BY <1>4, <1>5, <1>6, <1>7, <1>8 DEF Inv

LEMMA StandingStill == ASSUME Inv, UNCHANGED vars  PROVE Inv'
  <1>1. TypeOK'
    BY DEF Inv, TypeOK, vars, dbVars, gatewayVars
  <1> QED BY <1>1, AsideKeeps DEF Aside, vars, dbVars, gatewayVars

LEMMA StepKeeps == Inv /\ [Next]_vars => Inv'
  <1> SUFFICES ASSUME Inv, [Next]_vars  PROVE Inv'
    OBVIOUS
  <1>1. CASE UNCHANGED vars
    BY <1>1, StandingStill
  <1>2. CASE Tick
    BY <1>2, TickKeeps
  <1>3. CASE CheckoutNext
    BY <1>3, TopUpKeeps, BuyPlanKeeps, ChangePlanKeeps, PagePaidKeeps, PageExpiresKeeps,
       PaidOrderKeeps, SyncKeeps, FailOrderKeeps DEF CheckoutNext
  <1>4. CASE Customer
    BY <1>4, SetUpKeeps, RevokeKeeps, ActivateKeeps, CancelKeeps, UncancelKeeps DEF Customer
  <1>5. CASE Bank
    BY <1>5, DecidesKeeps, EndsKeeps, DebitsKeep DEF Bank
  <1>6. CASE Reports
    BY <1>6, ReportKeeps, MandateActiveKeeps, OverKeeps, SettleHeldKeeps DEF Reports
  <1>7. CASE Renewals
    BY <1>7, FindDueKeeps, RaiseKeeps, ClaimRetryKeeps, ChargeKeeps, RefusedKeeps, CrashKeeps,
       FindRetryKeeps DEF Renewals
  <1> QED BY <1>1, <1>2, <1>3, <1>4, <1>5, <1>6, <1>7 DEF Next, AutoPayNext

LEMMA AlwaysInv == Spec => []Inv
  BY InitHolds, StepKeeps, PTL DEF Spec

\* The types of the whole billing state, and every page at the gateway has its order's row.
THEOREM SubscriptionTypeCorrect == Spec => []TypeOK
  BY AlwaysInv, PTL DEF Inv

\* One renewal per period, however the run, the reports, the checkouts and the customer
\* interleave, as long as no settlement writes the period of an invoice that another has
\* settled since it was read (settleCharge, runRenewals).
THEOREM PeriodsAreInvoicedOnce == Spec => []OnePeriodOneInvoice
  <1>1. Inv => OnePeriodOneInvoice
    BY DEF Inv, Followed, Distinct, RenewalsIn, OnePeriodOneInvoice
  <1> QED BY <1>1, AlwaysInv, PTL

\* The ledger of payments agrees with the invoices: what is captured is paid and no longer
\* waited for, and a retry is booked only for a failed renewal inside its window.
THEOREM LedgerAlwaysAgrees == Spec => []LedgerAgrees
  <1>1. Inv => LedgerAgrees
    BY IssuedNumbers DEF Inv, Named, Marked, IsOpen, NoInvoice, Numbers, IsRenewal,
       Booked, CapturedIsPaid, BookedInWindow, LedgerAgrees
  <1> QED BY <1>1, AlwaysInv, PTL

\* A step touches the status of an invoice only by paying it or by making void what is open.
LEMMA StepPays ==
  ASSUME Inv, [Next]_vars  PROVE \A i \in Issued : invoices[i].status = "paid" => invoices'[i].status = "paid"
  <1> DEFINE Stands == \A i \in Issued : invoices[i].status = "paid" => invoices'[i].status = "paid"
  <1>1. CASE invoices' = invoices
    BY <1>1
  <1>2. ASSUME NEW s \in Reads, s.inv \in Issued, RecordSuccess(s)  PROVE Stands
    BY <1>2, MarkingKeeps DEF RecordSuccess, Inv, TypeOK
  <1>3. ASSUME NEW s \in Reads, s.inv \in Issued, Settle(s)  PROVE Stands
    BY <1>2, <1>3 DEF Settle
  <1>4. ASSUME NEW i \in Numbers, NEW k \in DOMAIN charges[i], ChargeReported(i, k)  PROVE Stands
    <2>1. i \in Issued /\ Verdict(i, k) \in {"settle_paid", "settle_failed"}
      BY <1>4 DEF ChargeReported, IsOpen, Verdict
    <2>2. Seen(i, Verdict(i, k)) \in Reads /\ Seen(i, Verdict(i, k)).inv = i
      BY <2>1, ReadAfresh
    <2> QED BY <1>1, <1>3, <1>4, <2>1, <2>2 DEF ChargeReported
  <1>5. ASSUME SettleHeld  PROVE Stands
    BY <1>3, <1>5 DEF SettleHeld, Settle, Inv, TypeOK, Named, HeldNames
  <1>6. ASSUME NEW m \in Mandates, MandateActive(m)  PROVE Stands
    <2>1. CASE IsOpen(sub.renewal) /\ RecordSuccess(Seen(sub.renewal, "settle_paid"))
      <3>1. sub.renewal \in Issued
        BY <2>1 DEF IsOpen
      <3> QED BY <1>2, <2>1, <3>1, ReadAfresh
    <2> QED BY <1>1, <1>6, <2>1 DEF MandateActive
  <1>7. ASSUME NEW m \in Mandates, NEW p \in Plans, Activate(m, p)  PROVE Stands
    BY <1>7, ActivateIssues
  <1>8. ASSUME NEW i \in Numbers, ApplyPaidOrder(i)  PROVE Stands
    BY <1>8, MarkingKeeps DEF ApplyPaidOrder, Claimable, Inv, TypeOK, Named, OrdersName
  <1>9. ASSUME FailOrder  PROVE Stands
    BY <1>9, MarkingKeeps DEF FailOrder, IsOpen, Inv, TypeOK
  <1>10. ASSUME NEW kind \in OfOrders, NEW plan \in Plans \cup {NoPlan}, NEW from, NEW until,
                StartCheckout(kind, plan, from, until)
         PROVE  Stands
    BY <1>10 DEF StartCheckout, IssueInvoice, Inv, TypeOK, Issued
  <1>11. CASE CheckoutNext
    <2>1. ASSUME TopUp  PROVE Stands
      BY <1>10, <2>1 DEF TopUp, OfOrders
    <2>2. ASSUME NEW p \in Plans, BuyPlan(p)  PROVE Stands
      BY <1>10, <2>2 DEF BuyPlan, OfOrders
    <2>3. ASSUME NEW p \in Plans, ChangePlan(p)  PROVE Stands
      BY <2>3 DEF ChangePlan
    <2>4. ASSUME NEW i \in Numbers, PagePaid(i) \/ PageExpires(i) \/ SyncOrder(i)  PROVE Stands
      BY <2>4 DEF PagePaid, PageExpires, SyncOrder, dbVars
    <2> QED BY <1>8, <1>9, <1>11, <2>1, <2>2, <2>3, <2>4 DEF CheckoutNext
  <1>12. CASE Customer
    BY <1>7, <1>12 DEF Customer, SetUpMandate, RevokeMandate, Cancel, Uncancel
  <1>13. CASE Bank
    BY <1>13 DEF Bank, BankDecides, BankEnds, BankDebits, dbVars
  <1>14. CASE Reports
    BY <1>4, <1>5, <1>6, <1>14 DEF Reports, MandateOver
  <1>15. CASE Renewals
    <2>1. ASSUME RaiseRenewal  PROVE Stands
      <3>1. CASE sub.renewal # NoInvoice
        BY <1>1, <2>1, <3>1 DEF RaiseRenewal
      <3>2. CASE sub.renewal = NoInvoice
        <4>1. IssueInvoice("renewal", job.plan, sub.end, NextPeriodEnd(sub.end))
          BY <2>1, <3>2 DEF RaiseRenewal
        <4> QED BY <4>1 DEF IssueInvoice, Inv, TypeOK, Issued
      <3> QED BY <3>1, <3>2
    <2>2. ASSUME NEW i \in Numbers, FindRetry(i)  PROVE Stands
      BY <1>1, <2>2 DEF FindRetry, dbVars
    <2>3. ASSUME FindDue \/ ClaimRetry \/ ChargeInvoice \/ ChargeRefused \/ Crash  PROVE Stands
      BY <1>1, <2>3 DEF FindDue, ClaimRetry, ChargeInvoice, ChargeRefused, Crash, dbVars
    <2> QED BY <1>15, <2>1, <2>2, <2>3 DEF Renewals
  <1>16. CASE Tick \/ UNCHANGED vars
    BY <1>16 DEF Tick, vars, dbVars
  <1> QED BY <1>11, <1>12, <1>13, <1>14, <1>15, <1>16 DEF Next, AutoPayNext

\* What was paid stays paid: no late failure, expiry, second checkout or sign-up undoes it.
THEOREM WhatWasPaidStays == Spec => PaidStands
  <1>1. Inv /\ [Next]_vars => [\A i \in Issued : invoices[i].status = "paid" => invoices'[i].status = "paid"]_vars
    BY StepPays
  <1> QED BY <1>1, AlwaysInv, PTL DEF Spec, PaidStands

-----------------------------------------------------------------------------
(* What is granted has been paid for.                                      *)

\* Without the paid sign-up, whose mandates settle whatever renewal is waiting, and
\* without payments that go through after their page expired, which credit an order
\* twice, nothing is granted before it is paid for and nothing twice.
Plain == Activations = {} /\ "late_payment" \notin Faults

Collected(i) == \E k \in DOMAIN charges[i] : charges[i][k].state = "collected"
PaidFor(i) == page[i] = "paid" \/ Collected(i)

ChargesRenew == \A i \in Numbers : charges[i] # << >> => invoices[i].kind \notin OfOrders
JobRenews == job.at \in {"retry", "charge", "recharge", "refused"} => invoices[job.inv].kind \notin OfOrders
HeldKnows ==
  /\ held.doing \in {"settle_paid", "settle_failed"} => charges[held.inv] # << >>
  /\ held.doing = "settle_paid" => Collected(held.inv)
  /\ held.doing = "fail_order" => page[held.inv] = "expired"
OrdersFollow ==
  \A i \in Numbers : /\ orders[i] = "failed" => page[i] = "expired"
                     /\ orders[i] = "paid" => page[i] = "paid"
PaidOrders ==
  \A i \in Issued : invoices[i].kind \in OfOrders /\ invoices[i].status = "paid" => orders[i] = "paid"
Earned == \A i \in Issued : invoices[i].status = "paid" => PaidFor(i)
Clean == ChargesRenew /\ JobRenews /\ HeldKnows /\ OrdersFollow /\ PaidOrders /\ Earned

\* Money was taken for an invoice when its page is paid or a charge collected.
LEMMA CollectedCounts ==
  ASSUME NEW s \in Seq(Debits)
  PROVE  LET C == { k \in DOMAIN s : s[k].state = "collected" }
         IN  Cardinality(C) \in Nat /\ (Cardinality(C) = 0 <=> C = {})
  <1> DEFINE C == { k \in DOMAIN s : s[k].state = "collected" }
  <1>1. DOMAIN s = 1..Len(s) /\ Len(s) \in Nat
    OBVIOUS
  <1>2. IsFiniteSet(1..Len(s)) /\ C \subseteq 1..Len(s)
    BY <1>1, FS_Interval
  <1>3. IsFiniteSet(C)
    BY <1>2, FS_Subset
  <1> QED BY <1>3, FS_CardinalityType, FS_EmptySet

LEMMA TakenIs ==
  ASSUME Plain, TypeOK  PROVE Taken = { i \in Numbers : PaidFor(i) }
  <1> SUFFICES ASSUME NEW i \in Numbers  PROVE Takings(i) > 0 <=> PaidFor(i)
    BY DEF Taken
  <1>1. { m \in Activations : bank[m].took /\ bank[m].inv = i } = {}
    BY DEF Plain
  <1>2. Cardinality({ m \in Activations : bank[m].took /\ bank[m].inv = i }) = 0
    BY <1>1, FS_EmptySet
  <1>3. charges[i] \in Seq(Debits)
    BY DEF TypeOK
  <1> DEFINE C == { k \in DOMAIN charges[i] : charges[i][k].state = "collected" }
  <1>4. Cardinality(C) \in Nat /\ (Cardinality(C) = 0 <=> C = {})
    BY <1>3, CollectedCounts
  <1>5. Collected(i) <=> C # {}
    BY DEF Collected
  <1> HIDE DEF C
  <1> QED BY <1>2, <1>4, <1>5 DEF Takings, PaidFor, C

LEMMA TakenIsNext ==
  ASSUME Plain, TypeOK'  PROVE Taken' = { i \in Numbers : PaidFor(i)' }
  <1> SUFFICES ASSUME NEW i \in Numbers  PROVE Takings(i)' > 0 <=> PaidFor(i)'
    BY DEF Taken
  <1>1. { m \in Activations : bank'[m].took /\ bank'[m].inv = i } = {}
    BY DEF Plain
  <1>2. Cardinality({ m \in Activations : bank'[m].took /\ bank'[m].inv = i }) = 0
    BY <1>1, FS_EmptySet
  <1>3. charges'[i] \in Seq(Debits)
    BY DEF TypeOK
  <1> DEFINE C == { k \in DOMAIN charges'[i] : charges'[i][k].state = "collected" }
  <1>4. Cardinality(C) \in Nat /\ (Cardinality(C) = 0 <=> C = {})
    BY <1>3, CollectedCounts
  <1>5. Collected(i)' <=> C # {}
    BY DEF Collected
  <1> HIDE DEF C
  <1> QED BY <1>2, <1>4, <1>5 DEF Takings, PaidFor, C

\* The steps of the promise: nothing, a sale, money taken, a purchase handed over.
Keeping == Clean' /\ [Promise!Next]_(Promise!vars)

LEMMA NothingPromised ==
  ASSUME Plain, Inv, Inv', Packs' = Packs, Granted' = Granted, sub'.minutes = sub.minutes,
         \A i \in Numbers : PaidFor(i)' <=> PaidFor(i)
  PROVE  [Promise!Next]_(Promise!vars)
  <1>1. Taken' = Taken
    BY TakenIs, TakenIsNext DEF Inv
  <1> QED BY <1>1 DEF Promise!vars

LEMMA MoneyTaken ==
  ASSUME Plain, Inv, Inv', Packs' = Packs, Granted' = Granted, sub'.minutes = sub.minutes,
         NEW n \in Numbers, PaidFor(n)',
         \A i \in Numbers \ {n} : PaidFor(i)' <=> PaidFor(i)
  PROVE  [Promise!Next]_(Promise!vars)
  <1>1. CASE PaidFor(n)
    BY <1>1, NothingPromised
  <1>2. CASE ~PaidFor(n)
    <2>1. n \notin Taken /\ Taken' = Taken \cup {n}
      BY <1>2, TakenIs, TakenIsNext DEF Inv
    <2> QED BY <2>1 DEF Promise!Next, Promise!Take
  <1> QED BY <1>1, <1>2

LEMMA HandedOver ==
  ASSUME Plain, Inv, Inv', NEW n \in Issued, PaidFor(n), Packs' = Packs, Granted' = Granted \cup {n},
         n \notin Granted,
         sub'.minutes = IF n \in Packs THEN sub.minutes + 1 ELSE sub.minutes,
         \A i \in Numbers : PaidFor(i)' <=> PaidFor(i)
  PROVE  [Promise!Next]_(Promise!vars)
  <1>1. Taken' = Taken /\ n \in Taken /\ n \in Numbers
    BY TakenIs, TakenIsNext, IssuedNumbers DEF Inv
  <1> QED BY <1>1 DEF Promise!Next, Promise!Grant

\* A step that leaves the invoices, the orders and the gateway's money alone.
LEMMA QuietKeeps ==
  ASSUME Plain, Inv, Inv', Clean, UNCHANGED << invoices, orders, page, charges >>,
         sub'.minutes = sub.minutes,
         \/ held' = held
         \/ HeldKnows',
         \/ job' = job
         \/ JobRenews'
  PROVE  Keeping
  <1>1. \A i \in Numbers : PaidFor(i)' <=> PaidFor(i)
    BY DEF PaidFor, Collected
  <1>2. Clean'
    BY DEF Clean, ChargesRenew, JobRenews, HeldKnows, OrdersFollow, PaidOrders, Earned, PaidFor, Collected, Issued
  <1>3. Packs' = Packs /\ Granted' = Granted
    BY DEF Packs, Granted, Issued
  <1> QED BY <1>1, <1>2, <1>3, NothingPromised DEF Keeping

\* A charge accepted is not yet collected.
LEMMA AcceptedIsNotCollected ==
  ASSUME TypeOK, NEW n \in Numbers, NEW e, e.state = "accepted",
         charges' = [ charges EXCEPT ![n] = Append(charges[n], e) ]
  PROVE  /\ \A i \in Numbers : Collected(i)' <=> Collected(i)
         /\ \A i \in Numbers : charges[i] # << >> => charges'[i] # << >>
         /\ \A i \in Numbers \ {n} : charges'[i] = charges[i]
  <1> DEFINE s == charges[n]
  <1>1. s \in Seq(Debits)
    BY DEF TypeOK
  <1>2. charges'[n] = Append(s, e) /\ \A i \in Numbers \ {n} : charges'[i] = charges[i]
    BY DEF TypeOK
  <1> HIDE DEF s
  <1>3. DOMAIN s = 1..Len(s) /\ Len(s) \in Nat
    BY <1>1
  <1>4. /\ DOMAIN charges'[n] = 1..(Len(s) + 1)
        /\ \A k \in 1..Len(s) : charges'[n][k] = s[k]
        /\ charges'[n][Len(s) + 1] = e
    BY <1>1, <1>2, <1>3
  <1>5. (\E k \in DOMAIN charges'[n] : charges'[n][k].state = "collected")
          <=> (\E k \in DOMAIN s : s[k].state = "collected")
    <2>1. \A l \in Nat : \A k \in 1..(l + 1) : k \in 1..l \/ k = l + 1
      OBVIOUS
    <2>2. \A k \in DOMAIN s : k \in DOMAIN charges'[n] /\ charges'[n][k] = s[k]
      BY <1>3, <1>4
    <2> QED BY <1>3, <1>4, <2>1, <2>2
  <1>6. charges'[n] # << >>
    <2>1. Len(s) + 1 \in DOMAIN charges'[n]
      BY <1>3, <1>4
    <2>2. DOMAIN << >> = {}
      OBVIOUS
    <2> QED BY <2>1, <2>2
  <1> QED BY <1>2, <1>5, <1>6 DEF Collected, s

LEMMA CustomerPromise ==
  ASSUME Plain, Inv, Inv', Clean, Customer  PROVE Keeping
  <1>1. sub'.minutes = sub.minutes /\ UNCHANGED << invoices, orders, page, charges, held, job >>
    <2>1. ASSUME NEW m \in Mandates, NEW p \in Plans, Activate(m, p)  PROVE FALSE
      BY <2>1 DEF Plain, Activate
    <2>2. sub \in Subscriptions
      BY DEF Inv, TypeOK
    <2>3. ASSUME Cancel \/ Uncancel  PROVE sub'.minutes = sub.minutes /\ UNCHANGED << invoices, orders, page, charges, held, job >>
      BY <2>2, <2>3 DEF Cancel, Uncancel, gatewayVars, Subscriptions
    <2> QED BY <2>1, <2>3 DEF Customer, SetUpMandate, RevokeMandate
  <1> QED BY <1>1, QuietKeeps

LEMMA RenewalsPromise ==
  ASSUME Plain, Inv, Inv', Clean, Renewals  PROVE Keeping
  <1>1. CASE FindDue
    BY <1>1, QuietKeeps DEF FindDue, JobIdle, JobRenews, dbVars, gatewayVars
  <1>2. CASE Crash
    BY <1>2, QuietKeeps DEF Crash, JobIdle, JobRenews, dbVars, gatewayVars
  <1>3. ASSUME NEW i \in Numbers, FindRetry(i)  PROVE Keeping
    <2>1. JobRenews'
      BY <1>3 DEF FindRetry, Retriable, IsOpen, IsRenewal, JobIdle, JobRenews, dbVars, Inv, Named, Marked,
         NoInvoice, Numbers, OfOrders
    <2> QED BY <1>3, <2>1, QuietKeeps DEF FindRetry, dbVars, gatewayVars
  <1>4. CASE ClaimRetry
    <2>1. JobRenews'
      BY <1>4 DEF ClaimRetry, JobIdle, JobRenews, Clean, Inv, TypeOK, Jobs
    <2> QED BY <1>4, <2>1, QuietKeeps DEF ClaimRetry, gatewayVars
  <1>5. CASE ChargeRefused
    <2>1. JobRenews'
      BY <1>5 DEF ChargeRefused, JobIdle, JobRenews
    <2>2. sub'.minutes = sub.minutes
      BY <1>5 DEF ChargeRefused, RecordFailure, Inv, TypeOK, Subscriptions
    <2> QED BY <1>5, <2>1, <2>2, QuietKeeps DEF ChargeRefused, gatewayVars
  <1>6. CASE ChargeInvoice
    <2>1. job.inv \in Numbers /\ job.inv \in Issued /\ invoices[job.inv].kind \notin OfOrders
      BY <1>6, IssuedNumbers DEF Inv, Named, JobNames, Clean, JobRenews, ChargeInvoice
    <2>2. job' = JobIdle \/ job' = [ job EXCEPT !.at = "refused" ]
      BY <1>6 DEF ChargeInvoice
    <2>3. UNCHANGED << tenant, sub, invoices, payments, orders, methods, page, held >>
      BY <1>6 DEF ChargeInvoice, dbVars
    <2>4. JobRenews'
      BY <2>1, <2>2, <2>3 DEF JobRenews, JobIdle, Inv, TypeOK, Jobs
    <2>5. CASE charges' = charges
      BY <2>3, <2>4, <2>5, QuietKeeps
    <2>6. CASE charges' = [ charges EXCEPT ![job.inv] = Append(@, Sent(job.inv)) ]
      <3>1. /\ \A i \in Numbers : Collected(i)' <=> Collected(i)
            /\ \A i \in Numbers : charges[i] # << >> => charges'[i] # << >>
            /\ \A i \in Numbers \ {job.inv} : charges'[i] = charges[i]
        <4>1. Sent(job.inv).state = "accepted"
          BY DEF Sent
        <4>2. TypeOK
          BY DEF Inv
        <4> QED BY <2>1, <2>6, <4>1, <4>2, AcceptedIsNotCollected
      <3>2. \A i \in Numbers : PaidFor(i)' <=> PaidFor(i)
        BY <2>3, <3>1 DEF PaidFor
      <3>3. Packs' = Packs /\ Granted' = Granted /\ sub'.minutes = sub.minutes
        BY <2>3 DEF Packs, Granted, Issued
      <3>4. ChargesRenew'
        BY <2>1, <2>3, <3>1 DEF Clean, ChargesRenew
      <3>5. HeldKnows'
        BY <2>3, <3>1, IssuedNumbers DEF Inv, Named, HeldNames, Clean, HeldKnows, Collected
      <3>6. OrdersFollow' /\ PaidOrders' /\ Earned'
        BY <2>3, <3>2, IssuedNumbers DEF Inv, Clean, OrdersFollow, PaidOrders, Earned, Issued
      <3> QED BY <2>4, <3>2, <3>3, <3>4, <3>5, <3>6, NothingPromised DEF Keeping, Clean
    <2> QED BY <1>6, <2>5, <2>6 DEF ChargeInvoice
  <1>7. CASE RaiseRenewal
    <2>1. CASE sub.renewal # NoInvoice
      BY <1>7, <2>1, QuietKeeps DEF RaiseRenewal, JobIdle, JobRenews, gatewayVars
    <2>2. CASE sub.renewal = NoInvoice
      <3> DEFINE e == NewInvoice("renewal", job.plan, sub.end, NextPeriodEnd(sub.end))
      <3>1. /\ UNCHANGED << tenant, payments, orders, methods, page, charges, held >>
            /\ invoices' = Append(invoices, e) /\ CanIssue
            /\ sub' = [ sub EXCEPT !.renewal = NextNumber ]
            /\ job' = [ job EXCEPT !.at = "charge", !.inv = NextNumber ]
        BY <1>7, <2>2 DEF RaiseRenewal, IssueInvoice, gatewayVars
      <3>2. e \in Invoices /\ e.kind = "renewal" /\ e.status = "issued"
        <4>1. /\ sub.end \in Nat /\ NextPeriodEnd(sub.end) \in Nat /\ job.plan \in Plans \cup {NoPlan}
          BY RenewalTerms
        <4> QED BY <4>1 DEF NewInvoice, Invoices
      <3> HIDE DEF e
      <3>3. /\ NextNumber \in Numbers /\ NextNumber \notin Issued
            /\ Issued' = Issued \cup {NextNumber}
            /\ invoices'[NextNumber] = e
            /\ \A i \in Issued : invoices'[i] = invoices[i]
        BY <3>1, <3>2, IssuingAppends DEF Inv, TypeOK
      <3>4. sub'.minutes = sub.minutes /\ job'.inv = NextNumber
        BY <3>1 DEF Inv, TypeOK, Subscriptions, Jobs
      <3>5. Packs' = Packs /\ Granted' = Granted
        BY <3>2, <3>3 DEF Packs, Granted
      <3>6. \A i \in Numbers : PaidFor(i)' <=> PaidFor(i)
        BY <3>1 DEF PaidFor, Collected
      <3>7. ChargesRenew' /\ JobRenews'
        BY <3>1, <3>2, <3>3, <3>4 DEF Inv, Named, ChargesName, Clean, ChargesRenew, JobRenews, OfOrders
      <3>8. HeldKnows' /\ OrdersFollow' /\ PaidOrders'
        BY <3>1, <3>2, <3>3, ZenonT(60) DEF Clean, HeldKnows, OrdersFollow, PaidOrders, Collected
      <3>9. Earned'
        BY <3>2, <3>3, <3>6, IssuedNumbers DEF Inv, Clean, Earned
      <3> QED BY <3>4, <3>5, <3>6, <3>7, <3>8, <3>9, NothingPromised DEF Keeping, Clean
    <2> QED BY <2>1, <2>2
  <1> QED BY <1>1, <1>2, <1>3, <1>4, <1>5, <1>6, <1>7 DEF Renewals

\* At the bank a debit made is money taken for its invoice.
LEMMA BankPromise ==
  ASSUME Plain, Inv, Inv', Clean, Bank  PROVE Keeping
  <1>1. ASSUME NEW m \in Mandates, BankDecides(m) \/ BankEnds(m)  PROVE Keeping
    BY <1>1, QuietKeeps DEF BankDecides, BankEnds, dbVars
  <1>2. ASSUME NEW n \in Numbers, NEW k \in DOMAIN charges[n], BankDebits(n, k)  PROVE Keeping
    <2>1. PICK t \in {"collected", "refused"} : charges' = [ charges EXCEPT ![n][k].state = t ]
      BY <1>2 DEF BankDebits
    <2>2. charges[n] \in Seq(Debits) /\ charges[n][k] \in Debits /\ charges[n][k].state = "accepted"
      BY <1>2 DEF Inv, TypeOK, BankDebits
    <2>3. /\ charges'[n] = [ charges[n] EXCEPT ![k] = [ charges[n][k] EXCEPT !.state = t ] ]
          /\ \A i \in Numbers \ {n} : charges'[i] = charges[i]
      BY <2>1 DEF Inv, TypeOK
    <2>4. /\ DOMAIN charges'[n] = DOMAIN charges[n]
          /\ charges'[n][k].state = t
          /\ \A j \in DOMAIN charges[n] \ {k} : charges'[n][j] = charges[n][j]
      BY <2>2, <2>3 DEF Debits
    <2>5. /\ charges'[n] # << >> /\ charges[n] # << >>
          /\ Collected(n) => Collected(n)'
          /\ t = "collected" => Collected(n)'
          /\ t = "refused" => (Collected(n)' <=> Collected(n))
      BY <2>2, <2>4 DEF Collected
    <2>6. UNCHANGED << sub, invoices, orders, page, held, job >>
      BY <1>2 DEF BankDebits, dbVars
    <2>7. /\ \A i \in Numbers \ {n} : PaidFor(i)' <=> PaidFor(i)
          /\ \A i \in Numbers : PaidFor(i) => PaidFor(i)'
      BY <2>3, <2>5, <2>6 DEF PaidFor, Collected
    <2>8. Packs' = Packs /\ Granted' = Granted /\ sub'.minutes = sub.minutes
      BY <2>6 DEF Packs, Granted, Issued
    <2>9. ChargesRenew' /\ JobRenews' /\ OrdersFollow' /\ PaidOrders'
      BY <2>3, <2>5, <2>6 DEF Clean, ChargesRenew, JobRenews, OrdersFollow, PaidOrders, Issued
    <2>10. HeldKnows'
      BY <2>3, <2>5, <2>6, IssuedNumbers, ZenonT(60) DEF Inv, Named, HeldNames, Clean, HeldKnows, Collected
    <2>11. Earned'
      BY <2>6, <2>7, IssuedNumbers DEF Inv, Clean, Earned, Issued
    <2>12. [Promise!Next]_(Promise!vars)
      <3>1. CASE t = "collected"
        BY <2>5, <2>7, <2>8, <3>1, MoneyTaken DEF PaidFor
      <3>2. CASE t = "refused"
        BY <2>5, <2>6, <2>7, <2>8, <3>2, NothingPromised DEF PaidFor
      <3> QED BY <3>1, <3>2
    <2> QED BY <2>9, <2>10, <2>11, <2>12 DEF Keeping, Clean
  <1> QED BY <1>1, <1>2 DEF Bank

\* Reports hand over what was paid for, or only record a failure.
LEMMA SettlePromise ==
  ASSUME Plain, Inv, Inv', Clean, NEW seen \in Reads, seen.inv \in Issued, Settle(seen),
         charges[seen.inv] # << >>,
         seen.doing = "settle_paid" => Collected(seen.inv),
         HeldKnows', ChargesRenew',
         \A i \in Numbers : PaidFor(i)' <=> PaidFor(i),
         UNCHANGED << orders, page, job >>
  PROVE  Keeping
  <1> DEFINE n == seen.inv
  <1>1. n \in Numbers /\ invoices[n].kind \notin OfOrders
    BY IssuedNumbers DEF Inv, Clean, ChargesRenew
  <1>2. CASE seen.doing = "settle_failed"
    <2>1. invoices' = invoices /\ sub'.minutes = sub.minutes
      <3>1. sub \in Subscriptions
        BY DEF Inv, TypeOK
      <3> QED BY <1>2, <3>1 DEF Settle, RecordFailure, Subscriptions
    <2>2. Packs' = Packs /\ Granted' = Granted
      BY <2>1 DEF Packs, Granted, Issued
    <2>3. JobRenews' /\ OrdersFollow' /\ PaidOrders' /\ Earned'
      BY <2>1, IssuedNumbers DEF Inv, Clean, JobRenews, OrdersFollow, PaidOrders, Earned, Issued
    <2> QED BY <2>1, <2>2, <2>3, NothingPromised DEF Keeping, Clean
  <1>3. CASE seen.doing = "settle_paid"
    <2>1. /\ Issued' = Issued
          /\ \A j \in Issued : invoices'[j].kind = invoices[j].kind
          /\ \A j \in Issued \ {n} : invoices'[j] = invoices[j]
          /\ invoices'[n].status = "paid"
      <3>1. MarkInvoice(n, "paid") /\ invoices \in Seq(Invoices)
        BY <1>3 DEF Settle, RecordSuccess, Inv, TypeOK
      <3> QED BY <3>1, MarkingKeeps
    <2>2. sub'.minutes = sub.minutes
      <3>1. sub \in Subscriptions
        BY DEF Inv, TypeOK
      <3> QED BY <1>3, <3>1 DEF Settle, RecordSuccess, Subscriptions
    <2>3. Packs' = Packs /\ Granted' = Granted \cup {n} /\ n \notin Packs
      BY <1>1, <2>1 DEF Packs, Granted, OfOrders
    <2>4. JobRenews'
      BY <2>1 DEF Inv, Named, JobNames, Clean, JobRenews
    <2>5. OrdersFollow' /\ PaidOrders'
      BY <1>1, <2>1 DEF Clean, OrdersFollow, PaidOrders
    <2>6. PaidFor(n)
      BY <1>3 DEF PaidFor
    <2>7. Earned'
      BY <2>1, <2>6, IssuedNumbers DEF Inv, Clean, Earned
    <2>8. [Promise!Next]_(Promise!vars)
      <3>1. CASE n \in Granted
        BY <2>2, <2>3, <3>1, NothingPromised
      <3>2. CASE n \notin Granted
        BY <2>2, <2>3, <2>6, <3>2, HandedOver
      <3> QED BY <3>1, <3>2
    <2> QED BY <2>4, <2>5, <2>7, <2>8 DEF Keeping, Clean
  <1> QED BY <1>2, <1>3 DEF Settle

LEMMA ReportsPromise ==
  ASSUME Plain, Inv, Inv', Clean, Reports  PROVE Keeping
  <1>1. ASSUME NEW m \in Mandates, MandateActive(m) \/ MandateOver(m)  PROVE Keeping
    BY <1>1, QuietKeeps DEF MandateActive, MandateOver, gatewayVars, Plain
  <1>2. CASE SettleHeld
    <2>1. held.doing \in {"settle_paid", "settle_failed"} /\ Settle(held) /\ held' = Nothing
      BY <1>2 DEF SettleHeld, Settle
    <2>2. UNCHANGED << orders, page, charges, job >>
      BY <1>2 DEF SettleHeld, gatewayVars
    <2>3. held \in Reads /\ held.inv \in Issued
      BY <2>1 DEF Inv, TypeOK, Named, HeldNames
    <2>4. HeldKnows'
      BY <2>1 DEF HeldKnows, Nothing
    <2>5. \A i \in Numbers : PaidFor(i)' <=> PaidFor(i)
      BY <2>2 DEF PaidFor, Collected
    <2>6. ChargesRenew'
      <3>1. \A j \in Issued : invoices'[j].kind = invoices[j].kind
        BY <2>1, <2>3, SettlingSettles DEF Inv, LateReads, Settlement
      <3> QED BY <2>2, <3>1 DEF Inv, Named, ChargesName, Clean, ChargesRenew
    <2> QED BY <2>1, <2>2, <2>3, <2>4, <2>5, <2>6, SettlePromise DEF Clean, HeldKnows
  <1>3. ASSUME NEW n \in Numbers, NEW k \in DOMAIN charges[n], ChargeReported(n, k)  PROVE Keeping
    <2> DEFINE v == Verdict(n, k)
    <2>1. n \in Issued /\ v \in {"settle_paid", "settle_failed"}
      BY <1>3 DEF ChargeReported, IsOpen, Verdict
    <2>2. v = "settle_paid" => charges[n][k].state = "collected"
      BY DEF Verdict
    <2>3. charges[n] # << >> /\ (v = "settle_paid" => Collected(n))
      BY <2>2 DEF Inv, TypeOK, Collected
    <2> HIDE DEF v
    <2>4. Seen(n, v) \in Reads /\ Seen(n, v).inv = n /\ Seen(n, v).doing = v
          /\ (Seen(n, v).renewal => Seen(n, v).wake \/ tenant.status = "active")
          /\ (~Seen(n, v).renewal => sub.renewal # n)
      BY <2>1, ReadAfresh
    <2>5. /\ charges' = [ charges EXCEPT ![n][k].told = TRUE ]
          /\ UNCHANGED << orders, page, job >>
      BY <1>3 DEF ChargeReported
    <2>6. /\ \A i \in Numbers : Collected(i)' <=> Collected(i)
          /\ \A i \in Numbers : charges'[i] # << >> <=> charges[i] # << >>
      <3>1. charges[n] \in Seq(Debits) /\ charges[n][k] \in Debits
        BY DEF Inv, TypeOK
      <3>2. /\ charges'[n] = [ charges[n] EXCEPT ![k] = [ charges[n][k] EXCEPT !.told = TRUE ] ]
            /\ \A i \in Numbers \ {n} : charges'[i] = charges[i]
        BY <2>5 DEF Inv, TypeOK
      <3>3. /\ DOMAIN charges'[n] = DOMAIN charges[n]
            /\ \A j \in DOMAIN charges[n] : charges'[n][j].state = charges[n][j].state
        BY <3>1, <3>2 DEF Debits
      <3>4. charges'[n] # << >> /\ charges[n] # << >>
        BY <3>1, <3>3
      <3> QED BY <3>2, <3>3, <3>4 DEF Collected
    <2>7. \A i \in Numbers : PaidFor(i)' <=> PaidFor(i)
      BY <2>5, <2>6 DEF PaidFor
    <2>8. CASE Settle(Seen(n, v)) /\ UNCHANGED held
      <3>1. \A j \in Issued : invoices'[j].kind = invoices[j].kind
        BY <2>1, <2>4, <2>8, SettlingSettles DEF Settlement
      <3>2. ChargesRenew'
        BY <2>6, <3>1 DEF Inv, Named, ChargesName, Clean, ChargesRenew
      <3>3. HeldKnows'
        BY <2>5, <2>6, <2>8, IssuedNumbers DEF Inv, Named, HeldNames, Clean, HeldKnows, Collected
      <3> QED BY <2>1, <2>3, <2>4, <2>5, <2>7, <2>8, <3>2, <3>3, SettlePromise
    <2>9. CASE held' = Seen(n, v) /\ UNCHANGED << tenant, sub, invoices, payments >>
      <3>1. Packs' = Packs /\ Granted' = Granted /\ sub'.minutes = sub.minutes
        BY <2>9 DEF Packs, Granted, Issued
      <3>2. HeldKnows'
        BY <2>1, <2>3, <2>4, <2>6, <2>9 DEF HeldKnows, Collected
      <3>3. ChargesRenew' /\ JobRenews' /\ OrdersFollow' /\ PaidOrders'
        BY <2>5, <2>6, <2>9 DEF Clean, ChargesRenew, JobRenews, OrdersFollow, PaidOrders, Issued
      <3>4. Earned'
        BY <2>7, <2>9, IssuedNumbers DEF Inv, Clean, Earned, Issued
      <3> QED BY <2>7, <3>1, <3>2, <3>3, <3>4, NothingPromised DEF Keeping, Clean
    <2> QED BY <1>3, <2>8, <2>9 DEF ChargeReported, v
  <1> QED BY <1>1, <1>2, <1>3 DEF Reports

\* A checkout sells, a page paid is money taken, an order applied is handed over.
LEMMA CheckoutIssues ==
  ASSUME Inv, NEW kind \in OfOrders, NEW plan \in Plans \cup {NoPlan},
         NEW from \in Nat, NEW until \in Nat, StartCheckout(kind, plan, from, until)
  PROVE  /\ NextNumber \in Numbers /\ NextNumber \notin Issued
         /\ Issued' = Issued \cup {NextNumber}
         /\ invoices'[NextNumber].kind = kind /\ invoices'[NextNumber].status = "issued"
         /\ \A i \in Issued : invoices'[i] = invoices[i]
         /\ UNCHANGED << sub, charges, held, job >>
         /\ \A i \in Numbers \ {NextNumber} : page'[i] = page[i] /\ orders'[i] = orders[i]
         /\ page'[NextNumber] \in {"none", "open"} /\ orders'[NextNumber] \in {"none", "pending"}
         /\ page[NextNumber] = "none"
  <1> DEFINE e == NewInvoice(kind, plan, from, until)
  <1>1. e \in Invoices /\ e.kind = kind /\ e.status = "issued"
    BY DEF NewInvoice, Invoices, OfOrders
  <1>2. invoices' = Append(invoices, e) /\ CanIssue /\ invoices \in Seq(Invoices)
    BY DEF StartCheckout, IssueInvoice, Inv, TypeOK
  <1> HIDE DEF e
  <1>3. /\ NextNumber \in Numbers /\ NextNumber \notin Issued
        /\ Issued' = Issued \cup {NextNumber}
        /\ invoices'[NextNumber] = e
        /\ \A i \in Issued : invoices'[i] = invoices[i]
    BY <1>1, <1>2, IssuingAppends
  <1>4. page[NextNumber] = "none" /\ orders[NextNumber] = "none"
    BY <1>3 DEF Inv, TypeOK, Named, OrdersName
  <1>5. /\ \A i \in Numbers \ {NextNumber} : page'[i] = page[i] /\ orders'[i] = orders[i]
        /\ page'[NextNumber] \in {"none", "open"} /\ orders'[NextNumber] \in {"none", "pending"}
    BY <1>3, <1>4 DEF Inv, TypeOK, StartCheckout
  <1> QED BY <1>1, <1>3, <1>4, <1>5 DEF StartCheckout

LEMMA SalePromise ==
  ASSUME Plain, Inv, Inv', Clean, NEW kind \in OfOrders, NEW plan \in Plans \cup {NoPlan},
         NEW from \in Nat, NEW until \in Nat, StartCheckout(kind, plan, from, until)
  PROVE  Keeping
  <1> DEFINE n == NextNumber
  <1>1. /\ n \in Numbers /\ n \notin Issued
        /\ Issued' = Issued \cup {n}
        /\ invoices'[n].kind = kind /\ invoices'[n].status = "issued"
        /\ \A i \in Issued : invoices'[i] = invoices[i]
        /\ UNCHANGED << sub, charges, held, job >>
        /\ \A i \in Numbers \ {n} : page'[i] = page[i] /\ orders'[i] = orders[i]
        /\ page'[n] \in {"none", "open"} /\ orders'[n] \in {"none", "pending"}
        /\ page[n] = "none"
    BY CheckoutIssues
  <1> HIDE DEF n
  <1>2. \A i \in Numbers : PaidFor(i)' <=> PaidFor(i)
    BY <1>1 DEF PaidFor, Collected
  <1>3. Granted' = Granted /\ sub'.minutes = sub.minutes
    BY <1>1 DEF Granted
  <1>4. ChargesRenew' /\ JobRenews'
    BY <1>1 DEF Inv, Named, ChargesName, JobNames, Clean, ChargesRenew, JobRenews
  <1>5. HeldKnows'
    BY <1>1, IssuedNumbers DEF Inv, Named, HeldNames, Clean, HeldKnows, Collected
  <1>6. OrdersFollow' /\ PaidOrders' /\ Earned'
    BY <1>1, <1>2, IssuedNumbers DEF Inv, Clean, OrdersFollow, PaidOrders, Earned
  <1>7. [Promise!Next]_(Promise!vars)
    <2>1. CASE kind = "top_up"
      <3>1. Packs' = Packs \cup {n} /\ n \notin Packs
        BY <1>1, <2>1 DEF Packs
      <3>2. ~PaidFor(n)
        BY <1>1 DEF PaidFor, Collected, Inv, Named, ChargesName
      <3>3. Taken' = Taken /\ n \notin Taken
        BY <1>2, <3>2, TakenIs, TakenIsNext DEF Inv
      <3> QED BY <1>1, <1>3, <3>1, <3>3 DEF Promise!Next, Promise!Sell
    <2>2. CASE kind # "top_up"
      <3>1. Packs' = Packs
        BY <1>1, <2>2 DEF Packs
      <3> QED BY <1>2, <1>3, <3>1, NothingPromised
    <2> QED BY <2>1, <2>2
  <1> QED BY <1>4, <1>5, <1>6, <1>7 DEF Keeping, Clean

LEMMA CheckoutPromise ==
  ASSUME Plain, Inv, Inv', Clean, CheckoutNext  PROVE Keeping
  <1>1. /\ sub.start \in Nat /\ sub.end \in Nat /\ sub \in Subscriptions
        /\ today \in Nat /\ NextPeriodEnd(today) \in Nat
        /\ "plan_change" \in OfOrders /\ "top_up" \in OfOrders
    <2>1. sub \in Subscriptions /\ today \in Nat
      BY DEF Inv, TypeOK
    <2> QED BY <2>1, BillingAssumption DEF Subscriptions, NextPeriodEnd, OfOrders
  <1>2. CASE TopUp
    BY <1>1, <1>2, SalePromise DEF TopUp
  <1>3. ASSUME NEW p \in Plans, BuyPlan(p)  PROVE Keeping
    BY <1>1, <1>3, SalePromise DEF BuyPlan
  <1>4. ASSUME NEW p \in Plans, ChangePlan(p)  PROVE Keeping
    <2>1. sub'.minutes = sub.minutes
      BY <1>1, <1>4 DEF ChangePlan, Subscriptions
    <2> QED BY <1>4, <2>1, QuietKeeps DEF ChangePlan, gatewayVars
  <1>5. ASSUME NEW n \in Numbers, PagePaid(n)  PROVE Keeping
    <2>1. page[n] = "open" /\ page' = [ page EXCEPT ![n] = "paid" ] /\ UNCHANGED << dbVars, charges, held, job >>
      BY <1>5 DEF PagePaid, Plain
    <2>2. page'[n] = "paid" /\ \A i \in Numbers \ {n} : page'[i] = page[i]
      BY <2>1 DEF Inv, TypeOK
    <2>3. /\ PaidFor(n)'
          /\ \A i \in Numbers \ {n} : PaidFor(i)' <=> PaidFor(i)
          /\ \A i \in Numbers : PaidFor(i) => PaidFor(i)'
      BY <2>1, <2>2 DEF PaidFor, Collected
    <2>4. Packs' = Packs /\ Granted' = Granted /\ sub'.minutes = sub.minutes
      BY <2>1 DEF dbVars, Packs, Granted, Issued
    <2>5. [Promise!Next]_(Promise!vars)
      BY <2>3, <2>4, MoneyTaken
    <2>6. ChargesRenew' /\ JobRenews' /\ PaidOrders'
      BY <2>1 DEF dbVars, Clean, ChargesRenew, JobRenews, PaidOrders, Issued
    <2>7. HeldKnows' /\ OrdersFollow'
      BY <2>1, <2>2, IssuedNumbers DEF dbVars, Inv, Named, HeldNames, Clean, HeldKnows, OrdersFollow, Collected
    <2>8. Earned'
      BY <2>1, <2>3, IssuedNumbers DEF dbVars, Inv, Clean, Earned, Issued
    <2> QED BY <2>5, <2>6, <2>7, <2>8 DEF Keeping, Clean
  <1>6. ASSUME NEW n \in Numbers, PageExpires(n)  PROVE Keeping
    <2>1. page[n] = "open" /\ page' = [ page EXCEPT ![n] = "expired" ] /\ UNCHANGED << dbVars, charges, held, job >>
      BY <1>6 DEF PageExpires
    <2>2. page'[n] = "expired" /\ \A i \in Numbers \ {n} : page'[i] = page[i]
      BY <2>1 DEF Inv, TypeOK
    <2>3. \A i \in Numbers : PaidFor(i)' <=> PaidFor(i)
      BY <2>1, <2>2 DEF PaidFor, Collected
    <2>4. Packs' = Packs /\ Granted' = Granted /\ sub'.minutes = sub.minutes
      BY <2>1 DEF dbVars, Packs, Granted, Issued
    <2>5. ChargesRenew' /\ JobRenews' /\ PaidOrders'
      BY <2>1 DEF dbVars, Clean, ChargesRenew, JobRenews, PaidOrders, Issued
    <2>6. HeldKnows' /\ OrdersFollow'
      BY <2>1, <2>2, IssuedNumbers DEF dbVars, Inv, Named, HeldNames, Clean, HeldKnows, OrdersFollow, Collected
    <2>7. Earned'
      BY <2>1, <2>3, IssuedNumbers DEF dbVars, Inv, Clean, Earned, Issued
    <2> QED BY <2>3, <2>4, <2>5, <2>6, <2>7, NothingPromised DEF Keeping, Clean
  <1>7. ASSUME NEW n \in Numbers, ApplyPaidOrder(n)  PROVE Keeping
    <2>1. /\ n \in Issued /\ invoices[n].kind \in OfOrders
          /\ page[n] = "paid" /\ orders[n] = "pending"
      BY <1>7 DEF Inv, Named, OrdersName, ApplyPaidOrder, Claimable, Clean, OrdersFollow
    <2>2. /\ Issued' = Issued
          /\ \A j \in Issued : invoices'[j].kind = invoices[j].kind
          /\ \A j \in Issued \ {n} : invoices'[j] = invoices[j]
          /\ invoices'[n].status = "paid"
      <3>1. MarkInvoice(n, "paid") /\ invoices \in Seq(Invoices)
        BY <1>7 DEF ApplyPaidOrder, Inv, TypeOK
      <3> QED BY <2>1, <3>1, MarkingKeeps
    <2>3. UNCHANGED << page, charges, held, job >> /\ orders'[n] = "paid" /\ \A i \in Numbers \ {n} : orders'[i] = orders[i]
      BY <1>7 DEF ApplyPaidOrder, gatewayVars, Inv, TypeOK
    <2>4. n \notin Granted
      BY <2>1 DEF Granted, Clean, PaidOrders
    <2>5. Packs' = Packs /\ Granted' = Granted \cup {n}
      BY <2>1, <2>2 DEF Packs, Granted
    <2>6. sub'.minutes = IF n \in Packs THEN sub.minutes + 1 ELSE sub.minutes
      BY <1>1, <1>7, <2>1 DEF ApplyPaidOrder, Bought, Subscriptions, OfOrders, Packs
    <2>7. PaidFor(n) /\ \A i \in Numbers : PaidFor(i)' <=> PaidFor(i)
      BY <2>1, <2>3 DEF PaidFor, Collected
    <2>8. [Promise!Next]_(Promise!vars)
      BY <2>1, <2>4, <2>5, <2>6, <2>7, HandedOver
    <2>9. ChargesRenew' /\ JobRenews' /\ HeldKnows'
      BY <2>2, <2>3 DEF Inv, Named, ChargesName, JobNames, Clean, ChargesRenew, JobRenews, HeldKnows, Collected
    <2>10. OrdersFollow' /\ PaidOrders' /\ Earned'
      BY <2>1, <2>2, <2>3, <2>7, IssuedNumbers DEF Inv, Clean, OrdersFollow, PaidOrders, Earned
    <2> QED BY <2>8, <2>9, <2>10 DEF Keeping, Clean
  <1>8. ASSUME NEW n \in Numbers, SyncOrder(n)  PROVE Keeping
    <2>1. HeldKnows'
      BY <1>8 DEF SyncOrder, Nothing, HeldKnows, gatewayVars
    <2> QED BY <1>8, <2>1, QuietKeeps DEF SyncOrder, dbVars, gatewayVars
  <1>9. CASE FailOrder
    <2> DEFINE n == held.inv
    <2>1. /\ n \in Issued /\ n \in Numbers /\ page[n] = "expired" /\ orders[n] # "none" /\ held' = Nothing
          /\ UNCHANGED << sub, page, charges, job >>
          /\ orders' = [ orders EXCEPT ![n] = "failed" ]
      BY <1>9, IssuedNumbers DEF FailOrder, Inv, Named, HeldNames, Clean, HeldKnows, gatewayVars
    <2>2. invoices[n].kind \in OfOrders /\ invoices[n].status # "paid"
      BY <2>1 DEF Inv, Named, OrdersName, Clean, PaidOrders, OrdersFollow
    <2>3. /\ Issued' = Issued
          /\ \A j \in Issued : invoices'[j].kind = invoices[j].kind
          /\ \A j \in Issued \ {n} : invoices'[j] = invoices[j]
          /\ invoices'[n].status # "paid"
      <3>1. CASE IsOpen(n)
        <4>1. MarkInvoice(n, "void") /\ invoices \in Seq(Invoices)
          BY <1>9, <3>1 DEF FailOrder, Inv, TypeOK
        <4> QED BY <2>1, <4>1, MarkingKeeps
      <3>2. CASE ~IsOpen(n)
        BY <1>9, <2>2, <3>2 DEF FailOrder, Issued
      <3> QED BY <3>1, <3>2
    <2> HIDE DEF n
    <2>4. orders'[n] = "failed" /\ \A i \in Numbers \ {n} : orders'[i] = orders[i]
      BY <2>1 DEF Inv, TypeOK
    <2>5. \A i \in Numbers : PaidFor(i)' <=> PaidFor(i)
      BY <2>1 DEF PaidFor, Collected
    <2>6. Packs' = Packs /\ Granted' = Granted /\ sub'.minutes = sub.minutes
      BY <2>1, <2>2, <2>3 DEF Packs, Granted
    <2>7. ChargesRenew' /\ JobRenews' /\ HeldKnows'
      BY <2>1, <2>3 DEF Inv, Named, ChargesName, JobNames, Clean, ChargesRenew, JobRenews, HeldKnows, Nothing
    <2>8. OrdersFollow' /\ PaidOrders' /\ Earned'
      BY <2>1, <2>3, <2>4, <2>5, IssuedNumbers DEF Inv, Clean, OrdersFollow, PaidOrders, Earned
    <2> QED BY <2>5, <2>6, <2>7, <2>8, NothingPromised DEF Keeping, Clean
  <1> QED BY <1>2, <1>3, <1>4, <1>5, <1>6, <1>7, <1>8, <1>9 DEF CheckoutNext

LEMMA StepPromise ==
  ASSUME Plain, Inv, Clean, [Next]_vars  PROVE Keeping
  <1>1. Inv'
    BY StepKeeps
  <1>2. CASE Tick \/ UNCHANGED vars
    BY <1>1, <1>2, QuietKeeps DEF Tick, vars, dbVars, gatewayVars
  <1> QED BY <1>1, <1>2, CheckoutPromise, CustomerPromise, BankPromise, ReportsPromise, RenewalsPromise
          DEF Next, AutoPayNext

LEMMA InitPromises ==
  ASSUME Plain, Init  PROVE Clean /\ Promise!Init
  <1>1. Inv /\ Issued = {}
    <2>1. invoices = << >>
      BY DEF Init
    <2> QED BY <2>1, InitHolds DEF Issued
  <1>2. Clean
    BY <1>1 DEF Init, Clean, ChargesRenew, JobRenews, HeldKnows, OrdersFollow, PaidOrders, Earned, JobIdle, Nothing
  <1>3. \A i \in Numbers : ~PaidFor(i)
    BY DEF Init, PaidFor, Collected
  <1>4. Taken = {}
    BY <1>1, <1>3, TakenIs DEF Inv
  <1>5. Packs = {} /\ Granted = {} /\ sub.minutes = 0
    BY <1>1 DEF Init, Packs, Granted
  <1> QED BY <1>2, <1>4, <1>5 DEF Promise!Init

\* Billing keeps what Purchases promises, step by step: what is granted has been paid for,
\* once and for good, when there is neither a paid sign-up nor a payment that goes through
\* after its page expired (applyPaidOrder, settleCharge).
THEOREM PurchasesAreKept ==
  ASSUME Plain  PROVE Spec => Promise!Safely
  <1>1. Init => Clean /\ Promise!Init
    BY InitPromises
  <1>2. Inv /\ Clean /\ [Next]_vars => Clean' /\ [Promise!Next]_(Promise!vars)
    BY StepPromise DEF Keeping
  <1> QED BY <1>1, <1>2, AlwaysInv, PTL DEF Spec, Promise!Safely

=============================================================================
