------------------------------ MODULE Billing ------------------------------
(***************************************************************************)
(* What one workspace's billing keeps in the database and what the payment *)
(* gateway knows of it, shared by Checkout (orders paid on the gateway's   *)
(* page) and AutoPay (renewals charged to a mandate).  A plan is its       *)
(* monthly price; an invoice is numbered by its place in the series.       *)
(***************************************************************************)
EXTENDS Integers, Sequences, FiniteSets

CONSTANTS
  Plans,        \* monthly prices
  Mandates,     \* attempts at authorising a mandate, ours (prt_) and
  Activations,  \*   those of a paid sign-up (pra_), which collect the first month
  Month,        \* days in a period
  DaysLeft,     \* days left of the first one
  RenewAhead,   \* billing.renew_ahead_days
  RetryDays,    \* billing.renewal_retry_days
  LastDay,      \* bound: the days modelled
  MaxInvoices,  \* bound: the invoices issued
  MaxTries,     \* bound: the charges sent for one invoice
  Starts,       \* the statuses the workspace may start in
  Faults        \* what may go wrong: "crash", "gateway",
                \*   "lost_answer", "late_payment"

ASSUME BillingAssumption ==
  /\ Plans \subseteq Nat \ {0} /\ Plans # {}
  /\ Activations \subseteq Mandates
  /\ Month \in Nat \ {0} /\ DaysLeft \in Nat /\ RenewAhead \in Nat /\ RetryDays \in Nat
  /\ LastDay \in Nat /\ MaxInvoices \in Nat /\ MaxTries \in Nat
  /\ Starts \subseteq {"trial", "pending_payment", "active"} /\ Starts # {}

VARIABLES
  today,      \* the day
  tenant,     \* the workspace: its status and plan
  sub,        \* its subscription; and, for the properties, whether a settlement that
              \*   another had overtaken has written over it
  invoices,   \* every invoice issued, in order
  payments,   \* the ledger row of each invoice
  orders,     \* the checkout order of each invoice
  page,       \* the gateway's payment page of each order
  methods,    \* the payment method row of each mandate
  bank,       \* the mandate as the gateway has it
  charges,    \* each charge sent for an invoice, as the gateway has it
  held,       \* what a transaction that has read but not yet written has seen
  job         \* the renewal run: where it is and what it has read

dbVars == << tenant, sub, invoices, payments, orders, methods >>
gatewayVars == << page, bank, charges >>
vars == << today, dbVars, gatewayVars, held, job >>

Numbers == 1..MaxInvoices
NoInvoice == 0
Never == -1
NoPlan == 0

\* Nothing read and not yet acted on, by a webhook or the return page; by the job.
Nothing == [ doing |-> "nothing", inv |-> NoInvoice, renewal |-> FALSE, wake |-> FALSE ]
JobIdle == [ at |-> "idle", inv |-> NoInvoice, plan |-> NoPlan ]

----------------------------------------------------------------------------
(* Reading the database.                                                    *)

Issued == DOMAIN invoices
IsOpen(i) == i \in Issued /\ invoices[i].status = "issued"
IsRenewal(i) == sub.renewal = i
HasActiveMandate == \E m \in Mandates : methods[m] = "active"

\* A workspace that has yet to pay its first month sees only the activation screen.
MembersIn == tenant.status # "pending_payment"

\* Money the gateway has taken for invoice i: on its page, by the
\* authorisation of an activation mandate, and by each charge.
Takings(i) ==
  (IF page[i] = "paid" THEN 1 ELSE 0)
  + Cardinality({ m \in Activations : bank[m].took /\ bank[m].inv = i })
  + Cardinality({ k \in DOMAIN charges[i] : charges[i][k].state = "collected" })

----------------------------------------------------------------------------
(* Writing it.                                                              *)

\* One month on.
NextPeriodEnd(from) == from + Month

\* An invoice is numbered from the count of those issued, under a lock every
\* issuer takes, so the series has no gap and no number twice.
NewInvoice(kind, plan, from, until) ==
  [ status |-> "issued", kind |-> kind, plan |-> plan, from |-> from, until |-> until ]
CanIssue == Len(invoices) < MaxInvoices
NextNumber == Len(invoices) + 1
IssueInvoice(kind, plan, from, until) ==
  invoices' = Append(invoices, NewInvoice(kind, plan, from, until))

MarkInvoice(i, status) == invoices' = [ invoices EXCEPT ![i].status = status ]
MarkPayment(i, status, retryAt) ==
  payments' = [ payments EXCEPT ![i] = [ status |-> status, retryAt |-> retryAt ] ]

----------------------------------------------------------------------------
Init ==
  /\ today = 0
  /\ \E s \in Starts, p \in Plans :
       /\ tenant = [ status |-> s, plan |-> p ]
       /\ sub = [ status |-> CASE s = "trial" -> "trialing"
                               [] s = "pending_payment" -> "past_due"
                               [] OTHER -> "active",
                  plan |-> p, start |-> 0, end |-> DaysLeft,
                  renewal |-> NoInvoice, cancelled |-> FALSE, minutes |-> 0,
                  overtaken |-> FALSE ]
  /\ invoices = << >>
  /\ payments = [ i \in Numbers |-> [ status |-> "none", retryAt |-> Never ] ]
  /\ orders = [ i \in Numbers |-> "none" ]
  /\ page = [ i \in Numbers |-> "none" ]
  /\ methods = [ m \in Mandates |-> "none" ]
  /\ bank = [ m \in Mandates |-> [ state |-> "none", inv |-> NoInvoice, took |-> FALSE ] ]
  /\ charges = [ i \in Numbers |-> << >> ]
  /\ held = Nothing
  /\ job = JobIdle

\* A day passes between two runs of the job and with no transaction open.
Tick ==
  /\ today < LastDay
  /\ held = Nothing
  /\ job = JobIdle
  /\ today' = today + 1
  /\ UNCHANGED << dbVars, gatewayVars, held, job >>
============================================================================
