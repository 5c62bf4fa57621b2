------------------------------- MODULE Ledger -------------------------------
(***************************************************************************)
(* The ledger admins keep by hand: charges that landed or failed, packs    *)
(* and goodwill, refunds, and the day of the next retry (payments-admin.ts, *)
(* ledger.ts, the first part of workspace-actions.ts).                     *)
(***************************************************************************)
EXTENDS Coupons, Integers

VARIABLE
  pay   \* the payments rows: kind, status, on (workspace), code, of (what a refund
        \* refunds), packs (extra minutes granted), invoice

NoCode == "no code"

\* No code is called so: the column of a payment without a code is empty.
ASSUME LedgerAssumption == NoCode \notin Coupon

PayRow(kind, status, w) ==
  [ kind |-> kind, status |-> status, on |-> w, code |-> NoCode, of |-> 0, packs |-> 0, invoice |-> "none" ]

\* A captured charge or pack has an invoice; goodwill and failures sold nothing.
Invoiced(row) == [row EXCEPT !.invoice = "paid"]

Granting(row) == [row EXCEPT !.packs = 1]

----------------------------------------------------------------------------
(* Charges.                                                                 *)

Chargeable(w) == ws[w].status \notin {"none", "deleted", "trial", "deleted_pending"}

FailOpens(q, w, retries) ==
  /\ Somebody("payments.record") /\ Chargeable(w)
  /\ Opens(q, "fail", {w}, [ on |-> w, retries |-> retries ], ws[w])
  /\ UNCHANGED << pay, ws, past, freed, coupon, redeemed, extra >>

\* A failed charge puts an active workspace past due.
Fail(q) ==
  LET w == request[q].arg.on IN
  /\ Doing(q, "fail")
  /\ pay' = Append(pay, PayRow("subscription", IF request[q].arg.retries THEN "scheduled_retry" ELSE "failed", w))
  /\ IF request[q].saw.status = "active" THEN Sets(w, [ws[w] EXCEPT !.status = "past_due"])
                                         ELSE UNCHANGED << ws, past >>
  /\ Writes(q, {w}) /\ UNCHANGED << freed, coupon, redeemed, extra >>

\* The code may be attached to a charge.
CodeFits(c, w) == Effective(coupon[c]) = "active" /\ c \notin Grants /\ redeemed[c][w] # "used"

ChargeOpens(q, w) ==
  /\ Somebody("payments.record") /\ Chargeable(w)
  /\ \/ Opens(q, "charge", {w}, [ on |-> w, code |-> NoCode ], [ status |-> ws[w].status ])
     \/ \E c \in Coupon :
          /\ CodeFits(c, w)
          /\ Opens(q, "charge", {w, c}, [ on |-> w, code |-> c ],
                   [ status |-> ws[w].status, coupon |-> coupon[c], redeemed |-> redeemed[c][w] ])
  /\ UNCHANGED << pay, ws, past, freed, coupon, redeemed, extra >>

\* A redemption made in the portal is attached; otherwise a place is taken.
Attaches(q) == request[q].saw.redeemed = "waiting"

Charge(q) ==
  LET w == request[q].arg.on  c == request[q].arg.code  saw == request[q].saw
      row == Invoiced(PayRow("subscription", "captured", w)) IN
  /\ Doing(q, "charge")
  /\ c # NoCode => (Attaches(q) \/ Taken(c, w, saw.coupon))
  /\ pay' = Append(pay, [row EXCEPT !.code = c])
  /\ IF c = NoCode THEN UNCHANGED << coupon, redeemed >>
     ELSE /\ redeemed' = [redeemed EXCEPT ![c][w] = "used"]
          /\ coupon' = IF Attaches(q) THEN coupon ELSE [coupon EXCEPT ![c].count = @ + 1]
  /\ IF saw.status = "past_due" THEN Sets(w, [ws[w] EXCEPT !.status = "active"]) ELSE UNCHANGED << ws, past >>
  /\ Writes(q, {w} \union ({c} \ {NoCode})) /\ UNCHANGED << freed, extra >>

\* The cap is reached, or the workspace redeemed the code meanwhile.
ChargeFails(q) ==
  LET c == request[q].arg.code IN
  /\ Doing(q, "charge") /\ c # NoCode
  /\ ~Attaches(q) /\ ~Taken(c, request[q].arg.on, request[q].saw.coupon)
  /\ GivesUp(q) /\ UNCHANGED << pay, ws, past, freed, coupon, redeemed, extra >>

----------------------------------------------------------------------------
(* Extra minutes.                                                           *)

\* A pack that was paid for, or goodwill, which Support may give too.
GrantOpens(q, w, kind) ==
  /\ Somebody(IF kind = "goodwill" THEN "workspace.grant_goodwill" ELSE "workspace.add_pack")
  /\ ws[w].status \in Open
  /\ Opens(q, "grant", {}, [ on |-> w, kind |-> kind ], ws[w])
  /\ UNCHANGED << pay, ws, past, freed, coupon, redeemed, extra >>

Grant(q) ==
  LET w == request[q].arg.on
      row == Granting(PayRow(request[q].arg.kind, "captured", w)) IN
  /\ Doing(q, "grant")
  /\ extra' = [extra EXCEPT ![w] = @ + 1]
  /\ pay' = Append(pay, IF row.kind = "top_up" THEN Invoiced(row) ELSE row)
  /\ Writes(q, {w}) /\ UNCHANGED << ws, past, freed, coupon, redeemed >>

----------------------------------------------------------------------------
(* Refunds and retries.                                                     *)

\* Mutation of Refundable: a refunded payment may be refunded.
EverCaptured(p) == pay[p].status \in {"captured", "refunded"} /\ pay[p].kind \in {"subscription", "top_up"}

\* What can be refunded; the published policy is kept by the admin who attests.
Refundable(p) == pay[p].status = "captured" /\ pay[p].kind \in {"subscription", "top_up"}

RefundOpens(q, p) ==
  /\ Somebody("payments.refund") /\ Refundable(p)
  /\ Opens(q, "refund", {pay[p].on}, p, NoRequest)
  /\ UNCHANGED << pay, ws, past, freed, coupon, redeemed, extra >>

\* The payment's row is written first, which keeps a second refund waiting;
\* then the subscription is read.
RefundReads(q) ==
  LET p == request[q].arg IN
  /\ Doing(q, "refund") /\ request[q].saw = NoRequest
  /\ \A r \in Requests : (Doing(r, "refund") /\ request[r].arg = p) => request[r].saw = NoRequest
  /\ request' = [request EXCEPT ![q].saw = [ extra |-> extra[pay[p].on] ]]
  /\ UNCHANGED << tasks, acts, crossed, pay, ws, past, freed, coupon, redeemed, extra >>

\* Mutation of TakenBack: the minutes may already be gone.
TakenFromNothing(p, saw) == saw.extra - pay[p].packs

\* A refunded pack takes its minutes back with it.
TakenBack(p, saw) == IF saw.extra >= pay[p].packs THEN saw.extra - pay[p].packs ELSE 0

Refund(q) ==
  LET p == request[q].arg  w == pay[p].on
      voided == [pay EXCEPT ![p].status = "refunded", ![p].invoice = "void"] IN
  /\ Doing(q, "refund") /\ request[q].saw # NoRequest
  /\ pay' = Append(voided, [PayRow("refund", "captured", w) EXCEPT !.of = p])
  /\ extra' = IF pay[p].packs > 0 THEN [extra EXCEPT ![w] = TakenBack(p, request[q].saw)] ELSE extra
  /\ Writes(q, {w}) /\ UNCHANGED << ws, past, freed, coupon, redeemed >>

RetryOpens(q, p, retries) ==
  /\ Somebody("payments.record") /\ pay[p].status \in {"failed", "scheduled_retry"}
  /\ Opens(q, "retry", {}, [ on |-> p, retries |-> retries ], pay[p])
  /\ UNCHANGED << pay, ws, past, freed, coupon, redeemed, extra >>

Retry(q) ==
  /\ Doing(q, "retry")
  /\ pay' = [pay EXCEPT ![request[q].arg.on].status = IF request[q].arg.retries THEN "scheduled_retry" ELSE "failed"]
  /\ Writes(q, {}) /\ UNCHANGED << ws, past, freed, coupon, redeemed, extra >>

LedgerStep ==
  \/ \E q \in Starting("fail"), w \in Workspaces, retries \in BOOLEAN : FailOpens(q, w, retries)
  \/ \E q \in Starting("charge"), w \in Workspaces : ChargeOpens(q, w)
  \/ \E q \in Starting("grant"), w \in Workspaces, kind \in {"top_up", "goodwill"} : GrantOpens(q, w, kind)
  \/ \E q \in Starting("refund"), p \in DOMAIN pay : RefundOpens(q, p)
  \/ \E q \in Starting("retry"), p \in DOMAIN pay, retries \in BOOLEAN : RetryOpens(q, p, retries)
  \/ \E q \in Requests :
       Fail(q) \/ Charge(q) \/ ChargeFails(q) \/ Grant(q) \/ RefundReads(q) \/ Refund(q) \/ Retry(q)
=============================================================================
