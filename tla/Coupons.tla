------------------------------ MODULE Coupons ------------------------------
(***************************************************************************)
(* Coupons: draft, scheduled, active, paused, ended; their caps; and their *)
(* redemption in the portal (coupons.ts, the portal's coupon route).  The  *)
(* redemption on a payment an admin records is in Ledger.                  *)
(***************************************************************************)
EXTENDS Tenancy

CONSTANTS
  Coupon,    \* the codes
  Offer,     \* [Coupon -> row] at the start; status "none" for a code nobody created
  Grants,    \* the codes that grant minutes; the others are a discount
  Caps       \* the caps people choose; no cap is one of as many as there are workspaces,
             \* for each redeems a code once

CouponStatuses == { "none", "draft", "scheduled", "active", "paused", "ended" }

ASSUME CouponAssumption ==
  /\ Grants \subseteq Coupon /\ Caps \subseteq Nat
  /\ \A c \in Coupon :
       Offer[c] \in [ status : CouponStatuses, started : BOOLEAN, expiry : {"never", "ahead", "past"}, cap : Nat ]

VARIABLES
  coupon,     \* the coupons rows; top (history): the highest cap a code ever had
  redeemed,   \* [Coupon -> [Workspaces -> ..]]: "no", "waiting" for a payment, "used"
  extra,      \* the extra minutes of each workspace's subscription, in packs
  dueCoupons  \* what the sweep means to write: [c : code, to : status]

couponVars == << coupon, redeemed, extra, dueCoupons >>

CouponsInit ==
  /\ coupon = [ c \in Coupon |->
       [ status |-> Offer[c].status, started |-> Offer[c].started, expiry |-> Offer[c].expiry,
         cap |-> Offer[c].cap, count |-> 0, top |-> Offer[c].cap ] ]
  /\ redeemed = [ c \in Coupon |-> [ w \in Workspaces |-> "no" ] ]
  /\ extra = [ w \in Workspaces |-> 0 ]
  /\ dueCoupons = {}

\* What the code is right now, even between sweeps.
Effective(row) ==
  IF row.status \in {"none", "draft", "paused", "ended"} THEN row.status
  ELSE IF row.expiry = "past" THEN "ended"
  ELSE IF ~row.started THEN "scheduled"
  ELSE "active"

ByItsDate(row) == IF row.started THEN "active" ELSE "scheduled"

Creates(c) ==
  /\ Somebody("coupons.manage") /\ Acts("create") /\ coupon[c].status = "none"
  /\ \E draft, started \in BOOLEAN, expiry \in {"never", "ahead"}, cap \in Caps :
       LET row == [ status |-> "draft", started |-> started, expiry |-> expiry,
                    cap |-> cap, count |-> 0, top |-> cap ]
       IN coupon' = [coupon EXCEPT ![c] = IF draft THEN row ELSE [row EXCEPT !.status = ByItsDate(row)]]
  /\ UNCHANGED << request, redeemed, extra, dueCoupons >>

NextStatuses(status) ==
  CASE status = "draft"     -> {"scheduled", "active", "ended"}
    [] status = "scheduled" -> {"paused", "ended", "active"}
    [] status = "active"    -> {"paused", "ended"}
    [] status = "paused"    -> {"active", "scheduled", "ended"}
    [] OTHER                -> {}

MoveOpens(q, c, to) ==
  /\ Somebody("coupons.manage")
  /\ coupon[c].status # "none" /\ to \in NextStatuses(Effective(coupon[c]))
  /\ Opens(q, "move", {c}, [ on |-> c, to |-> to ], coupon[c])
  /\ UNCHANGED couponVars

\* Resuming or scheduling lands on whichever the dates say.
Move(q) ==
  LET c == request[q].arg.on  to == request[q].arg.to IN
  /\ Doing(q, "move")
  /\ coupon' = [coupon EXCEPT ![c].status = IF to \in {"active", "scheduled"} THEN ByItsDate(coupon[c]) ELSE to]
  /\ Writes(q, {c}) /\ UNCHANGED << redeemed, extra, dueCoupons >>

CapsOpens(q, c, cap, expiry) ==
  /\ Somebody("coupons.manage")
  /\ coupon[c].status # "none" /\ Effective(coupon[c]) # "ended" /\ cap >= coupon[c].count
  /\ Opens(q, "caps", {c}, [ on |-> c, cap |-> cap, expiry |-> expiry ], coupon[c])
  /\ UNCHANGED couponVars

EditCaps(q) ==
  LET c == request[q].arg.on  cap == request[q].arg.cap IN
  /\ Doing(q, "caps")
  /\ coupon' = [coupon EXCEPT ![c].cap = cap, ![c].expiry = request[q].arg.expiry,
                              ![c].top = IF cap > @ THEN cap ELSE @]
  /\ Writes(q, {c}) /\ UNCHANGED << redeemed, extra, dueCoupons >>

----------------------------------------------------------------------------
(* Redeeming.                                                               *)

\* Mutation of Taken: the cap is compared with the count that was read.
TakenAsRead(c, w, saw) == saw.count < saw.cap /\ redeemed[c][w] = "no"

\* The place is taken in one statement, against the cap that was read, and a
\* subscription has one redemption of a code.
Taken(c, w, saw) == coupon[c].count < saw.cap /\ redeemed[c][w] = "no"

InUse(w) == ws[w].status \in Running

RedeemOpens(q, w, c) ==
  /\ InUse(w)
  /\ coupon[c].status = "active" /\ coupon[c].started /\ coupon[c].expiry # "past"
  /\ redeemed[c][w] = "no"
  /\ Opens(q, "redeem", {c}, [ on |-> c, for |-> w ], coupon[c])
  /\ UNCHANGED couponVars

Redeem(q) ==
  LET c == request[q].arg.on  w == request[q].arg.for IN
  /\ Doing(q, "redeem")
  /\ IF Taken(c, w, request[q].saw)
     THEN /\ coupon' = [coupon EXCEPT ![c].count = @ + 1]
          /\ redeemed' = [redeemed EXCEPT ![c][w] = "waiting"]
          /\ extra' = IF c \in Grants THEN [extra EXCEPT ![w] = @ + 1] ELSE extra
          /\ Writes(q, IF c \in Grants THEN {c, w} ELSE {c})
     ELSE GivesUp(q) /\ UNCHANGED << coupon, redeemed, extra >>
  /\ UNCHANGED dueCoupons

----------------------------------------------------------------------------
(* Time, and the sweep's half of the lifecycle.                             *)

StartComes(c) ==
  /\ coupon[c].status # "none" /\ ~coupon[c].started
  /\ coupon' = [coupon EXCEPT ![c].started = TRUE]
  /\ UNCHANGED << redeemed, extra, dueCoupons >>

ExpiryComes(c) ==
  /\ coupon[c].status # "none" /\ coupon[c].expiry = "ahead" /\ coupon[c].started
  /\ coupon' = [coupon EXCEPT ![c].expiry = "past"]
  /\ UNCHANGED << redeemed, extra, dueCoupons >>

Ends(c) == coupon[c].expiry = "past" /\ coupon[c].status \in {"draft", "scheduled", "active", "paused"}

CouponsToMove ==
  { [ c |-> c, to |-> "ended" ] : c \in { x \in Coupon : Ends(x) } } \union
  { [ c |-> c, to |-> "active" ] :
      c \in { x \in Coupon : coupon[x].status = "scheduled" /\ coupon[x].started /\ ~Ends(x) } }

\* Whatever has become of the code since the list was read.
SweepsCoupon(d) ==
  /\ d \in dueCoupons
  /\ coupon' = [coupon EXCEPT ![d.c].status = d.to]
  /\ dueCoupons' = dueCoupons \ {d}
  /\ SystemWrites({d.c}) /\ UNCHANGED << redeemed, extra >>

CouponStep ==
  \/ \E c \in Coupon : Creates(c)
  \/ \E q \in Starting("move"), c \in Coupon, to \in {"paused", "active", "scheduled", "ended"} : MoveOpens(q, c, to)
  \/ \E q \in Starting("caps"), c \in Coupon, cap \in Caps, expiry \in {"never", "ahead"} : CapsOpens(q, c, cap, expiry)
  \/ \E q \in Starting("redeem"), w \in Workspaces, c \in Coupon : RedeemOpens(q, w, c)
  \/ \E q \in Requests : Move(q) \/ EditCaps(q) \/ Redeem(q)
=============================================================================
