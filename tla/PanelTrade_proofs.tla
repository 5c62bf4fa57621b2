------------------------- MODULE PanelTrade_proofs -------------------------
(***************************************************************************)
(* Theorems about Panel, for any number of requests, codes, payments,      *)
(* prices, prompts and entries: the codes keep to their caps, the ledger   *)
(* and the minutes agree, what is published stands and is what the site    *)
(* shows; and the types of all its tables.  They rest on the lemmas of     *)
(* Panel_proofs about requests and desks.                                  *)
(***************************************************************************)
EXTENDS Panel_proofs, WellFoundedInduction

----------------------------------------------------------------------------
(* Coupons: a code keeps to its cap.                                        *)

\* What a row consists of.
CouponRow(row) ==
  /\ row = [ status |-> row.status, started |-> row.started, expiry |-> row.expiry,
             cap |-> row.cap, count |-> row.count, top |-> row.top ]
  /\ row.cap \in Nat /\ row.count \in Nat /\ row.top \in Nat
  /\ row.cap <= row.top /\ row.count <= row.top

\* The code was created, and stays so.
Issued(c) == c \in Coupon /\ coupon[c].status # "none"

\* What a request may rely on, overtaken or not: it compares with a cap the code
\* once had, and a redemption it found is not taken back.
CouponRequest(r) ==
  /\ r.doing = "move" => Issued(r.arg.on) /\ r.arg.to # "none"
  /\ r.doing = "caps" => Issued(r.arg.on) /\ r.arg.cap \in Nat
  /\ r.doing = "redeem" =>
       /\ Issued(r.arg.on) /\ r.arg.for \in Workspaces
       /\ r.saw.cap \in Nat /\ r.saw.cap <= coupon[r.arg.on].top
  /\ (r.doing = "charge" /\ r.arg.code # NoCode) =>
       /\ Issued(r.arg.code) /\ r.arg.on \in Workspaces
       /\ r.saw.coupon.cap \in Nat /\ r.saw.coupon.cap <= coupon[r.arg.code].top
       /\ r.saw.redeemed = "waiting" => redeemed[r.arg.code][r.arg.on] # "no"

CouponRows ==
  /\ coupon = [ c \in Coupon |-> coupon[c] ] /\ \A c \in Coupon : CouponRow(coupon[c])
  /\ redeemed = [ c \in Coupon |-> [ w \in Workspaces |-> redeemed[c][w] ] ]
  /\ \A d \in dueCoupons : d.c \in Coupon /\ d.to # "none"

\* The count is the number of redemptions; a code nobody created has none.
Counted ==
  \A c \in Coupon :
    /\ IsFiniteSet(Redeemers(c)) /\ coupon[c].count = Cardinality(Redeemers(c))
    /\ coupon[c].status = "none" => Redeemers(c) = {}

CouponInv ==
  /\ CouponRows /\ Counted
  /\ \A q \in Requests : CouponRequest(request[q])

\* The requests that rely on coupons.
CouponReaders == CouponTasks \union {"charge"}

\* Codes change, and stay created; caps that were once allowed and redemptions stay.
LEMMA CouponRequestsHold ==
  ASSUME \A q \in Requests : CouponRequest(request[q]), NEW some, Touches(some), some \cap CouponReaders = {},
         \A c \in Coupon : Issued(c) => Issued(c)' /\ coupon'[c].top \in Nat /\ coupon[c].top \in Nat
                                        /\ coupon[c].top <= coupon'[c].top,
         \A c \in Coupon, w \in Workspaces : redeemed[c][w] # "no" => redeemed'[c][w] # "no"
  PROVE  \A q \in Requests : CouponRequest(request[q])'
<1> SUFFICES ASSUME NEW q \in Requests PROVE CouponRequest(request[q])'
  OBVIOUS
<1>1. CASE request'[q] = NoRequest
  BY <1>1, NothingIsOpen DEF CouponRequest
<1>2. CASE request'[q].doing \in some
  <2>1. request'[q].doing \notin {"move", "caps", "redeem", "charge"}
    BY <1>2 DEF CouponReaders, CouponTasks
  <2> QED
    BY <2>1 DEF CouponRequest
<1>3. CASE Stays(q)
  <2>1. /\ request'[q].doing = request[q].doing
        /\ request'[q].arg = request[q].arg /\ request'[q].saw = request[q].saw
    BY <1>3 DEF Stays
  <2>2. CouponRequest(request[q])
    OBVIOUS
  <2>3. \A c : Issued(c) => c \in Coupon
    BY DEF Issued
  <2> QED
    BY <2>1, <2>2, <2>3 DEF CouponRequest
<1> QED
  BY <1>1, <1>2, <1>3 DEF Touches

\* Coupons are left alone.
LEMMA CouponsAside ==
  ASSUME CouponInv, NEW some, Touches(some), some \cap CouponReaders = {},
         coupon' = coupon, redeemed' = redeemed, \A d \in dueCoupons' : d.c \in Coupon /\ d.to # "none"
  PROVE  CouponInv'
<1>1. CouponRows' /\ Counted'
  BY DEF CouponInv, CouponRows, CouponRow, Counted, Redeemers
<1>2. \A c \in Coupon : coupon[c].top \in Nat /\ coupon[c].top <= coupon[c].top
  BY DEF CouponInv, CouponRows, CouponRow
<1>3. \A q \in Requests : CouponRequest(request[q])'
  BY <1>2, CouponRequestsHold DEF CouponInv, Issued
<1> QED
  BY <1>1, <1>3 DEF CouponInv

\* A row is rewritten: what it counts and what it ever allowed stay or grow.
LEMMA CouponRewritten ==
  ASSUME CouponInv, NEW some, Touches(some), some \cap CouponReaders = {},
         NEW c \in Coupon, NEW row, coupon' = [coupon EXCEPT ![c] = row], CouponRow(row),
         row.count = coupon[c].count,
         coupon[c].status # "none" => row.status # "none" /\ coupon[c].top <= row.top,
         row.status = "none" => coupon[c].status = "none",
         redeemed' = redeemed, \A d \in dueCoupons' : d.c \in Coupon /\ d.to # "none"
  PROVE  CouponInv'
<1>1. /\ coupon'[c] = row /\ \A x \in Coupon \ {c} : coupon'[x] = coupon[x]
      /\ coupon' = [ x \in Coupon |-> coupon'[x] ]
  BY DEF CouponInv, CouponRows
<1>2. CouponRows'
  <2>1. \A x \in Coupon : CouponRow(coupon[x])'
    BY <1>1 DEF CouponInv, CouponRows, CouponRow
  <2>2. (redeemed = [ x \in Coupon |-> [ w \in Workspaces |-> redeemed[x][w] ] ])'
    BY DEF CouponInv, CouponRows
  <2> QED
    BY <1>1, <2>1, <2>2 DEF CouponRows
<1>3. Counted'
  <2>1. \A x \in Coupon : Redeemers(x)' = Redeemers(x)
    BY DEF Redeemers
  <2> QED
    BY <1>1, <2>1 DEF CouponInv, Counted
<1>4. \A q \in Requests : CouponRequest(request[q])'
  <2>1. \A x \in Coupon :
          Issued(x) => coupon[x].top \in Nat /\ coupon'[x].top \in Nat /\ coupon[x].top <= coupon'[x].top
    BY <1>1, <1>2 DEF CouponInv, CouponRows, CouponRow, Issued
  <2>2. \A x \in Coupon : Issued(x) => Issued(x)'
    BY <1>1 DEF Issued
  <2> QED
    BY <2>1, <2>2, CouponRequestsHold DEF CouponInv
<1> QED
  BY <1>2, <1>3, <1>4 DEF CouponInv

\* A place is taken, against a cap that the code had once.
LEMMA PlaceTaken ==
  ASSUME CouponInv, NEW some, Touches(some), some \cap CouponReaders = {},
         NEW c \in Coupon, NEW w \in Workspaces, NEW cap \in Nat, cap <= coupon[c].top,
         coupon[c].count < cap, redeemed[c][w] = "no", coupon[c].status # "none",
         NEW how, how # "no",
         coupon' = [coupon EXCEPT ![c].count = @ + 1],
         redeemed' = [redeemed EXCEPT ![c][w] = how],
         \A d \in dueCoupons' : d.c \in Coupon /\ d.to # "none"
  PROVE  CouponInv'
<1>1. PICK row : row = coupon[c]
  OBVIOUS
<1>2. CouponRow(row)
  BY <1>1 DEF CouponInv, CouponRows
<1>3. PICK next : next = [ status |-> row.status, started |-> row.started, expiry |-> row.expiry,
                           cap |-> row.cap, count |-> row.count + 1, top |-> row.top ]
  OBVIOUS
<1>4. [row EXCEPT !.count = @ + 1] = next
  BY <1>2, <1>3 DEF CouponRow
<1>5. coupon' = [coupon EXCEPT ![c] = next]
  BY <1>1, <1>4
<1>6. /\ next.status = row.status /\ next.started = row.started /\ next.expiry = row.expiry
      /\ next.cap = row.cap /\ next.count = row.count + 1 /\ next.top = row.top
  BY <1>3
<1>7. CouponRow(next)
  BY <1>1, <1>2, <1>3, <1>6 DEF CouponRow
<1>8. /\ coupon'[c] = next /\ \A x \in Coupon \ {c} : coupon'[x] = coupon[x]
      /\ coupon' = [ x \in Coupon |-> coupon'[x] ]
  BY <1>5 DEF CouponInv, CouponRows
<1>9. /\ redeemed' = [ x \in Coupon |-> [ v \in Workspaces |-> redeemed'[x][v] ] ]
      /\ \A x \in Coupon, v \in Workspaces : redeemed'[x][v] = IF x = c /\ v = w THEN how ELSE redeemed[x][v]
  <2>1. PICK old : old = redeemed[c]
    OBVIOUS
  <2>2. old = [ v \in Workspaces |-> old[v] ]
    BY <2>1 DEF CouponInv, CouponRows
  <2>3. PICK new : new = [old EXCEPT ![w] = how]
    OBVIOUS
  <2>4. new = [ v \in Workspaces |-> new[v] ] /\ \A v \in Workspaces : new[v] = IF v = w THEN how ELSE old[v]
    BY <2>2, <2>3
  <2>5. redeemed' = [redeemed EXCEPT ![c] = new]
    BY <2>1, <2>3
  <2>6. redeemed'[c] = new /\ \A x \in Coupon \ {c} : redeemed'[x] = redeemed[x]
    BY <2>5 DEF CouponInv, CouponRows
  <2>7. redeemed' = [ x \in Coupon |-> redeemed'[x] ]
    BY <2>5 DEF CouponInv, CouponRows
  <2>8. \A x \in Coupon : redeemed[x] = [ v \in Workspaces |-> redeemed[x][v] ]
    BY DEF CouponInv, CouponRows
  <2>9. \A x \in Coupon : redeemed'[x] = [ v \in Workspaces |-> redeemed'[x][v] ]
    BY <2>4, <2>6, <2>8
  <2>10. redeemed' = [ x \in Coupon |-> [ v \in Workspaces |-> redeemed'[x][v] ] ]
    BY <2>7, <2>9
  <2>11. \A v \in Workspaces : redeemed'[c][v] = IF v = w THEN how ELSE redeemed[c][v]
    BY <2>1, <2>4, <2>6
  <2>12. \A x \in Coupon \ {c}, v \in Workspaces : redeemed'[x][v] = redeemed[x][v]
    BY <2>6
  <2> QED
    BY <2>10, <2>11, <2>12
<1>10. CouponRows'
  <2>1. \A x \in Coupon : CouponRow(coupon[x])'
    BY <1>7, <1>8 DEF CouponInv, CouponRows, CouponRow
  <2> QED
    BY <1>8, <1>9, <2>1 DEF CouponRows
<1>11. Counted'
  <2>1. Redeemers(c)' = Redeemers(c) \union {w} /\ w \notin Redeemers(c)
    BY <1>9 DEF Redeemers
  <2>2. \A x \in Coupon \ {c} : Redeemers(x)' = Redeemers(x)
    BY <1>9 DEF Redeemers
  <2>3. IsFiniteSet(Redeemers(c)) /\ coupon[c].count = Cardinality(Redeemers(c))
    BY DEF CouponInv, Counted
  <2>4. IsFiniteSet(Redeemers(c) \union {w}) /\ Cardinality(Redeemers(c) \union {w}) = Cardinality(Redeemers(c)) + 1
    BY <2>1, <2>3, FS_AddElement
  <2>5. IsFiniteSet(Redeemers(c)') /\ coupon'[c].count = Cardinality(Redeemers(c)') /\ coupon'[c].status # "none"
    BY <1>1, <1>6, <1>8, <2>1, <2>3, <2>4
  <2>6. \A x \in Coupon \ {c} :
          /\ IsFiniteSet(Redeemers(x)') /\ coupon'[x].count = Cardinality(Redeemers(x)')
          /\ coupon'[x].status = "none" => Redeemers(x)' = {}
    BY <1>8, <2>2 DEF CouponInv, Counted
  <2> QED
    BY <2>5, <2>6 DEF Counted
<1>12. \A q \in Requests : CouponRequest(request[q])'
  <2>1. \A x \in Coupon : coupon[x].top \in Nat /\ coupon'[x].top \in Nat /\ coupon[x].top <= coupon'[x].top
    BY <1>1, <1>2, <1>6, <1>8 DEF CouponInv, CouponRows, CouponRow
  <2>2. \A x \in Coupon : Issued(x) => Issued(x)'
    BY <1>1, <1>6, <1>8 DEF Issued
  <2>3. \A x \in Coupon, v \in Workspaces : redeemed[x][v] # "no" => redeemed'[x][v] # "no"
    BY <1>9
  <2> QED
    BY <2>1, <2>2, <2>3, CouponRequestsHold DEF CouponInv
<1> QED
  BY <1>10, <1>11, <1>12 DEF CouponInv

\* A redemption that is there is used.
LEMMA RedemptionUsed ==
  ASSUME CouponInv, NEW some, Touches(some), some \cap CouponReaders = {},
         NEW c \in Coupon, NEW w \in Workspaces, redeemed[c][w] # "no",
         coupon' = coupon, redeemed' = [redeemed EXCEPT ![c][w] = "used"],
         \A d \in dueCoupons' : d.c \in Coupon /\ d.to # "none"
  PROVE  CouponInv'
<1>1. /\ redeemed' = [ x \in Coupon |-> [ v \in Workspaces |-> redeemed'[x][v] ] ]
      /\ \A x \in Coupon, v \in Workspaces : redeemed'[x][v] = IF x = c /\ v = w THEN "used" ELSE redeemed[x][v]
  <2>1. PICK old : old = redeemed[c]
    OBVIOUS
  <2>2. old = [ v \in Workspaces |-> old[v] ]
    BY <2>1 DEF CouponInv, CouponRows
  <2>3. PICK new : new = [old EXCEPT ![w] = "used"]
    OBVIOUS
  <2>4. new = [ v \in Workspaces |-> new[v] ] /\ \A v \in Workspaces : new[v] = IF v = w THEN "used" ELSE old[v]
    BY <2>2, <2>3
  <2>5. redeemed' = [redeemed EXCEPT ![c] = new]
    BY <2>1, <2>3
  <2>6. redeemed'[c] = new /\ \A x \in Coupon \ {c} : redeemed'[x] = redeemed[x]
    BY <2>5 DEF CouponInv, CouponRows
  <2>7. redeemed' = [ x \in Coupon |-> redeemed'[x] ]
    BY <2>5 DEF CouponInv, CouponRows
  <2>8. \A x \in Coupon : redeemed[x] = [ v \in Workspaces |-> redeemed[x][v] ]
    BY DEF CouponInv, CouponRows
  <2>9. \A x \in Coupon : redeemed'[x] = [ v \in Workspaces |-> redeemed'[x][v] ]
    BY <2>4, <2>6, <2>8
  <2>10. redeemed' = [ x \in Coupon |-> [ v \in Workspaces |-> redeemed'[x][v] ] ]
    BY <2>7, <2>9
  <2>11. \A v \in Workspaces : redeemed'[c][v] = IF v = w THEN "used" ELSE redeemed[c][v]
    BY <2>1, <2>4, <2>6
  <2>12. \A x \in Coupon \ {c}, v \in Workspaces : redeemed'[x][v] = redeemed[x][v]
    BY <2>6
  <2> QED
    BY <2>10, <2>11, <2>12
<1>2. CouponRows'
  BY <1>1 DEF CouponInv, CouponRows, CouponRow
<1>3. Counted'
  <2>1. \A x \in Coupon : Redeemers(x)' = Redeemers(x)
    BY <1>1 DEF Redeemers
  <2> QED
    BY <2>1 DEF CouponInv, Counted
<1>4. \A q \in Requests : CouponRequest(request[q])'
  <2>1. \A x \in Coupon : coupon[x].top \in Nat /\ coupon[x].top <= coupon[x].top
    BY DEF CouponInv, CouponRows, CouponRow
  <2>2. \A x \in Coupon, v \in Workspaces : redeemed[x][v] # "no" => redeemed'[x][v] # "no"
    BY <1>1
  <2> QED
    BY <2>1, <2>2, CouponRequestsHold DEF CouponInv, Issued
<1> QED
  BY <1>2, <1>3, <1>4 DEF CouponInv

\* A request of this desk opens.
LEMMA CouponRequestOpens ==
  ASSUME CouponInv, Shape, NEW q, NEW what, what # "nothing", NEW about, NEW arg, NEW saw,
         Opens(q, what, about, arg, saw),
         coupon' = coupon, redeemed' = redeemed, dueCoupons' = dueCoupons,
         CouponRequest([ doing |-> what, about |-> about, arg |-> arg, saw |-> saw, overtaken |-> FALSE ])
  PROVE  CouponInv'
<1> DEFINE r == [ doing |-> what, about |-> about, arg |-> arg, saw |-> saw, overtaken |-> FALSE ]
<1>1. q \in Requests /\ request'[q] = r /\ \A p \in Requests \ {q} : request'[p] = request[p]
  BY OpensOne
<1> HIDE DEF r
<1>2. ASSUME NEW p \in Requests PROVE CouponRequest(request[p])'
  <2>1. CASE p = q
    <3>1. CouponRequest(r)'
      BY DEF CouponRequest, Issued, r
    <3> QED
      BY <1>1, <2>1, <3>1
  <2>2. CASE p # q
    <3>1. request'[p] = request[p] /\ CouponRequest(request[p])
      BY <1>1, <2>2 DEF CouponInv
    <3> QED
      BY <3>1 DEF CouponRequest, Issued
  <2> QED
    BY <2>1, <2>2
<1>3. CouponRows' /\ Counted'
  BY DEF CouponInv, CouponRows, CouponRow, Counted, Redeemers
<1> QED
  BY <1>2, <1>3 DEF CouponInv

\* What the statements make of a row.
LEMMA CouponRowSet ==
  ASSUME NEW row, CouponRow(row), NEW x
  PROVE  /\ [row EXCEPT !.status = x] = [ status |-> x, started |-> row.started, expiry |-> row.expiry,
                                          cap |-> row.cap, count |-> row.count, top |-> row.top ]
         /\ [row EXCEPT !.started = x] = [ status |-> row.status, started |-> x, expiry |-> row.expiry,
                                           cap |-> row.cap, count |-> row.count, top |-> row.top ]
         /\ [row EXCEPT !.expiry = x] = [ status |-> row.status, started |-> row.started, expiry |-> x,
                                          cap |-> row.cap, count |-> row.count, top |-> row.top ]
         /\ [row EXCEPT !.cap = x] = [ status |-> row.status, started |-> row.started, expiry |-> row.expiry,
                                       cap |-> x, count |-> row.count, top |-> row.top ]
         /\ [row EXCEPT !.top = x] = [ status |-> row.status, started |-> row.started, expiry |-> row.expiry,
                                       cap |-> row.cap, count |-> row.count, top |-> x ]
  BY DEF CouponRow

\* Its status moves, but never back to not being there; or its dates come.
LEMMA CouponMoves ==
  ASSUME CouponInv, NEW some, Touches(some), some \cap CouponReaders = {}, NEW c \in Coupon,
         redeemed' = redeemed, \A d \in dueCoupons' : d.c \in Coupon /\ d.to # "none",
         \/ \E to : to # "none" /\ coupon' = [coupon EXCEPT ![c].status = to]
         \/ \E x : coupon' = [coupon EXCEPT ![c].started = x]
         \/ \E x : coupon' = [coupon EXCEPT ![c].expiry = x]
  PROVE  CouponInv'
<1>1. PICK row : row = coupon[c]
  OBVIOUS
<1>2. CouponRow(row)
  BY <1>1 DEF CouponInv, CouponRows
<1>3. PICK next :
        /\ coupon' = [coupon EXCEPT ![c] = next]
        /\ next = [ status |-> next.status, started |-> next.started, expiry |-> next.expiry,
                    cap |-> row.cap, count |-> row.count, top |-> row.top ]
        /\ next.status = "none" => row.status = "none"
  <2>1. CASE \E to : to # "none" /\ coupon' = [coupon EXCEPT ![c].status = to]
    <3>1. PICK to : to # "none" /\ coupon' = [coupon EXCEPT ![c].status = to]
      BY <2>1
    <3>2. PICK next : next = [ status |-> to, started |-> row.started, expiry |-> row.expiry,
                               cap |-> row.cap, count |-> row.count, top |-> row.top ]
      OBVIOUS
    <3>3. [row EXCEPT !.status = to] = next
      BY <1>2, <3>2, CouponRowSet
    <3>4. coupon' = [coupon EXCEPT ![c] = next]
      BY <1>1, <3>1, <3>3
    <3>5. next.status = to /\ next.started = row.started /\ next.expiry = row.expiry
      BY <3>2
    <3> QED
      BY <3>1, <3>2, <3>4, <3>5
  <2>2. CASE \E x : coupon' = [coupon EXCEPT ![c].started = x]
    <3>1. PICK x : coupon' = [coupon EXCEPT ![c].started = x]
      BY <2>2
    <3>2. PICK next : next = [ status |-> row.status, started |-> x, expiry |-> row.expiry,
                               cap |-> row.cap, count |-> row.count, top |-> row.top ]
      OBVIOUS
    <3>3. [row EXCEPT !.started = x] = next
      BY <1>2, <3>2, CouponRowSet
    <3>4. coupon' = [coupon EXCEPT ![c] = next]
      BY <1>1, <3>1, <3>3
    <3>5. next.status = row.status /\ next.started = x /\ next.expiry = row.expiry
      BY <3>2
    <3> QED
      BY <3>2, <3>4, <3>5
  <2>3. CASE \E x : coupon' = [coupon EXCEPT ![c].expiry = x]
    <3>1. PICK x : coupon' = [coupon EXCEPT ![c].expiry = x]
      BY <2>3
    <3>2. PICK next : next = [ status |-> row.status, started |-> row.started, expiry |-> x,
                               cap |-> row.cap, count |-> row.count, top |-> row.top ]
      OBVIOUS
    <3>3. [row EXCEPT !.expiry = x] = next
      BY <1>2, <3>2, CouponRowSet
    <3>4. coupon' = [coupon EXCEPT ![c] = next]
      BY <1>1, <3>1, <3>3
    <3>5. next.status = row.status /\ next.started = row.started /\ next.expiry = x
      BY <3>2
    <3> QED
      BY <3>2, <3>4, <3>5
  <2> QED
    BY <2>1, <2>2, <2>3
<1>4. next.cap = row.cap /\ next.count = row.count /\ next.top = row.top
  BY <1>3
<1>5. CouponRow(next)
  BY <1>2, <1>3, <1>4 DEF CouponRow
<1>6. row.top <= next.top
  BY <1>2, <1>4 DEF CouponRow
<1> QED
  BY <1>1, <1>3, <1>4, <1>5, <1>6, CouponRewritten

\* The caps are edited: what was ever allowed is remembered.
LEMMA CapsEdited ==
  ASSUME CouponInv, NEW some, Touches(some), some \cap CouponReaders = {}, NEW c \in Coupon,
         coupon[c].status # "none", NEW cap \in Nat, NEW expiry,
         coupon' = [coupon EXCEPT ![c].cap = cap, ![c].expiry = expiry, ![c].top = IF cap > @ THEN cap ELSE @],
         redeemed' = redeemed, dueCoupons' = dueCoupons
  PROVE  CouponInv'
<1>1. PICK row : row = coupon[c]
  OBVIOUS
<1>2. CouponRow(row)
  BY <1>1 DEF CouponInv, CouponRows
<1>3. PICK top : top = IF cap > row.top THEN cap ELSE row.top
  OBVIOUS
<1>4. PICK one : one = [ status |-> row.status, started |-> row.started, expiry |-> row.expiry,
                         cap |-> cap, count |-> row.count, top |-> row.top ]
  OBVIOUS
<1>5. PICK two : two = [ status |-> row.status, started |-> row.started, expiry |-> expiry,
                         cap |-> cap, count |-> row.count, top |-> row.top ]
  OBVIOUS
<1>6. PICK next : next = [ status |-> row.status, started |-> row.started, expiry |-> expiry,
                           cap |-> cap, count |-> row.count, top |-> top ]
  OBVIOUS
<1>7. [row EXCEPT !.cap = cap] = one /\ [one EXCEPT !.expiry = expiry] = two /\ [two EXCEPT !.top = top] = next
  BY <1>2, <1>4, <1>5, <1>6 DEF CouponRow
<1>8. c \in DOMAIN coupon
  BY DEF CouponInv, CouponRows
<1>9. [coupon EXCEPT ![c].cap = cap] = [coupon EXCEPT ![c] = one]
  BY <1>1, <1>7
<1>10. [coupon EXCEPT ![c].cap = cap, ![c].expiry = expiry] = [coupon EXCEPT ![c] = two]
  BY <1>7, <1>8, <1>9
<1>11. two.top = row.top
  BY <1>5
<1>12. [coupon EXCEPT ![c].cap = cap, ![c].expiry = expiry, ![c].top = IF cap > @ THEN cap ELSE @]
         = [coupon EXCEPT ![c] = next]
  <2>1. PICK both : both = [coupon EXCEPT ![c] = two]
    OBVIOUS
  <2>2. both[c] = two /\ c \in DOMAIN both
    BY <1>8, <2>1
  <2>3. [both EXCEPT ![c].top = IF cap > @ THEN cap ELSE @] = [both EXCEPT ![c] = [two EXCEPT !.top = top]]
    BY <1>3, <1>11, <2>2
  <2>4. [both EXCEPT ![c] = next] = [coupon EXCEPT ![c] = next]
    BY <2>1
  <2>5. [coupon EXCEPT ![c].cap = cap, ![c].expiry = expiry, ![c].top = IF cap > @ THEN cap ELSE @]
          = [[coupon EXCEPT ![c].cap = cap, ![c].expiry = expiry] EXCEPT ![c].top = IF cap > @ THEN cap ELSE @]
    OBVIOUS
  <2>6. [[coupon EXCEPT ![c].cap = cap, ![c].expiry = expiry] EXCEPT ![c].top = IF cap > @ THEN cap ELSE @]
          = [both EXCEPT ![c].top = IF cap > @ THEN cap ELSE @]
    BY <1>10, <2>1
  <2> QED
    BY <1>7, <2>3, <2>4, <2>5, <2>6
<1>13. coupon' = [coupon EXCEPT ![c] = next]
  BY <1>12
<1>14. next.status = row.status /\ next.cap = cap /\ next.count = row.count /\ next.top = top
  BY <1>6
<1>15. top \in Nat /\ cap <= top /\ row.top <= top
  BY <1>2, <1>3 DEF CouponRow
<1>16. CouponRow(next)
  <2>1. next = [ status |-> next.status, started |-> next.started, expiry |-> next.expiry,
                 cap |-> next.cap, count |-> next.count, top |-> next.top ]
    BY <1>6
  <2> QED
    BY <1>2, <1>14, <1>15, <2>1 DEF CouponRow
<1>17. \A d \in dueCoupons' : d.c \in Coupon /\ d.to # "none"
  BY DEF CouponInv, CouponRows
<1> QED
  BY <1>1, <1>13, <1>14, <1>15, <1>16, <1>17, CouponRewritten

LEMMA ACodeIsCreated ==
  ASSUME CouponInv, Shape, NEW c \in Coupon, Creates(c)
  PROVE  CouponInv'
<1>1. /\ Acts("create") /\ coupon[c].status = "none"
      /\ request' = request /\ redeemed' = redeemed /\ dueCoupons' = dueCoupons
  BY DEF Creates
<1>2. PICK draft \in BOOLEAN, started \in BOOLEAN, expiry \in {"never", "ahead"}, cap \in Caps :
        LET row == [ status |-> "draft", started |-> started, expiry |-> expiry,
                     cap |-> cap, count |-> 0, top |-> cap ]
        IN coupon' = [coupon EXCEPT ![c] = IF draft THEN row ELSE [row EXCEPT !.status = ByItsDate(row)]]
  BY DEF Creates
<1>3. PICK row : row = [ status |-> "draft", started |-> started, expiry |-> expiry,
                         cap |-> cap, count |-> 0, top |-> cap ]
  OBVIOUS
<1>4. PICK status : status = IF draft THEN "draft" ELSE ByItsDate(row)
  OBVIOUS
<1>5. PICK next : next = [ status |-> status, started |-> started, expiry |-> expiry,
                           cap |-> cap, count |-> 0, top |-> cap ]
  OBVIOUS
<1>6. (IF draft THEN row ELSE [row EXCEPT !.status = ByItsDate(row)]) = next
  BY <1>3, <1>4, <1>5
<1>7. coupon' = [coupon EXCEPT ![c] = next]
  BY <1>2, <1>3, <1>6
<1>8. status # "none"
  BY <1>4 DEF ByItsDate
<1>9. cap \in Nat
  BY CouponAssumption
<1>10. CouponRow(next) /\ next.status # "none" /\ next.count = 0
  BY <1>5, <1>8, <1>9 DEF CouponRow
<1>11. coupon[c].count = 0
  <2>1. coupon[c].count = Cardinality(Redeemers(c)) /\ Redeemers(c) = {}
    BY <1>1 DEF CouponInv, Counted
  <2> QED
    BY <2>1, FS_EmptySet
<1>12. Touches({})
  BY <1>1, ActsStay
<1>13. \A d \in dueCoupons' : d.c \in Coupon /\ d.to # "none"
  BY <1>1 DEF CouponInv, CouponRows
<1> QED
  BY <1>1, <1>7, <1>10, <1>11, <1>12, <1>13, CouponRewritten

LEMMA CouponStepHolds ==
  ASSUME CouponInv, Shape, CouponStep
  PROVE  CouponInv'
<1> DEFINE r(what, about, arg, saw) == [ doing |-> what, about |-> about, arg |-> arg, saw |-> saw, overtaken |-> FALSE ]
<1>0. \A d \in dueCoupons : d.c \in Coupon /\ d.to # "none"
  BY DEF CouponInv, CouponRows
<1>1. ASSUME NEW q, NEW c \in Coupon, NEW to \in {"paused", "active", "scheduled", "ended"}, MoveOpens(q, c, to)
      PROVE  CouponInv'
  <2>1. PICK arg : arg = [ on |-> c, to |-> to ]
    OBVIOUS
  <2>2. arg.on = c /\ arg.to = to
    BY <2>1
  <2>3. CouponRequest(r("move", {c}, arg, coupon[c]))
    BY <1>1, <2>2 DEF MoveOpens, CouponRequest, Issued
  <2>4. Opens(q, "move", {c}, arg, coupon[c]) /\ UNCHANGED couponVars
    BY <1>1, <2>1 DEF MoveOpens
  <2> QED
    BY <2>3, <2>4, CouponRequestOpens DEF couponVars
<1>2. ASSUME NEW q, NEW c \in Coupon, NEW cap \in Caps, NEW expiry, CapsOpens(q, c, cap, expiry)
      PROVE  CouponInv'
  <2>1. PICK arg : arg = [ on |-> c, cap |-> cap, expiry |-> expiry ]
    OBVIOUS
  <2>2. arg.on = c /\ arg.cap = cap /\ cap \in Nat
    BY <2>1, CouponAssumption
  <2>3. CouponRequest(r("caps", {c}, arg, coupon[c]))
    BY <1>2, <2>2 DEF CapsOpens, CouponRequest, Issued
  <2>4. Opens(q, "caps", {c}, arg, coupon[c]) /\ UNCHANGED couponVars
    BY <1>2, <2>1 DEF CapsOpens
  <2> QED
    BY <2>3, <2>4, CouponRequestOpens DEF couponVars
<1>3. ASSUME NEW q, NEW w \in Workspaces, NEW c \in Coupon, RedeemOpens(q, w, c)
      PROVE  CouponInv'
  <2>1. PICK arg : arg = [ on |-> c, for |-> w ]
    OBVIOUS
  <2>2. arg.on = c /\ arg.for = w
    BY <2>1
  <2>3. coupon[c].cap \in Nat /\ coupon[c].cap <= coupon[c].top
    BY DEF CouponInv, CouponRows, CouponRow
  <2>4. CouponRequest(r("redeem", {c}, arg, coupon[c]))
    BY <1>3, <2>2, <2>3 DEF RedeemOpens, CouponRequest, Issued
  <2>5. Opens(q, "redeem", {c}, arg, coupon[c]) /\ UNCHANGED couponVars
    BY <1>3, <2>1 DEF RedeemOpens
  <2> QED
    BY <2>4, <2>5, CouponRequestOpens DEF couponVars
<1>4. ASSUME NEW q \in Requests, Move(q) PROVE CouponInv'
  <2>1. PICK c, to : /\ c = request[q].arg.on /\ c \in Coupon /\ to # "none"
                     /\ to = IF request[q].arg.to \in {"active", "scheduled"} THEN ByItsDate(coupon[c])
                             ELSE request[q].arg.to
    BY <1>4 DEF CouponInv, CouponRequest, Issued, Move, Doing, ByItsDate
  <2>2. Touches({}) /\ coupon' = [coupon EXCEPT ![c].status = to] /\ redeemed' = redeemed /\ dueCoupons' = dueCoupons
    BY <1>4, <2>1, WritesOne DEF Move
  <2> QED
    BY <1>0, <2>1, <2>2, CouponMoves
<1>5. ASSUME NEW q \in Requests, EditCaps(q) PROVE CouponInv'
  <2>1. PICK c, cap : c = request[q].arg.on /\ cap = request[q].arg.cap
    OBVIOUS
  <2>2. c \in Coupon /\ coupon[c].status # "none" /\ cap \in Nat
    BY <1>5, <2>1 DEF CouponInv, CouponRequest, Issued, EditCaps, Doing
  <2>3. /\ Touches({}) /\ redeemed' = redeemed /\ dueCoupons' = dueCoupons
        /\ coupon' = [coupon EXCEPT ![c].cap = cap, ![c].expiry = request[q].arg.expiry,
                                    ![c].top = IF cap > @ THEN cap ELSE @]
    BY <1>5, <2>1, WritesOne DEF EditCaps
  <2> QED
    BY <2>2, <2>3, CapsEdited
<1>6. ASSUME NEW q \in Requests, Redeem(q) PROVE CouponInv'
  <2>1. PICK c, w, cap : c = request[q].arg.on /\ w = request[q].arg.for /\ cap = request[q].saw.cap
    OBVIOUS
  <2>2. c \in Coupon /\ coupon[c].status # "none" /\ w \in Workspaces /\ cap \in Nat /\ cap <= coupon[c].top
    BY <1>6, <2>1 DEF CouponInv, CouponRequest, Issued, Redeem, Doing
  <2>3. Touches({}) /\ dueCoupons' = dueCoupons
    BY <1>6, WritesOne, GivesUpOne DEF Redeem
  <2>4. CASE Taken(c, w, request[q].saw)
    <3>1. coupon[c].count < cap /\ redeemed[c][w] = "no"
      BY <2>1, <2>4 DEF Taken
    <3>2. coupon' = [coupon EXCEPT ![c].count = @ + 1] /\ redeemed' = [redeemed EXCEPT ![c][w] = "waiting"]
      BY <1>6, <2>1, <2>4 DEF Redeem
    <3> QED
      BY <1>0, <2>2, <2>3, <3>1, <3>2, PlaceTaken
  <2>5. CASE ~Taken(c, w, request[q].saw)
    <3>1. coupon' = coupon /\ redeemed' = redeemed
      BY <1>6, <2>1, <2>5 DEF Redeem
    <3> QED
      BY <1>0, <2>3, <3>1, CouponsAside
  <2> QED
    BY <2>4, <2>5
<1> QED
  BY <1>1, <1>2, <1>3, <1>4, <1>5, <1>6, ACodeIsCreated DEF CouponStep

\* The ledger takes a place for the code a charge names, or uses a redemption.
LEMMA LedgerKeepsCoupons ==
  ASSUME CouponInv, Shape, LedgerStep, dueCoupons' = dueCoupons
  PROVE  CouponInv'
<1> DEFINE r(what, about, arg, saw) == [ doing |-> what, about |-> about, arg |-> arg, saw |-> saw, overtaken |-> FALSE ]
<1>0. \A d \in dueCoupons' : d.c \in Coupon /\ d.to # "none"
  BY DEF CouponInv, CouponRows
<1>1. ASSUME NEW some, Touches(some), some \cap CouponReaders = {}, coupon' = coupon, redeemed' = redeemed
      PROVE  CouponInv'
  BY <1>0, <1>1, CouponsAside
<1>2. /\ {"fail"} \cap CouponReaders = {} /\ {"grant"} \cap CouponReaders = {}
      /\ {"refund"} \cap CouponReaders = {} /\ {"retry"} \cap CouponReaders = {}
      /\ {} \cap CouponReaders = {}
  BY DEF CouponReaders, CouponTasks
<1>3. ASSUME NEW q, NEW w \in Workspaces, NEW retries, FailOpens(q, w, retries) PROVE CouponInv'
  BY <1>1, <1>2, <1>3, OpensOne DEF FailOpens
<1>4. ASSUME NEW q, NEW w \in Workspaces, NEW kind, GrantOpens(q, w, kind) PROVE CouponInv'
  BY <1>1, <1>2, <1>4, OpensOne DEF GrantOpens
<1>5. ASSUME NEW q, NEW p, RefundOpens(q, p) PROVE CouponInv'
  BY <1>1, <1>2, <1>5, OpensOne DEF RefundOpens
<1>6. ASSUME NEW q, NEW p, NEW retries, RetryOpens(q, p, retries) PROVE CouponInv'
  BY <1>1, <1>2, <1>6, OpensOne DEF RetryOpens
<1>7. ASSUME NEW q, NEW w \in Workspaces, ChargeOpens(q, w) PROVE CouponInv'
  <2>1. coupon' = coupon /\ redeemed' = redeemed
    BY <1>7 DEF ChargeOpens
  <2>2. CASE Opens(q, "charge", {w}, [ on |-> w, code |-> NoCode ], [ status |-> ws[w].status ])
    <3>1. PICK arg : arg = [ on |-> w, code |-> NoCode ]
      OBVIOUS
    <3>2. arg.code = NoCode /\ Opens(q, "charge", {w}, arg, [ status |-> ws[w].status ])
      BY <2>2, <3>1
    <3>3. CouponRequest(r("charge", {w}, arg, [ status |-> ws[w].status ]))
      BY <3>2 DEF CouponRequest
    <3> QED
      BY <2>1, <3>2, <3>3, CouponRequestOpens
  <2>3. ASSUME NEW c \in Coupon, CodeFits(c, w),
               Opens(q, "charge", {w, c}, [ on |-> w, code |-> c ],
                     [ status |-> ws[w].status, coupon |-> coupon[c], redeemed |-> redeemed[c][w] ])
        PROVE  CouponInv'
    <3>1. PICK arg : arg = [ on |-> w, code |-> c ]
      OBVIOUS
    <3>2. PICK saw : saw = [ status |-> ws[w].status, coupon |-> coupon[c], redeemed |-> redeemed[c][w] ]
      OBVIOUS
    <3>3. /\ arg.on = w /\ arg.code = c /\ saw.coupon = coupon[c] /\ saw.redeemed = redeemed[c][w]
          /\ Opens(q, "charge", {w, c}, arg, saw)
      BY <2>3, <3>1, <3>2
    <3>4. coupon[c].cap \in Nat /\ coupon[c].cap <= coupon[c].top /\ coupon[c].status # "none"
      BY <2>3 DEF CouponInv, CouponRows, CouponRow, CodeFits, Effective
    <3>5. CouponRequest(r("charge", {w, c}, arg, saw))
      BY <3>3, <3>4 DEF CouponRequest, Issued
    <3> QED
      BY <2>1, <3>3, <3>5, CouponRequestOpens
  <2> QED
    BY <1>7, <2>2, <2>3 DEF ChargeOpens
<1>8. ASSUME NEW q \in Requests, RefundReads(q) PROVE CouponInv'
  BY <1>1, <1>2, <1>8, RefundReadsOne DEF RefundReads
<1>9. ASSUME NEW q \in Requests, Fail(q) \/ Grant(q) \/ Refund(q) \/ Retry(q) \/ ChargeFails(q) PROVE CouponInv'
  <2>1. Touches({})
    BY <1>9, WritesOne, GivesUpOne DEF Fail, Grant, Refund, Retry, ChargeFails
  <2>2. coupon' = coupon /\ redeemed' = redeemed
    BY <1>9 DEF Fail, Grant, Refund, Retry, ChargeFails
  <2> QED
    BY <1>1, <1>2, <2>1, <2>2
<1>10. ASSUME NEW q \in Requests, Charge(q) PROVE CouponInv'
  <2>1. PICK c, w, saw : c = request[q].arg.code /\ w = request[q].arg.on /\ saw = request[q].saw
    OBVIOUS
  <2>2. Touches({})
    BY <1>10, WritesOne DEF Charge
  <2>3. CASE c = NoCode
    <3>1. coupon' = coupon /\ redeemed' = redeemed
      BY <1>10, <2>1, <2>3 DEF Charge
    <3> QED
      BY <1>1, <1>2, <2>2, <3>1
  <2>4. CASE c # NoCode
    <3>1. /\ c \in Coupon /\ coupon[c].status # "none" /\ w \in Workspaces
          /\ saw.coupon.cap \in Nat /\ saw.coupon.cap <= coupon[c].top
          /\ saw.redeemed = "waiting" => redeemed[c][w] # "no"
      BY <1>10, <2>1, <2>4 DEF CouponInv, CouponRequest, Issued, Charge, Doing
    <3>2. /\ redeemed' = [redeemed EXCEPT ![c][w] = "used"]
          /\ Attaches(q) \/ Taken(c, w, saw.coupon)
          /\ coupon' = IF Attaches(q) THEN coupon ELSE [coupon EXCEPT ![c].count = @ + 1]
      BY <1>10, <2>1, <2>4 DEF Charge
    <3>3. CASE Attaches(q)
      <4>1. redeemed[c][w] # "no" /\ coupon' = coupon
        BY <2>1, <3>1, <3>2, <3>3 DEF Attaches
      <4> QED
        BY <1>0, <1>2, <2>2, <3>1, <3>2, <4>1, RedemptionUsed
    <3>4. CASE ~Attaches(q)
      <4>1. coupon[c].count < saw.coupon.cap /\ redeemed[c][w] = "no"
        BY <3>2, <3>4 DEF Taken
      <4>2. coupon' = [coupon EXCEPT ![c].count = @ + 1]
        BY <3>2, <3>4
      <4> QED
        BY <1>0, <1>2, <2>2, <3>1, <3>2, <4>1, <4>2, PlaceTaken
    <3> QED
      BY <3>3, <3>4
  <2> QED
    BY <2>3, <2>4
<1> QED
  BY <1>3, <1>4, <1>5, <1>6, <1>7, <1>8, <1>9, <1>10 DEF LedgerStep

LEMMA UnattendedKeepsCoupons ==
  ASSUME CouponInv, Shape, (Builders /\ UNCHANGED << deskVars, keptVars >>) \/ Sweep \/ Restarts \/ Time
  PROVE  CouponInv'
<1>1. Touches({}) /\ {} \cap CouponReaders = {}
  BY Unattended
<1>2. ASSUME coupon' = coupon, redeemed' = redeemed, \A d \in dueCoupons' : d.c \in Coupon /\ d.to # "none"
      PROVE  CouponInv'
  BY <1>1, <1>2, CouponsAside
<1>3. \A d \in dueCoupons : d.c \in Coupon /\ d.to # "none"
  BY DEF CouponInv, CouponRows
<1>4. CASE UNCHANGED couponVars
  BY <1>2, <1>3, <1>4 DEF couponVars
<1>5. CASE SweepBegins
  <2>1. \A d \in CouponsToMove : d.c \in Coupon /\ d.to # "none"
    BY DEF CouponsToMove
  <2> QED
    BY <1>2, <1>5, <2>1 DEF SweepBegins
<1>6. CASE SweepReads
  BY <1>4, <1>6 DEF SweepReads
<1>7. CASE SweepEnds
  BY <1>2, <1>7 DEF SweepEnds
<1>8. ASSUME NEW d \in dueCoupons, SweepsCoupon(d) PROVE CouponInv'
  <2>1. PICK c, to : c = d.c /\ to = d.to
    OBVIOUS
  <2>2. /\ c \in Coupon /\ to # "none" /\ redeemed' = redeemed
        /\ coupon' = [coupon EXCEPT ![c].status = to] /\ dueCoupons' \subseteq dueCoupons
    BY <1>3, <1>8, <2>1 DEF SweepsCoupon
  <2> QED
    BY <1>1, <1>3, <2>2, CouponMoves
<1>9. CASE Restarts
  BY <1>2, <1>9 DEF Restarts
<1>10. ASSUME NEW c \in Coupon, StartComes(c) \/ ExpiryComes(c) PROVE CouponInv'
  <2>1. PICK yes \in BOOLEAN : yes = TRUE
    OBVIOUS
  <2>2. \/ coupon' = [coupon EXCEPT ![c].started = yes]
        \/ coupon' = [coupon EXCEPT ![c].expiry = "past"]
    BY <1>10, <2>1 DEF StartComes, ExpiryComes
  <2>3. redeemed' = redeemed /\ dueCoupons' = dueCoupons
    BY <1>10 DEF StartComes, ExpiryComes
  <2> QED
    BY <1>1, <1>3, <2>2, <2>3, CouponMoves
<1>11. CASE Builders /\ UNCHANGED << deskVars, keptVars >>
  BY <1>4, <1>11 DEF keptVars
<1>12. CASE Sweep
  BY <1>4, <1>5, <1>6, <1>7, <1>8, <1>12 DEF Sweep
<1>13. CASE Time
  BY <1>4, <1>10, <1>13 DEF Time
<1> QED
  BY <1>9, <1>11, <1>12, <1>13

LEMMA CouponInvHolds ==
  ASSUME CouponInv, Shape, [Next]_vars
  PROVE  CouponInv'
<1>0. /\ TeamTasks \cap CouponReaders = {} /\ Operations \cap CouponReaders = {}
      /\ MembersTasks \cap CouponReaders = {} /\ PublishingTasks \cap CouponReaders = {}
      /\ WebsiteTasks \cap CouponReaders = {}
  BY DEF TeamTasks, Manages, Operations, MembersTasks, PublishingTasks, WebsiteTasks, CouponReaders, CouponTasks
<1>1. ASSUME NEW some, Touches(some), some \cap CouponReaders = {}, UNCHANGED couponVars
      PROVE  CouponInv'
  BY <1>1, CouponsAside DEF couponVars, CouponInv, CouponRows
<1>2. CASE TeamStep /\ UNCHANGED keptVars
  BY <1>0, <1>1, <1>2, TeamDesk DEF keptVars
<1>3. CASE TenancyStep /\ UNCHANGED couponVars
  BY <1>0, <1>1, <1>3, TenancyDesk
<1>4. CASE CouponStep
  BY <1>4, CouponStepHolds
<1>5. CASE LedgerStep /\ UNCHANGED dueCoupons
  BY <1>5, LedgerKeepsCoupons
<1>6. CASE MembersStep /\ UNCHANGED couponVars
  BY <1>0, <1>1, <1>6, MembersDesk
<1>7. CASE PublishingStep /\ UNCHANGED keptVars
  BY <1>0, <1>1, <1>7, PublishingDesk DEF keptVars
<1>8. CASE WebsiteStep /\ UNCHANGED keptVars
  BY <1>0, <1>1, <1>8, WebsiteDesk DEF keptVars
<1>9. CASE (Builders /\ UNCHANGED << deskVars, keptVars >>) \/ Sweep \/ Restarts \/ Time
  BY <1>9, UnattendedKeepsCoupons
<1>10. CASE UNCHANGED vars
  <2>1. Touches({}) /\ {} \cap CouponReaders = {}
    BY <1>10, AllStay DEF vars, deskVars
  <2> QED
    BY <1>1, <1>10, <2>1 DEF vars, keptVars
<1> QED
  BY <1>2, <1>3, <1>4, <1>5, <1>6, <1>7, <1>8, <1>9, <1>10 DEF Next, Money

LEMMA CouponsAtFirst == Init => CouponInv
<1> SUFFICES ASSUME Init PROVE CouponInv
  OBVIOUS
<1>1. \A q \in Requests : CouponRequest(request[q])
  <2>1. \A q \in Requests : request[q].doing = "nothing"
    BY NothingIsOpen DEF Init, DeskInit
  <2> QED
    BY <2>1 DEF CouponRequest
<1>2. \A c \in Coupon :
        coupon[c] = [ status |-> Offer[c].status, started |-> Offer[c].started, expiry |-> Offer[c].expiry,
                      cap |-> Offer[c].cap, count |-> 0, top |-> Offer[c].cap ]
  BY DEF Init, CouponsInit
<1>3. \A c \in Coupon : CouponRow(coupon[c]) /\ coupon[c].count = 0
  <2> SUFFICES ASSUME NEW c \in Coupon PROVE CouponRow(coupon[c]) /\ coupon[c].count = 0
    OBVIOUS
  <2>1. PICK row : row = coupon[c]
    OBVIOUS
  <2>2. Offer[c].cap \in Nat
    BY CouponAssumption
  <2>0. PICK status, started, expiry, cap :
          cap = Offer[c].cap /\ status = Offer[c].status /\ started = Offer[c].started /\ expiry = Offer[c].expiry
    OBVIOUS
  <2>4. row = [ status |-> status, started |-> started, expiry |-> expiry, cap |-> cap, count |-> 0, top |-> cap ]
    BY <1>2, <2>0, <2>1
  <2>3. /\ row.cap = Offer[c].cap /\ row.count = 0 /\ row.top = Offer[c].cap
        /\ row = [ status |-> row.status, started |-> row.started, expiry |-> row.expiry,
                   cap |-> row.cap, count |-> row.count, top |-> row.top ]
    BY <2>0, <2>4
  <2> QED
    BY <2>1, <2>2, <2>3 DEF CouponRow
<1>4. coupon = [ c \in Coupon |-> coupon[c] ] /\ dueCoupons = {}
  BY DEF Init, CouponsInit
<1>5. /\ redeemed = [ c \in Coupon |-> [ w \in Workspaces |-> redeemed[c][w] ] ]
      /\ \A c \in Coupon, w \in Workspaces : redeemed[c][w] = "no"
  BY DEF Init, CouponsInit
<1>6. \A c \in Coupon : Redeemers(c) = {}
  BY <1>5 DEF Redeemers
<1>7. Counted
  BY <1>3, <1>6, FS_EmptySet DEF Counted
<1> QED
  BY <1>1, <1>3, <1>4, <1>5, <1>7 DEF CouponInv, CouponRows

\* The cap of a code holds, whatever the portal, the ledger, the edits of its
\* caps and the sweep do to it at the same time (coupons.ts, payments-admin.ts).
THEOREM CodesKeepToTheirCap == Spec => []CapHolds
<1>1. Init => Shape /\ CouponInv
  BY ShapeAtFirst, CouponsAtFirst
<1>2. Shape /\ CouponInv /\ [Next]_vars => (Shape /\ CouponInv)'
  BY ShapeHolds, CouponInvHolds
<1>3. CouponInv => CapHolds
  BY DEF CouponInv, CouponRows, CouponRow, Counted, CapHolds
<1> QED
  BY <1>1, <1>2, <1>3, PTL DEF Spec

----------------------------------------------------------------------------
(* The site shows what was published.                                       *)

\* What an entry may say.
Said == Texts \union {0}

EntrySet == [ draft : Said, live : Said, id : Nat ]

PublishSet == [ status : {"building", "live", "failed"}, content : [ Entries -> Said ] ]

ScriptStates == { "waiting", "running", "swapped", "stopped", "over" }

BuildRows ==
  /\ publish \in Seq(PublishSet) /\ script \in Seq(ScriptStates) /\ Len(script) = Len(publish)
  /\ watched \subseteq 1..Len(publish)

\* The operation that publishes.
Going == {"go live"}

\* What a request may rely on.  While one publishes, nothing builds, and what it
\* read of the live copies is so; the others know it of their entry unless they
\* were overtaken.
WebRequest(r) ==
  /\ r.doing = "save" => r.arg.on \in Entries /\ r.arg.text \in Texts
  /\ r.doing \in {"remove", "drop"} =>
       /\ r.arg \in Entries /\ r.about = {r.arg} /\ r.saw.live \in Said
       /\ r.overtaken \/ entry[r.arg].live = r.saw.live
  /\ r.doing \in Going =>
       /\ NothingBuilds
       /\ \A e \in Entries : /\ r.saw[e].draft \in Said /\ r.saw[e].live \in Said
                             /\ e \in crossed \/ entry[e].live = r.saw[e].live

OneGoes == \A p, q \in Requests : (request[p].doing \in Going /\ request[q].doing \in Going) => p = q

\* The scripts: whose outcome is awaited builds the last publish; one runs at a
\* time, and none any more once the last one has changed the site.
Latest ==
  /\ \A n \in watched : n = Len(publish) /\ publish[n].status = "building"
  /\ \A m, n \in 1..Len(publish) : (script[m] = "running" /\ script[n] = "running") => m = n
  /\ Len(publish) > 0 =>
       /\ publish[Len(publish)].status = "live" => script[Len(publish)] = "over"
       /\ (script[Len(publish)] = "swapped" \/ publish[Len(publish)].status = "live") =>
            site = publish[Len(publish)].content /\ \A n \in 1..Len(publish) : script[n] # "running"

\* The rows say what the last publish was built from.
Shown ==
  Len(publish) > 0 => \A e \in Entries : e \in crossed \/ entry[e].live = publish[Len(publish)].content[e]

WebRows == entry \in [ Entries -> EntrySet ] /\ BuildRows /\ Latest /\ Shown

WebInv == WebRows /\ (\A q \in Requests : WebRequest(request[q])) /\ OneGoes

LEMMA WebKinds ==
  /\ Going \subseteq WebsiteTasks
  /\ \A d \in {"save", "remove", "drop"} : d \in WebsiteTasks /\ d \notin Going
  /\ \A d \in Going : d \notin {"save", "remove", "drop"} /\ d # "nothing"
  /\ \A d \in WebsiteTasks : d \in {"save", "remove", "drop"} \/ d \in Going
  /\ "nothing" \notin WebsiteTasks
BY Zenon DEF WebsiteTasks, Going

\* None of the other desks' operations is about the website.
LEMMA NotOfTheWebsite ==
  /\ TeamTasks \cap WebsiteTasks = {} /\ Operations \cap WebsiteTasks = {} /\ CouponTasks \cap WebsiteTasks = {}
  /\ LedgerTasks \cap WebsiteTasks = {} /\ MembersTasks \cap WebsiteTasks = {} /\ PublishingTasks \cap WebsiteTasks = {}
<1>1. TeamTasks \cap WebsiteTasks = {}
  BY Zenon DEF TeamTasks, Manages, WebsiteTasks
<1>2. Operations \cap WebsiteTasks = {}
  BY Zenon DEF Operations, WebsiteTasks
<1>3. CouponTasks \cap WebsiteTasks = {}
  BY Zenon DEF CouponTasks, WebsiteTasks
<1>4. LedgerTasks \cap WebsiteTasks = {}
  BY Zenon DEF LedgerTasks, WebsiteTasks
<1>5. MembersTasks \cap WebsiteTasks = {}
  BY Zenon DEF MembersTasks, WebsiteTasks
<1>6. PublishingTasks \cap WebsiteTasks = {}
  BY Zenon DEF PublishingTasks, WebsiteTasks
<1> QED
  BY <1>1, <1>2, <1>3, <1>4, <1>5, <1>6

\* The requests keep what they rely on.
KeepsWeb(p) ==
  \/ request'[p] = NoRequest \/ request'[p].doing \notin WebsiteTasks
  \/ /\ Stays(p)
     /\ request[p].doing \in {"remove", "drop"} =>
          request'[p].overtaken \/ entry'[request[p].arg].live = entry[request[p].arg].live
     /\ request[p].doing \in Going =>
          NothingBuilds' /\ \A e \in Entries : e \in crossed' \/ entry'[e].live = entry[e].live

LEMMA OneKeepsWeb ==
  ASSUME WebInv, Lasts, NEW p \in Requests, KeepsWeb(p)
  PROVE  WebRequest(request[p])' /\ (request'[p].doing \in Going => request[p].doing \in Going)
<1>1. PICK r, s : r = request[p] /\ s = request'[p]
  OBVIOUS
<1>2. WebRequest(r) /\ crossed \subseteq crossed'
  BY <1>1 DEF WebInv, Lasts
<1>3. CASE s.doing \notin WebsiteTasks
  BY <1>1, <1>3, WebKinds DEF WebRequest
<1>4. CASE s.doing \in WebsiteTasks
  <2>1. /\ s.doing = r.doing /\ s.about = r.about /\ s.arg = r.arg /\ s.saw = r.saw /\ (r.overtaken => s.overtaken)
        /\ r.doing \in {"remove", "drop"} => s.overtaken \/ entry'[r.arg].live = entry[r.arg].live
        /\ r.doing \in Going => NothingBuilds' /\ \A e \in Entries : e \in crossed' \/ entry'[e].live = entry[e].live
    BY <1>1, <1>4, NothingIsOpen, WebKinds DEF KeepsWeb, Stays
  <2>2. s.doing = "save" => s.arg.on \in Entries /\ s.arg.text \in Texts
    BY <1>2, <2>1 DEF WebRequest
  <2>3. s.doing \in {"remove", "drop"} =>
          /\ s.arg \in Entries /\ s.about = {s.arg} /\ s.saw.live \in Said
          /\ s.overtaken \/ entry'[s.arg].live = s.saw.live
    BY <1>2, <2>1 DEF WebRequest
  <2>4. s.doing \in Going =>
          /\ NothingBuilds'
          /\ \A e \in Entries : /\ s.saw[e].draft \in Said /\ s.saw[e].live \in Said
                                /\ e \in crossed' \/ entry'[e].live = s.saw[e].live
    BY <1>2, <2>1 DEF WebRequest
  <2> QED
    BY <1>1, <2>1, <2>2, <2>3, <2>4 DEF WebRequest, Said
<1>5. s.doing \in Going => s.doing = r.doing
  BY <1>1, NothingIsOpen, WebKinds DEF KeepsWeb, Stays
<1> QED
  BY <1>1, <1>3, <1>4, <1>5

LEMMA WebGoesOn ==
  ASSUME WebInv, Lasts, \A p \in Requests : KeepsWeb(p), WebRows'
  PROVE  WebInv'
<1>1. \A p \in Requests : WebRequest(request[p])' /\ (request'[p].doing \in Going => request[p].doing \in Going)
  BY OneKeepsWeb
<1>2. OneGoes'
  BY <1>1 DEF OneGoes, WebInv
<1> QED
  BY <1>1, <1>2 DEF WebInv

\* The steps that leave the website alone.
LEMMA WebAside ==
  ASSUME WebInv, Lasts, NEW some, some \cap WebsiteTasks = {}, Touches(some), UNCHANGED websiteVars
  PROVE  WebInv'
<1>1. entry' = entry /\ publish' = publish /\ script' = script /\ watched' = watched /\ site' = site /\ crossed \subseteq crossed'
  BY DEF websiteVars, Lasts
<1>2. \A p \in Requests : KeepsWeb(p)
  <2>1. \A p \in Requests : request[p].doing \in Going => NothingBuilds'
    BY <1>1 DEF WebInv, WebRequest, NothingBuilds
  <2> QED
    BY <1>1, <2>1 DEF Touches, KeepsWeb
<1>3. WebRows'
  BY <1>1 DEF WebInv, WebRows, BuildRows, Latest, Shown
<1> QED
  BY <1>2, <1>3, WebGoesOn

\* A request about the website begins.
LEMMA WebRequestOpens ==
  ASSUME WebInv, Shape, NEW q, NEW what, what # "nothing", NEW about, NEW arg, NEW saw,
         Opens(q, what, about, arg, saw), UNCHANGED websiteVars,
         WebRequest([ doing |-> what, about |-> about, arg |-> arg, saw |-> saw, overtaken |-> FALSE ]),
         what \in Going => \A p \in Requests : request[p].doing \notin Going
  PROVE  WebInv'
<1>1. PICK r : r = [ doing |-> what, about |-> about, arg |-> arg, saw |-> saw, overtaken |-> FALSE ]
  OBVIOUS
<1>2. /\ q \in Requests /\ request'[q] = r /\ crossed' = crossed
      /\ \A p \in Requests \ {q} : request'[p] = request[p]
  BY <1>1, OpensOne
<1>3. entry' = entry /\ publish' = publish /\ script' = script /\ watched' = watched /\ site' = site
  BY DEF websiteVars
<1>4. WebRequest(r) /\ r.doing = what
  BY <1>1
<1>5. \A p \in Requests : WebRequest(request[p])'
  BY <1>2, <1>3, <1>4 DEF WebInv, WebRequest, NothingBuilds
<1>6. OneGoes'
  BY <1>2, <1>4 DEF WebInv, OneGoes
<1>7. WebRows'
  BY <1>2, <1>3 DEF WebInv, WebRows, BuildRows, Latest, Shown
<1> QED
  BY <1>5, <1>6, <1>7 DEF WebInv

LEMMA AnEditBegins ==
  ASSUME WebInv, Shape, NEW q, NEW e \in Entries,
         (\E text \in Texts : SaveOpens(q, e, text)) \/ (\E what \in {"remove", "drop"} : UnsaveOpens(q, e, what))
  PROVE  WebInv'
<1>1. ASSUME NEW text \in Texts, SaveOpens(q, e, text) PROVE WebInv'
  <2>1. PICK arg : arg = [ on |-> e, text |-> text ]
    OBVIOUS
  <2>2. Opens(q, "save", {}, arg, NoRequest) /\ UNCHANGED websiteVars
    BY <1>1, <2>1 DEF SaveOpens
  <2>3. PICK r : r = [ doing |-> "save", about |-> {}, arg |-> arg, saw |-> NoRequest, overtaken |-> FALSE ]
    OBVIOUS
  <2>4. WebRequest(r)
    BY <2>1, <2>3, WebKinds DEF WebRequest
  <2> QED
    BY <2>2, <2>3, <2>4, WebRequestOpens, WebKinds
<1>2. ASSUME NEW what \in {"remove", "drop"}, UnsaveOpens(q, e, what) PROVE WebInv'
  <2>1. PICK saw, about : saw = entry[e] /\ about = {e}
    OBVIOUS
  <2>2. Opens(q, what, about, e, saw) /\ UNCHANGED websiteVars
    BY <1>2, <2>1 DEF UnsaveOpens
  <2>3. saw.live \in Said
    BY <2>1 DEF WebInv, WebRows, EntrySet
  <2>4. PICK r : r = [ doing |-> what, about |-> about, arg |-> e, saw |-> saw, overtaken |-> FALSE ]
    OBVIOUS
  <2>5. r.doing = what /\ r.about = about /\ r.arg = e /\ r.saw = saw
    BY <2>4
  <2>6. WebRequest(r)
    BY <2>1, <2>3, <2>5, WebKinds DEF WebRequest
  <2> QED
    BY <2>2, <2>4, <2>6, WebRequestOpens, WebKinds
<1> QED
  BY <1>1, <1>2

LEMMA APublishBegins ==
  ASSUME WebInv, Shape, NEW q, GoesLiveOpens(q)
  PROVE  WebInv'
<1>1. PICK what, none : what \in Going /\ none = NoRequest /\ Opens(q, what, {}, none, entry)
  BY Zenon DEF GoesLiveOpens, Going
<1>2. UNCHANGED websiteVars /\ NothingBuilds
  BY DEF GoesLiveOpens
<1>3. \A p \in Requests : request[p].doing \notin Going
  BY Zenon DEF GoesLiveOpens, Doing, Going
<1>4. PICK r : r = [ doing |-> what, about |-> {}, arg |-> none, saw |-> entry, overtaken |-> FALSE ]
  OBVIOUS
<1>5. r.doing = what /\ r.saw = entry
  BY <1>4
<1>6. \A e \in Entries : entry[e].draft \in Said /\ entry[e].live \in Said
  BY DEF WebInv, WebRows, EntrySet
<1>7. WebRequest(r)
  BY <1>1, <1>2, <1>5, <1>6, WebKinds DEF WebRequest
<1> QED
  BY <1>1, <1>2, <1>3, <1>4, <1>7, WebRequestOpens, WebKinds

\* A row is written; its live copy stays, or the request was overtaken.
LEMMA AnEntryIsWritten ==
  ASSUME WebInv, Shape, NEW q \in Requests, NEW e \in Entries, NEW row \in EntrySet,
         entry' = [entry EXCEPT ![e] = row], UNCHANGED << publish, script, watched, site >>, Writes(q, {e}),
         request[q].overtaken \/ row.live = entry[e].live
  PROVE  WebInv'
<1>1. /\ Shape' /\ tasks' = tasks /\ request'[q] = NoRequest
      /\ crossed' = IF request[q].overtaken THEN crossed \union {e} ELSE crossed
      /\ \A p \in Requests \ {q} :
           /\ Stays(p) /\ Marked(p, {e}) /\ (request'[p] = NoRequest <=> request[p] = NoRequest)
  BY WritesOne
<1>2. /\ entry' \in [ Entries -> EntrySet ] /\ entry'[e] = row
      /\ \A d \in Entries \ {e} : entry'[d] = entry[d]
  BY DEF WebInv, WebRows
<1>3. \A d \in Entries : d \in crossed' \/ entry'[d].live = entry[d].live
  BY <1>1, <1>2
<1>4. \A p \in Requests : KeepsWeb(p)
  <2> SUFFICES ASSUME NEW p \in Requests, p # q, request'[p] # NoRequest PROVE KeepsWeb(p)
    BY <1>1 DEF KeepsWeb
  <2>1. Stays(p) /\ (request'[p].overtaken <=> (request[p].overtaken \/ request[p].about \cap {e} # {}))
    BY <1>1 DEF Marked
  <2>2. request[p].doing \in {"remove", "drop"} =>
          request'[p].overtaken \/ entry'[request[p].arg].live = entry[request[p].arg].live
    <3>1. PICK r : r = request[p]
      OBVIOUS
    <3>2. WebRequest(r)
      BY <3>1 DEF WebInv
    <3>3. r.doing \in {"remove", "drop"} => r.arg \in Entries /\ r.about = {r.arg}
      BY <3>2 DEF WebRequest
    <3> QED
      BY <1>2, <2>1, <3>1, <3>3
  <2>3. request[p].doing \in Going => NothingBuilds'
    BY DEF WebInv, WebRequest, NothingBuilds
  <2> QED
    BY <1>3, <2>1, <2>2, <2>3 DEF KeepsWeb
<1>5. WebRows'
  BY <1>1, <1>2, <1>3 DEF WebInv, WebRows, BuildRows, Latest, Shown
<1> QED
  BY <1>1, <1>4, <1>5, WebGoesOn DEF Lasts

LEMMA AnEntryIsSaved ==
  ASSUME WebInv, Shape, NEW q \in Requests, Save(q)
  PROVE  WebInv'
<1>1. PICK e, text : e = request[q].arg.on /\ text = request[q].arg.text
  OBVIOUS
<1>2. e \in Entries /\ text \in Texts
  <2>1. PICK r : r = request[q]
    OBVIOUS
  <2>2. WebRequest(r) /\ r.doing = "save"
    BY <2>1 DEF WebInv, Save, Doing
  <2> QED
    BY <1>1, <2>1, <2>2 DEF WebRequest
<1>3. PICK old, new : old = entry[e] /\ new = (IF There(e) THEN old.id ELSE old.id + 1)
  OBVIOUS
<1>4. entry \in [ Entries -> EntrySet ] /\ old \in EntrySet
  BY <1>2, <1>3 DEF WebInv, WebRows
<1>5. new \in Nat
  BY <1>3, <1>4 DEF EntrySet
<1>6. PICK drafted, row : drafted = [old EXCEPT !.draft = text] /\ row = [drafted EXCEPT !.id = new]
  OBVIOUS
<1>7. drafted \in EntrySet /\ drafted.live = old.live /\ drafted.id = old.id
  BY <1>2, <1>4, <1>6 DEF EntrySet, Said
<1>8. row \in EntrySet /\ row.live = old.live
  BY <1>5, <1>6, <1>7 DEF EntrySet
<1>9. entry' = [entry EXCEPT ![e].draft = text, ![e].id = IF There(e) THEN @ ELSE @ + 1]
  BY <1>1 DEF Save
<1>10. entry' = [entry EXCEPT ![e] = row]
  BY <1>2, <1>3, <1>4, <1>6, <1>7, <1>9
<1>11. Writes(q, {e}) /\ UNCHANGED << publish, script, watched, site >>
  BY <1>1 DEF Save
<1> QED
  BY <1>2, <1>3, <1>8, <1>10, <1>11, AnEntryIsWritten

LEMMA AnEntryIsUnsaved ==
  ASSUME WebInv, Shape, NEW q \in Requests, Unsave(q)
  PROVE  WebInv'
<1>1. PICK e, saw : e = request[q].arg /\ saw = request[q].saw
  OBVIOUS
<1>2. /\ e \in Entries /\ saw.live \in Said
      /\ request[q].overtaken \/ entry[e].live = saw.live
  <2>1. PICK r : r = request[q]
    OBVIOUS
  <2>2. WebRequest(r) /\ r.doing \in {"remove", "drop"}
    BY <2>1 DEF WebInv, Unsave
  <2> QED
    BY <1>1, <2>1, <2>2 DEF WebRequest
<1>3. PICK old, to : old = entry[e] /\ to = (IF Doing(q, "remove") THEN 0 ELSE saw.live)
  OBVIOUS
<1>4. entry \in [ Entries -> EntrySet ] /\ old \in EntrySet /\ to \in Said
  BY <1>2, <1>3 DEF WebInv, WebRows, Said
<1>5. PICK row : row = IF saw.live = 0 THEN NoEntry(old.id) ELSE [old EXCEPT !.draft = to]
  OBVIOUS
<1>6. NoEntry(old.id) \in EntrySet /\ NoEntry(old.id).live = 0
  BY <1>4 DEF NoEntry, EntrySet, Said
<1>7. [old EXCEPT !.draft = to] \in EntrySet /\ [old EXCEPT !.draft = to].live = old.live
  BY <1>4 DEF EntrySet
<1>8. row \in EntrySet /\ (request[q].overtaken \/ row.live = old.live)
  BY <1>2, <1>3, <1>5, <1>6, <1>7
<1>9. entry' = [entry EXCEPT ![e] =
        IF saw.live = 0 THEN NoEntry(@.id) ELSE [@ EXCEPT !.draft = IF Doing(q, "remove") THEN 0 ELSE saw.live]]
  BY <1>1 DEF Unsave
<1>10. entry' = [entry EXCEPT ![e] = row]
  BY <1>2, <1>3, <1>4, <1>5, <1>9
<1>11. Writes(q, {e}) /\ UNCHANGED << publish, script, watched, site >>
  BY <1>1 DEF Unsave
<1> QED
  BY <1>2, <1>3, <1>8, <1>10, <1>11, AnEntryIsWritten

\* A publish begins to build, when nothing does.
LEMMA ABuildBegins ==
  ASSUME WebRows, NothingBuilds, NEW content \in [ Entries -> Said ], Builds(content),
         entry' \in [ Entries -> EntrySet ], \A e \in Entries : e \in crossed' \/ entry'[e].live = content[e]
  PROVE  WebRows'
<1>1. PICK n : n = Len(publish)
  OBVIOUS
<1>2. PICK new : new = [ status |-> "building", content |-> content ]
  OBVIOUS
<1>3. new \in PublishSet /\ new.status = "building" /\ new.content = content
  BY <1>2 DEF PublishSet
<1>4. /\ publish \in Seq(PublishSet) /\ script \in Seq(ScriptStates) /\ Len(script) = n /\ n \in Nat
      /\ watched \subseteq 1..n /\ DOMAIN publish = 1..n
  BY <1>1 DEF WebRows, BuildRows
<1>5. watched = {}
  BY <1>4 DEF WebRows, Latest, NothingBuilds
<1>6. "waiting" \in ScriptStates
  BY DEF ScriptStates
<1>7. publish' = Append(publish, new) /\ script' = Append(script, "waiting") /\ watched' = {n + 1} /\ site' = site
  BY <1>1, <1>2, <1>5 DEF Builds
<1>8. /\ publish' \in Seq(PublishSet) /\ Len(publish') = n + 1 /\ publish'[n + 1] = new
      /\ \A k \in 1..n : publish'[k] = publish[k]
  BY <1>1, <1>3, <1>4, <1>7
<1>9. /\ script' \in Seq(ScriptStates) /\ Len(script') = n + 1 /\ script'[n + 1] = "waiting"
      /\ \A k \in 1..n : script'[k] = script[k]
  BY <1>4, <1>6, <1>7
<1>10. \A k \in 1..(n + 1) : k = n + 1 \/ k \in 1..n
  BY <1>4
<1>11. \A k, m \in 1..n : (script[k] = "running" /\ script[m] = "running") => k = m
  BY <1>1 DEF WebRows, Latest
<1>12. BuildRows'
  BY <1>4, <1>7, <1>8, <1>9 DEF BuildRows
<1>13. Latest'
  <2>1. \A k \in watched' : k = Len(publish') /\ publish'[k].status = "building"
    BY <1>3, <1>7, <1>8
  <2>2. \A k, m \in 1..Len(publish') : (script'[k] = "running" /\ script'[m] = "running") => k = m
    BY <1>8, <1>9, <1>10, <1>11
  <2>3. publish'[Len(publish')].status = "building" /\ script'[Len(publish')] = "waiting"
    BY <1>3, <1>8, <1>9
  <2> QED
    BY <2>1, <2>2, <2>3 DEF Latest
<1>14. Shown'
  BY <1>3, <1>8 DEF Shown
<1> QED
  BY <1>12, <1>13, <1>14 DEF WebRows

LEMMA ThePublishIsBuilt ==
  ASSUME WebInv, Shape, NEW q \in Requests, GoesLive(q)
  PROVE  WebInv'
<1>1. PICK saw : saw = request[q].saw
  OBVIOUS
<1>2. PICK changed : changed = { e \in Entries : saw[e].draft # saw[e].live }
  OBVIOUS
<1>3. PICK content : content = [ e \in Entries |-> saw[e].draft ]
  OBVIOUS
<1>4. PICK dated \in SUBSET changed :
        /\ \A e \in changed : There(e) /\ entry[e].id = saw[e].id
        /\ entry' = [ e \in Entries |->
             IF e \notin changed THEN entry[e]
             ELSE IF saw[e].draft = 0 THEN NoEntry(saw[e].id)
             ELSE [entry[e] EXCEPT !.live = saw[e].draft, !.draft = IF e \in dated THEN saw[e].draft ELSE @] ]
        /\ Builds(content) /\ Writes(q, changed)
  BY <1>1, <1>2, <1>3 DEF GoesLive
<1>5. /\ request[q].doing \in Going /\ NothingBuilds
      /\ \A e \in Entries : /\ saw[e].draft \in Said /\ saw[e].live \in Said
                            /\ e \in crossed \/ entry[e].live = saw[e].live
  <2>1. PICK r : r = request[q]
    OBVIOUS
  <2>2. r.doing \in Going
    BY <2>1, Zenon DEF GoesLive, Doing, Going
  <2>3. WebRequest(r)
    BY <2>1 DEF WebInv
  <2> QED
    BY <1>1, <2>1, <2>2, <2>3 DEF WebRequest
<1>6. /\ Shape' /\ tasks' = tasks /\ request'[q] = NoRequest /\ crossed \subseteq crossed'
      /\ \A p \in Requests \ {q} :
           /\ Stays(p) /\ Marked(p, changed) /\ (request'[p] = NoRequest <=> request[p] = NoRequest)
  BY <1>4, WritesOne
<1>7. \A e \in Entries : entry[e] \in EntrySet
  BY DEF WebInv, WebRows
<1>8. \A e \in Entries \ changed : entry'[e] = entry[e] /\ entry'[e].live = entry[e].live /\ saw[e].draft = saw[e].live
  BY <1>2, <1>4
<1>9. \A e \in changed : entry'[e] \in EntrySet /\ entry'[e].live = saw[e].draft
  <2> SUFFICES ASSUME NEW e \in changed PROVE entry'[e] \in EntrySet /\ entry'[e].live = saw[e].draft
    OBVIOUS
  <2>1. e \in Entries /\ saw[e].draft \in Said /\ entry[e] \in EntrySet /\ entry[e].id = saw[e].id
    BY <1>2, <1>4, <1>5, <1>7
  <2>2. PICK old, d : old = entry[e] /\ d = saw[e].draft
    OBVIOUS
  <2>3. PICK kept \in {d, old.draft} :
          entry'[e] = IF d = 0 THEN NoEntry(old.id) ELSE [old EXCEPT !.live = d, !.draft = kept]
    BY <1>4, <2>1, <2>2
  <2>4. NoEntry(old.id) \in EntrySet /\ NoEntry(old.id).live = 0
    BY <2>1, <2>2 DEF NoEntry, EntrySet, Said
  <2>5. PICK new : new = [old EXCEPT !.live = d, !.draft = kept]
    OBVIOUS
  <2>6. new \in EntrySet /\ new.live = d
    BY <2>1, <2>2, <2>3, <2>5 DEF EntrySet
  <2> QED
    BY <2>2, <2>3, <2>4, <2>5, <2>6
<1>10. entry' \in [ Entries -> EntrySet ]
  BY <1>4, <1>7, <1>8, <1>9
<1>11. content \in [ Entries -> Said ] /\ \A e \in Entries : content[e] = saw[e].draft
  BY <1>3, <1>5
<1>12. \A e \in Entries : e \in crossed' \/ entry'[e].live = content[e]
  BY <1>5, <1>6, <1>8, <1>9, <1>11
<1>13. WebRows'
  BY <1>4, <1>5, <1>10, <1>11, <1>12, ABuildBegins DEF WebInv
<1>14. \A p \in Requests : KeepsWeb(p)
  <2> SUFFICES ASSUME NEW p \in Requests, p # q, request'[p] # NoRequest PROVE KeepsWeb(p)
    BY <1>6 DEF KeepsWeb
  <2>1. Stays(p) /\ (request'[p].overtaken <=> (request[p].overtaken \/ request[p].about \cap changed # {}))
    BY <1>6 DEF Marked
  <2>2. request[p].doing \notin Going
    BY <1>5 DEF WebInv, OneGoes
  <2>3. request[p].doing \in {"remove", "drop"} =>
          request'[p].overtaken \/ entry'[request[p].arg].live = entry[request[p].arg].live
    <3>1. PICK r : r = request[p]
      OBVIOUS
    <3>2. WebRequest(r)
      BY <3>1 DEF WebInv
    <3>3. r.doing \in {"remove", "drop"} => r.arg \in Entries /\ r.about = {r.arg}
      BY <3>2 DEF WebRequest
    <3> QED
      BY <1>8, <2>1, <3>1, <3>3
  <2> QED
    BY <2>1, <2>2, <2>3 DEF KeepsWeb
<1> QED
  BY <1>6, <1>13, <1>14, WebGoesOn DEF Lasts

LEMMA TheSiteIsRebuilt ==
  ASSUME WebInv, Shape, Rebuilds
  PROVE  WebInv'
<1>1. PICK content : content = [ e \in Entries |-> entry[e].live ]
  OBVIOUS
<1>2. /\ NothingBuilds /\ Builds(content) /\ entry' = entry /\ request' = request
      /\ \A p \in Requests : request[p].doing \notin Going
  BY <1>1, Zenon DEF Rebuilds, Doing, Going
<1>3. Lasts
  BY DEF Rebuilds, Acts, Lasts
<1>4. entry \in [ Entries -> EntrySet ] /\ \A e \in Entries : entry[e].live \in Said
  BY DEF WebInv, WebRows, EntrySet
<1>5. content \in [ Entries -> Said ] /\ \A e \in Entries : entry'[e].live = content[e]
  BY <1>1, <1>2, <1>4
<1>6. WebRows'
  BY <1>2, <1>4, <1>5, ABuildBegins DEF WebInv
<1>7. \A p \in Requests : KeepsWeb(p)
  BY <1>2 DEF KeepsWeb, Stays
<1> QED
  BY <1>3, <1>6, <1>7, WebGoesOn

LEMMA WebsiteStepHolds ==
  ASSUME WebInv, Shape, WebsiteStep
  PROVE  WebInv'
<1>1. ASSUME NEW q \in Requests, WebsiteGivesUp(q) PROVE WebInv'
  <2>1. Shape' /\ Lasts /\ Touches({})
    BY <1>1, EndsAny DEF WebsiteGivesUp
  <2> QED
    BY <1>1, <2>1, WebAside DEF WebsiteGivesUp
<1>2. ASSUME NEW q, NEW e \in Entries, NEW text \in Texts, SaveOpens(q, e, text) PROVE WebInv'
  BY <1>2, AnEditBegins
<1>3. ASSUME NEW q, NEW e \in Entries, NEW what \in {"remove", "drop"}, UnsaveOpens(q, e, what) PROVE WebInv'
  BY <1>3, AnEditBegins
<1>4. ASSUME NEW q, GoesLiveOpens(q) PROVE WebInv'
  BY <1>4, APublishBegins
<1>5. ASSUME NEW q \in Requests, Save(q) \/ Unsave(q) \/ GoesLive(q) PROVE WebInv'
  BY <1>5, AnEntryIsSaved, AnEntryIsUnsaved, ThePublishIsBuilt
<1> QED
  BY <1>1, <1>2, <1>3, <1>4, <1>5, TheSiteIsRebuilt DEF WebsiteStep

\* A script moves on.
LEMMA AScriptTurns ==
  ASSUME BuildRows, NEW n \in 1..Len(publish), NEW state \in ScriptStates, Turns(n, state)
  PROVE  /\ script' \in Seq(ScriptStates) /\ Len(script') = Len(publish) /\ script'[n] = state
         /\ \A k \in 1..Len(publish) : k # n => script'[k] = script[k]
  BY DEF BuildRows, Turns

\* The outcome of a publish is written.
LEMMA AnOutcomeIsWritten ==
  ASSUME publish \in Seq(PublishSet), NEW n \in 1..Len(publish), NEW status \in {"live", "failed"},
         publish' = [publish EXCEPT ![n].status = status]
  PROVE  /\ publish' \in Seq(PublishSet) /\ Len(publish') = Len(publish)
         /\ publish'[n].status = status /\ publish'[n].content = publish[n].content
         /\ \A k \in 1..Len(publish) : k # n => publish'[k] = publish[k]
<1>1. PICK old, new : old = publish[n] /\ new = [old EXCEPT !.status = status]
  OBVIOUS
<1>2. old \in PublishSet
  BY <1>1
<1>3. new \in PublishSet /\ new.status = status /\ new.content = old.content
  BY <1>1, <1>2 DEF PublishSet
<1>4. publish' = [publish EXCEPT ![n] = new]
  BY <1>1
<1>5. /\ publish' \in Seq(PublishSet) /\ Len(publish') = Len(publish) /\ publish'[n] = new
      /\ \A k \in 1..Len(publish) : k # n => publish'[k] = publish[k]
  BY <1>3, <1>4
<1> QED
  BY <1>1, <1>3, <1>5

LEMMA ABuilderMoves ==
  ASSUME WebRows, crossed' = crossed, NEW n \in DOMAIN publish,
         Locks(n) \/ Stops(n) \/ Swaps(n) \/ Finishes(n) \/ Expires(n)
  PROVE  WebRows' /\ (NothingBuilds => NothingBuilds')
<1> DEFINE Goal == WebRows' /\ (NothingBuilds => NothingBuilds')
<1>1. PICK last : last = Len(publish)
  OBVIOUS
<1>2. /\ publish \in Seq(PublishSet) /\ script \in Seq(ScriptStates) /\ Len(script) = last /\ last \in Nat
      /\ watched \subseteq 1..last /\ n \in 1..last /\ BuildRows /\ DOMAIN publish = 1..last
  BY <1>1 DEF WebRows, BuildRows
<1>3. /\ \A k \in watched : k = last /\ publish[k].status = "building"
      /\ \A k, m \in 1..last : (script[k] = "running" /\ script[m] = "running") => k = m
      /\ publish[last].status = "live" => script[last] = "over"
      /\ (script[last] = "swapped" \/ publish[last].status = "live") =>
            site = publish[last].content /\ \A k \in 1..last : script[k] # "running"
  BY <1>1, <1>2 DEF WebRows, Latest
<1>4. last \in 1..last
  BY <1>2
<1>5. "waiting" \in ScriptStates /\ "running" \in ScriptStates /\ "swapped" \in ScriptStates /\ "stopped" \in ScriptStates
      /\ "over" \in ScriptStates
  BY DEF ScriptStates
<1>6. ASSUME entry' = entry, publish' = publish, script' \in Seq(ScriptStates), Len(script') = last,
             watched' \subseteq watched,
             \A k, m \in 1..last : (script'[k] = "running" /\ script'[m] = "running") => k = m,
             publish[last].status = "live" => script'[last] = "over",
             (script'[last] = "swapped" \/ publish[last].status = "live") =>
                site' = publish[last].content /\ \A k \in 1..last : script'[k] # "running"
      PROVE  Goal
  <2>1. BuildRows'
    BY <1>1, <1>2, <1>6 DEF BuildRows
  <2>2. Latest'
    BY <1>1, <1>3, <1>6 DEF Latest
  <2>3. Shown'
    BY <1>6 DEF WebRows, Shown
  <2>4. NothingBuilds => NothingBuilds'
    BY <1>6 DEF NothingBuilds
  <2> QED
    BY <1>6, <2>1, <2>2, <2>3, <2>4 DEF WebRows
<1>7. CASE Locks(n)
  <2>1. /\ script[n] = "waiting" /\ n \in watched /\ \A k \in DOMAIN script : script[k] # "running"
        /\ Turns(n, "running") /\ entry' = entry /\ publish' = publish /\ watched' = watched /\ site' = site
    BY <1>7 DEF Locks
  <2>2. /\ script' \in Seq(ScriptStates) /\ Len(script') = last /\ script'[n] = "running"
        /\ \A k \in 1..last : k # n => script'[k] = script[k]
    BY <1>1, <1>2, <1>5, <2>1, AScriptTurns
  <2>3. n = last /\ \A k \in 1..last : script[k] # "running"
    BY <1>2, <1>3, <2>1
  <2>4. publish[last].status # "live"
    BY <1>3, <2>1, <2>3
  <2> QED
    BY <1>6, <2>1, <2>2, <2>3, <2>4
<1>8. CASE Stops(n)
  <2>1. /\ script[n] \in {"waiting", "running"}
        /\ Turns(n, "stopped") /\ entry' = entry /\ publish' = publish /\ watched' = watched /\ site' = site
    BY <1>8 DEF Stops
  <2>2. /\ script' \in Seq(ScriptStates) /\ Len(script') = last /\ script'[n] = "stopped"
        /\ \A k \in 1..last : k # n => script'[k] = script[k]
    BY <1>1, <1>2, <1>5, <2>1, AScriptTurns
  <2>3. \A k, m \in 1..last : (script'[k] = "running" /\ script'[m] = "running") => k = m
    BY <1>3, <2>2
  <2>4. publish[last].status = "live" => script'[last] = "over"
    BY <1>3, <1>4, <2>1, <2>2
  <2>5. (script'[last] = "swapped" \/ publish[last].status = "live") =>
           site' = publish[last].content /\ \A k \in 1..last : script'[k] # "running"
    BY <1>3, <1>4, <2>1, <2>2
  <2> QED
    BY <1>6, <2>1, <2>2, <2>3, <2>4, <2>5
<1>9. CASE Swaps(n)
  <2>1. PICK state \in {"swapped", "stopped"} :
          /\ script[n] = "running" /\ site' = publish[n].content
          /\ Turns(n, state) /\ entry' = entry /\ publish' = publish /\ watched' = watched
    BY <1>9 DEF Swaps
  <2>2. state \in ScriptStates /\ state # "running"
    BY <2>1 DEF ScriptStates
  <2>3. /\ script' \in Seq(ScriptStates) /\ Len(script') = last /\ script'[n] = state
        /\ \A k \in 1..last : k # n => script'[k] = script[k]
    BY <1>1, <1>2, <2>1, <2>2, AScriptTurns
  <2>4. /\ publish[last].status # "live" /\ script[last] # "swapped"
        /\ \A k \in 1..last : script'[k] # "running"
    BY <1>2, <1>3, <2>1, <2>2, <2>3
  <2>5. script'[last] = "swapped" => n = last
    BY <1>4, <2>3, <2>4
  <2> QED
    BY <1>6, <2>1, <2>3, <2>4, <2>5
<1>10. CASE Finishes(n)
  <2>1. /\ script[n] \in {"swapped", "stopped"} /\ n \in watched /\ Turns(n, "over") /\ watched' = watched \ {n}
        /\ entry' = entry /\ site' = site
    BY <1>10 DEF Finishes
  <2>2. /\ script' \in Seq(ScriptStates) /\ Len(script') = last /\ script'[n] = "over"
        /\ \A k \in 1..last : k # n => script'[k] = script[k]
    BY <1>1, <1>2, <1>5, <2>1, AScriptTurns
  <2>3. n = last /\ publish[last].status = "building"
    BY <1>3, <2>1
  <2>4. \A k \in 1..last : script'[k] = "running" => script[k] = "running"
    BY <2>2
  <2>5. \A k, m \in 1..last : (script'[k] = "running" /\ script'[m] = "running") => k = m
    BY <1>3, <2>4
  <2>6. CASE publish' = publish
    BY <1>6, <2>1, <2>2, <2>3, <2>5, <2>6
  <2>7. CASE publish' = [publish EXCEPT ![n].status = IF script[n] = "swapped" THEN "live" ELSE "failed"]
    <3>1. PICK status \in {"live", "failed"} : status = IF script[n] = "swapped" THEN "live" ELSE "failed"
      OBVIOUS
    <3>2. /\ publish' \in Seq(PublishSet) /\ Len(publish') = last
          /\ publish'[n].status = status /\ publish'[n].content = publish[n].content
          /\ \A k \in 1..last : k # n => publish'[k] = publish[k]
      BY <1>1, <1>2, <2>7, <3>1, AnOutcomeIsWritten
    <3>3. BuildRows'
      BY <1>2, <2>1, <2>2, <3>2 DEF BuildRows
    <3>4. publish'[last].status = "live" =>
            site' = publish'[last].content /\ \A k \in 1..last : script'[k] # "running"
      BY <1>3, <2>1, <2>3, <2>4, <3>1, <3>2
    <3>5. watched' = {} /\ script'[last] = "over"
      BY <1>3, <2>1, <2>2, <2>3
    <3>6. Latest'
      BY <2>5, <3>2, <3>4, <3>5 DEF Latest
    <3>7. Shown'
      BY <1>1, <2>1, <2>3, <3>2 DEF WebRows, Shown
    <3>8. ~NothingBuilds
      BY <1>2, <2>3 DEF NothingBuilds
    <3> QED
      BY <2>1, <3>3, <3>6, <3>7, <3>8 DEF WebRows
  <2> QED
    BY <1>10, <2>6, <2>7 DEF Finishes
<1>11. CASE Expires(n)
  <2>1. /\ publish[n].status = "building" /\ n \notin watched
        /\ publish' = [publish EXCEPT ![n].status = "failed"]
        /\ entry' = entry /\ script' = script /\ watched' = watched /\ site' = site
    BY <1>11 DEF Expires
  <2>2. /\ publish' \in Seq(PublishSet) /\ Len(publish') = last
        /\ publish'[n].status = "failed" /\ publish'[n].content = publish[n].content
        /\ \A k \in 1..last : k # n => publish'[k] = publish[k]
    BY <1>1, <1>2, <2>1, AnOutcomeIsWritten
  <2>3. BuildRows'
    BY <1>2, <2>1, <2>2 DEF BuildRows
  <2>4. publish'[last].content = publish[last].content /\ (publish'[last].status = "live" => publish[last].status = "live")
    BY <1>4, <2>2
  <2>5. \A k \in watched' : k = last /\ publish'[k].status = "building"
    BY <1>2, <1>3, <2>1, <2>2
  <2>6. Latest'
    BY <1>3, <2>1, <2>2, <2>4, <2>5 DEF Latest
  <2>7. Shown'
    BY <1>1, <2>1, <2>2, <2>4 DEF WebRows, Shown
  <2>8. ~NothingBuilds
    BY <1>2, <2>1 DEF NothingBuilds
  <2> QED
    BY <2>1, <2>3, <2>6, <2>7, <2>8 DEF WebRows
<1> QED
  BY <1>7, <1>8, <1>9, <1>10, <1>11

LEMMA BuildersHold ==
  ASSUME WebInv, Shape, Builders, UNCHANGED deskVars
  PROVE  WebInv'
<1>1. request' = request /\ crossed' = crossed /\ Lasts
  BY DEF deskVars, Lasts
<1>2. WebRows' /\ (NothingBuilds => NothingBuilds')
  BY <1>1, ABuilderMoves DEF WebInv, Builders
<1>3. entry' = entry
  BY DEF Builders, Locks, Stops, Swaps, Finishes, Expires
<1>4. \A p \in Requests : request[p].doing \in Going => NothingBuilds
  BY DEF WebInv, WebRequest
<1>5. \A p \in Requests : KeepsWeb(p)
  BY <1>1, <1>2, <1>3, <1>4 DEF KeepsWeb, Stays
<1> QED
  BY <1>1, <1>2, <1>5, WebGoesOn

\* Nobody waits for the scripts any more.
LEMMA RestartKeepsWeb ==
  ASSUME WebInv, Shape, Restarts
  PROVE  WebInv'
<1>1. /\ entry' = entry /\ publish' = publish /\ script' = script /\ site' = site /\ watched' = {}
      /\ \A p \in Requests : request'[p] = NoRequest \/ request'[p] = request[p]
  BY DEF Restarts
<1>2. Lasts
  BY DEF Restarts, Acts, Lasts
<1>3. WebRows'
  BY <1>1, <1>2 DEF WebInv, WebRows, BuildRows, Latest, Shown, Lasts
<1>4. \A p \in Requests : request[p].doing \in Going => NothingBuilds'
  BY <1>1 DEF WebInv, WebRequest, NothingBuilds
<1>5. \A p \in Requests : KeepsWeb(p)
  BY <1>1, <1>4 DEF KeepsWeb, Stays
<1> QED
  BY <1>2, <1>3, <1>5, WebGoesOn

LEMMA WebInvHolds ==
  ASSUME WebInv, Shape, [Next]_vars
  PROVE  WebInv'
<1>1. ASSUME NEW some, Shape' /\ Lasts /\ Touches(some), some \cap WebsiteTasks = {}, UNCHANGED websiteVars PROVE WebInv'
  BY <1>1, WebAside
<1>2. CASE WebsiteStep
  BY <1>2, WebsiteStepHolds
<1>3. CASE Builders /\ UNCHANGED deskVars
  BY <1>3, BuildersHold
<1>4. CASE Restarts
  BY <1>4, RestartKeepsWeb
<1>5. CASE TenancyStep /\ UNCHANGED websiteVars
  BY <1>1, <1>5, TenancyDesk, NotOfTheWebsite
<1>6. CASE CouponStep /\ UNCHANGED websiteVars
  BY <1>1, <1>6, CouponDesk, NotOfTheWebsite
<1>7. CASE LedgerStep /\ UNCHANGED websiteVars
  BY <1>1, <1>7, LedgerDesk, NotOfTheWebsite
<1>8. CASE MembersStep /\ UNCHANGED websiteVars
  BY <1>1, <1>8, MembersDesk, NotOfTheWebsite
<1>9. CASE TeamStep /\ UNCHANGED websiteVars
  BY <1>1, <1>9, TeamDesk, NotOfTheWebsite
<1>10. CASE PublishingStep /\ UNCHANGED websiteVars
  BY <1>1, <1>10, PublishingDesk, NotOfTheWebsite
<1>11. CASE (Sweep \/ Time) /\ UNCHANGED websiteVars
  BY <1>1, <1>11, Unattended
<1>12. CASE UNCHANGED deskVars /\ UNCHANGED websiteVars
  BY <1>1, <1>12, AllStay
<1>13. (Sweep \/ Time) => UNCHANGED websiteVars
  BY DEF Sweep, Time
<1> QED
  BY <1>2, <1>3, <1>4, <1>5, <1>6, <1>7, <1>8, <1>9, <1>10, <1>11, <1>12, <1>13 DEF Next, Money, vars

LEMMA WebAtFirst == Init => WebInv
<1> SUFFICES ASSUME Init PROVE WebInv
  OBVIOUS
<1>1. /\ entry = [ e \in Entries |-> [ draft |-> OnSite[e], live |-> OnSite[e], id |-> IF OnSite[e] = 0 THEN 0 ELSE 1 ] ]
      /\ publish = << >> /\ script = << >> /\ watched = {}
  BY DEF Init, WebsiteInit
<1>2. \A e \in Entries : OnSite[e] \in Said
  BY WebsiteAssumption DEF Said
<1>3. entry \in [ Entries -> EntrySet ]
  BY <1>1, <1>2 DEF EntrySet
<1>4. publish \in Seq(PublishSet) /\ script \in Seq(ScriptStates) /\ Len(publish) = 0 /\ Len(script) = 0
  BY <1>1
<1>5. BuildRows /\ Latest /\ Shown
  BY <1>1, <1>4 DEF BuildRows, Latest, Shown
<1>6. \A q \in Requests : request[q] = NoRequest
  BY DEF Init, DeskInit
<1>7. \A q \in Requests : WebRequest(request[q]) /\ request[q].doing \notin Going
  BY <1>6, NothingIsOpen, WebKinds DEF WebRequest
<1> QED
  BY <1>3, <1>5, <1>7 DEF WebInv, WebRows, OneGoes

\* The site shows what the last publish that is live was built from, and the rows
\* say so, for any number of entries, requests and publishes (store.ts, build.ts,
\* deploy/website-publish.sh).
THEOREM TheSiteShowsThePublished == Spec => []SiteShowsThePublished
<1>1. Init => Shape /\ WebInv
  BY ShapeAtFirst, WebAtFirst
<1>2. Shape /\ WebInv /\ [Next]_vars => (Shape /\ WebInv)'
  BY ShapeHolds, WebInvHolds
<1>3. WebInv => SiteShowsThePublished
  BY DEF WebInv, WebRows, Latest, Shown, SiteShowsThePublished
<1> QED
  BY <1>1, <1>2, <1>3, PTL DEF Spec

----------------------------------------------------------------------------
(* What is published stands.                                                *)

\* The prices and wordings there may be: chosen, or from the start.
AllPrices == Prices \union { CHOOSE price \in Prices : TRUE }

AllBodies == Bodies \union { CHOOSE body \in Bodies : TRUE }

PlanSet == [ version : Nat, status : {"draft", "published", "gone"}, price : AllPrices ]

PackSet == [ status : {"draft", "published", "retired", "gone"}, replaces : Nat, retires : BOOLEAN ]

PromptSet == [ body : AllBodies, live : BOOLEAN ]

\* The first version is always sold to somebody, and no version is beyond all bounds.
PlanRows ==
  /\ plan \in Seq(PlanSet) /\ Len(plan) > 0 /\ plan[1].status = "published"
  /\ signed \subseteq 1..Len(plan) /\ 1 \in signed
  /\ \E top \in Nat : \A r \in 1..Len(plan) : plan[r].version <= top

\* The row d, which was not deleted, is to take the place of r.
Follows(d, r) == d \in 1..Len(pack) /\ pack[d].status # "gone" /\ pack[d].replaces = r

\* There is one draft at most for a pack, which is on sale until the draft is published.
PacksFit ==
  /\ \A d, r \in 1..Len(pack) : Follows(d, r) =>
       /\ pack[r].status \in {"published", "retired"}
       /\ pack[d].status = "draft" <=> pack[r].status = "published"
  /\ \A d, e, r \in 1..Len(pack) : (Follows(d, r) /\ Follows(e, r)) => d = e

PackRows ==
  /\ pack \in Seq(PackSet) /\ \A r \in 1..Len(pack) : pack[r].replaces \in 0..Len(pack)
  /\ "pack" \in crossed \/ PacksFit

OneLives == \E v \in 1..Len(prompt) : LivePrompts = {v}

PromptRows == prompt \in Seq(PromptSet) /\ ("prompt" \in crossed \/ OneLives)

PlanRequest(r) ==
  /\ r.doing = "price" =>
       /\ r.about = {"plan"} /\ r.arg \in Prices /\ r.saw.live.version \in Nat
       /\ r.saw.draft \in 0..Len(plan) /\ r.saw.draft # 1
       /\ r.saw.draft = 0 \/ r.overtaken \/ plan[r.saw.draft].status = "draft"
  /\ r.doing = "discard" =>
       r.about = {"plan"} /\ r.arg \in 1..Len(plan) /\ (r.overtaken \/ plan[r.arg].status = "draft")

PackRequest(r) ==
  /\ r.doing = "pack" =>
       /\ r.about = {"pack"} /\ r.arg.replaces \in 0..Len(pack) /\ r.arg.retires \in BOOLEAN
       /\ r.arg.replaces # 0 =>
            \/ r.overtaken
            \/ /\ pack[r.arg.replaces].status = "published"
               /\ \A d \in 1..Len(pack) : (pack[d].status = "draft" /\ Follows(d, r.arg.replaces)) => d \in r.saw
  /\ r.doing = "unpack" =>
       r.about = {"pack"} /\ r.arg \in 1..Len(pack) /\ (r.overtaken \/ pack[r.arg].status = "draft")
  /\ r.doing = "publish" =>
       r.about = {"plan", "pack"} /\ (r.overtaken \/ r.saw.packs = Rows(pack, "draft"))

PromptRequest(r) ==
  r.doing \in {"prompt", "activate"} =>
    /\ r.about = {"prompt"} /\ r.arg.body \in AllBodies /\ r.arg.live \in BOOLEAN
    /\ r.doing = "activate" => r.arg.version \in 1..Len(prompt) /\ r.arg.live
    /\ r.saw = NoRequest \/ r.overtaken \/ r.saw.live = LivePrompts

PublishingRequest(r) == PlanRequest(r) /\ PackRequest(r) /\ PromptRequest(r)

PublishingRows == PlanRows /\ PackRows /\ PromptRows

PublishInv == PublishingRows /\ \A q \in Requests : PublishingRequest(request[q])

\* The requests keep what they rely on: the tables they are about do not change
\* unless they are overtaken, and no row is taken out of a table.
KeepsTables(p) ==
  \/ request'[p] = NoRequest \/ request'[p].doing \notin PublishingTasks
  \/ /\ Stays(p)
     /\ "plan" \in request[p].about => request'[p].overtaken \/ plan' = plan
     /\ "pack" \in request[p].about => request'[p].overtaken \/ pack' = pack
     /\ "prompt" \in request[p].about => request'[p].overtaken \/ prompt' = prompt

TablesGrow ==
  /\ Len(plan) \in Nat /\ Len(plan') \in Nat /\ Len(plan) <= Len(plan')
  /\ Len(pack) \in Nat /\ Len(pack') \in Nat /\ Len(pack) <= Len(pack')
  /\ Len(prompt) \in Nat /\ Len(prompt') \in Nat /\ Len(prompt) <= Len(prompt')

LEMMA OneKeepsTables ==
  ASSUME NEW p \in Requests, PublishingRequest(request[p]), KeepsTables(p), TablesGrow
  PROVE  PublishingRequest(request[p])'
<1>1. PICK r, s : r = request[p] /\ s = request'[p]
  OBVIOUS
<1>2. PlanRequest(r) /\ PackRequest(r) /\ PromptRequest(r)
  BY <1>1 DEF PublishingRequest
<1>3. CASE s.doing \notin PublishingTasks
  BY <1>1, <1>3 DEF PublishingTasks, PublishingRequest, PlanRequest, PackRequest, PromptRequest
<1>4. CASE s.doing \in PublishingTasks
  <2>1. /\ s.doing = r.doing /\ s.about = r.about /\ s.arg = r.arg /\ s.saw = r.saw /\ (r.overtaken => s.overtaken)
        /\ "plan" \in r.about => s.overtaken \/ plan' = plan
        /\ "pack" \in r.about => s.overtaken \/ pack' = pack
        /\ "prompt" \in r.about => s.overtaken \/ prompt' = prompt
    BY <1>1, <1>4, NothingIsOpen DEF KeepsTables, Stays, PublishingTasks
  <2>2. PlanRequest(s)'
    BY <1>2, <2>1 DEF PlanRequest, TablesGrow
  <2>3. PackRequest(s)'
    BY <1>2, <2>1 DEF PackRequest, TablesGrow, Follows, Rows
  <2>4. PromptRequest(s)'
    BY <1>2, <2>1 DEF PromptRequest, TablesGrow, LivePrompts
  <2> QED
    BY <1>1, <2>2, <2>3, <2>4 DEF PublishingRequest, PlanRequest, PackRequest, PromptRequest
<1> QED
  BY <1>3, <1>4

LEMMA PublishingGoesOn ==
  ASSUME PublishInv, \A p \in Requests : KeepsTables(p), TablesGrow, PublishingRows'
  PROVE  PublishInv'
  BY OneKeepsTables DEF PublishInv

LEMMA TablesTyped ==
  ASSUME PublishingRows
  PROVE  /\ plan \in Seq(PlanSet) /\ pack \in Seq(PackSet) /\ prompt \in Seq(PromptSet)
         /\ Len(plan) \in Nat /\ Len(pack) \in Nat /\ Len(prompt) \in Nat
<1>1. plan \in Seq(PlanSet) /\ pack \in Seq(PackSet) /\ prompt \in Seq(PromptSet)
  BY DEF PublishingRows, PlanRows, PackRows, PromptRows
<1> QED
  BY <1>1

LEMMA TablesSame ==
  ASSUME PublishingRows, UNCHANGED publishingVars, crossed \subseteq crossed'
  PROVE  PublishingRows' /\ TablesGrow
<1>1. plan' = plan /\ pack' = pack /\ signed' = signed /\ prompt' = prompt
  BY DEF publishingVars
<1>2. PacksFit => PacksFit'
  BY <1>1 DEF PacksFit, Follows
<1>3. OneLives => OneLives'
  BY <1>1 DEF OneLives, LivePrompts
<1>4. PlanRows'
  BY <1>1 DEF PublishingRows, PlanRows
<1>5. TablesGrow
  BY <1>1 DEF PublishingRows, PlanRows, PackRows, PromptRows, TablesGrow
<1> QED
  BY <1>1, <1>2, <1>3, <1>4, <1>5 DEF PublishingRows, PackRows, PromptRows

\* The steps that leave prices and prompts alone.
LEMMA PublishingAside ==
  ASSUME PublishInv, Lasts, NEW some, some \cap PublishingTasks = {}, Touches(some), UNCHANGED publishingVars
  PROVE  PublishInv'
<1>1. PublishingRows' /\ TablesGrow
  BY TablesSame DEF PublishInv, Lasts
<1>2. plan' = plan /\ pack' = pack /\ prompt' = prompt
  BY DEF publishingVars
<1>3. \A p \in Requests : KeepsTables(p)
  BY <1>2 DEF Touches, KeepsTables
<1> QED
  BY <1>1, <1>3, PublishingGoesOn

\* A request about prices or prompts begins.
LEMMA PublishingOpens ==
  ASSUME PublishInv, Shape, NEW q, NEW what, what # "nothing", NEW about, NEW arg, NEW saw,
         Opens(q, what, about, arg, saw), UNCHANGED publishingVars,
         PublishingRequest([ doing |-> what, about |-> about, arg |-> arg, saw |-> saw, overtaken |-> FALSE ])
  PROVE  PublishInv'
<1>1. PICK r : r = [ doing |-> what, about |-> about, arg |-> arg, saw |-> saw, overtaken |-> FALSE ]
  OBVIOUS
<1>2. /\ q \in Requests /\ request'[q] = r /\ crossed' = crossed
      /\ \A p \in Requests \ {q} : request'[p] = request[p]
  BY <1>1, OpensOne
<1>3. PublishingRows'
  BY <1>2, TablesSame DEF PublishInv
<1>4. plan' = plan /\ pack' = pack /\ prompt' = prompt
  BY DEF publishingVars
<1>5. ASSUME NEW t, PublishingRequest(t) PROVE PublishingRequest(t)'
  BY <1>4, <1>5 DEF PublishingRequest, PlanRequest, PackRequest, PromptRequest, Follows, Rows, LivePrompts
<1>6. PublishingRequest(r)'
  BY <1>1, <1>5
<1>7. \A p \in Requests \ {q} : PublishingRequest(request[p])'
  <2> SUFFICES ASSUME NEW p \in Requests \ {q} PROVE PublishingRequest(request[p])'
    OBVIOUS
  <2>1. PICK t : t = request[p]
    OBVIOUS
  <2>2. PublishingRequest(t)'
    BY <1>5, <2>1 DEF PublishInv
  <2>3. request'[p] = t
    BY <1>2, <2>1
  <2> QED
    BY <2>2, <2>3 DEF PublishingRequest, PlanRequest, PackRequest, PromptRequest
<1>8. PublishingRequest(request[q])'
  BY <1>2, <1>6 DEF PublishingRequest, PlanRequest, PackRequest, PromptRequest
<1> QED
  BY <1>3, <1>7, <1>8 DEF PublishInv

\* A request has written what it changed.
LEMMA TablesWritten ==
  ASSUME PublishInv, Shape, NEW q \in Requests, NEW what, Writes(q, what), TablesGrow, PublishingRows',
         "plan" \in what \/ plan' = plan, "pack" \in what \/ pack' = pack, "prompt" \in what \/ prompt' = prompt
  PROVE  PublishInv'
<1>1. /\ request'[q] = NoRequest
      /\ \A p \in Requests \ {q} :
           /\ Stays(p) /\ Marked(p, what) /\ (request'[p] = NoRequest <=> request[p] = NoRequest)
  BY WritesOne
<1>2. \A p \in Requests : KeepsTables(p)
  <2> SUFFICES ASSUME NEW p \in Requests, p # q, request'[p] # NoRequest PROVE KeepsTables(p)
    BY <1>1 DEF KeepsTables
  <2>1. Stays(p) /\ (request'[p].overtaken <=> (request[p].overtaken \/ request[p].about \cap what # {}))
    BY <1>1 DEF Marked
  <2> QED
    BY <2>1 DEF KeepsTables
<1> QED
  BY <1>1, <1>2, PublishingGoesOn

\* What is read of the versions exists.
LEMMA LiveIsPublished ==
  ASSUME PlanRows
  PROVE  LivePlan \in 1..Len(plan) /\ plan[LivePlan].status = "published" /\ plan[LivePlan].version \in Nat
<1>1. PICK size, versions, sold :
        /\ size = Len(plan) /\ versions = [ r \in 1..Len(plan) |-> plan[r].version ] /\ sold = Rows(plan, "published")
  OBVIOUS
<1>2. /\ 1 \in sold /\ sold \subseteq 1..size /\ versions \in [ 1..size -> Nat ]
      /\ \A r \in sold : plan[r].status = "published" /\ plan[r].version = versions[r]
      /\ \E top \in Nat : \A r \in 1..size : versions[r] <= top
  <2>1. plan \in Seq(PlanSet) /\ \A r \in 1..size : plan[r] \in PlanSet
    BY <1>1 DEF PlanRows
  <2>2. \A r \in 1..size : versions[r] = plan[r].version /\ versions[r] \in Nat
    BY <1>1, <2>1 DEF PlanSet
  <2>3. DOMAIN versions = 1..size /\ versions \in [ 1..size -> Nat ]
    BY <1>1, <2>2
  <2>4. 1 \in sold /\ sold \subseteq 1..size /\ \A r \in sold : plan[r].status = "published"
    BY <1>1, <2>1 DEF PlanRows, Rows
  <2>5. \E top \in Nat : \A r \in 1..size : versions[r] <= top
    BY <1>1, <2>2 DEF PlanRows
  <2> QED
    BY <2>2, <2>3, <2>4, <2>5
<1>3. PICK tops : tops = { n \in Nat : \A r \in sold : versions[r] <= n }
  OBVIOUS
<1>4. tops \subseteq Nat /\ tops # {}
  BY <1>2, <1>3
<1>5. PICK top \in tops : \A n \in tops : ~(n < top)
  <2>1. \E top \in tops : \A n \in tops : ~(<< n, top >> \in OpToRel(<, Nat))
    BY <1>4, NatLessThanWellFounded, WFMin
  <2> QED
    BY <1>4, <2>1 DEF OpToRel
<1>6. \E r \in sold : versions[r] = top
  <2> SUFFICES ASSUME \A r \in sold : versions[r] # top PROVE FALSE
    OBVIOUS
  <2>1. top \in Nat /\ \A r \in sold : versions[r] \in Nat /\ versions[r] <= top /\ versions[r] # top
    BY <1>2, <1>3, <1>5
  <2>2. top > 0 /\ top - 1 \in Nat /\ \A r \in sold : versions[r] <= top - 1
    BY <1>2, <2>1
  <2>3. top - 1 \in tops
    BY <1>3, <2>2
  <2> QED
    BY <1>5, <2>1, <2>3
<1>7. \E r \in sold : \A s \in sold : plan[s].version <= plan[r].version
  BY <1>2, <1>3, <1>5, <1>6
<1>8. LivePlan \in sold
  BY <1>1, <1>7 DEF LivePlan
<1> QED
  BY <1>1, <1>2, <1>8

\* What the rows of the plans have to be after a step.
LEMMA PlanRowsNext ==
  ASSUME plan' \in Seq(PlanSet), Len(plan') > 0, plan'[1].status = "published",
         signed' \subseteq 1..Len(plan'), 1 \in signed',
         \E top \in Nat : \A s \in 1..Len(plan') : plan'[s].version <= top
  PROVE  PlanRows'
  BY DEF PlanRows

\* A row of the plans is rewritten.
LEMMA PlanRewritten ==
  ASSUME PlanRows, NEW r \in 1..Len(plan), NEW row \in PlanSet, plan' = [plan EXCEPT ![r] = row], signed' = signed,
         r = 1 => row.status = "published"
  PROVE  /\ PlanRows' /\ Len(plan') = Len(plan) /\ plan'[r] = row
         /\ \A s \in 1..Len(plan) : s # r => plan'[s] = plan[s]
<1>1. /\ plan' \in Seq(PlanSet) /\ Len(plan') = Len(plan) /\ plan'[r] = row
      /\ \A s \in 1..Len(plan) : s # r => plan'[s] = plan[s]
  BY DEF PlanRows
<1>2. PICK top \in Nat : \A s \in 1..Len(plan) : plan[s].version <= top
  BY DEF PlanRows
<1>3. PICK more \in Nat : more = top + row.version
  BY DEF PlanSet
<1>4. \A s \in 1..Len(plan) : plan[s].version \in Nat /\ plan[s].version <= more
  <2>1. \A s \in 1..Len(plan) : plan[s] \in PlanSet
    BY DEF PlanRows
  <2>2. \A s \in 1..Len(plan) : plan[s].version \in Nat /\ row.version \in Nat
    BY <2>1 DEF PlanSet
  <2> QED
    BY <1>2, <1>3, <2>2
<1>5. row.version <= more
  BY <1>2, <1>3 DEF PlanSet
<1>6. \E new \in Nat : \A s \in 1..Len(plan') : plan'[s].version <= new
  BY <1>1, <1>3, <1>4, <1>5
<1>7. Len(plan) \in Nat /\ Len(plan) > 0 /\ plan[1].status = "published" /\ signed \subseteq 1..Len(plan) /\ 1 \in signed
  BY DEF PlanRows
<1>8. Len(plan') > 0 /\ 1 \in 1..Len(plan) /\ signed' \subseteq 1..Len(plan') /\ 1 \in signed'
  BY <1>1, <1>7
<1>9. plan'[1].status = "published"
  BY <1>1, <1>7, <1>8
<1>10. PlanRows'
  BY <1>1, <1>6, <1>8, <1>9, PlanRowsNext
<1> QED
  BY <1>1, <1>10

LEMMA PlanAdded ==
  ASSUME PlanRows, NEW row \in PlanSet, plan' = Append(plan, row), signed' = signed
  PROVE  /\ PlanRows' /\ Len(plan') = Len(plan) + 1
         /\ \A s \in 1..Len(plan) : plan'[s] = plan[s]
<1>1. /\ plan' \in Seq(PlanSet) /\ Len(plan') = Len(plan) + 1 /\ plan'[Len(plan) + 1] = row
      /\ \A s \in 1..Len(plan) : plan'[s] = plan[s]
  BY DEF PlanRows
<1>2. PICK top \in Nat : \A s \in 1..Len(plan) : plan[s].version <= top
  BY DEF PlanRows
<1>3. PICK more \in Nat : more = top + row.version
  BY DEF PlanSet
<1>4. \A s \in 1..Len(plan) : plan[s].version \in Nat /\ plan[s].version <= more
  <2>1. \A s \in 1..Len(plan) : plan[s] \in PlanSet
    BY DEF PlanRows
  <2>2. \A s \in 1..Len(plan) : plan[s].version \in Nat /\ row.version \in Nat
    BY <2>1 DEF PlanSet
  <2> QED
    BY <1>2, <1>3, <2>2
<1>5. row.version <= more
  BY <1>2, <1>3 DEF PlanSet
<1>6. \E new \in Nat : \A s \in 1..Len(plan') : plan'[s].version <= new
  <2>1. \A s \in 1..Len(plan') : s \in 1..Len(plan) \/ s = Len(plan) + 1
    BY <1>1 DEF PlanRows
  <2> QED
    BY <1>1, <1>3, <1>4, <1>5, <2>1
<1>7. Len(plan) \in Nat /\ Len(plan) > 0 /\ plan[1].status = "published" /\ signed \subseteq 1..Len(plan) /\ 1 \in signed
  BY DEF PlanRows
<1>8. Len(plan') > 0 /\ 1 \in 1..Len(plan) /\ signed' \subseteq 1..Len(plan') /\ 1 \in signed'
  BY <1>1, <1>7
<1>9. plan'[1].status = "published"
  BY <1>1, <1>7, <1>8
<1>10. PlanRows'
  BY <1>1, <1>6, <1>8, <1>9, PlanRowsNext
<1> QED
  BY <1>1, <1>10

\* Prices: what is on sale is rewritten or deleted only by a request that was overtaken.
SoldStands == \A r \in Rows(plan, "published") : plan'[r] = plan[r]

LEMMA APlanIsDeleted ==
  ASSUME PlanRows, NEW r \in 1..Len(plan), DeletesPlan(r), signed' = signed
  PROVE  /\ PlanRows' /\ Len(plan') = Len(plan) /\ plan[r].status # "gone"
         /\ \A s \in 1..Len(plan) : s # r => plan'[s] = plan[s]
<1>1. PICK old, row : old = plan[r] /\ row = [old EXCEPT !.status = "gone"]
  OBVIOUS
<1>2. old \in PlanSet
  BY <1>1 DEF PlanRows
<1>3. row \in PlanSet
  BY <1>1, <1>2 DEF PlanSet
<1>4. plan' = [plan EXCEPT ![r] = row] /\ r \notin signed /\ plan[r].status # "gone"
  BY <1>1 DEF DeletesPlan, Gone
<1>5. r # 1
  BY <1>4 DEF PlanRows
<1> QED
  BY <1>3, <1>4, <1>5, PlanRewritten

LEMMA APriceBegins ==
  ASSUME PublishInv, Shape, NEW q,
         (\E price \in Prices : PriceOpens(q, price)) \/ (\E r \in 1..Len(plan) : DiscardOpens(q, r))
  PROVE  PublishInv'
<1>1. ASSUME NEW price \in Prices, PriceOpens(q, price) PROVE PublishInv'
  <2>1. PICK r : SomeDraft(r) /\ Opens(q, "price", {"plan"}, price, [ live |-> plan[LivePlan], draft |-> r ])
    BY <1>1 DEF PriceOpens
  <2>2. UNCHANGED publishingVars
    BY <1>1 DEF PriceOpens
  <2>3. PICK saw, about : saw = [ live |-> plan[LivePlan], draft |-> r ] /\ about = {"plan"}
    OBVIOUS
  <2>4. saw.live.version \in Nat /\ saw.draft = r
    BY <2>3, LiveIsPublished DEF PublishInv, PublishingRows
  <2>5. r = 0 \/ (r \in 1..Len(plan) /\ plan[r].status = "draft")
    BY <2>1 DEF SomeDraft, PlanDrafts, Rows, PublishInv, PublishingRows, PlanRows
  <2>6. r \in 0..Len(plan) /\ r # 1
    BY <2>5 DEF PublishInv, PublishingRows, PlanRows
  <2>7. PICK t : t = [ doing |-> "price", about |-> about, arg |-> price, saw |-> saw, overtaken |-> FALSE ]
    OBVIOUS
  <2>8. t.doing = "price" /\ t.about = {"plan"} /\ t.arg = price /\ t.saw = saw
    BY <2>3, <2>7
  <2>9. PublishingRequest(t)
    BY <2>4, <2>5, <2>6, <2>8 DEF PublishingRequest, PlanRequest, PackRequest, PromptRequest
  <2>10. Opens(q, "price", about, price, saw)
    BY <2>1, <2>3
  <2> QED
    BY <2>2, <2>7, <2>9, <2>10, PublishingOpens
<1>2. ASSUME NEW r \in 1..Len(plan), DiscardOpens(q, r) PROVE PublishInv'
  <2>1. PICK about, none : about = {"plan"} /\ none = NoRequest
    OBVIOUS
  <2>2. Opens(q, "discard", about, r, none) /\ UNCHANGED publishingVars /\ plan[r].status = "draft"
    BY <1>2, <2>1 DEF DiscardOpens, PlanDrafts, Rows
  <2>3. PICK t : t = [ doing |-> "discard", about |-> about, arg |-> r, saw |-> none, overtaken |-> FALSE ]
    OBVIOUS
  <2>4. t.doing = "discard" /\ t.about = {"plan"} /\ t.arg = r
    BY <2>1, <2>3
  <2>5. PublishingRequest(t)
    BY <2>2, <2>4 DEF PublishingRequest, PlanRequest, PackRequest, PromptRequest
  <2> QED
    BY <2>2, <2>3, <2>5, PublishingOpens
<1> QED
  BY <1>1, <1>2

\* The rows of plans were written, by a request about plans alone.
LEMMA PlansWritten ==
  ASSUME PublishInv, Shape, NEW q \in Requests, Writes(q, {"plan"}), UNCHANGED << pack, prompt >>,
         PlanRows', Len(plan) <= Len(plan')
  PROVE  PublishInv'
<1>1. crossed \subseteq crossed' /\ pack' = pack /\ prompt' = prompt
  BY WritesOne
<1>2. PacksFit => PacksFit'
  BY <1>1 DEF PacksFit, Follows
<1>3. OneLives => OneLives'
  BY <1>1 DEF OneLives, LivePrompts
<1>4. PublishingRows'
  BY <1>1, <1>2, <1>3 DEF PublishInv, PublishingRows, PackRows, PromptRows
<1>5. TablesGrow
  BY <1>1, <1>4, TablesTyped DEF PublishInv, TablesGrow
<1> QED
  BY <1>1, <1>4, <1>5, TablesWritten

LEMMA APriceIsSet ==
  ASSUME PublishInv, Shape, NEW q \in Requests, Price(q)
  PROVE  PublishInv' /\ (SoldStands \/ request[q].overtaken)
<1>1. PICK price, saw, r : price = request[q].arg /\ saw = request[q].saw /\ r = saw.draft
  OBVIOUS
<1>2. /\ price \in Prices /\ saw.live.version \in Nat /\ r \in 0..Len(plan) /\ r # 1
      /\ r = 0 \/ request[q].overtaken \/ plan[r].status = "draft"
  <2>1. PICK t : t = request[q]
    OBVIOUS
  <2>2. PlanRequest(t) /\ t.doing = "price"
    BY <2>1 DEF PublishInv, PublishingRequest, Price, Doing
  <2> QED
    BY <1>1, <2>1, <2>2 DEF PlanRequest
<1>3. PICK new : new = [ version |-> saw.live.version + 1, status |-> "draft", price |-> price ]
  OBVIOUS
<1>4. new \in PlanSet
  BY <1>2, <1>3 DEF PlanSet, AllPrices
<1>5. PlanRows /\ Len(plan) \in Nat
  BY TablesTyped DEF PublishInv, PublishingRows
<1>6. /\ Writes(q, {"plan"}) /\ UNCHANGED << pack, prompt >> /\ signed' = signed
      /\ \/ plan' = plan /\ r = 0
         \/ r # 0 /\ DeletesPlan(r)
         \/ r = 0 /\ plan' = Append(plan, new)
         \/ r # 0 /\ plan' = [plan EXCEPT ![r] = new]
  BY <1>1, <1>3 DEF Price
<1>7. /\ PlanRows' /\ Len(plan) <= Len(plan')
      /\ \A s \in 1..Len(plan) : s = r \/ plan'[s] = plan[s]
  <2>1. CASE plan' = plan
    <3>1. PlanRows'
      BY <1>5, <1>6, <2>1 DEF PlanRows
    <3> QED
      BY <1>5, <2>1, <3>1
  <2>2. CASE r # 0 /\ DeletesPlan(r)
    BY <1>2, <1>5, <1>6, <2>2, APlanIsDeleted
  <2>3. CASE plan' = Append(plan, new)
    <3>1. /\ PlanRows' /\ Len(plan') = Len(plan) + 1
          /\ \A s \in 1..Len(plan) : plan'[s] = plan[s]
      BY <1>4, <1>5, <1>6, <2>3, PlanAdded
    <3> QED
      BY <1>5, <3>1
  <2>4. CASE r # 0 /\ plan' = [plan EXCEPT ![r] = new]
    <3>1. r \in 1..Len(plan)
      BY <1>2, <1>5, <2>4
    <3>2. /\ PlanRows' /\ Len(plan') = Len(plan) /\ plan'[r] = new
          /\ \A s \in 1..Len(plan) : s # r => plan'[s] = plan[s]
      BY <1>2, <1>4, <1>5, <1>6, <2>4, <3>1, PlanRewritten
    <3> QED
      BY <1>5, <3>2
  <2> QED
    BY <1>6, <2>1, <2>2, <2>3, <2>4
<1>8. SoldStands \/ request[q].overtaken
  BY <1>2, <1>5, <1>7 DEF SoldStands, Rows, PlanRows
<1> QED
  BY <1>6, <1>7, <1>8, PlansWritten

LEMMA ADraftIsDiscarded ==
  ASSUME PublishInv, Shape, NEW q \in Requests, Discard(q)
  PROVE  PublishInv' /\ (SoldStands \/ request[q].overtaken)
<1>1. PICK r : r = request[q].arg
  OBVIOUS
<1>2. r \in 1..Len(plan) /\ (request[q].overtaken \/ plan[r].status = "draft")
  <2>1. PICK t : t = request[q]
    OBVIOUS
  <2>2. PlanRequest(t) /\ t.doing = "discard"
    BY <2>1 DEF PublishInv, PublishingRequest, Discard, Doing
  <2> QED
    BY <1>1, <2>1, <2>2 DEF PlanRequest
<1>3. /\ Writes(q, {"plan"}) /\ UNCHANGED << pack, prompt >> /\ signed' = signed /\ DeletesPlan(r)
  BY <1>1 DEF Discard
<1>4. PlanRows /\ Len(plan) \in Nat
  BY TablesTyped DEF PublishInv, PublishingRows
<1>5. /\ PlanRows' /\ Len(plan') = Len(plan)
      /\ \A s \in 1..Len(plan) : s # r => plan'[s] = plan[s]
  BY <1>2, <1>3, <1>4, APlanIsDeleted
<1>6. SoldStands \/ request[q].overtaken
  BY <1>2, <1>4, <1>5 DEF SoldStands, Rows, PlanRows
<1>7. Len(plan) <= Len(plan')
  BY <1>4, <1>5
<1> QED
  BY <1>3, <1>5, <1>6, <1>7, PlansWritten

LEMMA SomebodySignsUp ==
  ASSUME PublishInv, Shape, SignsUp
  PROVE  PublishInv' /\ SoldStands
<1>1. PICK what : Acts(what)
  BY Zenon DEF SignsUp
<1>2. signed' = signed \union {LivePlan} /\ request' = request /\ plan' = plan /\ pack' = pack /\ prompt' = prompt
  BY Zenon DEF SignsUp
<1>3. Shape' /\ Lasts /\ Touches({}) /\ crossed' = crossed
  BY <1>1, <1>2, ActsStay DEF Acts
<1>4. PlanRows'
  BY <1>2, LiveIsPublished DEF PublishInv, PublishingRows, PlanRows
<1>5. PacksFit => PacksFit'
  BY <1>2 DEF PacksFit, Follows
<1>6. OneLives => OneLives'
  BY <1>2 DEF OneLives, LivePrompts
<1>7. PublishingRows'
  BY <1>2, <1>3, <1>4, <1>5, <1>6 DEF PublishInv, PublishingRows, PackRows, PromptRows
<1>8. TablesGrow
  BY <1>2, <1>7, TablesTyped DEF PublishInv, TablesGrow
<1>9. \A p \in Requests : KeepsTables(p)
  BY <1>2 DEF KeepsTables, Stays
<1> QED
  BY <1>2, <1>7, <1>8, <1>9, PublishingGoesOn DEF SoldStands

\* Packs: one draft at most takes the place of one that is on sale.
LEMMA APackBegins ==
  ASSUME PublishInv, Shape, NEW q,
         \/ \E r \in 1..Len(pack) \union {0}, retires \in BOOLEAN : PackOpens(q, r, retires)
         \/ \E r \in 1..Len(pack) : UnpackOpens(q, r)
         \/ PublishOpens(q)
  PROVE  PublishInv'
<1>0. Len(pack) \in Nat
  BY TablesTyped DEF PublishInv
<1>1. ASSUME NEW r \in 1..Len(pack) \union {0}, NEW retires \in BOOLEAN, PackOpens(q, r, retires) PROVE PublishInv'
  <2>1. PICK arg, saw, about :
          /\ arg = [ replaces |-> r, retires |-> retires ] /\ about = {"pack"}
          /\ saw = { d \in Rows(pack, "draft") : r # 0 /\ pack[d].replaces = r }
    OBVIOUS
  <2>2. Opens(q, "pack", about, arg, saw) /\ UNCHANGED publishingVars /\ (r = 0 \/ pack[r].status = "published")
    BY <1>1, <2>1 DEF PackOpens, Rows
  <2>3. \A d \in 1..Len(pack) : (pack[d].status = "draft" /\ r # 0 /\ Follows(d, r)) => d \in saw
    BY <2>1, TablesTyped DEF Follows, Rows, PublishInv
  <2>4. PICK t : t = [ doing |-> "pack", about |-> about, arg |-> arg, saw |-> saw, overtaken |-> FALSE ]
    OBVIOUS
  <2>5. t.doing = "pack" /\ t.about = {"pack"} /\ t.arg.replaces = r /\ t.arg.retires = retires /\ t.saw = saw
    BY <2>1, <2>4
  <2>6. PublishingRequest(t)
    BY <1>0, <2>2, <2>3, <2>5 DEF PublishingRequest, PlanRequest, PackRequest, PromptRequest
  <2> QED
    BY <2>2, <2>4, <2>6, PublishingOpens
<1>2. ASSUME NEW r \in 1..Len(pack), UnpackOpens(q, r) PROVE PublishInv'
  <2>1. PICK about, none : about = {"pack"} /\ none = NoRequest
    OBVIOUS
  <2>2. Opens(q, "unpack", about, r, none) /\ UNCHANGED publishingVars /\ pack[r].status = "draft"
    BY <1>2, <2>1 DEF UnpackOpens, Rows
  <2>3. PICK t : t = [ doing |-> "unpack", about |-> about, arg |-> r, saw |-> none, overtaken |-> FALSE ]
    OBVIOUS
  <2>4. t.doing = "unpack" /\ t.about = {"pack"} /\ t.arg = r
    BY <2>1, <2>3
  <2>5. PublishingRequest(t)
    BY <2>2, <2>4 DEF PublishingRequest, PlanRequest, PackRequest, PromptRequest
  <2> QED
    BY <2>2, <2>3, <2>5, PublishingOpens
<1>3. CASE PublishOpens(q)
  <2>1. PICK about, none, saw :
          about = {"plan", "pack"} /\ none = NoRequest /\ saw = [ plans |-> PlanDrafts, packs |-> Rows(pack, "draft") ]
    OBVIOUS
  <2>2. Opens(q, "publish", about, none, saw) /\ UNCHANGED publishingVars
    BY <1>3, <2>1 DEF PublishOpens
  <2>3. PICK t : t = [ doing |-> "publish", about |-> about, arg |-> none, saw |-> saw, overtaken |-> FALSE ]
    OBVIOUS
  <2>4. t.doing = "publish" /\ t.about = {"plan", "pack"} /\ t.saw.packs = Rows(pack, "draft")
    BY <2>1, <2>3
  <2>5. PublishingRequest(t)
    BY <2>4 DEF PublishingRequest, PlanRequest, PackRequest, PromptRequest
  <2> QED
    BY <2>2, <2>3, <2>5, PublishingOpens
<1> QED
  BY <1>1, <1>2, <1>3

\* The rows of packs were written.
LEMMA PacksWritten ==
  ASSUME PublishInv, Shape, NEW q \in Requests, NEW what, Writes(q, what), "pack" \in what,
         "plan" \in what \/ plan' = plan, PlanRows', Len(plan) <= Len(plan'), prompt' = prompt,
         PackRows', Len(pack) <= Len(pack')
  PROVE  PublishInv'
<1>1. crossed \subseteq crossed'
  BY WritesOne
<1>2. OneLives => OneLives'
  BY DEF OneLives, LivePrompts
<1>3. PublishingRows'
  BY <1>1, <1>2 DEF PublishInv, PublishingRows, PromptRows
<1>4. TablesGrow
  BY <1>3, TablesTyped DEF PublishInv, TablesGrow
<1> QED
  BY <1>3, <1>4, TablesWritten

LEMMA APackIsDrafted ==
  ASSUME PublishInv, Shape, NEW q \in Requests, Pack(q)
  PROVE  PublishInv'
<1>1. PICK r, retires, saw, size :
        r = request[q].arg.replaces /\ retires = request[q].arg.retires /\ saw = request[q].saw /\ size = Len(pack)
  OBVIOUS
<1>2. /\ r \in 0..size /\ retires \in BOOLEAN
      /\ r # 0 =>
           \/ request[q].overtaken
           \/ /\ pack[r].status = "published"
              /\ \A d \in 1..size : (pack[d].status = "draft" /\ Follows(d, r)) => d \in saw
  <2>1. PICK t : t = request[q]
    OBVIOUS
  <2>2. PackRequest(t) /\ t.doing = "pack"
    BY <2>1 DEF PublishInv, PublishingRequest, Pack, Doing
  <2> QED
    BY <1>1, <2>1, <2>2 DEF PackRequest
<1>3. /\ pack \in Seq(PackSet) /\ size \in Nat /\ Len(plan) \in Nat
      /\ \A s \in 1..size : pack[s] \in PackSet /\ pack[s].replaces \in 0..size
  BY <1>1, TablesTyped DEF PublishInv, PublishingRows, PackRows
<1>4. PICK kept, row :
        /\ kept = [ s \in DOMAIN pack |-> IF s \in saw \cap Rows(pack, "draft") THEN Gone(pack[s]) ELSE pack[s] ]
        /\ row = [ status |-> "draft", replaces |-> r, retires |-> retires ]
  OBVIOUS
<1>5. /\ pack' = Append(kept, row) /\ Writes(q, {"pack"}) /\ plan' = plan /\ signed' = signed /\ prompt' = prompt
  BY <1>1, <1>4 DEF Pack
<1>6. \A s \in 1..size :
        /\ kept[s] \in PackSet /\ kept[s].replaces = pack[s].replaces
        /\ IF s \in saw /\ pack[s].status = "draft" THEN kept[s].status = "gone" ELSE kept[s] = pack[s]
  <2> SUFFICES ASSUME NEW s \in 1..size
               PROVE  /\ kept[s] \in PackSet /\ kept[s].replaces = pack[s].replaces
                      /\ IF s \in saw /\ pack[s].status = "draft" THEN kept[s].status = "gone" ELSE kept[s] = pack[s]
    OBVIOUS
  <2>1. PICK old : old = pack[s]
    OBVIOUS
  <2>2. old \in PackSet
    BY <1>3, <2>1
  <2>3. Gone(old) \in PackSet /\ Gone(old).status = "gone" /\ Gone(old).replaces = old.replaces
    BY <2>2 DEF Gone, PackSet
  <2>4. kept[s] = IF s \in saw /\ old.status = "draft" THEN Gone(old) ELSE old
    BY <1>1, <1>3, <1>4, <2>1 DEF Rows
  <2> QED
    BY <2>1, <2>2, <2>3, <2>4
<1>7. row \in PackSet /\ row.status = "draft" /\ row.replaces = r
  BY <1>2, <1>3, <1>4 DEF PackSet
<1>8. kept \in Seq(PackSet) /\ Len(kept) = size
  <2>1. kept = [ s \in 1..size |-> kept[s] ]
    BY <1>1, <1>3, <1>4
  <2>2. kept \in [ 1..size -> PackSet ]
    BY <1>6, <2>1
  <2> QED
    BY <1>3, <2>1, <2>2
<1>9. /\ pack' \in Seq(PackSet) /\ Len(pack') = size + 1 /\ pack'[size + 1] = row
      /\ \A s \in 1..size : pack'[s] = kept[s]
  BY <1>3, <1>5, <1>7, <1>8
<1>10. \A s \in 1..(size + 1) : s \in 1..size \/ s = size + 1
  BY <1>3
<1>11. \A s \in 1..(size + 1) : pack'[s].replaces \in 0..size
  BY <1>2, <1>3, <1>6, <1>7, <1>9, <1>10
<1>12. crossed' = IF request[q].overtaken THEN crossed \union {"pack"} ELSE crossed
  BY <1>5, WritesOne
<1>13. ASSUME "pack" \notin crossed' PROVE PacksFit'
  <2>1. PacksFit /\ ~request[q].overtaken
    BY <1>12, <1>13 DEF PublishInv, PublishingRows, PackRows
  <2>2. /\ \A d, s \in 1..size : Follows(d, s) =>
             /\ pack[s].status \in {"published", "retired"}
             /\ pack[d].status = "draft" <=> pack[s].status = "published"
        /\ \A d, e, s \in 1..size : (Follows(d, s) /\ Follows(e, s)) => d = e
    BY <1>1, <2>1 DEF PacksFit
  <2>3. ASSUME NEW d \in 1..(size + 1), NEW s \in 1..(size + 1), Follows(d, s)'
        PROVE  /\ s \in 1..size
               /\ \/ d \in 1..size /\ Follows(d, s) /\ kept[d] = pack[d] /\ ~(d \in saw /\ pack[d].status = "draft")
                  \/ d = size + 1 /\ s = r
    <3>1. pack'[d].status # "gone" /\ pack'[d].replaces = s
      BY <2>3 DEF Follows
    <3>2. s \in 1..size
      BY <1>3, <1>11, <3>1
    <3>3. CASE d = size + 1
      BY <1>7, <1>9, <3>1, <3>2, <3>3
    <3>4. CASE d \in 1..size
      <4>1. kept[d].status # "gone" /\ kept[d].replaces = s
        BY <1>9, <3>1, <3>4
      <4>2. kept[d] = pack[d] /\ ~(d \in saw /\ pack[d].status = "draft")
        BY <1>6, <3>4, <4>1
      <4>3. Follows(d, s)
        BY <1>1, <3>4, <4>1, <4>2 DEF Follows
      <4> QED
        BY <3>2, <3>4, <4>2, <4>3
    <3> QED
      BY <1>10, <3>3, <3>4
  <2>4. ASSUME NEW d \in 1..(size + 1), NEW s \in 1..(size + 1), Follows(d, s)'
        PROVE  /\ pack'[s].status \in {"published", "retired"}
               /\ pack'[d].status = "draft" <=> pack'[s].status = "published"
    <3>1. CASE d \in 1..size /\ Follows(d, s) /\ kept[d] = pack[d] /\ s \in 1..size
      BY <1>6, <1>9, <2>2, <3>1
    <3>2. CASE d = size + 1 /\ s = r /\ s \in 1..size
      BY <1>2, <1>3, <1>6, <1>7, <1>9, <2>1, <3>2
    <3> QED
      BY <2>3, <2>4, <3>1, <3>2
  <2>5. ASSUME NEW d \in 1..(size + 1), NEW e \in 1..(size + 1), NEW s \in 1..(size + 1), Follows(d, s)', Follows(e, s)'
        PROVE  d = e
    <3>1. ASSUME NEW c \in 1..size, Follows(c, r), r \in 1..size PROVE c \in saw /\ pack[c].status = "draft"
      BY <1>2, <1>3, <2>1, <2>2, <3>1
    <3> QED
      BY <2>2, <2>3, <2>5, <3>1
  <2>6. Len(pack') = size + 1
    BY <1>9
  <2> QED
    BY <2>4, <2>5, <2>6 DEF PacksFit
<1>14. PackRows' /\ Len(pack) <= Len(pack')
  BY <1>1, <1>3, <1>9, <1>11, <1>13 DEF PackRows
<1>15. PlanRows' /\ Len(plan) <= Len(plan')
  <2>1. PlanRows
    BY DEF PublishInv, PublishingRows
  <2>2. PlanRows'
    BY <1>5, <2>1 DEF PlanRows
  <2> QED
    BY <1>3, <1>5, <2>2
<1> QED
  BY <1>5, <1>14, <1>15, PacksWritten

LEMMA ADraftIsDropped ==
  ASSUME PublishInv, Shape, NEW q \in Requests, Unpack(q)
  PROVE  PublishInv'
<1>1. PICK r, size, old, row :
        r = request[q].arg /\ size = Len(pack) /\ old = pack[r] /\ row = Gone(old)
  OBVIOUS
<1>2. r \in 1..size /\ (request[q].overtaken \/ pack[r].status = "draft")
  <2>1. PICK t : t = request[q]
    OBVIOUS
  <2>2. PackRequest(t) /\ t.doing = "unpack"
    BY <2>1 DEF PublishInv, PublishingRequest, Unpack, Doing
  <2> QED
    BY <1>1, <2>1, <2>2 DEF PackRequest
<1>3. /\ pack \in Seq(PackSet) /\ size \in Nat /\ Len(plan) \in Nat
      /\ \A s \in 1..size : pack[s] \in PackSet /\ pack[s].replaces \in 0..size
  BY <1>1, TablesTyped DEF PublishInv, PublishingRows, PackRows
<1>4. old \in PackSet
  BY <1>1, <1>2, <1>3
<1>5. row \in PackSet /\ row.status = "gone" /\ row.replaces = old.replaces
  BY <1>1, <1>4 DEF Gone, PackSet
<1>6. /\ pack' = [pack EXCEPT ![r] = row]
      /\ Writes(q, {"pack"}) /\ plan' = plan /\ signed' = signed /\ prompt' = prompt
  BY <1>1, <1>2, <1>3 DEF Unpack
<1>7. /\ pack' \in Seq(PackSet) /\ Len(pack') = size /\ pack'[r] = row
      /\ \A s \in 1..size : s # r => pack'[s] = pack[s]
  BY <1>1, <1>2, <1>3, <1>5, <1>6
<1>8. \A s \in 1..size : pack'[s].replaces = pack[s].replaces
  BY <1>1, <1>5, <1>7
<1>9. crossed' = IF request[q].overtaken THEN crossed \union {"pack"} ELSE crossed
  BY <1>6, WritesOne
<1>10. ASSUME "pack" \notin crossed' PROVE PacksFit'
  <2>1. PacksFit /\ ~request[q].overtaken
    BY <1>9, <1>10 DEF PublishInv, PublishingRows, PackRows
  <2>2. \A d, s \in 1..size : Follows(d, s)' => (d # r /\ Follows(d, s))
    BY <1>1, <1>5, <1>7 DEF Follows
  <2>3. pack[r].status = "draft"
    BY <1>2, <2>1
  <2>4. \A d, s \in 1..size : Follows(d, s) => s # r
    BY <1>1, <2>1, <2>3 DEF PacksFit
  <2> QED
    BY <1>1, <1>7, <2>1, <2>2, <2>4, SMTT(60) DEF PacksFit
<1>11. PackRows' /\ Len(pack) <= Len(pack')
  BY <1>1, <1>3, <1>7, <1>8, <1>10 DEF PackRows
<1>12. PlanRows' /\ Len(plan) <= Len(plan')
  <2>1. PlanRows
    BY DEF PublishInv, PublishingRows
  <2>2. PlanRows'
    BY <1>6, <2>1 DEF PlanRows
  <2> QED
    BY <1>3, <1>6, <2>2
<1> QED
  BY <1>6, <1>11, <1>12, PacksWritten

\* The versions that are published: those that were are written as they are.
LEMMA PlansArePublished ==
  ASSUME PlanRows, NEW drafts, signed' = signed,
         plan' = [ r \in DOMAIN plan |-> IF r \in drafts THEN [plan[r] EXCEPT !.status = "published"] ELSE plan[r] ]
  PROVE  PlanRows' /\ Len(plan') = Len(plan) /\ SoldStands
<1>1. PICK size : size = Len(plan)
  OBVIOUS
<1>2. plan \in Seq(PlanSet) /\ size \in Nat /\ DOMAIN plan = 1..size
  BY <1>1 DEF PlanRows
<1>3. \A r \in 1..size :
        /\ plan'[r] \in PlanSet /\ plan'[r].version = plan[r].version
        /\ plan[r].status = "published" => plan'[r] = plan[r]
  <2> SUFFICES ASSUME NEW r \in 1..size
               PROVE  /\ plan'[r] \in PlanSet /\ plan'[r].version = plan[r].version
                      /\ plan[r].status = "published" => plan'[r] = plan[r]
    OBVIOUS
  <2>1. PICK old, new : old = plan[r] /\ new = [old EXCEPT !.status = "published"]
    OBVIOUS
  <2>2. old \in PlanSet
    BY <1>2, <2>1
  <2>3. new \in PlanSet /\ new.version = old.version /\ (old.status = "published" => new = old)
    BY <2>1, <2>2 DEF PlanSet
  <2>4. plan'[r] = IF r \in drafts THEN new ELSE old
    BY <1>2, <2>1
  <2> QED
    BY <2>1, <2>2, <2>3, <2>4
<1>4. plan' \in Seq(PlanSet) /\ Len(plan') = size
  <2>1. plan' = [ r \in 1..size |-> plan'[r] ]
    BY <1>2
  <2>2. plan' \in [ 1..size -> PlanSet ]
    BY <1>3, <2>1
  <2> QED
    BY <1>2, <2>1, <2>2
<1>5. \E top \in Nat : \A r \in 1..size : plan'[r].version <= top
  BY <1>1, <1>3 DEF PlanRows
<1>6. PlanRows'
  BY <1>1, <1>3, <1>4, <1>5 DEF PlanRows
<1>7. SoldStands
  BY <1>2, <1>3 DEF SoldStands, Rows
<1> QED
  BY <1>1, <1>4, <1>6, <1>7

LEMMA TheDraftsArePublished ==
  ASSUME PublishInv, Shape, NEW q \in Requests, Publish(q)
  PROVE  PublishInv' /\ SoldStands
<1>1. PICK packs, size : packs = request[q].saw.packs /\ size = Len(pack)
  OBVIOUS
<1>2. request[q].overtaken \/ packs = Rows(pack, "draft")
  <2>1. PICK t : t = request[q]
    OBVIOUS
  <2>2. PackRequest(t) /\ t.doing = "publish"
    BY <2>1 DEF PublishInv, PublishingRequest, Publish, Doing
  <2> QED
    BY <1>1, <2>1, <2>2 DEF PackRequest
<1>3. /\ pack \in Seq(PackSet) /\ size \in Nat /\ DOMAIN pack = 1..size /\ Len(plan) \in Nat /\ PlanRows
      /\ \A s \in 1..size : pack[s] \in PackSet /\ pack[s].replaces \in 0..size
  BY <1>1, TablesTyped DEF PublishInv, PublishingRows, PackRows
<1>4. /\ PlanRows' /\ Len(plan') = Len(plan) /\ SoldStands
  BY <1>3, PlansArePublished DEF Publish
<1>5. Writes(q, {"plan", "pack"}) /\ prompt' = prompt
  BY DEF Publish
<1> DEFINE Replaced(s) == \E d \in packs : pack[d].replaces = s
           Turned(s) == [pack[s] EXCEPT !.status = IF pack[s].retires THEN "retired" ELSE "published"]
           OffSale(s) == [pack[s] EXCEPT !.status = "retired"]
<1>6. pack' = [ s \in 1..size |-> CASE s \in packs -> Turned(s) [] Replaced(s) -> OffSale(s) [] OTHER -> pack[s] ]
  BY <1>1, <1>3 DEF Publish
<1>7. \A s \in 1..size :
        /\ Turned(s) \in PackSet /\ Turned(s).status \in {"published", "retired"} /\ Turned(s).replaces = pack[s].replaces
        /\ OffSale(s) \in PackSet /\ OffSale(s).status = "retired" /\ OffSale(s).replaces = pack[s].replaces
  <2> SUFFICES ASSUME NEW s \in 1..size
               PROVE  /\ Turned(s) \in PackSet /\ Turned(s).status \in {"published", "retired"}
                      /\ Turned(s).replaces = pack[s].replaces
                      /\ OffSale(s) \in PackSet /\ OffSale(s).status = "retired" /\ OffSale(s).replaces = pack[s].replaces
    OBVIOUS
  <2>1. PICK old : old = pack[s]
    OBVIOUS
  <2>2. old \in PackSet
    BY <1>3, <2>1
  <2>3. PICK to \in {"published", "retired"} : to = IF old.retires THEN "retired" ELSE "published"
    OBVIOUS
  <2>4. [old EXCEPT !.status = to] \in PackSet /\ [old EXCEPT !.status = to].status = to
        /\ [old EXCEPT !.status = to].replaces = old.replaces
    BY <2>2, <2>3 DEF PackSet
  <2>5. [old EXCEPT !.status = "retired"] \in PackSet /\ [old EXCEPT !.status = "retired"].status = "retired"
        /\ [old EXCEPT !.status = "retired"].replaces = old.replaces
    BY <2>2 DEF PackSet
  <2> QED
    BY <2>1, <2>3, <2>4, <2>5
<1> HIDE DEF Replaced, Turned, OffSale
<1>8. \A s \in 1..size :
        /\ pack'[s] \in {Turned(s), OffSale(s), pack[s]}
        /\ (s \in packs /\ ~Replaced(s)) => pack'[s] = Turned(s)
        /\ (s \notin packs /\ Replaced(s)) => pack'[s] = OffSale(s)
        /\ (s \notin packs /\ ~Replaced(s)) => pack'[s] = pack[s]
  BY <1>6
<1>9. \A s \in 1..size : pack'[s] \in PackSet /\ pack'[s].replaces = pack[s].replaces
  BY <1>3, <1>7, <1>8
<1>10. pack' \in Seq(PackSet) /\ Len(pack') = size
  <2>1. pack' = [ s \in 1..size |-> pack'[s] ]
    BY <1>6
  <2>2. pack' \in [ 1..size -> PackSet ]
    BY <1>9, <2>1
  <2> QED
    BY <1>3, <2>1, <2>2
<1>11. crossed' = IF request[q].overtaken THEN crossed \union {"plan", "pack"} ELSE crossed
  BY <1>5, WritesOne
<1>12. ASSUME "pack" \notin crossed' PROVE PacksFit'
  <2>1. PacksFit /\ packs = Rows(pack, "draft")
    BY <1>2, <1>11, <1>12 DEF PublishInv, PublishingRows, PackRows
  <2>2. /\ \A d, s \in 1..size : Follows(d, s) =>
             /\ pack[s].status \in {"published", "retired"}
             /\ pack[d].status = "draft" <=> pack[s].status = "published"
        /\ \A d, e, s \in 1..size : (Follows(d, s) /\ Follows(e, s)) => d = e
    BY <1>1, <2>1 DEF PacksFit
  <2>3. \A s \in 1..size : s \in packs <=> pack[s].status = "draft"
    BY <1>3, <2>1 DEF Rows
  <2>4. \A s \in 1..size : Replaced(s) <=> \E d \in 1..size : pack[d].status = "draft" /\ Follows(d, s)
    BY <1>1, <1>3, <2>1 DEF Rows, Follows, Replaced
  <2>5. \A s \in 1..size : Replaced(s) => pack[s].status \in {"published", "retired"}
    BY <2>2, <2>4
  <2>6. \A s \in 1..size : /\ pack[s].status = "draft" => pack'[s].status \in {"published", "retired"}
                           /\ Replaced(s) => pack'[s].status = "retired"
                           /\ pack[s].status # "draft" /\ ~Replaced(s) => pack'[s] = pack[s]
    BY <1>7, <1>8, <2>3, <2>5
  <2>7. \A d, s \in 1..size : Follows(d, s)' => Follows(d, s)
    BY <1>1, <1>9, <2>5, <2>6 DEF Follows
  <2>8. ASSUME NEW d \in 1..size, NEW s \in 1..size, Follows(d, s)
        PROVE  pack'[s].status = "retired" /\ pack'[d].status # "draft"
    <3>1. pack'[d].status # "draft"
      BY <2>5, <2>6
    <3>2. CASE pack[d].status = "draft"
      BY <2>4, <2>6, <2>8, <3>1, <3>2
    <3>3. CASE pack[d].status # "draft"
      BY <2>2, <2>6, <2>8, <3>1, <3>3
    <3> QED
      BY <3>2, <3>3
  <2>9. \A d, s \in 1..size : Follows(d, s)' =>
             /\ pack'[s].status \in {"published", "retired"}
             /\ pack'[d].status = "draft" <=> pack'[s].status = "published"
    BY <2>7, <2>8
  <2>10. \A d, e, s \in 1..size : (Follows(d, s)' /\ Follows(e, s)') => d = e
    BY <2>2, <2>7
  <2> QED
    BY <1>10, <2>9, <2>10 DEF PacksFit
<1>13. PackRows' /\ Len(pack) <= Len(pack')
  BY <1>1, <1>3, <1>9, <1>10, <1>12 DEF PackRows
<1>14. Len(plan) <= Len(plan')
  BY <1>3, <1>4
<1> QED
  BY <1>4, <1>5, <1>13, <1>14, PacksWritten

\* Prompts: one version is live.
LEMMA APromptBegins ==
  ASSUME PublishInv, Shape, NEW q,
         \/ \E body \in Bodies, goesLive \in BOOLEAN : PromptOpens(q, body, goesLive)
         \/ \E v \in 1..Len(prompt) : ActivateOpens(q, v)
  PROVE  PublishInv'
<1>1. PICK about, none : about = {"prompt"} /\ none = NoRequest
  OBVIOUS
<1>2. \A v \in 1..Len(prompt) : prompt[v] \in PromptSet
  BY TablesTyped DEF PublishInv
<1>3. ASSUME NEW kind \in {"prompt", "activate"}, NEW arg, Opens(q, kind, about, arg, none), UNCHANGED publishingVars,
             arg.body \in AllBodies, arg.live \in BOOLEAN,
             kind = "activate" => arg.version \in 1..Len(prompt) /\ arg.live
      PROVE  PublishInv'
  <2>1. PICK t : t = [ doing |-> kind, about |-> about, arg |-> arg, saw |-> none, overtaken |-> FALSE ]
    OBVIOUS
  <2>2. t.doing = kind /\ t.about = {"prompt"} /\ t.arg = arg /\ t.saw = NoRequest
    BY <1>1, <2>1
  <2>3. PublishingRequest(t)
    BY <1>3, <2>2 DEF PublishingRequest, PlanRequest, PackRequest, PromptRequest
  <2> QED
    BY <1>3, <2>1, <2>3, PublishingOpens
<1>4. ASSUME NEW body \in Bodies, NEW goesLive \in BOOLEAN, PromptOpens(q, body, goesLive) PROVE PublishInv'
  <2>1. PICK arg : arg = [ version |-> Len(prompt) + 1, body |-> body, live |-> goesLive ]
    OBVIOUS
  <2>2. arg.body \in AllBodies /\ arg.live \in BOOLEAN
    BY <2>1 DEF AllBodies
  <2>3. Opens(q, "prompt", about, arg, none) /\ UNCHANGED publishingVars
    BY <1>1, <1>4, <2>1 DEF PromptOpens
  <2> QED
    BY <1>3, <2>2, <2>3
<1>5. ASSUME NEW v \in 1..Len(prompt), ActivateOpens(q, v) PROVE PublishInv'
  <2>1. PICK arg : arg = [ version |-> v, body |-> prompt[v].body, live |-> TRUE ]
    OBVIOUS
  <2>2. arg.body \in AllBodies /\ arg.live \in BOOLEAN /\ arg.version = v /\ arg.live
    BY <1>2, <2>1 DEF PromptSet
  <2>3. Opens(q, "activate", about, arg, none) /\ UNCHANGED publishingVars
    BY <1>1, <1>5, <2>1 DEF ActivateOpens
  <2> QED
    BY <1>3, <2>2, <2>3
<1> QED
  BY <1>4, <1>5

LEMMA ThePromptIsRead ==
  ASSUME PublishInv, Shape, NEW q \in Requests, Snapshots(q)
  PROVE  PublishInv'
<1>1. PICK saw : saw = [ live |-> LivePrompts ]
  OBVIOUS
<1>2. /\ request[q].doing \in {"prompt", "activate"} /\ Reads(q, saw) /\ UNCHANGED publishingVars
      /\ request[q] # NoRequest
  BY <1>1, NothingIsOpen DEF Snapshots
<1>3. /\ crossed' = crossed /\ \A p \in Requests \ {q} : request'[p] = request[p]
      /\ request'[q].doing = request[q].doing /\ request'[q].about = request[q].about
      /\ request'[q].arg = request[q].arg /\ request'[q].saw = saw
  BY <1>2, ReadsOne
<1>4. PublishingRows' /\ TablesGrow
  BY <1>2, <1>3, TablesSame DEF PublishInv
<1>5. plan' = plan /\ pack' = pack /\ prompt' = prompt
  BY <1>2 DEF publishingVars
<1>6. \A p \in Requests \ {q} : PublishingRequest(request[p])'
  <2>1. \A p \in Requests \ {q} : KeepsTables(p)
    BY <1>3, <1>5 DEF KeepsTables, Stays
  <2> QED
    BY <1>4, <2>1, OneKeepsTables DEF PublishInv
<1>7. PublishingRequest(request[q])'
  <2>1. PICK r, s : r = request[q] /\ s = request'[q]
    OBVIOUS
  <2>2. PromptRequest(r) /\ r.doing \in {"prompt", "activate"}
    BY <1>2, <2>1 DEF PublishInv, PublishingRequest
  <2>3. s.doing = r.doing /\ s.about = r.about /\ s.arg = r.arg /\ s.saw.live = LivePrompts
    BY <1>1, <1>3, <2>1
  <2>4. LivePrompts' = LivePrompts
    BY <1>5 DEF LivePrompts
  <2> QED
    BY <1>5, <2>1, <2>2, <2>3, <2>4 DEF PublishingRequest, PlanRequest, PackRequest, PromptRequest
<1> QED
  BY <1>4, <1>6, <1>7 DEF PublishInv

\* A version of a prompt goes on or off.
LEMMA LiveIsSet ==
  ASSUME NEW old \in PromptSet, NEW on \in BOOLEAN
  PROVE  [old EXCEPT !.live = on] \in PromptSet /\ [old EXCEPT !.live = on].live = on
  BY DEF PromptSet

LEMMA ThePromptIsWritten ==
  ASSUME PublishInv, Shape, NEW q \in Requests, Prompt(q)
  PROVE  PublishInv'
<1>0. PICK gone : gone = Retires(q)
  OBVIOUS
<1>1. PICK arg, size, off :
        /\ arg = request[q].arg /\ size = Len(prompt) /\ gone = Retires(q)
        /\ off = [ v \in DOMAIN prompt |-> IF v \in gone THEN [prompt[v] EXCEPT !.live = FALSE] ELSE prompt[v] ]
  BY <1>0
<1>2. /\ arg.body \in AllBodies /\ arg.live \in BOOLEAN
      /\ request[q].doing = "activate" => arg.version \in 1..size /\ arg.live
      /\ ~request[q].overtaken => gone = IF arg.live THEN LivePrompts ELSE {}
  <2>1. PICK t : t = request[q]
    OBVIOUS
  <2>2. PromptRequest(t) /\ t.doing \in {"prompt", "activate"} /\ t.saw # NoRequest
    BY <2>1 DEF PublishInv, PublishingRequest, Prompt
  <2> QED
    BY <1>1, <2>1, <2>2 DEF PromptRequest, Retires
<1>3. /\ prompt \in Seq(PromptSet) /\ size \in Nat /\ DOMAIN prompt = 1..size
      /\ Len(plan) \in Nat /\ Len(pack) \in Nat /\ PlanRows
      /\ \A v \in 1..size : prompt[v] \in PromptSet
  BY <1>1, TablesTyped DEF PublishInv, PublishingRows
<1>4. /\ Writes(q, {"prompt"}) /\ plan' = plan /\ pack' = pack /\ signed' = signed
      /\ \/ request[q].doing = "activate" /\ prompt' = [off EXCEPT ![arg.version].live = TRUE]
         \/ prompt' = Append(off, [ body |-> arg.body, live |-> arg.live ])
  BY <1>1 DEF Prompt, Doing
<1>5. \A v \in 1..size : off[v] \in PromptSet /\ off[v].live = (prompt[v].live /\ v \notin gone)
  <2> SUFFICES ASSUME NEW v \in 1..size PROVE off[v] \in PromptSet /\ off[v].live = (prompt[v].live /\ v \notin gone)
    OBVIOUS
  <2>1. PICK old : old = prompt[v]
    OBVIOUS
  <2>2. old \in PromptSet /\ old.live \in BOOLEAN
    BY <1>3, <2>1 DEF PromptSet
  <2>3. off[v] = IF v \in gone THEN [old EXCEPT !.live = FALSE] ELSE old
    BY <1>1, <1>3, <2>1
  <2>4. [old EXCEPT !.live = FALSE] \in PromptSet /\ [old EXCEPT !.live = FALSE].live = FALSE
    BY <2>2, LiveIsSet
  <2> QED
    BY <2>1, <2>2, <2>3, <2>4
<1>6. off \in Seq(PromptSet) /\ Len(off) = size
  <2>1. off = [ v \in 1..size |-> off[v] ]
    BY <1>1, <1>3
  <2>2. off \in [ 1..size -> PromptSet ]
    BY <1>5, <2>1
  <2> QED
    BY <1>3, <2>1, <2>2
<1>7. LivePrompts = { v \in 1..size : prompt[v].live }
  BY <1>3 DEF LivePrompts
<1> DEFINE Goal == prompt' \in Seq(PromptSet) /\ size <= Len(prompt') /\ (OneLives /\ ~request[q].overtaken => OneLives')
<1>8. ASSUME request[q].doing = "activate" /\ prompt' = [off EXCEPT ![arg.version].live = TRUE] PROVE Goal
  <2>1. PICK v, old, new : v = arg.version /\ old = off[v] /\ new = [old EXCEPT !.live = TRUE]
    OBVIOUS
  <2>2. v \in 1..size /\ arg.live
    BY <1>2, <1>8, <2>1
  <2>3. new \in PromptSet /\ new.live = TRUE
    BY <1>5, <2>1, <2>2, LiveIsSet
  <2>4. prompt' = [off EXCEPT ![v] = new]
    BY <1>8, <2>1
  <2>5. /\ prompt' \in Seq(PromptSet) /\ Len(prompt') = size /\ prompt'[v] = new
        /\ \A u \in 1..size : u # v => prompt'[u] = off[u]
    BY <1>6, <2>2, <2>3, <2>4
  <2>6. LivePrompts' = { u \in 1..size : prompt'[u].live }
    BY <2>5 DEF LivePrompts
  <2>7. ASSUME ~request[q].overtaken PROVE OneLives'
    <3>1. \A u \in 1..size : ~off[u].live
      BY <1>2, <1>5, <1>7, <2>2, <2>7
    <3>2. LivePrompts' = {v}
      BY <2>2, <2>3, <2>5, <2>6, <3>1
    <3> QED
      BY <2>2, <2>5, <3>2 DEF OneLives
  <2>8. prompt' \in Seq(PromptSet) /\ size <= Len(prompt')
    BY <1>3, <2>5
  <2> QED
    BY <2>7, <2>8
<1>9. ASSUME prompt' = Append(off, [ body |-> arg.body, live |-> arg.live ]) PROVE Goal
  <2>1. PICK v, new : v = size + 1 /\ new = [ body |-> arg.body, live |-> arg.live ]
    OBVIOUS
  <2>2. new \in PromptSet /\ new.live = arg.live
    BY <1>2, <2>1 DEF PromptSet
  <2>3. /\ prompt' \in Seq(PromptSet) /\ Len(prompt') = v /\ prompt'[v] = new
        /\ \A u \in 1..size : prompt'[u] = off[u]
    BY <1>6, <1>9, <2>1, <2>2
  <2>4. v \in Nat /\ \A u \in 1..v : u \in 1..size \/ u = v
    BY <1>3, <2>1
  <2>5. LivePrompts' = { u \in 1..v : prompt'[u].live }
    BY <2>3 DEF LivePrompts
  <2>6. ASSUME ~request[q].overtaken, OneLives PROVE OneLives'
    <3>1. CASE arg.live
      <4>1. \A u \in 1..size : ~off[u].live
        BY <1>2, <1>5, <1>7, <2>6, <3>1
      <4>2. v \in 1..v
        BY <1>3, <2>1
      <4>3. LivePrompts' = {v}
        BY <2>2, <2>3, <2>4, <2>5, <3>1, <4>1, <4>2
      <4> QED
        BY <2>3, <4>2, <4>3 DEF OneLives
    <3>2. CASE ~arg.live
      <4>1. \A u \in 1..size : off[u].live = prompt[u].live
        BY <1>2, <1>3, <1>5, <2>6, <3>2 DEF PromptSet
      <4>2. \A u \in 1..size : u \in 1..v
        BY <1>3, <2>1
      <4>3. LivePrompts' = LivePrompts
        BY <1>7, <2>2, <2>3, <2>4, <2>5, <3>2, <4>1, <4>2
      <4> QED
        BY <1>1, <2>3, <2>6, <4>2, <4>3 DEF OneLives
    <3> QED
      BY <1>2, <3>1, <3>2
  <2>7. prompt' \in Seq(PromptSet) /\ size <= Len(prompt')
    BY <1>3, <2>1, <2>3
  <2> QED
    BY <2>6, <2>7
<1> HIDE DEF Goal
<1>10. Goal
  BY <1>4, <1>8, <1>9
<1>11. crossed' = IF request[q].overtaken THEN crossed \union {"prompt"} ELSE crossed
  BY <1>4, WritesOne
<1>12. PromptRows'
  BY <1>10, <1>11 DEF Goal, PublishInv, PublishingRows, PromptRows
<1>13. PlanRows'
  BY <1>3, <1>4 DEF PlanRows
<1>14. PackRows'
  <2>1. PacksFit => PacksFit'
    BY <1>4 DEF PacksFit, Follows
  <2> QED
    BY <1>4, <1>11, <2>1 DEF PublishInv, PublishingRows, PackRows
<1>15. PublishingRows'
  BY <1>12, <1>13, <1>14 DEF PublishingRows
<1>16. TablesGrow
  <2>1. size = Len(prompt) /\ plan' = plan /\ pack' = pack /\ Len(plan) \in Nat /\ Len(pack) \in Nat
    BY <1>1, <1>3, <1>4
  <2>2. Len(prompt) <= Len(prompt') /\ prompt' \in Seq(PromptSet)
    BY <1>10, <2>1 DEF Goal
  <2>3. size \in Nat
    BY <1>3
  <2> QED
    BY <2>1, <2>2, <2>3 DEF TablesGrow
<1> QED
  BY <1>4, <1>15, <1>16, TablesWritten

LEMMA APublishingEnds ==
  ASSUME PublishInv, Shape, NEW q \in Requests, RollsBack(q)
  PROVE  PublishInv' /\ SoldStands
<1>1. Shape' /\ Lasts /\ Touches({}) /\ UNCHANGED publishingVars
  BY EndsAny DEF RollsBack
<1>2. {} \cap PublishingTasks = {}
  OBVIOUS
<1> QED
  BY <1>1, <1>2, PublishingAside DEF SoldStands, publishingVars

LEMMA PublishingStepHolds ==
  ASSUME PublishInv, Shape, PublishingStep
  PROVE  PublishInv' /\ (SoldStands \/ OvertakenEnds)
<1>1. (UNCHANGED plan) => SoldStands
  BY DEF SoldStands
<1>2. ASSUME NEW q, NEW price \in Prices, PriceOpens(q, price) PROVE PublishInv' /\ SoldStands
  BY <1>1, <1>2, APriceBegins DEF PriceOpens, publishingVars
<1>3. ASSUME NEW q, NEW r \in DOMAIN plan, DiscardOpens(q, r) PROVE PublishInv' /\ SoldStands
  <2>1. r \in 1..Len(plan)
    BY TablesTyped DEF PublishInv
  <2> QED
    BY <1>1, <1>3, <2>1, APriceBegins DEF DiscardOpens, publishingVars
<1>4. ASSUME NEW q, NEW r \in DOMAIN pack \union {0}, NEW retires \in BOOLEAN, PackOpens(q, r, retires)
      PROVE  PublishInv' /\ SoldStands
  <2>1. r \in 1..Len(pack) \union {0}
    BY TablesTyped DEF PublishInv
  <2> QED
    BY <1>1, <1>4, <2>1, APackBegins DEF PackOpens, publishingVars
<1>5. ASSUME NEW q, NEW r \in DOMAIN pack, UnpackOpens(q, r) PROVE PublishInv' /\ SoldStands
  <2>1. r \in 1..Len(pack)
    BY TablesTyped DEF PublishInv
  <2> QED
    BY <1>1, <1>5, <2>1, APackBegins DEF UnpackOpens, publishingVars
<1>6. ASSUME NEW q, PublishOpens(q) PROVE PublishInv' /\ SoldStands
  BY <1>1, <1>6, APackBegins DEF PublishOpens, publishingVars
<1>7. ASSUME NEW q, NEW body \in Bodies, NEW goesLive \in BOOLEAN, PromptOpens(q, body, goesLive)
      PROVE  PublishInv' /\ SoldStands
  BY <1>1, <1>7, APromptBegins DEF PromptOpens, publishingVars
<1>8. ASSUME NEW q, NEW v \in DOMAIN prompt, ActivateOpens(q, v) PROVE PublishInv' /\ SoldStands
  <2>1. v \in 1..Len(prompt)
    BY TablesTyped DEF PublishInv
  <2> QED
    BY <1>1, <1>8, <2>1, APromptBegins DEF ActivateOpens, publishingVars
<1>9. ASSUME NEW q \in Requests, Price(q) \/ Discard(q) PROVE PublishInv' /\ (SoldStands \/ OvertakenEnds)
  <2>1. PublishInv' /\ (SoldStands \/ request[q].overtaken)
    BY <1>9, APriceIsSet, ADraftIsDiscarded
  <2>2. PICK what : Writes(q, what)
    BY <1>9 DEF Price, Discard
  <2>3. request'[q] = NoRequest
    BY <2>2, WritesOne
  <2>4. ~Doing(q, "nothing")
    BY <1>9 DEF Price, Discard, Doing
  <2> QED
    BY <2>1, <2>3, <2>4 DEF OvertakenEnds
<1>10. ASSUME NEW q \in Requests, Pack(q) \/ Unpack(q) \/ Publish(q) PROVE PublishInv' /\ SoldStands
  BY <1>1, <1>10, APackIsDrafted, ADraftIsDropped, TheDraftsArePublished DEF Pack, Unpack
<1>11. ASSUME NEW q \in Requests, Snapshots(q) \/ Prompt(q) \/ RollsBack(q) PROVE PublishInv' /\ SoldStands
  BY <1>1, <1>11, ThePromptIsRead, ThePromptIsWritten, APublishingEnds DEF Snapshots, Prompt, publishingVars
<1> QED
  BY <1>2, <1>3, <1>4, <1>5, <1>6, <1>7, <1>8, <1>9, <1>10, <1>11, SomebodySignsUp DEF PublishingStep

\* None of the other desks' operations is about prices or prompts.
LEMMA NotOfPublishing ==
  /\ TeamTasks \cap PublishingTasks = {} /\ Operations \cap PublishingTasks = {} /\ CouponTasks \cap PublishingTasks = {}
  /\ LedgerTasks \cap PublishingTasks = {} /\ MembersTasks \cap PublishingTasks = {}
  /\ WebsiteTasks \cap PublishingTasks = {} /\ {} \cap PublishingTasks = {}
<1>1. TeamTasks \cap PublishingTasks = {}
  BY Zenon DEF TeamTasks, Manages, PublishingTasks
<1>2. Operations \cap PublishingTasks = {}
  BY Zenon DEF Operations, PublishingTasks
<1>3. CouponTasks \cap PublishingTasks = {}
  BY Zenon DEF CouponTasks, PublishingTasks
<1>4. LedgerTasks \cap PublishingTasks = {}
  BY Zenon DEF LedgerTasks, PublishingTasks
<1>5. MembersTasks \cap PublishingTasks = {}
  BY Zenon DEF MembersTasks, PublishingTasks
<1>6. WebsiteTasks \cap PublishingTasks = {}
  BY Zenon DEF WebsiteTasks, PublishingTasks
<1> QED
  BY <1>1, <1>2, <1>3, <1>4, <1>5, <1>6

LEMMA PublishInvHolds ==
  ASSUME PublishInv, Shape, [Next]_vars
  PROVE  PublishInv' /\ (SoldStands \/ OvertakenEnds)
<1> DEFINE Goal == PublishInv' /\ (SoldStands \/ OvertakenEnds)
<1>1. ASSUME NEW some, Shape' /\ Lasts /\ Touches(some), some \cap PublishingTasks = {}, UNCHANGED publishingVars PROVE Goal
  BY <1>1, PublishingAside DEF SoldStands, publishingVars
<1>2. CASE PublishingStep
  BY <1>2, PublishingStepHolds
<1>3. CASE TenancyStep /\ UNCHANGED publishingVars
  BY <1>1, <1>3, TenancyDesk, NotOfPublishing
<1>4. CASE CouponStep /\ UNCHANGED publishingVars
  BY <1>1, <1>4, CouponDesk, NotOfPublishing
<1>5. CASE LedgerStep /\ UNCHANGED publishingVars
  BY <1>1, <1>5, LedgerDesk, NotOfPublishing
<1>6. CASE MembersStep /\ UNCHANGED publishingVars
  BY <1>1, <1>6, MembersDesk, NotOfPublishing
<1>7. CASE TeamStep /\ UNCHANGED publishingVars
  BY <1>1, <1>7, TeamDesk, NotOfPublishing
<1>8. CASE WebsiteStep /\ UNCHANGED publishingVars
  BY <1>1, <1>8, WebsiteDesk, NotOfPublishing
<1>9. CASE ((Builders /\ UNCHANGED deskVars) \/ Sweep \/ Restarts \/ Time) /\ UNCHANGED publishingVars
  BY <1>1, <1>9, Unattended, NotOfPublishing
<1>10. CASE UNCHANGED deskVars /\ UNCHANGED publishingVars
  BY <1>1, <1>10, AllStay, NotOfPublishing
<1>11. (Sweep \/ Restarts \/ Time) => UNCHANGED publishingVars
  BY DEF Sweep, Restarts, Time
<1> QED
  BY <1>2, <1>3, <1>4, <1>5, <1>6, <1>7, <1>8, <1>9, <1>10, <1>11 DEF Next, Money, vars

LEMMA PublishingAtFirst == Init => PublishInv
<1> SUFFICES ASSUME Init PROVE PublishInv
  OBVIOUS
<1>1. PICK price, body, version, row, text :
        /\ price = (CHOOSE p \in Prices : TRUE) /\ body = (CHOOSE b \in Bodies : TRUE)
        /\ version = [ version |-> 1, status |-> "published", price |-> price ]
        /\ row = [ status |-> "published", replaces |-> 0, retires |-> FALSE ]
        /\ text = [ body |-> body, live |-> TRUE ]
  OBVIOUS
<1>2. plan = << version >> /\ pack = << row >> /\ signed = {1} /\ prompt = << text >>
  BY <1>1 DEF Init, PublishingInit
<1>3. version \in PlanSet /\ version.version = 1 /\ version.status = "published"
  BY <1>1 DEF PlanSet, AllPrices
<1>4. row \in PackSet /\ row.replaces = 0
  BY <1>1 DEF PackSet
<1>5. text \in PromptSet /\ text.live = TRUE
  BY <1>1 DEF PromptSet, AllBodies
<1>6. PlanRows
  <2>1. plan \in Seq(PlanSet) /\ Len(plan) = 1 /\ plan[1] = version
    BY <1>2, <1>3
  <2>2. \A r \in 1..Len(plan) : plan[r].version <= 1
    BY <1>3, <2>1
  <2>3. signed \subseteq 1..Len(plan) /\ 1 \in signed
    BY <1>2, <2>1
  <2> QED
    BY <1>3, <2>1, <2>2, <2>3 DEF PlanRows
<1>7. PackRows
  <2>1. pack \in Seq(PackSet) /\ Len(pack) = 1 /\ pack[1] = row
    BY <1>2, <1>4
  <2>2. \A d, r \in 1..Len(pack) : ~Follows(d, r)
    BY <1>4, <2>1 DEF Follows
  <2>3. PacksFit
    BY <2>2 DEF PacksFit
  <2> QED
    BY <1>4, <2>1, <2>3 DEF PackRows
<1>8. PromptRows
  <2>1. prompt \in Seq(PromptSet) /\ Len(prompt) = 1 /\ prompt[1] = text /\ DOMAIN prompt = {1}
    BY <1>2, <1>5
  <2>2. LivePrompts = {1} /\ 1 \in 1..Len(prompt)
    BY <1>5, <2>1 DEF LivePrompts
  <2>3. OneLives
    BY <2>2 DEF OneLives
  <2> QED
    BY <2>1, <2>3 DEF PromptRows
<1>9. \A q \in Requests : request[q] = NoRequest
  BY DEF Init, DeskInit
<1>10. \A q \in Requests : PublishingRequest(request[q])
  BY <1>9, NothingIsOpen DEF PublishingRequest, PlanRequest, PackRequest, PromptRequest
<1> QED
  BY <1>6, <1>7, <1>8, <1>10 DEF PublishInv, PublishingRows

LEMMA OneAtMost ==
  ASSUME NEW some, \A d, e \in some : d = e
  PROVE  Cardinality(some) <= 1
<1>1. CASE some = {}
  BY <1>1, FS_EmptySet
<1>2. CASE some # {}
  <2>1. PICK d : some = {d}
    BY <1>2
  <2> QED
    BY <2>1, FS_Singleton
<1> QED
  BY <1>1, <1>2

\* A price that was published never changes for those who signed up for it, a pack
\* has one successor at most and is off sale then, and one version of a prompt is
\* live, unless edits overlapped (pricing-admin.ts, prompts-admin.ts).
THEOREM WhatIsPublishedStands == Spec => PublishedStands
<1> DEFINE Kept ==
             /\ (\A r \in Rows(plan, "published") : plan'[r] = plan[r]) \/ OvertakenEnds
             /\ "pack" \notin crossed' =>
                  \A r \in DOMAIN pack' :
                    /\ Cardinality(Successors(r)') <= 1
                    /\ pack'[r].status = "published" => Successors(r)' = {}
             /\ "prompt" \notin crossed' => Cardinality(LivePrompts') = 1
<1>1. Init => Shape /\ PublishInv
  BY ShapeAtFirst, PublishingAtFirst
<1>2. Shape /\ PublishInv /\ [Next]_vars => (Shape /\ PublishInv)'
  BY ShapeHolds, PublishInvHolds
<1>3. Shape /\ PublishInv /\ [Next]_vars => [Kept]_vars
  <2> SUFFICES ASSUME Shape, PublishInv, [Next]_vars PROVE Kept
    OBVIOUS
  <2>1. PublishInv' /\ (SoldStands \/ OvertakenEnds)
    BY PublishInvHolds
  <2>2. /\ pack' \in Seq(PackSet) /\ \A r \in 1..Len(pack') : pack'[r] \in PackSet
        /\ "pack" \in crossed' \/ PacksFit'
        /\ "prompt" \in crossed' \/ OneLives'
    BY <2>1 DEF PublishInv, PublishingRows, PackRows, PromptRows
  <2>3. ASSUME "pack" \notin crossed', NEW r \in DOMAIN pack'
        PROVE  Cardinality(Successors(r)') <= 1 /\ (pack'[r].status = "published" => Successors(r)' = {})
    <3>1. r \in 1..Len(pack')
      BY <2>2, <2>3
    <3>2. \A d \in Successors(r)' :
            d \in 1..Len(pack') /\ pack'[d].status \in {"published", "retired"} /\ pack'[d].replaces = r
      BY <2>2 DEF Successors, Rows
    <3>3. \A d \in Successors(r)' : d \in 1..Len(pack') /\ Follows(d, r)' /\ pack'[d].status # "draft"
      BY <3>2 DEF Follows
    <3>4. \A d, e \in Successors(r)' : d = e
      BY <2>2, <2>3, <3>1, <3>3 DEF PacksFit
    <3>5. pack'[r].status = "published" => Successors(r)' = {}
      BY <2>2, <2>3, <3>1, <3>3 DEF PacksFit
    <3> QED
      BY <3>4, <3>5, OneAtMost
  <2>4. "prompt" \notin crossed' => Cardinality(LivePrompts') = 1
    BY <2>2, FS_Singleton DEF OneLives
  <2> QED
    BY <2>1, <2>3, <2>4 DEF SoldStands
<1> QED
  BY <1>1, <1>2, <1>3, PTL DEF Spec, PublishedStands

----------------------------------------------------------------------------
(* The ledger and the extra minutes agree.                                  *)

PaySet ==
  [ kind : {"subscription", "top_up", "goodwill", "refund"},
    status : {"captured", "refunded", "failed", "scheduled_retry"},
    on : Workspaces, code : Coupon \union {NoCode}, of : Nat, packs : {0, 1}, invoice : {"none", "paid", "void"} ]

Failing == { "failed", "scheduled_retry" }

Landed == { "captured", "refunded" }

LedgerRows ==
  /\ pay \in Seq(PaySet) /\ \A r \in 1..Len(pay) : pay[r].of \in 0..Len(pay)
  /\ extra \in [ Workspaces -> Nat ]

Refunding(w, p) == { r \in PaysOf(w) : pay[r].of = p }

Discounted(w, c) == { p \in PaysOf(w) : pay[p].code = c }

Minutes(w) == { c \in Grants : w \in Redeemers(c) }

RefundsFit(w) ==
  \A p \in PaysOf(w) : Cardinality(Refunding(w, p)) = IF pay[p].status = "refunded" THEN 1 ELSE 0

MinutesFit(w) ==
  /\ IsFiniteSet(Minutes(w))
  /\ extra[w] = Cardinality(Granted(w)) + Cardinality(Minutes(w))

CodesFit(w) ==
  \A c \in Coupon \ Grants : Cardinality(Discounted(w, c)) = IF redeemed[c][w] = "used" THEN 1 ELSE 0

Accounts(w) == RefundsFit(w) /\ MinutesFit(w) /\ CodesFit(w)

\* A code goes with a charge only while it was not used, unless overtaken.
ChargeRequest(r) ==
  r.doing = "charge" =>
    /\ r.arg.on \in Workspaces /\ r.arg.on \in r.about
    /\ r.arg.code \in (Coupon \ Grants) \union {NoCode}
    /\ r.arg.code # NoCode =>
         r.arg.code \in r.about /\ (r.overtaken \/ redeemed[r.arg.code][r.arg.on] # "used")

\* What is refunded landed, and is still there with the minutes that were read.
RefundRequest(r) ==
  r.doing = "refund" =>
    /\ r.arg \in 1..Len(pay) /\ pay[r.arg].on \in r.about /\ pay[r.arg].status \in Landed
    /\ r.overtaken \/ pay[r.arg].status = "captured"
    /\ r.saw # NoRequest => r.saw.extra \in Nat /\ (r.overtaken \/ r.saw.extra = extra[pay[r.arg].on])

\* The others write what does not depend on what they read.
RecordRequest(r) ==
  /\ r.doing = "fail" => r.arg.on \in Workspaces /\ r.arg.retries \in BOOLEAN
  /\ r.doing = "grant" => r.arg.on \in Workspaces /\ r.arg.kind \in {"top_up", "goodwill"}
  /\ r.doing = "retry" =>
       r.arg.on \in 1..Len(pay) /\ pay[r.arg.on].status \in Failing /\ r.arg.retries \in BOOLEAN

LedgerRequest(r) == ChargeRequest(r) /\ RefundRequest(r) /\ RecordRequest(r)

LedgerInv ==
  /\ LedgerRows /\ \A w \in Workspaces \ crossed : Accounts(w)
  /\ \A q \in Requests : LedgerRequest(request[q])

\* Rows are added, what landed stays landed and what failed failed.
PaysGoOn ==
  /\ Len(pay) \in Nat /\ Len(pay') \in Nat /\ Len(pay) <= Len(pay')
  /\ \A r \in 1..Len(pay) :
       /\ pay'[r].on = pay[r].on
       /\ pay[r].status \in Landed => pay'[r].status \in Landed
       /\ pay[r].status \in Failing => pay'[r].status \in Failing

\* The minutes of a workspace, and what landed, are as they were.
MoneyStays(w) ==
  /\ extra'[w] = extra[w]
  /\ \A r \in 1..Len(pay) : (pay[r].on = w /\ pay[r].status \in Landed) => pay'[r].status = pay[r].status

\* The requests keep what they rely on, unless they are overtaken.
KeepsLedger(p) ==
  \/ request'[p] = NoRequest \/ request'[p].doing \notin LedgerTasks
  \/ /\ Stays(p)
     /\ \A w \in request[p].about \cap Workspaces : request'[p].overtaken \/ MoneyStays(w)
     /\ \A c \in request[p].about \cap Coupon : request'[p].overtaken \/ redeemed'[c] = redeemed[c]

LEMMA OneKeepsLedger ==
  ASSUME LedgerRows, NEW p \in Requests, LedgerRequest(request[p]), KeepsLedger(p), PaysGoOn
  PROVE  LedgerRequest(request[p])'
<1>1. PICK r, s : r = request[p] /\ s = request'[p]
  OBVIOUS
<1>2. ChargeRequest(r) /\ RefundRequest(r) /\ RecordRequest(r)
  BY <1>1 DEF LedgerRequest
<1>3. CASE s.doing \notin LedgerTasks
  BY <1>1, <1>3 DEF LedgerTasks, LedgerRequest, ChargeRequest, RefundRequest, RecordRequest
<1>4. CASE s.doing \in LedgerTasks
  <2>1. /\ s.doing = r.doing /\ s.about = r.about /\ s.arg = r.arg /\ s.saw = r.saw /\ (r.overtaken => s.overtaken)
        /\ \A w \in r.about \cap Workspaces : s.overtaken \/ MoneyStays(w)
        /\ \A c \in r.about \cap Coupon : s.overtaken \/ redeemed'[c] = redeemed[c]
    BY <1>1, <1>4, NothingIsOpen DEF KeepsLedger, Stays, LedgerTasks
  <2>2. ChargeRequest(s)'
    BY <1>2, <2>1 DEF ChargeRequest
  <2>3. RefundRequest(s)'
    <3> SUFFICES ASSUME s.doing = "refund" PROVE RefundRequest(s)'
      BY DEF RefundRequest
    <3>1. PICK i : i = r.arg
      OBVIOUS
    <3>2. /\ i \in 1..Len(pay) /\ pay[i].on \in r.about /\ pay[i].status \in Landed
          /\ r.overtaken \/ pay[i].status = "captured"
          /\ r.saw # NoRequest => r.saw.extra \in Nat /\ (r.overtaken \/ r.saw.extra = extra[pay[i].on])
      BY <1>2, <2>1, <3>1 DEF RefundRequest
    <3>3. pay[i].on \in Workspaces
      <4>1. pay[i] \in PaySet
        BY <3>2 DEF LedgerRows
      <4> QED
        BY <4>1 DEF PaySet
    <3>4. i \in 1..Len(pay') /\ pay'[i].on = pay[i].on /\ pay'[i].status \in Landed
      BY <3>2 DEF PaysGoOn
    <3>5. s.overtaken \/ (extra'[pay[i].on] = extra[pay[i].on] /\ pay'[i].status = pay[i].status)
      BY <2>1, <3>2, <3>3 DEF MoneyStays
    <3> QED
      BY <2>1, <3>1, <3>2, <3>4, <3>5 DEF RefundRequest
  <2>4. RecordRequest(s)'
    BY <1>2, <2>1 DEF RecordRequest, PaysGoOn
  <2> QED
    BY <1>1, <2>2, <2>3, <2>4 DEF LedgerRequest, ChargeRequest, RefundRequest, RecordRequest
<1> QED
  BY <1>3, <1>4

LEMMA LedgerGoesOn ==
  ASSUME LedgerInv, \A p \in Requests : KeepsLedger(p), PaysGoOn, LedgerRows',
         \A w \in Workspaces \ crossed' : Accounts(w)'
  PROVE  LedgerInv'
<1>1. \A p \in Requests : LedgerRequest(request[p])'
  BY OneKeepsLedger DEF LedgerInv
<1> QED
  BY <1>1 DEF LedgerInv

\* A workspace to which nothing happened.
LEMMA AccountsStay ==
  ASSUME NEW w \in Workspaces, Accounts(w), pay' = pay, extra'[w] = extra[w],
         \A c \in Coupon : redeemed'[c][w] = redeemed[c][w]
  PROVE  Accounts(w)'
<1>1. Minutes(w)' = Minutes(w)
  BY CouponAssumption DEF Minutes, Redeemers
<1>2. PaysOf(w)' = PaysOf(w) /\ Granted(w)' = Granted(w)
  BY DEF PaysOf, Granted
<1>3. RefundsFit(w)'
  BY <1>2 DEF Accounts, RefundsFit, Refunding
<1>4. MinutesFit(w)'
  BY <1>1, <1>2 DEF Accounts, MinutesFit
<1>5. CodesFit(w)'
  BY <1>2 DEF Accounts, CodesFit, Discounted
<1> QED
  BY <1>3, <1>4, <1>5 DEF Accounts

LEMMA PaysStay ==
  ASSUME LedgerRows, pay' = pay, extra' = extra
  PROVE  LedgerRows' /\ PaysGoOn /\ \A w : MoneyStays(w)
<1>1. Len(pay) \in Nat
  BY DEF LedgerRows
<1> QED
  BY <1>1 DEF LedgerRows, PaysGoOn, MoneyStays

\* The steps that leave the ledger and the minutes alone.
LEMMA LedgerAside ==
  ASSUME LedgerInv, Lasts, NEW some, some \cap LedgerTasks = {}, Touches(some),
         pay' = pay, extra' = extra, redeemed' = redeemed
  PROVE  LedgerInv'
<1>1. LedgerRows' /\ PaysGoOn /\ \A w : MoneyStays(w)
  BY PaysStay DEF LedgerInv
<1>2. \A p \in Requests : KeepsLedger(p)
  BY <1>1 DEF Touches, KeepsLedger
<1>3. \A w \in Workspaces \ crossed' : Accounts(w)'
  BY AccountsStay DEF LedgerInv, Lasts
<1> QED
  BY <1>1, <1>2, <1>3, LedgerGoesOn

\* A request of the ledger begins.
LEMMA LedgerOpens ==
  ASSUME LedgerInv, Shape, NEW q, NEW what, what # "nothing", NEW about, NEW arg, NEW saw,
         Opens(q, what, about, arg, saw), pay' = pay, extra' = extra, redeemed' = redeemed,
         LedgerRequest([ doing |-> what, about |-> about, arg |-> arg, saw |-> saw, overtaken |-> FALSE ])
  PROVE  LedgerInv'
<1>1. PICK r : r = [ doing |-> what, about |-> about, arg |-> arg, saw |-> saw, overtaken |-> FALSE ]
  OBVIOUS
<1>2. /\ q \in Requests /\ request'[q] = r /\ crossed' = crossed
      /\ \A p \in Requests \ {q} : request'[p] = request[p]
  BY <1>1, OpensOne
<1>3. LedgerRows' /\ \A w \in Workspaces \ crossed' : Accounts(w)'
  BY <1>2, PaysStay, AccountsStay DEF LedgerInv
<1>4. ASSUME NEW t, LedgerRequest(t) PROVE LedgerRequest(t)'
  BY <1>4 DEF LedgerRequest, ChargeRequest, RefundRequest, RecordRequest
<1>5. LedgerRequest(r)'
  BY <1>1, <1>4
<1>6. \A p \in Requests \ {q} : LedgerRequest(request[p])'
  <2> SUFFICES ASSUME NEW p \in Requests \ {q} PROVE LedgerRequest(request[p])'
    OBVIOUS
  <2>1. PICK t : t = request[p]
    OBVIOUS
  <2>2. LedgerRequest(t)'
    BY <1>4, <2>1 DEF LedgerInv
  <2>3. request'[p] = t
    BY <1>2, <2>1
  <2> QED
    BY <2>2, <2>3 DEF LedgerRequest, ChargeRequest, RefundRequest, RecordRequest
<1>7. LedgerRequest(request[q])'
  BY <1>2, <1>5 DEF LedgerRequest, ChargeRequest, RefundRequest, RecordRequest
<1> QED
  BY <1>3, <1>6, <1>7 DEF LedgerInv

\* A request has written; those about what it wrote were overtaken.
LEMMA LedgerWritten ==
  ASSUME LedgerInv, Shape, NEW q \in Requests, NEW what, Writes(q, what), PaysGoOn, LedgerRows',
         \A w \in Workspaces \ what : MoneyStays(w), \A c \in Coupon \ what : redeemed'[c] = redeemed[c],
         \A w \in Workspaces \ crossed' : Accounts(w)'
  PROVE  LedgerInv'
<1>1. /\ request'[q] = NoRequest
      /\ \A p \in Requests \ {q} :
           /\ Stays(p) /\ Marked(p, what) /\ (request'[p] = NoRequest <=> request[p] = NoRequest)
  BY WritesOne
<1>2. \A p \in Requests : KeepsLedger(p)
  <2> SUFFICES ASSUME NEW p \in Requests, p # q, request'[p] # NoRequest PROVE KeepsLedger(p)
    BY <1>1 DEF KeepsLedger
  <2>1. Stays(p) /\ (request'[p].overtaken <=> (request[p].overtaken \/ request[p].about \cap what # {}))
    BY <1>1 DEF Marked
  <2>2. ASSUME NEW x \in request[p].about PROVE request'[p].overtaken \/ x \notin what
    BY <2>1, <2>2
  <2> QED
    BY <2>1, <2>2 DEF KeepsLedger
<1> QED
  BY <1>1, <1>2, LedgerGoesOn

----------------------------------------------------------------------------
(* Rows are added and changed.                                              *)

LEMMA PayRowTyped ==
  ASSUME NEW kind \in {"subscription", "top_up", "goodwill", "refund"},
         NEW status \in {"captured", "refunded", "failed", "scheduled_retry"}, NEW w \in Workspaces
  PROVE  /\ PayRow(kind, status, w) \in PaySet
         /\ PayRow(kind, status, w).kind = kind /\ PayRow(kind, status, w).status = status
         /\ PayRow(kind, status, w).on = w /\ PayRow(kind, status, w).code = NoCode
         /\ PayRow(kind, status, w).of = 0 /\ PayRow(kind, status, w).packs = 0
  BY DEF PayRow, PaySet

LEMMA PaysAreFinite ==
  ASSUME LedgerRows, NEW w
  PROVE  /\ PaysOf(w) \subseteq 1..Len(pay) /\ Len(pay) \in Nat /\ Len(pay) + 1 \notin PaysOf(w)
         /\ IsFiniteSet(Granted(w)) /\ \A p : IsFiniteSet(Refunding(w, p)) /\ IsFiniteSet(Discounted(w, p))
<1>1. DOMAIN pay = 1..Len(pay) /\ Len(pay) \in Nat
  BY DEF LedgerRows
<1>2. PaysOf(w) \subseteq 1..Len(pay)
  BY <1>1 DEF PaysOf
<1>3. IsFiniteSet(1..Len(pay))
  BY <1>1, FS_Interval
<1>4. IsFiniteSet(PaysOf(w))
  BY <1>2, <1>3, FS_Subset
<1>5. IsFiniteSet(Granted(w))
  BY <1>4, FS_Subset DEF Granted
<1>6. ASSUME NEW p PROVE IsFiniteSet(Refunding(w, p)) /\ IsFiniteSet(Discounted(w, p))
  BY <1>4, FS_Subset DEF Refunding, Discounted
<1> QED
  BY <1>1, <1>2, <1>5, <1>6

LEMMA UpToTheLast ==
  \A m \in Nat : \A r \in 1..(m + 1) : r \in 1..m \/ r = m + 1
OBVIOUS

\* A row that neither refunds nor was refunded is added.
LEMMA ARowIsAdded ==
  ASSUME LedgerRows, NEW row \in PaySet, row.of = 0, row.status # "refunded",
         pay' = Append(pay, row), extra' \in [ Workspaces -> Nat ]
  PROVE  /\ LedgerRows' /\ PaysGoOn /\ Len(pay') = Len(pay) + 1
         /\ pay'[Len(pay) + 1] = row /\ \A r \in 1..Len(pay) : pay'[r] = pay[r]
<1>1. /\ pay' \in Seq(PaySet) /\ Len(pay') = Len(pay) + 1 /\ Len(pay) \in Nat
      /\ pay'[Len(pay) + 1] = row /\ \A r \in 1..Len(pay) : pay'[r] = pay[r]
  BY DEF LedgerRows
<1>2. \A r \in 1..Len(pay') : r \in 1..Len(pay) \/ r = Len(pay) + 1
  <2>1. Len(pay') = Len(pay) + 1 /\ Len(pay) \in Nat
    BY <1>1
  <2> QED
    BY <2>1, UpToTheLast
<1>3. \A r \in 1..Len(pay') : pay'[r].of \in 0..Len(pay')
  BY <1>1, <1>2 DEF LedgerRows
<1> QED
  BY <1>1, <1>3 DEF LedgerRows, PaysGoOn

LEMMA PaysOfAdded ==
  ASSUME LedgerRows, LedgerRows', NEW row, Len(pay') = Len(pay) + 1,
         pay'[Len(pay) + 1] = row, \A r \in 1..Len(pay) : pay'[r].on = pay[r].on, NEW w
  PROVE  PaysOf(w)' = IF row.on = w THEN PaysOf(w) \union {Len(pay) + 1} ELSE PaysOf(w)
<1>1. DOMAIN pay = 1..Len(pay) /\ DOMAIN pay' = 1..Len(pay') /\ Len(pay) \in Nat
  BY DEF LedgerRows
<1>2. \A r : r \in DOMAIN pay' <=> (r \in DOMAIN pay \/ r = Len(pay) + 1)
  BY <1>1
<1>3. Len(pay) + 1 \notin DOMAIN pay
  BY <1>1
<1> QED
  BY <1>1, <1>2, <1>3 DEF PaysOf

\* What the added row does to the accounts of a workspace.
LEMMA AccountsAdded ==
  ASSUME LedgerRows, NEW row \in PaySet, row.of = 0, row.status # "refunded",
         pay' = Append(pay, row), extra' \in [ Workspaces -> Nat ], NEW w \in Workspaces, RefundsFit(w)
  PROVE  /\ RefundsFit(w)'
         /\ Granted(w)' = IF row.on = w /\ row.packs > 0 /\ row.status = "captured"
                          THEN Granted(w) \union {Len(pay) + 1} ELSE Granted(w)
         /\ \A c : Discounted(w, c)' = IF row.on = w /\ row.code = c
                                       THEN Discounted(w, c) \union {Len(pay) + 1} ELSE Discounted(w, c)
<1>1. /\ LedgerRows' /\ Len(pay') = Len(pay) + 1
      /\ pay'[Len(pay) + 1] = row /\ \A r \in 1..Len(pay) : pay'[r] = pay[r]
  BY ARowIsAdded
<1>2. PICK n : n = Len(pay) + 1
  OBVIOUS
<1>3. PaysOf(w)' = IF row.on = w THEN PaysOf(w) \union {n} ELSE PaysOf(w)
  BY <1>1, <1>2, PaysOfAdded
<1>4. PaysOf(w) \subseteq 1..Len(pay) /\ n \notin PaysOf(w) /\ pay'[n] = row /\ n \in Nat \ {0} /\ n \notin 1..Len(pay)
  BY <1>1, <1>2, PaysAreFinite
<1>5. \A r \in PaysOf(w) : pay'[r] = pay[r] /\ pay[r].of \in 0..Len(pay)
  BY <1>1, <1>4 DEF LedgerRows
<1>6. Granted(w)' = IF row.on = w /\ row.packs > 0 /\ row.status = "captured" THEN Granted(w) \union {n} ELSE Granted(w)
  <2>1. \A r : r \in PaysOf(w)' <=> (r \in PaysOf(w) \/ (r = n /\ row.on = w))
    BY <1>3
  <2>2. \A r : r \in Granted(w)' <=>
                 (r \in Granted(w) \/ (r = n /\ row.on = w /\ row.packs > 0 /\ row.status = "captured"))
    <3>1. \A r \in PaysOf(w) : r \in Granted(w)' <=> r \in Granted(w)
      BY <1>5, <2>1 DEF Granted
    <3>2. n \in Granted(w)' <=> (row.on = w /\ row.packs > 0 /\ row.status = "captured")
      BY <1>4, <2>1 DEF Granted
    <3>3. \A r : r \in Granted(w) => r \in PaysOf(w)
      BY DEF Granted
    <3>4. \A r : r \in Granted(w)' => r \in PaysOf(w)'
      BY DEF Granted
    <3>5. n \notin PaysOf(w)
      BY <1>4
    <3> QED
      BY <2>1, <3>1, <3>2, <3>3, <3>4, <3>5
  <2> QED
    BY <2>2
<1>7. ASSUME NEW c
      PROVE  Discounted(w, c)' = IF row.on = w /\ row.code = c THEN Discounted(w, c) \union {n} ELSE Discounted(w, c)
  <2>1. \A r : r \in PaysOf(w)' <=> (r \in PaysOf(w) \/ (r = n /\ row.on = w))
    BY <1>3
  <2>2. \A r \in PaysOf(w) : r \in Discounted(w, c)' <=> r \in Discounted(w, c)
    BY <1>5, <2>1 DEF Discounted
  <2>3. n \in Discounted(w, c)' <=> (row.on = w /\ row.code = c)
    BY <1>4, <2>1 DEF Discounted
  <2>4. /\ \A r : r \in Discounted(w, c) => r \in PaysOf(w)
        /\ \A r : r \in Discounted(w, c)' => r \in PaysOf(w)'
    BY DEF Discounted
  <2>5. \A r : r \in Discounted(w, c)' <=> (r \in Discounted(w, c) \/ (r = n /\ row.on = w /\ row.code = c))
    BY <1>4, <2>1, <2>2, <2>3, <2>4
  <2> QED
    BY <2>5
<1>8. ASSUME NEW p \in PaysOf(w) PROVE Refunding(w, p)' = Refunding(w, p)
  <2>1. p # 0
    BY <1>4
  <2>2. \A r : r \in PaysOf(w)' => (r \in PaysOf(w) \/ r = n)
    BY <1>3
  <2>3. \A r : r \in PaysOf(w) => r \in PaysOf(w)'
    BY <1>3
  <2>4. \A r : r \in Refunding(w, p)' <=> r \in Refunding(w, p)
    BY <1>4, <1>5, <2>1, <2>2, <2>3 DEF Refunding
  <2> QED
    BY <2>4
<1>9. n \in PaysOf(w)' => Refunding(w, n)' = {}
  <2>1. n # 0 /\ n \notin 0..Len(pay)
    BY <1>4
  <2>2. \A r : r \in PaysOf(w)' => (r \in PaysOf(w) \/ r = n)
    BY <1>3
  <2>3. \A r : r \notin Refunding(w, n)'
    BY <1>4, <1>5, <2>1, <2>2 DEF Refunding
  <2> QED
    BY <2>3
<1>10. RefundsFit(w)'
  <2> SUFFICES ASSUME NEW p \in PaysOf(w)'
               PROVE  Cardinality(Refunding(w, p)') = IF pay'[p].status = "refunded" THEN 1 ELSE 0
    BY DEF RefundsFit
  <2>1. CASE p = n
    BY <1>4, <1>9, <2>1, FS_EmptySet
  <2>2. CASE p # n
    <3>1. p \in PaysOf(w)
      BY <1>3, <2>2
    <3> QED
      BY <1>5, <1>8, <3>1 DEF RefundsFit
  <2> QED
    BY <2>1, <2>2
<1> QED
  BY <1>2, <1>6, <1>7, <1>10

Redeems(c, w, how) == redeemed' = [redeemed EXCEPT ![c][w] = how]

LEMMA RedemptionSet ==
  ASSUME CouponInv, NEW c \in Coupon, NEW w \in Workspaces, NEW how, Redeems(c, w, how)
  PROVE  /\ \A x \in Coupon \ {c} : redeemed'[x] = redeemed[x]
         /\ \A v \in Workspaces : redeemed'[c][v] = IF v = w THEN how ELSE redeemed[c][v]
<1>1. PICK old : old = redeemed[c]
  OBVIOUS
<1>2. old = [ v \in Workspaces |-> old[v] ]
  BY <1>1 DEF CouponInv, CouponRows
<1>3. PICK new : new = [old EXCEPT ![w] = how]
  OBVIOUS
<1>4. \A v \in Workspaces : new[v] = IF v = w THEN how ELSE old[v]
  BY <1>2, <1>3
<1>5. redeemed' = [redeemed EXCEPT ![c] = new]
  BY <1>1, <1>3 DEF Redeems
<1>6. redeemed'[c] = new /\ \A x \in Coupon \ {c} : redeemed'[x] = redeemed[x]
  BY <1>5 DEF CouponInv, CouponRows
<1> QED
  BY <1>1, <1>4, <1>6

LEMMA OneMore ==
  ASSUME NEW S, NEW e, IsFiniteSet(S), e \notin S
  PROVE  IsFiniteSet(S \union {e}) /\ Cardinality(S \union {e}) = Cardinality(S) + 1
  BY FS_AddElement

\* No code is used, or one that was not used before.
Uses(c, on, what) ==
  \/ c = NoCode /\ redeemed' = redeemed
  \/ /\ c \in Coupon \ Grants /\ c \in what /\ redeemed' = [redeemed EXCEPT ![c][on] = "used"]
     /\ on \in crossed' \/ redeemed[c][on] # "used"

LEMMA UsesOne ==
  ASSUME CouponInv, NEW c, NEW on \in Workspaces, NEW what, Uses(c, on, what)
  PROVE  /\ c \in ((Coupon \ Grants) \cap what) \union {NoCode}
         /\ \A x \in Coupon \ {c} : redeemed'[x] = redeemed[x]
         /\ c \in Coupon => /\ \A v \in Workspaces : redeemed'[c][v] = IF v = on THEN "used" ELSE redeemed[c][v]
                            /\ on \in crossed' \/ redeemed[c][on] # "used"
<1>1. CASE c = NoCode /\ redeemed' = redeemed
  BY <1>1, LedgerAssumption
<1>2. CASE /\ c \in Coupon \ Grants /\ c \in what /\ Redeems(c, on, "used")
           /\ on \in crossed' \/ redeemed[c][on] # "used"
  BY <1>2, RedemptionSet
<1> QED
  BY <1>1, <1>2 DEF Uses, Redeems

\* A charge or a failure is recorded; a code is used with it that was not used.
LEMMA AChargeIsWritten ==
  ASSUME LedgerInv, CouponInv, Shape, NEW q \in Requests, NEW what, Writes(q, what),
         NEW row \in PaySet, row.of = 0, row.packs = 0, row.status # "refunded",
         pay' = Append(pay, row), extra' = extra, Uses(row.code, row.on, what)
  PROVE  LedgerInv'
<1>1. LedgerRows /\ extra \in [ Workspaces -> Nat ] /\ row.on \in Workspaces
  BY DEF LedgerInv, LedgerRows, PaySet
<1>2. /\ LedgerRows' /\ PaysGoOn /\ \A r \in 1..Len(pay) : pay'[r] = pay[r]
  BY <1>1, ARowIsAdded
<1>3. \A w : MoneyStays(w)
  BY <1>2 DEF MoneyStays
<1>4. crossed \subseteq crossed'
  BY EndsAny DEF Lasts
<1>5. PICK c, on : c = row.code /\ on = row.on
  OBVIOUS
<1>6. /\ c \in ((Coupon \ Grants) \cap what) \union {NoCode}
      /\ \A x \in Coupon \ {c} : redeemed'[x] = redeemed[x]
      /\ c \in Coupon => /\ \A v \in Workspaces : redeemed'[c][v] = IF v = on THEN "used" ELSE redeemed[c][v]
                         /\ on \in crossed' \/ redeemed[c][on] # "used"
  <2>1. on \in Workspaces /\ Uses(c, on, what)
    BY <1>1, <1>5
  <2> QED
    BY <2>1, UsesOne
<1>7. \A x \in Coupon \ what : redeemed'[x] = redeemed[x]
  BY <1>6, LedgerAssumption
<1>8. ASSUME NEW w \in Workspaces \ crossed' PROVE Accounts(w)'
  <2>1. RefundsFit(w) /\ MinutesFit(w) /\ CodesFit(w)
    BY <1>4, <1>8 DEF LedgerInv, Accounts
  <2>2. /\ RefundsFit(w)' /\ Granted(w)' = Granted(w)
        /\ \A x : Discounted(w, x)' = IF on = w /\ c = x THEN Discounted(w, x) \union {Len(pay) + 1} ELSE Discounted(w, x)
    BY <1>1, <1>5, <2>1, AccountsAdded
  <2>3. \A x \in Coupon \ {c} : redeemed'[x] = redeemed[x]
    BY <1>6
  <2>4. Minutes(w)' = Minutes(w)
    <3>1. Grants \subseteq Coupon
      BY CouponAssumption
    <3>2. c \notin Grants
      BY <1>6, <3>1, LedgerAssumption
    <3> QED
      BY <2>3, <3>1, <3>2 DEF Minutes, Redeemers
  <2>5. MinutesFit(w)'
    BY <2>1, <2>2, <2>4 DEF MinutesFit
  <2>6. ASSUME NEW x \in Coupon \ Grants
        PROVE  Cardinality(Discounted(w, x)') = IF redeemed'[x][w] = "used" THEN 1 ELSE 0
    <3>1. Cardinality(Discounted(w, x)) = IF redeemed[x][w] = "used" THEN 1 ELSE 0
      BY <2>1, <2>6 DEF CodesFit
    <3>2. CASE x # c
      BY <2>2, <2>3, <3>1, <3>2
    <3>3. CASE x = c
      <4>1. c \in Coupon /\ (on \in crossed' \/ redeemed[c][on] # "used")
        BY <1>6, <3>3
      <4>2. \A v \in Workspaces : redeemed'[c][v] = IF v = on THEN "used" ELSE redeemed[c][v]
        BY <1>6, <4>1
      <4>3. CASE w # on
        BY <2>2, <3>1, <3>3, <4>2, <4>3
      <4>4. CASE w = on
        <5>1. redeemed[c][w] # "used" /\ redeemed'[c][w] = "used"
          BY <1>8, <4>1, <4>2, <4>4
        <5>2. Cardinality(Discounted(w, x)) = 0 /\ Discounted(w, x)' = Discounted(w, x) \union {Len(pay) + 1}
          BY <1>5, <2>2, <3>1, <3>3, <4>4, <5>1
        <5>3. IsFiniteSet(Discounted(w, x)) /\ Len(pay) + 1 \notin Discounted(w, x)
          <6>1. Len(pay) + 1 \notin PaysOf(w)
            BY <1>1, PaysAreFinite
          <6>2. Discounted(w, x) \subseteq PaysOf(w)
            BY DEF Discounted
          <6> QED
            BY <1>1, <6>1, <6>2, PaysAreFinite
        <5>4. Cardinality(Discounted(w, x) \union {Len(pay) + 1}) = 1
          <6>1. Cardinality(Discounted(w, x) \union {Len(pay) + 1}) = Cardinality(Discounted(w, x)) + 1
            BY <5>3, OneMore
          <6> QED
            BY <5>2, <6>1
        <5> QED
          BY <3>3, <5>1, <5>2, <5>4
      <4> QED
        BY <4>3, <4>4
    <3> QED
      BY <3>2, <3>3
  <2>7. CodesFit(w)'
    BY <2>6 DEF CodesFit
  <2> QED
    BY <2>2, <2>5, <2>7 DEF Accounts
<1> QED
  BY <1>2, <1>3, <1>8, <1>7, LedgerWritten

LEMMA AFailureIsRecorded ==
  ASSUME LedgerInv, CouponInv, Shape, NEW q \in Requests, Fail(q)
  PROVE  LedgerInv'
<1>1. PICK w, status : /\ w = request[q].arg.on
                       /\ status = IF request[q].arg.retries THEN "scheduled_retry" ELSE "failed"
  OBVIOUS
<1>2. w \in Workspaces /\ status \in {"scheduled_retry", "failed"}
  BY <1>1 DEF Fail, Doing, LedgerInv, LedgerRequest, RecordRequest
<1>3. PICK row : row = PayRow("subscription", status, w)
  OBVIOUS
<1>4. row \in PaySet /\ row.status = status /\ row.on = w /\ row.code = NoCode /\ row.of = 0 /\ row.packs = 0
  BY <1>2, <1>3, PayRowTyped
<1>5. pay' = Append(pay, row) /\ extra' = extra /\ redeemed' = redeemed /\ Writes(q, {w})
  BY <1>1, <1>3 DEF Fail
<1>6. Uses(row.code, row.on, {w})
  BY <1>4, <1>5 DEF Uses
<1>7. row.status # "refunded"
  BY <1>2, <1>4
<1> QED
  BY <1>4, <1>5, <1>6, <1>7, AChargeIsWritten

LEMMA AChargeLands ==
  ASSUME LedgerInv, CouponInv, Shape, NEW q \in Requests, Charge(q)
  PROVE  LedgerInv'
<1>1. PICK w, c, about, overtaken :
        w = request[q].arg.on /\ c = request[q].arg.code /\ about = request[q].about /\ overtaken = request[q].overtaken
  OBVIOUS
<1>2. /\ w \in Workspaces /\ c \in (Coupon \ Grants) \union {NoCode}
      /\ c # NoCode => overtaken \/ redeemed[c][w] # "used"
  BY <1>1 DEF Charge, Doing, LedgerInv, LedgerRequest, ChargeRequest
<1>3. PICK plain : plain = PayRow("subscription", "captured", w)
  OBVIOUS
<1>4. /\ plain \in PaySet /\ plain.status = "captured" /\ plain.on = w /\ plain.of = 0 /\ plain.packs = 0
  BY <1>2, <1>3, PayRowTyped
<1>5. PICK row : row = [Invoiced(plain) EXCEPT !.code = c]
  OBVIOUS
<1>6. row \in PaySet /\ row.status = "captured" /\ row.on = w /\ row.code = c /\ row.of = 0 /\ row.packs = 0
  BY <1>2, <1>4, <1>5 DEF Invoiced, PaySet
<1>7. /\ pay' = Append(pay, row) /\ extra' = extra /\ Writes(q, {w} \union ({c} \ {NoCode}))
      /\ c = NoCode => redeemed' = redeemed
      /\ c # NoCode => redeemed' = [redeemed EXCEPT ![c][w] = "used"]
  BY <1>1, <1>3, <1>5 DEF Charge
<1>8. overtaken => w \in crossed'
  BY <1>1, <1>7 DEF Writes
<1>9. ASSUME c = NoCode PROVE Uses(c, w, {w} \union ({c} \ {NoCode}))
  BY <1>7, <1>9 DEF Uses
<1>10. ASSUME c # NoCode PROVE Uses(c, w, {w} \union ({c} \ {NoCode}))
  BY <1>2, <1>7, <1>8, <1>10 DEF Uses
<1>11. Uses(row.code, row.on, {w} \union ({c} \ {NoCode}))
  BY <1>6, <1>9, <1>10
<1>12. row.status # "refunded"
  BY <1>6
<1> QED
  BY <1>6, <1>7, <1>11, <1>12, AChargeIsWritten

LEMMA MinutesAreGranted ==
  ASSUME LedgerInv, Shape, NEW q \in Requests, Grant(q)
  PROVE  LedgerInv'
<1>1. PICK w, kind : w = request[q].arg.on /\ kind = request[q].arg.kind
  OBVIOUS
<1>2. w \in Workspaces /\ kind \in {"top_up", "goodwill"}
  BY <1>1 DEF Grant, Doing, LedgerInv, LedgerRequest, RecordRequest
<1>3. PICK plain, granting : plain = PayRow(kind, "captured", w) /\ granting = Granting(plain)
  OBVIOUS
<1>4. /\ plain \in PaySet /\ plain.status = "captured" /\ plain.on = w /\ plain.code = NoCode /\ plain.of = 0
      /\ plain.kind = kind
  BY <1>2, <1>3, PayRowTyped
<1>5. /\ granting \in PaySet /\ granting.status = "captured" /\ granting.on = w /\ granting.code = NoCode
      /\ granting.of = 0 /\ granting.packs = 1
  BY <1>3, <1>4 DEF Granting, PaySet
<1>6. PICK row : row = IF granting.kind = "top_up" THEN Invoiced(granting) ELSE granting
  OBVIOUS
<1>7. row \in PaySet /\ row.status = "captured" /\ row.on = w /\ row.code = NoCode /\ row.of = 0 /\ row.packs = 1
  BY <1>5, <1>6 DEF Invoiced, PaySet
<1>8. pay' = Append(pay, row) /\ extra' = [extra EXCEPT ![w] = @ + 1] /\ redeemed' = redeemed /\ Writes(q, {w})
  BY <1>1, <1>3, <1>6 DEF Grant
<1>9. LedgerRows /\ extra \in [ Workspaces -> Nat ]
  BY DEF LedgerInv, LedgerRows
<1>10. extra' \in [ Workspaces -> Nat ] /\ extra'[w] = extra[w] + 1 /\ \A v \in Workspaces \ {w} : extra'[v] = extra[v]
  BY <1>2, <1>8, <1>9
<1>11. LedgerRows' /\ PaysGoOn /\ \A r \in 1..Len(pay) : pay'[r] = pay[r]
  BY <1>7, <1>8, <1>9, <1>10, ARowIsAdded
<1>12. \A v \in Workspaces \ {w} : MoneyStays(v)
  BY <1>10, <1>11 DEF MoneyStays
<1>13. crossed \subseteq crossed'
  BY <1>8, EndsAny DEF Lasts
<1>14. ASSUME NEW v \in Workspaces \ crossed' PROVE Accounts(v)'
  <2>1. RefundsFit(v) /\ MinutesFit(v) /\ CodesFit(v)
    BY <1>13, <1>14 DEF LedgerInv, Accounts
  <2>2. /\ RefundsFit(v)' /\ Granted(v)' = IF w = v THEN Granted(v) \union {Len(pay) + 1} ELSE Granted(v)
        /\ \A x : Discounted(v, x)' = IF w = v /\ NoCode = x THEN Discounted(v, x) \union {Len(pay) + 1} ELSE Discounted(v, x)
    BY <1>7, <1>8, <1>9, <1>10, <2>1, AccountsAdded
  <2>3. Minutes(v)' = Minutes(v)
    BY <1>8 DEF Minutes, Redeemers
  <2>4. CodesFit(v)'
    BY <1>8, <2>1, <2>2, LedgerAssumption DEF CodesFit
  <2>5. IsFiniteSet(Granted(v)) /\ Len(pay) + 1 \notin Granted(v) /\ Cardinality(Granted(v)) \in Nat
    BY <1>9, PaysAreFinite, FS_CardinalityType DEF Granted
  <2>6. Cardinality(Granted(v) \union {Len(pay) + 1}) = Cardinality(Granted(v)) + 1
    BY <2>5, FS_AddElement
  <2>7. Cardinality(Minutes(v)) \in Nat
    BY <2>1, FS_CardinalityType DEF MinutesFit
  <2>8. MinutesFit(v)'
    BY <1>10, <2>1, <2>2, <2>3, <2>5, <2>6, <2>7 DEF MinutesFit
  <2> QED
    BY <2>2, <2>4, <2>8 DEF Accounts
<1> QED
  BY <1>8, <1>11, <1>12, <1>14, LedgerWritten

\* A code is redeemed in the portal.
LEMMA ACodeIsRedeemed ==
  ASSUME LedgerInv, CouponInv, Shape, NEW q \in Requests, Redeem(q), pay' = pay
  PROVE  LedgerInv'
<1>1. PICK c, w : c = request[q].arg.on /\ w = request[q].arg.for
  OBVIOUS
<1>2. c \in Coupon /\ w \in Workspaces
  BY <1>1 DEF Redeem, Doing, CouponInv, CouponRequest, Issued
<1>3. LedgerRows /\ extra \in [ Workspaces -> Nat ]
  BY DEF LedgerInv, LedgerRows
<1>4. CASE ~Taken(c, w, request[q].saw)
  <2>1. GivesUp(q) /\ extra' = extra /\ redeemed' = redeemed
    BY <1>1, <1>4 DEF Redeem
  <2>2. Lasts /\ Touches({})
    BY <2>1, EndsAny
  <2>3. {} \cap LedgerTasks = {}
    OBVIOUS
  <2> QED
    BY <2>1, <2>2, <2>3, LedgerAside
<1>5. CASE Taken(c, w, request[q].saw)
  <2>1. PICK what : what = IF c \in Grants THEN {c, w} ELSE {c}
    OBVIOUS
  <2>2. /\ redeemed' = [redeemed EXCEPT ![c][w] = "waiting"] /\ Writes(q, what)
        /\ extra' = IF c \in Grants THEN [extra EXCEPT ![w] = @ + 1] ELSE extra
    BY <1>1, <1>5, <2>1 DEF Redeem
  <2>3. redeemed[c][w] = "no"
    BY <1>5 DEF Taken
  <2>4. /\ \A x \in Coupon \ {c} : redeemed'[x] = redeemed[x]
        /\ \A v \in Workspaces : redeemed'[c][v] = IF v = w THEN "waiting" ELSE redeemed[c][v]
    <3>1. Redeems(c, w, "waiting")
      BY <2>2 DEF Redeems
    <3> QED
      BY <1>2, <3>1, RedemptionSet
  <2>5. /\ extra' \in [ Workspaces -> Nat ]
        /\ \A v \in Workspaces : extra'[v] = IF v = w /\ c \in Grants THEN extra[v] + 1 ELSE extra[v]
    BY <1>2, <1>3, <2>2
  <2>6. LedgerRows' /\ PaysGoOn
    BY <1>3, <2>5 DEF LedgerRows, PaysGoOn
  <2>7. \A v \in Workspaces \ what : MoneyStays(v)
    BY <2>1, <2>5 DEF MoneyStays
  <2>8. crossed \subseteq crossed'
    BY <2>2, EndsAny DEF Lasts
  <2>9. ASSUME NEW v \in Workspaces \ crossed' PROVE Accounts(v)'
    <3>1. RefundsFit(v) /\ MinutesFit(v) /\ CodesFit(v)
      BY <2>8, <2>9 DEF LedgerInv, Accounts
    <3>2. PaysOf(v)' = PaysOf(v) /\ Granted(v)' = Granted(v)
      BY DEF PaysOf, Granted
    <3>3. RefundsFit(v)'
      BY <3>1, <3>2 DEF RefundsFit, Refunding
    <3>4. \A x \in Coupon : redeemed'[x][v] = "used" <=> redeemed[x][v] = "used"
      BY <2>3, <2>4
    <3>5. CodesFit(v)'
      BY <3>1, <3>2, <3>4 DEF CodesFit, Discounted
    <3>6. Minutes(v)' = IF v = w /\ c \in Grants THEN Minutes(v) \union {c} ELSE Minutes(v)
      BY <1>2, <2>4, CouponAssumption DEF Minutes, Redeemers
    <3>7. v = w => c \notin Minutes(v)
      BY <2>3 DEF Minutes, Redeemers
    <3>8. IsFiniteSet(Granted(v)) /\ Cardinality(Granted(v)) \in Nat
      BY <1>3, PaysAreFinite, FS_CardinalityType
    <3>9. IsFiniteSet(Minutes(v)) /\ Cardinality(Minutes(v)) \in Nat
      BY <3>1, FS_CardinalityType DEF MinutesFit
    <3>10. IsFiniteSet(Minutes(v)') /\ Cardinality(Minutes(v)') =
              IF v = w /\ c \in Grants THEN Cardinality(Minutes(v)) + 1 ELSE Cardinality(Minutes(v))
      <4>1. CASE v = w /\ c \in Grants
        <5>1. IsFiniteSet(Minutes(v) \union {c}) /\ Cardinality(Minutes(v) \union {c}) = Cardinality(Minutes(v)) + 1
          BY <3>7, <3>9, <4>1, OneMore
        <5> QED
          BY <3>6, <4>1, <5>1
      <4>2. CASE ~(v = w /\ c \in Grants)
        BY <3>6, <3>9, <4>2
      <4> QED
        BY <4>1, <4>2
    <3>11. MinutesFit(v)'
      BY <2>5, <3>1, <3>2, <3>8, <3>9, <3>10 DEF MinutesFit
    <3> QED
      BY <3>3, <3>5, <3>11 DEF Accounts
  <2>10. \A x \in Coupon \ what : redeemed'[x] = redeemed[x]
    BY <2>1, <2>4
  <2> QED
    BY <2>2, <2>6, <2>7, <2>9, <2>10, LedgerWritten
<1> QED
  BY <1>4, <1>5

\* The refunded row is voided, and the refund is added.
\* A payment is marked refunded and the refund is added.
GivenBack(p, w) ==
  pay' = Append([pay EXCEPT ![p].status = "refunded", ![p].invoice = "void"],
                [PayRow("refund", "captured", w) EXCEPT !.of = p])

LEMMA APayIsRefunded ==
  ASSUME LedgerRows, NEW p \in 1..Len(pay), NEW w, w = pay[p].on, extra' \in [ Workspaces -> Nat ],
         GivenBack(p, w)
  PROVE  /\ LedgerRows' /\ Len(pay') = Len(pay) + 1
         /\ \A r \in 1..Len(pay) : r # p => pay'[r] = pay[r]
         /\ pay'[p].status = "refunded" /\ pay'[p].on = w /\ pay'[p].of = pay[p].of /\ pay'[p].code = pay[p].code
         /\ pay'[Len(pay) + 1].status = "captured" /\ pay'[Len(pay) + 1].on = w /\ pay'[Len(pay) + 1].of = p
         /\ pay'[Len(pay) + 1].code = NoCode /\ pay'[Len(pay) + 1].packs = 0
<1>1. pay \in Seq(PaySet) /\ Len(pay) \in Nat /\ \A r \in 1..Len(pay) : pay[r].of \in 0..Len(pay)
  BY DEF LedgerRows
<1>2. PICK old : old = pay[p]
  OBVIOUS
<1>3. old \in PaySet /\ w \in Workspaces
  <2>1. old \in PaySet
    BY <1>1, <1>2
  <2> QED
    BY <1>2, <2>1 DEF PaySet
<1>4. PICK void : void = [[old EXCEPT !.status = "refunded"] EXCEPT !.invoice = "void"]
  OBVIOUS
<1>5. void \in PaySet /\ void.status = "refunded" /\ void.on = w /\ void.of = old.of /\ void.code = old.code
  BY <1>2, <1>3, <1>4 DEF PaySet
<1>6. PICK voided : voided = [pay EXCEPT ![p] = void]
  OBVIOUS
<1>7. [pay EXCEPT ![p].status = "refunded", ![p].invoice = "void"] = voided
  <2>1. PICK some : some = [old EXCEPT !.status = "refunded"]
    OBVIOUS
  <2>2. PICK half : half = [pay EXCEPT ![p] = some]
    OBVIOUS
  <2>3. [pay EXCEPT ![p].status = "refunded"] = half
    BY <1>2, <2>1, <2>2
  <2>4. half[p] = some /\ p \in DOMAIN half
    BY <1>1, <2>2
  <2>5. [half EXCEPT ![p].invoice = "void"] = [half EXCEPT ![p] = void]
    BY <1>4, <2>1, <2>4
  <2>6. [half EXCEPT ![p] = void] = voided
    BY <1>6, <2>2
  <2>7. [pay EXCEPT ![p].status = "refunded", ![p].invoice = "void"]
          = [[pay EXCEPT ![p].status = "refunded"] EXCEPT ![p].invoice = "void"]
    OBVIOUS
  <2> QED
    BY <2>3, <2>5, <2>6, <2>7
<1>8. PICK plain : plain = PayRow("refund", "captured", w)
  OBVIOUS
<1>9. /\ plain \in PaySet /\ plain.status = "captured" /\ plain.on = w /\ plain.code = NoCode /\ plain.packs = 0
  BY <1>3, <1>8, PayRowTyped
<1>10. PICK new : new = [plain EXCEPT !.of = p]
  OBVIOUS
<1>11. new \in PaySet /\ new.status = "captured" /\ new.on = w /\ new.code = NoCode /\ new.packs = 0 /\ new.of = p
  <2>1. p \in Nat
    BY <1>1
  <2> QED
    BY <1>9, <1>10, <2>1 DEF PaySet
<1>12. pay' = Append(voided, new)
  BY <1>7, <1>8, <1>10 DEF GivenBack
<1>13. /\ voided \in Seq(PaySet) /\ Len(voided) = Len(pay) /\ voided[p] = void
       /\ \A r \in 1..Len(pay) : r # p => voided[r] = pay[r]
  BY <1>1, <1>5, <1>6
<1>14. /\ pay' \in Seq(PaySet) /\ Len(pay') = Len(pay) + 1 /\ pay'[Len(pay) + 1] = new /\ pay'[p] = void
       /\ \A r \in 1..Len(pay) : r # p => pay'[r] = pay[r]
  <2>1. pay' \in Seq(PaySet) /\ Len(pay') = Len(voided) + 1 /\ pay'[Len(voided) + 1] = new
    BY <1>11, <1>12, <1>13
  <2>2. \A r \in 1..Len(voided) : pay'[r] = voided[r]
    BY <1>12, <1>13
  <2> QED
    BY <1>13, <2>1, <2>2
<1>15. \A r \in 1..Len(pay') : r \in 1..Len(pay) \/ r = Len(pay) + 1
  <2>1. Len(pay') = Len(pay) + 1 /\ Len(pay) \in Nat
    BY <1>1, <1>14
  <2> QED
    BY <2>1, UpToTheLast
<1>16. \A r \in 1..Len(pay') : pay'[r].of \in 0..Len(pay')
  <2>1. pay'[p].of \in 0..Len(pay)
    BY <1>1, <1>2, <1>5, <1>14
  <2>2. \A r \in 1..Len(pay) : pay'[r].of \in 0..Len(pay)
    BY <1>1, <1>14, <2>1
  <2>3. pay'[Len(pay) + 1].of \in 0..Len(pay)
    BY <1>1, <1>11, <1>14
  <2>4. 0..Len(pay) \subseteq 0..Len(pay')
    BY <1>1, <1>14
  <2> QED
    BY <1>15, <2>2, <2>3, <2>4
<1>17. LedgerRows'
  BY <1>14, <1>16 DEF LedgerRows
<1> QED
  BY <1>2, <1>5, <1>11, <1>14, <1>17

\* What a refund does to the accounts of a workspace that was not overtaken.
LEMMA AccountsRefunded ==
  ASSUME LedgerRows, NEW p \in 1..Len(pay), NEW w, w = pay[p].on, extra' \in [ Workspaces -> Nat ],
         GivenBack(p, w),
         NEW v \in Workspaces, RefundsFit(v), v = w => pay[p].status = "captured"
  PROVE  /\ RefundsFit(v)' /\ \A c \in Coupon : Discounted(v, c)' = Discounted(v, c)
         /\ Granted(v)' = IF v = w THEN Granted(v) \ {p} ELSE Granted(v)
<1>1. /\ LedgerRows' /\ Len(pay') = Len(pay) + 1
      /\ \A r \in 1..Len(pay) : r # p => pay'[r] = pay[r]
      /\ pay'[p].status = "refunded" /\ pay'[p].on = w /\ pay'[p].of = pay[p].of /\ pay'[p].code = pay[p].code
      /\ pay'[Len(pay) + 1].status = "captured" /\ pay'[Len(pay) + 1].on = w /\ pay'[Len(pay) + 1].of = p
      /\ pay'[Len(pay) + 1].code = NoCode /\ pay'[Len(pay) + 1].packs = 0
  BY APayIsRefunded
<1>2. PICK n, new : n = Len(pay) + 1 /\ new = pay'[n]
  OBVIOUS
<1>3. new.status = "captured" /\ new.on = w /\ new.of = p /\ new.code = NoCode /\ new.packs = 0
  BY <1>1, <1>2
<1>4. \A r \in 1..Len(pay) : pay'[r].on = pay[r].on /\ pay'[r].of = pay[r].of /\ pay'[r].code = pay[r].code
  BY <1>1
<1>5. PaysOf(v)' = IF v = w THEN PaysOf(v) \union {n} ELSE PaysOf(v)
  BY <1>1, <1>2, <1>3, <1>4, PaysOfAdded
<1>6. PaysOf(v) \subseteq 1..Len(pay) /\ n \notin PaysOf(v) /\ n \in Nat \ {0} /\ n \notin 0..Len(pay) /\ n # p
  BY <1>2, PaysAreFinite
<1>7. p \in PaysOf(v) <=> v = w
  BY DEF PaysOf, LedgerRows
<1>8. Granted(v)' = IF v = w THEN Granted(v) \ {p} ELSE Granted(v)
  <2>1. \A r \in PaysOf(v) : r # p => pay'[r] = pay[r]
    BY <1>1, <1>6
  <2>2. pay'[p].status # "captured" /\ ~(pay'[n].packs > 0)
    BY <1>1, <1>2
  <2> QED
    BY <1>5, <1>6, <1>7, <2>1, <2>2 DEF Granted
<1>9. ASSUME NEW c \in Coupon PROVE Discounted(v, c)' = Discounted(v, c)
  <2>1. pay'[n].code # c
    BY <1>2, <1>3, LedgerAssumption
  <2> QED
    BY <1>4, <1>5, <1>6, <2>1 DEF Discounted
<1>10. ASSUME NEW r \in PaysOf(v), r # p PROVE Refunding(v, r)' = Refunding(v, r)
  BY <1>2, <1>3, <1>4, <1>5, <1>6, <1>10 DEF Refunding
<1>11. v = w => Refunding(v, p)' = Refunding(v, p) \union {n}
  BY <1>2, <1>3, <1>4, <1>5, <1>6 DEF Refunding
<1>12. v = w => Refunding(v, n)' = {}
  <2>1. \A r \in PaysOf(v) : pay'[r].of # n
    BY <1>4, <1>6 DEF LedgerRows
  <2>2. pay'[n].of # n
    BY <1>2, <1>3, <1>6
  <2> QED
    BY <1>5, <2>1, <2>2 DEF Refunding
<1>13. v = w => Cardinality(Refunding(v, p)') = 1
  <2> SUFFICES ASSUME v = w PROVE Cardinality(Refunding(v, p)') = 1
    OBVIOUS
  <2>1. Cardinality(Refunding(v, p)) = 0
    BY <1>7 DEF RefundsFit
  <2>2. IsFiniteSet(Refunding(v, p)) /\ n \notin Refunding(v, p)
    BY <1>6, PaysAreFinite DEF Refunding
  <2> QED
    <3>1. Cardinality(Refunding(v, p) \union {n}) = Cardinality(Refunding(v, p)) + 1
      BY <2>2, OneMore
    <3>2. Refunding(v, p)' = Refunding(v, p) \union {n}
      BY <1>11
    <3>3. Cardinality(Refunding(v, p) \union {n}) = 1
      BY <2>1, <3>1
    <3> QED
      BY <3>2, <3>3
<1>14. RefundsFit(v)'
  <2> SUFFICES ASSUME NEW r \in PaysOf(v)'
               PROVE  Cardinality(Refunding(v, r)') = IF pay'[r].status = "refunded" THEN 1 ELSE 0
    BY DEF RefundsFit
  <2>1. CASE r = n
    BY <1>1, <1>2, <1>5, <1>6, <1>12, <2>1, FS_EmptySet
  <2>2. CASE r = p
    BY <1>1, <1>5, <1>6, <1>7, <1>13, <2>2
  <2>3. CASE r # n /\ r # p
    <3>1. r \in PaysOf(v) /\ pay'[r] = pay[r]
      BY <1>1, <1>5, <1>6, <2>3
    <3> QED
      BY <1>10, <2>3, <3>1 DEF RefundsFit
  <2> QED
    BY <2>1, <2>2, <2>3
<1> QED
  BY <1>8, <1>9, <1>14

LEMMA APaymentIsRefunded ==
  ASSUME LedgerInv, Shape, NEW q \in Requests, Refund(q)
  PROVE  LedgerInv'
<1>1. PICK p, w, saw, about, overtaken :
        /\ p = request[q].arg /\ w = pay[p].on /\ saw = request[q].saw
        /\ about = request[q].about /\ overtaken = request[q].overtaken
  OBVIOUS
<1>2. LedgerRows /\ extra \in [ Workspaces -> Nat ]
  BY DEF LedgerInv, LedgerRows
<1>3. /\ p \in 1..Len(pay) /\ saw.extra \in Nat
      /\ overtaken \/ (pay[p].status = "captured" /\ saw.extra = extra[w])
  BY <1>1 DEF Refund, Doing, LedgerInv, LedgerRequest, RefundRequest
<1>4. /\ pay[p] \in PaySet /\ w \in Workspaces /\ pay[p].packs \in {0, 1}
  <2>1. pay[p] \in PaySet
    BY <1>2, <1>3 DEF LedgerRows
  <2> QED
    BY <1>1, <2>1 DEF PaySet
<1>5. /\ GivenBack(p, w)
      /\ extra' = IF pay[p].packs > 0 THEN [extra EXCEPT ![w] = TakenBack(p, saw)] ELSE extra
      /\ Writes(q, {w}) /\ redeemed' = redeemed
  BY <1>1 DEF Refund, GivenBack
<1>6. PICK back : back = TakenBack(p, saw)
  OBVIOUS
<1>7. back \in Nat /\ (saw.extra >= pay[p].packs => back = saw.extra - pay[p].packs)
  BY <1>3, <1>4, <1>6 DEF TakenBack
<1>8. /\ extra' \in [ Workspaces -> Nat ]
      /\ \A v \in Workspaces : extra'[v] = IF v = w /\ pay[p].packs > 0 THEN back ELSE extra[v]
  BY <1>2, <1>4, <1>5, <1>6, <1>7
<1>9. /\ LedgerRows' /\ Len(pay') = Len(pay) + 1
      /\ \A r \in 1..Len(pay) : r # p => pay'[r] = pay[r]
      /\ pay'[p].status = "refunded" /\ pay'[p].on = w
  <2>1. LedgerRows /\ p \in 1..Len(pay) /\ w = pay[p].on /\ extra' \in [ Workspaces -> Nat ] /\ GivenBack(p, w)
    BY <1>1, <1>2, <1>3, <1>5, <1>8
  <2> QED
    BY <2>1, APayIsRefunded
<1>10. PaysGoOn
  <2>1. Len(pay) \in Nat /\ Len(pay') \in Nat /\ Len(pay) <= Len(pay')
    BY <1>2, <1>9 DEF LedgerRows
  <2>2. pay[p].status \notin Failing
    BY <1>1 DEF Refund, Doing, LedgerInv, LedgerRequest, RefundRequest, Landed, Failing
  <2>3. pay'[p].status \in Landed
    BY <1>9 DEF Landed
  <2> QED
    BY <1>1, <1>9, <2>1, <2>2, <2>3 DEF PaysGoOn
<1>11. \A v \in Workspaces \ {w} : MoneyStays(v)
  BY <1>1, <1>8, <1>9 DEF MoneyStays
<1>12. crossed \subseteq crossed'
  BY <1>5, EndsAny DEF Lasts
<1>13. overtaken => w \in crossed'
  BY <1>1, <1>5 DEF Writes
<1>14. ASSUME NEW v \in Workspaces \ crossed' PROVE Accounts(v)'
  <2>1. RefundsFit(v) /\ MinutesFit(v) /\ CodesFit(v)
    BY <1>12, <1>14 DEF LedgerInv, Accounts
  <2>2. v = w => pay[p].status = "captured" /\ saw.extra = extra[w]
    BY <1>3, <1>13, <1>14
  <2>3. /\ RefundsFit(v)' /\ \A c \in Coupon : Discounted(v, c)' = Discounted(v, c)
        /\ Granted(v)' = IF v = w THEN Granted(v) \ {p} ELSE Granted(v)
    <3>1. LedgerRows /\ p \in 1..Len(pay) /\ w = pay[p].on /\ extra' \in [ Workspaces -> Nat ] /\ GivenBack(p, w)
      BY <1>1, <1>2, <1>3, <1>5, <1>8
    <3>2. RefundsFit(v) /\ (v = w => pay[p].status = "captured")
      BY <2>1, <2>2
    <3> QED
      BY <3>1, <3>2, AccountsRefunded
  <2>4. CodesFit(v)'
    BY <1>5, <2>1, <2>3 DEF CodesFit
  <2>5. Minutes(v)' = Minutes(v)
    BY <1>5 DEF Minutes, Redeemers
  <2>6. IsFiniteSet(Granted(v)) /\ Cardinality(Granted(v)) \in Nat
    BY <1>2, PaysAreFinite, FS_CardinalityType
  <2>7. Cardinality(Minutes(v)) \in Nat
    BY <2>1, FS_CardinalityType DEF MinutesFit
  <2>8. v = w => (p \in Granted(v) <=> pay[p].packs > 0)
    BY <1>1, <1>2, <1>3, <2>2 DEF Granted, PaysOf, LedgerRows
  <2>9. MinutesFit(v)'
    <3>1. CASE v = w /\ pay[p].packs > 0
      <4>1. pay[p].packs = 1 /\ p \in Granted(v) /\ extra'[v] = back
        BY <1>4, <1>8, <2>8, <3>1
      <4>2. Cardinality(Granted(v) \ {p}) = Cardinality(Granted(v)) - 1
        BY <2>6, <4>1, FS_RemoveElement
      <4>3. Cardinality(Granted(v)) # 0
        BY <2>6, <4>1, FS_EmptySet
      <4>4. extra[v] = Cardinality(Granted(v)) + Cardinality(Minutes(v))
        BY <2>1 DEF MinutesFit
      <4>5. extra'[v] = extra[v] - 1
        BY <1>7, <2>2, <2>6, <2>7, <3>1, <4>1, <4>3, <4>4
      <4>6. Cardinality(Granted(v)') = Cardinality(Granted(v)) - 1
        BY <2>3, <3>1, <4>2
      <4>7. extra'[v] = Cardinality(Granted(v)') + Cardinality(Minutes(v)')
        BY <2>5, <2>6, <2>7, <4>4, <4>5, <4>6
      <4> QED
        BY <2>1, <2>5, <4>7 DEF MinutesFit
    <3>2. CASE ~(v = w /\ pay[p].packs > 0)
      <4>1. extra'[v] = extra[v] /\ Granted(v)' = Granted(v)
        BY <1>8, <2>3, <2>8, <3>2
      <4> QED
        BY <2>1, <2>5, <4>1 DEF MinutesFit
    <3> QED
      BY <3>1, <3>2
  <2> QED
    BY <2>3, <2>4, <2>9 DEF Accounts
<1> QED
  BY <1>5, <1>9, <1>10, <1>11, <1>14, LedgerWritten

\* Failed charges are all alike to the accounts.
LEMMA ARetryIsSet ==
  ASSUME LedgerInv, Shape, NEW q \in Requests, Retry(q)
  PROVE  LedgerInv'
<1>1. PICK p, status : /\ p = request[q].arg.on
                       /\ status = IF request[q].arg.retries THEN "scheduled_retry" ELSE "failed"
  OBVIOUS
<1>2. p \in 1..Len(pay) /\ pay[p].status \in Failing /\ status \in Failing
  BY <1>1 DEF Retry, Doing, LedgerInv, LedgerRequest, RecordRequest, Failing
<1>3. LedgerRows /\ pay \in Seq(PaySet) /\ Len(pay) \in Nat
  BY DEF LedgerInv, LedgerRows
<1>4. pay' = [pay EXCEPT ![p].status = status] /\ extra' = extra /\ redeemed' = redeemed /\ Writes(q, {})
  BY <1>1 DEF Retry
<1>5. PICK old, new : old = pay[p] /\ new = [old EXCEPT !.status = status]
  OBVIOUS
<1>6. old \in PaySet
  BY <1>2, <1>3, <1>5
<1>7. /\ new \in PaySet /\ new.status = status /\ new.on = old.on /\ new.of = old.of /\ new.code = old.code
      /\ new.packs = old.packs
  BY <1>2, <1>5, <1>6 DEF PaySet, Failing
<1>8. /\ pay' \in Seq(PaySet) /\ Len(pay') = Len(pay) /\ pay'[p] = new
      /\ \A r \in 1..Len(pay) : r # p => pay'[r] = pay[r]
  BY <1>2, <1>3, <1>4, <1>5, <1>7
<1>9. \A r \in 1..Len(pay) :
        /\ pay'[r].on = pay[r].on /\ pay'[r].of = pay[r].of /\ pay'[r].code = pay[r].code
        /\ pay'[r].packs = pay[r].packs
        /\ pay'[r].status = pay[r].status \/ (pay[r].status \in Failing /\ pay'[r].status \in Failing)
  BY <1>2, <1>5, <1>7, <1>8, ZenonT(60)
<1>10. LedgerRows' /\ PaysGoOn
  BY <1>3, <1>4, <1>8, <1>9 DEF LedgerRows, PaysGoOn, Landed, Failing
<1>11. \A w : MoneyStays(w)
  BY <1>4, <1>9 DEF MoneyStays, Landed, Failing
<1>12. crossed \subseteq crossed'
  BY <1>4, EndsAny DEF Lasts
<1>13. ASSUME NEW w \in Workspaces \ crossed' PROVE Accounts(w)'
  <2>1. RefundsFit(w) /\ MinutesFit(w) /\ CodesFit(w)
    BY <1>12, <1>13 DEF LedgerInv, Accounts
  <2>2. PaysOf(w)' = PaysOf(w) /\ PaysOf(w) \subseteq 1..Len(pay)
    BY <1>3, <1>8, <1>9 DEF PaysOf
  <2>3. Granted(w)' = Granted(w)
    BY <1>9, <2>2 DEF Granted, Failing
  <2>4. Minutes(w)' = Minutes(w)
    BY <1>4 DEF Minutes, Redeemers
  <2>5. MinutesFit(w)'
    BY <1>4, <2>1, <2>3, <2>4 DEF MinutesFit
  <2>6. \A r \in PaysOf(w) : Refunding(w, r)' = Refunding(w, r)
    BY <1>9, <2>2 DEF Refunding
  <2>7. \A r \in PaysOf(w) : pay'[r].status = "refunded" <=> pay[r].status = "refunded"
    BY <1>9, <2>2 DEF Failing
  <2>8. RefundsFit(w)'
    BY <2>1, <2>2, <2>6, <2>7 DEF RefundsFit
  <2>9. \A c : Discounted(w, c)' = Discounted(w, c)
    BY <1>9, <2>2 DEF Discounted
  <2>10. CodesFit(w)'
    BY <1>4, <2>1, <2>9 DEF CodesFit
  <2> QED
    BY <2>5, <2>8, <2>10 DEF Accounts
<1> QED
  BY <1>4, <1>10, <1>11, <1>13, LedgerWritten

----------------------------------------------------------------------------
LEMMA ARecordBegins ==
  ASSUME LedgerInv, Shape, NEW q,
         \/ \E w \in Workspaces, retries \in BOOLEAN : FailOpens(q, w, retries)
         \/ \E w \in Workspaces : ChargeOpens(q, w)
         \/ \E w \in Workspaces, kind \in {"top_up", "goodwill"} : GrantOpens(q, w, kind)
         \/ \E p \in DOMAIN pay : RefundOpens(q, p)
         \/ \E p \in DOMAIN pay, retries \in BOOLEAN : RetryOpens(q, p, retries)
  PROVE  LedgerInv'
<1> DEFINE r(what, about, arg, saw) == [ doing |-> what, about |-> about, arg |-> arg, saw |-> saw, overtaken |-> FALSE ]
<1>0. DOMAIN pay = 1..Len(pay) /\ pay \in Seq(PaySet)
  BY DEF LedgerInv, LedgerRows
<1>1. ASSUME NEW w \in Workspaces, NEW retries \in BOOLEAN, FailOpens(q, w, retries) PROVE LedgerInv'
  <2>1. PICK arg : arg = [ on |-> w, retries |-> retries ]
    OBVIOUS
  <2>2. /\ arg.on = w /\ arg.retries = retries /\ Opens(q, "fail", {w}, arg, ws[w])
        /\ pay' = pay /\ extra' = extra /\ redeemed' = redeemed
    BY <1>1, <2>1 DEF FailOpens
  <2>3. LedgerRequest(r("fail", {w}, arg, ws[w]))
    BY <2>2 DEF LedgerRequest, ChargeRequest, RefundRequest, RecordRequest
  <2> QED
    BY <2>2, <2>3, LedgerOpens
<1>2. ASSUME NEW w \in Workspaces, ChargeOpens(q, w) PROVE LedgerInv'
  <2>0. pay' = pay /\ extra' = extra /\ redeemed' = redeemed
    BY <1>2 DEF ChargeOpens
  <2>1. CASE Opens(q, "charge", {w}, [ on |-> w, code |-> NoCode ], [ status |-> ws[w].status ])
    <3>1. PICK arg : arg = [ on |-> w, code |-> NoCode ]
      OBVIOUS
    <3>2. arg.on = w /\ arg.code = NoCode /\ Opens(q, "charge", {w}, arg, [ status |-> ws[w].status ])
      BY <2>1, <3>1
    <3>3. LedgerRequest(r("charge", {w}, arg, [ status |-> ws[w].status ]))
      BY <3>2 DEF LedgerRequest, ChargeRequest, RefundRequest, RecordRequest
    <3> QED
      BY <2>0, <3>2, <3>3, LedgerOpens
  <2>2. ASSUME NEW c \in Coupon, CodeFits(c, w),
               Opens(q, "charge", {w, c}, [ on |-> w, code |-> c ],
                     [ status |-> ws[w].status, coupon |-> coupon[c], redeemed |-> redeemed[c][w] ])
        PROVE  LedgerInv'
    <3>1. PICK arg : arg = [ on |-> w, code |-> c ]
      OBVIOUS
    <3>2. PICK saw : saw = [ status |-> ws[w].status, coupon |-> coupon[c], redeemed |-> redeemed[c][w] ]
      OBVIOUS
    <3>3. arg.on = w /\ arg.code = c /\ Opens(q, "charge", {w, c}, arg, saw)
      BY <2>2, <3>1, <3>2
    <3>4. c \notin Grants /\ redeemed[c][w] # "used"
      BY <2>2 DEF CodeFits
    <3>5. LedgerRequest(r("charge", {w, c}, arg, saw))
      BY <3>3, <3>4 DEF LedgerRequest, ChargeRequest, RefundRequest, RecordRequest
    <3> QED
      BY <2>0, <3>3, <3>5, LedgerOpens
  <2> QED
    BY <1>2, <2>1, <2>2 DEF ChargeOpens
<1>3. ASSUME NEW w \in Workspaces, NEW kind \in {"top_up", "goodwill"}, GrantOpens(q, w, kind) PROVE LedgerInv'
  <2>1. PICK arg : arg = [ on |-> w, kind |-> kind ]
    OBVIOUS
  <2>2. /\ arg.on = w /\ arg.kind = kind /\ Opens(q, "grant", {}, arg, ws[w])
        /\ pay' = pay /\ extra' = extra /\ redeemed' = redeemed
    BY <1>3, <2>1 DEF GrantOpens
  <2>3. LedgerRequest(r("grant", {}, arg, ws[w]))
    BY <2>2 DEF LedgerRequest, ChargeRequest, RefundRequest, RecordRequest
  <2> QED
    BY <2>2, <2>3, LedgerOpens
<1>4. ASSUME NEW p \in DOMAIN pay, RefundOpens(q, p) PROVE LedgerInv'
  <2>1. PICK w : w = pay[p].on
    OBVIOUS
  <2>2. /\ Opens(q, "refund", {w}, p, NoRequest) /\ pay[p].status = "captured"
        /\ pay' = pay /\ extra' = extra /\ redeemed' = redeemed
    BY <1>4, <2>1 DEF RefundOpens, Refundable
  <2>3. LedgerRequest(r("refund", {w}, p, NoRequest))
    BY <1>0, <1>4, <2>1, <2>2 DEF LedgerRequest, ChargeRequest, RefundRequest, RecordRequest, Landed
  <2> QED
    BY <2>2, <2>3, LedgerOpens
<1>5. ASSUME NEW p \in DOMAIN pay, NEW retries \in BOOLEAN, RetryOpens(q, p, retries) PROVE LedgerInv'
  <2>1. PICK arg : arg = [ on |-> p, retries |-> retries ]
    OBVIOUS
  <2>2. /\ arg.on = p /\ arg.retries = retries /\ Opens(q, "retry", {}, arg, pay[p])
        /\ pay[p].status \in Failing /\ pay' = pay /\ extra' = extra /\ redeemed' = redeemed
    BY <1>5, <2>1 DEF RetryOpens, Failing
  <2>3. LedgerRequest(r("retry", {}, arg, pay[p]))
    BY <1>0, <2>2 DEF LedgerRequest, ChargeRequest, RefundRequest, RecordRequest
  <2> QED
    BY <2>2, <2>3, LedgerOpens
<1> QED
  BY <1>1, <1>2, <1>3, <1>4, <1>5

\* The refund reads the minutes as they are.
LEMMA ARefundReads ==
  ASSUME LedgerInv, Shape, NEW q \in Requests, RefundReads(q)
  PROVE  LedgerInv'
<1>1. /\ pay' = pay /\ extra' = extra /\ redeemed' = redeemed
  BY DEF RefundReads
<1>2. /\ crossed' = crossed /\ request'[q].doing = "refund" /\ request'[q].about = request[q].about
      /\ request'[q].arg = request[q].arg /\ request'[q].saw = [ extra |-> extra[pay[request[q].arg].on] ]
      /\ request'[q].overtaken = request[q].overtaken
      /\ \A p \in Requests \ {q} : request'[p] = request[p]
  BY RefundReadsOne
<1>3. LedgerRows' /\ PaysGoOn /\ \A w : MoneyStays(w)
  BY <1>1, PaysStay DEF LedgerInv
<1>4. \A w \in Workspaces \ crossed' : Accounts(w)'
  BY <1>1, <1>2, AccountsStay DEF LedgerInv
<1>5. PICK s : s = request'[q]
  OBVIOUS
<1>6. RefundRequest(s)'
  <2>1. PICK i, w : i = request[q].arg /\ w = pay[i].on
    OBVIOUS
  <2>2. /\ i \in 1..Len(pay) /\ w \in s.about /\ pay[i].status \in Landed
        /\ s.overtaken \/ pay[i].status = "captured"
    BY <1>2, <1>5, <2>1 DEF RefundReads, Doing, LedgerInv, LedgerRequest, RefundRequest
  <2>3. w \in Workspaces
    <3>1. pay[i] \in PaySet
      BY <2>2 DEF LedgerInv, LedgerRows
    <3> QED
      BY <2>1, <3>1 DEF PaySet
  <2>4. extra[w] \in Nat
    BY <2>3 DEF LedgerInv, LedgerRows
  <2>5. s.arg = i /\ s.saw.extra = extra[w]
    BY <1>2, <1>5, <2>1
  <2> QED
    BY <1>1, <2>1, <2>2, <2>4, <2>5 DEF RefundRequest
<1>7. LedgerRequest(s)'
  BY <1>2, <1>5, <1>6 DEF LedgerRequest, ChargeRequest, RecordRequest
<1>8. LedgerRequest(request[q])'
  BY <1>5, <1>7 DEF LedgerRequest, ChargeRequest, RefundRequest, RecordRequest
<1>9. \A p \in Requests \ {q} : LedgerRequest(request[p])'
  <2> SUFFICES ASSUME NEW p \in Requests \ {q} PROVE LedgerRequest(request[p])'
    OBVIOUS
  <2>1. LedgerRequest(request[p]) /\ request'[p] = request[p]
    BY <1>2 DEF LedgerInv
  <2> QED
    BY <1>1, <2>1 DEF LedgerRequest, ChargeRequest, RefundRequest, RecordRequest
<1> QED
  BY <1>3, <1>4, <1>8, <1>9 DEF LedgerInv

LEMMA LedgerStepHolds ==
  ASSUME LedgerInv, CouponInv, Shape, LedgerStep
  PROVE  LedgerInv'
<1>1. ASSUME NEW q \in Requests, ChargeFails(q) PROVE LedgerInv'
  <2>1. GivesUp(q) /\ pay' = pay /\ extra' = extra /\ redeemed' = redeemed
    BY <1>1 DEF ChargeFails
  <2>2. Lasts /\ Touches({})
    BY <2>1, EndsAny
  <2>3. {} \cap LedgerTasks = {}
    OBVIOUS
  <2> QED
    BY <2>1, <2>2, <2>3, LedgerAside
<1>2. ASSUME NEW q \in Requests,
             Fail(q) \/ Charge(q) \/ ChargeFails(q) \/ Grant(q) \/ RefundReads(q) \/ Refund(q) \/ Retry(q)
      PROVE  LedgerInv'
  BY <1>1, <1>2, AFailureIsRecorded, AChargeLands, MinutesAreGranted, ARefundReads, APaymentIsRefunded, ARetryIsSet
<1> QED
  BY <1>2, ARecordBegins DEF LedgerStep

\* Only the redemption in the portal touches the minutes from another desk.
LEMMA CouponsKeepLedger ==
  ASSUME LedgerInv, CouponInv, Shape, CouponStep, pay' = pay
  PROVE  LedgerInv'
<1>1. CASE \E q \in Requests : Redeem(q)
  BY <1>1, ACodeIsRedeemed
<1>2. CASE ~\E q \in Requests : Redeem(q)
  <2>1. extra' = extra /\ redeemed' = redeemed
    BY <1>2 DEF CouponStep, Creates, MoveOpens, CapsOpens, RedeemOpens, Move, EditCaps, couponVars
  <2>2. Lasts /\ Touches(CouponTasks)
    BY CouponDesk
  <2>3. CouponTasks \cap LedgerTasks = {}
    BY DEF CouponTasks, LedgerTasks
  <2> QED
    BY <2>1, <2>2, <2>3, LedgerAside
<1> QED
  BY <1>1, <1>2

LEMMA NotOfTheLedger ==
  /\ TeamTasks \cap LedgerTasks = {} /\ Operations \cap LedgerTasks = {} /\ MembersTasks \cap LedgerTasks = {}
  /\ PublishingTasks \cap LedgerTasks = {} /\ WebsiteTasks \cap LedgerTasks = {} /\ {} \cap LedgerTasks = {}
<1>1. TeamTasks \cap LedgerTasks = {}
  BY Zenon DEF TeamTasks, Manages, LedgerTasks
<1>2. Operations \cap LedgerTasks = {}
  BY Zenon DEF Operations, LedgerTasks
<1>3. MembersTasks \cap LedgerTasks = {}
  BY Zenon DEF MembersTasks, LedgerTasks
<1>4. PublishingTasks \cap LedgerTasks = {}
  BY Zenon DEF PublishingTasks, LedgerTasks
<1>5. WebsiteTasks \cap LedgerTasks = {}
  BY Zenon DEF WebsiteTasks, LedgerTasks
<1> QED
  BY <1>1, <1>2, <1>3, <1>4, <1>5

LEMMA LedgerInvHolds ==
  ASSUME LedgerInv, CouponInv, Shape, [Next]_vars
  PROVE  LedgerInv'
<1>1. ASSUME NEW some, Shape' /\ Lasts /\ Touches(some), some \cap LedgerTasks = {},
             pay' = pay, extra' = extra, redeemed' = redeemed
      PROVE  LedgerInv'
  BY <1>1, LedgerAside
<1>2. CASE LedgerStep
  BY <1>2, LedgerStepHolds
<1>3. CASE CouponStep /\ pay' = pay
  BY <1>3, CouponsKeepLedger
<1>4. CASE TenancyStep /\ UNCHANGED << couponVars, pay >>
  BY <1>1, <1>4, TenancyDesk, NotOfTheLedger DEF couponVars
<1>5. CASE MembersStep /\ UNCHANGED << couponVars, pay >>
  BY <1>1, <1>5, MembersDesk, NotOfTheLedger DEF couponVars
<1>6. CASE TeamStep /\ UNCHANGED << couponVars, pay >>
  BY <1>1, <1>6, TeamDesk, NotOfTheLedger DEF couponVars
<1>7. CASE PublishingStep /\ UNCHANGED << couponVars, pay >>
  BY <1>1, <1>7, PublishingDesk, NotOfTheLedger DEF couponVars
<1>8. CASE WebsiteStep /\ UNCHANGED << couponVars, pay >>
  BY <1>1, <1>8, WebsiteDesk, NotOfTheLedger DEF couponVars
<1>9. CASE Builders /\ UNCHANGED << deskVars, couponVars, pay >>
  BY <1>1, <1>9, Unattended, NotOfTheLedger DEF couponVars
<1>10. CASE Sweep \/ Restarts \/ Time
  <2>1. pay' = pay /\ extra' = extra /\ redeemed' = redeemed
    BY <1>10 DEF Sweep, SweepBegins, SweepReads, SweepEnds, SweepsCoupon, Restarts, Time, StartComes, ExpiryComes, couponVars
  <2> QED
    BY <1>1, <1>10, <2>1, Unattended, NotOfTheLedger
<1>11. CASE UNCHANGED << deskVars, couponVars, pay >>
  BY <1>1, <1>11, AllStay, NotOfTheLedger DEF couponVars
<1> QED
  BY <1>2, <1>3, <1>4, <1>5, <1>6, <1>7, <1>8, <1>9, <1>10, <1>11 DEF Next, Money, vars, keptVars

LEMMA LedgerAtFirst == Init => LedgerInv
<1> SUFFICES ASSUME Init PROVE LedgerInv
  OBVIOUS
<1>1. pay = << >> /\ extra = [ w \in Workspaces |-> 0 ] /\ redeemed = [ c \in Coupon |-> [ w \in Workspaces |-> "no" ] ]
  BY DEF Init, CouponsInit
<1>2. LedgerRows
  BY <1>1 DEF LedgerRows
<1>3. ASSUME NEW w \in Workspaces PROVE Accounts(w)
  <2>1. \A c \in Coupon : redeemed[c][w] = "no"
    BY <1>1
  <2>2. Minutes(w) = {}
    BY <2>1, CouponAssumption DEF Minutes, Redeemers
  <2>3. PaysOf(w) = {} /\ Granted(w) = {} /\ \A c : Discounted(w, c) = {}
    BY <1>1 DEF PaysOf, Granted, Discounted
  <2>4. IsFiniteSet({}) /\ Cardinality({}) = 0
    BY FS_EmptySet
  <2>5. RefundsFit(w)
    BY <2>3 DEF RefundsFit
  <2>6. MinutesFit(w)
    BY <1>1, <2>2, <2>3, <2>4 DEF MinutesFit
  <2>7. CodesFit(w)
    BY <2>1, <2>3, <2>4 DEF CodesFit
  <2> QED
    BY <2>5, <2>6, <2>7 DEF Accounts
<1>4. \A q \in Requests : LedgerRequest(request[q])
  <2>1. \A q \in Requests : request[q].doing = "nothing"
    BY NothingIsOpen DEF Init, DeskInit
  <2> QED
    BY <2>1 DEF LedgerRequest, ChargeRequest, RefundRequest, RecordRequest
<1> QED
  BY <1>2, <1>3, <1>4 DEF LedgerInv

\* The ledger and the minutes agree: each refund is of one payment, each code
\* discounts one, and the extra minutes are those granted and not taken back
\* (payments-admin.ts, ledger.ts, the portal's coupon route).
THEOREM TheLedgerAccounts == Spec => []LedgerAccounts
<1>1. Init => Shape /\ CouponInv /\ LedgerInv
  BY ShapeAtFirst, CouponsAtFirst, LedgerAtFirst
<1>2. Shape /\ CouponInv /\ LedgerInv /\ [Next]_vars => (Shape /\ CouponInv /\ LedgerInv)'
  BY ShapeHolds, CouponInvHolds, LedgerInvHolds
<1>3. LedgerInv => LedgerAccounts
  BY DEF LedgerInv, Accounts, RefundsFit, MinutesFit, CodesFit, Refunding, Discounted, Minutes, LedgerAccounts
<1> QED
  BY <1>1, <1>2, <1>3, PTL DEF Spec

----------------------------------------------------------------------------
(* Types.                                                                   *)

Moves == {"paused", "active", "scheduled", "ended"}

KindsRequest(r) == r.doing = "move" => r.arg.on \in Coupon /\ r.arg.to \in Moves

\* What no other invariant says of the types: the statuses of codes and of the sweep.
KindsFit ==
  /\ \A c \in Coupon : coupon[c].status \in CouponStatuses
  /\ \A d \in dueCoupons : d.c \in Coupon /\ d.to \in {"active", "ended"}
  /\ sweep \in {"idle", "coupons", "erasing"}
  /\ \A q \in Requests : KindsRequest(request[q])

\* The status of a code is set, or another column.
LEMMA CouponColumnSet ==
  ASSUME CouponInv, NEW c \in Coupon, NEW x,
         \/ coupon' = [coupon EXCEPT ![c].status = x] /\ x \in CouponStatuses
         \/ coupon' = [coupon EXCEPT ![c].started = x]
         \/ coupon' = [coupon EXCEPT ![c].expiry = x]
         \/ coupon' = [coupon EXCEPT ![c].cap = x]
         \/ coupon' = [coupon EXCEPT ![c].count = x]
         \/ coupon' = [coupon EXCEPT ![c].top = x],
         \A d \in Coupon : coupon[d].status \in CouponStatuses
  PROVE  \A d \in Coupon : coupon'[d].status \in CouponStatuses
<1>1. PICK row : row = coupon[c]
  OBVIOUS
<1>2. row = [ status |-> row.status, started |-> row.started, expiry |-> row.expiry,
              cap |-> row.cap, count |-> row.count, top |-> row.top ]
  BY <1>1 DEF CouponInv, CouponRows, CouponRow
<1>3. PICK new : /\ coupon' = [coupon EXCEPT ![c] = new]
                 /\ \/ new = [row EXCEPT !.status = x] /\ x \in CouponStatuses
                    \/ new = [row EXCEPT !.started = x] \/ new = [row EXCEPT !.expiry = x]
                    \/ new = [row EXCEPT !.cap = x] \/ new = [row EXCEPT !.count = x] \/ new = [row EXCEPT !.top = x]
  BY <1>1
<1>4. new.status \in CouponStatuses
  BY <1>1, <1>2, <1>3
<1>5. \A d \in Coupon : coupon'[d] = IF d = c THEN new ELSE coupon[d]
  BY <1>3 DEF CouponInv, CouponRows
<1> QED
  BY <1>4, <1>5

LEMMA CapsKeepStatuses ==
  ASSUME CouponInv, NEW c \in Coupon, NEW cap, NEW expiry,
         coupon' = [coupon EXCEPT ![c].cap = cap, ![c].expiry = expiry, ![c].top = IF cap > @ THEN cap ELSE @],
         \A d \in Coupon : coupon[d].status \in CouponStatuses
  PROVE  \A d \in Coupon : coupon'[d].status \in CouponStatuses
<1>1. PICK row : row = coupon[c]
  OBVIOUS
<1>2. row = [ status |-> row.status, started |-> row.started, expiry |-> row.expiry,
              cap |-> row.cap, count |-> row.count, top |-> row.top ]
  BY <1>1 DEF CouponInv, CouponRows, CouponRow
<1>3. PICK one : one = [ status |-> row.status, started |-> row.started, expiry |-> expiry,
                         cap |-> cap, count |-> row.count, top |-> row.top ]
  OBVIOUS
<1>4. PICK mid : mid = [coupon EXCEPT ![c] = one]
  OBVIOUS
<1>5. [coupon EXCEPT ![c].cap = cap, ![c].expiry = expiry] = mid
  <2>1. PICK half : half = [row EXCEPT !.cap = cap]
    OBVIOUS
  <2>2. [half EXCEPT !.expiry = expiry] = one
    <3>1. half = [ status |-> row.status, started |-> row.started, expiry |-> row.expiry,
                   cap |-> cap, count |-> row.count, top |-> row.top ]
      BY <1>2, <2>1
    <3> QED
      BY <1>3, <3>1
  <2>3. PICK part : part = [coupon EXCEPT ![c] = half]
    OBVIOUS
  <2>4. [coupon EXCEPT ![c].cap = cap] = part /\ part[c] = half /\ c \in DOMAIN part
    BY <1>1, <2>1, <2>3 DEF CouponInv, CouponRows
  <2>5. [part EXCEPT ![c].expiry = expiry] = [part EXCEPT ![c] = one]
    BY <2>2, <2>4
  <2>6. [part EXCEPT ![c] = one] = mid
    BY <1>4, <2>3
  <2>7. [coupon EXCEPT ![c].cap = cap, ![c].expiry = expiry]
          = [[coupon EXCEPT ![c].cap = cap] EXCEPT ![c].expiry = expiry]
    OBVIOUS
  <2> QED
    BY <2>4, <2>5, <2>6, <2>7
<1>6. PICK top : top = IF cap > one.top THEN cap ELSE one.top
  OBVIOUS
<1>7. mid[c] = one /\ \A d \in Coupon : d # c => mid[d] = coupon[d]
  BY <1>4 DEF CouponInv, CouponRows
<1>8. coupon' = [mid EXCEPT ![c] = [one EXCEPT !.top = top]]
  <2>1. [coupon EXCEPT ![c].cap = cap, ![c].expiry = expiry, ![c].top = IF cap > @ THEN cap ELSE @]
          = [[coupon EXCEPT ![c].cap = cap, ![c].expiry = expiry] EXCEPT ![c].top = IF cap > @ THEN cap ELSE @]
    OBVIOUS
  <2>2. [mid EXCEPT ![c].top = IF cap > @ THEN cap ELSE @] = [mid EXCEPT ![c] = [one EXCEPT !.top = top]]
    BY <1>6, <1>7
  <2> QED
    BY <1>5, <2>1, <2>2
<1>9. PICK two : two = [one EXCEPT !.top = top]
  OBVIOUS
<1>10. two.status = row.status
  BY <1>3, <1>9
<1>11. \A d \in Coupon : coupon'[d] = IF d = c THEN two ELSE coupon[d]
  BY <1>4, <1>7, <1>8, <1>9 DEF CouponInv, CouponRows
<1> QED
  BY <1>1, <1>10, <1>11

LEMMA KindsRequestsStay ==
  ASSUME \A q \in Requests : KindsRequest(request[q]), NEW some, Touches(some), "move" \notin some
  PROVE  \A q \in Requests : KindsRequest(request'[q])
  BY NothingIsOpen DEF Touches, Stays, KindsRequest

LEMMA KindsGoOn ==
  ASSUME KindsFit, NEW some, Touches(some), "move" \notin some, \A c \in Coupon : coupon'[c].status \in CouponStatuses,
         \A d \in dueCoupons' : d.c \in Coupon /\ d.to \in {"active", "ended"}, sweep' \in {"idle", "coupons", "erasing"}
  PROVE  KindsFit'
<1>1. \A q \in Requests : KindsRequest(request'[q])
  BY KindsRequestsStay DEF KindsFit
<1> QED
  BY <1>1 DEF KindsFit, KindsRequest

\* A code is created, moved, edited or redeemed.
LEMMA CouponsKeepKinds ==
  ASSUME KindsFit, CouponInv, Shape, CouponStep, sweep' = sweep
  PROVE  KindsFit'
<1> DEFINE Typed == \A c \in Coupon : coupon'[c].status \in CouponStatuses
<1>0. /\ \A c \in Coupon : coupon[c].status \in CouponStatuses
      /\ \A d \in dueCoupons : d.c \in Coupon /\ d.to \in {"active", "ended"}
      /\ sweep \in {"idle", "coupons", "erasing"}
  BY DEF KindsFit
<1>1. dueCoupons' = dueCoupons
  BY DEF CouponStep, Creates, MoveOpens, CapsOpens, RedeemOpens, Move, EditCaps, Redeem, couponVars
<1>2. ASSUME NEW some, Touches(some), "move" \notin some, Typed PROVE KindsFit'
  BY <1>0, <1>1, <1>2, KindsGoOn
<1>3. ASSUME NEW c \in Coupon, Creates(c) PROVE KindsFit'
  <2>1. PICK draft \in BOOLEAN, started \in BOOLEAN, expiry \in {"never", "ahead"}, cap \in Caps :
          LET row == [ status |-> "draft", started |-> started, expiry |-> expiry,
                       cap |-> cap, count |-> 0, top |-> cap ]
          IN coupon' = [coupon EXCEPT ![c] = IF draft THEN row ELSE [row EXCEPT !.status = ByItsDate(row)]]
    BY <1>3 DEF Creates
  <2>2. PICK row : row = [ status |-> "draft", started |-> started, expiry |-> expiry,
                           cap |-> cap, count |-> 0, top |-> cap ]
    OBVIOUS
  <2>3. PICK new : new = IF draft THEN row ELSE [row EXCEPT !.status = ByItsDate(row)]
    OBVIOUS
  <2>4. coupon' = [coupon EXCEPT ![c] = new]
    BY <2>1, <2>2, <2>3
  <2>5. new.status \in CouponStatuses
    BY <2>2, <2>3 DEF ByItsDate, CouponStatuses
  <2>6. Typed
    BY <1>0, <2>4, <2>5 DEF CouponInv, CouponRows
  <2>7. Touches({})
    BY <1>3, ActsStay DEF Creates
  <2> QED
    BY <1>2, <2>6, <2>7
<1>4. ASSUME NEW q, NEW c \in Coupon, NEW to \in Moves, MoveOpens(q, c, to) PROVE KindsFit'
  <2>1. PICK arg : arg = [ on |-> c, to |-> to ]
    OBVIOUS
  <2>2. PICK r : r = [ doing |-> "move", about |-> {c}, arg |-> arg, saw |-> coupon[c], overtaken |-> FALSE ]
    OBVIOUS
  <2>3. Opens(q, "move", {c}, arg, coupon[c]) /\ coupon' = coupon
    BY <1>4, <2>1 DEF MoveOpens, couponVars
  <2>4. q \in Requests /\ request'[q] = r /\ \A p \in Requests \ {q} : request'[p] = request[p]
    BY <2>2, <2>3, OpensOne
  <2>5. r.arg.on \in Coupon /\ r.arg.to \in Moves
    BY <2>1, <2>2
  <2>6. \A p \in Requests : KindsRequest(request'[p])
    BY <2>4, <2>5 DEF KindsFit, KindsRequest
  <2> QED
    BY <1>0, <1>1, <2>3, <2>6 DEF KindsFit, KindsRequest
<1>5. ASSUME NEW q, NEW c \in Coupon, NEW cap, NEW expiry, CapsOpens(q, c, cap, expiry) PROVE KindsFit'
  <2>1. Touches({"caps"}) /\ coupon' = coupon
    BY <1>5, OpensOne DEF CapsOpens, couponVars
  <2> QED
    BY <1>0, <1>2, <2>1
<1>6. ASSUME NEW q, NEW w \in Workspaces, NEW c \in Coupon, RedeemOpens(q, w, c) PROVE KindsFit'
  <2>1. Touches({"redeem"}) /\ coupon' = coupon
    BY <1>6, OpensOne DEF RedeemOpens, couponVars
  <2> QED
    BY <1>0, <1>2, <2>1
<1>7. ASSUME NEW q \in Requests, Move(q) PROVE KindsFit'
  <2>1. PICK c, to, status :
          /\ c = request[q].arg.on /\ to = request[q].arg.to
          /\ status = IF to \in {"active", "scheduled"} THEN ByItsDate(coupon[c]) ELSE to
    OBVIOUS
  <2>2. c \in Coupon /\ to \in Moves
    BY <1>7, <2>1 DEF Move, Doing, KindsFit, KindsRequest
  <2>3. status \in CouponStatuses
    BY <2>1, <2>2 DEF Moves, ByItsDate, CouponStatuses
  <2>4. coupon' = [coupon EXCEPT ![c].status = status] /\ Touches({})
    BY <1>7, <2>1, WritesOne DEF Move
  <2>5. Typed
    BY <1>0, <2>2, <2>3, <2>4, CouponColumnSet
  <2> QED
    BY <1>2, <2>4, <2>5
<1>8. ASSUME NEW q \in Requests, EditCaps(q) PROVE KindsFit'
  <2>1. PICK c, cap, expiry :
          c = request[q].arg.on /\ cap = request[q].arg.cap /\ expiry = request[q].arg.expiry
    OBVIOUS
  <2>2. c \in Coupon
    BY <1>8, <2>1 DEF EditCaps, Doing, CouponInv, CouponRequest, Issued
  <2>3. /\ coupon' = [coupon EXCEPT ![c].cap = cap, ![c].expiry = expiry, ![c].top = IF cap > @ THEN cap ELSE @]
        /\ Touches({})
    BY <1>8, <2>1, WritesOne DEF EditCaps
  <2>4. Typed
    BY <1>0, <2>2, <2>3, CapsKeepStatuses
  <2> QED
    BY <1>2, <2>3, <2>4
<1>9. ASSUME NEW q \in Requests, Redeem(q) PROVE KindsFit'
  <2>1. PICK c : c = request[q].arg.on
    OBVIOUS
  <2>2. c \in Coupon
    BY <1>9, <2>1 DEF Redeem, Doing, CouponInv, CouponRequest, Issued
  <2>3. PICK count : count = coupon[c].count + 1
    OBVIOUS
  <2>4. coupon' = coupon \/ coupon' = [coupon EXCEPT ![c].count = count]
    BY <1>9, <2>1, <2>3 DEF Redeem
  <2>5. Typed
    BY <1>0, <2>2, <2>4, CouponColumnSet
  <2>6. Touches({})
    BY <1>9, EndsAny DEF Redeem
  <2> QED
    BY <1>2, <2>5, <2>6
<1> QED
  BY <1>3, <1>4, <1>5, <1>6, <1>7, <1>8, <1>9 DEF CouponStep, Moves

\* A charge counts the use of a code.
LEMMA LedgerKeepsKinds ==
  ASSUME KindsFit, CouponInv, Shape, LedgerStep, dueCoupons' = dueCoupons, sweep' = sweep
  PROVE  KindsFit'
<1>1. \A c \in Coupon : coupon'[c].status \in CouponStatuses
  <2>1. CASE coupon' = coupon
    BY <2>1 DEF KindsFit
  <2>2. CASE coupon' # coupon
    <3>1. PICK q \in Requests : Charge(q)
      BY <2>2 DEF LedgerStep, FailOpens, ChargeOpens, GrantOpens, RefundOpens, RetryOpens, Fail, ChargeFails, Grant,
                  RefundReads, Refund, Retry
    <3>2. PICK c, count : c = request[q].arg.code /\ count = coupon[c].count + 1
      OBVIOUS
    <3>3. c # NoCode /\ coupon' = [coupon EXCEPT ![c].count = count]
      BY <2>2, <3>1, <3>2 DEF Charge
    <3>4. c \in Coupon
      BY <3>1, <3>2, <3>3 DEF Charge, Doing, CouponInv, CouponRequest, Issued
    <3> QED
      BY <3>3, <3>4, CouponColumnSet DEF KindsFit
  <2> QED
    BY <2>1, <2>2
<1>2. Touches(LedgerTasks) /\ "move" \notin LedgerTasks
  BY LedgerDesk DEF LedgerTasks
<1> QED
  BY <1>1, <1>2, KindsGoOn DEF KindsFit

LEMMA UnattendedKeepsKinds ==
  ASSUME KindsFit, CouponInv, Shape, Sweep \/ Restarts \/ Time
  PROVE  KindsFit'
<1>0. /\ \A c \in Coupon : coupon[c].status \in CouponStatuses
      /\ \A d \in dueCoupons : d.c \in Coupon /\ d.to \in {"active", "ended"}
      /\ sweep \in {"idle", "coupons", "erasing"} /\ Touches({})
  BY Unattended DEF KindsFit
<1>1. ASSUME \A c \in Coupon : coupon'[c].status \in CouponStatuses,
             \A d \in dueCoupons' : d.c \in Coupon /\ d.to \in {"active", "ended"},
             sweep' \in {"idle", "coupons", "erasing"}
      PROVE  KindsFit'
  BY <1>0, <1>1, KindsGoOn
<1>2. CASE SweepBegins
  <2>1. \A d \in CouponsToMove : d.c \in Coupon /\ d.to \in {"active", "ended"}
    BY DEF CouponsToMove
  <2> QED
    BY <1>0, <1>1, <1>2, <2>1 DEF SweepBegins
<1>3. CASE SweepReads
  BY <1>0, <1>1, <1>3 DEF SweepReads, couponVars
<1>4. CASE SweepEnds \/ Restarts
  BY <1>0, <1>1, <1>4 DEF SweepEnds, Restarts
<1>5. ASSUME NEW d \in dueCoupons, SweepsCoupon(d), sweep' = sweep PROVE KindsFit'
  <2>1. PICK c, to : c = d.c /\ to = d.to
    OBVIOUS
  <2>2. c \in Coupon /\ to \in CouponStatuses
    BY <1>0, <2>1 DEF CouponStatuses
  <2>3. coupon' = [coupon EXCEPT ![c].status = to] /\ dueCoupons' \subseteq dueCoupons
    BY <1>5, <2>1 DEF SweepsCoupon
  <2>4. \A x \in Coupon : coupon'[x].status \in CouponStatuses
    BY <1>0, <2>2, <2>3, CouponColumnSet
  <2> QED
    BY <1>0, <1>1, <1>5, <2>3, <2>4
<1>6. CASE UNCHANGED couponVars /\ sweep' = sweep
  BY <1>0, <1>1, <1>6 DEF couponVars
<1>7. ASSUME NEW c \in Coupon, StartComes(c) \/ ExpiryComes(c), sweep' = sweep PROVE KindsFit'
  <2>1. PICK yes : yes = TRUE
    OBVIOUS
  <2>2. /\ coupon' = [coupon EXCEPT ![c].started = yes] \/ coupon' = [coupon EXCEPT ![c].expiry = "past"]
        /\ dueCoupons' = dueCoupons
    BY <1>7, <2>1 DEF StartComes, ExpiryComes
  <2>3. \A x \in Coupon : coupon'[x].status \in CouponStatuses
    BY <1>0, <2>2, CouponColumnSet
  <2> QED
    BY <1>0, <1>1, <1>7, <2>2, <2>3
<1> QED
  BY <1>2, <1>3, <1>4, <1>5, <1>6, <1>7 DEF Sweep, Time

LEMMA KindsHold ==
  ASSUME KindsFit, CouponInv, Shape, [Next]_vars
  PROVE  KindsFit'
<1>0. "move" \notin TeamTasks /\ "move" \notin Operations /\ "move" \notin MembersTasks /\ "move" \notin WebsiteTasks
      /\ "move" \notin PublishingTasks
  BY Zenon DEF TeamTasks, Manages, Operations, MembersTasks, WebsiteTasks, PublishingTasks
<1>1. ASSUME NEW some, Touches(some), "move" \notin some, UNCHANGED << couponVars, sweep >> PROVE KindsFit'
  BY <1>1, KindsGoOn DEF KindsFit, couponVars
<1>2. CASE CouponStep /\ sweep' = sweep
  BY <1>2, CouponsKeepKinds
<1>3. CASE LedgerStep /\ UNCHANGED << dueCoupons, sweep >>
  BY <1>3, LedgerKeepsKinds
<1>4. CASE Sweep \/ Restarts \/ Time
  BY <1>4, UnattendedKeepsKinds
<1>5. CASE (TeamStep \/ TenancyStep \/ MembersStep \/ PublishingStep \/ WebsiteStep) /\ UNCHANGED << couponVars, sweep >>
  BY <1>0, <1>1, <1>5, TeamDesk, TenancyDesk, MembersDesk, PublishingDesk, WebsiteDesk
<1>6. CASE UNCHANGED << deskVars, couponVars, sweep >>
  BY <1>1, <1>6, AllStay
<1> QED
  BY <1>2, <1>3, <1>4, <1>5, <1>6 DEF Next, Money, vars, keptVars

LEMMA KindsAtFirst == Init => KindsFit
<1> SUFFICES ASSUME Init PROVE KindsFit
  OBVIOUS
<1>1. \A c \in Coupon : coupon[c].status = Offer[c].status
  BY DEF Init, CouponsInit
<1>2. \A c \in Coupon : Offer[c].status \in CouponStatuses
  BY CouponAssumption
<1>3. \A q \in Requests : request[q].doing = "nothing"
  BY NothingIsOpen DEF Init, DeskInit
<1>4. dueCoupons = {} /\ sweep = "idle"
  BY DEF Init, CouponsInit
<1> QED
  BY <1>1, <1>2, <1>3, <1>4 DEF KindsFit, KindsRequest

\* What the invariants say of the types, together.
LEMMA TypesTogether ==
  ASSUME Shape, TeamInv, StatusInv, MemberInv, LedgerInv, PublishInv, WebInv, KindsFit
  PROVE  TypeOK
<1>1. /\ \A q \in Requests : Doing(q, "nothing") \/ (request[q].doing \in tasks /\ request[q].overtaken \in BOOLEAN)
      /\ acts \in Nat
  BY NothingIsOpen DEF Shape, Shaped, Doing
<1>2. /\ \A a \in Admins : admin[a].role \in Roles \union {"none"} /\ admin[a].era \in Nat
      /\ \A i \in DOMAIN session : session[i].of \in Admins /\ session[i].stage \in {"awaiting_code", "active"}
  <2>1. \A a \in Admins : admin[a].role \in Roles \union {"none"} /\ admin[a].era \in Nat
    BY DEF TeamInv, TeamRows, AdminRow
  <2>2. \A i \in DOMAIN session : session[i] \in SessionSet
    BY DEF TeamInv, TeamRows
  <2>3. \A i \in DOMAIN session : session[i].of \in Admins /\ session[i].stage \in {"awaiting_code", "active"}
    BY <2>2 DEF SessionSet
  <2> QED
    BY <2>1, <2>3
<1>3. /\ \A w \in Workspaces :
           /\ ws[w].status \in Open \union {"none", "deleted_pending", "deleted"} /\ ws[w].prev \in Open \union {"none"}
           /\ ws[w].asked \in Admins \union {Nobody} /\ past[w].was \in Running \union {"none"}
      /\ due \subseteq Workspaces /\ freed \subseteq Workspaces
  BY DEF StatusInv, StatusRows, TenantFits, PastRows
<1>4. /\ \A w \in Workspaces, p \in People :
           member[w][p].role \in MemberRoles \union {"none"} /\ member[w][p].login \in 0..Len(login)
      /\ \A i \in DOMAIN login : login[i].of \in People
      /\ leaving \subseteq DOMAIN login
  <2>1. member \in [ Workspaces -> [ People -> MemberSet ] ] /\ login \in Seq(LoginSet) /\ leaving \subseteq 1..Len(login)
        /\ \A w \in Workspaces, p \in People : member[w][p].login \in 0..Len(login)
    BY DEF MemberInv, MemberRows
  <2>2. \A w \in Workspaces, p \in People : member[w][p].role \in MemberRoles \union {"none"}
    BY <2>1 DEF MemberSet
  <2>3. DOMAIN login = 1..Len(login) /\ \A i \in DOMAIN login : login[i] \in LoginSet
    BY <2>1
  <2>4. \A i \in DOMAIN login : login[i].of \in People
    BY <2>3 DEF LoginSet
  <2> QED
    BY <2>1, <2>2, <2>3, <2>4
<1>5. /\ \A w \in Workspaces : extra[w] \in Nat
      /\ \A p \in DOMAIN pay : pay[p].on \in Workspaces /\ pay[p].of \in 0..Len(pay)
  <2>1. \A w \in Workspaces : extra[w] \in Nat
    BY DEF LedgerInv, LedgerRows
  <2>2. DOMAIN pay = 1..Len(pay) /\ \A p \in 1..Len(pay) : pay[p] \in PaySet /\ pay[p].of \in 0..Len(pay)
    BY DEF LedgerInv, LedgerRows
  <2>3. \A p \in 1..Len(pay) : pay[p].on \in Workspaces
    BY <2>2 DEF PaySet
  <2> QED
    BY <2>1, <2>2, <2>3
<1>6. /\ \A r \in DOMAIN plan : plan[r].status \in {"draft", "published", "gone"} /\ plan[r].version \in Nat
      /\ \A r \in DOMAIN pack : pack[r].status \in {"draft", "published", "retired", "gone"}
      /\ signed \subseteq DOMAIN plan
  <2>1. plan \in Seq(PlanSet) /\ pack \in Seq(PackSet)
    BY TablesTyped DEF PublishInv
  <2>2. signed \subseteq 1..Len(plan)
    BY DEF PublishInv, PublishingRows, PlanRows
  <2>3. /\ DOMAIN plan = 1..Len(plan) /\ \A r \in DOMAIN plan : plan[r] \in PlanSet
        /\ \A r \in DOMAIN pack : pack[r] \in PackSet
    BY <2>1
  <2>4. \A r \in DOMAIN plan : plan[r].status \in {"draft", "published", "gone"} /\ plan[r].version \in Nat
    BY <2>3 DEF PlanSet
  <2>5. \A r \in DOMAIN pack : pack[r].status \in {"draft", "published", "retired", "gone"}
    BY <2>3 DEF PackSet
  <2> QED
    BY <2>2, <2>3, <2>4, <2>5
<1>7. /\ \A e \in Entries : entry[e].draft \in Texts \union {0} /\ entry[e].live \in Texts \union {0}
      /\ DOMAIN script = DOMAIN publish /\ watched \subseteq DOMAIN publish
  BY DEF WebInv, WebRows, BuildRows, EntrySet, Said
<1>8. /\ \A c \in Coupon : coupon[c].status \in CouponStatuses
      /\ \A d \in dueCoupons : d.c \in Coupon /\ d.to \in {"active", "ended"}
      /\ sweep \in {"idle", "coupons", "erasing"}
  BY DEF KindsFit
<1> QED
  BY <1>1, <1>2, <1>3, <1>4, <1>5, <1>6, <1>7, <1>8 DEF TypeOK

\* Whatever requests, sweeps, scripts and restarts interleave, every column of the
\* panel's tables holds what it may, and no reference between them dangles.
THEOREM PanelTypeCorrect == Spec => []TypeOK
<1> DEFINE All == Shape /\ TeamInv /\ StatusInv /\ MemberInv /\ CouponInv /\ LedgerInv /\ PublishInv /\ WebInv /\ KindsFit
<1>1. Init => All
  BY ShapeAtFirst, TeamAtFirst, StatusAtFirst, MembersAtFirst, CouponsAtFirst, LedgerAtFirst, PublishingAtFirst,
     WebAtFirst, KindsAtFirst
<1>2. All /\ [Next]_vars => All'
  <2> SUFFICES ASSUME All, [Next]_vars PROVE All'
    OBVIOUS
  <2>1. WorkspaceRows
    BY DEF StatusInv, StatusRows
  <2>2. Shape' /\ TeamInv' /\ StatusInv' /\ MemberInv'
    BY <2>1, ShapeHolds, TeamInvHolds, StatusInvHolds, MemberInvHolds
  <2>3. CouponInv' /\ LedgerInv' /\ KindsFit'
    BY CouponInvHolds, LedgerInvHolds, KindsHold
  <2>4. PublishInv' /\ WebInv'
    BY PublishInvHolds, WebInvHolds
  <2> QED
    BY <2>2, <2>3, <2>4
<1>3. All => TypeOK
  BY TypesTogether
<1> QED
  BY <1>1, <1>2, <1>3, PTL DEF Spec
=============================================================================
