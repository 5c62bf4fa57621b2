---------------------------- MODULE Panel_proofs ----------------------------
(***************************************************************************)
(* Theorems about Panel, for any number of requests, admins, workspaces,   *)
(* and members, and any workload: the team, the workspaces, their members. *)
(* PanelTrade_proofs has those about what is sold and published.           *)
(*                                                                         *)
(* Every desk has an invariant of its own, which says what its rows are    *)
(* and what a request that was not overtaken may still rely on.  A step of *)
(* one desk leaves the requests of the others where they are (Touches).    *)
(***************************************************************************)
EXTENDS Panel, FiniteSetTheorems, SequenceTheorems, TLAPS

----------------------------------------------------------------------------
(* Requests.                                                                *)

\* What an open request consists of; what it does is of this behaviour.
Shaped(r) ==
  \/ r = NoRequest
  \/ /\ r = [ doing |-> r.doing, about |-> r.about, arg |-> r.arg, saw |-> r.saw, overtaken |-> r.overtaken ]
     /\ r.doing # "nothing" /\ r.doing \in tasks /\ r.overtaken \in BOOLEAN

Shape ==
  /\ request = [ q \in Requests |-> request[q] ] /\ acts \in Nat
  /\ \A q \in Requests : Shaped(request[q])

\* Request p means to do what it meant to do, from what it read.
Stays(p) ==
  /\ request'[p].doing = request[p].doing /\ request'[p].about = request[p].about
  /\ request'[p].arg = request[p].arg /\ request'[p].saw = request[p].saw
  /\ request[p].overtaken => request'[p].overtaken

\* A step of those who do some of the operations: all other requests stay, or end.
Touches(some) ==
  \A p \in Requests : request'[p] = NoRequest \/ request'[p].doing \in some \/ Stays(p)

\* The requests about what is written were overtaken.
Marked(p, what) ==
  request[p] # NoRequest => (request'[p].overtaken <=> (request[p].overtaken \/ request[p].about \cap what # {}))

LEMMA NothingIsOpen == NoRequest.doing = "nothing"
  BY DEF NoRequest

LEMMA SomethingIsDone ==
  ASSUME Shape, NEW q \in Requests
  PROVE  Doing(q, "nothing") <=> request[q] = NoRequest
  BY NothingIsOpen DEF Shape, Shaped, Doing

\* A request that was open is what it was, but that it was overtaken or not.
LEMMA Remarked ==
  ASSUME Shape, NEW p \in Requests, request[p] # NoRequest, NEW so \in BOOLEAN, tasks' = tasks,
         request'[p] = [request[p] EXCEPT !.overtaken = so]
  PROVE  /\ Shaped(request[p])'
         /\ request'[p].doing = request[p].doing /\ request'[p].about = request[p].about
         /\ request'[p].arg = request[p].arg /\ request'[p].saw = request[p].saw
         /\ request'[p].overtaken = so
<1>1. PICK r : r = request[p]
  OBVIOUS
<1>2. /\ r = [ doing |-> r.doing, about |-> r.about, arg |-> r.arg, saw |-> r.saw, overtaken |-> r.overtaken ]
      /\ r.doing # "nothing" /\ r.doing \in tasks
  BY <1>1 DEF Shape, Shaped
<1>3. [r EXCEPT !.overtaken = so] =
        [ doing |-> r.doing, about |-> r.about, arg |-> r.arg, saw |-> r.saw, overtaken |-> so ]
  BY <1>2
<1> QED
  BY <1>1, <1>2, <1>3 DEF Shaped

\* A request is opened.
LEMMA OpensOne ==
  ASSUME Shape, NEW q, NEW what, what # "nothing", NEW about, NEW arg, NEW saw,
         Opens(q, what, about, arg, saw)
  PROVE  /\ q \in Requests /\ request[q] = NoRequest /\ Shape' /\ tasks' = tasks
         /\ request'[q] = [ doing |-> what, about |-> about, arg |-> arg, saw |-> saw, overtaken |-> FALSE ]
         /\ \A p \in Requests \ {q} : request'[p] = request[p]
         /\ crossed' = crossed /\ Touches({what})
<1>1. /\ q \in Requests /\ Doing(q, "nothing") /\ what \in tasks
      /\ tasks' = tasks /\ acts' \in Nat /\ crossed' = crossed
  BY DEF Opens, Starting, Acts, Shape
<1>2. request[q] = NoRequest
  BY <1>1, SomethingIsDone
<1> DEFINE r == [ doing |-> what, about |-> about, arg |-> arg, saw |-> saw, overtaken |-> FALSE ]
<1>3. request' = [request EXCEPT ![q] = r]
  BY DEF Opens
<1>4. r = [ doing |-> r.doing, about |-> r.about, arg |-> r.arg, saw |-> r.saw, overtaken |-> r.overtaken ]
      /\ r.doing = what /\ r.overtaken = FALSE
  OBVIOUS
<1> HIDE DEF r
<1>5. request'[q] = r /\ \A p \in Requests \ {q} : request'[p] = request[p]
  BY <1>1, <1>3 DEF Shape
<1>6. request' = [ p \in Requests |-> request'[p] ]
  BY <1>3 DEF Shape
<1>7. Shaped(request[q])'
  BY <1>1, <1>4, <1>5 DEF Shaped
<1>8. \A p \in Requests \ {q} : Shaped(request[p])'
  BY <1>1, <1>5 DEF Shape, Shaped
<1>9. Touches({what})
  BY <1>4, <1>5 DEF Touches, Stays
<1> QED
  BY <1>1, <1>2, <1>5, <1>6, <1>7, <1>8, <1>9 DEF Shape, r

\* An open request reads, again.
LEMMA ReadsOne ==
  ASSUME Shape, NEW q \in Requests, request[q] # NoRequest, NEW saw, Reads(q, saw)
  PROVE  /\ Shape' /\ tasks' = tasks /\ crossed' = crossed
         /\ request'[q].doing = request[q].doing /\ request'[q].about = request[q].about
         /\ request'[q].arg = request[q].arg /\ request'[q].saw = saw /\ request'[q].overtaken = FALSE
         /\ \A p \in Requests \ {q} : request'[p] = request[p]
         /\ Touches({request[q].doing})
<1>1. PICK r : r = request[q]
  OBVIOUS
<1>2. /\ r = [ doing |-> r.doing, about |-> r.about, arg |-> r.arg, saw |-> r.saw, overtaken |-> r.overtaken ]
      /\ r.doing # "nothing" /\ r.doing \in tasks
  BY <1>1 DEF Shape, Shaped
<1>3. PICK t : t = [ doing |-> r.doing, about |-> r.about, arg |-> r.arg, saw |-> saw, overtaken |-> FALSE ]
  OBVIOUS
<1>4. [r EXCEPT !.saw = saw, !.overtaken = FALSE] = t
  <2>1. PICK u : u = [ doing |-> r.doing, about |-> r.about, arg |-> r.arg, saw |-> saw, overtaken |-> r.overtaken ]
    OBVIOUS
  <2>2. [r EXCEPT !.saw = saw] = u
    BY <1>2, <2>1
  <2>3. [r EXCEPT !.saw = saw, !.overtaken = FALSE] = [u EXCEPT !.overtaken = FALSE]
    BY <2>2
  <2>4. PICK no \in BOOLEAN : no = FALSE
    OBVIOUS
  <2>5. [u EXCEPT !.overtaken = no]
          = [ doing |-> r.doing, about |-> r.about, arg |-> r.arg, saw |-> saw, overtaken |-> no ]
    BY <2>1
  <2> QED
    BY <1>3, <2>3, <2>4, <2>5
<1>5. request' = [request EXCEPT ![q] = [request[q] EXCEPT !.saw = saw, !.overtaken = FALSE]]
  BY DEF Reads, Shape
<1>6. request' = [request EXCEPT ![q] = t] /\ tasks' = tasks /\ crossed' = crossed
  BY <1>1, <1>4, <1>5 DEF Reads
<1>7. /\ t.doing = r.doing /\ t.about = r.about /\ t.arg = r.arg /\ t.saw = saw /\ t.overtaken = FALSE
      /\ t = [ doing |-> t.doing, about |-> t.about, arg |-> t.arg, saw |-> t.saw, overtaken |-> t.overtaken ]
  BY <1>3
<1>8. request'[q] = t /\ \A p \in Requests \ {q} : request'[p] = request[p]
  BY <1>6 DEF Shape
<1>9. request' = [ p \in Requests |-> request'[p] ]
  BY <1>6 DEF Shape
<1>10. \A p \in Requests : Shaped(request[p])'
  BY <1>2, <1>6, <1>7, <1>8 DEF Shape, Shaped
<1>11. Touches({request[q].doing})
  BY <1>1, <1>7, <1>8 DEF Touches, Stays
<1> QED
  BY <1>1, <1>6, <1>7, <1>8, <1>9, <1>10, <1>11 DEF Shape, Reads

\* What overtaking does to the requests.
LEMMA OvertakesSome ==
  ASSUME Shape, NEW what
  PROVE  \A p \in Requests :
           Overtakes(what)[p] = IF request[p] = NoRequest THEN NoRequest
             ELSE [request[p] EXCEPT !.overtaken = request[p].overtaken \/ request[p].about \cap what # {}]
<1> SUFFICES ASSUME NEW p \in Requests
             PROVE  Overtakes(what)[p] = IF request[p] = NoRequest THEN NoRequest
               ELSE [request[p] EXCEPT !.overtaken = request[p].overtaken \/ request[p].about \cap what # {}]
  OBVIOUS
<1>1. Doing(p, "nothing") <=> request[p] = NoRequest
  BY SomethingIsDone
<1>2. Overtakes(what)[p] = IF Doing(p, "nothing") THEN request[p]
        ELSE [request[p] EXCEPT !.overtaken = @ \/ (request[p].about \cap what) # {}]
  BY DEF Overtakes
<1>3. CASE request[p] = NoRequest
  BY <1>1, <1>2, <1>3
<1>4. CASE request[p] # NoRequest
  <2>1. PICK r : r = request[p]
    OBVIOUS
  <2>2. r = [ doing |-> r.doing, about |-> r.about, arg |-> r.arg, saw |-> r.saw, overtaken |-> r.overtaken ]
    BY <1>4, <2>1 DEF Shape, Shaped
  <2>3. [r EXCEPT !.overtaken = @ \/ (r.about \cap what) # {}] = [r EXCEPT !.overtaken = r.overtaken \/ r.about \cap what # {}]
    BY <2>2
  <2> QED
    BY <1>1, <1>2, <1>4, <2>1, <2>3
<1> QED
  BY <1>3, <1>4

LEMMA Overtaken ==
  ASSUME Shape, NEW what, NEW p \in Requests, tasks' = tasks, request'[p] = Overtakes(what)[p]
  PROVE  /\ Shaped(request[p])' /\ Stays(p) /\ Marked(p, what)
         /\ request'[p] = NoRequest <=> request[p] = NoRequest
<1>1. CASE request[p] = NoRequest
  <2>1. request'[p] = NoRequest
    BY <1>1, OvertakesSome
  <2> QED
    BY <1>1, <2>1 DEF Shaped, Stays, Marked
<1>2. CASE request[p] # NoRequest
  <2>1. PICK so \in BOOLEAN : so = (request[p].overtaken \/ request[p].about \cap what # {})
    OBVIOUS
  <2>2. request'[p] = [request[p] EXCEPT !.overtaken = so]
    BY <1>2, <2>1, OvertakesSome
  <2>3. /\ Shaped(request[p])'
        /\ request'[p].doing = request[p].doing /\ request'[p].about = request[p].about
        /\ request'[p].arg = request[p].arg /\ request'[p].saw = request[p].saw
        /\ request'[p].overtaken = so
    BY <1>2, <2>1, <2>2, Remarked
  <2>4. request[p].doing # "nothing"
    BY <1>2 DEF Shape, Shaped
  <2> QED
    BY <1>2, <2>1, <2>3, <2>4, NothingIsOpen DEF Stays, Marked
<1> QED
  BY <1>1, <1>2

\* A request writes, and is over.
LEMMA WritesOne ==
  ASSUME Shape, NEW q \in Requests, NEW what, Writes(q, what)
  PROVE  /\ Shape' /\ tasks' = tasks /\ acts' = acts /\ request'[q] = NoRequest
         /\ crossed' = IF request[q].overtaken THEN crossed \union what ELSE crossed
         /\ \A p \in Requests \ {q} :
              /\ Stays(p) /\ Marked(p, what) /\ (request'[p] = NoRequest <=> request[p] = NoRequest)
         /\ Touches({})
<1>1. /\ request' = [Overtakes(what) EXCEPT ![q] = NoRequest] /\ tasks' = tasks /\ acts' = acts
      /\ crossed' = IF request[q].overtaken THEN crossed \union what ELSE crossed
  BY DEF Writes
<1>2. request' = [ p \in Requests |-> request'[p] ] /\ request'[q] = NoRequest
  BY <1>1 DEF Overtakes
<1>3. \A p \in Requests \ {q} : request'[p] = Overtakes(what)[p]
  BY <1>1 DEF Overtakes
<1>4. \A p \in Requests \ {q} :
        /\ Shaped(request[p])' /\ Stays(p) /\ Marked(p, what)
        /\ request'[p] = NoRequest <=> request[p] = NoRequest
  BY <1>1, <1>3, Overtaken
<1>5. Shaped(request[q])'
  BY <1>2 DEF Shaped
<1> QED
  BY <1>1, <1>2, <1>4, <1>5 DEF Shape, Touches

LEMMA SystemWritesSome ==
  ASSUME Shape, NEW what, SystemWrites(what)
  PROVE  /\ Shape' /\ tasks' = tasks /\ acts' = acts /\ crossed' = crossed
         /\ \A p \in Requests :
              /\ Stays(p) /\ Marked(p, what) /\ (request'[p] = NoRequest <=> request[p] = NoRequest)
         /\ Touches({})
<1>1. request' = Overtakes(what) /\ tasks' = tasks /\ acts' = acts /\ crossed' = crossed
  BY DEF SystemWrites
<1>2. request' = [ p \in Requests |-> request'[p] ] /\ \A p \in Requests : request'[p] = Overtakes(what)[p]
  BY <1>1 DEF Overtakes
<1>3. \A p \in Requests :
        /\ Shaped(request[p])' /\ Stays(p) /\ Marked(p, what)
        /\ request'[p] = NoRequest <=> request[p] = NoRequest
  BY <1>1, <1>2, Overtaken
<1> QED
  BY <1>1, <1>2, <1>3 DEF Shape, Touches

LEMMA GivesUpOne ==
  ASSUME Shape, NEW q \in Requests, GivesUp(q)
  PROVE  /\ Shape' /\ tasks' = tasks /\ acts' = acts /\ crossed' = crossed /\ request'[q] = NoRequest
         /\ \A p \in Requests \ {q} : request'[p] = request[p]
         /\ Touches({})
<1>1. /\ request' = [request EXCEPT ![q] = NoRequest]
      /\ tasks' = tasks /\ acts' = acts /\ crossed' = crossed
  BY DEF GivesUp
<1>2. /\ request' = [ p \in Requests |-> request'[p] ] /\ request'[q] = NoRequest
      /\ \A p \in Requests \ {q} : request'[p] = request[p]
  BY <1>1 DEF Shape
<1>3. \A p \in Requests : Shaped(request[p])'
  BY <1>1, <1>2 DEF Shape, Shaped
<1> QED
  BY <1>1, <1>2, <1>3 DEF Shape, Touches, Stays

\* What people are about to do does not change, and what was crossed stays so.
Lasts == tasks' = tasks /\ crossed \subseteq crossed'

\* Whatever leaves the requests where they are.
LEMMA AllStay ==
  ASSUME Shape, UNCHANGED deskVars
  PROVE  Shape' /\ Lasts /\ Touches({})
  BY DEF Shape, Shaped, Touches, Stays, deskVars, Lasts

LEMMA ActsStay ==
  ASSUME Shape, NEW what, Acts(what), request' = request
  PROVE  Shape' /\ Lasts /\ Touches({})
  BY DEF Shape, Shaped, Touches, Stays, Acts, Lasts

LEMMA TouchesMore ==
  ASSUME NEW some, NEW more, some \subseteq more, Touches(some)
  PROVE  Touches(more)
  BY DEF Touches

\* What a desk does with the requests: it opens, reads, writes or gives up.
LEMMA OpensAny ==
  ASSUME Shape, NEW some, NEW q, NEW what \in some, what # "nothing", NEW about, NEW arg, NEW saw,
         Opens(q, what, about, arg, saw)
  PROVE  Shape' /\ Lasts /\ Touches(some)
<1>1. Shape' /\ Lasts /\ Touches({what})
  BY OpensOne DEF Lasts
<1>2. {what} \subseteq some
  OBVIOUS
<1> QED
  BY <1>1, <1>2, TouchesMore

LEMMA ReadsAny ==
  ASSUME Shape, NEW some, NEW q \in Requests, request[q].doing \in some, request[q].doing # "nothing",
         NEW saw, Reads(q, saw)
  PROVE  Shape' /\ Lasts /\ Touches(some)
<1>1. Shape' /\ Lasts /\ Touches({request[q].doing})
  BY ReadsOne, NothingIsOpen DEF Lasts
<1>2. {request[q].doing} \subseteq some
  OBVIOUS
<1> QED
  BY <1>1, <1>2, TouchesMore

LEMMA EndsAny ==
  ASSUME Shape, NEW some, NEW q \in Requests, NEW what, Writes(q, what) \/ GivesUp(q)
  PROVE  Shape' /\ Lasts /\ Touches(some)
<1>1. Shape' /\ Lasts /\ Touches({})
  BY WritesOne, GivesUpOne DEF Lasts
<1> QED
  BY <1>1, TouchesMore

----------------------------------------------------------------------------
(* The desks, each with what it does.                                       *)

TeamTasks == {"sign in", "accept"} \union Manages

LEMMA TeamDesk ==
  ASSUME Shape, TeamStep
  PROVE  Shape' /\ Lasts /\ Touches(TeamTasks)
<1> DEFINE Goal == Shape' /\ Lasts /\ Touches(TeamTasks)
<1>0. "sign in" \in TeamTasks /\ "accept" \in TeamTasks /\ Manages \subseteq TeamTasks /\ "nothing" \notin TeamTasks
  BY DEF TeamTasks, Manages
<1>1. ASSUME NEW q \in Requests, NEW what, Writes(q, what) \/ GivesUp(q) PROVE Goal
  BY <1>1, EndsAny
<1>2. ASSUME Touches({}) PROVE Touches(TeamTasks)
  BY <1>2, TouchesMore
<1>3. ASSUME NEW q \in Starting("sign in"), NEW a \in Admins, SignInOpens(q, a) PROVE Goal
  BY <1>0, <1>3, OpensAny DEF SignInOpens
<1>4. ASSUME NEW q \in Starting("accept"), NEW a \in Admins, AcceptOpens(q, a) PROVE Goal
  BY <1>0, <1>4, OpensAny DEF AcceptOpens
<1>5. ASSUME NEW i \in DOMAIN session, EntersCode(i) \/ Enrols(i) \/ Leaves(i) PROVE Goal
  BY <1>2, <1>5, ActsStay DEF EntersCode, Enrols, Leaves
<1>6. ASSUME NEW what \in Manages, NEW q \in Starting(what), NEW i \in DOMAIN session, NEW b \in Admins,
             NEW role, Enters(q, i, what, b, role)
      PROVE  Goal
  BY <1>0, <1>6, OpensAny DEF Enters
<1>7. ASSUME NEW q \in Requests, SignInCommits(q) \/ AcceptCommits(q) \/ Manage(q) PROVE Goal
  BY <1>1, <1>7 DEF SignInCommits, AcceptCommits, Manage
<1>8. ASSUME NEW q \in Requests, Checks(q) PROVE Goal
  <2>1. request[q].doing \in TeamTasks
    BY <1>0, <1>8 DEF Checks
  <2>2. CASE Reads(q, admin[request[q].arg.on])
    BY <1>0, <2>1, <2>2, ReadsAny
  <2>3. CASE GivesUp(q)
    BY <1>1, <2>3
  <2> QED
    BY <1>8, <2>2, <2>3 DEF Checks
<1> QED
  BY <1>3, <1>4, <1>5, <1>6, <1>7, <1>8 DEF TeamStep

LEMMA TenancyDesk ==
  ASSUME Shape, TenancyStep
  PROVE  Shape' /\ Lasts /\ Touches(Operations)
<1>1. "nothing" \notin Operations
  BY DEF Operations
<1>2. ASSUME NEW what \in Operations, NEW q \in Starting(what), NEW a \in Admins, NEW w \in Workspaces,
             DoOpens(q, a, what, w)
      PROVE  Shape' /\ Lasts /\ Touches(Operations)
  BY <1>1, <1>2, OpensAny DEF DoOpens
<1>3. ASSUME NEW q \in Requests, Do(q)
      PROVE  Shape' /\ Lasts /\ Touches(Operations)
  BY <1>3, EndsAny DEF Do
<1> QED
  BY <1>2, <1>3 DEF TenancyStep

CouponTasks == {"move", "caps", "redeem"}

LEMMA CouponDesk ==
  ASSUME Shape, CouponStep
  PROVE  Shape' /\ Lasts /\ Touches(CouponTasks)
<1> DEFINE Goal == Shape' /\ Lasts /\ Touches(CouponTasks)
<1>0. "move" \in CouponTasks /\ "caps" \in CouponTasks /\ "redeem" \in CouponTasks
  BY DEF CouponTasks
<1>1. ASSUME NEW q \in Requests, NEW what, Writes(q, what) \/ GivesUp(q) PROVE Goal
  BY <1>1, EndsAny
<1>2. ASSUME NEW c \in Coupon, Creates(c) PROVE Goal
  BY <1>2, ActsStay, TouchesMore DEF Creates
<1>3. ASSUME NEW q, NEW c \in Coupon, NEW to, MoveOpens(q, c, to) PROVE Goal
  BY <1>0, <1>3, OpensAny DEF MoveOpens
<1>4. ASSUME NEW q, NEW c \in Coupon, NEW cap \in Caps, NEW expiry, CapsOpens(q, c, cap, expiry) PROVE Goal
  BY <1>0, <1>4, OpensAny DEF CapsOpens
<1>5. ASSUME NEW q, NEW w \in Workspaces, NEW c \in Coupon, RedeemOpens(q, w, c) PROVE Goal
  BY <1>0, <1>5, OpensAny DEF RedeemOpens
<1>6. ASSUME NEW q \in Requests, Move(q) \/ EditCaps(q) \/ Redeem(q) PROVE Goal
  BY <1>1, <1>6 DEF Move, EditCaps, Redeem
<1> QED
  BY <1>2, <1>3, <1>4, <1>5, <1>6 DEF CouponStep

\* The refund reads what it takes back, and stays overtaken if it was.
LEMMA RefundReadsOne ==
  ASSUME Shape, NEW q \in Requests, RefundReads(q)
  PROVE  /\ Shape' /\ tasks' = tasks /\ crossed' = crossed
         /\ request'[q].doing = "refund" /\ request'[q].about = request[q].about /\ request'[q].arg = request[q].arg
         /\ request'[q].saw = [ extra |-> extra[pay[request[q].arg].on] ]
         /\ request'[q].overtaken = request[q].overtaken
         /\ \A p \in Requests \ {q} : request'[p] = request[p]
         /\ Touches({"refund"})
<1>1. PICK r : r = request[q]
  OBVIOUS
<1>2. PICK saw : saw = [ extra |-> extra[pay[request[q].arg].on] ]
  OBVIOUS
<1>3. /\ r = [ doing |-> r.doing, about |-> r.about, arg |-> r.arg, saw |-> r.saw, overtaken |-> r.overtaken ]
      /\ r.doing = "refund" /\ r.doing \in tasks /\ r.overtaken \in BOOLEAN
  BY <1>1, NothingIsOpen DEF Shape, Shaped, RefundReads, Doing
<1>4. PICK t : t = [ doing |-> r.doing, about |-> r.about, arg |-> r.arg, saw |-> saw, overtaken |-> r.overtaken ]
  OBVIOUS
<1>5. [r EXCEPT !.saw = saw] = t
  BY <1>3, <1>4
<1>6. request' = [request EXCEPT ![q] = [request[q] EXCEPT !.saw = saw]]
  BY <1>2 DEF RefundReads
<1>7. request' = [request EXCEPT ![q] = t] /\ tasks' = tasks /\ crossed' = crossed /\ acts' = acts
  BY <1>1, <1>5, <1>6 DEF RefundReads
<1>8. /\ t.doing = r.doing /\ t.about = r.about /\ t.arg = r.arg /\ t.saw = saw /\ t.overtaken = r.overtaken
      /\ t = [ doing |-> t.doing, about |-> t.about, arg |-> t.arg, saw |-> t.saw, overtaken |-> t.overtaken ]
  BY <1>4
<1>9. /\ request'[q] = t /\ request' = [ p \in Requests |-> request'[p] ]
      /\ \A p \in Requests \ {q} : request'[p] = request[p]
  BY <1>7 DEF Shape
<1>10. \A p \in Requests : Shaped(request[p])'
  BY <1>3, <1>7, <1>8, <1>9 DEF Shape, Shaped
<1>11. Touches({"refund"})
  BY <1>3, <1>8, <1>9 DEF Touches, Stays
<1> QED
  BY <1>1, <1>2, <1>3, <1>7, <1>8, <1>9, <1>10, <1>11 DEF Shape

LedgerTasks == {"fail", "charge", "grant", "refund", "retry"}

LEMMA LedgerDesk ==
  ASSUME Shape, LedgerStep
  PROVE  Shape' /\ Lasts /\ Touches(LedgerTasks)
<1> DEFINE Goal == Shape' /\ Lasts /\ Touches(LedgerTasks)
<1>0. /\ "fail" \in LedgerTasks /\ "charge" \in LedgerTasks /\ "grant" \in LedgerTasks
      /\ "refund" \in LedgerTasks /\ "retry" \in LedgerTasks
  BY DEF LedgerTasks
<1>1. ASSUME NEW q \in Requests, NEW what, Writes(q, what) \/ GivesUp(q) PROVE Goal
  BY <1>1, EndsAny
<1>2. ASSUME NEW q, NEW w \in Workspaces, NEW retries, FailOpens(q, w, retries) PROVE Goal
  BY <1>0, <1>2, OpensAny DEF FailOpens
<1>3. ASSUME NEW q, NEW w \in Workspaces, ChargeOpens(q, w) PROVE Goal
  BY <1>0, <1>3, OpensAny DEF ChargeOpens
<1>4. ASSUME NEW q, NEW w \in Workspaces, NEW kind, GrantOpens(q, w, kind) PROVE Goal
  BY <1>0, <1>4, OpensAny DEF GrantOpens
<1>5. ASSUME NEW q, NEW p, RefundOpens(q, p) PROVE Goal
  BY <1>0, <1>5, OpensAny DEF RefundOpens
<1>6. ASSUME NEW q, NEW p, NEW retries, RetryOpens(q, p, retries) PROVE Goal
  BY <1>0, <1>6, OpensAny DEF RetryOpens
<1>7. ASSUME NEW q \in Requests, RefundReads(q) PROVE Goal
  <2>1. Shape' /\ Lasts /\ Touches({"refund"})
    BY <1>7, RefundReadsOne DEF Lasts
  <2>2. {"refund"} \subseteq LedgerTasks
    BY <1>0
  <2> QED
    BY <2>1, <2>2, TouchesMore
<1>8. ASSUME NEW q \in Requests, Fail(q) \/ Charge(q) \/ ChargeFails(q) \/ Grant(q) \/ Refund(q) \/ Retry(q) PROVE Goal
  BY <1>1, <1>8 DEF Fail, Charge, ChargeFails, Grant, Refund, Retry
<1> QED
  BY <1>2, <1>3, <1>4, <1>5, <1>6, <1>7, <1>8 DEF LedgerStep

MembersTasks == {"join", "found", "add", "send in", "promote", "transfer", "part"}

LEMMA MembersDesk ==
  ASSUME Shape, MembersStep
  PROVE  Shape' /\ Lasts /\ Touches(MembersTasks)
<1> DEFINE Goal == Shape' /\ Lasts /\ Touches(MembersTasks)
<1>0. /\ "join" \in MembersTasks /\ "found" \in MembersTasks /\ "add" \in MembersTasks /\ "send in" \in MembersTasks
      /\ "promote" \in MembersTasks /\ "transfer" \in MembersTasks /\ "part" \in MembersTasks
  BY DEF MembersTasks
<1>1. ASSUME NEW q \in Requests, NEW what, Writes(q, what) \/ GivesUp(q) PROVE Goal
  BY <1>1, EndsAny
<1>2. ASSUME NEW w \in Workspaces, NEW p \in People, NEW q, SignUpOpens(q, p, w) PROVE Goal
  BY <1>0, <1>2, OpensAny DEF SignUpOpens
<1>3. ASSUME NEW w \in Workspaces, NEW p \in People, NEW q, CreateOpens(q, p, w) PROVE Goal
  BY <1>0, <1>3, OpensAny DEF CreateOpens
<1>4. ASSUME NEW w \in Workspaces, NEW p \in People, NEW q, NEW role, AddOpens(q, w, p, role) PROVE Goal
  BY <1>0, <1>4, OpensAny DEF AddOpens
<1>5. ASSUME NEW w \in Workspaces, NEW p \in People, NEW q, SendInOpens(q, w, p) PROVE Goal
  BY <1>0, <1>5, OpensAny DEF SendInOpens
<1>6. ASSUME NEW w \in Workspaces, NEW p \in People, NEW q, NEW role, PromoteOpens(q, w, p, role) PROVE Goal
  BY <1>0, <1>6, OpensAny DEF PromoteOpens
<1>7. ASSUME NEW w \in Workspaces, NEW p \in People, NEW q, TransferOpens(q, w, p) PROVE Goal
  BY <1>0, <1>7, OpensAny DEF TransferOpens
<1>8. ASSUME NEW w \in Workspaces, NEW p \in People, NEW q, RemoveOpens(q, w, p) PROVE Goal
  BY <1>0, <1>8, OpensAny DEF RemoveOpens
<1>9. ASSUME NEW q \in Requests, Founds(q) \/ Add(q) \/ SendIn(q) \/ Promote(q) \/ Remove(q) PROVE Goal
  BY <1>1, <1>9 DEF Founds, Add, SendIn, Promote, Remove
<1>10. ASSUME NEW i \in DOMAIN login, Confirms(i) PROVE Goal
  BY <1>10, ActsStay, TouchesMore DEF Confirms
<1>11. ASSUME NEW i \in DOMAIN login, LoginGoes(i) PROVE Goal
  BY <1>11, AllStay, TouchesMore DEF LoginGoes
<1> QED
  BY <1>2, <1>3, <1>4, <1>5, <1>6, <1>7, <1>8, <1>9, <1>10, <1>11 DEF MembersStep

PublishingTasks == {"price", "discard", "pack", "unpack", "publish", "prompt", "activate"}

LEMMA PublishingDesk ==
  ASSUME Shape, PublishingStep
  PROVE  Shape' /\ Lasts /\ Touches(PublishingTasks)
<1> DEFINE Goal == Shape' /\ Lasts /\ Touches(PublishingTasks)
<1>0. /\ "price" \in PublishingTasks /\ "discard" \in PublishingTasks /\ "pack" \in PublishingTasks
      /\ "unpack" \in PublishingTasks /\ "publish" \in PublishingTasks /\ "prompt" \in PublishingTasks
      /\ "activate" \in PublishingTasks /\ "nothing" \notin PublishingTasks
  BY DEF PublishingTasks
<1>1. ASSUME NEW q \in Requests, NEW what, Writes(q, what) \/ GivesUp(q) PROVE Goal
  BY <1>1, EndsAny
<1>2. ASSUME NEW q, NEW price, PriceOpens(q, price) PROVE Goal
  BY <1>0, <1>2, OpensAny DEF PriceOpens
<1>3. ASSUME NEW q, NEW r, DiscardOpens(q, r) PROVE Goal
  BY <1>0, <1>3, OpensAny DEF DiscardOpens
<1>4. ASSUME NEW q, NEW r, NEW retires, PackOpens(q, r, retires) PROVE Goal
  BY <1>0, <1>4, OpensAny DEF PackOpens
<1>5. ASSUME NEW q, NEW r, UnpackOpens(q, r) PROVE Goal
  BY <1>0, <1>5, OpensAny DEF UnpackOpens
<1>6. ASSUME NEW q, PublishOpens(q) PROVE Goal
  BY <1>0, <1>6, OpensAny DEF PublishOpens
<1>7. ASSUME NEW q, NEW body, NEW goesLive, PromptOpens(q, body, goesLive) PROVE Goal
  BY <1>0, <1>7, OpensAny DEF PromptOpens
<1>8. ASSUME NEW q, NEW v, ActivateOpens(q, v) PROVE Goal
  BY <1>0, <1>8, OpensAny DEF ActivateOpens
<1>9. ASSUME NEW q \in Requests, Price(q) \/ Discard(q) \/ Pack(q) \/ Unpack(q) \/ Publish(q) \/ Prompt(q) \/ RollsBack(q)
      PROVE  Goal
  BY <1>1, <1>9 DEF Price, Discard, Pack, Unpack, Publish, Prompt, RollsBack
<1>10. ASSUME NEW q \in Requests, Snapshots(q) PROVE Goal
  <2>1. request[q].doing \in PublishingTasks
    BY <1>0, <1>10 DEF Snapshots
  <2> QED
    BY <1>0, <1>10, <2>1, ReadsAny DEF Snapshots
<1>11. CASE SignsUp
  BY <1>11, ActsStay, TouchesMore DEF SignsUp
<1> QED
  BY <1>2, <1>3, <1>4, <1>5, <1>6, <1>7, <1>8, <1>9, <1>10, <1>11 DEF PublishingStep

WebsiteTasks == {"save", "remove", "drop", "go live"}

LEMMA WebsiteDesk ==
  ASSUME Shape, WebsiteStep
  PROVE  Shape' /\ Lasts /\ Touches(WebsiteTasks)
<1> DEFINE Goal == Shape' /\ Lasts /\ Touches(WebsiteTasks)
<1>0. /\ "save" \in WebsiteTasks /\ "remove" \in WebsiteTasks /\ "drop" \in WebsiteTasks /\ "go live" \in WebsiteTasks
  BY DEF WebsiteTasks
<1>1. ASSUME NEW q \in Requests, NEW what, Writes(q, what) \/ GivesUp(q) PROVE Goal
  BY <1>1, EndsAny
<1>2. ASSUME NEW q, NEW e, NEW text, SaveOpens(q, e, text) PROVE Goal
  BY <1>0, <1>2, OpensAny DEF SaveOpens
<1>3. ASSUME NEW what \in {"remove", "drop"}, NEW q, NEW e, UnsaveOpens(q, e, what) PROVE Goal
  <2>1. what \in WebsiteTasks /\ what # "nothing"
    BY <1>0
  <2> QED
    BY <1>3, <2>1, OpensAny DEF UnsaveOpens
<1>4. ASSUME NEW q, GoesLiveOpens(q) PROVE Goal
  BY <1>0, <1>4, OpensAny DEF GoesLiveOpens
<1>5. ASSUME NEW q \in Requests, Save(q) \/ Unsave(q) \/ GoesLive(q) \/ WebsiteGivesUp(q) PROVE Goal
  BY <1>1, <1>5 DEF Save, Unsave, GoesLive, WebsiteGivesUp
<1>6. CASE Rebuilds
  BY <1>6, ActsStay, TouchesMore DEF Rebuilds
<1> QED
  BY <1>2, <1>3, <1>4, <1>5, <1>6 DEF WebsiteStep

\* What the machine does by itself, and a restart, open nothing.
LEMMA Unattended ==
  ASSUME Shape, (Builders /\ UNCHANGED deskVars) \/ Sweep \/ Restarts \/ Time
  PROVE  Shape' /\ Lasts /\ Touches({})
<1> DEFINE Goal == Shape' /\ Lasts /\ Touches({})
<1>1. CASE UNCHANGED deskVars
  BY <1>1, AllStay
<1>2. CASE SweepBegins
  BY <1>2, ActsStay DEF SweepBegins
<1>3. CASE SweepReads
  BY <1>1, <1>3 DEF SweepReads
<1>4. CASE SweepEnds
  BY <1>1, <1>4 DEF SweepEnds
<1>5. ASSUME NEW d, SweepsCoupon(d) PROVE Goal
  BY <1>5, SystemWritesSome DEF SweepsCoupon, Lasts
<1>6. ASSUME NEW w, Erases(w) PROVE Goal
  BY <1>6, SystemWritesSome DEF Erases, Lasts
<1>7. CASE Restarts
  <2>1. request' = [ q \in Requests |-> IF request[q].doing \in InPortal THEN request[q] ELSE NoRequest ]
    BY <1>7 DEF Restarts
  <2>2. tasks' = tasks /\ acts' \in Nat /\ crossed' = crossed
    BY <1>7 DEF Restarts, Acts, Shape
  <2>3. /\ request' = [ q \in Requests |-> request'[q] ]
        /\ \A q \in Requests : request'[q] = request[q] \/ request'[q] = NoRequest
    BY <2>1
  <2>4. \A q \in Requests : Shaped(request[q])'
    BY <2>2, <2>3 DEF Shape, Shaped
  <2> QED
    BY <2>2, <2>3, <2>4 DEF Shape, Touches, Stays, Lasts
<1>8. CASE Time
  BY <1>1, <1>8 DEF Time
<1>9. CASE Sweep
  BY <1>2, <1>3, <1>4, <1>5, <1>6, <1>9 DEF Sweep
<1> QED
  BY <1>1, <1>7, <1>8, <1>9

\* The requests keep their shape.
LEMMA ShapeHolds ==
  ASSUME Shape, [Next]_vars
  PROVE  Shape' /\ Lasts
<1>1. CASE TenancyStep \/ CouponStep \/ LedgerStep \/ MembersStep
  BY <1>1, TenancyDesk, CouponDesk, LedgerDesk, MembersDesk
<1>2. CASE TeamStep \/ PublishingStep \/ WebsiteStep
  BY <1>2, TeamDesk, PublishingDesk, WebsiteDesk
<1>3. CASE (Builders /\ UNCHANGED deskVars) \/ Sweep \/ Restarts \/ Time
  BY <1>3, Unattended
<1>4. CASE UNCHANGED vars
  BY <1>4, AllStay DEF vars, deskVars
<1> QED
  BY <1>1, <1>2, <1>3, <1>4 DEF Next, Money

LEMMA ShapeAtFirst == Init => Shape
<1> SUFFICES ASSUME Init PROVE Shape
  OBVIOUS
<1>1. request = [ q \in Requests |-> NoRequest ] /\ acts \in Nat
  BY PanelAssumption DEF Init, DeskInit
<1>2. request = [ q \in Requests |-> request[q] ] /\ \A q \in Requests : request[q] = NoRequest
  BY <1>1
<1> QED
  BY <1>1, <1>2 DEF Shape, Shaped

----------------------------------------------------------------------------
(* The team: whoever is put out stays out, and an Owner remains.            *)

SessionSet ==
  [ of : Admins, stage : {"awaiting_code", "active"}, ended : BOOLEAN, era : Nat, raced : BOOLEAN ]

AdminRow(row) ==
  /\ row = [ role |-> row.role, active |-> row.active, password |-> row.password,
             twoStep |-> row.twoStep, invited |-> row.invited, era |-> row.era ]
  /\ row.role \in Roles \union {"none"} /\ row.active \in BOOLEAN /\ row.era \in Nat

\* What a request may rely on that was not overtaken since it read.
TeamRequest(r) ==
  /\ r.doing \in {"sign in", "accept"} =>
       /\ r.about = {r.arg} /\ r.arg \in Admins /\ r.saw.era \in Nat
       /\ r.overtaken \/ r.saw.era = admin[r.arg].era
  /\ r.doing \in Manages =>
       /\ r.about = {r.arg.on, "owners"} /\ r.arg.on \in Admins /\ r.arg.role \in Roles
       /\ (r.saw # NoRequest /\ ~r.overtaken) =>
            /\ (Demotes(r.doing, r.arg.role) /\ r.arg.on \in Owners) => Owners \ {r.arg.on} # {}
            /\ r.doing = "invite" => r.arg.on \notin Owners

TeamRows ==
  /\ admin = [ a \in Admins |-> admin[a] ] /\ \A a \in Admins : AdminRow(admin[a])
  /\ session \in Seq(SessionSet)

Fresh ==
  \A i \in DOMAIN session : (~session[i].ended /\ ~session[i].raced) => session[i].era = admin[session[i].of].era

TeamInv ==
  /\ TeamRows /\ Fresh
  /\ \A q \in Requests : TeamRequest(request[q])

\* The team is left alone.
LEMMA TeamAside ==
  ASSUME TeamInv, Shape, Shape', NEW some, Touches(some), some \cap TeamTasks = {}, UNCHANGED teamVars
  PROVE  TeamInv'
<1>1. TeamRows' /\ Fresh' /\ Owners' = Owners /\ admin' = admin
  BY DEF TeamInv, TeamRows, Fresh, teamVars, Owners, AdminRow
<1>2. ASSUME NEW q \in Requests PROVE TeamRequest(request[q])'
  <2>1. CASE request'[q] = NoRequest
    BY <2>1, NothingIsOpen DEF TeamRequest, Manages
  <2>2. CASE request'[q].doing \in some
    <3>1. request'[q].doing \notin {"sign in", "accept"} \union Manages
      BY <2>2 DEF TeamTasks
    <3> QED
      BY <3>1 DEF TeamRequest
  <2>3. CASE Stays(q)
    <3>1. TeamRequest(request[q])
      BY DEF TeamInv
    <3> QED
      BY <1>1, <2>3, <3>1 DEF TeamRequest, Stays
  <2> QED
    BY <2>1, <2>2, <2>3 DEF Touches
<1> QED
  BY <1>1, <1>2 DEF TeamInv

\* A request has written: the others were overtaken, or what they rely on stands.
LEMMA TeamRequestsHold ==
  ASSUME \A p \in Requests : TeamRequest(request[p]), Shape,
         NEW q \in Requests, request'[q] = NoRequest, NEW what,
         \A p \in Requests \ {q} : Stays(p) /\ Marked(p, what),
         \A a \in Admins \ what : admin'[a].era = admin[a].era /\ (a \in Owners' <=> a \in Owners),
         "owners" \notin what => Owners \subseteq Owners'
  PROVE  \A p \in Requests : TeamRequest(request[p])'
<1> SUFFICES ASSUME NEW p \in Requests PROVE TeamRequest(request[p])'
  OBVIOUS
<1>1. CASE request'[p] = NoRequest
  BY <1>1, NothingIsOpen DEF TeamRequest, Manages
<1>2. CASE request[p] = NoRequest /\ p # q
  <2>1. request'[p].doing = "nothing"
    BY <1>2, NothingIsOpen DEF Stays
  <2> QED
    BY <2>1 DEF TeamRequest, Manages
<1>3. CASE request[p] # NoRequest /\ p # q
  <2>1. /\ request'[p].doing = request[p].doing /\ request'[p].about = request[p].about
        /\ request'[p].arg = request[p].arg /\ request'[p].saw = request[p].saw
        /\ request'[p].overtaken <=> (request[p].overtaken \/ request[p].about \cap what # {})
    BY <1>3 DEF Stays, Marked
  <2>2. TeamRequest(request[p])
    OBVIOUS
  <2>3. ASSUME request[p].doing \in {"sign in", "accept"}
        PROVE  /\ request'[p].about = {request'[p].arg} /\ request'[p].arg \in Admins /\ request'[p].saw.era \in Nat
               /\ request'[p].overtaken \/ request'[p].saw.era = admin'[request'[p].arg].era
    BY <2>1, <2>2, <2>3, ZenonT(60) DEF TeamRequest
  <2>4. ASSUME request[p].doing \in Manages
        PROVE  /\ request'[p].about = {request'[p].arg.on, "owners"}
               /\ request'[p].arg.on \in Admins /\ request'[p].arg.role \in Roles
               /\ (request'[p].saw # NoRequest /\ ~request'[p].overtaken) =>
                    /\ (Demotes(request'[p].doing, request'[p].arg.role) /\ request'[p].arg.on \in Owners') =>
                         Owners' \ {request'[p].arg.on} # {}
                    /\ request'[p].doing = "invite" => request'[p].arg.on \notin Owners'
    <3>1. PICK on, role, doing : on = request[p].arg.on /\ role = request[p].arg.role /\ doing = request[p].doing
      OBVIOUS
    <3>2. /\ request[p].about = {on, "owners"} /\ on \in Admins /\ role \in Roles
          /\ (request[p].saw # NoRequest /\ ~request[p].overtaken) =>
               /\ (Demotes(doing, role) /\ on \in Owners) => Owners \ {on} # {}
               /\ doing = "invite" => on \notin Owners
      BY <2>2, <2>4, <3>1 DEF TeamRequest
    <3>3. /\ request'[p].about = {on, "owners"} /\ request'[p].arg.on = on /\ request'[p].arg.role = role
          /\ request'[p].doing = doing /\ request'[p].saw = request[p].saw
      BY <2>1, <3>1, <3>2
    <3>4. ASSUME request'[p].saw # NoRequest, ~request'[p].overtaken
          PROVE  /\ (Demotes(doing, role) /\ on \in Owners') => Owners' \ {on} # {}
                 /\ doing = "invite" => on \notin Owners'
      <4>1. ~request[p].overtaken /\ on \notin what /\ "owners" \notin what /\ request[p].saw # NoRequest
        BY <2>1, <3>2, <3>4
      <4> QED
        BY <3>2, <4>1
    <3> QED
      BY <3>2, <3>3, <3>4
  <2> QED
    BY <2>1, <2>3, <2>4 DEF TeamRequest
<1> QED
  BY <1>1, <1>2, <1>3

\* A row of the team is rewritten.
LEMMA AdminRewritten ==
  ASSUME TeamRows, NEW b \in Admins, NEW row, AdminRow(row), admin' = [admin EXCEPT ![b] = row]
  PROVE  /\ admin' = [ a \in Admins |-> admin'[a] ] /\ \A a \in Admins : AdminRow(admin'[a])
         /\ admin'[b] = row /\ \A a \in Admins \ {b} : admin'[a] = admin[a] /\ (a \in Owners' <=> a \in Owners)
         /\ b \in Owners' <=> (row.role = "owner" /\ row.active)
<1>1. /\ admin'[b] = row /\ \A a \in Admins \ {b} : admin'[a] = admin[a]
      /\ admin' = [ a \in Admins |-> admin'[a] ]
  BY DEF TeamRows
<1> QED
  BY <1>1 DEF TeamRows, Owners

\* What managing makes of a row.
LEMMA ManagedRow ==
  ASSUME NEW row, AdminRow(row), NEW what \in Manages, NEW role \in Roles
  PROVE  /\ AdminRow(Managed(what, row, role))
         /\ Managed(what, row, role).era = IF Expels(what) THEN row.era + 1 ELSE row.era
         /\ Managed(what, row, role).role = IF what \in {"invite", "role"} THEN role ELSE row.role
         /\ Managed(what, row, role).active <=>
              (what \in {"invite", "reactivate"} \/ (row.active /\ what # "deactivate"))
<1> DEFINE Made(ro, ac, pa, tw, inv, er) ==
      [ role |-> ro, active |-> ac, password |-> pa, twoStep |-> tw, invited |-> inv, era |-> er ]
<1> HIDE DEF Made
<1>0. PICK yes \in BOOLEAN, no \in BOOLEAN : yes = TRUE /\ no = FALSE
  OBVIOUS
<1>1. PICK ro, ac, pa, tw, inv, er, next :
        /\ ro = row.role /\ ac = row.active /\ pa = row.password /\ tw = row.twoStep /\ inv = row.invited
        /\ er = row.era /\ next = er + 1
  OBVIOUS
<1>2. /\ row = Made(ro, ac, pa, tw, inv, er) /\ ro \in Roles \union {"none"} /\ ac \in BOOLEAN
      /\ er \in Nat /\ next \in Nat
  BY <1>1 DEF AdminRow, Made
<1>3. PICK m : m = Managed(what, row, role)
  OBVIOUS
<1>4. CASE what = "invite"
  <2>1. m = [row EXCEPT !.role = role, !.active = yes, !.password = no, !.twoStep = no, !.invited = yes]
    BY <1>0, <1>1, <1>2, <1>3, <1>4 DEF Managed
  <2>2. PICK m1 : m1 = Made(role, ac, pa, tw, inv, er)
    OBVIOUS
  <2>3. [row EXCEPT !.role = role] = m1
    BY <1>2, <2>2 DEF Made
  <2>4. PICK m2 : m2 = Made(role, yes, pa, tw, inv, er)
    OBVIOUS
  <2>5. [m1 EXCEPT !.active = yes] = m2
    BY <2>2, <2>4 DEF Made
  <2>6. [row EXCEPT !.role = role, !.active = yes] = m2
    BY <2>3, <2>5
  <2>7. PICK m3 : m3 = Made(role, yes, no, tw, inv, er)
    OBVIOUS
  <2>8. [m2 EXCEPT !.password = no] = m3
    BY <2>4, <2>7 DEF Made
  <2>9. [row EXCEPT !.role = role, !.active = yes, !.password = no] = m3
    BY <2>6, <2>8
  <2>10. PICK m4 : m4 = Made(role, yes, no, no, inv, er)
    OBVIOUS
  <2>11. [m3 EXCEPT !.twoStep = no] = m4
    BY <2>7, <2>10 DEF Made
  <2>12. [row EXCEPT !.role = role, !.active = yes, !.password = no, !.twoStep = no] = m4
    BY <2>9, <2>11
  <2>13. PICK m5 : m5 = Made(role, yes, no, no, yes, er)
    OBVIOUS
  <2>14. [m4 EXCEPT !.invited = yes] = m5
    BY <2>10, <2>13 DEF Made
  <2>15. [row EXCEPT !.role = role, !.active = yes, !.password = no, !.twoStep = no, !.invited = yes] = m5
    BY <2>12, <2>14
  <2>16. m = Made(role, yes, no, no, yes, er)
    BY <2>1, <2>15, <2>13
  <2>17. /\ m.role = role /\ m.active = yes /\ m.password = no /\ m.twoStep = no
        /\ m.invited = yes /\ m.era = er
    BY <2>16 DEF Made
  <2>18. AdminRow(m)
    BY <1>0, <1>2, <2>16, <2>17 DEF AdminRow, Made
  <2> QED
    BY <1>0, <1>1, <1>3, <1>4, <2>17, <2>18 DEF Expels
<1>5. CASE what = "role"
  <2>1. m = [row EXCEPT !.role = role]
    BY <1>0, <1>1, <1>2, <1>3, <1>5 DEF Managed
  <2>2. PICK m1 : m1 = Made(role, ac, pa, tw, inv, er)
    OBVIOUS
  <2>3. [row EXCEPT !.role = role] = m1
    BY <1>2, <2>2 DEF Made
  <2>4. m = Made(role, ac, pa, tw, inv, er)
    BY <2>1, <2>3, <2>2
  <2>5. /\ m.role = role /\ m.active = ac /\ m.password = pa /\ m.twoStep = tw
        /\ m.invited = inv /\ m.era = er
    BY <2>4 DEF Made
  <2>6. AdminRow(m)
    BY <1>0, <1>2, <2>4, <2>5 DEF AdminRow, Made
  <2> QED
    BY <1>0, <1>1, <1>3, <1>5, <2>5, <2>6 DEF Expels
<1>6. CASE what = "deactivate"
  <2>1. m = [row EXCEPT !.active = no, !.invited = no, !.era = next]
    BY <1>0, <1>1, <1>2, <1>3, <1>6 DEF Managed
  <2>2. PICK m1 : m1 = Made(ro, no, pa, tw, inv, er)
    OBVIOUS
  <2>3. [row EXCEPT !.active = no] = m1
    BY <1>2, <2>2 DEF Made
  <2>4. PICK m2 : m2 = Made(ro, no, pa, tw, no, er)
    OBVIOUS
  <2>5. [m1 EXCEPT !.invited = no] = m2
    BY <2>2, <2>4 DEF Made
  <2>6. [row EXCEPT !.active = no, !.invited = no] = m2
    BY <2>3, <2>5
  <2>7. PICK m3 : m3 = Made(ro, no, pa, tw, no, next)
    OBVIOUS
  <2>8. [m2 EXCEPT !.era = next] = m3
    BY <2>4, <2>7 DEF Made
  <2>9. [row EXCEPT !.active = no, !.invited = no, !.era = next] = m3
    BY <2>6, <2>8
  <2>10. m = Made(ro, no, pa, tw, no, next)
    BY <2>1, <2>9, <2>7
  <2>11. /\ m.role = ro /\ m.active = no /\ m.password = pa /\ m.twoStep = tw
        /\ m.invited = no /\ m.era = next
    BY <2>10 DEF Made
  <2>12. AdminRow(m)
    BY <1>0, <1>2, <2>10, <2>11 DEF AdminRow, Made
  <2> QED
    BY <1>0, <1>1, <1>3, <1>6, <2>11, <2>12 DEF Expels
<1>7. CASE what = "reactivate"
  <2>1. m = [row EXCEPT !.active = yes]
    BY <1>0, <1>1, <1>2, <1>3, <1>7 DEF Managed
  <2>2. PICK m1 : m1 = Made(ro, yes, pa, tw, inv, er)
    OBVIOUS
  <2>3. [row EXCEPT !.active = yes] = m1
    BY <1>2, <2>2 DEF Made
  <2>4. m = Made(ro, yes, pa, tw, inv, er)
    BY <2>1, <2>3, <2>2
  <2>5. /\ m.role = ro /\ m.active = yes /\ m.password = pa /\ m.twoStep = tw
        /\ m.invited = inv /\ m.era = er
    BY <2>4 DEF Made
  <2>6. AdminRow(m)
    BY <1>0, <1>2, <2>4, <2>5 DEF AdminRow, Made
  <2> QED
    BY <1>0, <1>1, <1>3, <1>7, <2>5, <2>6 DEF Expels
<1>8. CASE what = "reset"
  <2>1. m = [row EXCEPT !.twoStep = no, !.era = next]
    BY <1>0, <1>1, <1>2, <1>3, <1>8 DEF Managed
  <2>2. PICK m1 : m1 = Made(ro, ac, pa, no, inv, er)
    OBVIOUS
  <2>3. [row EXCEPT !.twoStep = no] = m1
    BY <1>2, <2>2 DEF Made
  <2>4. PICK m2 : m2 = Made(ro, ac, pa, no, inv, next)
    OBVIOUS
  <2>5. [m1 EXCEPT !.era = next] = m2
    BY <2>2, <2>4 DEF Made
  <2>6. [row EXCEPT !.twoStep = no, !.era = next] = m2
    BY <2>3, <2>5
  <2>7. m = Made(ro, ac, pa, no, inv, next)
    BY <2>1, <2>6, <2>4
  <2>8. /\ m.role = ro /\ m.active = ac /\ m.password = pa /\ m.twoStep = no
        /\ m.invited = inv /\ m.era = next
    BY <2>7 DEF Made
  <2>9. AdminRow(m)
    BY <1>0, <1>2, <2>7, <2>8 DEF AdminRow, Made
  <2> QED
    BY <1>0, <1>1, <1>3, <1>8, <2>8, <2>9 DEF Expels
<1>9. CASE what = "resend"
  <2>1. m = [row EXCEPT !.invited = yes]
    BY <1>0, <1>1, <1>2, <1>3, <1>9 DEF Managed
  <2>2. PICK m1 : m1 = Made(ro, ac, pa, tw, yes, er)
    OBVIOUS
  <2>3. [row EXCEPT !.invited = yes] = m1
    BY <1>2, <2>2 DEF Made
  <2>4. m = Made(ro, ac, pa, tw, yes, er)
    BY <2>1, <2>3, <2>2
  <2>5. /\ m.role = ro /\ m.active = ac /\ m.password = pa /\ m.twoStep = tw
        /\ m.invited = yes /\ m.era = er
    BY <2>4 DEF Made
  <2>6. AdminRow(m)
    BY <1>0, <1>2, <2>4, <2>5 DEF AdminRow, Made
  <2> QED
    BY <1>0, <1>1, <1>3, <1>9, <2>5, <2>6 DEF Expels
<1> QED
  BY <1>4, <1>5, <1>6, <1>7, <1>8, <1>9 DEF Manages

LEMMA MapsASequence ==
  ASSUME NEW S, NEW s \in Seq(S), NEW t, t = [ i \in DOMAIN s |-> t[i] ], \A i \in DOMAIN s : t[i] \in S
  PROVE  t \in Seq(S) /\ DOMAIN t = DOMAIN s /\ Len(t) = Len(s)
<1>1. DOMAIN s = 1..Len(s) /\ Len(s) \in Nat
  OBVIOUS
<1>2. t \in [ 1..Len(s) -> S ]
  BY <1>1
<1>3. t \in Seq(S)
  BY <1>1, <1>2
<1> QED
  BY <1>1, <1>2, <1>3

LEMMA SessionEnds ==
  ASSUME NEW s \in SessionSet
  PROVE  /\ [s EXCEPT !.ended = TRUE] \in SessionSet /\ [s EXCEPT !.ended = TRUE].ended
         /\ [s EXCEPT !.ended = TRUE].of = s.of
<1>1. PICK yes \in BOOLEAN : yes = TRUE
  OBVIOUS
<1>2. PICK t : t = [s EXCEPT !.ended = yes]
  OBVIOUS
<1>3. t \in SessionSet
  BY <1>2 DEF SessionSet
<1>4. t.ended = yes /\ t.of = s.of
  BY <1>2 DEF SessionSet
<1> QED
  BY <1>1, <1>2, <1>3, <1>4

LEMMA SessionStages ==
  ASSUME NEW s \in SessionSet, NEW stage \in {"awaiting_code", "active"}
  PROVE  /\ [s EXCEPT !.stage = stage] \in SessionSet /\ [s EXCEPT !.stage = stage].of = s.of
         /\ [s EXCEPT !.stage = stage].ended = s.ended /\ [s EXCEPT !.stage = stage].era = s.era
         /\ [s EXCEPT !.stage = stage].raced = s.raced
  BY DEF SessionSet

\* A session begins, with the era that was read.
LEMMA SessionBegins ==
  ASSUME TeamRows, Fresh, NEW a \in Admins, NEW stage \in {"awaiting_code", "active"}, NEW era \in Nat,
         NEW raced \in BOOLEAN, raced \/ era = admin[a].era,
         session' = Append(session, NewSession(a, stage, era, raced)),
         \A b \in Admins : admin'[b].era = admin[b].era
  PROVE  session' \in Seq(SessionSet) /\ Fresh'
<1>1. PICK no \in BOOLEAN : no = FALSE
  OBVIOUS
<1>2. PICK s : s = [ of |-> a, stage |-> stage, ended |-> no, era |-> era, raced |-> raced ]
  OBVIOUS
<1>3. s \in SessionSet
  BY <1>2 DEF SessionSet
<1>4. s.of = a /\ s.era = era /\ s.raced = raced
  BY <1>2
<1>5. session' = Append(session, s)
  BY <1>1, <1>2 DEF NewSession
<1>6. /\ session' \in Seq(SessionSet) /\ session \in Seq(SessionSet) /\ DOMAIN session' = 1..Len(session) + 1
      /\ DOMAIN session = 1..Len(session) /\ Len(session) \in Nat
      /\ session'[Len(session) + 1] = s /\ \A i \in DOMAIN session : session'[i] = session[i]
  BY <1>3, <1>5 DEF TeamRows
<1>7. \A i \in DOMAIN session : session[i].of \in Admins
  <2>1. \A i \in DOMAIN session : session[i] \in SessionSet
    BY <1>6
  <2> QED
    BY <2>1 DEF SessionSet
<1>8. \A i \in DOMAIN session' :
        (~session'[i].ended /\ ~session'[i].raced) => session'[i].era = admin'[session'[i].of].era
  <2> SUFFICES ASSUME NEW i \in DOMAIN session', ~session'[i].ended, ~session'[i].raced
               PROVE  session'[i].era = admin'[session'[i].of].era
    OBVIOUS
  <2>1. CASE i = Len(session) + 1
    BY <1>4, <1>6, <2>1
  <2>2. CASE i \in DOMAIN session
    BY <1>6, <1>7, <2>2 DEF Fresh
  <2> QED
    BY <1>6, <2>1, <2>2
<1> QED
  BY <1>6, <1>8 DEF Fresh

LEMMA TeamRequestOpens ==
  ASSUME TeamInv, Shape, NEW q, NEW what, what # "nothing", NEW about, NEW arg, NEW saw,
         Opens(q, what, about, arg, saw), UNCHANGED teamVars,
         TeamRequest([ doing |-> what, about |-> about, arg |-> arg, saw |-> saw, overtaken |-> FALSE ])
  PROVE  TeamInv'
<1> DEFINE r == [ doing |-> what, about |-> about, arg |-> arg, saw |-> saw, overtaken |-> FALSE ]
<1>1. q \in Requests /\ request'[q] = r /\ \A p \in Requests \ {q} : request'[p] = request[p]
  BY OpensOne
<1>2. TeamRequest(r)
  OBVIOUS
<1> HIDE DEF r
<1>3. TeamRows' /\ Fresh' /\ admin' = admin /\ Owners' = Owners
  BY DEF TeamInv, TeamRows, Fresh, teamVars, Owners, AdminRow
<1>4. TeamRequest(request[q])'
  BY <1>1, <1>2, <1>3 DEF TeamRequest
<1>5. \A p \in Requests \ {q} : TeamRequest(request[p])'
  <2> SUFFICES ASSUME NEW p \in Requests \ {q} PROVE TeamRequest(request[p])'
    OBVIOUS
  <2>1. TeamRequest(request[p])
    BY DEF TeamInv
  <2> QED
    BY <1>1, <1>3, <2>1 DEF TeamRequest
<1> QED
  BY <1>3, <1>4, <1>5 DEF TeamInv

\* Whoever enters a code, enrols or leaves changes nothing others rely on.
LEMMA SessionMoves ==
  ASSUME TeamInv, Shape, NEW i \in DOMAIN session, EntersCode(i) \/ Enrols(i) \/ Leaves(i)
  PROVE  TeamInv' /\ Owners' = Owners
<1>0. request' = request /\ session \in Seq(SessionSet) /\ session[i] \in SessionSet
  BY DEF TeamInv, TeamRows, EntersCode, Enrols, Leaves
<1>1. ASSUME NEW t \in SessionSet, session' = [session EXCEPT ![i] = t], admin' = admin,
             (~t.ended /\ ~t.raced) => t.era = admin[t.of].era
      PROVE  TeamInv' /\ Owners' = Owners
  <2>1. /\ session' = [ j \in DOMAIN session |-> session'[j] ] /\ session'[i] = t
        /\ \A j \in DOMAIN session \ {i} : session'[j] = session[j]
    BY <1>1
  <2>2. \A j \in DOMAIN session : session'[j] \in SessionSet
    BY <1>0, <1>1, <2>1
  <2>3. session' \in Seq(SessionSet) /\ DOMAIN session' = DOMAIN session
    BY <1>0, <2>1, <2>2, MapsASequence
  <2>4. TeamRows'
    BY <1>1, <2>3 DEF TeamInv, TeamRows, AdminRow
  <2>5. Fresh'
    BY <1>1, <2>1, <2>3 DEF TeamInv, Fresh
  <2>6. Owners' = Owners
    BY <1>1 DEF Owners
  <2>7. \A p \in Requests : TeamRequest(request[p])'
    BY <1>0, <1>1, <2>6 DEF TeamInv, TeamRequest
  <2> QED
    BY <2>4, <2>5, <2>6, <2>7 DEF TeamInv
<1>2. CASE EntersCode(i)
  <2>1. PICK t : t = [session[i] EXCEPT !.stage = "active"]
    OBVIOUS
  <2>2. /\ t \in SessionSet /\ t.of = session[i].of /\ t.ended = session[i].ended
        /\ t.era = session[i].era /\ t.raced = session[i].raced
    BY <1>0, <2>1, SessionStages
  <2>3. session' = [session EXCEPT ![i] = t] /\ admin' = admin
    BY <1>2, <2>1 DEF EntersCode
  <2>4. (~t.ended /\ ~t.raced) => t.era = admin[t.of].era
    BY <2>2 DEF TeamInv, Fresh
  <2> QED
    BY <1>1, <2>2, <2>3, <2>4
<1>3. CASE Leaves(i)
  <2>1. PICK t : t = [session[i] EXCEPT !.ended = TRUE]
    OBVIOUS
  <2>2. t \in SessionSet /\ t.ended
    BY <1>0, <2>1, SessionEnds
  <2>3. session' = [session EXCEPT ![i] = t] /\ admin' = admin
    BY <1>3, <2>1 DEF Leaves
  <2> QED
    BY <1>1, <2>2, <2>3
<1>4. CASE Enrols(i)
  <2>1. PICK a : a = session[i].of
    OBVIOUS
  <2>2. a \in Admins
    BY <1>0, <2>1 DEF SessionSet
  <2>3. PICK yes \in BOOLEAN : yes = TRUE
    OBVIOUS
  <2>4. PICK row : row = admin[a]
    OBVIOUS
  <2>5. PICK next : next = [ role |-> row.role, active |-> row.active, password |-> row.password,
                             twoStep |-> yes, invited |-> row.invited, era |-> row.era ]
    OBVIOUS
  <2>6. AdminRow(row)
    BY <2>2, <2>4 DEF TeamInv, TeamRows
  <2>7. [row EXCEPT !.twoStep = yes] = next
    BY <2>5, <2>6 DEF AdminRow
  <2>8. admin' = [admin EXCEPT ![a] = next] /\ session' = session
    BY <1>4, <2>1, <2>3, <2>4, <2>7 DEF Enrols
  <2>9. next.role = row.role /\ next.active = row.active /\ next.era = row.era
    BY <2>5
  <2>10. AdminRow(next)
    BY <2>5, <2>6, <2>9 DEF AdminRow
  <2>11. /\ admin' = [ b \in Admins |-> admin'[b] ] /\ \A b \in Admins : AdminRow(admin'[b])
         /\ admin'[a] = next /\ \A b \in Admins \ {a} : admin'[b] = admin[b] /\ (b \in Owners' <=> b \in Owners)
         /\ a \in Owners' <=> (next.role = "owner" /\ next.active)
    BY <2>2, <2>8, <2>10, AdminRewritten DEF TeamInv
  <2>12. Owners' = Owners
    <3>1. a \in Owners <=> (row.role = "owner" /\ row.active)
      BY <2>2, <2>4 DEF Owners
    <3> QED
      BY <2>9, <2>11, <3>1 DEF Owners
  <2>13. \A b \in Admins : admin'[b].era = admin[b].era
    BY <2>4, <2>9, <2>11
  <2>14. TeamRows'
    BY <1>0, <2>8, <2>11 DEF TeamRows, AdminRow
  <2>15. Fresh'
    <3>0. \A j \in DOMAIN session : session[j] \in SessionSet
      BY <1>0
    <3>1. \A j \in DOMAIN session : session[j].of \in Admins
      BY <3>0 DEF SessionSet
    <3> QED
      BY <2>8, <2>13, <3>1 DEF TeamInv, Fresh
  <2>16. \A p \in Requests : TeamRequest(request[p])'
    BY <1>0, <2>12, <2>13 DEF TeamInv, TeamRequest
  <2> QED
    BY <2>12, <2>14, <2>15, <2>16 DEF TeamInv
<1> QED
  BY <1>2, <1>3, <1>4

\* Signing in takes a while; an invitation is accepted.
LEMMA SomebodySignsIn ==
  ASSUME TeamInv, Shape, NEW q \in Requests, SignInCommits(q) \/ AcceptCommits(q)
  PROVE  TeamInv' /\ Owners' = Owners
<1>1. request[q].doing \in {"sign in", "accept"} /\ request[q] # NoRequest
  BY NothingIsOpen DEF SignInCommits, AcceptCommits, Doing
<1>2. PICK a, era, raced : a = request[q].arg /\ era = request[q].saw.era /\ raced = request[q].overtaken
  OBVIOUS
<1>3. a \in Admins /\ era \in Nat /\ raced \in BOOLEAN /\ (raced \/ era = admin[a].era)
  BY <1>1, <1>2 DEF TeamInv, TeamRequest, Shape, Shaped
<1>4. \E stage \in {"awaiting_code", "active"} : session' = Append(session, NewSession(a, stage, era, raced))
  BY <1>2 DEF SignInCommits, AcceptCommits
<1>5. /\ admin' = [ b \in Admins |-> admin'[b] ] /\ \A b \in Admins : AdminRow(admin'[b])
      /\ \A b \in Admins : admin'[b].era = admin[b].era
      /\ Owners' = Owners
  <2>1. CASE SignInCommits(q)
    BY <2>1 DEF SignInCommits, TeamInv, TeamRows, Owners
  <2>2. CASE AcceptCommits(q)
    <3>1. PICK yes \in BOOLEAN, no \in BOOLEAN : yes = TRUE /\ no = FALSE
      OBVIOUS
    <3>2. PICK row : row = admin[a]
      OBVIOUS
    <3>3. AdminRow(row)
      BY <1>3, <3>2 DEF TeamInv, TeamRows
    <3>4. PICK one : one = [ role |-> row.role, active |-> row.active, password |-> yes,
                             twoStep |-> row.twoStep, invited |-> row.invited, era |-> row.era ]
      OBVIOUS
    <3>5. PICK next : next = [ role |-> row.role, active |-> row.active, password |-> yes,
                               twoStep |-> row.twoStep, invited |-> no, era |-> row.era ]
      OBVIOUS
    <3>6. [row EXCEPT !.password = yes] = one /\ [one EXCEPT !.invited = no] = next
      BY <3>3, <3>4, <3>5 DEF AdminRow
    <3>7. admin' = [admin EXCEPT ![a].password = yes, ![a].invited = no]
      BY <1>2, <2>2, <3>1 DEF AcceptCommits
    <3>8. [admin EXCEPT ![a].password = yes] = [admin EXCEPT ![a] = one] /\ a \in DOMAIN admin
      BY <1>3, <3>2, <3>6 DEF TeamInv, TeamRows
    <3>9. [admin EXCEPT ![a].password = yes, ![a].invited = no] = [admin EXCEPT ![a] = next]
      BY <3>6, <3>8
    <3>10. admin' = [admin EXCEPT ![a] = next]
      BY <3>7, <3>9
    <3>11. next.role = row.role /\ next.active = row.active /\ next.era = row.era
      BY <3>5
    <3>12. AdminRow(next)
      BY <3>3, <3>5, <3>11 DEF AdminRow
    <3>13. /\ admin' = [ b \in Admins |-> admin'[b] ] /\ \A b \in Admins : AdminRow(admin'[b])
           /\ admin'[a] = next /\ \A b \in Admins \ {a} : admin'[b] = admin[b] /\ (b \in Owners' <=> b \in Owners)
           /\ a \in Owners' <=> (next.role = "owner" /\ next.active)
      BY <1>3, <3>10, <3>12, AdminRewritten DEF TeamInv
    <3>14. a \in Owners <=> (row.role = "owner" /\ row.active)
      BY <1>3, <3>2 DEF Owners
    <3>15. Owners' = Owners
      BY <3>11, <3>13, <3>14 DEF Owners
    <3> QED
      BY <3>2, <3>11, <3>13, <3>15
  <2> QED
    BY <2>1, <2>2
<1>6. session' \in Seq(SessionSet) /\ Fresh'
  BY <1>3, <1>4, <1>5, SessionBegins DEF TeamInv
<1>7. TeamRows'
  BY <1>5, <1>6 DEF TeamRows, AdminRow
<1>8. \A p \in Requests : TeamRequest(request[p])'
  <2>1. PICK what : Writes(q, what)
    BY DEF SignInCommits, AcceptCommits
  <2>2. request'[q] = NoRequest /\ \A p \in Requests \ {q} : Stays(p) /\ Marked(p, what)
    BY <2>1, WritesOne
  <2> QED
    BY <1>5, <2>2, TeamRequestsHold DEF TeamInv
<1> QED
  BY <1>5, <1>6, <1>7, <1>8 DEF TeamInv

LEMMA TheTargetIsChecked ==
  ASSUME TeamInv, Shape, NEW q \in Requests, Checks(q)
  PROVE  TeamInv' /\ Owners' = Owners
<1>0. UNCHANGED teamVars /\ request[q].doing \in Manages /\ request[q] # NoRequest
  BY NothingIsOpen DEF Checks, Manages
<1>1. TeamRows' /\ Fresh' /\ admin' = admin /\ Owners' = Owners
  BY <1>0 DEF TeamInv, TeamRows, Fresh, teamVars, Owners, AdminRow
<1>2. PICK on, role, doing : on = request[q].arg.on /\ role = request[q].arg.role /\ doing = request[q].doing
  OBVIOUS
<1>3. \A p \in Requests \ {q} : request'[p] = request[p] => TeamRequest(request[p])'
  BY <1>1 DEF TeamInv, TeamRequest
<1>4. CASE GivesUp(q)
  <2>1. request'[q] = NoRequest /\ \A p \in Requests \ {q} : request'[p] = request[p]
    BY <1>4, GivesUpOne
  <2>2. TeamRequest(request[q])'
    BY <2>1, NothingIsOpen DEF TeamRequest, Manages
  <2> QED
    BY <1>1, <1>3, <2>1, <2>2 DEF TeamInv
<1>5. CASE ~GivesUp(q)
  <2>1. /\ MayManage(doing, request[q].arg.by, on, role)
        /\ Reads(q, admin[on])
    BY <1>2, <1>5 DEF Checks
  <2>2. /\ request'[q].doing = doing /\ request'[q].about = request[q].about /\ request'[q].arg = request[q].arg
        /\ \A p \in Requests \ {q} : request'[p] = request[p]
    BY <1>0, <1>2, <2>1, ReadsOne
  <2>3. (Demotes(doing, role) /\ on \in Owners) => Owners \ {on} # {}
    <3> SUFFICES ASSUME Demotes(doing, role), on \in Owners, Owners \ {on} = {} PROVE FALSE
      OBVIOUS
    <3>1. Owners = {on} /\ Cardinality(Owners) > 1
      BY <2>1 DEF MayManage, OwnerIsSpared
    <3>2. Cardinality({on}) = 1
      BY FS_Singleton
    <3> QED
      BY <3>1, <3>2
  <2>4. doing = "invite" => on \notin Owners
    BY <2>1 DEF MayManage, Exists, Owners
  <2>5. TeamRequest(request[q])'
    <3>1. TeamRequest(request[q])
      BY DEF TeamInv
    <3>2. request[q].about = {on, "owners"} /\ on \in Admins /\ role \in Roles
      BY <1>0, <1>2, <3>1 DEF TeamRequest
    <3>3. request'[q].doing \notin {"sign in", "accept"}
      BY <1>0, <1>2, <2>2 DEF Manages
    <3> QED
      BY <1>1, <1>2, <2>2, <2>3, <2>4, <3>2, <3>3 DEF TeamRequest
  <2> QED
    BY <1>1, <1>3, <2>2, <2>5 DEF TeamInv
<1> QED
  BY <1>4, <1>5

\* The team is managed: an Owner who goes overtakes those who counted on them.
LEMMA TheTeamIsManaged ==
  ASSUME TeamInv, Shape, NEW q \in Requests, Manage(q)
  PROVE  TeamInv' /\ ((Owners # {} /\ Owners' = {}) => request[q].overtaken)
<1>1. PICK on, role, doing, row :
        /\ on = request[q].arg.on /\ role = request[q].arg.role /\ doing = request[q].doing
        /\ row = Managed(doing, admin[on], role)
  OBVIOUS
<1>2. doing \in Manages /\ request[q].saw # NoRequest /\ on \in Admins /\ role \in Roles
  BY <1>1 DEF Manage, TeamInv, TeamRequest
<1>3. AdminRow(admin[on])
  BY <1>2 DEF TeamInv, TeamRows
<1>4. /\ AdminRow(row) /\ row.era = IF Expels(doing) THEN admin[on].era + 1 ELSE admin[on].era
      /\ row.role = IF doing \in {"invite", "role"} THEN role ELSE admin[on].role
      /\ row.active <=> (doing \in {"invite", "reactivate"} \/ (admin[on].active /\ doing # "deactivate"))
  BY <1>1, <1>2, <1>3, ManagedRow, SMTT(60)
<1>5. /\ admin' = [admin EXCEPT ![on] = row]
      /\ session' = [ i \in DOMAIN session |->
           IF Expels(doing) /\ session[i].of = on THEN [session[i] EXCEPT !.ended = TRUE] ELSE session[i] ]
      /\ Writes(q, {on} \union IF CostsAnOwner(on, row) THEN {"owners"} ELSE {})
  BY <1>1 DEF Manage
<1>6. /\ admin' = [ a \in Admins |-> admin'[a] ] /\ \A a \in Admins : AdminRow(admin'[a])
      /\ admin'[on] = row /\ \A a \in Admins \ {on} : admin'[a] = admin[a] /\ (a \in Owners' <=> a \in Owners)
      /\ on \in Owners' <=> (row.role = "owner" /\ row.active)
  BY <1>2, <1>4, <1>5, AdminRewritten DEF TeamInv
<1>7. session \in Seq(SessionSet) /\ \A i \in DOMAIN session : session[i] \in SessionSet
  BY DEF TeamInv, TeamRows
<1>8. /\ session' = [ i \in DOMAIN session |-> session'[i] ]
      /\ \A i \in DOMAIN session :
           \/ Expels(doing) /\ session[i].of = on /\ session'[i] = [session[i] EXCEPT !.ended = TRUE]
           \/ ~(Expels(doing) /\ session[i].of = on) /\ session'[i] = session[i]
  BY <1>5
<1>9. \A i \in DOMAIN session : [session[i] EXCEPT !.ended = TRUE] \in SessionSet
                                 /\ [session[i] EXCEPT !.ended = TRUE].ended
                                 /\ [session[i] EXCEPT !.ended = TRUE].of = session[i].of
  BY <1>7, SessionEnds
<1>10. session' \in Seq(SessionSet) /\ DOMAIN session' = DOMAIN session
  BY <1>7, <1>8, <1>9, MapsASequence
<1>11. Fresh'
  <2> SUFFICES ASSUME NEW i \in DOMAIN session, ~session'[i].ended, ~session'[i].raced
               PROVE  session'[i].era = admin'[session'[i].of].era
    BY <1>10 DEF Fresh
  <2>1. session'[i] = session[i] /\ ~(Expels(doing) /\ session[i].of = on)
    BY <1>8, <1>9
  <2>2. session[i].era = admin[session[i].of].era /\ session[i].of \in Admins
    BY <1>7, <2>1 DEF TeamInv, Fresh, SessionSet
  <2>3. CASE session[i].of = on
    BY <1>4, <1>6, <2>1, <2>2, <2>3
  <2>4. CASE session[i].of # on
    BY <1>6, <2>1, <2>2, <2>4
  <2> QED
    BY <2>3, <2>4
<1>12. TeamRows'
  BY <1>6, <1>10 DEF TeamRows, AdminRow
<1>13. PICK what : what = {on} \union IF CostsAnOwner(on, row) THEN {"owners"} ELSE {}
  OBVIOUS
<1>14. request'[q] = NoRequest /\ \A p \in Requests \ {q} : Stays(p) /\ Marked(p, what)
  BY <1>5, <1>13, WritesOne
<1>15. \A p \in Requests : TeamRequest(request[p])'
  <2>1. \A a \in Admins \ what : admin'[a].era = admin[a].era /\ (a \in Owners' <=> a \in Owners)
    BY <1>6, <1>13
  <2>2. "owners" \notin what => Owners \subseteq Owners'
    <3> SUFFICES ASSUME "owners" \notin what, NEW a \in Owners PROVE a \in Owners'
      OBVIOUS
    <3>1. CASE a = on
      BY <1>6, <1>13, <3>1 DEF CostsAnOwner
    <3>2. CASE a # on
      BY <1>6, <3>2 DEF Owners
    <3> QED
      BY <3>1, <3>2
  <2> QED
    BY <1>14, <2>1, <2>2, TeamRequestsHold DEF TeamInv
<1>16. ASSUME Owners # {}, Owners' = {}, ~request[q].overtaken PROVE FALSE
  <2>1. on \in Owners /\ Owners \ {on} = {}
    BY <1>6, <1>16 DEF Owners
  <2>2. /\ (Demotes(doing, role) /\ on \in Owners) => Owners \ {on} # {}
        /\ doing = "invite" => on \notin Owners
    BY <1>1, <1>2, <1>16 DEF TeamInv, TeamRequest
  <2>3. admin[on].role = "owner" /\ admin[on].active
    BY <2>1 DEF Owners
  <2>4. on \notin Owners'
    BY <1>16
  <2>5. ~Demotes(doing, role) /\ doing # "invite"
    BY <2>1, <2>2
  <2> QED
    BY <1>4, <1>6, <2>3, <2>4, <2>5 DEF Demotes
<1> QED
  BY <1>11, <1>12, <1>15, <1>16 DEF TeamInv

LEMMA TeamStepHolds ==
  ASSUME TeamInv, Shape, TeamStep
  PROVE  TeamInv' /\ ((Owners # {} /\ Owners' = {}) => OvertakenEnds)
<1> DEFINE r(what, about, arg, saw) == [ doing |-> what, about |-> about, arg |-> arg, saw |-> saw, overtaken |-> FALSE ]
<1> DEFINE Goal == TeamInv' /\ ((Owners # {} /\ Owners' = {}) => OvertakenEnds)
<1>0. ASSUME UNCHANGED teamVars PROVE Owners' = Owners
  BY <1>0 DEF teamVars, Owners
<1>1. ASSUME NEW what \in {"sign in", "accept"}, NEW q, NEW a \in Admins, Opens(q, what, {a}, a, admin[a]), UNCHANGED teamVars
      PROVE  Goal
  <2>1. admin[a].era \in Nat
    BY DEF TeamInv, TeamRows, AdminRow
  <2>2. what \notin Manages
    BY DEF Manages
  <2>3. TeamRequest(r(what, {a}, a, admin[a]))
    BY <2>1, <2>2 DEF TeamRequest
  <2>4. TeamInv'
    BY <1>1, <2>3, TeamRequestOpens
  <2> QED
    BY <1>0, <1>1, <2>4
<1>2. ASSUME NEW what \in Manages, NEW q, NEW i \in DOMAIN session, NEW b \in Admins, NEW role \in Roles,
             Enters(q, i, what, b, role)
      PROVE  Goal
  <2>1. PICK arg : arg = [ by |-> session[i].of, on |-> b, role |-> role ]
    OBVIOUS
  <2>2. arg.on = b /\ arg.role = role
    BY <2>1
  <2>3. Opens(q, what, {b, "owners"}, arg, NoRequest) /\ UNCHANGED teamVars
    BY <1>2, <2>1 DEF Enters
  <2>4. what \notin {"sign in", "accept"} /\ what # "nothing"
    BY DEF Manages
  <2>5. TeamRequest(r(what, {b, "owners"}, arg, NoRequest))
    BY <2>2, <2>4 DEF TeamRequest
  <2>6. TeamInv'
    BY <2>3, <2>4, <2>5, TeamRequestOpens
  <2> QED
    BY <1>0, <2>3, <2>6
<1>3. ASSUME NEW i \in DOMAIN session, EntersCode(i) \/ Enrols(i) \/ Leaves(i) PROVE Goal
  BY <1>3, SessionMoves
<1>4. ASSUME NEW q \in Requests, SignInCommits(q) \/ AcceptCommits(q) PROVE Goal
  BY <1>4, SomebodySignsIn
<1>5. ASSUME NEW q \in Requests, Checks(q) PROVE Goal
  BY <1>5, TheTargetIsChecked
<1>6. ASSUME NEW q \in Requests, Manage(q) PROVE Goal
  <2>1. TeamInv' /\ ((Owners # {} /\ Owners' = {}) => request[q].overtaken)
    BY <1>6, TheTeamIsManaged
  <2>2. ~Doing(q, "nothing") /\ request'[q] = NoRequest
    BY <1>6, WritesOne, NothingIsOpen DEF Manage, Manages, Doing
  <2> QED
    BY <2>1, <2>2 DEF OvertakenEnds
<1>7. ASSUME NEW q, NEW a \in Admins, SignInOpens(q, a) \/ AcceptOpens(q, a) PROVE Goal
  BY <1>1, <1>7 DEF SignInOpens, AcceptOpens
<1>8. ASSUME NEW what \in Manages, NEW q, NEW i \in DOMAIN session, NEW b \in Admins,
             NEW role \in IF what \in {"invite", "role"} THEN Roles ELSE {"owner"}, Enters(q, i, what, b, role)
      PROVE  Goal
  BY <1>2, <1>8 DEF Roles
<1> QED
  BY <1>3, <1>4, <1>5, <1>6, <1>7, <1>8 DEF TeamStep

LEMMA TeamInvHolds ==
  ASSUME TeamInv, Shape, [Next]_vars
  PROVE  TeamInv' /\ ((Owners # {} /\ Owners' = {}) => OvertakenEnds)
<1> DEFINE Goal == TeamInv' /\ ((Owners # {} /\ Owners' = {}) => OvertakenEnds)
<1>0. /\ Operations \cap TeamTasks = {} /\ CouponTasks \cap TeamTasks = {} /\ LedgerTasks \cap TeamTasks = {}
      /\ MembersTasks \cap TeamTasks = {} /\ PublishingTasks \cap TeamTasks = {} /\ WebsiteTasks \cap TeamTasks = {}
      /\ {} \cap TeamTasks = {}
  BY DEF TeamTasks, Manages, Operations, CouponTasks, LedgerTasks, MembersTasks, PublishingTasks, WebsiteTasks
<1>1. Shape'
  BY ShapeHolds
<1>2. ASSUME NEW some, Touches(some), some \cap TeamTasks = {}, UNCHANGED teamVars PROVE Goal
  <2>1. Owners' = Owners
    BY <1>2 DEF Owners, teamVars
  <2> QED
    BY <1>1, <1>2, <2>1, TeamAside
<1>3. CASE TeamStep
  BY <1>3, TeamStepHolds
<1>4. CASE Money
  BY <1>0, <1>2, <1>4, TenancyDesk, CouponDesk, LedgerDesk, MembersDesk DEF Money
<1>5. CASE PublishingStep /\ UNCHANGED teamVars
  BY <1>0, <1>2, <1>5, PublishingDesk
<1>6. CASE WebsiteStep /\ UNCHANGED teamVars
  BY <1>0, <1>2, <1>6, WebsiteDesk
<1>7. CASE (Builders /\ UNCHANGED << deskVars, teamVars >>) \/ Sweep \/ Restarts \/ Time
  <2>1. Touches({})
    BY <1>7, Unattended
  <2>2. UNCHANGED teamVars
    BY <1>7 DEF Sweep, Restarts, Time
  <2> QED
    BY <1>0, <1>2, <2>1, <2>2
<1>8. CASE UNCHANGED vars
  <2>1. Touches({}) /\ UNCHANGED teamVars
    BY <1>8, AllStay DEF vars, deskVars
  <2> QED
    BY <1>0, <1>2, <2>1
<1> QED
  BY <1>3, <1>4, <1>5, <1>6, <1>7, <1>8 DEF Next

LEMMA TeamAtFirst == Init => TeamInv
<1> SUFFICES ASSUME Init PROVE TeamInv
  OBVIOUS
<1>1. \A q \in Requests : TeamRequest(request[q])
  <2>1. \A q \in Requests : request[q].doing = "nothing"
    BY NothingIsOpen DEF Init, DeskInit
  <2> QED
    BY <2>1 DEF TeamRequest, Manages
<1>2. \A a \in Admins : AdminRow(admin[a]) /\ admin[a].era = 0
  <2> SUFFICES ASSUME NEW a \in Admins PROVE AdminRow(admin[a]) /\ admin[a].era = 0
    OBVIOUS
  <2>1. /\ (FirstRole[a] # "none") \in BOOLEAN /\ (FirstRole[a] # "none" /\ a \notin Invited) \in BOOLEAN
        /\ (a \in Invited) \in BOOLEAN /\ FALSE \in BOOLEAN
    OBVIOUS
  <2>6. PICK no : no = FALSE
    OBVIOUS
  <2>7. PICK there : there = (FirstRole[a] # "none")
    OBVIOUS
  <2>8. PICK ready : ready = (FirstRole[a] # "none" /\ a \notin Invited)
    OBVIOUS
  <2>9. PICK invited : invited = (a \in Invited)
    OBVIOUS
  <2>2. PICK row : row = [ role |-> FirstRole[a], active |-> there, password |-> ready,
                           twoStep |-> no, invited |-> invited, era |-> 0 ]
    OBVIOUS
  <2>3. admin[a] = row
    BY <2>2, <2>6, <2>7, <2>8, <2>9 DEF Init, TeamInit
  <2>4. /\ row.role = FirstRole[a] /\ row.active = there /\ row.password = ready /\ row.twoStep = no
        /\ row.invited = invited /\ row.era = 0
    BY <2>2
  <2>5. FirstRole[a] \in Roles \union {"none"}
    BY TeamAssumption
  <2> QED
    BY <2>1, <2>2, <2>3, <2>4, <2>5, <2>7 DEF AdminRow
<1>3. admin = [ a \in Admins |-> admin[a] ]
  BY DEF Init, TeamInit
<1>4. PICK no \in BOOLEAN : no = FALSE
  OBVIOUS
<1>5. PICK make : make = [ a \in Admins |-> [ of |-> a, stage |-> "active", ended |-> no, era |-> 0, raced |-> no ] ]
  OBVIOUS
<1>6. \A a \in Admins : make[a] \in SessionSet /\ make[a].era = 0 /\ make[a].of = a
  BY <1>5 DEF SessionSet
<1>7. FirstSessions \in Seq(Admins) /\ \A i \in DOMAIN FirstSessions : FirstSessions[i] \in Admins
  BY TeamAssumption
<1>8. /\ session = [ i \in DOMAIN FirstSessions |-> session[i] ]
      /\ \A i \in DOMAIN FirstSessions : session[i] = make[FirstSessions[i]]
  BY <1>4, <1>5, <1>7 DEF Init, TeamInit
<1>9. session \in Seq(SessionSet) /\ DOMAIN session = DOMAIN FirstSessions
  <2>1. DOMAIN FirstSessions = 1..Len(FirstSessions) /\ Len(FirstSessions) \in Nat
    BY <1>7
  <2>2. session \in [ 1..Len(FirstSessions) -> SessionSet ]
    BY <1>6, <1>7, <1>8, <2>1
  <2> QED
    BY <2>1, <2>2
<1>10. Fresh
  BY <1>2, <1>6, <1>7, <1>8, <1>9 DEF Fresh
<1> QED
  BY <1>1, <1>2, <1>3, <1>9, <1>10 DEF TeamInv, TeamRows

----------------------------------------------------------------------------
(* Workspaces: one that is there stays.                                     *)

\* What a row consists of.
TenantRow(row) == row = [ status |-> row.status, prev |-> row.prev, asked |-> row.asked, hold |-> row.hold ]

WorkspaceRows == ws = [ w \in Workspaces |-> ws[w] ] /\ \A w \in Workspaces : TenantRow(ws[w])

\* A row is set to another.
LEMMA WorkspaceSets ==
  ASSUME WorkspaceRows, NEW w, NEW row, TenantRow(row), ws' = [ws EXCEPT ![w] = row],
         w \in Workspaces => (ws[w].status # "none" => row.status # "none")
  PROVE  WorkspaceRows' /\ \A v \in Workspaces : ws[v].status # "none" => ws'[v].status # "none"
<1>1. /\ ws' = [ v \in Workspaces |-> ws'[v] ]
      /\ \A v \in Workspaces : ws'[v] = IF v = w THEN row ELSE ws[v]
  BY DEF WorkspaceRows
<1> QED
  BY <1>1 DEF WorkspaceRows, TenantRow

\* One field of a row is set.
LEMMA ItsStatusSet ==
  ASSUME NEW row, NEW st, NEW pr, NEW by, NEW ho, NEW x,
         row = [ status |-> st, prev |-> pr, asked |-> by, hold |-> ho ]
  PROVE  [row EXCEPT !.status = x] = [ status |-> x, prev |-> pr, asked |-> by, hold |-> ho ]
OBVIOUS

LEMMA ItsPrevSet ==
  ASSUME NEW row, NEW st, NEW pr, NEW by, NEW ho, NEW x,
         row = [ status |-> st, prev |-> pr, asked |-> by, hold |-> ho ]
  PROVE  [row EXCEPT !.prev = x] = [ status |-> st, prev |-> x, asked |-> by, hold |-> ho ]
OBVIOUS

LEMMA ItsAskedSet ==
  ASSUME NEW row, NEW st, NEW pr, NEW by, NEW ho, NEW x,
         row = [ status |-> st, prev |-> pr, asked |-> by, hold |-> ho ]
  PROVE  [row EXCEPT !.asked = x] = [ status |-> st, prev |-> pr, asked |-> x, hold |-> ho ]
OBVIOUS

LEMMA ItsHoldSet ==
  ASSUME NEW row, NEW st, NEW pr, NEW by, NEW ho, NEW x,
         row = [ status |-> st, prev |-> pr, asked |-> by, hold |-> ho ]
  PROVE  [row EXCEPT !.hold = x] = [ status |-> st, prev |-> pr, asked |-> by, hold |-> x ]
OBVIOUS

\* The row an operation leads to, field by field.
Becomes(what, a, saw, row, new) ==
  /\ new.status = CASE what = "suspend" -> "suspended"
                    [] what \in {"resume", "restore"} -> Back(saw)
                    [] what = "confirm" -> "deleted_pending"
                    [] what = "plan" /\ saw.status = "trial" -> "active"
                    [] OTHER -> row.status
  /\ new.prev = CASE what \in {"suspend", "confirm"} -> saw.status
                  [] what \in {"resume", "restore"} -> "none"
                  [] OTHER -> row.prev
  /\ new.asked = CASE what = "ask" -> a
                   [] what \in {"withdraw", "restore"} -> Nobody
                   [] OTHER -> row.asked
  /\ new.hold = CASE what = "confirm" -> "running"
                  [] what = "restore" -> "none"
                  [] OTHER -> row.hold

\* What is done to a workspace leaves it there.
LEMMA DoneRow ==
  ASSUME NEW row, TenantRow(row), NEW what \in Operations, NEW a, NEW saw
  PROVE  /\ TenantRow(Done(what, a, saw, row)) /\ (row.status # "none" => Done(what, a, saw, row).status # "none")
         /\ Becomes(what, a, saw, row, Done(what, a, saw, row))
<1>1. PICK m, back, was : m = Done(what, a, saw, row) /\ back = Back(saw) /\ was = saw.status
  OBVIOUS
<1>2. PICK st, pr, by, ho : row = [ status |-> st, prev |-> pr, asked |-> by, hold |-> ho ]
  BY DEF TenantRow
<1>3. PICK none, susp, pend, runs, act, nob :
        /\ none = "none" /\ susp = "suspended" /\ pend = "deleted_pending" /\ runs = "running" /\ act = "active"
        /\ nob = Nobody
  OBVIOUS
<1>4. /\ back # "none"
      /\ row.status = st /\ row.prev = pr /\ row.asked = by /\ row.hold = ho
  BY <1>1, <1>2 DEF Back
<1>5. CASE what = "suspend"
  <2>1. m = [row EXCEPT !.status = susp, !.prev = was]
    BY <1>1, <1>3, <1>5 DEF Done
  <2>2. PICK m1 : m1 = [ status |-> susp, prev |-> pr, asked |-> by, hold |-> ho ]
    OBVIOUS
  <2>3. [row EXCEPT !.status = susp] = m1
    BY <1>2, <2>2, ItsStatusSet
  <2>4. PICK m2 : m2 = [ status |-> susp, prev |-> was, asked |-> by, hold |-> ho ]
    OBVIOUS
  <2>5. [m1 EXCEPT !.prev = was] = m2
    BY <2>2, <2>4, ItsPrevSet
  <2>6. [row EXCEPT !.status = susp, !.prev = was] = m2
    BY <2>3, <2>5
  <2>7. /\ m2.status = susp /\ m2.prev = was /\ m2.asked = by /\ m2.hold = ho
        /\ TenantRow(m2)
    BY <2>4 DEF TenantRow
  <2> QED
    BY <1>1, <1>3, <1>4, <1>5, <2>1, <2>6, <2>7 DEF Becomes
<1>6. CASE what = "resume"
  <2>1. m = [row EXCEPT !.status = back, !.prev = none]
    BY <1>1, <1>3, <1>6 DEF Done
  <2>2. PICK m1 : m1 = [ status |-> back, prev |-> pr, asked |-> by, hold |-> ho ]
    OBVIOUS
  <2>3. [row EXCEPT !.status = back] = m1
    BY <1>2, <2>2, ItsStatusSet
  <2>4. PICK m2 : m2 = [ status |-> back, prev |-> none, asked |-> by, hold |-> ho ]
    OBVIOUS
  <2>5. [m1 EXCEPT !.prev = none] = m2
    BY <2>2, <2>4, ItsPrevSet
  <2>6. [row EXCEPT !.status = back, !.prev = none] = m2
    BY <2>3, <2>5
  <2>7. /\ m2.status = back /\ m2.prev = none /\ m2.asked = by /\ m2.hold = ho
        /\ TenantRow(m2)
    BY <2>4 DEF TenantRow
  <2> QED
    BY <1>1, <1>3, <1>4, <1>6, <2>1, <2>6, <2>7 DEF Becomes
<1>7. CASE what = "ask"
  <2>1. m = [row EXCEPT !.asked = a]
    BY <1>1, <1>3, <1>7 DEF Done
  <2>2. PICK m1 : m1 = [ status |-> st, prev |-> pr, asked |-> a, hold |-> ho ]
    OBVIOUS
  <2>3. [row EXCEPT !.asked = a] = m1
    BY <1>2, <2>2, ItsAskedSet
  <2>4. /\ m1.status = st /\ m1.prev = pr /\ m1.asked = a /\ m1.hold = ho
        /\ TenantRow(m1)
    BY <2>2 DEF TenantRow
  <2> QED
    BY <1>1, <1>3, <1>4, <1>7, <2>1, <2>3, <2>4 DEF Becomes
<1>8. CASE what = "confirm"
  <2>1. m = [row EXCEPT !.status = pend, !.prev = was, !.hold = runs]
    BY <1>1, <1>3, <1>8 DEF Done
  <2>2. PICK m1 : m1 = [ status |-> pend, prev |-> pr, asked |-> by, hold |-> ho ]
    OBVIOUS
  <2>3. [row EXCEPT !.status = pend] = m1
    BY <1>2, <2>2, ItsStatusSet
  <2>4. PICK m2 : m2 = [ status |-> pend, prev |-> was, asked |-> by, hold |-> ho ]
    OBVIOUS
  <2>5. [m1 EXCEPT !.prev = was] = m2
    BY <2>2, <2>4, ItsPrevSet
  <2>6. [row EXCEPT !.status = pend, !.prev = was] = m2
    BY <2>3, <2>5
  <2>7. PICK m3 : m3 = [ status |-> pend, prev |-> was, asked |-> by, hold |-> runs ]
    OBVIOUS
  <2>8. [m2 EXCEPT !.hold = runs] = m3
    BY <2>4, <2>7, ItsHoldSet
  <2>9. [row EXCEPT !.status = pend, !.prev = was, !.hold = runs] = m3
    BY <2>6, <2>8
  <2>10. /\ m3.status = pend /\ m3.prev = was /\ m3.asked = by /\ m3.hold = runs
        /\ TenantRow(m3)
    BY <2>7 DEF TenantRow
  <2> QED
    BY <1>1, <1>3, <1>4, <1>8, <2>1, <2>9, <2>10 DEF Becomes
<1>9. CASE what = "withdraw"
  <2>1. m = [row EXCEPT !.asked = nob]
    BY <1>1, <1>3, <1>9 DEF Done
  <2>2. PICK m1 : m1 = [ status |-> st, prev |-> pr, asked |-> nob, hold |-> ho ]
    OBVIOUS
  <2>3. [row EXCEPT !.asked = nob] = m1
    BY <1>2, <2>2, ItsAskedSet
  <2>4. /\ m1.status = st /\ m1.prev = pr /\ m1.asked = nob /\ m1.hold = ho
        /\ TenantRow(m1)
    BY <2>2 DEF TenantRow
  <2> QED
    BY <1>1, <1>3, <1>4, <1>9, <2>1, <2>3, <2>4 DEF Becomes
<1>10. CASE what = "restore"
  <2>1. m = [row EXCEPT !.status = back, !.prev = none, !.asked = nob, !.hold = none]
    BY <1>1, <1>3, <1>10 DEF Done
  <2>2. PICK m1 : m1 = [ status |-> back, prev |-> pr, asked |-> by, hold |-> ho ]
    OBVIOUS
  <2>3. [row EXCEPT !.status = back] = m1
    BY <1>2, <2>2, ItsStatusSet
  <2>4. PICK m2 : m2 = [ status |-> back, prev |-> none, asked |-> by, hold |-> ho ]
    OBVIOUS
  <2>5. [m1 EXCEPT !.prev = none] = m2
    BY <2>2, <2>4, ItsPrevSet
  <2>6. [row EXCEPT !.status = back, !.prev = none] = m2
    BY <2>3, <2>5
  <2>7. PICK m3 : m3 = [ status |-> back, prev |-> none, asked |-> nob, hold |-> ho ]
    OBVIOUS
  <2>8. [m2 EXCEPT !.asked = nob] = m3
    BY <2>4, <2>7, ItsAskedSet
  <2>9. [row EXCEPT !.status = back, !.prev = none, !.asked = nob] = m3
    BY <2>6, <2>8
  <2>10. PICK m4 : m4 = [ status |-> back, prev |-> none, asked |-> nob, hold |-> none ]
    OBVIOUS
  <2>11. [m3 EXCEPT !.hold = none] = m4
    BY <2>7, <2>10, ItsHoldSet
  <2>12. [row EXCEPT !.status = back, !.prev = none, !.asked = nob, !.hold = none] = m4
    BY <2>9, <2>11
  <2>13. /\ m4.status = back /\ m4.prev = none /\ m4.asked = nob /\ m4.hold = none
        /\ TenantRow(m4)
    BY <2>10 DEF TenantRow
  <2> QED
    BY <1>1, <1>3, <1>4, <1>10, <2>1, <2>12, <2>13 DEF Becomes
<1>11. CASE what = "plan"
  <2>0. CASE saw.status # "trial"
    BY <1>1, <1>2, <1>3, <1>4, <1>11, <2>0 DEF Done, TenantRow, Becomes
  <2>1. ASSUME saw.status = "trial" PROVE m = [row EXCEPT !.status = act]
    BY <1>1, <1>3, <1>11, <2>1 DEF Done
  <2>2. PICK m1 : m1 = [ status |-> act, prev |-> pr, asked |-> by, hold |-> ho ]
    OBVIOUS
  <2>3. [row EXCEPT !.status = act] = m1
    BY <1>2, <2>2, ItsStatusSet
  <2>4. /\ m1.status = act /\ m1.prev = pr /\ m1.asked = by /\ m1.hold = ho
        /\ TenantRow(m1)
    BY <2>2 DEF TenantRow
  <2> QED
    BY <1>1, <1>3, <1>4, <1>11, <2>0, <2>1, <2>3, <2>4 DEF Becomes
<1> QED
  BY <1>5, <1>6, <1>7, <1>8, <1>9, <1>10, <1>11 DEF Operations

\* Only its status, to something else than not being there.
LEMMA StatusSet ==
  ASSUME WorkspaceRows, NEW w, NEW status, status # "none", Sets(w, [ws[w] EXCEPT !.status = status])
  PROVE  WorkspaceRows' /\ \A v \in Workspaces : ws[v].status # "none" => ws'[v].status # "none"
<1>1. PICK row : row = [ws[w] EXCEPT !.status = status]
  OBVIOUS
<1>2. ws' = [ws EXCEPT ![w] = row]
  BY <1>1 DEF Sets
<1>3. CASE w \in Workspaces
  <2>1. row = [ status |-> status, prev |-> ws[w].prev, asked |-> ws[w].asked, hold |-> ws[w].hold ]
    BY <1>1, <1>3 DEF WorkspaceRows, TenantRow
  <2>2. TenantRow(row) /\ row.status = status
    BY <2>1 DEF TenantRow
  <2> QED
    BY <1>2, <2>2, WorkspaceSets
<1>4. CASE w \notin Workspaces
  BY <1>2, <1>4 DEF WorkspaceRows, TenantRow
<1> QED
  BY <1>3, <1>4

LEMMA WorkspacesStay ==
  ASSUME WorkspaceRows, [Next]_vars
  PROVE  WorkspaceRows' /\ \A w \in Workspaces : ws[w].status # "none" => ws'[w].status # "none"
<1> DEFINE Goal == WorkspaceRows' /\ \A w \in Workspaces : ws[w].status # "none" => ws'[w].status # "none"
<1>1. ASSUME ws' = ws PROVE Goal
  BY <1>1 DEF WorkspaceRows, TenantRow
<1>2. ASSUME NEW w, NEW status, status # "none", Sets(w, [ws[w] EXCEPT !.status = status]) PROVE Goal
  BY <1>2, StatusSet
<1>3. ASSUME NEW q \in Requests, Do(q) PROVE Goal
  <2>1. PICK w, what, row : /\ w = request[q].arg.on /\ what = request[q].doing
                            /\ row = Done(what, request[q].arg.by, request[q].saw, ws[w])
    OBVIOUS
  <2>2. ws' = [ws EXCEPT ![w] = row] /\ what \in Operations
    BY <1>3, <2>1 DEF Do, Sets
  <2>3. CASE w \in Workspaces
    <3>1. TenantRow(row) /\ (ws[w].status # "none" => row.status # "none")
      BY <2>1, <2>2, <2>3, DoneRow DEF WorkspaceRows
    <3> QED
      BY <2>2, <3>1, WorkspaceSets
  <2>4. CASE w \notin Workspaces
    BY <1>1, <2>2, <2>4 DEF WorkspaceRows
  <2> QED
    BY <2>3, <2>4
<1>4. ASSUME TenancyStep PROVE Goal
  BY <1>1, <1>3, <1>4 DEF TenancyStep, DoOpens, tenancyVars
<1>5. ASSUME LedgerStep PROVE Goal
  <2>1. ASSUME NEW q \in Requests, Fail(q) PROVE Goal
    BY <1>1, <1>2, <2>1 DEF Fail
  <2>2. ASSUME NEW q \in Requests, Charge(q) PROVE Goal
    BY <1>1, <1>2, <2>2 DEF Charge
  <2>3. ASSUME NEW q \in Requests, ChargeFails(q) \/ Grant(q) \/ RefundReads(q) \/ Refund(q) \/ Retry(q) PROVE Goal
    BY <1>1, <2>3 DEF ChargeFails, Grant, RefundReads, Refund, Retry
  <2>4. ASSUME NEW q, NEW w, NEW x, FailOpens(q, w, x) \/ ChargeOpens(q, w) \/ GrantOpens(q, w, x) \/ RefundOpens(q, w)
                                    \/ RetryOpens(q, w, x)
        PROVE  Goal
    BY <1>1, <2>4 DEF FailOpens, ChargeOpens, GrantOpens, RefundOpens, RetryOpens
  <2> QED
    BY <1>5, <2>1, <2>2, <2>3, <2>4 DEF LedgerStep
<1>6. ASSUME MembersStep PROVE Goal
  <2>1. ASSUME NEW q \in Requests, Founds(q) PROVE Goal
    <3>1. CASE ws' = ws
      BY <1>1, <3>1
    <3>2. CASE \E status \in {"trial", "active"} : Sets(request[q].arg.on, [ws[request[q].arg.on] EXCEPT !.status = status])
      BY <1>2, <3>2
    <3> QED
      BY <2>1, <3>1, <3>2 DEF Founds
  <2>2. ASSUME NEW q \in Requests, Add(q) \/ SendIn(q) \/ Promote(q) \/ Remove(q) PROVE Goal
    BY <1>1, <2>2 DEF Add, SendIn, Promote, Remove, tenancyVars
  <2>3. ASSUME NEW w, NEW p, NEW q, SignUpOpens(q, p, w) \/ CreateOpens(q, p, w) \/ SendInOpens(q, w, p)
                                    \/ TransferOpens(q, w, p) \/ RemoveOpens(q, w, p)
        PROVE  Goal
    BY <1>1, <2>3 DEF SignUpOpens, CreateOpens, SendInOpens, TransferOpens, RemoveOpens, tenancyVars
  <2>4. ASSUME NEW w, NEW p, NEW q, NEW role, AddOpens(q, w, p, role) \/ PromoteOpens(q, w, p, role) PROVE Goal
    BY <1>1, <2>4 DEF AddOpens, PromoteOpens, tenancyVars
  <2>5. ASSUME NEW i, Confirms(i) \/ LoginGoes(i) PROVE Goal
    BY <1>1, <2>5 DEF Confirms, LoginGoes, tenancyVars
  <2> QED
    BY <1>6, <2>1, <2>2, <2>3, <2>4, <2>5 DEF MembersStep
<1>7. ASSUME Sweep PROVE Goal
  <2>1. ASSUME NEW w, Erases(w) PROVE Goal
    BY <1>2, <2>1 DEF Erases
  <2>2. ASSUME SweepBegins \/ SweepReads \/ SweepEnds PROVE Goal
    BY <1>1, <2>2 DEF SweepBegins, SweepReads, SweepEnds, tenancyVars
  <2> QED
    BY <1>1, <1>7, <2>1, <2>2 DEF Sweep, tenancyVars
<1>8. ASSUME Time PROVE Goal
  <2>1. ASSUME NEW w \in Workspaces, HoldPasses(w) PROVE Goal
    <3>1. PICK row : row = [ws[w] EXCEPT !.hold = "passed"]
      OBVIOUS
    <3>2. TenantRow(row) /\ row.status = ws[w].status
      <4>1. row = [ status |-> ws[w].status, prev |-> ws[w].prev, asked |-> ws[w].asked, hold |-> "passed" ]
        BY <3>1 DEF WorkspaceRows, TenantRow
      <4> QED
        BY <4>1 DEF TenantRow
    <3>3. ws' = [ws EXCEPT ![w] = row]
      BY <2>1, <3>1 DEF HoldPasses
    <3> QED
      BY <3>2, <3>3, WorkspaceSets
  <2> QED
    BY <1>1, <1>8, <2>1 DEF Time, tenancyVars
<1>9. ASSUME UNCHANGED keptVars PROVE Goal
  BY <1>1, <1>9 DEF keptVars, tenancyVars
<1>10. ASSUME Restarts PROVE Goal
  BY <1>1, <1>10 DEF Restarts
<1>11. ASSUME UNCHANGED vars PROVE Goal
  BY <1>9, <1>11 DEF vars
<1>12. ASSUME CouponStep, UNCHANGED tenancyVars PROVE Goal
  BY <1>1, <1>12 DEF tenancyVars
<1> QED
  BY <1>4, <1>5, <1>6, <1>7, <1>8, <1>9, <1>10, <1>11, <1>12 DEF Next, Money

LEMMA WorkspacesAtFirst == Init => WorkspaceRows
<1> SUFFICES ASSUME Init PROVE WorkspaceRows
  OBVIOUS
<1>1. ws = [ w \in Workspaces |-> [ status |-> FirstStatus[w], prev |-> "none", asked |-> Nobody, hold |-> "none" ] ]
  BY DEF Init, TenancyInit
<1>2. ws = [ w \in Workspaces |-> ws[w] ]
      /\ \A w \in Workspaces : ws[w] = [ status |-> FirstStatus[w], prev |-> "none", asked |-> Nobody, hold |-> "none" ]
  BY <1>1
<1>3. \A w \in Workspaces : /\ ws[w].status = FirstStatus[w] /\ ws[w].prev = "none"
                            /\ ws[w].asked = Nobody /\ ws[w].hold = "none"
  BY <1>2
<1> QED
  BY <1>2, <1>3 DEF WorkspaceRows, TenantRow

----------------------------------------------------------------------------
(* Members and their logins.                                                *)

\* What the columns hold.
MemberSet == [ role : MemberRoles \union {"none"}, login : Nat, removed : BOOLEAN ]

LoginSet == [ of : People, live : BOOLEAN, confirmed : BOOLEAN, reused : BOOLEAN ]

\* What is linked exists, and a removed row is not linked.
MemberRows ==
  /\ member \in [ Workspaces -> [ People -> MemberSet ] ]
  /\ login \in Seq(LoginSet)
  /\ \A w \in Workspaces, p \in People :
       member[w][p].login \in 0..Len(login) /\ (member[w][p].removed => member[w][p].login = 0)
  /\ leaving \subseteq 1..Len(login)
  /\ \A l \in listed : l.on \in Workspaces /\ l.login \in 0..Len(login)

\* A login that is linked can be used, unless a sign-up took it over.
Held ==
  \A w \in Workspaces, p \in People :
    member[w][p].login # 0 =>
      \/ login[member[w][p].login].reused
      \/ login[member[w][p].login].live /\ member[w][p].login \notin leaving

\* A login is linked to one row.
Single ==
  \A w, v \in Workspaces, p, r \in People :
    member[w][p].login # 0 /\ member[v][r].login = member[w][p].login => v = w /\ r = p

\* A workspace that does not exist has no members.
Vacant == \A w \in Workspaces : ws[w].status = "none" => \A p \in People : member[w][p] = NoMember

\* The logins the sweep listed are linked in the workspace they were listed with.
ListedFit ==
  \A l \in listed : l.login # 0 =>
    \/ login[l.login].reused
    \/ \A w \in Workspaces, p \in People : member[w][p].login = l.login => w = l.on

\* Nobody has heard of the login but the request that made it.
Unknown(i) ==
  /\ i \in 1..Len(login) /\ login[i].live /\ i \notin leaving
  /\ \A w \in Workspaces, p \in People : member[w][p].login # i
  /\ \A l \in listed : l.login # i

\* The requests with a login for somebody.
Making == { "join", "found", "send in" }

\* Those of the panel, which are given one that was made for them.
Providing == { "found", "send in" }

\* The request made the login itself.
Made(r) == r.doing \in Providing \/ (r.doing = "join" /\ ~r.saw.reused)

\* What a request may rely on; some of it only if it was not overtaken.
MemberRequest(r) ==
  /\ r.doing \in MembersTasks =>
       r.about = {r.arg.on} /\ r.arg.on \in Workspaces /\ r.arg.who \in People
  /\ r.doing \in {"add", "promote"} => r.arg.role \in MemberRoles
  /\ r.doing = "add" => ws[r.arg.on].status # "none"
  /\ r.doing \in Making => r.saw.login \in 1..Len(login)
  /\ r.doing = "join" =>
       r.saw.reused \in BOOLEAN /\ (r.saw.reused \/ login[r.saw.login].reused \/ Unknown(r.saw.login))
  /\ r.doing = "found" => r.saw.reused = FALSE
  /\ r.doing \in Providing => Unknown(r.saw.login) /\ login[r.saw.login].confirmed
  /\ r.doing = "part" =>
       /\ r.saw.login \in 0..Len(login)
       /\ r.saw.login # 0 =>
            \/ login[r.saw.login].reused
            \/ \A w \in Workspaces, p \in People : member[w][p].login = r.saw.login => w = r.arg.on /\ p = r.arg.who
  /\ r.doing \in {"promote", "part"} /\ ~r.overtaken => member[r.arg.on][r.arg.who].role # "owner"
  /\ r.doing = "transfer" =>
       r.overtaken \/ (IsMember(member[r.arg.on][r.arg.who]) /\ member[r.arg.on][r.arg.who].login # 0)

\* No two requests have one login, unless a sign-up took it over.
Apart(r, s) ==
  /\ Made(r) /\ Made(s) => r.saw.login # s.saw.login
  /\ r.doing \in Providing /\ s.doing = "join" => r.saw.login # s.saw.login
  /\ Made(r) /\ s.doing = "part" =>
       r.saw.login # s.saw.login \/ (r.doing = "join" /\ login[r.saw.login].reused)

MemberInv ==
  /\ MemberRows /\ Held /\ Single /\ Vacant /\ ListedFit
  /\ \A q \in Requests : MemberRequest(request[q])
  /\ \A q, p \in Requests : q # p => Apart(request[q], request[p])

\* Rows lose their links, logins on their way out their life, and more leave or
\* are listed.
LEMMA LinksGo ==
  ASSUME MemberRows, Held, Single, ListedFit,
         member' \in [ Workspaces -> [ People -> MemberSet ] ],
         \A w \in Workspaces, p \in People :
           /\ member'[w][p].login \in {0, member[w][p].login}
           /\ member'[w][p].removed => member'[w][p].login = 0,
         login' \in Seq(LoginSet), Len(login)' = Len(login),
         \A i \in 1..Len(login) :
           /\ login'[i].reused = login[i].reused
           /\ (login[i].live /\ i \notin leaving) => login'[i].live,
         leaving' \subseteq 1..Len(login),
         \A i \in leaving' \ leaving :
           login[i].reused \/ \A w \in Workspaces, p \in People : member'[w][p].login # i,
         \A l \in listed' \ listed :
           /\ l.on \in Workspaces /\ l.login \in 0..Len(login)
           /\ l.login # 0 => \A w \in Workspaces, p \in People : member[w][p].login = l.login => w = l.on
  PROVE  /\ MemberRows' /\ Held' /\ Single' /\ ListedFit'
         /\ \A i : (Unknown(i) /\ i \notin leaving' /\ \A l \in listed' \ listed : l.login # i) => Unknown(i)'
<1>1. \A w \in Workspaces, p \in People : member[w][p].login \in 0..Len(login)
  BY DEF MemberRows
<1>2. MemberRows'
  <2>1. \A w \in Workspaces, p \in People : member'[w][p].login \in 0..Len(login)
    BY <1>1
  <2>2. \A l \in listed' : l.on \in Workspaces /\ l.login \in 0..Len(login)
    BY DEF MemberRows
  <2> QED
    BY <2>1, <2>2 DEF MemberRows
<1>3. Held'
  <2> SUFFICES ASSUME NEW w \in Workspaces, NEW p \in People, member'[w][p].login # 0
               PROVE  \/ login'[member'[w][p].login].reused
                      \/ login'[member'[w][p].login].live /\ member'[w][p].login \notin leaving'
    BY DEF Held
  <2>1. PICK i : i = member'[w][p].login
    OBVIOUS
  <2>2. member[w][p].login = i /\ i \in 1..Len(login) /\ i # 0
    BY <1>1, <2>1
  <2>3. login[i].reused \/ (login[i].live /\ i \notin leaving)
    BY <2>2 DEF Held
  <2>4. login'[i].reused = login[i].reused /\ ((login[i].live /\ i \notin leaving) => login'[i].live)
    BY <2>2
  <2>5. (i \in leaving' /\ i \notin leaving) => login[i].reused
    BY <2>1
  <2> QED
    BY <2>1, <2>3, <2>4, <2>5
<1>4. Single'
  BY <1>1, SMTT(60) DEF Single
<1>5. ListedFit'
  <2> SUFFICES ASSUME NEW l \in listed', l.login # 0
               PROVE  \/ login'[l.login].reused
                      \/ \A w \in Workspaces, p \in People : member'[w][p].login = l.login => w = l.on
    BY DEF ListedFit
  <2>1. \/ login[l.login].reused
        \/ \A w \in Workspaces, p \in People : member[w][p].login = l.login => w = l.on
    BY DEF ListedFit
  <2>2. l.login \in 1..Len(login)
    BY DEF MemberRows
  <2>3. login'[l.login].reused = login[l.login].reused
    BY <2>2
  <2> QED
    BY <2>1, <2>3
<1>6. ASSUME NEW i, Unknown(i), i \notin leaving', \A l \in listed' \ listed : l.login # i PROVE Unknown(i)'
  <2>1. i \in 1..Len(login) /\ login[i].live /\ i \notin leaving
    BY <1>6 DEF Unknown
  <2>2. login'[i].live
    BY <2>1
  <2>3. \A w \in Workspaces, p \in People : member'[w][p].login # i
    BY <1>6, <2>1 DEF Unknown
  <2>4. \A l \in listed' : l.login # i
    BY <1>6 DEF Unknown
  <2> QED
    BY <1>6, <2>1, <2>2, <2>3, <2>4 DEF Unknown
<1> QED
  BY <1>2, <1>3, <1>4, <1>5, <1>6

\* A row is linked to a login that no other row has.
Links(w, p, row, i) ==
  /\ w \in Workspaces /\ p \in People /\ i \in 1..Len(login)
  /\ row \in MemberSet /\ row.login = i /\ ~row.removed
  /\ \A v \in Workspaces, r \in People : member[v][r].login # i
  /\ member' \in [ Workspaces -> [ People -> MemberSet ] ] /\ member'[w][p] = row
  /\ \A v \in Workspaces, r \in People : (v # w \/ r # p) => member'[v][r] = member[v][r]
  /\ login' \in Seq(LoginSet) /\ Len(login)' = Len(login)
  /\ \A j \in 1..Len(login) : /\ login'[j].live = login[j].live /\ login'[j].confirmed = login[j].confirmed
                              /\ login[j].reused => login'[j].reused
  /\ UNCHANGED << leaving, listed >>

LEMMA RowLinked ==
  ASSUME MemberRows, Held, Single, ListedFit, NEW w, NEW p, NEW row, NEW i, Links(w, p, row, i),
         Unknown(i) \/ login'[i].reused
  PROVE  /\ MemberRows' /\ Held' /\ Single' /\ ListedFit'
         /\ \A j : (j # i /\ Unknown(j)) => Unknown(j)'
         /\ \A v \in Workspaces, r \in People : member'[v][r].login = i => v = w /\ r = p
<1>0. /\ w \in Workspaces /\ p \in People /\ i \in 1..Len(login)
      /\ row \in MemberSet /\ row.login = i /\ ~row.removed
      /\ \A v \in Workspaces, r \in People : member[v][r].login # i
      /\ login' \in Seq(LoginSet) /\ Len(login)' = Len(login)
      /\ \A j \in 1..Len(login) : login'[j].live = login[j].live /\ (login[j].reused => login'[j].reused)
      /\ UNCHANGED << leaving, listed >>
  BY DEF Links
<1>1. /\ member \in [ Workspaces -> [ People -> MemberSet ] ]
      /\ \A v \in Workspaces, r \in People : member[v][r].login \in 0..Len(login)
  BY <1>0 DEF MemberRows
<1>2. member'[w][p] = row /\ member' \in [ Workspaces -> [ People -> MemberSet ] ]
  BY DEF Links
<1>3. \A v \in Workspaces, r \in People : (v # w \/ r # p) => member'[v][r] = member[v][r]
  BY DEF Links
<1>4. \A v \in Workspaces, r \in People : member'[v][r].login = i => v = w /\ r = p
  BY <1>0, <1>3
<1>5. MemberRows'
  <2>1. \A v \in Workspaces, r \in People :
          member'[v][r].login \in 0..Len(login) /\ (member'[v][r].removed => member'[v][r].login = 0)
    <3> SUFFICES ASSUME NEW v \in Workspaces, NEW r \in People
                 PROVE  member'[v][r].login \in 0..Len(login) /\ (member'[v][r].removed => member'[v][r].login = 0)
      OBVIOUS
    <3>1. CASE v = w /\ r = p
      BY <1>0, <1>2, <3>1
    <3>2. CASE v # w \/ r # p
      BY <1>0, <1>3, <3>2 DEF MemberRows
    <3> QED
      BY <1>0, <3>1, <3>2
  <2> QED
    BY <1>0, <1>2, <2>1 DEF MemberRows
<1>6. Held'
  <2> SUFFICES ASSUME NEW v \in Workspaces, NEW r \in People, member'[v][r].login # 0
               PROVE  \/ login'[member'[v][r].login].reused
                      \/ login'[member'[v][r].login].live /\ member'[v][r].login \notin leaving
    BY <1>0 DEF Held
  <2>1. CASE v = w /\ r = p
    BY <1>0, <1>2, <2>1 DEF Unknown
  <2>2. CASE v # w \/ r # p
    <3>1. member'[v][r] = member[v][r] /\ member[v][r].login \in 1..Len(login)
      BY <1>0, <1>1, <1>3, <2>2
    <3> QED
      BY <1>0, <3>1 DEF Held
  <2> QED
    BY <1>0, <2>1, <2>2
<1>7. Single'
  <2> SUFFICES ASSUME NEW v \in Workspaces, NEW u \in Workspaces, NEW r \in People, NEW s \in People,
                      member'[v][r].login # 0, member'[u][s].login = member'[v][r].login
               PROVE  u = v /\ s = r
    BY DEF Single
  <2>1. CASE member'[v][r].login = i
    BY <1>0, <1>4, <2>1
  <2>2. CASE member'[v][r].login # i
    <3>1. member'[v][r] = member[v][r] /\ member'[u][s] = member[u][s]
      BY <1>0, <1>2, <1>3, <2>2
    <3> QED
      BY <1>0, <3>1 DEF Single
  <2> QED
    BY <1>0, <2>1, <2>2
<1>8. ListedFit'
  <2> SUFFICES ASSUME NEW l \in listed, l.login # 0
               PROVE  \/ login'[l.login].reused
                      \/ \A v \in Workspaces, r \in People : member'[v][r].login = l.login => v = l.on
    BY <1>0 DEF ListedFit
  <2>1. l.login \in 1..Len(login)
    BY <1>0 DEF MemberRows
  <2>2. CASE l.login = i
    BY <1>0, <2>2 DEF Unknown
  <2>3. CASE l.login # i
    <3>1. \/ login[l.login].reused
          \/ \A v \in Workspaces, r \in People : member[v][r].login = l.login => v = l.on
      BY DEF ListedFit
    <3>2. \A v \in Workspaces, r \in People : member'[v][r].login = l.login => member[v][r].login = l.login
      BY <1>0, <1>2, <1>3, <2>3
    <3> QED
      BY <1>0, <2>1, <3>1, <3>2
  <2> QED
    BY <1>0, <2>2, <2>3
<1>9. ASSUME NEW j, j # i, Unknown(j) PROVE Unknown(j)'
  <2>1. \A v \in Workspaces, r \in People : member'[v][r].login # j
    BY <1>0, <1>2, <1>3, <1>9 DEF Unknown
  <2> QED
    BY <1>0, <1>9, <2>1 DEF Unknown
<1> QED
  BY <1>0, <1>2, <1>3, <1>4, <1>5, <1>6, <1>7, <1>8, <1>9

\* A login is made that nobody else knows.
LEMMA LoginMade ==
  ASSUME MemberRows, Held, Single, ListedFit, NEW l \in LoginSet, l.live, login' = Append(login, l),
         NEW n, n = Len(login) + 1,
         UNCHANGED << member, leaving, listed >>
  PROVE  /\ MemberRows' /\ Held' /\ Single' /\ ListedFit'
         /\ Len(login)' = n /\ \A i \in 1..Len(login) : login'[i] = login[i]
         /\ \A i : Unknown(i) => Unknown(i)'
         /\ login'[n] = l /\ Unknown(n)'
<1>1. /\ login \in Seq(LoginSet) /\ login' \in Seq(LoginSet)
      /\ Len(login)' = n /\ n = Len(login) + 1 /\ Len(login) \in Nat
      /\ \A i \in 1..Len(login) : login'[i] = login[i]
      /\ login'[n] = l
  BY DEF MemberRows
<1>2. \A w \in Workspaces, p \in People : member[w][p].login \in 0..Len(login) /\ member[w][p].login # n
  BY <1>1 DEF MemberRows
<1>3. \A x \in listed : x.on \in Workspaces /\ x.login \in 0..Len(login) /\ x.login # n
  BY <1>1 DEF MemberRows
<1>4. MemberRows'
  BY <1>1, <1>2, <1>3 DEF MemberRows
<1>5. Held'
  <2> SUFFICES ASSUME NEW w \in Workspaces, NEW p \in People, member[w][p].login # 0
               PROVE  \/ login'[member[w][p].login].reused
                      \/ login'[member[w][p].login].live /\ member[w][p].login \notin leaving
    BY DEF Held
  <2>1. member[w][p].login \in 1..Len(login)
    BY <1>2
  <2> QED
    BY <1>1, <2>1 DEF Held
<1>6. Single'
  BY DEF Single
<1>7. ListedFit'
  <2> SUFFICES ASSUME NEW x \in listed, x.login # 0
               PROVE  \/ login'[x.login].reused
                      \/ \A v \in Workspaces, r \in People : member[v][r].login = x.login => v = x.on
    BY DEF ListedFit
  <2>1. x.login \in 1..Len(login)
    BY <1>1, <1>3
  <2> QED
    BY <1>1, <2>1 DEF ListedFit
<1>8. ASSUME NEW i, Unknown(i) PROVE Unknown(i)'
  <2>1. i \in 1..Len(login)
    BY <1>8 DEF Unknown
  <2> QED
    BY <1>1, <1>8, <2>1 DEF Unknown
<1>9. Unknown(n)'
  <2>1. n \notin leaving /\ n \in 1..n
    BY <1>1 DEF MemberRows
  <2> QED
    BY <1>1, <1>2, <1>3, <2>1 DEF Unknown
<1> QED
  BY <1>1, <1>4, <1>5, <1>6, <1>7, <1>8, <1>9

LEMMA Kinds ==
  /\ \A d : d \in Making => d \in MembersTasks /\ d \notin {"add", "promote", "transfer", "part"}
                           /\ (d = "join" \/ d \in Providing)
  /\ \A d : d \in Providing => d \in Making /\ d # "join"
  /\ "join" \in Making /\ "found" \in Providing
  /\ "nothing" \notin MembersTasks /\ "nothing" \notin Making
  /\ \A d \in {"add", "promote", "transfer", "part"} : d \in MembersTasks /\ d \notin Making /\ d \notin Providing
BY Zenon DEF Making, Providing, MembersTasks

LEMMA NobodyAsks ==
        /\ MemberRequest(NoRequest) /\ "nothing" \notin MembersTasks /\ "nothing" \notin Making
         /\ \A r : Apart(NoRequest, r) /\ Apart(r, NoRequest)
BY NothingIsOpen, Kinds DEF MemberRequest, Apart, Made

\* Logins stay, and what was once said of them.
LoginsLast ==
  /\ Len(login) \in Nat /\ Len(login)' \in Nat /\ Len(login) <= Len(login)'
  /\ \A i \in 1..Len(login) : /\ login[i].reused => login'[i].reused
                              /\ login[i].confirmed => login'[i].confirmed

\* A step leaves the rows request p is about alone, or overtakes it; it leaves the
\* login it made alone, and does not link the one it is about to take away.
Considers(p) ==
  /\ \A w \in Workspaces :
       (request'[p] # NoRequest /\ request[p].about = {w} /\ ~request'[p].overtaken) =>
         \A r \in People : member'[w][r] = member[w][r]
  /\ \A i : (request'[p] # NoRequest /\ Made(request[p]) /\ request[p].saw.login = i /\ Unknown(i)) =>
             Unknown(i)' \/ (request[p].doing = "join" /\ login'[i].reused)
  /\ \A i : (request'[p] # NoRequest /\ request[p].doing = "part" /\ request[p].saw.login = i /\ i # 0) =>
             \/ login'[i].reused
             \/ \A w \in Workspaces, r \in People : member'[w][r].login = i => member[w][r].login = i

\* What a request relies on stays, if a step considers it.
LEMMA MembersRely ==
  ASSUME MemberInv, NEW p \in Requests, MemberRequest(request[p]),
         request'[p] # NoRequest => Stays(p),
         request'[p] # NoRequest => request'[p].overtaken \in BOOLEAN /\ request[p].overtaken \in BOOLEAN,
         \A w \in Workspaces : ws[w].status # "none" => ws'[w].status # "none",
         LoginsLast, Considers(p)
  PROVE  MemberRequest(request[p])'
<1>1. CASE request'[p] = NoRequest
  BY <1>1, NothingIsOpen, Kinds DEF MemberRequest
<1>2. CASE request'[p] # NoRequest
  <2>1. PICK do, on, who, i, late : /\ do = request[p].doing /\ on = request[p].arg.on /\ who = request[p].arg.who
                                    /\ i = request[p].saw.login /\ late = request'[p].overtaken
    OBVIOUS
  <2>2. /\ request'[p].doing = request[p].doing /\ request'[p].about = request[p].about
        /\ request'[p].arg = request[p].arg /\ request'[p].saw = request[p].saw
        /\ late \in BOOLEAN /\ (~late => ~request[p].overtaken)
    BY <1>2, <2>1 DEF Stays
  <2>3. do \in MembersTasks => request[p].about = {on} /\ on \in Workspaces /\ who \in People
    BY <2>1 DEF MemberRequest
  <2>4. do = "add" => ws'[on].status # "none"
    BY <2>1, <2>3 DEF MemberRequest, MembersTasks
  <2>5. do \in Making => i \in 1..Len(login) /\ i \in 1..Len(login)'
    <3>1. do \in Making => i \in 1..Len(login)
      BY <2>1 DEF MemberRequest
    <3> QED
      BY <3>1 DEF LoginsLast
  <2>6. do = "join" => /\ request[p].saw.reused \in BOOLEAN
                       /\ request[p].saw.reused \/ login'[i].reused \/ Unknown(i)'
    <3> SUFFICES ASSUME do = "join"
                 PROVE  request[p].saw.reused \in BOOLEAN /\ (request[p].saw.reused \/ login'[i].reused \/ Unknown(i)')
      OBVIOUS
    <3>0. request[p].saw.reused \in BOOLEAN /\ (request[p].saw.reused \/ login[i].reused \/ Unknown(i))
      BY <2>1 DEF MemberRequest
    <3> SUFFICES ASSUME ~request[p].saw.reused PROVE login'[i].reused \/ Unknown(i)'
      BY <3>0
    <3>1. login[i].reused \/ Unknown(i)
      BY <3>0
    <3>2. i \in 1..Len(login)
      BY <2>5 DEF Making
    <3>3. Made(request[p])
      BY <2>1 DEF Made
    <3> QED
      BY <1>2, <2>1, <3>1, <3>2, <3>3 DEF LoginsLast, Considers
  <2>7. do \in Providing => Unknown(i)' /\ login'[i].confirmed
    <3> SUFFICES ASSUME do \in Providing PROVE Unknown(i)' /\ login'[i].confirmed
      OBVIOUS
    <3>1. Unknown(i) /\ login[i].confirmed
      BY <2>1 DEF MemberRequest
    <3>2. i \in 1..Len(login)
      BY <2>5, Kinds
    <3>3. Made(request[p])
      BY <2>1 DEF Made
    <3> QED
      BY <1>2, <2>1, <3>1, <3>2, <3>3, Kinds DEF LoginsLast, Considers
  <2>8. do = "part" =>
          /\ i \in 0..Len(login)'
          /\ i # 0 => \/ login'[i].reused
                      \/ \A w \in Workspaces, r \in People : member'[w][r].login = i => w = on /\ r = who
    <3> SUFFICES ASSUME do = "part"
                 PROVE  /\ i \in 0..Len(login)'
                        /\ i # 0 => \/ login'[i].reused
                                    \/ \A w \in Workspaces, r \in People : member'[w][r].login = i => w = on /\ r = who
      OBVIOUS
    <3>1. /\ i \in 0..Len(login)
          /\ i # 0 => \/ login[i].reused
                      \/ \A w \in Workspaces, r \in People : member[w][r].login = i => w = on /\ r = who
      BY <2>1 DEF MemberRequest
    <3>2. i # 0 => \/ login'[i].reused
                   \/ \A w \in Workspaces, r \in People : member'[w][r].login = i => member[w][r].login = i
      BY <1>2, <2>1 DEF Considers
    <3> QED
      BY <3>1, <3>2 DEF LoginsLast
  <2>9. (do \in MembersTasks /\ ~late) => member'[on][who] = member[on][who]
    BY <1>2, <2>1, <2>3 DEF Considers
  <2>10. (do \in {"promote", "part"} /\ ~late) => member'[on][who].role # "owner"
    BY <2>1, <2>2, <2>9 DEF MemberRequest, MembersTasks
  <2>11. do = "transfer" => late \/ (IsMember(member'[on][who]) /\ member'[on][who].login # 0)
    BY <2>1, <2>2, <2>9 DEF MemberRequest, MembersTasks
  <2>12. /\ do \in {"add", "promote"} => request[p].arg.role \in MemberRoles
         /\ do = "found" => request[p].saw.reused = FALSE
    BY <2>1 DEF MemberRequest
  <2>13. PICK r : r = request'[p]
    OBVIOUS
  <2>14. /\ r.doing = do /\ r.arg.on = on /\ r.arg.who = who /\ r.saw.login = i /\ r.overtaken = late
         /\ r.saw.reused = request[p].saw.reused /\ r.about = request[p].about /\ r.arg.role = request[p].arg.role
    BY <2>1, <2>2, <2>13
  <2>15. /\ r.doing \in MembersTasks =>
              r.about = {r.arg.on} /\ r.arg.on \in Workspaces /\ r.arg.who \in People
         /\ r.doing \in {"add", "promote"} => r.arg.role \in MemberRoles
         /\ r.doing = "add" => ws'[r.arg.on].status # "none"
         /\ r.doing \in Making => r.saw.login \in 1..Len(login)'
    BY <2>3, <2>4, <2>5, <2>12, <2>14
  <2>16. r.doing = "join" =>
           r.saw.reused \in BOOLEAN /\ (r.saw.reused \/ login'[r.saw.login].reused \/ Unknown(r.saw.login)')
    BY <2>6, <2>14
  <2>17. /\ r.doing = "found" => r.saw.reused = FALSE
         /\ r.doing \in Providing => Unknown(r.saw.login)' /\ login'[r.saw.login].confirmed
    BY <2>7, <2>12, <2>14
  <2>18. r.doing = "part" =>
           /\ r.saw.login \in 0..Len(login)'
           /\ r.saw.login # 0 =>
                \/ login'[r.saw.login].reused
                \/ \A w \in Workspaces, x \in People : member'[w][x].login = r.saw.login => w = r.arg.on /\ x = r.arg.who
    BY <2>8, <2>14
  <2>19. /\ r.doing \in {"promote", "part"} /\ ~r.overtaken => member'[r.arg.on][r.arg.who].role # "owner"
         /\ r.doing = "transfer" =>
              r.overtaken \/ (IsMember(member'[r.arg.on][r.arg.who]) /\ member'[r.arg.on][r.arg.who].login # 0)
    BY <2>10, <2>11, <2>14
  <2>20. MemberRequest(r)'
    BY <2>15, <2>16, <2>17, <2>18, <2>19, Zenon DEF MemberRequest
  <2> QED
    BY <2>13, <2>20, Zenon
<1> QED
  BY <1>1, <1>2

\* Requests that were apart stay so.
LEMMA ApartStays ==
  ASSUME NEW p \in Requests, NEW q \in Requests, Apart(request[q], request[p]),
         request'[p] # NoRequest => Stays(p), request'[q] # NoRequest => Stays(q),
         \A r : Made(request[q]) /\ request[q].doing = "join" /\ request[q].saw.login = r
                  => (login[r].reused => login'[r].reused)
  PROVE  Apart(request[q], request[p])'
<1>1. CASE request'[p] = NoRequest \/ request'[q] = NoRequest
  BY <1>1, NothingIsOpen, Kinds DEF Apart, Made
<1>2. CASE request'[p] # NoRequest /\ request'[q] # NoRequest
  <2>1. /\ request'[p].doing = request[p].doing /\ request'[p].saw = request[p].saw
        /\ request'[q].doing = request[q].doing /\ request'[q].saw = request[q].saw
    BY <1>2 DEF Stays
  <2>2. PICK r : r = request[q].saw.login
    OBVIOUS
  <2> QED
    BY <2>1, <2>2 DEF Apart, Made
<1> QED
  BY <1>1, <1>2

\* A step that opens nothing at this desk.
LEMMA MembersGoOn ==
  ASSUME MemberInv, Shape, Shape', NEW some, Touches(some), some \cap MembersTasks = {},
         \A w \in Workspaces : ws[w].status # "none" => ws'[w].status # "none",
         LoginsLast, \A p \in Requests : Considers(p)
  PROVE  /\ \A p \in Requests : MemberRequest(request[p])'
         /\ \A q, p \in Requests : q # p => Apart(request[q], request[p])'
<1>0. \A p \in Requests : MemberRequest(request[p])
  BY DEF MemberInv
<1>1. ASSUME NEW p \in Requests PROVE request'[p].doing \in some \/ (request'[p] # NoRequest => Stays(p))
  BY DEF Touches
<1>2. ASSUME NEW r, r.doing \in some PROVE r.doing \notin MembersTasks /\ r.doing \notin Making /\ ~Made(r)
  BY <1>2, Kinds DEF Made
<1>3. ASSUME NEW p \in Requests PROVE MemberRequest(request[p])'
  <2>1. CASE request'[p].doing \in some
    <3>1. PICK do : do = request'[p].doing
      OBVIOUS
    <3>2. do \notin MembersTasks
      BY <1>2, <2>1, <3>1
    <3> QED
      BY <3>1, <3>2, Kinds DEF MemberRequest
  <2>2. CASE request'[p] # NoRequest => Stays(p)
    <3>1. request'[p] # NoRequest => request'[p].overtaken \in BOOLEAN /\ request[p].overtaken \in BOOLEAN
      BY <2>2, NothingIsOpen DEF Shape, Shaped, Stays
    <3> QED
      BY <1>0, <2>2, <3>1, MembersRely
  <2> QED
    BY <1>1, <2>1, <2>2
<1>4. ASSUME NEW q \in Requests, NEW p \in Requests, q # p PROVE Apart(request[q], request[p])'
  <2>1. Apart(request[q], request[p])
    BY <1>4 DEF MemberInv
  <2>2. CASE request'[p].doing \in some \/ request'[q].doing \in some
    <3>1. PICK do, does : do = request'[p].doing /\ does = request'[q].doing
      OBVIOUS
    <3>2. \/ do \notin MembersTasks
          \/ does \notin MembersTasks
      BY <1>2, <2>2, <3>1
    <3> QED
      BY <3>1, <3>2, Kinds DEF Apart, Made
  <2>3. CASE (request'[p] # NoRequest => Stays(p)) /\ (request'[q] # NoRequest => Stays(q))
    <3>1. \A r : Made(request[q]) /\ request[q].doing = "join" /\ request[q].saw.login = r
                   => (login[r].reused => login'[r].reused)
      BY <1>0 DEF MemberRequest, Making, LoginsLast
    <3> QED
      BY <2>1, <2>3, <3>1, ApartStays
  <2> QED
    BY <1>1, <2>2, <2>3
<1> QED
  BY <1>3, <1>4

\* A request of this desk opens.
LEMMA MembersOpen ==
  ASSUME MemberInv, Shape, NEW q, NEW what \in MembersTasks, NEW about, NEW arg, NEW saw,
         Opens(q, what, about, arg, saw),
         NEW r, r = [ doing |-> what, about |-> about, arg |-> arg, saw |-> saw, overtaken |-> FALSE ],
         LoginsLast, UNCHANGED << member, ws >>, \A i : Unknown(i) => Unknown(i)',
         MemberRequest(r)',
         \A p \in Requests \ {q} : \A s : s = request[p] => Apart(r, s)' /\ Apart(s, r)'
  PROVE  /\ \A p \in Requests : MemberRequest(request[p])'
         /\ \A o, p \in Requests : o # p => Apart(request[o], request[p])'
<1>1. /\ q \in Requests /\ request'[q] = r /\ Shape'
      /\ \A p \in Requests \ {q} : request'[p] = request[p]
  BY OpensOne DEF MembersTasks
<1>2. ASSUME NEW p \in Requests \ {q} PROVE (request'[p] # NoRequest => Stays(p)) /\ Considers(p)
  BY <1>1 DEF Stays, Considers
<1>3. ASSUME NEW p \in Requests \ {q} PROVE MemberRequest(request[p])'
  <2>1. MemberRequest(request[p])
    BY DEF MemberInv
  <2>2. request'[p] # NoRequest => request'[p].overtaken \in BOOLEAN /\ request[p].overtaken \in BOOLEAN
    BY <1>1 DEF Shape, Shaped
  <2>3. \A w \in Workspaces : ws[w].status # "none" => ws'[w].status # "none"
    OBVIOUS
  <2> QED
    BY <1>2, <2>1, <2>2, <2>3, MembersRely
<1>4. MemberRequest(request[q])'
  BY <1>1, Zenon
<1>5. ASSUME NEW o \in Requests, NEW p \in Requests, o # p PROVE Apart(request[o], request[p])'
  <2>1. CASE o = q
    <3>1. PICK s : s = request[p]
      OBVIOUS
    <3>2. Apart(r, s)'
      BY <1>5, <2>1, <3>1
    <3> QED
      BY <1>1, <1>5, <2>1, <3>1, <3>2, Zenon
  <2>2. CASE p = q
    <3>1. PICK s : s = request[o]
      OBVIOUS
    <3>2. Apart(s, r)'
      BY <1>5, <2>2, <3>1
    <3> QED
      BY <1>1, <1>5, <2>2, <3>1, <3>2, Zenon
  <2>3. CASE o # q /\ p # q
    <3>1. Apart(request[o], request[p])
      BY <1>5 DEF MemberInv
    <3>2. \A x : Made(request[o]) /\ request[o].doing = "join" /\ request[o].saw.login = x
                   => (login[x].reused => login'[x].reused)
      BY DEF MemberInv, MemberRequest, Making, LoginsLast
    <3> QED
      BY <1>2, <2>3, <3>1, <3>2, ApartStays
  <2> QED
    BY <2>1, <2>2, <2>3
<1> QED
  BY <1>1, <1>3, <1>4, <1>5

\* What AnOwnerRemains says of a workspace.
KeepsALead(w) ==
  (Leads(w) # {} /\ Leads(w)' = {}) =>
    \/ OvertakenEnds \/ ws'[w].status = "deleted"
    \/ \E p \in People : member[w][p].login # 0 /\ login[member[w][p].login].reused

\* Members and logins stay what they are; some logins may be added.
LEMMA LeadsStay ==
  ASSUME MemberRows, UNCHANGED member, \A i \in 1..Len(login) : login[i].live => login'[i].live
  PROVE  \A w \in Workspaces : KeepsALead(w)
<1> SUFFICES ASSUME NEW w \in Workspaces, NEW p \in Leads(w) PROVE p \in Leads(w)'
  BY DEF KeepsALead
<1>1. p \in People /\ member[w][p].login \in 1..Len(login)
  BY DEF Leads, MemberRows
<1> QED
  BY <1>1 DEF Leads

LEMMA MembersSame ==
  ASSUME MemberInv, UNCHANGED memberVars
  PROVE  /\ MemberRows' /\ Held' /\ Single' /\ ListedFit' /\ LoginsLast
         /\ \A i : Unknown(i) => Unknown(i)'
         /\ \A w \in Workspaces : KeepsALead(w)
<1>1. MemberRows /\ Held /\ Single /\ ListedFit /\ Len(login) \in Nat
  BY DEF MemberInv, MemberRows
<1>2. \A w \in Workspaces : KeepsALead(w)
  BY <1>1, LeadsStay DEF memberVars
<1> QED
  BY <1>1, <1>2 DEF memberVars, MemberRows, Held, Single, ListedFit, LoginsLast, Unknown

\* The workspaces that do not exist go on not to.
LEMMA VacantStays ==
  ASSUME Vacant, UNCHANGED member, \A w \in Workspaces : ws[w].status # "none" => ws'[w].status # "none"
  PROVE  Vacant'
BY DEF Vacant

\* Another desk's step.
LEMMA MembersAside ==
  ASSUME MemberInv, Shape, Shape', NEW some, Touches(some), some \cap MembersTasks = {}, UNCHANGED memberVars,
         \A w \in Workspaces : ws[w].status # "none" => ws'[w].status # "none"
  PROVE  MemberInv' /\ \A w \in Workspaces : KeepsALead(w)
<1>1. \A p \in Requests : Considers(p)
  BY DEF Considers, memberVars, Unknown
<1>2. Vacant'
  BY VacantStays DEF MemberInv, memberVars
<1> QED
  BY <1>1, <1>2, MembersSame, MembersGoOn DEF MemberInv

\* What a request made itself, nobody knows; unless a sign-up took it over.
LEMMA MadeIsUnknown ==
  ASSUME NEW s, MemberRequest(s), Made(s)
  PROVE  Unknown(s.saw.login) \/ (s.doing = "join" /\ login[s.saw.login].reused)
BY DEF MemberRequest, Made

\* Nobody else knows a login that has just been made.
LEMMA FreshIsApart ==
  ASSUME NEW r, NEW s, MemberRequest(s), Len(login) \in Nat, r.doing \in Making, r.saw.login = Len(login) + 1
  PROVE  Apart(r, s)' /\ Apart(s, r)'
<1>1. s.doing \in Making \/ s.doing = "part" => s.saw.login \in 0..Len(login)
  <2>1. s.doing \in Making => s.saw.login \in 1..Len(login)
    BY DEF MemberRequest
  <2>2. s.doing = "part" => s.saw.login \in 0..Len(login)
    BY DEF MemberRequest
  <2> QED
    BY <2>1, <2>2
<1>2. s.doing \in Making \/ s.doing = "part" => s.saw.login # r.saw.login
  BY <1>1
<1> QED
  BY <1>2, Kinds DEF Apart, Made

\* A login is made, and a request opens with it.
LEMMA OpensWithALogin ==
  ASSUME MemberInv, Shape, NEW q, NEW w \in Workspaces, NEW p \in People, NEW confirmed \in BOOLEAN,
         NEW what \in Making, MakesLogin(p, confirmed), NEW n, n = Len(login) + 1, NEW saw, saw.login = n,
         what = "join" \/ what = "found" => saw.reused = FALSE, what \in Providing => confirmed,
         Opens(q, what, {w}, [ on |-> w, who |-> p ], saw),
         UNCHANGED << member, leaving, listed, ws >>
  PROVE  MemberInv' /\ \A v \in Workspaces : KeepsALead(v)
<1>1. PICK l : l = [ of |-> p, live |-> TRUE, confirmed |-> confirmed, reused |-> FALSE ]
  OBVIOUS
<1>2. l \in LoginSet /\ l.live /\ l.confirmed = confirmed /\ l.reused = FALSE
  BY <1>1 DEF LoginSet
<1>3. login' = Append(login, l)
  BY <1>1 DEF MakesLogin
<1>4. /\ MemberRows' /\ Held' /\ Single' /\ ListedFit'
      /\ Len(login)' = n /\ \A i \in 1..Len(login) : login'[i] = login[i]
      /\ \A i : Unknown(i) => Unknown(i)'
      /\ login'[n] = l /\ Unknown(n)'
  BY <1>2, <1>3, LoginMade DEF MemberInv
<1>5. Len(login) \in Nat /\ LoginsLast
  <2>1. Len(login) \in Nat
    BY DEF MemberInv, MemberRows
  <2> QED
    BY <1>4, <2>1 DEF LoginsLast
<1>6. PICK arg, r : /\ arg = [ on |-> w, who |-> p ]
                    /\ r = [ doing |-> what, about |-> {w}, arg |-> arg, saw |-> saw, overtaken |-> FALSE ]
  OBVIOUS
<1>7. /\ r.doing = what /\ r.about = {w} /\ r.arg.on = w /\ r.arg.who = p /\ r.saw = saw /\ r.overtaken = FALSE
  BY <1>6
<1>8. n \in 1..Len(login)'
  <2>1. n \in 1..n
    BY <1>5
  <2> QED
    BY <1>4, <2>1, Zenon
<1>9. MemberRequest(r)'
  <2>1. what = "join" => saw.reused = FALSE
    OBVIOUS
  <2>2. what = "found" => saw.reused = FALSE
    OBVIOUS
  <2>3. what \in Providing => login'[n].confirmed
    BY <1>2, <1>4
  <2>4. what \notin {"add", "promote", "part", "transfer"}
    BY Kinds
  <2>5. /\ r.doing \in MembersTasks =>
              r.about = {r.arg.on} /\ r.arg.on \in Workspaces /\ r.arg.who \in People
        /\ r.doing \notin {"add", "promote", "part", "transfer"}
        /\ r.saw.login \in 1..Len(login)' /\ Unknown(r.saw.login)'
    BY <1>4, <1>7, <1>8, <2>4
  <2>6. /\ r.doing = "join" => r.saw.reused \in BOOLEAN
        /\ r.doing = "found" => r.saw.reused = FALSE
        /\ r.doing \in Providing => login'[r.saw.login].confirmed
    BY <1>7, <2>1, <2>2, <2>3
  <2> QED
    BY <2>5, <2>6 DEF MemberRequest
<1>10. \A o \in Requests \ {q} : \A s : s = request[o] => Apart(r, s)' /\ Apart(s, r)'
  BY <1>5, <1>7, FreshIsApart DEF MemberInv
<1>11. Vacant'
  BY VacantStays DEF MemberInv
<1>12. \A v \in Workspaces : KeepsALead(v)
  BY <1>4, LeadsStay DEF MemberInv
<1>13. what \in MembersTasks
  BY Kinds
<1>14. Opens(q, what, {w}, arg, saw)
  BY <1>6
<1>15. /\ \A o \in Requests : MemberRequest(request[o])'
       /\ \A o, s \in Requests : o # s => Apart(request[o], request[s])'
  <2>1. \A i : Unknown(i) => Unknown(i)'
    BY <1>4
  <2>2. UNCHANGED << member, ws >>
    OBVIOUS
  <2> QED
    BY <1>5, <1>6, <1>9, <1>10, <1>13, <1>14, <2>1, <2>2, MembersOpen
<1> QED
  BY <1>4, <1>11, <1>12, <1>15 DEF MemberInv

\* A request opens that has made nothing.
LEMMA OpensOnAMember ==
  ASSUME MemberInv, Shape, NEW q, NEW what \in MembersTasks, NEW about, NEW arg, NEW saw,
         Opens(q, what, about, arg, saw), UNCHANGED memberVars, UNCHANGED ws,
         NEW r, r = [ doing |-> what, about |-> about, arg |-> arg, saw |-> saw, overtaken |-> FALSE ],
         MemberRequest(r), \A s : MemberRequest(s) => Apart(r, s) /\ Apart(s, r)
  PROVE  MemberInv' /\ \A v \in Workspaces : KeepsALead(v)
<1>1. MemberRequest(r)'
  BY DEF MemberRequest, memberVars, Unknown
<1>2. \A s : Apart(r, s) /\ Apart(s, r) => Apart(r, s)' /\ Apart(s, r)'
  BY DEF Apart, memberVars
<1>3. \A p \in Requests \ {q} : \A s : s = request[p] => Apart(r, s)' /\ Apart(s, r)'
  BY <1>2 DEF MemberInv
<1>4. Vacant'
  BY VacantStays DEF MemberInv, memberVars
<1>5. member' = member
  BY DEF memberVars
<1>6. /\ \A o \in Requests : MemberRequest(request[o])'
      /\ \A o, s \in Requests : o # s => Apart(request[o], request[s])'
  BY <1>1, <1>3, <1>5, MembersSame, MembersOpen
<1> QED
  BY <1>4, <1>6, MembersSame DEF MemberInv

\* Workspaces begin, and members are sent in: with a login, new or found.
LEMMA SomebodyIsToBeAMember ==
  ASSUME MemberInv, Shape, NEW w \in Workspaces, NEW p \in People, NEW q,
         SignUpOpens(q, p, w) \/ CreateOpens(q, p, w) \/ SendInOpens(q, w, p)
  PROVE  MemberInv' /\ \A v \in Workspaces : KeepsALead(v)
<1> DEFINE Goal == MemberInv' /\ \A v \in Workspaces : KeepsALead(v)
<1>0. PICK n : n = Len(login) + 1
  OBVIOUS
<1>1. ASSUME MakesLogin(p, FALSE), Opens(q, "join", {w}, [ on |-> w, who |-> p ], [ login |-> Len(login) + 1, reused |-> FALSE ]),
             UNCHANGED << member, leaving, listed, ws >>
      PROVE  Goal
  <2>1. PICK saw : saw = [ login |-> n, reused |-> FALSE ]
    OBVIOUS
  <2>2. saw.login = n /\ saw.reused = FALSE /\ FALSE \in BOOLEAN
    BY <2>1
  <2>3. Opens(q, "join", {w}, [ on |-> w, who |-> p ], saw)
    BY <1>0, <1>1, <2>1
  <2>4. "join" \in Making /\ "join" \notin Providing
    BY Kinds
  <2> QED
    BY <1>0, <1>1, <2>2, <2>3, <2>4, OpensWithALogin
<1>2. ASSUME MakesLogin(p, TRUE), Opens(q, "found", {w}, [ on |-> w, who |-> p ], [ login |-> Len(login) + 1, reused |-> FALSE ]),
             UNCHANGED << member, leaving, listed, ws >>
      PROVE  Goal
  <2>1. PICK saw : saw = [ login |-> n, reused |-> FALSE ]
    OBVIOUS
  <2>2. saw.login = n /\ saw.reused = FALSE /\ TRUE \in BOOLEAN
    BY <2>1
  <2>3. Opens(q, "found", {w}, [ on |-> w, who |-> p ], saw)
    BY <1>0, <1>2, <2>1
  <2>4. "found" \in Making
    BY Kinds
  <2> QED
    BY <1>0, <1>2, <2>2, <2>3, <2>4, OpensWithALogin
<1>3. CASE SendInOpens(q, w, p)
  <2>1. PICK what : what = "send in"
    BY Zenon
  <2>2. what \in Making /\ what # "join" /\ what # "found"
    BY <2>1, Zenon DEF Making
  <2>3. Opens(q, what, {w}, [ on |-> w, who |-> p ], [ login |-> Len(login) + 1 ]) /\ MakesLogin(p, TRUE)
    BY <1>3, <2>1, Zenon DEF SendInOpens
  <2>4. UNCHANGED << member, leaving, listed, tenancyVars >>
    BY <1>3, Zenon DEF SendInOpens
  <2>5. PICK saw : saw = [ login |-> n ]
    OBVIOUS
  <2>6. saw.login = n /\ TRUE \in BOOLEAN /\ UNCHANGED << member, leaving, listed, ws >>
    BY <2>4, <2>5 DEF tenancyVars
  <2>7. Opens(q, what, {w}, [ on |-> w, who |-> p ], saw)
    BY <1>0, <2>3, <2>5
  <2> QED
    BY <1>0, <2>2, <2>3, <2>6, <2>7, OpensWithALogin
<1>4. ASSUME NEW i \in Logins(p), ~login[i].confirmed, UNCHANGED login,
             Opens(q, "join", {w}, [ on |-> w, who |-> p ], [ login |-> i, reused |-> TRUE ]),
             UNCHANGED << member, leaving, listed, ws >>
      PROVE  Goal
  <2>1. PICK yes \in BOOLEAN : yes = TRUE
    OBVIOUS
  <2>2. PICK arg, saw, r : /\ arg = [ on |-> w, who |-> p ] /\ saw = [ login |-> i, reused |-> yes ]
                           /\ r = [ doing |-> "join", about |-> {w}, arg |-> arg, saw |-> saw, overtaken |-> FALSE ]
    OBVIOUS
  <2>3. /\ r.doing = "join" /\ r.about = {w} /\ r.arg.on = w /\ r.arg.who = p /\ r.overtaken = FALSE
        /\ r.saw.login = i /\ r.saw.reused = yes
    BY <2>2
  <2>4. i \in 1..Len(login)
    BY DEF MemberInv, MemberRows, Logins
  <2>5. MemberRequest(r)
    BY <2>1, <2>3, <2>4, Kinds DEF MemberRequest
  <2>6. ASSUME NEW s, MemberRequest(s) PROVE Apart(r, s) /\ Apart(s, r)
    <3>1. s.doing \in Providing => login[s.saw.login].confirmed
      BY <2>6 DEF MemberRequest
    <3> QED
      BY <1>4, <2>1, <2>3, <3>1, Kinds DEF Apart, Made
  <2>7. "join" \in MembersTasks
    BY Kinds
  <2>8. Opens(q, "join", {w}, arg, saw) /\ UNCHANGED memberVars /\ UNCHANGED ws
    BY <1>4, <2>1, <2>2 DEF memberVars
  <2> QED
    BY <2>2, <2>5, <2>6, <2>7, <2>8, OpensOnAMember
<1>5. CASE SignUpOpens(q, p, w)
  BY <1>1, <1>4, <1>5 DEF SignUpOpens, tenancyVars
<1>6. CASE CreateOpens(q, p, w)
  BY <1>2, <1>6 DEF CreateOpens, tenancyVars
<1> QED
  BY <1>3, <1>5, <1>6

\* The team is looked at.
LEMMA AMemberIsLookedAt ==
  ASSUME MemberInv, Shape, NEW w \in Workspaces, NEW p \in People, NEW q, NEW role \in MemberRoles,
         AddOpens(q, w, p, role) \/ PromoteOpens(q, w, p, role) \/ TransferOpens(q, w, p) \/ RemoveOpens(q, w, p)
  PROVE  MemberInv' /\ \A v \in Workspaces : KeepsALead(v)
<1> DEFINE Goal == MemberInv' /\ \A v \in Workspaces : KeepsALead(v)
<1>1. /\ "add" \in MembersTasks /\ "promote" \in MembersTasks /\ "transfer" \in MembersTasks /\ "part" \in MembersTasks
      /\ "add" \notin Making /\ "promote" \notin Making /\ "transfer" \notin Making /\ "part" \notin Making
      /\ "add" \notin Providing /\ "promote" \notin Providing /\ "transfer" \notin Providing /\ "part" \notin Providing
  BY Kinds
<1>2. UNCHANGED memberVars /\ UNCHANGED ws
  BY DEF AddOpens, PromoteOpens, TransferOpens, RemoveOpens, tenancyVars
<1>3. ASSUME NEW r, r.doing \in {"add", "promote", "transfer"}, NEW s PROVE Apart(r, s) /\ Apart(s, r)
  BY <1>1, <1>3, Kinds DEF Apart, Made
<1>4. CASE AddOpens(q, w, p, role)
  <2>1. PICK arg, saw, r : /\ arg = [ on |-> w, who |-> p, role |-> role ] /\ saw = NoMember
                           /\ r = [ doing |-> "add", about |-> {w}, arg |-> arg, saw |-> saw, overtaken |-> FALSE ]
    OBVIOUS
  <2>2. r.doing = "add" /\ r.about = {w} /\ r.arg.on = w /\ r.arg.who = p /\ r.arg.role = role /\ r.overtaken = FALSE
    BY <2>1
  <2>3. ws[w].status # "none" /\ Opens(q, "add", {w}, arg, saw)
    BY <1>4, <2>1 DEF AddOpens, Running
  <2>4. MemberRequest(r)
    BY <1>1, <2>2, <2>3 DEF MemberRequest
  <2>5. \A s : MemberRequest(s) => Apart(r, s) /\ Apart(s, r)
    BY <1>3, <2>2
  <2> QED
    BY <1>1, <1>2, <2>1, <2>3, <2>4, <2>5, OpensOnAMember
<1>5. CASE PromoteOpens(q, w, p, role)
  <2>1. PICK arg, saw, r : /\ arg = [ on |-> w, who |-> p, role |-> role ] /\ saw = NoMember
                           /\ r = [ doing |-> "promote", about |-> {w}, arg |-> arg, saw |-> saw, overtaken |-> FALSE ]
    OBVIOUS
  <2>2. r.doing = "promote" /\ r.about = {w} /\ r.arg.on = w /\ r.arg.who = p /\ r.arg.role = role /\ r.overtaken = FALSE
    BY <2>1
  <2>3. member[w][p].role # "owner" /\ Opens(q, "promote", {w}, arg, saw)
    BY <1>5, <2>1 DEF PromoteOpens, MayBecome
  <2>4. MemberRequest(r)
    BY <1>1, <2>2, <2>3 DEF MemberRequest
  <2>5. \A s : MemberRequest(s) => Apart(r, s) /\ Apart(s, r)
    BY <1>3, <2>2
  <2> QED
    BY <1>1, <1>2, <2>1, <2>3, <2>4, <2>5, OpensOnAMember
<1>6. CASE TransferOpens(q, w, p)
  <2>1. PICK arg, saw, r : /\ arg = [ on |-> w, who |-> p ] /\ saw = [ demoted |-> OwnersOf(w) \ {p} ]
                           /\ r = [ doing |-> "transfer", about |-> {w}, arg |-> arg, saw |-> saw, overtaken |-> FALSE ]
    OBVIOUS
  <2>2. r.doing = "transfer" /\ r.about = {w} /\ r.arg.on = w /\ r.arg.who = p /\ r.overtaken = FALSE
    BY <2>1
  <2>3. IsMember(member[w][p]) /\ member[w][p].login # 0 /\ Opens(q, "transfer", {w}, arg, saw)
    BY <1>6, <2>1 DEF TransferOpens, MayReceive
  <2>4. MemberRequest(r)
    BY <1>1, <2>2, <2>3 DEF MemberRequest
  <2>5. \A s : MemberRequest(s) => Apart(r, s) /\ Apart(s, r)
    BY <1>3, <2>2
  <2> QED
    BY <1>1, <1>2, <2>1, <2>3, <2>4, <2>5, OpensOnAMember
<1>7. CASE RemoveOpens(q, w, p)
  <2>1. PICK arg, saw, r, i :
          /\ arg = [ on |-> w, who |-> p ] /\ saw = member[w][p] /\ i = saw.login
          /\ r = [ doing |-> "part", about |-> {w}, arg |-> arg, saw |-> saw, overtaken |-> FALSE ]
    OBVIOUS
  <2>2. r.doing = "part" /\ r.about = {w} /\ r.arg.on = w /\ r.arg.who = p /\ r.saw.login = i /\ r.overtaken = FALSE
    BY <2>1
  <2>3. member[w][p].role # "owner" /\ Opens(q, "part", {w}, arg, saw)
    BY <1>7, <2>1 DEF RemoveOpens
  <2>4. i = member[w][p].login /\ i \in 0..Len(login)
    BY <2>1 DEF MemberInv, MemberRows
  <2>5. i # 0 => \A v \in Workspaces, x \in People : member[v][x].login = i => v = w /\ x = p
    BY <2>4 DEF MemberInv, Single
  <2>6. MemberRequest(r)
    BY <1>1, <2>2, <2>3, <2>4, <2>5 DEF MemberRequest
  <2>7. ASSUME NEW s, MemberRequest(s) PROVE Apart(r, s) /\ Apart(s, r)
    <3>1. Made(s) => s.saw.login # i \/ (s.doing = "join" /\ login[s.saw.login].reused)
      BY <2>4, <2>7, MadeIsUnknown DEF Unknown
    <3>2. ~Made(r) /\ r.doing # "join" /\ r.doing \notin Providing
      BY <1>1, <2>2 DEF Made
    <3> QED
      BY <2>2, <3>1, <3>2 DEF Apart
  <2> QED
    BY <1>1, <1>2, <2>1, <2>3, <2>6, <2>7, OpensOnAMember
<1> QED
  BY <1>4, <1>5, <1>6, <1>7

\* A step of this desk, or of the sweep, opens nothing.
LEMMA MemberInvGoesOn ==
  ASSUME MemberInv, Shape, Shape', Touches({}),
         \A w \in Workspaces : ws[w].status # "none" => ws'[w].status # "none",
         LoginsLast, \A p \in Requests : Considers(p),
         MemberRows', Held', Single', ListedFit', Vacant'
  PROVE  MemberInv'
<1>1. {} \cap MembersTasks = {}
  OBVIOUS
<1>2. /\ \A p \in Requests : MemberRequest(request[p])'
      /\ \A q, p \in Requests : q # p => Apart(request[q], request[p])'
  BY <1>1, MembersGoOn
<1> QED
  BY <1>2 DEF MemberInv

\* The rows of the workspace that was written are those of requests it overtook.
LEMMA OnlyItsRows ==
  ASSUME Shape, NEW w, (\E q \in Requests : Writes(q, {w})) \/ SystemWrites({w}),
         \A v \in Workspaces \ {w} : \A r \in People : member'[v][r] = member[v][r]
  PROVE  /\ Shape' /\ Touches({})
         /\ \A p \in Requests : \A v \in Workspaces :
              (request'[p] # NoRequest /\ request[p].about = {v} /\ ~request'[p].overtaken) =>
                \A r \in People : member'[v][r] = member[v][r]
<1>1. Shape' /\ Touches({})
  BY WritesOne, SystemWritesSome
<1>2. ASSUME NEW p \in Requests, request'[p] # NoRequest PROVE Marked(p, {w}) /\ request[p] # NoRequest
  BY <1>2, WritesOne, SystemWritesSome
<1>3. ASSUME NEW p \in Requests, NEW v \in Workspaces, request'[p] # NoRequest, request[p].about = {v},
             ~request'[p].overtaken
      PROVE  v # w
  <2>1. request[p].about \cap {w} = {}
    BY <1>2, <1>3 DEF Marked
  <2> QED
    BY <1>3, <2>1
<1> QED
  BY <1>1, <1>3

\* Links go and logins are about to; nothing of it was made by a request.
LEMMA LinksGoOn ==
  ASSUME MemberInv, Shape, Shape', Touches({}),
         \A w \in Workspaces : ws[w].status # "none" => ws'[w].status # "none", Vacant',
         member' \in [ Workspaces -> [ People -> MemberSet ] ],
         \A w \in Workspaces, p \in People :
           /\ member'[w][p].login \in {0, member[w][p].login}
           /\ member'[w][p].removed => member'[w][p].login = 0,
         login' \in Seq(LoginSet), Len(login)' = Len(login),
         \A i \in 1..Len(login) :
           /\ login'[i].reused = login[i].reused
           /\ login[i].confirmed => login'[i].confirmed
           /\ (login[i].live /\ i \notin leaving) => login'[i].live,
         leaving' \subseteq 1..Len(login),
         \A i \in leaving' \ leaving :
           login[i].reused \/ \A w \in Workspaces, p \in People : member'[w][p].login # i,
         \A l \in listed' \ listed :
           /\ l.on \in Workspaces /\ l.login \in 0..Len(login)
           /\ l.login # 0 => \A w \in Workspaces, p \in People : member[w][p].login = l.login => w = l.on,
         \A p \in Requests : \A v \in Workspaces :
           (request'[p] # NoRequest /\ request[p].about = {v} /\ ~request'[p].overtaken) =>
             \A r \in People : member'[v][r] = member[v][r],
         \A p \in Requests : \A i :
           (request'[p] # NoRequest /\ Made(request[p]) /\ request[p].saw.login = i /\ Unknown(i)) =>
             \/ i \notin leaving' /\ \A l \in listed' \ listed : l.login # i
             \/ request[p].doing = "join" /\ login'[i].reused
  PROVE  MemberInv'
<1>1. MemberRows /\ Held /\ Single /\ ListedFit /\ Len(login) \in Nat
  BY DEF MemberInv, MemberRows
<1>2. /\ MemberRows' /\ Held' /\ Single' /\ ListedFit'
      /\ \A i : (Unknown(i) /\ i \notin leaving' /\ \A l \in listed' \ listed : l.login # i) => Unknown(i)'
  BY <1>1, LinksGo
<1>3. LoginsLast
  BY <1>1 DEF LoginsLast
<1>4. ASSUME NEW p \in Requests PROVE Considers(p)
  <2>1. \A i : (request'[p] # NoRequest /\ Made(request[p]) /\ request[p].saw.login = i /\ Unknown(i)) =>
             Unknown(i)' \/ (request[p].doing = "join" /\ login'[i].reused)
    BY <1>2
  <2>2. \A i : i # 0 => \A w \in Workspaces, r \in People : member'[w][r].login = i => member[w][r].login = i
    OBVIOUS
  <2> QED
    BY <2>1, <2>2 DEF Considers
<1> QED
  BY <1>2, <1>3, <1>4, MemberInvGoesOn

\* A request of this desk that gives up.
LEMMA MembersGiveUp ==
  ASSUME MemberInv, Shape, NEW q \in Requests, GivesUp(q), UNCHANGED memberVars, UNCHANGED ws
  PROVE  MemberInv' /\ \A v \in Workspaces : KeepsALead(v)
<1>1. Shape' /\ Touches({})
  BY GivesUpOne
<1>2. {} \cap MembersTasks = {}
  OBVIOUS
<1> QED
  BY <1>1, <1>2, MembersAside

\* A row is added.
LEMMA AMemberIsAdded ==
  ASSUME MemberInv, Shape, NEW q \in Requests, Add(q)
  PROVE  MemberInv' /\ \A v \in Workspaces : KeepsALead(v)
<1>0. UNCHANGED << login, leaving, listed, ws >>
  BY DEF Add, tenancyVars
<1>1. CASE GivesUp(q) /\ UNCHANGED member
  BY <1>0, <1>1, MembersGiveUp DEF memberVars
<1>2. CASE ~(GivesUp(q) /\ UNCHANGED member)
  <2>1. PICK w, p, role, row : /\ w = request[q].arg.on /\ p = request[q].arg.who /\ role = request[q].arg.role
                               /\ row = [NoMember EXCEPT !.role = role]
    OBVIOUS
  <2>2. /\ request[q].doing = "add" /\ member[w][p] = NoMember /\ Writes(q, {w})
        /\ member' = [member EXCEPT ![w][p] = row]
    BY <1>2, <2>1 DEF Add, Doing
  <2>3. w \in Workspaces /\ p \in People /\ role \in MemberRoles /\ ws[w].status # "none"
    BY <2>1, <2>2, Kinds DEF MemberInv, MemberRequest
  <2>4. row \in MemberSet /\ row.login = 0 /\ row.removed = FALSE
    BY <2>1, <2>3 DEF NoMember, MemberSet
  <2>5. /\ member \in [ Workspaces -> [ People -> MemberSet ] ] /\ login \in Seq(LoginSet) /\ leaving \subseteq 1..Len(login)
        /\ \A v \in Workspaces, r \in People : member[v][r].removed => member[v][r].login = 0
    BY DEF MemberInv, MemberRows
  <2>6. /\ member' \in [ Workspaces -> [ People -> MemberSet ] ] /\ member'[w][p] = row
        /\ \A v \in Workspaces, r \in People : (v # w \/ r # p) => member'[v][r] = member[v][r]
    BY <2>2, <2>3, <2>4, <2>5
  <2>7. \A v \in Workspaces, r \in People :
          /\ member'[v][r].login \in {0, member[v][r].login}
          /\ member'[v][r].removed => member'[v][r].login = 0
    BY <2>4, <2>5, <2>6
  <2>8. Vacant'
    BY <1>0, <2>3, <2>6 DEF MemberInv, Vacant
  <2>9. MemberInv'
    <3>1. \A v \in Workspaces \ {w} : \A r \in People : member'[v][r] = member[v][r]
      BY <2>6
    <3>2. /\ Shape' /\ Touches({})
          /\ \A o \in Requests : \A v \in Workspaces :
               (request'[o] # NoRequest /\ request[o].about = {v} /\ ~request'[o].overtaken) =>
                 \A r \in People : member'[v][r] = member[v][r]
      BY <2>2, <3>1, OnlyItsRows
    <3> QED
      BY <1>0, <2>5, <2>6, <2>7, <2>8, <3>2, LinksGoOn DEF Unknown
  <2>10. ASSUME NEW v \in Workspaces, NEW r \in Leads(v) PROVE r \in Leads(v)'
    <3>1. member[v][r] # NoMember /\ r \in People
      BY DEF Leads, NoMember
    <3>2. member'[v][r] = member[v][r]
      BY <2>2, <2>6, <3>1
    <3> QED
      BY <1>0, <3>1, <3>2 DEF Leads
  <2> QED
    BY <2>9, <2>10 DEF KeepsALead
<1> QED
  BY <1>1, <1>2

\* A request links the login it has to a row that has none.
LEMMA RowLinkedOn ==
  ASSUME MemberInv, Shape, NEW q \in Requests, NEW w, NEW p, Writes(q, {w}), request[q].doing \in Making,
         NEW i, i = request[q].saw.login, NEW row, Links(w, p, row, i), member[w][p].login = 0,
         ~Made(request[q]) => login'[i].reused, Vacant',
         \A v \in Workspaces : ws[v].status # "none" => ws'[v].status # "none"
  PROVE  MemberInv' /\ \A v \in Workspaces : KeepsALead(v)
<1>0. /\ w \in Workspaces /\ p \in People
      /\ member'[w][p].login = i
      /\ Len(login)' = Len(login)
      /\ \A j \in 1..Len(login) : /\ login'[j].live = login[j].live /\ login'[j].confirmed = login[j].confirmed
                                  /\ login[j].reused => login'[j].reused
      /\ \A v \in Workspaces, r \in People : (v # w \/ r # p) => member'[v][r] = member[v][r]
  BY DEF Links
<1>1. MemberRows /\ Held /\ Single /\ ListedFit /\ Len(login) \in Nat
  BY DEF MemberInv, MemberRows
<1>2. PICK s : s = request[q]
  OBVIOUS
<1>3. MemberRequest(s) /\ i \in 1..Len(login)
  <2>1. MemberRequest(s)
    BY <1>2 DEF MemberInv
  <2> QED
    BY <1>2, <2>1 DEF MemberRequest
<1>4. Made(s) => Unknown(i) \/ (s.doing = "join" /\ login'[i].reused)
  BY <1>0, <1>2, <1>3, MadeIsUnknown
<1>5. Unknown(i) \/ login'[i].reused
  BY <1>2, <1>4
<1>6. /\ MemberRows' /\ Held' /\ Single' /\ ListedFit'
      /\ \A j : (j # i /\ Unknown(j)) => Unknown(j)'
      /\ \A v \in Workspaces, r \in People : member'[v][r].login = i => v = w /\ r = p
  BY <1>1, <1>5, RowLinked
<1>7. LoginsLast
  BY <1>0, <1>1 DEF LoginsLast
<1>8. /\ Shape' /\ Touches({}) /\ request'[q] = NoRequest
      /\ \A o \in Requests : \A v \in Workspaces :
           (request'[o] # NoRequest /\ request[o].about = {v} /\ ~request'[o].overtaken) =>
             \A r \in People : member'[v][r] = member[v][r]
  <2>1. \A v \in Workspaces \ {w} : \A r \in People : member'[v][r] = member[v][r]
    BY <1>0
  <2>2. request'[q] = NoRequest
    BY WritesOne
  <2> QED
    BY <2>1, <2>2, OnlyItsRows
<1>9. ASSUME NEW o \in Requests, request'[o] # NoRequest
      PROVE  /\ \A j : (Made(request[o]) /\ request[o].saw.login = j /\ Unknown(j)) =>
                        Unknown(j)' \/ (request[o].doing = "join" /\ login'[j].reused)
             /\ \A j : (request[o].doing = "part" /\ request[o].saw.login = j /\ j # 0) =>
                  \/ login'[j].reused
                  \/ \A v \in Workspaces, r \in People : member'[v][r].login = j => member[v][r].login = j
  <2>1. PICK u : u = request[o]
    OBVIOUS
  <2>2. Apart(s, u) /\ Apart(u, s)
    BY <1>2, <1>8, <1>9, <2>1 DEF MemberInv
  <2>3. s.doing = "join" \/ s.doing \in Providing
    BY <1>2, Kinds
  <2>4. (Made(u) /\ u.saw.login = i) => u.doing = "join" /\ login'[i].reused
    <3> SUFFICES ASSUME Made(u), u.saw.login = i PROVE u.doing = "join" /\ login'[i].reused
      OBVIOUS
    <3>1. ~Made(s)
      BY <1>2, <2>2 DEF Apart
    <3>2. s.doing = "join"
      BY <2>3, <3>1 DEF Made
    <3>3. u.doing \notin Providing
      BY <1>2, <2>2, <3>2 DEF Apart
    <3> QED
      BY <1>2, <3>1, <3>3 DEF Made
  <2>5. (u.doing = "part" /\ u.saw.login = i) => login'[i].reused
    <3> SUFFICES ASSUME u.doing = "part", u.saw.login = i, Made(s) PROVE login'[i].reused
      BY <1>2
    <3> QED
      BY <1>0, <1>2, <1>3, <2>2 DEF Apart
  <2>6. \A j : j # i => \A v \in Workspaces, r \in People : member'[v][r].login = j => member[v][r].login = j
    BY <1>0, <1>6
  <2> QED
    BY <1>6, <2>1, <2>4, <2>5, <2>6, SMTT(60)
<1>10. \A o \in Requests : Considers(o)
  BY <1>8, <1>9 DEF Considers
<1>11. MemberInv'
  BY <1>6, <1>7, <1>8, <1>10, MemberInvGoesOn
<1>12. ASSUME NEW v \in Workspaces, NEW r \in Leads(v) PROVE r \in Leads(v)'
  <2>1. r \in People /\ member[v][r].login \in 1..Len(login)
    BY <1>1 DEF Leads, MemberRows
  <2>2. member'[v][r] = member[v][r]
    BY <1>0, <2>1
  <2> QED
    BY <1>0, <2>1, <2>2 DEF Leads
<1> QED
  BY <1>11, <1>12 DEF KeepsALead

\* A workspace begins.
LEMMA AWorkspaceIsFounded ==
  ASSUME MemberInv, Shape, WorkspaceRows, NEW q \in Requests, Founds(q),
         \A v \in Workspaces : ws[v].status # "none" => ws'[v].status # "none"
  PROVE  MemberInv' /\ \A v \in Workspaces : KeepsALead(v)
<1>1. PICK w, p, i, again : /\ w = request[q].arg.on /\ p = request[q].arg.who
                            /\ i = request[q].saw.login /\ again = request[q].saw.reused
  OBVIOUS
<1>2. request[q].doing \in {"join", "found"} /\ UNCHANGED << leaving, listed >>
  BY DEF Founds
<1>3. CASE GivesUp(q) /\ UNCHANGED << ws, past, member, login >>
  BY <1>2, <1>3, MembersGiveUp DEF memberVars
<1>4. CASE ~(GivesUp(q) /\ UNCHANGED << ws, past, member, login >>)
  <2>1. /\ ws[w].status = "none" /\ ~Linked(i) /\ Writes(q, {w})
        /\ \E status \in {"trial", "active"} : Sets(w, [ws[w] EXCEPT !.status = status])
        /\ member' = [member EXCEPT ![w][p] = [ role |-> "owner", login |-> i, removed |-> FALSE ]]
        /\ login' = [login EXCEPT ![i].reused = @ \/ again]
    BY <1>1, <1>4 DEF Founds
  <2>2. request[q].doing \in Making /\ request[q].doing \in MembersTasks
    BY <1>2, Kinds
  <2>3. w \in Workspaces /\ p \in People /\ i \in 1..Len(login) /\ again \in BOOLEAN
    <3>1. PICK s : s = request[q]
      OBVIOUS
    <3>2. MemberRequest(s)
      BY <3>1 DEF MemberInv
    <3> QED
      BY <1>1, <1>2, <2>2, <3>1, <3>2 DEF MemberRequest
  <2>4. /\ member \in [ Workspaces -> [ People -> MemberSet ] ] /\ login \in Seq(LoginSet) /\ Len(login) \in Nat
        /\ \A v \in Workspaces, r \in People : member[v][r].login # i
        /\ member[w][p] = NoMember
    BY <2>1, <2>3 DEF MemberInv, MemberRows, Vacant, Linked
  <2>5. PICK row : row = [ role |-> "owner", login |-> i, removed |-> FALSE ]
    OBVIOUS
  <2>6. row \in MemberSet /\ row.login = i /\ ~row.removed /\ member' = [member EXCEPT ![w][p] = row]
    BY <2>1, <2>3, <2>4, <2>5 DEF MemberSet, MemberRoles
  <2>7. PICK so \in BOOLEAN : so = (login[i].reused \/ again)
    OBVIOUS
  <2>8. PICK l : l = [login[i] EXCEPT !.reused = so]
    OBVIOUS
  <2>9. l \in LoginSet /\ l.live = login[i].live /\ l.confirmed = login[i].confirmed /\ l.reused = so
    <3>1. login[i] \in LoginSet
      BY <2>3, <2>4
    <3> QED
      BY <2>8, <3>1 DEF LoginSet
  <2>10. login' = [login EXCEPT ![i] = l]
    <3>1. PICK f : f = login
      OBVIOUS
    <3>2. [f EXCEPT ![i].reused = @ \/ again] = [f EXCEPT ![i] = [f[i] EXCEPT !.reused = f[i].reused \/ again]]
      BY Zenon
    <3>3. [f[i] EXCEPT !.reused = f[i].reused \/ again] = l
      BY <2>7, <2>8, <3>1
    <3> QED
      BY <2>1, <3>1, <3>2, <3>3, Zenon
  <2>11. /\ login' \in Seq(LoginSet) /\ Len(login)' = Len(login) /\ login'[i].reused = so
         /\ \A j \in 1..Len(login) : /\ login'[j].live = login[j].live /\ login'[j].confirmed = login[j].confirmed
                                     /\ login[j].reused => login'[j].reused
    <3>1. login' \in Seq(LoginSet) /\ Len(login)' = Len(login)
      BY <2>3, <2>4, <2>9, <2>10
    <3>2. \A j \in 1..Len(login) : login'[j] = IF j = i THEN l ELSE login[j]
      BY <2>3, <2>4, <2>10
    <3>3. l.live = login[i].live /\ l.confirmed = login[i].confirmed /\ (login[i].reused => l.reused) /\ l.reused = so
      BY <2>7, <2>9
    <3> QED
      BY <2>3, <3>1, <3>2, <3>3
  <2>12. ~Made(request[q]) => login'[i].reused
    BY <1>1, <1>2, <2>7, <2>11, Kinds DEF Made
  <2>13. Vacant'
    <3>1. ws'[w].status # "none"
      <4>1. PICK status \in {"trial", "active"} : Sets(w, [ws[w] EXCEPT !.status = status])
        BY <2>1
      <4>2. ws' = [ws EXCEPT ![w] = [ws[w] EXCEPT !.status = status]]
        BY <4>1 DEF Sets
      <4>3. PICK old : old = ws[w] /\ TenantRow(old)
        BY <2>3 DEF WorkspaceRows
      <4>4. [old EXCEPT !.status = status] = [ status |-> status, prev |-> old.prev, asked |-> old.asked, hold |-> old.hold ]
        BY <4>3 DEF TenantRow
      <4>5. [old EXCEPT !.status = status].status = status
        BY <4>4
      <4>6. ws'[w] = [old EXCEPT !.status = status]
        BY <2>3, <4>2, <4>3 DEF WorkspaceRows
      <4> QED
        BY <4>5, <4>6
    <3>2. \A v \in Workspaces \ {w} : \A r \in People : member'[v][r] = member[v][r]
      BY <2>3, <2>4, <2>6
    <3> QED
      BY <3>1, <3>2 DEF MemberInv, Vacant
  <2>14. member[w][p].login = 0
    BY <2>4 DEF NoMember
  <2>15. /\ member' \in [ Workspaces -> [ People -> MemberSet ] ] /\ member'[w][p] = row
         /\ \A v \in Workspaces, r \in People : (v # w \/ r # p) => member'[v][r] = member[v][r]
    BY <2>3, <2>4, <2>6
  <2>16. Links(w, p, row, i)
    BY <1>2, <2>3, <2>4, <2>6, <2>11, <2>15 DEF Links
  <2> QED
    BY <1>1, <2>1, <2>2, <2>12, <2>13, <2>14, <2>16, RowLinkedOn
<1> QED
  BY <1>3, <1>4

\* A member is sent in.
LEMMA AMemberIsSentIn ==
  ASSUME MemberInv, Shape, NEW q \in Requests, SendIn(q)
  PROVE  MemberInv' /\ \A v \in Workspaces : KeepsALead(v)
<1>1. PICK what : what = "send in"
  BY Zenon
<1>2. what \in Providing
  BY <1>1, Zenon DEF Providing
<1>3. request[q].doing = what
  BY <1>1, Zenon DEF SendIn, Doing
<1>4. UNCHANGED << login, leaving, listed, tenancyVars >>
  BY Zenon DEF SendIn
<1>5. PICK w, p, i : w = request[q].arg.on /\ p = request[q].arg.who /\ i = request[q].saw.login
  OBVIOUS
<1>6. IF MayLink(member[w][p])
      THEN member' = [member EXCEPT ![w][p].login = i] /\ Writes(q, {w})
      ELSE GivesUp(q) /\ UNCHANGED member
  BY <1>5, Zenon DEF SendIn
<1>7. UNCHANGED ws
  BY <1>4 DEF tenancyVars
<1>8. CASE ~MayLink(member[w][p])
  BY <1>4, <1>6, <1>7, <1>8, MembersGiveUp DEF memberVars
<1>9. CASE MayLink(member[w][p])
  <2>1. request[q].doing \in Making /\ request[q].doing \in MembersTasks /\ Made(request[q])
    BY <1>2, <1>3, Kinds DEF Made
  <2>2. w \in Workspaces /\ p \in People /\ i \in 1..Len(login) /\ Unknown(i)
    <3>1. PICK s : s = request[q]
      OBVIOUS
    <3>2. MemberRequest(s)
      BY <3>1 DEF MemberInv
    <3> QED
      BY <1>2, <1>3, <1>5, <2>1, <3>1, <3>2 DEF MemberRequest
  <2>3. /\ member \in [ Workspaces -> [ People -> MemberSet ] ] /\ login \in Seq(LoginSet) /\ Len(login) \in Nat
        /\ \A v \in Workspaces, r \in People : member[v][r].login # i
    BY <2>2 DEF MemberInv, MemberRows, Unknown
  <2>4. PICK old, row : old = member[w][p] /\ row = [old EXCEPT !.login = i]
    OBVIOUS
  <2>5. old.role # "none" /\ ~old.removed /\ old.login = 0 /\ old \in MemberSet
    BY <1>9, <2>2, <2>3, <2>4 DEF MayLink, IsMember
  <2>6. row \in MemberSet /\ row.login = i /\ ~row.removed
    <3>1. i \in Nat
      BY <2>2, <2>3
    <3> QED
      BY <2>4, <2>5, <3>1 DEF MemberSet
  <2>7. member' = [member EXCEPT ![w][p] = row] /\ Writes(q, {w})
    BY <1>6, <1>9, <2>2, <2>3, <2>4
  <2>8. Vacant'
    <3>1. ws[w].status # "none"
      BY <2>2, <2>4, <2>5 DEF MemberInv, Vacant, NoMember
    <3>2. \A v \in Workspaces \ {w} : \A r \in People : member'[v][r] = member[v][r]
      BY <2>2, <2>3, <2>7
    <3> QED
      BY <1>7, <3>1, <3>2 DEF MemberInv, Vacant
  <2>9. /\ member' \in [ Workspaces -> [ People -> MemberSet ] ] /\ member'[w][p] = row
        /\ \A v \in Workspaces, r \in People : (v # w \/ r # p) => member'[v][r] = member[v][r]
    BY <2>2, <2>3, <2>6, <2>7
  <2>10. /\ login' \in Seq(LoginSet) /\ Len(login)' = Len(login)
         /\ \A j \in 1..Len(login) : /\ login'[j].live = login[j].live /\ login'[j].confirmed = login[j].confirmed
                                     /\ login[j].reused => login'[j].reused
    BY <1>4, <2>3
  <2>11. Links(w, p, row, i)
    BY <1>4, <2>2, <2>3, <2>6, <2>9, <2>10 DEF Links
  <2> QED
    BY <1>5, <1>7, <2>1, <2>4, <2>5, <2>7, <2>8, <2>11, RowLinkedOn
<1> QED
  BY <1>8, <1>9

\* Roles are changed, of members only.
LEMMA RowsAreSet ==
  ASSUME member \in [ Workspaces -> [ People -> MemberSet ] ], NEW w \in Workspaces, NEW some, NEW role \in MemberRoles,
         NEW rows, rows = RowsSet(w, some, role)
  PROVE  /\ rows \in [ People -> MemberSet ]
         /\ \A r \in People :
              /\ rows[r].login = member[w][r].login /\ rows[r].removed = member[w][r].removed
              /\ r \notin some \/ member[w][r].role = "none" => rows[r] = member[w][r]
              /\ r \in some /\ member[w][r].role # "none" => rows[r].role = role
<1>1. /\ rows = [ r \in People |-> rows[r] ]
      /\ \A r \in People : rows[r] = IF r \in some /\ member[w][r].role # "none"
                                     THEN [member[w][r] EXCEPT !.role = role] ELSE member[w][r]
  BY DEF RowsSet
<1>2. ASSUME NEW r \in People
      PROVE  /\ rows[r] \in MemberSet
             /\ rows[r].login = member[w][r].login /\ rows[r].removed = member[w][r].removed
             /\ r \notin some \/ member[w][r].role = "none" => rows[r] = member[w][r]
             /\ r \in some /\ member[w][r].role # "none" => rows[r].role = role
  <2>1. PICK old, new : old = member[w][r] /\ new = [old EXCEPT !.role = role]
    OBVIOUS
  <2>2. old \in MemberSet
    BY <2>1
  <2>3. new \in MemberSet /\ new.role = role /\ new.login = old.login /\ new.removed = old.removed
    BY <2>1, <2>2 DEF MemberSet
  <2> QED
    BY <1>1, <2>1, <2>2, <2>3
<1> QED
  BY <1>1, <1>2

\* The roles in a workspace change.
LEMMA RolesChange ==
  ASSUME MemberInv, Shape, NEW q \in Requests, NEW w \in Workspaces, Writes(q, {w}),
         NEW rows \in [ People -> MemberSet ], member' = [member EXCEPT ![w] = rows],
         \A r \in People :
           /\ rows[r].login = member[w][r].login /\ rows[r].removed = member[w][r].removed
           /\ member[w][r].role = "none" => rows[r] = member[w][r],
         UNCHANGED << login, leaving, listed, ws >>
  PROVE  /\ MemberInv' /\ request'[q] = NoRequest /\ \A r \in People : member'[w][r] = rows[r]
         /\ \A v \in Workspaces \ {w} : KeepsALead(v)
<1>1. /\ member \in [ Workspaces -> [ People -> MemberSet ] ] /\ login \in Seq(LoginSet) /\ leaving \subseteq 1..Len(login)
      /\ \A v \in Workspaces, r \in People : member[v][r].removed => member[v][r].login = 0
  BY DEF MemberInv, MemberRows
<1>2. /\ member' \in [ Workspaces -> [ People -> MemberSet ] ] /\ \A r \in People : member'[w][r] = rows[r]
      /\ \A v \in Workspaces \ {w} : \A r \in People : member'[v][r] = member[v][r]
  BY <1>1
<1>3. \A v \in Workspaces, r \in People :
        /\ member'[v][r].login \in {0, member[v][r].login}
        /\ member'[v][r].removed => member'[v][r].login = 0
        /\ member[v][r].role = "none" => member'[v][r] = member[v][r]
  BY <1>1, <1>2
<1>4. Vacant'
  BY <1>3 DEF MemberInv, Vacant, NoMember
<1>5. /\ Shape' /\ Touches({}) /\ request'[q] = NoRequest
      /\ \A o \in Requests : \A v \in Workspaces :
           (request'[o] # NoRequest /\ request[o].about = {v} /\ ~request'[o].overtaken) =>
             \A r \in People : member'[v][r] = member[v][r]
  <2>1. request'[q] = NoRequest
    BY WritesOne
  <2> QED
    BY <1>2, <2>1, OnlyItsRows
<1>6. MemberInv'
  BY <1>1, <1>2, <1>3, <1>4, <1>5, LinksGoOn DEF Unknown
<1>7. ASSUME NEW v \in Workspaces \ {w}, NEW r \in Leads(v) PROVE r \in Leads(v)'
  BY <1>2, <1>7 DEF Leads
<1> QED
  BY <1>2, <1>5, <1>6, <1>7 DEF KeepsALead

\* A request that was not overtaken has no excuse.
LEMMA NotOvertaken ==
  ASSUME Shape, NEW q \in Requests, request[q] # NoRequest, request'[q] = NoRequest, ~OvertakenEnds
  PROVE  ~request[q].overtaken
BY SomethingIsDone DEF OvertakenEnds

\* A member is promoted, or becomes the owner.
LEMMA AMemberIsPromoted ==
  ASSUME MemberInv, Shape, NEW q \in Requests, Promote(q)
  PROVE  MemberInv' /\ \A v \in Workspaces : KeepsALead(v)
<1>1. PICK w, p, role, demoted : /\ w = request[q].arg.on /\ p = request[q].arg.who /\ role = request[q].arg.role
                                 /\ demoted = request[q].saw.demoted
  OBVIOUS
<1>2. /\ \/ request[q].doing = "promote" /\ member' = [member EXCEPT ![w] = RowsSet(w, {p}, role)]
         \/ /\ request[q].doing = "transfer"
            /\ member' = [member EXCEPT ![w] = [RowsSet(w, demoted, "admin") EXCEPT ![p] = RowsSet(w, {p}, "owner")[p]]]
      /\ Writes(q, {w}) /\ UNCHANGED << login, leaving, listed, ws >>
  BY <1>1 DEF Promote, Doing, tenancyVars
<1>3. /\ w \in Workspaces /\ p \in People /\ request[q] # NoRequest
      /\ request[q].doing = "promote" => role \in MemberRoles
      /\ request[q].doing = "promote" /\ ~request[q].overtaken => member[w][p].role # "owner"
      /\ request[q].doing = "transfer" /\ ~request[q].overtaken =>
           member[w][p].role # "none" /\ ~member[w][p].removed /\ member[w][p].login # 0
  <2>1. PICK s : s = request[q]
    OBVIOUS
  <2>2. MemberRequest(s)
    BY <2>1 DEF MemberInv
  <2>3. s.doing \in {"promote", "transfer"} /\ s.doing \in MembersTasks
    BY <1>2, <2>1, Kinds
  <2> QED
    BY <1>1, <2>1, <2>2, <2>3, NothingIsOpen DEF MemberRequest, IsMember
<1>4. /\ member \in [ Workspaces -> [ People -> MemberSet ] ]
      /\ \A v \in Workspaces, r \in People : member[v][r].login \in 0..Len(login)
  BY DEF MemberInv, MemberRows
<1>5. CASE request[q].doing = "promote"
  <2>1. PICK rows : rows = RowsSet(w, {p}, role)
    OBVIOUS
  <2>2. /\ rows \in [ People -> MemberSet ]
        /\ \A r \in People :
              /\ rows[r].login = member[w][r].login /\ rows[r].removed = member[w][r].removed
              /\ r \notin {p} \/ member[w][r].role = "none" => rows[r] = member[w][r]
    BY <1>3, <1>4, <1>5, <2>1, RowsAreSet
  <2>3. /\ member' = [member EXCEPT ![w] = rows]
        /\ \A r \in People :
              /\ rows[r].login = member[w][r].login /\ rows[r].removed = member[w][r].removed
              /\ member[w][r].role = "none" => rows[r] = member[w][r]
    BY <1>2, <1>5, <2>1, <2>2
  <2>4. /\ MemberInv' /\ request'[q] = NoRequest /\ \A r \in People : member'[w][r] = rows[r]
        /\ \A v \in Workspaces \ {w} : KeepsALead(v)
    BY <1>2, <1>3, <2>2, <2>3, RolesChange
  <2>5. ASSUME ~OvertakenEnds, NEW r \in Leads(w) PROVE r \in Leads(w)'
    <3>1. r \in People /\ r # p
      BY <1>3, <1>5, <2>4, <2>5, NotOvertaken DEF Leads
    <3>2. member'[w][r] = member[w][r]
      BY <2>2, <2>4, <3>1
    <3> QED
      BY <1>2, <2>5, <3>1, <3>2 DEF Leads
  <2> QED
    BY <2>4, <2>5 DEF KeepsALead
<1>6. CASE request[q].doing = "transfer"
  <2>1. PICK others, one, rows : /\ others = RowsSet(w, demoted, "admin") /\ one = RowsSet(w, {p}, "owner")
                                 /\ rows = [others EXCEPT ![p] = one[p]]
    OBVIOUS
  <2>2. "admin" \in MemberRoles /\ "owner" \in MemberRoles
    BY DEF MemberRoles
  <2>3. /\ others \in [ People -> MemberSet ]
        /\ \A r \in People :
              /\ others[r].login = member[w][r].login /\ others[r].removed = member[w][r].removed
              /\ member[w][r].role = "none" => others[r] = member[w][r]
    BY <1>3, <1>4, <2>1, <2>2, RowsAreSet
  <2>4. /\ one \in [ People -> MemberSet ]
        /\ \A r \in People :
              /\ one[r].login = member[w][r].login /\ one[r].removed = member[w][r].removed
              /\ member[w][r].role = "none" => one[r] = member[w][r]
              /\ r \in {p} /\ member[w][r].role # "none" => one[r].role = "owner"
    BY <1>3, <1>4, <2>1, <2>2, RowsAreSet
  <2>5. /\ rows \in [ People -> MemberSet ] /\ rows[p] = one[p]
        /\ \A r \in People :
              /\ rows[r].login = member[w][r].login /\ rows[r].removed = member[w][r].removed
              /\ member[w][r].role = "none" => rows[r] = member[w][r]
    BY <1>3, <2>1, <2>3, <2>4, ZenonT(60)
  <2>6. member' = [member EXCEPT ![w] = rows]
    BY <1>2, <1>6, <2>1
  <2>7. /\ MemberInv' /\ request'[q] = NoRequest /\ \A r \in People : member'[w][r] = rows[r]
        /\ \A v \in Workspaces \ {w} : KeepsALead(v)
    BY <1>2, <1>3, <2>5, <2>6, RolesChange
  <2>8. ASSUME ~OvertakenEnds, \A r \in People : member[w][r].login # 0 => ~login[member[w][r].login].reused
        PROVE  p \in Leads(w)'
    <3>1. member[w][p].role # "none" /\ ~member[w][p].removed /\ member[w][p].login # 0
      BY <1>3, <1>6, <2>7, <2>8, NotOvertaken
    <3>2. login[member[w][p].login].live
      BY <1>3, <2>8, <3>1 DEF MemberInv, Held
    <3>3. member'[w][p].role = "owner" /\ member'[w][p].login = member[w][p].login /\ ~member'[w][p].removed
      BY <1>3, <2>4, <2>5, <2>7, <3>1
    <3> QED
      BY <1>2, <1>3, <3>1, <3>2, <3>3 DEF Leads
  <2> QED
    BY <2>7, <2>8 DEF KeepsALead
<1> QED
  BY <1>2, <1>5, <1>6

\* A member is removed.
LEMMA AMemberIsRemoved ==
  ASSUME MemberInv, Shape, NEW q \in Requests, Remove(q)
  PROVE  MemberInv' /\ \A v \in Workspaces : KeepsALead(v)
<1>0. UNCHANGED << login, listed, ws >>
  BY DEF Remove, tenancyVars
<1>1. PICK w, p, i : w = request[q].arg.on /\ p = request[q].arg.who /\ i = request[q].saw.login
  OBVIOUS
<1>2. CASE GivesUp(q) /\ UNCHANGED << member, leaving >>
  BY <1>0, <1>2, MembersGiveUp DEF memberVars
<1>3. CASE ~(GivesUp(q) /\ UNCHANGED << member, leaving >>)
  <2>1. /\ request[q].doing = "part" /\ member[w][p].role # "none" /\ Writes(q, {w})
        /\ member' = [member EXCEPT ![w][p].login = 0, ![w][p].removed = TRUE]
        /\ leaving' = leaving \union ({i} \ {0})
    BY <1>1, <1>3 DEF Remove, Doing
  <2>2. PICK s : s = request[q]
    OBVIOUS
  <2>3. MemberRequest(s) /\ s.doing = "part" /\ s.doing \in MembersTasks
    BY <2>1, <2>2, Kinds DEF MemberInv
  <2>4. /\ w \in Workspaces /\ p \in People /\ i \in 0..Len(login) /\ request[q] # NoRequest
        /\ i # 0 => \/ login[i].reused
                    \/ \A v \in Workspaces, r \in People : member[v][r].login = i => v = w /\ r = p
        /\ ~request[q].overtaken => member[w][p].role # "owner"
    BY <1>1, <2>2, <2>3, NothingIsOpen DEF MemberRequest
  <2>5. /\ member \in [ Workspaces -> [ People -> MemberSet ] ] /\ login \in Seq(LoginSet) /\ leaving \subseteq 1..Len(login)
        /\ \A v \in Workspaces, r \in People : member[v][r].removed => member[v][r].login = 0
        /\ Len(login) \in Nat
    BY DEF MemberInv, MemberRows
  <2>0. PICK yes \in BOOLEAN : yes = TRUE
    OBVIOUS
  <2>6. PICK old, unlinked, row :
          old = member[w][p] /\ unlinked = [old EXCEPT !.login = 0] /\ row = [unlinked EXCEPT !.removed = yes]
    OBVIOUS
  <2>7. old \in MemberSet
    BY <2>4, <2>5, <2>6
  <2>8. unlinked \in MemberSet /\ unlinked.login = 0
    BY <2>6, <2>7 DEF MemberSet
  <2>9. row \in MemberSet /\ row.login = 0
    BY <2>6, <2>8 DEF MemberSet
  <2>10. member' = [member EXCEPT ![w][p] = row]
    BY <2>0, <2>1, <2>4, <2>5, <2>6
  <2>11. /\ member' \in [ Workspaces -> [ People -> MemberSet ] ] /\ member'[w][p] = row
         /\ \A v \in Workspaces, r \in People : (v # w \/ r # p) => member'[v][r] = member[v][r]
    BY <2>4, <2>5, <2>9, <2>10
  <2>12. \A v \in Workspaces, r \in People :
           /\ member'[v][r].login \in {0, member[v][r].login}
           /\ member'[v][r].removed => member'[v][r].login = 0
    BY <2>5, <2>9, <2>11
  <2>13. Vacant'
    <3>1. ws[w].status # "none"
      BY <2>1, <2>4 DEF MemberInv, Vacant, NoMember
    <3> QED
      BY <1>0, <2>11, <3>1 DEF MemberInv, Vacant
  <2>14. /\ Shape' /\ Touches({}) /\ request'[q] = NoRequest
         /\ \A o \in Requests : \A v \in Workspaces :
              (request'[o] # NoRequest /\ request[o].about = {v} /\ ~request'[o].overtaken) =>
                \A r \in People : member'[v][r] = member[v][r]
    <3>1. \A v \in Workspaces \ {w} : \A r \in People : member'[v][r] = member[v][r]
      BY <2>11
    <3>2. request'[q] = NoRequest
      BY <2>1, WritesOne
    <3> QED
      BY <2>1, <3>1, <3>2, OnlyItsRows, ZenonT(60)
  <2>15. leaving' \subseteq 1..Len(login)
    BY <2>1, <2>4, <2>5
  <2>16. \A j \in leaving' \ leaving : login[j].reused \/ \A v \in Workspaces, r \in People : member'[v][r].login # j
    <3> SUFFICES ASSUME i # 0, ~login[i].reused PROVE \A v \in Workspaces, r \in People : member'[v][r].login # i
      BY <2>1
    <3> QED
      BY <2>4, <2>9, <2>11
  <2>17. \A o \in Requests : \A j :
           (request'[o] # NoRequest /\ Made(request[o]) /\ request[o].saw.login = j /\ Unknown(j)) =>
             \/ j \notin leaving' /\ \A l \in listed' \ listed : l.login # j
             \/ request[o].doing = "join" /\ login'[j].reused
    <3> SUFFICES ASSUME NEW o \in Requests, NEW j, request'[o] # NoRequest, Made(request[o]), request[o].saw.login = j,
                        Unknown(j), j \in leaving'
                 PROVE  request[o].doing = "join" /\ login'[j].reused
      BY <1>0
    <3>1. j = i
      BY <2>1 DEF Unknown
    <3>2. o # q
      BY <2>14
    <3>3. Apart(request[o], request[q])
      BY <3>2 DEF MemberInv
    <3> QED
      BY <1>0, <1>1, <2>1, <3>1, <3>3 DEF Apart
  <2>18. MemberInv'
    BY <1>0, <2>5, <2>11, <2>12, <2>13, <2>14, <2>15, <2>16, <2>17, LinksGoOn
  <2>19. ASSUME NEW v \in Workspaces, ~OvertakenEnds, NEW r \in Leads(v) PROVE r \in Leads(v)'
    <3>1. r \in People /\ (v # w \/ r # p)
      BY <2>4, <2>14, <2>19, NotOvertaken DEF Leads
    <3>2. member'[v][r] = member[v][r]
      BY <2>11, <3>1
    <3> QED
      BY <1>0, <2>19, <3>1, <3>2 DEF Leads
  <2> QED
    BY <2>18, <2>19 DEF KeepsALead
<1> QED
  BY <1>2, <1>3

\* Nothing is read or written; logins, and what is to become of them, change.
LEMMA OnlyLoginsChange ==
  ASSUME MemberInv, Shape, Shape', Touches({}), UNCHANGED << member, ws >>,
         login' \in Seq(LoginSet), Len(login)' = Len(login),
         \A i \in 1..Len(login) :
           /\ login'[i].reused = login[i].reused
           /\ login[i].confirmed => login'[i].confirmed
           /\ (login[i].live /\ i \notin leaving) => login'[i].live,
         leaving' \subseteq leaving,
         \A l \in listed' \ listed : l.on \in Workspaces /\ \E p \in People : l.login = member[l.on][p].login
  PROVE  MemberInv' /\ \A v \in Workspaces : KeepsALead(v)
<1>1. /\ member \in [ Workspaces -> [ People -> MemberSet ] ] /\ leaving \subseteq 1..Len(login)
      /\ \A w \in Workspaces, p \in People :
           member[w][p].login \in 0..Len(login) /\ (member[w][p].removed => member[w][p].login = 0)
  BY DEF MemberInv, MemberRows
<1>2. \A l \in listed' \ listed :
        /\ l.on \in Workspaces /\ l.login \in 0..Len(login)
        /\ l.login # 0 => \A w \in Workspaces, p \in People : member[w][p].login = l.login => w = l.on
  BY <1>1 DEF MemberInv, Single
<1>3. ASSUME NEW i, Unknown(i) PROVE i \notin leaving' /\ \A l \in listed' \ listed : l.login # i
  BY <1>3 DEF Unknown
<1>4. Vacant'
  BY DEF MemberInv, Vacant
<1>5. MemberInv'
  <2>1. \A w \in Workspaces, p \in People :
          /\ member'[w][p].login \in {0, member[w][p].login}
          /\ member'[w][p].removed => member'[w][p].login = 0
    BY <1>1
  <2>2. \A i \in leaving' \ leaving :
          login[i].reused \/ \A w \in Workspaces, p \in People : member'[w][p].login # i
    OBVIOUS
  <2>3. \A p \in Requests : \A i :
          (request'[p] # NoRequest /\ Made(request[p]) /\ request[p].saw.login = i /\ Unknown(i)) =>
            \/ i \notin leaving' /\ \A l \in listed' \ listed : l.login # i
            \/ request[p].doing = "join" /\ login'[i].reused
    BY <1>3
  <2>4. /\ member' \in [ Workspaces -> [ People -> MemberSet ] ] /\ leaving' \subseteq 1..Len(login)
        /\ \A w \in Workspaces : ws[w].status # "none" => ws'[w].status # "none"
        /\ \A p \in Requests : \A v \in Workspaces :
             (request'[p] # NoRequest /\ request[p].about = {v} /\ ~request'[p].overtaken) =>
               \A r \in People : member'[v][r] = member[v][r]
    BY <1>1
  <2> QED
    BY <1>2, <1>4, <2>1, <2>2, <2>3, <2>4, LinksGoOn
<1>6. ASSUME NEW v \in Workspaces, NEW r \in Leads(v),
             \A p \in People : member[v][p].login # 0 => ~login[member[v][p].login].reused
      PROVE  r \in Leads(v)'
  <2>1. r \in People /\ member[v][r].login \in 1..Len(login) /\ login[member[v][r].login].live
    BY <1>1 DEF Leads
  <2>2. member[v][r].login \notin leaving
    BY <1>6, <2>1 DEF MemberInv, Held
  <2>3. login'[member[v][r].login].live
    BY <2>1, <2>2
  <2> QED
    BY <2>1, <2>3 DEF Leads
<1> QED
  BY <1>5, <1>6 DEF KeepsALead

\* An address is confirmed; a login goes.
LEMMA ALoginChanges ==
  ASSUME MemberInv, Shape, NEW i \in DOMAIN login, Confirms(i) \/ LoginGoes(i)
  PROVE  MemberInv' /\ \A v \in Workspaces : KeepsALead(v)
<1>1. login \in Seq(LoginSet) /\ Len(login) \in Nat /\ i \in 1..Len(login) /\ login[i] \in LoginSet
  BY DEF MemberInv, MemberRows
<1>2. CASE Confirms(i)
  <2>1. PICK what : what = "confirm address"
    BY Zenon
  <2>2. Acts(what) /\ UNCHANGED << request, member, leaving, listed, tenancyVars >>
    BY <1>2, <2>1, Zenon DEF Confirms
  <2>3. login' = [login EXCEPT ![i].confirmed = TRUE]
    BY <1>2, Zenon DEF Confirms
  <2>4. PICK yes \in BOOLEAN : yes = TRUE
    OBVIOUS
  <2>5. PICK l : l = [login[i] EXCEPT !.confirmed = yes]
    OBVIOUS
  <2>6. l \in LoginSet /\ l.live = login[i].live /\ l.confirmed = yes /\ l.reused = login[i].reused
    BY <1>1, <2>5 DEF LoginSet
  <2>7. login' = [login EXCEPT ![i] = l]
    BY <2>3, <2>4, <2>5
  <2>8. /\ login' \in Seq(LoginSet) /\ Len(login)' = Len(login)
        /\ \A j \in 1..Len(login) : login'[j] = IF j = i THEN l ELSE login[j]
    BY <1>1, <2>6, <2>7
  <2>9. \A j \in 1..Len(login) :
          /\ login'[j].reused = login[j].reused
          /\ login[j].confirmed => login'[j].confirmed
          /\ (login[j].live /\ j \notin leaving) => login'[j].live
    BY <2>4, <2>6, <2>8
  <2>10. Shape' /\ Touches({})
    BY <2>2, ActsStay
  <2> QED
    BY <2>2, <2>8, <2>9, <2>10, OnlyLoginsChange DEF tenancyVars
<1>3. CASE LoginGoes(i)
  <2>1. /\ i \in leaving /\ leaving' = leaving \ {i}
        /\ (login' = [login EXCEPT ![i].live = FALSE]) \/ UNCHANGED login
        /\ UNCHANGED << deskVars, member, listed, ws >>
    BY <1>3 DEF LoginGoes, tenancyVars
  <2>2. PICK no \in BOOLEAN : no = FALSE
    OBVIOUS
  <2>3. PICK l : l = [login[i] EXCEPT !.live = no]
    OBVIOUS
  <2>4. l \in LoginSet /\ l.live = no /\ l.confirmed = login[i].confirmed /\ l.reused = login[i].reused
    BY <1>1, <2>3 DEF LoginSet
  <2>5. login' = [login EXCEPT ![i] = l] \/ login' = login
    BY <2>1, <2>2, <2>3
  <2>6. /\ login' \in Seq(LoginSet) /\ Len(login)' = Len(login)
        /\ \A j \in 1..Len(login) : login'[j] = login[j] \/ (j = i /\ login'[j] = l)
    <3>1. CASE login' = login
      BY <1>1, <3>1
    <3>2. CASE login' = [login EXCEPT ![i] = l]
      BY <1>1, <2>4, <3>2
    <3> QED
      BY <2>5, <3>1, <3>2
  <2>7. \A j \in 1..Len(login) :
          /\ login'[j].reused = login[j].reused
          /\ login[j].confirmed => login'[j].confirmed
          /\ (login[j].live /\ j \notin leaving) => login'[j].live
    BY <2>1, <2>4, <2>6
  <2>8. Shape' /\ Touches({})
    BY <2>1, AllStay DEF deskVars
  <2> QED
    BY <2>1, <2>6, <2>7, <2>8, OnlyLoginsChange
<1> QED
  BY <1>2, <1>3

LEMMA MembersStepHolds ==
  ASSUME MemberInv, Shape, WorkspaceRows, MembersStep,
         \A v \in Workspaces : ws[v].status # "none" => ws'[v].status # "none"
  PROVE  MemberInv' /\ \A v \in Workspaces : KeepsALead(v)
<1> DEFINE Goal == MemberInv' /\ \A v \in Workspaces : KeepsALead(v)
<1>1. ASSUME NEW q \in Requests, Founds(q) \/ Add(q) \/ SendIn(q) \/ Promote(q) \/ Remove(q) PROVE Goal
  BY <1>1, AWorkspaceIsFounded, AMemberIsAdded, AMemberIsSentIn, AMemberIsPromoted, AMemberIsRemoved
<1>2. ASSUME NEW i \in DOMAIN login, Confirms(i) \/ LoginGoes(i) PROVE Goal
  BY <1>2, ALoginChanges
<1>3. ASSUME NEW w \in Workspaces, NEW p \in People, NEW q,
             SignUpOpens(q, p, w) \/ CreateOpens(q, p, w) \/ SendInOpens(q, w, p)
      PROVE  Goal
  BY <1>3, SomebodyIsToBeAMember
<1>4. ASSUME NEW w \in Workspaces, NEW p \in People, NEW q, TransferOpens(q, w, p) \/ RemoveOpens(q, w, p)
      PROVE  Goal
  <2>1. PICK role \in MemberRoles : TRUE
    BY DEF MemberRoles
  <2> QED
    BY <1>4, <2>1, AMemberIsLookedAt
<1>5. ASSUME NEW w \in Workspaces, NEW p \in People, NEW q, NEW role \in MemberRoles,
             AddOpens(q, w, p, role) \/ PromoteOpens(q, w, p, role)
      PROVE  Goal
  BY <1>5, AMemberIsLookedAt
<1>6. ASSUME NEW w \in Workspaces, NEW p \in People,
             \/ \E q \in Starting("join") : SignUpOpens(q, p, w)
             \/ \E q \in Starting("found") : CreateOpens(q, p, w)
             \/ \E q \in Starting("add"), role \in MemberRoles : AddOpens(q, w, p, role)
             \/ \E q \in Starting("send in") : SendInOpens(q, w, p)
             \/ \E q \in Starting("promote"), role \in MemberRoles : PromoteOpens(q, w, p, role)
             \/ \E q \in Starting("transfer") : TransferOpens(q, w, p)
             \/ \E q \in Starting("part") : RemoveOpens(q, w, p)
      PROVE  Goal
  <2> HIDE DEF Goal
  <2> QED
    BY <1>3, <1>4, <1>5, <1>6, Zenon
<1> HIDE DEF Goal
<1>7. Goal
  BY <1>1, <1>2, <1>6, Zenon DEF MembersStep
<1> QED
  BY <1>7 DEF Goal

\* The rows of a workspace that is erased go, and then their logins.
LEMMA AWorkspaceIsEmptied ==
  ASSUME MemberInv, Shape, WorkspaceRows, NEW w, Erases(w), Empties(w),
         \A v \in Workspaces : ws[v].status # "none" => ws'[v].status # "none"
  PROVE  MemberInv' /\ \A v \in Workspaces : KeepsALead(v)
<1>1. /\ member \in [ Workspaces -> [ People -> MemberSet ] ] /\ login \in Seq(LoginSet) /\ leaving \subseteq 1..Len(login)
      /\ \A v \in Workspaces, p \in People : member[v][p].removed => member[v][p].login = 0
      /\ \A l \in listed : l.on \in Workspaces /\ l.login \in 0..Len(login)
      /\ Len(login) \in Nat
  BY DEF MemberInv, MemberRows
<1>2. PICK rows : rows = [ p \in People |-> NoMember ]
  OBVIOUS
<1>3. member' = [member EXCEPT ![w] = rows] /\ UNCHANGED << login, listed >>
  BY <1>2 DEF Empties
<1>4. rows \in [ People -> MemberSet ] /\ \A p \in People : rows[p] = NoMember
  BY <1>1, <1>2 DEF MemberSet, NoMember
<1>5. /\ member' \in [ Workspaces -> [ People -> MemberSet ] ]
      /\ \A v \in Workspaces : \A p \in People : member'[v][p] = IF v = w THEN NoMember ELSE member[v][p]
  BY <1>1, <1>3, <1>4
<1>6. \A v \in Workspaces, p \in People :
        /\ member'[v][p].login \in {0, member[v][p].login}
        /\ member'[v][p].removed => member'[v][p].login = 0
  BY <1>1, <1>5 DEF NoMember
<1>7. \A i \in leaving' \ leaving : i # 0 /\ \E l \in listed : l.on = w /\ l.login = i
  BY DEF Empties
<1>8. leaving' \subseteq 1..Len(login)
  <2>1. \A i \in leaving' \ leaving : i \in 1..Len(login)
    BY <1>1, <1>7
  <2> QED
    BY <1>1, <2>1
<1>9. \A i \in leaving' \ leaving :
        login[i].reused \/ \A v \in Workspaces, p \in People : member'[v][p].login # i
  <2> SUFFICES ASSUME NEW i \in leaving' \ leaving, ~login[i].reused, NEW v \in Workspaces, NEW p \in People
               PROVE  member'[v][p].login # i
    OBVIOUS
  <2>1. i # 0 /\ \A x \in Workspaces, r \in People : member[x][r].login = i => x = w
    BY <1>7 DEF MemberInv, ListedFit
  <2> QED
    BY <1>5, <2>1 DEF NoMember
<1>10. \A p \in Requests : \A i :
         (request'[p] # NoRequest /\ Made(request[p]) /\ request[p].saw.login = i /\ Unknown(i)) =>
           \/ i \notin leaving' /\ \A l \in listed' \ listed : l.login # i
           \/ request[p].doing = "join" /\ login'[i].reused
  BY <1>3, <1>7 DEF Unknown
<1>11. Vacant'
  BY <1>5 DEF MemberInv, Vacant
<1>12. /\ Shape' /\ Touches({})
       /\ \A o \in Requests : \A v \in Workspaces :
            (request'[o] # NoRequest /\ request[o].about = {v} /\ ~request'[o].overtaken) =>
              \A r \in People : member'[v][r] = member[v][r]
  <2>1. \A v \in Workspaces \ {w} : \A r \in People : member'[v][r] = member[v][r]
    BY <1>5
  <2> QED
    BY <2>1, OnlyItsRows DEF Erases
<1>13. MemberInv'
  BY <1>1, <1>3, <1>5, <1>6, <1>8, <1>9, <1>10, <1>11, <1>12, LinksGoOn
<1>14. ASSUME NEW v \in Workspaces \ {w}, NEW r \in Leads(v) PROVE r \in Leads(v)'
  BY <1>3, <1>5, <1>14 DEF Leads
<1>15. w \in Workspaces => ws'[w].status = "deleted"
  <2> SUFFICES ASSUME w \in Workspaces PROVE ws'[w].status = "deleted"
    OBVIOUS
  <2>1. PICK old, row : old = ws[w] /\ TenantRow(old) /\ row = [old EXCEPT !.status = "deleted"]
    BY DEF WorkspaceRows
  <2>2. row = [ status |-> "deleted", prev |-> old.prev, asked |-> old.asked, hold |-> old.hold ]
    BY <2>1 DEF TenantRow
  <2>3. ws' = [ws EXCEPT ![w] = row]
    BY <2>1 DEF Erases, Sets
  <2> QED
    BY <2>2, <2>3 DEF WorkspaceRows
<1> QED
  BY <1>13, <1>14, <1>15 DEF KeepsALead

LEMMA UnattendedKeepsMembers ==
  ASSUME MemberInv, Shape, WorkspaceRows,
         (Builders /\ UNCHANGED << deskVars, keptVars >>) \/ Sweep \/ Restarts \/ Time,
         \A v \in Workspaces : ws[v].status # "none" => ws'[v].status # "none"
  PROVE  MemberInv' /\ \A v \in Workspaces : KeepsALead(v)
<1> DEFINE Goal == MemberInv' /\ \A v \in Workspaces : KeepsALead(v)
<1>1. Shape' /\ Touches({})
  BY Unattended
<1>2. {} \cap MembersTasks = {}
  OBVIOUS
<1>3. ASSUME UNCHANGED memberVars PROVE Goal
  BY <1>1, <1>2, <1>3, MembersAside
<1>4. ASSUME UNCHANGED << member, login, ws >>, leaving' \subseteq leaving,
             \A l \in listed' \ listed : l.on \in Workspaces /\ \E p \in People : l.login = member[l.on][p].login
      PROVE  Goal
  <2>1. /\ login' \in Seq(LoginSet) /\ Len(login)' = Len(login)
        /\ \A i \in 1..Len(login) :
             /\ login'[i].reused = login[i].reused
             /\ login[i].confirmed => login'[i].confirmed
             /\ (login[i].live /\ i \notin leaving) => login'[i].live
    BY <1>4 DEF MemberInv, MemberRows
  <2> QED
    BY <1>1, <1>4, <2>1, OnlyLoginsChange
<1>5. CASE SweepReads
  <2>1. \A l \in LoginsOf(Overdue) : l.on \in Workspaces /\ \E p \in People : l.login = member[l.on][p].login
    BY DEF LoginsOf, Overdue
  <2> QED
    BY <1>4, <1>5, <2>1 DEF SweepReads
<1>6. CASE SweepEnds
  BY <1>4, <1>6 DEF SweepEnds
<1>7. CASE SweepBegins
  BY <1>3, <1>7 DEF SweepBegins
<1>8. ASSUME NEW w, Erases(w), Empties(w) PROVE Goal
  BY <1>8, AWorkspaceIsEmptied
<1>9. CASE Sweep
  BY <1>3, <1>5, <1>6, <1>7, <1>8, <1>9 DEF Sweep
<1>10. CASE Restarts
  BY <1>4, <1>10 DEF Restarts
<1>11. CASE Time
  BY <1>3, <1>11 DEF Time
<1>12. CASE UNCHANGED keptVars
  BY <1>3, <1>12 DEF keptVars
<1> QED
  BY <1>9, <1>10, <1>11, <1>12

LEMMA MemberInvHolds ==
  ASSUME MemberInv, Shape, WorkspaceRows, [Next]_vars
  PROVE  MemberInv' /\ \A v \in Workspaces : KeepsALead(v)
<1> DEFINE Goal == MemberInv' /\ \A v \in Workspaces : KeepsALead(v)
<1>0. /\ Operations \cap MembersTasks = {} /\ CouponTasks \cap MembersTasks = {} /\ LedgerTasks \cap MembersTasks = {}
      /\ TeamTasks \cap MembersTasks = {} /\ PublishingTasks \cap MembersTasks = {}
      /\ WebsiteTasks \cap MembersTasks = {} /\ {} \cap MembersTasks = {}
  BY DEF TeamTasks, Manages, Operations, CouponTasks, LedgerTasks, MembersTasks, PublishingTasks, WebsiteTasks
<1>1. Shape'
  BY ShapeHolds
<1>2. \A v \in Workspaces : ws[v].status # "none" => ws'[v].status # "none"
  BY WorkspacesStay
<1>3. ASSUME NEW some, Touches(some), some \cap MembersTasks = {}, UNCHANGED memberVars PROVE Goal
  BY <1>1, <1>2, <1>3, MembersAside
<1>4. CASE TeamStep /\ UNCHANGED keptVars
  BY <1>0, <1>3, <1>4, TeamDesk DEF keptVars
<1>5. CASE Money
  <2>1. CASE MembersStep
    BY <1>2, <2>1, MembersStepHolds
  <2>2. CASE TenancyStep /\ UNCHANGED memberVars
    BY <1>0, <1>3, <2>2, TenancyDesk
  <2>3. CASE CouponStep /\ UNCHANGED memberVars
    BY <1>0, <1>3, <2>3, CouponDesk
  <2>4. CASE LedgerStep /\ UNCHANGED memberVars
    BY <1>0, <1>3, <2>4, LedgerDesk
  <2> QED
    BY <1>5, <2>1, <2>2, <2>3, <2>4 DEF Money
<1>6. CASE PublishingStep /\ UNCHANGED keptVars
  BY <1>0, <1>3, <1>6, PublishingDesk DEF keptVars
<1>7. CASE WebsiteStep /\ UNCHANGED keptVars
  BY <1>0, <1>3, <1>7, WebsiteDesk DEF keptVars
<1>8. CASE (Builders /\ UNCHANGED << deskVars, keptVars >>) \/ Sweep \/ Restarts \/ Time
  BY <1>2, <1>8, UnattendedKeepsMembers
<1>9. CASE UNCHANGED vars
  <2>1. Touches({}) /\ UNCHANGED memberVars
    BY <1>9, AllStay DEF vars, deskVars, keptVars
  <2> QED
    BY <1>0, <1>3, <2>1
<1> QED
  BY <1>4, <1>5, <1>6, <1>7, <1>8, <1>9 DEF Next

LEMMA MembersAtFirst == Init => MemberInv
<1> SUFFICES ASSUME Init PROVE MemberInv
  OBVIOUS
<1>1. /\ member = FirstMembers /\ login = FirstLogins /\ leaving = {} /\ listed = {}
      /\ request = [ q \in Requests |-> NoRequest ]
      /\ ws = [ w \in Workspaces |-> [ status |-> FirstStatus[w], prev |-> "none", asked |-> Nobody, hold |-> "none" ] ]
  BY DEF Init, MembersInit, TenancyInit, DeskInit
<1>2. login \in Seq(LoginSet) /\ Len(login) \in Nat
  <2>1. [ of : People, live : BOOLEAN, confirmed : BOOLEAN, reused : {FALSE} ] \subseteq LoginSet
    BY DEF LoginSet
  <2>2. \A S, T : S \subseteq T => Seq(S) \subseteq Seq(T)
    OBVIOUS
  <2>3. login \in Seq(LoginSet)
    BY <1>1, <2>1, <2>2, MembersAssumption, ZenonT(60)
  <2> QED
    BY <2>3
<1>3. member \in [ Workspaces -> [ People ->
        [ role : MemberRoles \union {"none"}, login : 0..Len(login), removed : BOOLEAN ] ] ]
  BY <1>1, MembersAssumption
<1>4. member \in [ Workspaces -> [ People -> MemberSet ] ]
  <2>1. [ role : MemberRoles \union {"none"}, login : 0..Len(login), removed : BOOLEAN ] \subseteq MemberSet
    BY <1>2 DEF MemberSet
  <2> QED
    BY <1>3, <2>1
<1>5. \A w \in Workspaces, p \in People :
        /\ member[w][p].login \in 0..Len(login)
        /\ FirstStatus[w] = "none" => member[w][p] = NoMember
        /\ member[w][p].removed => member[w][p].login = 0
        /\ member[w][p].login # 0 =>
             /\ login[member[w][p].login].live
             /\ \A v \in Workspaces, r \in People : member[v][r].login = member[w][p].login => v = w /\ r = p
  BY <1>1, <1>3, MembersAssumption
<1>6. MemberRows /\ Held /\ Single /\ ListedFit
  BY <1>1, <1>2, <1>4, <1>5 DEF MemberRows, Held, Single, ListedFit
<1>7. Vacant
  BY <1>1, <1>5 DEF Vacant
<1>8. \A q \in Requests : MemberRequest(request[q]) /\ \A p \in Requests : Apart(request[q], request[p])
  BY <1>1, NobodyAsks
<1> QED
  BY <1>6, <1>7, <1>8 DEF MemberInv

----------------------------------------------------------------------------
(* What the two invariants show.                                            *)

\* Whoever is put out stays out: a session that can be used began after the last
\* deactivation or reset, and a member who was removed has no login again,
\* whatever was open at the time (team.ts, session.ts, workspace-members.ts).
THEOREM WhoIsOutStaysOut == Spec => []OutStaysOut
<1>1. Init => Shape /\ TeamInv /\ WorkspaceRows /\ MemberInv
  BY ShapeAtFirst, TeamAtFirst, WorkspacesAtFirst, MembersAtFirst
<1>2. Shape /\ TeamInv /\ WorkspaceRows /\ MemberInv /\ [Next]_vars => (Shape /\ TeamInv /\ WorkspaceRows /\ MemberInv)'
  BY ShapeHolds, TeamInvHolds, WorkspacesStay, MemberInvHolds
<1>3. TeamInv /\ MemberInv => OutStaysOut
  BY DEF TeamInv, Fresh, MemberInv, MemberRows, OutStaysOut, Usable
<1> QED
  BY <1>1, <1>2, <1>3, PTL DEF Spec

\* The panel and every workspace keep an owner who can sign in, for any number of
\* admins, members and requests; but for the exceptions the property names
\* (team.ts, workspace-members.ts, the sweep and the deletion of logins).
THEOREM AnOwnerAlwaysRemains == Spec => AnOwnerRemains
<1>1. Init => Shape /\ TeamInv /\ WorkspaceRows /\ MemberInv
  BY ShapeAtFirst, TeamAtFirst, WorkspacesAtFirst, MembersAtFirst
<1>2. Shape /\ TeamInv /\ WorkspaceRows /\ MemberInv /\ [Next]_vars => (Shape /\ TeamInv /\ WorkspaceRows /\ MemberInv)'
  BY ShapeHolds, TeamInvHolds, WorkspacesStay, MemberInvHolds
<1> DEFINE Kept ==
      /\ (Owners # {} /\ Owners' = {}) => OvertakenEnds
      /\ \A w \in Workspaces : (Leads(w) # {} /\ Leads(w)' = {}) =>
           \/ OvertakenEnds \/ ws'[w].status = "deleted"
           \/ \E p \in People : member[w][p].login # 0 /\ login[member[w][p].login].reused
<1>3. Shape /\ TeamInv /\ WorkspaceRows /\ MemberInv /\ [Next]_vars => Kept
  <2> SUFFICES ASSUME Shape, TeamInv, WorkspaceRows, MemberInv, [Next]_vars PROVE Kept
    OBVIOUS
  <2>1. (Owners # {} /\ Owners' = {}) => OvertakenEnds
    BY TeamInvHolds
  <2>2. \A w \in Workspaces : KeepsALead(w)
    BY MemberInvHolds
  <2> QED
    BY <2>1, <2>2 DEF KeepsALead
<1>4. Shape /\ TeamInv /\ WorkspaceRows /\ MemberInv /\ [Next]_vars => [Kept]_vars
  BY <1>3
<1> QED
  BY <1>1, <1>2, <1>4, PTL DEF Spec, AnOwnerRemains

----------------------------------------------------------------------------
(* Workspaces come back as they were, or are erased.                        *)

\* What the columns hold.
TenantFits(row) ==
  /\ row.status \in Open \union {"none", "deleted_pending", "deleted"} /\ row.prev \in Open \union {"none"}
  /\ row.asked \in Admins \union {Nobody}

PastRows ==
  /\ past = [ w \in Workspaces |-> past[w] ]
  /\ \A w \in Workspaces : /\ past[w] = [ was |-> past[w].was, twice |-> past[w].twice ]
                           /\ past[w].was \in Running \union {"none"} /\ past[w].twice \in BOOLEAN

\* The statuses an operation starts from.
From(what) ==
  CASE what = "suspend" -> Running
    [] what = "resume"  -> {"suspended"}
    [] what = "restore" -> {"deleted_pending"}
    [] OTHER            -> Open

\* The requests that are about the status of a workspace.
StatusTasks == Operations \union {"fail", "charge"}

\* What a request may rely on that was not overtaken since it read.
StatusRequest(r) ==
  /\ r.doing \in Operations =>
       /\ r.about = {r.arg.on} /\ r.arg.on \in Workspaces /\ r.arg.by \in Admins
       /\ r.saw.status \in From(r.doing) /\ r.saw.prev \in Open \union {"none"}
       /\ r.overtaken \/ (ws[r.arg.on].status = r.saw.status /\ ws[r.arg.on].prev = r.saw.prev)
  /\ r.doing \in {"fail", "charge"} =>
       /\ r.arg.on \in r.about /\ r.arg.on \in Workspaces
       /\ r.overtaken \/ ws[r.arg.on].status = r.saw.status

\* What runs is remembered; what is put aside knows where to go back to.
Remembered(w) ==
  /\ ws[w].status \in Running => past[w].was = ws[w].status
  /\ ws[w].status \in {"suspended", "deleted_pending"} =>
       w \in crossed \/ past[w].twice \/ (ws[w].prev = past[w].was /\ past[w].was \in Running)

\* What the sweep is about to erase was held long enough, or was let go since.
DueIsHeld(w) ==
  w \in due => w \in freed \/ w \in crossed \/ (ws[w].status = "deleted_pending" /\ ws[w].hold = "passed")

StatusRows ==
  /\ WorkspaceRows /\ PastRows /\ due \subseteq Workspaces /\ freed \subseteq Workspaces
  /\ \A w \in Workspaces : TenantFits(ws[w]) /\ Remembered(w) /\ DueIsHeld(w)

StatusInv == StatusRows /\ \A q \in Requests : StatusRequest(request[q])

\* A step may do this to a workspace whose changes never overlapped.
Lawful(w) ==
  \/ w \in crossed'
  \/ /\ (ws[w].status \notin Running \union {"none"} /\ ws'[w].status \in Running /\ ~past[w].twice) =>
          ws'[w].status = past[w].was
     /\ (ws[w].status # "deleted" /\ ws'[w].status = "deleted") =>
          w \in freed \/ (ws[w].status = "deleted_pending" /\ ws[w].hold = "passed")
     /\ ws[w].status = "deleted" => ws'[w].status = "deleted"

\* The requests keep what they rely on, when those the step overtakes are marked.
Relies(p) ==
  \/ request'[p] = NoRequest \/ request'[p].doing \notin StatusTasks
  \/ /\ Stays(p)
     /\ \A w \in Workspaces \cap request[p].about :
          request'[p].overtaken \/ (ws'[w].status = ws[w].status /\ ws'[w].prev = ws[w].prev)

LEMMA OneRelies ==
  ASSUME StatusInv, NEW p \in Requests, Relies(p)
  PROVE  StatusRequest(request[p])'
<1>1. PICK r, s : r = request[p] /\ s = request'[p]
  OBVIOUS
<1>2. StatusRequest(r)
  BY <1>1 DEF StatusInv
<1>3. CASE s = NoRequest
  <2>1. s.doing \notin StatusTasks
    BY <1>3, NothingIsOpen DEF StatusTasks, Operations
  <2> QED
    BY <1>1, <2>1 DEF StatusRequest, StatusTasks
<1>4. CASE s.doing \notin StatusTasks
  BY <1>1, <1>4 DEF StatusRequest, StatusTasks
<1>5. CASE s # NoRequest /\ s.doing \in StatusTasks
  <2>1. /\ s.doing = r.doing /\ s.about = r.about /\ s.arg = r.arg /\ s.saw = r.saw /\ (r.overtaken => s.overtaken)
        /\ \A w \in Workspaces \cap r.about :
             s.overtaken \/ (ws'[w].status = ws[w].status /\ ws'[w].prev = ws[w].prev)
    BY <1>1, <1>5 DEF Relies, Stays
  <2>2. CASE r.doing \in Operations
    <3>1. /\ r.about = {r.arg.on} /\ r.arg.on \in Workspaces /\ r.arg.by \in Admins
          /\ r.saw.status \in From(r.doing) /\ r.saw.prev \in Open \union {"none"}
          /\ r.overtaken \/ (ws[r.arg.on].status = r.saw.status /\ ws[r.arg.on].prev = r.saw.prev)
      BY <1>2, <2>2 DEF StatusRequest
    <3>2. /\ s.about = {s.arg.on} /\ s.arg.on \in Workspaces /\ s.arg.by \in Admins
          /\ s.saw.status \in From(s.doing) /\ s.saw.prev \in Open \union {"none"}
          /\ s.overtaken \/ (ws'[s.arg.on].status = s.saw.status /\ ws'[s.arg.on].prev = s.saw.prev)
      BY <2>1, <3>1
    <3>3. s.doing \notin {"fail", "charge"}
      BY <2>1, <2>2 DEF Operations
    <3> QED
      BY <1>1, <3>2, <3>3 DEF StatusRequest, From
  <2>3. CASE r.doing \in {"fail", "charge"}
    <3>1. /\ r.arg.on \in r.about /\ r.arg.on \in Workspaces
          /\ r.overtaken \/ ws[r.arg.on].status = r.saw.status
      BY <1>2, <2>3 DEF StatusRequest
    <3>2. /\ s.arg.on \in s.about /\ s.arg.on \in Workspaces
          /\ s.overtaken \/ ws'[s.arg.on].status = s.saw.status
      BY <2>1, <3>1
    <3>3. s.doing \notin Operations
      BY <2>1, <2>3 DEF Operations
    <3> QED
      BY <1>1, <3>2, <3>3 DEF StatusRequest
  <2> QED
    BY <1>5, <2>1, <2>2, <2>3 DEF StatusTasks
<1> QED
  BY <1>1, <1>3, <1>4, <1>5

\* The steps that leave the workspaces alone.
LEMMA StatusAside ==
  ASSUME StatusInv, Lasts, NEW some, some \cap StatusTasks = {}, Touches(some), UNCHANGED tenancyVars
  PROVE  StatusInv' /\ \A w \in Workspaces : Lawful(w)
<1>1. ws' = ws /\ past' = past /\ due' = due /\ freed' = freed /\ crossed \subseteq crossed'
  BY DEF tenancyVars, Lasts
<1>2. \A p \in Requests : Relies(p)
  BY <1>1 DEF Touches, Relies
<1>3. StatusRows'
  BY <1>1 DEF StatusInv, StatusRows, WorkspaceRows, PastRows, TenantRow, TenantFits, Remembered, DueIsHeld
<1>4. \A w \in Workspaces : Lawful(w)
  BY <1>1 DEF Lawful
<1> QED
  BY <1>2, <1>3, <1>4, OneRelies DEF StatusInv

\* The history of a workspace whose row is set.
LEMMA PastSets ==
  ASSUME PastRows, NEW w \in Workspaces, NEW row, Sets(w, row)
  PROVE  /\ PastRows'
         /\ past'[w].was = IF row.status \in Running THEN row.status ELSE past[w].was
         /\ past'[w].twice <=> /\ row.status \notin Running
                               /\ past[w].twice \/ (ws[w].status = "suspended" /\ row.status = "deleted_pending")
         /\ \A v \in Workspaces \ {w} : past'[v] = past[v]
<1>1. PICK so \in BOOLEAN :
        so = (/\ row.status \notin Running
              /\ past[w].twice \/ (ws[w].status = "suspended" /\ row.status = "deleted_pending"))
  OBVIOUS
<1>2. PICK wa : wa = IF row.status \in Running THEN row.status ELSE past[w].was
  OBVIOUS
<1>3. PICK new : new = [ was |-> wa, twice |-> so ]
  OBVIOUS
<1>4. past' = [past EXCEPT ![w] = new]
  BY <1>1, <1>2, <1>3 DEF Sets
<1>5. new.was = wa /\ new.twice = so /\ new = [ was |-> new.was, twice |-> new.twice ]
  BY <1>3
<1>6. wa \in Running \union {"none"}
  BY <1>2 DEF PastRows
<1>7. /\ past' = [ v \in Workspaces |-> past'[v] ] /\ past'[w] = new
      /\ \A v \in Workspaces \ {w} : past'[v] = past[v]
  BY <1>4 DEF PastRows
<1>8. PastRows'
  BY <1>1, <1>5, <1>6, <1>7 DEF PastRows
<1> QED
  BY <1>1, <1>2, <1>5, <1>7, <1>8

\* What a row may be set to, from what is known of the row there is.
Fair(w, row) ==
  \/ w \in crossed'
  \/ /\ (ws[w].status \notin Running \union {"none"} /\ row.status \in Running /\ ~past[w].twice) =>
          row.status = past[w].was
     /\ row.status \in {"suspended", "deleted_pending"} =>
          past'[w].twice \/ (row.prev = past'[w].was /\ past'[w].was \in Running)
     /\ (ws[w].status # "deleted" /\ row.status = "deleted") =>
          w \in freed \/ (ws[w].status = "deleted_pending" /\ ws[w].hold = "passed")
     /\ ws[w].status = "deleted" => row.status = "deleted"
     /\ w \in due' => w \in freed' \/ (row.status = "deleted_pending" /\ row.hold = "passed")

LEMMA ARowIsSet ==
  ASSUME StatusRows, Lasts, NEW w \in Workspaces, NEW row, TenantRow(row), TenantFits(row), Sets(w, row), Fair(w, row),
         due' \subseteq due, freed' \subseteq Workspaces, freed \ {w} \subseteq freed'
  PROVE  /\ StatusRows' /\ \A v \in Workspaces : Lawful(v)
         /\ ws'[w] = row /\ \A v \in Workspaces \ {w} : ws'[v] = ws[v]
<1>1. /\ ws' = [ v \in Workspaces |-> ws'[v] ] /\ ws'[w] = row
      /\ \A v \in Workspaces \ {w} : ws'[v] = ws[v]
  BY DEF StatusRows, WorkspaceRows, Sets
<1>2. /\ PastRows'
      /\ past'[w].was = IF row.status \in Running THEN row.status ELSE past[w].was
      /\ past'[w].twice <=> /\ row.status \notin Running
                            /\ past[w].twice \/ (ws[w].status = "suspended" /\ row.status = "deleted_pending")
      /\ \A v \in Workspaces \ {w} : past'[v] = past[v]
  BY PastSets DEF StatusRows
<1>3. crossed \subseteq crossed'
  BY DEF Lasts
<1>4. WorkspaceRows'
  BY <1>1 DEF StatusRows, WorkspaceRows, TenantRow
<1>5. \A v \in Workspaces : TenantFits(ws[v])'
  BY <1>1 DEF StatusRows, TenantFits
<1>6. \A v \in Workspaces \ {w} : Remembered(v)' /\ DueIsHeld(v)' /\ Lawful(v)
  BY <1>1, <1>2, <1>3 DEF StatusRows, Remembered, DueIsHeld, Lawful
<1>7. Remembered(w)'
  BY <1>1, <1>2, <1>3 DEF Remembered, Fair
<1>8. DueIsHeld(w)' /\ Lawful(w)
  BY <1>1 DEF DueIsHeld, Lawful, Fair
<1> QED
  BY <1>1, <1>2, <1>4, <1>5, <1>6, <1>7, <1>8 DEF StatusRows

\* It is set by a request, which overtakes the others.
LEMMA ARequestSetsARow ==
  ASSUME StatusInv, Shape, NEW q \in Requests, NEW w \in Workspaces, NEW what, w \in what, Writes(q, what),
         \A v \in Workspaces \ {w} : ws'[v] = ws[v]
  PROVE  /\ \A p \in Requests : StatusRequest(request[p])'
         /\ Lasts /\ (request[q].overtaken => w \in crossed')
<1>1. /\ Shape' /\ tasks' = tasks /\ request'[q] = NoRequest
      /\ crossed' = IF request[q].overtaken THEN crossed \union what ELSE crossed
      /\ \A p \in Requests \ {q} :
           /\ Stays(p) /\ Marked(p, what) /\ (request'[p] = NoRequest <=> request[p] = NoRequest)
  BY WritesOne
<1>2. \A p \in Requests : Relies(p)
  BY <1>1 DEF Relies, Marked
<1> QED
  BY <1>1, <1>2, OneRelies DEF Lasts

LEMMA TheSystemSetsARow ==
  ASSUME StatusInv, Shape, NEW w \in Workspaces, SystemWrites({w}), \A v \in Workspaces \ {w} : ws'[v] = ws[v]
  PROVE  \A p \in Requests : StatusRequest(request[p])'
<1>1. /\ Shape' /\ tasks' = tasks
      /\ \A p \in Requests :
           /\ Stays(p) /\ Marked(p, {w}) /\ (request'[p] = NoRequest <=> request[p] = NoRequest)
  BY SystemWritesSome
<1>2. \A p \in Requests : Relies(p)
  BY <1>1 DEF Relies, Marked
<1> QED
  BY <1>2, OneRelies

\* What was read of a row that may be gone on with.
LEMMA WhatIsLetGo ==
  ASSUME NEW saw, saw.prev \in Open \union {"none"}
  PROVE  /\ Back(saw) \in Open
         /\ saw.status = "suspended" => Back(saw) \in Running
         /\ (saw.prev \in Running /\ saw.status \notin Running) => Back(saw) = saw.prev
  BY DEF Back, Open, Running

\* An operation on a workspace: what is written fits what was read, or the
\* request was overtaken.
LEMMA AnOperationIsFair ==
  ASSUME StatusRows, NEW w \in Workspaces, NEW what \in Operations, NEW a \in Admins, NEW saw, NEW row, NEW so \in BOOLEAN,
         saw.status \in From(what), saw.prev \in Open \union {"none"},
         so \/ (ws[w].status = saw.status /\ ws[w].prev = saw.prev), so => w \in crossed',
         crossed \subseteq crossed', Sets(w, row), Becomes(what, a, saw, ws[w], row), due' = due,
         freed' = IF what = "restore" THEN freed \union (due \cap {w}) ELSE freed
  PROVE  TenantFits(row) /\ Fair(w, row)
<1>0. /\ Open = {"trial", "active", "past_due", "suspended"} /\ Running = {"trial", "active", "past_due"}
  BY DEF Open, Running
<1>1. /\ TenantFits(ws[w]) /\ Remembered(w) /\ DueIsHeld(w)
      /\ past'[w].was = IF row.status \in Running THEN row.status ELSE past[w].was
      /\ past'[w].twice <=> /\ row.status \notin Running
                            /\ past[w].twice \/ (ws[w].status = "suspended" /\ row.status = "deleted_pending")
  BY PastSets DEF StatusRows
<1>2. /\ Back(saw) \in Open
      /\ saw.status = "suspended" => Back(saw) \in Running
      /\ (saw.prev \in Running /\ saw.status \notin Running) => Back(saw) = saw.prev
  BY WhatIsLetGo
<1>3. TenantFits(row)
  BY <1>0, <1>1, <1>2 DEF Becomes, TenantFits, From, Operations
<1>4. CASE w \in crossed'
  BY <1>3, <1>4 DEF Fair
<1>5. CASE w \notin crossed'
  <2>0. ws[w].status = saw.status /\ ws[w].prev = saw.prev /\ w \notin crossed
    BY <1>5
  <2>1. CASE what = "suspend"
    <3>1. saw.status \in Running /\ row.status = "suspended" /\ row.prev = saw.status
      BY <2>1 DEF Becomes, From
    <3> QED
      BY <1>0, <1>1, <1>3, <2>0, <2>1, <3>1 DEF Fair, Remembered, DueIsHeld
  <2>2. CASE what = "resume"
    <3>1. saw.status = "suspended" /\ row.status = Back(saw) /\ row.prev = "none"
      BY <2>2 DEF Becomes, From
    <3> QED
      BY <1>0, <1>1, <1>2, <1>3, <2>0, <2>2, <3>1 DEF Fair, Remembered, DueIsHeld
  <2>3. CASE what = "restore"
    <3>1. saw.status = "deleted_pending" /\ row.status = Back(saw) /\ row.prev = "none"
      BY <2>3 DEF Becomes, From
    <3> QED
      BY <1>0, <1>1, <1>2, <1>3, <2>0, <2>3, <3>1 DEF Fair, Remembered, DueIsHeld
  <2>4. CASE what = "confirm"
    <3>1. saw.status \in Open /\ row.status = "deleted_pending" /\ row.prev = saw.status
      BY <2>4 DEF Becomes, From
    <3> QED
      BY <1>0, <1>1, <1>3, <2>0, <2>4, <3>1 DEF Fair, Remembered, DueIsHeld
  <2>5. CASE what = "plan" /\ saw.status = "trial"
    <3>1. row.status = "active"
      BY <2>5 DEF Becomes
    <3> QED
      BY <1>0, <1>1, <1>3, <2>0, <2>5, <3>1 DEF Fair, DueIsHeld
  <2>6. CASE what \in {"ask", "withdraw"} \/ (what = "plan" /\ saw.status # "trial")
    <3>1. saw.status \in Open /\ row.status = ws[w].status /\ row.prev = ws[w].prev
      BY <2>6 DEF Becomes, From
    <3> QED
      BY <1>0, <1>1, <1>3, <2>0, <2>6, <3>1 DEF Fair, Remembered, DueIsHeld
  <2> QED
    BY <2>1, <2>2, <2>3, <2>4, <2>5, <2>6 DEF Operations
<1> QED
  BY <1>3, <1>4, <1>5

LEMMA AWorkspaceIsLed ==
  ASSUME StatusInv, Shape, NEW q \in Requests, Do(q)
  PROVE  StatusInv' /\ \A v \in Workspaces : Lawful(v)
<1>1. PICK w, what, a, saw, so : /\ w = request[q].arg.on /\ what = request[q].doing /\ a = request[q].arg.by
                                 /\ saw = request[q].saw /\ so = request[q].overtaken
  OBVIOUS
<1>2. PICK row : row = Done(what, a, saw, ws[w])
  OBVIOUS
<1>3. /\ what \in Operations /\ Sets(w, row) /\ Writes(q, {w}) /\ due' = due
      /\ freed' = IF what = "restore" THEN freed \union (due \cap {w}) ELSE freed
  BY <1>1, <1>2 DEF Do
<1>4. /\ w \in Workspaces /\ a \in Admins /\ saw.status \in From(what) /\ saw.prev \in Open \union {"none"}
      /\ so \/ (ws[w].status = saw.status /\ ws[w].prev = saw.prev)
  <2>1. PICK r : r = request[q]
    OBVIOUS
  <2>2. StatusRequest(r) /\ r.doing \in Operations
    BY <1>1, <1>3, <2>1 DEF StatusInv
  <2>3. /\ r.arg.on \in Workspaces /\ r.arg.by \in Admins
        /\ r.saw.status \in From(r.doing) /\ r.saw.prev \in Open \union {"none"}
        /\ r.overtaken \/ (ws[r.arg.on].status = r.saw.status /\ ws[r.arg.on].prev = r.saw.prev)
    BY <2>2 DEF StatusRequest
  <2> QED
    BY <1>1, <2>1, <2>3, Zenon
<1>5. so \in BOOLEAN
  <2>1. request[q] # NoRequest
    BY <1>1, <1>3, NothingIsOpen DEF Operations
  <2> QED
    BY <1>1, <2>1 DEF Shape, Shaped
<1>6. StatusRows /\ WorkspaceRows /\ TenantRow(ws[w])
  BY <1>4 DEF StatusInv, StatusRows, WorkspaceRows
<1>7. TenantRow(row) /\ Becomes(what, a, saw, ws[w], row)
  BY <1>2, <1>3, <1>6, DoneRow
<1>8. \A v \in Workspaces \ {w} : ws'[v] = ws[v]
  BY <1>3, <1>4, <1>6 DEF Sets, WorkspaceRows
<1>9. /\ \A p \in Requests : StatusRequest(request[p])'
      /\ Lasts /\ (so => w \in crossed')
  BY <1>1, <1>3, <1>4, <1>8, ARequestSetsARow
<1>10. crossed \subseteq crossed'
  BY <1>9 DEF Lasts
<1>11. TenantFits(row) /\ Fair(w, row)
  BY <1>3, <1>4, <1>5, <1>6, <1>7, <1>9, <1>10, AnOperationIsFair
<1>12. due' \subseteq due /\ freed' \subseteq Workspaces /\ freed \ {w} \subseteq freed'
  BY <1>3, <1>4, <1>6 DEF StatusRows
<1>13. StatusRows' /\ \A v \in Workspaces : Lawful(v)
  BY <1>3, <1>4, <1>6, <1>7, <1>9, <1>11, <1>12, ARowIsSet
<1> QED
  BY <1>9, <1>13 DEF StatusInv

\* None of the other desks' operations is about the status.
LEMMA OtherDesks ==
  /\ TeamTasks \cap StatusTasks = {} /\ CouponTasks \cap StatusTasks = {} /\ MembersTasks \cap StatusTasks = {}
  /\ PublishingTasks \cap StatusTasks = {} /\ WebsiteTasks \cap StatusTasks = {}
<1>1. TeamTasks \cap StatusTasks = {}
  BY Zenon DEF TeamTasks, Manages, StatusTasks, Operations
<1>2. CouponTasks \cap StatusTasks = {}
  BY DEF CouponTasks, StatusTasks, Operations
<1>3. MembersTasks \cap StatusTasks = {}
  BY Zenon DEF MembersTasks, StatusTasks, Operations
<1>4. PublishingTasks \cap StatusTasks = {}
  BY DEF PublishingTasks, StatusTasks, Operations
<1>5. WebsiteTasks \cap StatusTasks = {}
  BY Zenon DEF WebsiteTasks, StatusTasks, Operations
<1> QED
  BY <1>1, <1>2, <1>3, <1>4, <1>5

\* A request about the status begins.
LEMMA StatusRequestOpens ==
  ASSUME StatusInv, Shape, NEW q, NEW what, what # "nothing", NEW about, NEW arg, NEW saw,
         Opens(q, what, about, arg, saw), UNCHANGED tenancyVars,
         StatusRequest([ doing |-> what, about |-> about, arg |-> arg, saw |-> saw, overtaken |-> FALSE ])
  PROVE  StatusInv' /\ \A w \in Workspaces : Lawful(w)
<1>1. PICK r : r = [ doing |-> what, about |-> about, arg |-> arg, saw |-> saw, overtaken |-> FALSE ]
  OBVIOUS
<1>2. /\ q \in Requests /\ request'[q] = r /\ crossed' = crossed
      /\ \A p \in Requests \ {q} : request'[p] = request[p]
  BY <1>1, OpensOne
<1>3. ws' = ws /\ past' = past /\ due' = due /\ freed' = freed
  BY DEF tenancyVars
<1>4. StatusRequest(r)
  BY <1>1
<1>5. \A p \in Requests : StatusRequest(request[p])'
  BY <1>2, <1>3, <1>4 DEF StatusInv, StatusRequest
<1>6. StatusRows'
  BY <1>2, <1>3 DEF StatusInv, StatusRows, WorkspaceRows, PastRows, TenantRow, TenantFits, Remembered, DueIsHeld
<1>7. \A w \in Workspaces : Lawful(w)
  BY <1>2, <1>3 DEF Lawful
<1> QED
  BY <1>5, <1>6, <1>7 DEF StatusInv

LEMMA AnOperationBegins ==
  ASSUME StatusInv, Shape, NEW q, NEW a \in Admins, NEW what, NEW w \in Workspaces, DoOpens(q, a, what, w)
  PROVE  StatusInv' /\ \A v \in Workspaces : Lawful(v)
<1>1. PICK arg, about, saw : arg = [ by |-> a, on |-> w ] /\ about = {w} /\ saw = ws[w]
  OBVIOUS
<1>2. /\ what \in Operations /\ MayDo(what, a, saw) /\ Opens(q, what, about, arg, saw) /\ UNCHANGED tenancyVars
      /\ arg.by = a /\ arg.on = w
  BY <1>1 DEF DoOpens
<1>3. what # "nothing" /\ what \notin {"fail", "charge"}
  BY <1>2 DEF Operations
<1>4. saw.status \in From(what)
  BY <1>2 DEF MayDo, From, Operations
<1>5. saw.prev \in Open \union {"none"}
  BY <1>1 DEF StatusInv, StatusRows, TenantFits
<1>6. PICK r : r = [ doing |-> what, about |-> about, arg |-> arg, saw |-> saw, overtaken |-> FALSE ]
  OBVIOUS
<1>7. r.doing = what /\ r.about = about /\ r.arg = arg /\ r.saw = saw
  BY <1>6
<1>8. StatusRequest(r)
  BY <1>1, <1>2, <1>3, <1>4, <1>5, <1>7 DEF StatusRequest
<1> QED
  BY <1>2, <1>3, <1>6, <1>8, StatusRequestOpens

LEMMA TenancyStepHolds ==
  ASSUME StatusInv, Shape, TenancyStep
  PROVE  StatusInv' /\ \A v \in Workspaces : Lawful(v)
BY AnOperationBegins, AWorkspaceIsLed DEF TenancyStep

\* The rows are left alone.
LEMMA RowsAlone ==
  ASSUME StatusInv, UNCHANGED tenancyVars, Lasts
  PROVE  StatusRows' /\ \A w \in Workspaces : Lawful(w)
BY DEF tenancyVars, Lasts, Lawful, StatusInv, StatusRows, WorkspaceRows, PastRows, TenantRow, TenantFits, Remembered, DueIsHeld

\* A charge that landed or failed moves a workspace between two statuses in
\* which it runs, the first of which was read.
LEMMA AChargeIsKept ==
  ASSUME StatusInv, Shape, NEW q \in Requests, request[q].doing \in {"fail", "charge"}, NEW w, w = request[q].arg.on,
         NEW what, w \in what, Writes(q, what), NEW was \in Running, NEW to \in Running,
         IF request[q].saw.status = was THEN Sets(w, [ws[w] EXCEPT !.status = to]) ELSE UNCHANGED << ws, past >>,
         due' = due, freed' = freed
  PROVE  StatusInv' /\ \A v \in Workspaces : Lawful(v)
<1>1. w \in Workspaces /\ (request[q].overtaken \/ ws[w].status = request[q].saw.status)
  BY DEF StatusInv, StatusRequest
<1>2. CASE request[q].saw.status # was
  <2>1. ws' = ws /\ past' = past
    BY <1>2
  <2>2. (\A p \in Requests : StatusRequest(request[p])') /\ Lasts
    BY <1>1, <2>1, ARequestSetsARow
  <2> QED
    BY <2>1, <2>2, RowsAlone DEF StatusInv, tenancyVars
<1>3. CASE request[q].saw.status = was
  <2>1. PICK old, row : old = ws[w] /\ row = [ws[w] EXCEPT !.status = to]
    OBVIOUS
  <2>2. Sets(w, row)
    BY <1>3, <2>1
  <2>3. StatusRows /\ WorkspaceRows /\ TenantRow(old) /\ TenantFits(old)
    BY <1>1, <2>1 DEF StatusInv, StatusRows, WorkspaceRows
  <2>4. row = [ status |-> to, prev |-> old.prev, asked |-> old.asked, hold |-> old.hold ]
    BY <2>1, <2>3 DEF TenantRow
  <2>5. TenantRow(row) /\ row.status = to /\ row.prev = old.prev /\ row.asked = old.asked
    BY <2>4 DEF TenantRow
  <2>6. \A v \in Workspaces \ {w} : ws'[v] = ws[v]
    BY <1>1, <2>2, <2>3 DEF Sets, WorkspaceRows
  <2>7. /\ \A p \in Requests : StatusRequest(request[p])'
        /\ Lasts /\ (request[q].overtaken => w \in crossed')
    BY <1>1, <2>6, ARequestSetsARow
  <2>8. TenantFits(row)
    BY <2>3, <2>5 DEF TenantFits, Open
  <2>9. to \notin {"suspended", "deleted_pending", "deleted"} /\ was # "deleted_pending" /\ was # "deleted"
    BY DEF Running
  <2>10. w \notin crossed' => ws[w].status = was /\ (w \in due' => w \in freed')
    BY <1>1, <1>3, <2>3, <2>7, <2>9 DEF StatusRows, DueIsHeld, Lasts
  <2>11. Fair(w, row)
    BY <2>5, <2>9, <2>10 DEF Fair
  <2>12. StatusRows' /\ \A v \in Workspaces : Lawful(v)
    BY <1>1, <2>2, <2>3, <2>5, <2>7, <2>8, <2>11, ARowIsSet DEF StatusRows
  <2> QED
    BY <2>7, <2>12 DEF StatusInv
<1> QED
  BY <1>2, <1>3

LEMMA AChargeBegins ==
  ASSUME StatusInv, Shape, NEW q, NEW w \in Workspaces, due' = due,
         (\E retries : FailOpens(q, w, retries)) \/ ChargeOpens(q, w)
  PROVE  StatusInv' /\ \A v \in Workspaces : Lawful(v)
<1> DEFINE Begins(what, about, arg, saw) ==
      /\ what \in {"fail", "charge"} /\ Opens(q, what, about, arg, saw)
      /\ w \in about /\ arg.on = w /\ saw.status = ws[w].status
<1>1. PICK what, about, arg, saw : Begins(what, about, arg, saw)
  <2>1. ASSUME NEW retries, FailOpens(q, w, retries)
        PROVE  Begins("fail", {w}, [ on |-> w, retries |-> retries ], ws[w])
    BY <2>1 DEF FailOpens
  <2>2. ASSUME Opens(q, "charge", {w}, [ on |-> w, code |-> NoCode ], [ status |-> ws[w].status ])
        PROVE  Begins("charge", {w}, [ on |-> w, code |-> NoCode ], [ status |-> ws[w].status ])
    BY <2>2
  <2>3. ASSUME NEW c, Opens(q, "charge", {w, c}, [ on |-> w, code |-> c ],
                            [ status |-> ws[w].status, coupon |-> coupon[c], redeemed |-> redeemed[c][w] ])
        PROVE  Begins("charge", {w, c}, [ on |-> w, code |-> c ],
                      [ status |-> ws[w].status, coupon |-> coupon[c], redeemed |-> redeemed[c][w] ])
    BY <2>3
  <2> HIDE DEF Begins
  <2> QED
    BY <2>1, <2>2, <2>3, Zenon DEF ChargeOpens
<1>2. UNCHANGED tenancyVars
  BY DEF FailOpens, ChargeOpens, tenancyVars
<1>3. what # "nothing" /\ what \notin Operations
  BY <1>1 DEF Operations
<1>4. PICK r : r = [ doing |-> what, about |-> about, arg |-> arg, saw |-> saw, overtaken |-> FALSE ]
  OBVIOUS
<1>5. r.doing = what /\ r.about = about /\ r.arg = arg /\ r.saw = saw
  BY <1>4
<1>6. StatusRequest(r)
  BY <1>1, <1>3, <1>5 DEF StatusRequest
<1> QED
  BY <1>1, <1>2, <1>3, <1>4, <1>6, StatusRequestOpens

LEMMA LedgerKeepsStatus ==
  ASSUME StatusInv, Shape, LedgerStep, due' = due
  PROVE  StatusInv' /\ \A v \in Workspaces : Lawful(v)
<1> DEFINE Goal == StatusInv' /\ \A v \in Workspaces : Lawful(v)
<1>1. "trial" \in Running /\ "active" \in Running /\ "past_due" \in Running
  BY DEF Running
<1>2. ASSUME NEW some, Shape' /\ Lasts /\ Touches(some), some \cap StatusTasks = {}, UNCHANGED << ws, past, freed >>
      PROVE  Goal
  BY <1>2, StatusAside DEF tenancyVars
<1>3. ASSUME NEW q \in Requests, Fail(q) PROVE Goal
  <2>1. PICK w : w = request[q].arg.on
    OBVIOUS
  <2> QED
    BY <1>1, <1>3, <2>1, AChargeIsKept DEF Fail, Doing
<1>4. ASSUME NEW q \in Requests, Charge(q) PROVE Goal
  <2>1. PICK w, what : w = request[q].arg.on /\ what = {w} \union ({request[q].arg.code} \ {NoCode})
    OBVIOUS
  <2> QED
    BY <1>1, <1>4, <2>1, AChargeIsKept DEF Charge, Doing
<1>5. ASSUME NEW q \in Requests, ChargeFails(q) \/ Grant(q) \/ Refund(q) \/ Retry(q) PROVE Goal
  <2>1. \E what : Writes(q, what) \/ GivesUp(q)
    BY <1>5 DEF ChargeFails, Grant, Refund, Retry
  <2>2. Shape' /\ Lasts /\ Touches({})
    BY <2>1, EndsAny
  <2>3. UNCHANGED << ws, past, freed >>
    BY <1>5 DEF ChargeFails, Grant, Refund, Retry
  <2> QED
    BY <1>2, <2>2, <2>3
<1>6. ASSUME NEW q \in Requests, RefundReads(q) PROVE Goal
  <2>1. Shape' /\ Lasts /\ Touches({"refund"})
    BY <1>6, RefundReadsOne DEF Lasts
  <2>2. {"refund"} \cap StatusTasks = {}
    BY DEF StatusTasks, Operations
  <2> QED
    BY <1>2, <1>6, <2>1, <2>2 DEF RefundReads
<1>7. ASSUME NEW q, NEW w \in Workspaces, NEW retries, FailOpens(q, w, retries) \/ ChargeOpens(q, w) PROVE Goal
  BY <1>7, AChargeBegins
<1>8. ASSUME NEW q, NEW w, NEW x, GrantOpens(q, w, x) \/ RefundOpens(q, w) \/ RetryOpens(q, w, x) PROVE Goal
  <2>1. PICK what, about, arg, saw : what \in {"grant", "refund", "retry"} /\ Opens(q, what, about, arg, saw)
    BY <1>8 DEF GrantOpens, RefundOpens, RetryOpens
  <2>2. {what} \cap StatusTasks = {} /\ what # "nothing"
    BY <2>1 DEF StatusTasks, Operations
  <2>3. Shape' /\ Lasts /\ Touches({what})
    BY <2>1, <2>2, OpensOne DEF Lasts
  <2>4. UNCHANGED << ws, past, freed >>
    BY <1>8 DEF GrantOpens, RefundOpens, RetryOpens
  <2> QED
    BY <1>2, <2>2, <2>3, <2>4
<1> QED
  BY <1>3, <1>4, <1>5, <1>6, <1>7, <1>8 DEF LedgerStep

LEMMA AWorkspaceBegins ==
  ASSUME StatusInv, Shape, NEW q \in Requests, Founds(q)
  PROVE  StatusInv' /\ \A v \in Workspaces : Lawful(v)
<1>1. PICK w : w = request[q].arg.on
  OBVIOUS
<1>2. /\ due' = due /\ freed' = freed
      /\ \/ GivesUp(q) /\ UNCHANGED << ws, past >>
         \/ /\ ws[w].status = "none" /\ Writes(q, {w})
            /\ \E status \in {"trial", "active"} : Sets(w, [ws[w] EXCEPT !.status = status])
  BY <1>1 DEF Founds
<1>3. ASSUME UNCHANGED << ws, past >>, Writes(q, {w}) \/ GivesUp(q)
      PROVE  StatusInv' /\ \A v \in Workspaces : Lawful(v)
  <2>1. Shape' /\ Lasts /\ Touches({})
    BY <1>3, EndsAny
  <2> QED
    BY <1>2, <1>3, <2>1, StatusAside DEF tenancyVars
<1>4. ASSUME w \in Workspaces, ws[w].status = "none", Writes(q, {w}),
             NEW status \in {"trial", "active"}, Sets(w, [ws[w] EXCEPT !.status = status])
      PROVE  StatusInv' /\ \A v \in Workspaces : Lawful(v)
  <2>1. PICK old, row : old = ws[w] /\ row = [ws[w] EXCEPT !.status = status]
    OBVIOUS
  <2>2. Sets(w, row)
    BY <1>4, <2>1
  <2>3. StatusRows /\ WorkspaceRows /\ TenantRow(old) /\ TenantFits(old) /\ DueIsHeld(w)
    BY <1>4, <2>1 DEF StatusInv, StatusRows, WorkspaceRows
  <2>4. row = [ status |-> status, prev |-> old.prev, asked |-> old.asked, hold |-> old.hold ]
    BY <2>1, <2>3 DEF TenantRow
  <2>5. TenantRow(row) /\ row.status = status /\ row.prev = old.prev /\ row.asked = old.asked
    BY <2>4 DEF TenantRow
  <2>6. \A v \in Workspaces \ {w} : ws'[v] = ws[v]
    BY <1>4, <2>2, <2>3 DEF Sets, WorkspaceRows
  <2>7. (\A p \in Requests : StatusRequest(request[p])') /\ Lasts
    BY <1>4, <2>6, ARequestSetsARow
  <2>8. TenantFits(row)
    BY <2>3, <2>5 DEF TenantFits, Open, Running
  <2>9. w \notin crossed' => (w \in due' => w \in freed')
    BY <1>2, <1>4, <2>3, <2>7 DEF DueIsHeld, Lasts
  <2>10. Fair(w, row)
    BY <1>4, <2>5, <2>9 DEF Fair
  <2>11. StatusRows' /\ \A v \in Workspaces : Lawful(v)
    BY <1>2, <1>4, <2>2, <2>3, <2>5, <2>7, <2>8, <2>10, ARowIsSet DEF StatusRows
  <2> QED
    BY <2>7, <2>11 DEF StatusInv
<1>5. CASE w \in Workspaces
  BY <1>2, <1>3, <1>4, <1>5
<1>6. CASE w \notin Workspaces
  <2>1. ASSUME NEW row, Sets(w, row) PROVE UNCHANGED << ws, past >>
    <3>1. ws = [ v \in Workspaces |-> ws[v] ] /\ past = [ v \in Workspaces |-> past[v] ]
      BY DEF StatusInv, StatusRows, WorkspaceRows, PastRows
    <3> QED
      BY <1>6, <2>1, <3>1 DEF Sets
  <2> QED
    BY <1>2, <1>3, <2>1
<1> QED
  BY <1>5, <1>6

LEMMA MembersKeepStatus ==
  ASSUME StatusInv, Shape, MembersStep
  PROVE  StatusInv' /\ \A v \in Workspaces : Lawful(v)
<1>1. Shape' /\ Lasts /\ Touches(MembersTasks)
  BY MembersDesk
<1>2. (\E q \in Requests : Founds(q)) \/ UNCHANGED tenancyVars
  <2>1. ASSUME NEW q \in Requests, Add(q) \/ SendIn(q) \/ Promote(q) \/ Remove(q) PROVE UNCHANGED tenancyVars
    BY <2>1 DEF Add, SendIn, Promote, Remove
  <2>2. ASSUME NEW w, NEW p, NEW q, SignUpOpens(q, p, w) \/ CreateOpens(q, p, w) \/ SendInOpens(q, w, p)
                                    \/ TransferOpens(q, w, p) \/ RemoveOpens(q, w, p)
        PROVE  UNCHANGED tenancyVars
    BY <2>2 DEF SignUpOpens, CreateOpens, SendInOpens, TransferOpens, RemoveOpens
  <2>3. ASSUME NEW w, NEW p, NEW q, NEW role, AddOpens(q, w, p, role) \/ PromoteOpens(q, w, p, role)
        PROVE  UNCHANGED tenancyVars
    BY <2>3 DEF AddOpens, PromoteOpens
  <2>4. ASSUME NEW i, Confirms(i) \/ LoginGoes(i) PROVE UNCHANGED tenancyVars
    BY <2>4 DEF Confirms, LoginGoes
  <2> QED
    BY <2>1, <2>2, <2>3, <2>4 DEF MembersStep
<1> QED
  BY <1>1, <1>2, AWorkspaceBegins, StatusAside, OtherDesks

\* The hold of a workspace is over.
LEMMA AHoldPasses ==
  ASSUME StatusInv, Shape, NEW w \in Workspaces, HoldPasses(w), UNCHANGED deskVars
  PROVE  StatusInv' /\ \A v \in Workspaces : Lawful(v)
<1>1. PICK old, row : old = ws[w] /\ row = [ws[w] EXCEPT !.hold = "passed"]
  OBVIOUS
<1>2. /\ ws' = [ws EXCEPT ![w] = row] /\ past' = past /\ due' = due /\ freed' = freed
      /\ request' = request /\ crossed' = crossed
  BY <1>1 DEF HoldPasses, deskVars
<1>3. StatusRows /\ WorkspaceRows /\ TenantRow(old) /\ TenantFits(old) /\ DueIsHeld(w) /\ Remembered(w)
  BY <1>1 DEF StatusInv, StatusRows, WorkspaceRows
<1>4. row = [ status |-> old.status, prev |-> old.prev, asked |-> old.asked, hold |-> "passed" ]
  BY <1>1, <1>3 DEF TenantRow
<1>5. TenantRow(row) /\ row.status = old.status /\ row.prev = old.prev /\ row.asked = old.asked /\ row.hold = "passed"
  BY <1>4 DEF TenantRow
<1>6. /\ ws' = [ v \in Workspaces |-> ws'[v] ] /\ ws'[w] = row
      /\ \A v \in Workspaces \ {w} : ws'[v] = ws[v]
  BY <1>2, <1>3 DEF WorkspaceRows
<1>7. \A v \in Workspaces : ws'[v].status = ws[v].status /\ ws'[v].prev = ws[v].prev
  BY <1>1, <1>5, <1>6
<1>8. \A p \in Requests : Relies(p)
  BY <1>2, <1>7 DEF Relies, Stays
<1>9. WorkspaceRows' /\ PastRows'
  BY <1>2, <1>3, <1>5, <1>6 DEF StatusRows, WorkspaceRows, PastRows, TenantRow
<1>10. \A v \in Workspaces : TenantFits(ws[v])'
  <2>1. TenantFits(row)
    BY <1>3, <1>5 DEF TenantFits
  <2>2. \A v \in Workspaces : TenantFits(ws[v])
    BY <1>3 DEF StatusRows
  <2> QED
    BY <1>6, <2>1, <2>2 DEF TenantFits
<1>11. \A v \in Workspaces : Remembered(v)' /\ Lawful(v)
  BY <1>2, <1>3, <1>7 DEF StatusRows, Remembered, Lawful
<1>12. \A v \in Workspaces : DueIsHeld(v)'
  BY <1>1, <1>2, <1>3, <1>5, <1>6 DEF StatusRows, DueIsHeld
<1>13. StatusRows'
  BY <1>2, <1>3, <1>9, <1>10, <1>11, <1>12 DEF StatusRows
<1> QED
  BY <1>8, <1>11, <1>13, OneRelies DEF StatusInv

\* The sweep lists what is due, or forgets its list.
LEMMA AListIsMade ==
  ASSUME StatusInv, Shape, Lasts, UNCHANGED << ws, past >>, freed' = {}, due' = {} \/ due' = Overdue,
         \A p \in Requests : request'[p] = NoRequest \/ request'[p] = request[p]
  PROVE  StatusInv' /\ \A v \in Workspaces : Lawful(v)
<1>1. \A p \in Requests : Relies(p)
  BY DEF Relies, Stays
<1>2. \A v \in Workspaces : DueIsHeld(v)'
  BY DEF DueIsHeld, Overdue
<1>3. due' \subseteq Workspaces /\ freed' \subseteq Workspaces
  BY DEF Overdue
<1>4. WorkspaceRows' /\ PastRows' /\ \A w \in Workspaces : TenantFits(ws[w])' /\ Remembered(w)' /\ Lawful(w)
  BY DEF StatusInv, StatusRows, WorkspaceRows, PastRows, TenantRow, TenantFits, Remembered, Lawful, Lasts
<1> QED
  BY <1>1, <1>2, <1>3, <1>4, OneRelies DEF StatusInv, StatusRows

\* A workspace on the list is erased.
LEMMA AWorkspaceIsErased ==
  ASSUME StatusInv, Shape, NEW w, Erases(w)
  PROVE  StatusInv' /\ \A v \in Workspaces : Lawful(v)
<1>1. w \in due /\ w \in Workspaces
  BY DEF Erases, StatusInv, StatusRows
<1>2. PICK old, row : old = ws[w] /\ row = [ws[w] EXCEPT !.status = "deleted"]
  OBVIOUS
<1>3. Sets(w, row) /\ due' = due \ {w} /\ freed' = freed \ {w} /\ SystemWrites({w})
  BY <1>2 DEF Erases
<1>4. StatusRows /\ WorkspaceRows /\ TenantRow(old) /\ TenantFits(old) /\ DueIsHeld(w)
  BY <1>1, <1>2 DEF StatusInv, StatusRows, WorkspaceRows
<1>5. row = [ status |-> "deleted", prev |-> old.prev, asked |-> old.asked, hold |-> old.hold ]
  BY <1>2, <1>4 DEF TenantRow
<1>6. TenantRow(row) /\ row.status = "deleted" /\ row.prev = old.prev /\ row.asked = old.asked
  BY <1>5 DEF TenantRow
<1>7. \A v \in Workspaces \ {w} : ws'[v] = ws[v]
  BY <1>1, <1>3, <1>4 DEF Sets, WorkspaceRows
<1>8. /\ \A p \in Requests : StatusRequest(request[p])'
      /\ crossed' = crossed /\ Lasts
  BY <1>1, <1>3, <1>7, TheSystemSetsARow, SystemWritesSome DEF Lasts
<1>9. TenantFits(row)
  BY <1>4, <1>6 DEF TenantFits
<1>10. Fair(w, row)
  BY <1>1, <1>3, <1>4, <1>6, <1>8 DEF Fair, DueIsHeld, Running
<1>11. due' \subseteq due /\ freed' \subseteq Workspaces /\ freed \ {w} \subseteq freed'
  BY <1>3, <1>4 DEF StatusRows
<1>12. StatusRows' /\ \A v \in Workspaces : Lawful(v)
  BY <1>1, <1>3, <1>4, <1>6, <1>8, <1>9, <1>10, <1>11, ARowIsSet
<1> QED
  BY <1>8, <1>12 DEF StatusInv

LEMMA UnattendedKeepsStatus ==
  ASSUME StatusInv, Shape, Sweep \/ Restarts \/ Time
  PROVE  StatusInv' /\ \A v \in Workspaces : Lawful(v)
<1> DEFINE Goal == StatusInv' /\ \A v \in Workspaces : Lawful(v)
<1>1. Shape' /\ Lasts /\ Touches({})
  BY Unattended
<1>2. ASSUME UNCHANGED tenancyVars PROVE Goal
  BY <1>1, <1>2, StatusAside
<1>3. CASE SweepBegins
  BY <1>2, <1>3 DEF SweepBegins
<1>4. CASE SweepReads \/ SweepEnds
  <2>1. UNCHANGED << ws, past >> /\ freed' = {} /\ (due' = {} \/ due' = Overdue) /\ request' = request
    BY <1>4 DEF SweepReads, SweepEnds, deskVars
  <2> QED
    BY <1>1, <2>1, AListIsMade
<1>5. CASE Restarts
  <2>1. UNCHANGED << ws, past >> /\ freed' = {} /\ due' = {}
    BY <1>5 DEF Restarts
  <2>2. \A p \in Requests : request'[p] = NoRequest \/ request'[p] = request[p]
    BY <1>5 DEF Restarts
  <2> QED
    BY <1>1, <2>1, <2>2, AListIsMade
<1>6. ASSUME NEW w, Erases(w) PROVE Goal
  BY <1>6, AWorkspaceIsErased
<1>7. CASE Sweep
  BY <1>2, <1>3, <1>4, <1>6, <1>7 DEF Sweep
<1>8. CASE Time
  <2>1. CASE UNCHANGED tenancyVars
    BY <1>2, <2>1
  <2>2. ASSUME NEW w \in Workspaces, HoldPasses(w) PROVE Goal
    BY <1>8, <2>2, AHoldPasses DEF Time
  <2> QED
    BY <1>8, <2>1, <2>2 DEF Time
<1> QED
  BY <1>5, <1>7, <1>8

LEMMA StatusInvHolds ==
  ASSUME StatusInv, Shape, [Next]_vars
  PROVE  StatusInv' /\ \A v \in Workspaces : Lawful(v)
<1> DEFINE Goal == StatusInv' /\ \A v \in Workspaces : Lawful(v)
<1>1. ASSUME NEW some, Shape' /\ Lasts /\ Touches(some), some \cap StatusTasks = {}, UNCHANGED tenancyVars PROVE Goal
  BY <1>1, StatusAside
<1>2. CASE TenancyStep
  BY <1>2, TenancyStepHolds
<1>3. CASE LedgerStep /\ due' = due
  BY <1>3, LedgerKeepsStatus
<1>4. CASE MembersStep
  BY <1>4, MembersKeepStatus
<1>5. CASE CouponStep /\ UNCHANGED tenancyVars
  BY <1>1, <1>5, CouponDesk, OtherDesks
<1>6. CASE TeamStep /\ UNCHANGED tenancyVars
  BY <1>1, <1>6, TeamDesk, OtherDesks
<1>7. CASE PublishingStep /\ UNCHANGED tenancyVars
  BY <1>1, <1>7, PublishingDesk, OtherDesks
<1>8. CASE WebsiteStep /\ UNCHANGED tenancyVars
  BY <1>1, <1>8, WebsiteDesk, OtherDesks
<1>9. CASE UNCHANGED deskVars /\ UNCHANGED tenancyVars
  BY <1>1, <1>9, AllStay
<1>10. CASE Sweep \/ Restarts \/ Time
  BY <1>10, UnattendedKeepsStatus
<1> QED
  BY <1>2, <1>3, <1>4, <1>5, <1>6, <1>7, <1>8, <1>9, <1>10 DEF Next, Money, keptVars, vars

LEMMA StatusAtFirst == Init => StatusInv
<1> SUFFICES ASSUME Init PROVE StatusInv
  OBVIOUS
<1>1. WorkspaceRows
  BY WorkspacesAtFirst
<1>2. /\ ws = [ w \in Workspaces |-> [ status |-> FirstStatus[w], prev |-> "none", asked |-> Nobody, hold |-> "none" ] ]
      /\ past = [ w \in Workspaces |-> [ was |-> FirstStatus[w], twice |-> FALSE ] ]
      /\ due = {} /\ freed = {}
  BY DEF Init, TenancyInit
<1>3. \A w \in Workspaces : /\ ws[w].status = FirstStatus[w] /\ ws[w].prev = "none" /\ ws[w].asked = Nobody
                            /\ FirstStatus[w] \in Running \union {"none"}
  BY <1>2, TenancyAssumption
<1>4. past = [ w \in Workspaces |-> past[w] ] /\ \A w \in Workspaces : past[w] = [ was |-> FirstStatus[w], twice |-> FALSE ]
  BY <1>2
<1>5. \A w \in Workspaces : past[w].was = FirstStatus[w] /\ past[w].twice = FALSE
  BY <1>4
<1>6. PastRows
  BY <1>3, <1>4, <1>5 DEF PastRows
<1>7. \A w \in Workspaces : TenantFits(ws[w]) /\ Remembered(w) /\ DueIsHeld(w)
  BY <1>2, <1>3, <1>5 DEF TenantFits, Remembered, DueIsHeld, Open, Running
<1>8. \A q \in Requests : StatusRequest(request[q])
  <2>1. \A q \in Requests : request[q] = NoRequest
    BY DEF Init, DeskInit
  <2>2. NoRequest.doing \notin Operations /\ NoRequest.doing \notin {"fail", "charge"}
    BY NothingIsOpen DEF Operations
  <2> QED
    BY <2>1, <2>2 DEF StatusRequest
<1> QED
  BY <1>1, <1>2, <1>6, <1>7, <1>8 DEF StatusInv, StatusRows

\* A workspace that is put aside comes back into the status it ran in, or is
\* erased when its hold is over, for any number of workspaces, admins and
\* requests; but for the exceptions the property names (workspace-actions.ts,
\* payments-admin.ts and the sweep).
THEOREM WorkspacesComeBack == Spec => ComesBackOrIsErased
<1> DEFINE Kept == \A w \in Workspaces \ crossed' :
             /\ (ws[w].status \notin Running \union {"none"} /\ ws'[w].status \in Running /\ ~past[w].twice) =>
                  ws'[w].status = past[w].was
             /\ (ws[w].status # "deleted" /\ ws'[w].status = "deleted") =>
                  w \in freed \/ (ws[w].status = "deleted_pending" /\ ws[w].hold = "passed")
             /\ ws[w].status = "deleted" => ws'[w].status = "deleted"
<1>1. Init => Shape /\ StatusInv
  BY ShapeAtFirst, StatusAtFirst
<1>2. Shape /\ StatusInv /\ [Next]_vars => (Shape /\ StatusInv)'
  BY ShapeHolds, StatusInvHolds
<1>3. Shape /\ StatusInv /\ [Next]_vars => [Kept]_vars
  BY StatusInvHolds DEF Lawful
<1> QED
  BY <1>1, <1>2, <1>3, PTL DEF Spec, ComesBackOrIsErased
=============================================================================
