------------------------------- MODULE Panel -------------------------------
(***************************************************************************)
(* The admin panel: its team, the workspaces with their members, the       *)
(* coupons and the ledger they keep, prices, prompts and the website, with *)
(* the sweep that runs every hour.  A behaviour starts with one of Workloads: what people are  *)
(* about to do.                                                            *)
(***************************************************************************)
EXTENDS Ledger, Members, Publishing, Website

CONSTANT
  Workloads  \* sets of [tasks : operations, acts : how many of them]

ASSUME PanelAssumption == \A load \in Workloads : load.acts \in Nat

VARIABLE
  sweep  \* "idle", "coupons" or "erasing"

keptVars == << tenancyVars, couponVars, pay, memberVars >>
vars == << deskVars, teamVars, keptVars, publishingVars, websiteVars, sweep >>

Init ==
  /\ \E load \in Workloads : DeskInit(load.tasks, load.acts)
  /\ TeamInit /\ TenancyInit /\ CouponsInit /\ pay = << >> /\ MembersInit
  /\ PublishingInit /\ WebsiteInit /\ sweep = "idle"

----------------------------------------------------------------------------
(* The sweep: coupons first, then the workspaces whose hold is over.        *)

SweepBegins ==
  /\ sweep = "idle" /\ Acts("sweep")
  /\ sweep' = "coupons" /\ dueCoupons' = CouponsToMove
  /\ UNCHANGED << request, tenancyVars, coupon, redeemed, extra, memberVars >>

SweepReads ==
  /\ sweep = "coupons" /\ dueCoupons = {}
  /\ sweep' = "erasing" /\ due' = Overdue /\ freed' = {} /\ listed' = LoginsOf(Overdue)
  /\ UNCHANGED << deskVars, ws, past, couponVars, member, login, leaving >>

\* The list is worked off, or something throws.
SweepEnds ==
  /\ sweep # "idle"
  /\ sweep' = "idle" /\ due' = {} /\ freed' = {} /\ dueCoupons' = {} /\ listed' = {}
  /\ UNCHANGED << deskVars, ws, past, coupon, redeemed, extra, member, login, leaving >>

Sweep ==
  /\ \/ SweepBegins \/ SweepReads \/ SweepEnds
     \/ \E d \in dueCoupons : SweepsCoupon(d) /\ UNCHANGED << tenancyVars, sweep, memberVars >>
     \/ \E w \in due : Erases(w) /\ Empties(w) /\ UNCHANGED << couponVars, sweep >>
  /\ UNCHANGED << teamVars, pay, publishingVars, websiteVars >>

InPortal == { "redeem", "join", "add" }

\* The panel starts again: what it was doing is rolled back, the logins it was
\* about to delete stay, and nobody waits for the website's scripts.
Restarts ==
  /\ Acts("restart")
  /\ request' = [ q \in Requests |-> IF request[q].doing \in InPortal THEN request[q] ELSE NoRequest ]
  /\ watched' = {} /\ sweep' = "idle" /\ due' = {} /\ freed' = {} /\ dueCoupons' = {}
  /\ UNCHANGED << teamVars, ws, past, coupon, redeemed, extra, pay, publishingVars >>
  /\ leaving' = {} /\ listed' = {}
  /\ UNCHANGED << entry, publish, script, site, member, login >>

\* Dates come.
Time ==
  /\ "time" \in tasks
  /\ \/ \E w \in Workspaces : HoldPasses(w) /\ UNCHANGED couponVars
     \/ \E c \in Coupon : (StartComes(c) \/ ExpiryComes(c)) /\ UNCHANGED tenancyVars
  /\ UNCHANGED << deskVars, teamVars, pay, memberVars, publishingVars, websiteVars, sweep >>

----------------------------------------------------------------------------
Money ==
  /\ \/ TenancyStep /\ UNCHANGED << couponVars, pay, memberVars >>
     \/ CouponStep /\ UNCHANGED << tenancyVars, pay, memberVars >>
     \/ LedgerStep /\ UNCHANGED << due, dueCoupons, memberVars >>
     \/ MembersStep /\ UNCHANGED << couponVars, pay >>
  /\ UNCHANGED << teamVars, publishingVars, websiteVars, sweep >>

Next ==
  \/ TeamStep /\ UNCHANGED << keptVars, publishingVars, websiteVars, sweep >>
  \/ Money
  \/ PublishingStep /\ UNCHANGED << teamVars, keptVars, websiteVars, sweep >>
  \/ WebsiteStep /\ UNCHANGED << teamVars, keptVars, publishingVars, sweep >>
  \/ Builders /\ UNCHANGED << deskVars, teamVars, keptVars, publishingVars, sweep >>
  \/ Sweep \/ Restarts \/ Time

Spec == Init /\ [][Next]_vars

----------------------------------------------------------------------------
(* Properties.                                                              *)

\* Every variable holds what its comment says.
TypeOK ==
  /\ \A q \in Requests : Doing(q, "nothing") \/ (request[q].doing \in tasks /\ request[q].overtaken \in BOOLEAN)
  /\ acts \in Nat
  /\ \A a \in Admins : admin[a].role \in Roles \union {"none"} /\ admin[a].era \in Nat
  /\ \A i \in DOMAIN session : session[i].of \in Admins /\ session[i].stage \in {"awaiting_code", "active"}
  /\ \A w \in Workspaces :
       /\ ws[w].status \in Open \union {"none", "deleted_pending", "deleted"} /\ ws[w].prev \in Open \union {"none"}
       /\ ws[w].asked \in Admins \union {Nobody} /\ past[w].was \in Running \union {"none"}
       /\ \A p \in People : member[w][p].role \in MemberRoles \union {"none"} /\ member[w][p].login \in 0..Len(login)
  /\ \A i \in DOMAIN login : login[i].of \in People
  /\ leaving \subseteq DOMAIN login
  /\ due \subseteq Workspaces /\ freed \subseteq Workspaces
  /\ \A c \in Coupon : coupon[c].status \in CouponStatuses
  /\ \A d \in dueCoupons : d.c \in Coupon /\ d.to \in {"active", "ended"}
  /\ \A w \in Workspaces : extra[w] \in Nat
  /\ \A p \in DOMAIN pay : pay[p].on \in Workspaces /\ pay[p].of \in 0..Len(pay)
  /\ \A r \in DOMAIN plan : plan[r].status \in {"draft", "published", "gone"} /\ plan[r].version \in Nat
  /\ \A r \in DOMAIN pack : pack[r].status \in {"draft", "published", "retired", "gone"}
  /\ signed \subseteq DOMAIN plan
  /\ \A e \in Entries : entry[e].draft \in Texts \union {0} /\ entry[e].live \in Texts \union {0}
  /\ DOMAIN script = DOMAIN publish /\ watched \subseteq DOMAIN publish
  /\ sweep \in {"idle", "coupons", "erasing"}

\* Neither the panel nor a workspace is left without an owner who can sign in:
\* not by demoting, transferring, removing, erasing another workspace or
\* deleting logins late; unless two changes overlapped, the workspace itself is
\* erased, or a sign-up took over a login that was on its way out.
AnOwnerRemains ==
  [][/\ (Owners # {} /\ Owners' = {}) => OvertakenEnds
     /\ \A w \in Workspaces : (Leads(w) # {} /\ Leads(w)' = {}) =>
          \/ OvertakenEnds \/ ws'[w].status = "deleted"
          \/ \E p \in People : member[w][p].login # 0 /\ login[member[w][p].login].reused]_vars

\* Whoever is put out stays out.  Deactivating somebody, or resetting their
\* second step, ends what they were signed in to for good: a session that can
\* be used began afterwards, unless signing in was overtaken by it.  A member
\* who was removed has no login again, whatever was under way to send them in.
OutStaysOut ==
  /\ \A i \in DOMAIN session :
       (Usable(i) /\ ~session[i].raced) => session[i].era = admin[session[i].of].era
  /\ \A w \in Workspaces, p \in People : member[w][p].removed => member[w][p].login = 0

\* A workspace that is put aside, suspended or held, comes back into the status
\* it ran in, in any order of suspending, asking, approving, restoring, charging
\* and changing plans but one, being held while it is suspended; or it is erased,
\* if it was held and its hold was over when the sweep looked, and then nothing
\* brings it back.  Excepted is a workspace two changes of which overlapped, and
\* one that was restored while the sweep was at work.
ComesBackOrIsErased ==
  [][\A w \in Workspaces \ crossed' :
       /\ (ws[w].status \notin Running \union {"none"} /\ ws'[w].status \in Running /\ ~past[w].twice) =>
            ws'[w].status = past[w].was
       /\ (ws[w].status # "deleted" /\ ws'[w].status = "deleted") =>
            w \in freed \/ (ws[w].status = "deleted_pending" /\ ws[w].hold = "passed")
       /\ ws[w].status = "deleted" => ws'[w].status = "deleted"]_vars

Redeemers(c) == { w \in Workspaces : redeemed[c][w] # "no" }

\* A code is redeemed no more often than its cap ever allowed, and its count
\* is the number of its redemptions, however the portal, the ledger, the caps
\* and the sweep overtake each other.
CapHolds ==
  \A c \in Coupon : coupon[c].count = Cardinality(Redeemers(c)) /\ coupon[c].count <= coupon[c].top

PaysOf(w) == { p \in DOMAIN pay : pay[p].on = w }

Granted(w) == { p \in PaysOf(w) : pay[p].packs > 0 /\ pay[p].status = "captured" }

\* A workspace has the extra minutes it paid, was given or redeemed for, less
\* what was refunded; every payment is refunded once at most, and a code
\* discounts one payment; unless changes to this workspace overlapped.
LedgerAccounts ==
  \A w \in Workspaces \ crossed :
    /\ extra[w] = Cardinality(Granted(w)) + Cardinality({ c \in Grants : w \in Redeemers(c) })
    /\ \A p \in PaysOf(w) :
         Cardinality({ r \in PaysOf(w) : pay[r].of = p }) = IF pay[p].status = "refunded" THEN 1 ELSE 0
    /\ \A c \in Coupon \ Grants :
         Cardinality({ p \in PaysOf(w) : pay[p].code = c }) = IF redeemed[c][w] = "used" THEN 1 ELSE 0

\* The drafts that went live in the place of r.
Successors(r) == { d \in Rows(pack, "published") \union Rows(pack, "retired") : pack[d].replaces = r }

\* What is published stands: its row never changes again, for those who signed
\* up for it; one pack at most takes the place of another, which goes off sale
\* then; and one version of a prompt is live.  Overlapping edits are excepted.
PublishedStands ==
  [][/\ (\A r \in Rows(plan, "published") : plan'[r] = plan[r]) \/ OvertakenEnds
     /\ "pack" \notin crossed' =>
          \A r \in DOMAIN pack' :
            /\ Cardinality(Successors(r)') <= 1
            /\ pack'[r].status = "published" => Successors(r)' = {}
     /\ "prompt" \notin crossed' => Cardinality(LivePrompts') = 1]_vars

\* When the last publish is live, the site shows what it was built from, and
\* that is what the rows say is live, whatever failed, hung or was restarted
\* before; an entry that was removed while it was being published is excepted.
SiteShowsThePublished ==
  LET last == Len(publish) IN
  last > 0 =>
    /\ publish[last].status = "live" => site = publish[last].content
    /\ \A e \in Entries \ crossed : entry[e].live = publish[last].content[e]
=============================================================================
