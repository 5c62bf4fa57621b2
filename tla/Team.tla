-------------------------------- MODULE Team --------------------------------
(***************************************************************************)
(* The people of the panel and their sessions: invitations, roles,         *)
(* deactivation (team.ts), and signing in and out (api/auth, session.ts).  *)
(***************************************************************************)
EXTENDS Desk

CONSTANTS
  Admins,       \* the people who are or may become admins
  FirstRole,    \* [Admins -> role]; "none" for those nobody has invited yet
  Invited,      \* those who have been invited and have set no password
  FirstSessions \* the sessions there are at the start: a sequence of admins

Roles == { "owner", "engineer", "support" }

ASSUME TeamAssumption ==
  /\ FirstRole \in [ Admins -> Roles \union {"none"} ]
  /\ Invited \subseteq { a \in Admins : FirstRole[a] # "none" }
  /\ FirstSessions \in Seq(Admins \ Invited)

VARIABLES
  admin,   \* the admin_users rows; era (history) counts deactivations and resets
  session  \* the admin_sessions rows; raced (history): signing in was overtaken

teamVars == << admin, session >>

TeamInit ==
  /\ admin = [ a \in Admins |->
       [ role |-> FirstRole[a], active |-> FirstRole[a] # "none", password |-> FirstRole[a] # "none" /\ a \notin Invited,
         twoStep |-> FALSE, invited |-> a \in Invited, era |-> 0 ] ]
  /\ session = [ i \in DOMAIN FirstSessions |->
       [ of |-> FirstSessions[i], stage |-> "active", ended |-> FALSE, era |-> 0, raced |-> FALSE ] ]

OwnerOnly == { "pricing.publish", "workspace.delete", "team.manage" }
ForSupport == { "view", "workspace.grant_goodwill" }

Can(role, permission) ==
  \/ role = "owner"
  \/ role = "engineer" /\ permission \notin OwnerOnly
  \/ role = "support" /\ permission \in ForSupport

\* Somebody who can sign in to the panel and has the permission.
Allowed(a, permission) == admin[a].active /\ admin[a].password /\ Can(admin[a].role, permission)

Somebody(permission) == \E a \in Admins : Allowed(a, permission)

Owners == { a \in Admins : admin[a].role = "owner" /\ admin[a].active }

Usable(i) == ~session[i].ended /\ admin[session[i].of].active

----------------------------------------------------------------------------
(* Signing in and out.                                                      *)

NewSession(a, stage, era, raced) ==
  [ of |-> a, stage |-> stage, ended |-> FALSE, era |-> era, raced |-> raced ]

\* The row is read and the password compared, which takes a while.
SignInOpens(q, a) ==
  /\ admin[a].active /\ admin[a].password
  /\ Opens(q, "sign in", {a}, a, admin[a])
  /\ UNCHANGED teamVars

SignInCommits(q) ==
  LET saw == request[q].saw IN
  /\ Doing(q, "sign in")
  /\ session' = Append(session, NewSession(request[q].arg,
                  IF saw.twoStep THEN "awaiting_code" ELSE "active", saw.era, request[q].overtaken))
  /\ Writes(q, {}) /\ UNCHANGED admin

AcceptOpens(q, a) ==
  /\ admin[a].active /\ admin[a].invited
  /\ Opens(q, "accept", {a}, a, admin[a])
  /\ UNCHANGED teamVars

\* The invitation is used up and its holder is signed in without a code.
AcceptCommits(q) ==
  LET a == request[q].arg IN
  /\ Doing(q, "accept")
  /\ admin' = [admin EXCEPT ![a].password = TRUE, ![a].invited = FALSE]
  /\ session' = Append(session, NewSession(a, "active", request[q].saw.era, request[q].overtaken))
  /\ Writes(q, {a})

EntersCode(i) ==
  /\ Acts("code") /\ Usable(i) /\ session[i].stage = "awaiting_code" /\ admin[session[i].of].twoStep
  /\ session' = [session EXCEPT ![i].stage = "active"]
  /\ UNCHANGED << request, admin >>

Enrols(i) ==
  /\ Acts("enrol") /\ Usable(i) /\ session[i].stage = "active" /\ ~admin[session[i].of].twoStep
  /\ admin' = [admin EXCEPT ![session[i].of].twoStep = TRUE]
  /\ UNCHANGED << request, session >>

\* Signed out, or found expired, idle or its admin deactivated when it is used.
Leaves(i) ==
  /\ Acts("leave") /\ ~session[i].ended
  /\ session' = [session EXCEPT ![i].ended = TRUE]
  /\ UNCHANGED << request, admin >>

----------------------------------------------------------------------------
(* Managing the team: the session is looked up, then the target is read and *)
(* checked, then the change is written.                                     *)

Manages == { "invite", "role", "deactivate", "reactivate", "reset", "resend" }

Exists(a) == admin[a].role # "none"

\* A change that may cost the panel an Owner.
Demotes(what, role) == what = "deactivate" \/ (what = "role" /\ role # "owner")

Enters(q, i, what, b, role) ==
  /\ what \in Manages /\ Usable(i) /\ session[i].stage = "active"
  /\ Allowed(session[i].of, "team.manage")
  /\ Opens(q, what, {b, "owners"}, [ by |-> session[i].of, on |-> b, role |-> role ], NoRequest)
  /\ UNCHANGED teamVars

\* Nobody removes their own Owner access, and the last Owner keeps it.
OwnerIsSpared(what, by, b, role) ==
  Demotes(what, role) =>
    /\ b # by
    /\ b \in Owners => Cardinality(Owners) > 1

MayManage(what, by, b, role) ==
  /\ OwnerIsSpared(what, by, b, role)
  /\ CASE what = "invite"     -> ~Exists(b) \/ ~admin[b].active
       [] what = "role"       -> Exists(b) /\ admin[b].role # role
       [] what = "deactivate" -> Exists(b) /\ admin[b].active
       [] what = "reactivate" -> Exists(b) /\ ~admin[b].active
       [] what = "reset"      -> Exists(b) /\ admin[b].twoStep
       [] what = "resend"     -> Exists(b) /\ admin[b].active /\ ~admin[b].password

Checks(q) ==
  LET arg == request[q].arg IN
  /\ request[q].doing \in Manages /\ request[q].saw = NoRequest
  /\ IF MayManage(request[q].doing, arg.by, arg.on, arg.role)
     THEN Reads(q, admin[arg.on]) ELSE GivesUp(q)
  /\ UNCHANGED teamVars

Managed(what, row, role) ==
  CASE what = "invite"     -> [row EXCEPT !.role = role, !.active = TRUE, !.password = FALSE,
                                          !.twoStep = FALSE, !.invited = TRUE]
    [] what = "role"       -> [row EXCEPT !.role = role]
    [] what = "deactivate" -> [row EXCEPT !.active = FALSE, !.invited = FALSE, !.era = @ + 1]
    [] what = "reactivate" -> [row EXCEPT !.active = TRUE]
    [] what = "reset"      -> [row EXCEPT !.twoStep = FALSE, !.era = @ + 1]
    [] what = "resend"     -> [row EXCEPT !.invited = TRUE]

\* Mutation of Expels: a deactivation leaves the sessions to the next lookup.
ExpelsOnReset(what) == what = "reset"

\* The changes that end every session of the person in the same transaction.
Expels(what) == what \in {"deactivate", "reset"}

\* The panel has an Owner less, be it that somebody who was deactivated when the
\* invitation was checked is an active Owner again.
CostsAnOwner(b, row) == b \in Owners /\ (row.role # "owner" \/ ~row.active)

Manage(q) ==
  LET arg == request[q].arg  what == request[q].doing
      row == Managed(what, admin[arg.on], arg.role) IN
  /\ what \in Manages /\ request[q].saw # NoRequest
  /\ admin' = [admin EXCEPT ![arg.on] = row]
  /\ session' = [ i \in DOMAIN session |->
       IF Expels(what) /\ session[i].of = arg.on THEN [session[i] EXCEPT !.ended = TRUE] ELSE session[i] ]
  /\ Writes(q, {arg.on} \union IF CostsAnOwner(arg.on, row) THEN {"owners"} ELSE {})

TeamStep ==
  \/ \E q \in Starting("sign in"), a \in Admins : SignInOpens(q, a)
  \/ \E q \in Starting("accept"), a \in Admins : AcceptOpens(q, a)
  \/ \E i \in DOMAIN session : EntersCode(i) \/ Enrols(i) \/ Leaves(i)
  \/ \E what \in Manages : \E q \in Starting(what), i \in DOMAIN session, b \in Admins :
       \E role \in IF what \in {"invite", "role"} THEN Roles ELSE {"owner"} : Enters(q, i, what, b, role)
  \/ \E q \in Requests : SignInCommits(q) \/ AcceptCommits(q) \/ Checks(q) \/ Manage(q)
=============================================================================
