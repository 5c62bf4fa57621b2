------------------------------ MODULE Members ------------------------------
(***************************************************************************)
(* The people of the workspaces and their logins: signing up, workspaces   *)
(* that admins create, team members the portal adds as rows without a      *)
(* login, who are sent in, promoted and removed by admins.  Logins live in *)
(* GoTrue, outside every transaction: they are made before it and deleted  *)
(* after it, and what fails in between leaves a login that opens nothing.  *)
(***************************************************************************)
EXTENDS Tenancy

CONSTANTS
  People,        \* by their addresses
  FirstMembers,  \* [Workspaces -> [People -> row]]
  FirstLogins,   \* the logins at the start
  MemberLimit    \* what the plans allow

MemberRoles == { "owner", "admin", "reviewer", "viewer" }

NoMember == [ role |-> "none", login |-> 0, removed |-> FALSE ]

\* A login belongs to one row, of its address; a removed row has none.
ASSUME MembersAssumption ==
  /\ MemberLimit \in Nat
  /\ FirstLogins \in Seq([ of : People, live : BOOLEAN, confirmed : BOOLEAN, reused : {FALSE} ])
  /\ FirstMembers \in [ Workspaces -> [ People ->
       [ role : MemberRoles \union {"none"}, login : 0..Len(FirstLogins), removed : BOOLEAN ] ] ]
  /\ \A w \in Workspaces, p \in People :
       LET row == FirstMembers[w][p] IN
       /\ FirstStatus[w] = "none" => row = NoMember
       /\ row.removed => row.login = 0
       /\ row.login # 0 =>
            /\ FirstLogins[row.login].of = p /\ FirstLogins[row.login].live
            /\ \A v \in Workspaces, r \in People : FirstMembers[v][r].login = row.login => v = w /\ r = p

VARIABLES
  member,   \* the users rows: role, login (its number; 0 is none), removed
  login,    \* GoTrue's users: of, live, confirmed; reused (history): a sign-up took
            \* over one that was there
  leaving,  \* the logins that are about to be deleted
  listed    \* the logins the sweep has listed with the workspaces

memberVars == << member, login, leaving, listed >>

MembersInit ==
  /\ member = FirstMembers /\ login = FirstLogins
  /\ leaving = {} /\ listed = {}

IsMember(row) == row.role # "none" /\ ~row.removed

Logins(p) == { i \in DOMAIN login : login[i].of = p /\ login[i].live }

\* The address opens a workspace already.
LinkedSomewhere(p) == \E w \in Workspaces : IsMember(member[w][p]) /\ member[w][p].login # 0

\* The login is linked to a row.
Linked(i) == \E w \in Workspaces, p \in People : member[w][p].login = i

\* A new login, which GoTrue refuses for an address that has one.
MakesLogin(p, confirmed) ==
  /\ Logins(p) = {}
  /\ login' = Append(login, [ of |-> p, live |-> TRUE, confirmed |-> confirmed, reused |-> FALSE ])

Editable(w) == ws[w].status \in Open

----------------------------------------------------------------------------
(* Workspaces begin: the login first, then the rows.                        *)

\* The sign-up link of an address that never confirmed is for the login it has.
SignUpOpens(q, p, w) ==
  /\ ws[w].status = "none"
  /\ \/ MakesLogin(p, FALSE)
        /\ Opens(q, "join", {w}, [ on |-> w, who |-> p ], [ login |-> Len(login) + 1, reused |-> FALSE ])
     \/ \E i \in Logins(p) :
          /\ ~login[i].confirmed /\ UNCHANGED login
          /\ Opens(q, "join", {w}, [ on |-> w, who |-> p ], [ login |-> i, reused |-> TRUE ])
  /\ UNCHANGED << member, leaving, listed, tenancyVars >>

CreateOpens(q, p, w) ==
  /\ Somebody("workspace.create")
  /\ ws[w].status = "none" /\ ~LinkedSomewhere(p)
  /\ MakesLogin(p, TRUE)
  /\ Opens(q, "found", {w}, [ on |-> w, who |-> p ], [ login |-> Len(login) + 1, reused |-> FALSE ])
  /\ UNCHANGED << member, leaving, listed, tenancyVars >>

\* The address of the workspace and the login may each belong to one row only;
\* a transaction that fails leaves the login behind.
Founds(q) ==
  LET w == request[q].arg.on  p == request[q].arg.who  saw == request[q].saw IN
  /\ request[q].doing \in {"join", "found"}
  /\ IF ws[w].status # "none" \/ Linked(saw.login)
     THEN GivesUp(q) /\ UNCHANGED << ws, past, member, login >>
     ELSE /\ \E status \in IF Doing(q, "join") THEN {"trial"} ELSE {"trial", "active"} :
               Sets(w, [ws[w] EXCEPT !.status = status])
          /\ member' = [member EXCEPT ![w][p] = [ role |-> "owner", login |-> saw.login, removed |-> FALSE ]]
          /\ login' = [login EXCEPT ![saw.login].reused = @ \/ saw.reused]
          /\ Writes(q, {w})
  /\ UNCHANGED << leaving, listed, due, freed >>

\* The link in the email is opened.
Confirms(i) ==
  /\ Acts("confirm address") /\ login[i].live /\ ~login[i].confirmed
  /\ login' = [login EXCEPT ![i].confirmed = TRUE]
  /\ UNCHANGED << request, member, leaving, listed, tenancyVars >>

----------------------------------------------------------------------------
(* The team.                                                                *)

\* Somebody who can open the workspace as its owner.
Leads(w) == { p \in People :
  /\ member[w][p].role = "owner" /\ ~member[w][p].removed
  /\ member[w][p].login # 0 /\ login[member[w][p].login].live }

\* A row with this address, a removed one too, keeps its place; the limit is
\* compared with the rows there are now.
AddOpens(q, w, p, role) ==
  /\ ws[w].status \in Running /\ Leads(w) # {}
  /\ member[w][p] = NoMember
  /\ Cardinality({ x \in People : IsMember(member[w][x]) }) < MemberLimit
  /\ Opens(q, "add", {w}, [ on |-> w, who |-> p, role |-> role ], NoMember)
  /\ UNCHANGED << memberVars, tenancyVars >>

Add(q) ==
  LET w == request[q].arg.on  p == request[q].arg.who IN
  /\ Doing(q, "add")
  /\ IF member[w][p] # NoMember THEN GivesUp(q) /\ UNCHANGED member
     ELSE /\ member' = [member EXCEPT ![w][p] = [NoMember EXCEPT !.role = request[q].arg.role]]
          /\ Writes(q, {w})
  /\ UNCHANGED << login, leaving, listed, tenancyVars >>

\* A login for a member who has none, linked if the row still is as it was read.
SendInOpens(q, w, p) ==
  /\ Somebody("workspace.members")
  /\ Editable(w) /\ IsMember(member[w][p]) /\ member[w][p].login = 0 /\ ~LinkedSomewhere(p)
  /\ MakesLogin(p, TRUE)
  /\ Opens(q, "send in", {w}, [ on |-> w, who |-> p ], [ login |-> Len(login) + 1 ])
  /\ UNCHANGED << member, leaving, listed, tenancyVars >>

MayLink(row) == IsMember(row) /\ row.login = 0

SendIn(q) ==
  LET w == request[q].arg.on  p == request[q].arg.who IN
  /\ Doing(q, "send in")
  /\ IF MayLink(member[w][p])
     THEN member' = [member EXCEPT ![w][p].login = request[q].saw.login] /\ Writes(q, {w})
     ELSE GivesUp(q) /\ UNCHANGED member
  /\ UNCHANGED << login, leaving, listed, tenancyVars >>

\* Ownership moves only by a transfer.
MayBecome(row, role) == IsMember(row) /\ role # "owner" /\ row.role \notin {"owner", role}

PromoteOpens(q, w, p, role) ==
  /\ Somebody("workspace.members")
  /\ Editable(w) /\ MayBecome(member[w][p], role)
  /\ Opens(q, "promote", {w}, [ on |-> w, who |-> p, role |-> role ], NoMember)
  /\ UNCHANGED << memberVars, tenancyVars >>

OwnersOf(w) == { p \in People : member[w][p].role = "owner" /\ ~member[w][p].removed }

\* Mutation of MayReceive: a member who never joined may become the owner.
MayReceiveUnjoined(w, p) == IsMember(member[w][p]) /\ OwnersOf(w) # {p}

\* The new owner has joined.
MayReceive(w, p) == IsMember(member[w][p]) /\ OwnersOf(w) # {p} /\ member[w][p].login # 0

TransferOpens(q, w, p) ==
  /\ Somebody("workspace.members")
  /\ Editable(w) /\ MayReceive(w, p)
  /\ Opens(q, "transfer", {w}, [ on |-> w, who |-> p ], [ demoted |-> OwnersOf(w) \ {p} ])
  /\ UNCHANGED << memberVars, tenancyVars >>

RowsSet(w, some, role) ==
  [ p \in People |-> IF p \in some /\ member[w][p].role # "none"
                     THEN [member[w][p] EXCEPT !.role = role] ELSE member[w][p] ]

Promote(q) ==
  LET w == request[q].arg.on  p == request[q].arg.who IN
  /\ \/ Doing(q, "promote") /\ member' = [member EXCEPT ![w] = RowsSet(w, {p}, request[q].arg.role)]
     \/ /\ Doing(q, "transfer")
        /\ member' = [member EXCEPT ![w] =
             [RowsSet(w, request[q].saw.demoted, "admin") EXCEPT ![p] = RowsSet(w, {p}, "owner")[p]]]
  /\ Writes(q, {w}) /\ UNCHANGED << login, leaving, listed, tenancyVars >>

\* An owner is not removed; whose workspace is held may be.
RemoveOpens(q, w, p) ==
  /\ Somebody("workspace.members")
  /\ ws[w].status \in Open \union {"deleted_pending"}
  /\ IsMember(member[w][p]) /\ member[w][p].role # "owner"
  /\ Opens(q, "part", {w}, [ on |-> w, who |-> p ], member[w][p])
  /\ UNCHANGED << memberVars, tenancyVars >>

\* The row is unlinked and keeps its place; then the login that was read goes.
Remove(q) ==
  LET w == request[q].arg.on  p == request[q].arg.who IN
  /\ Doing(q, "part")
  /\ IF member[w][p].role = "none" THEN GivesUp(q) /\ UNCHANGED << member, leaving >>
     ELSE /\ member' = [member EXCEPT ![w][p].login = 0, ![w][p].removed = TRUE]
          /\ leaving' = leaving \union ({request[q].saw.login} \ {0})
          /\ Writes(q, {w})
  /\ UNCHANGED << login, listed, tenancyVars >>

----------------------------------------------------------------------------
(* Logins go.                                                               *)

\* Deleting one may fail, and nobody tries again.
LoginGoes(i) ==
  /\ i \in leaving
  /\ leaving' = leaving \ {i}
  /\ \/ login' = [login EXCEPT ![i].live = FALSE]
     \/ UNCHANGED login
  /\ UNCHANGED << deskVars, member, listed, tenancyVars >>

LoginsOf(some) == { [ on |-> w, login |-> member[w][p].login ] : w \in some, p \in People }

\* The rows of an erased workspace go, then the logins that were listed.
Empties(w) ==
  /\ member' = [member EXCEPT ![w] = [ p \in People |-> NoMember ]]
  /\ leaving' = leaving \union ({ l.login : l \in { x \in listed : x.on = w } } \ {0})
  /\ UNCHANGED << login, listed >>

MembersStep ==
  \/ \E w \in Workspaces, p \in People :
       \/ \E q \in Starting("join") : SignUpOpens(q, p, w)
       \/ \E q \in Starting("found") : CreateOpens(q, p, w)
       \/ \E q \in Starting("add"), role \in MemberRoles : AddOpens(q, w, p, role)
       \/ \E q \in Starting("send in") : SendInOpens(q, w, p)
       \/ \E q \in Starting("promote"), role \in MemberRoles : PromoteOpens(q, w, p, role)
       \/ \E q \in Starting("transfer") : TransferOpens(q, w, p)
       \/ \E q \in Starting("part") : RemoveOpens(q, w, p)
  \/ \E q \in Requests : Founds(q) \/ Add(q) \/ SendIn(q) \/ Promote(q) \/ Remove(q)
  \/ \E i \in DOMAIN login : Confirms(i) \/ LoginGoes(i)
=============================================================================
