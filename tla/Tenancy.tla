------------------------------ MODULE Tenancy ------------------------------
(***************************************************************************)
(* The life of a workspace as admins lead it: suspended and resumed,       *)
(* deletion asked for by one admin and approved by another, the hold,      *)
(* restoring, and erasure by the sweep (workspace-actions.ts).             *)
(***************************************************************************)
EXTENDS Team

CONSTANTS
  Workspaces,
  FirstStatus  \* [Workspaces -> status] at the start; "none" if there is no such workspace yet

Running == { "trial", "active", "past_due" }
Open == Running \union {"suspended"}

ASSUME TenancyAssumption == FirstStatus \in [ Workspaces -> Running \union {"none"} ]

VARIABLES
  ws,     \* the tenants row: status, the status it was moved away from, who asked
          \* for its deletion, and its hold
  past,   \* history: the last status in which the workspace ran, and whether it
          \* was suspended when its deletion was approved
  due,    \* the workspaces the sweep has listed and has yet to erase
  freed   \* history: those of them restored since the list was read

tenancyVars == << ws, past, due, freed >>

Nobody == "nobody"

TenancyInit ==
  /\ ws = [ w \in Workspaces |->
       [ status |-> FirstStatus[w], prev |-> "none", asked |-> Nobody, hold |-> "none" ] ]
  /\ past = [ w \in Workspaces |-> [ was |-> FirstStatus[w], twice |-> FALSE ] ]
  /\ due = {} /\ freed = {}

Operations == { "suspend", "resume", "ask", "confirm", "withdraw", "restore", "plan" }

PermissionFor(what) ==
  CASE what \in {"suspend", "resume"}           -> "workspace.suspend"
    [] what \in {"ask", "withdraw", "restore"} -> "workspace.delete"
    [] what = "confirm"                         -> "view"
    [] what = "plan"                            -> "workspace.change_plan"

\* The second admin is another person, and not Support.
Seconds(a, row) == row.asked \notin {Nobody, a} /\ admin[a].role # "support"

MayDo(what, a, row) ==
  CASE what = "suspend"  -> row.status \in Running
    [] what = "resume"   -> row.status = "suspended"
    [] what = "ask"      -> row.status \in Open /\ row.asked = Nobody
    [] what = "confirm"  -> row.status \in Open /\ Seconds(a, row)
    [] what = "withdraw" -> row.status \in Open /\ row.asked # Nobody
    [] what = "restore"  -> row.status = "deleted_pending"
    [] what = "plan"     -> row.status \in Open

\* Mutation of Back: whatever is let go runs as a paying workspace.
BackToActive(saw) == "active"

\* Where Resume and Restore lead.
Back(saw) == IF saw.prev \in {"none", saw.status} THEN "active" ELSE saw.prev

\* What is written, from the row that was read into the row there is now.
Done(what, a, saw, row) ==
  CASE what = "suspend"  -> [row EXCEPT !.status = "suspended", !.prev = saw.status]
    [] what = "resume"   -> [row EXCEPT !.status = Back(saw), !.prev = "none"]
    [] what = "ask"      -> [row EXCEPT !.asked = a]
    [] what = "confirm"  -> [row EXCEPT !.status = "deleted_pending", !.prev = saw.status, !.hold = "running"]
    [] what = "withdraw" -> [row EXCEPT !.asked = Nobody]
    [] what = "restore"  -> [row EXCEPT !.status = Back(saw), !.prev = "none", !.asked = Nobody, !.hold = "none"]
    [] what = "plan"     -> IF saw.status = "trial" THEN [row EXCEPT !.status = "active"] ELSE row

\* The row and its history.
Sets(w, row) ==
  /\ ws' = [ws EXCEPT ![w] = row]
  /\ past' = [past EXCEPT ![w] =
       [ was   |-> IF row.status \in Running THEN row.status ELSE @.was,
         twice |-> /\ row.status \notin Running
                   /\ @.twice \/ (ws[w].status = "suspended" /\ row.status = "deleted_pending") ] ]

DoOpens(q, a, what, w) ==
  /\ what \in Operations /\ Allowed(a, PermissionFor(what)) /\ MayDo(what, a, ws[w])
  /\ Opens(q, what, {w}, [ by |-> a, on |-> w ], ws[w])
  /\ UNCHANGED tenancyVars

Do(q) ==
  LET w == request[q].arg.on  what == request[q].doing IN
  /\ what \in Operations
  /\ Sets(w, Done(what, request[q].arg.by, request[q].saw, ws[w]))
  /\ freed' = IF what = "restore" THEN freed \union (due \cap {w}) ELSE freed
  /\ Writes(q, {w}) /\ UNCHANGED due

\* Thirty days are over.
HoldPasses(w) ==
  /\ ws[w].hold = "running"
  /\ ws' = [ws EXCEPT ![w].hold = "passed"]
  /\ UNCHANGED << past, due, freed >>

\* The held workspaces whose time is over.
Overdue == { w \in Workspaces : ws[w].status = "deleted_pending" /\ ws[w].hold = "passed" }

\* Each is erased in a transaction of its own, whatever has become of it since.
Erases(w) ==
  /\ w \in due
  /\ Sets(w, [ws[w] EXCEPT !.status = "deleted"])
  /\ due' = due \ {w} /\ freed' = freed \ {w}
  /\ SystemWrites({w})

TenancyStep ==
  \/ \E what \in Operations : \E q \in Starting(what), a \in Admins, w \in Workspaces : DoOpens(q, a, what, w)
  \/ \E q \in Requests : Do(q)
=============================================================================
