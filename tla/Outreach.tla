------------------------------ MODULE Outreach ------------------------------
(***************************************************************************)
(* From the draft shortlist to the invitation: entries added and removed   *)
(* by hand, approval, the outreach gate and the mails it lets out, the     *)
(* calls of those who are cleared and the status their reports advance.    *)
(*                                                                         *)
(* Each of these is one transaction that reads, then writes.  Nothing      *)
(* locks what was read, so a request is two steps or more and any two of   *)
(* them may overlap.  A mail is sent from inside the transaction: it stays *)
(* sent when the transaction is rolled back.                               *)
(***************************************************************************)
EXTENDS Pipeline

CONSTANTS
  MaxApprovals, \* bound: approvals recorded
  MaxMails      \* bound: mails one candidate gets under one approval

ASSUME OutreachAssumption == MaxApprovals \in Nat /\ MaxMails \in Nat

VARIABLES
  request,   \* what each request has read and has yet to write
  approvals, \* the approvals given, in order: their list and its snapshot
  invited,   \* outreach rows with status "sent", under each approval
  mails,     \* mails that really left, under each approval
  report     \* the post-call analysis of each candidate and the status it read

outreachVars == << request, approvals, invited, mails, report >>
vars == << pipelineVars, outreachVars >>

NoRequest == [ doing |-> "nothing" ]
NobodyMailed == [ c \in Candidates |-> 0 ]

Doing(q, what) == request[q].doing = what
Free(q) == Doing(q, "nothing") /\ screening[q] = NoScreening
Ends(q) == request' = [request EXCEPT ![q] = NoRequest]

LiveOn(l) == { c \in Candidates : lists[l].entry[c] \in {"live", "approved"} }
ApprovalsOf(l) == { k \in DOMAIN approvals : approvals[k].list = l }
Latest(l) == CHOOSE k \in ApprovalsOf(l) : \A j \in ApprovalsOf(l) : j <= k

\* An approved entry on a list one of whose approvals names them.
Approved(c) ==
  \E l \in DOMAIN lists :
    /\ lists[l].entry[c] = "approved"
    /\ \E k \in ApprovalsOf(l) : c \in approvals[k].snapshot

\* Whom the telephone line lets into an interview.
Cleared(c) == Visible(c) /\ Approved(c)

----------------------------------------------------------------------------
(* The draft list.                                                          *)

AddOpens(q, c) ==
  /\ Acts /\ Free(q) /\ WorkspaceOf[c] \notin Paused
  /\ \E l \in FoundDraft(cand[c].job) :
       /\ MayPlace(l)
       /\ request' = [request EXCEPT ![q] =
            [ doing |-> "add", who |-> c, list |-> l, job |-> cand[c].job, status |-> cand[c].status ]]
  /\ UNCHANGED << cand, queuedAt, lists, used, batch, screening, approvals, invited, mails, report >>

\* Adds the entry and advances the status that was read.
AddCommits(q) ==
  LET t == request[q]
      advances == CanAutoAdvance(t.status, "shortlisted")
  IN
  /\ Doing(q, "add")
  /\ advances => RowFree(t.who)
  /\ lists' = Upsert(lists, t.list, t.job, t.who)
  /\ cand' = IF advances THEN [cand EXCEPT ![t.who].status = "shortlisted"] ELSE cand
  /\ Ends(q)
  /\ UNCHANGED << queuedAt, acts, used, batch, screening, approvals, invited, mails, report >>

\* Takes an entry off the draft list, which is created when there is none.
TakeOff(c) ==
  /\ Acts /\ WorkspaceOf[c] \notin Paused
  /\ \E l \in FoundDraft(cand[c].job) :
       /\ MayPlace(l)
       /\ lists' = IF l = NewList THEN Append(lists, EmptyList(cand[c].job))
                   ELSE IF lists[l].entry[c] = "none" THEN lists
                   ELSE [lists EXCEPT ![l].entry[c] = "removed"]
  /\ UNCHANGED << cand, queuedAt, used, batch, screening, outreachVars >>

----------------------------------------------------------------------------
(* Approval.                                                                *)

ApproveOpens(q, l) ==
  /\ Acts /\ Free(q) /\ WorkspaceOf[lists[l].job] \notin Paused
  /\ lists[l].status = "draft"
  /\ LiveOn(l) # {}
  /\ Len(approvals) < MaxApprovals
  /\ request' = [request EXCEPT ![q] = [ doing |-> "approve", list |-> l, snapshot |-> LiveOn(l) ]]
  /\ UNCHANGED << cand, queuedAt, lists, used, batch, screening, approvals, invited, mails, report >>

\* Records who was read, and approves whoever is on the list by now.
ApproveCommits(q) ==
  LET t == request[q] IN
  /\ Doing(q, "approve")
  /\ approvals' = Append(approvals, [ list |-> t.list, snapshot |-> t.snapshot ])
  /\ invited' = Append(invited, NobodyMailed)
  /\ mails' = Append(mails, NobodyMailed)
  /\ lists' = [lists EXCEPT ![t.list].status = "approved",
       ![t.list].entry = [c \in Candidates |-> IF @[c] = "live" THEN "approved" ELSE @[c]]]
  /\ Ends(q)
  /\ UNCHANGED << cand, queuedAt, acts, used, batch, screening, report >>

----------------------------------------------------------------------------
(* Invitations.                                                             *)

\* Mutation of Gate: an entry on the list is enough.
GateByEntry(l, asked) ==
  /\ ApprovalsOf(l) # {}
  /\ asked \subseteq LiveOn(l)

\* Everybody asked for must be on the list and in its latest approval.
Gate(l, asked) ==
  /\ ApprovalsOf(l) # {}
  /\ asked \subseteq LiveOn(l) \intersect approvals[Latest(l)].snapshot

AlreadyInvited(k) == { c \in Candidates : invited[k][c] > 0 }

\* Send to those named, or to everybody on the list; again only when asked to.
SendOpens(q, l) ==
  /\ Acts /\ Free(q) /\ WorkspaceOf[lists[l].job] \notin Paused
  /\ \E asked \in (SUBSET LiveOn(l)), resend \in BOOLEAN :
       /\ asked # {} /\ Gate(l, asked)
       /\ request' = [request EXCEPT ![q] =
            [ doing |-> "send", approval |-> Latest(l), sent |-> {}, failed |-> {}, resend |-> resend,
              todo |-> IF resend THEN asked ELSE asked \ AlreadyInvited(Latest(l)) ]]
  /\ UNCHANGED << cand, queuedAt, lists, used, batch, screening, approvals, invited, mails, report >>

\* One mail after the other; the provider takes it or refuses it.
SendsMail(q) ==
  /\ Doing(q, "send")
  /\ \E c \in request[q].todo, ok \in BOOLEAN :
       /\ ok => mails[request[q].approval][c] < MaxMails
       /\ request' = [request EXCEPT ![q].todo = @ \ { c },
                                     ![q].sent = IF ok THEN @ \union { c } ELSE @,
                                     ![q].failed = IF ok THEN @ ELSE @ \union { c }]
       /\ mails' = IF ok THEN [mails EXCEPT ![request[q].approval][c] = @ + 1] ELSE mails
  /\ UNCHANGED << pipelineVars, approvals, invited, report >>

\* Mutation of SendCommits: a mail the provider refused is recorded as sent.
SendCommitsAll(q) ==
  LET t == request[q] IN
  /\ Doing(q, "send") /\ t.todo = {}
  /\ invited' = [invited EXCEPT ![t.approval] =
       [c \in Candidates |-> IF c \in t.sent \union t.failed THEN @[c] + 1 ELSE @[c]]]
  /\ Ends(q)
  /\ UNCHANGED << pipelineVars, approvals, mails, report >>

SendCommits(q) ==
  LET t == request[q] IN
  /\ Doing(q, "send") /\ t.todo = {}
  /\ invited' = [invited EXCEPT ![t.approval] =
       [c \in Candidates |-> IF c \in t.sent THEN @[c] + 1 ELSE @[c]]]
  /\ Ends(q)
  /\ UNCHANGED << pipelineVars, approvals, mails, report >>

\* The transaction outlives its five seconds: its rows are gone, its mails are not.
SendTimesOut(q) ==
  /\ Doing(q, "send")
  /\ Ends(q)
  /\ UNCHANGED << pipelineVars, approvals, invited, mails, report >>

----------------------------------------------------------------------------
(* The call, and the status its report advances, in the worker.             *)

Calls(c) ==
  /\ report[c] = "none" /\ Cleared(c)
  /\ report' = [report EXCEPT ![c] = "analysing"]
  /\ UNCHANGED << pipelineVars, request, approvals, invited, mails >>

\* The report is written; the status is read.
ReportReads(c) ==
  /\ report[c] = "analysing"
  /\ report' = [report EXCEPT ![c] =
       IF CanAutoAdvance(cand[c].status, "interviewed") THEN "advancing" ELSE "done"]
  /\ UNCHANGED << pipelineVars, request, approvals, invited, mails >>

\* And written, whatever it has become since.
ReportAdvances(c) ==
  /\ report[c] = "advancing" /\ RowFree(c)
  /\ report' = [report EXCEPT ![c] = "done"]
  /\ cand' = [cand EXCEPT ![c].status = "interviewed"]
  /\ UNCHANGED << queuedAt, acts, lists, used, batch, screening, request, approvals, invited, mails >>

OutreachInit ==
  /\ request = [ q \in Requests |-> NoRequest ]
  /\ approvals = <<>> /\ invited = <<>> /\ mails = <<>>
  /\ report = [ c \in Candidates |-> "none" ]
=============================================================================
