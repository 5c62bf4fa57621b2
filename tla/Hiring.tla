------------------------------- MODULE Hiring -------------------------------
(***************************************************************************)
(* Pipeline and Outreach together: the behaviours of the hiring side of    *)
(* the portal, and what is expected of them.                               *)
(***************************************************************************)
EXTENDS Outreach

Init == PipelineInit /\ OutreachInit

Screens ==
  \/ \E s \in Screeners : (Verdict(s) \/ Placed(s) \/ ModelFails(s)) /\ UNCHANGED outreachVars
  \/ \E q \in Requests, c \in Candidates : Free(q) /\ ScreenNow(q, c) /\ UNCHANGED outreachVars

RunsQueue(r) ==
  /\ RunnerStarts(r) \/ RunnerSkips(r) \/ RunnerGivesUp(r) \/ RunnerScreens(r)
  /\ UNCHANGED outreachVars

Curates ==
  \/ \E ids \in SUBSET Candidates, how \in Hidings :
       (Hide(ids, how) \/ Restore(ids, how)) /\ UNCHANGED outreachVars
  \/ \E ids \in SUBSET Candidates : QueueUp(ids) /\ UNCHANGED outreachVars
  \/ \E c \in Candidates, job \in Jobs : Move(c, job) /\ UNCHANGED outreachVars
  \/ \E c \in Candidates, to \in Judgements : SetStatus(c, to) /\ UNCHANGED outreachVars
  \/ \E c \in Candidates : TakeOff(c)
  \/ \E q \in Requests, c \in Candidates : AddOpens(q, c)

Contacts(q) ==
  \/ \E l \in DOMAIN lists : ApproveOpens(q, l) \/ SendOpens(q, l)
  \/ AddCommits(q) \/ ApproveCommits(q)
  \/ SendsMail(q) \/ SendCommits(q) \/ SendTimesOut(q)

Interviews == \E c \in Candidates : Calls(c) \/ ReportReads(c) \/ ReportAdvances(c)

Next ==
  \/ Screens
  \/ \E r \in Runners : RunsQueue(r)
  \/ Curates
  \/ \E q \in Requests : Contacts(q)
  \/ Interviews

Spec == Init /\ [][Next]_vars

\* The timer starts the runner every minute, a run goes through its batch, and
\* a screening that has begun is answered, times out, or is written.
Fairness ==
  /\ \A r \in Runners : WF_vars(RunsQueue(r))
  /\ \A s \in Screeners : WF_vars((Verdict(s) \/ Placed(s) \/ ModelFails(s)) /\ UNCHANGED outreachVars)

FairSpec == Spec /\ Fairness

----------------------------------------------------------------------------
(* Properties.                                                              *)

CandidateType == [ job : Jobs, status : Statuses, hidden : SUBSET Hidings, routed : BOOLEAN ]

ListType == [ job : Jobs, status : {"draft", "approved"}, entry : [Candidates -> Entries] ]

ScreeningType ==
  { NoScreening } \union
  [ at : {"model", "placing"}, who : Candidates, job : Jobs, shortlist : BOOLEAN, list : Nat ]

RequestType ==
  { NoRequest }
  \union [ doing : {"add"}, who : Candidates, list : Nat, job : Jobs, status : Statuses ]
  \union [ doing : {"approve"}, list : Nat, snapshot : SUBSET Candidates ]
  \union [ doing : {"send"}, approval : Nat, sent : SUBSET Candidates, failed : SUBSET Candidates,
           resend : BOOLEAN, todo : SUBSET Candidates ]

ApprovalType == [ list : Nat, snapshot : SUBSET Candidates ]
CountType == [Candidates -> Nat]

\* Every variable holds what its comment says.
Typed ==
  /\ cand \in [Candidates -> CandidateType]
  /\ acts \in Nat
  /\ queuedAt \in [Candidates -> NotQueued .. Arrival + acts]
  /\ lists \in Seq(ListType)
  /\ used \in [Workspaces -> Nat]
  /\ batch \in [Runners -> Seq(Candidates)]
  /\ screening \in [Screeners -> ScreeningType]
  /\ request \in [Requests -> RequestType]
  /\ approvals \in Seq(ApprovalType)
  /\ invited \in Seq(CountType) /\ mails \in Seq(CountType)
  /\ report \in [Candidates -> {"none", "analysing", "advancing", "done"}]

ListOf(l, job) == l \in DOMAIN lists /\ lists[l].job = job

\* What a row, a transaction or an approval refers to is there, and is of the
\* job and the workspace it should be.
Referred ==
  /\ \A c \in Candidates : WorkspaceOf[cand[c].job] = WorkspaceOf[c]
  /\ \A s \in Screeners : screening[s].list # NewList => ListOf(screening[s].list, screening[s].job)
  /\ \A q \in Requests :
       /\ Doing(q, "add") /\ request[q].list # NewList => ListOf(request[q].list, request[q].job)
       /\ Doing(q, "approve") => request[q].list \in DOMAIN lists
       /\ Doing(q, "send") => request[q].approval \in DOMAIN approvals
  /\ \A k \in DOMAIN approvals : approvals[k].list \in DOMAIN lists
  /\ Len(invited) = Len(approvals) /\ Len(mails) = Len(approvals)

\* Every variable keeps its type, and every reference leads where it should: a
\* verdict or an add that is written late still finds the list it looked up.
TypeOK == Typed /\ Referred

\* A mail only ever goes to somebody the approval it is sent under names,
\* whatever was added, removed, hidden or moved since (gates.ts).
OnlyApprovedAreInvited ==
  \A k \in DOMAIN mails : \A c \in Candidates : mails[k][c] > 0 => c \in approvals[k].snapshot

\* The sends under way that have mailed c under approval k, but not recorded it.
Unrecorded(k, c) ==
  { q \in Requests : Doing(q, "send") /\ request[q].approval = k /\ c \in request[q].sent }

\* A row that says "sent" stands for a mail that left: the rows, and the mails
\* sends under way have yet to record, never outnumber the mails.
RowsStandForMails ==
  \A k \in DOMAIN mails : \A c \in Candidates :
    invited[k][c] + Cardinality(Unrecorded(k, c)) <= mails[k][c]

\* Nobody is cleared to be interviewed except by an approval, at the moment it
\* is given, that names them: not by being restored, re-added or screened again.
\* Where two approvals of one list overlap, the first may have named them.
ClearanceIsGiven ==
  [][\A c \in Candidates : ~Approved(c) /\ Approved(c)' =>
       LET given == Len(approvals') IN
       /\ given > Len(approvals)
       /\ \E k \in DOMAIN approvals' :
            /\ c \in approvals'[k].snapshot
            /\ k = given \/ approvals[k].list = approvals'[given].list]_vars

\* The quota is checked before the model is called and counted after: a
\* workspace overdraws it by at most the screenings that were under way.
QuotaOverdraftIsBounded ==
  \A w \in Workspaces : used[w] <= ScreeningLimit[w] + Cardinality(Screeners) - 1

Judged == {"advance_stage", "hired", "rejected"}

\* A person's judgement is only overwritten by a person, or by a transaction
\* that read an earlier status: an add or a report.  A screening, which takes
\* the row before it reads the status, never does.
JudgementOutlivesScreening ==
  [][\A c \in Candidates : cand[c].status \in Judged /\ cand'[c].status # cand[c].status =>
       \/ acts' # acts
       \/ report[c] = "advancing"
       \/ \E q \in Requests : Doing(q, "add") /\ request[q].status \notin Judged]_vars

\* Whoever is queued is screened, taken off, or hidden in the end, unless their
\* workspace runs out of screenings: provided a batch is larger than the number
\* of candidates in front of them that the runner has to leave where they are.
QueueIsWorkedOff ==
  \A c \in Candidates :
    WorkspaceOf[c] \notin Paused =>
      (Queued(c) ~> ~Queued(c) \/ ~Visible(c) \/ ~WithinQuota(WorkspaceOf[c]))
=============================================================================
