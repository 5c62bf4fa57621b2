------------------------------ MODULE Pipeline ------------------------------
(***************************************************************************)
(* The hiring pipeline up to the draft shortlist: candidates, the queue    *)
(* they wait in to be screened, the screenings under way, and the          *)
(* shortlists a verdict puts them on.                                      *)
(*                                                                         *)
(* A screening is two transactions with a model call between them, so what *)
(* it read may be old when its verdict is written.  The second transaction *)
(* is two steps here: it takes the lock on the candidate's row and looks   *)
(* for the draft list, then writes to that list and commits.               *)
(***************************************************************************)
EXTENDS Naturals, Sequences, FiniteSets

CONSTANTS
  Candidates,
  Jobs,
  Workspaces,
  Runners,        \* portal processes, each with its own queue runner
  Requests,       \* HTTP requests that may be served at the same time
  WorkspaceOf,    \* the workspace of each candidate and of each job
  AppliedTo,      \* the job each candidate was filed under when they arrived
  Unrouted,       \* those the mail router could not place (NO_JOB_ROUTING)
  AutoMode,       \* workspaces that queue arrivals and moves by themselves
  Paused,         \* suspended workspaces: nothing of theirs is screened
  ScreeningLimit, \* screenings each workspace may use in the period
  Hidings,        \* ways of hiding a candidate: "archived", "not_application"
  Judgements,     \* the statuses people set by hand
  Batch,          \* candidates one run of the queue takes (autoScreenBatch)
  MaxLists,       \* bound: shortlists created
  MaxActs         \* bound: the things people do in the portal

Statuses == {"inbox", "screened", "shortlisted", "interviewed", "advance_stage", "hired", "rejected"}

Screeners == Runners \union Requests

ASSUME PipelineAssumption ==
  /\ WorkspaceOf \in [Candidates \union Jobs -> Workspaces]
  /\ AppliedTo \in [Candidates -> Jobs]
  /\ \A c \in Candidates : WorkspaceOf[AppliedTo[c]] = WorkspaceOf[c]
  /\ Unrouted \subseteq Candidates
  /\ AutoMode \subseteq Workspaces /\ Paused \subseteq Workspaces
  /\ ScreeningLimit \in [Workspaces -> Nat]
  /\ Hidings \subseteq {"archived", "not_application"}
  /\ Judgements \subseteq Statuses
  /\ Batch \in Nat \ {0} /\ MaxLists \in Nat /\ MaxActs \in Nat
  /\ Runners \intersect Requests = {}
  /\ IsFiniteSet(Candidates) /\ IsFiniteSet(Screeners) /\ Screeners # {}

VARIABLES
  cand,      \* each candidate's row
  queuedAt,  \* each candidate's screeningQueuedAt, or NotQueued
  acts,      \* how often people have done something: the bound, and the clock
  lists,     \* every shortlist created, with its entries
  used,      \* screenings metered to each workspace
  batch,     \* what each runner has still to take of the batch it read
  screening  \* the screening each runner and each request is at

pipelineVars == << cand, queuedAt, acts, lists, used, batch, screening >>

Entries == {"none", "live", "approved", "removed"}   \* no row, finalState null, ...
NewList == 0
NotQueued == 0
Arrival == 1
NoScreening == [ at |-> "idle", who |-> "nobody", job |-> "none", shortlist |-> FALSE, list |-> NewList ]

----------------------------------------------------------------------------
(* Candidates.                                                              *)

\* Mutation of CanAutoAdvance: a judgement may be overwritten.
AnyForward(from, to) == from # to

\* Automatic progress only moves forward, and never from a person's judgement.
CanAutoAdvance(from, to) ==
  \/ to = "screened" /\ from = "inbox"
  \/ to = "shortlisted" /\ from \in {"inbox", "screened"}
  \/ to = "interviewed" /\ from \in {"inbox", "screened", "shortlisted"}

Advance(from, to) == IF CanAutoAdvance(from, to) THEN to ELSE from

Visible(c) == cand[c].hidden = {}
Screenable(c) == Visible(c) /\ cand[c].routed
WithinQuota(w) == used[w] < ScreeningLimit[w]

Queued(c) == queuedAt[c] # NotQueued
Unqueue(ids) == [c \in Candidates |-> IF c \in ids THEN NotQueued ELSE queuedAt[c]]

\* Setting screeningQueuedAt to now puts them behind everybody else.
Enqueue(ids) == [c \in Candidates |-> IF c \in ids THEN Arrival + acts + 1 ELSE queuedAt[c]]

\* A row is locked from the first write of a transaction until it commits.
RowFree(c) == \A s \in Screeners : ~(screening[s].at = "placing" /\ screening[s].who = c)

----------------------------------------------------------------------------
(* Shortlists.                                                              *)

\* Mutation of DraftsOf: any draft will do, whichever job it is for.
AnyDrafts(job) == { l \in DOMAIN lists : lists[l].status = "draft" }

DraftsOf(job) == { l \in DOMAIN lists : lists[l].job = job /\ lists[l].status = "draft" }

\* The draft list a transaction finds for the job, or that it will create one.
FoundDraft(job) == IF DraftsOf(job) = {} THEN { NewList } ELSE DraftsOf(job)

EmptyList(job) == [ job |-> job, status |-> "draft", entry |-> [ c \in Candidates |-> "none" ] ]

\* Puts c on the list that was found, reviving an entry that was removed.
Upsert(ls, l, job, c) ==
  IF l = NewList THEN Append(ls, [EmptyList(job) EXCEPT !.entry[c] = "live"])
  ELSE [ls EXCEPT ![l].entry[c] = "live"]

\* The bound on lists, looked at when the draft is looked for.
MayPlace(l) == l = NewList => Len(lists) < MaxLists

----------------------------------------------------------------------------
(* Screening one candidate.                                                 *)

\* Something a person does in the portal.
Acts == acts < MaxActs /\ acts' = acts + 1

\* Mutation of ReadsCandidate: the quota is not looked at.
ReadsWithoutQuota(s, c) ==
  /\ screening[s] = NoScreening
  /\ Screenable(c)
  /\ screening' = [screening EXCEPT ![s] =
       [NoScreening EXCEPT !.at = "model", !.who = c, !.job = cand[c].job]]

\* The first transaction: quota, candidate and job are read.
ReadsCandidate(s, c) ==
  /\ screening[s] = NoScreening
  /\ WithinQuota(WorkspaceOf[c])
  /\ Screenable(c)
  /\ screening' = [screening EXCEPT ![s] =
       [NoScreening EXCEPT !.at = "model", !.who = c, !.job = cand[c].job]]

\* The model has answered; the second transaction takes the row and looks for
\* the draft list of the job that was read.
Verdict(s) ==
  /\ screening[s].at = "model"
  /\ RowFree(screening[s].who)
  /\ \E yes \in BOOLEAN : \E l \in IF yes THEN FoundDraft(screening[s].job) ELSE { NewList } :
       /\ yes => MayPlace(l)
       /\ screening' = [screening EXCEPT ![s].at = "placing", ![s].shortlist = yes, ![s].list = l]
  /\ UNCHANGED << cand, queuedAt, acts, lists, used, batch >>

\* It writes the verdict, the placement, the status and the meter, and commits.
Placed(s) ==
  LET t == screening[s]
      screened == Advance(cand[t.who].status, "screened")
  IN
  /\ t.at = "placing"
  /\ cand' = [cand EXCEPT ![t.who].status =
       IF t.shortlist THEN Advance(screened, "shortlisted") ELSE screened]
  /\ queuedAt' = Unqueue({ t.who })
  /\ lists' = IF t.shortlist THEN Upsert(lists, t.list, t.job, t.who) ELSE lists
  /\ used' = [used EXCEPT ![WorkspaceOf[t.who]] = @ + 1]
  /\ screening' = [screening EXCEPT ![s] = NoScreening]
  /\ UNCHANGED << acts, batch >>

\* The Screen button of one candidate.
ScreenNow(q, c) ==
  /\ Acts /\ WorkspaceOf[c] \notin Paused
  /\ ReadsCandidate(q, c)
  /\ UNCHANGED << cand, queuedAt, lists, used, batch >>

\* The provider failed: the request ends in an error, the runner takes the
\* candidate off the queue so that they cannot loop.
ModelFails(s) ==
  /\ screening[s].at = "model"
  /\ screening' = [screening EXCEPT ![s] = NoScreening]
  /\ IF s \in Runners
       THEN RowFree(screening[s].who) /\ queuedAt' = Unqueue({ screening[s].who })
       ELSE UNCHANGED queuedAt
  /\ UNCHANGED << cand, acts, lists, used, batch >>

----------------------------------------------------------------------------
(* The queue runner, one at a time in each process.                         *)

RunnerIdle(r) == batch[r] = <<>> /\ screening[r] = NoScreening

Waiting == { c \in Candidates : Queued(c) /\ Visible(c) }
BatchSize == IF Cardinality(Waiting) < Batch THEN Cardinality(Waiting) ELSE Batch

\* No two the same, the oldest first, and nobody left out who is older.
OldestFirst(b) ==
  /\ \A m, n \in DOMAIN b : m < n => b[m] # b[n] /\ queuedAt[b[m]] <= queuedAt[b[n]]
  /\ \A c \in Waiting, n \in DOMAIN b : queuedAt[c] < queuedAt[b[n]] => \E m \in DOMAIN b : b[m] = c

RunnerStarts(r) ==
  /\ RunnerIdle(r)
  /\ Waiting # {}
  /\ \E b \in [1..BatchSize -> Waiting] : OldestFirst(b) /\ batch' = [batch EXCEPT ![r] = b]
  /\ UNCHANGED << cand, queuedAt, acts, lists, used, screening >>

\* The next of its batch, once the one before is done.
HasNext(r) == batch[r] # <<>> /\ screening[r] = NoScreening
DropHead(r) == batch' = [batch EXCEPT ![r] = Tail(@)]

\* Mutation of RunnerSkips: whoever cannot be screened is tried until they can.
RunnerWaits(r) ==
  LET c == Head(batch[r])
      w == WorkspaceOf[c]
  IN
  /\ HasNext(r)
  /\ w \in Paused \/ ~WithinQuota(w)
  /\ UNCHANGED pipelineVars

\* A paused workspace, or one out of screenings: left in the queue.
RunnerSkips(r) ==
  LET c == Head(batch[r])
      w == WorkspaceOf[c]
  IN
  /\ HasNext(r)
  /\ w \in Paused \/ ~WithinQuota(w)
  /\ DropHead(r)
  /\ UNCHANGED << cand, queuedAt, acts, lists, used, screening >>

\* Hidden or unrouted since it was queued: taken off the queue.
RunnerGivesUp(r) ==
  LET c == Head(batch[r])
      w == WorkspaceOf[c]
  IN
  /\ HasNext(r)
  /\ w \notin Paused /\ WithinQuota(w) /\ ~Screenable(c)
  /\ RowFree(c)
  /\ queuedAt' = Unqueue({ c })
  /\ DropHead(r)
  /\ UNCHANGED << cand, acts, lists, used, screening >>

RunnerScreens(r) ==
  /\ HasNext(r)
  /\ WorkspaceOf[Head(batch[r])] \notin Paused
  /\ ReadsCandidate(r, Head(batch[r]))
  /\ DropHead(r)
  /\ UNCHANGED << cand, queuedAt, acts, lists, used >>

----------------------------------------------------------------------------
(* What people do to candidates, alone or in bulk.                          *)

RowsFree(ids) == \A c \in ids : RowFree(c)
OneWorkspace(ids) == ids # {} /\ \E w \in Workspaces \ Paused : \A c \in ids : WorkspaceOf[c] = w

\* Archive, or Not an application: whatever could still lead to a call goes too.
Hide(ids, how) ==
  /\ Acts /\ OneWorkspace(ids) /\ RowsFree(ids)
  /\ cand' = [c \in Candidates |-> IF c \in ids THEN [cand[c] EXCEPT !.hidden = @ \union { how }] ELSE cand[c]]
  /\ queuedAt' = Unqueue(ids)
  /\ lists' = [l \in DOMAIN lists |-> [lists[l] EXCEPT !.entry =
       [c \in Candidates |-> IF c \in ids /\ @[c] \in {"live", "approved"} THEN "removed" ELSE @[c]]]]
  /\ UNCHANGED << used, batch, screening >>

\* Mutation of Restore: it brings back the entries that were taken off.
RestoreRevives(ids, how) ==
  /\ Acts /\ OneWorkspace(ids) /\ RowsFree(ids)
  /\ cand' = [c \in Candidates |-> IF c \in ids THEN [cand[c] EXCEPT !.hidden = @ \ { how }] ELSE cand[c]]
  /\ lists' = [l \in DOMAIN lists |-> [lists[l] EXCEPT !.entry =
       [c \in Candidates |-> IF c \in ids /\ @[c] = "removed" THEN "approved" ELSE @[c]]]]
  /\ UNCHANGED << queuedAt, used, batch, screening >>

\* Restore, or Is an application: undoes one of the two and brings nothing back.
Restore(ids, how) ==
  /\ Acts /\ OneWorkspace(ids) /\ RowsFree(ids)
  /\ cand' = [c \in Candidates |-> IF c \in ids THEN [cand[c] EXCEPT !.hidden = @ \ { how }] ELSE cand[c]]
  /\ UNCHANGED << queuedAt, lists, used, batch, screening >>

\* Bulk Screen now.
QueueUp(ids) ==
  LET eligible == { c \in ids : Screenable(c) } IN
  /\ Acts /\ OneWorkspace(ids) /\ eligible # {} /\ RowsFree(eligible)
  /\ queuedAt' = Enqueue(eligible)
  /\ UNCHANGED << cand, lists, used, batch, screening >>

\* Takes c off the lists of the job they leave.
OffTheLists(c, job) ==
  [l \in DOMAIN lists |-> IF lists[l].job = job THEN [lists[l] EXCEPT !.entry[c] = "none"] ELSE lists[l]]

\* Moves one candidate to another job: nobody has assessed them for it yet.
Move(c, job) ==
  /\ Acts /\ WorkspaceOf[job] = WorkspaceOf[c] /\ WorkspaceOf[c] \notin Paused
  /\ RowFree(c)
  /\ cand[c].job = job => ~cand[c].routed
  /\ lists' = OffTheLists(c, cand[c].job)
  /\ cand' = [cand EXCEPT ![c].job = job, ![c].routed = TRUE, ![c].status = "inbox"]
  /\ queuedAt' = IF WorkspaceOf[c] \in AutoMode THEN Enqueue({ c }) ELSE Unqueue({ c })
  /\ UNCHANGED << used, batch, screening >>

\* Sets a status by hand, forwards or backwards.
SetStatus(c, to) ==
  /\ Acts /\ WorkspaceOf[c] \notin Paused
  /\ RowFree(c)
  /\ cand[c].status # to
  /\ cand' = [cand EXCEPT ![c].status = to]
  /\ UNCHANGED << queuedAt, lists, used, batch, screening >>

PipelineInit ==
  /\ cand = [ c \in Candidates |->
       [ job |-> AppliedTo[c], status |-> "inbox", hidden |-> {}, routed |-> c \notin Unrouted ] ]
  /\ queuedAt = [ c \in Candidates |->
       IF c \notin Unrouted /\ WorkspaceOf[c] \in AutoMode THEN Arrival ELSE NotQueued ]
  /\ acts = 0
  /\ lists = <<>>
  /\ used = [ w \in Workspaces |-> 0 ]
  /\ batch = [ r \in Runners |-> <<>> ]
  /\ screening = [ s \in Screeners |-> NoScreening ]
=============================================================================
