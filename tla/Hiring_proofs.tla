---------------------------- MODULE Hiring_proofs ----------------------------
(***************************************************************************)
(* Theorems about Hiring, for any number of requests, runners, candidates, *)
(* jobs and workspaces.  They rest on one invariant, Inv: types and        *)
(* references, that a send under way only serves those its approval names, *)
(* that the mails it has yet to record are accounted for, and that the     *)
(* screenings under way are counted against the quota with those metered.  *)
(***************************************************************************)
EXTENDS Hiring, FiniteSetTheorems, WellFoundedInduction, TLAPS

\* Whom a send has mailed or will mail, its approval names.
Named ==
  \A q \in Requests : Doing(q, "send") =>
    request[q].todo \union request[q].sent \subseteq approvals[request[q].approval].snapshot

\* The screenings of one workspace that are under way.
Busy(w) == { s \in Screeners : screening[s] # NoScreening /\ WorkspaceOf[screening[s].who] = w }

\* They are counted with those that were metered.
Reserved ==
  \A w \in Workspaces : used[w] + Cardinality(Busy(w)) <= ScreeningLimit[w] + Cardinality(Screeners) - 1

Inv == TypeOK /\ Named /\ OnlyApprovedAreInvited /\ RowsStandForMails /\ Reserved

----------------------------------------------------------------------------
(* The records.                                                             *)

LEMMA NoScreeningIsOne == NoScreening \in ScreeningType
  BY DEF ScreeningType

LEMMA ScreeningFields ==
  ASSUME NEW t \in ScreeningType, t.at \in {"model", "placing"}
  PROVE  /\ t \in [ at : {"model", "placing"}, who : Candidates, job : Jobs,
                    shortlist : BOOLEAN, list : Nat ]
         /\ t # NoScreening
  BY DEF ScreeningType, NoScreening

LEMMA NoRequestIsOne == NoRequest \in RequestType
  BY DEF RequestType

LEMMA AddFields ==
  ASSUME NEW t \in RequestType, t.doing = "add"
  PROVE  t \in [ doing : {"add"}, who : Candidates, list : Nat, job : Jobs, status : Statuses ]
  BY DEF RequestType, NoRequest

LEMMA ApproveFields ==
  ASSUME NEW t \in RequestType, t.doing = "approve"
  PROVE  t \in [ doing : {"approve"}, list : Nat, snapshot : SUBSET Candidates ]
  BY DEF RequestType, NoRequest

LEMMA SendFields ==
  ASSUME NEW t \in RequestType, t.doing = "send"
  PROVE  t \in [ doing : {"send"}, approval : Nat, sent : SUBSET Candidates, failed : SUBSET Candidates,
                 resend : BOOLEAN, todo : SUBSET Candidates ]
  BY DEF RequestType, NoRequest

LEMMA FreeRequest ==
  ASSUME NEW q \in Requests, Free(q)
  PROVE  /\ screening[q] = NoScreening
         /\ request[q].doing = "nothing"
  BY DEF Free, Doing

----------------------------------------------------------------------------
(* Candidates and the queue.                                                *)

LEMMA AdvanceIsAStatus ==
  ASSUME NEW from \in Statuses, NEW to \in Statuses
  PROVE  Advance(from, to) \in Statuses
  BY DEF Advance

LEMMA JudgementStands ==
  ASSUME NEW from \in Judged, NEW to
  PROVE  Advance(from, to) = from
  BY DEF Advance, CanAutoAdvance, Judged

\* The rows of the candidates in a later state: the job of each is as it was.
SameJobs(rows) ==
  /\ rows \in [Candidates -> CandidateType]
  /\ \A c \in Candidates : rows[c].job = cand[c].job

LEMMA StatusSet ==
  ASSUME Typed, NEW c \in Candidates, NEW status \in Statuses
  PROVE  SameJobs([cand EXCEPT ![c].status = status])
<1>1. cand[c] \in CandidateType
  BY DEF Typed
<1>2. [cand[c] EXCEPT !.status = status] \in CandidateType
  BY <1>1 DEF CandidateType
<1>3. [cand[c] EXCEPT !.status = status].job = cand[c].job
  BY <1>1 DEF CandidateType
<1> QED
  BY <1>2, <1>3 DEF Typed, SameJobs

LEMMA UnqueueTypes ==
  ASSUME Typed, NEW ids, NEW t \in {acts, acts + 1}
  PROVE  Unqueue(ids) \in [Candidates -> NotQueued .. Arrival + t]
  BY DEF Typed, Unqueue, NotQueued, Arrival

LEMMA EnqueueTypes ==
  ASSUME Typed, NEW ids
  PROVE  Enqueue(ids) \in [Candidates -> NotQueued .. Arrival + (acts + 1)]
  BY DEF Typed, Enqueue, NotQueued, Arrival

LEMMA ActsTypes ==
  ASSUME Typed, Acts
  PROVE  /\ acts' \in Nat /\ acts' = acts + 1
         /\ queuedAt \in [Candidates -> NotQueued .. Arrival + acts']
  BY DEF Typed, Acts, NotQueued, Arrival

----------------------------------------------------------------------------
(* The lists.                                                               *)

\* Later lists: none is gone and each is of the job it was for.
ListsHold(ls) ==
  /\ ls \in Seq(ListType)
  /\ Len(lists) <= Len(ls)
  /\ \A l \in DOMAIN lists : ls[l].job = lists[l].job

\* And no entry of theirs has been approved meanwhile.
NoneApproved(ls) ==
  \A l \in DOMAIN ls, c \in Candidates : ls[l].entry[c] = "approved" =>
    l \in DOMAIN lists /\ lists[l].entry[c] = "approved"

LEMMA ListsKept ==
  ASSUME Typed
  PROVE  ListsHold(lists) /\ NoneApproved(lists)
  BY DEF Typed, ListsHold, NoneApproved

\* Rewriting some lists in place.
LEMMA ListsRewritten ==
  ASSUME Typed, NEW ls \in [DOMAIN lists -> ListType],
         \A l \in DOMAIN lists : ls[l].job = lists[l].job
  PROVE  ListsHold(ls)
<1>1. lists \in Seq(ListType)
  BY DEF Typed
<1>2. DOMAIN lists = 1 .. Len(lists) /\ Len(lists) \in Nat
  BY <1>1
<1>3. ls \in Seq(ListType) /\ Len(ls) = Len(lists)
  BY <1>2
<1> QED
  BY <1>3 DEF ListsHold

LEMMA EntrySet ==
  ASSUME NEW list \in ListType, NEW c \in Candidates, NEW to \in Entries
  PROVE  /\ [list EXCEPT !.entry[c] = to] \in ListType
         /\ [list EXCEPT !.entry[c] = to].job = list.job
         /\ \A d \in Candidates : [list EXCEPT !.entry[c] = to].entry[d] =
              IF d = c THEN to ELSE list.entry[d]
  BY DEF ListType

\* Setting one entry of one list to anything but approved.
LEMMA OneEntrySet ==
  ASSUME Typed, NEW l \in DOMAIN lists, NEW c \in Candidates, NEW to \in Entries, to # "approved"
  PROVE  /\ ListsHold([lists EXCEPT ![l].entry[c] = to])
         /\ NoneApproved([lists EXCEPT ![l].entry[c] = to])
<1> DEFINE ls == [lists EXCEPT ![l].entry[c] = to]
<1>1. lists \in Seq(ListType) /\ lists[l] \in ListType
  BY DEF Typed
<1>2. ls = [lists EXCEPT ![l] = [lists[l] EXCEPT !.entry[c] = to]]
  OBVIOUS
<1>3. /\ DOMAIN ls = DOMAIN lists
      /\ \A k \in DOMAIN lists : ls[k] = IF k = l THEN [lists[l] EXCEPT !.entry[c] = to] ELSE lists[k]
  BY <1>1, <1>2
<1>4. ls \in [DOMAIN lists -> ListType]
  BY <1>1, <1>2, EntrySet
<1>5. \A k \in DOMAIN lists : ls[k].job = lists[k].job
  BY <1>1, <1>3, EntrySet
<1>6. ListsHold(ls)
  BY <1>4, <1>5, ListsRewritten
<1>7. NoneApproved(ls)
  BY <1>1, <1>3, EntrySet DEF NoneApproved
<1> QED
  BY <1>6, <1>7

LEMMA EmptyListTypes ==
  ASSUME NEW job \in Jobs
  PROVE  /\ EmptyList(job) \in ListType
         /\ EmptyList(job).job = job
         /\ \A c \in Candidates : EmptyList(job).entry[c] = "none"
  BY DEF EmptyList, ListType, Entries

\* A list created without an approved entry.
LEMMA OneListMore ==
  ASSUME Typed, NEW list \in ListType, \A c \in Candidates : list.entry[c] # "approved"
  PROVE  ListsHold(Append(lists, list)) /\ NoneApproved(Append(lists, list))
<1>1. lists \in Seq(ListType)
  BY DEF Typed
<1>2. /\ Append(lists, list) \in Seq(ListType)
      /\ Len(Append(lists, list)) = Len(lists) + 1
      /\ \A l \in DOMAIN lists : Append(lists, list)[l] = lists[l]
      /\ Append(lists, list)[Len(lists) + 1] = list
      /\ \A l \in DOMAIN Append(lists, list) : l \in DOMAIN lists \/ l = Len(lists) + 1
  BY <1>1
<1> QED
  BY <1>1, <1>2 DEF ListsHold, NoneApproved

LEMMA UpsertHolds ==
  ASSUME Typed, NEW job \in Jobs, NEW c \in Candidates, NEW l,
         l # NewList => ListOf(l, job)
  PROVE  ListsHold(Upsert(lists, l, job, c)) /\ NoneApproved(Upsert(lists, l, job, c))
<1>0. "live" \in Entries
  BY DEF Entries
<1>1. CASE l = NewList
  <2> DEFINE new == [EmptyList(job) EXCEPT !.entry[c] = "live"]
  <2>1. new \in ListType /\ \A d \in Candidates : new.entry[d] # "approved"
    BY <1>0, EmptyListTypes, EntrySet
  <2>2. Upsert(lists, l, job, c) = Append(lists, new)
    BY <1>1 DEF Upsert
  <2> QED
    BY <2>1, <2>2, OneListMore
<1>2. CASE l # NewList
  <2>1. l \in DOMAIN lists
    BY <1>2 DEF ListOf
  <2>2. Upsert(lists, l, job, c) = [lists EXCEPT ![l].entry[c] = "live"]
    BY <1>2 DEF Upsert
  <2>3. /\ ListsHold([lists EXCEPT ![l].entry[c] = "live"])
        /\ NoneApproved([lists EXCEPT ![l].entry[c] = "live"])
    BY <1>0, <2>1, OneEntrySet
  <2> QED
    BY <2>2, <2>3
<1> QED
  BY <1>1, <1>2

LEMMA FoundDraftIsThere ==
  ASSUME Typed, NEW job \in Jobs, NEW l \in FoundDraft(job)
  PROVE  l \in Nat /\ (l # NewList => ListOf(l, job))
  BY DEF Typed, FoundDraft, DraftsOf, ListOf, NewList

----------------------------------------------------------------------------
(* Types and references.                                                    *)

\* The screening of s is one, and has the list it looked up.
Found(t) == t.list # NewList => ListOf(t.list, t.job)

\* So has a request, and a send has its approval.
Fits(t) ==
  /\ t.doing = "add" /\ t.list # NewList => ListOf(t.list, t.job)
  /\ t.doing = "approve" => t.list \in DOMAIN lists
  /\ t.doing = "send" => t.approval \in DOMAIN approvals

SameWorkspaces(rows) == \A c \in Candidates : WorkspaceOf[rows[c].job] = WorkspaceOf[c]

LEMMA SameJobsSameWorkspaces ==
  ASSUME TypeOK, NEW rows, SameJobs(rows)
  PROVE  rows \in [Candidates -> CandidateType] /\ SameWorkspaces(rows)
  BY DEF TypeOK, Referred, SameJobs, SameWorkspaces

LEMMA FoundLater ==
  ASSUME TypeOK, ListsHold(lists'), NEW l, NEW job, ListOf(l, job)
  PROVE  l \in DOMAIN lists' /\ lists'[l].job = job
<1>1. lists \in Seq(ListType) /\ lists' \in Seq(ListType)
  BY DEF TypeOK, Typed, ListsHold
<1> QED
  BY <1>1 DEF ListsHold, ListOf

\* What happens to the pipeline alone.
LEMMA AsideKeepsTypes ==
  ASSUME TypeOK, UNCHANGED outreachVars,
         cand' \in [Candidates -> CandidateType], SameWorkspaces(cand'),
         acts' \in Nat, queuedAt' \in [Candidates -> NotQueued .. Arrival + acts'],
         ListsHold(lists'),
         used' \in [Workspaces -> Nat], batch' \in [Runners -> Seq(Candidates)],
         screening' \in [Screeners -> ScreeningType],
         \A s \in Screeners : screening'[s] = screening[s] \/ Found(screening'[s])
  PROVE  TypeOK'
<1>1. Typed'
  BY DEF TypeOK, Typed, ListsHold, outreachVars
<1>2. ASSUME NEW s \in Screeners, screening'[s].list # NewList
      PROVE  ListOf(screening[s].list, screening[s].job)'
  <2>1. ListOf(screening'[s].list, screening'[s].job)
    BY <1>2 DEF TypeOK, Referred, Found
  <2> QED
    BY <2>1, FoundLater DEF ListOf
<1>3. lists \in Seq(ListType) /\ lists' \in Seq(ListType) /\ Len(lists) <= Len(lists')
  BY DEF TypeOK, Typed, ListsHold
<1>4. DOMAIN lists \subseteq DOMAIN lists'
  BY <1>3
<1>5. \A q \in Requests :
        /\ (Doing(q, "add") /\ request[q].list # NewList => ListOf(request[q].list, request[q].job))'
        /\ Doing(q, "approve")' => request'[q].list \in DOMAIN lists'
        /\ Doing(q, "send")' => request'[q].approval \in DOMAIN approvals'
  BY <1>4, FoundLater DEF TypeOK, Referred, Doing, ListOf, outreachVars
<1>6. Referred'
  BY <1>2, <1>4, <1>5 DEF TypeOK, Referred, SameWorkspaces, outreachVars
<1> QED
  BY <1>1, <1>6 DEF TypeOK

\* What a request reads or writes beside the approvals.
LEMMA RequestKeepsTypes ==
  ASSUME TypeOK, NEW q \in Requests, NEW t \in RequestType, Fits(t),
         request' = [request EXCEPT ![q] = t],
         UNCHANGED << used, batch, screening, approvals, report >>,
         cand' \in [Candidates -> CandidateType], SameWorkspaces(cand'),
         acts' \in Nat, queuedAt' \in [Candidates -> NotQueued .. Arrival + acts'],
         ListsHold(lists'),
         invited' \in Seq(CountType), Len(invited') = Len(invited),
         mails' \in Seq(CountType), Len(mails') = Len(mails)
  PROVE  TypeOK'
<1>0. /\ request \in [Requests -> RequestType]
      /\ \A p \in Requests : request'[p] = IF p = q THEN t ELSE request[p]
  BY DEF TypeOK, Typed
<1>1. Typed'
  BY <1>0 DEF TypeOK, Typed, ListsHold
<1>2. \A s \in Screeners : (screening[s].list # NewList => ListOf(screening[s].list, screening[s].job))'
  BY FoundLater DEF TypeOK, Referred, ListOf
<1>3. lists \in Seq(ListType) /\ lists' \in Seq(ListType) /\ Len(lists) <= Len(lists')
  BY DEF TypeOK, Typed, ListsHold
<1>4. DOMAIN lists \subseteq DOMAIN lists'
  BY <1>3
<1>5. \A p \in Requests : Fits(request'[p])
  BY <1>0 DEF TypeOK, Referred, Fits, Doing
<1>6. \A p \in Requests :
        /\ (Doing(p, "add") /\ request[p].list # NewList => ListOf(request[p].list, request[p].job))'
        /\ Doing(p, "approve")' => request'[p].list \in DOMAIN lists'
        /\ Doing(p, "send")' => request'[p].approval \in DOMAIN approvals'
  BY <1>4, <1>5, FoundLater DEF Fits, Doing, ListOf
<1>7. Referred'
  BY <1>2, <1>4, <1>6 DEF TypeOK, Referred, SameWorkspaces
<1> QED
  BY <1>1, <1>7 DEF TypeOK

\* A screening that begins.
LEMMA ReadsTypes ==
  ASSUME TypeOK, NEW s \in Screeners, NEW c \in Candidates, ReadsCandidate(s, c)
  PROVE  /\ screening' \in [Screeners -> ScreeningType]
         /\ \A u \in Screeners : screening'[u] = screening[u] \/ Found(screening'[u])
<1> DEFINE t == [NoScreening EXCEPT !.at = "model", !.who = c, !.job = cand[c].job]
<1>1. cand[c].job \in Jobs
  BY DEF TypeOK, Typed, CandidateType
<1>2. t \in ScreeningType /\ t.list = NewList
  BY <1>1 DEF ScreeningType, NoScreening, NewList
<1>3. screening' = [screening EXCEPT ![s] = t]
  BY DEF ReadsCandidate
<1>4. screening \in [Screeners -> ScreeningType]
  BY DEF TypeOK, Typed
<1> QED
  BY <1>2, <1>3, <1>4 DEF Found

\* A screening that is over.
LEMMA EndsTypes ==
  ASSUME TypeOK, NEW s \in Screeners, screening' = [screening EXCEPT ![s] = NoScreening]
  PROVE  /\ screening' \in [Screeners -> ScreeningType]
         /\ \A u \in Screeners : screening'[u] = screening[u] \/ Found(screening'[u])
<1>1. screening \in [Screeners -> ScreeningType]
  BY DEF TypeOK, Typed
<1>2. NoScreening.list = NewList
  BY DEF NoScreening
<1> QED
  BY <1>1, <1>2, NoScreeningIsOne DEF Found

LEMMA VerdictTypes ==
  ASSUME TypeOK, NEW s \in Screeners, Verdict(s), UNCHANGED outreachVars
  PROVE  TypeOK'
<1> DEFINE t == screening[s]
<1>1. screening \in [Screeners -> ScreeningType]
  BY DEF TypeOK, Typed
<1>2. t.at = "model"
  BY DEF Verdict
<1>3. t \in [ at : {"model", "placing"}, who : Candidates, job : Jobs, shortlist : BOOLEAN, list : Nat ]
  BY <1>1, <1>2, ScreeningFields
<1>a. PICK yes \in BOOLEAN : \E l \in IF yes THEN FoundDraft(t.job) ELSE { NewList } :
        screening' = [screening EXCEPT ![s].at = "placing", ![s].shortlist = yes, ![s].list = l]
  BY DEF Verdict
<1>4. PICK l \in IF yes THEN FoundDraft(t.job) ELSE { NewList } :
        screening' = [screening EXCEPT ![s].at = "placing", ![s].shortlist = yes, ![s].list = l]
  BY <1>a
<1>5. l \in Nat /\ (l # NewList => ListOf(l, t.job))
  BY <1>3, FoundDraftIsThere DEF TypeOK, NewList
<1> DEFINE u == [t EXCEPT !.at = "placing", !.shortlist = yes, !.list = l]
<1>6. /\ u \in [ at : {"model", "placing"}, who : Candidates, job : Jobs, shortlist : BOOLEAN, list : Nat ]
      /\ u.list = l /\ u.job = t.job
  BY <1>3, <1>5
<1>7. u \in ScreeningType /\ Found(u)
  BY <1>5, <1>6 DEF ScreeningType, Found
<1>8. screening' = [screening EXCEPT ![s] = u]
  BY <1>4
<1>9. /\ screening' \in [Screeners -> ScreeningType]
      /\ \A v \in Screeners : screening'[v] = screening[v] \/ Found(screening'[v])
  BY <1>1, <1>7, <1>8
<1>10. SameWorkspaces(cand)
  BY DEF TypeOK, Referred, SameWorkspaces
<1>11. ListsHold(lists)
  BY ListsKept DEF TypeOK
<1>12. UNCHANGED << cand, queuedAt, acts, lists, used, batch >>
  BY DEF Verdict
<1> QED
  BY <1>9, <1>10, <1>11, <1>12, AsideKeepsTypes DEF TypeOK, Typed

LEMMA PlacedLists ==
  ASSUME TypeOK, NEW s \in Screeners, Placed(s)
  PROVE  ListsHold(lists') /\ NoneApproved(lists')
<1>1. screening[s] \in ScreeningType /\ screening[s].at = "placing"
  BY DEF TypeOK, Typed, Placed
<1>2. screening[s].job \in Jobs /\ screening[s].who \in Candidates
  BY <1>1, ScreeningFields
<1>3. screening[s].list # NewList => ListOf(screening[s].list, screening[s].job)
  BY DEF TypeOK, Referred
<1> QED
  BY <1>2, <1>3, UpsertHolds, ListsKept DEF TypeOK, Placed

LEMMA PlacedTypes ==
  ASSUME TypeOK, NEW s \in Screeners, Placed(s), UNCHANGED outreachVars
  PROVE  TypeOK'
<1> DEFINE t == screening[s]
           screened == Advance(cand[t.who].status, "screened")
           status == IF t.shortlist THEN Advance(screened, "shortlisted") ELSE screened
<1>0. Typed
  BY DEF TypeOK
<1>1. t \in ScreeningType /\ t.at = "placing"
  BY DEF TypeOK, Typed, Placed
<1>2. t.who \in Candidates
  BY <1>1, ScreeningFields
<1>3. cand[t.who].status \in Statuses
  BY <1>2 DEF TypeOK, Typed, CandidateType
<1>4. status \in Statuses
  BY <1>3, AdvanceIsAStatus DEF Statuses
<1>5. cand' = [cand EXCEPT ![t.who].status = status]
  BY DEF Placed
<1>6. cand' \in [Candidates -> CandidateType] /\ SameWorkspaces(cand')
  BY <1>0, <1>2, <1>4, <1>5, StatusSet, SameJobsSameWorkspaces
<1>7. queuedAt' \in [Candidates -> NotQueued .. Arrival + acts'] /\ acts' \in Nat
  BY <1>0, UnqueueTypes DEF Placed, Typed
<1>a. batch' \in [Runners -> Seq(Candidates)]
  BY DEF TypeOK, Typed, Placed
<1>b. used' = [used EXCEPT ![WorkspaceOf[t.who]] = used[WorkspaceOf[t.who]] + 1]
  BY DEF Placed
<1>c. used \in [Workspaces -> Nat]
  BY DEF TypeOK, Typed
<1>d. WorkspaceOf[t.who] \in Workspaces
  BY <1>2, PipelineAssumption
<1>e. used' \in [Workspaces -> Nat]
  BY <1>b, <1>c, <1>d
<1>8. used' \in [Workspaces -> Nat] /\ batch' \in [Runners -> Seq(Candidates)]
  BY <1>a, <1>e
<1>9. /\ screening' \in [Screeners -> ScreeningType]
      /\ \A u \in Screeners : screening'[u] = screening[u] \/ Found(screening'[u])
  BY EndsTypes DEF Placed
<1> QED
  BY <1>6, <1>7, <1>8, <1>9, PlacedLists, AsideKeepsTypes

\* Steps that leave candidates and lists alone.
LEMMA QueueKeepsTypes ==
  ASSUME TypeOK, UNCHANGED << cand, lists, used >>, UNCHANGED outreachVars,
         acts' \in Nat, queuedAt' \in [Candidates -> NotQueued .. Arrival + acts'],
         batch' \in [Runners -> Seq(Candidates)],
         screening' \in [Screeners -> ScreeningType],
         \A s \in Screeners : screening'[s] = screening[s] \/ Found(screening'[s])
  PROVE  TypeOK'
<1>1. SameWorkspaces(cand')
  BY DEF TypeOK, Referred, SameWorkspaces
<1>2. ListsHold(lists')
  BY ListsKept DEF TypeOK
<1>3. cand' \in [Candidates -> CandidateType] /\ used' \in [Workspaces -> Nat]
  BY DEF TypeOK, Typed
<1> QED
  BY <1>1, <1>2, <1>3, AsideKeepsTypes

LEMMA ScreenNowTypes ==
  ASSUME TypeOK, NEW q \in Requests, NEW c \in Candidates, ScreenNow(q, c), UNCHANGED outreachVars
  PROVE  TypeOK'
<1>1. q \in Screeners
  BY DEF Screeners
<1>2. acts' \in Nat /\ queuedAt' \in [Candidates -> NotQueued .. Arrival + acts']
  BY ActsTypes DEF TypeOK, ScreenNow
<1>3. batch' \in [Runners -> Seq(Candidates)]
  BY DEF TypeOK, Typed, ScreenNow
<1> QED
  BY <1>1, <1>2, <1>3, ReadsTypes, QueueKeepsTypes DEF ScreenNow

LEMMA ModelFailsTypes ==
  ASSUME TypeOK, NEW s \in Screeners, ModelFails(s), UNCHANGED outreachVars
  PROVE  TypeOK'
<1>1. queuedAt' \in [Candidates -> NotQueued .. Arrival + acts'] /\ acts' \in Nat
  BY UnqueueTypes DEF ModelFails, TypeOK, Typed
<1>2. batch' \in [Runners -> Seq(Candidates)]
  BY DEF TypeOK, Typed, ModelFails
<1> QED
  BY <1>1, <1>2, EndsTypes, QueueKeepsTypes DEF ModelFails

LEMMA BatchIsASequence ==
  ASSUME NEW b \in [1..BatchSize -> Waiting]
  PROVE  b \in Seq(Candidates)
<1>1. Waiting \subseteq Candidates
  BY DEF Waiting
<1>2. IsFiniteSet(Waiting)
  BY <1>1, FS_Subset, PipelineAssumption
<1>3. Cardinality(Waiting) \in Nat
  BY <1>2, FS_CardinalityType
<1>4. BatchSize \in Nat
  BY <1>3, PipelineAssumption DEF BatchSize
<1> QED
  BY <1>1, <1>4

LEMMA RunnerTypes ==
  ASSUME TypeOK, NEW r \in Runners, RunsQueue(r)
  PROVE  TypeOK'
<1>0. /\ r \in Screeners /\ batch \in [Runners -> Seq(Candidates)]
      /\ queuedAt \in [Candidates -> NotQueued .. Arrival + acts] /\ acts \in Nat
      /\ screening \in [Screeners -> ScreeningType]
  BY DEF TypeOK, Typed, Screeners
<1>1. UNCHANGED outreachVars
  BY DEF RunsQueue
<1>2. CASE RunnerStarts(r)
  <2>1. batch' \in [Runners -> Seq(Candidates)]
    BY <1>0, <1>2, BatchIsASequence DEF RunnerStarts
  <2> QED
    BY <1>0, <1>1, <1>2, <2>1, QueueKeepsTypes DEF RunnerStarts
<1>3. ASSUME HasNext(r), DropHead(r)
      PROVE  batch' \in [Runners -> Seq(Candidates)] /\ Head(batch[r]) \in Candidates
  <2>1. batch[r] \in Seq(Candidates) /\ batch[r] # << >>
    BY <1>0, <1>3 DEF HasNext
  <2>2. Tail(batch[r]) \in Seq(Candidates) /\ Head(batch[r]) \in Candidates
    BY <2>1
  <2>3. batch' = [batch EXCEPT ![r] = Tail(batch[r])]
    BY <1>3 DEF DropHead
  <2> QED
    BY <1>0, <2>2, <2>3
<1>4. CASE RunnerSkips(r)
  BY <1>0, <1>1, <1>3, <1>4, QueueKeepsTypes DEF RunnerSkips
<1>5. CASE RunnerGivesUp(r)
  <2>1. queuedAt' \in [Candidates -> NotQueued .. Arrival + acts'] /\ acts' = acts
    BY <1>5, UnqueueTypes DEF RunnerGivesUp, TypeOK
  <2>2. UNCHANGED << cand, acts, lists, used, screening >> /\ batch' \in [Runners -> Seq(Candidates)]
    BY <1>3, <1>5 DEF RunnerGivesUp
  <2> QED
    BY <1>0, <1>1, <2>1, <2>2, QueueKeepsTypes
<1>6. CASE RunnerScreens(r)
  <2>1. UNCHANGED << cand, queuedAt, acts, lists, used >> /\ batch' \in [Runners -> Seq(Candidates)]
    BY <1>3, <1>6 DEF RunnerScreens
  <2>2. /\ screening' \in [Screeners -> ScreeningType]
        /\ \A u \in Screeners : screening'[u] = screening[u] \/ Found(screening'[u])
    BY <1>0, <1>3, <1>6, ReadsTypes DEF RunnerScreens
  <2> QED
    BY <1>0, <1>1, <2>1, <2>2, QueueKeepsTypes
<1> QED
  BY <1>2, <1>4, <1>5, <1>6 DEF RunsQueue

----------------------------------------------------------------------------
(* What people do to candidates.                                            *)

LEMMA HideLists ==
  ASSUME TypeOK, NEW ids \in SUBSET Candidates, NEW how \in Hidings, Hide(ids, how)
  PROVE  ListsHold(lists') /\ NoneApproved(lists')
<1> DEFINE entries(l) == [c \in Candidates |->
             IF c \in ids /\ lists[l].entry[c] \in {"live", "approved"} THEN "removed"
             ELSE lists[l].entry[c]]
<1>1. \A l \in DOMAIN lists : lists[l] \in ListType
  BY DEF TypeOK, Typed
<1>2. \A l \in DOMAIN lists : entries(l) \in [Candidates -> Entries]
  BY <1>1 DEF ListType, Entries
<1>3. lists' = [l \in DOMAIN lists |-> [lists[l] EXCEPT !.entry = entries(l)]]
  BY DEF Hide
<1>4. \A l \in DOMAIN lists :
        lists'[l] \in ListType /\ lists'[l].job = lists[l].job /\ lists'[l].entry = entries(l)
  BY <1>1, <1>2, <1>3 DEF ListType
<1>5. lists' \in [DOMAIN lists -> ListType]
  BY <1>3, <1>4
<1>6. ListsHold(lists')
  BY <1>4, <1>5, ListsRewritten DEF TypeOK
<1>7. ASSUME NEW l \in DOMAIN lists', NEW c \in Candidates, lists'[l].entry[c] = "approved"
      PROVE  l \in DOMAIN lists /\ lists[l].entry[c] = "approved"
  <2>1. l \in DOMAIN lists
    BY <1>3
  <2>2. lists'[l].entry[c] = entries(l)[c]
    BY <1>4, <2>1
  <2> QED
    BY <1>7, <2>1, <2>2
<1> QED
  BY <1>6, <1>7 DEF NoneApproved

LEMMA HiddenRewritten ==
  ASSUME Typed, NEW ids, NEW hidden \in [Candidates -> SUBSET Hidings],
         NEW rows, rows = [c \in Candidates |->
           IF c \in ids THEN [cand[c] EXCEPT !.hidden = hidden[c]] ELSE cand[c]]
  PROVE  SameJobs(rows)
<1>1. \A c \in Candidates : cand[c] \in CandidateType
  BY DEF Typed
<1>2. \A c \in Candidates : /\ [cand[c] EXCEPT !.hidden = hidden[c]] \in CandidateType
                            /\ [cand[c] EXCEPT !.hidden = hidden[c]].job = cand[c].job
  BY <1>1 DEF CandidateType
<1> QED
  BY <1>1, <1>2 DEF SameJobs

LEMMA HideTypes ==
  ASSUME TypeOK, NEW ids \in SUBSET Candidates, NEW how \in Hidings, Hide(ids, how),
         UNCHANGED outreachVars
  PROVE  TypeOK'
<1>1. /\ acts' \in Nat /\ queuedAt' \in [Candidates -> NotQueued .. Arrival + acts']
  BY ActsTypes, UnqueueTypes DEF TypeOK, Hide
<1> DEFINE hidden == [c \in Candidates |-> cand[c].hidden \union { how }]
<1>2. hidden \in [Candidates -> SUBSET Hidings]
  BY DEF TypeOK, Typed, CandidateType
<1>3. cand' = [c \in Candidates |-> IF c \in ids THEN [cand[c] EXCEPT !.hidden = hidden[c]] ELSE cand[c]]
  BY DEF Hide
<1>4. SameJobs(cand')
  BY <1>2, <1>3, HiddenRewritten DEF TypeOK
<1>5. /\ used' \in [Workspaces -> Nat] /\ batch' \in [Runners -> Seq(Candidates)]
      /\ screening' \in [Screeners -> ScreeningType] /\ screening' = screening
  BY DEF TypeOK, Typed, Hide
<1> QED
  BY <1>1, <1>4, <1>5, HideLists, SameJobsSameWorkspaces, AsideKeepsTypes

LEMMA RestoreTypes ==
  ASSUME TypeOK, NEW ids \in SUBSET Candidates, NEW how \in Hidings, Restore(ids, how),
         UNCHANGED outreachVars
  PROVE  TypeOK'
<1>1. /\ acts' \in Nat /\ queuedAt' \in [Candidates -> NotQueued .. Arrival + acts']
  BY ActsTypes DEF TypeOK, Restore
<1> DEFINE hidden == [c \in Candidates |-> cand[c].hidden \ { how }]
<1>2. hidden \in [Candidates -> SUBSET Hidings]
  BY DEF TypeOK, Typed, CandidateType
<1>3. cand' = [c \in Candidates |-> IF c \in ids THEN [cand[c] EXCEPT !.hidden = hidden[c]] ELSE cand[c]]
  BY DEF Restore
<1>4. SameJobs(cand')
  BY <1>2, <1>3, HiddenRewritten DEF TypeOK
<1>5. /\ used' \in [Workspaces -> Nat] /\ batch' \in [Runners -> Seq(Candidates)]
      /\ screening' \in [Screeners -> ScreeningType] /\ screening' = screening
  BY DEF TypeOK, Typed, Restore
<1>6. ListsHold(lists')
  BY ListsKept DEF TypeOK, Restore
<1> QED
  BY <1>1, <1>4, <1>5, <1>6, SameJobsSameWorkspaces, AsideKeepsTypes

LEMMA QueueUpTypes ==
  ASSUME TypeOK, NEW ids \in SUBSET Candidates, QueueUp(ids), UNCHANGED outreachVars
  PROVE  TypeOK'
<1>1. /\ acts' \in Nat /\ queuedAt' \in [Candidates -> NotQueued .. Arrival + acts']
  BY ActsTypes, EnqueueTypes DEF TypeOK, QueueUp
<1>2. /\ batch' \in [Runners -> Seq(Candidates)]
      /\ screening' \in [Screeners -> ScreeningType] /\ screening' = screening
  BY DEF TypeOK, Typed, QueueUp
<1> QED
  BY <1>1, <1>2, QueueKeepsTypes DEF QueueUp

LEMMA OffTheListsHolds ==
  ASSUME Typed, NEW c \in Candidates, NEW job
  PROVE  ListsHold(OffTheLists(c, job)) /\ NoneApproved(OffTheLists(c, job))
<1> DEFINE ls == OffTheLists(c, job)
<1>1. \A l \in DOMAIN lists : lists[l] \in ListType
  BY DEF Typed
<1>2. "none" \in Entries
  BY DEF Entries
<1>3. \A l \in DOMAIN lists : ls[l] \in { lists[l], [lists[l] EXCEPT !.entry[c] = "none"] }
  BY DEF OffTheLists
<1>4. DOMAIN ls = DOMAIN lists
  BY DEF OffTheLists
<1>5. ASSUME NEW l \in DOMAIN lists
      PROVE  /\ ls[l] \in ListType /\ ls[l].job = lists[l].job
             /\ \A d \in Candidates : ls[l].entry[d] = "approved" => lists[l].entry[d] = "approved"
  <2>1. CASE ls[l] = lists[l]
    BY <1>1, <2>1
  <2>2. CASE ls[l] = [lists[l] EXCEPT !.entry[c] = "none"]
    <3> DEFINE list == [lists[l] EXCEPT !.entry[c] = "none"]
    <3>1. /\ list \in ListType /\ list.job = lists[l].job
          /\ \A d \in Candidates : list.entry[d] = IF d = c THEN "none" ELSE lists[l].entry[d]
      BY <1>1, <1>2, EntrySet
    <3> QED
      BY <2>2, <3>1
  <2> QED
    BY <1>3, <2>1, <2>2
<1>6. ls \in [DOMAIN lists -> ListType]
  BY <1>5 DEF OffTheLists
<1>7. ListsHold(ls)
  BY <1>5, <1>6, ListsRewritten
<1>8. NoneApproved(ls)
  BY <1>4, <1>5 DEF NoneApproved
<1> QED
  BY <1>7, <1>8

LEMMA MoveTypes ==
  ASSUME TypeOK, NEW c \in Candidates, NEW job \in Jobs, Move(c, job), UNCHANGED outreachVars
  PROVE  TypeOK'
<1>1. /\ acts' \in Nat /\ queuedAt' \in [Candidates -> NotQueued .. Arrival + acts']
  BY ActsTypes, EnqueueTypes, UnqueueTypes DEF TypeOK, Move
<1>2. ListsHold(lists')
  BY OffTheListsHolds DEF TypeOK, Move
<1> DEFINE row == [cand[c] EXCEPT !.job = job, !.routed = TRUE, !.status = "inbox"]
<1>3. cand \in [Candidates -> CandidateType] /\ SameWorkspaces(cand)
  BY DEF TypeOK, Typed, Referred, SameWorkspaces
<1>4. row \in CandidateType /\ row.job = job
  BY <1>3 DEF CandidateType, Statuses
<1>5. cand' = [cand EXCEPT ![c] = row]
  BY DEF Move
<1>6. cand' \in [Candidates -> CandidateType]
  BY <1>3, <1>4, <1>5
<1>7. SameWorkspaces(cand')
  BY <1>3, <1>4, <1>5 DEF SameWorkspaces, Move
<1>8. /\ used' \in [Workspaces -> Nat] /\ batch' \in [Runners -> Seq(Candidates)]
      /\ screening' \in [Screeners -> ScreeningType] /\ screening' = screening
  BY DEF TypeOK, Typed, Move
<1> QED
  BY <1>1, <1>2, <1>6, <1>7, <1>8, AsideKeepsTypes

LEMMA SetStatusTypes ==
  ASSUME TypeOK, NEW c \in Candidates, NEW to \in Judgements, SetStatus(c, to), UNCHANGED outreachVars
  PROVE  TypeOK'
<1>1. /\ acts' \in Nat /\ queuedAt' \in [Candidates -> NotQueued .. Arrival + acts']
  BY ActsTypes DEF TypeOK, SetStatus
<1>2. to \in Statuses
  BY PipelineAssumption
<1>3. SameJobs(cand')
  BY <1>2, StatusSet DEF TypeOK, SetStatus
<1>4. ListsHold(lists')
  BY ListsKept DEF TypeOK, SetStatus
<1>5. /\ used' \in [Workspaces -> Nat] /\ batch' \in [Runners -> Seq(Candidates)]
      /\ screening' \in [Screeners -> ScreeningType] /\ screening' = screening
  BY DEF TypeOK, Typed, SetStatus
<1> QED
  BY <1>1, <1>3, <1>4, <1>5, SameJobsSameWorkspaces, AsideKeepsTypes

LEMMA TakeOffLists ==
  ASSUME TypeOK, NEW c \in Candidates, TakeOff(c)
  PROVE  ListsHold(lists') /\ NoneApproved(lists')
<1>1. cand[c].job \in Jobs
  BY DEF TypeOK, Typed, CandidateType
<1>2. PICK l \in FoundDraft(cand[c].job) :
        lists' = IF l = NewList THEN Append(lists, EmptyList(cand[c].job))
                 ELSE IF lists[l].entry[c] = "none" THEN lists
                 ELSE [lists EXCEPT ![l].entry[c] = "removed"]
  BY DEF TakeOff
<1>3. l # NewList => l \in DOMAIN lists
  BY <1>1, FoundDraftIsThere DEF TypeOK, ListOf
<1>4. "removed" \in Entries
  BY DEF Entries
<1>5. ListsHold(Append(lists, EmptyList(cand[c].job))) /\ NoneApproved(Append(lists, EmptyList(cand[c].job)))
  BY <1>1, EmptyListTypes, OneListMore DEF TypeOK
<1> QED
  BY <1>2, <1>3, <1>4, <1>5, OneEntrySet, ListsKept DEF TypeOK

LEMMA TakeOffTypes ==
  ASSUME TypeOK, NEW c \in Candidates, TakeOff(c)
  PROVE  TypeOK'
<1>1. /\ acts' \in Nat /\ queuedAt' \in [Candidates -> NotQueued .. Arrival + acts']
  BY ActsTypes DEF TypeOK, TakeOff
<1>2. SameWorkspaces(cand')
  BY DEF TypeOK, Referred, SameWorkspaces, TakeOff
<1>3. /\ cand' \in [Candidates -> CandidateType]
      /\ used' \in [Workspaces -> Nat] /\ batch' \in [Runners -> Seq(Candidates)]
      /\ screening' \in [Screeners -> ScreeningType] /\ screening' = screening
  BY DEF TypeOK, Typed, TakeOff
<1>4. UNCHANGED outreachVars
  BY DEF TakeOff
<1> QED
  BY <1>1, <1>2, <1>3, <1>4, TakeOffLists, AsideKeepsTypes

----------------------------------------------------------------------------
(* Requests.                                                                *)

\* A request that has only read.
LEMMA OpensTypes ==
  ASSUME TypeOK, NEW q \in Requests, NEW t \in RequestType, Fits(t), Acts,
         request' = [request EXCEPT ![q] = t],
         UNCHANGED << cand, queuedAt, lists, used, batch, screening, approvals, invited, mails, report >>
  PROVE  TypeOK'
<1>1. /\ acts' \in Nat /\ queuedAt' \in [Candidates -> NotQueued .. Arrival + acts']
  BY ActsTypes DEF TypeOK
<1>2. SameWorkspaces(cand')
  BY DEF TypeOK, Referred, SameWorkspaces
<1>3. ListsHold(lists')
  BY ListsKept DEF TypeOK
<1>4. cand' \in [Candidates -> CandidateType] /\ invited' \in Seq(CountType) /\ mails' \in Seq(CountType)
  BY DEF TypeOK, Typed
<1> QED
  BY <1>1, <1>2, <1>3, <1>4, RequestKeepsTypes

\* A request that goes on or is over without touching candidates and lists.
LEMMA GoesOnTypes ==
  ASSUME TypeOK, NEW q \in Requests, NEW t \in RequestType, Fits(t),
         request' = [request EXCEPT ![q] = t],
         UNCHANGED << pipelineVars, approvals, report >>,
         invited' \in Seq(CountType), Len(invited') = Len(invited),
         mails' \in Seq(CountType), Len(mails') = Len(mails)
  PROVE  TypeOK'
<1>1. /\ acts' \in Nat /\ queuedAt' \in [Candidates -> NotQueued .. Arrival + acts']
  BY DEF TypeOK, Typed, pipelineVars
<1>2. SameWorkspaces(cand')
  BY DEF TypeOK, Referred, SameWorkspaces, pipelineVars
<1>3. ListsHold(lists')
  BY ListsKept DEF TypeOK, pipelineVars
<1>4. cand' \in [Candidates -> CandidateType]
  BY DEF TypeOK, Typed, pipelineVars
<1> QED
  BY <1>1, <1>2, <1>3, <1>4, RequestKeepsTypes DEF pipelineVars

LEMMA NoRequestFits == Fits(NoRequest)
  BY DEF Fits, NoRequest

LEMMA AddOpensTypes ==
  ASSUME TypeOK, NEW q \in Requests, NEW c \in Candidates, AddOpens(q, c)
  PROVE  TypeOK'
<1>1. cand[c].job \in Jobs /\ cand[c].status \in Statuses
  BY DEF TypeOK, Typed, CandidateType
<1>2. PICK l \in FoundDraft(cand[c].job) :
        request' = [request EXCEPT ![q] =
          [ doing |-> "add", who |-> c, list |-> l, job |-> cand[c].job, status |-> cand[c].status ]]
  BY DEF AddOpens
<1> DEFINE t == [ doing |-> "add", who |-> c, list |-> l, job |-> cand[c].job, status |-> cand[c].status ]
<1>3. l \in Nat /\ (l # NewList => ListOf(l, cand[c].job))
  BY <1>1, FoundDraftIsThere DEF TypeOK
<1>4. t \in RequestType /\ Fits(t)
  BY <1>1, <1>3 DEF RequestType, Fits
<1> QED
  BY <1>2, <1>4, OpensTypes DEF AddOpens

LEMMA AddCommitsLists ==
  ASSUME TypeOK, NEW q \in Requests, AddCommits(q)
  PROVE  ListsHold(lists') /\ NoneApproved(lists')
<1>1. request[q] \in RequestType /\ request[q].doing = "add"
  BY DEF TypeOK, Typed, AddCommits, Doing
<1>2. request[q].job \in Jobs /\ request[q].who \in Candidates
  BY <1>1, AddFields
<1>3. request[q].list # NewList => ListOf(request[q].list, request[q].job)
  BY <1>1 DEF TypeOK, Referred, Doing
<1> QED
  BY <1>2, <1>3, UpsertHolds DEF TypeOK, AddCommits

LEMMA AddCommitsTypes ==
  ASSUME TypeOK, NEW q \in Requests, AddCommits(q)
  PROVE  TypeOK'
<1>1. request[q] \in RequestType /\ request[q].doing = "add"
  BY DEF TypeOK, Typed, AddCommits, Doing
<1>2. request[q].who \in Candidates
  BY <1>1, AddFields
<1>3. SameJobs([cand EXCEPT ![request[q].who].status = "shortlisted"])
  BY <1>2, StatusSet DEF TypeOK, Statuses
<1>4. cand' \in [Candidates -> CandidateType] /\ SameWorkspaces(cand')
  BY <1>3, SameJobsSameWorkspaces DEF TypeOK, Typed, Referred, SameWorkspaces, AddCommits
<1>5. /\ acts' \in Nat /\ queuedAt' \in [Candidates -> NotQueued .. Arrival + acts']
      /\ invited' \in Seq(CountType) /\ mails' \in Seq(CountType)
  BY DEF TypeOK, Typed, AddCommits
<1> QED
  BY <1>4, <1>5, AddCommitsLists, NoRequestIsOne, NoRequestFits, RequestKeepsTypes
     DEF AddCommits, Ends

LEMMA ApproveOpensTypes ==
  ASSUME TypeOK, NEW q \in Requests, NEW l \in DOMAIN lists, ApproveOpens(q, l)
  PROVE  TypeOK'
<1> DEFINE t == [ doing |-> "approve", list |-> l, snapshot |-> LiveOn(l) ]
<1>1. LiveOn(l) \in SUBSET Candidates
  BY DEF LiveOn
<1>2. l \in Nat
  BY DEF TypeOK, Typed
<1>3. t \in RequestType /\ Fits(t)
  BY <1>1, <1>2 DEF RequestType, Fits
<1> QED
  BY <1>3, OpensTypes DEF ApproveOpens

\* The entries that are live become approved: the only lists that gain any.
LEMMA ApproveCommitsLists ==
  ASSUME TypeOK, NEW q \in Requests, ApproveCommits(q)
  PROVE  /\ ListsHold(lists')
         /\ request[q].list \in DOMAIN lists /\ request[q].snapshot \in SUBSET Candidates
         /\ DOMAIN lists' = DOMAIN lists
         /\ \A l \in DOMAIN lists : l # request[q].list => lists'[l] = lists[l]
<1> DEFINE t == request[q]
           entry == [c \in Candidates |->
                      IF lists[t.list].entry[c] = "live" THEN "approved" ELSE lists[t.list].entry[c]]
<1>1. t \in RequestType /\ t.doing = "approve"
  BY DEF TypeOK, Typed, ApproveCommits, Doing
<1>2. t.list \in DOMAIN lists /\ t.snapshot \in SUBSET Candidates
  BY <1>1, ApproveFields DEF TypeOK, Referred, Doing
<1>3. lists \in Seq(ListType) /\ lists[t.list] \in ListType
  BY <1>2 DEF TypeOK, Typed
<1>4. entry \in [Candidates -> Entries]
  BY <1>3 DEF ListType, Entries
<1> DEFINE list == [lists[t.list] EXCEPT !.status = "approved", !.entry = entry]
<1>5. list \in ListType /\ list.job = lists[t.list].job
  BY <1>3, <1>4 DEF ListType
<1>6. lists' = [lists EXCEPT ![t.list] = list]
  BY DEF ApproveCommits
<1>7. /\ lists' \in [DOMAIN lists -> ListType]
      /\ \A l \in DOMAIN lists : lists'[l].job = lists[l].job
  BY <1>2, <1>3, <1>5, <1>6
<1> QED
  BY <1>2, <1>3, <1>6, <1>7, ListsRewritten DEF TypeOK

LEMMA NobodyMailedCounts == NobodyMailed \in CountType
  BY DEF NobodyMailed, CountType

LEMMA ApproveCommitsTypes ==
  ASSUME TypeOK, NEW q \in Requests, ApproveCommits(q)
  PROVE  TypeOK'
<1> DEFINE given == [ list |-> request[q].list, snapshot |-> request[q].snapshot ]
<1>0. request[q].list \in DOMAIN lists /\ request[q].snapshot \in SUBSET Candidates /\ ListsHold(lists')
  BY ApproveCommitsLists
<1>1. /\ lists \in Seq(ListType) /\ approvals \in Seq(ApprovalType)
      /\ invited \in Seq(CountType) /\ mails \in Seq(CountType)
      /\ request \in [Requests -> RequestType]
  BY DEF TypeOK, Typed
<1>2. given \in ApprovalType
  BY <1>0, <1>1 DEF ApprovalType
<1>3. /\ approvals' = Append(approvals, given)
      /\ invited' = Append(invited, NobodyMailed) /\ mails' = Append(mails, NobodyMailed)
      /\ request' = [request EXCEPT ![q] = NoRequest]
  BY DEF ApproveCommits, Ends
<1>4. /\ approvals' \in Seq(ApprovalType) /\ invited' \in Seq(CountType) /\ mails' \in Seq(CountType)
      /\ request' \in [Requests -> RequestType]
  BY <1>1, <1>2, <1>3, NobodyMailedCounts, NoRequestIsOne
<1>5. Typed'
  BY <1>0, <1>4 DEF TypeOK, Typed, ListsHold, ApproveCommits
<1>6. DOMAIN lists \subseteq DOMAIN lists'
  BY <1>0, <1>1 DEF ListsHold
<1>7. \A p \in Requests : request'[p] = IF p = q THEN NoRequest ELSE request[p]
  BY <1>1, <1>3
<1>8. /\ DOMAIN approvals' = DOMAIN approvals \union { Len(approvals) + 1 }
      /\ \A k \in DOMAIN approvals : approvals'[k] = approvals[k]
      /\ approvals'[Len(approvals) + 1] = given
      /\ Len(approvals') = Len(approvals) + 1
      /\ Len(invited') = Len(invited) + 1 /\ Len(mails') = Len(mails) + 1
  BY <1>1, <1>2, <1>3, NobodyMailedCounts
<1>9. \A p \in Requests : Fits(request'[p])
  BY <1>7, NoRequestFits DEF TypeOK, Referred, Fits, Doing
<1>10. \A p \in Requests :
        /\ (Doing(p, "add") /\ request[p].list # NewList => ListOf(request[p].list, request[p].job))'
        /\ Doing(p, "approve")' => request'[p].list \in DOMAIN lists'
        /\ Doing(p, "send")' => request'[p].approval \in DOMAIN approvals'
  BY <1>0, <1>6, <1>8, <1>9, FoundLater DEF Fits, Doing, ListOf
<1>11. \A k \in DOMAIN approvals' : approvals'[k].list \in DOMAIN lists'
  BY <1>0, <1>6, <1>8 DEF TypeOK, Referred
<1>12. \A s \in Screeners : (screening[s].list # NewList => ListOf(screening[s].list, screening[s].job))'
  <2>1. screening' = screening
    BY DEF ApproveCommits
  <2>2. ASSUME NEW s \in Screeners, screening[s].list # NewList PROVE ListOf(screening[s].list, screening[s].job)'
    <3>1. PICK l, job : l = screening[s].list /\ job = screening[s].job
      OBVIOUS
    <3>2. ListOf(l, job)
      BY <2>2, <3>1 DEF TypeOK, Referred
    <3>3. l \in DOMAIN lists' /\ lists'[l].job = job
      BY <1>0, <3>2, FoundLater
    <3> QED
      BY <2>1, <3>1, <3>3 DEF ListOf
  <2> QED
    BY <2>1, <2>2
<1>13. \A c \in Candidates : WorkspaceOf[cand'[c].job] = WorkspaceOf[c]
  BY DEF TypeOK, Referred, ApproveCommits
<1>14. Referred'
  BY <1>8, <1>10, <1>11, <1>12, <1>13 DEF TypeOK, Referred
<1> QED
  BY <1>5, <1>14 DEF TypeOK

\* Of some of the numbers up to n one is the largest.
LEMMA LargestOfMany ==
  ASSUME NEW n \in Nat, NEW P \in SUBSET (1 .. n), P # {}
  PROVE  \E k \in P : \A j \in P : j <= k
<1> DEFINE T == { m \in Nat : \E k \in P : m = n - k }
<1>1. T \subseteq Nat /\ T # {}
  <2>1. PICK k \in P : TRUE
    OBVIOUS
  <2>2. n - k \in T
    OBVIOUS
  <2> QED
    BY <2>2
<1>2. PICK m \in T : \A y \in T : ~(<< y, m >> \in OpToRel(<, Nat))
  BY <1>1, NatLessThanWellFounded, WFMin
<1>3. PICK k \in P : m = n - k
  OBVIOUS
<1>4. ASSUME NEW j \in P PROVE j <= k
  <2>1. n - j \in T
    OBVIOUS
  <2>2. ~(n - j < m)
    BY <1>1, <1>2, <2>1 DEF OpToRel
  <2> QED
    BY <1>3, <2>2
<1> QED
  BY <1>4

LEMMA LatestIsOne ==
  ASSUME Typed, NEW l, ApprovalsOf(l) # {}
  PROVE  Latest(l) \in DOMAIN approvals
<1> DEFINE P == { k \in DOMAIN approvals : approvals[k].list = l }
<1>1. P = ApprovalsOf(l)
  BY DEF ApprovalsOf
<1>2. P \subseteq 1 .. Len(approvals) /\ Len(approvals) \in Nat
  BY DEF Typed
<1>3. \E k \in P : \A j \in P : j <= k
  BY <1>1, <1>2, LargestOfMany
<1> QED
  BY <1>1, <1>3 DEF Latest

LEMMA SendOpensTypes ==
  ASSUME TypeOK, NEW q \in Requests, NEW l \in DOMAIN lists, SendOpens(q, l)
  PROVE  /\ TypeOK'
         /\ \E t \in RequestType :
              /\ request' = [request EXCEPT ![q] = t]
              /\ t.doing = "send" /\ t.sent = {}
              /\ t.approval \in DOMAIN approvals /\ t.todo \subseteq approvals[t.approval].snapshot
<1>1. PICK asked \in SUBSET LiveOn(l) : \E resend \in BOOLEAN :
        /\ Gate(l, asked)
        /\ request' = [request EXCEPT ![q] =
             [ doing |-> "send", approval |-> Latest(l), sent |-> {}, failed |-> {}, resend |-> resend,
               todo |-> IF resend THEN asked ELSE asked \ AlreadyInvited(Latest(l)) ]]
  BY DEF SendOpens
<1>2. PICK resend \in BOOLEAN :
        /\ Gate(l, asked)
        /\ request' = [request EXCEPT ![q] =
             [ doing |-> "send", approval |-> Latest(l), sent |-> {}, failed |-> {}, resend |-> resend,
               todo |-> IF resend THEN asked ELSE asked \ AlreadyInvited(Latest(l)) ]]
  BY <1>1
<1> DEFINE todo == IF resend THEN asked ELSE asked \ AlreadyInvited(Latest(l))
           t == [ doing |-> "send", approval |-> Latest(l), sent |-> {}, failed |-> {},
                  resend |-> resend, todo |-> todo ]
<1>3. Latest(l) \in DOMAIN approvals /\ asked \subseteq approvals[Latest(l)].snapshot
  BY <1>2, LatestIsOne DEF TypeOK, Gate
<1>4. Latest(l) \in Nat /\ asked \subseteq Candidates
  BY <1>3 DEF TypeOK, Typed, LiveOn
<1>5. t \in RequestType /\ Fits(t)
  BY <1>3, <1>4 DEF RequestType, Fits
<1>6. request' = [request EXCEPT ![q] = t]
  BY <1>2
<1>7. TypeOK'
  BY <1>5, <1>6, OpensTypes DEF SendOpens
<1>8. /\ t.doing = "send" /\ t.sent = {} /\ t.approval \in DOMAIN approvals
      /\ t.todo \subseteq approvals[t.approval].snapshot
  BY <1>3
<1> QED
  BY <1>5, <1>6, <1>7, <1>8

\* What one mail does to the send, and to the mails.
LEMMA SendsMailMoves ==
  ASSUME TypeOK, NEW q \in Requests, SendsMail(q)
  PROVE  \E t \in RequestType, c \in request[q].todo, ok \in BOOLEAN :
           /\ request' = [request EXCEPT ![q] = t]
           /\ t.doing = "send" /\ t.approval = request[q].approval
           /\ t.todo = request[q].todo \ { c }
           /\ t.sent = IF ok THEN request[q].sent \union { c } ELSE request[q].sent
           /\ mails' = IF ok THEN [mails EXCEPT ![request[q].approval][c] = @ + 1] ELSE mails
<1> DEFINE r == request[q]
<1>1. PICK c \in r.todo : \E ok \in BOOLEAN :
        /\ request' = [request EXCEPT ![q].todo = @ \ { c },
                                      ![q].sent = IF ok THEN @ \union { c } ELSE @,
                                      ![q].failed = IF ok THEN @ ELSE @ \union { c }]
        /\ mails' = IF ok THEN [mails EXCEPT ![r.approval][c] = @ + 1] ELSE mails
  BY DEF SendsMail
<1>2. PICK ok \in BOOLEAN :
        /\ request' = [request EXCEPT ![q].todo = @ \ { c },
                                      ![q].sent = IF ok THEN @ \union { c } ELSE @,
                                      ![q].failed = IF ok THEN @ ELSE @ \union { c }]
        /\ mails' = IF ok THEN [mails EXCEPT ![r.approval][c] = @ + 1] ELSE mails
  BY <1>1
<1>3. request \in [Requests -> RequestType] /\ r \in RequestType /\ r.doing = "send"
  BY DEF TypeOK, Typed, SendsMail, Doing
<1>4. r \in [ doing : {"send"}, approval : Nat, sent : SUBSET Candidates, failed : SUBSET Candidates,
              resend : BOOLEAN, todo : SUBSET Candidates ]
  BY <1>3, SendFields
<1> DEFINE sent == IF ok THEN r.sent \union { c } ELSE r.sent
           failed == IF ok THEN r.failed ELSE r.failed \union { c }
           t == [r EXCEPT !.todo = r.todo \ { c }, !.sent = sent, !.failed = failed]
<1>5. sent \in SUBSET Candidates /\ failed \in SUBSET Candidates /\ r.todo \ { c } \in SUBSET Candidates
  BY <1>4
<1>6. /\ t \in [ doing : {"send"}, approval : Nat, sent : SUBSET Candidates, failed : SUBSET Candidates,
                 resend : BOOLEAN, todo : SUBSET Candidates ]
      /\ t.doing = "send" /\ t.approval = r.approval /\ t.todo = r.todo \ { c } /\ t.sent = sent
  BY <1>4, <1>5
<1>7. t \in RequestType
  BY <1>6 DEF RequestType
<1>8. request' = [request EXCEPT ![q] = t]
  BY <1>2, <1>3
<1> QED
  BY <1>2, <1>6, <1>7, <1>8

LEMMA CountMore ==
  ASSUME NEW counts \in Seq(CountType), NEW k \in DOMAIN counts, NEW c \in Candidates
  PROVE  /\ [counts EXCEPT ![k][c] = @ + 1] \in Seq(CountType)
         /\ Len([counts EXCEPT ![k][c] = @ + 1]) = Len(counts)
         /\ \A j \in DOMAIN counts, d \in Candidates :
              [counts EXCEPT ![k][c] = @ + 1][j][d] =
                IF j = k /\ d = c THEN counts[j][d] + 1 ELSE counts[j][d]
<1> DEFINE row == [counts[k] EXCEPT ![c] = counts[k][c] + 1]
<1>1. counts[k] \in CountType
  OBVIOUS
<1>2. /\ row \in CountType
      /\ \A d \in Candidates : row[d] = IF d = c THEN counts[k][d] + 1 ELSE counts[k][d]
  BY <1>1 DEF CountType
<1>3. [counts EXCEPT ![k][c] = @ + 1] = [counts EXCEPT ![k] = row]
  OBVIOUS
<1>4. /\ [counts EXCEPT ![k] = row] \in Seq(CountType)
      /\ Len([counts EXCEPT ![k] = row]) = Len(counts)
      /\ \A j \in DOMAIN counts : [counts EXCEPT ![k] = row][j] = IF j = k THEN row ELSE counts[j]
  BY <1>2
<1> QED
  BY <1>2, <1>3, <1>4

LEMMA SendsMailTypes ==
  ASSUME TypeOK, NEW q \in Requests, SendsMail(q)
  PROVE  TypeOK'
<1>1. PICK t \in RequestType, c \in request[q].todo, ok \in BOOLEAN :
        /\ request' = [request EXCEPT ![q] = t]
        /\ t.doing = "send" /\ t.approval = request[q].approval
        /\ t.todo = request[q].todo \ { c }
        /\ t.sent = IF ok THEN request[q].sent \union { c } ELSE request[q].sent
        /\ mails' = IF ok THEN [mails EXCEPT ![request[q].approval][c] = @ + 1] ELSE mails
  BY SendsMailMoves
<1>2. /\ request[q] \in RequestType /\ request[q].doing = "send"
      /\ request[q].approval \in DOMAIN approvals
      /\ approvals \in Seq(ApprovalType) /\ invited \in Seq(CountType) /\ mails \in Seq(CountType)
      /\ Len(mails) = Len(approvals)
  BY DEF TypeOK, Typed, Referred, SendsMail, Doing
<1>3. c \in Candidates
  BY <1>2, SendFields
<1>4. request[q].approval \in DOMAIN mails
  BY <1>2
<1>5. mails' \in Seq(CountType) /\ Len(mails') = Len(mails)
  <2>1. CASE ok
    <3>1. mails' = [mails EXCEPT ![request[q].approval][c] = @ + 1]
      BY <1>1, <2>1
    <3> QED
      BY <1>2, <1>3, <1>4, <3>1, CountMore
  <2>2. CASE ~ok
    BY <1>1, <1>2, <2>2
  <2> QED
    BY <2>1, <2>2
<1>6. Fits(t)
  BY <1>1, <1>2 DEF Fits
<1> QED
  BY <1>1, <1>2, <1>5, <1>6, GoesOnTypes DEF SendsMail

\* What the rows say once a send has been recorded.
LEMMA SendCommitsRows ==
  ASSUME TypeOK, NEW q \in Requests, SendCommits(q)
  PROVE  /\ invited' \in Seq(CountType) /\ Len(invited') = Len(invited)
         /\ request[q].approval \in DOMAIN invited
         /\ \A k \in DOMAIN invited, c \in Candidates :
              invited'[k][c] = IF k = request[q].approval /\ c \in request[q].sent
                                 THEN invited[k][c] + 1 ELSE invited[k][c]
<1> DEFINE r == request[q]
           row == [c \in Candidates |->
                    IF c \in r.sent THEN invited[r.approval][c] + 1 ELSE invited[r.approval][c]]
<1>1. /\ r.approval \in DOMAIN approvals
      /\ approvals \in Seq(ApprovalType) /\ invited \in Seq(CountType)
      /\ Len(invited) = Len(approvals)
  BY DEF TypeOK, Typed, Referred, SendCommits, Doing
<1>2. r.approval \in DOMAIN invited /\ invited[r.approval] \in CountType
  BY <1>1
<1>3. row \in CountType
  BY <1>2 DEF CountType
<1>4. invited' = [invited EXCEPT ![r.approval] = row]
  BY DEF SendCommits
<1>5. /\ invited' \in Seq(CountType) /\ Len(invited') = Len(invited)
      /\ \A k \in DOMAIN invited : invited'[k] = IF k = r.approval THEN row ELSE invited[k]
  BY <1>1, <1>2, <1>3, <1>4
<1>6. ASSUME NEW k \in DOMAIN invited, NEW c \in Candidates
      PROVE  invited'[k][c] = IF k = r.approval /\ c \in r.sent THEN invited[k][c] + 1 ELSE invited[k][c]
  <2>1. row[c] = IF c \in r.sent THEN invited[r.approval][c] + 1 ELSE invited[r.approval][c]
    OBVIOUS
  <2>2. invited'[k] = IF k = r.approval THEN row ELSE invited[k]
    BY <1>5
  <2> QED
    BY <2>1, <2>2
<1> QED
  BY <1>2, <1>5, <1>6

LEMMA SendCommitsTypes ==
  ASSUME TypeOK, NEW q \in Requests, SendCommits(q)
  PROVE  TypeOK'
<1>1. mails \in Seq(CountType)
  BY DEF TypeOK, Typed
<1> QED
  BY <1>1, SendCommitsRows, NoRequestIsOne, NoRequestFits, GoesOnTypes DEF SendCommits, Ends

LEMMA SendTimesOutTypes ==
  ASSUME TypeOK, NEW q \in Requests, SendTimesOut(q)
  PROVE  TypeOK'
<1>1. mails \in Seq(CountType) /\ invited \in Seq(CountType)
  BY DEF TypeOK, Typed
<1> QED
  BY <1>1, NoRequestIsOne, NoRequestFits, GoesOnTypes DEF SendTimesOut, Ends

\* Calls and their reports.
LEMMA InterviewsTypes ==
  ASSUME TypeOK, NEW c \in Candidates, Calls(c) \/ ReportReads(c) \/ ReportAdvances(c)
  PROVE  TypeOK'
<1>1. report' \in [Candidates -> {"none", "analysing", "advancing", "done"}]
  BY DEF TypeOK, Typed, Calls, ReportReads, ReportAdvances
<1>2. UNCHANGED << queuedAt, acts, lists, used, batch, screening, request, approvals, invited, mails >>
  BY DEF Calls, ReportReads, ReportAdvances, pipelineVars
<1>3. SameJobs([cand EXCEPT ![c].status = "interviewed"])
  BY StatusSet DEF TypeOK, Statuses
<1>4. cand' = cand \/ cand' = [cand EXCEPT ![c].status = "interviewed"]
  BY DEF Calls, ReportReads, ReportAdvances, pipelineVars
<1>5. cand' \in [Candidates -> CandidateType] /\ SameWorkspaces(cand')
  BY <1>3, <1>4, SameJobsSameWorkspaces DEF TypeOK, Typed, Referred, SameWorkspaces
<1>6. Typed'
  BY <1>1, <1>2, <1>5 DEF TypeOK, Typed
<1>7. Referred'
  BY <1>2, <1>5 DEF TypeOK, Referred, SameWorkspaces, Doing, ListOf
<1> QED
  BY <1>6, <1>7 DEF TypeOK

LEMMA InitTypes == Init => TypeOK
<1> SUFFICES ASSUME Init PROVE TypeOK
  OBVIOUS
<1>1. cand \in [Candidates -> CandidateType]
  BY PipelineAssumption DEF Init, PipelineInit, CandidateType, Statuses
<1>2. queuedAt \in [Candidates -> NotQueued .. Arrival + acts] /\ acts \in Nat
  BY DEF Init, PipelineInit, NotQueued, Arrival
<1>3. /\ lists \in Seq(ListType) /\ approvals \in Seq(ApprovalType)
      /\ invited \in Seq(CountType) /\ mails \in Seq(CountType)
  BY DEF Init, PipelineInit, OutreachInit
<1>4. used \in [Workspaces -> Nat] /\ batch \in [Runners -> Seq(Candidates)]
  BY DEF Init, PipelineInit
<1>5. screening \in [Screeners -> ScreeningType] /\ request \in [Requests -> RequestType]
  BY NoScreeningIsOne, NoRequestIsOne DEF Init, PipelineInit, OutreachInit
<1>6. report \in [Candidates -> {"none", "analysing", "advancing", "done"}]
  BY DEF Init, OutreachInit
<1>7. Typed
  BY <1>1, <1>2, <1>3, <1>4, <1>5, <1>6 DEF Typed
<1>8. \A c \in Candidates : WorkspaceOf[cand[c].job] = WorkspaceOf[c]
  BY PipelineAssumption DEF Init, PipelineInit
<1>9. \A s \in Screeners : screening[s].list = NewList
  BY DEF Init, PipelineInit, NoScreening
<1>10. \A q \in Requests : request[q].doing = "nothing"
  BY DEF Init, OutreachInit, NoRequest
<1>11. approvals = << >> /\ invited = << >> /\ mails = << >>
  BY DEF Init, OutreachInit
<1>12. Referred
  BY <1>8, <1>9, <1>10, <1>11 DEF Referred, Doing
<1> QED
  BY <1>7, <1>12 DEF TypeOK

LEMMA NextTypes ==
  ASSUME TypeOK, [Next]_vars
  PROVE  TypeOK'
<1>1. CASE Screens
  BY <1>1, VerdictTypes, PlacedTypes, ModelFailsTypes, ScreenNowTypes DEF Screens
<1>2. CASE \E r \in Runners : RunsQueue(r)
  BY <1>2, RunnerTypes
<1>3. CASE Curates
  BY <1>3, HideTypes, RestoreTypes, QueueUpTypes, MoveTypes, SetStatusTypes, TakeOffTypes, AddOpensTypes
     DEF Curates
<1>4. ASSUME NEW q \in Requests, Contacts(q) PROVE TypeOK'
  BY <1>4, ApproveOpensTypes, SendOpensTypes, AddCommitsTypes, ApproveCommitsTypes,
     SendsMailTypes, SendCommitsTypes, SendTimesOutTypes DEF Contacts
<1>5. CASE Interviews
  BY <1>5, InterviewsTypes DEF Interviews
<1>6. CASE UNCHANGED vars
  <2>1. UNCHANGED << cand, queuedAt, acts, lists, used, batch, screening, request, approvals,
                     invited, mails, report >>
    BY <1>6 DEF vars, pipelineVars, outreachVars
  <2>2. Typed'
    BY <2>1 DEF TypeOK, Typed
  <2>3. Referred'
    BY <2>1 DEF TypeOK, Referred, Doing, ListOf
  <2> QED
    BY <2>2, <2>3 DEF TypeOK
<1> QED
  BY <1>1, <1>2, <1>3, <1>4, <1>5, <1>6 DEF Next

----------------------------------------------------------------------------
(* Mails.                                                                   *)

MailsKept == Named /\ OnlyApprovedAreInvited /\ RowsStandForMails

LEMMA UnrecordedIsFinite ==
  ASSUME NEW k, NEW c
  PROVE  IsFiniteSet(Unrecorded(k, c)) /\ Cardinality(Unrecorded(k, c)) \in Nat
<1>1. Unrecorded(k, c) \subseteq Screeners
  BY DEF Unrecorded, Screeners
<1> QED
  BY <1>1, FS_Subset, FS_CardinalityType, PipelineAssumption

\* Most steps leave the approvals, the rows and the mails alone.
LEMMA MailsAside ==
  ASSUME MailsKept, UNCHANGED << request, approvals, invited, mails >>
  PROVE  MailsKept'
<1>1. Named' /\ OnlyApprovedAreInvited'
  BY DEF MailsKept, Named, OnlyApprovedAreInvited, Doing
<1>2. \A k, c : Unrecorded(k, c)' = Unrecorded(k, c)
  BY DEF Unrecorded, Doing
<1>3. RowsStandForMails'
  BY <1>2 DEF MailsKept, RowsStandForMails
<1> QED
  BY <1>1, <1>3 DEF MailsKept

\* A request that was not sending: it may begin to.
LEMMA MailsNotYet ==
  ASSUME TypeOK, MailsKept, NEW q \in Requests, NEW t, ~Doing(q, "send"),
         request' = [request EXCEPT ![q] = t], UNCHANGED << approvals, invited, mails >>,
         t.doing = "send" => t.sent = {} /\ t.todo \subseteq approvals[t.approval].snapshot
  PROVE  MailsKept'
<1>1. \A p \in Requests : request'[p] = IF p = q THEN t ELSE request[p]
  BY DEF TypeOK, Typed
<1>2. \A k, c : Unrecorded(k, c)' = Unrecorded(k, c)
  BY <1>1 DEF Unrecorded, Doing
<1>3. Named'
  BY <1>1 DEF MailsKept, Named, Doing
<1>4. OnlyApprovedAreInvited'
  BY DEF MailsKept, OnlyApprovedAreInvited
<1>5. RowsStandForMails'
  BY <1>2 DEF MailsKept, RowsStandForMails
<1> QED
  BY <1>3, <1>4, <1>5 DEF MailsKept

LEMMA ApproveCommitsMails ==
  ASSUME TypeOK, MailsKept, NEW q \in Requests, ApproveCommits(q)
  PROVE  MailsKept'
<1>0. /\ request[q].doing = "approve"
      /\ request' = [request EXCEPT ![q] = NoRequest]
      /\ approvals' = Append(approvals, [ list |-> request[q].list, snapshot |-> request[q].snapshot ])
      /\ invited' = Append(invited, NobodyMailed) /\ mails' = Append(mails, NobodyMailed)
  BY DEF ApproveCommits, Ends, Doing
<1>1. /\ approvals \in Seq(ApprovalType) /\ invited \in Seq(CountType) /\ mails \in Seq(CountType)
      /\ request \in [Requests -> RequestType]
      /\ Len(invited) = Len(approvals) /\ Len(mails) = Len(approvals)
  BY DEF TypeOK, Typed, Referred
<1>2. \A p \in Requests : request'[p] = IF p = q THEN NoRequest ELSE request[p]
  BY <1>0, <1>1
<1>3. \A p \in Requests : Doing(p, "send") => request[p].approval \in DOMAIN approvals
  BY DEF TypeOK, Referred
<1> DEFINE new == Len(approvals) + 1
<1>4. [ list |-> request[q].list, snapshot |-> request[q].snapshot ] \in ApprovalType
  <2>1. request[q] \in RequestType
    BY <1>1
  <2> QED
    BY <1>0, <2>1, ApproveFields DEF ApprovalType
<1>5. /\ \A k \in DOMAIN approvals : approvals'[k] = approvals[k]
      /\ \A k \in DOMAIN mails : mails'[k] = mails[k] /\ invited'[k] = invited[k]
      /\ mails'[new] = NobodyMailed /\ invited'[new] = NobodyMailed
      /\ DOMAIN mails' = DOMAIN mails \union { new }
      /\ DOMAIN mails = DOMAIN approvals
      /\ new \notin DOMAIN approvals
  BY <1>0, <1>1, <1>4, NobodyMailedCounts
<1>6. ASSUME NEW k, NEW c, k = new
      PROVE  Unrecorded(k, c)' = {}
  <2>1. \A p \in Requests : (Doing(p, "send"))' => request'[p].approval # k
    BY <1>2, <1>3, <1>5, <1>6 DEF Doing, NoRequest
  <2> QED
    BY <2>1 DEF Unrecorded
<1>7. \A k, c : Unrecorded(k, c)' = Unrecorded(k, c)
  BY <1>0, <1>2 DEF Unrecorded, Doing, NoRequest
<1>8. Named'
  BY <1>2, <1>3, <1>5 DEF MailsKept, Named, Doing, NoRequest
<1>9. OnlyApprovedAreInvited'
  BY <1>5 DEF MailsKept, OnlyApprovedAreInvited, NobodyMailed
<1>10. ASSUME NEW k \in DOMAIN mails', NEW c \in Candidates
       PROVE  invited'[k][c] + Cardinality(Unrecorded(k, c)') <= mails'[k][c]
  <2>1. CASE k \in DOMAIN mails
    BY <1>5, <1>7, <2>1 DEF MailsKept, RowsStandForMails
  <2>2. CASE k = new
    <3>1. Cardinality(Unrecorded(k, c)') = 0
      BY <1>6, <2>2, FS_EmptySet
    <3>2. invited'[k][c] = 0 /\ mails'[k][c] = 0
      BY <1>5, <2>2 DEF NobodyMailed
    <3> QED
      BY <3>1, <3>2
  <2> QED
    BY <1>5, <2>1, <2>2
<1> QED
  BY <1>8, <1>9, <1>10 DEF MailsKept, RowsStandForMails

LEMMA SendsMailMails ==
  ASSUME TypeOK, MailsKept, NEW q \in Requests, SendsMail(q)
  PROVE  MailsKept'
<1> DEFINE r == request[q]
<1>1. PICK t \in RequestType, c \in r.todo, ok \in BOOLEAN :
        /\ request' = [request EXCEPT ![q] = t]
        /\ t.doing = "send" /\ t.approval = r.approval
        /\ t.todo = r.todo \ { c }
        /\ t.sent = IF ok THEN r.sent \union { c } ELSE r.sent
        /\ mails' = IF ok THEN [mails EXCEPT ![r.approval][c] = @ + 1] ELSE mails
  BY SendsMailMoves
<1>2. /\ request \in [Requests -> RequestType] /\ r.doing = "send"
      /\ r.approval \in DOMAIN approvals
      /\ approvals \in Seq(ApprovalType) /\ invited \in Seq(CountType) /\ mails \in Seq(CountType)
      /\ Len(mails) = Len(approvals) /\ Len(invited) = Len(approvals)
  BY DEF TypeOK, Typed, Referred, SendsMail, Doing
<1>3. c \in Candidates /\ r.approval \in DOMAIN mails /\ DOMAIN mails = DOMAIN invited
  BY <1>2, SendFields
<1>4. UNCHANGED << approvals, invited >>
  BY DEF SendsMail
<1>5. \A p \in Requests : request'[p] = IF p = q THEN t ELSE request[p]
  BY <1>1, <1>2
<1>6. c \in approvals[r.approval].snapshot /\ r.sent \subseteq approvals[r.approval].snapshot
  BY <1>1, <1>2 DEF MailsKept, Named, Doing
<1>7. /\ DOMAIN mails' = DOMAIN mails
      /\ \A k \in DOMAIN mails, d \in Candidates :
           mails'[k][d] = IF ok /\ k = r.approval /\ d = c THEN mails[k][d] + 1 ELSE mails[k][d]
  <2>1. CASE ok
    <3> DEFINE j == r.approval
               more == [mails EXCEPT ![j][c] = @ + 1]
    <3>a. mails \in Seq(CountType) /\ j \in DOMAIN mails /\ c \in Candidates
      BY <1>2, <1>3
    <3> HIDE DEF j
    <3>b. /\ more \in Seq(CountType) /\ Len(more) = Len(mails)
          /\ \A k \in DOMAIN mails, d \in Candidates :
               more[k][d] = IF k = j /\ d = c THEN mails[k][d] + 1 ELSE mails[k][d]
      BY <3>a, CountMore, ZenonT(60)
    <3>1. mails' = more
      BY <1>1, <2>1 DEF j
    <3>2. Len(mails') = Len(mails) /\ mails' \in Seq(CountType)
      BY <3>b, <3>1
    <3>3. \A k \in DOMAIN mails, d \in Candidates :
            mails'[k][d] = IF k = r.approval /\ d = c THEN mails[k][d] + 1 ELSE mails[k][d]
      BY <3>b, <3>1 DEF j
    <3> QED
      BY <1>2, <2>1, <3>2, <3>3
  <2>2. CASE ~ok
    BY <1>1, <2>2
  <2> QED
    BY <2>1, <2>2
<1>8. ASSUME NEW p \in Requests, Doing(p, "send")'
      PROVE  (request[p].todo \union request[p].sent \subseteq approvals[request[p].approval].snapshot)'
  <2>1. CASE p = q
    <3>1. request'[p] = t /\ approvals' = approvals
      BY <1>4, <1>5, <2>1
    <3>2. r.todo \subseteq approvals[r.approval].snapshot
      BY <1>2 DEF MailsKept, Named, Doing
    <3>3. t.todo \union t.sent \subseteq approvals[r.approval].snapshot
      BY <1>1, <1>6, <3>2
    <3> QED
      BY <1>1, <3>1, <3>3
  <2>2. CASE p # q
    BY <1>4, <1>5, <1>8, <2>2 DEF MailsKept, Named, Doing
  <2> QED
    BY <2>1, <2>2
<1>9. OnlyApprovedAreInvited'
  BY <1>4, <1>6, <1>7 DEF MailsKept, OnlyApprovedAreInvited
<1>10. ASSUME NEW k \in DOMAIN mails, NEW d \in Candidates
       PROVE  invited'[k][d] + Cardinality(Unrecorded(k, d)') <= mails'[k][d]
  <2>0. /\ invited[k][d] + Cardinality(Unrecorded(k, d)) <= mails[k][d]
        /\ invited[k][d] \in Nat /\ mails[k][d] \in Nat
    BY <1>2, <1>3 DEF MailsKept, RowsStandForMails, CountType
  <2>1. CASE ok /\ k = r.approval /\ d = c
    <3>1. Unrecorded(k, d)' = Unrecorded(k, d) \union { q }
      BY <1>1, <1>2, <1>5, <2>1 DEF Unrecorded, Doing
    <3> DEFINE U == Unrecorded(k, d)
    <3>a. IsFiniteSet(U) /\ Cardinality(U) \in Nat
      BY UnrecordedIsFinite
    <3>b. Cardinality(U \union { q }) = IF q \in U THEN Cardinality(U) ELSE Cardinality(U) + 1
      BY <3>a, FS_AddElement
    <3>2. Cardinality(Unrecorded(k, d)') <= Cardinality(Unrecorded(k, d)) + 1
      BY <3>1, <3>a, <3>b
    <3>3. Cardinality(Unrecorded(k, d)') \in Nat
      BY <3>1, <3>a, <3>b
    <3> QED
      BY <1>4, <1>7, <2>0, <2>1, <3>2, <3>3, UnrecordedIsFinite
  <2>2. CASE ~(ok /\ k = r.approval /\ d = c)
    <3>1. Unrecorded(k, d)' = Unrecorded(k, d)
      BY <1>1, <1>2, <1>5, <2>2 DEF Unrecorded, Doing
    <3> QED
      BY <1>4, <1>7, <2>0, <2>2, <3>1
  <2> QED
    BY <2>1, <2>2
<1> QED
  BY <1>7, <1>8, <1>9, <1>10 DEF MailsKept, RowsStandForMails, Named

\* A send that is over: what it had not recorded it no longer has to.
LEMMA SendIsOver ==
  ASSUME TypeOK, NEW q \in Requests, Ends(q), NEW k, NEW c
  PROVE  Unrecorded(k, c)' = Unrecorded(k, c) \ { q }
<1>1. \A p \in Requests : request'[p] = IF p = q THEN NoRequest ELSE request[p]
  BY DEF TypeOK, Typed, Ends
<1> QED
  BY <1>1 DEF Unrecorded, Doing, NoRequest

LEMMA SendCommitsMails ==
  ASSUME TypeOK, MailsKept, NEW q \in Requests, SendCommits(q)
  PROVE  MailsKept'
<1> DEFINE r == request[q]
<1>1. /\ Doing(q, "send") /\ Ends(q) /\ UNCHANGED << approvals, mails >>
  BY DEF SendCommits
<1>2. /\ invited \in Seq(CountType) /\ mails \in Seq(CountType) /\ Len(mails) = Len(invited)
      /\ request \in [Requests -> RequestType]
  BY DEF TypeOK, Typed, Referred
<1>3. \A p \in Requests : request'[p] = IF p = q THEN NoRequest ELSE request[p]
  BY <1>1, <1>2 DEF Ends
<1>4. Named'
  BY <1>1, <1>3 DEF MailsKept, Named, Doing, NoRequest
<1>5. OnlyApprovedAreInvited'
  BY <1>1 DEF MailsKept, OnlyApprovedAreInvited
<1>6. ASSUME NEW k \in DOMAIN mails, NEW c \in Candidates
      PROVE  invited'[k][c] + Cardinality(Unrecorded(k, c)') <= mails[k][c]
  <2>0. /\ invited[k][c] + Cardinality(Unrecorded(k, c)) <= mails[k][c]
        /\ invited[k][c] \in Nat /\ mails[k][c] \in Nat
        /\ k \in DOMAIN invited
    BY <1>2 DEF MailsKept, RowsStandForMails, CountType
  <2>1. Unrecorded(k, c)' = Unrecorded(k, c) \ { q }
    BY <1>1, SendIsOver
  <2>2. CASE k = r.approval /\ c \in r.sent
    <3>1. q \in Unrecorded(k, c)
      BY <1>1, <2>2 DEF Unrecorded
    <3>2. Cardinality(Unrecorded(k, c)') = Cardinality(Unrecorded(k, c)) - 1
      BY <2>1, <3>1, UnrecordedIsFinite, FS_RemoveElement
    <3>3. invited'[k][c] = invited[k][c] + 1
      BY <2>0, <2>2, SendCommitsRows
    <3> QED
      BY <2>0, <3>2, <3>3, UnrecordedIsFinite
  <2>3. CASE ~(k = r.approval /\ c \in r.sent)
    <3>1. q \notin Unrecorded(k, c)
      BY <2>3 DEF Unrecorded
    <3>2. Unrecorded(k, c)' = Unrecorded(k, c)
      BY <2>1, <3>1
    <3>3. invited'[k][c] = invited[k][c]
      BY <2>0, <2>3, SendCommitsRows
    <3> QED
      BY <2>0, <3>2, <3>3
  <2> QED
    BY <2>2, <2>3
<1> QED
  BY <1>1, <1>4, <1>5, <1>6 DEF MailsKept, RowsStandForMails

LEMMA SendTimesOutMails ==
  ASSUME TypeOK, MailsKept, NEW q \in Requests, SendTimesOut(q)
  PROVE  MailsKept'
<1>1. /\ Doing(q, "send") /\ Ends(q) /\ UNCHANGED << approvals, invited, mails >>
  BY DEF SendTimesOut
<1>2. /\ invited \in Seq(CountType) /\ mails \in Seq(CountType) /\ Len(mails) = Len(invited)
      /\ request \in [Requests -> RequestType]
  BY DEF TypeOK, Typed, Referred
<1>3. \A p \in Requests : request'[p] = IF p = q THEN NoRequest ELSE request[p]
  BY <1>1, <1>2 DEF Ends
<1>4. Named' /\ OnlyApprovedAreInvited'
  BY <1>1, <1>3 DEF MailsKept, Named, OnlyApprovedAreInvited, Doing, NoRequest
<1>5. ASSUME NEW k \in DOMAIN mails, NEW c \in Candidates
      PROVE  invited[k][c] + Cardinality(Unrecorded(k, c)') <= mails[k][c]
  <2>0. /\ invited[k][c] + Cardinality(Unrecorded(k, c)) <= mails[k][c]
        /\ invited[k][c] \in Nat /\ mails[k][c] \in Nat
    BY <1>2 DEF MailsKept, RowsStandForMails, CountType
  <2>1. Unrecorded(k, c)' = Unrecorded(k, c) \ { q }
    BY <1>1, SendIsOver
  <2>2. /\ Cardinality(Unrecorded(k, c) \ { q }) \in Nat
        /\ Cardinality(Unrecorded(k, c) \ { q }) <= Cardinality(Unrecorded(k, c))
    BY UnrecordedIsFinite, FS_RemoveElement, FS_Subset, FS_CardinalityType
  <2> QED
    BY <2>0, <2>1, <2>2, UnrecordedIsFinite
<1> QED
  BY <1>1, <1>4, <1>5 DEF MailsKept, RowsStandForMails

----------------------------------------------------------------------------
(* The quota.                                                               *)

LEMMA BusyIsFinite ==
  ASSUME NEW w
  PROVE  IsFiniteSet(Busy(w)) /\ Cardinality(Busy(w)) \in Nat
         /\ Cardinality(Busy(w)) <= Cardinality(Screeners) /\ Cardinality(Screeners) \in Nat
<1>1. Busy(w) \subseteq Screeners /\ IsFiniteSet(Screeners)
  BY PipelineAssumption DEF Busy
<1> QED
  BY <1>1, FS_Subset, FS_CardinalityType

\* Most steps neither begin nor end a screening.
LEMMA QuotaAside ==
  ASSUME Reserved, UNCHANGED << used, screening >>
  PROVE  Reserved'
<1>1. \A w : Busy(w)' = Busy(w)
  BY DEF Busy
<1> QED
  BY <1>1 DEF Reserved

\* A screening that was under way goes on.
LEMMA VerdictReserves ==
  ASSUME TypeOK, Reserved, NEW s \in Screeners, Verdict(s)
  PROVE  Reserved'
<1>1. screening \in [Screeners -> ScreeningType] /\ screening[s].at = "model"
  BY DEF TypeOK, Typed, Verdict
<1>2. screening[s] \in [ at : {"model", "placing"}, who : Candidates, job : Jobs,
                         shortlist : BOOLEAN, list : Nat ] /\ screening[s] # NoScreening
  BY <1>1, ScreeningFields
<1>3. /\ screening'[s].at = "placing" /\ screening'[s].who = screening[s].who
      /\ \A u \in Screeners : u # s => screening'[u] = screening[u]
  BY <1>1, <1>2 DEF Verdict
<1>4. screening'[s] # NoScreening
  BY <1>3 DEF NoScreening
<1>5. \A w : Busy(w)' = Busy(w)
  BY <1>2, <1>3, <1>4 DEF Busy
<1>6. used' = used
  BY DEF Verdict
<1> QED
  BY <1>5, <1>6 DEF Reserved

\* One that ends is metered, or is not under way any more.
LEMMA BusyNoMore ==
  ASSUME TypeOK, NEW s \in Screeners, screening[s].at \in {"model", "placing"},
         screening' = [screening EXCEPT ![s] = NoScreening], NEW w
  PROVE  /\ Cardinality(Busy(w)') \in Nat
         /\ Cardinality(Busy(w)') =
              IF w = WorkspaceOf[screening[s].who] THEN Cardinality(Busy(w)) - 1 ELSE Cardinality(Busy(w))
<1>1. screening \in [Screeners -> ScreeningType]
  BY DEF TypeOK, Typed
<1>2. screening[s] # NoScreening
  BY DEF NoScreening
<1>3. \A u \in Screeners : screening'[u] = IF u = s THEN NoScreening ELSE screening[u]
  BY <1>1
<1>4. Busy(w)' = Busy(w) \ { s }
  BY <1>3 DEF Busy
<1> DEFINE B == Busy(w)
<1>5. IsFiniteSet(B) /\ Cardinality(B) \in Nat
  BY BusyIsFinite
<1>6. s \in B <=> w = WorkspaceOf[screening[s].who]
  BY <1>2 DEF Busy
<1>7. /\ IsFiniteSet(B \ { s })
      /\ Cardinality(B \ { s }) = IF s \in B THEN Cardinality(B) - 1 ELSE Cardinality(B)
  BY <1>5, FS_RemoveElement
<1>8. Cardinality(B \ { s }) \in Nat
  BY <1>7, FS_CardinalityType
<1> QED
  BY <1>4, <1>6, <1>7, <1>8

LEMMA PlacedReserves ==
  ASSUME TypeOK, Reserved, NEW s \in Screeners, Placed(s)
  PROVE  Reserved'
<1> DEFINE spent == WorkspaceOf[screening[s].who]
<1>1. used \in [Workspaces -> Nat]
  BY DEF TypeOK, Typed
<1>2. used' = [used EXCEPT ![spent] = used[spent] + 1]
  BY DEF Placed
<1>3. /\ screening[s].at = "placing"
      /\ screening' = [screening EXCEPT ![s] = NoScreening]
  BY DEF Placed
<1>4. ASSUME NEW w \in Workspaces
      PROVE  used'[w] + Cardinality(Busy(w)') <= ScreeningLimit[w] + Cardinality(Screeners) - 1
  <2>1. /\ Cardinality(Busy(w)') \in Nat
        /\ Cardinality(Busy(w)') = IF w = spent THEN Cardinality(Busy(w)) - 1 ELSE Cardinality(Busy(w))
    BY <1>3, BusyNoMore
  <2>2. used'[w] = IF w = spent THEN used[w] + 1 ELSE used[w]
    BY <1>1, <1>2
  <2>3. used[w] + Cardinality(Busy(w)) <= ScreeningLimit[w] + Cardinality(Screeners) - 1
    BY DEF Reserved
  <2>4. /\ used[w] \in Nat /\ Cardinality(Busy(w)) \in Nat /\ Cardinality(Screeners) \in Nat
        /\ ScreeningLimit[w] \in Nat
    BY <1>1, BusyIsFinite, PipelineAssumption
  <2> QED
    BY <2>1, <2>2, <2>3, <2>4
<1> QED
  BY <1>4 DEF Reserved

LEMMA ModelFailsReserves ==
  ASSUME TypeOK, Reserved, NEW s \in Screeners, ModelFails(s)
  PROVE  Reserved'
<1>1. used \in [Workspaces -> Nat] /\ used' = used
  BY DEF TypeOK, Typed, ModelFails
<1>2. /\ screening[s].at = "model"
      /\ screening' = [screening EXCEPT ![s] = NoScreening]
  BY DEF ModelFails
<1>3. ASSUME NEW w \in Workspaces
      PROVE  used'[w] + Cardinality(Busy(w)') <= ScreeningLimit[w] + Cardinality(Screeners) - 1
  <2>1. /\ Cardinality(Busy(w)') \in Nat
        /\ Cardinality(Busy(w)') = IF w = WorkspaceOf[screening[s].who] THEN Cardinality(Busy(w)) - 1
                                   ELSE Cardinality(Busy(w))
    BY <1>2, BusyNoMore
  <2>2. used[w] + Cardinality(Busy(w)) <= ScreeningLimit[w] + Cardinality(Screeners) - 1
    BY DEF Reserved
  <2>3. /\ used[w] \in Nat /\ Cardinality(Busy(w)) \in Nat /\ Cardinality(Screeners) \in Nat
        /\ ScreeningLimit[w] \in Nat
    BY <1>1, BusyIsFinite, PipelineAssumption
  <2> QED
    BY <1>1, <2>1, <2>2, <2>3
<1> QED
  BY <1>3 DEF Reserved

\* The quota had room when it was read, and no more can be under way than there
\* are screeners.
LEMMA ReadsReserves ==
  ASSUME TypeOK, Reserved, NEW s \in Screeners, NEW c \in Candidates, ReadsCandidate(s, c), used' = used
  PROVE  Reserved'
<1>1. /\ screening \in [Screeners -> ScreeningType] /\ used \in [Workspaces -> Nat]
  BY DEF TypeOK, Typed
<1>2. /\ screening[s] = NoScreening
      /\ used[WorkspaceOf[c]] < ScreeningLimit[WorkspaceOf[c]]
      /\ screening' = [screening EXCEPT ![s] =
           [NoScreening EXCEPT !.at = "model", !.who = c, !.job = cand[c].job]]
  BY DEF ReadsCandidate, WithinQuota
<1>3. /\ screening'[s].who = c
      /\ \A u \in Screeners : u # s => screening'[u] = screening[u]
  BY <1>1, <1>2 DEF NoScreening
<1>4. ASSUME NEW w \in Workspaces
      PROVE  used[w] + Cardinality(Busy(w)') <= ScreeningLimit[w] + Cardinality(Screeners) - 1
  <2>1. /\ used[w] \in Nat /\ Cardinality(Busy(w)) \in Nat /\ Cardinality(Screeners) \in Nat
        /\ ScreeningLimit[w] \in Nat
    BY <1>1, BusyIsFinite, PipelineAssumption
  <2>2. CASE w = WorkspaceOf[c]
    <3>1. Busy(w)' \subseteq Screeners
      BY DEF Busy
    <3>2. Cardinality(Busy(w)') <= Cardinality(Screeners) /\ Cardinality(Busy(w)') \in Nat
      BY <3>1, FS_Subset, FS_CardinalityType, PipelineAssumption
    <3> QED
      BY <1>2, <2>1, <2>2, <3>2
  <2>3. CASE w # WorkspaceOf[c]
    <3>1. Busy(w)' = Busy(w)
      BY <1>2, <1>3, <2>3 DEF Busy
    <3> QED
      BY <3>1 DEF Reserved
  <2> QED
    BY <2>2, <2>3
<1> QED
  BY <1>4 DEF Reserved

LEMMA NextReserves ==
  ASSUME TypeOK, Reserved, [Next]_vars
  PROVE  Reserved'
<1>1. CASE Screens
  <2>1. ASSUME NEW q \in Requests, NEW c \in Candidates, ScreenNow(q, c) PROVE Reserved'
    BY <2>1, ReadsReserves DEF ScreenNow, Screeners
  <2> QED
    BY <1>1, <2>1, VerdictReserves, PlacedReserves, ModelFailsReserves DEF Screens
<1>2. ASSUME NEW r \in Runners, RunsQueue(r) PROVE Reserved'
  <2>1. CASE RunnerScreens(r)
    <3>1. batch[r] \in Seq(Candidates) /\ batch[r] # << >>
      BY <2>1 DEF TypeOK, Typed, RunnerScreens, HasNext
    <3>2. Head(batch[r]) \in Candidates
      BY <3>1
    <3> QED
      BY <2>1, <3>2, ReadsReserves DEF RunnerScreens, Screeners
  <2>2. CASE RunnerStarts(r) \/ RunnerSkips(r) \/ RunnerGivesUp(r)
    BY <2>2, QuotaAside DEF RunnerStarts, RunnerSkips, RunnerGivesUp
  <2> QED
    BY <1>2, <2>1, <2>2 DEF RunsQueue
<1>3. CASE Curates
  BY <1>3, QuotaAside DEF Curates, Hide, Restore, QueueUp, Move, SetStatus, TakeOff, AddOpens
<1>4. ASSUME NEW q \in Requests, Contacts(q) PROVE Reserved'
  BY <1>4, QuotaAside DEF Contacts, ApproveOpens, SendOpens, AddCommits, ApproveCommits,
     SendsMail, SendCommits, SendTimesOut, pipelineVars
<1>5. CASE Interviews
  BY <1>5, QuotaAside DEF Interviews, Calls, ReportReads, ReportAdvances, pipelineVars
<1>6. CASE UNCHANGED vars
  BY <1>6, QuotaAside DEF vars, pipelineVars
<1> QED
  BY <1>1, <1>2, <1>3, <1>4, <1>5, <1>6 DEF Next

LEMMA NextMails ==
  ASSUME TypeOK, MailsKept, [Next]_vars
  PROVE  MailsKept'
<1>1. CASE UNCHANGED outreachVars
  BY <1>1, MailsAside DEF outreachVars
<1>2. ASSUME NEW q \in Requests, NEW c \in Candidates, AddOpens(q, c) PROVE MailsKept'
  <2>1. PICK l \in FoundDraft(cand[c].job) : request' = [request EXCEPT ![q] =
          [ doing |-> "add", who |-> c, list |-> l, job |-> cand[c].job, status |-> cand[c].status ]]
    BY <1>2 DEF AddOpens
  <2>2. ~Doing(q, "send") /\ UNCHANGED << approvals, invited, mails >>
    BY <1>2 DEF AddOpens, Free, Doing
  <2> QED
    BY <2>1, <2>2, MailsNotYet
<1>3. ASSUME NEW q \in Requests, NEW l \in DOMAIN lists, ApproveOpens(q, l) PROVE MailsKept'
  <2>1. /\ request' = [request EXCEPT ![q] = [ doing |-> "approve", list |-> l, snapshot |-> LiveOn(l) ]]
        /\ ~Doing(q, "send") /\ UNCHANGED << approvals, invited, mails >>
    BY <1>3 DEF ApproveOpens, Free, Doing
  <2> QED
    BY <2>1, MailsNotYet
<1>4. ASSUME NEW q \in Requests, NEW l \in DOMAIN lists, SendOpens(q, l) PROVE MailsKept'
  <2>1. ~Doing(q, "send") /\ UNCHANGED << approvals, invited, mails >>
    BY <1>4 DEF SendOpens, Free, Doing
  <2> QED
    BY <1>4, <2>1, SendOpensTypes, MailsNotYet
<1>5. ASSUME NEW q \in Requests, AddCommits(q) PROVE MailsKept'
  <2>1. /\ request' = [request EXCEPT ![q] = NoRequest]
        /\ ~Doing(q, "send") /\ UNCHANGED << approvals, invited, mails >>
    BY <1>5 DEF AddCommits, Ends, Doing
  <2> QED
    BY <2>1, MailsNotYet DEF NoRequest
<1>6. CASE Interviews
  BY <1>6, MailsAside DEF Interviews, Calls, ReportReads, ReportAdvances
<1>7. CASE Screens
  BY <1>1, <1>7 DEF Screens
<1>8. CASE \E r \in Runners : RunsQueue(r)
  BY <1>1, <1>8 DEF RunsQueue
<1>9. CASE Curates
  <2>1. \A c \in Candidates : TakeOff(c) => UNCHANGED outreachVars
    BY DEF TakeOff
  <2> QED
    BY <1>1, <1>2, <1>9, <2>1 DEF Curates
<1>10. CASE \E q \in Requests : Contacts(q)
  BY <1>3, <1>4, <1>5, <1>10, ApproveCommitsMails, SendsMailMails, SendCommitsMails, SendTimesOutMails
     DEF Contacts
<1>11. CASE UNCHANGED vars
  BY <1>1, <1>11 DEF vars
<1> QED
  BY <1>6, <1>7, <1>8, <1>9, <1>10, <1>11 DEF Next

----------------------------------------------------------------------------
(* Clearance.                                                               *)

\* Only an approval approves an entry, and only it is recorded as one.
LEMMA OnlyApprovalsApprove ==
  ASSUME TypeOK, [Next]_vars
  PROVE  \/ \E q \in Requests : ApproveCommits(q)
         \/ NoneApproved(lists') /\ approvals' = approvals
<1>0. lists' = lists => NoneApproved(lists')
  BY ListsKept DEF TypeOK
<1>1. CASE Screens
  <2>1. ASSUME NEW s \in Screeners, Placed(s) PROVE NoneApproved(lists')
    BY <2>1, PlacedLists
  <2>2. approvals' = approvals
    BY <1>1 DEF Screens, outreachVars
  <2> QED
    BY <1>0, <1>1, <2>1, <2>2 DEF Screens, Verdict, ModelFails, ScreenNow
<1>2. ASSUME NEW r \in Runners, RunsQueue(r) PROVE NoneApproved(lists') /\ approvals' = approvals
  BY <1>0, <1>2 DEF RunsQueue, RunnerStarts, RunnerSkips, RunnerGivesUp, RunnerScreens, outreachVars
<1>3. CASE Curates
  <2>1. approvals' = approvals
    BY <1>3 DEF Curates, TakeOff, AddOpens, outreachVars
  <2>2. ASSUME NEW c \in Candidates, NEW job \in Jobs, Move(c, job) PROVE NoneApproved(lists')
    BY <2>2, OffTheListsHolds DEF Move, TypeOK
  <2>3. ASSUME NEW ids \in SUBSET Candidates, NEW how \in Hidings, Hide(ids, how)
        PROVE  NoneApproved(lists')
    BY <2>3, HideLists
  <2>4. ASSUME NEW c \in Candidates, TakeOff(c) PROVE NoneApproved(lists')
    BY <2>4, TakeOffLists
  <2> QED
    BY <1>0, <1>3, <2>1, <2>2, <2>3, <2>4 DEF Curates, Restore, QueueUp, SetStatus, AddOpens
<1>4. ASSUME NEW q \in Requests, Contacts(q), ~ApproveCommits(q)
      PROVE  NoneApproved(lists') /\ approvals' = approvals
  <2>1. ASSUME AddCommits(q) PROVE NoneApproved(lists')
    BY <2>1, AddCommitsLists
  <2> QED
    BY <1>0, <1>4, <2>1 DEF Contacts, ApproveOpens, SendOpens, AddCommits, SendsMail, SendCommits,
       SendTimesOut, pipelineVars
<1>5. CASE Interviews
  BY <1>0, <1>5 DEF Interviews, Calls, ReportReads, ReportAdvances, pipelineVars
<1>6. CASE UNCHANGED vars
  BY <1>0, <1>6 DEF vars, pipelineVars, outreachVars
<1> QED
  BY <1>1, <1>2, <1>3, <1>4, <1>5, <1>6 DEF Next

LEMMA NobodyElseCleared ==
  ASSUME NEW c \in Candidates, NoneApproved(lists'), approvals' = approvals, Approved(c)'
  PROVE  Approved(c)
<1>1. PICK l \in DOMAIN lists', k \in DOMAIN approvals' :
        /\ lists'[l].entry[c] = "approved"
        /\ approvals'[k].list = l /\ c \in approvals'[k].snapshot
  BY DEF Approved, ApprovalsOf
<1>2. l \in DOMAIN lists /\ lists[l].entry[c] = "approved"
  BY <1>1 DEF NoneApproved
<1> QED
  BY <1>1, <1>2 DEF Approved, ApprovalsOf

LEMMA ClearedByName ==
  ASSUME TypeOK, NEW q \in Requests, ApproveCommits(q), NEW c \in Candidates,
         ~Approved(c), Approved(c)'
  PROVE  LET given == Len(approvals') IN
         /\ given > Len(approvals)
         /\ \E k \in DOMAIN approvals' :
              /\ c \in approvals'[k].snapshot
              /\ k = given \/ approvals[k].list = approvals'[given].list
<1> DEFINE t == request[q]
           new == [ list |-> t.list, snapshot |-> t.snapshot ]
           given == Len(approvals) + 1
<1>1. /\ lists \in Seq(ListType) /\ approvals \in Seq(ApprovalType)
  BY DEF TypeOK, Typed
<1>2. /\ t.list \in DOMAIN lists /\ t.snapshot \in SUBSET Candidates
      /\ DOMAIN lists' = DOMAIN lists
      /\ \A l \in DOMAIN lists : l # t.list => lists'[l] = lists[l]
  BY ApproveCommitsLists
<1>3. new \in ApprovalType
  BY <1>1, <1>2 DEF ApprovalType
<1>4. /\ Len(approvals') = given /\ given > Len(approvals)
      /\ DOMAIN approvals' = DOMAIN approvals \union { given }
      /\ approvals'[given] = new
      /\ \A k \in DOMAIN approvals : approvals'[k] = approvals[k]
  BY <1>1, <1>3 DEF ApproveCommits
<1>5. PICK l \in DOMAIN lists', k \in DOMAIN approvals' :
        /\ lists'[l].entry[c] = "approved"
        /\ approvals'[k].list = l /\ c \in approvals'[k].snapshot
  BY DEF Approved, ApprovalsOf
<1>6. CASE k = given
  BY <1>4, <1>5, <1>6
<1>7. CASE k # given /\ l = t.list
  <2>1. k \in DOMAIN approvals /\ approvals[k].list = approvals'[given].list
    BY <1>4, <1>5, <1>7
  <2> QED
    BY <1>4, <1>5, <2>1
<1>8. CASE k # given /\ l # t.list
  <2>1. k \in DOMAIN approvals /\ approvals[k] = approvals'[k] /\ l \in DOMAIN lists /\ lists[l] = lists'[l]
    BY <1>2, <1>4, <1>5, <1>8
  <2>2. Approved(c)
    BY <1>5, <2>1 DEF Approved, ApprovalsOf
  <2> QED
    BY <2>2
<1> QED
  BY <1>6, <1>7, <1>8

----------------------------------------------------------------------------
(* Judgements.                                                              *)

\* What may change a judgement.
LEMMA JudgementsKept ==
  ASSUME TypeOK, [Next]_vars, NEW c \in Candidates,
         cand[c].status \in Judged, cand'[c].status # cand[c].status
  PROVE  \/ acts' # acts
         \/ report[c] = "advancing"
         \/ \E q \in Requests : Doing(q, "add") /\ request[q].status \notin Judged
<1>0. cand \in [Candidates -> CandidateType] /\ acts \in Nat
  BY DEF TypeOK, Typed
<1>1. cand' # cand
  OBVIOUS
<1>2. Acts => acts' # acts
  BY <1>0 DEF Acts
<1>3. CASE Screens
  <2>1. ASSUME NEW s \in Screeners, Placed(s) PROVE FALSE
    <3> DEFINE who == screening[s].who
               screened == Advance(cand[who].status, "screened")
               status == IF screening[s].shortlist THEN Advance(screened, "shortlisted") ELSE screened
    <3>1. cand' = [cand EXCEPT ![who].status = status]
      BY <2>1 DEF Placed
    <3>2. c = who
      BY <1>0, <3>1
    <3>3. status = cand[c].status
      BY <3>2, JudgementStands
    <3>4. cand'[c] = [cand[c] EXCEPT !.status = status]
      BY <1>0, <3>1, <3>2
    <3>5. cand'[c].status = status
      BY <1>0, <3>4 DEF CandidateType
    <3> QED
      BY <3>3, <3>5
  <2> QED
    BY <1>1, <1>3, <2>1 DEF Screens, Verdict, ModelFails, ScreenNow
<1>4. ASSUME NEW r \in Runners, RunsQueue(r) PROVE FALSE
  BY <1>1, <1>4 DEF RunsQueue, RunnerStarts, RunnerSkips, RunnerGivesUp, RunnerScreens
<1>5. CASE Curates
  BY <1>1, <1>2, <1>5 DEF Curates, Hide, Restore, QueueUp, Move, SetStatus, TakeOff, AddOpens
<1>6. ASSUME NEW q \in Requests, Contacts(q)
      PROVE  Doing(q, "add") /\ request[q].status \notin Judged
  <2>1. AddCommits(q)
    BY <1>1, <1>6 DEF Contacts, ApproveOpens, SendOpens, ApproveCommits, SendsMail, SendCommits,
       SendTimesOut, pipelineVars
  <2>2. CanAutoAdvance(request[q].status, "shortlisted")
    BY <1>1, <2>1 DEF AddCommits
  <2> QED
    BY <2>1, <2>2 DEF AddCommits, CanAutoAdvance, Judged
<1>7. CASE Interviews
  <2>1. PICK d \in Candidates : ReportAdvances(d)
    BY <1>1, <1>7 DEF Interviews, Calls, ReportReads, pipelineVars
  <2>2. cand' = [cand EXCEPT ![d].status = "interviewed"] /\ report[d] = "advancing"
    BY <2>1 DEF ReportAdvances
  <2>3. c = d
    BY <1>0, <2>2
  <2> QED
    BY <2>2, <2>3
<1>8. CASE UNCHANGED vars
  BY <1>1, <1>8 DEF vars, pipelineVars
<1> QED
  BY <1>3, <1>4, <1>5, <1>6, <1>7, <1>8 DEF Next

----------------------------------------------------------------------------
(* The theorems.                                                            *)

LEMMA InitInv == Init => Inv
<1> SUFFICES ASSUME Init PROVE Inv
  OBVIOUS
<1>1. TypeOK
  BY InitTypes
<1>2. \A q \in Requests : ~Doing(q, "send")
  BY DEF Init, OutreachInit, Doing, NoRequest
<1>3. Named
  BY <1>2 DEF Named
<1>4. OnlyApprovedAreInvited /\ RowsStandForMails
  BY DEF Init, OutreachInit, OnlyApprovedAreInvited, RowsStandForMails
<1>5. ASSUME NEW w \in Workspaces
      PROVE  used[w] + Cardinality(Busy(w)) <= ScreeningLimit[w] + Cardinality(Screeners) - 1
  <2>1. Busy(w) = {}
    BY DEF Busy, Init, PipelineInit
  <2>2. used[w] = 0 /\ ScreeningLimit[w] \in Nat
    BY PipelineAssumption DEF Init, PipelineInit
  <2>3. Cardinality(Screeners) \in Nat /\ Cardinality(Screeners) # 0
    BY PipelineAssumption, FS_CardinalityType, FS_EmptySet
  <2>4. Cardinality(Busy(w)) = 0
    BY <2>1, FS_EmptySet
  <2> QED
    BY <2>2, <2>3, <2>4
<1> QED
  BY <1>1, <1>3, <1>4, <1>5 DEF Inv, Reserved

LEMMA NextInv == Inv /\ [Next]_vars => Inv'
<1> SUFFICES ASSUME Inv, [Next]_vars PROVE Inv'
  OBVIOUS
<1>1. TypeOK /\ MailsKept /\ Reserved
  BY DEF Inv, MailsKept
<1>2. TypeOK'
  BY <1>1, NextTypes
<1>3. MailsKept'
  BY <1>1, NextMails
<1>4. Reserved'
  BY <1>1, NextReserves
<1> QED
  BY <1>2, <1>3, <1>4 DEF Inv, MailsKept

LEMMA AlwaysInv == Spec => []Inv
  BY InitInv, NextInv, PTL DEF Spec

\* Every variable of the hiring side keeps its type, and what a transaction has
\* looked up is still there when it writes: for any number of requests, runners,
\* candidates, jobs and workspaces.
THEOREM HiringTypeCorrect == Spec => []TypeOK
<1>1. Inv => TypeOK
  BY DEF Inv
<1> QED
  BY <1>1, AlwaysInv, PTL

\* Whatever is added, removed, hidden, moved or approved while a send is under
\* way, its mails only go to those the approval it was let out under names.
THEOREM OnlyTheApprovedAreWritten == Spec => []OnlyApprovedAreInvited
<1>1. Inv => OnlyApprovedAreInvited
  BY DEF Inv
<1> QED
  BY <1>1, AlwaysInv, PTL

\* However sends overlap, are refused or time out, the rows that say "sent"
\* never outnumber the mails that left.
THEOREM RowsAreTrue == Spec => []RowsStandForMails
<1>1. Inv => RowsStandForMails
  BY DEF Inv
<1> QED
  BY <1>1, AlwaysInv, PTL

\* A workspace overdraws its screenings by less than the number of screenings
\* that can be under way at once.
THEOREM QuotaIsBounded == Spec => []QuotaOverdraftIsBounded
<1>1. Inv => QuotaOverdraftIsBounded
  <2> SUFFICES ASSUME Inv, NEW w \in Workspaces
               PROVE  used[w] <= ScreeningLimit[w] + Cardinality(Screeners) - 1
    BY DEF QuotaOverdraftIsBounded
  <2>1. /\ used[w] + Cardinality(Busy(w)) <= ScreeningLimit[w] + Cardinality(Screeners) - 1
        /\ used[w] \in Nat
    BY DEF Inv, Reserved, TypeOK, Typed
  <2> QED
    BY <2>1, BusyIsFinite, PipelineAssumption
<1> QED
  BY <1>1, AlwaysInv, PTL

\* Nobody is cleared for an interview but by an approval of a list they are on,
\* at the moment it is given.
THEOREM OnlyAnApprovalClears == Spec => ClearanceIsGiven
<1>1. Inv /\ [Next]_vars =>
        [\A c \in Candidates : ~Approved(c) /\ Approved(c)' =>
           LET given == Len(approvals') IN
           /\ given > Len(approvals)
           /\ \E k \in DOMAIN approvals' :
                /\ c \in approvals'[k].snapshot
                /\ k = given \/ approvals[k].list = approvals'[given].list]_vars
  <2> SUFFICES ASSUME Inv, [Next]_vars, NEW c \in Candidates, ~Approved(c), Approved(c)'
               PROVE  LET given == Len(approvals') IN
                      /\ given > Len(approvals)
                      /\ \E k \in DOMAIN approvals' :
                           /\ c \in approvals'[k].snapshot
                           /\ k = given \/ approvals[k].list = approvals'[given].list
    OBVIOUS
  <2>1. TypeOK
    BY DEF Inv
  <2>2. PICK q \in Requests : ApproveCommits(q)
    BY <2>1, OnlyApprovalsApprove, NobodyElseCleared
  <2> QED
    BY <2>1, <2>2, ClearedByName
<1> QED
  BY <1>1, AlwaysInv, PTL DEF Spec, ClearanceIsGiven

\* No screening overwrites a judgement a person made, however long its model
\* call took: only people do, and the two transactions that read it before.
THEOREM JudgementsOutlive == Spec => JudgementOutlivesScreening
<1>1. Inv /\ [Next]_vars =>
        [\A c \in Candidates : cand[c].status \in Judged /\ cand'[c].status # cand[c].status =>
           \/ acts' # acts
           \/ report[c] = "advancing"
           \/ \E q \in Requests : Doing(q, "add") /\ request[q].status \notin Judged]_vars
  BY JudgementsKept DEF Inv
<1> QED
  BY <1>1, AlwaysInv, PTL DEF Spec, JudgementOutlivesScreening
=============================================================================
