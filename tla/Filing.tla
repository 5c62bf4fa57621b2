------------------------------- MODULE Filing -------------------------------
(***************************************************************************)
(* createCandidateFromEmail (createCandidate.js): turning one message into *)
(* a candidate row.  It reads twice - is this very mail in a row already,  *)
(* is its sender - and then writes; whoever files another mail meanwhile   *)
(* may come in between.                                                    *)
(*                                                                         *)
(* The worker process, its rows and the budget of faults are declared      *)
(* here; Mailbox, Forwarding and CallLine share them.                      *)
(***************************************************************************)
EXTENDS MailRules, Sequences

CONSTANTS
  Mails,      \* names of the mails that may reach the workspace
  Mail,       \* [Mails -> record], what MailRules reads of each
  AutoRoute   \* the connection's autoRoute flag

\* What is read of a mail; addresses and words are strings.
MailType ==
  [ hasId : BOOLEAN, from : STRING, quoted : STRING, bulk : BOOLEAN, robot : BOOLEAN,
    document : {"none", "file", "resume"}, applies : BOOLEAN,
    subject : SUBSET STRING, body : SUBSET STRING, titled : OpenJobs \union {NoJob} ]

ASSUME MailAssumption == Mail \in [ Mails -> MailType ] /\ AutoRoute \in BOOLEAN

VARIABLES
  worker,     \* the process: "up", "draining", "overdue", "down", "crashed"
  candidates, \* the rows made from mail, in the order of creation; `from` is
              \* every mail merged into the row, its own included
  faults      \* bound: failed writes, lost replies and connections, and stops
              \* of the process that are yet to come

filingVars == <<worker, candidates, faults>>

FilingInit(budget) == worker = "up" /\ candidates = <<>> /\ faults = budget

Running == worker \in {"up", "draining", "overdue"}

Fault == faults > 0 /\ faults' = faults - 1

\* The Message-ID column of a row that came from no mail.
NoId == <<"none">>

NoPlan == [ do |-> "nothing", row |-> 0, claims |-> FALSE ]

\* The row a mail is already in by its Message-ID, and the rows of its sender.
Seen(id) == \E r \in DOMAIN candidates : candidates[r].msgId = id

RowsOf(mail, job) == { r \in DOMAIN candidates : candidates[r].person = mail.from /\ candidates[r].job = job }

\* What the two reads tell the write to do; findFirst names no order.
Plans(mail, id) ==
  LET job == JobFor(mail, AutoRoute) IN
  IF Seen(id) THEN { NoPlan }
  ELSE IF RowsOf(mail, job) # {}
  THEN { [ do |-> "merge", row |-> r, claims |-> candidates[r].msgId = NoId ] : r \in RowsOf(mail, job) }
  ELSE { [ do |-> "create", row |-> 0, claims |-> TRUE ] }

\* Mutation of Refused: the column is not unique.
NotRefused(plan, id) == FALSE

\* sourceEmailMsgId is unique: the second row to claim one is refused.
Refused(plan, id) == plan.claims /\ Seen(id)

NewRow(m, mail, id) ==
  [ person |-> mail.from, job |-> JobFor(mail, AutoRoute), msgId |-> id, from |-> {m} ]

Files(m, mail, id, plan) ==
  /\ ~Refused(plan, id)
  /\ candidates' =
       IF plan.do = "create" THEN Append(candidates, NewRow(m, mail, id))
       ELSE [ candidates EXCEPT ![plan.row].from = @ \union {m},
                                ![plan.row].msgId = IF plan.claims THEN id ELSE @ ]

\* A CV uploaded to the portal, or a person typed in: a row without a Message-ID.
AddedByHand(p) ==
  /\ \A r \in DOMAIN candidates : candidates[r].person = p => candidates[r].job # DefaultJob
  /\ candidates' = Append(candidates, [ person |-> p, job |-> DefaultJob, msgId |-> NoId, from |-> {} ])
  /\ UNCHANGED <<worker, faults>>

Held(m) == \E r \in DOMAIN candidates : m \in candidates[r].from
=============================================================================
