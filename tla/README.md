# Verification of the Pratibha hiring and interview line

Pratibha screens job applicants and interviews them over the telephone with an
AI interviewer.  This directory holds TLA+ modules translated from its source,
TLC configurations that model-check them, and theorems checked by TLAPS.  Paths
are relative to `src/`.

    tlc -workers 4 -config CallSafety.cfg MCInterviewCall.tla
    tlapm InterviewCall_proofs.tla       (and the other *_proofs modules)

`PROJECT.json` maps every definition to the lines it models and lists the runs,
the deliberate mutations each property is tested against, the findings, the
hazards and the theorems.  Constants named `MC...` and other small sets are given
by the `MC*` modules; no configuration replaces a definition of the model.

## 1. The system

Three programs share one PostgreSQL database (`packages/prisma`).

* **Worker** (`apps/worker`): answers the telephone, holds the interview, writes
  the report; also reads the mailboxes applications arrive in.
* **Portal** (`apps/web`): the recruiters' application: jobs, candidates,
  screening, shortlists, invitations, subscription, checkout and autopay.
* **Admin panel** (`apps/admin`): workspaces, team, ledger, coupons, prices,
  prompts, website.

Each is a Node process: handlers interleave only at an `await`.  Several
instances may run against one database, and transactions run at PostgreSQL's
default isolation, so a read followed by a write is not atomic.

### Inventory

| Component | State | Operations | What is hard | What makes it correct |
|---|---|---|---|---|
| Call rules: `states.js`, `sessionManager.js`, `interviewMinutes.ts` | session record | `setState`, `finish`, `isVerified`, `isBillableCall`, `deriveCallStatus` | tables that must agree with each other | no stage reached unearned; the first outcome wins |
| Interview call: `callSession.js`, `toolExecutor.js`, `screening.js` | session, turn in progress, pending utterances, speech, timers, call row, meter | begin, turn, eleven tool paths, barge-in, DTMF, wrap-up, failure, finalise | every `await` may be crossed by a hangup, a barge-in or the timer | identity, consents, one outcome, one row, at most one charge, every call settled |
| Telephone stream: `plivoStream.js`, `stt.js`, `tts.js`, `vad.js` | sockets, queues, checkpoints | play, clear, transcripts, errors | acknowledgements out of step with speech | a checkpoint is acknowledged for what was played |
| Call admission: `index.js`, `routes/index.js`, `shutdown.js` | map of live calls | answer webhook, stream start, cleanup, drain | check-then-act on the cap; overlapping calls of one candidate | never over the cap for long; nobody interviewed twice; a drain ends |
| Candidate lookup: `db/index.js`, `emailMatch.js` | none of its own | by number, by e-mail | several candidates on one number | never guess a person |
| Post-call analysis: `analysis.js` | report | run, persist | started and not awaited, after the charge | every report due is written or known lost |
| Screening queue: `screen-candidate.ts`, `screening-runner.ts`, `runScreening.js` | queue mark, verdicts, meter, draft shortlist | queue, run, screen now | a model call between two transactions | a verdict is for the job it was asked about; screened once, metered once |
| Shortlists and invitations: `gates.ts`, `candidateStatus.ts` and routes | shortlist, approvals, outreach rows, candidate status | approve, send invites, advance | concurrent sends; recruiter against machine | only approved candidates invited, once; a person's decision is not overwritten |
| Checkout: `checkout.ts`, `payments.ts`, `cashfree.ts` | order, invoice, payment, top-ups, plan | start, sync, apply, fail | webhook, return page and poll race | one payment, one credit |
| Autopay: `autopay.ts`, `subscription.ts` | mandate, renewal invoice, retry, period | raise, charge, retry, settle, revoke | crash between invoice and charge; late answers | no period charged twice; no renewal stuck |
| Quota meters: `billing.ts` | usage meter | assert, increment | read, then add | usage equals work done |
| Mail ingestion: `poller.js`, `imapClient.js`, `createCandidate.js`, `inboundSmtp.js` | UID watermark, backoff, candidates | poll, ingest, receive, record failure | crash in mid-batch, failed message, concurrent polls | no application lost, none doubled |
| Workspace administration: `workspace-actions.ts` | tenant status, hold | suspend, resume, request, confirm, restore, erase | an erasure racing a restore | two admins to delete; a restored workspace survives, as it was |
| Admin ledger: `payments-admin.ts`, `coupons.ts`, `ledger.ts` | payments, redemptions | record, refund, redeem, sweep | check outside the transaction | a payment refunded once |
| Team, prompts, prices, website: `team.ts`, `prompts-admin.ts`, `pricing-admin.ts`, `website/store.ts` | owners, versions, drafts | demote, activate, publish | count or clear, then set | an owner remains; one live version |
| WhatsApp and mail: `whatsapp-webhook.ts`, `mailer.ts` | delivery status | apply report | reports out of order | status never goes back |
| Sessions and authorisation; interview plan; runtime settings; user interface; schema | - | - | mostly tables, arithmetic, rendering, I/O | listed in `PROJECT.json` with the reason each is left out or planned |

How they interact: ingestion creates candidates; the queue screens them onto a
draft shortlist; approval and the outreach gate invite them; the candidate rings
the worker, whose lookup reads candidate, shortlist and past calls; a billable
call adds to the meter that quotas and the billing pages read; payments change
the plan that sets the quota; the admin panel can pause a workspace, which
lookups, queue and calls are meant to respect.

## 2. What is modelled

Each part is a module, or a few that extend one another, with the state as
variables, one action per stretch of a handler between two points where another
process may come in, and a module `MC...` that gives it small instances.  The
code is cut where it awaits something another actor can cross, and inside a
transaction only where two of them can overlap to effect.

### 2.1 The interview call

| Module | Role |
|---|---|
| `CallRules` | the pure rules: stages, tools offered in each, legal moves, `finish`, who is verified, status, billability, strays |
| `InterviewCall` | one call: state, one action per handler half (up to the next `await`), fairness, properties |
| `CallPromise` | what the line promises of any call, abstractly |
| `MCInterviewCall` | what lookups answer in the runs |

**State.** `session` is the record of `sessionManager.create`, with each field
reduced to what the handlers branch on (`language` for "a supported language was
chosen", `timeConsent` for "now is a good time", `questions` for the counter,
`callId` for "a row was opened").  `setup` is the position of `begin()`, `turn`
the position of `#turn`/`runTurn` and of the tool it is in, `pending` the
utterances waiting for it, `disclosure` the greeting's way to the telephone,
`clock` the interval timer, `aside` the two other coroutines that end a call
(`forceWrapUp`, `fail`), `fin` the position of `finalise()` with what it
computed on its way in, and `ledger` what the database holds of the call.

**Actions.** A reply that ends with a tool is: the model answers
(`ModelReplies`), the reply is spoken (`ReplyDone`, with the tool up to its first
await), the lookup, row or patch comes back (`EmailKnown`, `ToolRowOpened`,
`Patched`, ...), and what `runTurn` does next (`AfterTool`: another model call,
"sorry", drain or the end of the turn, which takes up what was said meanwhile) is
part of that same step.  `Hangup`, `BargeIn`, the timer's two branches, a dead
recogniser and the finaliser's four writes interleave with all of it.  A tool is
checked against the state the session has reached by the time it runs, not the
state it was offered in.

**Abstractions.** Wording, prompts, costs, audio and the transcript's text are
left out.  The model answers with any tool it is offered, with text or without.
A question is a reply spoken while screening, and billable minutes are positive
exactly when one was asked.  A candidate is a record of the facts the call acts
on, and the set of answers a lookup may give is the constant `Lookups`, so the
same address may be found, not found, paused, already interviewed or out of
hours from one lookup to the next.  The sentences of the disclosure share one
checkpoint.

### 2.2 Screening, shortlists and invitations

`Pipeline` (candidates, the queue, screening in two transactions around the
model's answer, the quota) and `Outreach` (draft lists, approvals, sending)
make up `Hiring`; `MCHiring` gives two instances.

**State.** `cand[c]` is the row of a candidate with its status, job, visibility
and `queuedAt`, the stamp that is the queue (`NotQueued`, `Arrival` or a later
stamp; ties go in any order).  `request[q]` is where a portal request stands and
what it read, `screening[s]` a screening under way between its two transactions,
`used[w]` the quota's meter, `approvals[k]` an approval with its snapshot,
`mails` and `invited` what left and what was recorded of it.

**Abstractions.** What the model writes is a choice of verdict.  `Move`, `Hide`
and `SetStatus` are atomic, as they are single updates.  One counter, `acts`,
bounds what people do and is the clock of the queue's stamps.  The refusal of a
telephone number that clashes, candidates without an address, WhatsApp copies
and notifications are left out.

### 2.3 Subscription, checkout and autopay

`Billing` holds the state; `Checkout` the orders, the return page, the webhook
and the poll; `AutoPay` mandates, renewals, retries and the hourly run;
`Subscription` composes them, and `Purchases` is the abstract promise: nothing is
granted before the money is taken, nothing twice, and money taken is not kept for
nothing.

**State.** `tenant`, `sub`, `invoices` and `payments` are the rows; `orders` the
checkout's orders beside `page`, what the gateway knows of each; `methods` the
stored mandates beside `bank`, what the bank knows; `charges[i]` the debits made
for an invoice, each with what came of it and whether its webhook was heard;
`held` a settlement between its read and its write; `job` the renewal run between
the steps that a crash may separate.

**Abstractions.** Amounts are what was bought.  The row of a mandate is read and
written in one step; what its report settles may be overtaken between read and
write like any other settlement.  Manual-provider top-ups, the preview of a plan change, and mandates
that stay pending are left out.

### 2.4 The worker: mail and the telephone line

`MailRules` (what is an application, which job it is for), `Filing` (the
candidate rows: deduplication and merging), `Mailbox` (polls, nudges, backoff,
watermark, renumbering), `Forwarding` (mail received by SMTP) and `CallLine`
(answering, sockets, the table of live calls) make up `Worker`, with the drain,
the deadline, crashes and restarts of the process.

**State.** `box` is the mailbox of the server, a sequence whose places are UIDs,
in generation `gen` (UIDVALIDITY); `conn` the row of the connection with its
watermark; `poll[p]` one invocation of `pollConnection` with its batch and its
place in it; `candidates` the rows; `session`, `told` what the receiver and the
sending servers hold; `legs[u]` the sockets of a call, `calls` the table.
`conn.numbered` and the polls' `numbered` and `whole` are history: in which
generation the stored watermark was counted from the start, 0 if in none.

**Abstractions.** All mail is inside the look-back window.  The confirmation
mails of providers and the plan feature that switches
automatic routing are left out.  Nobody deletes single mails, so the message that
was found and has no source when it is fetched, which the poll skips
(`imapClient.js:167`), does not occur.  Forwarded mail has one address and one
tenant: the recipients of one SMTP session are kept from mail to mail
(`inboundSmtp.js:140`, `:153`), so that the code also delivers a later mail to
the addresses of an earlier one, and this and the deduplication across tenants
are outside the model.  A session is settled in one step.  Calls have no
candidates here, so two calls of one candidate are not modelled.

### 2.5 The admin panel

`Desk` (requests), `Team` (admins, roles, sessions, two-step codes), `Tenancy`
(workspaces: suspension, deletion asked, approved, held, restored, erased),
`Members` (a workspace's people and their logins), `Coupons`, `Ledger` (charges,
refunds, packs), `Publishing` (plans, packs, prompts) and `Website` (entries,
builds, the script) make up `Panel`, with the sweep and the panel's restarts.

**Requests.** A request opens, reading what its handler checks first, and
commits, in two steps (PostgreSQL reads what is committed, and nothing locks
what was read).  `request[q]` remembers what it is `about` and whether it was
`overtaken`: something of that was changed in between; `crossed` remembers what
was ever changed by an overtaken request.  The properties that overlapping
requests do break say so by these two.  A restart rolls open requests back
and forgets what was kept in memory only: logins about to be deleted, the
scripts being watched.

**Abstractions.** A workload says which kinds of request a behaviour is made
of, so that independent desks add their states instead of multiplying them.
A code without a cap is one whose cap is the number of
workspaces, which no count passes.  A post published for the first time
has its draft written as it was read, with its date (`store.ts:315-318`); which
entries those are is left open.  Details of a workspace, its jobs and mailboxes, signing in as a member, reset
links, trial drafts, the order of entries, addresses of posts, refund windows and
invoice numbers are left out, and so is the change of a member's e-mail address.
The logins of an erased workspace go in any order.

### 2.6 Notices and settings

`Deliveries` is the key claimed in `email_log` before anything is sent;
`Notices` is who sends: the portal, the round over paid invoices, the weekly run,
the worker's alerts and the shortlist letters, and Meta's webhook with its
reports and the replies STOP and START.  There is one telephone number, one
Monday, and recipients are fixed; the look-back of three days and the batch of 200
are not reached.  A letter goes to the team when a screening puts its candidate
on the job's draft anew (`drafted`, `IsNew`); the draft is approved, the candidate
moved or somebody added by hand in `Curates`.  Screenings of one candidate do not
overlap here, though two that do may both find no entry and both write.  What is
sent as the tenant goes past the switch of its kind, which is asked again where the
platform's mailbox takes over (`StopsShort`); a look at the opt-out list that
fails gives the alert up (`LookupFails`).  A transport that is not connected is a refusal.

`Settings` is the runtime configuration: saves and resets of two admins, what a
save leaves out, every process's copy, environment and configuration object,
refreshes that overlap, fail and report.  The validation of values is left out; the portal behaves like the
worker without a configuration object.

## 3. The runs

| Run | Instance | States | Shows |
|---|---|---|---|
| `call_safety` | two candidates, five kinds of answer, approval and e-mail check required, every fault, one e-mail attempt, chains of two | 2.3 M | nobody is asked a question unearned, the first outcome wins, only an earned call is charged, once, and the closed row says what the session says |
| `call_liveness` | one candidate, two attempts, no faults, fair | 140 k | nothing said waits for ever, and `InterviewCall` implements `CallPromise` |
| `hiring` | two requests, two candidates, two jobs, limit 1, five acts | 1.3 M | only the approved are invited, rows stand for mails, the overdraft is bounded, only an approval clears, a judgement outlives a screening |
| `hiring_queue` | two runners, one request, three candidates, two workspaces (one exhausted), fair | 218 k | whoever is queued leaves the queue |
| `billing` | two plans, a mandate of each kind, two invoices, months of five days, crashes, refusals, late payments | 2.3 M | a period is invoiced once, ledger and invoices agree, paid stays paid |
| `billing_promise` | one plan and mandate, two charges each, lost answers, fair | 118 k | `Subscription` implements `Purchases`; a failed renewal is charged again until it is settled |
| `claim_double_charge` | the same with one invoice | - | violated, see section 5 |
| `worker` | two polls, two mails at a time in batches of two, two generations, two calls, cap one | 1.3 M | no mail passed over, none accepted and lost, no conversation missed by the drain |
| `worker_promise` | one poll, fair | 18 k | every application in a readable mailbox is filed |
| `admin` | two requests of three admins, eighteen workloads | 291 k | owners remain, who is out stays out, workspaces come back as they were or are erased, caps, ledger, prices and the site are consistent |
| `notices` | two of what several may send at once, seven scenes | 142 k | nobody is told twice, everybody is tried, a status moves on, STOP is kept |
| `settings` | panel and worker, two keys, two savers, one mishap, two refreshes at a time | 286 k | one save is used, what is left out is so, saves reach everybody |

Deadlock is checked in none of them: a call, a mailbox without mail or a desk
without requests is over and stops, and the bounds stop the others.

**Why the bounds are enough.** Two of everything that can overlap: two
candidates are what it takes for a call to change hands, two requests, polls,
savers or webhook requests for one to write what the other had read.  A chain of
two is the shortest in which a tool is not at once the last (with one every tool
would escalate), and one question separates a billable call from another.  Two
invoices and a month of five days hold a renewal, its retry and its successor.
A batch of two has a message before the one that blocks it, and two generations a
mailbox renumbered once.  A limit, cap or count of one is reached at once.
`MaxQuestions`, `MaxActs`, `MaxLists`, `MaxApprovals`, `MaxMails`, `MaxInvoices`,
`MaxTries`, `LastDay`, `MaxGenerations`, `MaxLegs`, `RollOff`, `MaxSaves`,
`MaxMishaps` and the `acts` and `faults` of a workload only cut off counters;
`MaxAttempts`, `MaxToolChain`, `MaxPerPoll`, `Batch` and `MaxConcurrentCalls` are
settings of the program.  The theorems of section 4 hold for every value of them.

**Fairness.** A call: weak fairness of setup, turn, finaliser, wrap-up and
failure handling, each of which waits only for an `await` with a timeout, a timer,
or playback with a deadline (`drainThenHangUp`); time passes, and the interval that
forces the wrap-up fires every five seconds.  Of the caller it is asked only that
nobody talks on for ever to a call that has ended: a turn interrupted after its
tool ended the call returns without draining the line, so silence, or a hangup,
closes it.  Hiring: the runner's interval.  Billing: the gateway repeats a report
until it is heard, the job runs hourly and finishes what it began; days pass
(strong, because a day waits until what is due on it is done).  Worker: the
process manager starts it again, a mailbox is polled by timer or nudge, backoff
ends, a sending server tries again.  Notices: senders go on and timers run.  Settings:
the refresh timer of each process.  The panel needs none.

**Mutations.** Each property is run against a plausible bug in the code it is
about, e.g. `finish` that lets the last outcome win, a renewal raised without its
marker, a watermark that passes a failed message, a coupon counted as it was
read, a claim that claims nothing; each mutated form stands beside the operator it
changes, and `PROJECT.json` lists them all.

## 4. What is proved

TLC checks the instances above; the theorems hold for every value of the
constants that satisfies the named assumptions (`...Assumption`) of the modules:
sets of actors and things are arbitrary, bounds are natural numbers, and
constants that are functions have the right domains.  TLC evaluates each
assumption on its instances.

| Theorem | Module | Statement |
|---|---|---|
| `TypeCorrect`, `OutcomeStands` | `InterviewCall_proofs` | `[]TypeOK`; `FirstOutcomeWins` |
| `AlwaysScreened`, `ScreeningStaysEarned` | `InterviewCall_proofs` | the invariant `Screened`; `[]ScreeningIsEarned` |
| `AlwaysAccounted`, `ChargeIsEarned` | same | the invariant `Accounted`; `[]ChargedOnlyWhenEarned` |
| `AlwaysSettled`, `LastWordStands` | same | the invariant `Settled`; `[]FinalStatusStands` |
| `AlwaysReporting`, `PromiseIsKeptSafely` | same | the invariant `Reporting`; `Promise!Safely`, the safety part of `CallPromise` |
| `HiringTypeCorrect`, `OnlyTheApprovedAreWritten`, `RowsAreTrue`, `QuotaIsBounded` | `Hiring_proofs` | `[]TypeOK`, `[]OnlyApprovedAreInvited`, `[]RowsStandForMails`, `[]QuotaOverdraftIsBounded` |
| `OnlyAnApprovalClears`, `JudgementsOutlive` | same | `ClearanceIsGiven`, `JudgementOutlivesScreening` |
| `SubscriptionTypeCorrect`, `PeriodsAreInvoicedOnce`, `LedgerAlwaysAgrees` | `Subscription_proofs` | `[]TypeOK`, `[]OnePeriodOneInvoice`, `[]LedgerAgrees` |
| `WhatWasPaidStays`, `PurchasesAreKept` | same | `PaidStands`; `Promise!Safely`, the safety part of `Purchases` |
| `WorkerTypeCorrect`, `MailIsNeverLost`, `DrainedExitsWait` | `Worker_proofs` | `[]TypeOK`, `[]NoMailIsLost`, `DrainedExitWaits` |
| `NoticesTypeCorrect`, `NobodyIsToldTwice`, `MessagesMoveOn`, `StopIsAlwaysKept` | `Notices_proofs` | `[]TypeOK`, `[]ToldOnce`, `StatusMovesOn`, `StopIsKept` |
| `SettingsTypeCorrect`, `AlwaysKept`, `OneSaveIsUsed`, `WhatIsLeftOutIsSo` | `Settings_proofs` | `[]TypeOK`, the invariant `Kept`, `[]UsesOneSave`, `NothingIsLeftOut` |
| `WhoIsOutStaysOut`, `AnOwnerAlwaysRemains`, `WorkspacesComeBack` | `Panel_proofs` | `[]OutStaysOut`, `AnOwnerRemains`, `ComesBackOrIsErased` |
| `CodesKeepToTheirCap`, `TheLedgerAccounts`, `PanelTypeCorrect` | `PanelTrade_proofs` | `[]CapHolds`, `[]LedgerAccounts`, `[]TypeOK` |
| `TheSiteShowsThePublished`, `WhatIsPublishedStands` | same | `[]SiteShowsThePublished`, `PublishedStands` |

Every proof has the same layout: lemmas on the operators, one lemma per action
and part of the invariant, a lemma that the invariant is inductive, and the
temporal theorem.

### The interview call

Four inductive invariants after the types, each of which rests on the one
before it.

**The end stands (`Sound`).** `FirstOutcomeWins` is not provable step by step
from the types alone: a tool that runs in an ended session would move it, and
what stops it is that an ended session is in `CLOSE`, where `TOOLS_BY_STATE`
offers nothing and `TRANSITIONS` leads nowhere.  So `Sound` is the types, and
"ended implies `CLOSE`".  The proof goes through one relation, `Follows(s, t)`:
`t` is well formed and has not unsaid the end of `s`.

**Screening is earned (`Screened`).** `ScreeningIsEarned` speaks of the last two
states only, and what they need was gathered in all those before: `Justified`
says of every state what a session in it must have.  That alone is not inductive
either.  Two handlers attach a candidate after an await (`begin` with the lookup
of the number, the e-mail tools with the lookup of the address), and attaching
overwrites who the session is about; were the session by then in `SCREEN`, the
checks of one candidate would be taken for another's.  `Placed` says why it is
not: while the setup has not decided, the session is in `GREET` or closed, where
no tool is offered, and while an e-mail tool waits it is in the state that tool
runs in or closed; in neither has anything been asked.

**A charge is earned (`Accounted`).** `finalise` classifies the session once and
then awaits the patch, the meter and the log, with tools still in flight.
`Accounted` says that what it decided stays so.  It does because of `Keeps`, the
relation of that part: an ended session keeps its outcome, its questions
and its language, and a session that was asked something keeps its caller.

**The last word stands (`Settled`).** Two writers patch the row after the hangup:
the finaliser, and a tool whose row or patch was under way.  `Classified` says
the status the finaliser computed is what the session goes on to say, and
`Writing` that no writer still under way opens the row again or patches its status
with another, except the withdrawal that ended the call and says the same.

**The promise (`Reporting`).** Every step of every handler is a step of
`CallPromise` or leaves it where it is: for that, nothing may be reported before
the finaliser is done, and only what it found worth a report.

### Hiring

`Inv` is the types and references, `OnlyApprovedAreInvited` and
`RowsStandForMails` themselves, and two parts they need.  `Named`: whom a send
under way has mailed or has yet to mail, its approval names; the gate reads a
snapshot that is written once.  `Reserved`: the screenings under way in a
workspace are counted with those metered.  The quota's bound speaks of the
meter alone and would be lost when several that were let through are written.
`ClearanceIsGiven` was first stated for the approval given in the step.  The proof
failed on two overlapping approvals of one list: the second commits an entry that
only the first had named, and the candidate becomes cleared by a step whose
own snapshot does not name them.  The property therefore allows an earlier
approval of the same list.

### Subscription

`OnePeriodOneInvoice` rests on an order among the renewals (`Followed`): the
one waited for is the latest, every other lies before the end of the current
period, and a new one begins at that end.  What the order needs is that what is
referred to exists (`Named`), that a settlement which has read and not yet written
still fits (`LateReads`), and that the two steps which move the end without a
renewal, a trial that buys a month and a sign-up that starts again, come while no
renewal was settled (`FirstMonths`).  `Booked` is the ledger's part.  The exception
`sub.overtaken` is a behaviour of the code: see section 5.

`PurchasesAreKept` assumes no paid sign-up mandates and no payment that goes
through after its page expired (`Plain`): with either the code grants what was not
paid for or grants it twice, as section 5 describes.  It needs what the gateway
holds for each invoice (`Clean`).

### Worker

`NoMailIsLost` says that no application below the watermark is missing from
the rows.  The invariant has to say what each poll under way has in hand
(`Behind`): its batch is a stretch of the mailbox it fetched from (`Climbs`), what
it handled, and the mark it may commit, has been passed (`Passed`), and this only
counts if it read and fetched in the present numbering (`OnTrack`).  `Filed`
says that what the SMTP receiver is about to accept is in a row; `Named` that a
row is found under a Message-ID only by a mail it holds.

This is the proof that found most.  The property used to say: if the stored
UIDVALIDITY is the mailbox's, nothing below the stored UID is missing.  That is
not so, and TLC shows it with three mails once one looks: the poll of a renumbered
mailbox that handles nothing stores the new UIDVALIDITY beside the old
generation's mark (section 5), and the next poll, which starts above that mark,
files its batch in good order and commits a mark that looks sound.
Nothing in the row tells it from one that is.  So the model records in which
generation a mark was counted from the start (`numbered`, `whole`), and
the property holds for those.

`DrainedExitWaits` rests on `LegsFit`: what the phase of a call's first
socket says of the table of live calls, where an entry may be gone early because
a second event found `finalise()` begun.

### Notices and settings

`ToldOnce` rests on the claim: who holds the row of a key has made it, is alone
with it, and the row says so until they let it go (`ClaimsHold`); what went out is then
counted against what was excused (`LettersCount`).  `StatusMovesOn` needs that a
report being handled is about a row whose status it has seen, unless it is late
(`RowsWatched`).

`StopIsKept` is about the last reply, and the webhook writes a reply in three steps of
which each may fail and be called for again.  `Heard` says, unless replies are
mixed, that all requests that handle a reply handle the same one and Meta still owes
every later one (`InTurn`); so a step can only undo what belongs to its own reply,
and what a request has behind it stays written (`Written`) until the reply is no longer
owed.  `Silent` covers every step that is not about a reply.  The second half is
`Unlisted`: who has an alert in hand looked at the list before the number was on it.

`UsesOneSave` rests on `Kept`: a copy, and what a refresh has read, are rows that
were saved together (`Together`), the environment is what the copy makes of the
server's own values, and the configuration is built from that (`Followed`).

### The admin panel

**Requests (`Shape`).** Everything about the panel rests on what a request under way
may be.  `Shape` is: a request that does nothing is `NoRequest`, an open one has
a kind among the workload's tasks, a subject, and a flag that says whether it was
overtaken.  The lemmas of that section say what each of `Opens`, `Reads`,
`Writes`, `SystemWrites` and `GivesUp` does to the other requests (`Stays`, or
`Touches` with those about what was written marked), and one lemma per desk says
which of them a step of that desk may be, so that a property of one part of the
panel is proved against all the others at once.

**Codes keep to their cap (`CouponInv`).** `CapHolds` counts a set, the
workspaces that redeemed, and is inductive once the columns are typed; what it needs of a
request is that a redemption which is about to be written knows its code.
Both the portal and the ledger compare count and cap in the statement that writes,
so no request needs to be fresh.

**The team (`TeamInv`).** A session that can be used began in its owner's present
era (`Fresh`), or signing in was overtaken.  A sign-in under way must know the
era it read, and a change to the team that took the lock on the Owners must know that
another Owner remains if it takes one away: `TeamRequest` says both, each unless the
request was overtaken.  The second is what `AnOwnerRemains` needs of the panel.

**Members (`MemberInv`).** A login that is linked to a member can be used
(`Held`).  That is the hardest part of the panel, since several handlers create a
login, link it, and unlink or delete it in separate statements, with the sweep
working off a list it read long before.  What makes it inductive: a login
is linked to one row (`Single`), the list names where it was linked (`ListedFit`),
a login a request made is known to nobody else (`Unknown`) and two requests
never hold the same (`Apart`), each unless a sign-up took the login over
(`reused`, the exception the property names).  With it, `OutStaysOut` for members
is a part of the types, and an owner that is left can sign in.

**Workspaces come back (`StatusInv`).** `past` remembers the status a workspace ran
in; `Remembered` says that what is put aside has it as its `prev`, unless changes
overlapped or it was held while suspended.  `DueIsHeld` says that the sweep's list
names only workspaces on hold whose time is over, or which were restored since.
An operation writes what it computed from the row it read, so `StatusRequest` says
the row is still that one unless the request was overtaken.

**The site (`WebInv`).** Whose outcome is awaited builds the last publish; scripts
run one at a time, and once the last one has changed the site none runs (`Latest`);
so no older build can change it back.  `Shown` says the rows agree with what the last
publish was built from; while a request publishes, nothing builds, and it knows
the live copies (`WebRequest`, `OneGoes`).

**What is published stands (`PublishInv`).** The tables only grow (`TablesGrow`),
and each holds a shape: a pack on sale has one draft at most to take its place,
and a draft that replaces something stands for a pack still on sale (`PacksFit`); one
version of a prompt is live (`OneLives`).  Each unless edits overlapped.  A request
that prices, discards or publishes writes what it computed from what it read, so
`PublishingRequest` says that a request that was not overtaken still has its draft
before it, and that a publish has read every draft there is.  The price in force is
the published row with the highest version, which exists because the versions
have a bound (`LiveIsPublished`).

**The ledger accounts (`LedgerInv`).** For a workspace whose requests were not
overtaken (`crossed`, the exception the property names), `LedgerAccounts` counts
three sets, and each part is inductive once the rows are typed: a payment is refunded
by one row exactly if it says so (`RefundsFit`), the extra minutes are the packs
granted and not taken back and the codes redeemed for minutes (`MinutesFit`), and a code
that was used discounts one charge (`CodesFit`).  What they need of a request:
a charge that was not overtaken carries a code not yet used, and a refund still finds
its payment captured and, once it has read them, the minutes as it read them
(`LedgerRequest`).  A refund writes the minutes it read less the pack, floored at
zero: without the second part the floor would lose minutes.  A failed charge whose
retry is moved changes a row, which `PaysGoOn` says never turns a charge that failed
into one that landed.  `LedgerAssumption` says no coupon is called what an
empty column holds.

**Types (`PanelTypeCorrect`).** `TypeOK` follows from the invariants above together,
and `KindsFit`, the statuses of codes and of the sweep, which none of them needs.

### What stays with TLC

Liveness (`NothingWaitsForEver`, `QueueIsWorkedOff`, `FailuresResolve`,
`MailIsFiled`, `EverybodyIsTried`, `SavesReachEverybody`) and the fairness of the
two refinements (`CallPromise`, `Purchases`): liveness under fairness and
`ENABLED` are beyond the prover.  Every safety and action property that the
passing runs check is a theorem.

## 5. Where the code and what it says part ways

`claim_double_charge` shows one with TLC: `payments.ts:85` says of the key of
a charge "Ours, so a retry cannot double-charge", but `cashfreeProvider.charge`
(`payments.ts:208`) makes a new payment id for every attempt, so a charge whose
answer is lost is taken for refused, tried again the next day and collected
twice.

The others were met while modelling or proving.  The model behaves as the code
does, and the properties except exactly these cases, by name.

**The call.**
* The charge comes before the analysis (`callSession.js:619`, `:569`); an analysis
  that fails is only logged, so a charged call may have no report.
* `provide_email` (`toolExecutor.js:456`) never sets `recognised`, so a completed
  and reported call of a caller known by e-mail alone is not charged;
  `callSession.js:566-570` says the two conditions cannot drift apart.
* `confirm_email` does not ask whether the workspace is paused
  (`toolExecutor.js:366`), which `:440` says no way of identifying gets around; and
  after it moved a call to another candidate, row and report stay with the first
  (`:385`, against `db/index.js:168-172`).
* A candidate known by number is interviewed unapproved (`callSession.js:196`,
  against `config/index.js:16-18`); the call is not charged and has no report.
* A call dropped or escalated in mid-screening still gets its report; a socket
  that closes during the lookup leaves `begin()` to open a row nobody closes (`:115`);
  a wrap-up before the first question leaves a completed call without a report,
  which bars the candidate from ringing again (`db/index.js:306-309`).

**The worker.**
* A poll of a renumbered mailbox that handles nothing, or is blocked at its first
  message, stores the new UIDVALIDITY beside the old generation's watermark
  (`poller.js:229-238`): later polls start above it and pass over mail.  The
  comment at `:199-204` says that advancing past a message "would drop that application
  permanently", which is what happens.
* A nudge on a paused mailbox, or a poll in flight when it is paused, sets it
  connected again (`poller.js:305-308`, `:233`).  A mailbox taken off after repeated
  failures stays off after it was repaired, until a restart (`:24-25`), and a watcher that
  gave up is not started again.
* Deduplication by Message-ID crosses tenants, and `imap-uid-N` names collide
  (`imapClient.js:92-95`); overlapping polls, or a poll and an upload, create two rows
  (`cv-intake.ts:11-13`); the Message-ID of a merged mail is not recorded.
* An entry of the table of calls is deleted early when two events of one socket
  find `finalise()` begun: a drained exit can then lose the row and the charge of a
  call the agent ended; the analysis is never awaited (`shutdown.js:1-4`).  The cap can be
  exceeded between the answer and the opening of the stream (`routes/index.js:51`).

**Hiring.**
* A batch is the oldest queued of all workspaces, and those of an exhausted one
  stay in it (`screening-runner.ts:26`, `:46-47`): enough of them starve everybody.
  `QueueIsWorkedOff` is checked with a batch that is large enough.
* An add or a report that read an earlier status overwrites a judgement
  (`candidateStatus.ts:62-64`); a screening in flight gives hidden or moved
  candidates live entries (`pipeline.ts:151`).
* Overlapping sends of one list invite twice (`gates.ts:8-13`); overlapping
  approvals clear a candidate the last one does not name
  (`approve/route.ts:57`); an entry added after the approval makes every
  send of the whole list refuse.

**Billing.**
* Two overlapping settlements of one charge, one held between its read
  (`autopay.ts:323`, not locked) and its write while the renewal run goes by: the
  held one sets the end of the period back and clears the marker of the next renewal,
  and the period is invoiced again.  The doc comment says "Idempotent: Cashfree
  retries webhooks, and a second SUCCESS for a paid invoice changes nothing."  Three
  invoices are needed to see it; `OnePeriodOneInvoice` is stated under
  `~sub.overtaken`.
* An ACTIVE report of an activation mandate that is repeated settles the next
  month's renewal without money (`autopay.ts:419`).
* A page that expired marks its order failed; a payment that lands afterwards, or
  an order put back to failed, is credited when it is reported again (`checkout.ts:209`).
* A crash between an invoice and its charge (`autopay.ts:212`), or between the claim
  of a retry and its charge (`:249`), leaves a renewal no later run picks up.
* `recordFailure` may set the ledger row of a paid invoice to failed.

**The panel.**
* A restored workspace may still be erased while the sweep works its list
  (`workspace-actions.ts:501`); one suspended, then held, restored and
  resumed comes back as paying (`:424`, against `schema.prisma:522-523`, "exactly as it was").
* Two last owners who demote each other leave none (`team.ts:71`); the portal may
  add a second owner, and a transfer that overlaps a removal leaves none
  (`workspace-edit.ts:163-165` says "exactly one owner").
* A removed member cannot be added again, since the row keeps its place;
  logins stranded by a failed transaction or deletion block their address for
  ever; no code writes `users.email`, though `profile/email/route.ts:29-33` says the
  row is reconciled.
* A stale sweep or transition may revive an ended coupon (`coupons.ts:12-13`); a
  discount code redeemed in the portal is applied by no charge (`autopay.ts:72-76`).
* A charge recorded while a workspace is suspended does not clear "past due", and a
  failure recorded then is lost (`payments-admin.ts:115`, `:167`).
* A draft saved while it is published changes a published price
  (`pricing-admin.ts:22-29`); overlapping edits put two successors of a pack on sale;
  overlapping activations leave two live prompts (`prompts-admin.ts:13`); overlapping
  refunds pay twice.
* The newest `live` row need not be what the site shows when a restart orphans a
  script that is already swapping (`schema.prisma:1644-1645`).

**Notices.**
* An e-mail refused once is never sent, nor one whose sender crashed between claim
  and send: the key stays in `email_log` and the round skips it
  (`invoice-email-timer.ts:23`, `:33`), though `:7-8` promises to catch "any whose email
  failed for a moment".
* Two webhook requests that overlap move a status back
  (`whatsapp-webhook.ts:72-73`); the reports of an alert whose answer was lost are
  dropped.
* A shortlist letter may arrive three times on lost answers (`email.ts:160`), and
  goes out again when its candidate is put on a later draft
  (`screen-candidate.ts:107-110`).  The tenant's own mailbox ignores the switch of
  the kind (`mailer.ts:11`); the fallback to the platform's asks it
  (`email.ts:179`, `mailer.ts:74`).

**Settings.**
* What is "current" falls back to an environment the runtime overwrites
  (`settings-admin.ts:69`, by way of `settings.ts`): after a reset whose refresh has not run, saving the
  old value answers "Nothing changed".
* Report writes that cross, or a lost answer followed by a revert, leave the stored
  report stale, since the last report is remembered in the process
  (`settingsRuntime.ts:32`); a slow refresh that is overtaken takes a process back to an
  older save until the next one.

## 6. What is not modelled, and what is left

Not modelled: the interview plan and the parsing of money and durations (pure
arithmetic), rendering, the schema, migrations, seeds and scripts (read for the
constraints the models rely on), audio framing and codecs, the scoring of a
transcript, the portal's own sessions and role table.  What each modelled part
leaves out is said in section 2 and, per component, in `PROJECT.json`.

Eight hazards have no property.  Two calls of one candidate that overlap are both
completed and charged (`db/index.js:99`); this needs calls with candidates in
`CallLine`.  Two sends of one list invite twice (`gates.ts:22`); no
weaker statement was found that does not repeat the check.  In the other six the code
does what section 5 says, and a property holds that excepts exactly them: an add
or a report overwrites a judgement (`candidateStatus.ts:127`), a batch is filled by
exhausted workspaces (`screening-runner.ts:26`), two refunds overlap
(`payments-admin.ts:244`), a price or prompt is edited while it is published
(`prompts-admin.ts:110`), a value just reset is left out of a save
(`settings-admin.ts:69`), and a mark is stored beside a later UIDVALIDITY
(`poller.js:235`).

