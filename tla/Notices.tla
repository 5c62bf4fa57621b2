------------------------------ MODULE Notices ------------------------------
(***************************************************************************)
(* Who is told what, and what comes back: the portal's own email about an  *)
(* invoice and the round that catches the others, the weekly summary, the  *)
(* worker's alerts, the mail about a shortlisted candidate, and Meta's     *)
(* webhook with its reports and the replies STOP and START.                *)
(***************************************************************************)
EXTENDS Deliveries, Sequences

CONSTANTS
  Hooks,  \* the webhook requests that can be handled at a time
  Scenes  \* sets of [tasks : what happens, acts : how much of it, faults : how many]

ASSUME ScenesAssumption == \A scene \in Scenes : scene.acts \in Nat /\ scene.faults \in Nat

VARIABLES
  tasks,  \* what happens in this behaviour
  acts,   \* bound: operations still to come
  week,   \* the portal's process: running and done, and whether a workspace failed
  drafted, \* the letters whose candidate is an entry of the job's draft shortlist
  asked,  \* history: how often a screening made each of them a new entry
  optin,  \* who agreed to WhatsApp, of those with the number: a candidate, a member
  said,   \* the replies from the number, in order
  owed,   \* the reports and replies Meta has not been told are handled
  issued, \* the reports Meta has made
  hook,   \* what each webhook request handles, how far it is and the status it saw
  mixed   \* history: replies were handled together, or in another order

sceneVars == << tasks, acts >>
replyVars == << optin, said, owed, issued, hook, mixed >>
vars == << deliveryVars, sceneVars, week, drafted, asked, replyVars >>

NoEvent == [ about |-> 0, says |-> Nothing ]

NoHook == [ event |-> NoEvent, at |-> "idle", saw |-> "none", late |-> FALSE ]

Init ==
  /\ \E scene \in Scenes : tasks = scene.tasks /\ acts = scene.acts /\ DeliveriesInit(scene.faults)
  /\ week = [ running |-> FALSE, failed |-> FALSE, done |-> FALSE ]
  /\ drafted = {} /\ asked = [ l \in Letters |-> 0 ]
  /\ optin = [ candidate |-> TRUE, member |-> TRUE ]
  /\ said = << >> /\ owed = {} /\ issued = {} /\ hook = [ h \in Hooks |-> NoHook ] /\ mixed = FALSE

Acts(what) == what \in tasks /\ acts > 0 /\ acts' = acts - 1 /\ UNCHANGED tasks

----------------------------------------------------------------------------
(* What is sent, and when.                                                  *)

Starts(a, what) == actor' = [actor EXCEPT ![a].todo = what]

\* An invoice is paid in the portal, which writes about it once the payment is
\* committed, or elsewhere.
Pays(i) ==
  /\ Acts("pay") /\ invoice[i] = "unpaid"
  /\ invoice' = [invoice EXCEPT ![i] = "paid"]
  /\ UNCHANGED actor \/ (Free("payment") /\ Starts("payment", {i}))
  /\ UNCHANGED << log, wamid, listed, off, faults, told, excused, skipped, week, drafted, asked, replyVars >>

\* It is refunded.
Voids(i) ==
  /\ Acts("refund") /\ invoice[i] = "paid"
  /\ invoice' = [invoice EXCEPT ![i] = "void"]
  /\ UNCHANGED << actor, log, wamid, listed, off, faults, told, excused, skipped, week, drafted, asked, replyVars >>

\* The paid invoices whose key is not in the log.
Missed == { i \in Invoices : invoice[i] = "paid" /\ log[i] = "none" }

\* Every ten minutes.
RoundBegins ==
  /\ Free("round") /\ Missed # {} /\ Starts("round", Missed)
  /\ UNCHANGED << log, wamid, listed, off, invoice, faults, told, excused, skipped, sceneVars, week, drafted, asked, replyVars >>

\* Every fifteen minutes of a Monday, until the process has been through.
WeeklyBegins ==
  /\ "monday" \in tasks /\ ~week.running /\ ~week.done
  /\ week' = [ running |-> TRUE, failed |-> FALSE, done |-> FALSE ]
  /\ Starts("weekly", Summaries)
  /\ UNCHANGED << log, wamid, listed, off, invoice, faults, told, excused, skipped, sceneVars, drafted, asked, replyVars >>

\* A workspace throws; the others are still done.
WeeklyFails ==
  /\ actor["weekly"].on = Nothing
  /\ \E s \in actor["weekly"].todo : actor' = [actor EXCEPT !["weekly"].todo = @ \ {s}]
  /\ Fault /\ week' = [week EXCEPT !.failed = TRUE]
  /\ UNCHANGED << log, wamid, listed, off, invoice, told, excused, skipped, sceneVars, drafted, asked, replyVars >>

\* Mutation of Through: the week is done whatever failed.
AnyhowThrough(w) == TRUE

Through(w) == ~w.failed

WeeklyEnds ==
  /\ week.running /\ Free("weekly")
  /\ week' = [ running |-> FALSE, failed |-> FALSE, done |-> Through(week) ]
  /\ UNCHANGED << deliveryVars, sceneVars, drafted, asked, replyVars >>

\* A call was charged and the minutes are low, or its report was saved (again).
CallEnds(c) ==
  /\ Acts("call") /\ Free(c)
  /\ Starts(c, IF optin.member THEN Alerts ELSE {})
  /\ UNCHANGED << log, wamid, listed, off, invoice, faults, told, excused, skipped, week, drafted, asked, replyVars >>

\* Mutation of IsNew: whoever clears a screening is news.
IsNewAlways(l) == TRUE

\* A candidate who is on the draft already is no news.
IsNew(l) == l \notin drafted

\* A candidate clears a screening (again).
Shortlists(l) ==
  /\ Acts("shortlist") /\ Free("screening")
  /\ drafted' = drafted \union {l}
  /\ asked' = IF l \in drafted THEN asked ELSE [asked EXCEPT ![l] = @ + 1]
  /\ IF IsNew(l) THEN Starts("screening", {l}) ELSE UNCHANGED actor
  /\ UNCHANGED << log, wamid, listed, off, invoice, faults, told, excused, skipped, week, replyVars >>

\* The draft is approved or the candidate moved to another job, and the entry
\* is no draft's any more; or somebody is added to the draft by hand.
Curates(l) ==
  /\ Acts("shortlist")
  /\ drafted' = IF l \in drafted THEN drafted \ {l} ELSE drafted \union {l}
  /\ UNCHANGED << deliveryVars, week, asked, replyVars >>

Switches(kind) ==
  /\ Acts("switch")
  /\ off' = IF kind \in off THEN off \ {kind} ELSE off \union {kind}
  /\ UNCHANGED << actor, log, wamid, listed, invoice, faults, told, excused, skipped, week, drafted, asked, replyVars >>

----------------------------------------------------------------------------
(* Meta's webhook.                                                          *)

Report(k, what) == [ about |-> k, says |-> what ]

Reply(n) == [ about |-> n, says |-> said[n] ]

IsReply(event) == event.says \in { "STOP", "START" }

Known == { "sent", "delivered", "read" }

\* Meta delivers what it accepted, has it read, gives up, or says something
\* the webhook does not know of.
Reports(k, what) ==
  /\ Acts("report") /\ told[k] > 0 /\ Report(k, what) \notin issued /\ Report(k, "failed") \notin issued
  /\ what # "deleted" => what = "delivered" \/ (what = "read" <=> Report(k, "delivered") \in issued)
  /\ issued' = issued \union { Report(k, what) } /\ owed' = owed \union { Report(k, what) }
  /\ UNCHANGED << deliveryVars, week, drafted, asked, optin, said, hook, mixed >>

Replies(what) ==
  /\ Acts("reply")
  /\ said' = Append(said, what) /\ owed' = owed \union { [ about |-> Len(said) + 1, says |-> what ] }
  /\ UNCHANGED << deliveryVars, week, drafted, asked, optin, issued, hook, mixed >>

\* My profile: a member switches the alerts on or off.
Agrees ==
  /\ Acts("profile")
  /\ optin' = [optin EXCEPT !.member = ~@]
  /\ UNCHANGED << deliveryVars, week, drafted, asked, said, owed, issued, hook, mixed >>

InHand(event) == \E h \in Hooks : hook[h].event = event

\* Another reply is being handled, or a later one was taken before.
Mixes(event) ==
  \/ \E h \in Hooks : IsReply(hook[h].event) /\ hook[h].event # event
  \/ \E n \in DOMAIN said : n > event.about /\ (Reply(n) \notin owed \/ InHand(Reply(n)))

\* Meta calls; again, when it had no answer in time.  A report about a message
\* whose row has no id yet is let go.
Takes(h, event) ==
  /\ hook[h] = NoHook /\ event \in owed
  /\ IF InHand(event) THEN Fault ELSE UNCHANGED faults
  /\ IF IsReply(event)
     THEN /\ hook' = [hook EXCEPT ![h] = [NoHook EXCEPT !.event = event, !.at = "list"]]
          /\ mixed' = (mixed \/ Mixes(event)) /\ UNCHANGED owed
     ELSE /\ UNCHANGED mixed
          /\ IF event.about \in wamid
             THEN /\ hook' = [hook EXCEPT ![h] = [NoHook EXCEPT !.event = event, !.at = "row", !.saw = log[event.about]]]
                  /\ UNCHANGED owed
             ELSE owed' = owed \ {event} /\ UNCHANGED hook
  /\ UNCHANGED << actor, log, wamid, listed, off, invoice, told, excused, skipped, sceneVars, week, drafted, asked, optin, said, issued >>

Rank(status) == CASE status = "none" -> 0 [] status = "sending" -> 1 [] status = "sent" -> 2
                  [] status = "delivered" -> 3 [] status = "read" -> 4 [] status = "failed" -> 5

\* Mutation of MovesOn: whatever Meta reports is written.
AlwaysMovesOn(what, saw) == what \in Known \union {"failed"}

\* Mutation of MovesOn: whatever is new is written.
MovesAnyhow(what, saw) == what # saw

\* A row is written when it failed, or when a known status is a later one.
MovesOn(what, saw) == what = "failed" \/ (what \in Known /\ saw # "failed" /\ Rank(what) > Rank(saw))

\* Meta is answered, which it may not get.
Answered(h, next) ==
  /\ \/ owed' = owed \ {hook[h].event} /\ UNCHANGED faults
     \/ Fault /\ UNCHANGED owed
  /\ hook' = [next EXCEPT ![h] = NoHook]

\* The requests that read the row of k before it was written.
Outdated(k) ==
  [ g \in Hooks |-> IF hook[g].at = "row" /\ hook[g].event.about = k THEN [hook[g] EXCEPT !.late = TRUE] ELSE hook[g] ]

WritesReport(h) ==
  LET event == hook[h].event IN
  /\ hook[h].at = "row"
  /\ log' = IF MovesOn(event.says, hook[h].saw) THEN [log EXCEPT ![event.about] = event.says] ELSE log
  /\ Answered(h, Outdated(event.about))
  /\ UNCHANGED << actor, wamid, listed, off, invoice, told, excused, skipped, sceneVars, week, drafted, asked, optin, said, issued, mixed >>

\* The list first, the deliveries that had looked at it go on ..
WritesList(h) ==
  LET stop == hook[h].event.says = "STOP" IN
  /\ hook[h].at = "list"
  /\ listed' = stop
  /\ actor' = [ a \in Actors |-> IF actor[a].on \in Alerts THEN [actor[a] EXCEPT !.late = @ \/ stop] ELSE actor[a] ]
  /\ hook' = [hook EXCEPT ![h].at = "candidates"]
  /\ UNCHANGED << log, wamid, off, invoice, faults, told, excused, skipped, sceneVars, week, drafted, asked, optin, said, owed, issued, mixed >>

\* .. then the candidates: STOP clears what they agreed to, START sets it ..
WritesCandidates(h) ==
  LET stop == hook[h].event.says = "STOP" IN
  /\ hook[h].at = "candidates"
  /\ optin' = [optin EXCEPT !.candidate = ~stop]
  /\ IF stop THEN hook' = [hook EXCEPT ![h].at = "members"] /\ UNCHANGED << owed, faults >> ELSE Answered(h, hook)
  /\ UNCHANGED << actor, log, wamid, listed, off, invoice, told, excused, skipped, sceneVars, week, drafted, asked, said, issued, mixed >>

\* .. and, after STOP, the members.
WritesMembers(h) ==
  /\ hook[h].at = "members"
  /\ optin' = [optin EXCEPT !.member = FALSE]
  /\ Answered(h, hook)
  /\ UNCHANGED << actor, log, wamid, listed, off, invoice, told, excused, skipped, sceneVars, week, drafted, asked, said, issued, mixed >>

\* Mutation of Throws: a request that fails is answered as if it had not.
ThrowsQuietly(h) ==
  /\ hook[h] # NoHook /\ Fault
  /\ hook' = [hook EXCEPT ![h] = NoHook] /\ owed' = owed \ {hook[h].event}
  /\ UNCHANGED << actor, log, wamid, listed, off, invoice, told, excused, skipped, sceneVars, week, drafted, asked, optin, said, issued, mixed >>

\* The request fails: Meta is told so, and will call again.
Throws(h) ==
  /\ hook[h] # NoHook /\ Fault
  /\ hook' = [hook EXCEPT ![h] = NoHook]
  /\ UNCHANGED << actor, log, wamid, listed, off, invoice, told, excused, skipped, sceneVars, week, drafted, asked, optin, said, owed, issued, mixed >>

----------------------------------------------------------------------------
(* The portal or the worker starts again: what was being sent is forgotten, *)
(* its rows stay.                                                           *)

PortalRestarts ==
  /\ Acts("restart")
  /\ actor' = [ a \in Actors |-> IF a \in Portal THEN Idle ELSE actor[a] ]
  /\ week' = [ running |-> FALSE, failed |-> FALSE, done |-> FALSE ]
  /\ hook' = [ h \in Hooks |-> NoHook ]
  /\ UNCHANGED << log, wamid, listed, off, invoice, faults, told, excused, skipped, drafted, asked, optin, said, owed, issued, mixed >>

WorkerRestarts ==
  /\ Acts("restart")
  /\ actor' = [ a \in Actors |-> IF a \in Sessions THEN Idle ELSE actor[a] ]
  /\ UNCHANGED << log, wamid, listed, off, invoice, faults, told, excused, skipped, week, drafted, asked, replyVars >>

Deliver(a) == Goes(a) /\ UNCHANGED << sceneVars, week, drafted, asked, replyVars >>

Weekly == WeeklyBegins \/ WeeklyFails \/ WeeklyEnds

Handle(h) == WritesReport(h) \/ WritesList(h) \/ WritesCandidates(h) \/ WritesMembers(h) \/ Throws(h)

People ==
  \/ \E i \in Invoices : Pays(i) \/ Voids(i)
  \/ \E c \in Sessions : CallEnds(c)
  \/ \E l \in Letters : Shortlists(l) \/ Curates(l)
  \/ \E k \in Notices : Switches(Kind(k))
  \/ \E k \in Alerts, what \in Known \union { "failed", "deleted" } : Reports(k, what)
  \/ \E what \in { "STOP", "START" } : Replies(what)
  \/ Agrees \/ PortalRestarts \/ WorkerRestarts

Next ==
  \/ People \/ RoundBegins \/ Weekly
  \/ \E a \in Actors : Deliver(a)
  \/ \E h \in Hooks : Handle(h) \/ \E event \in owed : Takes(h, event)

\* The process that sends goes on, and its timers run.
Fairness ==
  /\ \A a \in Actors : WF_vars(Deliver(a))
  /\ WF_vars(RoundBegins) /\ WF_vars(Weekly)

Spec == Init /\ [][Next]_vars /\ Fairness

----------------------------------------------------------------------------
(* Properties.                                                              *)

Places == Sending \union { "idle", "looked", "taken", "refused" }

ActorType == [ todo : SUBSET Notices, on : Notices \union {Nothing}, at : Places, late : BOOLEAN ]

Statuses == { "none", "sending", "sent", "delivered", "read", "failed" }

Reported == [ about : Alerts, says : Known \union { "failed", "deleted" } ]

Replied == [ about : Nat, says : { "STOP", "START" } ]

Handling == { "idle", "row", "list", "candidates", "members" }

HookType == [ event : {NoEvent} \union Reported \union Replied, at : Handling, saw : Statuses, late : BOOLEAN ]

\* Every variable holds what its comment says.
TypeOK ==
  /\ actor \in [ Actors -> ActorType ] /\ hook \in [ Hooks -> HookType ]
  /\ log \in [ Keyed -> Statuses ] /\ wamid \subseteq Alerts /\ listed \in BOOLEAN
  /\ invoice \in [ Invoices -> { "unpaid", "paid", "void" } ]
  /\ off \subseteq { Kind(k) : k \in Notices } /\ skipped \subseteq Notices
  /\ told \in [ Notices -> Nat ] /\ excused \in [ Notices -> Nat ]
  /\ faults \in Nat /\ acts \in Nat
  /\ week \in [ running : BOOLEAN, failed : BOOLEAN, done : BOOLEAN ]
  /\ drafted \subseteq Letters /\ asked \in [ Letters -> Nat ]
  /\ optin \in [ candidate : BOOLEAN, member : BOOLEAN ]
  /\ said \in Seq({ "STOP", "START" }) /\ mixed \in BOOLEAN
  /\ owed \subseteq Reported \union Replied /\ issued \subseteq Reported

\* Nobody gets the same notice twice, whoever sends it at the same time,
\* fails, is restarted or does it all again; but once more for each time its
\* row could not be written, and a letter once for each time a screening put its
\* candidate on a draft anew and once more for each answer of a mailbox that was
\* lost: another screening of who is on the draft is no news.
ToldOnce ==
  /\ \A k \in Keyed : told[k] <= 1 + excused[k]
  /\ \A l \in Letters : told[l] <= asked[l] + excused[l]

\* The email about every paid invoice is tried in the end, whoever was paid and
\* whatever failed or was restarted on the way, unless it is switched off or
\* the invoice voided; and the portal is not through with the week before
\* every reader's summary was tried or met the switch.
EverybodyIsTried ==
  /\ \A i \in Invoices :
       (invoice[i] = "paid") ~> (log[i] # "none" \/ invoice[i] = "void" \/ Kind(i) \in off)
  /\ \A s \in Summaries : week.done ~> (log[s] # "none" \/ s \in skipped \/ excused[s] > 0)

\* The status of a message only moves on, in whatever order Meta reports, and
\* failed is final; reports that are handled at the same time are excepted.
StatusMovesOn ==
  [][\A k \in Keyed :
       Rank(log'[k]) >= Rank(log[k]) \/ \E h \in Hooks : hook[h].late /\ hook'[h] = NoHook]_vars

NoReplyIsOpen == \A n \in DOMAIN said : Reply(n) \notin owed /\ ~InHand(Reply(n))

\* When Meta owes no reply, the number is on the list just if its last reply
\* was STOP, and its candidates have agreed just if it was START, whatever
\* failed or was called again; replies that were handled together or in
\* another order are excepted.  A number on the list gets nothing but from
\* those who had looked before.
StopIsKept ==
  [][/\ (said' # << >> /\ ~mixed' /\ NoReplyIsOpen') =>
          /\ listed' <=> said'[Len(said')] = "STOP"
          /\ optin'.candidate <=> said'[Len(said')] = "START"
     /\ \A a \in Actors :
          (actor[a].on \in Alerts /\ told'[actor[a].on] > told[actor[a].on]) => ~listed \/ actor[a].late]_vars
=============================================================================
