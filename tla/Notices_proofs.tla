--------------------------- MODULE Notices_proofs ---------------------------
(***************************************************************************)
(* Theorems about Notices, for every set of notices, calls and webhook     *)
(* requests, however much happens and however much of it fails.            *)
(*                                                                         *)
(* The argument is the claim: who holds the row of a key has made it, is   *)
(* the only one to hold it, and the row says so until he lets it go; so    *)
(* the key is sent once by those who hold it, and everything else that     *)
(* goes out is on record.  For STOP and START it is that one reply is      *)
(* handled at a time, and nothing but its own steps undoes them.           *)
(***************************************************************************)
EXTENDS Notices, TLAPS

----------------------------------------------------------------------------
(* Types.                                                                  *)

\* The names a status, a place and a step of the webhook may have.
LEMMA Names ==
  /\ { "idle", "looked", "claimed", "unlogged", "taken", "refused" } \subseteq Places
  /\ { "mailbox", "second port", "platform" } \subseteq Places
  /\ { "none", "sending", "sent", "failed" } \subseteq Statuses
  /\ Known \union {"failed"} \subseteq Statuses
  /\ { "idle", "row", "list", "candidates", "members" } \subseteq Handling
BY DEF Places, Sending, Statuses, Known, Handling

\* A notice is on its way in one of these places.
LEMMA AfterRefusalTypes == \A at \in Sending : AfterRefusal(at) \subseteq Places
<1> SUFFICES ASSUME NEW at \in Sending
             PROVE  AfterRefusal(at) \subseteq Places
  OBVIOUS
<1>1. AfterRefusal(at) \subseteq { "refused", "second port", "platform", "idle" }
  BY DEF AfterRefusal, Sending
<1> QED
  BY <1>1, Names

\* A part of the process moves on to another place,
LEMMA AtTypes ==
  \A a, where : actor \in [ Actors -> ActorType ] /\ where \in Places /\ At(a, where) => actor' \in [ Actors -> ActorType ]
BY DEF At, ActorType

\* is done with a notice,
LEMMA RestsTypes ==
  \A a \in Actors : actor \in [ Actors -> ActorType ] /\ Rests(a) => actor' \in [ Actors -> ActorType ]
<1> SUFFICES ASSUME NEW a \in Actors, actor \in [ Actors -> ActorType ], Rests(a)
             PROVE  actor' \in [ Actors -> ActorType ]
  OBVIOUS
<1>1. [actor[a] EXCEPT !.on = Nothing, !.at = "idle", !.late = FALSE] \in ActorType
  BY Names DEF ActorType
<1>2. actor' = [actor EXCEPT ![a] = [actor[a] EXCEPT !.on = Nothing, !.at = "idle", !.late = FALSE]]
  BY DEF Rests
<1> QED
  BY <1>1, <1>2

\* or is given others to send.
LEMMA StartsTypes ==
  \A a, what :
    what \subseteq Notices /\ actor \in [ Actors -> ActorType ] /\ Starts(a, what) => actor' \in [ Actors -> ActorType ]
BY DEF Starts, ActorType

\* What has one notice less to send is still one of them.
LEMMA FewerTypes == \A k : \A r \in ActorType : [r EXCEPT !.todo = @ \ {k}] \in ActorType
BY DEF ActorType

\* One more is a count.
LEMMA CountTypes == \A k : \A f \in [ Notices -> Nat ] : [f EXCEPT ![k] = @ + 1] \in [ Notices -> Nat ]
<1> SUFFICES ASSUME NEW f \in [ Notices -> Nat ], NEW k
             PROVE  [f EXCEPT ![k] = @ + 1] \in [ Notices -> Nat ]
  OBVIOUS
<1>1. CASE k \in Notices
  <2>1. f[k] + 1 \in Nat
    BY <1>1
  <2> QED
    BY <2>1
<1>2. CASE k \notin Notices
  BY <1>2
<1> QED
  BY <1>1, <1>2

\* What forgets everything is idle.
LEMMA IdleTypes == Idle \in ActorType /\ NoHook \in HookType
BY Names DEF Idle, ActorType, NoHook, HookType, Statuses, Handling

\* The variables have their types at first,
LEMMA InitTypes == Init => TypeOK
<1> SUFFICES ASSUME NEW scene \in Scenes, tasks = scene.tasks, acts = scene.acts, DeliveriesInit(scene.faults), Init
             PROVE  TypeOK
  BY DEF Init
<1>1. actor \in [ Actors -> ActorType ] /\ log \in [ Keyed -> Statuses ] /\ faults \in Nat /\ acts \in Nat
  BY IdleTypes, Names, ScenesAssumption DEF DeliveriesInit
<1>2. hook \in [ Hooks -> HookType ] /\ said \in Seq({ "STOP", "START" })
  BY IdleTypes DEF Init
<1>3. told \in [ Notices -> Nat ] /\ excused \in [ Notices -> Nat ] /\ asked \in [ Letters -> Nat ]
  BY DEF DeliveriesInit, Init
<1> QED
  BY <1>1, <1>2, <1>3 DEF DeliveriesInit, Init, TypeOK

\* when a part of the process goes on with what it sends,
LEMMA DeliverTypes ==
  \A a \in Actors : TypeOK /\ Deliver(a) => TypeOK'
<1> SUFFICES ASSUME NEW a \in Actors, TypeOK, Goes(a), UNCHANGED << sceneVars, week, drafted, asked, replyVars >>
             PROVE  TypeOK'
  BY DEF Deliver
<1> USE DEF TypeOK, sceneVars, replyVars
<1>1. CASE Looks(a)
  <2> PICK k \in actor[a].todo :
         /\ IF Refrains(k)
            THEN actor' = [actor EXCEPT ![a].todo = @ \ {k}]
            ELSE actor' = [actor EXCEPT ![a].todo = @ \ {k}, ![a].on = k,
                                        ![a].at = IF k \in Letters THEN "mailbox" ELSE "looked"]
         /\ skipped' = IF Kind(k) \in off THEN skipped \union {k} ELSE skipped
    BY <1>1 DEF Looks
  <2>1. k \in Notices
    BY DEF ActorType
  <2>2. actor' \in [ Actors -> ActorType ]
    <3> DEFINE left == [actor[a] EXCEPT !.todo = @ \ {k}]
               sent == [actor[a] EXCEPT !.todo = @ \ {k}, !.on = k, !.at = IF k \in Letters THEN "mailbox" ELSE "looked"]
    <3>1. left \in ActorType
      BY FewerTypes
    <3>2. sent \in ActorType
      <4>1. sent = [left EXCEPT !.on = k, !.at = IF k \in Letters THEN "mailbox" ELSE "looked"]
        OBVIOUS
      <4> HIDE DEF left, sent
      <4> QED
        BY <2>1, <3>1, <4>1, Names DEF ActorType
    <3>3. actor' = [actor EXCEPT ![a] = left] \/ actor' = [actor EXCEPT ![a] = sent]
      OBVIOUS
    <3> QED
      BY <3>1, <3>2, <3>3, ZenonT(60)
  <2> QED
    BY <1>1, <2>1, <2>2 DEF Looks
<1>2. CASE Claims(a)
  <2>1. actor' \in [ Actors -> ActorType ]
    BY <1>2, Names, AtTypes, RestsTypes DEF Claims
  <2>2. log' \in [ Keyed -> Statuses ]
    BY <1>2, Names DEF Claims
  <2> QED
    BY <1>2, <2>1, <2>2 DEF Claims, Fault
<1>3. CASE Sends(a)
  <2>1. actor' \in [ Actors -> ActorType ]
    BY <1>3, Names, AtTypes, RestsTypes, AfterRefusalTypes DEF Sends
  <2>2. told' \in [ Notices -> Nat ] /\ excused' \in [ Notices -> Nat ]
    <3> DEFINE k == actor[a].on
    <3>1. \A one \in { told, excused } : [one EXCEPT ![k] = @ + 1] \in [ Notices -> Nat ]
      BY CountTypes
    <3>2. told' \in { told, [told EXCEPT ![k] = @ + 1] }
      BY <1>3 DEF Sends
    <3>3. excused' \in { excused, [excused EXCEPT ![k] = @ + 1] }
      BY <1>3 DEF Sends
    <3> QED
      BY <3>1, <3>2, <3>3
  <2>3. faults' \in Nat
    BY <1>3 DEF Sends, Fault
  <2> QED
    BY <1>3, <2>1, <2>2, <2>3 DEF Sends
<1>4. CASE Finishes(a)
  <2>1. actor' \in [ Actors -> ActorType ]
    BY <1>4, RestsTypes DEF Finishes
  <2>2. log' \in [ Keyed -> Statuses ]
    <3>1. \A status \in Statuses : [log EXCEPT ![actor[a].on] = status] \in [ Keyed -> Statuses ]
      OBVIOUS
    <3> QED
      BY <1>4, <3>1, Names DEF Finishes
  <2>3. wamid' \subseteq Alerts /\ faults' \in Nat
    BY <1>4 DEF Finishes, Fault
  <2> QED
    BY <1>4, <2>1, <2>2, <2>3 DEF Finishes
<1>5. CASE LookupFails(a)
  <2>1. PICK k : actor' = [actor EXCEPT ![a].todo = @ \ {k}]
    BY <1>5 DEF LookupFails
  <2>2. actor' \in [ Actors -> ActorType ]
    <3> DEFINE left == [actor[a] EXCEPT !.todo = @ \ {k}]
    <3>1. left \in ActorType
      BY FewerTypes
    <3>2. actor' = [actor EXCEPT ![a] = left]
      BY <2>1
    <3> QED
      BY <3>1, <3>2, ZenonT(60)
  <2> QED
    BY <1>5, <2>2 DEF LookupFails, Fault
<1>6. CASE StopsShort(a)
  BY <1>6, RestsTypes DEF StopsShort
<1> QED
  BY <1>1, <1>2, <1>3, <1>4, <1>5, <1>6 DEF Goes

\* when something happens to the workspace, its readers or the servers,
LEMMA PeopleTypes ==
  TypeOK /\ People => TypeOK'
<1> SUFFICES ASSUME TypeOK, People
             PROVE  TypeOK'
  OBVIOUS
<1> USE DEF TypeOK, Acts
<1>1. ASSUME NEW i \in Invoices, Pays(i)
      PROVE  TypeOK'
  <2>1. invoice' \in [ Invoices -> { "unpaid", "paid", "void" } ]
    BY <1>1 DEF Pays
  <2>2. actor' \in [ Actors -> ActorType ]
    BY <1>1, StartsTypes DEF Pays, Notices, Keyed
  <2> QED
    BY <1>1, <2>1, <2>2 DEF Pays, replyVars
<1>2. ASSUME NEW i \in Invoices, Voids(i)
      PROVE  TypeOK'
  BY <1>2 DEF Voids, replyVars
<1>3. ASSUME NEW c \in Sessions, CallEnds(c)
      PROVE  TypeOK'
  <2>1. actor' \in [ Actors -> ActorType ]
    BY <1>3, StartsTypes DEF CallEnds, Notices, Keyed
  <2> QED
    BY <1>3, <2>1 DEF CallEnds, replyVars
<1>4. ASSUME NEW l \in Letters, Shortlists(l)
      PROVE  TypeOK'
  <2>1. actor' \in [ Actors -> ActorType ]
    BY <1>4, StartsTypes DEF Shortlists, Notices
  <2>2. asked' \in [ Letters -> Nat ]
    BY <1>4 DEF Shortlists
  <2> QED
    BY <1>4, <2>1, <2>2 DEF Shortlists, replyVars
<1>5. ASSUME NEW k \in Notices, Switches(Kind(k))
      PROVE  TypeOK'
  <2>1. off' \subseteq { Kind(n) : n \in Notices }
    BY <1>5 DEF Switches
  <2> QED
    BY <1>5, <2>1, SMTT(60) DEF Switches, replyVars
<1>6. ASSUME NEW k \in Alerts, NEW what \in Known \union { "failed", "deleted" }, Reports(k, what)
      PROVE  TypeOK'
  BY <1>6 DEF Reports, Report, Reported, deliveryVars
<1>7. ASSUME NEW what \in { "STOP", "START" }, Replies(what)
      PROVE  TypeOK'
  BY <1>7 DEF Replies, Replied, deliveryVars
<1>8. CASE Agrees
  <2>1. optin' \in [ candidate : BOOLEAN, member : BOOLEAN ]
    BY <1>8 DEF Agrees
  <2> QED
    BY <1>8, <2>1 DEF Agrees, deliveryVars
<1>9. CASE PortalRestarts
  BY <1>9, IdleTypes DEF PortalRestarts
<1>10. CASE WorkerRestarts
  BY <1>10, IdleTypes DEF WorkerRestarts, replyVars
<1>11. ASSUME NEW l \in Letters, Curates(l)
       PROVE  TypeOK'
  BY <1>11 DEF Curates, deliveryVars, replyVars
<1> QED
  BY <1>1, <1>2, <1>3, <1>4, <1>5, <1>6, <1>7, <1>8, <1>9, <1>10, <1>11 DEF People

\* when a timer fires,
LEMMA TimerTypes ==
  TypeOK /\ (RoundBegins \/ Weekly) => TypeOK'
<1> SUFFICES ASSUME TypeOK, RoundBegins \/ Weekly
             PROVE  TypeOK'
  OBVIOUS
<1> USE DEF TypeOK, sceneVars, replyVars
<1>1. CASE RoundBegins
  BY <1>1, StartsTypes DEF RoundBegins, Missed, Notices, Keyed
<1>2. CASE WeeklyBegins
  BY <1>2, StartsTypes DEF WeeklyBegins, Notices, Keyed
<1>3. CASE WeeklyFails
  <2>1. actor' \in [ Actors -> ActorType ]
    <3> PICK n : actor' = [actor EXCEPT !["weekly"].todo = @ \ {n}]
      BY <1>3 DEF WeeklyFails
    <3>1. [actor["weekly"] EXCEPT !.todo = @ \ {n}] \in ActorType
      BY FewerTypes DEF Actors, Portal
    <3> QED
      BY <3>1
  <2>2. week' \in [ running : BOOLEAN, failed : BOOLEAN, done : BOOLEAN ]
    BY <1>3 DEF WeeklyFails
  <2>3. faults' \in Nat
    BY <1>3 DEF WeeklyFails, Fault
  <2> QED
    BY <1>3, <2>1, <2>2, <2>3 DEF WeeklyFails
<1>4. CASE WeeklyEnds
  BY <1>4 DEF WeeklyEnds, Through, deliveryVars
<1> QED
  BY <1>1, <1>2, <1>3, <1>4 DEF Weekly

\* Meta is answered, or will call again.
LEMMA AnsweredTypes ==
  \A h : \A next \in [ Hooks -> HookType ] :
    /\ TypeOK /\ Answered(h, next)
    => hook' \in [ Hooks -> HookType ] /\ owed' \subseteq Reported \union Replied /\ faults' \in Nat
<1> SUFFICES ASSUME NEW h, NEW next \in [ Hooks -> HookType ], TypeOK, Answered(h, next)
             PROVE  hook' \in [ Hooks -> HookType ] /\ owed' \subseteq Reported \union Replied /\ faults' \in Nat
  OBVIOUS
<1>1. hook' \in [ Hooks -> HookType ]
  BY IdleTypes DEF Answered
<1>2. owed' \subseteq Reported \union Replied
  BY DEF TypeOK, Answered
<1>3. faults' \in Nat
  BY DEF TypeOK, Answered, Fault
<1> QED
  BY <1>1, <1>2, <1>3

\* and when Meta calls.
LEMMA HookTypes ==
  \A h \in Hooks : TypeOK /\ (Handle(h) \/ \E event \in owed : Takes(h, event)) => TypeOK'
<1> SUFFICES ASSUME NEW h \in Hooks, TypeOK, Handle(h) \/ \E event \in owed : Takes(h, event)
             PROVE  TypeOK'
  OBVIOUS
<1>t. hook \in [ Hooks -> HookType ]
  BY DEF TypeOK
<1> USE DEF sceneVars
<1>1. ASSUME NEW event \in owed, Takes(h, event)
      PROVE  TypeOK'
  <2>1. hook' \in [ Hooks -> HookType ]
    <3>1. event \in Reported \union Replied
      BY DEF TypeOK
    <3>2. CASE IsReply(event)
      <4>1. [NoHook EXCEPT !.event = event, !.at = "list"] \in HookType
        BY <3>1, IdleTypes, Names DEF HookType
      <4> QED
        BY <1>1, <1>t, <3>2, <4>1 DEF Takes
    <3>3. CASE ~IsReply(event) /\ event.about \in wamid
      <4>1. log[event.about] \in Statuses
        BY <3>3 DEF TypeOK, Keyed
      <4>2. [NoHook EXCEPT !.event = event, !.at = "row", !.saw = log[event.about]] \in HookType
        BY <3>1, <4>1, IdleTypes, Names DEF HookType
      <4> QED
        BY <1>1, <1>t, <3>3, <4>2 DEF Takes
    <3>4. CASE ~IsReply(event) /\ event.about \notin wamid
      BY <1>1, <1>t, <3>4 DEF Takes
    <3> QED
      BY <3>2, <3>3, <3>4
  <2>2. owed' \subseteq Reported \union Replied
    BY <1>1 DEF Takes, TypeOK
  <2>3. mixed' \in BOOLEAN
    BY <1>1, Zenon DEF Takes, TypeOK
  <2>4. faults' \in Nat
    <3>1. Fault \/ UNCHANGED faults
      BY <1>1 DEF Takes
    <3> QED
      BY <3>1 DEF TypeOK, Fault
  <2> QED
    BY <1>1, <2>1, <2>2, <2>3, <2>4 DEF Takes, TypeOK
<1>2. CASE WritesReport(h)
  <2>1. log' \in [ Keyed -> Statuses ]
    BY <1>2, Names DEF WritesReport, MovesOn, TypeOK
  <2>2. Outdated(hook[h].event.about) \in [ Hooks -> HookType ]
    BY <1>t DEF Outdated, HookType
  <2> QED
    BY <1>2, <2>1, <2>2, AnsweredTypes DEF WritesReport, TypeOK
<1>3. CASE WritesList(h)
  <2>1. actor' \in [ Actors -> ActorType ]
    <3>1. \A r \in ActorType, late \in BOOLEAN : [r EXCEPT !.late = late] \in ActorType
      BY DEF ActorType
    <3>2. \A a \in Actors : actor[a] \in ActorType /\ (actor[a].late \/ hook[h].event.says = "STOP") \in BOOLEAN
      BY DEF TypeOK
    <3> QED
      BY <1>3, <3>1, <3>2 DEF WritesList
  <2>2. hook' \in [ Hooks -> HookType ]
    BY <1>3, <1>t, Names DEF WritesList, HookType
  <2> QED
    BY <1>3, <2>1, <2>2 DEF WritesList, TypeOK
<1>4. CASE WritesCandidates(h)
  <2>1. optin' \in [ candidate : BOOLEAN, member : BOOLEAN ]
    BY <1>4 DEF WritesCandidates, TypeOK
  <2>2. [hook EXCEPT ![h].at = "members"] \in [ Hooks -> HookType ]
    BY <1>t, Names DEF HookType
  <2> QED
    BY <1>4, <1>t, <2>1, <2>2, AnsweredTypes DEF WritesCandidates, TypeOK
<1>5. CASE WritesMembers(h)
  <2>1. optin' \in [ candidate : BOOLEAN, member : BOOLEAN ]
    BY <1>5 DEF WritesMembers, TypeOK
  <2> QED
    BY <1>5, <1>t, <2>1, AnsweredTypes DEF WritesMembers, TypeOK
<1>6. CASE Throws(h)
  BY <1>6, <1>t, IdleTypes DEF Throws, Fault, TypeOK
<1> QED
  BY <1>1, <1>2, <1>3, <1>4, <1>5, <1>6 DEF Handle

\* Whatever happens, every variable holds what its comment says.
THEOREM NoticesTypeCorrect == Spec => []TypeOK
<1>1. TypeOK /\ [Next]_vars => TypeOK'
  <2> SUFFICES ASSUME TypeOK, [Next]_vars
               PROVE  TypeOK'
    OBVIOUS
  <2>1. CASE UNCHANGED vars
    BY <2>1 DEF TypeOK, vars, deliveryVars, sceneVars, replyVars
  <2> QED
    BY <2>1, DeliverTypes, PeopleTypes, TimerTypes, HookTypes DEF Next
<1> QED
  BY <1>1, InitTypes, PTL DEF Spec

----------------------------------------------------------------------------
(* The claim.                                                               *)

\* Between the claim of a key and the last word on it.
Trying == { "claimed", "taken", "refused" }

Holds(a, k) == actor[a].on = k /\ actor[a].at \in Trying

\* r fits the part a of the processes: what it is about and where it is agree, and
\* letters are the screening's, one at a time.
Fits(a, r) ==
  /\ r.on = Nothing <=> r.at = "idle"
  /\ r.on \in Keyed => r.at \in { "looked", "unlogged" } \union Trying
  /\ r.on \in Letters => a = "screening" /\ r.at \in { "mailbox", "second port", "platform" }
  /\ a # "screening" => r.todo \cap Letters = {}
  /\ a = "screening" => (\A l, m \in r.todo : l = m) /\ (r.on = Nothing \/ r.todo = {})

ActorsFit == \A a \in Actors : Fits(a, actor[a])

\* Who holds a key has the row, which says so and has no id yet; he is the only one;
\* and the key has gone out no more than is excused before he sends it.
ClaimsHold ==
  \A k \in Keyed :
    /\ told[k] <= 1 + excused[k]
    /\ log[k] = "none" => told[k] <= excused[k] /\ k \notin wamid
    /\ \A a \in Actors : Holds(a, k) => log[k] = "sending" /\ k \notin wamid
    /\ \A a \in Actors : Holds(a, k) /\ actor[a].at = "claimed" => told[k] <= excused[k]
    /\ \A a, b \in Actors : Holds(a, k) /\ Holds(b, k) => a = b

\* A letter that waits or is under way has been called for once more than it went out.
LettersCount ==
  \A l \in Letters :
    /\ told[l] <= asked[l] + excused[l]
    /\ l \in actor["screening"].todo \/ actor["screening"].on = l => told[l] + 1 <= asked[l] + excused[l]

\* A report being handled is about a row that has an id, and has seen its status, or is late.
RowsWatched ==
  \A h \in Hooks :
    hook[h].at = "row" =>
      /\ hook[h].event \in Reported /\ hook[h].event.about \in wamid
      /\ hook[h].late \/ hook[h].saw = log[hook[h].event.about]

Inv == TypeOK /\ ActorsFit /\ ClaimsHold /\ LettersCount /\ RowsWatched

\* A part of the process that is idle fits.
LEMMA IdleFits == \A a : Fits(a, Idle)
<1>1. Nothing \notin Keyed /\ Nothing \notin Letters
  BY DeliveriesAssumption DEF Notices
<1> QED
  BY <1>1 DEF Fits, Idle

\* Nothing is held, waits or is watched at first.
LEMMA InitInv == Init => Inv
<1> SUFFICES ASSUME Init
             PROVE  Inv
  OBVIOUS
<1>1. TypeOK
  BY InitTypes
<1>2. /\ \A a \in Actors : actor[a] = Idle
      /\ \A k \in Notices : told[k] = 0 /\ excused[k] = 0
      /\ \A l \in Letters : asked[l] = 0
      /\ \A h \in Hooks : hook[h] = NoHook
  BY DEF Init, DeliveriesInit
<1>3. ActorsFit
  BY <1>2, IdleFits DEF ActorsFit
<1>4. ClaimsHold
  <2>1. wamid = {}
    BY DEF Init, DeliveriesInit
  <2> QED
    BY <1>2, <2>1 DEF ClaimsHold, Holds, Trying, Idle, Notices
<1>5. LettersCount
  BY <1>2, DeliveriesAssumption DEF LettersCount, Idle, Notices, Actors, Portal
<1>6. RowsWatched
  BY <1>2 DEF RowsWatched, NoHook
<1> QED
  BY <1>1, <1>3, <1>4, <1>5, <1>6 DEF Inv

\* Nobody comes to hold a key, and nothing goes out.
Quiet ==
  /\ UNCHANGED << log, wamid, told, excused >>
  /\ \A a \in Actors : actor'[a].at \in Trying => actor'[a].on = actor[a].on /\ actor'[a].at = actor[a].at

LEMMA QuietClaims == ClaimsHold /\ Quiet => ClaimsHold'
BY DEF ClaimsHold, Quiet, Holds

\* No letter is called for, and none comes to wait or goes out.
Unasked ==
  /\ UNCHANGED << told, excused, asked >>
  /\ \A l \in Letters : l \in actor'["screening"].todo \/ actor'["screening"].on = l =>
                          l \in actor["screening"].todo \/ actor["screening"].on = l

LEMMA UnaskedLetters == LettersCount /\ Unasked => LettersCount'
BY DEF LettersCount, Unasked

\* The webhook lets go, and no row is written.
Unwatched ==
  /\ UNCHANGED << log, wamid >>
  /\ \A h \in Hooks : hook'[h] = hook[h] \/ hook'[h].at # "row"

LEMMA UnwatchedRows == RowsWatched /\ Unwatched => RowsWatched'
BY DEF RowsWatched, Unwatched

----------------------------------------------------------------------------
(* One notice.                                                              *)

\* A part of the process takes up a notice or passes it over,
LEMMA LooksInv ==
  \A a \in Actors : Inv /\ Deliver(a) /\ Looks(a) => ActorsFit' /\ ClaimsHold' /\ LettersCount' /\ RowsWatched'
<1> SUFFICES ASSUME NEW a \in Actors, Inv, Deliver(a), Looks(a)
             PROVE  ActorsFit' /\ ClaimsHold' /\ LettersCount' /\ RowsWatched'
  OBVIOUS
<1> PICK k \in actor[a].todo :
      IF Refrains(k)
      THEN actor' = [actor EXCEPT ![a].todo = @ \ {k}]
      ELSE actor' = [actor EXCEPT ![a].todo = @ \ {k}, ![a].on = k,
                                  ![a].at = IF k \in Letters THEN "mailbox" ELSE "looked"]
  BY DEF Looks
<1>1. /\ actor \in [ Actors -> ActorType ] /\ k \in Notices
      /\ actor[a].on = Nothing /\ Fits(a, actor[a])
  BY DEF Inv, TypeOK, ActorType, ActorsFit, Looks
<1>2. \A b \in Actors : b # a => actor'[b] = actor[b]
  BY <1>1
<1>3. /\ actor'[a].todo = actor[a].todo \ {k}
      /\ \/ actor'[a].on = Nothing /\ actor'[a].at = actor[a].at
         \/ actor'[a].on = k /\ actor'[a].at = IF k \in Letters THEN "mailbox" ELSE "looked"
  BY <1>1 DEF ActorType
<1>4. ActorsFit'
  <2>1. Fits(a, actor'[a])
    BY <1>1, <1>3, DeliveriesAssumption DEF Fits, Notices, Trying
  <2> QED
    BY <1>2, <2>1 DEF Inv, ActorsFit
<1>5. ClaimsHold'
  BY <1>1, <1>2, <1>3, QuietClaims DEF Inv, Quiet, Looks, Fits, Trying
<1>6. LettersCount'
  <2>1. "screening" \in Actors
    BY DEF Actors, Portal
  <2> QED
    BY <1>1, <1>2, <1>3, <2>1, UnaskedLetters DEF Inv, Unasked, Looks, Deliver
<1>7. RowsWatched'
  BY UnwatchedRows DEF Inv, Unwatched, Looks, Deliver, replyVars
<1> QED
  BY <1>4, <1>5, <1>6, <1>7

\* is done with it, while nothing else happens to it,
LEMMA RestsInv ==
  \A a \in Actors :
    Inv /\ Rests(a) /\ UNCHANGED << told, excused, asked, hook >> =>
      /\ ActorsFit' /\ LettersCount'
      /\ UNCHANGED << log, wamid >> => ClaimsHold' /\ RowsWatched'
<1> SUFFICES ASSUME NEW a \in Actors, Inv, Rests(a), UNCHANGED << told, excused, asked, hook >>
             PROVE  /\ ActorsFit' /\ LettersCount'
                    /\ UNCHANGED << log, wamid >> => ClaimsHold' /\ RowsWatched'
  OBVIOUS
<1>1. actor \in [ Actors -> ActorType ] /\ Fits(a, actor[a])
  BY DEF Inv, TypeOK, ActorsFit
<1>2. \A b \in Actors : b # a => actor'[b] = actor[b]
  BY <1>1 DEF Rests
<1>3. actor'[a].on = Nothing /\ actor'[a].at = "idle" /\ actor'[a].todo = actor[a].todo
  BY <1>1 DEF Rests, ActorType
<1>4. ActorsFit'
  <2>1. Fits(a, actor'[a])
    BY <1>1, <1>3, DeliveriesAssumption DEF Fits, Notices
  <2> QED
    BY <1>2, <2>1 DEF Inv, ActorsFit
<1>5. UNCHANGED << log, wamid >> => ClaimsHold'
  BY <1>2, <1>3, QuietClaims DEF Inv, Quiet, Trying
<1>6. LettersCount'
  <2>1. "screening" \in Actors /\ \A l \in Letters : l # Nothing
    BY DeliveriesAssumption DEF Actors, Portal, Notices
  <2> QED
    BY <1>2, <1>3, <2>1, UnaskedLetters DEF Inv, Unasked
<1>7. UNCHANGED << log, wamid >> => RowsWatched'
  BY UnwatchedRows DEF Inv, Unwatched
<1> QED
  BY <1>4, <1>5, <1>6, <1>7

\* gives it up, as the list of who is not to be written to cannot be read,
LEMMA LookupFailsInv ==
  \A a \in Actors : Inv /\ Deliver(a) /\ LookupFails(a) => ActorsFit' /\ ClaimsHold' /\ LettersCount' /\ RowsWatched'
<1> SUFFICES ASSUME NEW a \in Actors, Inv, Deliver(a), LookupFails(a)
             PROVE  ActorsFit' /\ ClaimsHold' /\ LettersCount' /\ RowsWatched'
  OBVIOUS
<1> PICK k : actor' = [actor EXCEPT ![a].todo = @ \ {k}]
  BY DEF LookupFails
<1>1. actor \in [ Actors -> ActorType ] /\ Fits(a, actor[a])
  BY DEF Inv, TypeOK, ActorsFit
<1>2. \A b \in Actors : b # a => actor'[b] = actor[b]
  BY <1>1
<1>3. /\ actor'[a].todo = actor[a].todo \ {k} /\ actor'[a].on = actor[a].on /\ actor'[a].at = actor[a].at
      /\ actor[a].on = Nothing
  BY <1>1 DEF ActorType, LookupFails
<1>4. ActorsFit'
  <2>1. Fits(a, actor'[a])
    BY <1>1, <1>3, DeliveriesAssumption DEF Fits, Notices, Trying
  <2> QED
    BY <1>2, <2>1 DEF Inv, ActorsFit
<1>5. ClaimsHold'
  BY <1>1, <1>2, <1>3, QuietClaims DEF Inv, Quiet, LookupFails
<1>6. LettersCount'
  <2>1. "screening" \in Actors
    BY DEF Actors, Portal
  <2> QED
    BY <1>1, <1>2, <1>3, <2>1, UnaskedLetters DEF Inv, Unasked, LookupFails, Deliver
<1>7. RowsWatched'
  BY UnwatchedRows DEF Inv, Unwatched, LookupFails, Deliver, replyVars
<1> QED
  BY <1>4, <1>5, <1>6, <1>7

\* stops before the platform's mailbox,
LEMMA StopsShortInv ==
  \A a \in Actors : Inv /\ Deliver(a) /\ StopsShort(a) => ActorsFit' /\ ClaimsHold' /\ LettersCount' /\ RowsWatched'
BY RestsInv DEF StopsShort, Deliver, replyVars

\* claims its key,
LEMMA ClaimsInv ==
  \A a \in Actors : Inv /\ Deliver(a) /\ Claims(a) => ActorsFit' /\ ClaimsHold' /\ LettersCount' /\ RowsWatched'
<1> SUFFICES ASSUME NEW a \in Actors, Inv, Deliver(a), Claims(a)
             PROVE  ActorsFit' /\ ClaimsHold' /\ LettersCount' /\ RowsWatched'
  OBVIOUS
<1> DEFINE k == actor[a].on
<1>1. /\ actor \in [ Actors -> ActorType ] /\ actor[a].at = "looked" /\ Fits(a, actor[a])
      /\ log \in [ Keyed -> Statuses ]
      /\ UNCHANGED << wamid, told, excused, asked, hook >>
  BY DEF Inv, TypeOK, ActorsFit, Claims, Deliver, replyVars
<1>2. k \in Keyed
  BY <1>1 DEF Fits, Notices, ActorType
<1>3. CASE Rests(a) /\ UNCHANGED log
  BY <1>1, <1>3, RestsInv
<1>4. ASSUME NEW where \in { "claimed", "unlogged" }, At(a, where),
             \/ where = "claimed" /\ log[k] = "none" /\ log' = [log EXCEPT ![k] = "sending"]
             \/ where = "unlogged" /\ UNCHANGED log
      PROVE  ActorsFit' /\ ClaimsHold' /\ LettersCount' /\ RowsWatched'
  <2>1. \A b \in Actors : b # a => actor'[b] = actor[b]
    BY <1>1, <1>4 DEF At
  <2>2. actor'[a].on = k /\ actor'[a].at = where /\ actor'[a].todo = actor[a].todo
    BY <1>1, <1>4 DEF At, ActorType
  <2>3. ActorsFit'
    <3>1. Fits(a, actor'[a])
      BY <1>1, <1>2, <1>4, <2>2, DeliveriesAssumption DEF Fits, Notices, Trying
    <3> QED
      BY <2>1, <3>1 DEF Inv, ActorsFit
  <2>4. ClaimsHold'
    <3>1. CASE where = "unlogged"
      BY <1>1, <1>4, <2>1, <2>2, <3>1, QuietClaims DEF Inv, Quiet, Trying
    <3>2. CASE where = "claimed"
      <4>1. log[k] = "none" /\ log'[k] = "sending" /\ \A n \in Keyed \ {k} : log'[n] = log[n]
        BY <1>1, <1>2, <1>4, <3>2
      <4>2. ClaimsHold /\ k \notin wamid
        BY <1>2, <4>1 DEF Inv, ClaimsHold
      <4> QED
        BY <1>1, <1>2, <2>1, <2>2, <4>1, <4>2 DEF ClaimsHold, Holds, Trying
    <3> QED
      BY <3>1, <3>2
  <2>5. LettersCount'
    BY <1>1, <2>1, <2>2, UnaskedLetters DEF Inv, Unasked, Actors, Portal
  <2>6. RowsWatched'
    <3>1. k \in wamid => UNCHANGED log
      BY <1>2, <1>4 DEF Inv, ClaimsHold
    <3>2. \A n \in wamid : log'[n] = log[n]
      BY <1>1, <1>4, <3>1 DEF Inv, TypeOK, Keyed
    <3> QED
      BY <1>1, <3>2 DEF Inv, RowsWatched
  <2> QED
    BY <2>3, <2>4, <2>5, <2>6
<1> QED
  BY <1>3, <1>4 DEF Claims

\* hands it to the provider,
LEMMA SendsInv ==
  \A a \in Actors : Inv /\ Deliver(a) /\ Sends(a) => ActorsFit' /\ ClaimsHold' /\ LettersCount' /\ RowsWatched'
<1> SUFFICES ASSUME NEW a \in Actors, Inv, Deliver(a), Sends(a)
             PROVE  ActorsFit' /\ ClaimsHold' /\ LettersCount' /\ RowsWatched'
  OBVIOUS
<1> DEFINE k == actor[a].on
           at == actor[a].at
<1>1. /\ actor \in [ Actors -> ActorType ] /\ at \in Sending /\ Fits(a, actor[a])
      /\ told \in [ Notices -> Nat ] /\ excused \in [ Notices -> Nat ] /\ asked \in [ Letters -> Nat ]
      /\ UNCHANGED << log, wamid, asked, hook >>
  BY DEF Inv, TypeOK, ActorsFit, Sends, Deliver, replyVars
<1>2. k \in Notices
  BY <1>1 DEF Fits, Sending, ActorType
<1>3. /\ \A b \in Actors : b # a => actor'[b] = actor[b]
      /\ actor'[a].todo = actor[a].todo
      /\ \/ actor'[a].on = k /\ at = "claimed" /\ actor'[a].at \in { "taken", "refused" }
         \/ actor'[a].on = k /\ at \in { "mailbox", "second port" } /\ actor'[a].at \in { "second port", "platform" }
         \/ actor'[a].on = Nothing /\ actor'[a].at = "idle" /\ at # "claimed"
  <2>1. ASSUME NEW where, At(a, where)
        PROVE  /\ \A b \in Actors : b # a => actor'[b] = actor[b]
               /\ actor'[a].todo = actor[a].todo /\ actor'[a].on = k /\ actor'[a].at = where
    BY <1>1, <2>1 DEF At, ActorType
  <2>2. ASSUME Rests(a)
        PROVE  /\ \A b \in Actors : b # a => actor'[b] = actor[b]
               /\ actor'[a].todo = actor[a].todo /\ actor'[a].on = Nothing /\ actor'[a].at = "idle"
    BY <1>1, <2>2 DEF Rests, ActorType
  <2>3. CASE IF at = "claimed" THEN At(a, "taken") ELSE Rests(a)
    BY <2>1, <2>2, <2>3
  <2>4. ASSUME NEW next \in AfterRefusal(at), IF next = "idle" THEN Rests(a) ELSE At(a, next)
        PROVE  <1>3!3
    BY <1>1, <2>1, <2>2, <2>4 DEF AfterRefusal, Sending
  <2>5. /\ \A b \in Actors : b # a => actor'[b] = actor[b]
        /\ actor'[a].todo = actor[a].todo
    BY <2>1, <2>2 DEF Sends
  <2> QED
    BY <2>1, <2>2, <2>3, <2>4, <2>5 DEF Sends
<1>4. /\ \A n \in Notices \ {k} : told'[n] = told[n] /\ excused'[n] = excused[n]
      /\ \/ told'[k] = told[k] + 1 /\ excused'[k] = excused[k] /\ at # "unlogged"
            /\ (at = "claimed" \/ actor'[a].on = Nothing)
         \/ told'[k] = told[k] + 1 /\ excused'[k] = excused[k] + 1
         \/ told'[k] = told[k] /\ excused'[k] \in { excused[k], excused[k] + 1 }
  <2>1. Rests(a) => actor'[a].on = Nothing
    BY <1>1 DEF Rests, ActorType
  <2> QED
    BY <1>1, <1>2, <2>1 DEF Sends
<1>5. ActorsFit'
  <2>1. Fits(a, actor'[a])
    BY <1>1, <1>2, <1>3, DeliveriesAssumption DEF Fits, Notices, Trying
  <2> QED
    BY <1>3, <2>1 DEF Inv, ActorsFit
<1>6. RowsWatched'
  BY <1>1, UnwatchedRows DEF Inv, Unwatched
<1>7. ClaimsHold'
  <2> SUFFICES ASSUME NEW n \in Keyed
               PROVE  ClaimsHold!(n)'
    BY DEF ClaimsHold
  <2>1. \A b \in Actors : Holds(b, n)' => Holds(b, n) /\ (actor'[b].at = "claimed" => actor[b].at = "claimed" /\ b # a)
    BY <1>1, <1>3 DEF Holds, Trying
  <2>2. CASE n # k
    BY <1>1, <1>4, <2>1, <2>2 DEF Inv, ClaimsHold, Notices
  <2>3. CASE n = k
    <3>1. told[k] \in Nat /\ excused[k] \in Nat
      BY <1>1, <1>2
    <3>2. at = "claimed" \/ at = "unlogged"
      BY <1>1, <2>3 DEF Fits, Sending, Trying
    <3>3. CASE at = "claimed"
      <4>1. Holds(a, k) /\ told[k] <= excused[k] /\ log[k] = "sending"
        BY <2>3, <3>3 DEF Inv, ClaimsHold, Holds, Trying
      <4> QED
        BY <1>1, <1>4, <2>1, <2>3, <3>1, <3>3, <4>1 DEF Inv, ClaimsHold
    <3>4. CASE at = "unlogged"
      <4>1. told'[k] + excused[k] <= told[k] + excused'[k]
        BY <1>4, <3>1, <3>4
      <4> QED
        BY <1>1, <1>4, <2>1, <2>3, <3>1, <3>4, <4>1 DEF Inv, ClaimsHold
    <3> QED
      BY <3>2, <3>3, <3>4
  <2> QED
    BY <2>2, <2>3
<1>8. LettersCount'
  <2> SUFFICES ASSUME NEW l \in Letters
               PROVE  LettersCount!(l)'
    BY DEF LettersCount
  <2>1. /\ "screening" \in Actors /\ l \in Notices /\ l # Nothing /\ k # Nothing
        /\ told[l] \in Nat /\ excused[l] \in Nat /\ asked[l] \in Nat
    BY <1>1, <1>2, DeliveriesAssumption DEF Actors, Portal, Notices
  <2>2. LettersCount!(l)
    BY DEF Inv, LettersCount
  <2>3. CASE l = k
    <3>1. a = "screening" /\ at \in { "mailbox", "second port", "platform" } /\ actor[a].todo = {}
      BY <1>1, <2>1, <2>3 DEF Fits
    <3>2. told[l] + 1 <= asked[l] + excused[l] /\ asked'[l] = asked[l]
      BY <1>1, <2>2, <2>3, <3>1
    <3>3. CASE told'[l] = told[l] + 1 /\ excused'[l] = excused[l]
      <4>1. l \notin actor'["screening"].todo /\ actor'["screening"].on # l
        <5>0. told[k] \in Nat /\ excused[k] \in Nat /\ at # "claimed"
          BY <2>1, <2>3, <3>1
        <5>1. actor'[a].on = Nothing
          <6>1. told'[k] # told[k] /\ excused'[k] # excused[k] + 1
            BY <2>3, <3>3, <5>0
          <6> QED
            BY <1>4, <5>0, <6>1
        <5> QED
          BY <1>3, <2>1, <3>1, <5>1
      <4> QED
        BY <2>1, <3>2, <3>3, <4>1
    <3>4. CASE told'[l] + excused[l] <= told[l] + excused'[l]
      BY <1>4, <2>1, <2>3, <3>2, <3>4
    <3> QED
      BY <1>4, <2>1, <2>3, <3>3, <3>4
  <2>4. CASE l # k
    <3>1. l \in actor'["screening"].todo \/ actor'["screening"].on = l =>
            l \in actor["screening"].todo \/ actor["screening"].on = l
      BY <1>3, <2>1, <2>4
    <3> QED
      BY <1>1, <1>4, <2>1, <2>2, <2>4, <3>1
  <2> QED
    BY <2>3, <2>4
<1> QED
  BY <1>5, <1>6, <1>7, <1>8

\* and writes what came of it.
LEMMA FinishesInv ==
  \A a \in Actors : Inv /\ Deliver(a) /\ Finishes(a) => ActorsFit' /\ ClaimsHold' /\ LettersCount' /\ RowsWatched'
<1> SUFFICES ASSUME NEW a \in Actors, Inv, Deliver(a), Finishes(a)
             PROVE  ActorsFit' /\ ClaimsHold' /\ LettersCount' /\ RowsWatched'
  OBVIOUS
<1> DEFINE k == actor[a].on
<1>1. /\ actor \in [ Actors -> ActorType ] /\ actor[a].at \in Trying /\ Fits(a, actor[a]) /\ Rests(a)
      /\ log \in [ Keyed -> Statuses ]
      /\ UNCHANGED << told, excused, asked, hook >>
  BY DEF Inv, TypeOK, ActorsFit, Finishes, Trying, Deliver, replyVars
<1>2. k \in Keyed
  BY <1>1 DEF Fits, Notices, ActorType, Trying
<1>3. ActorsFit' /\ LettersCount'
  BY <1>1, RestsInv
<1>4. CASE UNCHANGED << log, wamid >>
  BY <1>1, <1>3, <1>4, RestsInv
<1>5. ASSUME NEW status \in { "sent", "failed" }, log' = [log EXCEPT ![k] = status],
             wamid' = wamid \/ wamid' = wamid \union {k}
      PROVE  ClaimsHold' /\ RowsWatched'
  <2>1. /\ \A b \in Actors : Holds(b, k) => b = a
        /\ k \notin wamid
    BY <1>1, <1>2 DEF Inv, ClaimsHold, Holds
  <2>2. \A b \in Actors : b # a => actor'[b] = actor[b]
    BY <1>1 DEF Rests
  <2>3. actor'[a].at = "idle"
    BY <1>1 DEF Rests, ActorType
  <2>4. log'[k] = status /\ \A n \in Keyed \ {k} : log'[n] = log[n]
    BY <1>1, <1>2, <1>5
  <2>5. ClaimsHold'
    BY <1>1, <1>2, <1>5, <2>1, <2>2, <2>3, <2>4 DEF Inv, ClaimsHold, Holds, Trying
  <2>6. RowsWatched'
    <3>1. \A n \in wamid : n \in Keyed \ {k}
      BY <2>1 DEF Inv, TypeOK, Keyed
    <3> QED
      BY <1>1, <1>5, <2>4, <3>1 DEF Inv, RowsWatched
  <2> QED
    BY <2>5, <2>6
<1> QED
  BY <1>3, <1>4, <1>5 DEF Finishes

----------------------------------------------------------------------------
(* What is sent, and when.                                                  *)

\* Something happens to the workspace, its readers or the servers,
LEMMA PeopleInv ==
  Inv /\ People => ActorsFit' /\ ClaimsHold' /\ LettersCount' /\ RowsWatched'
<1> SUFFICES ASSUME Inv, People
             PROVE  ActorsFit' /\ ClaimsHold' /\ LettersCount' /\ RowsWatched'
  OBVIOUS
<1>t. /\ actor \in [ Actors -> ActorType ] /\ "screening" \in Actors
      /\ Nothing \notin Letters /\ Keyed \cap Letters = {} /\ Portal \cap Sessions = {}
  BY DeliveriesAssumption DEF Inv, TypeOK, Actors, Portal, Notices
<1>1. ASSUME NEW a \in Actors, NEW what \in SUBSET Keyed, a # "screening", Starts(a, what),
             UNCHANGED << log, wamid, told, excused, asked, hook >>
      PROVE  ActorsFit' /\ ClaimsHold' /\ LettersCount' /\ RowsWatched'
  <2>1. /\ \A b \in Actors : b # a => actor'[b] = actor[b]
        /\ actor'[a].todo = what /\ actor'[a].on = actor[a].on /\ actor'[a].at = actor[a].at
    BY <1>1, <1>t DEF Starts, ActorType
  <2>2. ActorsFit'
    <3>1. Fits(a, actor'[a])
      BY <1>1, <1>t, <2>1 DEF Fits, Inv, ActorsFit
    <3> QED
      BY <2>1, <3>1 DEF Inv, ActorsFit
  <2>3. ClaimsHold'
    BY <1>1, <2>1, QuietClaims DEF Inv, Quiet
  <2>4. LettersCount'
    BY <1>1, <1>t, <2>1, UnaskedLetters DEF Inv, Unasked
  <2>5. RowsWatched'
    BY <1>1, UnwatchedRows DEF Inv, Unwatched
  <2> QED
    BY <2>2, <2>3, <2>4, <2>5
<1>2. ASSUME UNCHANGED << actor, log, wamid, told, excused, asked, hook >>
      PROVE  ActorsFit' /\ ClaimsHold' /\ LettersCount' /\ RowsWatched'
  BY <1>2 DEF Inv, ActorsFit, ClaimsHold, Holds, LettersCount, RowsWatched
<1>3. ASSUME NEW i \in Invoices, Pays(i)
      PROVE  ActorsFit' /\ ClaimsHold' /\ LettersCount' /\ RowsWatched'
  <2>1. "payment" \in Actors /\ {i} \in SUBSET Keyed
    BY DEF Actors, Portal, Keyed
  <2> QED
    BY <1>1, <1>2, <1>3, <2>1 DEF Pays, replyVars
<1>4. ASSUME NEW c \in Sessions, CallEnds(c)
      PROVE  ActorsFit' /\ ClaimsHold' /\ LettersCount' /\ RowsWatched'
  <2>1. c \in Actors /\ c # "screening" /\ Alerts \in SUBSET Keyed /\ {} \in SUBSET Keyed
    BY <1>t DEF Actors, Portal, Keyed
  <2> QED
    BY <1>1, <1>4, <2>1 DEF CallEnds, replyVars
<1>5. ASSUME NEW l \in Letters, Shortlists(l), l \notin drafted
      PROVE  ActorsFit' /\ ClaimsHold' /\ LettersCount' /\ RowsWatched'
  <2>1. /\ \A b \in Actors : b # "screening" => actor'[b] = actor[b]
        /\ actor'["screening"].todo = {l} /\ actor'["screening"].on = actor["screening"].on
        /\ actor'["screening"].at = actor["screening"].at
        /\ actor["screening"].on = Nothing
        /\ UNCHANGED << log, wamid, told, excused, hook >>
    BY <1>5, <1>t DEF Shortlists, IsNew, Starts, ActorType, Free, replyVars
  <2>2. ActorsFit'
    <3>1. Fits("screening", actor'["screening"])
      BY <1>t, <2>1 DEF Fits, Inv, ActorsFit
    <3> QED
      BY <2>1, <3>1 DEF Inv, ActorsFit
  <2>3. ClaimsHold'
    BY <2>1, QuietClaims DEF Inv, Quiet
  <2>4. LettersCount'
    <3>1. /\ asked'[l] = asked[l] + 1 /\ \A m \in Letters \ {l} : asked'[m] = asked[m]
          /\ \A m \in Letters : told[m] \in Nat /\ excused[m] \in Nat /\ asked[m] \in Nat
      BY <1>5 DEF Shortlists, Inv, TypeOK, Notices
    <3> QED
      BY <1>t, <2>1, <3>1 DEF Inv, LettersCount
  <2>5. RowsWatched'
    BY <2>1, UnwatchedRows DEF Inv, Unwatched
  <2> QED
    BY <2>2, <2>3, <2>4, <2>5
<1>6. CASE PortalRestarts \/ WorkerRestarts
  <2>1. /\ \A b \in Actors : actor'[b] = actor[b] \/ actor'[b] = Idle
        /\ \A h \in Hooks : hook'[h] = hook[h] \/ hook'[h] = NoHook
        /\ UNCHANGED << log, wamid, told, excused, asked >>
    BY <1>6 DEF PortalRestarts, WorkerRestarts, replyVars
  <2>2. ActorsFit'
    BY <2>1, IdleFits DEF Inv, ActorsFit
  <2>3. ClaimsHold'
    BY <2>1, QuietClaims DEF Inv, Quiet, Idle, Trying
  <2>4. LettersCount'
    BY <1>t, <2>1, UnaskedLetters DEF Inv, Unasked, Idle
  <2>5. RowsWatched'
    BY <2>1, UnwatchedRows DEF Inv, Unwatched, NoHook
  <2> QED
    BY <2>2, <2>3, <2>4, <2>5
<1>7. ASSUME NEW l \in Letters, Shortlists(l), l \in drafted
      PROVE  ActorsFit' /\ ClaimsHold' /\ LettersCount' /\ RowsWatched'
  BY <1>2, <1>7 DEF Shortlists, IsNew, replyVars
<1> QED
  BY <1>2, <1>3, <1>4, <1>5, <1>6, <1>7
     DEF People, Voids, Switches, Curates, Reports, Replies, Agrees, deliveryVars, replyVars

\* or a timer fires.
LEMMA TimerInv ==
  Inv /\ (RoundBegins \/ Weekly) => ActorsFit' /\ ClaimsHold' /\ LettersCount' /\ RowsWatched'
<1> SUFFICES ASSUME Inv, RoundBegins \/ Weekly
             PROVE  ActorsFit' /\ ClaimsHold' /\ LettersCount' /\ RowsWatched'
  OBVIOUS
<1>t. /\ actor \in [ Actors -> ActorType ] /\ { "round", "weekly", "screening" } \subseteq Actors
      /\ Keyed \cap Letters = {}
  BY DeliveriesAssumption DEF Inv, TypeOK, Actors, Portal
<1>1. UNCHANGED << log, wamid, told, excused, asked, hook >>
  BY DEF RoundBegins, Weekly, WeeklyBegins, WeeklyFails, WeeklyEnds, deliveryVars, replyVars
<1>2. PICK a \in { "round", "weekly" } :
        /\ \A b \in Actors : b # a => actor'[b] = actor[b]
        /\ actor'[a].todo \subseteq actor[a].todo \union Keyed
        /\ actor'[a].on = actor[a].on /\ actor'[a].at = actor[a].at
  <2>1. ASSUME NEW a \in { "round", "weekly" }, NEW what \in SUBSET (actor[a].todo \union Keyed), Starts(a, what)
        PROVE  /\ \A b \in Actors : b # a => actor'[b] = actor[b]
               /\ actor'[a].todo \subseteq actor[a].todo \union Keyed
               /\ actor'[a].on = actor[a].on /\ actor'[a].at = actor[a].at
    BY <1>t, <2>1 DEF Starts, ActorType
  <2>2. CASE RoundBegins
    BY <2>1, <2>2 DEF RoundBegins, Missed, Keyed
  <2>3. CASE WeeklyBegins
    BY <2>1, <2>3 DEF WeeklyBegins, Keyed
  <2>4. CASE WeeklyFails
    <3>1. \E s : Starts("weekly", actor["weekly"].todo \ {s})
      BY <2>4 DEF WeeklyFails, Starts
    <3> QED
      BY <2>1, <3>1
  <2>5. CASE WeeklyEnds
    BY <2>5 DEF WeeklyEnds, deliveryVars
  <2> QED
    BY <2>2, <2>3, <2>4, <2>5 DEF Weekly
<1>3. ActorsFit'
  <2>1. Fits(a, actor[a]) /\ a # "screening"
    BY <1>t DEF Inv, ActorsFit
  <2>2. actor'[a].todo \cap Letters = {}
    BY <1>t, <1>2, <2>1 DEF Fits
  <2>3. Fits(a, actor'[a])
    BY <1>2, <2>1, <2>2 DEF Fits
  <2> QED
    BY <1>2, <2>3 DEF Inv, ActorsFit
<1>4. ClaimsHold'
  BY <1>t, <1>1, <1>2, QuietClaims DEF Inv, Quiet
<1>5. LettersCount'
  BY <1>t, <1>1, <1>2, UnaskedLetters DEF Inv, Unasked
<1>6. RowsWatched'
  BY <1>1, UnwatchedRows DEF Inv, Unwatched
<1> QED
  BY <1>3, <1>4, <1>5, <1>6

----------------------------------------------------------------------------
(* Meta's webhook.                                                          *)

\* A report, or a reply, is taken up or let go,
LEMMA TakesInv ==
  \A h \in Hooks : \A event \in owed :
    Inv /\ Takes(h, event) => ActorsFit' /\ ClaimsHold' /\ LettersCount' /\ RowsWatched'
<1> SUFFICES ASSUME NEW h \in Hooks, NEW event \in owed, Inv, Takes(h, event)
             PROVE  ActorsFit' /\ ClaimsHold' /\ LettersCount' /\ RowsWatched'
  OBVIOUS
<1>1. UNCHANGED << actor, log, wamid, told, excused, asked >>
  BY DEF Takes
<1>2. ActorsFit' /\ ClaimsHold' /\ LettersCount'
  BY <1>1 DEF Inv, ActorsFit, ClaimsHold, Holds, LettersCount
<1>3. CASE ~IsReply(event) /\ event.about \in wamid
  <2>1. /\ hook \in [ Hooks -> HookType ] /\ event \in Reported
    BY <1>3 DEF Inv, TypeOK, Replied, IsReply
  <2>2. /\ \A g \in Hooks \ {h} : hook'[g] = hook[g]
        /\ hook'[h].event = event /\ hook'[h].saw = log[event.about]
    BY <1>3, <2>1 DEF Takes, NoHook
  <2> QED
    BY <1>1, <1>2, <1>3, <2>1, <2>2 DEF Inv, RowsWatched
<1>4. CASE IsReply(event) \/ event.about \notin wamid
  <2>1. \A g \in Hooks : hook'[g] = hook[g] \/ hook'[g].at = "list"
    <3>1. hook \in [ Hooks -> HookType ]
      BY DEF Inv, TypeOK
    <3>2. CASE IsReply(event)
      <4>1. hook' = [hook EXCEPT ![h] = [NoHook EXCEPT !.event = event, !.at = "list"]]
        BY <3>2 DEF Takes
      <4>2. [NoHook EXCEPT !.event = event, !.at = "list"].at = "list"
        BY DEF NoHook
      <4> QED
        BY <3>1, <4>1, <4>2
    <3>3. CASE ~IsReply(event)
      BY <1>4, <3>3 DEF Takes
    <3> QED
      BY <3>2, <3>3
  <2> QED
    BY <1>1, <1>2, <2>1, UnwatchedRows DEF Inv, Unwatched
<1> QED
  BY <1>3, <1>4

\* its row is written, which those who have read it before do not know,
LEMMA WritesReportInv ==
  \A h \in Hooks : Inv /\ WritesReport(h) => ActorsFit' /\ ClaimsHold' /\ LettersCount' /\ RowsWatched'
<1> SUFFICES ASSUME NEW h \in Hooks, Inv, WritesReport(h)
             PROVE  ActorsFit' /\ ClaimsHold' /\ LettersCount' /\ RowsWatched'
  OBVIOUS
<1> DEFINE k == hook[h].event.about
<1>1. /\ hook \in [ Hooks -> HookType ] /\ log \in [ Keyed -> Statuses ]
      /\ k \in wamid /\ k \in Keyed
      /\ UNCHANGED << actor, wamid, told, excused, asked >>
  BY DEF Inv, TypeOK, RowsWatched, WritesReport, Keyed
<1>2. /\ \A n \in Keyed \ {k} : log'[n] = log[n]
      /\ log'[k] # "none" \/ log'[k] = log[k]
  BY <1>1 DEF WritesReport, MovesOn, Known
<1>3. ActorsFit' /\ LettersCount'
  BY <1>1 DEF Inv, ActorsFit, LettersCount
<1>4. ClaimsHold'
  BY <1>1, <1>2 DEF Inv, ClaimsHold, Holds
<1>5. RowsWatched'
  <2>1. \A g \in Hooks : \/ hook'[g] = NoHook
                         \/ hook'[g] = IF hook[g].at = "row" /\ hook[g].event.about = k
                                       THEN [hook[g] EXCEPT !.late = TRUE] ELSE hook[g]
    BY DEF WritesReport, Answered, Outdated
  <2> SUFFICES ASSUME NEW g \in Hooks, hook'[g].at = "row"
               PROVE  RowsWatched!(g)'
    BY DEF RowsWatched
  <2>2. NoHook.at # "row"
    BY DEF NoHook
  <2>3. CASE hook[g].at = "row" /\ hook[g].event.about = k
    <3>1. hook'[g].late /\ hook'[g].event = hook[g].event
      BY <1>1, <2>1, <2>2, <2>3 DEF HookType
    <3> QED
      BY <1>1, <2>3, <3>1 DEF Inv, RowsWatched
  <2>4. CASE ~(hook[g].at = "row" /\ hook[g].event.about = k)
    <3>1. hook'[g] = hook[g] /\ hook[g].event.about \in Keyed \ {k}
      BY <2>1, <2>2, <2>4 DEF Inv, TypeOK, RowsWatched, Keyed
    <3> QED
      BY <1>1, <1>2, <3>1 DEF Inv, RowsWatched
  <2> QED
    BY <2>3, <2>4
<1> QED
  BY <1>3, <1>4, <1>5

\* the list, the candidates and the members are, or it fails.
LEMMA HandleInv ==
  \A h \in Hooks : Inv /\ Handle(h) => ActorsFit' /\ ClaimsHold' /\ LettersCount' /\ RowsWatched'
<1> SUFFICES ASSUME NEW h \in Hooks, Inv, WritesList(h) \/ WritesCandidates(h) \/ WritesMembers(h) \/ Throws(h)
             PROVE  ActorsFit' /\ ClaimsHold' /\ LettersCount' /\ RowsWatched'
  BY WritesReportInv DEF Handle
<1>1. UNCHANGED << log, wamid, told, excused, asked >>
  BY DEF WritesList, WritesCandidates, WritesMembers, Throws
<1>2. \A a \in Actors : /\ actor'[a].todo = actor[a].todo
                        /\ actor'[a].on = actor[a].on /\ actor'[a].at = actor[a].at
  BY DEF WritesList, WritesCandidates, WritesMembers, Throws, Inv, TypeOK, ActorType
<1>3. \A g \in Hooks : hook'[g] = hook[g] \/ hook'[g].at # "row"
  BY DEF WritesList, WritesCandidates, WritesMembers, Throws, Answered, NoHook, Inv, TypeOK, HookType
<1>4. ActorsFit'
  BY <1>2, ZenonT(60) DEF Inv, ActorsFit, Fits
<1>5. ClaimsHold'
  BY <1>1, <1>2, QuietClaims DEF Inv, Quiet
<1>6. LettersCount'
  BY <1>1, <1>2, UnaskedLetters DEF Inv, Unasked, Actors, Portal
<1>7. RowsWatched'
  BY <1>1, <1>3, UnwatchedRows DEF Inv, Unwatched
<1> QED
  BY <1>4, <1>5, <1>6, <1>7

----------------------------------------------------------------------------
(* The theorems.                                                            *)

\* Whatever happens, the claims hold.
LEMMA NextInv == Inv /\ [Next]_vars => Inv'
<1> SUFFICES ASSUME Inv, [Next]_vars
             PROVE  Inv'
  OBVIOUS
<1>1. TypeOK'
  BY DeliverTypes, PeopleTypes, TimerTypes, HookTypes
     DEF Inv, Next, TypeOK, vars, deliveryVars, sceneVars, replyVars
<1>2. CASE UNCHANGED vars
  BY <1>1, <1>2 DEF Inv, ActorsFit, ClaimsHold, Holds, LettersCount, RowsWatched, vars, deliveryVars, replyVars
<1>3. ASSUME NEW a \in Actors, Deliver(a)
      PROVE  Inv'
  <2>1. ActorsFit' /\ ClaimsHold' /\ LettersCount' /\ RowsWatched'
    BY <1>3, LooksInv, LookupFailsInv, StopsShortInv, ClaimsInv, SendsInv, FinishesInv DEF Inv, Deliver, Goes
  <2> QED
    BY <1>1, <2>1 DEF Inv
<1> QED
  BY <1>1, <1>2, <1>3, PeopleInv, TimerInv, TakesInv, HandleInv DEF Inv, Next

\* Nobody is told twice, however many send at the same time, fail or start again, but
\* once more for each time the row of the key could not be written, and a letter no
\* more often than a screening put its candidate on a draft anew and an answer was lost.
THEOREM NobodyIsToldTwice == Spec => []ToldOnce
<1>1. Inv => ToldOnce
  BY DEF Inv, ClaimsHold, LettersCount, ToldOnce
<1> QED
  BY <1>1, InitInv, NextInv, PTL DEF Spec

\* The status of a message only moves on, in whatever order Meta reports.
THEOREM MessagesMoveOn == Spec => StatusMovesOn
<1> DEFINE Late == \E h \in Hooks : hook[h].late /\ hook'[h] = NoHook
           Moves == \A k \in Keyed : Rank(log'[k]) >= Rank(log[k]) \/ Late
<1>1. /\ \A status \in Statuses : Rank(status) \in 0..5
      /\ Rank("none") = 0 /\ Rank("sending") = 1 /\ Rank("sent") = 2 /\ Rank("failed") = 5
  BY DEF Statuses, Rank
<1>2. Inv /\ [Next]_vars => [Moves]_vars
  <2> SUFFICES ASSUME Inv, Next, NEW n \in Keyed
               PROVE  Rank(log'[n]) >= Rank(log[n]) \/ Late
    OBVIOUS
  <2>t. log \in [ Keyed -> Statuses ] /\ Rank(log[n]) \in 0..5
    BY <1>1 DEF Inv, TypeOK
  <2>1. CASE UNCHANGED log
    BY <2>1, <2>t
  <2>2. ASSUME NEW a \in Actors, Claims(a)
        PROVE  Rank(log'[n]) >= Rank(log[n])
    <3>1. UNCHANGED log \/ (log[actor[a].on] = "none" /\ log' = [log EXCEPT ![actor[a].on] = "sending"])
      BY <2>2 DEF Claims
    <3> QED
      BY <1>1, <2>t, <3>1
  <2>3. ASSUME NEW a \in Actors, Finishes(a)
        PROVE  Rank(log'[n]) >= Rank(log[n])
    <3>1. UNCHANGED log \/ (n # actor[a].on /\ log'[n] = log[n])
            \/ (n = actor[a].on /\ log'[n] \in { "sent", "failed" })
      BY <2>3, <2>t DEF Finishes
    <3>2. n = actor[a].on => log[n] = "sending"
      BY <2>3 DEF Finishes, Inv, ClaimsHold, Holds, Trying
    <3> QED
      BY <1>1, <2>t, <3>1, <3>2
  <2>4. ASSUME NEW h \in Hooks, WritesReport(h)
        PROVE  Rank(log'[n]) >= Rank(log[n]) \/ Late
    <3>1. hook'[h] = NoHook
      BY <2>4 DEF WritesReport, Answered, Outdated
    <3>2. CASE hook[h].late
      BY <3>1, <3>2
    <3>3. CASE ~hook[h].late
      <4> DEFINE k == hook[h].event.about
                 says == hook[h].event.says
      <4>1. hook[h].saw = log[k] /\ hook[h].event \in Reported
        BY <2>4, <3>3 DEF Inv, RowsWatched, WritesReport
      <4>2. log'[n] = log[n] \/ (n = k /\ log'[n] = says /\ MovesOn(says, log[k]))
        BY <2>4, <2>t, <4>1 DEF WritesReport
      <4> QED
        <5> HIDE DEF k, says
        <5>1. MovesOn(says, log[k]) => says \in Statuses /\ (says = "failed" \/ Rank(says) > Rank(log[k]))
          BY DEF MovesOn, Known, Statuses
        <5> QED
          BY <1>1, <2>t, <4>2, <5>1
    <3> QED
      BY <3>2, <3>3
  <2>5. UNCHANGED log \/ (\E a \in Actors : Claims(a) \/ Finishes(a)) \/ \E h \in Hooks : WritesReport(h)
    BY DEF Next, People, Pays, Voids, CallEnds, Shortlists, Curates, Switches, Reports, Replies, Agrees, PortalRestarts,
           WorkerRestarts, RoundBegins, Weekly, WeeklyBegins, WeeklyFails, WeeklyEnds, Deliver, Goes, Looks, LookupFails,
           StopsShort, Sends,
           Handle, WritesList, WritesCandidates, WritesMembers, Throws, Takes, deliveryVars
  <2> QED
    BY <2>1, <2>2, <2>3, <2>4, <2>5
<1> QED
  BY <1>2, InitInv, NextInv, PTL DEF Spec, StatusMovesOn
----------------------------------------------------------------------------
(* STOP and START.  One reply is handled at a time unless they are mixed:   *)
(* so what a request has behind it stays written, and the reply is settled  *)
(* when Meta no longer owes it.                                             *)

\* Where a request is that handles a reply.
Begun == { "list", "candidates", "members" }

\* r handles a reply that was made, a STOP if it has come to the members; or no reply.
About(r) ==
  /\ r.at \in Begun <=> IsReply(r.event)
  /\ IsReply(r.event) => r.event.about \in DOMAIN said /\ r.event = Reply(r.event.about)
  /\ r.at = "members" => r.event.says = "STOP"

RepliesFit ==
  /\ \A e \in owed : IsReply(e) => e.about \in DOMAIN said /\ e = Reply(e.about)
  /\ \A h \in Hooks : About(hook[h])

\* One reply is handled at a time, and Meta still owes every later one.
InTurn ==
  /\ \A g, h \in Hooks : IsReply(hook[g].event) /\ IsReply(hook[h].event) => hook[g].event = hook[h].event
  /\ \A h \in Hooks :
       IsReply(hook[h].event) => \A n \in DOMAIN said : n > hook[h].event.about => Reply(n) \in owed

\* The list and what the candidates agreed to are what the reply n asked for.
Settled(n) == (listed <=> said[n] = "STOP") /\ (optin.candidate <=> said[n] = "START")

\* What a request has behind it is written, and so is the last reply once it is not owed.
Written ==
  /\ \A h \in Hooks :
       /\ hook[h].at = "candidates" => (listed <=> hook[h].event.says = "STOP")
       /\ hook[h].at = "members" => listed /\ ~optin.candidate
  /\ said # << >> /\ Reply(Len(said)) \notin owed => Settled(Len(said))

Heard == RepliesFit /\ (mixed \/ (InTurn /\ Written))

\* Who has an alert in hand looked when the number was not on the list, or is late.
Unlisted == \A a \in Actors : actor[a].on \in Alerts => ~listed \/ actor[a].late

\* A step that writes nothing about a reply and begins with none.
Silent ==
  /\ said' = said /\ mixed' = mixed /\ listed' = listed /\ optin'.candidate = optin.candidate
  /\ \A e : IsReply(e) => (e \in owed' <=> e \in owed)
  /\ \A h \in Hooks :
       \/ hook'[h].event = hook[h].event /\ hook'[h].at = hook[h].at
       \/ ~IsReply(hook'[h].event) /\ hook'[h].at \notin Begun

\* The replies are replies.
LEMMA RepliesAreReplies == TypeOK => \A n \in DOMAIN said : IsReply(Reply(n)) /\ said[n] \in { "STOP", "START" }
BY DEF TypeOK, IsReply, Reply

LEMMA SilentStays ==
  ASSUME TypeOK, Heard, Silent
  PROVE  Heard'
<1>1. \A n : Reply(n)' = Reply(n)
  BY DEF Reply, Silent
<1>2. \A n \in DOMAIN said : Reply(n) \in owed' <=> Reply(n) \in owed
  BY RepliesAreReplies DEF Silent
<1>3. RepliesFit'
  <2>1. ASSUME NEW e \in owed', IsReply(e) PROVE e.about \in DOMAIN said' /\ e = Reply(e.about)'
    BY <1>1, <2>1 DEF Heard, RepliesFit, Silent
  <2>2. ASSUME NEW h \in Hooks PROVE About(hook[h])'
    <3>1. CASE hook'[h].event = hook[h].event /\ hook'[h].at = hook[h].at
      BY <1>1, <3>1 DEF Heard, RepliesFit, About, Silent
    <3>2. CASE ~IsReply(hook'[h].event) /\ hook'[h].at \notin Begun
      BY <3>2 DEF About, Begun
    <3> QED
      BY <3>1, <3>2 DEF Silent
  <2> QED
    BY <2>1, <2>2 DEF RepliesFit
<1>4. ASSUME ~mixed' PROVE InTurn' /\ Written'
  <2>1. InTurn /\ Written /\ RepliesFit
    BY <1>4 DEF Heard, Silent
  <2>2. \A h \in Hooks : IsReply(hook'[h].event) => hook'[h].event = hook[h].event
    BY DEF Silent
  <2>3. \A h \in Hooks : hook'[h].at \in Begun => hook'[h].at = hook[h].at /\ hook'[h].event = hook[h].event
    BY DEF Silent
  <2>4. InTurn'
    <3>1. \A g, h \in Hooks : IsReply(hook'[g].event) /\ IsReply(hook'[h].event) => hook'[g].event = hook'[h].event
      BY <2>1, <2>2 DEF InTurn
    <3>2. ASSUME NEW h \in Hooks, IsReply(hook'[h].event), NEW n \in DOMAIN said, n > hook'[h].event.about
          PROVE  Reply(n) \in owed'
      <4>1. hook'[h].event = hook[h].event
        BY <2>2, <3>2
      <4>2. Reply(n) \in owed
        BY <2>1, <3>2, <4>1 DEF InTurn
      <4> QED
        BY <1>2, <4>2
    <3>3. DOMAIN said' = DOMAIN said
      BY DEF Silent
    <3> QED
      BY <1>1, <3>1, <3>2, <3>3 DEF InTurn
  <2>5. Written'
    <3>1. ASSUME NEW h \in Hooks
          PROVE  /\ hook'[h].at = "candidates" => (listed' <=> hook'[h].event.says = "STOP")
                 /\ hook'[h].at = "members" => listed' /\ ~optin'.candidate
      BY <2>1, <2>3 DEF Written, Begun, Silent
    <3>2. ASSUME said # << >>, Reply(Len(said)) \notin owed' PROVE Settled(Len(said))'
      <4>1. Len(said) \in DOMAIN said
        BY <3>2 DEF TypeOK
      <4>2. Settled(Len(said))
        BY <1>2, <2>1, <3>2, <4>1 DEF Written
      <4> QED
        BY <4>2 DEF Settled, Silent
    <3>3. said' = said /\ Reply(Len(said))' = Reply(Len(said))
      BY DEF Reply, Silent
    <3> QED
      BY <3>1, <3>2, <3>3 DEF Written
  <2> QED
    BY <2>4, <2>5
<1> QED
  BY <1>3, <1>4 DEF Heard

\* A step of a request h that handles a reply.
Progress(h) ==
  /\ said' = said /\ mixed' = mixed
  /\ \A e : e \in owed' <=> e \in owed /\ (e = hook[h].event => owed' = owed)
  /\ \A g \in Hooks \ {h} : hook'[g] = hook[g]
  /\ \/ hook'[h] = NoHook
     \/ /\ hook'[h].event = hook[h].event /\ hook'[h].at \in Begun
        /\ hook'[h].at = "members" => hook[h].event.says = "STOP"

\* What is known of the reply e of a request, unless replies are mixed.
Alone(e) ==
  /\ IsReply(e) /\ e.about \in DOMAIN said /\ e = Reply(e.about) /\ e.says = said[e.about]
  /\ \A g \in Hooks : hook[g].at \in Begun => hook[g].event = e
  /\ \A n \in DOMAIN said : n > e.about => Reply(n) \in owed
  /\ said # << >> /\ (Reply(Len(said)) \notin owed \/ e = Reply(Len(said))) => e.about = Len(said)

LEMMA NoneIsNoReply == ~IsReply(NoHook.event) /\ NoHook.at \notin Begun /\ NoHook.at = "idle"
BY DEF NoHook, NoEvent, IsReply, Nothing, Begun

LEMMA HandledAlone ==
  ASSUME TypeOK, Heard, ~mixed, NEW h \in Hooks, hook[h].at \in Begun
  PROVE  Alone(hook[h].event)
<1>1. PICK e : e = hook[h].event
  OBVIOUS
<1>2. InTurn /\ RepliesFit
  BY DEF Heard
<1>3. IsReply(e) /\ e.about \in DOMAIN said /\ e = Reply(e.about)
  BY <1>1, <1>2 DEF RepliesFit, About
<1>4. e.says = said[e.about]
  BY <1>3 DEF Reply
<1>5. \A g \in Hooks : hook[g].at \in Begun => hook[g].event = e
  BY <1>1, <1>2, <1>3 DEF RepliesFit, About, InTurn
<1>6. \A n \in DOMAIN said : n > e.about => Reply(n) \in owed
  BY <1>1, <1>2, <1>3 DEF InTurn
<1>7. ASSUME said # << >>, Reply(Len(said)) \notin owed \/ e = Reply(Len(said)) PROVE e.about = Len(said)
  <2>1. Len(said) \in DOMAIN said /\ \A n \in DOMAIN said : n \in Nat /\ n <= Len(said)
    BY <1>7 DEF TypeOK
  <2>2. CASE e = Reply(Len(said))
    BY <2>2 DEF Reply
  <2>3. CASE Reply(Len(said)) \notin owed
    BY <1>3, <1>6, <2>1, <2>3
  <2> QED
    BY <1>7, <2>2, <2>3
<1> QED
  BY <1>1, <1>3, <1>4, <1>5, <1>6, <1>7 DEF Alone

\* It leaves the replies in turn.
LEMMA ProgressFits ==
  ASSUME TypeOK, Heard, NEW h \in Hooks, hook[h].at \in Begun, Progress(h)
  PROVE  RepliesFit' /\ (~mixed => InTurn')
<1>1. \A n : Reply(n)' = Reply(n)
  BY DEF Reply, Progress
<1>2. RepliesFit /\ said' = said
  BY DEF Heard, Progress
<1>3. ASSUME NEW e \in owed', IsReply(e) PROVE e.about \in DOMAIN said' /\ e = Reply(e.about)'
  <2>1. e \in owed
    BY <1>3 DEF Progress
  <2> QED
    BY <1>1, <1>2, <1>3, <2>1 DEF RepliesFit
<1>4. ASSUME NEW g \in Hooks PROVE About(hook[g])'
  <2>1. CASE hook'[g] = NoHook
    BY <2>1, NoneIsNoReply DEF About
  <2>2. CASE hook'[g] = hook[g]
    BY <1>1, <1>2, <2>2 DEF RepliesFit, About
  <2>3. CASE /\ g = h /\ hook'[h].event = hook[h].event /\ hook'[h].at \in Begun
             /\ hook'[h].at = "members" => hook[h].event.says = "STOP"
    BY <1>1, <1>2, <2>3 DEF RepliesFit, About
  <2> QED
    BY <2>1, <2>2, <2>3 DEF Progress
<1>5. ASSUME ~mixed PROVE InTurn'
  <2>1. PICK e : e = hook[h].event
    OBVIOUS
  <2>2. Alone(e)
    BY <1>5, <2>1, HandledAlone
  <2>3. \A g \in Hooks : IsReply(hook'[g].event) => hook'[g].event = e
    <3> SUFFICES ASSUME NEW g \in Hooks, IsReply(hook'[g].event) PROVE hook'[g].event = e
      OBVIOUS
    <3>1. hook'[g].event = hook[g].event
      BY NoneIsNoReply DEF Progress
    <3>2. hook[g].at \in Begun
      BY <1>2, <3>1 DEF RepliesFit, About
    <3> QED
      BY <2>2, <3>1, <3>2 DEF Alone
  <2>4. ASSUME NEW n \in DOMAIN said, n > e.about PROVE Reply(n) \in owed'
    <3>1. Reply(n) \in owed
      BY <2>2, <2>4 DEF Alone
    <3>2. Reply(n).about = n /\ n \in Nat
      BY <2>4 DEF Reply, TypeOK
    <3>3. Reply(n) # e
      BY <2>4, <3>2
    <3> QED
      BY <2>1, <3>1, <3>3 DEF Progress
  <2> QED
    BY <1>1, <1>2, <2>3, <2>4 DEF InTurn
<1> QED
  BY <1>2, <1>3, <1>4, <1>5 DEF RepliesFit

\* The list is written.
LEMMA ListHeard ==
  ASSUME TypeOK, Heard, NEW h \in Hooks, WritesList(h)
  PROVE  Heard'
<1>1. /\ hook[h].at = "list" /\ said' = said /\ mixed' = mixed /\ owed' = owed /\ optin' = optin
      /\ listed' = (hook[h].event.says = "STOP") /\ hook[h].at \in Begun
  BY DEF WritesList, Begun
<1>2. /\ \A g \in Hooks \ {h} : hook'[g] = hook[g]
      /\ hook'[h].event = hook[h].event /\ hook'[h].at = "candidates"
  <2>1. hook \in [ Hooks -> HookType ] /\ hook' = [hook EXCEPT ![h].at = "candidates"]
    BY DEF WritesList, TypeOK
  <2> QED
    BY <2>1 DEF HookType
<1>3. Progress(h)
  BY <1>1, <1>2 DEF Progress, Begun
<1>4. RepliesFit' /\ (~mixed => InTurn')
  BY <1>1, <1>3, ProgressFits
<1>5. ASSUME ~mixed PROVE Written'
  <2>1. PICK e : e = hook[h].event
    OBVIOUS
  <2>2. Alone(e) /\ Written
    BY <1>1, <1>5, <2>1, HandledAlone DEF Heard
  <2>3. listed' = (e.says = "STOP")
    BY <1>1, <2>1
  <2>4. ASSUME NEW g \in Hooks
        PROVE  /\ hook'[g].at = "candidates" => (listed' <=> hook'[g].event.says = "STOP")
               /\ hook'[g].at = "members" => listed' /\ ~optin'.candidate
    <3>1. CASE g = h
      BY <1>2, <2>1, <2>3, <3>1
    <3>2. CASE g # h
      <4>1. hook'[g] = hook[g] /\ (hook[g].at \in Begun => hook[g].event = e)
        BY <1>2, <2>2, <3>2 DEF Alone
      <4>2. hook[g].at = "members" => hook[g].event.says = "STOP" /\ ~optin.candidate
        BY <2>2 DEF Written, Heard, RepliesFit, About
      <4> QED
        BY <1>1, <2>3, <4>1, <4>2 DEF Begun
    <3> QED
      BY <3>1, <3>2
  <2>5. ASSUME said # << >>, Reply(Len(said)) \notin owed PROVE Settled(Len(said))'
    <3>1. Settled(Len(said)) /\ e.says = said[Len(said)]
      BY <2>2, <2>5 DEF Written, Alone
    <3> QED
      BY <1>1, <2>3, <3>1 DEF Settled
  <2>6. Reply(Len(said))' = Reply(Len(said)) /\ said' = said
    BY <1>1 DEF Reply
  <2> QED
    BY <1>1, <2>4, <2>5, <2>6 DEF Written
<1> QED
  BY <1>1, <1>4, <1>5 DEF Heard

\* So are the candidates;
LEMMA CandidatesHeard ==
  ASSUME TypeOK, Heard, NEW h \in Hooks, WritesCandidates(h)
  PROVE  Heard'
<1>0. PICK e : e = hook[h].event
  OBVIOUS
<1>1. /\ hook[h].at = "candidates" /\ said' = said /\ mixed' = mixed /\ listed' = listed
      /\ optin'.candidate = ~(e.says = "STOP") /\ hook[h].at \in Begun
  BY <1>0 DEF WritesCandidates, Begun, TypeOK
<1>2. \/ /\ e.says = "STOP" /\ owed' = owed
         /\ hook' = [hook EXCEPT ![h].at = "members"]
      \/ /\ e.says # "STOP" /\ (owed' = owed \/ owed' = owed \ {e})
         /\ hook' = [hook EXCEPT ![h] = NoHook]
  BY <1>0 DEF WritesCandidates, Answered
<1>3. /\ \A g \in Hooks \ {h} : hook'[g] = hook[g]
      /\ \/ hook'[h] = NoHook /\ e.says # "STOP"
         \/ /\ hook'[h].event = hook[h].event /\ hook'[h].at = "members" /\ e.says = "STOP" /\ owed' = owed
  <2>1. hook \in [ Hooks -> HookType ]
    BY DEF TypeOK
  <2> QED
    BY <1>2, <2>1 DEF HookType
<1>4. \A x : x \in owed' <=> x \in owed /\ (x = e => owed' = owed)
  BY <1>2
<1>5. Progress(h)
  BY <1>0, <1>1, <1>3, <1>4 DEF Progress, Begun
<1>6. RepliesFit' /\ (~mixed => InTurn')
  BY <1>1, <1>5, ProgressFits
<1>7. ASSUME ~mixed PROVE Written'
  <2>1. Alone(e) /\ Written /\ (listed <=> e.says = "STOP")
    BY <1>0, <1>1, <1>7, HandledAlone DEF Heard, Written
  <2>2. e.says \in { "STOP", "START" }
    BY <2>1 DEF Alone, IsReply
  <2>3. ASSUME NEW g \in Hooks
        PROVE  /\ hook'[g].at = "candidates" => (listed' <=> hook'[g].event.says = "STOP")
               /\ hook'[g].at = "members" => listed' /\ ~optin'.candidate
    <3>1. CASE g = h
      BY <1>0, <1>1, <1>3, <2>1, <3>1, NoneIsNoReply
    <3>2. CASE g # h
      <4>1. hook'[g] = hook[g] /\ (hook[g].at \in Begun => hook[g].event = e)
        BY <1>3, <2>1, <3>2 DEF Alone
      <4>2. hook[g].at = "members" => hook[g].event.says = "STOP" /\ listed
        BY <2>1 DEF Written, Heard, RepliesFit, About
      <4> QED
        BY <1>1, <2>1, <4>1, <4>2 DEF Begun
    <3> QED
      BY <3>1, <3>2
  <2>4. ASSUME said # << >>, Reply(Len(said)) \notin owed' PROVE Settled(Len(said))'
    <3>1. Reply(Len(said)) \notin owed \/ e = Reply(Len(said))
      BY <1>4, <2>4
    <3>2. e.says = said[Len(said)]
      BY <2>1, <2>4, <3>1 DEF Alone
    <3> QED
      BY <1>1, <2>1, <2>2, <3>2 DEF Settled
  <2>5. Reply(Len(said))' = Reply(Len(said)) /\ said' = said
    BY <1>1 DEF Reply
  <2> QED
    BY <1>1, <2>3, <2>4, <2>5 DEF Written
<1> QED
  BY <1>1, <1>6, <1>7 DEF Heard

\* and the members, after STOP.
LEMMA MembersHeard ==
  ASSUME TypeOK, Heard, NEW h \in Hooks, WritesMembers(h)
  PROVE  Heard'
<1>0. PICK e : e = hook[h].event
  OBVIOUS
<1>1. /\ hook[h].at = "members" /\ said' = said /\ mixed' = mixed /\ listed' = listed
      /\ optin'.candidate = optin.candidate /\ hook[h].at \in Begun
  BY DEF WritesMembers, Begun, TypeOK
<1>2. (owed' = owed \/ owed' = owed \ {e}) /\ hook' = [hook EXCEPT ![h] = NoHook]
  BY <1>0 DEF WritesMembers, Answered
<1>3. hook'[h] = NoHook /\ \A g \in Hooks \ {h} : hook'[g] = hook[g]
  BY <1>2 DEF TypeOK
<1>4. \A x : x \in owed' <=> x \in owed /\ (x = e => owed' = owed)
  BY <1>2
<1>5. Progress(h)
  BY <1>0, <1>1, <1>3, <1>4 DEF Progress
<1>6. RepliesFit' /\ (~mixed => InTurn')
  BY <1>1, <1>5, ProgressFits
<1>7. ASSUME ~mixed PROVE Written'
  <2>1. Alone(e) /\ Written /\ listed /\ ~optin.candidate
    BY <1>0, <1>1, <1>7, HandledAlone DEF Heard, Written
  <2>2. e.says = "STOP"
    BY <1>0, <1>1 DEF Heard, RepliesFit, About
  <2>3. ASSUME NEW g \in Hooks
        PROVE  /\ hook'[g].at = "candidates" => (listed' <=> hook'[g].event.says = "STOP")
               /\ hook'[g].at = "members" => listed' /\ ~optin'.candidate
    <3>1. CASE g = h
      BY <1>3, <3>1, NoneIsNoReply
    <3>2. CASE g # h
      BY <1>1, <1>3, <2>1, <3>2 DEF Written
    <3> QED
      BY <3>1, <3>2
  <2>4. ASSUME said # << >>, Reply(Len(said)) \notin owed' PROVE Settled(Len(said))'
    <3>1. Reply(Len(said)) \notin owed \/ e = Reply(Len(said))
      BY <1>4, <2>4
    <3>2. said[Len(said)] = "STOP"
      BY <2>1, <2>2, <2>4, <3>1 DEF Alone
    <3> QED
      BY <1>1, <2>1, <3>2 DEF Settled
  <2>5. Reply(Len(said))' = Reply(Len(said)) /\ said' = said
    BY <1>1 DEF Reply
  <2> QED
    BY <1>1, <2>3, <2>4, <2>5 DEF Written
<1> QED
  BY <1>1, <1>6, <1>7 DEF Heard

\* Another reply comes: Meta owes it.
LEMMA RepliesHeard ==
  ASSUME TypeOK, Heard, NEW what \in { "STOP", "START" }, Replies(what)
  PROVE  Heard'
<1>1. PICK n, e : n = Len(said) + 1 /\ e = [ about |-> n, says |-> what ]
  OBVIOUS
<1>2. /\ said' = Append(said, what) /\ owed' = owed \union {e}
      /\ hook' = hook /\ mixed' = mixed /\ listed' = listed /\ optin' = optin
  BY <1>1 DEF Replies, deliveryVars
<1>3. /\ Len(said) \in Nat /\ n \in Nat /\ DOMAIN said = 1..Len(said)
      /\ DOMAIN said' = DOMAIN said \union {n} /\ said' # << >> /\ Len(said') = n
      /\ said'[n] = what /\ \A m \in DOMAIN said : said'[m] = said[m] /\ m \in Nat /\ m # n
  <2>1. said \in Seq({ "STOP", "START" })
    BY DEF TypeOK
  <2>2. Len(said) \in Nat /\ n \in Nat /\ DOMAIN said = 1..Len(said) /\ said' \in Seq({ "STOP", "START" })
    BY <1>1, <1>2, <2>1
  <2>3. Len(said') = n /\ said'[n] = what /\ \A m \in 1..Len(said) : said'[m] = said[m]
    BY <1>1, <1>2, <2>1
  <2>4. DOMAIN said' = 1..n /\ said' # << >>
    BY <2>2, <2>3, <1>1
  <2>5. 1..n = 1..Len(said) \union {n} /\ \A m \in 1..Len(said) : m \in Nat /\ m # n
    BY <1>1, <2>2
  <2> QED
    BY <2>2, <2>3, <2>4, <2>5
<1>4. /\ \A m \in DOMAIN said : Reply(m)' = Reply(m)
      /\ Reply(n)' = e /\ e.about = n
  BY <1>1, <1>3 DEF Reply
<1>5. RepliesFit'
  <2>1. RepliesFit
    BY DEF Heard
  <2>2. ASSUME NEW x \in owed', IsReply(x) PROVE x.about \in DOMAIN said' /\ x = Reply(x.about)'
    <3>1. CASE x = e
      BY <1>3, <1>4, <3>1
    <3>2. CASE x \in owed
      BY <1>3, <1>4, <2>1, <2>2, <3>2 DEF RepliesFit
    <3> QED
      BY <1>2, <3>1, <3>2
  <2>3. ASSUME NEW h \in Hooks PROVE About(hook[h])'
    BY <1>2, <1>3, <1>4, <2>1 DEF RepliesFit, About
  <2> QED
    BY <2>2, <2>3 DEF RepliesFit
<1>6. ASSUME ~mixed PROVE InTurn' /\ Written'
  <2>1. InTurn /\ Written
    BY <1>6 DEF Heard
  <2>2. ASSUME NEW h \in Hooks, IsReply(hook[h].event), NEW m \in DOMAIN said', m > hook[h].event.about
        PROVE  Reply(m)' \in owed'
    BY <1>2, <1>3, <1>4, <2>1, <2>2 DEF InTurn
  <2>3. InTurn'
    BY <1>2, <2>1, <2>2 DEF InTurn
  <2>4. Reply(n)' \in owed'
    BY <1>2, <1>4
  <2>5. Reply(Len(said))' \in owed'
    BY <1>3, <2>4 DEF Reply
  <2>6. Written'
    BY <1>2, <2>1, <2>5 DEF Written
  <2> QED
    BY <2>3, <2>6
<1> QED
  BY <1>2, <1>5, <1>6 DEF Heard

\* Meta calls about a reply or a report.
LEMMA TakesHeard ==
  ASSUME TypeOK, Heard, NEW h \in Hooks, NEW event \in owed, Takes(h, event)
  PROVE  Heard'
<1>1. /\ said' = said /\ listed' = listed /\ optin' = optin /\ hook[h] = NoHook
      /\ hook \in [ Hooks -> HookType ]
  BY DEF Takes, TypeOK
<1>2. CASE ~IsReply(event)
  <2>1. mixed' = mixed /\ owed' \subseteq owed /\ owed \subseteq owed' \union {event}
    BY <1>2 DEF Takes
  <2>2. \A e : IsReply(e) => (e \in owed' <=> e \in owed)
    BY <1>2, <2>1
  <2>3. ASSUME NEW g \in Hooks
        PROVE  \/ hook'[g].event = hook[g].event /\ hook'[g].at = hook[g].at
               \/ ~IsReply(hook'[g].event) /\ hook'[g].at \notin Begun
    <3>1. PICK r : r = [NoHook EXCEPT !.event = event, !.at = "row", !.saw = log[event.about]]
      OBVIOUS
    <3>2. r.event = event /\ r.at = "row"
      BY <3>1 DEF NoHook
    <3>3. hook' = hook \/ hook' = [hook EXCEPT ![h] = r]
      BY <1>2, <3>1 DEF Takes
    <3>4. hook'[g] = hook[g] \/ hook'[g] = r
      BY <1>1, <3>3
    <3> QED
      BY <1>2, <3>2, <3>4 DEF Begun
  <2>4. Silent
    BY <1>1, <2>1, <2>2, <2>3 DEF Silent
  <2> QED
    BY <2>4, SilentStays
<1>3. CASE IsReply(event)
  <2>1. PICK r : r = [NoHook EXCEPT !.event = event, !.at = "list"]
    OBVIOUS
  <2>2. r.event = event /\ r.at = "list" /\ r.at \in Begun
    BY <2>1 DEF NoHook, Begun
  <2>3. owed' = owed /\ mixed' = (mixed \/ Mixes(event)) /\ hook' = [hook EXCEPT ![h] = r]
    BY <1>3, <2>1 DEF Takes
  <2>4. hook'[h] = r /\ \A g \in Hooks \ {h} : hook'[g] = hook[g]
    BY <1>1, <2>3
  <2>5. \A n : Reply(n)' = Reply(n)
    BY <1>1 DEF Reply
  <2>6. RepliesFit /\ event.about \in DOMAIN said /\ event = Reply(event.about)
    BY <1>3 DEF Heard, RepliesFit
  <2>7. RepliesFit'
    <3>1. ASSUME NEW g \in Hooks PROVE About(hook[g])'
      <4>1. CASE g = h
        BY <1>1, <1>3, <2>2, <2>4, <2>5, <2>6, <4>1 DEF About
      <4>2. CASE g # h
        BY <1>1, <2>4, <2>5, <2>6, <4>2 DEF About, RepliesFit
      <4> QED
        BY <4>1, <4>2
    <3> QED
      BY <1>1, <2>3, <2>5, <2>6, <3>1 DEF RepliesFit
  <2>8. ASSUME ~mixed' PROVE InTurn' /\ Written'
    <3>1. ~mixed /\ ~Mixes(event)
      BY <2>3, <2>8
    <3>2. InTurn /\ Written
      BY <3>1 DEF Heard
    <3>3. \A g \in Hooks : IsReply(hook[g].event) => hook[g].event = event
      BY <3>1 DEF Mixes
    <3>4. \A n \in DOMAIN said : n > event.about => Reply(n) \in owed
      BY <3>1 DEF Mixes
    <3>5. \A g \in Hooks : IsReply(hook'[g].event) => hook'[g].event = event
      BY <2>2, <2>4, <3>3
    <3>6. InTurn'
      BY <1>1, <2>3, <2>5, <3>4, <3>5 DEF InTurn
    <3>7. \A g \in Hooks : hook'[g].at \in { "candidates", "members" } => hook'[g] = hook[g]
      BY <2>2, <2>4
    <3>8. Written'
      <4>1. ASSUME NEW g \in Hooks
            PROVE  /\ hook'[g].at = "candidates" => (listed' <=> hook'[g].event.says = "STOP")
                   /\ hook'[g].at = "members" => listed' /\ ~optin'.candidate
        BY <1>1, <3>2, <3>7 DEF Written
      <4>2. said # << >> /\ Reply(Len(said)) \notin owed => Settled(Len(said))'
        BY <1>1, <3>2 DEF Written, Settled
      <4> QED
        BY <1>1, <2>3, <2>5, <4>1, <4>2 DEF Written
    <3> QED
      BY <3>6, <3>8
  <2> QED
    BY <2>7, <2>8 DEF Heard
<1> QED
  BY <1>2, <1>3

\* Requests that are let go leave the replies alone.
LEMMA LetGoIsSilent ==
  ASSUME TypeOK, said' = said, mixed' = mixed, listed' = listed, optin' = optin, owed' = owed,
         \A h \in Hooks : hook'[h] = hook[h] \/ hook'[h] = NoHook
  PROVE  Silent
BY NoneIsNoReply DEF Silent

\* A report is written, or a request fails.
LEMMA HandlesHeard ==
  ASSUME Inv, Heard, NEW h \in Hooks, Handle(h)
  PROVE  Heard'
<1>1. TypeOK /\ hook \in [ Hooks -> HookType ]
  BY DEF Inv, TypeOK
<1>2. CASE Throws(h)
  <2>1. /\ said' = said /\ mixed' = mixed /\ listed' = listed /\ optin' = optin /\ owed' = owed
        /\ hook' = [hook EXCEPT ![h] = NoHook]
    BY <1>2 DEF Throws
  <2>2. \A g \in Hooks : hook'[g] = hook[g] \/ hook'[g] = NoHook
    BY <1>1, <2>1
  <2> QED
    BY <1>1, <2>1, <2>2, LetGoIsSilent, SilentStays
<1>3. CASE WritesReport(h)
  <2>1. PICK event : event = hook[h].event
    OBVIOUS
  <2>2. ~IsReply(event)
    <3>1. event \in Reported
      BY <1>3, <2>1 DEF WritesReport, Inv, RowsWatched
    <3> QED
      BY <3>1 DEF Reported, Known, IsReply
  <2>3. /\ said' = said /\ mixed' = mixed /\ listed' = listed /\ optin' = optin
        /\ owed' = owed \/ owed' = owed \ {event}
        /\ hook' = [Outdated(event.about) EXCEPT ![h] = NoHook]
    BY <1>3, <2>1 DEF WritesReport, Answered
  <2>4. \A e : IsReply(e) => (e \in owed' <=> e \in owed)
    BY <2>2, <2>3
  <2>5. ASSUME NEW g \in Hooks
        PROVE  \/ hook'[g].event = hook[g].event /\ hook'[g].at = hook[g].at
               \/ ~IsReply(hook'[g].event) /\ hook'[g].at \notin Begun
    <3>1. hook'[g] \in { NoHook, hook[g], [hook[g] EXCEPT !.late = TRUE] }
      BY <2>3 DEF Outdated
    <3>2. /\ [hook[g] EXCEPT !.late = TRUE].event = hook[g].event
          /\ [hook[g] EXCEPT !.late = TRUE].at = hook[g].at
      BY <1>1 DEF HookType
    <3> QED
      BY <3>1, <3>2, NoneIsNoReply
  <2>6. Silent
    BY <2>3, <2>4, <2>5 DEF Silent
  <2> QED
    BY <1>1, <2>6, SilentStays
<1> QED
  BY <1>1, <1>2, <1>3, ListHeard, CandidatesHeard, MembersHeard DEF Handle

\* Whatever happens, the replies are handled so.
LEMMA HeardNext ==
  ASSUME Inv, Heard, [Next]_vars
  PROVE  Heard'
<1>1. TypeOK /\ hook \in [ Hooks -> HookType ]
  BY DEF Inv, TypeOK
<1>2. ASSUME UNCHANGED << listed, optin, said, owed, hook, mixed >> PROVE Heard'
  BY <1>1, <1>2, LetGoIsSilent, SilentStays
<1>3. CASE UNCHANGED vars
  BY <1>2, <1>3 DEF vars, deliveryVars, replyVars
<1>4. ASSUME NEW a \in Actors, Deliver(a) PROVE Heard'
  BY <1>2, <1>4 DEF Deliver, Goes, Looks, LookupFails, StopsShort, Claims, Sends, Finishes, replyVars
<1>5. CASE RoundBegins \/ Weekly
  BY <1>2, <1>5 DEF RoundBegins, Weekly, WeeklyBegins, WeeklyFails, WeeklyEnds, deliveryVars, replyVars
<1>6. CASE People
  <2>1. CASE \/ \E i \in Invoices : Pays(i) \/ Voids(i)
             \/ \E c \in Sessions : CallEnds(c)
             \/ \E l \in Letters : Shortlists(l) \/ Curates(l)
             \/ \E k \in Notices : Switches(Kind(k))
             \/ WorkerRestarts
    BY <1>2, <2>1 DEF Pays, Voids, CallEnds, Shortlists, Curates, Switches, WorkerRestarts, deliveryVars, replyVars
  <2>2. ASSUME NEW k \in Alerts, NEW what \in Known \union { "failed", "deleted" }, Reports(k, what) PROVE Heard'
    <3>1. ~IsReply(Report(k, what))
      BY DEF Report, IsReply, Known
    <3>2. /\ said' = said /\ mixed' = mixed /\ listed' = listed /\ optin' = optin /\ hook' = hook
          /\ owed' = owed \union { Report(k, what) }
      BY <2>2 DEF Reports, deliveryVars
    <3>3. Silent
      BY <3>1, <3>2 DEF Silent
    <3> QED
      BY <1>1, <3>3, SilentStays
  <2>3. ASSUME NEW what \in { "STOP", "START" }, Replies(what) PROVE Heard'
    BY <1>1, <2>3, RepliesHeard
  <2>4. CASE Agrees
    <3>1. /\ said' = said /\ mixed' = mixed /\ listed' = listed /\ hook' = hook /\ owed' = owed
          /\ optin'.candidate = optin.candidate
      BY <2>4 DEF Agrees, deliveryVars, TypeOK, Inv
    <3>2. Silent
      BY <3>1 DEF Silent
    <3> QED
      BY <1>1, <3>2, SilentStays
  <2>5. CASE PortalRestarts
    <3>1. \A h \in Hooks : hook'[h] = NoHook
      BY <2>5 DEF PortalRestarts
    <3>2. said' = said /\ mixed' = mixed /\ listed' = listed /\ optin' = optin /\ owed' = owed
      BY <2>5 DEF PortalRestarts
    <3> QED
      BY <1>1, <3>1, <3>2, LetGoIsSilent, SilentStays
  <2> QED
    BY <1>6, <2>1, <2>2, <2>3, <2>4, <2>5 DEF People
<1> QED
  BY <1>1, <1>3, <1>4, <1>5, <1>6, TakesHeard, HandlesHeard DEF Next

\* A part of the process that begins with an alert has found the number off the list,
\* and the list stays as it is.
Calm ==
  /\ listed' = listed
  /\ \A a \in Actors :
       \/ actor'[a].on \notin Alerts
       \/ actor'[a].on = actor[a].on /\ actor'[a].late = actor[a].late
       \/ ~listed

LEMMA CalmStays == Unlisted /\ Calm => Unlisted'
BY DEF Unlisted, Calm

\* A part of the process moves on, is done or is given others to send.
LEMMA MovesCalm ==
  ASSUME actor \in [ Actors -> ActorType ], listed' = listed, NEW a,
         \/ \E where : At(a, where)
         \/ Rests(a)
         \/ \E what : actor' = [actor EXCEPT ![a].todo = what]
  PROVE  Calm
<1> SUFFICES ASSUME NEW b \in Actors
             PROVE  actor'[b].on \notin Alerts \/ (actor'[b].on = actor[b].on /\ actor'[b].late = actor[b].late)
  BY DEF Calm
<1>0. Nothing \notin Alerts
  BY DeliveriesAssumption DEF Notices, Keyed
<1>1. CASE \E where : At(a, where)
  BY <1>1 DEF At, ActorType
<1>2. CASE Rests(a)
  <2>1. CASE b = a
    <3>1. PICK r : r = [actor[a] EXCEPT !.on = Nothing, !.at = "idle", !.late = FALSE]
      OBVIOUS
    <3>2. actor' = [actor EXCEPT ![a] = r]
      BY <1>2, <3>1 DEF Rests
    <3>3. r.on = Nothing
      <4>1. actor[a] \in ActorType
        BY <2>1
      <4> QED
        BY <3>1, <4>1 DEF ActorType
    <3>4. actor'[b] = r
      BY <2>1, <3>2
    <3> QED
      BY <1>0, <3>3, <3>4
  <2>2. CASE b # a
    BY <1>2, <2>2 DEF Rests
  <2> QED
    BY <2>1, <2>2
<1>3. CASE \E what : actor' = [actor EXCEPT ![a].todo = what]
  BY <1>3 DEF ActorType
<1> QED
  BY <1>1, <1>2, <1>3

LEMMA DeliversCalm ==
  ASSUME TypeOK, NEW a \in Actors, Goes(a)
  PROVE  Calm
<1>1. actor \in [ Actors -> ActorType ] /\ listed' = listed
  BY DEF TypeOK, Goes, Looks, LookupFails, StopsShort, Claims, Sends, Finishes
<1>2. CASE Looks(a)
  <2>1. PICK k \in actor[a].todo :
          IF Refrains(k)
          THEN actor' = [actor EXCEPT ![a].todo = @ \ {k}]
          ELSE actor' = [actor EXCEPT ![a].todo = @ \ {k}, ![a].on = k,
                                      ![a].at = IF k \in Letters THEN "mailbox" ELSE "looked"]
    BY <1>2 DEF Looks
  <2>2. CASE Refrains(k)
    BY <1>1, <2>1, <2>2, MovesCalm
  <2>3. CASE ~Refrains(k)
    <3>1. k \in Alerts => ~listed
      BY <2>3 DEF Refrains
    <3>2. actor'[a].on = k /\ \A b \in Actors \ {a} : actor'[b] = actor[b]
      BY <1>1, <2>1, <2>3 DEF ActorType
    <3> QED
      BY <1>1, <3>1, <3>2 DEF Calm
  <2> QED
    BY <2>2, <2>3
<1>3. CASE StopsShort(a) \/ Claims(a) \/ Sends(a) \/ Finishes(a)
  <2>1. (\E where : At(a, where)) \/ Rests(a)
    BY <1>3 DEF StopsShort, Claims, Sends, Finishes
  <2> QED
    BY <1>1, <2>1, MovesCalm
<1>4. CASE LookupFails(a)
  <2>1. PICK k : actor' = [actor EXCEPT ![a].todo = @ \ {k}]
    BY <1>4 DEF LookupFails
  <2> QED
    BY <1>1, <2>1, MovesCalm
<1> QED
  BY <1>2, <1>3, <1>4 DEF Goes

\* Whatever happens, a number on the list gets nothing but from those who had looked.
LEMMA UnlistedNext ==
  ASSUME Inv, Unlisted, [Next]_vars
  PROVE  Unlisted'
<1>1. TypeOK /\ actor \in [ Actors -> ActorType ]
  BY DEF Inv, TypeOK
<1>2. ASSUME UNCHANGED << actor, listed >> PROVE Unlisted'
  BY <1>2, CalmStays DEF Calm
<1>3. ASSUME NEW a, NEW what, Starts(a, what), listed' = listed PROVE Unlisted'
  BY <1>1, <1>3, MovesCalm, CalmStays DEF Starts
<1>4. CASE UNCHANGED vars
  BY <1>2, <1>4 DEF vars, deliveryVars
<1>5. ASSUME NEW a \in Actors, Deliver(a) PROVE Unlisted'
  BY <1>1, <1>5, DeliversCalm, CalmStays DEF Deliver
<1>6. CASE RoundBegins \/ Weekly
  <2>1. CASE RoundBegins
    BY <1>3, <2>1 DEF RoundBegins
  <2>2. CASE WeeklyBegins
    BY <1>3, <2>2 DEF WeeklyBegins
  <2>3. CASE WeeklyFails
    BY <1>1, <2>3, MovesCalm, CalmStays DEF WeeklyFails
  <2>4. CASE WeeklyEnds
    BY <1>2, <2>4 DEF WeeklyEnds, deliveryVars
  <2> QED
    BY <1>6, <2>1, <2>2, <2>3, <2>4 DEF Weekly
<1>7. CASE People
  <2>0. \A s \in SUBSET Actors :
          listed' = listed /\ actor' = [ a \in Actors |-> IF a \in s THEN Idle ELSE actor[a] ] => Unlisted'
    <3> SUFFICES ASSUME NEW s \in SUBSET Actors, listed' = listed,
                        actor' = [ a \in Actors |-> IF a \in s THEN Idle ELSE actor[a] ]
                 PROVE  Unlisted'
      OBVIOUS
    <3>1. Idle.on \notin Alerts
      BY DeliveriesAssumption DEF Idle, Notices, Keyed
    <3>2. \A a \in Actors : actor'[a] = Idle \/ actor'[a] = actor[a]
      OBVIOUS
    <3> QED
      BY <3>1, <3>2, CalmStays DEF Calm
  <2>1. ASSUME NEW i \in Invoices, Pays(i) \/ Voids(i) PROVE Unlisted'
    BY <1>2, <1>3, <2>1 DEF Pays, Voids
  <2>2. ASSUME NEW c \in Sessions, CallEnds(c) PROVE Unlisted'
    BY <1>3, <2>2 DEF CallEnds
  <2>3. ASSUME NEW l \in Letters, Shortlists(l) \/ Curates(l) PROVE Unlisted'
    BY <1>2, <1>3, <2>3 DEF Shortlists, Curates, deliveryVars
  <2>4. CASE \/ \E k \in Notices : Switches(Kind(k))
             \/ \E k \in Alerts, what \in Known \union { "failed", "deleted" } : Reports(k, what)
             \/ \E what \in { "STOP", "START" } : Replies(what)
             \/ Agrees
    BY <1>2, <2>4 DEF Switches, Reports, Replies, Agrees, deliveryVars
  <2>5. CASE PortalRestarts
    BY <2>0, <2>5 DEF PortalRestarts, Actors
  <2>6. CASE WorkerRestarts
    BY <2>0, <2>6 DEF WorkerRestarts, Actors
  <2> QED
    BY <1>7, <2>1, <2>2, <2>3, <2>4, <2>5, <2>6 DEF People
<1>8. ASSUME NEW h \in Hooks, WritesList(h) PROVE Unlisted'
  <2>1. PICK stop : stop = (hook[h].event.says = "STOP")
    OBVIOUS
  <2>2. listed' = stop /\ stop \in BOOLEAN
    BY <1>8, <2>1 DEF WritesList
  <2>3. ASSUME NEW a \in Actors, actor'[a].on \in Alerts PROVE actor'[a].late = (actor[a].late \/ stop)
    <3>1. actor'[a] = IF actor[a].on \in Alerts THEN [actor[a] EXCEPT !.late = @ \/ stop] ELSE actor[a]
      BY <1>8, <2>1 DEF WritesList
    <3>2. actor[a].on \in Alerts
      BY <2>3, <3>1
    <3> QED
      BY <1>1, <3>1, <3>2 DEF ActorType
  <2> QED
    BY <2>2, <2>3 DEF Unlisted
<1>9. ASSUME NEW h \in Hooks, Handle(h), ~WritesList(h) PROVE Unlisted'
  BY <1>2, <1>9 DEF Handle, WritesReport, WritesCandidates, WritesMembers, Throws
<1>10. ASSUME NEW h \in Hooks, NEW event \in owed, Takes(h, event) PROVE Unlisted'
  BY <1>2, <1>10 DEF Takes
<1> QED
  BY <1>4, <1>5, <1>6, <1>7, <1>8, <1>9, <1>10 DEF Next

\* When Meta owes no reply, the list and what the candidates agreed to are what the
\* last reply asked for, whatever failed or was called again; and a number on the list
\* gets nothing but from those who had looked before.
THEOREM StopIsAlwaysKept == Spec => StopIsKept
<1> DEFINE IInv == Inv /\ Heard /\ Unlisted
           Asked == (said' # << >> /\ ~mixed' /\ NoReplyIsOpen') =>
                      /\ listed' <=> said'[Len(said')] = "STOP"
                      /\ optin'.candidate <=> said'[Len(said')] = "START"
           Quietly == \A a \in Actors :
                        (actor[a].on \in Alerts /\ told'[actor[a].on] > told[actor[a].on]) => ~listed \/ actor[a].late
<1>1. Init => IInv
  <2> SUFFICES ASSUME Init PROVE Heard /\ Unlisted
    BY InitInv
  <2>1. /\ said = << >> /\ owed = {} /\ \A h \in Hooks : hook[h] = NoHook
        /\ \A a \in Actors : actor[a] = Idle
    BY DEF Init, DeliveriesInit
  <2>2. Heard
    BY <2>1, NoneIsNoReply DEF Heard, RepliesFit, About, InTurn, Written
  <2>3. Unlisted
    BY <2>1, DeliveriesAssumption DEF Unlisted, Idle, Notices, Keyed
  <2> QED
    BY <2>2, <2>3
<1>2. IInv /\ [Next]_vars => IInv'
  BY NextInv, HeardNext, UnlistedNext
<1>3. TypeOK' /\ Heard' => Asked
  <2> SUFFICES ASSUME TypeOK', Heard', said' # << >>, ~mixed', NoReplyIsOpen'
               PROVE  Settled(Len(said))'
    BY DEF Settled
  <2>1. said' \in Seq({ "STOP", "START" })
    BY DEF TypeOK
  <2>2. Len(said') \in DOMAIN said'
    BY <2>1
  <2>3. Reply(Len(said))' \notin owed'
    BY <2>2 DEF NoReplyIsOpen, Reply
  <2> QED
    BY <2>3 DEF Heard, Written
<1>4. Unlisted => Quietly
  BY DEF Unlisted
<1>5. IInv /\ [Next]_vars => [Asked /\ Quietly]_vars
  <2> HIDE DEF Asked, Quietly
  <2> QED
    BY <1>2, <1>3, <1>4 DEF Inv
<1> QED
  BY <1>1, <1>2, <1>5, PTL DEF Spec, StopIsKept
=============================================================================
