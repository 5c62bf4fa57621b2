------------------------------- MODULE Worker -------------------------------
(***************************************************************************)
(* The worker process (index.js, shutdown.js): the telephone line, the     *)
(* mailbox poller and the receiver of forwarded mail in one process, which *)
(* is drained, crashes and is started again.                               *)
(***************************************************************************)
EXTENDS Forwarding, CallLine

CONSTANT
  Workloads  \* what a behaviour has to deal with: a set of [mails, forwarded :
             \* sets of mails, calls : set of calls, connected : is the mailbox,
             \* acts, faults : how much people do and how much goes wrong]

ASSUME WorkloadAssumption ==
  /\ Forwarded \subseteq Mails
  /\ Workloads \subseteq [ mails : SUBSET Mails, forwarded : SUBSET Mails, calls : SUBSET Calls,
                           connected : BOOLEAN, acts : Nat, faults : Nat ]

vars == <<filingVars, mailboxVars, forwardingVars, lineVars>>

Init ==
  \E load \in Workloads :
    /\ FilingInit(load.faults)
    /\ MailboxInit(load.mails, load.connected, load.acts)
    /\ ForwardingInit(load.forwarded)
    /\ LineInit(load.calls)

\* SIGTERM: no new streams, the timer and the watchers stop.
Drains ==
  /\ worker = "up" /\ Fault
  /\ worker' = "draining" /\ watcher' = "off"
  /\ UNCHANGED <<candidates, box, coming, gen, login, conn, backoff, poll, acts, forwardingVars, lineVars>>

\* Ten minutes are over.
DeadlinePasses ==
  /\ worker = "draining" /\ calls # {}
  /\ worker' = "overdue"
  /\ UNCHANGED <<candidates, faults, mailboxVars, forwardingVars, lineVars>>

Forgets == MailboxForgets /\ ForwardingForgets /\ LineDrops /\ UNCHANGED candidates

\* Drained once the table of calls is empty; nothing else is waited for.
Exits ==
  /\ (worker = "draining" /\ calls = {}) \/ worker = "overdue"
  /\ worker' = "down" /\ UNCHANGED faults
  /\ Forgets

Crashes == Running /\ Fault /\ worker' = "crashed" /\ Forgets

Starts ==
  /\ ~Running /\ worker' = "up"
  /\ UNCHANGED <<candidates, faults, mailboxVars, forwardingVars, lineVars>>

Process == Drains \/ DeadlinePasses \/ Exits \/ Crashes \/ Starts

World ==
  /\ (\E m \in Mails : Arrives(m)) \/ (\E k \in 0..Len(box) : Renumbers(k))
  /\ UNCHANGED <<filingVars, forwardingVars, lineVars>>

Tenant ==
  \/ People /\ UNCHANGED <<forwardingVars, lineVars>>
  \/ EditsAlias /\ UNCHANGED lineVars
  \/ /\ acts > 0 /\ acts' = acts - 1
     /\ \E m \in Mails : AddedByHand(Mail[m].from)
     /\ UNCHANGED <<box, coming, gen, login, conn, backoff, watcher, poll, forwardingVars, lineVars>>

Poll(p) == (TickBegins(p) \/ NudgeBegins(p) \/ Polls(p)) /\ UNCHANGED <<forwardingVars, lineVars>>

Memory == (BackoffEnds \/ WatcherGivesUp) /\ UNCHANGED <<forwardingVars, lineVars>>

Receive(m) == (IsAddressed(m) \/ Delivers(m)) /\ UNCHANGED <<mailboxVars, lineVars>>

Call(u) == Talks(u) /\ UNCHANGED <<filingVars, mailboxVars, forwardingVars>>

Next ==
  \/ Process \/ World \/ Tenant \/ Memory
  \/ \E p \in Pollers : Poll(p)
  \/ \E m \in Forwarded : Receive(m)
  \/ \E u \in Calls : Call(u)

Spec == Init /\ [][Next]_vars

\* The timer ticks, a poll and a delivery go on, a backoff ends, a sender
\* tries again, and the process manager starts a worker that has stopped.
Fairness ==
  /\ WF_vars(Starts)
  /\ WF_vars(BackoffEnds /\ UNCHANGED <<forwardingVars, lineVars>>)
  /\ \A p \in Pollers : WF_vars((TickBegins(p) \/ Polls(p)) /\ UNCHANGED <<forwardingVars, lineVars>>)
  /\ \A m \in Forwarded : WF_vars(Receive(m))

FairSpec == Spec /\ Fairness

----------------------------------------------------------------------------
(* Properties.                                                              *)

Ids == ({"id", "fwd"} \X Mails) \union ({"imap-uid"} \X Nat) \union {NoId}

RowType == [ person : STRING, job : OpenJobs \union {DefaultJob}, msgId : Ids, from : SUBSET Mails ]

ConnType ==
  [ id : Nat, status : {"none", "connected", "error", "revoked"}, seen : Nat,
    validity : 0..MaxGenerations, numbered : 0..MaxGenerations ]

PlanType ==
  {NoPlan} \union [ do : {"create"}, row : {0}, claims : {TRUE} ]
           \union [ do : {"merge"}, row : Nat \ {0}, claims : BOOLEAN ]

Kinds == {"tick", "nudge"}

PollIdle == [ at : {"idle"} ]

PollRead ==
  [ at : {"read"}, kind : Kinds, id : Nat, seen : Nat,
    validity : 0..MaxGenerations, numbered : 0..MaxGenerations ]

PollFiling ==
  [ at : {"filing"}, kind : Kinds, id : Nat, fetched : 1..MaxGenerations, whole : BOOLEAN,
    batch : Seq([ uid : Nat \ {0}, mail : Mails ]), n : Nat \ {0}, committed : Nat,
    blocked : BOOLEAN, plan : PlanType ]

PollFailed == [ at : {"failed"}, kind : {"tick"}, id : Nat, reason : {"works", "refused", "withdrawn"} ]

PollSync == [ at : {"sync"}, kind : {"tick"}, id : Nat ]

PollType == PollIdle \union PollRead \union PollFiling \union PollFailed \union PollSync

AliasType == [ status : {"connected", "error", "revoked"}, hasJob : BOOLEAN ]

SessionType ==
  [ at : {"none", "filed"} ] \union [ at : {"data"}, row : AliasType ] \union [ at : {"filing"}, plan : PlanType \ {NoPlan} ]

LegType ==
  [ phase : {"talking", "ending", "analysing", "done"}, endedBy : {"nobody", "agent", "socket"},
    errored : BOOLEAN, closed : BOOLEAN, awaited : BOOLEAN ]

FilingType ==
  /\ worker \in {"up", "draining", "overdue", "down", "crashed"}
  /\ candidates \in Seq(RowType) /\ faults \in Nat

MailboxType ==
  /\ box \in Seq(Mails) /\ coming \subseteq Mails /\ gen \in 1..MaxGenerations
  /\ login \in {"works", "refused", "withdrawn"} /\ conn \in ConnType
  /\ backoff \in [ attempts : 0..RollOff, waiting : BOOLEAN ]
  /\ watcher \in {"off", "on", "dead"} /\ poll \in [ Pollers -> PollType ] /\ acts \in Nat

ForwardingType ==
  /\ alias \in AliasType /\ session \in [ Forwarded -> SessionType ]
  /\ told \in [ Forwarded -> {"retry", "accepted", "dropped", "elsewhere"} ]

LineType ==
  /\ line \in [ Calls -> {"ringing", "answered", "refused", "over"} ]
  /\ legs \in [ Calls -> Seq(LegType) ]
  /\ calls \subseteq { u \in Calls : legs[u] # <<>> }

\* No two rows have the same Message-ID.
IdsAreUnique ==
  \A q, r \in DOMAIN candidates :
    candidates[q].msgId = candidates[r].msgId => q = r \/ candidates[q].msgId = NoId

\* A row one plans to merge into is there, even if others have written since.
Fits(work) == (work.at = "filing" /\ work.plan.do = "merge") => work.plan.row \in DOMAIN candidates

PlansFit == (\A p \in Pollers : Fits(poll[p])) /\ (\A m \in Forwarded : Fits(session[m]))

\* Every variable holds what its comment says, and what refers to a row finds it.
TypeOK ==
  FilingType /\ MailboxType /\ ForwardingType /\ LineType /\ IdsAreUnique /\ PlansFit

\* A mail with a Message-ID is dealt with once a row of its sender holds it.
DealtWith(m) == (Ingestible(Mail[m]) /\ Mail[m].hasId) => Held(m)

\* The watermark and the generation of the row belong together.
MarkFits == conn.numbered = conn.validity

\* Nothing at or below the watermark was passed over: when it was counted from
\* the start of the mailbox's present numbering, every application up to it is
\* in a row.
WatermarkIsBehind ==
  (conn.status # "none" /\ conn.numbered = gen) => \A uid \in 1..conn.seen : DealtWith(box[uid])

\* A sender that was told its mail is accepted need not keep it: it is in a row.
AcceptedIsFiled ==
  \A m \in Forwarded :
    (told[m] = "accepted" /\ Ingestible(Unwrapped(Mail[m]))) => Held(m)

\* No application is lost, neither one that the watermark has passed nor one
\* that was accepted from its sender, however polls overlap, mailboxes are
\* renumbered and deliveries are repeated or cut off by a crash.
NoMailIsLost == WatermarkIsBehind /\ AcceptedIsFiled

\* Two events reached the leg, so that one of them found finalise() begun.
CleanedUpEarly(leg) ==
  \/ leg.endedBy = "agent" /\ (leg.errored \/ leg.closed)
  \/ leg.errored /\ leg.closed

\* The table misses no conversation: a call's first stream is in it until the
\* call is finalised, so that the limit and the shutdown see it; and a drained
\* exit cuts nobody short: no first stream is talking, and none is still being
\* written, unless its cleanup ran early.
DrainedExitWaits ==
  [][/\ \A u \in Calls : (legs'[u] # <<>> /\ legs'[u][1].phase = "talking") => u \in calls'
     /\ (worker = "draining" /\ worker' = "down") =>
          \A u \in Calls : Len(legs[u]) = 1 =>
            /\ legs[u][1].phase # "talking"
            /\ (legs[u][1].phase = "ending" => CleanedUpEarly(legs[u][1]))]_vars

\* The mailbox can be read and the worker may read it.
Readable ==
  /\ worker = "up" /\ login = "works" /\ conn.status \in {"connected", "error"}
  /\ backoff.attempts < RollOff
  /\ MarkFits

\* Every application that arrives is filed in the end, whatever failed, crashed
\* or was renumbered on the way, if the mailbox stays readable from some time on.
MailIsFiled ==
  <>[]Readable =>
    \A m \in Mails :
      (\E uid \in DOMAIN box : box[uid] = m) ~> (DealtWith(m) \/ \A uid \in DOMAIN box : box[uid] # m)
=============================================================================
