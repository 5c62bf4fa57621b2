----------------------------- MODULE Forwarding -----------------------------
(***************************************************************************)
(* Mail forwarded to the worker (inboundSmtp.js).  The sending server asks *)
(* whether the address is known, hands the message over, and tries again   *)
(* until it is told that it was accepted.  The connection row is read when *)
(* the address is checked and used as it was then.                         *)
(***************************************************************************)
EXTENDS Mailbox

CONSTANT Forwarded  \* the mails that are (also) sent to the forwarding address

VARIABLES
  alias,   \* the forwarding address's row: [status, hasJob]
  session, \* each forwarded mail's SMTP session
  told     \* what the sending server was told last: "retry" (or nothing), "accepted"

forwardingVars == <<alias, session, told>>

NoSession == [ at |-> "none" ]

ForwardingInit(mails) ==
  /\ alias \in [ status : {"connected"}, hasJob : IF mails = {} THEN {TRUE} ELSE BOOLEAN ]
  /\ session = [ m \in Forwarded |-> NoSession ]
  \* A mail that is not part of this behaviour counts as delivered long ago.
  /\ told = [ m \in Forwarded |-> IF m \in mails THEN "retry" ELSE "elsewhere" ]

\* Mail without a Message-ID goes by a hash of its source.
ForwardedId(m) == IF Mail[m].hasId THEN <<"id", m>> ELSE <<"fwd", m>>

\* RCPT: the row is read here, and only a running receiver takes the session.
IsAddressed(m) ==
  /\ worker = "up" /\ session[m] = NoSession /\ told[m] = "retry"
  /\ session' = [ session EXCEPT ![m] = [ at |-> "data", row |-> alias ] ]
  /\ UNCHANGED <<alias, told>>
  /\ UNCHANGED filingVars

Replies(m, answer) ==
  /\ session' = [ session EXCEPT ![m] = NoSession ]
  /\ told' = [ told EXCEPT ![m] = answer ]

\* Paused: the original is in the recruiter's own mailbox, so it is dropped.
DropsPaused(m) ==
  /\ session[m].at = "data" /\ session[m].row.status = "revoked"
  /\ Replies(m, "dropped")
  /\ UNCHANGED alias /\ UNCHANGED filingVars

\* No job to file into: dropped, and the settings page is told.
DropsHomeless(m) ==
  /\ session[m].at = "data" /\ session[m].row.status # "revoked" /\ ~session[m].row.hasJob
  /\ alias' = [ alias EXCEPT !.status = "error" ]
  /\ Replies(m, "dropped")
  /\ UNCHANGED filingVars

\* deliverToConnection reads; what is no application is accepted as well.
LooksUpForwarded(m) ==
  /\ session[m].at = "data" /\ session[m].row.status # "revoked" /\ session[m].row.hasJob
  /\ LET mail == Unwrapped(Mail[m]) IN
     IF ~Ingestible(mail)
     THEN session' = [ session EXCEPT ![m] = [ at |-> "filed" ] ]
     ELSE \E plan \in Plans(mail, ForwardedId(m)) :
            session' = [ session EXCEPT ![m] =
              IF plan = NoPlan THEN [ at |-> "filed" ] ELSE [ at |-> "filing", plan |-> plan ] ]
  /\ UNCHANGED <<alias, told>> /\ UNCHANGED filingVars

FilesForwarded(m) ==
  /\ session[m].at = "filing"
  /\ Files(m, Unwrapped(Mail[m]), ForwardedId(m), session[m].plan)
  /\ session' = [ session EXCEPT ![m] = [ at |-> "filed" ] ]
  /\ UNCHANGED <<alias, told, worker, faults>>

\* A delivery that throws is answered 451, and comes again.
DeliveryFails(m) ==
  /\ \/ session[m].at = "filing" /\ Refused(session[m].plan, ForwardedId(m)) /\ UNCHANGED faults
     \/ session[m].at \in {"filing", "filed"} /\ Fault
  /\ Replies(m, "retry")
  /\ UNCHANGED <<alias, worker, candidates>>

\* Mail has come: the row is connected, whatever it was; then 250, which the
\* sender may not hear.
Accepts(m) ==
  /\ session[m].at = "filed"
  /\ alias' = [ alias EXCEPT !.status = "connected" ]
  /\ \/ Replies(m, "accepted") /\ UNCHANGED faults
     \/ Replies(m, "retry") /\ Fault
  /\ UNCHANGED <<worker, candidates>>

Delivers(m) ==
  /\ Running
  /\ \/ DropsPaused(m) \/ DropsHomeless(m)
     \/ LooksUpForwarded(m) \/ FilesForwarded(m) \/ DeliveryFails(m) \/ Accepts(m)

\* Pausing, resuming, or giving the address a job.
EditsAlias ==
  /\ acts > 0 /\ acts' = acts - 1
  /\ alias' \in { [ alias EXCEPT !.status = "revoked" ],
                  [ alias EXCEPT !.status = "connected" ],
                  [ alias EXCEPT !.hasJob = TRUE ] } \ {alias}
  /\ UNCHANGED <<session, told>>
  /\ UNCHANGED <<box, coming, gen, login, conn, backoff, watcher, poll>> /\ UNCHANGED filingVars

ForwardingForgets ==
  /\ session' = [ m \in Forwarded |-> NoSession ]
  /\ UNCHANGED <<alias, told>>
=============================================================================
