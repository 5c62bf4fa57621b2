----------------------------- MODULE Deliveries -----------------------------
(***************************************************************************)
(* How a notice leaves: deliverEmail (mailer.ts) and deliverWhatsApp       *)
(* (whatsapp.ts), which claim the notice's key in the log before they      *)
(* send, and sendAsTenant (email.ts), which has no key and tries a second  *)
(* port and then another mailbox when the first refuses.                   *)
(***************************************************************************)
EXTENDS Naturals, FiniteSets

CONSTANTS
  Invoices,   \* the email about each invoice, keyed by the invoice
  Summaries,  \* the weekly email to each reader, keyed by the reader and the week
  Alerts,     \* the WhatsApp messages to one number, keyed by what they are about
  Letters,    \* the emails about a shortlisted candidate: no key
  Sessions    \* the calls of the worker, each of which may send alerts

Keyed == Invoices \union Summaries \union Alerts

Notices == Keyed \union Letters

Nothing == "nothing"

\* Who sends: four parts of the portal's process, and the calls of the worker.
Portal == { "payment", "round", "weekly", "screening" }

Actors == Portal \union Sessions

ASSUME DeliveriesAssumption ==
  /\ Invoices \cap Summaries = {} /\ (Invoices \union Summaries) \cap Alerts = {}
  /\ Keyed \cap Letters = {} /\ Nothing \notin Notices
  /\ Portal \cap Sessions = {}

VARIABLES
  actor,    \* todo: the notices still to send; on: the one being sent; at: how far
            \* it is; late (history): the number was put on the list since it looked
  log,      \* the email_log or whatsapp_log row of each key
  wamid,    \* the alerts whose row holds the id Meta gave them
  listed,   \* the number is on the opt-out list
  off,      \* the kinds switched off in the admin panel
  invoice,  \* "unpaid", "paid" or "void"
  faults,   \* bound: faults still to come
  told,     \* history: how often a provider has accepted each notice
  excused,  \* history: how often it went out without its row or its answer was lost
  skipped   \* history: the notices that were looked at with their switch off

deliveryVars == << actor, log, wamid, listed, off, invoice, faults, told, excused, skipped >>

Idle == [ todo |-> {}, on |-> Nothing, at |-> "idle", late |-> FALSE ]

DeliveriesInit(many) ==
  /\ actor = [ a \in Actors |-> Idle ]
  /\ log = [ k \in Keyed |-> "none" ] /\ wamid = {}
  /\ listed = FALSE /\ off = {} /\ invoice = [ i \in Invoices |-> "unpaid" ] /\ faults = many
  /\ told = [ k \in Notices |-> 0 ] /\ excused = [ k \in Notices |-> 0 ] /\ skipped = {}

Kind(k) ==
  CASE k \in Invoices -> "invoice_issued" [] k \in Summaries -> "weekly_summary"
    [] k \in Alerts -> "quota_warning"    [] k \in Letters -> "shortlist_ready"

Free(a) == actor[a].on = Nothing /\ actor[a].todo = {}

Fault == faults > 0 /\ faults' = faults - 1

At(a, where) == actor' = [actor EXCEPT ![a].at = where]

Rests(a) == actor' = [actor EXCEPT ![a].on = Nothing, ![a].at = "idle", ![a].late = FALSE]

----------------------------------------------------------------------------
(* One notice.                                                              *)

\* A kind that is switched off is not sent, nor anything to a number on the
\* list; an invoice that is no longer paid is not written about.  The mailbox
\* of the tenant is not asked about the switch.
Refrains(k) ==
  \/ Kind(k) \in off /\ k \notin Letters
  \/ k \in Alerts /\ listed
  \/ k \in Invoices /\ invoice[k] # "paid"

Looks(a) ==
  /\ actor[a].on = Nothing
  /\ \E k \in actor[a].todo :
       /\ IF Refrains(k)
          THEN actor' = [actor EXCEPT ![a].todo = @ \ {k}]
          ELSE actor' = [actor EXCEPT ![a].todo = @ \ {k}, ![a].on = k,
                                      ![a].at = IF k \in Letters THEN "mailbox" ELSE "looked"]
       /\ skipped' = IF Kind(k) \in off THEN skipped \union {k} ELSE skipped
  /\ UNCHANGED << log, wamid, listed, off, invoice, faults, told, excused >>

\* The opt-out list cannot be read: the message is given up.
LookupFails(a) ==
  /\ actor[a].on = Nothing
  /\ \E k \in actor[a].todo \cap Alerts :
       Kind(k) \notin off /\ actor' = [actor EXCEPT ![a].todo = @ \ {k}]
  /\ Fault
  /\ UNCHANGED << log, wamid, listed, off, invoice, told, excused, skipped >>

\* Mutation of Claims: the key is looked for, the row is written when the
\* answer is known.
ClaimsNothing(a) ==
  LET k == actor[a].on IN
  /\ actor[a].at = "looked"
  /\ IF log[k] # "none" THEN Rests(a) ELSE At(a, "claimed")
  /\ UNCHANGED << log, wamid, listed, off, invoice, faults, told, excused, skipped >>

\* The key is claimed with the row; a key there is a row for was sent, or tried.
\* A row that cannot be written stops nothing.
Claims(a) ==
  LET k == actor[a].on IN
  /\ actor[a].at = "looked"
  /\ \/ log[k] = "none" /\ log' = [log EXCEPT ![k] = "sending"] /\ At(a, "claimed") /\ UNCHANGED faults
     \/ log[k] # "none" /\ Rests(a) /\ UNCHANGED << log, faults >>
     \/ Fault /\ At(a, "unlogged") /\ UNCHANGED log
  /\ UNCHANGED << wamid, listed, off, invoice, told, excused, skipped >>

Sending == { "claimed", "unlogged", "mailbox", "second port", "platform" }

\* Where a refusal leads.  A refused login is not tried on the other port.
AfterRefusal(at) ==
  CASE at = "claimed" -> { "refused" } [] at = "mailbox" -> { "second port", "platform" }
    [] at = "second port" -> { "platform" } [] at \in { "unlogged", "platform" } -> { "idle" }

\* The platform's own mailbox, where a letter ends up, asks about the switch.
SwitchedOff(a) == actor[a].at = "platform" /\ Kind(actor[a].on) \in off

StopsShort(a) ==
  /\ SwitchedOff(a) /\ Rests(a)
  /\ UNCHANGED << log, wamid, listed, off, invoice, faults, told, excused, skipped >>

\* The provider takes it, refuses it, or takes it and the answer is lost.
Sends(a) ==
  LET k == actor[a].on  at == actor[a].at IN
  /\ at \in Sending /\ ~SwitchedOff(a)
  /\ \/ /\ told' = [told EXCEPT ![k] = @ + 1]
        /\ excused' = [excused EXCEPT ![k] = IF at = "unlogged" THEN @ + 1 ELSE @]
        /\ IF at = "claimed" THEN At(a, "taken") ELSE Rests(a)
        /\ UNCHANGED faults
     \/ \E next \in AfterRefusal(at), taken \in BOOLEAN :
        /\ Fault
        /\ told' = [told EXCEPT ![k] = IF taken THEN @ + 1 ELSE @]
        /\ excused' = [excused EXCEPT ![k] = IF taken \/ at = "unlogged" THEN @ + 1 ELSE @]
        /\ IF next = "idle" THEN Rests(a) ELSE At(a, next)
  /\ UNCHANGED << log, wamid, listed, off, invoice, skipped >>

\* The row gets the answer, unless that cannot be written either.
Finishes(a) ==
  LET k == actor[a].on  taken == actor[a].at = "taken" IN
  /\ actor[a].at \in { "taken", "refused" }
  /\ \/ /\ log' = [log EXCEPT ![k] = IF taken THEN "sent" ELSE "failed"]
        /\ wamid' = IF taken /\ k \in Alerts THEN wamid \union {k} ELSE wamid
        /\ UNCHANGED faults
     \/ Fault /\ UNCHANGED << log, wamid >>
  /\ Rests(a)
  /\ UNCHANGED << listed, off, invoice, told, excused, skipped >>

Goes(a) == Looks(a) \/ LookupFails(a) \/ Claims(a) \/ StopsShort(a) \/ Sends(a) \/ Finishes(a)
=============================================================================
