------------------------------ MODULE Mailbox ------------------------------
(***************************************************************************)
(* A mailbox the worker reads over IMAP (poller.js, imapClient.js,         *)
(* mailAuth.js), and the settings page that connects and pauses it.        *)
(*                                                                         *)
(* The timer (tick) and the IDLE watcher (nudge) poll alike, and nothing   *)
(* keeps two polls of one mailbox apart.  A poll reads the connection row, *)
(* fetches a batch above its watermark, files the messages one by one,     *)
(* and writes back how far it came without a gap.                          *)
(*                                                                         *)
(* All mail is within the look-back window.  UIDs are positions in the     *)
(* mailbox; a server that renumbers starts them over.                      *)
(***************************************************************************)
EXTENDS Filing

CONSTANTS
  Pollers,        \* names of polls that may be under way at once
  MaxPerPoll,     \* setting email.max_per_poll
  RollOff,        \* setting email.failure_rolloff
  MaxGenerations  \* bound: numberings of the mailbox

ASSUME PollAssumption ==
  MaxPerPoll \in Nat \ {0} /\ RollOff \in Nat \ {0} /\ MaxGenerations \in Nat \ {0}

VARIABLES
  box,     \* the mailbox: the mail at each UID
  coming,  \* mails that have yet to arrive
  gen,     \* UIDVALIDITY of the mailbox
  login,   \* what the server says to the saved credentials
  conn,    \* the connection row; `numbered` is the generation in which `seen`
           \* was counted from the start, and 0 if it is none
  backoff, \* the worker's memory of failures: [attempts, waiting]
  watcher, \* the IDLE watcher: "off", "on", or "dead" once it gave up
  poll,    \* each poll's progress
  acts     \* bound: what people are yet to do to the connections and the rows

mailboxVars == <<box, coming, gen, login, conn, backoff, watcher, poll, acts>>

NoPoll == [ at |-> "idle" ]

NoFailures == [ attempts |-> 0, waiting |-> FALSE ]

NewConnection(id) == [ id |-> id, status |-> "connected", seen |-> 0, validity |-> 0, numbered |-> 0 ]

MailboxInit(mails, connected, budget) ==
  /\ box = <<>> /\ coming = mails /\ gen = 1
  /\ login = "works" /\ conn = [ NewConnection(1) EXCEPT !.status = IF connected THEN @ ELSE "none" ]
  /\ backoff = NoFailures /\ watcher = "off"
  /\ poll = [ p \in Pollers |-> NoPoll ]
  /\ acts = budget

----------------------------------------------------------------------------
(* The mailbox itself.                                                      *)

Arrives(m) ==
  /\ m \in coming
  /\ coming' = coming \ {m}
  /\ box' = Append(box, m)
  /\ UNCHANGED <<gen, login, conn, backoff, watcher, poll, acts>>

\* The server numbers the mailbox anew, after its owner cleared old mail away.
Renumbers(k) ==
  /\ gen < MaxGenerations
  /\ gen' = gen + 1
  /\ box' = SubSeq(box, k + 1, Len(box))
  /\ UNCHANGED <<coming, login, conn, backoff, watcher, poll, acts>>

\* Mail without a Message-ID goes by its UID.
MsgId(m, uid) == IF Mail[m].hasId THEN <<"id", m>> ELSE <<"imap-uid", uid>>

----------------------------------------------------------------------------
(* A poll.                                                                  *)

\* Ingestible, and for the timer not revoked: the watcher does not ask.
Connected == conn.status # "none"

Begins(p, kind) ==
  /\ poll[p] = NoPoll
  /\ poll' = [ poll EXCEPT ![p] =
       [ at |-> "read", kind |-> kind, id |-> conn.id, seen |-> conn.seen,
         validity |-> conn.validity, numbered |-> conn.numbered ] ]

TickBegins(p) ==
  /\ worker = "up" /\ Connected /\ conn.status # "revoked"
  /\ Begins(p, "tick")
  /\ UNCHANGED <<box, coming, gen, login, conn, backoff, watcher, acts, filingVars>>

NudgeBegins(p) ==
  /\ Running /\ Connected /\ watcher = "on" /\ box # <<>>
  /\ Begins(p, "nudge")
  /\ UNCHANGED <<box, coming, gen, login, conn, backoff, watcher, acts, filingVars>>

\* The failures the worker remembers are of the row with this id.
Mine(p) == conn.id = poll[p].id /\ Connected

\* Mutation of InBackoff: the last attempt counts as given up.
InBackoffEarly(p) == Mine(p) /\ (backoff.attempts >= RollOff - 1 \/ backoff.waiting)

InBackoff(p) == Mine(p) /\ (backoff.attempts >= RollOff \/ backoff.waiting)

\* A poll that threw: the timer counts the failure, the watcher logs it.
Threw(p, reason) ==
  IF poll[p].kind = "nudge"
  THEN poll' = [ poll EXCEPT ![p] = NoPoll ] /\ UNCHANGED backoff
  ELSE /\ poll' = [ poll EXCEPT ![p] = [ at |-> "failed", kind |-> "tick", id |-> @.id, reason |-> reason ] ]
       /\ backoff' = IF Mine(p)
                     THEN [ attempts |-> AtMost(RollOff, backoff.attempts + 1), waiting |-> TRUE ]
                     ELSE backoff

ToSync(p) ==
  poll' = [ poll EXCEPT ![p] =
    IF @.kind = "tick" THEN [ at |-> "sync", kind |-> "tick", id |-> @.id ] ELSE NoPoll ]

\* A mark of another numbering is abandoned.
Mark(p) == IF poll[p].validity # 0 /\ poll[p].validity # gen THEN 0 ELSE poll[p].seen

\* Everything up to the mark has been looked at in this numbering.
Whole(p) == Mark(p) = 0 \/ poll[p].numbered = gen

Batch(p) ==
  LET mark == Mark(p)
      last == AtMost(mark + MaxPerPoll, Len(box))
  IN [ n \in 1..(IF last > mark THEN last - mark ELSE 0) |-> [ uid |-> mark + n, mail |-> box[mark + n] ] ]

Fetches(p) ==
  /\ poll[p].at = "read" /\ ~(poll[p].kind = "tick" /\ InBackoff(p)) /\ login = "works"
  /\ poll' = [ poll EXCEPT ![p] =
       [ at |-> "filing", kind |-> @.kind, id |-> @.id, fetched |-> gen, whole |-> Whole(p), batch |-> Batch(p), n |-> 1,
         committed |-> 0, blocked |-> FALSE, plan |-> NoPlan ] ]
  /\ UNCHANGED <<box, coming, gen, login, conn, backoff, watcher, acts, filingVars>>

IsLeftAlone(p) ==
  /\ poll[p].at = "read" /\ poll[p].kind = "tick" /\ InBackoff(p)
  /\ ToSync(p)
  /\ UNCHANGED <<box, coming, gen, login, conn, backoff, watcher, acts, filingVars>>

\* A withdrawn grant pauses the row; anything else is reported by the timer.
FetchFails(p) ==
  /\ poll[p].at = "read" /\ ~(poll[p].kind = "tick" /\ InBackoff(p))
  /\ \/ login # "works" /\ UNCHANGED faults
     \/ login = "works" /\ Fault
  /\ conn' = IF login = "withdrawn" /\ Mine(p) THEN [ conn EXCEPT !.status = "revoked" ] ELSE conn
  /\ Threw(p, login)
  /\ UNCHANGED <<box, coming, gen, login, watcher, acts, worker, candidates>>

----------------------------------------------------------------------------
(* Filing the batch, message by message.                                    *)

Current(p) == poll[p].batch[poll[p].n]

AtMessage(p) == poll[p].at = "filing" /\ poll[p].n <= Len(poll[p].batch)

\* Mutation of Handled: the watermark moves over a message that failed.
HandledRegardless(p) ==
  poll' = [ poll EXCEPT ![p].n = @ + 1, ![p].plan = NoPlan, ![p].committed = Current(p).uid ]

\* A message that was handled moves the watermark unless one before it failed.
Handled(p) ==
  poll' = [ poll EXCEPT ![p].n = @ + 1, ![p].plan = NoPlan,
                        ![p].committed = IF poll[p].blocked THEN @ ELSE Current(p).uid ]

LooksUp(p) ==
  /\ AtMessage(p) /\ poll[p].plan = NoPlan
  /\ LET m == Current(p).mail IN
     IF ~Ingestible(Mail[m]) THEN Handled(p)
     ELSE \E plan \in Plans(Mail[m], MsgId(m, Current(p).uid)) :
            IF plan = NoPlan THEN Handled(p) ELSE poll' = [ poll EXCEPT ![p].plan = plan ]
  /\ UNCHANGED <<box, coming, gen, login, conn, backoff, watcher, acts, filingVars>>

FilesOne(p) ==
  /\ AtMessage(p) /\ poll[p].plan # NoPlan
  /\ LET m == Current(p).mail IN Files(m, Mail[m], MsgId(m, Current(p).uid), poll[p].plan)
  /\ Handled(p)
  /\ UNCHANGED <<box, coming, gen, login, conn, backoff, watcher, acts, worker, faults>>

\* The write was refused, or the database did not answer.
FilingFails(p) ==
  /\ AtMessage(p) /\ poll[p].plan # NoPlan
  /\ \/ Refused(poll[p].plan, MsgId(Current(p).mail, Current(p).uid)) /\ UNCHANGED faults
     \/ Fault
  /\ poll' = [ poll EXCEPT ![p].n = @ + 1, ![p].plan = NoPlan, ![p].blocked = TRUE ]
  /\ UNCHANGED <<box, coming, gen, login, conn, backoff, watcher, acts, worker, candidates>>

Marked(row, p) ==
  LET moved == poll[p].committed # 0 IN
  [ row EXCEPT !.status = "connected", !.validity = poll[p].fetched,
               !.seen = IF moved THEN poll[p].committed ELSE @,
               !.numbered = IF ~moved THEN @ ELSE IF poll[p].whole THEN poll[p].fetched ELSE 0 ]

\* The row is written whatever happened; a deleted row makes the write throw.
Commits(p) ==
  /\ poll[p].at = "filing" /\ poll[p].n > Len(poll[p].batch)
  /\ conn' = IF Mine(p) THEN Marked(conn, p) ELSE conn
  /\ IF poll[p].blocked \/ ~Mine(p)
     THEN Threw(p, "works")
     ELSE ToSync(p) /\ backoff' = IF poll[p].kind = "tick" THEN NoFailures ELSE backoff
  /\ UNCHANGED <<box, coming, gen, login, watcher, acts, filingVars>>

\* The row cannot be written: what was filed stays, and the mark where it was.
CommitFails(p) ==
  /\ poll[p].at = "filing" /\ poll[p].n > Len(poll[p].batch) /\ Fault
  /\ Threw(p, "works")
  /\ UNCHANGED <<box, coming, gen, login, conn, watcher, acts, worker, candidates>>

\* A revoked sign-in has paused the row already; that the row cannot be written
\* is passed over.
Reports(p) ==
  /\ poll[p].at = "failed"
  /\ \/ /\ conn' = IF Mine(p) /\ poll[p].reason # "withdrawn" THEN [ conn EXCEPT !.status = "error" ] ELSE conn
        /\ UNCHANGED faults
     \/ poll[p].reason # "withdrawn" /\ Fault /\ UNCHANGED conn
  /\ ToSync(p)
  /\ UNCHANGED <<box, coming, gen, login, backoff, watcher, acts, worker, candidates>>

\* After a tick the watchers are brought in line with the rows, also by a tick
\* that a shutdown found under way.  One that gave up stays in the table and is
\* not started again.
SyncsWatchers(p) ==
  /\ poll[p].at = "sync"
  /\ watcher' = IF conn.status \in {"none", "revoked"} THEN "off"
                ELSE IF watcher = "off" THEN "on" ELSE watcher
  /\ poll' = [ poll EXCEPT ![p] = NoPoll ]
  /\ UNCHANGED <<box, coming, gen, login, conn, backoff, acts, filingVars>>

Polls(p) ==
  /\ Running
  /\ \/ Fetches(p) \/ IsLeftAlone(p) \/ FetchFails(p)
     \/ LooksUp(p) \/ FilesOne(p) \/ FilingFails(p)
     \/ Commits(p) \/ CommitFails(p) \/ Reports(p) \/ SyncsWatchers(p)

BackoffEnds ==
  /\ Running /\ backoff.waiting
  /\ backoff' = [ backoff EXCEPT !.waiting = FALSE ]
  /\ UNCHANGED <<box, coming, gen, login, conn, watcher, poll, acts, filingVars>>

WatcherGivesUp ==
  /\ Running /\ watcher = "on" /\ login # "works"
  /\ watcher' = "dead"
  /\ UNCHANGED <<box, coming, gen, login, conn, backoff, poll, acts, filingVars>>

----------------------------------------------------------------------------
(* People: the settings page, and whoever owns the mailbox.                 *)

Person == acts > 0 /\ acts' = acts - 1 /\ UNCHANGED <<box, coming, gen, watcher, poll, filingVars>>

Pauses ==
  /\ Person /\ conn.status \in {"connected", "error"}
  /\ conn' = [ conn EXCEPT !.status = "revoked" ]
  /\ UNCHANGED <<login, backoff>>

Resumes ==
  /\ Person /\ conn.status = "revoked"
  /\ conn' = [ conn EXCEPT !.status = "connected" ]
  /\ UNCHANGED <<login, backoff>>

PasswordChanges(how) ==
  /\ Person /\ login = "works"
  /\ login' = how
  /\ UNCHANGED <<conn, backoff>>

\* Saving a password, or signing in again, is tried against the server first.
Reconnects ==
  /\ Person /\ Connected
  /\ login' = "works"
  /\ conn' = [ conn EXCEPT !.status = "connected" ]
  /\ UNCHANGED backoff

Disconnects ==
  /\ Person /\ Connected
  /\ conn' = [ conn EXCEPT !.status = "none" ]
  /\ UNCHANGED <<login, backoff>>

\* A mailbox connected again is a new row: no watermark, no remembered failures.
Connects ==
  /\ Person /\ ~Connected
  /\ conn' = NewConnection(conn.id + 1)
  /\ login' = "works" /\ backoff' = NoFailures

People ==
  \/ Pauses \/ Resumes \/ Reconnects \/ Disconnects \/ Connects
  \/ \E how \in {"refused", "withdrawn"} : PasswordChanges(how)

\* Whatever the process held is gone with it.
MailboxForgets ==
  /\ poll' = [ p \in Pollers |-> NoPoll ]
  /\ backoff' = NoFailures /\ watcher' = "off"
  /\ UNCHANGED <<box, coming, gen, login, conn, acts>>
=============================================================================
