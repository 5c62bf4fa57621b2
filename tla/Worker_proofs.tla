---------------------------- MODULE Worker_proofs ----------------------------
(***************************************************************************)
(* Theorems about Worker, for any set of mails, polls, forwarding servers  *)
(* and calls.  They rest on one invariant, Inv: types, that a row is found *)
(* under a Message-ID only by a mail it holds, that every poll under way   *)
(* has left no application behind it, that what was filed for a sending    *)
(* server is in a row, and what a leg's phase says of the table of calls.  *)
(***************************************************************************)
EXTENDS Worker, TLAPS

\* A row with the Message-ID of a mail holds that mail.  Numbers of a mailbox
\* name no mail, nor does the mark of a row that came from none.
Named ==
  \A r \in DOMAIN candidates :
    candidates[r].msgId[1] \in {"id", "fwd"} => candidates[r].msgId[2] \in candidates[r].from

\* Every application at the first n places of the mailbox is in a row.
Passed(n) == n <= Len(box) /\ \A uid \in 1..n : DealtWith(box[uid])

\* The batch of a poll is a stretch of the mailbox, and what the poll has
\* handled of it, or may commit, has been passed.
Climbs(pl) ==
  /\ \A i \in DOMAIN pl.batch : pl.batch[i].uid <= Len(box) /\ pl.batch[i].mail = box[pl.batch[i].uid]
  /\ \A i, j \in DOMAIN pl.batch : j = i + 1 => pl.batch[j].uid = pl.batch[i].uid + 1
  /\ (~pl.blocked /\ pl.n \in DOMAIN pl.batch) => Passed(pl.batch[pl.n].uid - 1)
  /\ pl.committed # 0 => Passed(pl.committed)

\* What a poll read, or fetched, in the present numbering is to be relied on.
OnTrack(pl) ==
  /\ pl.at = "read" => pl.numbered <= gen /\ (pl.numbered = gen => Passed(pl.seen))
  /\ pl.at = "filing" => pl.fetched <= gen /\ ((pl.fetched = gen /\ pl.whole) => Climbs(pl))

Behind ==
  /\ conn.numbered <= gen
  /\ conn.numbered = gen => Passed(conn.seen)
  /\ \A p \in Pollers : OnTrack(poll[p])

\* What the receiver is about to accept has been filed, and what was accepted.
Filed ==
  \A m \in Forwarded :
    (session[m].at = "filed" \/ told[m] = "accepted") => (Ingestible(Unwrapped(Mail[m])) => Held(m))

\* A call's first stream is in the table while it talks, and after it until it
\* is written, unless its cleanup ran early.
LegFits(u) ==
  LET first == legs[u][1] IN
  /\ first.phase = "talking" => u \in calls /\ Len(legs[u]) = 1
  /\ first.phase = "ending" =>
       \/ first.endedBy = "agent"
       \/ first.endedBy = "socket" /\ (first.errored \/ first.closed)
  /\ (first.phase = "ending" /\ Len(legs[u]) = 1 /\ u \notin calls) => CleanedUpEarly(first)

LegsFit == \A u \in Calls : legs[u] # <<>> => LegFits(u)

Inv == TypeOK /\ Named /\ Behind /\ Filed /\ LegsFit

----------------------------------------------------------------------------
(* Rows.                                                                    *)

LEMMA MailFields ==
  ASSUME NEW m \in Mails
  PROVE  /\ Mail[m] \in MailType
         /\ Unwrapped(Mail[m]) \in MailType
  BY MailAssumption DEF Unwrapped, MailType

LEMMA JobIsOne ==
  ASSUME NEW mail \in MailType
  PROVE  JobFor(mail, AutoRoute) \in OpenJobs \union {DefaultJob}
<1>1. Matched(mail) # NoJob => Matched(mail) \in OpenJobs
  BY DEF Matched
<1> QED
  BY <1>1 DEF JobFor

LEMMA MsgIds ==
  ASSUME NEW m \in Mails, NEW uid \in Nat
  PROVE  /\ MsgId(m, uid) \in Ids /\ MsgId(m, uid) # NoId
         /\ MsgId(m, uid)[1] \in {"id", "fwd"} => MsgId(m, uid)[2] = m
         /\ Mail[m].hasId => MsgId(m, uid)[1] = "id"
  BY DEF MsgId, Ids, NoId

LEMMA ForwardedIds ==
  ASSUME NEW m \in Mails
  PROVE  /\ ForwardedId(m) \in Ids /\ ForwardedId(m) # NoId
         /\ ForwardedId(m)[1] \in {"id", "fwd"} /\ ForwardedId(m)[2] = m
  BY DEF ForwardedId, Ids, NoId

LEMMA PlanCases ==
  ASSUME NEW plan \in PlanType
  PROVE  /\ plan = NoPlan => plan.do = "nothing"
         /\ plan # NoPlan =>
              \/ plan.do = "create" /\ plan.claims = TRUE
              \/ plan.do = "merge" /\ plan.row \in Nat \ {0} /\ plan.claims \in BOOLEAN
<1>1. NoPlan.do = "nothing"
  BY DEF NoPlan
<1>2. plan = NoPlan \/ plan \in [ do : {"create"}, row : {0}, claims : {TRUE} ]
                    \/ plan \in [ do : {"merge"}, row : Nat \ {0}, claims : BOOLEAN ]
  BY DEF PlanType
<1> QED
  BY <1>1, <1>2

\* What may be planned: nothing if the mail's row is found, or else a row that
\* is there, or a new one.
LEMMA PlansMade ==
  ASSUME FilingType, NEW mail \in MailType, NEW id, NEW plan \in Plans(mail, id)
  PROVE  /\ plan \in PlanType
         /\ plan.do = "merge" => plan.row \in DOMAIN candidates
         /\ plan = NoPlan => Seen(id)
<1>1. \A r \in DOMAIN candidates : r \in Nat \ {0}
  BY DEF FilingType
<1>2. CASE Seen(id)
  <2>1. plan = NoPlan
    BY <1>2 DEF Plans
  <2> QED
    BY <1>2, <2>1, PlanCases DEF PlanType
<1>3. CASE ~Seen(id) /\ RowsOf(mail, JobFor(mail, AutoRoute)) # {}
  <2>1. PICK r \in RowsOf(mail, JobFor(mail, AutoRoute)) :
          plan = [ do |-> "merge", row |-> r, claims |-> candidates[r].msgId = NoId ]
    BY <1>3 DEF Plans
  <2>2. r \in DOMAIN candidates
    BY DEF RowsOf
  <2> QED
    BY <1>1, <2>1, <2>2 DEF PlanType, NoPlan
<1>4. CASE ~Seen(id) /\ RowsOf(mail, JobFor(mail, AutoRoute)) = {}
  <2>1. plan = [ do |-> "create", row |-> 0, claims |-> TRUE ]
    BY <1>4 DEF Plans
  <2>2. plan \in [ do : {"create"}, row : {0}, claims : {TRUE} ]
    BY <2>1
  <2>3. plan.do = "create" /\ plan \in PlanType
    BY <2>1, <2>2 DEF PlanType
  <2> QED
    BY <2>3, PlanCases
<1> QED
  BY <1>2, <1>3, <1>4

\* The rows: they have their type, no two one Message-ID, and are named right.
RowsOk == FilingType /\ IdsAreUnique /\ Named

\* Rows only become more and hold more.
Grown ==
  /\ DOMAIN candidates \subseteq (DOMAIN candidates)'
  /\ \A m \in Mails : Held(m) => Held(m)'

LEMMA SeenIsHeld ==
  ASSUME RowsOk, NEW m \in Mails, NEW id, Seen(id), id[1] \in {"id", "fwd"}, id[2] = m
  PROVE  Held(m)
  BY DEF RowsOk, Seen, Named, Held

LEMMA Stays ==
  ASSUME UNCHANGED candidates
  PROVE  /\ Grown
         /\ IdsAreUnique => IdsAreUnique'
         /\ Named => Named'
  BY DEF Grown, Held, IdsAreUnique, Named

LEMMA RowAppended ==
  ASSUME RowsOk, NEW row \in RowType, candidates' = Append(candidates, row),
         row.msgId = NoId \/ ~Seen(row.msgId),
         row.msgId[1] \in {"id", "fwd"} => row.msgId[2] \in row.from
  PROVE  /\ candidates' \in Seq(RowType) /\ IdsAreUnique' /\ Named' /\ Grown
         /\ \A m \in row.from : Held(m)'
<1> DEFINE n == Len(candidates)
<1>1. candidates \in Seq(RowType) /\ n \in Nat /\ DOMAIN candidates = 1 .. n
  BY DEF RowsOk, FilingType
<1>2. /\ candidates' \in Seq(RowType) /\ DOMAIN candidates' = 1 .. (n + 1)
      /\ \A r \in 1 .. n : candidates'[r] = candidates[r]
      /\ candidates'[n + 1] = row
  BY <1>1
<1> HIDE DEF n
<1>3. \A r \in DOMAIN candidates' : r \in DOMAIN candidates \/ r = n + 1
  BY <1>1, <1>2
<1>4. IdsAreUnique'
  BY <1>1, <1>2, <1>3 DEF IdsAreUnique, RowsOk, Seen
<1>5. Named'
  BY <1>1, <1>2, <1>3 DEF Named, RowsOk
<1>6. Grown
  BY <1>1, <1>2 DEF Grown, Held
<1>7. \A m \in row.from : Held(m)'
  BY <1>1, <1>2 DEF Held
<1> QED
  BY <1>2, <1>4, <1>5, <1>6, <1>7

LEMMA RowMerged ==
  ASSUME RowsOk, NEW r \in DOMAIN candidates, NEW row \in RowType, candidates' = [candidates EXCEPT ![r] = row],
         row.msgId = candidates[r].msgId \/ ~Seen(row.msgId),
         row.msgId[1] \in {"id", "fwd"} => row.msgId[2] \in row.from,
         candidates[r].from \subseteq row.from
  PROVE  /\ candidates' \in Seq(RowType) /\ IdsAreUnique' /\ Named' /\ Grown
         /\ \A m \in row.from : Held(m)'
<1>1. candidates \in Seq(RowType)
  BY DEF RowsOk, FilingType
<1>2. /\ candidates' \in Seq(RowType) /\ DOMAIN candidates' = DOMAIN candidates
      /\ candidates'[r] = row
      /\ \A q \in DOMAIN candidates : q # r => candidates'[q] = candidates[q]
  BY <1>1
<1>4. IdsAreUnique'
  BY <1>1, <1>2 DEF IdsAreUnique, RowsOk, Seen
<1>5. Named'
  BY <1>1, <1>2 DEF Named, RowsOk
<1>6. Grown
  BY <1>1, <1>2 DEF Grown, Held
<1>7. \A m \in row.from : Held(m)'
  BY <1>1, <1>2 DEF Held
<1> QED
  BY <1>2, <1>4, <1>5, <1>6, <1>7

\* A mail that is filed is in a row, and no row is lost by it.
LEMMA FilesHolds ==
  ASSUME RowsOk, NEW m \in Mails, NEW mail \in MailType, NEW id \in Ids, NEW plan \in PlanType,
         id # NoId, id[1] \in {"id", "fwd"} => id[2] = m,
         plan # NoPlan, plan.do = "merge" => plan.row \in DOMAIN candidates,
         Files(m, mail, id, plan)
  PROVE  /\ candidates' \in Seq(RowType) /\ IdsAreUnique' /\ Named' /\ Grown
         /\ Held(m)'
<1>1. CASE plan.do = "create"
  <2> DEFINE row == NewRow(m, mail, id)
  <2>1. candidates' = Append(candidates, row) /\ ~Seen(id)
    BY <1>1, PlanCases DEF Files, Refused
  <2>2. mail.from \in STRING /\ JobFor(mail, AutoRoute) \in OpenJobs \union {DefaultJob}
    BY JobIsOne DEF MailType
  <2>3. row \in RowType /\ row.msgId = id /\ row.from = {m}
    BY <2>2 DEF NewRow, RowType
  <2> HIDE DEF row
  <2> QED
    BY <2>1, <2>3, RowAppended
<1>2. CASE plan.do = "merge"
  <2> DEFINE r == plan.row
             old == candidates[r]
             row == [ old EXCEPT !.from = @ \union {m}, !.msgId = IF plan.claims THEN id ELSE @ ]
  <2>1. r \in DOMAIN candidates /\ old \in RowType
    BY <1>2 DEF RowsOk, FilingType
  <2>2. /\ row \in RowType /\ row.from = old.from \union {m}
        /\ row.msgId = IF plan.claims THEN id ELSE old.msgId
    BY <2>1 DEF RowType
  <2>3. candidates' = [candidates EXCEPT ![r] = row] /\ (plan.claims => ~Seen(id))
    BY <1>2, <2>1 DEF Files, Refused
  <2>4. row.msgId = old.msgId \/ ~Seen(row.msgId)
    BY <2>2, <2>3
  <2>5. old.msgId[1] \in {"id", "fwd"} => old.msgId[2] \in old.from
    BY <2>1 DEF RowsOk, Named
  <2>6. row.msgId[1] \in {"id", "fwd"} => row.msgId[2] \in row.from
    BY <2>2, <2>5
  <2> HIDE DEF row, r, old
  <2>7. candidates[r].msgId = old.msgId /\ candidates[r].from = old.from
    BY DEF old
  <2> QED
    BY <2>1, <2>2, <2>3, <2>4, <2>6, <2>7, RowMerged
<1> QED
  BY <1>1, <1>2, PlanCases

----------------------------------------------------------------------------
(* A poll.                                                                  *)

BoxOk == box \in Seq(Mails) /\ coming \subseteq Mails /\ gen \in 1 .. MaxGenerations

ConnOk == conn \in ConnType /\ conn.numbered <= gen /\ (conn.numbered = gen => Passed(conn.seen))

MemoryOk ==
  /\ login \in {"works", "refused", "withdrawn"} /\ backoff \in [ attempts : 0 .. RollOff, waiting : BOOLEAN ]
  /\ watcher \in {"off", "on", "dead"} /\ acts \in Nat

Sound(pl) == pl \in PollType /\ Fits(pl) /\ OnTrack(pl)

PollsOk == poll \in [Pollers -> PollType] /\ \A p \in Pollers : Sound(poll[p])

MailOk == BoxOk /\ ConnOk /\ MemoryOk /\ PollsOk

\* The numbering goes on: the mailbox is as it was, or longer, and so are the rows.
GoesOn ==
  /\ gen' = gen /\ Len(box) <= Len(box)'
  /\ \A uid \in DOMAIN box : box'[uid] = box[uid]
  /\ Grown

LEMMA PollFields ==
  ASSUME NEW pl \in PollType
  PROVE  /\ pl.at = "read" => pl \in PollRead
         /\ pl.at = "filing" => pl \in PollFiling
         /\ pl.at = "failed" => pl \in PollFailed
         /\ pl.at = "sync" => pl \in PollSync
  BY DEF PollType, PollIdle, PollRead, PollFiling, PollFailed, PollSync

LEMMA Elements ==
  ASSUME NEW S, NEW s \in Seq(S)
  PROVE  Len(s) \in Nat /\ DOMAIN s = 1 .. Len(s) /\ \A i \in DOMAIN s : s[i] \in S
  OBVIOUS

LEMMA IsSequence ==
  ASSUME NEW S, NEW k \in Nat, NEW s, s = [ i \in 1 .. k |-> s[i] ], \A i \in 1 .. k : s[i] \in S
  PROVE  s \in Seq(S)
<1>1. s \in [ 1 .. k -> S ]
  OBVIOUS
<1> QED
  BY <1>1

LEMMA FilingFields ==
  ASSUME NEW pl \in PollFiling
  PROVE  /\ pl.at = "filing" /\ pl.kind \in Kinds /\ pl.id \in Nat /\ pl.fetched \in 1 .. MaxGenerations
         /\ pl.whole \in BOOLEAN /\ pl.n \in Nat \ {0} /\ pl.committed \in Nat
         /\ pl.blocked \in BOOLEAN /\ pl.plan \in PlanType
         /\ Len(pl.batch) \in Nat /\ DOMAIN pl.batch = 1 .. Len(pl.batch)
         /\ \A i \in DOMAIN pl.batch : pl.batch[i].uid \in Nat \ {0} /\ pl.batch[i].mail \in Mails
<1>1. pl.batch \in Seq([ uid : Nat \ {0}, mail : Mails ])
  BY DEF PollFiling
<1>2. \A i \in DOMAIN pl.batch : pl.batch[i] \in [ uid : Nat \ {0}, mail : Mails ]
  BY <1>1, Elements
<1>3. \A i \in DOMAIN pl.batch : pl.batch[i].uid \in Nat \ {0} /\ pl.batch[i].mail \in Mails
  BY <1>2
<1>4. Len(pl.batch) \in Nat /\ DOMAIN pl.batch = 1 .. Len(pl.batch)
  BY <1>1
<1> QED
  BY <1>3, <1>4 DEF PollFiling

LEMMA StillPassed ==
  ASSUME BoxOk, GoesOn, NEW n \in Nat, Passed(n)
  PROVE  Passed(n)'
<1>1. Len(box) \in Nat /\ DOMAIN box = 1 .. Len(box) /\ \A uid \in DOMAIN box : box[uid] \in Mails
  BY DEF BoxOk
<1>2. \A uid \in 1 .. n : uid \in DOMAIN box
  BY <1>1 DEF Passed
<1>3. \A m \in Mails : DealtWith(m) => DealtWith(m)'
  BY DEF DealtWith, GoesOn, Grown
<1>4. n <= Len(box)'
  BY <1>1 DEF Passed, GoesOn
<1> QED
  BY <1>1, <1>2, <1>3, <1>4 DEF Passed, GoesOn

LEMMA StillClimbs ==
  ASSUME BoxOk, GoesOn, NEW pl \in PollFiling, Climbs(pl)
  PROVE  Climbs(pl)'
<1>1. Len(box) \in Nat /\ DOMAIN box = 1 .. Len(box) /\ Len(box)' \in Int
  BY DEF BoxOk, GoesOn
<1>2. /\ pl.committed \in Nat
      /\ \A i \in DOMAIN pl.batch : pl.batch[i].uid \in Nat \ {0}
  BY FilingFields
<1>3. \A i \in DOMAIN pl.batch : pl.batch[i].uid <= Len(box)' /\ pl.batch[i].mail = box'[pl.batch[i].uid]
  BY <1>1, <1>2 DEF Climbs, GoesOn
<1>4. (~pl.blocked /\ pl.n \in DOMAIN pl.batch) => Passed(pl.batch[pl.n].uid - 1)'
  <2>1. SUFFICES ASSUME ~pl.blocked, pl.n \in DOMAIN pl.batch PROVE Passed(pl.batch[pl.n].uid - 1)'
    OBVIOUS
  <2> DEFINE k == pl.batch[pl.n].uid - 1
  <2>2. k \in Nat /\ Passed(k)
    BY <1>2, <2>1 DEF Climbs
  <2>3. k' = k
    OBVIOUS
  <2> HIDE DEF k
  <2>4. Passed(k)'
    BY <2>2, <2>3, StillPassed
  <2> QED
    BY <2>4 DEF k
<1>5. pl.committed # 0 => Passed(pl.committed)'
  BY <1>2, StillPassed DEF Climbs
<1> QED
  BY <1>3, <1>4, <1>5 DEF Climbs

LEMMA StillSound ==
  ASSUME BoxOk, GoesOn, NEW pl, Sound(pl)
  PROVE  Sound(pl)'
<1>1. pl \in PollType /\ Fits(pl)'
  BY DEF Sound, Fits, GoesOn, Grown
<1>2. pl.at = "read" => pl.numbered <= gen' /\ (pl.numbered = gen' => Passed(pl.seen)')
  <2>1. CASE pl.at = "read"
    <3>1. pl.seen \in Nat
      BY <1>1, <2>1, PollFields DEF PollRead
    <3> QED
      BY <2>1, <3>1, StillPassed DEF Sound, OnTrack, GoesOn
  <2> QED
    BY <2>1
<1>3. pl.at = "filing" => pl.fetched <= gen' /\ ((pl.fetched = gen' /\ pl.whole) => Climbs(pl)')
  <2>1. CASE pl.at = "filing"
    <3>1. pl \in PollFiling
      BY <1>1, <2>1, PollFields
    <3> QED
      BY <2>1, <3>1, StillClimbs DEF Sound, OnTrack, GoesOn
  <2> QED
    BY <2>1
<1> QED
  BY <1>1, <1>2, <1>3 DEF Sound, OnTrack

\* A poll that neither reads nor files promises nothing.
LEMMA AtRest ==
  ASSUME NEW pl \in PollType, pl.at \notin {"read", "filing"}
  PROVE  Sound(pl) /\ Sound(pl)'
  BY DEF Sound, Fits, OnTrack

LEMMA StillBoxOk ==
  ASSUME BoxOk, UNCHANGED <<box, coming, gen>>, Grown
  PROVE  BoxOk' /\ GoesOn
  BY DEF BoxOk, GoesOn

LEMMA StillConnOk ==
  ASSUME BoxOk, GoesOn, ConnOk, UNCHANGED conn
  PROVE  ConnOk'
<1>1. conn.seen \in Nat
  BY DEF ConnOk, ConnType
<1>2. conn.numbered = gen => Passed(conn.seen)'
  <2> DEFINE n == conn.seen
  <2>1. n' = n
    OBVIOUS
  <2> HIDE DEF n
  <2>2. n \in Nat /\ Passed(n) => Passed(n)'
    BY <2>1, StillPassed
  <2> QED
    BY <1>1, <2>2 DEF n, ConnOk
<1> QED
  BY <1>2 DEF ConnOk, GoesOn

LEMMA OtherPolls ==
  ASSUME BoxOk, GoesOn, PollsOk, NEW p \in Pollers, NEW pl, Sound(pl)', pl \in PollType,
         poll' = [poll EXCEPT ![p] = pl]
  PROVE  PollsOk'
<1>1. poll' \in [Pollers -> PollType]
  BY DEF PollsOk
<1>2. ASSUME NEW q \in Pollers, NEW new, new = poll'[q] PROVE Sound(new)'
  <2>1. CASE q = p
    <3>1. new = pl
      BY <1>2, <2>1 DEF PollsOk
    <3> QED
      BY <3>1
  <2>2. CASE q # p
    <3>1. new = poll[q]
      BY <1>2, <2>2 DEF PollsOk
    <3>2. Sound(new)
      BY <3>1 DEF PollsOk
    <3> QED
      BY <3>2, StillSound
  <2> QED
    BY <2>1, <2>2
<1>3. ASSUME NEW q \in Pollers PROVE Sound(poll[q])'
  <2>1. PICK new : new = poll'[q]
    OBVIOUS
  <2>2. Sound(new)'
    BY <1>2, <2>1
  <2> QED
    BY <2>1, <2>2 DEF Sound, Fits, OnTrack, Climbs, Passed
<1> QED
  BY <1>1, <1>3 DEF PollsOk

LEMMA StillPolls ==
  ASSUME BoxOk, GoesOn, PollsOk, UNCHANGED poll
  PROVE  PollsOk'
<1>1. ASSUME NEW q \in Pollers PROVE Sound(poll[q])'
  <2>1. PICK pl : pl = poll[q]
    OBVIOUS
  <2>2. Sound(pl)'
    BY <2>1, StillSound DEF PollsOk
  <2>3. poll'[q] = pl
    BY <2>1
  <2> QED
    BY <2>2, <2>3 DEF Sound, Fits, OnTrack, Climbs, Passed
<1> QED
  BY <1>1 DEF PollsOk

----------------------------------------------------------------------------
(* What a poll does.                                                        *)

LEMMA RowsStay ==
  ASSUME RowsOk, UNCHANGED <<worker, candidates>>, faults' \in Nat
  PROVE  RowsOk' /\ Grown
<1>1. FilingType'
  BY DEF RowsOk, FilingType
<1> QED
  BY <1>1, Stays DEF RowsOk

LEMMA FaultsLeft ==
  ASSUME RowsOk, UNCHANGED faults \/ Fault
  PROVE  faults' \in Nat
  BY DEF RowsOk, FilingType, Fault

LEMMA PollMoves ==
  ASSUME MailOk, UNCHANGED <<box, coming, gen>>, Grown, ConnOk', MemoryOk',
         NEW p \in Pollers, NEW pl \in PollType, poll' = [poll EXCEPT ![p] = pl], Sound(pl)'
  PROVE  MailOk'
<1>1. BoxOk' /\ GoesOn
  BY StillBoxOk DEF MailOk
<1>2. PollsOk'
  BY <1>1, OtherPolls DEF MailOk
<1> QED
  BY <1>1, <1>2 DEF MailOk

\* After a poll the timer goes on to the watchers, the watcher to nothing.
LEMMA Synced ==
  ASSUME NEW p \in Pollers, poll \in [Pollers -> PollType], poll[p].kind \in Kinds, poll[p].id \in Nat, ToSync(p)
  PROVE  \E pl \in PollType : pl.at \notin {"read", "filing"} /\ poll' = [poll EXCEPT ![p] = pl]
<1> DEFINE pl == IF poll[p].kind = "tick" THEN [ at |-> "sync", kind |-> "tick", id |-> poll[p].id ] ELSE NoPoll
<1>1. poll' = [poll EXCEPT ![p] = pl]
  BY DEF ToSync
<1>2. pl \in PollType /\ pl.at \notin {"read", "filing"}
  BY DEF PollType, PollSync, PollIdle, NoPoll
<1> QED
  BY <1>1, <1>2

LEMMA Thrown ==
  ASSUME NEW p \in Pollers, poll \in [Pollers -> PollType], poll[p].kind \in Kinds, poll[p].id \in Nat,
         NEW reason \in {"works", "refused", "withdrawn"}, Threw(p, reason),
         backoff \in [ attempts : 0 .. RollOff, waiting : BOOLEAN ]
  PROVE  /\ \E pl \in PollType : pl.at \notin {"read", "filing"} /\ poll' = [poll EXCEPT ![p] = pl]
         /\ backoff' \in [ attempts : 0 .. RollOff, waiting : BOOLEAN ]
<1> DEFINE pl == IF poll[p].kind = "nudge" THEN NoPoll
                 ELSE [ at |-> "failed", kind |-> "tick", id |-> poll[p].id, reason |-> reason ]
<1>1. poll' = [poll EXCEPT ![p] = pl]
  BY DEF Threw
<1>2. pl \in PollType /\ pl.at \notin {"read", "filing"}
  BY DEF PollType, PollFailed, PollIdle, NoPoll
<1>3. backoff' \in [ attempts : 0 .. RollOff, waiting : BOOLEAN ]
  <2>1. backoff.attempts \in 0 .. RollOff /\ RollOff \in Nat
    BY PollAssumption
  <2>2. AtMost(RollOff, backoff.attempts + 1) \in 0 .. RollOff
    BY <2>1 DEF AtMost
  <2>3. \/ backoff' = backoff
        \/ backoff' = [ attempts |-> AtMost(RollOff, backoff.attempts + 1), waiting |-> TRUE ]
    BY DEF Threw
  <2>4. [ attempts |-> AtMost(RollOff, backoff.attempts + 1), waiting |-> TRUE ] \in [ attempts : 0 .. RollOff, waiting : BOOLEAN ]
    BY <2>2
  <2> QED
    BY <2>3, <2>4
<1> QED
  BY <1>1, <1>2, <1>3

\* A step of a poll that leaves the mailbox, the row and the memory alone.
LEMMA PollMovesAlone ==
  ASSUME MailOk, UNCHANGED <<box, coming, gen, login, conn, backoff, watcher, acts>>, Grown,
         NEW p \in Pollers, NEW pl \in PollType, poll' = [poll EXCEPT ![p] = pl], Sound(pl)'
  PROVE  MailOk'
<1>1. BoxOk' /\ GoesOn
  BY StillBoxOk DEF MailOk
<1>2. ConnOk'
  BY <1>1, StillConnOk DEF MailOk
<1>3. MemoryOk'
  BY DEF MailOk, MemoryOk
<1> QED
  BY <1>2, <1>3, PollMoves

LEMMA Beginning ==
  ASSUME MailOk, RowsOk, NEW p \in Pollers, TickBegins(p) \/ NudgeBegins(p)
  PROVE  MailOk' /\ RowsOk' /\ Grown
<1>1. PICK kind \in Kinds : Begins(p, kind)
  BY DEF TickBegins, NudgeBegins, Kinds
<1>2. UNCHANGED <<box, coming, gen, login, conn, backoff, watcher, acts>> /\ UNCHANGED filingVars
  BY DEF TickBegins, NudgeBegins
<1>3. RowsOk' /\ Grown
  BY <1>2, RowsStay DEF filingVars, RowsOk, FilingType
<1>4. PICK pl : pl = [ at |-> "read", kind |-> kind, id |-> conn.id, seen |-> conn.seen,
                       validity |-> conn.validity, numbered |-> conn.numbered ]
  OBVIOUS
<1>5. poll' = [poll EXCEPT ![p] = pl]
  BY <1>1, <1>4 DEF Begins
<1>6. pl \in PollType /\ pl.at = "read" /\ pl.numbered = conn.numbered /\ pl.seen = conn.seen
  <2>1. conn \in ConnType
    BY DEF MailOk, ConnOk
  <2>2. pl \in PollRead
    BY <1>4, <2>1 DEF PollRead, ConnType
  <2> QED
    BY <1>4, <2>2 DEF PollType
<1>7. Sound(pl)
  BY <1>6 DEF MailOk, ConnOk, Sound, Fits, OnTrack
<1>8. Sound(pl)'
  BY <1>2, <1>3, <1>7, StillBoxOk, StillSound DEF MailOk
<1> QED
  BY <1>2, <1>3, <1>5, <1>6, <1>8, PollMovesAlone

\* The batch starts behind the mark, which is to be relied on if it is whole.
LEMMA BatchClimbs ==
  ASSUME MailOk, NEW p \in Pollers, poll[p].at = "read", NEW b, b = Batch(p)
  PROVE  /\ b \in Seq([ uid : Nat \ {0}, mail : Mails ])
         /\ \A i \in DOMAIN b : b[i].uid <= Len(box) /\ b[i].mail = box[b[i].uid]
         /\ \A i, j \in DOMAIN b : j = i + 1 => b[j].uid = b[i].uid + 1
         /\ (Whole(p) /\ 1 \in DOMAIN b) => Passed(b[1].uid - 1)
<1> DEFINE mark == Mark(p)
           last == AtMost(mark + MaxPerPoll, Len(box))
           k == IF last > mark THEN last - mark ELSE 0
<1>1. poll[p] \in PollRead /\ Sound(poll[p])
  BY PollFields DEF MailOk, PollsOk
<1>2. Len(box) \in Nat /\ DOMAIN box = 1 .. Len(box) /\ (\A i \in DOMAIN box : box[i] \in Mails) /\ gen \in Nat
  BY Elements DEF MailOk, BoxOk
<1>3. mark \in Nat /\ (Whole(p) => Passed(mark))
  <2>1. poll[p].seen \in Nat
    BY <1>1 DEF PollRead
  <2>2. Passed(0)
    BY <1>2 DEF Passed
  <2>3. CASE Mark(p) = 0
    BY <2>2, <2>3
  <2>4. CASE Mark(p) # 0
    BY <1>1, <2>1, <2>4 DEF Mark, Whole, Sound, OnTrack
  <2> QED
    BY <2>3, <2>4
<1>4. k \in Nat /\ \A n \in 1 .. k : mark + n \in 1 .. Len(box)
  BY <1>2, <1>3, PollAssumption DEF AtMost
<1>5. b = [ n \in 1 .. k |-> [ uid |-> mark + n, mail |-> box[mark + n] ] ]
  BY DEF Batch
<1> HIDE DEF k, mark
<1>6. DOMAIN b = 1 .. k /\ \A n \in 1 .. k : b[n] = [ uid |-> mark + n, mail |-> box[mark + n] ]
  BY <1>5
<1>7. \A n \in 1 .. k : b[n] \in [ uid : Nat \ {0}, mail : Mails ] /\ b[n].uid = mark + n /\ b[n].mail = box[mark + n]
  BY <1>2, <1>3, <1>4, <1>6
<1>8. b \in Seq([ uid : Nat \ {0}, mail : Mails ])
  <2>1. b = [ n \in 1 .. k |-> b[n] ]
    BY <1>5
  <2> QED
    BY <1>4, <1>7, <2>1, IsSequence
<1>9. (Whole(p) /\ 1 \in DOMAIN b) => Passed(b[1].uid - 1)
  <2>1. 1 \in DOMAIN b => b[1].uid - 1 = mark
    BY <1>3, <1>6, <1>7
  <2> QED
    BY <1>3, <2>1
<1>10. \A i, j \in DOMAIN b : j = i + 1 => b[j].uid = b[i].uid + 1
  BY <1>3, <1>4, <1>6, <1>7
<1> QED
  BY <1>2, <1>4, <1>6, <1>7, <1>8, <1>9, <1>10

LEMMA Fetching ==
  ASSUME MailOk, RowsOk, NEW p \in Pollers, Fetches(p)
  PROVE  MailOk' /\ RowsOk' /\ Grown
<1>1. UNCHANGED <<box, coming, gen, login, conn, backoff, watcher, acts>> /\ UNCHANGED filingVars /\ poll[p].at = "read"
  BY DEF Fetches
<1>2. RowsOk' /\ Grown
  BY <1>1, RowsStay DEF filingVars, RowsOk, FilingType
<1>3. poll[p] \in PollRead /\ gen \in 1 .. MaxGenerations
  BY <1>1, PollFields DEF MailOk, PollsOk, BoxOk
<1>4. PICK b, whole : b = Batch(p) /\ whole = Whole(p)
  OBVIOUS
<1>5. PICK pl : pl = [ at |-> "filing", kind |-> poll[p].kind, id |-> poll[p].id, fetched |-> gen,
                       whole |-> whole, batch |-> b, n |-> 1, committed |-> 0, blocked |-> FALSE, plan |-> NoPlan ]
  OBVIOUS
<1>6. poll' = [poll EXCEPT ![p] = pl]
  BY <1>4, <1>5 DEF Fetches, MailOk, PollsOk
<1>7. /\ b \in Seq([ uid : Nat \ {0}, mail : Mails ])
      /\ \A i \in DOMAIN b : b[i].uid <= Len(box) /\ b[i].mail = box[b[i].uid]
      /\ \A i, j \in DOMAIN b : j = i + 1 => b[j].uid = b[i].uid + 1
      /\ (whole /\ 1 \in DOMAIN b) => Passed(b[1].uid - 1)
  BY <1>1, <1>4, BatchClimbs
<1>8. pl \in PollFiling
  <2>1. whole \in BOOLEAN
    BY <1>4 DEF Whole
  <2>2. NoPlan \in PlanType
    BY DEF PlanType
  <2> QED
    BY <1>3, <1>5, <1>7, <2>1, <2>2 DEF PollFiling, PollRead
<1>9. Sound(pl)
  <2>1. Fits(pl)
    BY <1>5 DEF Fits, NoPlan
  <2>2. pl.whole => Climbs(pl)
    BY <1>5, <1>7 DEF Climbs
  <2> QED
    BY <1>3, <1>5, <1>8, <2>1, <2>2 DEF Sound, OnTrack, PollType
<1>10. Sound(pl)'
  BY <1>1, <1>2, <1>9, StillBoxOk, StillSound DEF MailOk
<1>11. pl \in PollType
  BY <1>8 DEF PollType
<1> QED
  BY <1>1, <1>2, <1>6, <1>10, <1>11, PollMovesAlone

LEMMA LeavingAlone ==
  ASSUME MailOk, RowsOk, NEW p \in Pollers, IsLeftAlone(p)
  PROVE  MailOk' /\ RowsOk' /\ Grown
<1>1. UNCHANGED <<box, coming, gen, login, conn, backoff, watcher, acts>> /\ UNCHANGED filingVars /\ poll[p].at = "read"
  BY DEF IsLeftAlone
<1>2. RowsOk' /\ Grown
  BY <1>1, RowsStay DEF filingVars, RowsOk, FilingType
<1>3. poll[p] \in PollRead
  BY <1>1, PollFields DEF MailOk, PollsOk
<1>4. PICK pl \in PollType : pl.at \notin {"read", "filing"} /\ poll' = [poll EXCEPT ![p] = pl]
  BY <1>3, Synced DEF IsLeftAlone, MailOk, PollsOk, PollRead
<1> QED
  BY <1>1, <1>2, <1>4, AtRest, PollMovesAlone

\* Whatever the row becomes that keeps its mark.
LEMMA StatusWritten ==
  ASSUME MailOk, Grown, UNCHANGED <<box, coming, gen>>,
         NEW status \in {"none", "connected", "error", "revoked"},
         conn' = conn \/ conn' = [conn EXCEPT !.status = status]
  PROVE  ConnOk'
<1>1. conn' \in ConnType /\ conn'.numbered = conn.numbered /\ conn'.seen = conn.seen
  BY DEF MailOk, ConnOk, ConnType
<1>2. GoesOn
  BY StillBoxOk DEF MailOk
<1>3. PICK n \in Nat : n = conn.seen
  BY DEF MailOk, ConnOk, ConnType
<1>4. Passed(n) => Passed(n)'
  BY <1>2, StillPassed DEF MailOk
<1>5. conn'.numbered = gen' => Passed(conn.seen)'
  <2>1. conn'.seen = n
    BY <1>1, <1>3
  <2> QED
    BY <1>1, <1>3, <1>4, <2>1 DEF MailOk, ConnOk
<1> QED
  BY <1>1, <1>5 DEF MailOk, ConnOk

LEMMA FetchFailing ==
  ASSUME MailOk, RowsOk, NEW p \in Pollers, FetchFails(p)
  PROVE  MailOk' /\ RowsOk' /\ Grown
<1>1. UNCHANGED <<box, coming, gen, login, watcher, acts, worker, candidates>> /\ poll[p].at = "read"
  BY DEF FetchFails
<1>2. RowsOk' /\ Grown
  BY <1>1, RowsStay, FaultsLeft DEF FetchFails
<1>3. poll[p] \in PollRead /\ login \in {"works", "refused", "withdrawn"}
  BY <1>1, PollFields DEF MailOk, PollsOk, MemoryOk
<1>4. PICK pl \in PollType : pl.at \notin {"read", "filing"} /\ poll' = [poll EXCEPT ![p] = pl]
  <2>1. Threw(p, login) /\ poll[p].kind \in Kinds /\ poll[p].id \in Nat
    BY <1>3 DEF FetchFails, PollRead
  <2> QED
    BY <1>3, <2>1, Thrown DEF MailOk, PollsOk, MemoryOk
<1>5. backoff' \in [ attempts : 0 .. RollOff, waiting : BOOLEAN ]
  <2>1. Threw(p, login) /\ poll[p].kind \in Kinds /\ poll[p].id \in Nat
    BY <1>3 DEF FetchFails, PollRead
  <2> QED
    BY <1>3, <2>1, Thrown DEF MailOk, PollsOk, MemoryOk
<1>6. ConnOk'
  BY <1>1, <1>2, StatusWritten DEF FetchFails
<1>7. MemoryOk'
  BY <1>1, <1>5 DEF MailOk, MemoryOk
<1> QED
  BY <1>1, <1>2, <1>4, <1>6, <1>7, AtRest, PollMoves

\* A message that was dealt with, or one that was not and blocks the mark,
\* leaves the poll on track.
LEMMA Climbing ==
  ASSUME MailOk, UNCHANGED <<box, coming, gen>>, Grown, NEW p \in Pollers, AtMessage(p),
         NEW pl \in PollFiling, pl.plan = NoPlan, pl.batch = poll[p].batch, pl.n = poll[p].n + 1,
         pl.fetched = poll[p].fetched, pl.whole = poll[p].whole,
         NEW m, m = Current(p).mail,
         \/ /\ DealtWith(m)' /\ pl.blocked = poll[p].blocked
            /\ pl.committed = IF pl.blocked THEN poll[p].committed ELSE Current(p).uid
         \/ pl.blocked /\ pl.committed = poll[p].committed
  PROVE  Sound(pl)'
<1>1. GoesOn
  BY StillBoxOk DEF MailOk
<1>2. poll[p] \in PollFiling /\ poll[p].n \in DOMAIN poll[p].batch
  BY PollFields, FilingFields DEF MailOk, PollsOk, AtMessage
<1>3. PICK old \in PollFiling : old = poll[p]
  BY <1>2
<1>4. Sound(old)'
  BY <1>1, <1>3, StillSound DEF MailOk, PollsOk
<1>5. pl.at = "filing" /\ old.at = "filing"
  BY FilingFields
<1>6. Fits(pl)'
  BY NoPlan.do # "merge" DEF Fits, NoPlan
<1>7. pl.fetched <= gen'
  BY <1>3, <1>4, <1>5 DEF Sound, OnTrack
<1>8. ASSUME pl.fetched = gen', pl.whole PROVE Climbs(pl)'
  <2>1. Climbs(old)'
    BY <1>3, <1>4, <1>5, <1>8 DEF Sound, OnTrack
  <2> DEFINE n == old.n
             now == old.batch[n]
  <2>2. /\ n \in DOMAIN old.batch /\ now.uid \in Nat \ {0} /\ now = Current(p) /\ n \in Nat \ {0}
        /\ pl.batch = old.batch /\ pl.n = n + 1
    BY <1>2, <1>3, FilingFields DEF Current
  <2>3. now.uid <= Len(box)' /\ now.mail = box'[now.uid]
    BY <2>1, <2>2 DEF Climbs
  <2>4. CASE pl.blocked /\ pl.committed = old.committed
    BY <2>1, <2>2, <2>4 DEF Climbs
  <2>5. CASE ~pl.blocked /\ ~old.blocked /\ DealtWith(m)' /\ pl.committed = now.uid
    <3>1. Passed(now.uid - 1)'
      BY <2>1, <2>2, <2>5 DEF Climbs
    <3>2. \A uid \in 1 .. now.uid : uid \in 1 .. (now.uid - 1) \/ uid = now.uid
      BY <2>2
    <3>3. DealtWith(box[now.uid])'
      <4>1. box'[now.uid] = m
        BY <2>2, <2>3
      <4> QED
        BY <2>5, <4>1 DEF DealtWith, Held
    <3>4. Passed(now.uid)'
      BY <2>3, <3>1, <3>2, <3>3 DEF Passed
    <3>5. pl.n \in DOMAIN pl.batch => Passed(pl.batch[pl.n].uid - 1)'
      <4>1. SUFFICES ASSUME n + 1 \in DOMAIN old.batch PROVE Passed(old.batch[n + 1].uid - 1)'
        BY <2>2
      <4>2. old.batch[n + 1].uid = now.uid + 1
        BY <2>1, <2>2, <4>1 DEF Climbs
      <4>3. old.batch[n + 1].uid - 1 = now.uid
        BY <2>2, <4>2
      <4> QED
        BY <3>4, <4>3
    <3> QED
      BY <2>1, <2>2, <2>5, <3>4, <3>5 DEF Climbs
  <2> QED
    BY <1>3, <2>2, <2>4, <2>5, FilingFields
<1> QED
  BY <1>5, <1>6, <1>7, <1>8 DEF Sound, OnTrack, PollType

LEMMA MessageFields ==
  ASSUME MailOk, NEW p \in Pollers, AtMessage(p)
  PROVE  /\ poll[p] \in PollFiling /\ Current(p).mail \in Mails /\ Current(p).uid \in Nat \ {0}
         /\ poll[p].plan \in PlanType /\ (poll[p].plan.do = "merge" => poll[p].plan.row \in DOMAIN candidates)
<1>1. poll[p] \in PollFiling /\ poll[p].at = "filing" /\ poll[p].n <= Len(poll[p].batch) /\ Fits(poll[p])
  BY PollFields DEF MailOk, PollsOk, AtMessage, Sound
<1>2. poll[p].n \in DOMAIN poll[p].batch
  BY <1>1, FilingFields
<1> QED
  BY <1>1, <1>2, FilingFields DEF Current, Fits

LEMMA Handling ==
  ASSUME MailOk, UNCHANGED <<box, coming, gen, login, conn, backoff, watcher, acts>>, Grown,
         NEW p \in Pollers, AtMessage(p), Handled(p), NEW m, m = Current(p).mail, DealtWith(m)'
  PROVE  MailOk'
<1>1. poll[p] \in PollFiling /\ Current(p).uid \in Nat \ {0}
  BY MessageFields
<1>2. PICK pl : pl = [ poll[p] EXCEPT !.n = @ + 1, !.plan = NoPlan,
                                      !.committed = IF poll[p].blocked THEN @ ELSE Current(p).uid ]
  OBVIOUS
<1>3. poll' = [poll EXCEPT ![p] = pl]
  BY <1>2 DEF Handled
<1>4. /\ pl \in PollFiling /\ pl.plan = NoPlan /\ pl.batch = poll[p].batch /\ pl.n = poll[p].n + 1
      /\ pl.fetched = poll[p].fetched /\ pl.whole = poll[p].whole /\ pl.blocked = poll[p].blocked
      /\ pl.committed = IF pl.blocked THEN poll[p].committed ELSE Current(p).uid
  <2>1. NoPlan \in PlanType
    BY DEF PlanType
  <2>2. poll[p].n + 1 \in Nat \ {0} /\ (IF poll[p].blocked THEN poll[p].committed ELSE Current(p).uid) \in Nat
    BY <1>1, FilingFields
  <2>3. pl \in PollFiling
    BY <1>1, <1>2, <2>1, <2>2 DEF PollFiling
  <2> QED
    BY <1>1, <1>2, <2>3 DEF PollFiling
<1>5. Sound(pl)'
  BY <1>4, Climbing
<1> QED
  BY <1>3, <1>4, <1>5, PollMovesAlone DEF PollType

LEMMA LookingUp ==
  ASSUME MailOk, RowsOk, NEW p \in Pollers, LooksUp(p)
  PROVE  MailOk' /\ RowsOk' /\ Grown
<1>1. /\ UNCHANGED <<box, coming, gen, login, conn, backoff, watcher, acts>> /\ UNCHANGED filingVars
      /\ AtMessage(p)
  BY DEF LooksUp
<1>2. RowsOk' /\ Grown
  BY <1>1, RowsStay DEF filingVars, RowsOk, FilingType
<1>3. /\ poll[p] \in PollFiling /\ Current(p).mail \in Mails /\ Current(p).uid \in Nat \ {0}
  BY <1>1, MessageFields
<1>4. PICK m \in Mails : m = Current(p).mail
  BY <1>3
<1>5. PICK id : id = MsgId(m, Current(p).uid)
  OBVIOUS
<1>6. CASE Handled(p) /\ (Ingestible(Mail[m]) => NoPlan \in Plans(Mail[m], id))
  <2>1. DealtWith(m)
    <3>1. SUFFICES ASSUME Ingestible(Mail[m]), Mail[m].hasId PROVE Held(m)
      BY DEF DealtWith
    <3>2. Seen(id)
      BY <1>6, <3>1, PlansMade, MailFields DEF RowsOk
    <3>3. id[1] = "id" /\ id[2] = m
      BY <1>3, <1>5, <3>1, MsgIds
    <3> QED
      BY <3>2, <3>3, SeenIsHeld
  <2>2. DealtWith(m)'
    BY <1>2, <2>1 DEF DealtWith, Grown
  <2> QED
    BY <1>1, <1>2, <1>4, <1>6, <2>2, Handling
<1>7. CASE \E plan \in Plans(Mail[m], id) : plan # NoPlan /\ poll' = [ poll EXCEPT ![p].plan = plan ]
  <2>1. PICK plan \in Plans(Mail[m], id) : plan # NoPlan /\ poll' = [ poll EXCEPT ![p].plan = plan ]
    BY <1>7
  <2>2. plan \in PlanType /\ (plan.do = "merge" => plan.row \in DOMAIN candidates)
    BY PlansMade, MailFields DEF RowsOk
  <2>3. PICK pl : pl = [ poll[p] EXCEPT !.plan = plan ]
    OBVIOUS
  <2>4. poll' = [poll EXCEPT ![p] = pl]
    BY <2>1, <2>3
  <2>5. pl \in PollFiling
    BY <1>3, <2>2, <2>3 DEF PollFiling
  <2>6. /\ pl.plan = plan /\ pl.batch = poll[p].batch /\ pl.n = poll[p].n /\ pl.at = poll[p].at /\ pl.blocked = poll[p].blocked
        /\ pl.fetched = poll[p].fetched /\ pl.whole = poll[p].whole /\ pl.committed = poll[p].committed
    BY <1>3, <2>3 DEF PollFiling
  <2>7. Sound(poll[p])
    BY DEF MailOk, PollsOk
  <2>8. Sound(pl)
    <3>1. pl.at = "filing"
      BY <2>5, FilingFields
    <3> QED
      BY <2>2, <2>5, <2>6, <2>7, <3>1 DEF Sound, Fits, OnTrack, Climbs, PollType
  <2>9. Sound(pl)'
    BY <1>1, <1>2, <2>8, StillBoxOk, StillSound DEF MailOk
  <2> QED
    BY <1>1, <1>2, <2>4, <2>5, <2>9, PollMovesAlone DEF PollType
<1> QED
  BY <1>2, <1>4, <1>5, <1>6, <1>7 DEF LooksUp

LEMMA FilingOne ==
  ASSUME MailOk, RowsOk, NEW p \in Pollers, FilesOne(p)
  PROVE  MailOk' /\ RowsOk' /\ Grown
<1>1. /\ UNCHANGED <<box, coming, gen, login, conn, backoff, watcher, acts, worker, faults>>
      /\ AtMessage(p) /\ poll[p].plan # NoPlan /\ Handled(p)
  BY DEF FilesOne
<1>2. /\ Current(p).mail \in Mails /\ Current(p).uid \in Nat \ {0}
      /\ poll[p].plan \in PlanType /\ (poll[p].plan.do = "merge" => poll[p].plan.row \in DOMAIN candidates)
  BY <1>1, MessageFields
<1>3. PICK m \in Mails, plan \in PlanType : m = Current(p).mail /\ plan = poll[p].plan
  BY <1>2
<1>4. PICK id \in Ids : id = MsgId(m, Current(p).uid)
  BY <1>2, MsgIds
<1>5. Files(m, Mail[m], id, plan)
  BY <1>3, <1>4 DEF FilesOne
<1>6. id # NoId /\ (id[1] \in {"id", "fwd"} => id[2] = m)
  BY <1>2, <1>4, MsgIds
<1>7. candidates' \in Seq(RowType) /\ IdsAreUnique' /\ Named' /\ Grown /\ Held(m)'
  BY <1>1, <1>2, <1>3, <1>5, <1>6, MailFields, FilesHolds
<1>8. RowsOk'
  BY <1>1, <1>7 DEF RowsOk, FilingType
<1>9. DealtWith(m)'
  BY <1>7 DEF DealtWith
<1> QED
  BY <1>1, <1>3, <1>7, <1>8, <1>9, Handling

LEMMA FailingToFile ==
  ASSUME MailOk, RowsOk, NEW p \in Pollers, FilingFails(p)
  PROVE  MailOk' /\ RowsOk' /\ Grown
<1>1. /\ UNCHANGED <<box, coming, gen, login, conn, backoff, watcher, acts, worker, candidates>>
      /\ AtMessage(p)
  BY DEF FilingFails
<1>2. RowsOk' /\ Grown
  BY <1>1, RowsStay, FaultsLeft DEF FilingFails
<1>3. poll[p] \in PollFiling
  BY <1>1, MessageFields
<1>4. PICK pl : pl = [ poll[p] EXCEPT !.n = @ + 1, !.plan = NoPlan, !.blocked = TRUE ]
  OBVIOUS
<1>5. poll' = [poll EXCEPT ![p] = pl]
  BY <1>4 DEF FilingFails
<1>6. /\ pl \in PollFiling /\ pl.plan = NoPlan /\ pl.batch = poll[p].batch /\ pl.n = poll[p].n + 1
      /\ pl.fetched = poll[p].fetched /\ pl.whole = poll[p].whole /\ pl.blocked
      /\ pl.committed = poll[p].committed
  <2>1. NoPlan \in PlanType
    BY DEF PlanType
  <2>2. poll[p].n + 1 \in Nat \ {0}
    BY <1>3, FilingFields
  <2>3. pl \in PollFiling
    BY <1>3, <1>4, <2>1, <2>2 DEF PollFiling
  <2> QED
    BY <1>3, <1>4, <2>3 DEF PollFiling
<1>7. PICK m : m = Current(p).mail
  OBVIOUS
<1>8. Sound(pl)'
  BY <1>1, <1>2, <1>6, <1>7, Climbing
<1> QED
  BY <1>1, <1>2, <1>5, <1>6, <1>8, PollMovesAlone DEF PollType

\* The mark a poll writes: what it committed, if that can be relied on.
LEMMA MarkWritten ==
  ASSUME MailOk, NEW p \in Pollers, poll[p] \in PollFiling
  PROVE  /\ Marked(conn, p) \in ConnType /\ Marked(conn, p).numbered <= gen
         /\ Marked(conn, p).numbered = gen => Passed(Marked(conn, p).seen)
<1> DEFINE row == Marked(conn, p)
           pl == poll[p]
<1>1. /\ pl.at = "filing" /\ pl.fetched \in 1 .. MaxGenerations /\ pl.whole \in BOOLEAN
      /\ pl.committed \in Nat /\ gen \in 1 .. MaxGenerations
  BY FilingFields DEF MailOk, BoxOk
<1>2. conn \in ConnType /\ conn.numbered <= gen /\ (conn.numbered = gen => Passed(conn.seen))
  BY DEF MailOk, ConnOk
<1>3. pl.fetched <= gen /\ ((pl.fetched = gen /\ pl.whole) => Climbs(pl))
  BY <1>1 DEF MailOk, PollsOk, Sound, OnTrack
<1>4. CASE pl.committed = 0
  <2>1. row \in ConnType /\ row.seen = conn.seen /\ row.numbered = conn.numbered
    <3>1. row = [ conn EXCEPT !.status = "connected", !.validity = pl.fetched, !.seen = conn.seen, !.numbered = conn.numbered ]
      BY <1>2, <1>4 DEF Marked, ConnType
    <3>2. pl.fetched \in 0 .. MaxGenerations /\ conn.numbered \in 0 .. MaxGenerations /\ conn.seen \in Nat
      BY <1>1, <1>2 DEF ConnType
    <3> HIDE DEF row, pl
    <3>3. row \in ConnType
      BY <1>2, <3>1, <3>2 DEF ConnType
    <3> QED
      BY <1>2, <3>1, <3>3 DEF ConnType
  <2> QED
    BY <1>2, <2>1
<1>5. CASE pl.committed # 0
  <2>1. /\ row \in ConnType /\ row.seen = pl.committed
        /\ row.numbered = IF pl.whole THEN pl.fetched ELSE 0
    <3> DEFINE n == IF pl.whole THEN pl.fetched ELSE 0
    <3>1. row = [ conn EXCEPT !.status = "connected", !.validity = pl.fetched, !.seen = pl.committed, !.numbered = n ]
      BY <1>2, <1>5 DEF Marked, ConnType
    <3>2. pl.fetched \in 0 .. MaxGenerations /\ n \in 0 .. MaxGenerations
      BY <1>1, PollAssumption
    <3> HIDE DEF n, row, pl
    <3>3. row \in ConnType
      BY <1>1, <1>2, <3>1, <3>2 DEF ConnType
    <3>4. row.seen = pl.committed /\ row.numbered = n
      BY <1>2, <3>1 DEF ConnType
    <3> QED
      BY <3>3, <3>4 DEF n
  <2>2. row.numbered = gen => Passed(pl.committed)
    BY <1>1, <1>3, <1>5, <2>1 DEF Climbs
  <2> QED
    BY <1>1, <1>3, <2>1, <2>2
<1> QED
  BY <1>4, <1>5

LEMMA Committing ==
  ASSUME MailOk, RowsOk, NEW p \in Pollers, Commits(p)
  PROVE  MailOk' /\ RowsOk' /\ Grown
<1>1. UNCHANGED <<box, coming, gen, login, watcher, acts>> /\ UNCHANGED filingVars /\ poll[p].at = "filing"
  BY DEF Commits
<1>2. RowsOk' /\ Grown
  BY <1>1, RowsStay DEF filingVars, RowsOk, FilingType
<1>3. /\ poll[p] \in PollFiling /\ poll[p].kind \in Kinds /\ poll[p].id \in Nat
      /\ poll \in [Pollers -> PollType] /\ backoff \in [ attempts : 0 .. RollOff, waiting : BOOLEAN ]
  BY <1>1, PollFields, FilingFields DEF MailOk, PollsOk, MemoryOk
<1>4. \/ Threw(p, "works")
      \/ ToSync(p) /\ (backoff' = NoFailures \/ backoff' = backoff)
  BY DEF Commits
<1>5. PICK pl \in PollType : pl.at \notin {"read", "filing"} /\ poll' = [poll EXCEPT ![p] = pl]
  BY <1>3, <1>4, Thrown, Synced
<1>6. backoff' \in [ attempts : 0 .. RollOff, waiting : BOOLEAN ]
  <2>1. NoFailures \in [ attempts : 0 .. RollOff, waiting : BOOLEAN ]
    BY PollAssumption DEF NoFailures
  <2> QED
    BY <1>3, <1>4, <2>1, Thrown
<1>7. ConnOk'
  <2>1. PICK row : row = conn'
    OBVIOUS
  <2>2. row \in ConnType /\ row.numbered <= gen /\ (row.numbered = gen => Passed(row.seen))
    BY <1>3, <2>1, MarkWritten DEF Commits, MailOk, ConnOk
  <2>3. row.seen \in Nat
    BY <2>2 DEF ConnType
  <2>4. row.numbered = gen => Passed(row.seen)'
    BY <1>1, <1>2, <2>2, <2>3, StillBoxOk, StillPassed DEF MailOk
  <2> QED
    BY <1>1, <2>1, <2>2, <2>4 DEF ConnOk
<1>8. MemoryOk'
  BY <1>1, <1>6 DEF MailOk, MemoryOk
<1> QED
  BY <1>1, <1>2, <1>5, <1>7, <1>8, AtRest, PollMoves

\* A poll whose row cannot be written leaves the mark as it was.
LEMMA FailingToCommit ==
  ASSUME MailOk, RowsOk, NEW p \in Pollers, CommitFails(p)
  PROVE  MailOk' /\ RowsOk' /\ Grown
<1>1. UNCHANGED <<box, coming, gen, login, conn, watcher, acts, worker, candidates>> /\ poll[p].at = "filing"
  BY DEF CommitFails
<1>2. RowsOk' /\ Grown
  BY <1>1, RowsStay, FaultsLeft DEF CommitFails
<1>3. /\ poll[p] \in PollFiling /\ poll[p].kind \in Kinds /\ poll[p].id \in Nat
      /\ poll \in [Pollers -> PollType] /\ backoff \in [ attempts : 0 .. RollOff, waiting : BOOLEAN ]
  BY <1>1, PollFields, FilingFields DEF MailOk, PollsOk, MemoryOk
<1>4. Threw(p, "works")
  BY DEF CommitFails
<1>5. PICK pl \in PollType : pl.at \notin {"read", "filing"} /\ poll' = [poll EXCEPT ![p] = pl]
  BY <1>3, <1>4, Thrown
<1>6. backoff' \in [ attempts : 0 .. RollOff, waiting : BOOLEAN ]
  BY <1>3, <1>4, Thrown
<1>7. ConnOk'
  BY <1>1, <1>2, StillBoxOk, StillConnOk DEF MailOk
<1>8. MemoryOk'
  BY <1>1, <1>6 DEF MailOk, MemoryOk
<1> QED
  BY <1>1, <1>2, <1>5, <1>7, <1>8, AtRest, PollMoves

LEMMA Reporting ==
  ASSUME MailOk, RowsOk, NEW p \in Pollers, Reports(p)
  PROVE  MailOk' /\ RowsOk' /\ Grown
<1>1. UNCHANGED <<box, coming, gen, login, backoff, watcher, acts, worker, candidates>> /\ poll[p].at = "failed"
  BY DEF Reports
<1>2. RowsOk' /\ Grown
  <2>1. faults' \in Nat
    BY FaultsLeft DEF Reports, RowsOk, FilingType
  <2> QED
    BY <1>1, <2>1, RowsStay
<1>3. poll[p] \in PollFailed /\ poll \in [Pollers -> PollType]
  BY <1>1, PollFields DEF MailOk, PollsOk
<1>4. PICK pl \in PollType : pl.at \notin {"read", "filing"} /\ poll' = [poll EXCEPT ![p] = pl]
  BY <1>3, Synced DEF Reports, PollFailed, Kinds
<1>5. ConnOk'
  <2>1. CASE UNCHANGED conn
    BY <1>1, <1>2, <2>1, StillBoxOk, StillConnOk DEF MailOk
  <2>2. CASE conn' = IF Mine(p) /\ poll[p].reason # "withdrawn" THEN [ conn EXCEPT !.status = "error" ] ELSE conn
    BY <1>1, <1>2, <2>2, StatusWritten
  <2> QED
    BY <2>1, <2>2 DEF Reports
<1>6. MemoryOk'
  BY <1>1 DEF MailOk, MemoryOk
<1> QED
  BY <1>1, <1>2, <1>4, <1>5, <1>6, AtRest, PollMoves

LEMMA Syncing ==
  ASSUME MailOk, RowsOk, NEW p \in Pollers, SyncsWatchers(p)
  PROVE  MailOk' /\ RowsOk' /\ Grown
<1>1. UNCHANGED <<box, coming, gen, login, conn, backoff, acts>> /\ UNCHANGED filingVars
  BY DEF SyncsWatchers
<1>2. RowsOk' /\ Grown
  BY <1>1, RowsStay DEF filingVars, RowsOk, FilingType
<1>3. NoPoll \in PollType /\ NoPoll.at = "idle" /\ poll' = [poll EXCEPT ![p] = NoPoll]
  BY DEF SyncsWatchers, PollType, PollIdle, NoPoll
<1>4. ConnOk'
  BY <1>1, <1>2, StillBoxOk, StillConnOk DEF MailOk
<1>5. MemoryOk'
  BY <1>1 DEF SyncsWatchers, MailOk, MemoryOk
<1> QED
  BY <1>1, <1>2, <1>3, <1>4, <1>5, AtRest, PollMoves

LEMMA Polling ==
  ASSUME MailOk, RowsOk, NEW p \in Pollers, Polls(p)
  PROVE  MailOk' /\ RowsOk' /\ Grown
  BY Fetching, LeavingAlone, FetchFailing, LookingUp, FilingOne, FailingToFile, Committing,
     FailingToCommit, Reporting, Syncing DEF Polls

----------------------------------------------------------------------------
(* The mailbox, its connection and the memory of failures.                  *)

LEMMA Arriving ==
  ASSUME MailOk, RowsOk, NEW m \in Mails, Arrives(m), UNCHANGED filingVars
  PROVE  MailOk' /\ RowsOk' /\ Grown
<1>1. UNCHANGED <<gen, login, conn, backoff, watcher, poll, acts>> /\ coming' = coming \ {m} /\ box' = Append(box, m)
  BY DEF Arrives
<1>2. RowsOk' /\ Grown
  BY RowsStay DEF filingVars, RowsOk, FilingType
<1>3. BoxOk'
  BY <1>1 DEF MailOk, BoxOk
<1>4. GoesOn
  BY <1>1, <1>2 DEF MailOk, BoxOk, GoesOn
<1>5. ConnOk'
  BY <1>1, <1>4, StillConnOk DEF MailOk
<1>6. PollsOk'
  BY <1>1, <1>4, StillPolls DEF MailOk
<1> QED
  BY <1>1, <1>2, <1>3, <1>5, <1>6 DEF MailOk, MemoryOk

\* In a new numbering nothing that was read or fetched before is relied on.
LEMMA Renumbering ==
  ASSUME MailOk, RowsOk, NEW k \in 0 .. Len(box), Renumbers(k), UNCHANGED filingVars
  PROVE  MailOk' /\ RowsOk' /\ Grown
<1>1. /\ UNCHANGED <<coming, login, conn, backoff, watcher, poll, acts>>
      /\ gen' = gen + 1 /\ gen < MaxGenerations /\ box' = SubSeq(box, k + 1, Len(box))
  BY DEF Renumbers
<1>2. RowsOk' /\ Grown
  BY RowsStay DEF filingVars, RowsOk, FilingType
<1>3. BoxOk'
  <2>1. box \in Seq(Mails) /\ Len(box) \in Nat /\ k \in Nat
    BY DEF MailOk, BoxOk
  <2>2. box' \in Seq(Mails)
    BY <1>1, <2>1
  <2> QED
    BY <1>1, <2>2, PollAssumption DEF MailOk, BoxOk
<1>4. ConnOk'
  BY <1>1, PollAssumption DEF MailOk, ConnOk, ConnType, BoxOk
<1>5. PollsOk'
  <2>1. ASSUME NEW p \in Pollers PROVE Sound(poll[p])'
    <3>1. PICK pl : pl = poll[p]
      OBVIOUS
    <3>2. Sound(pl) /\ gen \in Nat
      BY <3>1 DEF MailOk, PollsOk, BoxOk
    <3>3. pl.at = "read" => pl.numbered \in Nat
      BY <3>2, PollFields DEF Sound, PollRead
    <3>4. pl.at = "filing" => pl.fetched \in Nat
      BY <3>2, PollFields, FilingFields DEF Sound
    <3>5. Sound(pl)'
      BY <1>1, <1>2, <3>2, <3>3, <3>4 DEF Sound, OnTrack, Fits, Grown
    <3>6. poll'[p] = pl
      BY <1>1, <3>1
    <3> QED
      BY <3>5, <3>6 DEF Sound, Fits, OnTrack, Climbs, Passed
  <2> QED
    BY <1>1, <2>1 DEF MailOk, PollsOk
<1> QED
  BY <1>1, <1>2, <1>3, <1>4, <1>5 DEF MailOk, MemoryOk

\* What the worker remembers, and the status of the row, may be anything.
LEMMA Interfering ==
  ASSUME MailOk, RowsOk, UNCHANGED <<box, coming, gen, poll>>, UNCHANGED filingVars, MemoryOk',
         ConnOk'
  PROVE  MailOk' /\ RowsOk' /\ Grown
<1>1. RowsOk' /\ Grown
  BY RowsStay DEF filingVars, RowsOk, FilingType
<1>2. BoxOk' /\ GoesOn
  BY <1>1, StillBoxOk DEF MailOk
<1>3. PollsOk'
  BY <1>2, StillPolls DEF MailOk
<1> QED
  BY <1>1, <1>2, <1>3 DEF MailOk

LEMMA Remembering ==
  ASSUME MailOk, RowsOk, BackoffEnds \/ WatcherGivesUp
  PROVE  MailOk' /\ RowsOk' /\ Grown
<1>1. UNCHANGED <<box, coming, gen, poll, login, conn, acts>> /\ UNCHANGED filingVars
  BY DEF BackoffEnds, WatcherGivesUp
<1>2. MemoryOk'
  BY DEF BackoffEnds, WatcherGivesUp, MailOk, MemoryOk
<1>3. ConnOk'
  BY <1>1, Stays, StillBoxOk, StillConnOk DEF MailOk, filingVars
<1> QED
  BY <1>1, <1>2, <1>3, Interfering

LEMMA PeopleAct ==
  ASSUME MailOk, RowsOk, People
  PROVE  MailOk' /\ RowsOk' /\ Grown
<1>1. UNCHANGED <<box, coming, gen, watcher, poll>> /\ UNCHANGED filingVars /\ acts > 0 /\ acts' = acts - 1
  BY DEF People, Pauses, Resumes, PasswordChanges, Reconnects, Disconnects, Connects, Person
<1>2. Grown
  BY <1>1, Stays DEF filingVars
<1>3. /\ login' \in {"works", "refused", "withdrawn"}
      /\ backoff' = backoff \/ backoff' = NoFailures
  BY DEF People, Pauses, Resumes, PasswordChanges, Reconnects, Disconnects, Connects, MailOk, MemoryOk
<1>4. MemoryOk'
  <2>1. NoFailures \in [ attempts : 0 .. RollOff, waiting : BOOLEAN ]
    BY PollAssumption DEF NoFailures
  <2> QED
    BY <1>1, <1>3, <2>1 DEF MailOk, MemoryOk
<1>5. ConnOk'
  <2>1. CASE Connects
    <3>1. conn' = NewConnection(conn.id + 1) /\ conn.id \in Nat /\ gen \in 1 .. MaxGenerations
      BY <2>1 DEF Connects, MailOk, ConnOk, ConnType, BoxOk
    <3>2. conn' \in ConnType /\ conn'.numbered = 0
      BY <3>1, PollAssumption DEF NewConnection, ConnType
    <3> QED
      BY <1>1, <3>1, <3>2, PollAssumption DEF ConnOk
  <2>2. CASE ~Connects
    <3>1. PICK status \in {"none", "connected", "error", "revoked"} :
            conn' = conn \/ conn' = [conn EXCEPT !.status = status]
      BY <2>2 DEF People, Pauses, Resumes, PasswordChanges, Reconnects, Disconnects
    <3> QED
      BY <1>1, <1>2, <3>1, StatusWritten
  <2> QED
    BY <2>1, <2>2
<1> QED
  BY <1>1, <1>4, <1>5, Interfering

----------------------------------------------------------------------------
(* Forwarded mail.                                                          *)

ForwardOk == ForwardingType /\ (\A m \in Forwarded : Fits(session[m])) /\ Filed

LEMMA ForwardStays ==
  ASSUME ForwardOk, Grown, UNCHANGED <<session, told>>, alias' \in AliasType
  PROVE  ForwardOk'
<1>1. ForwardingType'
  BY DEF ForwardOk, ForwardingType
<1>2. \A m \in Forwarded : Fits(session[m])'
  BY DEF ForwardOk, Fits, Grown
<1>3. Filed'
  BY WorkloadAssumption DEF ForwardOk, Filed, Grown
<1> QED
  BY <1>1, <1>2, <1>3 DEF ForwardOk

\* A session that ends as filed, or is answered with a 250, has its mail in a row.
LEMMA SessionMoves ==
  ASSUME ForwardOk, Grown, NEW m \in Forwarded, alias' \in AliasType,
         NEW s \in SessionType, s.at = "filing" /\ s.plan.do = "merge" => s.plan.row \in (DOMAIN candidates)',
         session' = [session EXCEPT ![m] = s],
         NEW answer \in {"retry", "accepted", "dropped", "elsewhere"}, told' = [told EXCEPT ![m] = answer],
         (s.at = "filed" \/ answer = "accepted") => (Ingestible(Unwrapped(Mail[m])) => Held(m)')
  PROVE  ForwardOk'
<1>1. session \in [Forwarded -> SessionType] /\ told \in [Forwarded -> {"retry", "accepted", "dropped", "elsewhere"}]
  BY DEF ForwardOk, ForwardingType
<1>2. ForwardingType'
  BY <1>1 DEF ForwardingType
<1>3. /\ session'[m] = s /\ told'[m] = answer
      /\ \A q \in Forwarded : q # m => session'[q] = session[q] /\ told'[q] = told[q]
  BY <1>1
<1>4. \A q \in Forwarded : Fits(session[q])'
  BY <1>3 DEF ForwardOk, Fits, Grown
<1>5. Filed'
  BY <1>3, WorkloadAssumption DEF ForwardOk, Filed, Grown
<1> QED
  BY <1>2, <1>4, <1>5 DEF ForwardOk

LEMMA SessionKinds ==
  /\ NoSession \in SessionType /\ NoSession.at = "none"
  /\ [ at |-> "filed" ] \in SessionType
  /\ \A row \in AliasType : [ at |-> "data", row |-> row ] \in SessionType
  /\ \A plan \in PlanType : plan # NoPlan => [ at |-> "filing", plan |-> plan ] \in SessionType
  BY DEF SessionType, NoSession

LEMMA SessionFields ==
  ASSUME ForwardOk, NEW m \in Forwarded
  PROVE  /\ m \in Mails
         /\ session[m].at = "filing" =>
              /\ session[m].plan \in PlanType /\ session[m].plan # NoPlan
              /\ session[m].plan.do = "merge" => session[m].plan.row \in DOMAIN candidates
         /\ session[m].at = "filed" => (Ingestible(Unwrapped(Mail[m])) => Held(m))
         /\ alias \in AliasType
         /\ session \in [Forwarded -> SessionType]
         /\ told \in [Forwarded -> {"retry", "accepted", "dropped", "elsewhere"}]
<1>1. session[m] \in SessionType
  BY DEF ForwardOk, ForwardingType
<1>2. session[m].at = "filing" => session[m].plan \in PlanType /\ session[m].plan # NoPlan
  BY <1>1 DEF SessionType
<1> QED
  BY <1>2, WorkloadAssumption DEF ForwardOk, ForwardingType, Fits, Filed

LEMMA Replying ==
  ASSUME ForwardOk, Grown, NEW m \in Forwarded, alias' \in AliasType,
         NEW answer \in {"retry", "accepted", "dropped"}, Replies(m, answer),
         answer = "accepted" => (Ingestible(Unwrapped(Mail[m])) => Held(m))
  PROVE  ForwardOk'
<1>1. session' = [session EXCEPT ![m] = NoSession] /\ told' = [told EXCEPT ![m] = answer]
  BY DEF Replies
<1>2. m \in Mails
  BY SessionFields
<1>3. answer = "accepted" => (Ingestible(Unwrapped(Mail[m])) => Held(m)')
  BY <1>2 DEF Grown
<1> QED
  BY <1>1, <1>3, SessionKinds, SessionMoves

\* The session goes on without an answer.
LEMMA SessionGoesOn ==
  ASSUME ForwardOk, Grown, NEW m \in Forwarded, UNCHANGED <<alias, told>>,
         NEW s \in SessionType, s.at = "filing" /\ s.plan.do = "merge" => s.plan.row \in (DOMAIN candidates)',
         session' = [session EXCEPT ![m] = s],
         s.at = "filed" => (Ingestible(Unwrapped(Mail[m])) => Held(m)')
  PROVE  ForwardOk'
<1>1. PICK answer \in {"retry", "accepted", "dropped", "elsewhere"} : answer = told[m]
  BY SessionFields
<1>2. told' = [told EXCEPT ![m] = answer]
  BY <1>1, SessionFields
<1>3. answer = "accepted" => (Ingestible(Unwrapped(Mail[m])) => Held(m)')
  BY <1>1, SessionFields DEF ForwardOk, Filed, Grown
<1>4. alias' \in AliasType
  BY SessionFields
<1> QED
  BY <1>2, <1>3, <1>4, SessionMoves

LEMMA Receiving ==
  ASSUME ForwardOk, RowsOk, NEW m \in Forwarded, IsAddressed(m) \/ Delivers(m)
  PROVE  ForwardOk' /\ RowsOk' /\ Grown
<1> USE SessionFields
<1>1. CASE IsAddressed(m)
  <2>1. RowsOk' /\ Grown
    BY <1>1, RowsStay DEF IsAddressed, filingVars, RowsOk, FilingType
  <2>2. PICK s \in SessionType : s = [ at |-> "data", row |-> alias ]
    BY SessionKinds
  <2> QED
    BY <1>1, <2>1, <2>2, SessionGoesOn DEF IsAddressed
<1>2. CASE DropsPaused(m)
  <2>1. RowsOk' /\ Grown
    BY <1>2, RowsStay DEF DropsPaused, filingVars, RowsOk, FilingType
  <2> QED
    BY <1>2, <2>1, Replying DEF DropsPaused
<1>3. CASE DropsHomeless(m)
  <2>1. RowsOk' /\ Grown
    BY <1>3, RowsStay DEF DropsHomeless, filingVars, RowsOk, FilingType
  <2>2. alias' \in AliasType
    BY <1>3 DEF DropsHomeless, AliasType
  <2> QED
    BY <1>3, <2>1, <2>2, Replying DEF DropsHomeless
<1>4. CASE LooksUpForwarded(m)
  <2>1. RowsOk' /\ Grown
    BY <1>4, RowsStay DEF LooksUpForwarded, filingVars, RowsOk, FilingType
  <2>2. PICK mail \in MailType, id \in Ids : mail = Unwrapped(Mail[m]) /\ id = ForwardedId(m)
    BY MailFields, ForwardedIds
  <2>3. PICK filed : filed = [ at |-> "filed" ]
    OBVIOUS
  <2>4. CASE session' = [ session EXCEPT ![m] = filed ] /\ (Ingestible(mail) => NoPlan \in Plans(mail, id))
    <3>1. Ingestible(mail) => Held(m)
      <4>1. Ingestible(mail) => Seen(id)
        BY <2>4, PlansMade DEF RowsOk
      <4> QED
        BY <2>2, <4>1, ForwardedIds, SeenIsHeld
    <3>2. filed \in SessionType /\ filed.at = "filed"
      BY <2>3, SessionKinds
    <3> QED
      BY <1>4, <2>1, <2>2, <2>4, <3>1, <3>2, SessionGoesOn DEF LooksUpForwarded, Grown
  <2>5. CASE \E plan \in Plans(mail, id) : plan # NoPlan /\ session' = [ session EXCEPT ![m] = [ at |-> "filing", plan |-> plan ] ]
    <3>1. PICK plan \in Plans(mail, id) : plan # NoPlan /\ session' = [ session EXCEPT ![m] = [ at |-> "filing", plan |-> plan ] ]
      BY <2>5
    <3>2. plan \in PlanType /\ (plan.do = "merge" => plan.row \in DOMAIN candidates)
      BY PlansMade DEF RowsOk
    <3>3. PICK s \in SessionType : s = [ at |-> "filing", plan |-> plan ]
      BY <3>1, <3>2, SessionKinds
    <3>4. s.at = "filing" /\ s.plan = plan
      BY <3>3
    <3> QED
      BY <1>4, <2>1, <3>1, <3>2, <3>3, <3>4, SessionGoesOn DEF LooksUpForwarded, Grown
  <2> QED
    BY <1>4, <2>2, <2>3, <2>4, <2>5 DEF LooksUpForwarded
<1>5. CASE FilesForwarded(m)
  <2>1. /\ session[m].at = "filing" /\ UNCHANGED <<alias, told, worker, faults>>
        /\ session' = [ session EXCEPT ![m] = [ at |-> "filed" ] ]
    BY <1>5 DEF FilesForwarded
  <2>2. PICK mail \in MailType, id \in Ids, plan \in PlanType :
          mail = Unwrapped(Mail[m]) /\ id = ForwardedId(m) /\ plan = session[m].plan
    BY <2>1, MailFields, ForwardedIds
  <2>3. Files(m, mail, id, plan)
    BY <1>5, <2>2 DEF FilesForwarded
  <2>4. id # NoId /\ (id[1] \in {"id", "fwd"} => id[2] = m) /\ plan # NoPlan
        /\ (plan.do = "merge" => plan.row \in DOMAIN candidates)
    BY <2>1, <2>2, ForwardedIds
  <2>5. candidates' \in Seq(RowType) /\ IdsAreUnique' /\ Named' /\ Grown /\ Held(m)'
    BY <2>3, <2>4, FilesHolds
  <2>6. RowsOk'
    BY <2>1, <2>5 DEF RowsOk, FilingType
  <2>7. PICK s \in SessionType : s = [ at |-> "filed" ]
    BY SessionKinds
  <2> QED
    BY <2>1, <2>5, <2>6, <2>7, SessionGoesOn
<1>6. CASE DeliveryFails(m)
  <2>1. RowsOk' /\ Grown
    BY <1>6, RowsStay, FaultsLeft DEF DeliveryFails
  <2> QED
    BY <1>6, <2>1, Replying DEF DeliveryFails
<1>7. CASE Accepts(m)
  <2>1. RowsOk' /\ Grown
    BY <1>7, RowsStay, FaultsLeft DEF Accepts
  <2>2. alias' \in AliasType
    BY <1>7 DEF Accepts, AliasType
  <2> QED
    BY <1>7, <2>1, <2>2, Replying DEF Accepts
<1> QED
  BY <1>1, <1>2, <1>3, <1>4, <1>5, <1>6, <1>7 DEF Delivers

----------------------------------------------------------------------------
(* The telephone line.                                                      *)

LineOk == LineType /\ LegsFit

\* One leg becomes another.  What a call's first leg has to satisfy, it does.
LEMMA LegMoves ==
  ASSUME LineOk, NEW u \in Calls, NEW i \in DOMAIN legs[u], NEW leg \in LegType, UNCHANGED line,
         legs' = [legs EXCEPT ![u] = [legs[u] EXCEPT ![i] = leg]],
         calls' = calls \/ calls' = calls \ {u},
         leg.phase = "talking" => legs[u][i].phase = "talking" /\ u \in calls',
         (i = 1 /\ leg.phase = "ending") =>
           \/ leg.endedBy = "agent"
           \/ leg.endedBy = "socket" /\ (leg.errored \/ leg.closed),
         (i = 1 /\ Len(legs[u]) = 1 /\ leg.phase = "ending" /\ u \notin calls') => CleanedUpEarly(leg)
  PROVE  LineOk'
<1>1. legs \in [Calls -> Seq(LegType)] /\ legs[u] \in Seq(LegType) /\ Len(legs[u]) \in Nat /\ DOMAIN legs[u] = 1 .. Len(legs[u])
  BY DEF LineOk, LineType
<1> DEFINE mine == [legs[u] EXCEPT ![i] = leg]
<1>2. /\ mine \in Seq(LegType) /\ Len(mine) = Len(legs[u]) /\ mine # <<>>
      /\ mine[1] = IF i = 1 THEN leg ELSE legs[u][1]
  BY <1>1
<1> HIDE DEF mine
<1>3. /\ legs' \in [Calls -> Seq(LegType)] /\ legs'[u] = mine
      /\ \A v \in Calls : v # u => legs'[v] = legs[v] /\ (v \in calls <=> v \in calls')
  BY <1>1, <1>2 DEF mine
<1>4. LineType'
  BY <1>2, <1>3 DEF LineOk, LineType
<1>5. legs[u] # <<>> /\ LegFits(u)
  BY <1>1 DEF LineOk, LegsFit
<1>6. LegFits(u)'
  <2>1. CASE i = 1
    BY <1>1, <1>2, <1>3, <1>5, <2>1 DEF LegFits, CleanedUpEarly
  <2>2. CASE i # 1
    <3>1. Len(legs[u]) # 1 /\ mine[1] = legs[u][1]
      BY <1>1, <1>2, <2>2
    <3> QED
      BY <1>2, <1>3, <1>5, <3>1 DEF LegFits
  <2> QED
    BY <2>1, <2>2
<1>7. \A v \in Calls : v # u => (legs'[v] # <<>> => LegFits(v)')
  BY <1>3 DEF LineOk, LegsFit, LegFits, CleanedUpEarly
<1> QED
  BY <1>4, <1>6, <1>7 DEF LineOk, LegsFit

LEMMA LegFields ==
  ASSUME LineOk, NEW u \in Calls, NEW i \in DOMAIN legs[u]
  PROVE  legs[u][i] \in LegType /\ legs \in [Calls -> Seq(LegType)] /\ legs[u] # <<>> /\ i \in 1 .. Len(legs[u])
<1>1. legs \in [Calls -> Seq(LegType)] /\ legs[u] \in Seq(LegType)
  BY DEF LineOk, LineType
<1> QED
  BY <1>1

\* cleanup() after a socket has failed or closed for the first time.
LEMMA CleaningUp ==
  ASSUME LineOk, NEW u \in Calls, NEW i \in DOMAIN legs[u], UNCHANGED line,
         SocketFails(u, i) \/ SocketCloses(u, i)
  PROVE  LineOk'
<1> DEFINE old == legs[u][i]
<1>1. PICK leg : /\ \/ ~old.errored /\ ~old.closed /\ leg = [ old EXCEPT !.errored = TRUE ]
                    \/ ~old.closed /\ leg = [ old EXCEPT !.closed = TRUE ]
                 /\ Cleanup(u, i, leg)
  BY DEF SocketFails, SocketCloses
<1>2. old \in LegType /\ legs \in [Calls -> Seq(LegType)] /\ i \in 1 .. Len(legs[u]) /\ legs[u] # <<>>
  BY LegFields
<1>3. /\ leg \in LegType /\ leg.phase = old.phase /\ leg.endedBy = old.endedBy /\ (leg.errored \/ leg.closed)
      /\ (old.errored \/ old.closed) => leg.errored /\ leg.closed
      /\ old.errored => leg.errored
  BY <1>1, <1>2 DEF LegType
<1>4. CASE leg.phase = "talking"
  <2>1. PICK next : next = [ leg EXCEPT !.phase = "ending", !.endedBy = "socket", !.awaited = TRUE ]
    OBVIOUS
  <2>2. next \in LegType /\ next.phase = "ending" /\ next.endedBy = "socket" /\ (next.errored \/ next.closed)
    BY <1>3, <2>1 DEF LegType
  <2>3. legs' = [legs EXCEPT ![u] = [legs[u] EXCEPT ![i] = next]] /\ calls' = calls
    BY <1>1, <1>2, <1>4, <2>1 DEF Cleanup
  <2>4. i = 1 => u \in calls
    BY <1>2, <1>3, <1>4 DEF LineOk, LegsFit, LegFits
  <2> QED
    BY <2>2, <2>3, <2>4, LegMoves
<1>5. CASE leg.phase # "talking"
  <2>1. legs' = [legs EXCEPT ![u] = [legs[u] EXCEPT ![i] = leg]] /\ calls' = calls \ {u}
    BY <1>1, <1>2, <1>5 DEF Cleanup
  <2>2. i = 1 /\ leg.phase = "ending" =>
          \/ leg.endedBy = "agent"
          \/ leg.endedBy = "socket" /\ (old.errored \/ old.closed)
    BY <1>2, <1>3 DEF LineOk, LegsFit, LegFits
  <2>3. (i = 1 /\ leg.phase = "ending") => CleanedUpEarly(leg)
    BY <1>3, <2>2 DEF CleanedUpEarly
  <2> QED
    BY <1>3, <1>5, <2>1, <2>2, <2>3, LegMoves
<1> QED
  BY <1>4, <1>5

LEMMA Answering ==
  ASSUME LineOk, NEW u \in Calls, Refuses(u) \/ Answers(u)
  PROVE  LineOk'
<1>1. line' \in [ Calls -> {"ringing", "answered", "refused", "over"} ] /\ UNCHANGED <<legs, calls>>
  BY DEF Refuses, Answers, LineOk, LineType
<1> QED
  BY <1>1 DEF LineOk, LineType, LegsFit, LegFits, CleanedUpEarly

LEMMA Opening ==
  ASSUME LineOk, NEW u \in Calls, Opens(u)
  PROVE  LineOk'
<1>1. /\ legs \in [Calls -> Seq(LegType)] /\ legs[u] \in Seq(LegType) /\ Len(legs[u]) \in Nat
      /\ u \notin calls /\ UNCHANGED line /\ calls' = calls \union {u} /\ legs' = [legs EXCEPT ![u] = Append(@, NewLeg)]
  BY DEF Opens, LineOk, LineType
<1> DEFINE mine == Append(legs[u], NewLeg)
<1>2. NewLeg \in LegType /\ NewLeg.phase = "talking"
  BY DEF NewLeg, LegType
<1>3. /\ mine \in Seq(LegType) /\ Len(mine) = Len(legs[u]) + 1 /\ mine # <<>>
      /\ mine[1] = IF legs[u] = <<>> THEN NewLeg ELSE legs[u][1]
  BY <1>1, <1>2
<1>4. legs' = [legs EXCEPT ![u] = mine]
  BY <1>1
<1> HIDE DEF mine
<1>5. /\ legs' \in [Calls -> Seq(LegType)] /\ legs'[u] = mine /\ u \in calls'
      /\ \A v \in Calls : v # u => legs'[v] = legs[v] /\ (v \in calls <=> v \in calls')
  BY <1>1, <1>3, <1>4
<1>6. LineType'
  BY <1>1, <1>3, <1>5 DEF LineOk, LineType
<1>7. LegFits(u)'
  <2>1. CASE legs[u] = <<>>
    BY <1>1, <1>2, <1>3, <1>5, <2>1 DEF LegFits
  <2>2. CASE legs[u] # <<>>
    <3>1. legs[u][1].phase # "talking" /\ LegFits(u) /\ mine[1] = legs[u][1]
      BY <1>1, <1>3, <2>2 DEF LineOk, LegsFit, LegFits
    <3> QED
      BY <1>5, <3>1 DEF LegFits
  <2> QED
    BY <2>1, <2>2
<1>8. \A v \in Calls : v # u => (legs'[v] # <<>> => LegFits(v)')
  BY <1>5 DEF LineOk, LegsFit, LegFits, CleanedUpEarly
<1> QED
  BY <1>6, <1>7, <1>8 DEF LineOk, LegsFit

LEMMA Talking ==
  ASSUME LineOk, NEW u \in Calls, Talks(u)
  PROVE  LineOk'
<1>1. CASE Refuses(u) \/ Answers(u)
  BY <1>1, Answering
<1>2. CASE Opens(u)
  BY <1>2, Opening
<1>3. ASSUME NEW i \in DOMAIN legs[u], AgentEnds(u, i) PROVE LineOk'
  <2>1. PICK leg : leg = [ legs[u][i] EXCEPT !.phase = "ending", !.endedBy = "agent" ]
    OBVIOUS
  <2>2. leg \in LegType /\ leg.phase = "ending" /\ leg.endedBy = "agent"
    <3>1. PICK old \in LegType : old = legs[u][i]
      BY LegFields
    <3> QED
      BY <2>1, <3>1 DEF LegType
  <2>3. legs' = [legs EXCEPT ![u] = [legs[u] EXCEPT ![i] = leg]]
    BY <1>3, <2>1, LegFields DEF AgentEnds
  <2>4. i = 1 => u \in calls
    BY <1>3, LegFields DEF AgentEnds, LineOk, LegsFit, LegFits
  <2>5. UNCHANGED <<line, calls>>
    BY <1>3 DEF AgentEnds
  <2> QED
    BY <2>2, <2>3, <2>4, <2>5, LegMoves
<1>4. ASSUME NEW i \in DOMAIN legs[u], SocketFails(u, i) \/ SocketCloses(u, i) PROVE LineOk'
  BY <1>4, CleaningUp DEF SocketFails, SocketCloses
<1>5. ASSUME NEW i \in DOMAIN legs[u], Settles(u, i) \/ AnalysisEnds(u, i) PROVE LineOk'
  <2>1. PICK next \in {"analysing", "done"} : legs' = [ legs EXCEPT ![u][i].phase = next ]
    BY <1>5 DEF Settles, AnalysisEnds
  <2>2. PICK leg : leg = [ legs[u][i] EXCEPT !.phase = next ]
    OBVIOUS
  <2>3. leg \in LegType /\ leg.phase = next
    <3>1. PICK old \in LegType : old = legs[u][i]
      BY LegFields
    <3> QED
      BY <2>2, <3>1 DEF LegType
  <2>4. legs' = [legs EXCEPT ![u] = [legs[u] EXCEPT ![i] = leg]]
    BY <2>1, <2>2, LegFields
  <2> QED
    BY <1>5, <2>3, <2>4, LegMoves DEF Settles, AnalysisEnds
<1> QED
  BY <1>1, <1>2, <1>3, <1>4, <1>5 DEF Talks

----------------------------------------------------------------------------
(* The process.                                                             *)

LEMMA MailStays ==
  ASSUME MailOk, Grown, UNCHANGED <<box, coming, gen, login, conn, backoff, poll>>,
         watcher' \in {"off", "on", "dead"}, acts' \in Nat
  PROVE  MailOk'
<1>1. BoxOk' /\ GoesOn
  BY StillBoxOk DEF MailOk
<1>2. ConnOk' /\ PollsOk'
  BY <1>1, StillConnOk, StillPolls DEF MailOk
<1> QED
  BY <1>1, <1>2 DEF MailOk, MemoryOk

LEMMA MailAside ==
  ASSUME MailOk, Grown, UNCHANGED mailboxVars
  PROVE  MailOk'
  BY MailStays DEF mailboxVars, MailOk, MemoryOk

LEMMA ForwardAside ==
  ASSUME ForwardOk, Grown, UNCHANGED forwardingVars
  PROVE  ForwardOk'
  BY ForwardStays DEF forwardingVars, ForwardOk, ForwardingType

LEMMA LineAside ==
  ASSUME LineOk, UNCHANGED lineVars
  PROVE  LineOk'
  BY DEF lineVars, LineOk, LineType, LegsFit, LegFits, CleanedUpEarly

LEMMA RowsAside ==
  ASSUME RowsOk, UNCHANGED candidates, UNCHANGED faults \/ Fault,
         worker' \in {"up", "draining", "overdue", "down", "crashed"}
  PROVE  RowsOk' /\ Grown
<1>1. faults' \in Nat
  BY FaultsLeft
<1>2. FilingType'
  BY <1>1 DEF RowsOk, FilingType
<1> QED
  BY <1>2, Stays DEF RowsOk

Parts == RowsOk /\ MailOk /\ ForwardOk /\ LineOk

LEMMA InvParts == Inv <=> Parts
<1>1. Inv => Parts
  BY DEF Inv, Parts, TypeOK, RowsOk, MailOk, BoxOk, ConnOk, MemoryOk, PollsOk, Sound, ForwardOk, LineOk,
     MailboxType, PlansFit, Behind
<1>2. Parts => Inv
  BY DEF Inv, Parts, TypeOK, RowsOk, MailOk, BoxOk, ConnOk, MemoryOk, PollsOk, Sound, ForwardOk, LineOk,
     MailboxType, PlansFit, Behind
<1> QED
  BY <1>1, <1>2

LEMMA Beginnings == Init => Parts
<1>1. SUFFICES ASSUME Init PROVE Parts
  OBVIOUS
<1>2. PICK load \in Workloads : /\ FilingInit(load.faults) /\ MailboxInit(load.mails, load.connected, load.acts)
                                /\ ForwardingInit(load.forwarded) /\ LineInit(load.calls)
  BY <1>1 DEF Init
<1>3. /\ load.mails \in SUBSET Mails /\ load.acts \in Nat /\ load.faults \in Nat
  BY WorkloadAssumption
<1>4. RowsOk
  BY <1>2, <1>3 DEF FilingInit, RowsOk, FilingType, IdsAreUnique, Named
<1>5. MailOk
  <2>1. BoxOk
    BY <1>2, <1>3, PollAssumption DEF MailboxInit, BoxOk
  <2>2. ConnOk
    <3>1. conn \in ConnType /\ conn.numbered = 0
      BY <1>2, PollAssumption DEF MailboxInit, NewConnection, ConnType
    <3> QED
      BY <1>2, <3>1 DEF MailboxInit, ConnOk
  <2>3. MemoryOk
    BY <1>2, <1>3, PollAssumption DEF MailboxInit, MemoryOk, NoFailures
  <2>4. PollsOk
    <3>1. NoPoll \in PollType /\ NoPoll.at = "idle"
      BY DEF PollType, PollIdle, NoPoll
    <3>2. Sound(NoPoll)
      BY <3>1, AtRest
    <3> QED
      BY <1>2, <3>1, <3>2 DEF MailboxInit, PollsOk
  <2> QED
    BY <2>1, <2>2, <2>3, <2>4 DEF MailOk
<1>6. ForwardOk
  <2>1. alias \in AliasType
    BY <1>2 DEF ForwardingInit, AliasType
  <2>2. /\ session \in [Forwarded -> SessionType] /\ told \in [Forwarded -> {"retry", "accepted", "dropped", "elsewhere"}]
        /\ \A m \in Forwarded : session[m].at = "none" /\ told[m] # "accepted"
    BY <1>2, SessionKinds DEF ForwardingInit
  <2> QED
    BY <2>1, <2>2 DEF ForwardOk, ForwardingType, Fits, Filed
<1>7. LineOk
  BY <1>2 DEF LineInit, LineOk, LineType, LegsFit
<1> QED
  BY <1>4, <1>5, <1>6, <1>7 DEF Parts

\* What the process held is gone with it; what was read of the mailbox, too.
LEMMA Forgetting ==
  ASSUME Parts, Forgets, Grown
  PROVE  MailOk' /\ ForwardOk' /\ LineOk'
<1>1. MailOk'
  <2>1. BoxOk' /\ GoesOn
    BY StillBoxOk DEF Forgets, MailboxForgets, Parts, MailOk
  <2>2. ConnOk'
    BY <2>1, StillConnOk DEF Forgets, MailboxForgets, Parts, MailOk
  <2>3. NoPoll \in PollType /\ NoPoll.at = "idle" /\ poll' = [ p \in Pollers |-> NoPoll ]
    BY DEF Forgets, MailboxForgets, PollType, PollIdle, NoPoll
  <2>4. PollsOk'
    <3>1. Sound(NoPoll)'
      BY <2>3, AtRest
    <3> QED
      BY <2>3, <3>1 DEF PollsOk, Sound, Fits, OnTrack
  <2>5. MemoryOk'
    BY PollAssumption DEF Forgets, MailboxForgets, Parts, MailOk, MemoryOk, NoFailures
  <2> QED
    BY <2>1, <2>2, <2>4, <2>5 DEF MailOk
<1>2. ForwardOk'
  <2>1. /\ session' \in [Forwarded -> SessionType] /\ UNCHANGED <<alias, told>>
        /\ \A m \in Forwarded : session'[m].at = "none"
    BY SessionKinds DEF Forgets, ForwardingForgets
  <2> QED
    BY <2>1, WorkloadAssumption DEF Parts, ForwardOk, ForwardingType, Fits, Filed, Grown
<1>3. LineOk'
  <2>1. line' \in [ Calls -> {"ringing", "answered", "refused", "over"} ]
    BY DEF Forgets, LineDrops, Parts, LineOk, LineType
  <2> QED
    BY <2>1 DEF Forgets, LineDrops, LineOk, LineType, LegsFit
<1> QED
  BY <1>1, <1>2, <1>3

LEMMA Processing ==
  ASSUME Parts, Process
  PROVE  Parts'
<1>1. RowsOk' /\ Grown
  <2>1. UNCHANGED candidates /\ (UNCHANGED faults \/ Fault) /\ worker' \in {"up", "draining", "overdue", "down", "crashed"}
    BY DEF Process, Drains, DeadlinePasses, Exits, Crashes, Starts, Forgets
  <2> QED
    BY <2>1, RowsAside DEF Parts
<1>2. CASE Drains \/ DeadlinePasses \/ Starts
  <2>1. MailOk'
    BY <1>1, <1>2, MailStays DEF Drains, DeadlinePasses, Starts, mailboxVars, Parts, MailOk, MemoryOk
  <2>2. ForwardOk' /\ LineOk'
    BY <1>1, <1>2, ForwardAside, LineAside DEF Drains, DeadlinePasses, Starts, Parts
  <2> QED
    BY <1>1, <2>1, <2>2 DEF Parts
<1>3. CASE Exits \/ Crashes
  BY <1>1, <1>3, Forgetting DEF Exits, Crashes, Parts
<1> QED
  BY <1>2, <1>3 DEF Process

LEMMA TenantActs ==
  ASSUME Parts, Tenant
  PROVE  Parts'
<1>1. CASE People /\ UNCHANGED <<forwardingVars, lineVars>>
  BY <1>1, PeopleAct, ForwardAside, LineAside DEF Parts
<1>2. CASE EditsAlias /\ UNCHANGED lineVars
  <2>1. RowsOk' /\ Grown
    BY <1>2, RowsStay DEF EditsAlias, filingVars, Parts, RowsOk, FilingType
  <2>2. acts' \in Nat /\ acts \in Nat
    BY <1>2 DEF EditsAlias, Parts, MailOk, MemoryOk
  <2>3. MailOk'
    BY <1>2, <2>1, <2>2, MailStays DEF EditsAlias, Parts, MailOk, MemoryOk
  <2>4. alias' \in AliasType
    BY <1>2 DEF EditsAlias, Parts, ForwardOk, ForwardingType, AliasType
  <2>5. ForwardOk'
    BY <1>2, <2>1, <2>4, ForwardStays DEF EditsAlias, Parts
  <2> QED
    BY <1>2, <2>1, <2>3, <2>5, LineAside DEF Parts
<1>3. ASSUME NEW m \in Mails, AddedByHand(Mail[m].from), acts > 0, acts' = acts - 1,
             UNCHANGED <<box, coming, gen, login, conn, backoff, watcher, poll, forwardingVars, lineVars>>
      PROVE  Parts'
  <2>1. PICK row : row = [ person |-> Mail[m].from, job |-> DefaultJob, msgId |-> NoId, from |-> {} ]
    OBVIOUS
  <2>2. row \in RowType /\ row.msgId = NoId /\ row.msgId[1] = "none"
    <3>1. Mail[m].from \in STRING
      BY MailFields DEF MailType
    <3>2. NoId \in Ids /\ NoId[1] = "none"
      BY DEF Ids, NoId
    <3> QED
      BY <2>1, <3>1, <3>2 DEF RowType
  <2>3. candidates' = Append(candidates, row) /\ UNCHANGED <<worker, faults>>
    BY <1>3, <2>1 DEF AddedByHand
  <2>4. candidates' \in Seq(RowType) /\ IdsAreUnique' /\ Named' /\ Grown
    BY <2>2, <2>3, RowAppended DEF Parts
  <2>5. RowsOk'
    BY <2>3, <2>4 DEF RowsOk, FilingType, Parts
  <2>6. MailOk'
    BY <1>3, <2>4, MailStays DEF Parts, MailOk, MemoryOk
  <2> QED
    BY <1>3, <2>4, <2>5, <2>6, ForwardAside, LineAside DEF Parts
<1> QED
  BY <1>1, <1>2, <1>3 DEF Tenant

LEMMA Steps == Parts /\ [Next]_vars => Parts'
<1>1. SUFFICES ASSUME Parts, [Next]_vars PROVE Parts'
  OBVIOUS
<1>2. CASE Process
  BY <1>1, <1>2, Processing
<1>3. CASE World
  <2>1. MailOk' /\ RowsOk' /\ Grown
    BY <1>1, <1>3, Arriving, Renumbering DEF World, Parts
  <2> QED
    BY <1>1, <1>3, <2>1, ForwardAside, LineAside DEF World, Parts
<1>4. CASE Tenant
  BY <1>1, <1>4, TenantActs
<1>5. CASE Memory
  BY <1>1, <1>5, Remembering, ForwardAside, LineAside DEF Memory, Parts
<1>6. ASSUME NEW p \in Pollers, Poll(p) PROVE Parts'
  BY <1>1, <1>6, Beginning, Polling, ForwardAside, LineAside DEF Poll, Parts
<1>7. ASSUME NEW m \in Forwarded, Receive(m) PROVE Parts'
  BY <1>1, <1>7, Receiving, MailAside, LineAside DEF Receive, Parts
<1>8. ASSUME NEW u \in Calls, Call(u) PROVE Parts'
  <2>1. RowsOk' /\ Grown
    BY <1>1, <1>8, RowsStay DEF Call, filingVars, Parts, RowsOk, FilingType
  <2> QED
    BY <1>1, <1>8, <2>1, Talking, MailAside, ForwardAside DEF Call, Parts
<1>9. CASE UNCHANGED vars
  <2>1. RowsOk' /\ Grown
    BY <1>1, <1>9, RowsStay DEF vars, filingVars, Parts, RowsOk, FilingType
  <2> QED
    BY <1>1, <1>9, <2>1, MailAside, ForwardAside, LineAside DEF vars, Parts
<1> QED
  BY <1>1, <1>2, <1>3, <1>4, <1>5, <1>6, <1>7, <1>8, <1>9 DEF Next

LEMMA AlwaysInv == Spec => []Inv
<1>1. Init => Inv
  BY Beginnings, InvParts
<1>2. Inv /\ [Next]_vars => Inv'
  <2>1. Parts' => Inv'
    BY DEF Inv, Parts, TypeOK, RowsOk, MailOk, BoxOk, ConnOk, MemoryOk, PollsOk, Sound, ForwardOk, LineOk,
       MailboxType, PlansFit, Behind
  <2> QED
    BY <2>1, InvParts, Steps
<1> QED
  BY <1>1, <1>2, PTL DEF Spec

\* Types of the rows, of the mailbox and what the worker remembers of it, of
\* the sessions of sending servers and of the calls; and that a row a poll or a
\* session plans to write to is there, and no Message-ID in two rows
\* (createCandidate.js, poller.js, inboundSmtp.js, index.js).
THEOREM WorkerTypeCorrect == Spec => []TypeOK
<1>1. Inv => TypeOK
  BY DEF Inv
<1> QED
  BY <1>1, AlwaysInv, PTL

\* No application is lost: none that the watermark has passed (poller.js:
\* 202-238), none that its sender was told is accepted (inboundSmtp.js:161-178).
THEOREM MailIsNeverLost == Spec => []NoMailIsLost
<1>1. Inv => NoMailIsLost
  BY DEF Inv, Behind, Passed, Filed, NoMailIsLost, WatermarkIsBehind, AcceptedIsFiled
<1> QED
  BY <1>1, AlwaysInv, PTL

\* The table of calls holds every first stream that talks, so that the limit
\* and the shutdown see it, and a drained exit cuts none short that is talking
\* or being written, unless its cleanup ran early (index.js:60-113, shutdown.js:27-36).
THEOREM DrainedExitsWait == Spec => DrainedExitWaits
<1>1. Inv /\ [Next]_vars =>
        [ /\ \A u \in Calls : (legs'[u] # <<>> /\ legs'[u][1].phase = "talking") => u \in calls'
          /\ (worker = "draining" /\ worker' = "down") =>
               \A u \in Calls : Len(legs[u]) = 1 =>
                 /\ legs[u][1].phase # "talking"
                 /\ (legs[u][1].phase = "ending" => CleanedUpEarly(legs[u][1]))]_vars
  <2>1. SUFFICES ASSUME Inv, [Next]_vars
        PROVE  /\ \A u \in Calls : (legs'[u] # <<>> /\ legs'[u][1].phase = "talking") => u \in calls'
               /\ (worker = "draining" /\ worker' = "down") =>
                    \A u \in Calls : Len(legs[u]) = 1 =>
                      /\ legs[u][1].phase # "talking"
                      /\ (legs[u][1].phase = "ending" => CleanedUpEarly(legs[u][1]))
    OBVIOUS
  <2>2. LineOk /\ LineOk'
    BY <2>1, InvParts, Steps DEF Parts
  <2>3. \A u \in Calls : (legs'[u] # <<>> /\ legs'[u][1].phase = "talking") => u \in calls'
    BY <2>2 DEF LineOk, LegsFit, LegFits
  <2>4. ASSUME worker = "draining", worker' = "down" PROVE calls = {}
    BY <2>1, <2>4 DEF Next, vars, filingVars, Process, Drains, DeadlinePasses, Exits, Crashes, Starts, World, Tenant,
       People, Person, Pauses, Resumes, PasswordChanges, Reconnects, Disconnects, Connects, EditsAlias, AddedByHand,
       Memory, BackoffEnds, WatcherGivesUp, Poll, TickBegins, NudgeBegins, Polls, Fetches, IsLeftAlone, FetchFails,
       LooksUp, FilesOne, FilingFails, Commits, CommitFails, Reports, SyncsWatchers, Receive, IsAddressed, Delivers, DropsPaused,
       DropsHomeless, LooksUpForwarded, FilesForwarded, DeliveryFails, Accepts, Call
  <2>5. ASSUME calls = {}, NEW u \in Calls, Len(legs[u]) = 1
        PROVE  legs[u][1].phase # "talking" /\ (legs[u][1].phase = "ending" => CleanedUpEarly(legs[u][1]))
    <3>1. legs[u] # <<>>
      <4>1. Len(<<>>) = 0
        OBVIOUS
      <4> QED
        BY <2>5, <4>1
    <3> QED
      BY <2>2, <2>5, <3>1 DEF LineOk, LegsFit, LegFits
  <2> QED
    BY <2>3, <2>4, <2>5
<1> QED
  BY <1>1, AlwaysInv, PTL DEF Spec, DrainedExitWaits
=============================================================================
