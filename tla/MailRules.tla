----------------------------- MODULE MailRules -----------------------------
(***************************************************************************)
(* What the worker reads out of one message: whether it is an application, *)
(* who sent it, and which open job it is for.  Pure functions of the       *)
(* message; nothing here has state.                                        *)
(*                                                                         *)
(* A mail is a record of what the rules tell apart.  Words of subjects and *)
(* titles are members of a small set; the lists of robot senders, bulk     *)
(* headers and application terms are the Boolean fields they decide.       *)
(***************************************************************************)
EXTENDS Integers, FiniteSets

CONSTANTS
  Owner,          \* the mailbox's own address
  OpenJobs,       \* the jobs auto-routing may choose from
  TitleWords,     \* the distinctive words of each job's title and slug
  MatchThreshold, \* setting email.route_threshold
  DefaultJob      \* the job a mailbox files into when no other is named

ASSUME RoutingAssumption == IsFiniteSet(OpenJobs) /\ MatchThreshold \in Nat

NoJob == "no job"

\* A Forward rule sends from the mailbox's own address; the applicant is in
\* the quoted header block, if there is one.
Unwrapped(mail) ==
  IF mail.from = Owner /\ mail.quoted # Owner THEN [ mail EXCEPT !.from = mail.quoted ] ELSE mail

\* Bulk mail and automated senders are out unless a file names itself a
\* resume; then any document will do, or wording about applying.
IsApplication(mail) ==
  /\ (mail.bulk \/ mail.robot) => mail.document = "resume"
  /\ mail.document # "none" \/ mail.applies

\* Own mail is a forward, a reply or an auto-response.
Ingestible(mail) == mail.from # Owner /\ IsApplication(mail)

AtMost(limit, n) == IF n > limit THEN limit ELSE n

\* Coverage of the title by the subject, 70 points rounded; the whole title
\* in the subject, 30; words of the body only break ties.
Score(job, mail) ==
  LET words == TitleWords[job]
      inSubject == Cardinality(words \intersect mail.subject)
      inBody == Cardinality((words \ mail.subject) \intersect mail.body)
  IN IF inSubject + inBody = 0 THEN 0
     ELSE AtMost(100, (140 * inSubject + Cardinality(words)) \div (2 * Cardinality(words))
                        + (IF job = mail.titled THEN 30 ELSE 0)
                        + 4 * AtMost(3, inBody))

\* One job must score best, alone, and at least the threshold.
Matched(mail) ==
  LET best == { j \in OpenJobs : \A k \in OpenJobs : Score(k, mail) <= Score(j, mail) }
  IN IF \E j \in best : best = {j} /\ Score(j, mail) > 0 /\ Score(j, mail) >= MatchThreshold
     THEN CHOOSE j \in best : TRUE
     ELSE NoJob

\* The job a mail is filed into: the match if the mailbox routes, else the default.
JobFor(mail, autoRoute) ==
  IF autoRoute /\ Matched(mail) # NoJob THEN Matched(mail) ELSE DefaultJob
=============================================================================
