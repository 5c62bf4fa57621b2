------------------------------ MODULE MCWorker ------------------------------
(***************************************************************************)
(* Small instances of Worker for TLC: two mails and a forward of one       *)
(* person, one mail without a Message-ID, one from a robot, and two calls, *)
(* in the loads below.                                                     *)
(***************************************************************************)
EXTENDS Worker, TLC

Plain == [ hasId |-> TRUE, from |-> "p1", quoted |-> "owner", bulk |-> FALSE, robot |-> FALSE,
           document |-> "file", applies |-> TRUE, subject |-> {"qa"}, body |-> {}, titled |-> NoJob ]

MCMail == [ m \in Mails |->
  CASE m = "first" -> Plain
    [] m = "again" -> [ Plain EXCEPT !.document = "resume", !.bulk = TRUE, !.subject = {}, !.body = {"qa"} ]
    [] m = "other" -> [ Plain EXCEPT !.from = "p2", !.hasId = FALSE, !.document = "none", !.subject = {"j2"} ]
    [] m = "news"  -> [ Plain EXCEPT !.from = "p3", !.robot = TRUE ]
    [] m = "quoting" -> [ Plain EXCEPT !.from = "owner", !.quoted = "p1" ] ]

MCTitleWords == [ j \in OpenJobs |-> {"qa", j} ]

NoLoad == [ mails |-> {}, forwarded |-> {}, calls |-> {}, connected |-> FALSE, acts |-> 0, faults |-> 0 ]

MCWorkloads ==
  { [ NoLoad EXCEPT !.mails = {"first", "again"}, !.connected = TRUE ],
    [ NoLoad EXCEPT !.mails = {"first", "news"}, !.connected = TRUE, !.faults = 1 ],
    [ NoLoad EXCEPT !.mails = {"first", "news", "quoting"}, !.connected = TRUE ],
    [ NoLoad EXCEPT !.mails = {"other"}, !.connected = TRUE, !.faults = 1 ],
    [ NoLoad EXCEPT !.mails = {"first"}, !.connected = TRUE, !.acts = 1 ],
    [ NoLoad EXCEPT !.mails = {"first"}, !.acts = 1, !.faults = 1 ],
    [ NoLoad EXCEPT !.forwarded = {"first", "quoting"}, !.acts = 1, !.faults = 2 ],
    [ NoLoad EXCEPT !.calls = Calls, !.faults = 1 ] }

\* One mailbox that is interfered with in every way, for what must happen in the end.
FairWorkloads ==
  { [ NoLoad EXCEPT !.mails = {"first", "again"}, !.connected = TRUE ],
    [ NoLoad EXCEPT !.mails = {"first"}, !.connected = TRUE, !.acts = 1, !.faults = 1 ],
    [ NoLoad EXCEPT !.forwarded = {"first", "quoting"}, !.faults = 1 ] }

\* Polls, and calls, differ in nothing but their name.
WorkerSymmetry == Permutations(Pollers) \union Permutations(Calls)
=============================================================================
