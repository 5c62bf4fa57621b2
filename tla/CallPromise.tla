---------------------------- MODULE CallPromise ----------------------------
(***************************************************************************)
(* What the line promises of a call, whoever is on it and however it goes:  *)
(* it ends once, for one reason; it is settled once, and only then decided  *)
(* whether it is worth a report; a charge, at most one, is for a call that  *)
(* was worth a report and ran to its end; and every report that is due is   *)
(* written or known to be lost.  InterviewCall is shown to implement this.  *)
(***************************************************************************)
EXTENDS Naturals

CONSTANT Outcomes

VARIABLES stage,     \* "live", then "over", then "settled"
          outcome,   \* why it ended
          asked,     \* was the caller asked a question?
          due,       \* is a report due?
          charges,   \* how many times the workspace was charged
          report     \* "none" until it is "written" or "lost"

promise == <<stage, outcome, asked, due, charges, report>>

Init ==
  /\ stage = "live" /\ outcome = "none" /\ asked = FALSE
  /\ due = FALSE /\ charges = 0 /\ report = "none"

\* A question may be the last thing that happens in the call.
Ask == asked' \in {asked, TRUE}

Talk == stage = "live" /\ Ask /\ UNCHANGED <<stage, outcome, due, charges, report>>

End ==
  /\ stage = "live" /\ stage' = "over"
  /\ outcome' \in Outcomes
  /\ Ask
  /\ UNCHANGED <<due, charges, report>>

\* Settling a call that is not over ends it.
Settle ==
  /\ stage # "settled" /\ stage' = "settled"
  /\ outcome' \in (IF stage = "live" THEN Outcomes ELSE {outcome})
  /\ due' \in {FALSE, asked}
  /\ UNCHANGED <<asked, charges, report>>

Charge ==
  /\ stage = "settled" /\ due /\ charges = 0
  /\ outcome \in {"completed", "abandoned"}
  /\ charges' = 1
  /\ UNCHANGED <<stage, outcome, asked, due, report>>

Report ==
  /\ stage = "settled" /\ due /\ report = "none"
  /\ report' \in {"written", "lost"}
  /\ UNCHANGED <<stage, outcome, asked, due, charges>>

Next == Talk \/ End \/ Settle \/ Charge \/ Report

Safely == Init /\ [][Next]_promise

Spec == Safely /\ WF_promise(stage = "over" /\ Settle) /\ WF_promise(Report)
=============================================================================
