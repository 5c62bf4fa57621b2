----------------------------- MODULE CallRules -----------------------------
(***************************************************************************)
(* The rules of an interview call that hold whatever the call is doing: its *)
(* stages, the tools the model is offered in each, the legal moves between  *)
(* stages, who counts as verified, how a finished call is classified and    *)
(* when it is billed.  They are pure functions in the worker                *)
(* (apps/worker/src/lib/states.js, sessionManager.js, callSession.js and    *)
(* packages/shared/src/interviewMinutes.ts) and operators on a session      *)
(* record here.                                                             *)
(***************************************************************************)
EXTENDS Naturals

CONSTANT Nobody     \* no candidate is attached to the call

States == {"GREET", "IDENTIFY", "VERIFY_EMAIL", "LANGUAGE_SELECT", "CONSENT_TIME",
           "CONSENT_RECORDING", "SCREEN", "CANDIDATE_QA", "CLOSE"}

\* The reasons a call can end with; "none" while it has not ended.
Outcomes == {"completed", "abandoned", "declined_consent", "call_back_later", "escalated",
             "technical_failure", "unknown_caller", "already_interviewed", "out_of_window"}

\* The tools offered to the model in each state.
ToolsByState ==
  [ GREET             |-> {},
    IDENTIFY          |-> {"provide_email", "end_call"},
    VERIFY_EMAIL      |-> {"confirm_email", "end_call"},
    LANGUAGE_SELECT   |-> {"select_language", "end_call"},
    CONSENT_TIME      |-> {"record_time_consent", "escalate"},
    CONSENT_RECORDING |-> {"record_recording_consent", "escalate"},
    SCREEN            |-> {"record_detail", "finish_screening", "escalate"},
    CANDIDATE_QA      |-> {"end_call", "escalate"},
    CLOSE             |-> {} ]

Tools == {"provide_email", "confirm_email", "select_language", "record_time_consent",
          "record_recording_consent", "record_detail", "finish_screening", "escalate", "end_call"}

Transitions ==
  [ GREET             |-> {"IDENTIFY", "VERIFY_EMAIL", "LANGUAGE_SELECT", "CONSENT_TIME", "CLOSE"},
    IDENTIFY          |-> {"LANGUAGE_SELECT", "CLOSE"},
    VERIFY_EMAIL      |-> {"LANGUAGE_SELECT", "CLOSE"},
    LANGUAGE_SELECT   |-> {"CONSENT_TIME", "CLOSE"},
    CONSENT_TIME      |-> {"CONSENT_RECORDING", "CLOSE"},
    CONSENT_RECORDING |-> {"SCREEN", "CLOSE"},
    SCREEN            |-> {"CANDIDATE_QA", "CLOSE"},
    CANDIDATE_QA      |-> {"CLOSE"},
    CLOSE             |-> {} ]

CanTransition(from, to) == to \in Transitions[from]

\* sessionManager.setState: a move the table does not list is refused.
SetState(s, to) == IF CanTransition(s.state, to) THEN [s EXCEPT !.state = to] ELSE s

\* Mutation of Finish: the last outcome wins.
FinishAnyway(s, outcome) == [s EXCEPT !.ended = TRUE, !.outcome = outcome, !.state = "CLOSE"]

\* sessionManager.finish: only the first call of it does anything.
Finish(s, outcome) ==
  IF s.ended THEN s ELSE [s EXCEPT !.ended = TRUE, !.outcome = outcome, !.state = "CLOSE"]

\* Who may be interviewed.
IsVerified(s, requireApproval) ==
  /\ s.candidate # Nobody
  /\ requireApproval => s.approved
  /\ ~s.alreadyInterviewed
  /\ s.language

\* What the call row says of the call once it is over.
Statuses == {"completed", "unknown_caller", "out_of_window", "declined_consent", "dropped"}

\* Mutation of DeriveCallStatus: the outcome is taken for the status.
OutcomeAsStatus(s) == IF s.outcome = "already_interviewed" THEN "completed" ELSE s.outcome

DeriveCallStatus(s) ==
  CASE s.outcome \in {"completed", "already_interviewed"} -> "completed"
    [] s.outcome \in {"unknown_caller", "out_of_window", "declined_consent"} -> s.outcome
    [] s.outcome = "abandoned" /\ s.screeningFinished /\ s.questions > 0 -> "completed"
    [] OTHER -> "dropped"

\* Mutation of IsBillableCall: a call is charged however it ended.
BillableHoweverItEnded(s, status, producesReport) ==
  producesReport /\ s.recognised /\ s.candidate # Nobody /\ s.questions > 0

\* A call is charged when it is over, its status is `completed`, it was put to a
\* recognised candidate of a workspace, it will yield a report and it lasted.
\* The minutes run from the first question, so they are positive exactly when
\* there was one.
IsBillableCall(s, status, producesReport) ==
  /\ producesReport
  /\ status = "completed"
  /\ s.recognised
  /\ s.candidate # Nobody
  /\ s.questions > 0

\* A call nobody could be matched to, for the admin panel's log.
Stray(s) ==
  \/ s.outcome = "unknown_caller"
  \/ s.candidate = Nobody /\ s.outcome \notin {"technical_failure", "out_of_window"}
=============================================================================
