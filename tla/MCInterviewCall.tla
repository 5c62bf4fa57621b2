-------------------------- MODULE MCInterviewCall --------------------------
(***************************************************************************)
(* InterviewCall for TLC: what the candidate lookups may answer.            *)
(***************************************************************************)
EXTENDS InterviewCall

CONSTANTS asha, bina     \* two candidates on the books

\* A candidate free to be interviewed.
Plain(who) == [ who |-> who, approved |-> TRUE, hasCompleted |-> FALSE,
                paused |-> FALSE, inWindow |-> TRUE, emailOnFile |-> TRUE ]

OnePlain == {Plain(asha)}

\* The two of them, and every reason not to interview a candidate.
Everyone ==
  { Plain(asha),
    [Plain(bina) EXCEPT !.emailOnFile = FALSE],
    [Plain(bina) EXCEPT !.hasCompleted = TRUE],
    [Plain(bina) EXCEPT !.paused = TRUE, !.approved = FALSE],
    [Plain(bina) EXCEPT !.inWindow = FALSE, !.approved = FALSE] }
=============================================================================
