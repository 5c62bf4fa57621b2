----------------------- MODULE InterviewCall_proofs -----------------------
(***************************************************************************)
(* Theorems about InterviewCall, for every set of candidates, whatever the  *)
(* lookups answer, every setting and every set of faults.                   *)
(*                                                                          *)
(* The handlers of a call hand the session from one to the next, so the     *)
(* argument is about one relation between sessions: t Follows s when t is   *)
(* well formed and has not unsaid the end of s.  Every helper on sessions   *)
(* is shown to lead to a session that follows its argument, then every      *)
(* helper on turns to keep the turn well formed, then every action both.    *)
(***************************************************************************)
EXTENDS InterviewCall, TLAPS

----------------------------------------------------------------------------
(* Sessions.                                                                *)

\* A session is well formed: it has its type, and once ended it is in CLOSE and has an
\* outcome.
WellFormed(s) == s \in SessionType /\ (s.ended => s.state = "CLOSE" /\ s.outcome # "none")

\* t is well formed and, if s had ended, t has ended with the same outcome.
Follows(s, t) ==
  /\ WellFormed(t)
  /\ s.ended => t.ended /\ t.outcome = s.outcome

\* setState keeps a session well formed: from CLOSE no move is legal.
LEMMA SetStateFollows ==
  \A s, t, to : Follows(s, t) /\ to \in States => Follows(s, SetState(t, to))
BY DEF Follows, WellFormed, SessionType, SetState, CanTransition, Transitions, States

\* finish keeps the first outcome, and leaves the session ended.
LEMMA FinishFollows ==
  \A s, t, o : Follows(s, t) /\ o \in Outcomes => Follows(s, Finish(t, o)) /\ Finish(t, o).ended
<1> SUFFICES ASSUME NEW s, NEW t, NEW o, Follows(s, t), o \in Outcomes
             PROVE  Follows(s, Finish(t, o)) /\ Finish(t, o).ended
  OBVIOUS
<1>1. CASE t.ended
  BY <1>1 DEF Follows, Finish
<1>2. CASE ~t.ended
  <2> DEFINE u == [t EXCEPT !.ended = TRUE, !.outcome = o, !.state = "CLOSE"]
  <2>1. u \in SessionType
    BY Zenon DEF Follows, WellFormed, SessionType, States
  <2>2. u.ended /\ u.state = "CLOSE" /\ u.outcome = o
    BY Zenon DEF Follows, WellFormed, SessionType
  <2>3. o # "none"
    BY DEF Outcomes
  <2> QED
    BY <1>2, <2>1, <2>2, <2>3, Zenon DEF Follows, WellFormed, Finish
<1> QED BY <1>1, <1>2

\* What only touches other fields keeps the end of the call.
LEMMA OtherFieldsFollow ==
  \A s, t, u : /\ Follows(s, t) /\ u \in SessionType
               /\ u.state = t.state /\ u.ended = t.ended /\ u.outcome = t.outcome
               => Follows(s, u)
BY DEF Follows, WellFormed

\* Attaching a candidate is such a step,
LEMMA AttachFollows ==
  \A s, t, found : Follows(s, t) /\ found \in Lookups => Follows(s, Attach(t, found))
<1> SUFFICES ASSUME NEW s, NEW t, Follows(s, t), NEW found \in LookupType
             PROVE  Follows(s, Attach(t, found))
  BY LookupsAssumption
<1>1. Attach(t, found) \in SessionType
  BY Zenon DEF Follows, WellFormed, SessionType, LookupType, Attach
<1>2. /\ Attach(t, found).ended = t.ended
      /\ Attach(t, found).outcome = t.outcome
      /\ Attach(t, found).state = t.state
  BY Zenon DEF Follows, WellFormed, SessionType, Attach
<1> QED
  BY <1>1, <1>2, OtherFieldsFollow

\* counting a question is,
LEMMA AskedFollows ==
  \A s, t : \A spoke \in BOOLEAN : Follows(s, t) => Follows(s, Asked(t, spoke))
BY SettingsAssumption DEF Follows, WellFormed, SessionType, Asked

\* counting a wrong address is,
LEMMA AttemptFollows ==
  \A s, t : Follows(s, t) => Follows(s, [t EXCEPT !.emailAttempts = @ + 1])
BY DEF Follows, WellFormed, SessionType

\* and so is setting a flag,
LEMMA FlagsFollow ==
  \A s, t : \A b \in BOOLEAN : Follows(s, t) =>
    /\ Follows(s, [t EXCEPT !.listenOnly = b])
    /\ Follows(s, [t EXCEPT !.recognised = b])
    /\ Follows(s, [t EXCEPT !.callId = b])
    /\ Follows(s, [t EXCEPT !.emailVerified = b])
    /\ Follows(s, [t EXCEPT !.language = b])
    /\ Follows(s, [t EXCEPT !.timeConsent = b])
    /\ Follows(s, [t EXCEPT !.screeningFinished = b])
    /\ Follows(s, [t EXCEPT !.aiDisclosureGiven = b])
BY DEF Follows, WellFormed, SessionType

\* or two of them at once.
LEMMA TwoFlagsFollow ==
  \A s, t : Follows(s, t) =>
    /\ Follows(s, [t EXCEPT !.recognised = TRUE, !.emailVerified = TRUE])
    /\ Follows(s, [t EXCEPT !.recordingConsent = TRUE, !.deadline = TRUE])
<1> SUFFICES ASSUME NEW s, NEW t, Follows(s, t)
             PROVE  /\ Follows(s, [t EXCEPT !.recognised = TRUE, !.emailVerified = TRUE])
                    /\ Follows(s, [t EXCEPT !.recordingConsent = TRUE, !.deadline = TRUE])
  OBVIOUS
<1>1. Follows(s, [t EXCEPT !.recognised = TRUE, !.emailVerified = TRUE])
  BY Zenon DEF Follows, WellFormed, SessionType
<1>2. Follows(s, [t EXCEPT !.recordingConsent = TRUE, !.deadline = TRUE])
  BY Zenon DEF Follows, WellFormed, SessionType
<1> QED
  BY <1>1, <1>2

----------------------------------------------------------------------------
(* Turns.                                                                   *)

\* The turn, what waits for it and the disclosure have their types.
SpeechOK ==
  /\ turn \in TurnType
  /\ pending \in BOOLEAN
  /\ disclosure \in {"unsaid", "saying", "sent", "cut"}

\* A turn that is over, has one thing left to do, or is about to begin is a turn.
LEMMA FreshTurns ==
  /\ NoTurn \in TurnType
  /\ \A phase \in {"reprompt", "sorry", "apology", "draining"} :
       [NoTurn EXCEPT !.phase = phase] \in TurnType
  /\ \A s \in SessionType : TurnFor(s) \in TurnType
<1>1. 0 \in 0 .. MaxToolChain
  BY SettingsAssumption
<1> QED
  BY <1>1, ZenonT(60) DEF NoTurn, TurnFor, TurnType, SessionType, States

\* Taking up what was said keeps the turn well formed.
LEMMA PumpKeepsSpeech ==
  ASSUME SpeechOK, NEW s \in SessionType, Pump(s)
  PROVE  SpeechOK'
BY FreshTurns DEF SpeechOK, Pump, CutSpeech

\* So does ending a turn,
LEMMA TurnOverKeepsSpeech ==
  ASSUME SpeechOK, NEW s \in SessionType, TurnOver(s)
  PROVE  SpeechOK'
BY PumpKeepsSpeech, FreshTurns DEF SpeechOK, TurnOver

\* leaving it with one thing to do,
LEMMA OnlyKeepsSpeech ==
  ASSUME SpeechOK, NEW phase \in {"reprompt", "sorry", "apology", "draining"}, Only(phase)
  PROVE  SpeechOK'
BY FreshTurns DEF SpeechOK, Only

\* returning from runTurn,
LEMMA ReturnKeepsSpeech ==
  ASSUME SpeechOK, NEW s \in SessionType, Return(s)
  PROVE  SpeechOK'
BY OnlyKeepsSpeech, TurnOverKeepsSpeech DEF Return

\* suspending a tool on the database,
LEMMA SuspendKeepsSpeech ==
  ASSUME SpeechOK, NEW phase \in {"lookup", "opening", "patching"}, NEW spoke \in BOOLEAN,
         Suspend(phase, spoke)
  PROVE  SpeechOK'
<1>1. [turn EXCEPT !.phase = phase, !.spoke = spoke, !.text = FALSE] \in TurnType
  BY Zenon DEF SpeechOK, TurnType
<1> QED
  BY <1>1 DEF SpeechOK, Suspend

\* and whatever follows a tool: another call of the model, an apology or the end.
LEMMA AfterToolKeepsSpeech ==
  ASSUME SpeechOK, NEW s \in SessionType, NEW spoke \in BOOLEAN, AfterTool(s, spoke)
  PROVE  SpeechOK'
<1>1. CASE turn.depth + 1 < MaxToolChain /\ (s.ended => ~spoke)
  <2>1. turn.depth + 1 \in 0 .. MaxToolChain
    BY <1>1, SettingsAssumption DEF SpeechOK, TurnType
  <2>2. NextModelCall(s, spoke) \in TurnType
    BY <2>1, ZenonT(60) DEF SpeechOK, NextModelCall, TurnType, SessionType
  <2> QED
    BY <1>1, <2>2 DEF SpeechOK, AfterTool
<1>2. CASE ~(turn.depth + 1 < MaxToolChain /\ (s.ended => ~spoke))
  BY <1>2, ReturnKeepsSpeech, OnlyKeepsSpeech DEF AfterTool
<1> QED
  BY <1>1, <1>2

\* An aborted turn is a turn.
LEMMA AbortedIsTurn == \A t \in TurnType : Aborted(t) \in TurnType
BY ZenonT(60) DEF Aborted, TurnType

----------------------------------------------------------------------------
(* What a tool, and the finaliser, leave behind.                            *)

\* The session has moved on to one that follows it, and the turn is a turn.
Moved(s) == Follows(s, session') /\ SpeechOK'

\* A tool that ends at once,
LEMMA ResultMoves ==
  ASSUME SpeechOK, NEW s, NEW t, Follows(s, t), NEW spoke \in BOOLEAN, Result(t, spoke)
  PROVE  Moved(s)
BY AfterToolKeepsSpeech DEF Moved, Result, Follows, WellFormed

\* one that patches the row first,
LEMMA ResultThenPatchMoves ==
  ASSUME SpeechOK, NEW s, NEW t, Follows(s, t), NEW spoke \in BOOLEAN, ResultThenPatch(t, spoke)
  PROVE  Moved(s)
BY ResultMoves, SuspendKeepsSpeech DEF Moved, ResultThenPatch

\* one that looks a candidate up first,
LEMMA ResultAfterLookupMoves ==
  ASSUME SpeechOK, NEW s, NEW t, Follows(s, t), NEW spoke \in BOOLEAN, ResultAfterLookup(t, spoke)
  PROVE  Moved(s)
BY SuspendKeepsSpeech DEF Moved, ResultAfterLookup

\* and one that has found the candidate, all move the session on.
LEMMA AdmitMoves ==
  ASSUME SpeechOK, NEW s, NEW t, Follows(s, t), Admit(t)
  PROVE  Moved(s)
<1>1. turn.spoke \in BOOLEAN
  BY DEF SpeechOK, TurnType
<1>2. Follows(s, SetState(t, "LANGUAGE_SELECT"))
  BY SetStateFollows DEF Follows, States
<1> QED
  BY <1>1, <1>2, ResultMoves, SuspendKeepsSpeech DEF Moved, Admit

\* What the session, the turns and the rest of the call have to be before a step ...
Sound == TypeOK /\ WellFormed(session)

\* ... and what a step has to make of them.
StepOK == TypeOK' /\ Follows(session, session')

\* The parts of TypeOK that the finaliser changes, ...
SettledOK ==
  /\ clock \in [idle: BOOLEAN, overdue: BOOLEAN]
  /\ fin \in FinType
  /\ ledger \in LedgerType

\* ... and with them all that no turn changes.
RestOK ==
  /\ setup \in SetupType
  /\ aside \in [wrap: {"no", "closing"}, fail: {"no", "saying", "draining"}]
  /\ SettledOK

\* The parts make the whole.
LEMMA SoundParts ==
  Sound => Follows(session, session) /\ session \in SessionType /\ SpeechOK /\ RestOK
BY DEF Follows, Sound, TypeOK, SpeechOK, RestOK, SettledOK, WellFormed

LEMMA StepParts ==
  ASSUME Follows(session, session'), SpeechOK', RestOK'
  PROVE  StepOK
BY DEF StepOK, TypeOK, SpeechOK, RestOK, SettledOK, Follows, WellFormed

\* A step of a turn that moves the session on is sound.
LEMMA TurnStep ==
  ASSUME Sound, Moved(session), TurnOnly
  PROVE  StepOK
BY SoundParts, StepParts DEF Moved, TurnOnly, RestOK, SettledOK

\* The status a session is classified with is a status of the call row.
LEMMA DerivedIsStatus == \A s \in SessionType : DeriveCallStatus(s) \in Statuses
BY DEF DeriveCallStatus, Statuses, SessionType

\* Leaving keeps the finaliser's record and the ledger well formed, ...
LEMMA LeaveKeeps ==
  ASSUME NEW f \in FinType, NEW l \in LedgerType, Leave(f, l)
  PROVE  fin' \in FinType /\ ledger' \in LedgerType
<1>1. [f EXCEPT !.phase = "done"] \in FinType
  BY Zenon DEF FinType
<1>2. \A r \in {"running", l.report} : [l EXCEPT !.report = r] \in LedgerType
  BY Zenon DEF LedgerType
<1> QED
  BY <1>1, <1>2, Zenon DEF Leave

\* so does logging a stray on the way out, ...
LEMMA LogOrLeaveKeeps ==
  ASSUME NEW s \in SessionType, NEW f \in FinType, NEW l \in LedgerType, LogOrLeave(s, f, l)
  PROVE  fin' \in FinType /\ ledger' \in LedgerType
<1>1. [f EXCEPT !.phase = "logging"] \in FinType
  BY Zenon DEF FinType
<1> QED
  BY <1>1, LeaveKeeps DEF LogOrLeave

\* and so does the first step of the finaliser.
LEMMA FinaliseKeeps ==
  ASSUME Sound, NEW o \in Outcomes \cup {"none"}, Finalise(session, o)
  PROVE  Follows(session, session') /\ SettledOK'
<1> DEFINE last == Finish(session, IF o = "none" THEN "abandoned" ELSE o)
           f    == [ phase |-> "patching", producesReport |-> ProducesReport(last),
                     status |-> IF last.callId THEN DeriveCallStatus(last) ELSE "none" ]
<1>1. Follows(session, last) /\ last \in SessionType
  BY SoundParts, FinishFollows DEF Outcomes, Follows, WellFormed
<1>2. f \in FinType
  <2>1. ProducesReport(last) \in BOOLEAN
    BY DEF ProducesReport, IsVerified
  <2> HIDE DEF last
  <2> QED
    BY <1>1, <2>1, DerivedIsStatus DEF FinType
<1>3. session' = last
  BY DEF Finalise
<1>4. clock' \in [idle: BOOLEAN, overdue: BOOLEAN]
  BY SoundParts DEF Finalise, RestOK, SettledOK
<1>5. fin' \in FinType /\ ledger' \in LedgerType
  <2>1. CASE last.callId
    BY <1>2, <2>1, SoundParts DEF Finalise, RestOK, SettledOK
  <2>2. CASE ~last.callId
    <3>1. LogOrLeave(last, f, ledger)
      BY <2>2 DEF Finalise
    <3> QED
      BY <1>1, <1>2, <3>1, LogOrLeaveKeeps, SoundParts DEF RestOK, SettledOK
  <2> QED
    BY <2>1, <2>2
<1> QED
  BY <1>1, <1>3, <1>4, <1>5 DEF SettledOK

\* Called a second time, finalise changes nothing.
LEMMA FinaliseOnceKeeps ==
  ASSUME Sound, NEW o \in Outcomes \cup {"none"}, FinaliseOnce(o)
  PROVE  Follows(session, session') /\ SettledOK'
<1>1. CASE fin.phase = "no"
  BY <1>1, FinaliseKeeps DEF FinaliseOnce
<1>2. CASE fin.phase # "no"
  BY <1>2, SoundParts DEF FinaliseOnce, RestOK, SettledOK
<1> QED
  BY <1>1, <1>2

\* Silencing the line leaves a turn a turn, and the disclosure where it may be.
LEMMA HushKeeps ==
  ASSUME Sound, Hush
  PROVE  turn' \in TurnType /\ disclosure' \in {"unsaid", "saying", "sent", "cut"}
BY SoundParts, AbortedIsTurn DEF Hush, SpeechOK

----------------------------------------------------------------------------
(* The actions: setting up the call.                                        *)

\* Up to the answer of the lookup a call is set up without a candidate, and every
\* way to go on from there leaves a well-formed call.
LEMMA BeginSteps == ASSUME Sound, Begin PROVE StepOK
<1>1. [setup EXCEPT !.phase = "lookup"] \in SetupType
  BY SoundParts DEF RestOK, SetupType
<1>2. Follows(session, session') /\ SpeechOK'
  BY SoundParts DEF Begin, SpeechOK
<1> QED
  BY <1>1, <1>2, SoundParts, StepParts DEF Begin, RestOK, SettledOK

\* A step that sets the call up and leaves the turn, the finaliser and the ledger alone.
LEMMA LookedUpStep ==
  ASSUME Sound, CallerLookedUp, Follows(session, session'), setup' \in SetupType,
         disclosure' \in {disclosure, "saying"}
  PROVE  StepOK
BY SoundParts, StepParts DEF CallerLookedUp, Rest, RestOK, SettledOK, SpeechOK

\* Where setting up goes from the lookup.
LEMMA SetupMoves ==
  ASSUME Sound
  PROVE  \A phase \in {"lookup", "opening", "greeting", "greeted", "done"} :
           [setup EXCEPT !.phase = phase] \in SetupType
BY SoundParts DEF RestOK, SetupType

LEMMA ListenOnlySteps == ASSUME Sound, ListenOnly PROVE StepOK
<1>1. Follows(session, SetState([session EXCEPT !.listenOnly = TRUE], "CLOSE"))
  <2>1. Follows(session, [session EXCEPT !.listenOnly = TRUE])
    BY SoundParts, FlagsFollow
  <2> QED
    BY <2>1, SetStateFollows DEF States
<1> QED
  BY <1>1, SetupMoves, LookedUpStep DEF ListenOnly

LEMMA RefusePausedSteps == ASSUME Sound, RefusePaused PROVE StepOK
<1>1. Follows(session, Finish(SetState(session, "CLOSE"), "unknown_caller"))
  <2>1. Follows(session, SetState(session, "CLOSE"))
    BY SoundParts, SetStateFollows DEF States
  <2> QED
    BY <2>1, FinishFollows DEF Outcomes
<1> QED
  BY <1>1, SetupMoves, LookedUpStep DEF RefusePaused

LEMMA LetInSteps ==
  ASSUME Sound, NEW found \in Lookups, NEW then \in {"already", "window", "greet"},
         LetIn(found, then)
  PROVE  StepOK
<1>1. Follows(session, [Attach(session, found) EXCEPT !.recognised = TRUE])
  BY SoundParts, AttachFollows, FlagsFollow
<1> QED
  BY <1>1, LookedUpStep DEF LetIn, SetupType

LEMMA DoNotRecogniseSteps == ASSUME Sound, DoNotRecognise PROVE StepOK
<1>1. Follows(session, session')
  BY SoundParts, SetStateFollows DEF DoNotRecognise, Greet, States
<1> QED
  BY <1>1, SetupMoves, LookedUpStep DEF DoNotRecognise, Greet

LEMMA RowOpenedSteps == ASSUME Sound, RowOpened PROVE StepOK
<1>1. PICK saved \in Saves :
        LET s == [session EXCEPT !.callId = saved]
        IN  /\ ledger' = IF saved THEN Opened(ledger, session.candidate) ELSE ledger
            /\ IF setup.then = "greet"
               THEN Greet(SetState(s, FirstState))
               ELSE /\ session' = Finish(SetState(s, "CLOSE"),
                                         IF setup.then = "already" THEN "already_interviewed"
                                                                   ELSE "out_of_window")
                    /\ setup' = [setup EXCEPT !.phase = "done"]
                    /\ UNCHANGED disclosure
  BY DEF RowOpened
<1> DEFINE s == [session EXCEPT !.callId = saved]
<1>2. Follows(session, s)
  BY SoundParts, FlagsFollow DEF Saves
<1>3. /\ Follows(session, session') /\ setup' \in SetupType
      /\ disclosure' \in {disclosure, "saying"}
  <2>1. CASE setup.then = "greet"
    <3>1. Greet(SetState(s, FirstState))
      BY <1>1, <2>1
    <3>2. FirstState \in States
      BY DEF FirstState, States
    <3>3. Follows(session, SetState(s, FirstState))
      BY <1>2, <3>2, SetStateFollows
    <3> QED
      BY <3>1, <3>3, SetupMoves DEF Greet
  <2>2. CASE setup.then # "greet"
    <3> DEFINE outcome == IF setup.then = "already" THEN "already_interviewed" ELSE "out_of_window"
    <3>1. Follows(session, SetState(s, "CLOSE"))
      BY <1>2, SetStateFollows DEF States
    <3>2. Follows(session, Finish(SetState(s, "CLOSE"), outcome))
      BY <3>1, FinishFollows DEF Outcomes
    <3>3. /\ session' = Finish(SetState(s, "CLOSE"), outcome)
          /\ setup' = [setup EXCEPT !.phase = "done"]
          /\ UNCHANGED disclosure
      BY <1>1, <2>2
    <3> QED
      BY <3>2, <3>3, SetupMoves
  <2> QED
    BY <2>1, <2>2
<1>4. ledger' \in LedgerType
  <2>1. session.candidate \in Candidates \cup {Nobody} /\ ledger \in LedgerType
    BY SoundParts DEF SessionType, RestOK, SettledOK
  <2>2. Opened(ledger, session.candidate) \in LedgerType
    BY <2>1, Zenon DEF Opened, LedgerType, Statuses
  <2> QED
    BY <1>1, <2>1, <2>2
<1> QED
  BY <1>3, <1>4, SoundParts, StepParts DEF RowOpened, RestOK, SettledOK, SpeechOK

LEMMA GreetingSaidSteps == ASSUME Sound, GreetingSaid PROVE StepOK
<1>1. setup' \in SetupType
  BY SetupMoves DEF GreetingSaid
<1> QED
  BY <1>1, SoundParts, StepParts DEF GreetingSaid, RestOK, SettledOK, SpeechOK

LEMMA FirstTurnSteps == ASSUME Sound, FirstTurn PROVE StepOK
<1>1. setup' \in SetupType /\ Follows(session, session')
  BY SoundParts, SetupMoves DEF FirstTurn
<1>2. SpeechOK'
  BY SoundParts, PumpKeepsSpeech DEF FirstTurn, SpeechOK
<1> QED
  BY <1>1, <1>2, SoundParts, StepParts DEF FirstTurn, RestOK, SettledOK

----------------------------------------------------------------------------
(* The actions: the turn.                                                   *)

\* A turn that only changes the turn is sound if it leaves a turn.
LEMMA QuietTurnStep ==
  ASSUME Sound, UNCHANGED session, SpeechOK', TurnOnly
  PROVE  StepOK
BY SoundParts, TurnStep DEF Moved

LEMMA ModelRepliesSteps == ASSUME Sound, ModelReplies PROVE StepOK
<1>1. PICK text \in BOOLEAN, tool \in ToolsByState[turn.state] \cup {"none"} :
        turn' = [turn EXCEPT !.phase = "speaking", !.text = text, !.tool = tool]
  BY DEF ModelReplies
<1>2. tool \in Tools \cup {"none"}
  BY SoundParts DEF SpeechOK, TurnType, States, ToolsByState, Tools
<1>3. turn' \in TurnType
  BY <1>1, <1>2, SoundParts, Zenon DEF SpeechOK, TurnType
<1> QED
  BY <1>3, SoundParts, QuietTurnStep DEF ModelReplies, SpeechOK

LEMMA TurnInterruptedSteps == ASSUME Sound, TurnInterrupted PROVE StepOK
BY SoundParts, TurnOverKeepsSpeech, QuietTurnStep DEF TurnInterrupted

LEMMA ModelFailsSteps == ASSUME Sound, ModelFails PROVE StepOK
BY SoundParts, OnlyKeepsSpeech, QuietTurnStep DEF ModelFails

LEMMA RepromptedSteps == ASSUME Sound, Reprompted PROVE StepOK
BY SoundParts, ReturnKeepsSpeech, QuietTurnStep DEF Reprompted

LEMMA ApologySaidSteps == ASSUME Sound, ApologySaid PROVE StepOK
<1>1. Follows(session, Finish(session, "technical_failure"))
  BY SoundParts, FinishFollows DEF Outcomes
<1> QED
  BY <1>1, SoundParts, OnlyKeepsSpeech, TurnStep DEF ApologySaid, Moved

\* Giving up escalates the call and drains the line.
LEMMA ForceEscalateSteps == ASSUME Sound, ForceEscalate, TurnOnly PROVE StepOK
<1>1. Follows(session, Finish(session, "escalated"))
  BY SoundParts, FinishFollows DEF Outcomes
<1> QED
  BY <1>1, SoundParts, OnlyKeepsSpeech, TurnStep DEF ForceEscalate, Moved

\* The first half of every tool, and a reply without one, move the session on from
\* the session s that the spoken reply left.
LEMMA RepliesMove ==
  ASSUME Sound, NEW s, Follows(session, s), NEW spoke \in BOOLEAN
  PROVE  /\ Farewell(spoke, s) => Moved(session)
         /\ JustTalk(spoke, s) => Moved(session)
         /\ ToolRefused(spoke, s) => Moved(session)
         /\ ProvideEmail(spoke, s) => Moved(session)
         /\ Escalate(spoke, s) => Moved(session)
         /\ EndCall(spoke, s) => Moved(session)
<1>1. ASSUME Farewell(spoke, s) PROVE Moved(session)
  <2>1. Follows(session, Finish(s, "completed"))
    BY FinishFollows DEF Outcomes
  <2> QED
    BY <1>1, <2>1, SoundParts, ReturnKeepsSpeech DEF Farewell, Moved, Follows, WellFormed
<1>2. ASSUME JustTalk(spoke, s) PROVE Moved(session)
  <2>1. s \in SessionType
    BY DEF Follows, WellFormed
  <2> QED
    BY <1>2, <2>1, SoundParts, ReturnKeepsSpeech, OnlyKeepsSpeech DEF JustTalk, Moved
<1>3. ASSUME ToolRefused(spoke, s) PROVE Moved(session)
  BY <1>3, SoundParts, ResultMoves DEF ToolRefused
<1>4. ASSUME ProvideEmail(spoke, s) PROVE Moved(session)
  BY <1>4, SoundParts, ResultAfterLookupMoves DEF ProvideEmail
<1>5. ASSUME Escalate(spoke, s) PROVE Moved(session)
  <2>1. Follows(session, Finish(s, "escalated"))
    BY FinishFollows DEF Outcomes
  <2> QED
    BY <1>5, <2>1, SoundParts, ResultMoves DEF Escalate
<1>6. ASSUME EndCall(spoke, s) PROVE Moved(session)
  <2>1. \A o \in {"completed", "call_back_later", "unknown_caller"} : Follows(session, Finish(s, o))
    BY FinishFollows DEF Outcomes
  <2>2. PICK outcome \in {"completed", "call_back_later"} :
          Result(Finish(s, IF outcome = "completed" /\ ~IsVerified(s, RequireApproval)
                           THEN "unknown_caller" ELSE outcome), spoke)
    BY <1>6 DEF EndCall
  <2>3. CASE outcome = "completed" /\ ~IsVerified(s, RequireApproval)
    BY <2>1, <2>2, <2>3, SoundParts, ResultMoves
  <2>4. CASE ~(outcome = "completed" /\ ~IsVerified(s, RequireApproval))
    BY <2>1, <2>2, <2>4, SoundParts, ResultMoves
  <2> QED
    BY <2>3, <2>4
<1> QED
  BY <1>1, <1>2, <1>3, <1>4, <1>5, <1>6

\* So do the tools that set a flag and move to another state.
LEMMA ToolsMove ==
  ASSUME Sound, NEW s, Follows(session, s), NEW spoke \in BOOLEAN
  PROVE  /\ ConfirmEmail(spoke, s) => Moved(session)
         /\ SelectLanguage(spoke, s) => Moved(session)
         /\ TimeConsent(spoke, s) => Moved(session)
         /\ RecordingConsent(spoke, s) => Moved(session)
         /\ RecordDetail(spoke, s) => Moved(session)
         /\ FinishScreening(spoke, s) => Moved(session)
<1>1. ASSUME ConfirmEmail(spoke, s) PROVE Moved(session)
  <2>1. \A b \in BOOLEAN :
          Follows(session, SetState([s EXCEPT !.emailVerified = b], "LANGUAGE_SELECT"))
    BY FlagsFollow, SetStateFollows DEF States
  <2> QED
    BY <1>1, <2>1, SoundParts, ResultMoves, ResultAfterLookupMoves DEF ConfirmEmail
<1>2. ASSUME SelectLanguage(spoke, s) PROVE Moved(session)
  <2>1. Follows(session, [s EXCEPT !.language = TRUE])
    BY FlagsFollow
  <2>2. Follows(session, SetState([s EXCEPT !.language = TRUE], "CONSENT_TIME"))
    BY <2>1, SetStateFollows DEF States
  <2> QED
    BY <1>2, <2>2, SoundParts, ResultMoves, ResultThenPatchMoves DEF SelectLanguage
<1>3. ASSUME TimeConsent(spoke, s) PROVE Moved(session)
  <2>1. /\ Follows(session, Finish(s, "declined_consent"))
        /\ Follows(session, Finish(s, "call_back_later"))
    BY FinishFollows DEF Outcomes
  <2>2. Follows(session, [s EXCEPT !.timeConsent = TRUE])
    BY FlagsFollow
  <2>3. Follows(session, SetState([s EXCEPT !.timeConsent = TRUE], "CONSENT_RECORDING"))
    BY <2>2, SetStateFollows DEF States
  <2> QED
    BY <1>3, <2>1, <2>3, SoundParts, ResultMoves, ResultThenPatchMoves DEF TimeConsent
<1>4. ASSUME RecordingConsent(spoke, s) PROVE Moved(session)
  <2>1. Follows(session, [s EXCEPT !.recordingConsent = TRUE, !.deadline = TRUE])
    BY TwoFlagsFollow
  <2>2. Follows(session,
                SetState([s EXCEPT !.recordingConsent = TRUE, !.deadline = TRUE], "SCREEN"))
    BY <2>1, SetStateFollows DEF States
  <2> QED
    BY <1>4, <2>2, SoundParts, ResultThenPatchMoves DEF RecordingConsent
<1>5. ASSUME RecordDetail(spoke, s) PROVE Moved(session)
  <2>1. Follows(session, [s EXCEPT !.screeningFinished = TRUE])
    BY FlagsFollow
  <2>2. Follows(session, Finish([s EXCEPT !.screeningFinished = TRUE], "completed"))
    BY <2>1, FinishFollows DEF Outcomes
  <2> QED
    BY <1>5, <2>2, SoundParts, ResultThenPatchMoves DEF RecordDetail
<1>6. ASSUME FinishScreening(spoke, s) PROVE Moved(session)
  <2>1. Follows(session, [s EXCEPT !.screeningFinished = TRUE])
    BY FlagsFollow
  <2>2. Follows(session, SetState([s EXCEPT !.screeningFinished = TRUE], "CANDIDATE_QA"))
    BY <2>1, SetStateFollows DEF States
  <2> QED
    BY <1>6, <2>2, SoundParts, ResultMoves DEF FinishScreening
<1> QED
  BY <1>1, <1>2, <1>3, <1>4, <1>5, <1>6

LEMMA ReplyDoneSteps == ASSUME Sound, ReplyDone PROVE StepOK
<1>1. PICK spoke \in BOOLEAN :
        LET s == Asked(session, spoke)
        IN  \/ Farewell(spoke, s)         \/ JustTalk(spoke, s)
            \/ ToolRefused(spoke, s)
            \/ ConfirmEmail(spoke, s)     \/ ProvideEmail(spoke, s)
            \/ SelectLanguage(spoke, s)   \/ TimeConsent(spoke, s)
            \/ RecordingConsent(spoke, s) \/ RecordDetail(spoke, s)
            \/ FinishScreening(spoke, s)  \/ Escalate(spoke, s)
            \/ EndCall(spoke, s)
  BY DEF ReplyDone
<1>2. Follows(session, Asked(session, spoke))
  BY SoundParts, AskedFollows
<1>3. Moved(session)
  BY <1>1, <1>2, RepliesMove, ToolsMove
<1> QED
  BY <1>3, TurnStep DEF ReplyDone

\* The second halves of the tools that looked a candidate up.
LEMMA EmailOfAnotherSteps == ASSUME Sound, EmailOfAnother PROVE StepOK
<1>1. PICK found \in Lookups :
        IF found.hasCompleted
        THEN Result(Finish(session, "already_interviewed"), turn.spoke)
        ELSE Admit([Attach(session, found) EXCEPT !.recognised = TRUE, !.emailVerified = TRUE])
  BY DEF EmailOfAnother
<1>2. Follows(session, Finish(session, "already_interviewed")) /\ turn.spoke \in BOOLEAN
  BY SoundParts, FinishFollows DEF Outcomes, SpeechOK, TurnType
<1>3. Follows(session,
              [Attach(session, found) EXCEPT !.recognised = TRUE, !.emailVerified = TRUE])
  <2>1. Follows(session, Attach(session, found))
    BY SoundParts, AttachFollows
  <2> QED
    BY <2>1, TwoFlagsFollow
<1>4. Moved(session)
  BY <1>1, <1>2, <1>3, SoundParts, ResultMoves, AdmitMoves
<1> QED
  BY <1>4, TurnStep DEF EmailOfAnother

LEMMA EmailMismatchSteps == ASSUME Sound, EmailMismatch PROVE StepOK
<1> DEFINE s == [session EXCEPT !.emailAttempts = @ + 1]
<1>1. Follows(session, s)
  BY SoundParts, AttemptFollows
<1>2. Follows(session, Finish([s EXCEPT !.emailVerified = FALSE], "unknown_caller"))
  <2> HIDE DEF s
  <2>1. Follows(session, [s EXCEPT !.emailVerified = FALSE])
    BY <1>1, FlagsFollow
  <2> QED
    BY <2>1, FinishFollows DEF Outcomes
<1>3. turn.spoke \in BOOLEAN
  BY SoundParts DEF SpeechOK, TurnType
<1>4. Result(IF s.emailAttempts >= MaxAttempts
             THEN Finish([s EXCEPT !.emailVerified = FALSE], "unknown_caller")
             ELSE s, turn.spoke)
  BY DEF EmailMismatch
<1>5. Moved(session)
  <2> HIDE DEF s
  <2>1. CASE s.emailAttempts >= MaxAttempts
    BY <1>2, <1>3, <1>4, <2>1, SoundParts, ResultMoves
  <2>2. CASE ~(s.emailAttempts >= MaxAttempts)
    BY <1>1, <1>3, <1>4, <2>2, SoundParts, ResultMoves
  <2> QED
    BY <2>1, <2>2
<1> QED
  BY <1>5, TurnStep DEF EmailMismatch

LEMMA EmailUnknownSteps == ASSUME Sound, EmailUnknown PROVE StepOK
<1>1. Follows(session, Finish(session, "unknown_caller")) /\ turn.spoke \in BOOLEAN
  BY SoundParts, FinishFollows DEF Outcomes, SpeechOK, TurnType
<1> QED
  BY <1>1, SoundParts, ResultMoves, TurnStep DEF EmailUnknown

LEMMA EmailKnownSteps == ASSUME Sound, EmailKnown PROVE StepOK
<1>1. PICK found \in Lookups :
        LET s == [Attach(session, found) EXCEPT !.emailVerified = TRUE]
        IN  \/ Result(Finish(session, "unknown_caller"), turn.spoke)
            \/ Result(Finish(s, "unknown_caller"), turn.spoke)
            \/ Result(Finish(s, "already_interviewed"), turn.spoke)
            \/ Admit(s)
  BY DEF EmailKnown
<1> DEFINE s == [Attach(session, found) EXCEPT !.emailVerified = TRUE]
<1>2. Follows(session, s)
  BY SoundParts, AttachFollows, FlagsFollow
<1>3. turn.spoke \in BOOLEAN
  BY SoundParts DEF SpeechOK, TurnType
<1> HIDE DEF s
<1>4. /\ Follows(session, Finish(session, "unknown_caller"))
      /\ Follows(session, Finish(s, "unknown_caller"))
      /\ Follows(session, Finish(s, "already_interviewed"))
  BY <1>2, SoundParts, FinishFollows DEF Outcomes
<1>5. Moved(session)
  BY <1>1, <1>2, <1>3, <1>4, SoundParts, ResultMoves, AdmitMoves DEF s
<1> QED
  BY <1>5, TurnStep DEF EmailKnown

\* Opening a row for the candidate on the line keeps the ledger well formed.
LEMMA OpenedIsLedger == ASSUME Sound PROVE Opened(ledger, session.candidate) \in LedgerType
<1>1. session.candidate \in Candidates \cup {Nobody} /\ ledger \in LedgerType
  BY SoundParts DEF SessionType, RestOK, SettledOK
<1> QED
  BY <1>1, Zenon DEF Opened, LedgerType, Statuses

\* A step of a turn that also writes to the ledger is sound if the ledger stays one.
LEMMA LedgerTurnStep ==
  ASSUME Sound, Moved(session), ledger' \in LedgerType, UNCHANGED <<setup, clock, aside, fin>>
  PROVE  StepOK
BY SoundParts, StepParts DEF Moved, RestOK, SettledOK

LEMMA ToolRowOpenedSteps == ASSUME Sound, ToolRowOpened PROVE StepOK
<1>1. Follows(session, [session EXCEPT !.callId = TRUE])
  BY SoundParts, FlagsFollow
<1>2. Follows(session, SetState([session EXCEPT !.callId = TRUE], "LANGUAGE_SELECT"))
  BY <1>1, SetStateFollows DEF States
<1>3. turn.spoke \in BOOLEAN
  BY SoundParts DEF SpeechOK, TurnType
<1> QED
  BY <1>2, <1>3, SoundParts, ResultMoves, OpenedIsLedger, LedgerTurnStep DEF ToolRowOpened

LEMMA PatchedSteps == ASSUME Sound, Patched PROVE StepOK
<1>1. ledger' \in LedgerType
  <2>1. PICK saved \in Saves :
          ledger' = IF saved THEN [ledger EXCEPT !.row = PatchedStatus(turn.tool, @)] ELSE ledger
    BY DEF Patched
  <2>2. ledger \in LedgerType
    BY SoundParts DEF RestOK, SettledOK
  <2>3. PatchedStatus(turn.tool, ledger.row) \in Statuses \cup {"none"}
    BY <2>2 DEF LedgerType, PatchedStatus, Statuses
  <2>4. [ledger EXCEPT !.row = PatchedStatus(turn.tool, @)] \in LedgerType
    BY <2>2, <2>3, Zenon DEF LedgerType
  <2> QED
    BY <2>1, <2>2, <2>4
<1>2. turn.spoke \in BOOLEAN
  BY SoundParts DEF SpeechOK, TurnType
<1> QED
  BY <1>1, <1>2, SoundParts, ResultMoves, LedgerTurnStep DEF Patched

\* A step that may settle the call and that leaves a turn a turn is sound.
LEMMA SettlingStep ==
  ASSUME Sound, Follows(session, session'), SettledOK', SpeechOK', UNCHANGED setup,
         aside' \in [wrap: {"no", "closing"}, fail: {"no", "saying", "draining"}]
  PROVE  StepOK
BY SoundParts, StepParts DEF RestOK

LEMMA DrainedSteps == ASSUME Sound, Drained PROVE StepOK
<1>1. session.outcome \in Outcomes \cup {"none"}
  BY SoundParts DEF SessionType
<1>2. Follows(session, session') /\ SettledOK'
  BY <1>1, FinaliseOnceKeeps DEF Drained
<1>3. SpeechOK'
  BY SoundParts, FreshTurns DEF Drained, SpeechOK
<1> QED
  BY <1>2, <1>3, SoundParts, SettlingStep DEF Drained, RestOK

----------------------------------------------------------------------------
(* The actions: the finaliser.                                              *)

\* A step that leaves all but the finaliser and the ledger alone.
LEMMA FinaliserStep ==
  ASSUME Sound, fin' \in FinType, ledger' \in LedgerType,
         UNCHANGED <<session, setup, turn, pending, disclosure, clock, aside>>
  PROVE  StepOK
BY SoundParts, StepParts DEF Follows, WellFormed, SpeechOK, RestOK, SettledOK

LEMMA FinalPatchSteps == ASSUME Sound, FinalPatch PROVE StepOK
<1>1. PICK saved \in Saves :
        LET l == IF saved THEN [ledger EXCEPT !.row = fin.status, !.closed = TRUE] ELSE ledger
        IN  IF IsBillableCall(session, fin.status, fin.producesReport)
            THEN fin' = [fin EXCEPT !.phase = "metering"] /\ ledger' = l
            ELSE LogOrLeave(session, fin, l)
  BY DEF FinalPatch
<1> DEFINE l == IF saved THEN [ledger EXCEPT !.row = fin.status, !.closed = TRUE] ELSE ledger
<1>2. fin \in FinType /\ ledger \in LedgerType /\ session \in SessionType
  BY SoundParts DEF RestOK, SettledOK
<1>3. [fin EXCEPT !.phase = "metering"] \in FinType
  BY <1>2, Zenon DEF FinType
<1>4. l \in LedgerType
  <2>1. [ledger EXCEPT !.row = fin.status, !.closed = TRUE] \in LedgerType
    BY <1>2, Zenon DEF LedgerType, FinType
  <2> QED
    BY <1>2, <2>1
<1> HIDE DEF l
<1>5. fin' \in FinType /\ ledger' \in LedgerType
  BY <1>1, <1>2, <1>3, <1>4, LogOrLeaveKeeps DEF l
<1> QED
  BY <1>5, FinaliserStep DEF FinalPatch

LEMMA MeterSteps == ASSUME Sound, Meter PROVE StepOK
<1>1. PICK saved \in Saves :
        LogOrLeave(session, fin, IF saved THEN [ledger EXCEPT !.charges = @ + 1] ELSE ledger)
  BY DEF Meter
<1>2. fin \in FinType /\ ledger \in LedgerType /\ session \in SessionType
  BY SoundParts DEF RestOK, SettledOK
<1>3. [ledger EXCEPT !.charges = @ + 1] \in LedgerType
  BY <1>2 DEF LedgerType
<1>4. fin' \in FinType /\ ledger' \in LedgerType
  <2>1. CASE saved
    BY <1>1, <1>2, <1>3, <2>1, LogOrLeaveKeeps
  <2>2. CASE ~saved
    BY <1>1, <1>2, <2>2, LogOrLeaveKeeps
  <2> QED
    BY <2>1, <2>2
<1> QED
  BY <1>4, FinaliserStep DEF Meter

LEMMA LogStraySteps == ASSUME Sound, LogStray PROVE StepOK
<1>1. PICK saved \in Saves :
        Leave(fin, IF saved THEN [ledger EXCEPT !.strays = @ + 1] ELSE ledger)
  BY DEF LogStray
<1>2. fin \in FinType /\ ledger \in LedgerType
  BY SoundParts DEF RestOK, SettledOK
<1>3. [ledger EXCEPT !.strays = @ + 1] \in LedgerType
  BY <1>2 DEF LedgerType
<1>4. fin' \in FinType /\ ledger' \in LedgerType
  <2>1. CASE saved
    BY <1>1, <1>2, <1>3, <2>1, LeaveKeeps
  <2>2. CASE ~saved
    BY <1>1, <1>2, <2>2, LeaveKeeps
  <2> QED
    BY <2>1, <2>2
<1> QED
  BY <1>4, FinaliserStep DEF LogStray

LEMMA AnalyseSteps == ASSUME Sound, Analyse PROVE StepOK
<1>1. \A r \in {"written", "lost"} : [ledger EXCEPT !.report = r] \in LedgerType
  BY SoundParts, Zenon DEF RestOK, SettledOK, LedgerType
<1>2. ledger' \in LedgerType
  BY <1>1 DEF Analyse
<1> QED
  BY <1>2, SoundParts, FinaliserStep DEF Analyse, RestOK, SettledOK

----------------------------------------------------------------------------
(* The actions: the line and the clocks.                                    *)

\* A step of the line that leaves the session, the finaliser and the ledger alone.
LEMMA LineStep ==
  ASSUME Sound, SpeechOK', UNCHANGED <<session, setup, fin, ledger>>,
         clock' \in [idle: BOOLEAN, overdue: BOOLEAN],
         aside' \in [wrap: {"no", "closing"}, fail: {"no", "saying", "draining"}]
  PROVE  StepOK
BY SoundParts, StepParts DEF Follows, WellFormed, RestOK, SettledOK

LEMMA CallerSpeaksSteps == ASSUME Sound, CallerSpeaks PROVE StepOK
<1>1. SpeechOK'
  BY SoundParts, PumpKeepsSpeech DEF CallerSpeaks, SpeechOK
<1> QED
  BY <1>1, SoundParts, LineStep DEF CallerSpeaks, RestOK, SettledOK

LEMMA BargeInSteps == ASSUME Sound, BargeIn PROVE StepOK
<1>1. SpeechOK'
  BY SoundParts, AbortedIsTurn DEF BargeIn, CutSpeech, SpeechOK
<1> QED
  BY <1>1, SoundParts, LineStep DEF BargeIn, RestOK, SettledOK

LEMMA DisclosurePlayedSteps == ASSUME Sound, DisclosurePlayed PROVE StepOK
<1>1. Follows(session, [session EXCEPT !.aiDisclosureGiven = TRUE])
  BY SoundParts, FlagsFollow
<1> QED
  BY <1>1, SoundParts, StepParts DEF DisclosurePlayed, SpeechOK, RestOK, SettledOK

LEMMA TimePassesSteps == ASSUME Sound, TimePasses PROVE StepOK
<1>1. clock' \in [idle: BOOLEAN, overdue: BOOLEAN]
  BY SoundParts DEF TimePasses, RestOK, SettledOK
<1> QED
  BY <1>1, SoundParts, LineStep DEF TimePasses, SpeechOK, RestOK

LEMMA RecogniserDiesSteps == ASSUME Sound, RecogniserDies PROVE StepOK
<1>1. aside' \in [wrap: {"no", "closing"}, fail: {"no", "saying", "draining"}]
  BY SoundParts DEF RecogniserDies, RestOK
<1> QED
  BY <1>1, SoundParts, LineStep DEF RecogniserDies, SpeechOK, RestOK, SettledOK

LEMMA HangupSteps == ASSUME Sound, Hangup PROVE StepOK
<1>1. Follows(session, session') /\ SettledOK'
  BY FinaliseKeeps DEF Hangup
<1> QED
  BY <1>1, SoundParts, HushKeeps, SettlingStep DEF Hangup, SpeechOK, RestOK

LEMMA IdleHangupSteps == ASSUME Sound, IdleHangup PROVE StepOK
<1>1. Follows(session, session') /\ SettledOK'
  BY FinaliseKeeps DEF IdleHangup, Outcomes
<1> QED
  BY <1>1, SoundParts, HushKeeps, SettlingStep DEF IdleHangup, SpeechOK, RestOK

LEMMA ForceWrapUpSteps == ASSUME Sound, ForceWrapUp PROVE StepOK
<1>1. Follows(session, Finish(SetState(session, "CLOSE"), "completed"))
  <2>1. Follows(session, SetState(session, "CLOSE"))
    BY SoundParts, SetStateFollows DEF States
  <2> QED
    BY <2>1, FinishFollows DEF Outcomes
<1>2. SpeechOK'
  BY SoundParts, AbortedIsTurn DEF ForceWrapUp, CutSpeech, SpeechOK
<1>3. aside' \in [wrap: {"no", "closing"}, fail: {"no", "saying", "draining"}]
  BY SoundParts DEF ForceWrapUp, RestOK
<1> QED
  BY <1>1, <1>2, <1>3, SoundParts, SettlingStep DEF ForceWrapUp, RestOK, SettledOK

LEMMA FailureSaidSteps == ASSUME Sound, FailureSaid PROVE StepOK
<1>1. Follows(session, Finish(session, "technical_failure"))
  BY SoundParts, FinishFollows DEF Outcomes
<1>2. aside' \in [wrap: {"no", "closing"}, fail: {"no", "saying", "draining"}]
  BY SoundParts DEF FailureSaid, RestOK
<1> QED
  BY <1>1, <1>2, SoundParts, SettlingStep DEF FailureSaid, SpeechOK, RestOK, SettledOK

\* The wrap-up and a dead recogniser both come to the finaliser in the end.
LEMMA AsideSettles ==
  ASSUME Sound, FinaliseOnce(session.outcome), Hush, UNCHANGED <<setup, pending>>,
         aside' \in [wrap: {"no", "closing"}, fail: {"no", "saying", "draining"}]
  PROVE  StepOK
<1>1. session.outcome \in Outcomes \cup {"none"}
  BY SoundParts DEF SessionType
<1>2. Follows(session, session') /\ SettledOK'
  BY <1>1, FinaliseOnceKeeps
<1> QED
  BY <1>2, SoundParts, HushKeeps, SettlingStep DEF SpeechOK

LEMMA WrappedUpSteps == ASSUME Sound, WrappedUp PROVE StepOK
<1>1. aside' \in [wrap: {"no", "closing"}, fail: {"no", "saying", "draining"}]
  BY SoundParts DEF WrappedUp, RestOK
<1> QED
  BY <1>1, AsideSettles DEF WrappedUp

LEMMA FailureDrainedSteps == ASSUME Sound, FailureDrained PROVE StepOK
<1>1. aside' \in [wrap: {"no", "closing"}, fail: {"no", "saying", "draining"}]
  BY SoundParts DEF FailureDrained, RestOK
<1> QED
  BY <1>1, AsideSettles DEF FailureDrained

----------------------------------------------------------------------------
(* The theorems.                                                            *)

\* A call starts sound.
LEMMA InitSound == Init => Sound
<1> SUFFICES ASSUME Init PROVE Sound
  OBVIOUS
<1>1. session \in SessionType /\ ~session.ended
  BY SettingsAssumption DEF Init, NewSession, SessionType, States
<1>2. turn \in TurnType
  BY FreshTurns DEF Init
<1>3. /\ setup \in SetupType /\ pending \in BOOLEAN
      /\ disclosure \in {"unsaid", "saying", "sent", "cut"}
      /\ clock \in [idle: BOOLEAN, overdue: BOOLEAN]
      /\ aside \in [wrap: {"no", "closing"}, fail: {"no", "saying", "draining"}]
  BY DEF Init, SetupType
<1>4. fin \in FinType /\ ledger \in LedgerType
  BY DEF Init, FinType, LedgerType
<1> QED
  BY <1>1, <1>2, <1>3, <1>4 DEF Sound, TypeOK, WellFormed

\* Every step of a sound call leads to a session that follows.
LEMMA NextSound == Sound /\ [Next]_vars => StepOK
<1> SUFFICES ASSUME Sound, [Next]_vars PROVE StepOK
  OBVIOUS
<1>1. CASE Setup
  BY <1>1, BeginSteps, ListenOnlySteps, RefusePausedSteps, LetInSteps, DoNotRecogniseSteps,
     RowOpenedSteps, GreetingSaidSteps, FirstTurnSteps
     DEF Setup, TurnAwayRepeat, TurnAwayClosed, Recognise
<1>2. CASE Turn
  <2>1. CASE SorrySaid \/ LookupFails \/ ToolRowFails
    BY <2>1, ForceEscalateSteps DEF SorrySaid, LookupFails, ToolRowFails
  <2> QED
    BY <1>2, <2>1, ModelRepliesSteps, TurnInterruptedSteps, ModelFailsSteps, ApologySaidSteps,
       ReplyDoneSteps, RepromptedSteps, EmailOfAnotherSteps, EmailMismatchSteps,
       EmailUnknownSteps, EmailKnownSteps, ToolRowOpenedSteps, PatchedSteps, DrainedSteps
       DEF Turn
<1>3. CASE Finaliser
  BY <1>3, FinalPatchSteps, MeterSteps, LogStraySteps, AnalyseSteps DEF Finaliser
<1>4. CASE Line
  BY <1>4, CallerSpeaksSteps, BargeInSteps, DisclosurePlayedSteps, HangupSteps, TimePassesSteps,
     ForceWrapUpSteps, WrappedUpSteps, IdleHangupSteps, RecogniserDiesSteps, FailureSaidSteps,
     FailureDrainedSteps DEF Line
<1>5. CASE UNCHANGED vars
  BY <1>5, SoundParts, StepParts DEF vars, Follows, WellFormed, SpeechOK, RestOK, SettledOK
<1> QED
  BY <1>1, <1>2, <1>3, <1>4, <1>5 DEF Next

\* A step that is sound leaves the call sound.
LEMMA StepStaysSound == StepOK => Sound'
BY DEF StepOK, Sound, Follows, WellFormed

\* Every state of every call has its types, and once it has ended its session is in
\* CLOSE: the invariant the other theorems rest on.
THEOREM AlwaysSound == Spec => []Sound
BY InitSound, NextSound, StepStaysSound, PTL DEF Spec

\* Type correctness, whatever the lookups answer and the settings say.
THEOREM TypeCorrect == Spec => []TypeOK
<1>1. Sound => TypeOK
  BY DEF Sound
<1> QED
  BY <1>1, AlwaysSound, PTL

\* No handler that was under way when the call ended, in setup, turn, wrap-up or
\* finaliser, changes the outcome, un-ends the call or moves it out of CLOSE.
THEOREM OutcomeStands == Spec => FirstOutcomeWins
<1>1. Sound /\ [Next]_vars =>
        [session.ended => /\ session'.ended /\ session'.outcome = session.outcome
                          /\ session'.state = "CLOSE"]_vars
  BY NextSound DEF StepOK, Follows, WellFormed
<1> QED
  BY <1>1, AlwaysSound, PTL DEF Spec, FirstOutcomeWins

----------------------------------------------------------------------------
(***************************************************************************)
(* Who is screened.  A session is Justified when it has earned the state it *)
(* is in.  Moving on earns the next state only if nothing took the grounds  *)
(* away while a handler was waiting for the database, so the invariant also *)
(* says where the session may be while one of the two handlers that attach  *)
(* a candidate is waiting (Placed).                                         *)
(***************************************************************************)
----------------------------------------------------------------------------
(* What a session owes.                                                     *)

\* The call knows who is on the line, and of no completed interview of theirs.
Known(s) == s.candidate # Nobody /\ ~s.alreadyInterviewed

\* They have had the e-mail check they are owed.
Checked(s) == s.emailVerified \/ ~s.emailOnFile \/ ~VerifyCallerEmail

\* What a session must have to be in a state.
Earned(s, state) ==
  /\ state \in {"VERIFY_EMAIL", "LANGUAGE_SELECT", "CONSENT_TIME", "CONSENT_RECORDING",
                "SCREEN", "CANDIDATE_QA"} => Known(s)
  /\ state \in {"LANGUAGE_SELECT", "CONSENT_TIME", "CONSENT_RECORDING",
                "SCREEN", "CANDIDATE_QA"} => Checked(s)
  /\ state \in {"CONSENT_TIME", "CONSENT_RECORDING", "SCREEN", "CANDIDATE_QA"} => s.language
  /\ state \in {"CONSENT_RECORDING", "SCREEN", "CANDIDATE_QA"} => s.timeConsent
  /\ state \in {"SCREEN", "CANDIDATE_QA"} => s.recordingConsent

\* The state is earned and so are the questions; there is no outcome before the end, and
\* a caller turned away as already interviewed was asked nothing.
Justified(s) ==
  /\ WellFormed(s)
  /\ Earned(s, s.state)
  /\ s.questions > 0 => Earned(s, "SCREEN") /\ s.state \in {"SCREEN", "CANDIDATE_QA", "CLOSE"}
  /\ ~s.ended => s.outcome = "none"
  /\ s.outcome = "already_interviewed" => s.questions = 0

\* What is settled once a session has ended.
SameEnd(s, t) ==
  /\ t.ended
  /\ t.outcome = s.outcome /\ t.questions = s.questions
  /\ t.language = s.language /\ t.screeningFinished = s.screeningFinished

\* Who is on the line.
SamePerson(s, t) ==
  /\ t.candidate = s.candidate /\ t.approved = s.approved
  /\ t.alreadyInterviewed = s.alreadyInterviewed

\* t is justified; if s had ended so has t, in the same way; and if s had been asked
\* a question t is about the same person.
Keeps(s, t) ==
  /\ Justified(t)
  /\ s.ended => SameEnd(s, t)
  /\ s.questions > 0 => SamePerson(s, t) /\ t.questions > 0

\* The setup has not yet decided what to do with the caller.
Early == setup.phase \in {"waiting", "lookup", "opening"}

\* A handler that attaches a candidate is under way.
Attaching == turn.phase \in {"lookup", "opening"}

\* Where the session may be meanwhile: nobody has been asked anything, and unless the
\* call has ended it still is in the state the handler found it in.
Placed ==
  /\ Early => session.questions = 0 /\ session.state \in {"GREET", "CLOSE"}
  /\ setup.phase = "opening" /\ setup.then = "greet" => Known(session)
  /\ Attaching => ~Early /\ session.questions = 0
  /\ turn.phase = "lookup" => \/ session.state = "CLOSE"
                              \/ turn.tool = "confirm_email" /\ session.state = "VERIFY_EMAIL"
                              \/ turn.tool = "provide_email" /\ session.state = "IDENTIFY"
  /\ turn.phase = "opening" => /\ Known(session) /\ session.emailVerified
                               /\ session.state \in {"IDENTIFY", "VERIFY_EMAIL", "CLOSE"}

\* The invariant.
Screened == Justified(session) /\ Placed

----------------------------------------------------------------------------
(* The helpers on sessions.                                                 *)

\* A justified session keeps itself.
LEMMA KeepsSelf == \A s : Justified(s) => Keeps(s, s)
BY SettingsAssumption DEF Keeps, Justified, WellFormed, SessionType, SameEnd, SamePerson

\* What has earned a state before others change has earned it after.
LEMMA EarnedStays ==
  \A s, t, state :
    /\ Earned(s, state) /\ SamePerson(s, t)
    /\ t.emailVerified = s.emailVerified /\ t.emailOnFile = s.emailOnFile
    /\ t.language = s.language
    /\ t.timeConsent = s.timeConsent /\ t.recordingConsent = s.recordingConsent
    => Earned(t, state)
BY DEF Earned, Known, Checked, SamePerson

\* setState keeps a session justified if the state it moves to is earned.
LEMMA SetStateKeeps ==
  \A s, t, to : Keeps(s, t) /\ to \in States /\ Earned(t, to) => Keeps(s, SetState(t, to))
<1> SUFFICES ASSUME NEW s, NEW t, NEW to, Keeps(s, t), to \in States, Earned(t, to),
                    CanTransition(t.state, to)
             PROVE  Keeps(s, [t EXCEPT !.state = to])
  BY DEF SetState
<1> DEFINE u == [t EXCEPT !.state = to]
<1>1. t \in SessionType
  BY DEF Keeps, Justified, WellFormed
<1>2. u \in SessionType
  BY <1>1 DEF SessionType
<1>3. /\ u.ended = t.ended /\ u.outcome = t.outcome /\ u.questions = t.questions
      /\ u.language = t.language /\ u.screeningFinished = t.screeningFinished
      /\ SamePerson(t, u)
      /\ u.emailVerified = t.emailVerified /\ u.emailOnFile = t.emailOnFile
      /\ u.timeConsent = t.timeConsent /\ u.recordingConsent = t.recordingConsent
      /\ u.state = to
  BY <1>1 DEF SessionType, SamePerson
<1> HIDE DEF u
<1>4. \A state : Earned(t, state) => Earned(u, state)
  BY <1>3, EarnedStays
<1>5. t.state # "CLOSE" /\ (t.state \in {"SCREEN", "CANDIDATE_QA"} => to \in {"CANDIDATE_QA", "CLOSE"})
  BY <1>1 DEF CanTransition, Transitions, SessionType, States
<1>6. ~t.ended
  BY <1>5 DEF Keeps, Justified, WellFormed
<1>7. Justified(u)
  BY <1>2, <1>3, <1>4, <1>5, <1>6 DEF Keeps, Justified, WellFormed
<1> QED
  BY <1>3, <1>6, <1>7 DEF Keeps, SameEnd, SamePerson, u

\* CLOSE is earned by anyone.
LEMMA CloseKeeps == \A s, t : Keeps(s, t) => Keeps(s, SetState(t, "CLOSE"))
BY SetStateKeeps DEF Earned, States

\* So does finish.
LEMMA FinishKeeps ==
  \A s, t, o : /\ Keeps(s, t) /\ o \in Outcomes
               /\ o = "already_interviewed" => t.questions = 0
               => Keeps(s, Finish(t, o))
<1> SUFFICES ASSUME NEW s, NEW t, NEW o, Keeps(s, t), o \in Outcomes, ~t.ended,
                    o = "already_interviewed" => t.questions = 0
             PROVE  Keeps(s, Finish(t, o))
  BY DEF Finish
<1> DEFINE u == [t EXCEPT !.ended = TRUE, !.outcome = o, !.state = "CLOSE"]
<1>1. t \in SessionType /\ ~s.ended
  BY DEF Keeps, Justified, WellFormed, SameEnd
<1>2. u \in SessionType
  BY <1>1, Zenon DEF SessionType, States
<1>3. u.ended /\ u.state = "CLOSE" /\ u.outcome = o /\ u.questions = t.questions
  BY <1>1, Zenon DEF SessionType
<1>4. SamePerson(t, u)
  BY <1>1, Zenon DEF SessionType, SamePerson
<1>5. /\ u.emailVerified = t.emailVerified /\ u.emailOnFile = t.emailOnFile
      /\ u.language = t.language
      /\ u.timeConsent = t.timeConsent /\ u.recordingConsent = t.recordingConsent
  BY <1>1, Zenon DEF SessionType
<1>6. Finish(t, o) = u
  BY DEF Finish
<1> HIDE DEF u
<1>7. \A state : Earned(t, state) => Earned(u, state)
  BY <1>4, <1>5, EarnedStays
<1>8. Earned(u, "CLOSE")
  BY DEF Earned
<1>9. Justified(u)
  BY <1>2, <1>3, <1>7, <1>8 DEF Keeps, Justified, WellFormed, Outcomes
<1> QED
  BY <1>1, <1>3, <1>4, <1>6, <1>9 DEF Keeps, SamePerson

\* Attaching a candidate does while nobody has been asked anything, where the state owes
\* nothing yet or the candidate is a new one.
LEMMA AttachKeeps ==
  \A s, t, found :
    /\ Keeps(s, t) /\ t.questions = 0 /\ found \in Lookups
    /\ \/ t.state \in {"GREET", "IDENTIFY", "CLOSE"}
       \/ t.state = "VERIFY_EMAIL" /\ ~found.hasCompleted
    => /\ Keeps(s, Attach(t, found))
       /\ Attach(t, found).candidate # Nobody
       /\ Attach(t, found).alreadyInterviewed = found.hasCompleted
       /\ Attach(t, found).state = t.state /\ Attach(t, found).questions = 0
<1> SUFFICES ASSUME NEW s, NEW t, NEW found \in LookupType, Keeps(s, t), t.questions = 0,
                    \/ t.state \in {"GREET", "IDENTIFY", "CLOSE"}
                    \/ t.state = "VERIFY_EMAIL" /\ ~found.hasCompleted
             PROVE  /\ Keeps(s, Attach(t, found))
                    /\ Attach(t, found).candidate # Nobody
                    /\ Attach(t, found).alreadyInterviewed = found.hasCompleted
                    /\ Attach(t, found).state = t.state /\ Attach(t, found).questions = 0
  BY LookupsAssumption
<1> DEFINE u == Attach(t, found)
<1>1. t \in SessionType /\ ~(s.questions > 0)
  BY SettingsAssumption DEF Keeps, Justified, WellFormed, SessionType, SamePerson
<1>2. u \in SessionType
  BY <1>1, Zenon DEF SessionType, LookupType, Attach
<1>3. /\ u.ended = t.ended /\ u.outcome = t.outcome /\ u.state = t.state
      /\ u.questions = t.questions /\ u.language = t.language
      /\ u.screeningFinished = t.screeningFinished
  BY <1>1, Zenon DEF SessionType, Attach
<1>4. u.candidate = found.who /\ u.alreadyInterviewed = found.hasCompleted
  BY <1>1, Zenon DEF SessionType, Attach
<1>5. found.who # Nobody
  BY NobodyAssumption DEF LookupType
<1> HIDE DEF u
<1>6. Justified(u)
  BY <1>2, <1>3, <1>4, <1>5 DEF Keeps, Justified, WellFormed, Earned, Known
<1> QED
  BY <1>1, <1>3, <1>4, <1>5, <1>6 DEF Keeps, SameEnd, u

\* A reply spoken while screening counts as a question, and only then.
LEMMA AskedKeeps ==
  \A s, t : \A spoke \in BOOLEAN :
    Keeps(s, t) => /\ Keeps(s, Asked(t, spoke))
                   /\ Asked(t, spoke).state = t.state
                   /\ t.state # "SCREEN" => Asked(t, spoke) = t
<1> SUFFICES ASSUME NEW s, NEW t, Keeps(s, t), t.state = "SCREEN", t.questions < MaxQuestions
             PROVE  /\ Keeps(s, [t EXCEPT !.questions = @ + 1])
                    /\ [t EXCEPT !.questions = @ + 1].state = t.state
  BY DEF Asked
<1> DEFINE u == [t EXCEPT !.questions = @ + 1]
<1>1. t \in SessionType /\ ~t.ended /\ ~s.ended
  BY DEF Keeps, Justified, WellFormed, SameEnd
<1>2. t.questions \in Nat
  BY <1>1, SettingsAssumption DEF SessionType
<1>3. u \in SessionType /\ u.questions = t.questions + 1
  BY <1>1, SettingsAssumption DEF SessionType
<1>4. u.ended = t.ended /\ u.outcome = t.outcome /\ u.state = t.state /\ SamePerson(t, u)
  BY <1>1 DEF SessionType, SamePerson
<1>5. /\ u.emailVerified = t.emailVerified /\ u.emailOnFile = t.emailOnFile
      /\ u.language = t.language
      /\ u.timeConsent = t.timeConsent /\ u.recordingConsent = t.recordingConsent
  BY <1>1 DEF SessionType
<1> HIDE DEF u
<1>6. Earned(u, "SCREEN")
  BY <1>4, <1>5, EarnedStays DEF Keeps, Justified
<1>7. Justified(u)
  BY <1>1, <1>2, <1>3, <1>4, <1>6 DEF Keeps, Justified, WellFormed
<1> QED
  BY <1>1, <1>2, <1>3, <1>4, <1>7 DEF Keeps, SamePerson, u

\* What only touches other fields does, if it takes nothing away that has been earned
\* and leaves what is settled of a session that has ended.
LEMMA OtherFieldsKeep ==
  \A s, t, u :
    /\ Keeps(s, t) /\ u \in SessionType
    /\ u.state = t.state /\ u.ended = t.ended /\ u.outcome = t.outcome
    /\ u.questions = t.questions /\ SamePerson(t, u) /\ u.emailOnFile = t.emailOnFile
    /\ \/ u.emailVerified = t.emailVerified
       \/ t.questions = 0 /\ t.state \in {"GREET", "IDENTIFY", "VERIFY_EMAIL", "CLOSE"}
    /\ t.language => u.language
    /\ t.timeConsent => u.timeConsent
    /\ t.recordingConsent => u.recordingConsent
    /\ t.ended => u.language = t.language /\ u.screeningFinished = t.screeningFinished
    => Keeps(s, u)
<1> SUFFICES ASSUME NEW s, NEW t, NEW u, Keeps(s, t), u \in SessionType,
                    u.state = t.state, u.ended = t.ended, u.outcome = t.outcome,
                    u.questions = t.questions, SamePerson(t, u), u.emailOnFile = t.emailOnFile,
                    \/ u.emailVerified = t.emailVerified
                    \/ t.questions = 0 /\ t.state \in {"GREET", "IDENTIFY", "VERIFY_EMAIL", "CLOSE"},
                    t.language => u.language,
                    t.timeConsent => u.timeConsent,
                    t.recordingConsent => u.recordingConsent,
                    t.ended => u.language = t.language /\ u.screeningFinished = t.screeningFinished
             PROVE  Keeps(s, u)
  OBVIOUS
<1>1. Earned(u, u.state)
  BY DEF Keeps, Justified, Earned, Known, Checked, SamePerson
<1>2. u.questions > 0 => Earned(u, "SCREEN") /\ u.state \in {"SCREEN", "CANDIDATE_QA", "CLOSE"}
  BY DEF Keeps, Justified, Earned, Known, Checked, SamePerson
<1>3. Justified(u)
  BY <1>1, <1>2 DEF Keeps, Justified, WellFormed
<1> QED
  BY <1>3 DEF Keeps, SameEnd, SamePerson

\* Nothing has happened to the session but that it may have ended.
Calm(s, t) ==
  /\ t.state \in {s.state, "CLOSE"} /\ t.questions = s.questions
  /\ SamePerson(s, t) /\ t.emailVerified = s.emailVerified

\* Two such steps make one.
LEMMA CalmChain == \A s, t, u : Calm(s, t) /\ Calm(t, u) => Calm(s, u)
BY DEF Calm, SamePerson

\* That is so when finish or a move to CLOSE is all that happens to it.
LEMMA EndsCalmly ==
  \A t : t \in SessionType =>
    /\ \A o : Calm(t, Finish(t, o))
    /\ Calm(t, SetState(t, "CLOSE"))
    /\ Calm(t, t)
<1> SUFFICES ASSUME NEW t \in SessionType, NEW o
             PROVE  Calm(t, Finish(t, o)) /\ Calm(t, SetState(t, "CLOSE")) /\ Calm(t, t)
  OBVIOUS
<1>1. Calm(t, t)
  BY DEF Calm, SamePerson
<1>2. Calm(t, [t EXCEPT !.ended = TRUE, !.outcome = o, !.state = "CLOSE"])
  <2> DEFINE u == [t EXCEPT !.ended = TRUE, !.outcome = o, !.state = "CLOSE"]
  <2>1. u.state = "CLOSE" /\ u.questions = t.questions /\ u.emailVerified = t.emailVerified
    BY Zenon DEF SessionType
  <2>2. SamePerson(t, u)
    BY Zenon DEF SessionType, SamePerson
  <2> HIDE DEF u
  <2> QED
    BY <2>1, <2>2 DEF Calm, u
<1>3. Calm(t, [t EXCEPT !.state = "CLOSE"])
  BY DEF SessionType, Calm, SamePerson
<1> QED
  BY <1>1, <1>2, <1>3 DEF Finish, SetState

\* The flags nothing is owed for may be set at any time.
LEMMA FlagsKeep ==
  \A s, t : \A b \in BOOLEAN : Keeps(s, t) =>
    /\ Keeps(s, [t EXCEPT !.listenOnly = b]) /\ Calm(t, [t EXCEPT !.listenOnly = b])
    /\ Keeps(s, [t EXCEPT !.recognised = b]) /\ Calm(t, [t EXCEPT !.recognised = b])
    /\ Keeps(s, [t EXCEPT !.callId = b]) /\ Calm(t, [t EXCEPT !.callId = b])
    /\ Keeps(s, [t EXCEPT !.aiDisclosureGiven = b]) /\ Calm(t, [t EXCEPT !.aiDisclosureGiven = b])
    /\ Keeps(s, [t EXCEPT !.emailAttempts = @ + 1]) /\ Calm(t, [t EXCEPT !.emailAttempts = @ + 1])
<1> SUFFICES ASSUME NEW s, NEW t, NEW b \in BOOLEAN, Keeps(s, t),
                    NEW u \in { [t EXCEPT !.listenOnly = b], [t EXCEPT !.recognised = b],
                                [t EXCEPT !.callId = b], [t EXCEPT !.aiDisclosureGiven = b],
                                [t EXCEPT !.emailAttempts = @ + 1] }
             PROVE  Keeps(s, u) /\ Calm(t, u)
  OBVIOUS
<1>1. t \in SessionType
  BY DEF Keeps, Justified, WellFormed
<1>2. u \in SessionType
  BY <1>1 DEF SessionType
<1>3. /\ u.state = t.state /\ u.ended = t.ended /\ u.outcome = t.outcome
      /\ u.questions = t.questions /\ SamePerson(t, u)
      /\ u.emailOnFile = t.emailOnFile /\ u.emailVerified = t.emailVerified
      /\ u.language = t.language /\ u.screeningFinished = t.screeningFinished
      /\ u.timeConsent = t.timeConsent /\ u.recordingConsent = t.recordingConsent
  BY <1>1 DEF SessionType, SamePerson
<1> QED
  BY <1>2, <1>3, OtherFieldsKeep DEF Calm

\* The result of the e-mail check, before anything has been earned with it.
LEMMA EmailCheckKeeps ==
  \A s, t, u : \A b \in BOOLEAN :
    /\ Keeps(s, t) /\ t.questions = 0
    /\ t.state \in {"GREET", "IDENTIFY", "VERIFY_EMAIL", "CLOSE"}
    /\ u = [t EXCEPT !.emailVerified = b]
    => /\ Keeps(s, u) /\ u.emailVerified = b /\ u.emailOnFile = t.emailOnFile
       /\ u.state = t.state /\ u.questions = t.questions /\ SamePerson(t, u)
<1> SUFFICES ASSUME NEW s, NEW t, NEW b \in BOOLEAN, Keeps(s, t), t.questions = 0,
                    t.state \in {"GREET", "IDENTIFY", "VERIFY_EMAIL", "CLOSE"},
                    NEW u, u = [t EXCEPT !.emailVerified = b]
             PROVE  /\ Keeps(s, u) /\ u.emailVerified = b /\ u.emailOnFile = t.emailOnFile
                    /\ u.state = t.state /\ u.questions = t.questions /\ SamePerson(t, u)
  OBVIOUS
<1>1. t \in SessionType
  BY DEF Keeps, Justified, WellFormed
<1>2. u \in SessionType
  BY <1>1 DEF SessionType
<1>3. /\ u.state = t.state /\ u.ended = t.ended /\ u.outcome = t.outcome
      /\ u.questions = t.questions /\ SamePerson(t, u)
      /\ u.emailOnFile = t.emailOnFile /\ u.emailVerified = b
      /\ u.language = t.language /\ u.screeningFinished = t.screeningFinished
      /\ u.timeConsent = t.timeConsent /\ u.recordingConsent = t.recordingConsent
  BY <1>1 DEF SessionType, SamePerson
<1> QED
  BY <1>2, <1>3, OtherFieldsKeep

\* The answers of a call that has not ended.
LEMMA AnswersKeep ==
  \A s, t : Keeps(s, t) /\ ~t.ended =>
    /\ Keeps(s, [t EXCEPT !.language = TRUE])
    /\ Keeps(s, [t EXCEPT !.timeConsent = TRUE])
    /\ Keeps(s, [t EXCEPT !.screeningFinished = TRUE])
    /\ Keeps(s, [t EXCEPT !.recordingConsent = TRUE, !.deadline = TRUE])
<1> SUFFICES ASSUME NEW s, NEW t, Keeps(s, t), ~t.ended
             PROVE  /\ Keeps(s, [t EXCEPT !.language = TRUE])
                    /\ Keeps(s, [t EXCEPT !.timeConsent = TRUE])
                    /\ Keeps(s, [t EXCEPT !.screeningFinished = TRUE])
                    /\ Keeps(s, [t EXCEPT !.recordingConsent = TRUE, !.deadline = TRUE])
  OBVIOUS
<1>1. t \in SessionType
  BY DEF Keeps, Justified, WellFormed
<1>2. ASSUME NEW u \in { [t EXCEPT !.language = TRUE], [t EXCEPT !.timeConsent = TRUE],
                         [t EXCEPT !.screeningFinished = TRUE] }
      PROVE  Keeps(s, u)
  <2>1. u \in SessionType
    <3>1. \A b \in BOOLEAN : /\ [t EXCEPT !.language = b] \in SessionType
                             /\ [t EXCEPT !.timeConsent = b] \in SessionType
                             /\ [t EXCEPT !.screeningFinished = b] \in SessionType
      BY <1>1 DEF SessionType
    <3> QED
      BY <3>1
  <2>2. /\ u.state = t.state /\ u.ended = t.ended /\ u.outcome = t.outcome
        /\ u.questions = t.questions /\ SamePerson(t, u)
        /\ u.emailOnFile = t.emailOnFile /\ u.emailVerified = t.emailVerified
        /\ t.language => u.language
        /\ t.timeConsent => u.timeConsent
        /\ u.recordingConsent = t.recordingConsent
    BY <1>1 DEF SessionType, SamePerson
  <2> QED
    BY <2>1, <2>2, OtherFieldsKeep
<1>3. Keeps(s, [t EXCEPT !.recordingConsent = TRUE, !.deadline = TRUE])
  <2> DEFINE u == [t EXCEPT !.recordingConsent = TRUE, !.deadline = TRUE]
  <2>1. u \in SessionType
    BY <1>1, Zenon DEF SessionType
  <2>2. u.state = t.state /\ u.ended = t.ended /\ u.outcome = t.outcome /\ u.questions = t.questions
    BY <1>1, Zenon DEF SessionType
  <2>3. SamePerson(t, u)
    BY <1>1, Zenon DEF SessionType, SamePerson
  <2>4. /\ u.emailOnFile = t.emailOnFile /\ u.emailVerified = t.emailVerified
        /\ u.language = t.language /\ u.timeConsent = t.timeConsent
        /\ u.recordingConsent = TRUE
    BY <1>1, Zenon DEF SessionType
  <2> HIDE DEF u
  <2>5. Keeps(s, u)
    BY <2>1, <2>2, <2>3, <2>4, OtherFieldsKeep
  <2> QED
    BY <2>5 DEF u
<1> QED
  BY <1>2, <1>3

----------------------------------------------------------------------------
(* The helpers on turns: none of them leaves a handler attaching a candidate *)
(* but those that suspend a tool to do so.                                   *)

\* Taking up what was said starts a turn with the model, or none,
LEMMA PumpDetaches == ASSUME NEW s \in SessionType, Pump(s) PROVE ~Attaching'
<1>1. TurnFor(s).phase = "model"
  BY DEF TurnFor, NoTurn
<1> QED
  BY <1>1 DEF Pump, NoTurn, Attaching

\* ending a turn does so or leaves none,
LEMMA TurnOverDetaches == ASSUME NEW s \in SessionType, TurnOver(s) PROVE ~Attaching'
BY PumpDetaches DEF TurnOver, NoTurn, Attaching

\* so does leaving it with one thing to do,
LEMMA OnlyDetaches ==
  ASSUME NEW phase \in {"reprompt", "sorry", "apology", "draining"}, Only(phase)
  PROVE  ~Attaching'
BY DEF Only, NoTurn, Attaching

\* returning from runTurn,
LEMMA ReturnDetaches == ASSUME NEW s \in SessionType, Return(s) PROVE ~Attaching'
BY TurnOverDetaches, OnlyDetaches DEF Return

\* and going on after a tool.
LEMMA AfterToolDetaches ==
  ASSUME Sound, NEW s \in SessionType, NEW spoke, AfterTool(s, spoke)
  PROVE  ~Attaching'
<1>1. NextModelCall(s, spoke).phase = "model"
  BY SoundParts, Zenon DEF SpeechOK, TurnType, NextModelCall
<1> QED
  BY <1>1, ReturnDetaches, OnlyDetaches DEF AfterTool, Attaching

\* A suspended tool waits in the phase it was suspended for and is still the same tool.
LEMMA SuspendDoes ==
  ASSUME Sound, NEW phase, NEW spoke, Suspend(phase, spoke)
  PROVE  turn'.phase = phase /\ turn'.tool = turn.tool
BY SoundParts, Zenon DEF SpeechOK, TurnType, Suspend

\* So a tool that ends leaves the session it was given and is not attaching anyone,
LEMMA ResultDetaches ==
  ASSUME Sound, NEW t \in SessionType, NEW spoke, Result(t, spoke)
  PROVE  session' = t /\ ~Attaching'
BY AfterToolDetaches DEF Result

\* nor is one that waits for its patch.
LEMMA ResultThenPatchDetaches ==
  ASSUME Sound, NEW t \in SessionType, NEW spoke, ResultThenPatch(t, spoke)
  PROVE  session' = t /\ ~Attaching'
<1>1. CASE t.callId
  BY <1>1, SuspendDoes DEF ResultThenPatch, Attaching
<1>2. CASE ~t.callId
  BY <1>2, ResultDetaches DEF ResultThenPatch
<1> QED
  BY <1>1, <1>2

\* An aborted tool is still the same tool, waiting for the same answer.
LEMMA AbortedWaits ==
  Sound => Aborted(turn).phase = turn.phase /\ Aborted(turn).tool = turn.tool
<1> SUFFICES ASSUME Sound PROVE Aborted(turn).phase = turn.phase /\ Aborted(turn).tool = turn.tool
  OBVIOUS
<1>1. turn \in TurnType
  BY SoundParts DEF SpeechOK
<1> QED
  BY <1>1, Zenon DEF Aborted, TurnType

----------------------------------------------------------------------------
(* The steps.                                                               *)

\* What is assumed of a state, and what a step has to make of it.
Screening == Sound /\ Screened

StepScreened == Keeps(session, session') /\ Placed'

\* The parts of what is assumed.
LEMMA ScreeningParts ==
  Screening => /\ Sound /\ Placed /\ Justified(session) /\ session \in SessionType
               /\ Keeps(session, session) /\ Calm(session, session)
BY KeepsSelf, EndsCalmly DEF Screening, Screened, Justified, WellFormed

\* A step that at most ends the session, and leaves setup and turn where they were or
\* further on, leaves every handler that waits with what it needs.
LEMMA CalmStep ==
  ASSUME Screening, Keeps(session, session'), Calm(session, session'),
         setup' = setup \/ ~Early' \/ (setup.phase = "waiting" /\ setup'.phase = "lookup"),
         ~Attaching' \/ (turn'.phase = turn.phase /\ turn'.tool = turn.tool)
  PROVE  StepScreened
<1>1. Placed
  BY ScreeningParts
<1>2. ~Attaching \/ ~Early
  BY <1>1 DEF Placed
<1> QED
  BY <1>1, <1>2 DEF StepScreened, Calm, SamePerson, Known, Placed, Early, Attaching

\* Once the setup has decided, a step that leaves no handler attaching a candidate
\* only has to keep the session.
LEMMA DetachedStep ==
  ASSUME Keeps(session, session'), ~Early', ~Attaching'
  PROVE  StepScreened
BY DEF StepScreened, Placed, Early, Attaching

\* While the setup has not, no state offers a tool.
LEMMA ToolsComeLate ==
  ASSUME Screening, session.state \notin {"GREET", "CLOSE"}
  PROVE  ~Early
BY ScreeningParts DEF Placed

\* The states in which each tool runs.
LEMMA ToolStates ==
  ASSUME NEW s \in SessionType
  PROVE  /\ Runs("provide_email", s) => s.state = "IDENTIFY"
         /\ Runs("confirm_email", s) => s.state = "VERIFY_EMAIL"
         /\ Runs("select_language", s) => s.state = "LANGUAGE_SELECT"
         /\ Runs("record_time_consent", s) => s.state = "CONSENT_TIME"
         /\ Runs("record_recording_consent", s) => s.state = "CONSENT_RECORDING"
         /\ Runs("record_detail", s) => s.state = "SCREEN"
         /\ Runs("finish_screening", s) => s.state = "SCREEN"
<1>1. s.state \in States
  BY DEF SessionType
<1> QED
  BY <1>1 DEF Runs, States, ToolsByState

\* No tool runs before the setup has decided or after the call is closed.
LEMMA AnyToolState ==
  ASSUME NEW s \in SessionType, NEW tool, Runs(tool, s)
  PROVE  s.state \notin {"GREET", "CLOSE"}
BY DEF Runs, ToolsByState

----------------------------------------------------------------------------
(* The actions: setting up the call.                                        *)

\* The session and the turn of a step that sets the call up.
LEMMA SetupSteps ==
  ASSUME Screening, Setup
  PROVE  StepScreened
<1>1. CASE Begin
  <2>1. setup'.phase = "lookup" /\ setup.phase = "waiting"
    BY <1>1, ScreeningParts, SoundParts DEF Begin, RestOK, SetupType
  <2> QED
    BY <1>1, <2>1, ScreeningParts, CalmStep DEF Begin
<1>2. CASE ListenOnly
  <2> DEFINE s == [session EXCEPT !.listenOnly = TRUE]
  <2>1. Keeps(session, s) /\ Calm(session, s)
    BY ScreeningParts, FlagsKeep
  <2>2. session' = SetState(s, "CLOSE")
    BY <1>2 DEF ListenOnly
  <2> HIDE DEF s
  <2>3. s \in SessionType
    BY <2>1 DEF Keeps, Justified, WellFormed
  <2>4. Keeps(session, session') /\ Calm(session, session')
    BY <2>1, <2>2, <2>3, CloseKeeps, EndsCalmly, CalmChain
  <2>5. ~Early' /\ turn' = turn
    BY <1>2, ScreeningParts, SoundParts DEF ListenOnly, CallerLookedUp, Rest, RestOK, SetupType, Early
  <2> QED
    BY <2>4, <2>5, CalmStep
<1>3. CASE RefusePaused
  <2>1. session' = Finish(SetState(session, "CLOSE"), "unknown_caller")
    BY <1>3 DEF RefusePaused
  <2>2. Keeps(session, SetState(session, "CLOSE")) /\ Calm(session, SetState(session, "CLOSE"))
    BY ScreeningParts, CloseKeeps, EndsCalmly
  <2>3. SetState(session, "CLOSE") \in SessionType
    BY <2>2 DEF Keeps, Justified, WellFormed
  <2>4. Keeps(session, session')
    BY <2>1, <2>2, FinishKeeps DEF Outcomes
  <2>5. Calm(session, session')
    BY <2>1, <2>2, <2>3, EndsCalmly, CalmChain
  <2>6. ~Early' /\ turn' = turn
    BY <1>3, ScreeningParts, SoundParts DEF RefusePaused, CallerLookedUp, Rest, RestOK, SetupType, Early
  <2> QED
    BY <2>4, <2>5, <2>6, CalmStep
<1>4. CASE TurnAwayRepeat \/ TurnAwayClosed \/ Recognise
  <2>1. PICK found \in Lookups, then \in {"already", "window", "greet"} :
          LetIn(found, then) /\ (then = "greet" => ~found.hasCompleted)
    BY <1>4 DEF TurnAwayRepeat, TurnAwayClosed, Recognise
  <2>2. Early /\ ~Attaching /\ session.questions = 0 /\ session.state \in {"GREET", "CLOSE"}
    BY <2>1, ScreeningParts DEF LetIn, CallerLookedUp, Early, Placed
  <2> DEFINE s == Attach(session, found)
  <2>3. /\ Keeps(session, s) /\ s.candidate # Nobody /\ s.alreadyInterviewed = found.hasCompleted
        /\ s.state = session.state /\ s.questions = 0
    BY <2>2, ScreeningParts, AttachKeeps
  <2>4. session' = [s EXCEPT !.recognised = TRUE] /\ setup' = [phase |-> "opening", then |-> then]
    BY <2>1 DEF LetIn
  <2> HIDE DEF s
  <2>5. Keeps(session, session') /\ Calm(s, session')
    BY <2>3, <2>4, FlagsKeep
  <2>6. turn' = turn
    BY <2>1 DEF LetIn, CallerLookedUp, Rest
  <2>7. /\ session'.questions = 0 /\ session'.state \in {"GREET", "CLOSE"}
        /\ then = "greet" => Known(session')
    BY <2>1, <2>2, <2>3, <2>5 DEF Calm, SamePerson, Known
  <2>8. setup'.then = then /\ ~Attaching'
    BY <2>2, <2>4, <2>6 DEF Attaching
  <2> QED
    BY <2>5, <2>7, <2>8 DEF StepScreened, Placed, Attaching
<1>5. CASE DoNotRecognise
  <2>1. ~Attaching /\ session' = SetState(session, "IDENTIFY") /\ turn' = turn
    BY <1>5, ScreeningParts DEF DoNotRecognise, Greet, CallerLookedUp, Rest, Early, Placed
  <2>2. Keeps(session, session')
    BY <2>1, ScreeningParts, SetStateKeeps DEF Earned, States
  <2>3. ~Early'
    BY <1>5, ScreeningParts, SoundParts
       DEF DoNotRecognise, Greet, CallerLookedUp, RestOK, SetupType, Early
  <2> QED
    BY <2>1, <2>2, <2>3, DetachedStep DEF Attaching
<1>6. CASE RowOpened
  <2>1. PICK saved \in Saves :
          LET s == [session EXCEPT !.callId = saved]
          IN  IF setup.then = "greet"
              THEN Greet(SetState(s, FirstState))
              ELSE /\ session' = Finish(SetState(s, "CLOSE"),
                                        IF setup.then = "already" THEN "already_interviewed"
                                                                  ELSE "out_of_window")
                   /\ setup' = [setup EXCEPT !.phase = "done"]
    BY <1>6 DEF RowOpened
  <2> DEFINE s == [session EXCEPT !.callId = saved]
  <2>2. /\ ~Attaching /\ session.questions = 0 /\ session.state \in {"GREET", "CLOSE"}
        /\ setup.then = "greet" => Known(session)
    BY <1>6, ScreeningParts DEF RowOpened, Early, Placed
  <2>3. turn' = turn
    BY <1>6 DEF RowOpened
  <2>4. Keeps(session, s) /\ Calm(session, s)
    BY ScreeningParts, FlagsKeep DEF Saves
  <2>5. CASE setup.then = "greet"
    <3>1. session' = SetState(s, FirstState) /\ setup' = [setup EXCEPT !.phase = "greeting"]
      BY <2>1, <2>5 DEF Greet
    <3>2. ~Early'
      BY <3>1, ScreeningParts, SoundParts DEF RestOK, SetupType, Early
    <3> HIDE DEF s
    <3>3. Earned(s, FirstState)
      BY <2>2, <2>4, <2>5 DEF Earned, FirstState, Checked, Known, Calm, SamePerson
    <3>4. Keeps(session, session')
      BY <2>4, <3>1, <3>3, SetStateKeeps DEF FirstState, States
    <3> QED
      BY <2>2, <2>3, <3>2, <3>4, DetachedStep DEF Attaching
  <2>6. CASE setup.then # "greet"
    <3> DEFINE o == IF setup.then = "already" THEN "already_interviewed" ELSE "out_of_window"
               t == SetState(s, "CLOSE")
    <3>1. session' = Finish(t, o) /\ setup' = [setup EXCEPT !.phase = "done"]
      BY <2>1, <2>6
    <3>2. ~Early'
      BY <3>1, ScreeningParts, SoundParts DEF RestOK, SetupType, Early
    <3>3. Keeps(session, t) /\ Calm(s, t)
      <4> HIDE DEF s
      <4>1. s \in SessionType
        BY <2>4 DEF Keeps, Justified, WellFormed
      <4> QED
        BY <2>4, <4>1, CloseKeeps, EndsCalmly
    <3>4. t.questions = 0
      <4> HIDE DEF s, t
      <4> QED
        BY <2>2, <2>4, <3>3 DEF Calm
    <3>5. Keeps(session, session')
      <4> HIDE DEF t
      <4> QED
        BY <3>1, <3>3, <3>4, FinishKeeps DEF Outcomes
    <3> QED
      BY <2>2, <2>3, <3>2, <3>5, DetachedStep DEF Attaching
  <2> QED
    BY <2>5, <2>6
<1>7. CASE GreetingSaid
  <2>1. ~Early'
    BY <1>7, ScreeningParts, SoundParts DEF GreetingSaid, RestOK, SetupType, Early
  <2> QED
    BY <1>7, <2>1, ScreeningParts, CalmStep DEF GreetingSaid
<1>8. CASE FirstTurn
  <2>1. ~Early' /\ session' = session
    BY <1>8, ScreeningParts, SoundParts DEF FirstTurn, RestOK, SetupType, Early
  <2>2. ~Attaching' \/ turn' = turn
    BY <1>8, ScreeningParts, PumpDetaches DEF FirstTurn
  <2> QED
    BY <2>1, <2>2, ScreeningParts, CalmStep
<1> QED
  BY <1>1, <1>2, <1>3, <1>4, <1>5, <1>6, <1>7, <1>8 DEF Setup

----------------------------------------------------------------------------
(* The actions: the turn.                                                   *)

\* A turn that at most ends the session, or goes on to something that is not a tool
\* looking a candidate up.
LEMMA CalmTurnStep ==
  ASSUME Screening, Keeps(session, session'), Calm(session, session'), ~Attaching', UNCHANGED setup
  PROVE  StepScreened
BY CalmStep

\* What a turn does without a tool.
LEMMA QuietTurnSteps ==
  ASSUME Screening, UNCHANGED setup,
         ModelReplies \/ TurnInterrupted \/ ModelFails \/ ApologySaid \/ Reprompted
  PROVE  StepScreened
<1>1. CASE ModelReplies
  <2>1. PICK text \in BOOLEAN, tool \in ToolsByState[turn.state] \cup {"none"} :
          turn' = [turn EXCEPT !.phase = "speaking", !.text = text, !.tool = tool]
    BY <1>1 DEF ModelReplies
  <2>2. turn'.phase = "speaking"
    BY <2>1, ScreeningParts, SoundParts, Zenon DEF SpeechOK, TurnType
  <2> QED
    BY <1>1, <2>2, ScreeningParts, CalmTurnStep DEF ModelReplies, Attaching
<1>2. CASE TurnInterrupted
  BY <1>2, ScreeningParts, TurnOverDetaches, CalmTurnStep DEF TurnInterrupted
<1>3. CASE ModelFails
  BY <1>3, ScreeningParts, OnlyDetaches, CalmTurnStep DEF ModelFails
<1>4. CASE ApologySaid
  <2>1. Keeps(session, session') /\ Calm(session, session')
    BY <1>4, ScreeningParts, FinishKeeps, EndsCalmly DEF ApologySaid, Outcomes
  <2> QED
    BY <1>4, <2>1, OnlyDetaches, CalmTurnStep DEF ApologySaid
<1>5. CASE Reprompted
  BY <1>5, ScreeningParts, ReturnDetaches, CalmTurnStep DEF Reprompted
<1> QED
  BY <1>1, <1>2, <1>3, <1>4, <1>5

\* Giving up on a turn escalates the call, and that is all.
LEMMA GivingUpSteps ==
  ASSUME Screening, ForceEscalate, UNCHANGED setup
  PROVE  StepScreened
<1>1. Keeps(session, session') /\ Calm(session, session')
  BY ScreeningParts, FinishKeeps, EndsCalmly DEF ForceEscalate, Outcomes
<1> QED
  BY <1>1, OnlyDetaches, CalmTurnStep DEF ForceEscalate

\* The session s that a spoken reply leaves: a question may have been asked.
Replied(s) ==
  /\ Keeps(session, s) /\ s \in SessionType
  /\ s.state = session.state
  /\ s.state # "SCREEN" => s = session

\* A tool that ends, or waits for its patch, with session t.
LEMMA ToolEnds ==
  ASSUME Screening, UNCHANGED setup, NEW s, Replied(s), NEW tool, Runs(tool, s),
         NEW t, Keeps(session, t), NEW spoke, Result(t, spoke) \/ ResultThenPatch(t, spoke)
  PROVE  StepScreened
<1>1. ~Early'
  BY AnyToolState, ToolsComeLate DEF Replied, Early
<1>2. session' = t /\ ~Attaching'
  BY ScreeningParts, ResultDetaches, ResultThenPatchDetaches DEF Keeps, Justified, WellFormed
<1> QED
  BY <1>1, <1>2, DetachedStep

\* A tool that first looks a candidate up.
LEMMA ToolLooksUp ==
  ASSUME Screening, UNCHANGED setup, NEW s, Replied(s), NEW spoke, ResultAfterLookup(s, spoke),
         \/ Runs("confirm_email", s) \/ Runs("provide_email", s)
  PROVE  StepScreened
<1>1. s \in SessionType
  BY DEF Replied
<1>2. \/ turn.tool = "confirm_email" /\ s.state = "VERIFY_EMAIL"
      \/ turn.tool = "provide_email" /\ s.state = "IDENTIFY"
  BY <1>1, ToolStates DEF Runs
<1>3. session' = session
  BY <1>2 DEF Replied, ResultAfterLookup
<1>4. ~Early'
  BY <1>2, ToolsComeLate DEF Replied, Early
<1>5. turn'.phase = "lookup" /\ turn'.tool = turn.tool
  BY ScreeningParts, SuspendDoes DEF ResultAfterLookup
<1>6. session.questions = 0
  BY <1>2, ScreeningParts, SettingsAssumption DEF Replied, Justified, SessionType
<1> QED
  BY <1>2, <1>3, <1>4, <1>5, <1>6, ScreeningParts DEF StepScreened, Placed, Attaching, Early, Replied

\* A reply without a tool, one whose tool is refused, and the tools that end the call.
LEMMA PlainReplies ==
  ASSUME Screening, UNCHANGED setup, NEW s, Replied(s), NEW spoke \in BOOLEAN
  PROVE  /\ Farewell(spoke, s) => StepScreened
         /\ JustTalk(spoke, s) => StepScreened
         /\ ToolRefused(spoke, s) => StepScreened
         /\ Escalate(spoke, s) => StepScreened
         /\ EndCall(spoke, s) => StepScreened
<1>1. \A o \in {"completed", "escalated", "call_back_later", "unknown_caller"} :
        Keeps(session, Finish(s, o)) /\ Finish(s, o) \in SessionType
  BY FinishKeeps, ZenonT(60) DEF Outcomes, Replied, Keeps, Justified, WellFormed
<1>2. ASSUME Farewell(spoke, s) PROVE StepScreened
  <2>1. Keeps(session, session') /\ ~Attaching'
    BY <1>1, <1>2, ReturnDetaches DEF Farewell
  <2>2. ~Early'
    BY <1>2, ToolsComeLate DEF Farewell, Replied, Early
  <2> QED
    BY <2>1, <2>2, DetachedStep
<1>3. ASSUME session' = s, ~Attaching' PROVE StepScreened
  <2>1. CASE s = session
    BY <1>3, <2>1, ScreeningParts, CalmTurnStep
  <2>2. CASE s # session
    <3>1. ~Early'
      BY <2>2, ToolsComeLate DEF Replied, Early
    <3> QED
      BY <1>3, <3>1, DetachedStep DEF Replied
  <2> QED
    BY <2>1, <2>2
<1>4. ASSUME JustTalk(spoke, s) PROVE StepScreened
  <2>1. session' = s /\ ~Attaching'
    BY <1>4, ReturnDetaches, OnlyDetaches DEF JustTalk, Replied
  <2> QED
    BY <2>1, <1>3
<1>5. ASSUME ToolRefused(spoke, s) PROVE StepScreened
  <2>1. session' = s /\ ~Attaching'
    BY <1>5, ScreeningParts, ResultDetaches DEF ToolRefused, Replied
  <2> QED
    BY <2>1, <1>3
<1>6. ASSUME Escalate(spoke, s) PROVE StepScreened
  BY <1>1, <1>6, ToolEnds DEF Escalate
<1>7. ASSUME EndCall(spoke, s) PROVE StepScreened
  <2>1. PICK o \in {"completed", "call_back_later", "unknown_caller"} : Result(Finish(s, o), spoke)
    BY <1>7 DEF EndCall
  <2>2. Runs("end_call", s)
    BY <1>7 DEF EndCall
  <2> QED
    BY <1>1, <2>1, <2>2, ToolEnds
<1> QED
  BY <1>2, <1>4, <1>5, <1>6, <1>7

\* The tools that move a caller on, each earning the state it moves to.
LEMMA MovingReplies ==
  ASSUME Screening, UNCHANGED setup, NEW s, Replied(s), NEW spoke \in BOOLEAN
  PROVE  /\ ConfirmEmail(spoke, s) => StepScreened
         /\ ProvideEmail(spoke, s) => StepScreened
         /\ SelectLanguage(spoke, s) => StepScreened
         /\ TimeConsent(spoke, s) => StepScreened
         /\ RecordingConsent(spoke, s) => StepScreened
         /\ RecordDetail(spoke, s) => StepScreened
         /\ FinishScreening(spoke, s) => StepScreened
<1>1. Keeps(session, s) /\ s \in SessionType /\ Justified(s)
  BY DEF Replied, Keeps
<1>2. s.state # "CLOSE" => ~s.ended
  BY <1>1 DEF Justified, WellFormed
<1>3. ASSUME ConfirmEmail(spoke, s) PROVE StepScreened
  <2>1. s.state = "VERIFY_EMAIL" /\ Runs("confirm_email", s)
    BY <1>1, <1>3, ToolStates DEF ConfirmEmail
  <2>2. s.questions = 0 /\ Known(s)
    BY <1>1, <2>1, SettingsAssumption DEF Justified, SessionType, Earned
  <2>3. ASSUME NEW b \in BOOLEAN, b \/ ~s.emailOnFile
        PROVE  Keeps(session, SetState([s EXCEPT !.emailVerified = b], "LANGUAGE_SELECT"))
    <3> DEFINE u == [s EXCEPT !.emailVerified = b]
    <3>1. /\ Keeps(session, u) /\ u.emailVerified = b /\ u.emailOnFile = s.emailOnFile
          /\ SamePerson(s, u)
      BY <1>1, <2>1, <2>2, EmailCheckKeeps
    <3> HIDE DEF u
    <3>2. Earned(u, "LANGUAGE_SELECT")
      BY <2>2, <2>3, <3>1 DEF Earned, Known, Checked, SamePerson
    <3>3. Keeps(session, SetState(u, "LANGUAGE_SELECT"))
      BY <3>1, <3>2, SetStateKeeps DEF States
    <3> QED
      BY <3>3 DEF u
  <2>4. CASE ResultAfterLookup(s, spoke)
    BY <2>1, <2>4, ToolLooksUp
  <2>5. CASE ~ResultAfterLookup(s, spoke)
    <3>1. PICK b \in BOOLEAN :
            /\ b \/ ~s.emailOnFile
            /\ Result(SetState([s EXCEPT !.emailVerified = b], "LANGUAGE_SELECT"), spoke)
      BY <1>3, <2>5 DEF ConfirmEmail
    <3> QED
      BY <2>1, <2>3, <3>1, ToolEnds
  <2> QED
    BY <2>4, <2>5
<1>4. ASSUME ProvideEmail(spoke, s) PROVE StepScreened
  BY <1>4, ToolLooksUp DEF ProvideEmail
<1>5. ASSUME SelectLanguage(spoke, s) PROVE StepScreened
  <2> DEFINE u == [s EXCEPT !.language = TRUE]
  <2>1. s.state = "LANGUAGE_SELECT" /\ Runs("select_language", s)
    BY <1>1, <1>5, ToolStates DEF SelectLanguage
  <2>2. Keeps(session, u)
    BY <1>1, <1>2, <2>1, AnswersKeep
  <2>3. Earned(u, "CONSENT_TIME")
    <3>1. Known(s) /\ Checked(s)
      BY <1>1, <2>1 DEF Justified, Earned
    <3>2. /\ u.candidate = s.candidate /\ u.alreadyInterviewed = s.alreadyInterviewed
          /\ u.emailVerified = s.emailVerified /\ u.emailOnFile = s.emailOnFile
          /\ u.language
      BY <1>1 DEF SessionType
    <3> HIDE DEF u
    <3> QED
      BY <3>1, <3>2 DEF Earned, Known, Checked
  <2>4. Keeps(session, SetState(u, "CONSENT_TIME"))
    <3> HIDE DEF u
    <3> QED
      BY <2>2, <2>3, SetStateKeeps DEF States
  <2> QED
    BY <1>1, <1>5, <2>1, <2>4, ToolEnds DEF SelectLanguage
<1>6. ASSUME TimeConsent(spoke, s) PROVE StepScreened
  <2> DEFINE u == [s EXCEPT !.timeConsent = TRUE]
  <2>1. s.state = "CONSENT_TIME" /\ Runs("record_time_consent", s)
    BY <1>1, <1>6, ToolStates DEF TimeConsent
  <2>2. Keeps(session, u)
    BY <1>1, <1>2, <2>1, AnswersKeep
  <2>3. Earned(u, "CONSENT_RECORDING")
    <3>1. Known(s) /\ Checked(s) /\ s.language
      BY <1>1, <2>1 DEF Justified, Earned
    <3>2. /\ u.candidate = s.candidate /\ u.alreadyInterviewed = s.alreadyInterviewed
          /\ u.emailVerified = s.emailVerified /\ u.emailOnFile = s.emailOnFile
          /\ u.language = s.language /\ u.timeConsent
      BY <1>1 DEF SessionType
    <3> HIDE DEF u
    <3> QED
      BY <3>1, <3>2 DEF Earned, Known, Checked
  <2>4. Keeps(session, SetState(u, "CONSENT_RECORDING"))
    <3> HIDE DEF u
    <3> QED
      BY <2>2, <2>3, SetStateKeeps DEF States
  <2>5. Keeps(session, Finish(s, "declined_consent")) /\ Keeps(session, Finish(s, "call_back_later"))
    BY <1>1, FinishKeeps DEF Outcomes
  <2> QED
    BY <1>6, <2>1, <2>4, <2>5, ToolEnds DEF TimeConsent
<1>7. ASSUME RecordingConsent(spoke, s) PROVE StepScreened
  <2> DEFINE u == [s EXCEPT !.recordingConsent = TRUE, !.deadline = TRUE]
  <2>1. s.state = "CONSENT_RECORDING" /\ Runs("record_recording_consent", s)
    BY <1>1, <1>7, ToolStates DEF RecordingConsent
  <2>2. Keeps(session, u)
    BY <1>1, <1>2, <2>1, AnswersKeep
  <2>3. Earned(u, "SCREEN")
    <3>1. Known(s) /\ Checked(s) /\ s.language /\ s.timeConsent
      BY <1>1, <2>1 DEF Justified, Earned
    <3>2. /\ u.candidate = s.candidate /\ u.alreadyInterviewed = s.alreadyInterviewed
          /\ u.emailVerified = s.emailVerified /\ u.emailOnFile = s.emailOnFile
          /\ u.language = s.language /\ u.timeConsent = s.timeConsent
          /\ u.recordingConsent
      BY <1>1, Zenon DEF SessionType
    <3> HIDE DEF u
    <3> QED
      BY <3>1, <3>2 DEF Earned, Known, Checked
  <2>4. Keeps(session, SetState(u, "SCREEN"))
    <3> HIDE DEF u
    <3> QED
      BY <2>2, <2>3, SetStateKeeps DEF States
  <2> QED
    BY <1>7, <2>1, <2>4, ToolEnds DEF RecordingConsent
<1>8. ASSUME RecordDetail(spoke, s) PROVE StepScreened
  <2> DEFINE u == [s EXCEPT !.screeningFinished = TRUE]
  <2>1. s.state = "SCREEN" /\ Runs("record_detail", s)
    BY <1>1, <1>8, ToolStates DEF RecordDetail
  <2>2. Keeps(session, u)
    BY <1>1, <1>2, <2>1, AnswersKeep
  <2>3. Keeps(session, Finish(u, "completed"))
    <3> HIDE DEF u
    <3> QED
      BY <2>2, FinishKeeps DEF Outcomes
  <2> QED
    BY <1>1, <1>8, <2>1, <2>3, ToolEnds DEF RecordDetail
<1>9. ASSUME FinishScreening(spoke, s) PROVE StepScreened
  <2> DEFINE u == [s EXCEPT !.screeningFinished = TRUE]
  <2>1. s.state = "SCREEN" /\ Runs("finish_screening", s)
    BY <1>1, <1>9, ToolStates DEF FinishScreening
  <2>2. Keeps(session, u) /\ u.state = s.state
    BY <1>1, <1>2, <2>1, AnswersKeep DEF SessionType
  <2>3. Keeps(session, SetState(u, "CANDIDATE_QA"))
    <3> HIDE DEF u
    <3>1. Earned(u, "CANDIDATE_QA")
      BY <2>1, <2>2 DEF Keeps, Justified, Earned
    <3> QED
      BY <2>2, <3>1, SetStateKeeps DEF States
  <2> QED
    BY <1>9, <2>1, <2>3, ToolEnds DEF FinishScreening
<1> QED
  BY <1>3, <1>4, <1>5, <1>6, <1>7, <1>8, <1>9

\* Whatever follows a reply keeps what has been earned.
LEMMA ReplyDoneScreens == ASSUME Screening, ReplyDone PROVE StepScreened
<1>1. PICK spoke \in BOOLEAN :
        LET s == Asked(session, spoke)
        IN  \/ Farewell(spoke, s)         \/ JustTalk(spoke, s)
            \/ ToolRefused(spoke, s)
            \/ ConfirmEmail(spoke, s)     \/ ProvideEmail(spoke, s)
            \/ SelectLanguage(spoke, s)   \/ TimeConsent(spoke, s)
            \/ RecordingConsent(spoke, s) \/ RecordDetail(spoke, s)
            \/ FinishScreening(spoke, s)  \/ Escalate(spoke, s)
            \/ EndCall(spoke, s)
  BY DEF ReplyDone
<1>2. Replied(Asked(session, spoke))
  BY ScreeningParts, AskedKeeps DEF Replied, Keeps, Justified, WellFormed
<1>3. UNCHANGED setup
  BY DEF ReplyDone, TurnOnly
<1> QED
  BY <1>1, <1>2, <1>3, PlainReplies, MovingReplies

\* The second halves of the tools that attach a candidate: the call may have ended, but
\* nothing has been asked and the session has not moved anywhere else.
LEMMA AdmitScreens ==
  ASSUME Screening, UNCHANGED setup, Attaching, NEW s, Keeps(session, s), Admit(s),
         Known(s), s.emailVerified, s.questions = 0,
         s.state \in {"IDENTIFY", "VERIFY_EMAIL", "CLOSE"}
  PROVE  StepScreened
<1>1. ~Early'
  BY ScreeningParts DEF Placed, Early
<1>2. Earned(s, "LANGUAGE_SELECT")
  BY DEF Earned, Checked
<1>3. CASE s.callId
  <2>1. Keeps(session, SetState(s, "LANGUAGE_SELECT"))
    BY <1>2, SetStateKeeps DEF States
  <2>2. session' = SetState(s, "LANGUAGE_SELECT") /\ ~Attaching'
    BY <1>3, <2>1, ScreeningParts, ResultDetaches DEF Admit, Keeps, Justified, WellFormed
  <2> QED
    BY <1>1, <2>1, <2>2, DetachedStep
<1>4. CASE ~s.callId
  <2>1. session' = s /\ turn'.phase = "opening"
    BY <1>4, ScreeningParts, SuspendDoes DEF Admit
  <2> QED
    BY <1>1, <2>1 DEF StepScreened, Placed, Attaching, Early
<1> QED
  BY <1>3, <1>4

\* A tool that ends with session t after it has looked a candidate up, or opened a row.
LEMMA AttachedEnds ==
  ASSUME Screening, UNCHANGED setup, Attaching, NEW t, Keeps(session, t), NEW spoke, Result(t, spoke)
  PROVE  StepScreened
<1>1. ~Early'
  BY ScreeningParts DEF Placed, Early
<1>2. session' = t /\ ~Attaching'
  BY ScreeningParts, ResultDetaches DEF Keeps, Justified, WellFormed
<1> QED
  BY <1>1, <1>2, DetachedStep

\* confirm_email with another candidate's address.
LEMMA EmailOfAnotherScreens == ASSUME Screening, EmailOfAnother PROVE StepScreened
<1>1. PICK found \in Lookups :
        IF found.hasCompleted
        THEN Result(Finish(session, "already_interviewed"), turn.spoke)
        ELSE Admit([Attach(session, found) EXCEPT !.recognised = TRUE, !.emailVerified = TRUE])
  BY DEF EmailOfAnother
<1>2. Attaching /\ session.questions = 0 /\ session.state \in {"VERIFY_EMAIL", "CLOSE"} /\ UNCHANGED setup
  BY ScreeningParts DEF EmailOfAnother, Placed, Attaching, TurnOnly
<1>3. CASE found.hasCompleted
  <2>1. Keeps(session, Finish(session, "already_interviewed"))
    BY <1>2, ScreeningParts, FinishKeeps DEF Outcomes
  <2> QED
    BY <1>1, <1>2, <1>3, <2>1, AttachedEnds
<1>4. CASE ~found.hasCompleted
  <2> DEFINE s == Attach(session, found)
             u == [s EXCEPT !.recognised = TRUE]
             v == [u EXCEPT !.emailVerified = TRUE]
  <2>1. /\ Keeps(session, s) /\ s.candidate # Nobody /\ s.alreadyInterviewed = found.hasCompleted
        /\ s.state = session.state /\ s.questions = 0
    BY <1>2, <1>4, ScreeningParts, AttachKeeps
  <2>2. v = [s EXCEPT !.recognised = TRUE, !.emailVerified = TRUE]
    OBVIOUS
  <2>3. Keeps(session, u) /\ Calm(s, u)
    <3> HIDE DEF s
    <3> QED
      BY <2>1, FlagsKeep
  <2>4. /\ u.state \in {"VERIFY_EMAIL", "CLOSE"} /\ u.questions = 0 /\ Known(u)
    <3> HIDE DEF s, u
    <3> QED
      BY <1>2, <1>4, <2>1, <2>3 DEF Calm, SamePerson, Known
  <2>5. /\ Keeps(session, v) /\ v.emailVerified /\ v.state = u.state /\ v.questions = 0 /\ Known(v)
    <3>1. v = [u EXCEPT !.emailVerified = TRUE]
      OBVIOUS
    <3> HIDE DEF s, u, v
    <3>2. /\ Keeps(session, v) /\ v.emailVerified = TRUE /\ v.state = u.state
          /\ v.questions = 0 /\ SamePerson(u, v)
      BY <2>3, <2>4, <3>1, EmailCheckKeeps
    <3> QED
      BY <2>4, <3>2 DEF SamePerson, Known
  <2>6. Admit(v)
    BY <1>1, <1>4, <2>2
  <2> HIDE DEF s, u, v
  <2> QED
    BY <1>2, <2>4, <2>5, <2>6, AdmitScreens
<1> QED
  BY <1>3, <1>4

\* confirm_email with nobody's address.
LEMMA EmailMismatchScreens == ASSUME Screening, EmailMismatch PROVE StepScreened
<1> DEFINE s == [session EXCEPT !.emailAttempts = @ + 1]
<1>1. Result(IF s.emailAttempts >= MaxAttempts
             THEN Finish([s EXCEPT !.emailVerified = FALSE], "unknown_caller")
             ELSE s, turn.spoke)
  BY DEF EmailMismatch
<1>2. Attaching /\ session.questions = 0 /\ session.state \in {"VERIFY_EMAIL", "CLOSE"} /\ UNCHANGED setup
  BY ScreeningParts DEF EmailMismatch, Placed, Attaching, TurnOnly
<1>3. Keeps(session, s) /\ Calm(session, s)
  BY ScreeningParts, FlagsKeep
<1> HIDE DEF s
<1>4. Keeps(session, [s EXCEPT !.emailVerified = FALSE])
  <2>1. s.questions = 0 /\ s.state \in {"VERIFY_EMAIL", "CLOSE"}
    BY <1>2, <1>3 DEF Calm
  <2> QED
    BY <1>3, <2>1, EmailCheckKeeps
<1>5. Keeps(session, Finish([s EXCEPT !.emailVerified = FALSE], "unknown_caller"))
  BY <1>4, FinishKeeps DEF Outcomes
<1>6. CASE s.emailAttempts >= MaxAttempts
  BY <1>1, <1>2, <1>5, <1>6, AttachedEnds
<1>7. CASE ~(s.emailAttempts >= MaxAttempts)
  BY <1>1, <1>2, <1>3, <1>7, AttachedEnds
<1> QED
  BY <1>6, <1>7

\* provide_email with nobody's address.
LEMMA EmailUnknownScreens == ASSUME Screening, EmailUnknown PROVE StepScreened
<1>1. Attaching /\ UNCHANGED setup
  BY DEF EmailUnknown, Attaching, TurnOnly
<1>2. Keeps(session, Finish(session, "unknown_caller"))
  BY ScreeningParts, FinishKeeps DEF Outcomes
<1> QED
  BY <1>1, <1>2, AttachedEnds DEF EmailUnknown

\* provide_email with a candidate's address.
LEMMA EmailKnownScreens == ASSUME Screening, EmailKnown PROVE StepScreened
<1>1. PICK found \in Lookups :
        LET s == [Attach(session, found) EXCEPT !.emailVerified = TRUE]
        IN  \/ Result(Finish(session, "unknown_caller"), turn.spoke)
            \/ Result(Finish(s, "unknown_caller"), turn.spoke)
            \/ Result(Finish(s, "already_interviewed"), turn.spoke)
            \/ Admit(s) /\ ~s.alreadyInterviewed
  BY DEF EmailKnown
<1> DEFINE s == Attach(session, found)
           u == [s EXCEPT !.emailVerified = TRUE]
<1>2. Attaching /\ session.questions = 0 /\ session.state \in {"IDENTIFY", "CLOSE"} /\ UNCHANGED setup
  BY ScreeningParts DEF EmailKnown, Placed, Attaching, TurnOnly
<1>3. Keeps(session, s) /\ s.candidate # Nobody /\ s.state = session.state /\ s.questions = 0
  BY <1>2, ScreeningParts, AttachKeeps
<1>4. /\ Keeps(session, u) /\ u.emailVerified /\ u.state = session.state /\ u.questions = 0
      /\ u.candidate # Nobody
  <2>1. u = [s EXCEPT !.emailVerified = TRUE]
    OBVIOUS
  <2> HIDE DEF s, u
  <2>2. /\ Keeps(session, u) /\ u.emailVerified = TRUE /\ u.state = s.state
        /\ u.questions = 0 /\ SamePerson(s, u)
    BY <1>2, <1>3, <2>1, EmailCheckKeeps
  <2> QED
    BY <1>3, <2>2 DEF SamePerson
<1>5. \/ Result(Finish(session, "unknown_caller"), turn.spoke)
      \/ Result(Finish(u, "unknown_caller"), turn.spoke)
      \/ Result(Finish(u, "already_interviewed"), turn.spoke)
      \/ Admit(u) /\ ~u.alreadyInterviewed
  BY <1>1
<1> HIDE DEF s, u
<1>6. /\ Keeps(session, Finish(session, "unknown_caller"))
      /\ Keeps(session, Finish(u, "unknown_caller"))
      /\ Keeps(session, Finish(u, "already_interviewed"))
  BY <1>4, ScreeningParts, FinishKeeps DEF Outcomes
<1>7. CASE Admit(u) /\ ~u.alreadyInterviewed
  BY <1>2, <1>4, <1>7, AdmitScreens DEF Known
<1>8. CASE ~(Admit(u) /\ ~u.alreadyInterviewed)
  BY <1>2, <1>5, <1>6, <1>8, AttachedEnds
<1> QED
  BY <1>7, <1>8

\* The row is there: the candidate it was opened for goes on to choose a language.
LEMMA ToolRowOpenedScreens == ASSUME Screening, ToolRowOpened PROVE StepScreened
<1> DEFINE s == [session EXCEPT !.callId = TRUE]
<1>1. Attaching /\ Known(session) /\ session.emailVerified /\ UNCHANGED setup
  BY ScreeningParts DEF ToolRowOpened, Placed, Attaching
<1>2. Keeps(session, s) /\ Calm(session, s)
  BY ScreeningParts, FlagsKeep
<1>3. Result(SetState(s, "LANGUAGE_SELECT"), turn.spoke)
  BY DEF ToolRowOpened
<1> HIDE DEF s
<1>4. Earned(s, "LANGUAGE_SELECT")
  BY <1>1, <1>2 DEF Calm, SamePerson, Known, Checked, Earned
<1>5. Keeps(session, SetState(s, "LANGUAGE_SELECT"))
  BY <1>2, <1>4, SetStateKeeps DEF States
<1> QED
  BY <1>1, <1>3, <1>5, AttachedEnds

----------------------------------------------------------------------------
(* The actions: the finaliser, the line and the clocks.                     *)

\* The finaliser at most ends the session.
LEMMA FinaliseScreens ==
  ASSUME Screening, NEW o \in Outcomes \cup {"none"}, o # "already_interviewed",
         Finalise(session, o)
  PROVE  Keeps(session, session') /\ Calm(session, session')
BY ScreeningParts, FinishKeeps, EndsCalmly DEF Finalise, Outcomes

\* Called with the outcome of the session itself it does not so much as that, unless the
\* session has not ended and has none.
LEMMA FinaliseOnceScreens ==
  ASSUME Screening, FinaliseOnce(session.outcome)
  PROVE  Keeps(session, session') /\ Calm(session, session')
<1>1. CASE session' = session
  BY <1>1, ScreeningParts
<1>2. CASE session' # session
  <2>1. Finalise(session, session.outcome)
    BY <1>2 DEF FinaliseOnce
  <2>2. session.outcome = "none"
    BY <1>2, <2>1, ScreeningParts DEF Finalise, Finish, Justified
  <2> QED
    BY <2>1, <2>2, FinaliseScreens
<1> QED
  BY <1>1, <1>2

\* The finaliser writes to the database only.
LEMMA FinaliserScreens == ASSUME Screening, Finaliser PROVE StepScreened
BY ScreeningParts, CalmStep DEF Finaliser, FinalPatch, Meter, LogStray, Analyse

\* Every step of a turn.
LEMMA TurnScreens == ASSUME Screening, Turn PROVE StepScreened
<1>1. CASE ModelReplies \/ TurnInterrupted \/ ModelFails \/ ApologySaid \/ Reprompted
  BY <1>1, QuietTurnSteps
     DEF ModelReplies, TurnInterrupted, ModelFails, ApologySaid, Reprompted, TurnOnly
<1>2. CASE SorrySaid \/ LookupFails \/ ToolRowFails
  BY <1>2, GivingUpSteps DEF SorrySaid, LookupFails, ToolRowFails, TurnOnly
<1>3. CASE Patched
  <2>1. session' = session /\ ~Attaching'
    BY <1>3, ScreeningParts, ResultDetaches DEF Patched
  <2> QED
    BY <1>3, <2>1, ScreeningParts, CalmTurnStep DEF Patched
<1>4. CASE Drained
  <2>1. Keeps(session, session') /\ Calm(session, session')
    BY <1>4, FinaliseOnceScreens DEF Drained
  <2> QED
    BY <1>4, <2>1, CalmTurnStep DEF Drained, NoTurn, Attaching
<1> QED
  BY <1>1, <1>2, <1>3, <1>4, ReplyDoneScreens, EmailOfAnotherScreens, EmailMismatchScreens,
     EmailUnknownScreens, EmailKnownScreens, ToolRowOpenedScreens DEF Turn

\* A step of the line that at most ends the session and aborts the turn.
LEMMA LineScreens ==
  ASSUME Screening, Keeps(session, session'), Calm(session, session'), UNCHANGED setup,
         turn' \in {turn, Aborted(turn)}
  PROVE  StepScreened
BY ScreeningParts, AbortedWaits, CalmStep

\* Every step of the line.
LEMMA LineSteps == ASSUME Screening, Line PROVE StepScreened
<1>1. CASE CallerSpeaks
  <2>1. ~Attaching' \/ turn' = turn
    BY <1>1, ScreeningParts, PumpDetaches DEF CallerSpeaks
  <2> QED
    BY <1>1, <2>1, ScreeningParts, CalmStep DEF CallerSpeaks
<1>2. CASE BargeIn \/ TimePasses \/ RecogniserDies
  BY <1>2, ScreeningParts, LineScreens DEF BargeIn, TimePasses, RecogniserDies
<1>3. CASE DisclosurePlayed
  <2>1. Keeps(session, session') /\ Calm(session, session')
    BY <1>3, ScreeningParts, FlagsKeep DEF DisclosurePlayed
  <2> QED
    BY <1>3, <2>1, LineScreens DEF DisclosurePlayed
<1>4. CASE Hangup \/ IdleHangup
  <2>1. PICK o \in {"none", "abandoned"} : Finalise(session, o)
    BY <1>4 DEF Hangup, IdleHangup
  <2>2. Keeps(session, session') /\ Calm(session, session')
    BY <2>1, FinaliseScreens DEF Outcomes
  <2> QED
    BY <1>4, <2>2, LineScreens DEF Hangup, IdleHangup, Hush
<1>5. CASE WrappedUp \/ FailureDrained
  <2>1. Keeps(session, session') /\ Calm(session, session')
    BY <1>5, FinaliseOnceScreens DEF WrappedUp, FailureDrained
  <2> QED
    BY <1>5, <2>1, LineScreens DEF WrappedUp, FailureDrained, Hush
<1>6. CASE ForceWrapUp
  <2> DEFINE s == SetState(session, "CLOSE")
  <2>1. Keeps(session, s) /\ Calm(session, s)
    BY ScreeningParts, CloseKeeps, EndsCalmly
  <2>2. session' = Finish(s, "completed")
    BY <1>6 DEF ForceWrapUp
  <2> HIDE DEF s
  <2>3. s \in SessionType
    BY <2>1 DEF Keeps, Justified, WellFormed
  <2>4. Keeps(session, session')
    BY <2>1, <2>2, FinishKeeps DEF Outcomes
  <2>5. Calm(session, session')
    BY <2>1, <2>2, <2>3, EndsCalmly, CalmChain
  <2> QED
    BY <1>6, <2>4, <2>5, LineScreens DEF ForceWrapUp
<1>7. CASE FailureSaid
  <2>1. Keeps(session, session') /\ Calm(session, session')
    BY <1>7, ScreeningParts, FinishKeeps, EndsCalmly DEF FailureSaid, Outcomes
  <2> QED
    BY <1>7, <2>1, LineScreens DEF FailureSaid
<1> QED
  BY <1>1, <1>2, <1>3, <1>4, <1>5, <1>6, <1>7 DEF Line

----------------------------------------------------------------------------
(* The theorems.                                                            *)

\* A call starts with nothing earned and nobody attached.
LEMMA InitScreened == Init => Screened
<1> SUFFICES ASSUME Init PROVE Screened
  OBVIOUS
<1>1. WellFormed(session)
  BY InitSound DEF Sound
<1>2. Justified(session)
  BY <1>1 DEF Justified, Earned, Init, NewSession
<1>3. Placed
  BY DEF Placed, Early, Attaching, Init, NewSession, NoTurn
<1> QED
  BY <1>2, <1>3 DEF Screened

\* Every step keeps what has been earned, and the waiting handlers where they may be.
LEMMA NextScreened == Screening /\ [Next]_vars => StepScreened
<1> SUFFICES ASSUME Screening, [Next]_vars PROVE StepScreened
  OBVIOUS
<1>1. CASE UNCHANGED vars
  BY <1>1, ScreeningParts, CalmStep DEF vars
<1> QED
  BY <1>1, SetupSteps, TurnScreens, FinaliserScreens, LineSteps DEF Next

\* In every state of every call the session has earned where it is, and every handler
\* that attaches a candidate finds it as it must.
THEOREM AlwaysScreened == Spec => []Screened
<1>1. Init => Screened
  BY InitScreened
<1>2. Sound /\ Screened /\ [Next]_vars => Screened'
  BY NextScreened DEF Screening, StepScreened, Screened, Keeps
<1> QED
  BY <1>1, <1>2, AlwaysSound, PTL DEF Spec

\* Nobody reaches the questions without being identified, checked, not interviewed before
\* and asked for language and both consents, however the handlers of the call interleave.
THEOREM ScreeningStaysEarned == Spec => []ScreeningIsEarned
<1>1. Sound /\ Screened => ScreeningIsEarned
  BY DEF Screened, Justified, ScreeningIsEarned, Earned, Known, Checked
<1> QED
  BY <1>1, AlwaysSound, AlwaysScreened, PTL

----------------------------------------------------------------------------
(***************************************************************************)
(* Who is charged, what the row says and what the call promises: theorems   *)
(* about InterviewCall that rest on what the finaliser decides on its way   *)
(* in.                                                                      *)
(*                                                                          *)
(* finalise() classifies the session once and then waits for the database   *)
(* up to three times, while handlers still in flight go on writing to the   *)
(* session and to the row.  What it decided stays true of the session       *)
(* because a session that has ended keeps its outcome, its questions and    *)
(* its language, and one that was asked a question keeps its caller (Keeps). *)
(* And it stays true of the row because nobody can still be opening one,    *)
(* and the one patch that changes a status is a withdrawal's, which ended   *)
(* the call with the outcome that status is derived from (Writing).         *)
(***************************************************************************)

\* The finaliser has decided that the call is worth a charge.
Chargeable == fin.producesReport /\ fin.status = "completed"

\* What the finaliser has decided holds of the session from then on, and it has written
\* to the database no more than where it has got to says.
Accounted ==
  /\ fin.phase # "no" => session.ended
  /\ fin.producesReport => fin.phase # "no" /\ ProducesReport(session)
  /\ Chargeable => \/ session.outcome = "completed"
                   \/ session.outcome = "abandoned" /\ session.screeningFinished
  /\ fin.phase = "metering" => Chargeable
  /\ fin.phase # "done" => ledger.charges = 0 /\ ledger.strays = 0
  /\ ledger.charges <= 1 /\ ledger.strays <= 1
  /\ ledger.charges > 0 => Chargeable
  /\ fin.phase = "logging" \/ ledger.strays > 0 => ~Chargeable

\* What is assumed of a state.
Charging == Screening /\ Accounted

\* The parts of what is assumed.
LEMMA ChargingParts ==
  Charging => /\ Screening /\ Accounted /\ session \in SessionType
              /\ fin \in FinType /\ ledger \in LedgerType
BY ScreeningParts, SoundParts DEF Charging, RestOK, SettledOK

\* Where the session of a settled call may go.
LEMMA ReportStaysDue ==
  ASSUME Accounted, Keeps(session, session')
  PROVE  /\ fin.phase # "no" => SameEnd(session, session')
         /\ fin.producesReport => ProducesReport(session')
BY DEF Accounted, Keeps, SameEnd, SamePerson, ProducesReport, IsVerified

\* A step that leaves the finaliser, the charges and the strays alone.
LEMMA AccountsStand ==
  ASSUME Accounted, Keeps(session, session'), UNCHANGED fin,
         ledger'.charges = ledger.charges, ledger'.strays = ledger.strays
  PROVE  Accounted'
BY ReportStaysDue DEF Accounted, Chargeable, SameEnd

\* What the last steps of the finaliser do to its record and to the ledger.
LEMMA LeaveAccounts ==
  ASSUME NEW f \in FinType, NEW l \in LedgerType, Leave(f, l)
  PROVE  /\ fin'.phase = "done"
         /\ fin'.producesReport = f.producesReport /\ fin'.status = f.status
         /\ ledger'.charges = l.charges /\ ledger'.strays = l.strays
<1>1. /\ [f EXCEPT !.phase = "done"].phase = "done"
      /\ [f EXCEPT !.phase = "done"].producesReport = f.producesReport
      /\ [f EXCEPT !.phase = "done"].status = f.status
  BY DEF FinType
<1>2. \A r : /\ [l EXCEPT !.report = r].charges = l.charges
             /\ [l EXCEPT !.report = r].strays = l.strays
  BY DEF LedgerType
<1> QED
  BY <1>1, <1>2, Zenon DEF Leave

\* The record and the counts also survive the detour over the log of strays.
LEMMA LogOrLeaveAccounts ==
  ASSUME NEW s, NEW f \in FinType, NEW l \in LedgerType, LogOrLeave(s, f, l)
  PROVE  /\ fin'.phase = IF Stray(s) THEN "logging" ELSE "done"
         /\ fin'.producesReport = f.producesReport /\ fin'.status = f.status
         /\ ledger'.charges = l.charges /\ ledger'.strays = l.strays
<1>1. /\ [f EXCEPT !.phase = "logging"].phase = "logging"
      /\ [f EXCEPT !.phase = "logging"].producesReport = f.producesReport
      /\ [f EXCEPT !.phase = "logging"].status = f.status
  BY DEF FinType
<1> QED
  BY <1>1, LeaveAccounts DEF LogOrLeave

\* Nobody is both worth a charge and a stray.
LEMMA ChargeableIsNoStray == Accounted => ~(Chargeable /\ Stray(session))
BY DEF Accounted, Chargeable, Stray, ProducesReport, IsVerified

\* The first step of the finaliser: what it decides is so.
LEMMA FinaliseAccounts ==
  ASSUME Charging, NEW o \in Outcomes \cup {"none"}, o # "already_interviewed",
         fin.phase = "no", Finalise(session, o)
  PROVE  Accounted'
<1> DEFINE last == Finish(session, IF o = "none" THEN "abandoned" ELSE o)
           f    == [ phase |-> "patching", producesReport |-> ProducesReport(last),
                     status |-> IF last.callId THEN DeriveCallStatus(last) ELSE "none" ]
<1>1. Keeps(session, last) /\ session' = last
  BY ChargingParts, ScreeningParts, FinishKeeps DEF Finalise, Outcomes
<1>2. last.ended
  BY ChargingParts, SoundParts, FinishFollows DEF Charging, Screening, Outcomes
<1>3. f \in FinType
  <2>1. ProducesReport(last) \in BOOLEAN
    BY DEF ProducesReport, IsVerified
  <2>2. last \in SessionType
    BY <1>1 DEF Keeps, Justified, WellFormed
  <2> HIDE DEF last
  <2> QED
    BY <2>1, <2>2, DerivedIsStatus DEF FinType
<1>4. ledger.charges = 0 /\ ledger.strays = 0
  BY ChargingParts DEF Accounted
<1>5. /\ fin'.phase \in {"patching", "logging", "done"}
      /\ fin'.phase = "patching" \/ fin'.status = "none"
      /\ fin'.producesReport = ProducesReport(last)
      /\ fin'.status \in {"none", DeriveCallStatus(last)}
      /\ ledger'.charges = 0 /\ ledger'.strays = 0
  <2>1. CASE last.callId
    BY <1>4, <2>1 DEF Finalise
  <2>2. CASE ~last.callId
    <3>1. LogOrLeave(last, f, ledger)
      BY <2>2 DEF Finalise
    <3>2. f.producesReport = ProducesReport(last) /\ f.status = "none"
      BY <2>2
    <3> HIDE DEF f, last
    <3> QED
      BY <1>3, <1>4, <3>1, <3>2, ChargingParts, LogOrLeaveAccounts
  <2> QED
    BY <2>1, <2>2
<1> HIDE DEF last
<1>6. DeriveCallStatus(last) = "completed" /\ ProducesReport(last) =>
        \/ last.outcome = "completed"
        \/ last.outcome = "abandoned" /\ last.screeningFinished
  <2>1. ProducesReport(last) => last.outcome # "already_interviewed"
    BY <1>1 DEF ProducesReport, Keeps, Justified
  <2> QED
    BY <2>1 DEF DeriveCallStatus
<1> QED
  BY <1>1, <1>2, <1>5, <1>6 DEF Accounted, Chargeable

\* So is what it decides when a drain or a wrap-up brings it, once.
LEMMA FinaliseOnceAccounts ==
  ASSUME Charging, FinaliseOnce(session.outcome)
  PROVE  Accounted'
<1>1. CASE fin.phase = "no"
  <2>1. Finalise(session, session.outcome)
    BY <1>1 DEF FinaliseOnce
  <2>2. CASE session.outcome # "already_interviewed"
    BY <1>1, <2>1, <2>2, ChargingParts, FinaliseAccounts DEF SessionType
  <2>3. CASE session.outcome = "already_interviewed"
    \* The call has ended: finish leaves it alone whatever the outcome it is given.
    <3>1. session.ended
      BY <2>3, ChargingParts, ScreeningParts DEF Justified
    <3>2. Finalise(session, "abandoned")
      BY <2>1, <3>1 DEF Finalise, Finish
    <3> QED
      BY <1>1, <3>2, FinaliseAccounts DEF Outcomes
  <2> QED
    BY <2>2, <2>3
<1>2. CASE fin.phase # "no"
  BY <1>2, ChargingParts, ScreeningParts, AccountsStand DEF FinaliseOnce
<1> QED
  BY <1>1, <1>2

\* Only a call worth a charge is metered.
LEMMA FinalPatchAccounts == ASSUME Charging, FinalPatch PROVE Accounted'
<1>1. PICK saved \in Saves :
        LET l == IF saved THEN [ledger EXCEPT !.row = fin.status, !.closed = TRUE] ELSE ledger
        IN  IF IsBillableCall(session, fin.status, fin.producesReport)
            THEN fin' = [fin EXCEPT !.phase = "metering"] /\ ledger' = l
            ELSE LogOrLeave(session, fin, l)
  BY DEF FinalPatch
<1> DEFINE l == IF saved THEN [ledger EXCEPT !.row = fin.status, !.closed = TRUE] ELSE ledger
<1>2. l \in LedgerType /\ l.charges = ledger.charges /\ l.strays = ledger.strays
  <2> DEFINE m == [ledger EXCEPT !.row = fin.status, !.closed = TRUE]
  <2>1. m \in LedgerType
    BY ChargingParts, Zenon DEF LedgerType, FinType
  <2>2. m.charges = ledger.charges /\ m.strays = ledger.strays
    BY ChargingParts, Zenon DEF LedgerType
  <2> HIDE DEF m
  <2>3. l = IF saved THEN m ELSE ledger
    BY DEF m
  <2> HIDE DEF l
  <2> QED
    BY <2>1, <2>2, <2>3, ChargingParts
<1> HIDE DEF l
<1>3. fin.phase = "patching" /\ session' = session
  BY DEF FinalPatch
<1>4. CASE IsBillableCall(session, fin.status, fin.producesReport)
  <2>1. fin' = [fin EXCEPT !.phase = "metering"] /\ ledger' = l
    BY <1>1, <1>4 DEF l
  <2>2. fin'.phase = "metering" /\ fin'.producesReport = fin.producesReport /\ fin'.status = fin.status
    BY <2>1, ChargingParts DEF FinType
  <2>3. Chargeable
    BY <1>4 DEF IsBillableCall, Chargeable
  <2> QED
    BY <1>2, <1>3, <2>1, <2>2, <2>3, ChargingParts DEF Accounted, Chargeable
<1>5. CASE ~IsBillableCall(session, fin.status, fin.producesReport)
  <2>1. LogOrLeave(session, fin, l)
    BY <1>1, <1>5 DEF l
  <2>2. /\ fin'.phase = IF Stray(session) THEN "logging" ELSE "done"
        /\ fin'.producesReport = fin.producesReport /\ fin'.status = fin.status
        /\ ledger'.charges = ledger.charges /\ ledger'.strays = ledger.strays
    BY <1>2, <2>1, ChargingParts, LogOrLeaveAccounts
  <2> QED
    BY <1>3, <2>2, ChargingParts, ChargeableIsNoStray DEF Accounted, Chargeable
<1> QED
  BY <1>4, <1>5

\* It is metered once, and then is no stray.
LEMMA MeterAccounts == ASSUME Charging, Meter PROVE Accounted'
<1>1. PICK saved \in Saves :
        LogOrLeave(session, fin, IF saved THEN [ledger EXCEPT !.charges = @ + 1] ELSE ledger)
  BY DEF Meter
<1> DEFINE l == IF saved THEN [ledger EXCEPT !.charges = @ + 1] ELSE ledger
<1>2. fin.phase = "metering" /\ session' = session /\ ledger.charges = 0 /\ ledger.strays = 0
  BY ChargingParts DEF Meter, Accounted
<1>3. l \in LedgerType /\ l.charges \in {0, 1} /\ l.strays = 0
  BY <1>2, ChargingParts DEF LedgerType
<1> HIDE DEF l
<1>4. LogOrLeave(session, fin, l)
  BY <1>1 DEF l
<1>5. Chargeable /\ ~Stray(session)
  BY <1>2, ChargingParts, ChargeableIsNoStray DEF Accounted
<1>6. /\ fin'.phase = "done"
      /\ fin'.producesReport = fin.producesReport /\ fin'.status = fin.status
      /\ ledger'.charges \in {0, 1} /\ ledger'.strays = 0
  BY <1>3, <1>4, <1>5, ChargingParts, LogOrLeaveAccounts
<1> QED
  BY <1>2, <1>5, <1>6, ChargingParts DEF Accounted, Chargeable

\* A stray is logged once, and was never charged.
LEMMA LogStrayAccounts == ASSUME Charging, LogStray PROVE Accounted'
<1>1. PICK saved \in Saves :
        Leave(fin, IF saved THEN [ledger EXCEPT !.strays = @ + 1] ELSE ledger)
  BY DEF LogStray
<1> DEFINE l == IF saved THEN [ledger EXCEPT !.strays = @ + 1] ELSE ledger
<1>2. fin.phase = "logging" /\ session' = session /\ ledger.charges = 0 /\ ledger.strays = 0
  BY ChargingParts DEF LogStray, Accounted
<1>3. l \in LedgerType /\ l.charges = 0 /\ l.strays \in {0, 1}
  BY <1>2, ChargingParts DEF LedgerType
<1> HIDE DEF l
<1>4. Leave(fin, l)
  BY <1>1 DEF l
<1>5. /\ fin'.phase = "done"
      /\ fin'.producesReport = fin.producesReport /\ fin'.status = fin.status
      /\ ledger'.charges = 0 /\ ledger'.strays \in {0, 1}
  BY <1>3, <1>4, ChargingParts, LeaveAccounts
<1> QED
  BY <1>2, <1>5, ChargingParts DEF Accounted, Chargeable

\* The steps that write to the row or to the report leave the charges and the strays alone.
LEMMA RowWritesDoNotCount ==
  ASSUME Charging, RowOpened \/ ToolRowOpened \/ Patched \/ Analyse
  PROVE  ledger'.charges = ledger.charges /\ ledger'.strays = ledger.strays
<1>1. \A row : [ledger EXCEPT !.row = row].charges = ledger.charges
            /\ [ledger EXCEPT !.row = row].strays = ledger.strays
  BY ChargingParts DEF LedgerType
<1>2. \A r : /\ [ledger EXCEPT !.report = r].charges = ledger.charges
             /\ [ledger EXCEPT !.report = r].strays = ledger.strays
  BY ChargingParts DEF LedgerType
<1>3. \A who : Opened(ledger, who).charges = ledger.charges /\ Opened(ledger, who).strays = ledger.strays
  BY ChargingParts, Zenon DEF LedgerType, Opened
<1>4. CASE RowOpened
  BY <1>3, <1>4 DEF RowOpened
<1>5. CASE ToolRowOpened
  BY <1>3, <1>5 DEF ToolRowOpened
<1>6. CASE Patched
  BY <1>1, <1>6 DEF Patched
<1>7. CASE Analyse
  BY <1>2, <1>7 DEF Analyse
<1> QED
  BY <1>4, <1>5, <1>6, <1>7

\* Every step keeps the accounts.
LEMMA NextAccounts == Charging /\ [Next]_vars => Accounted'
<1> SUFFICES ASSUME Charging, [Next]_vars PROVE Accounted'
  OBVIOUS
<1>1. Keeps(session, session')
  BY ChargingParts, NextScreened DEF StepScreened
<1>2. Accounted
  BY ChargingParts
<1>3. ASSUME UNCHANGED <<fin, ledger>> PROVE Accounted'
  BY <1>1, <1>2, <1>3, AccountsStand
<1>4. CASE Setup
  <2>1. CASE RowOpened
    BY <1>1, <1>2, <2>1, RowWritesDoNotCount, AccountsStand DEF RowOpened
  <2>2. CASE ~RowOpened
    BY <1>3, <1>4, <2>2
       DEF Setup, Begin, ListenOnly, RefusePaused, TurnAwayRepeat, TurnAwayClosed, Recognise,
           LetIn, DoNotRecognise, CallerLookedUp, Rest, GreetingSaid, FirstTurn
  <2> QED
    BY <2>1, <2>2
<1>5. CASE Turn
  <2>1. CASE ToolRowOpened \/ Patched
    BY <1>1, <1>2, <2>1, RowWritesDoNotCount, AccountsStand DEF ToolRowOpened, Patched
  <2>2. CASE Drained
    BY <2>2, FinaliseOnceAccounts DEF Drained
  <2>3. CASE ~(ToolRowOpened \/ Patched \/ Drained)
    BY <1>3, <1>5, <2>3
       DEF Turn, TurnOnly, ModelReplies, TurnInterrupted, ModelFails, ApologySaid, ReplyDone,
           Reprompted, SorrySaid, LookupFails, EmailOfAnother, EmailMismatch, EmailUnknown,
           EmailKnown, ToolRowFails
  <2> QED
    BY <2>1, <2>2, <2>3
<1>6. CASE Finaliser
  <2>1. CASE Analyse
    BY <1>1, <1>2, <2>1, RowWritesDoNotCount, AccountsStand DEF Analyse
  <2> QED
    BY <1>6, <2>1, FinalPatchAccounts, MeterAccounts, LogStrayAccounts DEF Finaliser
<1>7. CASE Line
  <2>1. CASE Hangup \/ IdleHangup
    <3>1. PICK o \in {"none", "abandoned"} : Finalise(session, o) /\ fin.phase = "no"
      BY <2>1 DEF Hangup, IdleHangup
    <3> QED
      BY <3>1, FinaliseAccounts DEF Outcomes
  <2>2. CASE WrappedUp \/ FailureDrained
    BY <2>2, FinaliseOnceAccounts DEF WrappedUp, FailureDrained
  <2>3. CASE ~(Hangup \/ IdleHangup \/ WrappedUp \/ FailureDrained)
    BY <1>3, <1>7, <2>3
       DEF Line, CallerSpeaks, BargeIn, DisclosurePlayed, TimePasses, ForceWrapUp,
           RecogniserDies, FailureSaid
  <2> QED
    BY <2>1, <2>2, <2>3
<1>8. CASE UNCHANGED vars
  BY <1>3, <1>8 DEF vars
<1> QED
  BY <1>4, <1>5, <1>6, <1>7, <1>8 DEF Next

----------------------------------------------------------------------------
(* The theorems.                                                            *)

\* What the finaliser decided stays so, and the ledger holds no more than it has done.
THEOREM AlwaysAccounted == Spec => []Accounted
<1>1. Init => Accounted
  BY DEF Init, Accounted, Chargeable
<1>2. Sound /\ Screened /\ Accounted /\ [Next]_vars => Accounted'
  BY NextAccounts DEF Charging, Screening
<1> QED
  BY <1>1, <1>2, AlwaysSound, AlwaysScreened, PTL DEF Spec

\* A workspace is charged at most once for a call, and only for one it got its interview
\* from, whatever is still in flight when the finaliser runs; a call that was charged is
\* not logged as a stray, and no call is logged as one twice.
THEOREM ChargeIsEarned == Spec => []ChargedOnlyWhenEarned
<1>1. Sound /\ Accounted => ChargedOnlyWhenEarned
  <2> SUFFICES ASSUME Sound, Accounted
               PROVE  ChargedOnlyWhenEarned
    OBVIOUS
  <2>1. /\ ledger.charges <= 1
        /\ ledger.charges = 1 =>
             /\ IsVerified(session, RequireApproval)
             /\ session.questions > 0
             /\ \/ session.outcome = "completed"
                \/ session.outcome = "abandoned" /\ session.screeningFinished
    BY DEF Accounted, Chargeable, ProducesReport
  <2>2. ledger.strays <= 1 /\ (ledger.strays > 0 => ledger.charges = 0)
    BY DEF Sound, TypeOK, LedgerType, Accounted
  <2> QED
    BY <2>1, <2>2 DEF ChargedOnlyWhenEarned
<1> QED
  BY <1>1, AlwaysSound, AlwaysAccounted, PTL

----------------------------------------------------------------------------
(* What the row says.                                                       *)

\* The status the finaliser decided on is still the session's, it is the one the closed
\* row has, and until it is decided nothing has closed the row.
Classified ==
  /\ fin.status # "none" => /\ fin.phase # "no" /\ session.callId
                            /\ fin.status = DeriveCallStatus(session)
  /\ fin.phase = "patching" => fin.status # "none"
  /\ ledger.closed => /\ fin.phase \notin {"no", "patching"}
                      /\ fin.status # "none" /\ ledger.row = fin.status

\* Who still writes to the row: nobody opens it twice, and the patch that changes its
\* status is a withdrawal's, which ended the call.
Writing ==
  /\ Early \/ turn.phase = "opening" => ~session.callId
  /\ turn.phase = "patching" /\ turn.tool = "record_time_consent" =>
       session.ended /\ session.outcome = "declined_consent"

\* The invariant, and what is assumed of a state.
Settled == Classified /\ Writing

Settling == Charging /\ Settled

LEMMA SettlingParts ==
  Settling => /\ Charging /\ Screening /\ Classified /\ Writing /\ Placed
              /\ session \in SessionType /\ setup \in SetupType /\ turn \in TurnType
              /\ fin \in FinType /\ ledger \in LedgerType
BY ChargingParts, ScreeningParts, SoundParts DEF Settling, Settled, RestOK, SettledOK, SpeechOK

\* t has a row if s has.
SameRow(s, t) ==
  "callId" \in DOMAIN s => "callId" \in DOMAIN t /\ t.callId = s.callId

LEMMA SameRowChain == \A s, t, u : SameRow(s, t) /\ SameRow(t, u) => SameRow(s, u)
BY DEF SameRow

\* Only the two handlers that open a row change that.
LEMMA HelpersKeepRow ==
  /\ \A s : SameRow(s, s)
  /\ \A s, to : SameRow(s, SetState(s, to))
  /\ \A s, o : SameRow(s, Finish(s, o))
  /\ \A s, found : SameRow(s, Attach(s, found))
  /\ \A s, spoke : SameRow(s, Asked(s, spoke))
<1>1. \A s : SameRow(s, s)
  BY DEF SameRow
<1>2. \A s, to : SameRow(s, SetState(s, to))
  BY DEF SameRow, SetState
<1>3. \A s, o : SameRow(s, Finish(s, o))
  BY Zenon DEF SameRow, Finish
<1>4. \A s, found : SameRow(s, Attach(s, found))
  BY Zenon DEF SameRow, Attach
<1>5. \A s, spoke : SameRow(s, Asked(s, spoke))
  BY Zenon DEF SameRow, Asked
<1> QED
  BY <1>1, <1>2, <1>3, <1>4, <1>5, Zenon

LEMMA FlagsKeepRow ==
  \A s, v : /\ SameRow(s, [s EXCEPT !.listenOnly = v])
            /\ SameRow(s, [s EXCEPT !.recognised = v])
            /\ SameRow(s, [s EXCEPT !.emailVerified = v])
            /\ SameRow(s, [s EXCEPT !.emailAttempts = v])
            /\ SameRow(s, [s EXCEPT !.language = v])
            /\ SameRow(s, [s EXCEPT !.timeConsent = v])
            /\ SameRow(s, [s EXCEPT !.screeningFinished = v])
            /\ SameRow(s, [s EXCEPT !.aiDisclosureGiven = v])
            /\ SameRow(s, [s EXCEPT !.recognised = v, !.emailVerified = v])
            /\ SameRow(s, [s EXCEPT !.recordingConsent = v, !.deadline = v])
<1>1. \A s, v : SameRow(s, [s EXCEPT !.listenOnly = v])
  BY Zenon DEF SameRow
<1>2. \A s, v : SameRow(s, [s EXCEPT !.recognised = v])
  BY Zenon DEF SameRow
<1>3. \A s, v : SameRow(s, [s EXCEPT !.emailVerified = v])
  BY Zenon DEF SameRow
<1>4. \A s, v : SameRow(s, [s EXCEPT !.emailAttempts = v])
  BY Zenon DEF SameRow
<1>5. \A s, v : SameRow(s, [s EXCEPT !.language = v])
  BY Zenon DEF SameRow
<1>6. \A s, v : SameRow(s, [s EXCEPT !.timeConsent = v])
  BY Zenon DEF SameRow
<1>7. \A s, v : SameRow(s, [s EXCEPT !.screeningFinished = v])
  BY Zenon DEF SameRow
<1>8. \A s, v : SameRow(s, [s EXCEPT !.aiDisclosureGiven = v])
  BY Zenon DEF SameRow
<1>9. \A s, v : SameRow(s, [s EXCEPT !.recognised = v, !.emailVerified = v])
  BY Zenon DEF SameRow
<1>10. \A s, v : SameRow(s, [s EXCEPT !.recordingConsent = v, !.deadline = v])
  BY Zenon DEF SameRow
<1> QED
  BY <1>1, <1>2, <1>3, <1>4, <1>5, <1>6, <1>7, <1>8, <1>9, <1>10, Zenon

\* The turn waits for nothing that writes to the row.
Free == turn.phase \notin {"opening", "patching"}

LEMMA FreeTurns ==
  ASSUME Screening, NEW s, NEW spoke
  PROVE  /\ Pump(s) => Free'
         /\ TurnOver(s) => Free'
         /\ Return(s) => Free'
         /\ AfterTool(s, spoke) => Free'
         /\ \A phase \in {"reprompt", "sorry", "apology", "draining"} : Only(phase) => Free'
         /\ Suspend("lookup", spoke) => Free'
<1>1. TurnFor(s).phase = "model" /\ NoTurn.phase = "idle"
  BY DEF TurnFor, NoTurn
<1>2. Pump(s) => Free'
  BY <1>1 DEF Pump, Free
<1>3. TurnOver(s) => Free'
  BY <1>1, <1>2 DEF TurnOver, Free
<1>4. ASSUME NEW phase \in {"reprompt", "sorry", "apology", "draining"}, Only(phase) PROVE Free'
  BY <1>4 DEF Only, NoTurn, Free
<1>5. Return(s) => Free'
  BY <1>3, <1>4 DEF Return
<1>6. NextModelCall(s, spoke).phase = "model"
  BY ScreeningParts, SoundParts, Zenon DEF SpeechOK, TurnType, NextModelCall
<1>7. AfterTool(s, spoke) => Free'
  BY <1>4, <1>5, <1>6 DEF AfterTool, Free
<1>8. Suspend("lookup", spoke) => Free'
  BY ScreeningParts, SuspendDoes DEF Free
<1> QED
  BY <1>2, <1>3, <1>4, <1>5, <1>7, <1>8

\* A session that has ended keeps the status it has.
LEMMA StatusStays == \A s, t : SameEnd(s, t) => DeriveCallStatus(t) = DeriveCallStatus(s)
BY DEF SameEnd, DeriveCallStatus

\* A step that leaves the finaliser, the row and who has one alone.
LEMMA ClassifiedStands ==
  ASSUME Settling, Keeps(session, session'), SameRow(session, session'), UNCHANGED fin,
         ledger'.closed = ledger.closed, ledger'.row = ledger.row
  PROVE  Classified'
<1>1. session'.callId = session.callId
  BY SettlingParts DEF SessionType, SameRow
<1>2. fin.phase # "no" => DeriveCallStatus(session') = DeriveCallStatus(session)
  BY SettlingParts, ChargingParts, ReportStaysDue, StatusStays
<1> QED
  BY <1>1, <1>2, SettlingParts DEF Classified

\* A step that goes no way back in the setup, and leaves the turn waiting as it was or
\* free.
LEMMA WritingStands ==
  ASSUME Settling, Keeps(session, session'), SameRow(session, session'), Early' => Early,
         Free' \/ (turn'.phase = turn.phase /\ turn'.tool = turn.tool)
  PROVE  Writing'
<1>1. session'.callId = session.callId
  BY SettlingParts DEF SessionType, SameRow
<1> QED
  BY <1>1, SettlingParts DEF Writing, Keeps, SameEnd, Free

\* The last steps of the finaliser leave the row as they find it.
LEMMA LogOrLeaveWrites ==
  ASSUME NEW s, NEW f \in FinType, NEW l \in LedgerType, LogOrLeave(s, f, l)
  PROVE  ledger'.row = l.row /\ ledger'.closed = l.closed
<1>1. \A r : [l EXCEPT !.report = r].row = l.row /\ [l EXCEPT !.report = r].closed = l.closed
  BY DEF LedgerType
<1> QED
  BY <1>1, Zenon DEF LogOrLeave, Leave

LEMMA LeaveWrites ==
  ASSUME NEW f \in FinType, NEW l \in LedgerType, Leave(f, l)
  PROVE  ledger'.row = l.row /\ ledger'.closed = l.closed
<1>1. \A r : [l EXCEPT !.report = r].row = l.row /\ [l EXCEPT !.report = r].closed = l.closed
  BY DEF LedgerType
<1> QED
  BY <1>1, Zenon DEF Leave

\* A step that does not touch the finaliser, the row or who has one settles nothing.
LEMMA NothingSettles ==
  ASSUME Settling, [Next]_vars, SameRow(session, session'), UNCHANGED <<fin, ledger>>,
         Early' => Early, Free' \/ (turn'.phase = turn.phase /\ turn'.tool = turn.tool)
  PROVE  Settled'
<1>1. Keeps(session, session')
  BY SettlingParts, NextScreened DEF StepScreened
<1> QED
  BY <1>1, ClassifiedStands, WritingStands DEF Settled

\* Opening the row of a call that has none.
LEMMA OpeningSettles ==
  ASSUME Settling, [Next]_vars, RowOpened \/ ToolRowOpened
  PROVE  Settled'
<1>1. Keeps(session, session')
  BY SettlingParts, NextScreened DEF StepScreened
<1>2. ~session.callId /\ fin' = fin
  BY SettlingParts DEF RowOpened, ToolRowOpened, Writing, Early
<1>3. fin.status = "none" /\ fin.phase # "patching" /\ ~ledger.closed
  BY <1>2, SettlingParts DEF Classified
<1>4. ledger' = ledger \/ ledger' = Opened(ledger, session.candidate)
  BY DEF RowOpened, ToolRowOpened
<1>5. \A who : Opened(ledger, who).closed = ledger.closed
  BY SettlingParts, Zenon DEF Opened, LedgerType
<1>6. Classified'
  BY <1>2, <1>3, <1>4, <1>5 DEF Classified
<1>7. CASE RowOpened
  <2>1. ~Early'
    BY <1>7, SettlingParts DEF RowOpened, Greet, SetupType, Early
  <2>2. turn' = turn /\ ~Attaching
    BY <1>7, SettlingParts DEF RowOpened, Early, Placed
  <2> QED
    BY <1>1, <1>6, <2>1, <2>2, SettlingParts DEF Settled, Writing, Attaching, Keeps, SameEnd
<1>8. CASE ToolRowOpened
  <2>1. Free'
    BY <1>8, SettlingParts, FreeTurns DEF ToolRowOpened, Result
  <2>2. ~Early'
    BY <1>8, SettlingParts DEF ToolRowOpened, Early, Placed, Attaching
  <2> QED
    BY <1>6, <2>1, <2>2 DEF Settled, Writing, Free
<1> QED
  BY <1>7, <1>8

\* Every other step of the setup.
LEMMA SetupSettles == ASSUME Settling, Setup PROVE Settled'
<1>1. CASE RowOpened
  BY <1>1, OpeningSettles DEF Next
<1>2. CASE ~RowOpened
  <2>1. UNCHANGED <<fin, ledger>>
    BY <1>2 DEF Setup, Begin, ListenOnly, RefusePaused, TurnAwayRepeat, TurnAwayClosed, Recognise,
                LetIn, DoNotRecognise, CallerLookedUp, Rest, GreetingSaid, FirstTurn
  <2>2. SameRow(session, session')
    <3>1. CASE ListenOnly
      BY <3>1, HelpersKeepRow, FlagsKeepRow, SameRowChain DEF ListenOnly
    <3>2. CASE RefusePaused
      BY <3>2, HelpersKeepRow, SameRowChain DEF RefusePaused
    <3>3. CASE TurnAwayRepeat \/ TurnAwayClosed \/ Recognise
      <4>1. PICK found : session' = [Attach(session, found) EXCEPT !.recognised = TRUE]
        BY <3>3 DEF TurnAwayRepeat, TurnAwayClosed, Recognise, LetIn
      <4>2. SameRow(session, Attach(session, found))
        BY HelpersKeepRow
      <4>3. SameRow(Attach(session, found), session')
        BY <4>1, FlagsKeepRow, Zenon
      <4> QED
        BY <4>2, <4>3, SameRowChain
    <3>4. CASE DoNotRecognise
      BY <3>4, HelpersKeepRow DEF DoNotRecognise, Greet
    <3> QED
      BY <1>2, <3>1, <3>2, <3>3, <3>4, HelpersKeepRow DEF Setup, Begin, GreetingSaid, FirstTurn
  <2>3. Early' => Early
    BY <1>2, SettlingParts
       DEF Setup, Begin, ListenOnly, RefusePaused, TurnAwayRepeat, TurnAwayClosed, Recognise,
           LetIn, DoNotRecognise, Greet, CallerLookedUp, GreetingSaid, FirstTurn, SetupType, Early
  <2>4. Free' \/ turn' = turn
    BY <1>2, SettlingParts, FreeTurns
       DEF Setup, Begin, ListenOnly, RefusePaused, TurnAwayRepeat, TurnAwayClosed, Recognise,
           LetIn, DoNotRecognise, CallerLookedUp, Rest, GreetingSaid, FirstTurn
  <2> QED
    BY <2>1, <2>2, <2>3, <2>4, NothingSettles DEF Next
<1> QED
  BY <1>1, <1>2

\* The turn has gone on, or has ended, without touching the row.
Untouched == SameRow(session, session') /\ Free'

\* A tool that ends leaves the row alone.
LEMMA ResultUntouches ==
  ASSUME Screening, NEW t, SameRow(session, t), NEW spoke, Result(t, spoke)
  PROVE  Untouched
BY FreeTurns DEF Result, Untouched

\* Replies without a tool, and tools that end at once.
LEMMA RepliesUntouch ==
  ASSUME Screening, NEW s, SameRow(session, s), NEW spoke
  PROVE  /\ Farewell(spoke, s) => Untouched
         /\ JustTalk(spoke, s) => Untouched
         /\ ToolRefused(spoke, s) => Untouched
         /\ ConfirmEmail(spoke, s) => Untouched
         /\ ProvideEmail(spoke, s) => Untouched
         /\ FinishScreening(spoke, s) => Untouched
         /\ Escalate(spoke, s) => Untouched
         /\ EndCall(spoke, s) => Untouched
<1> USE SameRowChain, HelpersKeepRow
<1>1. Farewell(spoke, s) => Untouched
  BY FreeTurns DEF Farewell, Untouched
<1>2. JustTalk(spoke, s) => Untouched
  BY FreeTurns DEF JustTalk, Untouched
<1>3. ToolRefused(spoke, s) => Untouched
  BY ResultUntouches DEF ToolRefused
<1>4. ConfirmEmail(spoke, s) => Untouched
  BY FlagsKeepRow, ResultUntouches, FreeTurns DEF ConfirmEmail, ResultAfterLookup, Untouched
<1>5. ProvideEmail(spoke, s) => Untouched
  BY FreeTurns DEF ProvideEmail, ResultAfterLookup, Untouched
<1>6. FinishScreening(spoke, s) => Untouched
  BY FlagsKeepRow, ResultUntouches DEF FinishScreening
<1>7. Escalate(spoke, s) => Untouched
  BY ResultUntouches DEF Escalate
<1>8. EndCall(spoke, s) => Untouched
  BY ResultUntouches DEF EndCall
<1> QED
  BY <1>1, <1>2, <1>3, <1>4, <1>5, <1>6, <1>7, <1>8

\* The turn waits for a patch that is not a withdrawal's, or for one that is.
Patching ==
  /\ SameRow(session, session')
  /\ turn'.phase = "patching"
  /\ turn'.tool = "record_time_consent" =>
       session'.ended /\ session'.outcome = "declined_consent"

\* The tools that patch the row.
LEMMA PatchesWait ==
  ASSUME Screening, NEW s \in SessionType, SameRow(session, s), s.state # "CLOSE" => ~s.ended,
         NEW spoke
  PROVE  /\ SelectLanguage(spoke, s) => Untouched \/ Patching
         /\ TimeConsent(spoke, s) => Untouched \/ Patching
         /\ RecordingConsent(spoke, s) => Untouched \/ Patching
         /\ RecordDetail(spoke, s) => Untouched \/ Patching
<1> USE SameRowChain, HelpersKeepRow, FlagsKeepRow
<1>1. ASSUME NEW t, SameRow(session, t), ResultThenPatch(t, spoke),
             turn.tool = "record_time_consent" => t.ended /\ t.outcome = "declined_consent"
      PROVE  Untouched \/ Patching
  <2>1. CASE t.callId
    BY <1>1, <2>1, SuspendDoes, ScreeningParts DEF ResultThenPatch, Patching
  <2>2. CASE ~t.callId
    BY <1>1, <2>2, ResultUntouches DEF ResultThenPatch
  <2> QED
    BY <2>1, <2>2
<1>2. SelectLanguage(spoke, s) => Untouched \/ Patching
  BY <1>1, ResultUntouches DEF SelectLanguage, Runs
<1>3. TimeConsent(spoke, s) => Untouched \/ Patching
  <2> SUFFICES ASSUME TimeConsent(spoke, s) PROVE Untouched \/ Patching
    OBVIOUS
  <2>1. ~s.ended
    BY ToolStates DEF TimeConsent
  <2>2. Finish(s, "declined_consent").ended /\ Finish(s, "declined_consent").outcome = "declined_consent"
    BY <2>1 DEF Finish, SessionType
  <2> QED
    BY <1>1, <2>2, ResultUntouches DEF TimeConsent
<1>4. RecordingConsent(spoke, s) => Untouched \/ Patching
  BY <1>1 DEF RecordingConsent, Runs
<1>5. RecordDetail(spoke, s) => Untouched \/ Patching
  BY <1>1 DEF RecordDetail, Runs
<1> QED
  BY <1>2, <1>3, <1>4, <1>5

\* A tool that has found its candidate opens a row only if there is none.
LEMMA AdmitOpens ==
  ASSUME Screening, NEW s, SameRow(session, s), Admit(s)
  PROVE  \/ Untouched
         \/ SameRow(session, session') /\ turn'.phase = "opening" /\ ~session'.callId
<1>1. CASE s.callId
  BY <1>1, SameRowChain, HelpersKeepRow, ResultUntouches DEF Admit
<1>2. CASE ~s.callId
  BY <1>2, ScreeningParts, SuspendDoes DEF Admit
<1> QED
  BY <1>1, <1>2

\* The first step of the finaliser classifies the session as it leaves it.
LEMMA FinaliseClassifies ==
  ASSUME Settling, [Next]_vars, NEW o \in Outcomes \cup {"none"}, fin.phase = "no",
         Finalise(session, o)
  PROVE  Classified' /\ SameRow(session, session')
<1> DEFINE last == Finish(session, IF o = "none" THEN "abandoned" ELSE o)
           f    == [ phase |-> "patching", producesReport |-> ProducesReport(last),
                     status |-> IF last.callId THEN DeriveCallStatus(last) ELSE "none" ]
<1>1. session' = last /\ SameRow(session, last)
  BY HelpersKeepRow DEF Finalise
<1>2. fin.status = "none" /\ ~ledger.closed
  BY SettlingParts DEF Classified
<1>3. last \in SessionType
  BY SettlingParts, SoundParts, FinishFollows DEF Screening, Follows, WellFormed, Outcomes
<1>4. DeriveCallStatus(last) # "none"
  BY <1>3, DerivedIsStatus DEF Statuses
<1>5. CASE last.callId
  BY <1>1, <1>2, <1>4, <1>5 DEF Finalise, Classified
<1>6. CASE ~last.callId
  <2>1. LogOrLeave(last, f, ledger) /\ f.status = "none"
    BY <1>6 DEF Finalise
  <2>2. ProducesReport(last) \in BOOLEAN
    BY DEF ProducesReport, IsVerified
  <2>3. f \in FinType
    <3> HIDE DEF last
    <3> QED
      BY <2>1, <2>2 DEF FinType
  <2>4. fin'.phase \in {"logging", "done"} /\ fin'.status = "none"
    <3> HIDE DEF last, f
    <3> QED
      BY <2>1, <2>3, SettlingParts, LogOrLeaveAccounts
  <2>5. ledger'.closed = ledger.closed
    <3> HIDE DEF last, f
    <3> QED
      BY <2>1, <2>3, SettlingParts, LogOrLeaveWrites
  <2> QED
    BY <1>1, <1>2, <2>4, <2>5 DEF Classified
<1> QED
  BY <1>1, <1>5, <1>6

\* The end that a drained line brings, or a wrap-up.
LEMMA OnceClassifies ==
  ASSUME Settling, [Next]_vars, FinaliseOnce(session.outcome)
  PROVE  Classified' /\ SameRow(session, session')
<1>1. CASE fin.phase = "no"
  BY <1>1, SettlingParts, FinaliseClassifies DEF FinaliseOnce, SessionType
<1>2. CASE fin.phase # "no"
  BY <1>2, HelpersKeepRow, SettlingParts, ScreeningParts, ClassifiedStands DEF FinaliseOnce
<1> QED
  BY <1>1, <1>2

LEMMA DrainSettles == ASSUME Settling, Drained PROVE Settled'
<1>1. Keeps(session, session')
  BY SettlingParts, NextScreened DEF StepScreened, Next, Turn
<1>2. Classified' /\ SameRow(session, session')
  BY OnceClassifies DEF Drained, Next, Turn
<1>3. Free' /\ (Early' => Early)
  BY DEF Drained, NoTurn, Free, Early
<1> QED
  BY <1>1, <1>2, <1>3, WritingStands DEF Settled

\* A turn settles nothing, but for the end it may bring.
LEMMA TurnSettles == ASSUME Settling, Turn PROVE Settled'
<1>1. Keeps(session, session')
  BY SettlingParts, NextScreened DEF StepScreened, Next
<1>2. Early' => Early
  BY DEF Turn, TurnOnly, ModelReplies, TurnInterrupted, ModelFails, ApologySaid, ReplyDone,
         Reprompted, SorrySaid, LookupFails, EmailOfAnother, EmailMismatch, EmailUnknown,
         EmailKnown, ToolRowOpened, ToolRowFails, Patched, Drained, Early
<1>3. ASSUME Untouched, UNCHANGED <<fin, ledger>> PROVE Settled'
  BY <1>2, <1>3, NothingSettles DEF Untouched, Next
<1>4. CASE ModelReplies \/ TurnInterrupted \/ ModelFails \/ ApologySaid \/ Reprompted
  <2>1. Free'
    <3>1. ModelReplies => turn'.phase = "speaking"
      BY SettlingParts DEF ModelReplies, TurnType
    <3> QED
      BY <1>4, <3>1, SettlingParts, FreeTurns
         DEF ModelReplies, TurnInterrupted, ModelFails, ApologySaid, Reprompted, Free
  <2> QED
    BY <1>3, <1>4, <2>1, HelpersKeepRow
       DEF ModelReplies, TurnInterrupted, ModelFails, ApologySaid, Reprompted, TurnOnly, Untouched
<1>5. CASE SorrySaid \/ LookupFails \/ ToolRowFails
  BY <1>3, <1>5, SettlingParts, FreeTurns, HelpersKeepRow
     DEF SorrySaid, LookupFails, ToolRowFails, ForceEscalate, TurnOnly, Untouched
<1>6. CASE ReplyDone
  <2>1. PICK spoke \in BOOLEAN :
          LET s == Asked(session, spoke)
          IN  \/ Farewell(spoke, s)         \/ JustTalk(spoke, s)
              \/ ToolRefused(spoke, s)
              \/ ConfirmEmail(spoke, s)     \/ ProvideEmail(spoke, s)
              \/ SelectLanguage(spoke, s)   \/ TimeConsent(spoke, s)
              \/ RecordingConsent(spoke, s) \/ RecordDetail(spoke, s)
              \/ FinishScreening(spoke, s)  \/ Escalate(spoke, s)
              \/ EndCall(spoke, s)
    BY <1>6 DEF ReplyDone
  <2> DEFINE s == Asked(session, spoke)
  <2>2. s \in SessionType /\ (s.state # "CLOSE" => ~s.ended)
    BY SettlingParts, SoundParts, AskedFollows DEF Charging, Screening, Sound, Follows, WellFormed
  <2>3. SameRow(session, s)
    BY HelpersKeepRow
  <2> HIDE DEF s
  <2>4. Untouched \/ Patching
    BY <2>1, <2>2, <2>3, SettlingParts, RepliesUntouch, PatchesWait DEF s
  <2>5. CASE Patching
    <3>1. UNCHANGED <<fin, ledger>>
      BY <1>6 DEF ReplyDone, TurnOnly
    <3>2. Classified'
      BY <1>1, <2>5, <3>1, ClassifiedStands DEF Patching
    <3>3. session'.callId = session.callId
      BY <2>5, SettlingParts DEF Patching, SameRow, SessionType
    <3> QED
      BY <1>2, <2>5, <3>2, <3>3, SettlingParts DEF Settled, Writing, Patching
  <2> QED
    BY <1>3, <1>6, <2>4, <2>5 DEF ReplyDone, TurnOnly
<1>7. CASE EmailOfAnother \/ EmailMismatch \/ EmailUnknown \/ EmailKnown
  <2> USE SameRowChain, HelpersKeepRow, FlagsKeepRow
  <2>1. \/ Untouched
        \/ SameRow(session, session') /\ turn'.phase = "opening" /\ ~session'.callId
    <3>1. CASE EmailOfAnother
      BY <3>1, SettlingParts, ResultUntouches, AdmitOpens DEF EmailOfAnother
    <3>2. CASE EmailMismatch
      BY <3>2, SettlingParts, ResultUntouches DEF EmailMismatch
    <3>3. CASE EmailUnknown
      BY <3>3, SettlingParts, ResultUntouches DEF EmailUnknown
    <3>4. CASE EmailKnown
      BY <3>4, SettlingParts, ResultUntouches, AdmitOpens DEF EmailKnown
    <3> QED
      BY <1>7, <3>1, <3>2, <3>3, <3>4
  <2>2. UNCHANGED <<fin, ledger>>
    BY <1>7 DEF EmailOfAnother, EmailMismatch, EmailUnknown, EmailKnown, TurnOnly
  <2>3. CASE ~Untouched
    <3>1. Classified'
      BY <1>1, <2>1, <2>2, <2>3, ClassifiedStands
    <3> QED
      BY <2>1, <2>3, <3>1 DEF Settled, Writing
  <2> QED
    BY <1>3, <2>2, <2>3
<1>8. CASE Patched
  <2>1. Untouched /\ session' = session /\ fin' = fin
    BY <1>8, SettlingParts, HelpersKeepRow, ResultUntouches DEF Patched, Result
  <2>2. /\ turn.phase = "patching"
        /\ ledger'.closed = ledger.closed
        /\ ledger'.row \in {ledger.row, PatchedStatus(turn.tool, ledger.row)}
    BY <1>8, SettlingParts DEF Patched, LedgerType
  <2>3. Writing'
    BY <1>1, <1>2, <2>1, WritingStands DEF Untouched
  \* Once the row is closed, what a withdrawal writes is there already.
  <2>4. ledger.closed => ledger'.row = ledger.row
    BY <2>2, SettlingParts DEF PatchedStatus, Classified, Writing, DeriveCallStatus
  <2> QED
    BY <2>1, <2>2, <2>3, <2>4, SettlingParts DEF Settled, Classified
<1> QED
  BY <1>4, <1>5, <1>6, <1>7, <1>8, OpeningSettles, DrainSettles DEF Turn, Next

\* The finaliser closes the row with the status it decided on.
LEMMA FinaliserSettles == ASSUME Settling, Finaliser PROVE Settled'
<1>1. Keeps(session, session') /\ SameRow(session, session')
  BY HelpersKeepRow, SettlingParts, ScreeningParts DEF Finaliser, FinalPatch, Meter, LogStray, Analyse
<1>2. Writing'
  BY <1>1, WritingStands DEF Finaliser, FinalPatch, Meter, LogStray, Analyse, Early
<1>3. CASE FinalPatch
  <2>1. PICK saved \in Saves :
          LET l == IF saved THEN [ledger EXCEPT !.row = fin.status, !.closed = TRUE] ELSE ledger
          IN  IF IsBillableCall(session, fin.status, fin.producesReport)
              THEN fin' = [fin EXCEPT !.phase = "metering"] /\ ledger' = l
              ELSE LogOrLeave(session, fin, l)
    BY <1>3 DEF FinalPatch
  <2> DEFINE l == IF saved THEN [ledger EXCEPT !.row = fin.status, !.closed = TRUE] ELSE ledger
  <2>2. l \in LedgerType /\ (l.closed => l.row = fin.status)
    <3> DEFINE m == [ledger EXCEPT !.row = fin.status, !.closed = TRUE]
    <3>1. m \in LedgerType /\ m.row = fin.status
      BY SettlingParts, Zenon DEF LedgerType, FinType
    <3> HIDE DEF m
    <3>2. l = IF saved THEN m ELSE ledger
      BY DEF m
    <3>3. ~ledger.closed
      BY <1>3, SettlingParts DEF FinalPatch, Classified
    <3> HIDE DEF l
    <3> QED
      BY <3>1, <3>2, <3>3, SettlingParts
  <2> HIDE DEF l
  <2>3. /\ fin'.phase \in {"metering", "logging", "done"} /\ fin'.status = fin.status
        /\ ledger'.row = l.row /\ ledger'.closed = l.closed
    <3>1. CASE LogOrLeave(session, fin, l)
      BY <2>2, <3>1, SettlingParts, LogOrLeaveAccounts, LogOrLeaveWrites
    <3>2. CASE fin' = [fin EXCEPT !.phase = "metering"] /\ ledger' = l
      BY <3>2, SettlingParts DEF FinType
    <3> QED
      BY <2>1, <3>1, <3>2 DEF l
  <2> QED
    BY <1>2, <1>3, <2>2, <2>3, SettlingParts DEF FinalPatch, Settled, Classified
<1>4. CASE Meter \/ LogStray
  <2>1. /\ fin.phase \in {"metering", "logging"}
        /\ \E l \in LedgerType : /\ l.row = ledger.row /\ l.closed = ledger.closed
                                 /\ LogOrLeave(session, fin, l) \/ Leave(fin, l)
    <3>1. [ledger EXCEPT !.charges = @ + 1] \in LedgerType /\ [ledger EXCEPT !.strays = @ + 1] \in LedgerType
      BY SettlingParts DEF LedgerType
    <3>2. /\ [ledger EXCEPT !.charges = @ + 1].row = ledger.row
          /\ [ledger EXCEPT !.charges = @ + 1].closed = ledger.closed
          /\ [ledger EXCEPT !.strays = @ + 1].row = ledger.row
          /\ [ledger EXCEPT !.strays = @ + 1].closed = ledger.closed
      BY SettlingParts DEF LedgerType
    <3> QED
      BY <1>4, <3>1, <3>2, SettlingParts DEF Meter, LogStray
  <2>2. PICK l \in LedgerType : /\ l.row = ledger.row /\ l.closed = ledger.closed
                                /\ LogOrLeave(session, fin, l) \/ Leave(fin, l)
    BY <2>1
  <2>3. /\ fin'.phase \in {"logging", "done"} /\ fin'.status = fin.status
        /\ ledger'.row = ledger.row /\ ledger'.closed = ledger.closed
    BY <2>2, SettlingParts, LogOrLeaveAccounts, LogOrLeaveWrites, LeaveAccounts, LeaveWrites
  <2> QED
    BY <1>2, <1>4, <2>1, <2>3, SettlingParts DEF Meter, LogStray, Settled, Classified
<1>5. CASE Analyse
  <2>1. \A r : [ledger EXCEPT !.report = r].row = ledger.row /\ [ledger EXCEPT !.report = r].closed = ledger.closed
    BY SettlingParts DEF LedgerType
  <2>2. fin' = fin /\ ledger'.row = ledger.row /\ ledger'.closed = ledger.closed
    BY <1>5, <2>1 DEF Analyse
  <2> QED
    BY <1>1, <1>2, <2>2, ClassifiedStands DEF Settled
<1> QED
  BY <1>3, <1>4, <1>5 DEF Finaliser

\* The line speaks, is silent or closes; at most it ends the call and finalises it.
LEMMA LineSettles == ASSUME Settling, Line PROVE Settled'
<1>1. Keeps(session, session')
  BY SettlingParts, NextScreened DEF StepScreened, Next
<1>2. Early' => Early
  BY DEF Line, CallerSpeaks, BargeIn, DisclosurePlayed, Hangup, TimePasses, ForceWrapUp, WrappedUp,
         IdleHangup, RecogniserDies, FailureSaid, FailureDrained, Early
<1>3. Free' \/ (turn'.phase = turn.phase /\ turn'.tool = turn.tool)
  BY SettlingParts, ScreeningParts, AbortedWaits, FreeTurns
     DEF Line, CallerSpeaks, BargeIn, DisclosurePlayed, Hangup, TimePasses, ForceWrapUp, WrappedUp,
         IdleHangup, RecogniserDies, FailureSaid, FailureDrained, Hush
<1>4. ASSUME Classified', SameRow(session, session') PROVE Settled'
  BY <1>1, <1>2, <1>3, <1>4, WritingStands DEF Settled
<1>5. CASE Hangup \/ IdleHangup
  <2>1. PICK o \in {"none", "abandoned"} : Finalise(session, o) /\ fin.phase = "no"
    BY <1>5 DEF Hangup, IdleHangup
  <2> QED
    BY <1>4, <2>1, FinaliseClassifies DEF Next, Outcomes
<1>6. CASE WrappedUp \/ FailureDrained
  BY <1>4, <1>6, OnceClassifies DEF WrappedUp, FailureDrained, Next
<1>7. CASE ~(Hangup \/ IdleHangup \/ WrappedUp \/ FailureDrained)
  <2>1. UNCHANGED <<fin, ledger>>
    BY <1>7 DEF Line, CallerSpeaks, BargeIn, DisclosurePlayed, TimePasses, ForceWrapUp,
                RecogniserDies, FailureSaid
  <2>2. SameRow(session, session')
    <3>1. CASE DisclosurePlayed
      BY <3>1, FlagsKeepRow, Zenon DEF DisclosurePlayed
    <3>2. CASE ForceWrapUp \/ FailureSaid
      BY <3>2, HelpersKeepRow, SameRowChain DEF ForceWrapUp, FailureSaid
    <3> QED
      BY <1>7, <3>1, <3>2, HelpersKeepRow
         DEF Line, CallerSpeaks, BargeIn, TimePasses, RecogniserDies
  <2> QED
    BY <1>2, <1>3, <2>1, <2>2, NothingSettles DEF Next
<1> QED
  BY <1>5, <1>6, <1>7

\* Every step keeps the classification, and the row's.
LEMMA NextSettles == Settling /\ [Next]_vars => Settled'
<1> SUFFICES ASSUME Settling, [Next]_vars PROVE Settled'
  OBVIOUS
<1>1. CASE UNCHANGED vars
  BY <1>1, HelpersKeepRow, NothingSettles DEF vars, Early
<1> QED
  BY <1>1, SetupSettles, TurnSettles, FinaliserSettles, LineSettles DEF Next

\* What the finaliser decided is what the session says, for good.
THEOREM AlwaysSettled == Spec => []Settled
<1>1. Init => Settled
  BY DEF Init, NewSession, NoTurn, Settled, Classified, Writing
<1>2. Sound /\ Screened /\ Accounted /\ Settled /\ [Next]_vars => Settled'
  BY NextSettles DEF Settling, Charging, Screening
<1> QED
  BY <1>1, <1>2, AlwaysSound, AlwaysScreened, AlwaysAccounted, PTL DEF Spec

\* No patch of a tool still in flight at the hangup, no late opening of the row and
\* nothing the session turns into afterwards makes the closed row wrong.
THEOREM LastWordStands == Spec => []FinalStatusStands
<1>1. Settled => FinalStatusStands
  BY DEF Settled, Classified, FinalStatusStands
<1> QED
  BY <1>1, AlwaysSettled, PTL

----------------------------------------------------------------------------
(* What the call promises.                                                  *)

\* The analyst is started at the finaliser's end, and only when a report is due.
Reporting ==
  /\ fin.phase # "done" => ledger.report = "none"
  /\ ledger.report # "none" => fin.producesReport

\* What is assumed of a state.
Promising == Charging /\ Reporting

LEMMA PromisingParts ==
  Promising => /\ Charging /\ Screening /\ Accounted /\ Reporting /\ Justified(session)
               /\ session \in SessionType /\ fin \in FinType /\ ledger \in LedgerType
BY ChargingParts, ScreeningParts DEF Promising

\* What the promise sees of the report.
Seen(report) == IF report \in {"written", "lost"} THEN report ELSE "none"

\* The finaliser stands still.
Stands ==
  fin' = fin /\ ledger'.charges = ledger.charges /\ ledger'.report = ledger.report

\* It has just been called.
Settles ==
  /\ fin.phase = "no" /\ fin'.phase # "no"
  /\ session'.questions = session.questions
  /\ ledger'.charges = ledger.charges
  /\ \/ ledger'.report = ledger.report
     \/ fin'.phase = "done" /\ fin'.producesReport /\ ledger'.report = "running"

\* It is on its way, or over: it charges, or it starts the analyst, or neither; or the
\* analyst is back.
GoesOn ==
  /\ fin.phase # "no" /\ fin'.phase # "no" /\ fin'.producesReport = fin.producesReport
  /\ \/ /\ ledger'.charges \in {ledger.charges, ledger.charges + 1}
        /\ \/ ledger'.report = ledger.report /\ (fin.phase = "done" => fin'.phase = "done")
           \/ /\ fin'.phase = "done" /\ fin.phase # "done" /\ fin.producesReport
              /\ ledger'.report = "running"
     \/ /\ ledger'.charges = ledger.charges /\ fin' = fin
        /\ ledger.report = "running" /\ ledger'.report \in {"written", "lost"}

\* What the end of the finaliser does to the report.
LEMMA LogOrLeaveReports ==
  ASSUME NEW s, NEW f \in FinType, NEW l \in LedgerType, LogOrLeave(s, f, l) \/ Leave(f, l)
  PROVE  /\ fin'.phase \in {"logging", "done"} /\ fin'.producesReport = f.producesReport
         /\ ledger'.charges = l.charges
         /\ \/ ledger'.report = l.report
            \/ fin'.phase = "done" /\ f.producesReport /\ ledger'.report = "running"
<1>1. \A r : [l EXCEPT !.report = r].report = r
  BY DEF LedgerType
<1>2. CASE Leave(f, l)
  <2>1. ledger'.report = IF f.producesReport THEN "running" ELSE l.report
    BY <1>1, <1>2, Zenon DEF Leave
  <2> QED
    BY <1>2, <2>1, LeaveAccounts
<1>3. CASE ~Leave(f, l)
  <2>1. ledger' = l
    BY <1>3 DEF LogOrLeave
  <2> QED
    BY <1>3, <2>1, LogOrLeaveAccounts
<1> QED
  BY <1>2, <1>3

LEMMA FinaliseSettles ==
  ASSUME Promising, NEW o \in Outcomes \cup {"none"}, fin.phase = "no", Finalise(session, o)
  PROVE  Settles
<1> DEFINE last == Finish(session, IF o = "none" THEN "abandoned" ELSE o)
           f    == [ phase |-> "patching", producesReport |-> ProducesReport(last),
                     status |-> IF last.callId THEN DeriveCallStatus(last) ELSE "none" ]
<1>1. session' = last
  BY DEF Finalise
<1>2. last \in SessionType
  BY PromisingParts, ScreeningParts, SoundParts, FinishFollows DEF Follows, WellFormed, Outcomes
<1>3. last.questions = session.questions
  BY PromisingParts, Zenon DEF Finish, SessionType
<1>4. f \in FinType
  <2>1. ProducesReport(last) \in BOOLEAN
    BY DEF ProducesReport, IsVerified
  <2> HIDE DEF last
  <2> QED
    BY <1>2, <2>1, DerivedIsStatus DEF FinType
<1>5. CASE last.callId
  BY <1>1, <1>3, <1>5 DEF Finalise, Settles
<1>6. CASE ~last.callId
  <2>1. LogOrLeave(last, f, ledger)
    BY <1>6 DEF Finalise
  <2> HIDE DEF last, f
  <2> QED
    BY <1>1, <1>3, <1>4, <2>1, PromisingParts, LogOrLeaveReports DEF Settles
<1> QED
  BY <1>5, <1>6

LEMMA OnceSettles ==
  ASSUME Promising, FinaliseOnce(session.outcome)
  PROVE  Settles \/ UNCHANGED <<session, fin, ledger>>
BY PromisingParts, FinaliseSettles DEF FinaliseOnce, SessionType

LEMMA FinaliserGoesOn ==
  ASSUME Promising, Finaliser
  PROVE  GoesOn
<1>1. CASE FinalPatch
  <2>1. PICK saved \in Saves :
          LET l == IF saved THEN [ledger EXCEPT !.row = fin.status, !.closed = TRUE] ELSE ledger
          IN  IF IsBillableCall(session, fin.status, fin.producesReport)
              THEN fin' = [fin EXCEPT !.phase = "metering"] /\ ledger' = l
              ELSE LogOrLeave(session, fin, l)
    BY <1>1 DEF FinalPatch
  <2> DEFINE l == IF saved THEN [ledger EXCEPT !.row = fin.status, !.closed = TRUE] ELSE ledger
  <2>2. l \in LedgerType /\ l.charges = ledger.charges /\ l.report = ledger.report
    <3> DEFINE m == [ledger EXCEPT !.row = fin.status, !.closed = TRUE]
    <3>1. m \in LedgerType /\ m.charges = ledger.charges /\ m.report = ledger.report
      BY PromisingParts, Zenon DEF LedgerType, FinType
    <3> HIDE DEF m
    <3>2. l = IF saved THEN m ELSE ledger
      BY DEF m
    <3> HIDE DEF l
    <3> QED
      BY <3>1, <3>2, PromisingParts
  <2> HIDE DEF l
  <2>3. fin.phase = "patching"
    BY <1>1 DEF FinalPatch
  <2>4. CASE LogOrLeave(session, fin, l)
    BY <2>2, <2>3, <2>4, PromisingParts, LogOrLeaveReports DEF GoesOn
  <2>5. CASE fin' = [fin EXCEPT !.phase = "metering"] /\ ledger' = l
    BY <2>2, <2>3, <2>5, PromisingParts DEF GoesOn, FinType
  <2> QED
    BY <2>1, <2>4, <2>5 DEF l
<1>2. CASE Meter \/ LogStray
  <2>1. PICK l \in LedgerType : /\ l.charges \in {ledger.charges, ledger.charges + 1}
                                /\ l.report = ledger.report
                                /\ LogOrLeave(session, fin, l) \/ Leave(fin, l)
    <3>1. [ledger EXCEPT !.charges = @ + 1] \in LedgerType /\ [ledger EXCEPT !.strays = @ + 1] \in LedgerType
      BY PromisingParts DEF LedgerType
    <3>2. /\ [ledger EXCEPT !.charges = @ + 1].charges = ledger.charges + 1
          /\ [ledger EXCEPT !.charges = @ + 1].report = ledger.report
          /\ [ledger EXCEPT !.strays = @ + 1].charges = ledger.charges
          /\ [ledger EXCEPT !.strays = @ + 1].report = ledger.report
      BY PromisingParts DEF LedgerType
    <3> QED
      BY <1>2, <3>1, <3>2, PromisingParts DEF Meter, LogStray
  <2>2. fin.phase \in {"metering", "logging"}
    BY <1>2 DEF Meter, LogStray
  <2> QED
    BY <2>1, <2>2, PromisingParts, LogOrLeaveReports DEF GoesOn
<1>3. CASE Analyse
  <2>1. \A r : [ledger EXCEPT !.report = r].report = r /\ [ledger EXCEPT !.report = r].charges = ledger.charges
    BY PromisingParts DEF LedgerType
  <2>2. fin.phase = "done"
    BY <1>3, PromisingParts DEF Analyse, Reporting
  <2> QED
    BY <1>3, <2>1, <2>2 DEF Analyse, GoesOn
<1> QED
  BY <1>1, <1>2, <1>3 DEF Finaliser

\* Every step is one of the three.
LEMMA NextGoesOn ==
  ASSUME Promising, [Next]_vars
  PROVE  Stands \/ Settles \/ GoesOn
<1>1. ASSUME UNCHANGED <<fin, ledger>> PROVE Stands
  BY <1>1 DEF Stands
<1>2. CASE RowOpened \/ ToolRowOpened \/ Patched
  <2>1. \A row : [ledger EXCEPT !.row = row].report = ledger.report
    BY PromisingParts DEF LedgerType
  <2>2. \A who : Opened(ledger, who).report = ledger.report
    BY PromisingParts, Zenon DEF LedgerType, Opened
  <2>3. ledger'.report = ledger.report /\ fin' = fin
    BY <1>2, <2>1, <2>2 DEF RowOpened, ToolRowOpened, Patched
  <2> QED
    BY <1>2, <2>3, PromisingParts, RowWritesDoNotCount DEF Stands
<1>3. CASE Setup
  BY <1>1, <1>2, <1>3
     DEF Setup, Begin, ListenOnly, RefusePaused, TurnAwayRepeat, TurnAwayClosed, Recognise,
         LetIn, DoNotRecognise, CallerLookedUp, Rest, GreetingSaid, FirstTurn
<1>4. CASE Turn
  <2>1. CASE Drained
    BY <1>1, <2>1, OnceSettles DEF Drained
  <2> QED
    BY <1>1, <1>2, <1>4, <2>1
       DEF Turn, TurnOnly, ModelReplies, TurnInterrupted, ModelFails, ApologySaid, ReplyDone,
           Reprompted, SorrySaid, LookupFails, EmailOfAnother, EmailMismatch, EmailUnknown,
           EmailKnown, ToolRowFails
<1>5. CASE Finaliser
  BY <1>5, FinaliserGoesOn
<1>6. CASE Line
  <2>1. CASE Hangup \/ IdleHangup
    <3>1. PICK o \in {"none", "abandoned"} : Finalise(session, o) /\ fin.phase = "no"
      BY <2>1 DEF Hangup, IdleHangup
    <3> QED
      BY <3>1, FinaliseSettles DEF Outcomes
  <2>2. CASE WrappedUp \/ FailureDrained
    BY <1>1, <2>2, OnceSettles DEF WrappedUp, FailureDrained
  <2> QED
    BY <1>1, <1>6, <2>1, <2>2
       DEF Line, CallerSpeaks, BargeIn, DisclosurePlayed, TimePasses, ForceWrapUp,
           RecogniserDies, FailureSaid
<1> QED
  BY <1>1, <1>3, <1>4, <1>5, <1>6 DEF Next, vars

\* So the analyst is started where it may be.
LEMMA NextReports == Promising /\ [Next]_vars => Reporting'
<1> SUFFICES ASSUME Promising, [Next]_vars PROVE Reporting'
  OBVIOUS
<1>1. CASE Stands
  BY <1>1, PromisingParts DEF Stands, Reporting
<1>2. CASE Settles
  BY <1>2, PromisingParts DEF Settles, Reporting
<1>3. CASE GoesOn
  BY <1>3, PromisingParts DEF GoesOn, Reporting
<1> QED
  BY <1>1, <1>2, <1>3, NextGoesOn

\* Nothing is reported before the finaliser is done, nor unless it is worth a report.
THEOREM AlwaysReporting == Spec => []Reporting
<1>1. Init => Reporting
  BY DEF Init, Reporting
<1>2. Sound /\ Screened /\ Accounted /\ Reporting /\ [Next]_vars => Reporting'
  BY NextReports DEF Promising, Charging, Screening
<1> QED
  BY <1>1, <1>2, AlwaysSound, AlwaysScreened, AlwaysAccounted, PTL DEF Spec

\* A call starts as the promise does.
LEMMA PromiseBegins == Init => Promise!Init
BY DEF Init, NewSession, Promise!Init

\* Every step keeps the promise.
LEMMA PromiseStep ==
  ASSUME Promising, [Next]_vars
  PROVE  [Promise!Next]_(Promise!promise)
<1>1. Keeps(session, session') /\ Accounted'
  BY PromisingParts, NextScreened, NextAccounts DEF StepScreened
<1>2. /\ session.questions \in Nat /\ session'.questions \in Nat
      /\ session.ended \in BOOLEAN /\ session'.ended \in BOOLEAN
      /\ session'.outcome \in Outcomes \cup {"none"}
      /\ fin.producesReport \in BOOLEAN /\ fin'.producesReport \in BOOLEAN
      /\ ledger.charges \in Nat
      /\ ledger.report \in {"none", "running", "written", "lost"}
  <2>1. fin' \in FinType
    BY PromisingParts, ScreeningParts, NextSound DEF StepOK, TypeOK
  <2> QED
    BY <1>1, <2>1, PromisingParts, SettingsAssumption
       DEF Keeps, Justified, WellFormed, SessionType, FinType, LedgerType
<1>3. /\ session.ended => session'.ended /\ session'.outcome = session.outcome
                          /\ session'.questions = session.questions
      /\ session.questions > 0 => session'.questions > 0
      /\ ~session.ended => session.outcome = "none"
      /\ ~session'.ended => session'.outcome = "none"
      /\ session'.ended => session'.outcome \in Outcomes
  BY <1>1, <1>2, PromisingParts DEF Keeps, SameEnd, Justified, WellFormed
<1>4. /\ fin.phase # "no" => session.ended
      /\ fin'.phase # "no" => session'.ended
      /\ fin.producesReport => fin.phase # "no" /\ session.questions > 0
      /\ fin'.producesReport => fin'.phase # "no" /\ session'.questions > 0
      /\ ledger'.charges <= 1
      /\ ledger'.charges > 0 => fin'.producesReport /\ session'.outcome \in {"completed", "abandoned"}
  BY <1>1, PromisingParts DEF Accounted, Chargeable, ProducesReport
<1>5. (session'.questions > 0) \in {session.questions > 0, TRUE}
  <2> DEFINE a == session.questions > 0
             b == session'.questions > 0
  <2>1. a \in BOOLEAN /\ b \in BOOLEAN /\ (a => b)
    BY <1>2, <1>3
  <2> HIDE DEF a, b
  <2>2. b \in {a, TRUE}
    BY <2>1, Zenon
  <2> QED
    BY <2>2 DEF a, b
<1>6. fin'.producesReport \in {FALSE, session'.questions > 0}
  <2> DEFINE a == fin'.producesReport
             b == session'.questions > 0
  <2>1. a \in BOOLEAN /\ b \in BOOLEAN /\ (a => b)
    BY <1>2, <1>4
  <2> HIDE DEF a, b
  <2>2. a \in {FALSE, b}
    BY <2>1, Zenon
  <2> QED
    BY <2>2 DEF a, b
<1>7. Promise!Next \/ UNCHANGED Promise!promise
  <2> USE DEF Promise!Next, Promise!promise, Promise!Talk, Promise!Ask, Promise!End, Promise!Settle,
          Promise!Charge, Promise!Report
  <2>1. CASE Stands
    <3>1. ledger'.report = ledger.report /\ ledger'.charges = ledger.charges /\ fin' = fin
      BY <2>1 DEF Stands
    <3>2. CASE session.ended
      <4>1. /\ session'.ended /\ session'.outcome = session.outcome
            /\ session'.questions = session.questions
        BY <1>3, <3>2
      <4> QED
        BY <3>1, <3>2, <4>1
    <3>3. CASE ~session.ended
      <4>1. fin.phase = "no" /\ ~fin.producesReport
        BY <1>2, <1>4, <3>3
      <4>3. CASE session'.ended
        BY <1>3, <3>1, <3>3, <4>1, <1>5, <4>3
      <4>4. CASE ~session'.ended
        <5>1. session'.outcome = session.outcome /\ fin'.phase = "no" /\ ~fin'.producesReport
          BY <1>3, <3>1, <3>3, <4>1, <4>4
        <5>2. Promise!Talk
          BY <1>5, <3>1, <3>3, <4>1, <4>4, <5>1
        <5> QED
          BY <5>2
      <4> QED
        BY <4>3, <4>4
    <3> QED
      BY <3>2, <3>3
  <2>2. CASE Settles
    <3>1. /\ fin.phase = "no" /\ fin'.phase # "no" /\ session'.ended
          /\ session'.questions = session.questions /\ ledger'.charges = ledger.charges
          /\ ledger.report = "none" /\ ledger'.report \in {"none", "running"}
      BY <1>4, <2>2, PromisingParts DEF Settles, Reporting
    <3>2. fin'.producesReport \in {FALSE, session.questions > 0}
      BY <1>6, <3>1
    <3>3. session'.outcome \in (IF session.ended THEN {session.outcome} ELSE Outcomes)
      BY <1>3, <3>1
    <3>4. ~fin.producesReport
      BY <1>4, <3>1
    <3> QED
      BY <1>2, <3>1, <3>2, <3>3, <3>4
  <2>3. CASE GoesOn
    BY <1>2, <1>3, <1>4, <2>3, PromisingParts DEF GoesOn, Reporting
  <2> QED
    BY <2>1, <2>2, <2>3, NextGoesOn
<1> QED
  BY <1>7

\* Whatever interleaves, the call ends once and for one reason, is settled once, is charged
\* at most once and only for what was worth a report and ran to its end, and no report is
\* written or lost that was not due: all of the promise but that it is fulfilled in time.
THEOREM PromiseIsKeptSafely == Spec => Promise!Safely
<1>1. Sound /\ Screened /\ Accounted /\ Reporting /\ [Next]_vars =>
        [Promise!Next]_(Promise!promise)
  BY PromiseStep DEF Promising, Charging, Screening
<1> QED
  BY <1>1, PromiseBegins, AlwaysSound, AlwaysScreened, AlwaysAccounted, AlwaysReporting, PTL
     DEF Spec, Promise!Safely
=============================================================================
