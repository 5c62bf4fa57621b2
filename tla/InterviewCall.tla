--------------------------- MODULE InterviewCall ---------------------------
(***************************************************************************)
(* One interview call, from the websocket opening to the row, the meter and *)
(* the report it leaves behind (apps/worker/src/lib/callSession.js,         *)
(* toolExecutor.js, screening.js).                                          *)
(*                                                                          *)
(* Everything runs on one event loop, so what a handler does up to its next *)
(* `await' is one step here and whatever happens across an `await' may be   *)
(* interleaved with every other handler of the call: the setup of the call  *)
(* (variable setup), the turn in progress (turn), a fatal error of the speech *)
(* recogniser and the overrun wrap-up (aside), the finaliser (fin), and the *)
(* line itself, on which the caller speaks, interrupts or hangs up.         *)
(***************************************************************************)
EXTENDS CallRules

CONSTANTS
  Candidates,         \* candidates on the line's books
  Lookups,            \* what a lookup of a candidate may answer
  RequireApproval,    \* calls.require_shortlist_approval
  VerifyCallerEmail,  \* calls.verify_caller_email
  MaxAttempts,        \* calls.email_verify_attempts
  MaxToolChain,       \* calls.max_tool_chain
  MaxQuestions,       \* BOUND: questions are counted up to this many
  Faults              \* BOUND: what may fail: "database", "model", "recogniser"

\* A candidate as a lookup finds them: the answer of lookupCandidateByPhone and
\* lookupCandidateByEmail, with the facts the call acts on.
LookupType == [ who: Candidates, approved: BOOLEAN, hasCompleted: BOOLEAN,
                paused: BOOLEAN, inWindow: BOOLEAN, emailOnFile: BOOLEAN ]

ASSUME NobodyAssumption   == Nobody \notin Candidates
ASSUME LookupsAssumption  == Lookups \subseteq LookupType
ASSUME SettingsAssumption == /\ RequireApproval \in BOOLEAN
                             /\ VerifyCallerEmail \in BOOLEAN
                             /\ MaxAttempts \in Nat \ {0}
                             /\ MaxToolChain \in Nat \ {0}
                             /\ MaxQuestions \in Nat \ {0}
ASSUME FaultsAssumption   == Faults \subseteq {"database", "model", "recogniser"}

VARIABLES
  session,      \* the session record every handler reads and writes
  setup,        \* how far begin() has got, and what its lookup found
  turn,         \* the turn in progress
  pending,      \* has the caller said something no turn has taken up?
  disclosure,   \* how far the AI disclosure has got: on its way, sent, or cut off
  clock,        \* the idle timer, and whether the interview is over its budget
  aside,        \* the overrun wrap-up, and the end a dead recogniser brings
  fin,          \* how far the finaliser has got, and what it decided on its way in
  ledger        \* what the database holds of this call

vars == <<session, setup, turn, pending, disclosure, clock, aside, fin, ledger>>

----------------------------------------------------------------------------
(* Types.                                                                   *)

SessionType ==
  [ state: States, ended: BOOLEAN, outcome: Outcomes \cup {"none"},
    candidate: Candidates \cup {Nobody},
    approved: BOOLEAN, alreadyInterviewed: BOOLEAN, paused: BOOLEAN, emailOnFile: BOOLEAN,
    recognised: BOOLEAN, callId: BOOLEAN,
    emailVerified: BOOLEAN, emailAttempts: Nat, language: BOOLEAN,
    timeConsent: BOOLEAN, recordingConsent: BOOLEAN,
    deadline: BOOLEAN, questions: 0 .. MaxQuestions, screeningFinished: BOOLEAN,
    aiDisclosureGiven: BOOLEAN, listenOnly: BOOLEAN ]

SetupType == [ phase: {"waiting", "lookup", "opening", "greeting", "greeted", "done"},
               then: {"nothing", "already", "window", "greet"} ]

TurnType ==
  [ phase: {"idle", "model", "speaking", "lookup", "opening", "patching", "reprompt",
            "sorry", "apology", "draining"},
    state: States, tool: Tools \cup {"none"}, text: BOOLEAN,
    depth: 0 .. MaxToolChain, spoke: BOOLEAN, spokenSoFar: BOOLEAN, aborted: BOOLEAN ]

FinType == [ phase: {"no", "patching", "metering", "logging", "done"},
             producesReport: BOOLEAN, status: Statuses \cup {"none"} ]

LedgerType ==
  [ row: Statuses \cup {"none"}, of: Candidates \cup {Nobody}, closed: BOOLEAN,
    charges: Nat, strays: Nat, report: {"none", "running", "written", "lost"} ]

TypeOK ==
  /\ session \in SessionType
  /\ setup \in SetupType
  /\ turn \in TurnType
  /\ pending \in BOOLEAN
  /\ disclosure \in {"unsaid", "saying", "sent", "cut"}
  /\ clock \in [idle: BOOLEAN, overdue: BOOLEAN]
  /\ aside \in [wrap: {"no", "closing"}, fail: {"no", "saying", "draining"}]
  /\ fin \in FinType
  /\ ledger \in LedgerType

----------------------------------------------------------------------------
(* Start of the call: sessions.create and new CallSession.                  *)

NewSession ==
  [ state |-> "GREET", ended |-> FALSE, outcome |-> "none", candidate |-> Nobody,
    approved |-> FALSE, alreadyInterviewed |-> FALSE, paused |-> FALSE, emailOnFile |-> FALSE,
    recognised |-> FALSE, callId |-> FALSE,
    emailVerified |-> FALSE, emailAttempts |-> 0, language |-> FALSE,
    timeConsent |-> FALSE, recordingConsent |-> FALSE,
    deadline |-> FALSE, questions |-> 0, screeningFinished |-> FALSE,
    aiDisclosureGiven |-> FALSE, listenOnly |-> FALSE ]

NoTurn == [ phase |-> "idle", state |-> "GREET", tool |-> "none", text |-> FALSE, depth |-> 0,
            spoke |-> FALSE, spokenSoFar |-> FALSE, aborted |-> FALSE ]

Init ==
  /\ session = NewSession
  /\ setup = [phase |-> "waiting", then |-> "nothing"]
  /\ turn = NoTurn
  /\ pending = FALSE
  /\ disclosure = "unsaid"
  /\ clock = [idle |-> FALSE, overdue |-> FALSE]
  /\ aside = [wrap |-> "no", fail |-> "no"]
  /\ fin = [phase |-> "no", producesReport |-> FALSE, status |-> "none"]
  /\ ledger = [row |-> "none", of |-> Nobody, closed |-> FALSE,
               charges |-> 0, strays |-> 0, report |-> "none"]

----------------------------------------------------------------------------
(* Helpers on the session.                                                  *)

\* attachLookup and attachCandidate: the call is now about this candidate.
Attach(s, found) ==
  [s EXCEPT !.candidate = found.who, !.approved = found.approved,
            !.alreadyInterviewed = found.hasCompleted, !.paused = found.paused,
            !.emailOnFile = found.emailOnFile]

\* Did a write to the database succeed?
Saves == {TRUE} \cup {FALSE : f \in Faults \cap {"database"}}

\* A call row is opened unless one was: ensureInterviewCall.
Opened(l, who) == [l EXCEPT !.row = "unknown_caller", !.of = who]

\* Counting a reply as a question: only one spoken while screening is.
Asked(s, spoke) ==
  IF spoke /\ s.state = "SCREEN" /\ s.questions < MaxQuestions
  THEN [s EXCEPT !.questions = @ + 1]
  ELSE s

----------------------------------------------------------------------------
(* Helpers on the speech and the turns.                                     *)

\* Speech is being made for the caller (this.speaking).
Speaking == disclosure = "saying" \/ aside.fail = "saying" \/ aside.wrap = "closing"

\* #bargeIn drops what the telephone has not played yet, the disclosure too.
CutSpeech == disclosure' = IF disclosure = "unsaid" THEN "unsaid" ELSE "cut"

TurnFor(s) == [NoTurn EXCEPT !.phase = "model", !.state = s.state]

\* #pump: what has been said is answered by a turn of its own, unless one is
\* running; once the call has ended it is thrown away.
Pump(s) ==
  /\ pending' = FALSE
  /\ IF s.ended
     THEN turn' = NoTurn /\ UNCHANGED disclosure
     ELSE /\ turn' = TurnFor(s)
          /\ IF Speaking THEN CutSpeech ELSE UNCHANGED disclosure

\* Mutation of TurnOver: what was said during the turn is left for the next final transcript.
TurnOverForgetful(s) == turn' = NoTurn /\ UNCHANGED <<pending, disclosure>>

\* The turn is over; what was said meanwhile is taken up now.
TurnOver(s) == IF pending THEN Pump(s) ELSE turn' = NoTurn /\ UNCHANGED <<pending, disclosure>>

\* The turn has nothing left to do but what its phase says.
Only(phase) == turn' = [NoTurn EXCEPT !.phase = phase] /\ UNCHANGED <<pending, disclosure>>

\* runTurn returned: the line is drained if the call ended, else the turn is over.
Return(s) ==
  IF s.ended THEN Only("draining") ELSE TurnOver(s)

\* runTurn calls itself after a tool.
NextModelCall(s, spoke) ==
  [turn EXCEPT !.phase = "model", !.state = s.state, !.tool = "none", !.text = FALSE,
               !.depth = @ + 1, !.spoke = FALSE, !.spokenSoFar = @ \/ spoke]

\* What runTurn does with the session a tool left behind.
AfterTool(s, spoke) ==
  LET another == turn.depth + 1 < MaxToolChain
  IN  IF another /\ (s.ended => ~spoke)
      THEN turn' = NextModelCall(s, spoke) /\ UNCHANGED <<pending, disclosure>>
      ELSE IF s.ended THEN Return(s) ELSE Only("sorry")

\* The tool is suspended on the database.
Suspend(phase, spoke) ==
  /\ turn' = [turn EXCEPT !.phase = phase, !.spoke = spoke, !.text = FALSE]
  /\ UNCHANGED <<pending, disclosure>>

\* An abort cancels the model call and cuts the reply; the phases after that go on.
Aborted(t) == IF t.phase \in {"model", "speaking", "lookup", "opening", "patching"}
              THEN [t EXCEPT !.aborted = TRUE] ELSE t

\* The rest of the call stands still while a turn moves.
TurnOnly == UNCHANGED <<setup, clock, aside, fin, ledger>>

----------------------------------------------------------------------------
(* The finaliser: finalise().                                               *)

\* Mutation of Leave: the analyst is never started.
LeaveUnanalysed(f, l) == fin' = [f EXCEPT !.phase = "done"] /\ ledger' = l

\* Its end: the analyst is started, not awaited, and the line closed.
Leave(f, l) ==
  /\ fin' = [f EXCEPT !.phase = "done"]
  /\ ledger' = [l EXCEPT !.report = IF f.producesReport THEN "running" ELSE @]

\* Just before that, a call nobody could be matched to is logged.
LogOrLeave(s, f, l) ==
  IF Stray(s) THEN fin' = [f EXCEPT !.phase = "logging"] /\ ledger' = l ELSE Leave(f, l)

\* Will the analyst run?  The same condition gates the charge.
ProducesReport(s) == IsVerified(s, RequireApproval) /\ s.questions > 0

\* Up to the first await.  The session is classified here, once.
Finalise(s, outcome) ==
  LET last == Finish(s, IF outcome = "none" THEN "abandoned" ELSE outcome)
      f    == [ phase |-> "patching", producesReport |-> ProducesReport(last),
                status |-> IF last.callId THEN DeriveCallStatus(last) ELSE "none" ]
  IN  /\ session' = last
      /\ clock' = [clock EXCEPT !.idle = FALSE]
      /\ IF last.callId THEN fin' = f /\ UNCHANGED ledger ELSE LogOrLeave(last, f, ledger)

\* Whatever was being thought or said is aborted.
Hush ==
  /\ turn' = Aborted(turn)
  /\ disclosure' = IF disclosure = "saying" THEN "cut" ELSE disclosure

\* Called again, finalise does nothing.
FinaliseOnce(outcome) ==
  IF fin.phase = "no"
  THEN Finalise(session, outcome)
  ELSE UNCHANGED <<session, clock, fin, ledger>>

\* The last patch of the call row, which may fail, then the charge if there is one.
FinalPatch ==
  /\ fin.phase = "patching"
  /\ \E saved \in Saves :
       LET l == IF saved THEN [ledger EXCEPT !.row = fin.status, !.closed = TRUE] ELSE ledger
       IN  IF IsBillableCall(session, fin.status, fin.producesReport)
           THEN fin' = [fin EXCEPT !.phase = "metering"] /\ ledger' = l
           ELSE LogOrLeave(session, fin, l)
  /\ UNCHANGED <<session, setup, turn, pending, disclosure, clock, aside>>

\* incrementInterviewUsage; a failure of it is logged and forgotten.
Meter ==
  /\ fin.phase = "metering"
  /\ \E saved \in Saves :
       LogOrLeave(session, fin, IF saved THEN [ledger EXCEPT !.charges = @ + 1] ELSE ledger)
  /\ UNCHANGED <<session, setup, turn, pending, disclosure, clock, aside>>

\* recordUnknownCall.
LogStray ==
  /\ fin.phase = "logging"
  /\ \E saved \in Saves :
       Leave(fin, IF saved THEN [ledger EXCEPT !.strays = @ + 1] ELSE ledger)
  /\ UNCHANGED <<session, setup, turn, pending, disclosure, clock, aside>>

\* The analyst answers, or fails; without a call row its assessment is not kept.
Analyse ==
  /\ ledger.report = "running"
  /\ \E ok \in {TRUE} \cup {FALSE : f \in Faults \cap {"model"}}, saved \in Saves :
       ledger' = [ledger EXCEPT !.report = IF ok /\ saved /\ session.callId THEN "written" ELSE "lost"]
  /\ UNCHANGED <<session, setup, turn, pending, disclosure, clock, aside, fin>>

----------------------------------------------------------------------------
(* Setting up the call: begin().                                            *)

Rest == <<turn, pending, aside, fin, ledger>>    \* what setting up leaves alone

\* Plivo's start event.
Begin ==
  /\ setup.phase = "waiting"
  /\ fin.phase = "no"
  /\ setup' = [setup EXCEPT !.phase = "lookup"]
  /\ UNCHANGED <<session, turn, pending, disclosure, clock, aside, fin, ledger>>

\* The lookup of the number is back (null if it failed): the handlers and the idle
\* timer are installed, then the caller is let in or turned away.
CallerLookedUp ==
  /\ setup.phase = "lookup"
  /\ clock' = [clock EXCEPT !.idle = TRUE]
  /\ UNCHANGED Rest

ListenOnly ==
  /\ CallerLookedUp
  /\ session' = SetState([session EXCEPT !.listenOnly = TRUE], "CLOSE")
  /\ setup' = [setup EXCEPT !.phase = "done"]
  /\ UNCHANGED disclosure

RefusePaused ==
  \E found \in Lookups :
    /\ CallerLookedUp
    /\ found.paused
    /\ session' = Finish(SetState(session, "CLOSE"), "unknown_caller")
    /\ setup' = [setup EXCEPT !.phase = "done"]
    /\ UNCHANGED disclosure

\* A known candidate: attached, and a row opened for the call.
LetIn(found, then) ==
  /\ CallerLookedUp
  /\ ~found.paused
  /\ session' = [Attach(session, found) EXCEPT !.recognised = TRUE]
  /\ setup' = [phase |-> "opening", then |-> then]
  /\ UNCHANGED disclosure

TurnAwayRepeat == \E found \in Lookups : found.hasCompleted /\ LetIn(found, "already")

TurnAwayClosed ==
  \E found \in Lookups : ~found.hasCompleted /\ ~found.inWindow /\ LetIn(found, "window")

Recognise ==
  \E found \in Lookups : ~found.hasCompleted /\ found.inWindow /\ LetIn(found, "greet")

\* The disclosure is spoken before anything else.
Greet(s) ==
  /\ session' = s
  /\ setup' = [setup EXCEPT !.phase = "greeting"]
  /\ disclosure' = "saying"

DoNotRecognise ==
  /\ CallerLookedUp
  /\ Greet(SetState(session, "IDENTIFY"))

\* Mutation of FirstState: the number is always enough.
NumberIsEnough == "LANGUAGE_SELECT"

\* Caller ID names the phone, not the person: a known number still has to give the
\* address on the application, unless the setting says the number is enough.
FirstState == IF VerifyCallerEmail THEN "VERIFY_EMAIL" ELSE "LANGUAGE_SELECT"

\* ensureInterviewCall is back; its failure is logged and the call goes on.
RowOpened ==
  /\ setup.phase = "opening"
  /\ \E saved \in Saves :
       LET s == [session EXCEPT !.callId = saved]
       IN  /\ ledger' = IF saved THEN Opened(ledger, session.candidate) ELSE ledger
           /\ IF setup.then = "greet"
              THEN Greet(SetState(s, FirstState))
              ELSE /\ session' = Finish(SetState(s, "CLOSE"),
                                        IF setup.then = "already" THEN "already_interviewed"
                                                                  ELSE "out_of_window")
                   /\ setup' = [setup EXCEPT !.phase = "done"]
                   /\ UNCHANGED disclosure
  /\ UNCHANGED <<turn, pending, clock, aside, fin>>

\* Every sentence of the disclosure has been handed to the telephone, or it was cut.
GreetingSaid ==
  /\ setup.phase = "greeting"
  /\ setup' = [setup EXCEPT !.phase = "greeted"]
  /\ disclosure' = IF disclosure = "saying" THEN "sent" ELSE disclosure
  /\ UNCHANGED <<session, turn, pending, clock, aside, fin, ledger>>

\* The prompt blocks are loaded: the first turn opens the conversation.
FirstTurn ==
  /\ setup.phase = "greeted"
  /\ setup' = [setup EXCEPT !.phase = "done"]
  /\ IF session.ended \/ turn.phase # "idle"
     THEN UNCHANGED <<turn, pending, disclosure>>
     ELSE Pump(session)
  /\ UNCHANGED <<session, clock, aside, fin, ledger>>

----------------------------------------------------------------------------
(* The turn: #turn and runTurn.                                             *)

\* The model answers with some text, a tool it is offered, both or neither.
ModelReplies ==
  /\ turn.phase = "model"
  /\ ~turn.aborted
  /\ \E text \in BOOLEAN, tool \in ToolsByState[turn.state] \cup {"none"} :
       turn' = [turn EXCEPT !.phase = "speaking", !.text = text, !.tool = tool]
  /\ UNCHANGED <<session, pending, disclosure>>
  /\ TurnOnly

\* The caller talked over a turn that was still thinking: it is dropped where it
\* stands, and the line is not drained even if the call has ended.
TurnInterrupted ==
  /\ turn.phase = "model"
  /\ turn.aborted
  /\ TurnOver(session)
  /\ UNCHANGED session
  /\ TurnOnly

\* The model cannot be reached: an apology, then the call fails.
ModelFails ==
  /\ "model" \in Faults
  /\ turn.phase = "model"
  /\ ~turn.aborted
  /\ Only("apology")
  /\ UNCHANGED session
  /\ TurnOnly

ApologySaid ==
  /\ turn.phase = "apology"
  /\ session' = Finish(session, "technical_failure")
  /\ Only("draining")
  /\ TurnOnly

\* A tool that ends at once leaves session t behind it.
Result(t, spoke) == session' = t /\ AfterTool(t, spoke)

\* One that then patches the call row waits for the patch, if there is a row.
ResultThenPatch(t, spoke) ==
  IF t.callId THEN session' = t /\ Suspend("patching", spoke) ELSE Result(t, spoke)

\* A tool that starts with a lookup.
ResultAfterLookup(s, spoke) == session' = s /\ Suspend("lookup", spoke)

\* No tool: a farewell closes the call, silence is filled, or the turn is over.
Farewell(spoke, s) ==
  /\ turn.tool = "none"
  /\ spoke /\ s.state = "CANDIDATE_QA"
  /\ LET t == Finish(s, "completed") IN session' = t /\ Return(t)

JustTalk(spoke, s) ==
  /\ turn.tool = "none"
  /\ session' = s
  /\ IF spoke \/ turn.spokenSoFar \/ s.ended \/ turn.aborted
     THEN Return(s)
     ELSE Only("reprompt")

\* The executor checks the tool against the state the call is in by now.
ToolRefused(spoke, s) ==
  /\ turn.tool # "none"
  /\ turn.tool \notin ToolsByState[s.state]
  /\ Result(s, spoke)

Runs(tool, s) == turn.tool = tool /\ tool \in ToolsByState[s.state]

\* confirm_email, for a caller recognised by their number.
ConfirmEmail(spoke, s) ==
  /\ Runs("confirm_email", s)
  /\ \/ /\ ~s.emailOnFile
        /\ Result(SetState([s EXCEPT !.emailVerified = FALSE], "LANGUAGE_SELECT"), spoke)
     \/ /\ s.emailOnFile
        /\ Result(SetState([s EXCEPT !.emailVerified = TRUE], "LANGUAGE_SELECT"), spoke)
     \/ /\ s.emailOnFile            \* not their address: whose is it?
        /\ ResultAfterLookup(s, spoke)

\* provide_email, for a caller the number did not match.
ProvideEmail(spoke, s) ==
  /\ Runs("provide_email", s)
  /\ ResultAfterLookup(s, spoke)

\* A language that is not offered is refused by the tool itself.
SelectLanguage(spoke, s) ==
  /\ Runs("select_language", s)
  /\ \/ Result(s, spoke)
     \/ ResultThenPatch(SetState([s EXCEPT !.language = TRUE], "CONSENT_TIME"), spoke)

\* Withdrawn, put off, or now.  timeConsent is that last answer.
TimeConsent(spoke, s) ==
  /\ Runs("record_time_consent", s)
  /\ \/ ResultThenPatch(Finish(s, "declined_consent"), spoke)
     \/ Result(Finish(s, "call_back_later"), spoke)
     \/ Result(SetState([s EXCEPT !.timeConsent = TRUE], "CONSENT_RECORDING"), spoke)

\* Granted or declined, the interview goes on, and its clock starts here:
\* recordingConsent says that there was an answer.
RecordingConsent(spoke, s) ==
  /\ Runs("record_recording_consent", s)
  /\ ResultThenPatch(SetState([s EXCEPT !.recordingConsent = TRUE, !.deadline = TRUE], "SCREEN"), spoke)

\* An expected salary above the band may wrap the interview up.
RecordDetail(spoke, s) ==
  /\ Runs("record_detail", s)
  /\ \/ ResultThenPatch(s, spoke)
     \/ ResultThenPatch(Finish([s EXCEPT !.screeningFinished = TRUE], "completed"), spoke)

FinishScreening(spoke, s) ==
  /\ Runs("finish_screening", s)
  /\ Result(SetState([s EXCEPT !.screeningFinished = TRUE], "CANDIDATE_QA"), spoke)

Escalate(spoke, s) ==
  /\ Runs("escalate", s)
  /\ Result(Finish(s, "escalated"), spoke)

\* The model's word that an unverified call was completed is not taken.
EndCall(spoke, s) ==
  /\ Runs("end_call", s)
  /\ \E outcome \in {"completed", "call_back_later"} :
       Result(Finish(s, IF outcome = "completed" /\ ~IsVerified(s, RequireApproval)
                        THEN "unknown_caller" ELSE outcome), spoke)

\* The reply has been played out, cut short or never synthesised.  What follows up
\* to the next await is one step, the first half of the tool included.
ReplyDone ==
  /\ turn.phase = "speaking"
  /\ \E spoke \in {b \in BOOLEAN : b => turn.text} :
       LET s == Asked(session, spoke)
       IN  \/ Farewell(spoke, s)         \/ JustTalk(spoke, s)
           \/ ToolRefused(spoke, s)
           \/ ConfirmEmail(spoke, s)     \/ ProvideEmail(spoke, s)
           \/ SelectLanguage(spoke, s)   \/ TimeConsent(spoke, s)
           \/ RecordingConsent(spoke, s) \/ RecordDetail(spoke, s)
           \/ FinishScreening(spoke, s)  \/ Escalate(spoke, s)
           \/ EndCall(spoke, s)
  /\ TurnOnly

Reprompted ==
  /\ turn.phase = "reprompt"
  /\ Return(session)
  /\ UNCHANGED session
  /\ TurnOnly

\* A tool that throws, and a chain of tools that will not end, escalate the call.
ForceEscalate == session' = Finish(session, "escalated") /\ Only("draining")

SorrySaid == turn.phase = "sorry" /\ ForceEscalate /\ TurnOnly

LookupFails == "database" \in Faults /\ turn.phase = "lookup" /\ ForceEscalate /\ TurnOnly

\* The call is about this candidate now; it needs a row if it has none yet.
Admit(s) ==
  IF s.callId
  THEN Result(SetState(s, "LANGUAGE_SELECT"), turn.spoke)
  ELSE session' = s /\ Suspend("opening", turn.spoke)

\* confirm_email, second half.  An address that is not on file for this candidate
\* may be another approved candidate's, and then the call becomes theirs.
EmailOfAnother ==
  /\ turn.phase = "lookup" /\ turn.tool = "confirm_email"
  /\ \E found \in Lookups :
       /\ found.who # session.candidate /\ found.approved
       /\ IF found.hasCompleted
          THEN Result(Finish(session, "already_interviewed"), turn.spoke)
          ELSE Admit([Attach(session, found) EXCEPT !.recognised = TRUE, !.emailVerified = TRUE])
  /\ TurnOnly

EmailMismatch ==
  /\ turn.phase = "lookup" /\ turn.tool = "confirm_email"
  /\ LET s == [session EXCEPT !.emailAttempts = @ + 1]
     IN  Result(IF s.emailAttempts >= MaxAttempts
                THEN Finish([s EXCEPT !.emailVerified = FALSE], "unknown_caller")
                ELSE s, turn.spoke)
  /\ TurnOnly

\* provide_email, second half.
EmailUnknown ==
  /\ turn.phase = "lookup" /\ turn.tool = "provide_email"
  /\ Result(Finish(session, "unknown_caller"), turn.spoke)
  /\ TurnOnly

EmailKnown ==
  /\ turn.phase = "lookup" /\ turn.tool = "provide_email"
  /\ \E found \in Lookups :
       LET s == [Attach(session, found) EXCEPT !.emailVerified = TRUE]
       IN  IF found.paused
           THEN Result(Finish(session, "unknown_caller"), turn.spoke)
           ELSE IF RequireApproval /\ ~s.approved
           THEN Result(Finish(s, "unknown_caller"), turn.spoke)
           ELSE IF s.alreadyInterviewed
           THEN Result(Finish(s, "already_interviewed"), turn.spoke)
           ELSE Admit(s)
  /\ TurnOnly

\* The row the tool was opening is there, or opening it threw.
ToolRowOpened ==
  /\ turn.phase = "opening"
  /\ ledger' = Opened(ledger, session.candidate)
  /\ Result(SetState([session EXCEPT !.callId = TRUE], "LANGUAGE_SELECT"), turn.spoke)
  /\ UNCHANGED <<setup, clock, aside, fin>>

ToolRowFails == "database" \in Faults /\ turn.phase = "opening" /\ ForceEscalate /\ TurnOnly

\* Mutation of PatchedStatus: a patch without a status writes the default one.
DefaultedStatus(tool, status) ==
  IF tool = "record_time_consent" THEN "declined_consent" ELSE "unknown_caller"

\* Only a withdrawal patches the status of the row.
PatchedStatus(tool, status) == IF tool = "record_time_consent" THEN "declined_consent" ELSE status

\* The patch is back.
Patched ==
  /\ turn.phase = "patching"
  /\ \E saved \in Saves :
       ledger' = IF saved THEN [ledger EXCEPT !.row = PatchedStatus(turn.tool, @)] ELSE ledger
  /\ Result(session, turn.spoke)
  /\ UNCHANGED <<setup, clock, aside, fin>>

\* The line has gone quiet, or the wait for that is over: drainThenHangUp.
Drained ==
  /\ turn.phase = "draining"
  /\ turn' = NoTurn
  /\ pending' = FALSE
  /\ disclosure' = IF disclosure = "saying" THEN "cut" ELSE disclosure
  /\ FinaliseOnce(session.outcome)
  /\ UNCHANGED <<setup, aside>>

----------------------------------------------------------------------------
(* The line and the clocks.                                                 *)

Listening == setup.phase \notin {"waiting", "lookup"} /\ fin.phase = "no"

\* A final transcript, or digits keyed in.
CallerSpeaks ==
  /\ Listening
  /\ ~session.listenOnly
  /\ IF turn.phase = "idle"
     THEN Pump(session)
     ELSE pending' = TRUE /\ UNCHANGED <<turn, disclosure>>
  /\ UNCHANGED <<session, setup, clock, aside, fin, ledger>>

\* The caller starts to speak over her, or while she thinks.
BargeIn ==
  /\ Listening
  /\ Speaking \/ turn.phase # "idle"
  /\ turn' = Aborted(turn)
  /\ CutSpeech
  /\ UNCHANGED <<session, setup, pending, clock, aside, fin, ledger>>

\* The telephone acknowledges a checkpoint of the disclosure: any sentence of it.
DisclosurePlayed ==
  /\ Listening
  /\ disclosure \in {"saying", "sent"}
  /\ session' = [session EXCEPT !.aiDisclosureGiven = TRUE]
  /\ UNCHANGED <<setup, turn, pending, disclosure, clock, aside, fin, ledger>>

\* The socket closes.
Hangup ==
  /\ fin.phase = "no"
  /\ Finalise(session, "none")
  /\ Hush
  /\ UNCHANGED <<setup, pending, aside>>

\* The interview is past its deadline and the grace that goes with it.
Overrun == clock.overdue /\ session.deadline /\ ~session.ended

TimePasses ==
  /\ session.deadline
  /\ ~clock.overdue
  /\ clock' = [clock EXCEPT !.overdue = TRUE]
  /\ UNCHANGED <<session, setup, turn, pending, disclosure, aside, fin, ledger>>

MayWrapUp == aside.wrap = "no"

\* The timer's tick finds the interview overrun: it is wrapped up.
ForceWrapUp ==
  /\ clock.idle
  /\ Overrun
  /\ MayWrapUp
  /\ session' = Finish(SetState(session, "CLOSE"), "completed")
  /\ turn' = Aborted(turn)
  /\ CutSpeech
  /\ aside' = [aside EXCEPT !.wrap = "closing"]
  /\ UNCHANGED <<setup, pending, clock, fin, ledger>>

WrappedUp ==
  /\ aside.wrap = "closing"
  /\ aside' = [aside EXCEPT !.wrap = "no"]
  /\ FinaliseOnce(session.outcome)
  /\ Hush
  /\ UNCHANGED <<setup, pending>>

\* The timer's tick finds the line silent for too long.
IdleHangup ==
  /\ clock.idle
  /\ ~Overrun
  /\ fin.phase = "no"
  /\ Finalise(session, "abandoned")
  /\ Hush
  /\ UNCHANGED <<setup, pending, aside>>

\* The speech recogniser dies: an apology, then the end of the call.
RecogniserDies ==
  /\ "recogniser" \in Faults
  /\ Listening
  /\ aside.fail = "no"
  /\ aside' = [aside EXCEPT !.fail = "saying"]
  /\ UNCHANGED <<session, setup, turn, pending, disclosure, clock, fin, ledger>>

FailureSaid ==
  /\ aside.fail = "saying"
  /\ aside' = [aside EXCEPT !.fail = "draining"]
  /\ session' = Finish(session, "technical_failure")
  /\ UNCHANGED <<setup, turn, pending, disclosure, clock, fin, ledger>>

FailureDrained ==
  /\ aside.fail = "draining"
  /\ aside' = [aside EXCEPT !.fail = "no"]
  /\ FinaliseOnce(session.outcome)
  /\ Hush
  /\ UNCHANGED <<setup, pending>>

----------------------------------------------------------------------------
(* The specification.                                                       *)

Setup == \/ Begin \/ ListenOnly \/ RefusePaused \/ TurnAwayRepeat \/ TurnAwayClosed
         \/ Recognise \/ DoNotRecognise \/ RowOpened \/ GreetingSaid \/ FirstTurn

Turn == \/ ModelReplies \/ TurnInterrupted \/ ModelFails \/ ApologySaid \/ ReplyDone
        \/ Reprompted \/ SorrySaid \/ LookupFails \/ EmailOfAnother \/ EmailMismatch
        \/ EmailUnknown \/ EmailKnown \/ ToolRowOpened \/ ToolRowFails \/ Patched \/ Drained

Finaliser == FinalPatch \/ Meter \/ LogStray \/ Analyse

Line == \/ CallerSpeaks \/ BargeIn \/ DisclosurePlayed \/ Hangup \/ TimePasses
        \/ ForceWrapUp \/ WrappedUp \/ IdleHangup
        \/ RecogniserDies \/ FailureSaid \/ FailureDrained

Next == Setup \/ Turn \/ Finaliser \/ Line

Spec == Init /\ [][Next]_vars

\* The event loop answers every await and fires every timer in the end: the clients of
\* the model and the database have timeouts, drainThenHangUp has a deadline, the timer
\* ticks every five seconds and time passes.  Of the caller it asks only that nobody
\* talks on for ever to a call that has ended: until it has, IdleHangup is not fair.
Fairness ==
  /\ WF_vars(Setup)
  /\ WF_vars(Turn)
  /\ WF_vars(Finaliser)
  /\ WF_vars(TimePasses)
  /\ WF_vars(ForceWrapUp)
  /\ WF_vars(WrappedUp)
  /\ WF_vars(FailureSaid)
  /\ WF_vars(FailureDrained)
  /\ WF_vars(session.ended /\ IdleHangup)

FairSpec == Spec /\ Fairness

----------------------------------------------------------------------------
(* Properties.                                                              *)

\* Nobody is asked a question, or let into the questions, before the call knows who
\* they are, has had the email check they are owed, knows no completed interview of
\* theirs, and has their language and their answers to both consents (the guarantee
\* states.js sets against a prompt).
ScreeningIsEarned ==
  session.state \in {"SCREEN", "CANDIDATE_QA"} \/ session.questions > 0 =>
    /\ session.candidate # Nobody
    /\ ~session.alreadyInterviewed
    /\ session.emailVerified \/ ~session.emailOnFile \/ ~VerifyCallerEmail
    /\ session.language /\ session.timeConsent /\ session.recordingConsent

\* Whoever ends the call first - a tool, the wrap-up, a dead recogniser, a turn-away,
\* a hangup - its outcome stands, and no handler still under way when it ended moves
\* the session out of CLOSE again.
FirstOutcomeWins ==
  [][session.ended => session'.ended /\ session'.outcome = session.outcome
                                    /\ session'.state = "CLOSE"]_vars

\* A workspace is charged at most once for a call, and only for one that reached the
\* questions with a verified candidate and was completed, or was hung up on after the
\* screening had been finished; and none is both charged and logged as a caller nobody
\* knows, nor logged so twice.
ChargedOnlyWhenEarned ==
  /\ ledger.charges <= 1
  /\ ledger.charges = 1 =>
       /\ IsVerified(session, RequireApproval)
       /\ session.questions > 0
       /\ \/ session.outcome = "completed"
          \/ session.outcome = "abandoned" /\ session.screeningFinished
  /\ ledger.strays <= 1
  /\ ledger.strays > 0 => ledger.charges = 0

\* The status finalise gave the row is the last word on it: no patch of a tool still
\* in flight at the hangup undoes it, and nothing the session turns into afterwards
\* would have classified the call differently.
FinalStatusStands == ledger.closed => ledger.row = DeriveCallStatus(session)

\* What the caller says is taken up by a turn, or thrown away because the call has
\* ended: it never waits for them to speak again.  And an interview past its deadline
\* and grace comes to an end, whatever the model and the caller do.
NothingWaitsForEver ==
  /\ pending ~> ~pending
  /\ (session.deadline /\ clock.overdue) ~> session.ended

\* The promise of the call, seen in this state.
Promise == INSTANCE CallPromise WITH
  stage   <- IF fin.phase # "no" THEN "settled" ELSE IF session.ended THEN "over" ELSE "live",
  outcome <- session.outcome,
  asked   <- session.questions > 0,
  due     <- fin.producesReport,
  charges <- ledger.charges,
  report  <- IF ledger.report \in {"written", "lost"} THEN ledger.report ELSE "none"

\* A call ends once, is settled once, is charged only when it is worth a report and
\* ran to its end, and every report that is due comes to something.
KeepsPromise == Promise!Spec
=============================================================================
