------------------------------ MODULE CallLine ------------------------------
(***************************************************************************)
(* The telephone line (index.js, routes/index.js): which calls the answer  *)
(* webhook lets in, the sockets that carry them, and the table `calls`     *)
(* that the concurrency limit and the shutdown look at.                    *)
(*                                                                         *)
(* A call is a call UUID.  Each socket opened for it is a leg; what is     *)
(* said on a leg is the subject of InterviewCall, here it talks until the  *)
(* agent ends it or the socket does.  finalise() runs once per leg, and    *)
(* only its first caller waits for it.                                     *)
(***************************************************************************)
EXTENDS Filing

CONSTANTS
  Calls,              \* call UUIDs
  MaxConcurrentCalls, \* config.maxConcurrentCalls
  MaxLegs             \* bound: sockets opened while the worker is up

VARIABLES
  line,  \* what the answer webhook said: "ringing", "answered", "refused", "over"
  legs,  \* the sockets of each call, in the order they opened
  calls  \* the table of calls in progress

lineVars == <<line, legs, calls>>

LineInit(ringing) ==
  /\ line = [ u \in Calls |-> IF u \in ringing THEN "ringing" ELSE "over" ]
  /\ legs = [ u \in Calls |-> <<>> ]
  /\ calls = {}

\* Blocked number or closed hours; a failed check of the number answers.
Refuses(u) ==
  /\ worker = "up" /\ line[u] = "ringing"
  /\ line' = [ line EXCEPT ![u] = "refused" ]
  /\ UNCHANGED <<legs, calls>>

\* The limit counts open streams, and an answered call has none yet.
Answers(u) ==
  /\ worker = "up" /\ line[u] = "ringing"
  /\ line' = [ line EXCEPT ![u] = IF Cardinality(calls) >= MaxConcurrentCalls THEN "refused" ELSE "answered" ]
  /\ UNCHANGED <<legs, calls>>

NewLeg ==
  [ phase |-> "talking", endedBy |-> "nobody", errored |-> FALSE, closed |-> FALSE, awaited |-> FALSE ]

OpenLegs == Cardinality(UNION { {u} \X DOMAIN legs[u] : u \in Calls })

\* A stream for a call already in progress is closed at once.
Opens(u) ==
  /\ worker = "up" /\ line[u] = "answered" /\ OpenLegs < MaxLegs
  /\ u \notin calls
  /\ legs' = [ legs EXCEPT ![u] = Append(@, NewLeg) ]
  /\ calls' = calls \union {u}
  /\ UNCHANGED line

\* The agent hangs up, or the call fails: finalise() begins, nobody waits.
AgentEnds(u, i) ==
  /\ legs[u][i].phase = "talking"
  /\ legs' = [ legs EXCEPT ![u][i].phase = "ending", ![u][i].endedBy = "agent" ]
  /\ UNCHANGED <<line, calls>>

\* Mutation of Cleanup: the call is forgotten before it is finalised.
CleanupAtOnce(u, i, leg) ==
  /\ legs' = [ legs EXCEPT ![u][i] =
       IF leg.phase = "talking" THEN [ leg EXCEPT !.phase = "ending", !.endedBy = "socket" ] ELSE leg ]
  /\ calls' = calls \ {u}

\* cleanup(): calls finalise() and then forgets the call.  If finalise() has
\* begun already it returns at once, and so does the call from the table.
Cleanup(u, i, leg) ==
  IF leg.phase = "talking"
  THEN /\ legs' = [ legs EXCEPT ![u][i] =
              [ leg EXCEPT !.phase = "ending", !.endedBy = "socket", !.awaited = TRUE ] ]
       /\ UNCHANGED calls
  ELSE /\ legs' = [ legs EXCEPT ![u][i] = leg ]
       /\ calls' = calls \ {u}

SocketFails(u, i) ==
  /\ ~legs[u][i].errored /\ ~legs[u][i].closed
  /\ Cleanup(u, i, [ legs[u][i] EXCEPT !.errored = TRUE ])
  /\ UNCHANGED line

SocketCloses(u, i) ==
  /\ ~legs[u][i].closed
  /\ Cleanup(u, i, [ legs[u][i] EXCEPT !.closed = TRUE ])
  /\ UNCHANGED line

\* finalise() comes to its end: the row, the meter and the stray log are
\* written, the analysis is started, and whoever waited is called back.
Settles(u, i) ==
  /\ legs[u][i].phase = "ending"
  /\ \E next \in {"analysing", "done"} : legs' = [ legs EXCEPT ![u][i].phase = next ]
  /\ calls' = IF legs[u][i].awaited THEN calls \ {u} ELSE calls
  /\ UNCHANGED line

\* The report arrives, or its analysis fails; nobody waits for it.
AnalysisEnds(u, i) ==
  /\ legs[u][i].phase = "analysing"
  /\ legs' = [ legs EXCEPT ![u][i].phase = "done" ]
  /\ UNCHANGED <<line, calls>>

Talks(u) ==
  /\ Running
  /\ \/ Refuses(u) \/ Answers(u) \/ Opens(u)
     \/ \E i \in DOMAIN legs[u] :
          AgentEnds(u, i) \/ SocketFails(u, i) \/ SocketCloses(u, i) \/ Settles(u, i) \/ AnalysisEnds(u, i)

\* Whoever was on the line is cut off.
LineDrops ==
  /\ line' = [ u \in Calls |-> IF legs[u] # <<>> THEN "over" ELSE line[u] ]
  /\ legs' = [ u \in Calls |-> <<>> ]
  /\ calls' = {}
=============================================================================
