-------------------------------- MODULE Desk --------------------------------
(***************************************************************************)
(* What the parts of the admin panel share.  A request reads, decides and  *)
(* then writes; nothing locks what was read (interactive transactions read *)
(* what is committed), so requests that are open together overtake each    *)
(* other.  A request notes what it is about, so that the properties can    *)
(* say which of them only an overtaken one may break.                      *)
(***************************************************************************)
EXTENDS Naturals, Sequences, FiniteSets

CONSTANT
  Requests  \* the requests that can be open at a time

VARIABLES
  request,  \* what each open request does, what it is about and what it has read
  tasks,    \* the operations people use in this behaviour
  acts,     \* bound: operations still to come
  crossed   \* history: the things an overtaken request has written

deskVars == << request, tasks, acts, crossed >>

NoRequest == [ doing |-> "nothing" ]

DeskInit(what, many) ==
  /\ request = [ q \in Requests |-> NoRequest ]
  /\ tasks = what /\ acts = many /\ crossed = {}

Doing(q, what) == request[q].doing = what

\* Somebody does something that takes no more than a moment.
Acts(what) == what \in tasks /\ acts > 0 /\ acts' = acts - 1 /\ UNCHANGED << tasks, crossed >>

\* A request comes in ..
Starting(what) == { q \in Requests : Doing(q, "nothing") /\ what \in tasks /\ acts > 0 }

\* .. has read what it needs, and means to write.
Opens(q, what, about, arg, saw) ==
  /\ q \in Starting(what) /\ Acts(what)
  /\ request' = [request EXCEPT ![q] =
       [ doing |-> what, about |-> about, arg |-> arg, saw |-> saw, overtaken |-> FALSE ]]

\* It reads (again) before it writes: what happened up to now does not matter.
Reads(q, saw) ==
  /\ request' = [request EXCEPT ![q].saw = saw, ![q].overtaken = FALSE]
  /\ UNCHANGED << tasks, acts, crossed >>

\* The requests that are about what was just written were overtaken.
Overtakes(what) ==
  [ p \in Requests |-> IF Doing(p, "nothing") THEN request[p]
                       ELSE [request[p] EXCEPT !.overtaken = @ \/ (request[p].about \cap what) # {}] ]

\* It has written.
Writes(q, what) ==
  /\ request' = [Overtakes(what) EXCEPT ![q] = NoRequest]
  /\ crossed' = IF request[q].overtaken THEN crossed \union what ELSE crossed
  /\ UNCHANGED << tasks, acts >>

\* The system has written, without a request.
SystemWrites(what) == request' = Overtakes(what) /\ UNCHANGED << tasks, acts, crossed >>

\* It is refused, or the database rolls it back.
GivesUp(q) ==
  /\ request' = [request EXCEPT ![q] = NoRequest]
  /\ UNCHANGED << tasks, acts, crossed >>

\* The step is the last one of a request that was overtaken.
OvertakenEnds ==
  \E q \in Requests : ~Doing(q, "nothing") /\ request[q].overtaken /\ request'[q] = NoRequest
=============================================================================
