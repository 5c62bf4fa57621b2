------------------------------ MODULE Settings ------------------------------
(***************************************************************************)
(* Platform settings: saved by admins, a row for each key, and picked up   *)
(* by every process, which keeps a copy, writes it into its environment,   *)
(* rebuilds its configuration from that, and reports what it runs with     *)
(* (settingsRuntime.ts, settings-admin.ts, the worker's config/live.js).   *)
(* Refreshes come every half minute whether or not the last one is over.   *)
(***************************************************************************)
EXTENDS Naturals, FiniteSets

CONSTANTS
  Apps,        \* the processes; "admin" saves, "worker" has a configuration object
  Keys,
  Values,
  UsedBy,      \* [Keys -> SUBSET Apps]
  Secrets,     \* the keys whose values are sealed
  HasEnv,      \* the keys that stand for an environment variable
  Base,        \* [Apps -> [Keys -> value]]: what the servers' .env files say; 0: nothing
  Default,     \* [Keys -> value]
  Sealed,      \* [Apps -> SUBSET Values]: the secrets a process cannot open
  Savers,      \* the saves that can be open at a time
  Asks,        \* what the panel's forms ask for: a value for some of the keys, 0: reset it
  MaxSaves, MaxMishaps  \* bounds

ASSUME SettingsAssumption ==
  /\ "admin" \in Apps /\ Values \subseteq Nat \ {0} /\ Secrets \subseteq Keys /\ HasEnv \subseteq Keys
  /\ UsedBy \in [ Keys -> SUBSET Apps ]
  /\ Base \in [ Apps -> [ Keys -> Values \union {0} ] ] /\ Default \in [ Keys -> Values \union {0} ]
  /\ Asks \subseteq UNION { [ some -> Values \union {0} ] : some \in SUBSET Keys \ {{}} }
  /\ MaxSaves \in Nat /\ MaxMishaps \in Nat

Slots == 1..2  \* bound: the refreshes a process has under way, one process at a time

VARIABLES
  row,      \* [Keys -> value]: platform_settings; 0: there is no row
  tables,   \* history: what the rows have been, before and after each save
  save,     \* the saves that are open: what was asked, what is to be written
  process,  \* of each process: up, its copy, env, and the report it last sent
  config,   \* the worker's configuration object
  refresh,  \* [Apps -> [Slots -> what each refresh is doing]]
  report,   \* [Apps -> what is stored of each process]
  doubtful, \* history: the processes with two reports, or an answer lost, under way
  left      \* bound: the saves and the mishaps, faults or crashes, still to come

vars == << row, tables, save, process, config, refresh, report, doubtful, left >>

Idle == [ doing |-> "nothing" ]

NoSave == [ asked |-> << >>, writes |-> << >> ]

NoReport == << >>

Nothing == [ k \in Keys |-> 0 ]

\* A process that has just started: nothing saved, the environment it came with.
Fresh(a) == [ up |-> FALSE, copy |-> Nothing, env |-> Base[a], last |-> NoReport ]

Init ==
  /\ row = Nothing /\ tables = {row}
  /\ save = [ s \in Savers |-> NoSave ]
  /\ process = [ a \in Apps |-> Fresh(a) ]
  /\ config = Nothing
  /\ refresh = [ a \in Apps |-> [ i \in Slots |-> IF i = 1 THEN [ doing |-> "asks" ] ELSE Idle ] ]
  /\ report = [ a \in Apps |-> NoReport ]
  /\ doubtful = {}
  /\ left = [ saves |-> MaxSaves, mishaps |-> MaxMishaps ]

----------------------------------------------------------------------------
(* What a process runs with.                                                *)

\* A secret that cannot be opened falls back to the server's value.
Readable(a, k, v) == v # 0 /\ ~(k \in Secrets /\ v \in Sealed[a])

Parsed(a, rows) == [ k \in Keys |-> IF Readable(a, k, rows[k]) THEN rows[k] ELSE 0 ]

\* Mutation of Applied: a setting that was reset keeps its variable.
AppliedOver(a, copy) ==
  [ k \in Keys |-> IF a \in UsedBy[k] /\ k \in HasEnv /\ copy[k] # 0 THEN copy[k] ELSE process[a].env[k] ]

\* What is saved is written over the environment, what is reset is restored.
Applied(a, copy) ==
  [ k \in Keys |-> IF a \in UsedBy[k] /\ k \in HasEnv /\ copy[k] # 0 THEN copy[k] ELSE Base[a][k] ]

First(v, w) == IF v # 0 THEN v ELSE w

\* The effective value: saved, else the server's, else the default.
Effective(a, copy) ==
  [ k \in Keys |-> First(copy[k], First(IF k \in HasEnv THEN Base[a][k] ELSE 0, Default[k])) ]

\* What the configuration object holds when it is built from the environment.
Built(env) == [ k \in Keys |-> First(env[k], Default[k]) ]

Snapshot(a, copy) == [ k \in { x \in Keys : a \in UsedBy[x] } |-> << copy[k] # 0, Effective(a, copy)[k] >> ]

Reports(a) == a # "admin"

----------------------------------------------------------------------------
(* Refreshes.                                                               *)

Moves(a, i, to) == refresh' = [refresh EXCEPT ![a][i] = to]

\* Bound: a slot for one more refresh.
Takes(a, i) ==
  /\ refresh[a][i] = Idle
  /\ \A j \in 1..(i - 1), b \in Apps : refresh[a][j] # Idle /\ (b # a => refresh[b][i] = Idle)

\* A process is up once its first refresh is over, however it went; the worker
\* builds its configuration then.
Over(a, i, now) ==
  /\ Moves(a, i, Idle)
  /\ process' = [process EXCEPT ![a] = [now EXCEPT !.up = TRUE]]

Builds(a, now) == config' = IF a = "worker" /\ ~now.up THEN Built(now.env) ELSE config

\* The timer's.
Refreshes(a, i) ==
  /\ process[a].up /\ Takes(a, i)
  /\ Moves(a, i, [ doing |-> "asks" ])
  /\ UNCHANGED << row, tables, save, process, config, report, doubtful, left >>

\* All the rows, in one statement.
Reads(a, i) ==
  /\ refresh[a][i].doing = "asks"
  /\ Moves(a, i, [ doing |-> "answered", rows |-> row ])
  /\ UNCHANGED << row, tables, save, process, config, report, doubtful, left >>

\* Mutation of Renewed: what is reported is remembered before it is stored.
RenewedAndReported(a, copy) ==
  [process[a] EXCEPT !.copy = copy, !.env = Applied(a, copy), !.last = Snapshot(a, copy)]

Renewed(a, copy) == [process[a] EXCEPT !.copy = copy, !.env = Applied(a, copy)]

\* The copy is replaced, the environment follows, the listeners hear of it if
\* anything changed, and the panel is told what it comes to.
Applies(a, i) ==
  LET copy == Parsed(a, refresh[a][i].rows)
      now == Renewed(a, copy)
      reports == Reports(a) /\ Snapshot(a, copy) # process[a].last IN
  /\ refresh[a][i].doing = "answered"
  /\ IF reports
     THEN /\ Moves(a, i, [ doing |-> "reports", what |-> Snapshot(a, copy) ])
          /\ process' = [process EXCEPT ![a] = now]
     ELSE Over(a, i, now)
  /\ config' = IF a = "worker" /\ (IF now.up THEN copy # process[a].copy ELSE ~reports)
               THEN Built(now.env) ELSE config
  /\ doubtful' = IF reports /\ \E j \in Slots \ {i} : refresh[a][j].doing \in {"reports", "reported"}
                 THEN doubtful \union {a} ELSE doubtful
  /\ UNCHANGED << row, tables, save, report, left >>

Records(a, i) ==
  /\ refresh[a][i].doing = "reports"
  /\ report' = [report EXCEPT ![a] = refresh[a][i].what]
  /\ Moves(a, i, [refresh[a][i] EXCEPT !.doing = "reported"])
  /\ UNCHANGED << row, tables, save, process, config, doubtful, left >>

Recorded(a, i) ==
  /\ refresh[a][i].doing = "reported"
  /\ Over(a, i, [process[a] EXCEPT !.last = refresh[a][i].what])
  /\ Builds(a, process[a])
  /\ UNCHANGED << row, tables, save, report, doubtful, left >>

\* The database is out of reach, or its answer is lost: the last values stay.
Fails(a, i) ==
  /\ refresh[a][i] # Idle /\ left.mishaps > 0
  /\ left' = [left EXCEPT !.mishaps = @ - 1]
  /\ Over(a, i, process[a]) /\ Builds(a, process[a])
  /\ doubtful' = IF refresh[a][i].doing = "reported" THEN doubtful \union {a} ELSE doubtful
  /\ UNCHANGED << row, tables, save, report >>

\* A process dies and is started again.
Crashes(a) ==
  /\ left.mishaps > 0 /\ left' = [left EXCEPT !.mishaps = @ - 1]
  /\ process' = [process EXCEPT ![a] = Fresh(a)]
  /\ refresh' = [refresh EXCEPT ![a] = [ i \in Slots |-> IF i = 1 THEN [ doing |-> "asks" ] ELSE Idle ]]
  /\ save' = IF a = "admin" THEN [ s \in Savers |-> NoSave ] ELSE save
  /\ UNCHANGED << row, tables, config, report, doubtful >>

----------------------------------------------------------------------------
(* Saving.                                                                  *)

\* Mutation of Current: the panel's own copy is compared with.
CurrentCopy(k) == First(process["admin"].copy[k], First(process["admin"].env[k], Default[k]))

\* What the panel takes the value to be: the row, else its environment.
Current(k) == First(row[k], First(IF k \in HasEnv THEN process["admin"].env[k] ELSE 0, Default[k]))

\* A value that is the current one is left out; secrets are always written.
Changes(asked) ==
  { k \in DOMAIN asked : asked[k] = 0 \/ k \in Secrets \/ asked[k] # Current(k) }

SaveOpens(s, asked) ==
  /\ save[s] = NoSave /\ process["admin"].up /\ left.saves > 0
  /\ left' = [left EXCEPT !.saves = @ - 1]
  /\ save' = [save EXCEPT ![s] = [ asked |-> asked, writes |-> [ k \in Changes(asked) |-> asked[k] ] ]]
  /\ UNCHANGED << row, tables, process, config, refresh, report, doubtful >>

\* "Nothing changed."
Answers(s) ==
  /\ save[s] # NoSave /\ save[s].writes = << >>
  /\ save' = [save EXCEPT ![s] = NoSave]
  /\ UNCHANGED << row, tables, process, config, refresh, report, doubtful, left >>

\* One transaction; then the panel's own copy is refreshed.
Saves(s) ==
  LET writes == save[s].writes IN
  /\ writes # << >>
  /\ row' = [ k \in Keys |-> IF k \in DOMAIN writes THEN writes[k] ELSE row[k] ]
  /\ tables' = tables \union {row'}
  /\ save' = [save EXCEPT ![s] = NoSave]
  /\ \E i \in Slots : Takes("admin", i) /\ Moves("admin", i, [ doing |-> "asks" ])
  /\ UNCHANGED << process, config, report, doubtful, left >>

Next ==
  \/ \E a \in Apps :
       \/ \E i \in Slots :
            \/ Refreshes(a, i) \/ Reads(a, i) \/ Applies(a, i)
            \/ Records(a, i) \/ Recorded(a, i) \/ Fails(a, i)
       \/ Crashes(a)
  \/ \E s \in Savers : Answers(s) \/ Saves(s) \/ \E asked \in Asks : SaveOpens(s, asked)

\* Timers go on running, and what is under way comes to an end.
Fairness ==
  \A a \in Apps, i \in Slots :
    /\ WF_vars(Refreshes(a, i))
    /\ WF_vars(Reads(a, i) \/ Applies(a, i) \/ Records(a, i) \/ Recorded(a, i))

FairSpec == Init /\ [][Next]_vars /\ Fairness

----------------------------------------------------------------------------
(* Properties.                                                              *)

Table == [ Keys -> Values \union {0} ]

\* A value for some of the keys.
Wish == UNION { [ some -> Values \union {0} ] : some \in SUBSET Keys }

Told == {NoReport} \union { Snapshot(a, copy) : a \in Apps, copy \in Table }

Refreshing ==
  [ doing : {"nothing", "asks"} ] \union [ doing : {"answered"}, rows : Table ]
    \union [ doing : {"reports", "reported"}, what : Told ]

TypeOK ==
  /\ row \in Table /\ tables \subseteq Table
  /\ save \in [ Savers -> [ asked : Wish, writes : Wish ] ]
  /\ process \in [ Apps -> [ up : BOOLEAN, copy : Table, env : Table, last : Told ] ]
  /\ config \in Table
  /\ refresh \in [ Apps -> [ Slots -> Refreshing ] ]
  /\ report \in [ Apps -> Told ] /\ doubtful \subseteq Apps
  /\ left \in [ saves : Nat, mishaps : Nat ]

\* A process runs with what one save left, never with half of one or a mix of
\* two, except for the secrets it cannot open; whoever reads its environment,
\* which saved values overwrite, and whoever asks for the setting get the same;
\* and so does who reads the worker's configuration, rebuilt only when something
\* changed: however refreshes overlap, fail and start again.
UsesOneSave ==
  \A a \in Apps : LET p == process[a] IN
    /\ \E rows \in tables : p.copy = Parsed(a, rows)
    /\ \A k \in HasEnv : a \in UsedBy[k] =>
         /\ Built(p.env)[k] = Effective(a, p.copy)[k]
         /\ (a = "worker" /\ p.up) => config[k] = Effective(a, p.copy)[k]

\* What a save leaves out because it is so already is so: the value saved, else
\* the server's own.  The exception is a setting that was reset and is asked for
\* at a value it was reset from, which is still in the panel's environment.
NothingIsLeftOut ==
  [][\A s \in Savers : (save[s] = NoSave /\ save'[s] # NoSave) =>
       \A k \in DOMAIN save'[s].asked \ DOMAIN save'[s].writes :
         \/ save'[s].asked[k] = First(row[k], Effective("admin", Nothing)[k])
         \/ row[k] = 0 /\ \E rows \in tables : save'[s].asked[k] = rows[k]]_vars

InStep(a) ==
  /\ process[a].up /\ process[a].copy = Parsed(a, row)
  /\ (Reports(a) /\ a \notin doubtful) => report[a] = Snapshot(a, process[a].copy)

\* When nobody saves any more, every process comes to run with what is saved,
\* and the panel is told so, unless two reports of the process crossed or the
\* answer to one was lost.
SavesReachEverybody == <>[](\A a \in Apps : InStep(a))
=============================================================================
