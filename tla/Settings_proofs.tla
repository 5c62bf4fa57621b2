--------------------------- MODULE Settings_proofs ---------------------------
(***************************************************************************)
(* Theorems about Settings.  They rest on one invariant, Kept: a process's *)
(* copy is read from rows that were saved together, its environment is     *)
(* always what the copy makes of the server's own, and the configuration   *)
(* of a worker that is up is built from that environment.                  *)
(***************************************************************************)
EXTENDS Settings, TLAPS

\* What is read or waits to be applied was saved together.
Together ==
  /\ row \in tables /\ Nothing \in tables
  /\ \A a \in Apps, i \in Slots : refresh[a][i].doing = "answered" => refresh[a][i].rows \in tables
  /\ \A a \in Apps : \E rows \in tables : process[a].copy = Parsed(a, rows)

\* The environment follows the copy, and the configuration the environment.
Followed ==
  /\ \A a \in Apps : process[a].env = Applied(a, process[a].copy)
  /\ \A a \in Apps : (a = "worker" /\ process[a].up) => config = Built(process[a].env)

Kept == TypeOK /\ Together /\ Followed

----------------------------------------------------------------------------
(* What the operators return.                                               *)

LEMMA ParsedIsATable ==
  ASSUME NEW a \in Apps, NEW rows \in Table
  PROVE  Parsed(a, rows) \in Table
  BY DEF Parsed, Table

LEMMA AppliedIsATable ==
  ASSUME NEW a \in Apps, NEW copy \in Table
  PROVE  Applied(a, copy) \in Table
  BY SettingsAssumption DEF Applied, Table

LEMMA BuiltIsATable ==
  ASSUME NEW env \in Table
  PROVE  Built(env) \in Table
  BY SettingsAssumption DEF Built, First, Table

LEMMA SnapshotIsTold ==
  ASSUME NEW a \in Apps, NEW copy \in Table
  PROVE  Snapshot(a, copy) \in Told
  BY DEF Told

LEMMA NothingIsATable == Nothing \in Table
  BY DEF Nothing, Table

LEMMA NothingIsParsed ==
  ASSUME NEW a \in Apps
  PROVE  Parsed(a, Nothing) = Nothing
  BY DEF Parsed, Nothing, Readable

\* Who reads the environment and who asks for the setting get the same.
LEMMA EnvironmentAgrees ==
  ASSUME NEW a \in Apps, NEW copy \in Table, NEW k \in HasEnv, a \in UsedBy[k]
  PROVE  Built(Applied(a, copy))[k] = Effective(a, copy)[k]
<1>1. k \in Keys
  BY SettingsAssumption
<1>2. Built(Applied(a, copy))[k] = First(Applied(a, copy)[k], Default[k])
  BY <1>1 DEF Built
<1>3. Applied(a, copy)[k] = IF copy[k] # 0 THEN copy[k] ELSE Base[a][k]
  BY <1>1 DEF Applied
<1>4. Effective(a, copy)[k] = First(copy[k], First(Base[a][k], Default[k]))
  BY <1>1 DEF Effective
<1> QED
  BY <1>2, <1>3, <1>4 DEF First

\* A process that has just started has the environment it came with.
LEMMA FreshFollows ==
  ASSUME NEW a \in Apps
  PROVE  Base[a] = Applied(a, Nothing)
<1>1. Base[a] \in [ Keys -> Values \union {0} ]
  BY SettingsAssumption
<1>2. Applied(a, Nothing) = [ k \in Keys |-> Base[a][k] ]
  BY DEF Applied, Nothing
<1> QED
  BY <1>1, <1>2

LEMMA AsksAreWishes == Asks \subseteq Wish
  BY SettingsAssumption DEF Wish

----------------------------------------------------------------------------
(* Types.                                                                   *)

Process == [ up : BOOLEAN, copy : Table, env : Table, last : Told ]

Save == [ asked : Wish, writes : Wish ]

LEMMA NoSaveIsASave == NoSave \in Save
<1>1. << >> \in [ {} -> Values \union {0} ]
  OBVIOUS
<1>2. << >> \in Wish
  BY <1>1 DEF Wish
<1> QED
  BY <1>2 DEF NoSave, Save

LEMMA FreshIsAProcess ==
  ASSUME NEW a \in Apps
  PROVE  Fresh(a) \in Process
<1>1. Base[a] \in Table
  BY SettingsAssumption DEF Table
<1>2. NoReport \in Told
  BY DEF Told
<1> QED
  BY <1>1, <1>2, NothingIsATable DEF Fresh, Process

\* A step moves one refresh of one process.
LEMMA MovesTypes ==
  ASSUME TypeOK, NEW a \in Apps, NEW i \in Slots, NEW to \in Refreshing, Moves(a, i, to)
  PROVE  refresh' \in [ Apps -> [ Slots -> Refreshing ] ]
  BY DEF TypeOK, Moves

LEMMA OverTypes ==
  ASSUME TypeOK, NEW a \in Apps, NEW i \in Slots, NEW now \in Process, Over(a, i, now)
  PROVE  /\ refresh' \in [ Apps -> [ Slots -> Refreshing ] ]
         /\ process' \in [ Apps -> Process ]
<1>1. Idle \in Refreshing
  BY DEF Idle, Refreshing
<1>2. [now EXCEPT !.up = TRUE] \in Process
  BY DEF Process
<1>3. process \in [ Apps -> Process ]
  BY DEF TypeOK, Process
<1> QED
  BY <1>1, <1>2, <1>3, MovesTypes DEF Over

LEMMA BuildsTypes ==
  ASSUME TypeOK, NEW a \in Apps, NEW now \in Process, Builds(a, now)
  PROVE  config' \in Table
<1>1. now.env \in Table
  BY DEF Process
<1> QED
  BY <1>1, BuiltIsATable DEF TypeOK, Builds

LEMMA InitTypes == Init => TypeOK
<1> SUFFICES ASSUME Init PROVE TypeOK
  OBVIOUS
<1>1. process \in [ Apps -> Process ]
  BY FreshIsAProcess DEF Init
<1>2. save \in [ Savers -> Save ]
  BY NoSaveIsASave DEF Init
<1>3. refresh \in [ Apps -> [ Slots -> Refreshing ] ]
  BY DEF Init, Refreshing, Idle
<1>4. report \in [ Apps -> Told ]
  BY DEF Init, Told
<1>5. left \in [ saves : Nat, mishaps : Nat ]
  BY SettingsAssumption DEF Init
<1> QED
  BY <1>1, <1>2, <1>3, <1>4, <1>5, NothingIsATable DEF Init, TypeOK, Process, Save

\* What a process comes to when it applies the rows it has read.
LEMMA RenewedTypes ==
  ASSUME TypeOK, NEW a \in Apps, NEW copy \in Table
  PROVE  /\ Renewed(a, copy) \in Process
         /\ Renewed(a, copy).copy = copy
         /\ Renewed(a, copy).env = Applied(a, copy)
         /\ Renewed(a, copy).up = process[a].up
         /\ Renewed(a, copy).last = process[a].last
<1>1. process[a] \in Process
  BY DEF TypeOK, Process
<1> QED
  BY <1>1, AppliedIsATable DEF Renewed, Process

LEMMA AnsweredTypes ==
  ASSUME TypeOK, NEW a \in Apps, NEW i \in Slots
  PROVE  /\ refresh[a][i].doing = "answered" => refresh[a][i] \in [ doing : {"answered"}, rows : Table ]
         /\ refresh[a][i].doing \in {"reports", "reported"} =>
              refresh[a][i] \in [ doing : {"reports", "reported"}, what : Told ]
<1>1. refresh[a][i] \in Refreshing
  BY DEF TypeOK
<1> QED
  BY <1>1 DEF Refreshing

LEMMA NextTypes == TypeOK /\ [Next]_vars => TypeOK'
<1> SUFFICES ASSUME TypeOK, [Next]_vars PROVE TypeOK'
  OBVIOUS
<1>p. process \in [ Apps -> Process ]
  BY DEF TypeOK, Process
<1>s. save \in [ Savers -> Save ]
  BY DEF TypeOK, Save
<1>1. ASSUME NEW a \in Apps, NEW i \in Slots, Refreshes(a, i)
      PROVE  TypeOK'
  <2>1. [ doing |-> "asks" ] \in Refreshing
    BY DEF Refreshing
  <2> QED
    BY <1>1, <2>1, MovesTypes DEF Refreshes, TypeOK
<1>2. ASSUME NEW a \in Apps, NEW i \in Slots, Reads(a, i)
      PROVE  TypeOK'
  <2>1. [ doing |-> "answered", rows |-> row ] \in Refreshing
    BY DEF Refreshing, TypeOK
  <2> QED
    BY <1>2, <2>1, MovesTypes DEF Reads, TypeOK
<1>3. ASSUME NEW a \in Apps, NEW i \in Slots, Applies(a, i)
      PROVE  TypeOK'
  <2> DEFINE copy == Parsed(a, refresh[a][i].rows)
  <2>1. copy \in Table
    BY <1>3, AnsweredTypes, ParsedIsATable DEF Applies
  <2>2. Renewed(a, copy) \in Process
    BY <2>1, RenewedTypes
  <2>3. /\ refresh' \in [ Apps -> [ Slots -> Refreshing ] ]
        /\ process' \in [ Apps -> Process ]
    <3>1. CASE Moves(a, i, [ doing |-> "reports", what |-> Snapshot(a, copy) ])
               /\ process' = [process EXCEPT ![a] = Renewed(a, copy)]
      <4>1. [ doing |-> "reports", what |-> Snapshot(a, copy) ] \in Refreshing
        BY <2>1, SnapshotIsTold DEF Refreshing
      <4> QED
        BY <3>1, <4>1, <2>2, <1>p, MovesTypes
    <3>2. CASE Over(a, i, Renewed(a, copy))
      BY <3>2, <2>2, OverTypes
    <3> QED
      BY <1>3, <3>1, <3>2 DEF Applies
  <2>4. config' \in Table
    <3>1. Renewed(a, copy).env \in Table
      BY <2>2 DEF Process
    <3> QED
      BY <1>3, <3>1, BuiltIsATable DEF Applies, TypeOK
  <2>5. doubtful' \subseteq Apps
    BY <1>3 DEF Applies, TypeOK
  <2>6. UNCHANGED << row, tables, save, report, left >>
    BY <1>3 DEF Applies
  <2> HIDE DEF copy
  <2> QED
    BY <2>3, <2>4, <2>5, <2>6 DEF TypeOK, Process
<1>4. ASSUME NEW a \in Apps, NEW i \in Slots, Records(a, i)
      PROVE  TypeOK'
  <2>1. refresh[a][i] \in [ doing : {"reports", "reported"}, what : Told ]
    BY <1>4, AnsweredTypes DEF Records
  <2>2. [refresh[a][i] EXCEPT !.doing = "reported"] \in Refreshing
    BY <2>1 DEF Refreshing
  <2>3. report' \in [ Apps -> Told ]
    BY <1>4, <2>1 DEF Records, TypeOK
  <2> QED
    BY <1>4, <2>2, <2>3, MovesTypes DEF Records, TypeOK
<1>5. ASSUME NEW a \in Apps, NEW i \in Slots, Recorded(a, i)
      PROVE  TypeOK'
  <2>1. refresh[a][i] \in [ doing : {"reports", "reported"}, what : Told ]
    BY <1>5, AnsweredTypes DEF Recorded
  <2>2. [process[a] EXCEPT !.last = refresh[a][i].what] \in Process
    BY <2>1, <1>p DEF Process
  <2>3. config' \in Table
    BY <1>5, <1>p, BuildsTypes DEF Recorded
  <2> QED
    BY <1>5, <2>2, <2>3, OverTypes DEF Recorded, TypeOK, Process
<1>6. ASSUME NEW a \in Apps, NEW i \in Slots, Fails(a, i)
      PROVE  TypeOK'
  <2>1. config' \in Table
    BY <1>6, <1>p, BuildsTypes DEF Fails
  <2>2. /\ refresh' \in [ Apps -> [ Slots -> Refreshing ] ]
        /\ process' \in [ Apps -> Process ]
    BY <1>6, <1>p, OverTypes DEF Fails
  <2>3. left' \in [ saves : Nat, mishaps : Nat ]
    BY <1>6 DEF Fails, TypeOK
  <2>4. doubtful' \subseteq Apps
    BY <1>6 DEF Fails, TypeOK
  <2> QED
    BY <1>6, <2>1, <2>2, <2>3, <2>4 DEF Fails, TypeOK, Process
<1>7. ASSUME NEW a \in Apps, Crashes(a)
      PROVE  TypeOK'
  <2>1. process' \in [ Apps -> Process ]
    BY <1>7, <1>p, FreshIsAProcess DEF Crashes
  <2>2. save' \in [ Savers -> Save ]
    BY <1>7, <1>s, NoSaveIsASave DEF Crashes
  <2>3. refresh' \in [ Apps -> [ Slots -> Refreshing ] ]
    BY <1>7 DEF Crashes, TypeOK, Refreshing, Idle
  <2>4. left' \in [ saves : Nat, mishaps : Nat ]
    BY <1>7, SMTT(60) DEF Crashes, TypeOK
  <2> QED
    BY <1>7, <2>1, <2>2, <2>3, <2>4 DEF Crashes, TypeOK, Process, Save
<1>8. ASSUME NEW s \in Savers, Answers(s)
      PROVE  TypeOK'
  <2>1. save' \in [ Savers -> Save ]
    BY <1>8, <1>s, NoSaveIsASave DEF Answers
  <2> QED
    BY <1>8, <2>1 DEF Answers, TypeOK, Save
<1>9. ASSUME NEW s \in Savers, Saves(s)
      PROVE  TypeOK'
  <2>1. save' \in [ Savers -> Save ]
    BY <1>9, <1>s, NoSaveIsASave DEF Saves
  <2>2. row' \in Table
    <3>1. save[s].writes \in Wish
      BY <1>s DEF Save
    <3> QED
      BY <1>9, <3>1 DEF Saves, TypeOK, Table, Wish
  <2>3. refresh' \in [ Apps -> [ Slots -> Refreshing ] ]
    <3>1. PICK i \in Slots : Moves("admin", i, [ doing |-> "asks" ])
      BY <1>9 DEF Saves
    <3>2. [ doing |-> "asks" ] \in Refreshing
      BY DEF Refreshing
    <3> QED
      BY <3>1, <3>2, MovesTypes, SettingsAssumption
  <2>4. tables' \subseteq Table
    BY <1>9, <2>2 DEF Saves, TypeOK
  <2> QED
    BY <1>9, <2>1, <2>2, <2>3, <2>4 DEF Saves, TypeOK, Save
<1>10. ASSUME NEW s \in Savers, NEW asked \in Asks, SaveOpens(s, asked)
       PROVE  TypeOK'
  <2> DEFINE writes == [ k \in Changes(asked) |-> asked[k] ]
  <2>1. asked \in Wish
    BY AsksAreWishes
  <2>2. writes \in Wish
    <3>1. PICK some \in SUBSET Keys : asked \in [ some -> Values \union {0} ]
      BY <2>1 DEF Wish
    <3>2. Changes(asked) \subseteq some
      BY <3>1 DEF Changes
    <3>3. writes \in [ Changes(asked) -> Values \union {0} ]
      BY <3>1, <3>2
    <3>4. Changes(asked) \in SUBSET Keys
      BY <3>2
    <3> HIDE DEF writes
    <3> QED
      BY <3>3, <3>4 DEF Wish
  <2>3. [ asked |-> asked, writes |-> writes ] \in Save
    BY <2>1, <2>2 DEF Save
  <2> HIDE DEF writes
  <2>4. save' = [save EXCEPT ![s] = [ asked |-> asked, writes |-> writes ]]
    BY <1>10 DEF SaveOpens, writes
  <2>5. save' \in [ Savers -> Save ]
    BY <1>s, <2>3, <2>4
  <2>6. left' \in [ saves : Nat, mishaps : Nat ]
    BY <1>10 DEF SaveOpens, TypeOK
  <2> QED
    BY <1>10, <2>5, <2>6 DEF SaveOpens, TypeOK, Save
<1>11. CASE UNCHANGED vars
  BY <1>11 DEF vars, TypeOK
<1> QED
  BY <1>1, <1>2, <1>3, <1>4, <1>5, <1>6, <1>7, <1>8, <1>9, <1>10, <1>11 DEF Next

----------------------------------------------------------------------------
(* What is kept.                                                            *)

\* A step that applies nothing, and starts nobody anew, keeps what was read
\* together with what is kept of it.
LEMMA TogetherStays ==
  ASSUME Together, tables \subseteq tables', row' \in tables',
         \A b \in Apps : process'[b].copy = process[b].copy,
         \A b \in Apps, j \in Slots : refresh'[b][j].doing = "answered" =>
           \/ refresh'[b][j] = refresh[b][j]
           \/ refresh'[b][j].rows \in tables'
  PROVE  Together'
<1>1. \A b \in Apps, j \in Slots : refresh'[b][j].doing = "answered" => refresh'[b][j].rows \in tables'
  BY DEF Together
<1>2. \A b \in Apps : \E rows \in tables' : process'[b].copy = Parsed(b, rows)
  BY DEF Together
<1>3. Nothing \in tables'
  BY DEF Together
<1> QED
  BY <1>1, <1>2, <1>3 DEF Together

\* What one refresh moves to, the others being left alone.
LEMMA MovesOne ==
  ASSUME TypeOK, NEW a \in Apps, NEW i \in Slots, NEW to, Moves(a, i, to)
  PROVE  \A b \in Apps, j \in Slots :
           refresh'[b][j] = IF b = a /\ j = i THEN to ELSE refresh[b][j]
  BY DEF TypeOK, Moves

\* What ends when a refresh is over.
LEMMA OverOne ==
  ASSUME TypeOK, NEW a \in Apps, NEW i \in Slots, NEW now \in Process, Over(a, i, now)
  PROVE  /\ \A b \in Apps, j \in Slots :
              refresh'[b][j].doing = "answered" => refresh'[b][j] = refresh[b][j]
         /\ \A b \in Apps :
              /\ process'[b].copy = IF b = a THEN now.copy ELSE process[b].copy
              /\ process'[b].env = IF b = a THEN now.env ELSE process[b].env
              /\ b # a => process'[b].up = process[b].up
<1> DEFINE up == [now EXCEPT !.up = TRUE]
<1>1. \A b \in Apps : process'[b] = IF b = a THEN up ELSE process[b]
  BY DEF Over, TypeOK
<1>2. up.copy = now.copy /\ up.env = now.env
  BY DEF Process
<1>3. Moves(a, i, Idle)
  BY DEF Over
<1>4. \A b \in Apps, j \in Slots :
        refresh'[b][j] = IF b = a /\ j = i THEN Idle ELSE refresh[b][j]
  BY <1>3, MovesOne
<1>5. Idle.doing # "answered"
  BY DEF Idle
<1> HIDE DEF up
<1>6. \A b \in Apps, j \in Slots :
        refresh'[b][j].doing = "answered" => refresh'[b][j] = refresh[b][j]
  BY <1>4, <1>5
<1>7. \A b \in Apps :
        /\ process'[b].copy = IF b = a THEN now.copy ELSE process[b].copy
        /\ process'[b].env = IF b = a THEN now.env ELSE process[b].env
        /\ b # a => process'[b].up = process[b].up
  BY <1>1, <1>2
<1> QED
  BY <1>6, <1>7

LEMMA InitKept == Init => Kept
<1> SUFFICES ASSUME Init PROVE Kept
  OBVIOUS
<1>1. TypeOK
  BY InitTypes
<1>2. Together
  <2>1. \A a \in Apps : process[a].copy = Parsed(a, Nothing)
    BY NothingIsParsed DEF Init, Fresh
  <2>2. \A a \in Apps, i \in Slots : refresh[a][i].doing # "answered"
    BY DEF Init, Idle
  <2> QED
    BY <2>1, <2>2 DEF Init, Together
<1>3. Followed
  BY FreshFollows DEF Init, Followed, Fresh
<1> QED
  BY <1>1, <1>2, <1>3 DEF Kept

\* A step that lets every process keep its copy and its environment, and the
\* worker its configuration or one built from that environment.
LEMMA FollowedStays ==
  ASSUME Followed,
         \A b \in Apps : process'[b].copy = process[b].copy /\ process'[b].env = process[b].env,
         \A b \in Apps : (b = "worker" /\ process'[b].up) =>
           \/ process[b].up /\ config' = config
           \/ config' = Built(process[b].env)
  PROVE  Followed'
  BY DEF Followed

\* The end of a refresh that changed neither the copy nor the environment.
LEMMA OverKeeps ==
  ASSUME TypeOK, Together, Followed, NEW a \in Apps, NEW i \in Slots, NEW now \in Process,
         Over(a, i, now), Builds(a, process[a]), UNCHANGED << row, tables >>,
         now.copy = process[a].copy, now.env = process[a].env
  PROVE  Together' /\ Followed'
<1>o. \A b \in Apps :
        /\ process'[b].copy = IF b = a THEN now.copy ELSE process[b].copy
        /\ process'[b].env = IF b = a THEN now.env ELSE process[b].env
        /\ b # a => process'[b].up = process[b].up
  BY OverOne
<1>1. \A b \in Apps : process'[b].copy = process[b].copy /\ process'[b].env = process[b].env
  BY <1>o
<1>2. \A b \in Apps, j \in Slots : refresh'[b][j].doing = "answered" => refresh'[b][j] = refresh[b][j]
  BY OverOne
<1>3. Together'
  BY <1>1, <1>2, TogetherStays DEF Together
<1>4. \A b \in Apps : (b = "worker" /\ process'[b].up) =>
        (process[b].up /\ config' = config) \/ config' = Built(process[b].env)
  BY <1>o DEF Builds, Followed
<1> QED
  BY <1>1, <1>3, <1>4, FollowedStays

\* Applying rows that were saved together.
LEMMA AppliesKeeps ==
  ASSUME TypeOK, Together, Followed, NEW a \in Apps, NEW i \in Slots, Applies(a, i)
  PROVE  Together' /\ Followed'
<1> DEFINE rows == refresh[a][i].rows
           copy == Parsed(a, rows)
           now == Renewed(a, copy)
           to == [ doing |-> "reports", what |-> Snapshot(a, copy) ]
           reports == Reports(a) /\ Snapshot(a, copy) # process[a].last
<1>1. rows \in Table /\ rows \in tables
  BY AnsweredTypes DEF Applies, Together
<1>2. copy \in Table
  BY <1>1, ParsedIsATable
<1>3. /\ now \in Process /\ now.copy = copy /\ now.env = Applied(a, copy)
      /\ now.up = process[a].up
  BY <1>2, RenewedTypes
<1>4. /\ \/ Moves(a, i, to) /\ process' = [process EXCEPT ![a] = now] /\ reports
         \/ Over(a, i, now) /\ ~reports
      /\ config' = IF a = "worker" /\ (IF now.up THEN copy # process[a].copy ELSE ~reports)
                   THEN Built(now.env) ELSE config
      /\ UNCHANGED << row, tables >>
  BY DEF Applies
<1>5. \A b \in Apps, j \in Slots : refresh'[b][j].doing = "answered" => refresh'[b][j] = refresh[b][j]
  <2>1. to.doing # "answered" /\ Idle.doing # "answered"
    BY DEF Idle
  <2>2. Moves(a, i, to) =>
          \A b \in Apps, j \in Slots : refresh'[b][j] = IF b = a /\ j = i THEN to ELSE refresh[b][j]
    BY MovesOne
  <2>3. Over(a, i, now) =>
          \A b \in Apps, j \in Slots : refresh'[b][j].doing = "answered" => refresh'[b][j] = refresh[b][j]
    BY <1>3, OverOne
  <2> HIDE DEF to, now, reports
  <2> QED
    BY <1>4, <2>1, <2>2, <2>3
<1>6. \A b \in Apps :
        /\ process'[b].copy = IF b = a THEN copy ELSE process[b].copy
        /\ process'[b].env = IF b = a THEN Applied(a, copy) ELSE process[b].env
        /\ b # a => process'[b].up = process[b].up
        /\ (b = a /\ process'[b].up) => process[b].up \/ ~reports
  <2> HIDE DEF to, now, reports, copy
  <2>1. CASE process' = [process EXCEPT ![a] = now]
    BY <1>3, <2>1 DEF TypeOK
  <2>2. CASE Over(a, i, now) /\ ~reports
    <3>1. \A b \in Apps :
            /\ process'[b].copy = IF b = a THEN now.copy ELSE process[b].copy
            /\ process'[b].env = IF b = a THEN now.env ELSE process[b].env
            /\ b # a => process'[b].up = process[b].up
      BY <1>3, <2>2, OverOne
    <3> QED
      BY <1>3, <2>2, <3>1
  <2> QED
    BY <1>4, <2>1, <2>2
<1> HIDE DEF to, now, reports
<1>7. Together'
  <2>1. \A b \in Apps, j \in Slots :
          refresh'[b][j].doing = "answered" => refresh'[b][j].rows \in tables'
    BY <1>4, <1>5 DEF Together
  <2>2. \A b \in Apps : \E r \in tables' : process'[b].copy = Parsed(b, r)
    <3>1. \A b \in Apps : b # a => \E r \in tables' : process'[b].copy = Parsed(b, r)
      BY <1>4, <1>6 DEF Together
    <3>2. process'[a].copy = Parsed(a, rows) /\ rows \in tables'
      BY <1>1, <1>4, <1>6
    <3> QED
      BY <3>1, <3>2
  <2> QED
    BY <1>4, <2>1, <2>2 DEF Together
<1>8. Followed'
  <2> HIDE DEF copy
  <2>1. \A b \in Apps : process'[b].env = Applied(b, process'[b].copy)
    BY <1>6 DEF Followed
  <2>2. ASSUME NEW b \in Apps, b = "worker", process'[b].up
        PROVE  config' = Built(process'[b].env)
    <3>1. CASE b # a
      BY <1>4, <1>6, <2>2, <3>1 DEF Followed
    <3>2. CASE b = a /\ config' = Built(now.env)
      BY <1>3, <1>6, <3>2
    <3>3. CASE b = a /\ config' = config /\ now.up /\ copy = process[a].copy
      BY <1>3, <1>6, <2>2, <3>3, ZenonT(60) DEF Followed
    <3> QED
      BY <1>3, <1>4, <1>6, <2>2, <3>1, <3>2, <3>3
  <2> QED
    BY <2>1, <2>2 DEF Followed
<1> QED
  BY <1>7, <1>8

LEMMA NextKept == Kept /\ [Next]_vars => Together' /\ Followed'
<1> SUFFICES ASSUME TypeOK, Together, Followed, [Next]_vars
             PROVE  Together' /\ Followed'
  BY DEF Kept
<1>p. \A a \in Apps : process[a] \in Process
  BY DEF TypeOK, Process
<1>1. ASSUME NEW a \in Apps, NEW i \in Slots, Refreshes(a, i)
      PROVE  Together' /\ Followed'
  <2>1. Together'
    <3>1. \A b \in Apps, j \in Slots : refresh'[b][j].doing = "answered" => refresh'[b][j] = refresh[b][j]
      BY <1>1, MovesOne DEF Refreshes
    <3> QED
      BY <1>1, <3>1, TogetherStays DEF Refreshes, Together
  <2>2. Followed'
    BY <1>1 DEF Refreshes, Followed
  <2> QED
    BY <2>1, <2>2
<1>2. ASSUME NEW a \in Apps, NEW i \in Slots, Reads(a, i)
      PROVE  Together' /\ Followed'
  <2>1. Together'
    <3>1. \A b \in Apps, j \in Slots :
            refresh'[b][j].doing = "answered" => refresh'[b][j] = refresh[b][j] \/ refresh'[b][j].rows = row
      BY <1>2, MovesOne DEF Reads
    <3> QED
      BY <1>2, <3>1, TogetherStays DEF Reads, Together
  <2>2. Followed'
    BY <1>2 DEF Reads, Followed
  <2> QED
    BY <2>1, <2>2
<1>3. ASSUME NEW a \in Apps, NEW i \in Slots, Applies(a, i)
      PROVE  Together' /\ Followed'
  BY <1>3, AppliesKeeps
<1>4. ASSUME NEW a \in Apps, NEW i \in Slots, Records(a, i)
      PROVE  Together' /\ Followed'
  <2>1. Together'
    <3>1. [refresh[a][i] EXCEPT !.doing = "reported"].doing = "reported"
      BY <1>4, AnsweredTypes DEF Records
    <3>2. \A b \in Apps, j \in Slots :
            refresh'[b][j] = IF b = a /\ j = i THEN [refresh[a][i] EXCEPT !.doing = "reported"]
                             ELSE refresh[b][j]
      BY <1>4, MovesOne DEF Records
    <3>3. \A b \in Apps, j \in Slots : refresh'[b][j].doing = "answered" => refresh'[b][j] = refresh[b][j]
      BY <3>1, <3>2
    <3> QED
      BY <1>4, <3>3, TogetherStays DEF Records, Together
  <2>2. Followed'
    BY <1>4 DEF Records, Followed
  <2> QED
    BY <2>1, <2>2
<1>5. ASSUME NEW a \in Apps, NEW i \in Slots, Recorded(a, i)
      PROVE  Together' /\ Followed'
  <2> DEFINE now == [process[a] EXCEPT !.last = refresh[a][i].what]
  <2>1. refresh[a][i].what \in Told
    BY <1>5, AnsweredTypes DEF Recorded
  <2>2. now \in Process /\ now.copy = process[a].copy /\ now.env = process[a].env
    BY <1>p, <2>1 DEF Process
  <2>3. Over(a, i, now) /\ Builds(a, process[a]) /\ UNCHANGED << row, tables >>
    BY <1>5 DEF Recorded
  <2> HIDE DEF now
  <2> QED
    BY <2>2, <2>3, OverKeeps
<1>6. ASSUME NEW a \in Apps, NEW i \in Slots, Fails(a, i)
      PROVE  Together' /\ Followed'
  BY <1>6, <1>p, OverKeeps DEF Fails
<1>7. ASSUME NEW a \in Apps, Crashes(a)
      PROVE  Together' /\ Followed'
  <2>1. \A b \in Apps : process'[b] = IF b = a THEN Fresh(a) ELSE process[b]
    BY <1>7 DEF Crashes, TypeOK
  <2>2. \A b \in Apps, j \in Slots : refresh'[b][j].doing = "answered" => refresh'[b][j] = refresh[b][j]
    BY <1>7 DEF Crashes, TypeOK, Idle
  <2>3. Fresh(a).copy = Nothing /\ Fresh(a).env = Base[a] /\ ~Fresh(a).up
    BY DEF Fresh
  <2>4. \A b \in Apps : \E rows \in tables : process'[b].copy = Parsed(b, rows)
    BY <2>1, <2>3, NothingIsParsed DEF Together
  <2>5. Together'
    BY <1>7, <2>2, <2>4 DEF Crashes, Together
  <2>6. Followed'
    BY <1>7, <2>1, <2>3, FreshFollows DEF Crashes, Followed
  <2> QED
    BY <2>5, <2>6
<1>8. ASSUME NEW s \in Savers, Answers(s)
      PROVE  Together' /\ Followed'
  BY <1>8 DEF Answers, Together, Followed
<1>9. ASSUME NEW s \in Savers, Saves(s)
      PROVE  Together' /\ Followed'
  <2>1. PICK i \in Slots : Moves("admin", i, [ doing |-> "asks" ])
    BY <1>9 DEF Saves
  <2>2. \A b \in Apps, j \in Slots : refresh'[b][j].doing = "answered" => refresh'[b][j] = refresh[b][j]
    BY <2>1, MovesOne, SettingsAssumption
  <2>3. tables \subseteq tables' /\ row' \in tables' /\ UNCHANGED << process, config >>
    BY <1>9 DEF Saves
  <2> QED
    BY <2>2, <2>3, TogetherStays DEF Followed
<1>10. ASSUME NEW s \in Savers, NEW asked \in Asks, SaveOpens(s, asked)
       PROVE  Together' /\ Followed'
  BY <1>10 DEF SaveOpens, Together, Followed
<1>11. CASE UNCHANGED vars
  BY <1>11 DEF vars, Together, Followed
<1> QED
  BY <1>1, <1>2, <1>3, <1>4, <1>5, <1>6, <1>7, <1>8, <1>9, <1>10, <1>11 DEF Next

----------------------------------------------------------------------------
(* The theorems.                                                            *)

\* Every variable keeps its type, and what a process runs with is kept
\* together, whatever fails, overlaps or is started again.
THEOREM AlwaysKept == FairSpec => []Kept
<1>1. Kept /\ [Next]_vars => Kept'
  BY NextTypes, NextKept DEF Kept
<1> QED
  BY <1>1, InitKept, PTL DEF FairSpec

\* Every variable keeps its type.
THEOREM SettingsTypeCorrect == FairSpec => []TypeOK
<1>1. Kept => TypeOK
  BY DEF Kept
<1> QED
  BY <1>1, AlwaysKept, PTL

\* A process runs with what one save left, and reads it alike from its
\* environment, from the setting and from the worker's configuration.
THEOREM OneSaveIsUsed == FairSpec => []UsesOneSave
<1>1. Kept => UsesOneSave
  <2> SUFFICES ASSUME Kept, NEW a \in Apps
               PROVE  /\ \E rows \in tables : process[a].copy = Parsed(a, rows)
                      /\ \A k \in HasEnv : a \in UsedBy[k] =>
                           /\ Built(process[a].env)[k] = Effective(a, process[a].copy)[k]
                           /\ (a = "worker" /\ process[a].up) =>
                                config[k] = Effective(a, process[a].copy)[k]
    BY DEF UsesOneSave
  <2>1. process[a].copy \in Table
    BY DEF Kept, TypeOK
  <2>2. \A k \in HasEnv : a \in UsedBy[k] =>
          Built(process[a].env)[k] = Effective(a, process[a].copy)[k]
    BY <2>1, EnvironmentAgrees DEF Kept, Followed
  <2> QED
    BY <2>2 DEF Kept, Together, Followed
<1> QED
  BY <1>1, AlwaysKept, PTL

\* A value that a save leaves out is in effect, or it is one the setting was
\* reset from.
THEOREM WhatIsLeftOutIsSo == FairSpec => NothingIsLeftOut
<1> DEFINE Kind(s, k) ==
      \/ save'[s].asked[k] = First(row[k], Effective("admin", Nothing)[k])
      \/ row[k] = 0 /\ \E rows \in tables : save'[s].asked[k] = rows[k]
    LeftOut == \A s \in Savers : (save[s] = NoSave /\ save'[s] # NoSave) =>
                 \A k \in DOMAIN save'[s].asked \ DOMAIN save'[s].writes : Kind(s, k)
<1>1. Kept /\ [Next]_vars => [LeftOut]_vars
  <2> SUFFICES ASSUME Kept, Next,
                      NEW s \in Savers, save[s] = NoSave, save'[s] # NoSave,
                      NEW k \in DOMAIN save'[s].asked \ DOMAIN save'[s].writes
               PROVE  Kind(s, k)
    OBVIOUS
  <2>s. save \in [ Savers -> Save ]
    BY DEF Kept, TypeOK, Save
  <2>1. PICK asked \in Asks : SaveOpens(s, asked)
    <3>1. ~(\E a \in Apps : Crashes(a))
      BY DEF Crashes
    <3>2. ~(\E a \in Apps, i \in Slots :
               \/ Refreshes(a, i) \/ Reads(a, i) \/ Applies(a, i)
               \/ Records(a, i) \/ Recorded(a, i) \/ Fails(a, i))
      BY ZenonT(60) DEF Refreshes, Reads, Applies, Records, Recorded, Fails
    <3>3. ~(\E t \in Savers : Answers(t) \/ Saves(t))
      BY <2>s DEF Answers, Saves
    <3>4. ~(\E t \in Savers, asked \in Asks : SaveOpens(t, asked) /\ t # s)
      BY <2>s DEF SaveOpens
    <3> QED
      BY <3>1, <3>2, <3>3, <3>4 DEF Next
  <2>2. /\ save'[s].asked = asked
        /\ save'[s].writes = [ x \in Changes(asked) |-> asked[x] ]
    BY <2>1, <2>s DEF SaveOpens
  <2>3. k \in DOMAIN asked /\ k \notin Changes(asked)
    BY <2>2
  <2>4. asked[k] # 0 /\ asked[k] = Current(k)
    BY <2>3 DEF Changes
  <2>5. k \in Keys
    BY <2>3, AsksAreWishes DEF Wish
  <2>6. CASE row[k] # 0
    BY <2>2, <2>4, <2>6 DEF Current, First
  <2>7. CASE row[k] = 0 /\ ~(k \in HasEnv /\ process["admin"].env[k] # Base["admin"][k])
    BY <2>2, <2>4, <2>5, <2>7 DEF Current, Effective, Nothing, First
  <2>8. CASE row[k] = 0 /\ k \in HasEnv /\ process["admin"].env[k] # Base["admin"][k]
    <3> DEFINE p == process["admin"]
    <3>1. p.env = Applied("admin", p.copy)
      BY SettingsAssumption DEF Kept, Followed
    <3>2. p.env[k] = p.copy[k] /\ p.copy[k] # 0
      BY <2>5, <2>8, <3>1 DEF Applied
    <3>3. PICK rows \in tables : p.copy = Parsed("admin", rows)
      BY SettingsAssumption DEF Kept, Together
    <3>4. rows[k] = p.copy[k]
      BY <2>5, <3>2, <3>3 DEF Parsed
    <3>5. asked[k] = rows[k]
      BY <2>4, <2>8, <3>2, <3>4 DEF Current, First
    <3> QED
      BY <2>2, <2>8, <3>5
  <2> QED
    BY <2>6, <2>7, <2>8
<1> QED
  BY <1>1, AlwaysKept, PTL DEF FairSpec, NothingIsLeftOut
=============================================================================
