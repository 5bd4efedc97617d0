------------------------- MODULE CommandLineProofs -------------------------
(***************************************************************************)
(* What the migration keeps, for any pickles, any number of runs and any   *)
(* server on the same file.                                                *)
(*                                                                         *)
(* The invariant says how far a run is: what is not on its list any more   *)
(* is in the tables; and a run that began on a fit database still finds it *)
(* fit.                                                                    *)
(***************************************************************************)
EXTENDS CommandLine, RegistryDBProofs

Queued(i) ==
    \E s \in submissions :
        /\ s.id = i
        /\ s.service = pickle.suggestions[i].service
        /\ s.name = pickle.suggestions[i].name

ProgressInv ==
    migrating =>
        /\ \A c \in PickledServices \ todo.services : Registered(c)
        /\ \A r \in pickle.results \ todo.results : r[2] \in checks[r[1]]
        /\ \A i \in PickledIds \ todo.suggestions : Queued(i)

CountInv == completed <= begun /\ (migrating => completed < begun)

FitInv ==
    migrating /\ clean =>
        /\ NothingRefused
        /\ \A r \in pickle.results : r[1] \in PickledServices \/ Registered(r[1])
        /\ \A i \in todo.suggestions :
              /\ i \notin SubmissionIds
              /\ \/ pickle.suggestions[i].service \in PickledServices
                 \/ Registered(pickle.suggestions[i].service)

CommandLineInv ==
    /\ CommandLineTypeOK
    /\ ProgressInv
    /\ MigrationMovesEverything
    /\ CountInv
    /\ FitInv
    /\ CleanRunsSucceed
-----------------------------------------------------------------------------
(* What no step takes away *)

\* Services stay registered, results stay in the history, and suggestions stay
\* what they are, except that pending ones are decided.
Grows ==
    /\ \A c \in Callsigns : Registered(c) => Registered(c)'
    /\ \A c \in Callsigns : checks[c] \subseteq checks'[c]
    /\ \A s \in submissions : \E t \in submissions' :
          /\ t.id = s.id /\ t.service = s.service /\ t.name = s.name
          /\ s.state # "pending" => t.state # "pending"

LEMMA UpsertGrows ==
    ASSUME DBTypeOK, NEW c \in Callsigns, NEW row \in ServiceRow, NEW actor,
           UpsertService(c, row, actor)
    PROVE  Grows /\ SubmissionIds' = SubmissionIds /\ Registered(c)'
<1>1. row.status # "absent"
  BY DEF ServiceRow, Statuses
<1> QED BY <1>1 DEF DBTypeOK, UpsertService, Grows, Registered, SubmissionIds

LEMMA StatusGrows ==
    ASSUME DBTypeOK, NEW c \in Callsigns, NEW new \in Statuses, NEW actor,
           UpdateServiceStatus(c, new, actor)
    PROVE  Grows /\ SubmissionIds' = SubmissionIds
BY DEF DBTypeOK, UpdateServiceStatus, Grows, Registered, SubmissionIds,
       Statuses

LEMMA ResultGrows ==
    ASSUME DBTypeOK, NEW c \in Callsigns, NEW row, AddHealthCheck(c, row)
    PROVE  Grows /\ SubmissionIds' = SubmissionIds /\ row \in checks'[c]
BY DEF DBTypeOK, AddHealthCheck, serviceVars, Grows, Registered, SubmissionIds

LEMMA SubmitGrows ==
    ASSUME NEW i, NEW c, NEW n, SubmitCommandRow(i, c, n)
    PROVE  /\ Grows /\ SubmissionIds' = SubmissionIds \cup {i}
           /\ \E s \in submissions' : s.id = i /\ s.service = c /\ s.name = n
<1> DEFINE new == [id |-> i, service |-> c, name |-> n, state |-> "pending"]
<1>1. submissions' = submissions \cup {new}
  BY DEF SubmitCommandRow
<1>2. new.id = i /\ new.service = c /\ new.name = n
  OBVIOUS
<1> HIDE DEF new
<1> QED BY <1>1, <1>2
        DEF SubmitCommandRow, serviceVars, Grows, Registered, SubmissionIds

LEMMA DecideGrows ==
    ASSUME DBTypeOK, NEW s \in submissions,
           NEW state \in {"approved", "rejected"}, Decide(s, state),
           UNCHANGED <<serviceVars, checks>>
    PROVE  Grows /\ SubmissionIds' = SubmissionIds
<1> DEFINE new == [s EXCEPT !.state = state]
<1>1. s \in Submission
  BY DEF DBTypeOK
<1>2. /\ new.id = s.id /\ new.service = s.service /\ new.name = s.name
      /\ new.state # "pending"
  BY <1>1 DEF Submission
<1>3. submissions' = (submissions \ {s}) \cup {new}
  BY DEF Decide
<1> HIDE DEF new
<1> QED BY <1>2, <1>3 DEF serviceVars, Grows, Registered, SubmissionIds

\* What Grows means for the properties about the pickles.
LEMMA GrownQueue ==
    ASSUME Grows, pickle' = pickle, NEW i, Queued(i)
    PROVE  Queued(i)'
BY DEF Grows, Queued
-----------------------------------------------------------------------------
(* Types *)

\* The pickles hold what CommandLineAssumption says.
LEMMA PickleType ==
    ASSUME CommandLineTypeOK
    PROVE  /\ PickledServices \subseteq Callsigns
           /\ \A c \in PickledServices : pickle.services[c] \in ServiceRow
           /\ \A r \in pickle.results : r[1] \in Callsigns /\ r[2] \in HealthRow
           /\ PickledIds \subseteq Tickets \ ServerIds
           /\ \A i \in PickledIds :
                 /\ pickle.suggestions[i].service \in Callsigns
                 /\ pickle.suggestions[i].name \in CommandNames
           /\ pickle.refused.services \subseteq PickledServices
           /\ pickle.refused.results \subseteq pickle.results
           /\ pickle.refused.suggestions \subseteq PickledIds
<1>1. pickle \in Pickles
  BY DEF CommandLineTypeOK
<1>2. /\ DOMAIN pickle.services \subseteq Callsigns
      /\ pickle.services \in [DOMAIN pickle.services -> ServiceRow]
      /\ pickle.results \subseteq Callsigns \X HealthRow
      /\ DOMAIN pickle.suggestions \subseteq Tickets \ ServerIds
      /\ pickle.suggestions \in [DOMAIN pickle.suggestions ->
                                    [service : Callsigns, name : CommandNames]]
  BY <1>1, CommandLineAssumption
<1>5. pickle.refused \in [services : SUBSET DOMAIN pickle.services,
                         results : SUBSET pickle.results,
                         suggestions : SUBSET DOMAIN pickle.suggestions]
  BY <1>1, CommandLineAssumption
<1>3. \A c \in PickledServices : pickle.services[c] \in ServiceRow
  BY <1>2 DEF PickledServices
<1>4. \A i \in PickledIds :
          pickle.suggestions[i] \in [service : Callsigns, name : CommandNames]
  BY <1>2 DEF PickledIds
<1> QED BY <1>2, <1>3, <1>4, <1>5 DEF PickledServices, PickledIds

\* What Grows means for the pickled services and results.
LEMMA GrownPickled ==
    ASSUME CommandLineTypeOK, Grows
    PROVE  /\ \A c \in PickledServices : Registered(c) => Registered(c)'
           /\ \A r \in pickle.results :
                 /\ Registered(r[1]) => Registered(r[1])'
                 /\ r[2] \in checks[r[1]] => r[2] \in checks'[r[1]]
BY PickleType DEF Grows
-----------------------------------------------------------------------------
(* The invariant *)

\* A step that only adds to the database, whoever takes it.
LEMMA GrowthKeeps ==
    ASSUME CommandLineInv, Grows, DBTypeOK', restoring' \subseteq Callsigns,
           SubmissionIds' \subseteq SubmissionIds \cup ServerIds,
           UNCHANGED <<pickle, migrating, todo, begun, completed, copies,
                       clean, outcome>>
    PROVE  CommandLineInv'
<1>1. PickledServices' = PickledServices /\ PickledIds' = PickledIds
  BY DEF PickledServices, PickledIds
<1>2. CommandLineTypeOK'
  BY <1>1 DEF CommandLineInv, CommandLineTypeOK
<1>3. /\ \A c \in PickledServices : Registered(c) => Registered(c)'
      /\ \A r \in pickle.results :
            r[2] \in checks[r[1]] => r[2] \in checks'[r[1]]
  BY GrownPickled DEF CommandLineInv
<1>4. \A i : Queued(i) => Queued(i)'
  BY GrownQueue
<1>5. ProgressInv'
  BY <1>1, <1>3, <1>4 DEF CommandLineInv, ProgressInv
<1>6. MigrationMovesEverything'
  BY <1>1, <1>3, <1>4
     DEF CommandLineInv, MigrationMovesEverything, Queued
<1>7. CountInv' /\ CleanRunsSucceed'
  BY <1>1 DEF CommandLineInv, CountInv, CleanRunsSucceed
<1>8. FitInv'
  <2> SUFFICES ASSUME migrating, clean
               PROVE  FitInv'
    BY DEF FitInv
  <2>1. \A r \in pickle.results :
            r[1] \in PickledServices \/ Registered(r[1])'
    BY PickleType DEF CommandLineInv, FitInv, Grows
  <2>2. ASSUME NEW i \in todo.suggestions
        PROVE  /\ i \notin SubmissionIds'
               /\ \/ pickle.suggestions[i].service \in PickledServices
                  \/ Registered(pickle.suggestions[i].service)'
    <3>1. i \in PickledIds
      BY <2>2 DEF CommandLineInv, CommandLineTypeOK
    <3> QED BY <2>2, <3>1, PickleType DEF CommandLineInv, FitInv, Grows
  <2>3. NothingRefused'
    BY DEF CommandLineInv, FitInv, NothingRefused
  <2> QED BY <1>1, <2>1, <2>2, <2>3 DEF FitInv
<1> QED BY <1>2, <1>5, <1>6, <1>7, <1>8 DEF CommandLineInv

LEMMA InitKeeps ==
    ASSUME CommandLineInit
    PROVE  CommandLineInv
<1>1. DBTypeOK
  BY DBAssumption
     DEF CommandLineInit, DBInit, DBTypeOK, Statuses, AuditActions
<1>2. copies \in [pickle.results -> Nat]
  BY DEF CommandLineInit
<1>3. todo \in [services : SUBSET PickledServices,
                results : SUBSET pickle.results,
                suggestions : SUBSET PickledIds]
  BY DEF CommandLineInit
<1>4. MaxRuns \in Nat
  BY CommandLineAssumption
<1>5. CommandLineTypeOK
  <2>1. 0 \in 0..MaxRuns
    BY <1>4
  <2> QED BY <1>1, <1>2, <1>3, <2>1 DEF CommandLineInit, CommandLineTypeOK
<1> QED BY <1>4, <1>5
        DEF CommandLineInit, CommandLineInv, ProgressInv, CountInv,
            FitInv, MigrationMovesEverything, CleanRunsSucceed

LEMMA BeginKeeps ==
    ASSUME CommandLineInv, BeginMigration
    PROVE  CommandLineInv'
<1>1. PickledServices' = PickledServices /\ PickledIds' = PickledIds
      /\ SubmissionIds' = SubmissionIds
  BY DEF BeginMigration, PickledServices, PickledIds, SubmissionIds, dbVars
<1>2. todo' \in [services : SUBSET PickledServices,
                 results : SUBSET pickle.results,
                 suggestions : SUBSET PickledIds]
  BY DEF BeginMigration
<1>3. /\ todo'.services = PickledServices
      /\ todo'.results = pickle.results
      /\ todo'.suggestions = PickledIds
  BY DEF BeginMigration
<1>4. Fit \in BOOLEAN
  BY DEF Fit
<1>5. begun' \in 0..MaxRuns /\ begun' = begun + 1
  BY CommandLineAssumption
     DEF CommandLineInv, CommandLineTypeOK, BeginMigration
<1>6. CommandLineTypeOK'
  BY <1>1, <1>2, <1>4, <1>5
     DEF CommandLineInv, CommandLineTypeOK, BeginMigration, DBTypeOK, dbVars
<1>7. ProgressInv'
  BY <1>1, <1>3 DEF ProgressInv, BeginMigration
<1>8. MigrationMovesEverything'
  BY <1>1 DEF CommandLineInv, MigrationMovesEverything, BeginMigration,
              Registered, dbVars
<1>9. CountInv'
  BY <1>3, <1>5
     DEF CommandLineInv, CommandLineTypeOK, CountInv, BeginMigration
<1>10. CleanRunsSucceed'
  BY <1>1, <1>3
     DEF CommandLineInv, CleanRunsSucceed, BeginMigration
<1>11. FitInv'
  BY <1>1, <1>3 DEF FitInv, Fit, NothingRefused, BeginMigration, Registered, dbVars
<1> QED BY <1>6, <1>7, <1>8, <1>9, <1>10, <1>11 DEF CommandLineInv

LEMMA ServiceKeeps ==
    ASSUME CommandLineInv, NEW c \in PickledServices, MigrateService(c)
    PROVE  CommandLineInv' /\ Grows
<1> DEFINE row == pickle.services[c]
<1>1. c \in Callsigns /\ row \in ServiceRow
  BY PickleType DEF CommandLineInv
<1>2. UpsertService(c, row, "system")
  BY DEF MigrateService
<1>3. /\ Grows /\ SubmissionIds' = SubmissionIds /\ Registered(c)'
      /\ DBTypeOK'
  BY <1>1, <1>2, UpsertGrows, UpsertType
     DEF CommandLineInv, CommandLineTypeOK, Actors
<1>4. PickledServices' = PickledServices /\ PickledIds' = PickledIds
  BY DEF MigrateService, PickledServices, PickledIds
<1>5. /\ todo' \in [services : SUBSET PickledServices,
                    results : SUBSET pickle.results,
                    suggestions : SUBSET PickledIds]
      /\ todo'.services = todo.services \ {c}
      /\ todo'.results = todo.results
      /\ todo'.suggestions = todo.suggestions
  BY DEF CommandLineInv, CommandLineTypeOK, MigrateService
<1>6. CommandLineTypeOK'
  BY <1>3, <1>4, <1>5
     DEF CommandLineInv, CommandLineTypeOK, MigrateService
<1>7. /\ \A d \in PickledServices : Registered(d) => Registered(d)'
      /\ \A q \in pickle.results :
            q[2] \in checks[q[1]] => q[2] \in checks'[q[1]]
  BY <1>3, GrownPickled DEF CommandLineInv
<1>8. \A i : Queued(i) => Queued(i)'
  BY <1>3, GrownQueue DEF MigrateService
<1>9. ProgressInv'
  BY <1>3, <1>4, <1>5, <1>7, <1>8
     DEF CommandLineInv, ProgressInv, MigrateService
<1>10. MigrationMovesEverything'
  BY <1>4, <1>7, <1>8
     DEF CommandLineInv, MigrationMovesEverything, Queued, MigrateService
<1>11. CountInv' /\ CleanRunsSucceed'
  BY <1>4, <1>5 DEF CommandLineInv, CountInv, CleanRunsSucceed,
                    MigrateService
<1>12. FitInv'
  <2>1. \A r \in pickle.results : r[1] \in Callsigns
    BY PickleType DEF CommandLineInv
  <2>2. \A i \in todo.suggestions : pickle.suggestions[i].service \in Callsigns
    BY PickleType DEF CommandLineInv, CommandLineTypeOK
  <2> QED BY <1>3, <1>4, <1>5, <2>1, <2>2
          DEF CommandLineInv, FitInv, NothingRefused, Grows, MigrateService
<1> QED BY <1>3, <1>6, <1>9, <1>10, <1>11, <1>12 DEF CommandLineInv

LEMMA ResultKeeps ==
    ASSUME CommandLineInv, NEW r \in pickle.results, MigrateResult(r)
    PROVE  CommandLineInv' /\ Grows
<1>1. r[1] \in Callsigns /\ r[2] \in HealthRow
  BY PickleType DEF CommandLineInv
<1>2. AddHealthCheck(r[1], r[2])
  BY DEF MigrateResult
<1>3. /\ Grows /\ SubmissionIds' = SubmissionIds /\ DBTypeOK'
      /\ r[2] \in checks'[r[1]]
  BY <1>1, <1>2, ResultGrows, HealthRowType
     DEF CommandLineInv, CommandLineTypeOK
<1>4. PickledServices' = PickledServices /\ PickledIds' = PickledIds
  BY DEF MigrateResult, PickledServices, PickledIds
<1>5. /\ todo' \in [services : SUBSET PickledServices,
                    results : SUBSET pickle.results,
                    suggestions : SUBSET PickledIds]
      /\ todo'.services = todo.services
      /\ todo'.results = todo.results \ {r}
      /\ todo'.suggestions = todo.suggestions
  BY DEF CommandLineInv, CommandLineTypeOK, MigrateResult
<1>6. /\ copies \in [pickle.results -> Nat]
      /\ copies' \in [pickle.results -> Nat]
      /\ copies'[r] = copies[r] + 1
      /\ \A q \in pickle.results \ {r} : copies'[q] = copies[q]
  BY DEF CommandLineInv, CommandLineTypeOK, MigrateResult
<1>7. CommandLineTypeOK'
  BY <1>3, <1>4, <1>5, <1>6
     DEF CommandLineInv, CommandLineTypeOK, MigrateResult
<1>8. /\ \A d \in PickledServices : Registered(d) => Registered(d)'
      /\ \A q \in pickle.results :
            q[2] \in checks[q[1]] => q[2] \in checks'[q[1]]
  BY <1>3, GrownPickled DEF CommandLineInv
<1>9. \A i : Queued(i) => Queued(i)'
  BY <1>3, GrownQueue DEF MigrateResult
<1>10. ProgressInv'
  BY <1>3, <1>4, <1>5, <1>8, <1>9
     DEF CommandLineInv, ProgressInv, MigrateResult
<1>11. MigrationMovesEverything'
  BY <1>4, <1>8, <1>9
     DEF CommandLineInv, MigrationMovesEverything, Queued, MigrateResult
<1>12. CountInv'
  BY DEF CommandLineInv, CountInv, MigrateResult
<1>13. CleanRunsSucceed'
  BY <1>4, <1>5
     DEF CommandLineInv, CleanRunsSucceed, MigrateResult
<1>14. FitInv'
  <2>1. \A q \in pickle.results : q[1] \in Callsigns
    BY PickleType DEF CommandLineInv
  <2>2. \A i \in todo.suggestions : pickle.suggestions[i].service \in Callsigns
    BY PickleType DEF CommandLineInv, CommandLineTypeOK
  <2> QED BY <1>3, <1>4, <1>5, <2>1, <2>2
          DEF CommandLineInv, FitInv, NothingRefused, Grows, MigrateResult
<1> QED BY <1>3, <1>7, <1>10, <1>11, <1>12, <1>13, <1>14 DEF CommandLineInv

\* The step that can only be taken before the first completion: after it the
\* suggestion is queued already.
LEMMA SuggestionKeeps ==
    ASSUME CommandLineInv, NEW i \in PickledIds, MigrateSuggestion(i)
    PROVE  CommandLineInv' /\ Grows
<1> DEFINE s == pickle.suggestions[i]
<1>1. s.service \in Callsigns /\ s.name \in CommandNames /\ i \in Tickets
  BY PickleType DEF CommandLineInv
<1>2. /\ SubmitCommandRow(i, s.service, s.name)
      /\ i \notin SubmissionIds /\ i \in todo.suggestions /\ migrating
  BY DEF MigrateSuggestion, Submit, Insertable, SuggestionsTurn, ResultsTurn
<1>3. Grows /\ SubmissionIds' = SubmissionIds \cup {i} /\ DBTypeOK'
  BY <1>1, <1>2, SubmitGrows, SubmitType DEF CommandLineInv, CommandLineTypeOK
<1>4. PickledServices' = PickledServices /\ PickledIds' = PickledIds
  BY DEF MigrateSuggestion, PickledServices, PickledIds
<1>5. Queued(i)'
  BY <1>2, SubmitGrows DEF Queued, MigrateSuggestion
<1>6. /\ todo' \in [services : SUBSET PickledServices,
                    results : SUBSET pickle.results,
                    suggestions : SUBSET PickledIds]
      /\ todo'.services = todo.services
      /\ todo'.results = todo.results
      /\ todo'.suggestions = todo.suggestions \ {i}
  BY DEF CommandLineInv, CommandLineTypeOK, MigrateSuggestion
<1>7. completed = 0
  <2>1. ~Queued(i)
    BY <1>2 DEF Queued, SubmissionIds
  <2>2. ~(completed > 0)
    BY <2>1 DEF CommandLineInv, MigrationMovesEverything, Queued
  <2> QED BY <2>2 DEF CommandLineInv, CommandLineTypeOK
<1>8. CommandLineTypeOK'
  BY <1>3, <1>4, <1>6
     DEF CommandLineInv, CommandLineTypeOK, MigrateSuggestion
<1>9. /\ \A d \in PickledServices : Registered(d) => Registered(d)'
      /\ \A q \in pickle.results :
            q[2] \in checks[q[1]] => q[2] \in checks'[q[1]]
  BY <1>3, GrownPickled DEF CommandLineInv
<1>10. \A j : Queued(j) => Queued(j)'
  BY <1>3, GrownQueue DEF MigrateSuggestion
<1>11. ProgressInv'
  BY <1>4, <1>5, <1>6, <1>9, <1>10
     DEF CommandLineInv, ProgressInv, MigrateSuggestion
<1>12. MigrationMovesEverything'
  BY <1>7 DEF MigrationMovesEverything, MigrateSuggestion
<1>13. CountInv' /\ CleanRunsSucceed'
  BY <1>6 DEF CommandLineInv, CountInv, CleanRunsSucceed, MigrateSuggestion
<1>14. FitInv'
  <2>1. \A q \in pickle.results : q[1] \in Callsigns
    BY PickleType DEF CommandLineInv
  <2>2. \A j \in todo.suggestions : pickle.suggestions[j].service \in Callsigns
    BY PickleType DEF CommandLineInv, CommandLineTypeOK
  <2> QED BY <1>3, <1>4, <1>6, <2>1, <2>2
          DEF CommandLineInv, FitInv, NothingRefused, Grows, MigrateSuggestion
<1> QED BY <1>3, <1>8, <1>11, <1>12, <1>13, <1>14 DEF CommandLineInv

\* How a run ends.
Stopped ==
    /\ migrating /\ ~migrating'
    /\ UNCHANGED <<dbVars, pickle, todo, begun, copies, clean, restoring>>

LEMMA StopKeeps ==
    ASSUME CommandLineInv, Stopped
    PROVE  /\ Grows /\ DBTypeOK' /\ ProgressInv' /\ FitInv'
           /\ PickledServices' = PickledServices /\ PickledIds' = PickledIds
<1>1. UNCHANGED dbVars /\ ~migrating' /\ pickle' = pickle
  BY DEF Stopped
<1>2. DBTypeOK'
  BY <1>1 DEF CommandLineInv, CommandLineTypeOK, DBTypeOK, dbVars
<1>3. Grows
  BY <1>1 DEF Grows, Registered, dbVars
<1> QED BY <1>1, <1>2, <1>3 DEF ProgressInv, FitInv, PickledServices, PickledIds

LEMMA AbortKeeps ==
    ASSUME CommandLineInv, Abort
    PROVE  CommandLineInv' /\ Grows
<1>1. Stopped
  BY DEF Abort, Stopped, ResultsTurn, SuggestionsTurn
<1>2. todo.services = {} => \A c \in PickledServices : Registered(c)
  BY <1>1 DEF CommandLineInv, ProgressInv, Stopped
<1>4. ~clean
  <2>1. ASSUME NEW r \in todo.results, ~Registered(r[1]), todo.services = {}
        PROVE  ~clean
    BY <1>1, <1>2, <2>1
       DEF CommandLineInv, CommandLineTypeOK, FitInv, Stopped
  <2>2. ASSUME NEW i \in todo.suggestions, ~Insertable(i), todo.services = {}
        PROVE  ~clean
    BY <1>1, <1>2, <2>2
       DEF CommandLineInv, FitInv, NothingRefused, Insertable, Stopped
  <2>3. ASSUME ~NothingRefused
        PROVE  ~clean
    BY <1>1, <2>3 DEF CommandLineInv, FitInv, Stopped
  <2> QED BY <2>1, <2>2, <2>3
          DEF Abort, NothingRefused, ResultsTurn, SuggestionsTurn
<1>5. CommandLineTypeOK'
  BY <1>1, StopKeeps DEF CommandLineInv, CommandLineTypeOK, Abort
<1>6. MigrationMovesEverything'
  BY <1>1 DEF CommandLineInv, MigrationMovesEverything, Abort, Registered,
              PickledServices, PickledIds, dbVars
<1>7. CountInv' /\ CleanRunsSucceed'
  BY <1>1, <1>4, StopKeeps
     DEF CommandLineInv, CountInv, CleanRunsSucceed, Abort
<1> QED BY <1>1, <1>5, <1>6, <1>7, StopKeeps DEF CommandLineInv

LEMMA InterruptKeeps ==
    ASSUME CommandLineInv, Interrupt
    PROVE  CommandLineInv' /\ Grows
<1>1. Stopped
  BY DEF Interrupt, Stopped
<1>2. CommandLineTypeOK'
  BY <1>1, StopKeeps DEF CommandLineInv, CommandLineTypeOK, Interrupt
<1>3. MigrationMovesEverything'
  BY <1>1 DEF CommandLineInv, MigrationMovesEverything, Interrupt, Registered,
              PickledServices, PickledIds, dbVars
<1>4. CountInv' /\ CleanRunsSucceed'
  BY <1>1, StopKeeps
     DEF CommandLineInv, CountInv, CleanRunsSucceed, Interrupt
<1> QED BY <1>1, <1>2, <1>3, <1>4, StopKeeps DEF CommandLineInv

LEMMA CompleteKeeps ==
    ASSUME CommandLineInv, CompleteMigration
    PROVE  CommandLineInv' /\ Grows
<1>1. Stopped
  BY DEF CompleteMigration, Stopped, ResultsTurn, SuggestionsTurn
<1>2. todo.services = {} /\ todo.results = {} /\ todo.suggestions = {}
  BY DEF CompleteMigration, ResultsTurn, SuggestionsTurn
<1>3. /\ begun \in 0..MaxRuns /\ completed \in 0..MaxRuns
      /\ completed < begun /\ completed' = completed + 1
  BY <1>1 DEF CommandLineInv, CommandLineTypeOK, CountInv, Stopped,
                  CompleteMigration
<1>4. CommandLineTypeOK'
  <2>1. completed' \in 0..MaxRuns
    <3>1. MaxRuns \in Nat
      BY CommandLineAssumption
    <3> QED BY <1>3, <3>1
  <2> QED BY <1>1, <2>1, StopKeeps
          DEF CommandLineInv, CommandLineTypeOK, CompleteMigration
<1>5. /\ \A c \in PickledServices : Registered(c)
      /\ \A r \in pickle.results : r[2] \in checks[r[1]]
      /\ \A i \in PickledIds : Queued(i)
  BY <1>1, <1>2 DEF CommandLineInv, ProgressInv, Stopped
<1>6. MigrationMovesEverything'
  BY <1>1, <1>5 DEF MigrationMovesEverything, Queued, Registered, Stopped,
                    PickledServices, PickledIds, dbVars
<1>7. CountInv'
  BY <1>1, <1>3 DEF CommandLineInv, CountInv, Stopped
<1>8. CleanRunsSucceed'
  BY DEF CleanRunsSucceed, CompleteMigration
<1> QED BY <1>1, <1>4, <1>6, <1>7, <1>8, StopKeeps DEF CommandLineInv

LEMMA OthersKeep ==
    ASSUME CommandLineInv,
           \/ \E c \in Callsigns : UndeleteReads(c) \/ UndeleteWrites(c)
           \/ ServerWrites
    PROVE  CommandLineInv' /\ Grows
<1> DEFINE Quiet == UNCHANGED <<pickle, migrating, todo, begun, completed,
                                copies, clean, outcome>>
<1> DEFINE Good == /\ Grows /\ DBTypeOK'
                   /\ SubmissionIds' \subseteq SubmissionIds \cup ServerIds
<1>1. DBTypeOK /\ restoring \subseteq Callsigns
  BY DEF CommandLineInv, CommandLineTypeOK
<1>2. ASSUME NEW c \in Callsigns, UndeleteReads(c)
      PROVE  Good /\ Quiet /\ restoring' \subseteq Callsigns
  BY <1>1, <1>2
     DEF UndeleteReads, Grows, DBTypeOK, Registered, SubmissionIds, dbVars
<1>3. ASSUME NEW c \in Callsigns, UndeleteWrites(c)
      PROVE  Good /\ Quiet /\ restoring' \subseteq Callsigns
  <2>1. UpdateServiceStatus(c, "active", "system")
    BY <1>3 DEF UndeleteWrites
  <2>2. Good
    BY <1>1, <2>1, StatusGrows, StatusType DEF Statuses, Actors
  <2> QED BY <1>1, <1>3, <2>2 DEF UndeleteWrites
<1>4. ASSUME ServerWrites
      PROVE  Good /\ Quiet /\ restoring' \subseteq Callsigns
  <2>1. ASSUME NEW c \in Callsigns, NEW row \in ServerRows,
               UpsertService(c, row, "api")
        PROVE  Good
    BY <1>1, <2>1, UpsertGrows, UpsertType, CommandLineAssumption DEF Actors
  <2>2. ASSUME NEW c \in Callsigns, NEW s \in ServerStatuses,
               UpdateServiceStatus(c, s, "admin")
        PROVE  Good
    BY <1>1, <2>2, StatusGrows, StatusType, CommandLineAssumption DEF Actors
  <2>3. ASSUME NEW i \in ServerIds \ SubmissionIds, NEW c \in Callsigns,
               NEW n \in CommandNames, SubmitCommandRow(i, c, n)
        PROVE  Good
    BY <1>1, <2>3, SubmitGrows, SubmitType, CommandLineAssumption
  <2>4. ASSUME NEW s \in submissions, ApproveSubmissionRow(s, "admin")
        PROVE  Good
    BY <1>1, <2>4, DecideGrows, ApproveType DEF ApproveSubmissionRow
  <2>5. ASSUME NEW s \in submissions, RejectSubmissionRow(s, "admin")
        PROVE  Good
    BY <1>1, <2>5, DecideGrows, RejectType DEF RejectSubmissionRow
  <2>6. Good
    BY <1>4, <2>1, <2>2, <2>3, <2>4, <2>5 DEF ServerWrites
  <2> QED BY <1>1, <1>4, <2>6 DEF ServerWrites, commandLineVars
<1>5. Good /\ Quiet /\ restoring' \subseteq Callsigns
  BY <1>2, <1>3, <1>4
<1> QED BY <1>5, GrowthKeeps

LEMMA StepKeeps ==
    ASSUME CommandLineInv, CommandLineNext
    PROVE  CommandLineInv' /\ Grows
<1>1. CASE BeginMigration
  BY <1>1, BeginKeeps DEF BeginMigration, Grows, Registered, dbVars
<1>2. CASE Migrate
  BY <1>2, ServiceKeeps, ResultKeeps, SuggestionKeeps, AbortKeeps,
     CompleteKeeps DEF Migrate
<1>3. CASE Interrupt
  BY <1>3, InterruptKeeps
<1>4. CASE \/ \E c \in Callsigns : UndeleteReads(c) \/ UndeleteWrites(c)
           \/ ServerWrites
  BY <1>4, OthersKeep
<1> QED BY <1>1, <1>2, <1>3, <1>4 DEF CommandLineNext

LEMMA StutterKeeps ==
    ASSUME CommandLineInv, UNCHANGED allVars
    PROVE  CommandLineInv' /\ Grows
<1>1. Grows /\ DBTypeOK' /\ SubmissionIds' = SubmissionIds
  BY DEF CommandLineInv, CommandLineTypeOK, Grows, DBTypeOK, Registered,
         SubmissionIds, allVars, dbVars
<1>2. restoring' \subseteq Callsigns
  BY DEF CommandLineInv, CommandLineTypeOK, allVars, commandLineVars
<1> QED BY <1>1, <1>2, GrowthKeeps DEF allVars, commandLineVars

THEOREM CommandLineInvariant == CommandLineSpec => []CommandLineInv
<1>1. CommandLineInv /\ [CommandLineNext]_allVars => CommandLineInv'
  BY StepKeeps, StutterKeeps
<1> QED BY InitKeeps, <1>1, PTL DEF CommandLineSpec
-----------------------------------------------------------------------------
(* The properties *)

\* Every variable of the command line and every table keeps its type.
THEOREM CommandLineTypeCorrect == CommandLineSpec => []CommandLineTypeOK
<1>1. CommandLineInv => CommandLineTypeOK
  BY DEF CommandLineInv
<1> QED BY <1>1, CommandLineInvariant, PTL

\* A migration that says it is complete has moved every service, every result
\* and every suggestion, whatever runs broke off before and whatever the server did.
THEOREM MigrationMovesEverythingHolds ==
    CommandLineSpec => []MigrationMovesEverything
<1>1. CommandLineInv => MigrationMovesEverything
  BY DEF CommandLineInv
<1> QED BY <1>1, CommandLineInvariant, PTL

\* A migration of pickles whose rows the tables accept, and that refer to
\* services pickled or registered and to no suggestion queued before it began,
\* does not fail by itself, whatever the server does while it runs.
THEOREM CleanRunsSucceedHolds == CommandLineSpec => []CleanRunsSucceed
<1>1. CommandLineInv => CleanRunsSucceed
  BY DEF CommandLineInv
<1> QED BY <1>1, CommandLineInvariant, PTL

\* No step makes a decided suggestion pending again.
THEOREM DecisionsSurviveHolds == CommandLineSpec => DecisionsSurvive
<1> DEFINE Survive ==
        \A s \in submissions :
            s.state # "pending" =>
                \E t \in submissions' : t.id = s.id /\ t.state # "pending"
<1>1. CommandLineInv /\ [CommandLineNext]_allVars => [Survive]_allVars
  BY StepKeeps DEF Grows
<1> QED BY <1>1, CommandLineInvariant, PTL DEF CommandLineSpec, DecisionsSurvive
=============================================================================
