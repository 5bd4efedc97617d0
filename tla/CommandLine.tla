---------------------------- MODULE CommandLine ----------------------------
(***************************************************************************)
(* The commands of cli.py that write to the registry's file: the migration *)
(* from the pickle files of older versions, and undelete.  Each is a       *)
(* process of its own, with its own connection: what it does comes between *)
(* any two calls of a server that has the file open, and every call is a   *)
(* transaction.                                                            *)
(*                                                                         *)
(* A missing pickle file is one that holds nothing.  Of the rows a file    *)
(* holds some may be refused, whatever is in the tables: a status outside  *)
(* the CHECK, NULL for a column that is NOT NULL (the command passes on a  *)
(* missing submitted_at), a value that no column takes.  A run that is     *)
(* interrupted is one that is killed, that finds the file locked for       *)
(* longer than busy_timeout, or that cannot read a pickle.                 *)
(***************************************************************************)
EXTENDS RegistryDB

CONSTANTS
    Pickles,         \* what the pickle files can hold
    ServerRows,      \* rows the server writes
    ServerStatuses,  \* statuses it writes
    ServerIds,       \* ids the server gives to suggestions
    MaxRuns          \* bound: how often the migration is started

ASSUME CommandLineAssumption ==
    /\ \A p \in Pickles :
          /\ DOMAIN p.services \subseteq Callsigns
          /\ p.services \in [DOMAIN p.services -> ServiceRow]
          /\ p.results \subseteq Callsigns \X HealthRow
          /\ DOMAIN p.suggestions \subseteq Tickets \ ServerIds
          /\ p.suggestions \in [DOMAIN p.suggestions ->
                                   [service : Callsigns, name : CommandNames]]
          /\ p.refused \in [services : SUBSET DOMAIN p.services,
                            results : SUBSET p.results,
                            suggestions : SUBSET DOMAIN p.suggestions]
    /\ ServerRows \subseteq ServiceRow
    /\ ServerStatuses \subseteq Statuses
    /\ ServerIds \subseteq Tickets
    /\ MaxRuns \in Nat

VARIABLES
    pickle,     \* the files, which nothing changes
    migrating,  \* a migration is running
    todo,       \* what it has not moved yet
    begun,      \* migrations begun
    completed,  \* migrations that said "Migration complete!"
    copies,     \* rows of health_checks that hold each pickled result
    clean,      \* whether the database was fit for the newest run
    outcome,    \* how the newest run ended
    restoring   \* services undelete has found deleted

commandLineVars ==
    <<pickle, migrating, todo, begun, completed, copies, clean, outcome,
      restoring>>
allVars == <<dbVars, commandLineVars>>

PickledServices == DOMAIN pickle.services
PickledIds == DOMAIN pickle.suggestions

SubmissionIds == {s.id : s \in submissions}

CommandLineTypeOK ==
    /\ DBTypeOK
    /\ pickle \in Pickles
    /\ migrating \in BOOLEAN
    /\ todo \in [services : SUBSET PickledServices,
                 results : SUBSET pickle.results,
                 suggestions : SUBSET PickledIds]
    /\ begun \in 0..MaxRuns
    /\ completed \in 0..MaxRuns
    /\ copies \in [pickle.results -> Nat]
    /\ clean \in BOOLEAN
    /\ outcome \in {"none", "complete", "aborted", "interrupted"}
    /\ restoring \subseteq Callsigns

CommandLineInit ==
    /\ DBInit
    /\ pickle \in Pickles
    /\ migrating = FALSE
    /\ todo = [services |-> {}, results |-> {}, suggestions |-> {}]
    /\ begun = 0
    /\ completed = 0
    /\ copies = [r \in pickle.results |-> 0]
    /\ clean = FALSE
    /\ outcome = "none"
    /\ restoring = {}
-----------------------------------------------------------------------------
(* migrate-to-sqlite *)

NothingRefused ==
    /\ pickle.refused.services = {}
    /\ pickle.refused.results = {}
    /\ pickle.refused.suggestions = {}

\* No row of the pickles is refused, none refers to a service that will not be
\* there, and no suggestion is there already.
Fit ==
    /\ NothingRefused
    /\ \A r \in pickle.results : r[1] \in PickledServices \/ Registered(r[1])
    /\ \A i \in PickledIds :
          /\ \/ pickle.suggestions[i].service \in PickledServices
             \/ Registered(pickle.suggestions[i].service)
          /\ i \notin SubmissionIds

BeginMigration ==
    /\ ~migrating
    /\ begun < MaxRuns
    /\ migrating' = TRUE
    /\ begun' = begun + 1
    /\ todo' = [services |-> PickledServices, results |-> pickle.results,
                suggestions |-> PickledIds]
    /\ clean' = Fit
    /\ outcome' = "none"
    /\ UNCHANGED <<dbVars, pickle, completed, copies, restoring>>

\* The whole pickled row, whatever the table has.
MigrateService(c) ==
    /\ migrating
    /\ c \in todo.services \ pickle.refused.services
    /\ UpsertService(c, pickle.services[c], "system")
    /\ todo' = [todo EXCEPT !.services = @ \ {c}]
    /\ UNCHANGED <<pickle, migrating, begun, completed, copies, clean,
                   outcome, restoring>>

\* Mutant of ResultsTurn: the results come first.
ResultsFirst == migrating

ResultsTurn == migrating /\ todo.services = {}

\* One more row, whatever the table has; the callsign REFERENCES services.
MigrateResult(r) ==
    /\ ResultsTurn
    /\ r \in todo.results \ pickle.refused.results
    /\ Registered(r[1])
    /\ AddHealthCheck(r[1], r[2])
    /\ copies' = [copies EXCEPT ![r] = @ + 1]
    /\ todo' = [todo EXCEPT !.results = @ \ {r}]
    /\ UNCHANGED <<pickle, migrating, begun, completed, clean, outcome,
                   restoring>>

SuggestionsTurn == ResultsTurn /\ todo.results = {}

\* The id is the PRIMARY KEY, and the callsign REFERENCES services.
Insertable(i) ==
    /\ i \notin pickle.refused.suggestions
    /\ i \notin SubmissionIds
    /\ Registered(pickle.suggestions[i].service)

\* Mutant of Submit: INSERT OR REPLACE.
SubmitOrReplace(i) ==
    LET s == pickle.suggestions[i] IN
    /\ submissions' = {t \in submissions : t.id # i} \cup
          {[id |-> i, service |-> s.service, name |-> s.name,
            state |-> "pending"]}
    /\ Audit("api", "submit")
    /\ UNCHANGED <<serviceVars, commands, checks>>

\* submit_command with what was pickled
Submit(i) ==
    /\ Insertable(i)
    /\ SubmitCommandRow(i, pickle.suggestions[i].service,
                        pickle.suggestions[i].name)

MigrateSuggestion(i) ==
    /\ SuggestionsTurn
    /\ i \in todo.suggestions
    /\ Submit(i)
    /\ todo' = [todo EXCEPT !.suggestions = @ \ {i}]
    /\ UNCHANGED <<pickle, migrating, begun, completed, copies, clean,
                   outcome, restoring>>

\* A row is not accepted, and the exception ends the command; what was moved
\* stays.
Abort ==
    /\ \/ migrating /\ todo.services \cap pickle.refused.services # {}
       \/ ResultsTurn /\ todo.results \cap pickle.refused.results # {}
       \/ ResultsTurn /\ \E r \in todo.results : ~Registered(r[1])
       \/ SuggestionsTurn /\ \E i \in todo.suggestions : ~Insertable(i)
    /\ migrating' = FALSE
    /\ outcome' = "aborted"
    /\ UNCHANGED <<dbVars, pickle, todo, begun, completed, copies, clean,
                   restoring>>

\* Mutant of CompleteMigration: a run goes on after its end.
CompleteAgain ==
    /\ SuggestionsTurn
    /\ todo.suggestions = {}
    /\ outcome' = "complete"
    /\ completed' = completed + 1
    /\ UNCHANGED <<dbVars, pickle, migrating, todo, begun, copies, clean,
                   restoring>>

\* Mutant of CompleteMigration: suggestions that are left are skipped.
CompleteEarly ==
    /\ SuggestionsTurn
    /\ migrating' = FALSE
    /\ outcome' = "complete"
    /\ completed' = completed + 1
    /\ UNCHANGED <<dbVars, pickle, todo, begun, copies, clean, restoring>>

\* "Migration complete!"
CompleteMigration ==
    /\ SuggestionsTurn
    /\ todo.suggestions = {}
    /\ migrating' = FALSE
    /\ outcome' = "complete"
    /\ completed' = completed + 1
    /\ UNCHANGED <<dbVars, pickle, todo, begun, copies, clean, restoring>>

Interrupt ==
    /\ migrating
    /\ migrating' = FALSE
    /\ outcome' = "interrupted"
    /\ UNCHANGED <<dbVars, pickle, todo, begun, completed, copies, clean,
                   restoring>>
-----------------------------------------------------------------------------
(* undelete, and the server *)

\* get_service, and the two early returns.
UndeleteReads(c) ==
    /\ Registered(c) /\ status[c] = "deleted"
    /\ restoring' = restoring \cup {c}
    /\ UNCHANGED <<dbVars, pickle, migrating, todo, begun, completed, copies,
                   clean, outcome>>

\* The status is not looked at again.
UndeleteWrites(c) ==
    /\ c \in restoring
    /\ UpdateServiceStatus(c, "active", "system")
    /\ restoring' = restoring \ {c}
    /\ UNCHANGED <<pickle, migrating, todo, begun, completed, copies, clean,
                   outcome>>

\* The handlers and checks of a server on the same file, whatever leads them
\* to write.  Its own rows of health_checks are left out: no command looks at
\* them.
ServerWrites ==
    /\ \/ \E c \in Callsigns, row \in ServerRows : UpsertService(c, row, "api")
       \/ \E c \in Callsigns, s \in ServerStatuses :
             UpdateServiceStatus(c, s, "admin")
       \/ \E i \in ServerIds \ SubmissionIds, c \in Callsigns, n \in CommandNames :
             Registered(c) /\ SubmitCommandRow(i, c, n)
       \/ \E s \in submissions :
             ApproveSubmissionRow(s, "admin") \/ RejectSubmissionRow(s, "admin")
    /\ UNCHANGED commandLineVars
-----------------------------------------------------------------------------
Migrate ==
    \/ \E c \in PickledServices : MigrateService(c)
    \/ \E r \in pickle.results : MigrateResult(r)
    \/ \E i \in PickledIds : MigrateSuggestion(i)
    \/ Abort
    \/ CompleteMigration

CommandLineNext ==
    \/ BeginMigration
    \/ Migrate
    \/ Interrupt
    \/ \E c \in Callsigns : UndeleteReads(c) \/ UndeleteWrites(c)
    \/ ServerWrites

CommandLineSpec == CommandLineInit /\ [][CommandLineNext]_allVars
-----------------------------------------------------------------------------
(* Properties *)

\* "Migration complete!": every pickled service is registered, every result is
\* in the history, and every suggestion is in the queue or was in it, for the
\* service and with the name it had, whatever runs were interrupted before and
\* whatever the server did.
MigrationMovesEverything ==
    completed > 0 =>
        /\ \A c \in PickledServices : Registered(c)
        /\ \A r \in pickle.results : r[2] \in checks[r[1]]
        /\ \A i \in PickledIds : \E s \in submissions :
              /\ s.id = i
              /\ s.service = pickle.suggestions[i].service
              /\ s.name = pickle.suggestions[i].name

\* "The migration command is idempotent and can be re-run" (the design
\* document of the migration): a run after a completed one does not fail, and
\* adds no second copy of a result.
MigrationCanBeRerun ==
    completed > 0 =>
        /\ outcome # "aborted"
        /\ \A r \in pickle.results : copies[r] <= 1

\* A suggestion that was approved or rejected is not offered again, even if
\* it is in the pickle of a migration that is run again.
DecisionsSurvive ==
    [][\A s \in submissions :
          s.state # "pending" =>
              \E t \in submissions' : t.id = s.id /\ t.state # "pending"]_allVars

\* A migration fails by itself only on a row that no database accepts, a row
\* that refers to a service neither pickled nor registered, or a suggestion
\* that was in the queue when it began: nothing the server does while it runs,
\* and no order of the rows in the files, makes it fail.
CleanRunsSucceed == outcome = "aborted" => ~clean
=============================================================================
