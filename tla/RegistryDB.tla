----------------------------- MODULE RegistryDB -----------------------------
(***************************************************************************)
(* The tables of db.py and the write methods of class RegistryDB.          *)
(*                                                                         *)
(* A column is a function of the callsign; a service without a row has     *)
(* status "absent" and the default value in every other column.  The       *)
(* free-text columns (description, website, software, owner) and the       *)
(* created/updated stamps are left out: nothing branches on them.  Of the  *)
(* append-only audit table only the newest row is kept.                    *)
(*                                                                         *)
(* A write method is one step here.  What its statements may do to each    *)
(* other when two threads use the one connection is module                 *)
(* SharedConnection.                                                       *)
(***************************************************************************)
EXTENDS Naturals, FiniteSets

CONSTANTS
    Callsigns,       \* upper-cased callsigns, the primary keys of services
    CommandNames,    \* names a command can have: case-sensitive, no outer blanks
    Folded,          \* CommandNames -> the name in Python's lower case
    Lowered,         \* CommandNames -> the name in SQLite's lower case: ASCII
    HealthCommands,  \* health_check_command texts, "" among them
    NoCommand,       \* health_check_command IS NULL
    Tickets          \* ids of command submissions (uuid4, so never reused)

ASSUME DBAssumption ==
    /\ DOMAIN Folded = CommandNames
    /\ DOMAIN Lowered = CommandNames
    /\ NoCommand \notin HealthCommands

VARIABLES
    status,         \* services.status, or "absent"
    featured,       \* services.featured
    healthCommand,  \* services.health_check_command
    commands,       \* service_commands: the set of names of each service
    checks,         \* health_checks: the set of rows of each service
    submissions,    \* command_submissions: the set of its rows
    audit           \* newest row of audit_events: who did what

serviceVars == <<status, featured, healthCommand>>
dbVars == <<status, featured, healthCommand, commands, checks, submissions,
            audit>>

Statuses == {"active", "pending", "down", "deleted"}
CheckableStatuses == {"active", "pending", "down"}

ServiceRow ==
    [status : Statuses,
     featured : BOOLEAN,
     healthCommand : HealthCommands \cup {NoCommand},
     commands : SUBSET CommandNames]

HealthRow == [at : Nat, ok : BOOLEAN]

Submission ==
    [id : Tickets, service : Callsigns, name : CommandNames,
     state : {"pending", "approved", "rejected"}]

AuditActions ==
    {"none", "create", "update", "status_change", "set_featured",
     "add", "remove", "submit", "approve", "reject"}

DBTypeOK ==
    /\ status \in [Callsigns -> Statuses \cup {"absent"}]
    /\ featured \in [Callsigns -> BOOLEAN]
    /\ healthCommand \in [Callsigns -> HealthCommands \cup {NoCommand}]
    /\ commands \in [Callsigns -> SUBSET CommandNames]
    /\ checks \in [Callsigns -> SUBSET HealthRow]
    /\ submissions \subseteq Submission
    /\ audit \in [actor : {"api", "admin", "system", "scheduler"},
                  action : AuditActions]

\* A fresh database file: _ensure_schema creates the tables, all empty.
DBInit ==
    /\ status = [c \in Callsigns |-> "absent"]
    /\ featured = [c \in Callsigns |-> FALSE]
    /\ healthCommand = [c \in Callsigns |-> NoCommand]
    /\ commands = [c \in Callsigns |-> {}]
    /\ checks = [c \in Callsigns |-> {}]
    /\ submissions = {}
    /\ audit = [actor |-> "system", action |-> "none"]

-----------------------------------------------------------------------------
(* Queries *)

Registered(c) == status[c] # "absent"

\* get_service: the row with its commands.
GetService(c) ==
    [status |-> status[c], featured |-> featured[c],
     healthCommand |-> healthCommand[c], commands |-> commands[c]]

\* get_all_services with a status filter.
GetAllServices(filter) == {c \in Callsigns : status[c] \in filter}

FoldedNames(names) == {Folded[n] : n \in names}

\* get_pending_submissions, of one service
PendingNames(c) ==
    {s.name : s \in {t \in submissions : t.state = "pending" /\ t.service = c}}

-----------------------------------------------------------------------------
(* Writes *)

Audit(actor, action) == audit' = [actor |-> actor, action |-> action]

\* upsert_service: UPDATE or INSERT of the whole row, then the commands are
\* replaced (every caller supplies them).
UpsertService(c, row, actor) ==
    /\ status' = [status EXCEPT ![c] = row.status]
    /\ featured' = [featured EXCEPT ![c] = row.featured]
    /\ healthCommand' = [healthCommand EXCEPT ![c] = row.healthCommand]
    /\ commands' = [commands EXCEPT ![c] = row.commands]
    /\ Audit(actor, IF Registered(c) THEN "update" ELSE "create")
    /\ UNCHANGED <<checks, submissions>>

\* update_service_status; its early return on a missing row is not reached,
\* for every caller has read the row and no row is ever removed.
UpdateServiceStatus(c, new, actor) ==
    /\ Registered(c)
    /\ status' = [status EXCEPT ![c] = new]
    /\ Audit(actor, "status_change")
    /\ UNCHANGED <<featured, healthCommand, commands, checks, submissions>>

DeleteServiceRow(c, actor) == UpdateServiceStatus(c, "deleted", actor)

ToggleFeaturedFlag(c, actor) ==
    /\ Registered(c)
    /\ featured' = [featured EXCEPT ![c] = ~@]
    /\ Audit(actor, "set_featured")
    /\ UNCHANGED <<status, healthCommand, commands, checks, submissions>>

\* add_command: INSERT OR IGNORE under UNIQUE(callsign, name).
AddCommandRow(c, n, actor) ==
    /\ commands' = [commands EXCEPT ![c] = @ \cup {n}]
    /\ Audit(actor, "add")
    /\ UNCHANGED <<serviceVars, checks, submissions>>

\* remove_command: every name that SQLite's LOWER finds equal.
RemoveCommandRows(c, n, actor) ==
    /\ commands' = [commands EXCEPT ![c] = {m \in @ : Lowered[m] # Lowered[n]}]
    /\ Audit(actor, "remove")
    /\ UNCHANGED <<serviceVars, checks, submissions>>

\* add_health_check: no audit row is written.
AddHealthCheck(c, row) ==
    /\ checks' = [checks EXCEPT ![c] = @ \cup {row}]
    /\ UNCHANGED <<serviceVars, commands, submissions, audit>>

SubmitCommandRow(id, c, n) ==
    /\ submissions' = submissions \cup
          {[id |-> id, service |-> c, name |-> n, state |-> "pending"]}
    /\ Audit("api", "submit")
    /\ UNCHANGED <<serviceVars, commands, checks>>

\* The UPDATE that records a decision on row s.
Decide(s, state) ==
    submissions' = (submissions \ {s}) \cup {[s EXCEPT !.state = state]}

\* approve_submission looks for the row, not at the row's state.
ApproveSubmissionRow(s, actor) ==
    /\ Decide(s, "approved")
    /\ commands' = [commands EXCEPT ![s.service] = @ \cup {s.name}]
    /\ Audit(actor, "approve")
    /\ UNCHANGED <<serviceVars, checks>>

\* reject_submission, unconditional as well
RejectSubmissionRow(s, actor) ==
    /\ Decide(s, "rejected")
    /\ Audit(actor, "reject")
    /\ UNCHANGED <<serviceVars, commands, checks>>
=============================================================================
