------------------------------- MODULE WebApi -------------------------------
(***************************************************************************)
(* The request handlers of main.py that change the registry.               *)
(*                                                                         *)
(* Handlers are coroutines of one event loop: between two awaits a handler *)
(* is alone among handlers, but a check thread can come between its read   *)
(* and its write.  A handler whose write depends on what it read from      *)
(* columns the check threads also write is therefore two steps: the first  *)
(* reads and leaves the prepared write in loop, the second performs it.    *)
(* Only admin_edit_service awaits (the form) between its read and its      *)
(* write; the edits suspended there are in edits.                          *)
(*                                                                         *)
(* Authentication, rate limits, request validation and the HTML pages are  *)
(* not modelled: a request that is refused changes nothing.                *)
(***************************************************************************)
EXTENDS RegistryDB

CONSTANTS
    Requests,      \* what registration requests carry
    Forms,         \* what the admin's service forms carry
    Blank,         \* the health check command that is the empty text
    CommandLists,  \* what set-commands requests carry
    MaxEdits       \* bound: suspended admin edits

\* The fields of a form that are columns here; a form may come without a
\* status, or without a health check command.
Form ==
    [status : Statuses \cup {"unset"},
     featured : BOOLEAN,
     healthCommand : HealthCommands \cup {NoCommand}]

ASSUME WebAssumption ==
    /\ Requests \subseteq ServiceRow
    /\ Forms \subseteq Form
    /\ CommandLists \subseteq SUBSET CommandNames
    /\ MaxEdits \in Nat

VARIABLES
    loop,   \* the prepared write of the running handler: at most one
    edits   \* snapshots held by the suspended admin_edit_service calls

webVars == <<loop, edits>>

Write ==
    [op : {"upsert", "status"}, service : Callsigns, row : ServiceRow,
     actor : {"api", "admin"}]

Edit == [service : Callsigns, row : ServiceRow]

WebTypeOK ==
    /\ loop \subseteq Write
    /\ \A w, x \in loop : w = x
    /\ edits \subseteq Edit

WebInit == loop = {} /\ edits = {}

LoopFree == loop = {}

Prepare(op, c, row, actor) ==
    loop' = {[op |-> op, service |-> c, row |-> row, actor |-> actor]}

\* The second step of a handler.
PerformWrite ==
    /\ \E w \in loop :
          \/ w.op = "upsert" /\ UpsertService(w.service, w.row, w.actor)
          \/ w.op = "status"
             /\ UpdateServiceStatus(w.service, w.row.status, w.actor)
    /\ loop' = {}
    /\ UNCHANGED edits
-----------------------------------------------------------------------------
(* Services *)

\* Mutant of RegisteredRow: the featured flag is the request's.
RegisteredRowFeatured(c, request) ==
    IF ~Registered(c) THEN request
    ELSE [status |-> IF request.status = "active" /\ status[c] = "deleted"
                     THEN "deleted" ELSE request.status,
          featured |-> request.featured,
          healthCommand |-> IF request.healthCommand = NoCommand
                            THEN healthCommand[c] ELSE request.healthCommand,
          commands |-> commands[c]]

\* Mutant of RegisteredRow: "active" undeletes.
RegisteredRowRevived(c, request) ==
    IF ~Registered(c) THEN request
    ELSE [status |-> request.status,
          featured |-> featured[c],
          healthCommand |-> IF request.healthCommand = NoCommand
                            THEN healthCommand[c] ELSE request.healthCommand,
          commands |-> commands[c]]

\* What registry() writes for a request: the admin-managed fields of an
\* existing row are kept, and "active" does not undelete.
RegisteredRow(c, request) ==
    IF ~Registered(c) THEN request
    ELSE [status |-> IF request.status = "active" /\ status[c] = "deleted"
                     THEN "deleted" ELSE request.status,
          featured |-> featured[c],
          healthCommand |-> IF request.healthCommand = NoCommand
                            THEN healthCommand[c] ELSE request.healthCommand,
          commands |-> commands[c]]

\* POST /api/v1/registry
Register(c, request) ==
    /\ LoopFree
    /\ Prepare("upsert", c, RegisteredRow(c, request), "api")
    /\ UNCHANGED <<dbVars, edits>>

\* Mutant of DeleteService: it comes between another handler's read and write.
DeleteServiceAnytime(c, actor) ==
    /\ DeleteServiceRow(c, actor)
    /\ UNCHANGED webVars

\* DELETE /api/v1/registry/{callsign} and the admin page's delete
DeleteService(c, actor) ==
    /\ LoopFree
    /\ DeleteServiceRow(c, actor)
    /\ UNCHANGED webVars

\* form.get("status", default)
FormStatus(form, default) ==
    IF form.status = "unset" THEN default ELSE form.status

\* What the form of a new service makes: a blank command is none.
CreatedRow(form) ==
    [status |-> FormStatus(form, "active"),
     featured |-> form.featured,
     healthCommand |-> IF form.healthCommand = Blank THEN NoCommand
                       ELSE form.healthCommand,
     commands |-> {}]

\* POST /admin/services/new
CreateService(c, form) ==
    /\ LoopFree
    /\ ~Registered(c)
    /\ Prepare("upsert", c, CreatedRow(form), "admin")
    /\ UNCHANGED <<dbVars, edits>>

\* POST /admin/services/{callsign}/undelete
UndeleteService(c) ==
    /\ LoopFree
    /\ status[c] = "deleted"
    /\ Prepare("status", c, [GetService(c) EXCEPT !.status = "active"],
               "admin")
    /\ UNCHANGED <<dbVars, edits>>

\* POST /admin/services/{callsign}/toggle-featured
ToggleFeatured(c) ==
    /\ LoopFree
    /\ ToggleFeaturedFlag(c, "admin")
    /\ UNCHANGED webVars

\* POST /admin/services/{callsign}/edit: the row is read, then the form
\* awaited.
OpenEdit(c) ==
    /\ LoopFree
    /\ Registered(c)
    /\ Cardinality(edits) < MaxEdits
    /\ edits' = edits \cup {[service |-> c, row |-> GetService(c)]}
    /\ UNCHANGED <<dbVars, loop>>

\* The snapshot with the fields of the form: what the form leaves out stays,
\* the featured flag excepted, and a blank command is kept as it is.
EditedRow(row, form) ==
    [status |-> FormStatus(form, row.status),
     featured |-> form.featured,
     healthCommand |-> IF form.healthCommand = NoCommand
                       THEN row.healthCommand ELSE form.healthCommand,
     commands |-> row.commands]

\* The form has arrived: the snapshot with its fields replaces the row.
SubmitEdit(e, form) ==
    /\ LoopFree
    /\ UpsertService(e.service, EditedRow(e.row, form), "admin")
    /\ edits' = edits \ {e}
    /\ UNCHANGED loop

\* The client went away before its form was complete.
AbandonEdit(e) ==
    /\ LoopFree
    /\ edits' = edits \ {e}
    /\ UNCHANGED <<dbVars, loop>>

-----------------------------------------------------------------------------
(* Commands *)

HasCommand(c, n) == Folded[n] \in FoldedNames(commands[c])

\* Mutant of SetCommands: a service that is not there is written.
SetCommandsAbsent(c, names) ==
    /\ LoopFree
    /\ Prepare("upsert", c, [GetService(c) EXCEPT !.commands = names],
               "admin")
    /\ UNCHANGED <<dbVars, edits>>

\* PUT /api/v1/admin/services/{callsign}/commands writes the whole row back.
SetCommands(c, names) ==
    /\ LoopFree
    /\ Registered(c)
    /\ Prepare("upsert", c, [GetService(c) EXCEPT !.commands = names],
               "admin")
    /\ UNCHANGED <<dbVars, edits>>

\* POST /api/v1/admin/services/{callsign}/commands
AddCommand(c, n) ==
    /\ LoopFree
    /\ Registered(c)
    /\ ~HasCommand(c, n)
    /\ AddCommandRow(c, n, "admin")
    /\ UNCHANGED webVars

\* delete_command and admin_delete_command
DeleteCommand(c, n) ==
    /\ LoopFree
    /\ Registered(c)
    /\ HasCommand(c, n)
    /\ RemoveCommandRows(c, n, "admin")
    /\ UNCHANGED webVars

\* Mutant of SubmitCommand: pending suggestions are not looked at.
SubmitCommandAgain(c, n, id) ==
    /\ LoopFree
    /\ Registered(c)
    /\ ~HasCommand(c, n)
    /\ id \notin {s.id : s \in submissions}
    /\ SubmitCommandRow(id, c, n)
    /\ UNCHANGED webVars

\* POST /api/v1/services/{callsign}/commands: a suggestion for moderation,
\* refused when the service has the command or waits for it already.
SubmitCommand(c, n, id) ==
    /\ LoopFree
    /\ Registered(c)
    /\ ~HasCommand(c, n)
    /\ Folded[n] \notin FoldedNames(PendingNames(c))
    /\ id \notin {s.id : s \in submissions}
    /\ SubmitCommandRow(id, c, n)
    /\ UNCHANGED webVars

\* Mutant of ApproveCommand: the commands it has by now are not looked at.
ApproveCommandBlindly(s) ==
    /\ LoopFree
    /\ ApproveSubmissionRow(s, "admin")
    /\ UNCHANGED webVars

\* approve_command and admin_approve_command: a command the service has by
\* now turns the approval into a rejection.
ApproveCommand(s) ==
    /\ LoopFree
    /\ IF HasCommand(s.service, s.name)
       THEN RejectSubmissionRow(s, "admin")
       ELSE ApproveSubmissionRow(s, "admin")
    /\ UNCHANGED webVars

\* reject_command and admin_reject_command
RejectCommand(s) ==
    /\ LoopFree
    /\ RejectSubmissionRow(s, "admin")
    /\ UNCHANGED webVars
-----------------------------------------------------------------------------
ServiceRequest(c) ==
    \/ \E r \in Requests : Register(c, r)
    \/ \E f \in Forms : CreateService(c, f)
    \/ \E actor \in {"api", "admin"} : DeleteService(c, actor)
    \/ UndeleteService(c)
    \/ ToggleFeatured(c)
    \/ OpenEdit(c)

EditStep(e) ==
    \/ \E f \in Forms : SubmitEdit(e, f)
    \/ AbandonEdit(e)

CommandRequest(c) ==
    \/ \E names \in CommandLists : SetCommands(c, names)
    \/ \E n \in CommandNames : AddCommand(c, n) \/ DeleteCommand(c, n)
    \/ \E n \in CommandNames, id \in Tickets : SubmitCommand(c, n, id)

Moderation(s) == ApproveCommand(s) \/ RejectCommand(s)

WebNext ==
    \/ PerformWrite
    \/ \E c \in Callsigns : ServiceRequest(c) \/ CommandRequest(c)
    \/ \E e \in edits : EditStep(e)
    \/ \E s \in submissions : Moderation(s)
-----------------------------------------------------------------------------
(* Properties *)

\* submit_command: "Reject if an identical command is already pending
\* moderation".  No service has two pending suggestions whose names differ
\* in case at most, whatever was decided, deleted or suggested in between.
PendingUnique ==
    \A s, u \in submissions :
        /\ s.state = "pending" /\ u.state = "pending"
        /\ s.service = u.service
        /\ Folded[s.name] = Folded[u.name]
        => s = u

FoldUnique(names) ==
    \A m, n \in names : Folded[m] = Folded[n] => m = n

\* As long as no request lists two spellings of one name itself, no service
\* gets two: approvals and additions check, and the snapshot an edit writes
\* back was such a list once.
CommandsFoldUnique ==
    (\A names \in CommandLists : FoldUnique(names))
    /\ (\A r \in Requests : FoldUnique(r.commands))
        => \A c \in Callsigns : FoldUnique(commands[c])

Registration(w) == w.op = "upsert" /\ w.actor = "api"

\* registry(): "Preserve existing admin-managed fields on re-registration".
\* While a re-registration is on its way no step changes the featured flag or
\* the commands of the service, or takes its health check command away: what
\* it writes back is what is there when it writes.
RegistrationKeepsAdminFields ==
    [][\A w \in loop :
          Registration(w) /\ Registered(w.service) =>
            /\ featured'[w.service] = featured[w.service]
            /\ commands'[w.service] = commands[w.service]
            /\ healthCommand'[w.service] = NoCommand =>
                  healthCommand[w.service] = NoCommand]_<<dbVars, webVars>>
=============================================================================
