---------------------------- MODULE WebApiProofs ----------------------------
(***************************************************************************)
(* What the request handlers keep, for any set of callsigns, command names *)
(* and requests: the types of the tables, at most one pending suggestion   *)
(* of a command, at most one spelling of a command of a service, and that  *)
(* a re-registration on its way carries the fields the row has.            *)
(***************************************************************************)
EXTENDS WebApi, RegistryDBProofs

WebOK == DBTypeOK /\ WebTypeOK

\* No request itself lists two spellings of one name.
ListsFoldUnique ==
    /\ \A names \in CommandLists : FoldUnique(names)
    /\ \A r \in Requests : FoldUnique(r.commands)

\* Every list of names that a service has, or that is on its way to one, has
\* one spelling of a name: what handlers copy around are such lists.
ListsInv ==
    /\ \A c \in Callsigns : FoldUnique(commands[c])
    /\ \A w \in loop : w.op = "upsert" => FoldUnique(w.row.commands)
    /\ \A e \in edits : FoldUnique(e.row.commands)

\* The fields a re-registration preserves are still those of the row.
FieldsInv ==
    \A w \in loop :
        Registration(w) /\ Registered(w.service) =>
            /\ w.row.featured = featured[w.service]
            /\ w.row.commands = commands[w.service]
            /\ w.row.healthCommand = NoCommand =>
                  healthCommand[w.service] = NoCommand
WebInv ==
    /\ WebOK
    /\ PendingUnique
    /\ ListsFoldUnique => ListsInv
    /\ FieldsInv
-----------------------------------------------------------------------------
(* Types *)

LEMMA ModerationType ==
    ASSUME DBTypeOK, NEW s \in submissions, Moderation(s)
    PROVE  DBTypeOK'
BY ApproveType, RejectType
   DEF Moderation, ApproveCommand, RejectCommand
-----------------------------------------------------------------------------
(* Prepared writes *)

\* The row of a registered service.
LEMMA GetServiceType ==
    ASSUME DBTypeOK, NEW c \in Callsigns, Registered(c)
    PROVE  /\ GetService(c) \in ServiceRow
           /\ GetService(c).status = status[c]
           /\ GetService(c).featured = featured[c]
           /\ GetService(c).healthCommand = healthCommand[c]
           /\ GetService(c).commands = commands[c]
BY DEF DBTypeOK, Registered, GetService, ServiceRow

LEMMA RegisteredRowType ==
    ASSUME DBTypeOK, NEW c \in Callsigns, NEW request \in Requests
    PROVE  RegisteredRow(c, request) \in ServiceRow
<1>1. request \in ServiceRow
  BY WebAssumption DEF WebAssumption
<1>2. CASE ~Registered(c)
  BY <1>1, <1>2 DEF RegisteredRow
<1>3. CASE Registered(c)
  <2>1. /\ featured[c] \in BOOLEAN /\ commands[c] \in SUBSET CommandNames
        /\ healthCommand[c] \in HealthCommands \cup {NoCommand}
    BY DEF DBTypeOK
  <2>2. /\ request.status \in Statuses
        /\ request.healthCommand \in HealthCommands \cup {NoCommand}
        /\ "deleted" \in Statuses
    BY <1>1 DEF ServiceRow, Statuses
  <2> QED BY <1>3, <2>1, <2>2 DEF RegisteredRow, ServiceRow
<1> QED BY <1>2, <1>3

\* What a form makes of nothing and of a row is a row.
LEMMA FormRowsType ==
    ASSUME NEW form \in Forms
    PROVE  /\ CreatedRow(form) \in ServiceRow
           /\ CreatedRow(form).commands = {}
           /\ \A row \in ServiceRow :
                 /\ EditedRow(row, form) \in ServiceRow
                 /\ EditedRow(row, form).commands = row.commands
<1>1. /\ form.status \in Statuses \cup {"unset"} /\ form.featured \in BOOLEAN
      /\ form.healthCommand \in HealthCommands \cup {NoCommand}
  BY WebAssumption DEF WebAssumption, Form
<1>2. \A default \in Statuses : FormStatus(form, default) \in Statuses
  BY <1>1 DEF FormStatus
<1>3. /\ CreatedRow(form) \in ServiceRow
      /\ CreatedRow(form).commands = {}
  BY <1>1, <1>2 DEF CreatedRow, ServiceRow, Statuses
<1>4. ASSUME NEW row \in ServiceRow
      PROVE  /\ EditedRow(row, form) \in ServiceRow
             /\ EditedRow(row, form).commands = row.commands
  <2>1. /\ row.status \in Statuses /\ row.commands \in SUBSET CommandNames
        /\ row.healthCommand \in HealthCommands \cup {NoCommand}
    BY DEF ServiceRow
  <2>2. FormStatus(form, row.status) \in Statuses
    BY <1>2, <2>1
  <2> QED BY <1>1, <2>1, <2>2 DEF EditedRow, ServiceRow
<1> QED BY <1>3, <1>4

\* Changing the commands or the status of a row leaves a row.
LEMMA RowFields ==
    ASSUME NEW row \in ServiceRow
    PROVE  /\ \A names \in SUBSET CommandNames :
                 /\ [row EXCEPT !.commands = names] \in ServiceRow
                 /\ [row EXCEPT !.commands = names].commands = names
           /\ \A new \in Statuses :
                 /\ [row EXCEPT !.status = new] \in ServiceRow
                 /\ [row EXCEPT !.status = new].status = new
BY DEF ServiceRow

LEMMA PrepareType ==
    ASSUME NEW op \in {"upsert", "status"}, NEW c \in Callsigns,
           NEW row \in ServiceRow, NEW actor \in {"api", "admin"},
           Prepare(op, c, row, actor)
    PROVE  /\ loop' \subseteq Write
           /\ \A w, x \in loop' : w = x
           /\ \A w \in loop' :
                 w.op = op /\ w.service = c /\ w.row = row /\ w.actor = actor
BY DEF Prepare, Write
-----------------------------------------------------------------------------
(* Handlers that prepare a write *)

LEMMA PrepareKeeps ==
    ASSUME WebInv,
           NEW op \in {"upsert", "status"}, NEW c \in Callsigns,
           NEW row \in ServiceRow, NEW actor \in {"api", "admin"},
           Prepare(op, c, row, actor), UNCHANGED <<dbVars, edits>>,
           op = "upsert" /\ ListsFoldUnique /\ ListsInv =>
               FoldUnique(row.commands),
           op = "upsert" /\ actor = "api" /\ Registered(c) =>
               /\ row.featured = featured[c]
               /\ row.commands = commands[c]
               /\ row.healthCommand = NoCommand =>
                     healthCommand[c] = NoCommand
    PROVE  WebInv'
<1>1. /\ loop' \subseteq Write
      /\ \A w, x \in loop' : w = x
      /\ \A w \in loop' :
            w.op = op /\ w.service = c /\ w.row = row /\ w.actor = actor
  BY PrepareType
<1>2. WebOK'
  BY <1>1 DEF WebInv, WebOK, DBTypeOK, WebTypeOK, dbVars
<1>3. PendingUnique'
  BY DEF WebInv, PendingUnique, dbVars
<1>4. ListsFoldUnique /\ ListsInv => ListsInv'
  BY <1>1 DEF ListsInv, dbVars
<1>5. FieldsInv'
  BY <1>1 DEF FieldsInv, Registration, Registered, dbVars
<1> QED BY <1>2, <1>3, <1>4, <1>5 DEF WebInv, ListsFoldUnique

LEMMA RegisterKeeps ==
    ASSUME WebInv, NEW c \in Callsigns, NEW request \in Requests,
           Register(c, request)
    PROVE  WebInv'
<1>1. PICK row \in ServiceRow : row = RegisteredRow(c, request)
  BY RegisteredRowType DEF WebInv, WebOK
<1>2. Prepare("upsert", c, row, "api") /\ UNCHANGED <<dbVars, edits>>
  BY <1>1 DEF Register
<1>3. CASE Registered(c)
  <2>1. /\ row.featured = featured[c] /\ row.commands = commands[c]
        /\ row.healthCommand = NoCommand => healthCommand[c] = NoCommand
    BY <1>1, <1>3 DEF RegisteredRow
  <2> QED BY <1>2, <2>1, PrepareKeeps DEF ListsInv
<1>4. CASE ~Registered(c)
  <2>1. row = request
    BY <1>1, <1>4 DEF RegisteredRow
  <2> QED BY <1>2, <1>4, <2>1, PrepareKeeps DEF ListsFoldUnique
<1> QED BY <1>3, <1>4

LEMMA CreateServiceKeeps ==
    ASSUME WebInv, NEW c \in Callsigns, NEW form \in Forms,
           CreateService(c, form)
    PROVE  WebInv'
<1>1. PICK row \in ServiceRow : row = CreatedRow(form) /\ row.commands = {}
  BY FormRowsType
<1>2. Prepare("upsert", c, row, "admin") /\ UNCHANGED <<dbVars, edits>>
  BY <1>1 DEF CreateService
<1> QED BY <1>1, <1>2, PrepareKeeps DEF FoldUnique

LEMMA UndeleteServiceKeeps ==
    ASSUME WebInv, NEW c \in Callsigns, UndeleteService(c)
    PROVE  WebInv'
<1>1. GetService(c) \in ServiceRow
  BY GetServiceType DEF WebInv, WebOK, UndeleteService, Registered
<1>2. PICK row \in ServiceRow :
         row = [GetService(c) EXCEPT !.status = "active"]
  BY <1>1, RowFields DEF Statuses
<1>3. Prepare("status", c, row, "admin") /\ UNCHANGED <<dbVars, edits>>
  BY <1>2 DEF UndeleteService
<1> QED BY <1>3, PrepareKeeps

LEMMA SetCommandsKeeps ==
    ASSUME WebInv, NEW c \in Callsigns, NEW names \in CommandLists,
           SetCommands(c, names)
    PROVE  WebInv'
<1>1. GetService(c) \in ServiceRow
  BY GetServiceType DEF WebInv, WebOK, SetCommands
<1>2. PICK row \in ServiceRow :
         /\ row = [GetService(c) EXCEPT !.commands = names]
         /\ row.commands = names
  BY <1>1, RowFields, WebAssumption DEF WebAssumption
<1>3. Prepare("upsert", c, row, "admin") /\ UNCHANGED <<dbVars, edits>>
  BY <1>2 DEF SetCommands
<1> QED BY <1>2, <1>3, PrepareKeeps DEF ListsFoldUnique

LEMMA OpenEditKeeps ==
    ASSUME WebInv, NEW c \in Callsigns, OpenEdit(c)
    PROVE  WebInv'
<1>1. /\ GetService(c) \in ServiceRow /\ GetService(c).commands = commands[c]
  BY GetServiceType DEF WebInv, WebOK, OpenEdit
<1>2. PICK row \in ServiceRow :
         row = GetService(c) /\ row.commands = commands[c]
  BY <1>1
<1>3. /\ edits' = edits \cup {[service |-> c, row |-> row]}
      /\ UNCHANGED <<dbVars, loop>>
  BY <1>2 DEF OpenEdit
<1>4. WebOK'
  BY <1>3 DEF WebInv, WebOK, DBTypeOK, WebTypeOK, Edit, dbVars
<1>5. PendingUnique' /\ FieldsInv'
  BY <1>3 DEF WebInv, PendingUnique, FieldsInv, Registered, dbVars
<1>6. ListsInv => ListsInv'
  BY <1>2, <1>3 DEF ListsInv, dbVars
<1> QED BY <1>4, <1>5, <1>6 DEF WebInv, ListsFoldUnique
-----------------------------------------------------------------------------
(* Handlers that write at once, and the writes prepared earlier *)

\* A write while no other is prepared, or that performs the prepared one.
LEMMA WriteKeeps ==
    ASSUME WebInv, DBTypeOK', loop' = {}, edits' \subseteq edits,
           PendingUnique',
           ListsFoldUnique /\ ListsInv =>
               \A c \in Callsigns : FoldUnique(commands'[c])
    PROVE  WebInv'
<1>1. WebOK'
  BY DEF WebInv, WebOK, WebTypeOK
<1>2. ListsFoldUnique /\ ListsInv => ListsInv'
  BY DEF ListsInv
<1>3. FieldsInv'
  BY DEF FieldsInv
<1> QED BY <1>1, <1>2, <1>3 DEF WebInv, ListsFoldUnique

LEMMA UpsertKeeps ==
    ASSUME WebInv, NEW c \in Callsigns, NEW row \in ServiceRow,
           NEW actor \in {"api", "admin"}, UpsertService(c, row, actor),
           loop' = {}, edits' \subseteq edits,
           ListsFoldUnique /\ ListsInv => FoldUnique(row.commands)
    PROVE  WebInv'
<1>1. DBTypeOK'
  BY UpsertType DEF WebInv, WebOK, Actors
<1>2. PendingUnique'
  BY DEF WebInv, PendingUnique, UpsertService
<1>3. \A d \in Callsigns :
         commands'[d] = IF d = c THEN row.commands ELSE commands[d]
  BY DEF WebInv, WebOK, DBTypeOK, UpsertService
<1> QED BY <1>1, <1>2, <1>3, WriteKeeps DEF ListsInv

LEMMA StatusKeeps ==
    ASSUME WebInv, NEW c \in Callsigns, NEW new \in Statuses,
           NEW actor \in {"api", "admin"},
           UpdateServiceStatus(c, new, actor),
           loop' = {}, edits' \subseteq edits
    PROVE  WebInv'
<1>1. DBTypeOK'
  BY StatusType DEF WebInv, WebOK, Actors
<1>2. PendingUnique' /\ commands' = commands
  BY DEF WebInv, PendingUnique, UpdateServiceStatus
<1> QED BY <1>1, <1>2, WriteKeeps DEF ListsInv

LEMMA PerformWriteKeeps ==
    ASSUME WebInv, PerformWrite
    PROVE  WebInv'
<1>1. PICK w \in loop :
         \/ w.op = "upsert" /\ UpsertService(w.service, w.row, w.actor)
         \/ w.op = "status"
            /\ UpdateServiceStatus(w.service, w.row.status, w.actor)
  BY DEF PerformWrite
<1>2. loop' = {} /\ edits' \subseteq edits
  BY DEF PerformWrite
<1>3. /\ w.service \in Callsigns /\ w.row \in ServiceRow
      /\ w.actor \in {"api", "admin"}
  BY DEF WebInv, WebOK, WebTypeOK, Write
<1>4. w.row.status \in Statuses
  BY <1>3 DEF ServiceRow
<1>5. CASE w.op = "upsert" /\ UpsertService(w.service, w.row, w.actor)
  BY <1>2, <1>3, <1>5, UpsertKeeps DEF ListsInv
<1>6. CASE UpdateServiceStatus(w.service, w.row.status, w.actor)
  BY <1>2, <1>3, <1>4, <1>6, StatusKeeps
<1> QED BY <1>1, <1>5, <1>6

LEMMA DeleteServiceKeeps ==
    ASSUME WebInv, NEW c \in Callsigns, NEW actor \in {"api", "admin"},
           DeleteService(c, actor)
    PROVE  WebInv'
BY StatusKeeps
   DEF DeleteService, DeleteServiceRow, LoopFree, webVars, Statuses

LEMMA ToggleFeaturedKeeps ==
    ASSUME WebInv, NEW c \in Callsigns, ToggleFeatured(c)
    PROVE  WebInv'
<1>1. DBTypeOK'
  BY ToggleType DEF WebInv, WebOK, ToggleFeatured
<1>2. PendingUnique' /\ commands' = commands
  BY DEF WebInv, PendingUnique, ToggleFeatured, ToggleFeaturedFlag
<1> QED BY <1>1, <1>2, WriteKeeps
        DEF ListsInv, ToggleFeatured, LoopFree, webVars

LEMMA EditStepKeeps ==
    ASSUME WebInv, NEW e \in edits, EditStep(e)
    PROVE  WebInv'
<1>1. CASE AbandonEdit(e)
  <2>1. DBTypeOK' /\ PendingUnique' /\ commands' = commands
    BY <1>1 DEF AbandonEdit, WebInv, WebOK, DBTypeOK, PendingUnique, dbVars
  <2> QED BY <1>1, <2>1, WriteKeeps DEF ListsInv, AbandonEdit, LoopFree
<1>2. CASE \E f \in Forms : SubmitEdit(e, f)
  <2>1. PICK f \in Forms : SubmitEdit(e, f)
    BY <1>2
  <2>2. e.service \in Callsigns /\ e.row \in ServiceRow
    BY DEF WebInv, WebOK, WebTypeOK, Edit
  <2>3. PICK row \in ServiceRow :
           row = EditedRow(e.row, f) /\ row.commands = e.row.commands
    BY <2>2, FormRowsType
  <2>4. UpsertService(e.service, row, "admin")
    BY <2>1, <2>3 DEF SubmitEdit
  <2>5. loop' = {} /\ edits' \subseteq edits
    BY <2>1 DEF SubmitEdit, LoopFree
  <2> QED BY <2>2, <2>3, <2>4, <2>5, UpsertKeeps DEF ListsInv
<1> QED BY <1>1, <1>2 DEF EditStep

\* Adding a name no spelling of which is there leaves one spelling of each.
LEMMA AddedFoldUnique ==
    ASSUME NEW names, FoldUnique(names), NEW n, Folded[n] \notin FoldedNames(names)
    PROVE  FoldUnique(names \cup {n})
BY DEF FoldUnique, FoldedNames

LEMMA AddCommandKeeps ==
    ASSUME WebInv, NEW c \in Callsigns, NEW n \in CommandNames,
           AddCommand(c, n)
    PROVE  WebInv'
<1>1. DBTypeOK'
  BY AddCommandType DEF WebInv, WebOK, AddCommand
<1>2. PendingUnique'
  BY DEF WebInv, PendingUnique, AddCommand, AddCommandRow
<1>3. \A d \in Callsigns :
         commands'[d] = IF d = c THEN commands[d] \cup {n} ELSE commands[d]
  BY DEF WebInv, WebOK, DBTypeOK, AddCommand, AddCommandRow
<1>4. ASSUME ListsInv
      PROVE  \A d \in Callsigns : FoldUnique(commands'[d])
  <2>1. FoldUnique(commands[c] \cup {n})
    <3>1. FoldUnique(commands[c]) /\ Folded[n] \notin FoldedNames(commands[c])
      BY <1>4 DEF ListsInv, AddCommand, HasCommand
    <3> QED BY <3>1, AddedFoldUnique
  <2>2. \A d \in Callsigns : FoldUnique(commands[d])
    BY <1>4 DEF ListsInv
  <2> SUFFICES ASSUME NEW d \in Callsigns
               PROVE  FoldUnique(commands'[d])
    OBVIOUS
  <2> QED BY <1>3, <2>1, <2>2
<1> QED BY <1>1, <1>2, <1>4, WriteKeeps DEF AddCommand, LoopFree, webVars

LEMMA DeleteCommandKeeps ==
    ASSUME WebInv, NEW c \in Callsigns, NEW n \in CommandNames,
           DeleteCommand(c, n)
    PROVE  WebInv'
<1>1. DBTypeOK'
  BY RemoveCommandType DEF WebInv, WebOK, DeleteCommand
<1>2. PendingUnique'
  BY DEF WebInv, PendingUnique, DeleteCommand, RemoveCommandRows
<1>3. \A d \in Callsigns : commands'[d] \subseteq commands[d]
  BY DEF WebInv, WebOK, DBTypeOK, DeleteCommand, RemoveCommandRows
<1>4. ASSUME ListsInv
      PROVE  \A d \in Callsigns : FoldUnique(commands'[d])
  BY <1>3, <1>4 DEF ListsInv, FoldUnique
<1> QED BY <1>1, <1>2, <1>4, WriteKeeps DEF DeleteCommand, LoopFree, webVars

LEMMA SubmitCommandKeeps ==
    ASSUME WebInv, NEW c \in Callsigns, NEW n \in CommandNames,
           NEW id \in Tickets, SubmitCommand(c, n, id)
    PROVE  WebInv'
<1>1. DBTypeOK'
  BY SubmitType DEF WebInv, WebOK, SubmitCommand
<1>2. \A s \in submissions :
         s.state = "pending" /\ s.service = c => Folded[s.name] # Folded[n]
  BY DEF SubmitCommand, FoldedNames, PendingNames
<1>3. \A s \in submissions' :
         \/ s \in submissions
         \/ s = [id |-> id, service |-> c, name |-> n, state |-> "pending"]
  BY DEF SubmitCommand, SubmitCommandRow
<1>4. PendingUnique'
  BY <1>2, <1>3 DEF WebInv, PendingUnique
<1>5. commands' = commands
  BY DEF SubmitCommand, SubmitCommandRow
<1> QED BY <1>1, <1>4, <1>5, WriteKeeps
        DEF ListsInv, SubmitCommand, LoopFree, webVars

LEMMA ModerationKeeps ==
    ASSUME WebInv, NEW s \in submissions, Moderation(s)
    PROVE  WebInv'
<1>1. DBTypeOK' /\ DBTypeOK
  BY ModerationType DEF WebInv, WebOK
<1>2. \/ RejectSubmissionRow(s, "admin")
      \/ /\ ApproveSubmissionRow(s, "admin")
         /\ ~HasCommand(s.service, s.name)
  BY DEF Moderation, ApproveCommand, RejectCommand
<1>3. \A u \in submissions' : u \in submissions \/ u.state # "pending"
  BY <1>1, <1>2, DecideType DEF RejectSubmissionRow, ApproveSubmissionRow
<1>4. PendingUnique'
  BY <1>3 DEF WebInv, PendingUnique
<1>5. ASSUME ListsInv
      PROVE  \A d \in Callsigns : FoldUnique(commands'[d])
  <2>1. CASE RejectSubmissionRow(s, "admin")
    BY <1>5, <2>1 DEF RejectSubmissionRow, ListsInv
  <2>2. CASE /\ ApproveSubmissionRow(s, "admin")
             /\ ~HasCommand(s.service, s.name)
    <3>1. \A d \in Callsigns :
             commands'[d] = IF d = s.service THEN commands[d] \cup {s.name}
                            ELSE commands[d]
      BY <1>1, <2>2 DEF ApproveSubmissionRow, DBTypeOK
    <3>2. \A d \in Callsigns : FoldUnique(commands[d])
      BY <1>5 DEF ListsInv
    <3> SUFFICES ASSUME NEW d \in Callsigns
                 PROVE  FoldUnique(commands'[d])
      OBVIOUS
    <3>3. CASE d = s.service
      <4>1. FoldUnique(commands[d]) /\ Folded[s.name] \notin FoldedNames(commands[d])
        BY <2>2, <3>2, <3>3 DEF HasCommand
      <4>2. FoldUnique(commands[d] \cup {s.name})
        BY <4>1, AddedFoldUnique
      <4> QED BY <3>1, <3>3, <4>2
    <3> QED BY <3>1, <3>2, <3>3
  <2> QED BY <1>2, <2>1, <2>2
<1> QED BY <1>1, <1>4, <1>5, WriteKeeps
        DEF Moderation, ApproveCommand, RejectCommand, LoopFree, webVars
-----------------------------------------------------------------------------
(* Every step *)

LEMMA WebNextKeeps ==
    ASSUME WebInv, WebNext
    PROVE  WebInv'
<1>1. ASSUME NEW c \in Callsigns, ServiceRequest(c)
      PROVE  WebInv'
  BY <1>1, RegisterKeeps, CreateServiceKeeps, DeleteServiceKeeps,
     UndeleteServiceKeeps, ToggleFeaturedKeeps, OpenEditKeeps
     DEF ServiceRequest
<1>2. ASSUME NEW c \in Callsigns, CommandRequest(c)
      PROVE  WebInv'
  BY <1>2, SetCommandsKeeps, AddCommandKeeps, DeleteCommandKeeps,
     SubmitCommandKeeps DEF CommandRequest
<1> QED
  BY <1>1, <1>2, PerformWriteKeeps, EditStepKeeps, ModerationKeeps
     DEF WebNext

\* Steps that leave the columns the handlers preserve, and what the handlers
\* are about to write, alone: those of the check threads.
LEMMA StatusOnlyKeeps ==
    ASSUME WebInv, DBTypeOK',
           UNCHANGED <<featured, healthCommand, commands, submissions, webVars>>,
           \A c \in Callsigns : Registered(c)' = Registered(c)
    PROVE  WebInv'
<1>1. WebOK'
  BY DEF WebInv, WebOK, WebTypeOK, webVars
<1>2. PendingUnique' /\ (ListsInv => ListsInv')
  BY DEF WebInv, PendingUnique, ListsInv, webVars
<1>3. \A w \in loop : w.service \in Callsigns
  BY DEF WebInv, WebOK, WebTypeOK, Write
<1>4. FieldsInv'
  BY <1>3 DEF WebInv, FieldsInv, Registration, webVars
<1> QED BY <1>1, <1>2, <1>4 DEF WebInv, ListsFoldUnique

LEMMA WebInitInv ==
    ASSUME DBInit, WebInit
    PROVE  WebInv
<1>1. WebOK
  BY DEF DBInit, WebInit, WebOK, DBTypeOK, WebTypeOK, AuditActions
<1>2. PendingUnique /\ ListsInv /\ FieldsInv
  BY DEF DBInit, WebInit, PendingUnique, ListsInv, FieldsInv, FoldUnique
<1> QED BY <1>1, <1>2 DEF WebInv
=============================================================================
