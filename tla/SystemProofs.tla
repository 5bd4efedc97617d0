---------------------------- MODULE SystemProofs ----------------------------
(***************************************************************************)
(* The safety of the running registry, for any services, threads,          *)
(* requests and limits: handlers, check threads and restarts together      *)
(* keep the invariants of HealthCheckerProofs and WebApiProofs, and        *)
(* implement ServiceLifecycle.                                             *)
(***************************************************************************)
EXTENDS System, HealthCheckerProofs, WebApiProofs

SystemInv == HealthInv /\ WebInv
-----------------------------------------------------------------------------
(* What the handlers do not touch *)

\* No handler writes to the history table.
LEMMA HandlersLeaveChecks ==
    ASSUME WebNext
    PROVE  checks' = checks
<1>1. ASSUME NEW c, ServiceRequest(c)
      PROVE  checks' = checks
  BY <1>1 DEF ServiceRequest, Register, CreateService, DeleteService,
              DeleteServiceRow, UpdateServiceStatus, UndeleteService,
              ToggleFeatured, ToggleFeaturedFlag, OpenEdit, dbVars
<1>2. ASSUME NEW c, CommandRequest(c)
      PROVE  checks' = checks
  BY <1>2 DEF CommandRequest, SetCommands, AddCommand, AddCommandRow,
              DeleteCommand, RemoveCommandRows, SubmitCommand,
              SubmitCommandRow, dbVars
<1>3. ASSUME NEW e, EditStep(e)
      PROVE  checks' = checks
  BY <1>3 DEF EditStep, SubmitEdit, UpsertService, AbandonEdit, dbVars
<1>4. ASSUME NEW s, Moderation(s)
      PROVE  checks' = checks
  BY <1>4 DEF Moderation, ApproveCommand, RejectCommand,
              ApproveSubmissionRow, RejectSubmissionRow
<1>5. ASSUME PerformWrite
      PROVE  checks' = checks
  BY <1>5 DEF PerformWrite, UpsertService, UpdateServiceStatus
<1> QED BY <1>1, <1>2, <1>3, <1>4, <1>5 DEF WebNext

(* What the check threads do not touch *)

\* A step of the health checker writes one column of services: status, and
\* that of a registered service only.
ChecksWrite ==
    /\ UNCHANGED <<featured, healthCommand, commands, submissions>>
    /\ \A c \in Callsigns : Registered(c)' = Registered(c)

LEMMA ThreadStepWrites ==
    ASSUME HealthInv, DBTypeOK, NEW t \in Threads, ThreadStep(t)
    PROVE  DBTypeOK' /\ ChecksWrite
<1> DEFINE quiet == UNCHANGED dbVars
<1>1. check[t] \in Check
  BY DEF HealthInv, HealthTypeOK
<1>2. CASE quiet
  BY <1>2 DEF DBTypeOK, ChecksWrite, Registered, dbVars
<1>3. CASE RecordResult(t)
  <2>1. AddHealthCheck(Service(t), [at |-> check[t].at, ok |-> check[t].heard])
    BY <1>3 DEF RecordResult
  <2>2. [at |-> check[t].at, ok |-> check[t].heard] \in HealthRow
    BY <1>1 DEF Check, HealthRow
  <2>3. DBTypeOK'
    BY <2>1, <2>2, HealthRowType
  <2> QED BY <2>1, <2>3 DEF AddHealthCheck, serviceVars, ChecksWrite, Registered
<1>4. CASE UpdateStatus(t)
  <2>1. UpdateServiceStatus(Service(t), check[t].new, "scheduler")
    BY <1>4 DEF UpdateStatus
  <2>2. check[t].new \in Statuses
    BY <1>1 DEF Check
  <2>3. DBTypeOK'
    BY <2>1, <2>2, StatusType DEF Actors
  <2>4. \A c \in Callsigns : Registered(c)' = Registered(c)
    BY <2>1, <2>2 DEF DBTypeOK, UpdateServiceStatus, Registered, Statuses
  <2> QED BY <2>1, <2>3, <2>4 DEF UpdateServiceStatus, ChecksWrite
<1>5. quiet \/ RecordResult(t) \/ UpdateStatus(t)
  BY DEF ThreadStep, SkipDeleted, BeginCheck, CannotSend, SendMessage,
         PollHears, Retry, GiveUp, LateLookup, TakeTimestamp, Judge
<1> QED BY <1>2, <1>3, <1>4, <1>5

LEMMA ChecksLeaveFields ==
    ASSUME HealthInv, DBTypeOK, HealthNext
    PROVE  DBTypeOK' /\ ChecksWrite
<1>1. CASE \E t \in Threads : ThreadStep(t)
  BY <1>1, ThreadStepWrites
<1>2. CASE UNCHANGED dbVars
  BY <1>2 DEF DBTypeOK, ChecksWrite, Registered, dbVars
<1> QED
  BY <1>1, <1>2 DEF HealthNext, JobFires, TriggerHealthCheck,
                    TriggerAllHealthChecks, ReceivePacket
-----------------------------------------------------------------------------
(* Every step *)

LEMMA SystemInit ==
    ASSUME Init
    PROVE  SystemInv
BY HealthInitInv, WebInitInv DEF Init, DBInit, SystemInv

LEMMA SystemStep ==
    ASSUME SystemInv, [Next]_vars
    PROVE  SystemInv'
<1>1. CASE HealthNext /\ UNCHANGED webVars
  <2>1. DBTypeOK' /\ ChecksWrite
    BY <1>1, ChecksLeaveFields DEF SystemInv, WebInv, WebOK
  <2>2. WebInv'
    BY <1>1, <2>1, StatusOnlyKeeps DEF SystemInv, ChecksWrite
  <2> QED BY <1>1, <2>2, HealthNextKeeps DEF SystemInv
<1>2. CASE WebNext /\ UNCHANGED healthVars
  <2>1. HealthInv'
    BY <1>2, HandlersLeaveChecks, OthersKeep DEF SystemInv, healthVars
  <2> QED BY <1>2, <2>1, WebNextKeeps DEF SystemInv
<1>3. CASE Restart
  <2>1. HealthInv'
    BY <1>3, RestartChecksKeeps DEF SystemInv, Restart
  <2>2. DBTypeOK' /\ PendingUnique' /\ commands' = commands
    BY <1>3 DEF SystemInv, WebInv, WebOK, DBTypeOK, PendingUnique, Restart,
                RestartChecks, dbVars
  <2>3. WebInv'
    BY <1>3, <2>2, WriteKeeps DEF SystemInv, Restart, ListsInv
  <2> QED BY <2>1, <2>3 DEF SystemInv
<1>4. CASE UNCHANGED vars
  <2>1. HealthInv'
    BY <1>4, OthersKeep DEF SystemInv, vars, dbVars, healthVars
  <2>2. DBTypeOK' /\ \A c \in Callsigns : Registered(c)' = Registered(c)
    BY <1>4 DEF SystemInv, WebInv, WebOK, DBTypeOK, Registered, vars, dbVars
  <2>3. WebInv'
    BY <1>4, <2>2, StatusOnlyKeeps DEF SystemInv, vars, dbVars
  <2> QED BY <2>1, <2>3 DEF SystemInv
<1> QED BY <1>1, <1>2, <1>3, <1>4 DEF Next

LEMMA SystemInvariant == Spec => []SystemInv
<1>1. Init => SystemInv
  BY SystemInit
<1>2. SystemInv /\ [Next]_vars => SystemInv'
  BY SystemStep
<1> QED BY <1>1, <1>2, PTL DEF Spec
-----------------------------------------------------------------------------
\* Every variable of the database, the check threads and the handlers keeps
\* its type.
THEOREM TypeCorrect == Spec => []TypeOK
<1>1. SystemInv => TypeOK
  BY DEF SystemInv, HealthInv, WebInv, WebOK, TypeOK
<1> QED BY <1>1, SystemInvariant, PTL

\* check_service takes a service down only with FailuresForDown failures in
\* its history, also when checks of it overlap.
THEOREM DownIsBackedHolds == Spec => []DownIsBacked
<1>1. SystemInv => DownIsBacked
  BY DEF SystemInv, HealthInv
<1> QED BY <1>1, SystemInvariant, PTL

\* check_service takes a service that only the scheduler checks down only
\* after FailuresForDown failures in a row.
THEOREM DownAfterConsecutiveFailuresHolds ==
    Spec => []DownAfterConsecutiveFailures
<1>1. SystemInv => DownAfterConsecutiveFailures
  BY DEF SystemInv, HealthInv
<1> QED BY <1>1, SystemInvariant, PTL

\* check_service never loses an answer that came between its first message
\* and its second look at the tracker, if only the scheduler checks the
\* service.
THEOREM AnsweredCheckSucceedsHolds == Spec => []AnsweredCheckSucceeds
<1>1. SystemInv => AnsweredCheckSucceeds
  BY DEF SystemInv, HealthInv
<1> QED BY <1>1, SystemInvariant, PTL

\* The two duplicate checks of submit_command keep suggestions unique
\* up to case among those that wait for moderation.
THEOREM PendingUniqueHolds == Spec => []PendingUnique
<1>1. SystemInv => PendingUnique
  BY DEF SystemInv, WebInv
<1> QED BY <1>1, SystemInvariant, PTL

\* If no request itself lists two spellings of a name, no service gets two:
\* neither by approvals and additions nor by the lists that registrations,
\* edits and set-commands requests write back.
THEOREM CommandsFoldUniqueHolds == Spec => []CommandsFoldUnique
<1>1. SystemInv => CommandsFoldUnique
  BY DEF SystemInv, WebInv, ListsFoldUnique, ListsInv, CommandsFoldUnique
<1> QED BY <1>1, SystemInvariant, PTL

\* registry() writes back the admin-managed fields that the row has at the
\* moment of the write, not only those it had when registry() read it.
THEOREM RegistrationKeepsAdminFieldsHolds ==
    Spec => RegistrationKeepsAdminFields
<1> DEFINE Kept(w) ==
        Registration(w) /\ Registered(w.service) =>
            /\ featured'[w.service] = featured[w.service]
            /\ commands'[w.service] = commands[w.service]
            /\ healthCommand'[w.service] = NoCommand =>
                  healthCommand[w.service] = NoCommand
<1>1. SystemInv /\ [Next]_vars => \A w \in loop : Kept(w)
  <2> SUFFICES ASSUME SystemInv, [Next]_vars, NEW w \in loop
               PROVE  Kept(w)
    OBVIOUS
  <2>1. CASE UNCHANGED <<featured, commands, healthCommand>>
    BY <2>1
  <2>2. CASE WebNext
    <3>1. PerformWrite
      BY <2>2 DEF WebNext, ServiceRequest, CommandRequest, EditStep, Moderation,
                  Register, CreateService, DeleteService, UndeleteService,
                  ToggleFeatured, OpenEdit, SetCommands, AddCommand,
                  DeleteCommand, SubmitCommand, SubmitEdit, AbandonEdit,
                  ApproveCommand, RejectCommand, LoopFree
    <3>2. \A x \in loop : x = w
      BY DEF SystemInv, WebInv, WebOK, WebTypeOK
    <3>3. \/ /\ w.op = "upsert"
             /\ UpsertService(w.service, w.row, w.actor)
          \/ UpdateServiceStatus(w.service, w.row.status, w.actor)
      BY <3>1, <3>2 DEF PerformWrite
    <3>4. CASE UpdateServiceStatus(w.service, w.row.status, w.actor)
      BY <2>1, <3>4 DEF UpdateServiceStatus
    <3>5. CASE UpsertService(w.service, w.row, w.actor)
      <4>1. w.service \in Callsigns
        BY DEF SystemInv, WebInv, WebOK, WebTypeOK, Write
      <4>2. /\ featured'[w.service] = w.row.featured
            /\ commands'[w.service] = w.row.commands
            /\ healthCommand'[w.service] = w.row.healthCommand
        BY <3>5, <4>1 DEF UpsertService, SystemInv, WebInv, WebOK, DBTypeOK
      <4> QED BY <4>2 DEF SystemInv, WebInv, FieldsInv
    <3> QED BY <3>3, <3>4, <3>5
  <2>3. CASE HealthNext
    BY <2>1, <2>3, ChecksLeaveFields DEF SystemInv, WebInv, WebOK, ChecksWrite
  <2> QED BY <2>1, <2>2, <2>3 DEF Next, Restart, RestartChecks, vars, dbVars
<1> HIDE DEF Kept
<1>2. SystemInv /\ [Next]_vars =>
         [\A w \in loop : Kept(w)]_<<dbVars, webVars>>
  BY <1>1
<1> QED BY <1>2, SystemInvariant, PTL
        DEF Spec, RegistrationKeepsAdminFields, Kept
-----------------------------------------------------------------------------
(* Every change of a status is one of ServiceLifecycle.  A step that writes
   one has to be one of its moves: for a check that is a matter of what the
   check read and judged, steps ago; for a handler that writes a whole row
   back, of what the row was when the handler read it. *)

\* What a check in progress has read and made of it.
Begun(t) == check[t].pc \notin {"idle", "started"}
Judged(t) == check[t].pc \in {"recording", "updating"}

VerdictFollows(k) ==
    k.new = k.current \/ <<k.current, k.new>> \in Lifecycle!CheckEdges

CheckFollows ==
    \A t \in Threads :
        /\ Begun(t) => check[t].current \in Lifecycle!Checked
        /\ Judged(t) => VerdictFollows(check[t])
        /\ check[t].pc = "updating" => check[t].new # check[t].current

\* Only undeleting prepares a write of the status alone.
StatusWritesByAdmin ==
    \A w \in loop : w.op = "status" => w.actor = "admin"

\* While a handler that does not await is between its read and its write no
\* other handler deletes the service, and checks never do: a row prepared for
\* a deleted service was read deleted, or carries a status its sender asked
\* for other than the default.  The suspended edit prepares nothing.
PreparedRowsKeepDeleted ==
    \A w \in loop :
        w.op = "upsert" /\ status[w.service] = "deleted" =>
            \/ w.row.status = "deleted"
            \/ w.actor = "api" /\ w.row.status # "active"

LifeInv ==
    /\ SystemInv
    /\ CheckFollows
    /\ StatusWritesByAdmin
    /\ PreparedRowsKeepDeleted

(* What a step may do to the statuses that checks have read. *)
HeldKept ==
    \A c \in Callsigns : HeldStatuses'[c] \subseteq HeldStatuses[c]
-----------------------------------------------------------------------------
(* Steps of the check threads *)

\* A step that begins no check: each thread runs the check it ran, with the
\* status it read, or has ended it or only just started one.
Continues(t) ==
    \/ check'[t].pc = "idle" /\ check'[t].service = NoService
    \/ check'[t].pc = "started"
    \/ /\ Begun(t)
       /\ check'[t].service = check[t].service
       /\ check'[t].current = check[t].current

LEMMA ContinuesHeld ==
    ASSUME \A t \in Threads : Continues(t)
    PROVE  HeldKept
<1>1. NoService \notin Callsigns
  BY HealthAssumption DEF HealthAssumption
<1> SUFFICES ASSUME NEW c \in Callsigns, NEW s \in HeldStatuses'[c]
             PROVE  s \in HeldStatuses[c]
  BY DEF HeldKept
<1>2. PICK t \in Threads :
         /\ check'[t].service = c /\ check'[t].pc # "started"
         /\ s = check'[t].current
  BY DEF HeldStatuses, InFlight, At
<1>3. /\ check[t].service = c /\ check[t].pc # "started"
      /\ s = check[t].current
  BY <1>1, <1>2 DEF Continues, Begun
<1> QED BY <1>3 DEF HeldStatuses, InFlight, At

\* The step that begins a check reads the status.
LEMMA BeginReads ==
    ASSUME LifeInv, NEW t \in Threads, BeginCheck(t)
    PROVE  CheckFollows' /\ Lifecycle!CheckReads(Service(t))
<1> DEFINE c == Service(t)
<1>1. check[t] \in Check /\ check \in [Threads -> Check]
  BY DEF LifeInv, SystemInv, HealthInv, HealthTypeOK
<1>2. c \in Callsigns /\ status[c] \in Lifecycle!Checked
  BY <1>1 DEF LifeInv, SystemInv, HealthInv, CheckShape, BeginCheck, At,
              Service, Check, CheckableStatuses, Lifecycle!Checked,
              Lifecycle!AllStatuses
<1>3. /\ check'[t].pc = "begun" /\ check'[t].service = c
      /\ check'[t].current = status[c]
      /\ \A u \in Threads \ {t} : check'[u] = check[u]
      /\ check[t].pc = "started"
  BY <1>1 DEF BeginCheck, Service, Check, At
<1>4. CheckFollows'
  BY <1>2, <1>3 DEF LifeInv, CheckFollows, Begun, Judged, VerdictFollows
<1>5. \A d \in Callsigns :
         HeldStatuses'[d] = IF d = c THEN HeldStatuses[c] \cup {status[c]}
                            ELSE HeldStatuses[d]
  <2> SUFFICES ASSUME NEW d \in Callsigns
               PROVE  HeldStatuses'[d] = IF d = c
                                         THEN HeldStatuses[c] \cup {status[c]}
                                         ELSE HeldStatuses[d]
    OBVIOUS
  <2>1. HeldStatuses[d] = {check[u].current : u \in
             {v \in Threads : check[v].service = d /\ check[v].pc # "started"}}
    BY DEF HeldStatuses, InFlight, At
  <2>2. HeldStatuses'[d] = {check'[u].current : u \in
             {v \in Threads : check'[v].service = d /\ check'[v].pc # "started"}}
    BY DEF HeldStatuses, InFlight, At
  <2>3. CASE d = c
    BY <1>3, <2>1, <2>2, <2>3 DEF Service
  <2>4. CASE d # c
    BY <1>3, <2>1, <2>2, <2>4 DEF Service
  <2> QED BY <2>3, <2>4
<1>6. HeldStatuses' = [HeldStatuses EXCEPT ![c] = @ \cup {status[c]}]
  BY <1>2, <1>5 DEF HeldStatuses
<1> QED
  BY <1>2, <1>4, <1>6 DEF Lifecycle!CheckReads, BeginCheck, dbVars

\* The step that writes the status moves it along an edge from what the
\* check read.
LEMMA UpdateMoves ==
    ASSUME LifeInv, NEW t \in Threads, UpdateStatus(t)
    PROVE  CheckFollows' /\ Lifecycle!CheckMoves(Service(t))
<1> DEFINE c == Service(t)
<1>1. check[t] \in Check /\ check \in [Threads -> Check]
  BY DEF LifeInv, SystemInv, HealthInv, HealthTypeOK
<1>2. c \in Callsigns /\ check[t].pc = "updating"
  BY <1>1 DEF LifeInv, SystemInv, HealthInv, CheckShape, UpdateStatus, At,
              Service, Check
<1>3. /\ check'[t] = Idle
      /\ \A u \in Threads \ {t} : check'[u] = check[u]
  BY <1>1 DEF UpdateStatus
<1>4. CheckFollows'
  BY <1>3 DEF LifeInv, CheckFollows, Begun, Judged, VerdictFollows, Idle
<1>5. \A u \in Threads : check[u].pc = "idle" => check[u].service = NoService
  BY DEF LifeInv, SystemInv, HealthInv, CheckShape
<1>6. \A u \in Threads : Continues(u)
  BY <1>3, <1>5 DEF Continues, Begun, Idle
<1>7. HeldKept
  BY <1>6, ContinuesHeld
<1>8. <<check[t].current, check[t].new>> \in Lifecycle!CheckEdges
  BY <1>2 DEF LifeInv, CheckFollows, Judged, VerdictFollows
<1>9. check[t].new \in Lifecycle!Checked
  BY <1>8 DEF Lifecycle!CheckEdges, Lifecycle!Checked, Lifecycle!AllStatuses
<1>10. check[t].current \in HeldStatuses[c]
  BY <1>2 DEF HeldStatuses, InFlight, At, Service
<1>11. /\ audit'.actor = "scheduler"
       /\ Lifecycle!Set(c, check[t].new)
  BY DEF UpdateStatus, UpdateServiceStatus, Audit, Lifecycle!Set
<1> QED
  BY <1>4, <1>7, <1>8, <1>9, <1>10, <1>11
     DEF Lifecycle!CheckMoves, Lifecycle!ChecksEnd, HeldKept

\* Every other step of a thread leaves the statuses alone.
LEMMA ThreadElsewhere ==
    ASSUME LifeInv, NEW t \in Threads, ThreadStep(t),
           ~BeginCheck(t), ~UpdateStatus(t)
    PROVE  CheckFollows' /\ Lifecycle!Elsewhere
<1>1. check[t] \in Check /\ check \in [Threads -> Check]
  BY DEF LifeInv, SystemInv, HealthInv, HealthTypeOK
<1>2. status' = status
  BY DEF ThreadStep, SkipDeleted, CannotSend, SendMessage, PollHears, Retry,
         GiveUp, LateLookup, TakeTimestamp, Judge, RecordResult, AddHealthCheck, serviceVars,
         dbVars
<1>3. \A u \in Threads \ {t} : check'[u] = check[u]
  BY <1>1 DEF ThreadStep, SkipDeleted, CannotSend, SendMessage, PollHears,
              Retry, GiveUp, LateLookup, TakeTimestamp, Judge, RecordResult
<1>4. \/ check'[t] = Idle
      \/ /\ Begun(t) /\ check'[t].service = check[t].service
         /\ check'[t].current = check[t].current
         /\ \/ check'[t].pc \in {"polling", "late", "judging", "stamped"}
            \/ Judge(t) \/ RecordResult(t)
  <2>1. CASE SkipDeleted(t)
    BY <1>1, <2>1 DEF SkipDeleted
  <2>2. CASE CannotSend(t)
    BY <1>1, <2>2 DEF CannotSend, At, Begun, Check
  <2>3. CASE SendMessage(t)
    <3>1. PICK pc \in SendOutcome, n \in {0, 1} :
             check'[t] = [check[t] EXCEPT !.pc = pc, !.attempt = n]
      BY <1>1, <2>3 DEF SendMessage, SendOutcome
    <3> QED BY <1>1, <2>3, <3>1 DEF SendMessage, SendOutcome, Check, At, Begun
  <2>4. CASE Retry(t)
    <3>1. PICK pc \in SendOutcome, n \in {0, check[t].attempt + 1} :
             check'[t] = [check[t] EXCEPT !.pc = pc, !.attempt = n]
      BY <1>1, <2>4 DEF Retry, SendOutcome
    <3> QED BY <1>1, <2>4, <3>1 DEF Retry, SendOutcome, Check, At, Begun
  <2>5. CASE PollHears(t)
    BY <1>1, <2>5 DEF PollHears, At, Begun, Check
  <2>6. CASE GiveUp(t)
    BY <1>1, <2>6 DEF GiveUp, At, Begun, Check
  <2>7. CASE LateLookup(t)
    BY <1>1, <2>7 DEF LateLookup, At, Begun, Check
  <2>8. CASE TakeTimestamp(t)
    BY <1>1, <2>8 DEF TakeTimestamp, At, Begun, Check
  <2>9. CASE Judge(t)
    BY <1>1, <2>9 DEF Judge, At, Begun, Check
  <2>10. CASE RecordResult(t)
    BY <1>1, <2>10 DEF RecordResult, At, Begun, Check
  <2> QED
    BY <2>1, <2>2, <2>3, <2>4, <2>5, <2>6, <2>7, <2>8, <2>9, <2>10
       DEF ThreadStep
<1>5. CheckFollows'
  <2>1. \A u \in Threads \ {t} :
           /\ Begun(u)' => check'[u].current \in Lifecycle!Checked
           /\ Judged(u)' => VerdictFollows(check'[u])
           /\ check'[u].pc = "updating" => check'[u].new # check'[u].current
    BY <1>3 DEF LifeInv, CheckFollows, Begun, Judged
  <2>2. Begun(t)' => check'[t].current \in Lifecycle!Checked
    BY <1>4 DEF LifeInv, CheckFollows, Begun, Idle
  <2>3. /\ Judged(t)' => VerdictFollows(check'[t])
        /\ check'[t].pc = "updating" => check'[t].new # check'[t].current
    <3>1. CASE Judge(t)
      <4> DEFINE n == ConsecutiveFailures(Service(t)) + 1
                 new == NewStatus(check[t].current, check[t].heard, n)
      <4>1. check'[t] = [check[t] EXCEPT !.pc = "recording", !.new = new]
        BY <1>1, <3>1 DEF Judge
      <4>2. new = check[t].current
            \/ <<check[t].current, new>> \in Lifecycle!CheckEdges
        BY DEF NewStatus, Lifecycle!CheckEdges
      <4> HIDE DEF n, new
      <4>3. /\ check'[t].pc = "recording" /\ check'[t].new = new
            /\ check'[t].current = check[t].current
        BY <1>1, <4>1 DEF Check
      <4> QED BY <4>2, <4>3 DEF VerdictFollows
    <3>2. CASE RecordResult(t)
      BY <1>1, <3>2
         DEF RecordResult, LifeInv, CheckFollows, Judged, VerdictFollows, At,
             Idle, Check
    <3>3. CASE ~Judge(t) /\ ~RecordResult(t)
      <4>1. check'[t].pc \notin {"recording", "updating"}
        BY <1>4, <3>3 DEF Idle
      <4> QED BY <4>1 DEF Judged
    <3> QED BY <3>1, <3>2, <3>3
  <2> QED BY <2>1, <2>2, <2>3
        DEF CheckFollows, VerdictFollows, Lifecycle!CheckEdges,
            Lifecycle!Checked, Lifecycle!AllStatuses
<1>6. \A u \in Threads : check[u].pc = "idle" => check[u].service = NoService
  BY DEF LifeInv, SystemInv, HealthInv, CheckShape
<1>7. \A u \in Threads : Continues(u)
  BY <1>3, <1>4, <1>6 DEF Continues, Begun, Idle
<1> QED
  BY <1>2, <1>5, <1>7, ContinuesHeld
     DEF Lifecycle!Elsewhere, Lifecycle!ChecksEnd, HeldKept

\* A step that only starts checks.
LEMMA StartsElsewhere ==
    ASSUME LifeInv, UNCHANGED dbVars,
           \A t \in Threads :
               check'[t] = check[t] \/ check'[t].pc = "started"
    PROVE  CheckFollows' /\ Lifecycle!Elsewhere
<1>1. CheckFollows'
  BY DEF LifeInv, CheckFollows, Begun, Judged, VerdictFollows,
         Lifecycle!CheckEdges, Lifecycle!Checked, Lifecycle!AllStatuses
<1>2. \A t \in Threads : check[t].pc = "idle" => check[t].service = NoService
  BY DEF LifeInv, SystemInv, HealthInv, CheckShape
<1>3. \A t \in Threads : Continues(t)
  BY <1>2 DEF Continues, Begun
<1> QED
  BY <1>1, <1>3, ContinuesHeld
     DEF Lifecycle!Elsewhere, Lifecycle!ChecksEnd, HeldKept, dbVars

\* Steps that leave what checks are doing alone.
LEMMA ChecksStay ==
    ASSUME LifeInv,
           \A t \in Threads :
               /\ check'[t].pc = check[t].pc
               /\ check'[t].service = check[t].service
               /\ check'[t].current = check[t].current
               /\ check'[t].new = check[t].new
    PROVE  CheckFollows' /\ HeldStatuses' = HeldStatuses
<1>1. CheckFollows'
  BY DEF LifeInv, CheckFollows, Begun, Judged, VerdictFollows,
         Lifecycle!CheckEdges, Lifecycle!Checked, Lifecycle!AllStatuses
<1>2. HeldStatuses' = HeldStatuses
  BY DEF HeldStatuses, InFlight, At
<1> QED BY <1>1, <1>2

LEMMA HealthNextFollows ==
    ASSUME LifeInv, HealthNext
    PROVE  CheckFollows' /\ Lifecycle!LifecycleNext
<1>1. \A t \in Threads : Service(t) \in Callsigns \cup {NoService}
  BY DEF LifeInv, SystemInv, HealthInv, HealthTypeOK, Check, Service
<1>2. ASSUME NEW t \in Threads, ThreadStep(t)
      PROVE  CheckFollows' /\ Lifecycle!LifecycleNext
  <2>1. CASE BeginCheck(t)
    <3>1. Service(t) \in Callsigns
      BY <1>1, <2>1 DEF BeginCheck, At, LifeInv, SystemInv, HealthInv,
                        CheckShape, Service
    <3> QED BY <2>1, <3>1, BeginReads DEF Lifecycle!LifecycleNext
  <2>2. CASE UpdateStatus(t)
    <3>1. Service(t) \in Callsigns
      BY <1>1, <2>2 DEF UpdateStatus, At, LifeInv, SystemInv, HealthInv,
                        CheckShape, Service
    <3> QED BY <2>2, <3>1, UpdateMoves DEF Lifecycle!LifecycleNext
  <2>3. CASE ~BeginCheck(t) /\ ~UpdateStatus(t)
    BY <1>2, <2>3, ThreadElsewhere DEF Lifecycle!LifecycleNext
  <2> QED BY <2>1, <2>2, <2>3
<1>3. ASSUME NEW t \in Threads, NEW c \in Callsigns,
             JobFires(t, c) \/ TriggerHealthCheck(t, c)
      PROVE  CheckFollows' /\ Lifecycle!LifecycleNext
  <2>1. \A u \in Threads : check'[u] = check[u] \/ check'[u].pc = "started"
    BY <1>3, StartedCheck
       DEF JobFires, TriggerHealthCheck, LifeInv, SystemInv, HealthInv,
           HealthTypeOK
  <2>2. UNCHANGED dbVars
    BY <1>3 DEF JobFires, TriggerHealthCheck
  <2> QED BY <2>1, <2>2, StartsElsewhere DEF Lifecycle!LifecycleNext
<1>4. ASSUME TriggerAllHealthChecks
      PROVE  CheckFollows' /\ Lifecycle!LifecycleNext
  <2>1. \A u \in Threads :
           \/ check'[u] = check[u]
           \/ \E c \in CheckableServices : check'[u] = Started(c, "manual")
    BY <1>4 DEF TriggerAllHealthChecks
  <2>2. CheckableServices \subseteq Callsigns
    BY DEF CheckableServices, GetAllServices
  <2>3. \A u \in Threads : check'[u] = check[u] \/ check'[u].pc = "started"
    BY <2>1, <2>2, StartedCheck
  <2>4. UNCHANGED dbVars
    BY <1>4 DEF TriggerAllHealthChecks
  <2> QED BY <2>3, <2>4, StartsElsewhere DEF Lifecycle!LifecycleNext
<1>5. ASSUME NEW c \in Callsigns, ReceivePacket(c)
      PROVE  CheckFollows' /\ Lifecycle!LifecycleNext
  <2>1. \A t \in Threads :
           /\ check'[t].pc = check[t].pc
           /\ check'[t].service = check[t].service
           /\ check'[t].current = check[t].current
           /\ check'[t].new = check[t].new
    BY <1>5 DEF ReceivePacket, LifeInv, SystemInv, HealthInv, HealthTypeOK,
                Check
  <2>2. status' = status
    BY <1>5 DEF ReceivePacket, dbVars
  <2> QED
    BY <2>1, <2>2, ChecksStay
       DEF Lifecycle!LifecycleNext, Lifecycle!Elsewhere, Lifecycle!ChecksEnd
<1> QED BY <1>2, <1>3, <1>4, <1>5 DEF HealthNext

\* Checks never delete, so what handlers have prepared stays right.
LEMMA HealthNextKeepsPrepared ==
    ASSUME LifeInv, HealthNext, UNCHANGED webVars
    PROVE  StatusWritesByAdmin' /\ PreparedRowsKeepDeleted'
<1>1. StatusWritesByAdmin'
  BY DEF LifeInv, StatusWritesByAdmin, webVars
<1>2. \A c \in Callsigns : status'[c] = "deleted" => status[c] = "deleted"
  <2>1. CASE \E t \in Threads : UpdateStatus(t)
    <3>1. PICK t \in Threads : UpdateStatus(t)
      BY <2>1
    <3>2. check[t].new # "deleted"
      BY <3>1 DEF LifeInv, CheckFollows, Judged, VerdictFollows, UpdateStatus,
                  At, Lifecycle!CheckEdges
    <3>3. status' = [status EXCEPT ![Service(t)] = check[t].new]
      BY <3>1 DEF UpdateStatus, UpdateServiceStatus
    <3> QED BY <3>2, <3>3 DEF LifeInv, SystemInv, WebInv, WebOK, DBTypeOK
  <2>2. CASE ~\E t \in Threads : UpdateStatus(t)
    <3>1. status' = status
      BY <2>2 DEF HealthNext, JobFires, TriggerHealthCheck,
                  TriggerAllHealthChecks, ReceivePacket, ThreadStep,
                  SkipDeleted, BeginCheck, CannotSend, SendMessage, PollHears,
                  Retry, GiveUp, LateLookup, TakeTimestamp, Judge, RecordResult,
                  AddHealthCheck, serviceVars, dbVars
    <3> QED BY <3>1
  <2> QED BY <2>1, <2>2
<1>3. \A w \in loop : w.service \in Callsigns
  BY DEF LifeInv, SystemInv, WebInv, WebOK, WebTypeOK, Write
<1>4. PreparedRowsKeepDeleted'
  BY <1>2, <1>3 DEF LifeInv, PreparedRowsKeepDeleted, webVars
<1> QED BY <1>1, <1>4
-----------------------------------------------------------------------------
(* Steps of the handlers *)

\* What both kinds of write do to the lifecycle: the actor sets the status.
ActorSets(c, new, actor) ==
    /\ audit'.actor = actor
    /\ Lifecycle!Set(c, new)
    /\ HeldStatuses' = HeldStatuses

LEMMA WritesSet ==
    ASSUME LifeInv, UNCHANGED healthVars, NEW c, NEW actor
    PROVE  /\ \A new : UpdateServiceStatus(c, new, actor) =>
                 ActorSets(c, new, actor)
           /\ \A row : UpsertService(c, row, actor) =>
                 ActorSets(c, row.status, actor)
<1>1. HeldStatuses' = HeldStatuses
  BY DEF healthVars, HeldStatuses, InFlight, At
<1> QED
  BY <1>1 DEF ActorSets, UpdateServiceStatus, UpsertService, Audit,
              Lifecycle!Set

LEMMA AdminSetMoves ==
    ASSUME NEW c \in Callsigns, NEW new \in Statuses, ActorSets(c, new, "admin")
    PROVE  Lifecycle!LifecycleNext
BY DEF ActorSets, Lifecycle!LifecycleNext, Lifecycle!AdminMoves,
       Lifecycle!AllStatuses, Statuses

LEMMA ApiSetMoves ==
    ASSUME NEW c \in Callsigns, NEW new \in Statuses, ActorSets(c, new, "api"),
           ~(status[c] = "deleted" /\ new = "active")
    PROVE  Lifecycle!LifecycleNext
BY DEF ActorSets, Lifecycle!LifecycleNext, Lifecycle!OwnerMoves,
       Lifecycle!AllStatuses, Statuses

\* A row on its way is written: by an admin, or by its owner, and then it
\* does not make a deleted service active.
LEMMA PerformWriteMoves ==
    ASSUME LifeInv, PerformWrite, UNCHANGED healthVars
    PROVE  Lifecycle!LifecycleNext
<1>1. PICK w \in loop :
         \/ w.op = "upsert" /\ UpsertService(w.service, w.row, w.actor)
         \/ w.op = "status"
            /\ UpdateServiceStatus(w.service, w.row.status, w.actor)
  BY DEF PerformWrite
<1>2. /\ w.service \in Callsigns /\ w.row.status \in Statuses
      /\ w.actor \in {"api", "admin"}
  BY DEF LifeInv, SystemInv, WebInv, WebOK, WebTypeOK, Write, ServiceRow
<1>3. ActorSets(w.service, w.row.status, w.actor)
  BY <1>1, WritesSet
<1>4. CASE w.actor = "admin"
  BY <1>2, <1>3, <1>4, AdminSetMoves
<1>5. CASE w.actor = "api"
  <2>1. w.op = "upsert"
    BY <1>1, <1>5 DEF LifeInv, StatusWritesByAdmin
  <2>2. ~(status[w.service] = "deleted" /\ w.row.status = "active")
    BY <1>5, <2>1 DEF LifeInv, PreparedRowsKeepDeleted
  <2> QED BY <1>2, <1>3, <1>5, <2>2, ApiSetMoves
<1> QED BY <1>2, <1>4, <1>5

LEMMA DeleteServiceMoves ==
    ASSUME LifeInv, UNCHANGED healthVars, NEW c \in Callsigns,
           NEW actor \in {"api", "admin"}, DeleteService(c, actor)
    PROVE  Lifecycle!LifecycleNext
<1>1. ActorSets(c, "deleted", actor)
  BY WritesSet DEF DeleteService, DeleteServiceRow
<1> QED BY <1>1, AdminSetMoves, ApiSetMoves DEF Statuses

LEMMA SubmitEditMoves ==
    ASSUME LifeInv, UNCHANGED healthVars, NEW e \in edits, NEW f \in Forms,
           SubmitEdit(e, f)
    PROVE  Lifecycle!LifecycleNext
<1>1. e.service \in Callsigns /\ e.row \in ServiceRow
  BY DEF LifeInv, SystemInv, WebInv, WebOK, WebTypeOK, Edit
<1>2. PICK row \in ServiceRow : row = EditedRow(e.row, f)
  BY <1>1, FormRowsType
<1>3. row.status \in Statuses
  BY DEF ServiceRow
<1>4. ActorSets(e.service, row.status, "admin")
  BY <1>2, WritesSet DEF SubmitEdit
<1> QED BY <1>1, <1>3, <1>4, AdminSetMoves

\* The other handlers leave every status alone.
LEMMA WebNextMoves ==
    ASSUME LifeInv, WebNext, UNCHANGED healthVars
    PROVE  Lifecycle!LifecycleNext
<1>1. CASE status' = status
  <2>1. HeldStatuses' = HeldStatuses
    BY DEF healthVars, HeldStatuses, InFlight, At
  <2> QED
    BY <1>1, <2>1 DEF Lifecycle!LifecycleNext, Lifecycle!Elsewhere,
                      Lifecycle!ChecksEnd
<1>2. ASSUME NEW c \in Callsigns, ServiceRequest(c)
      PROVE  \/ status' = status
             \/ \E actor \in {"api", "admin"} : DeleteService(c, actor)
  BY <1>2 DEF ServiceRequest, Register, CreateService, UndeleteService,
              ToggleFeatured, ToggleFeaturedFlag, OpenEdit, dbVars
<1>3. ASSUME NEW c \in Callsigns, CommandRequest(c)
      PROVE  status' = status
  BY <1>3 DEF CommandRequest, SetCommands, AddCommand, AddCommandRow,
              DeleteCommand, RemoveCommandRows, SubmitCommand,
              SubmitCommandRow, serviceVars, dbVars
<1>4. ASSUME NEW s \in submissions, Moderation(s)
      PROVE  status' = status
  BY <1>4 DEF Moderation, ApproveCommand, RejectCommand, ApproveSubmissionRow,
              RejectSubmissionRow, serviceVars
<1>5. ASSUME NEW e \in edits, EditStep(e)
      PROVE  status' = status \/ \E f \in Forms : SubmitEdit(e, f)
  BY <1>5 DEF EditStep, AbandonEdit, dbVars
<1> QED
  BY <1>1, <1>2, <1>3, <1>4, <1>5, PerformWriteMoves, DeleteServiceMoves,
     SubmitEditMoves DEF WebNext

\* A prepared row carries the status its sender asked for or the one that
\* was read; nothing is prepared or deleted while another is on its way.
LEMMA WebNextKeepsPrepared ==
    ASSUME LifeInv, WebNext
    PROVE  StatusWritesByAdmin' /\ PreparedRowsKeepDeleted'
<1>1. CASE loop' = {}
  BY <1>1 DEF StatusWritesByAdmin, PreparedRowsKeepDeleted
<1>2. ASSUME NEW c, NEW row, Prepare("upsert", c, row, "admin"),
             status' = status,
             status[c] = "deleted" => row.status = "deleted"
      PROVE  StatusWritesByAdmin' /\ PreparedRowsKeepDeleted'
  BY <1>2 DEF Prepare, StatusWritesByAdmin, PreparedRowsKeepDeleted
<1>3. ASSUME NEW c \in Callsigns, NEW r \in Requests, Register(c, r)
      PROVE  StatusWritesByAdmin' /\ PreparedRowsKeepDeleted'
  <2>1. status[c] = "deleted" => RegisteredRow(c, r).status # "active"
    BY DEF RegisteredRow, Registered
  <2> QED
    BY <1>3, <2>1 DEF Register, Prepare, StatusWritesByAdmin,
                      PreparedRowsKeepDeleted, dbVars
<1>4. ASSUME NEW c \in Callsigns, NEW f \in Forms, CreateService(c, f)
      PROVE  StatusWritesByAdmin' /\ PreparedRowsKeepDeleted'
  BY <1>2, <1>4 DEF CreateService, Registered, dbVars
<1>5. ASSUME NEW c \in Callsigns, UndeleteService(c)
      PROVE  StatusWritesByAdmin' /\ PreparedRowsKeepDeleted'
  BY <1>5 DEF UndeleteService, Prepare, StatusWritesByAdmin,
              PreparedRowsKeepDeleted
<1>6. ASSUME NEW c \in Callsigns, NEW names \in CommandLists,
             SetCommands(c, names)
      PROVE  StatusWritesByAdmin' /\ PreparedRowsKeepDeleted'
  <2>1. PICK row : row = [GetService(c) EXCEPT !.commands = names]
    OBVIOUS
  <2>2. row.status = status[c]
    BY <2>1 DEF GetService
  <2> QED BY <1>2, <1>6, <2>1, <2>2 DEF SetCommands, dbVars
<1>7. ASSUME NEW c \in Callsigns, OpenEdit(c)
      PROVE  loop' = {}
  BY <1>7 DEF OpenEdit, LoopFree
<1>8. ASSUME NEW c \in Callsigns, ServiceRequest(c)
      PROVE  StatusWritesByAdmin' /\ PreparedRowsKeepDeleted'
  BY <1>1, <1>3, <1>4, <1>5, <1>7, <1>8
     DEF ServiceRequest, DeleteService, ToggleFeatured, LoopFree, webVars
<1>9. ASSUME NEW c \in Callsigns, CommandRequest(c)
      PROVE  StatusWritesByAdmin' /\ PreparedRowsKeepDeleted'
  BY <1>1, <1>6, <1>9
     DEF CommandRequest, AddCommand, DeleteCommand, SubmitCommand, LoopFree,
         webVars
<1>10. ASSUME NEW e \in edits, EditStep(e)
       PROVE  loop' = {}
  BY <1>10 DEF EditStep, SubmitEdit, AbandonEdit, LoopFree
<1>11. ASSUME NEW s \in submissions, Moderation(s)
       PROVE  loop' = {}
  BY <1>11 DEF Moderation, ApproveCommand, RejectCommand, LoopFree, webVars
<1>12. PerformWrite => loop' = {}
  BY DEF PerformWrite
<1> QED BY <1>1, <1>8, <1>9, <1>10, <1>11, <1>12 DEF WebNext
-----------------------------------------------------------------------------
(* Every step *)

LEMMA LifeInit ==
    ASSUME Init
    PROVE  LifeInv /\ Lifecycle!LifecycleInit
<1>1. SystemInv
  BY SystemInit
<1>2. CheckFollows /\ StatusWritesByAdmin /\ PreparedRowsKeepDeleted
  BY DEF Init, HealthInit, WebInit, Idle, CheckFollows, Begun, Judged,
         StatusWritesByAdmin, PreparedRowsKeepDeleted
<1>3. HeldStatuses = [c \in Callsigns |-> {}]
  BY HealthAssumption DEF HeldStatuses, InFlight, Init, HealthInit, Idle,
                          HealthAssumption
<1> QED
  BY <1>1, <1>2, <1>3 DEF LifeInv, Lifecycle!LifecycleInit, Init, DBInit

LEMMA LifeStep ==
    ASSUME LifeInv, [Next]_vars
    PROVE  LifeInv' /\ [Lifecycle!LifecycleNext]_Lifecycle!lifecycleVars
<1>1. SystemInv'
  BY SystemStep DEF LifeInv
<1>2. CASE HealthNext /\ UNCHANGED webVars
  BY <1>1, <1>2, HealthNextFollows, HealthNextKeepsPrepared DEF LifeInv
<1>3. CASE WebNext /\ UNCHANGED healthVars
  <2>1. CheckFollows'
    BY <1>3, ChecksStay DEF healthVars
  <2> QED BY <1>1, <1>3, <2>1, WebNextMoves, WebNextKeepsPrepared DEF LifeInv
<1>4. CASE Restart
  <2>1. \A t \in Threads : check'[t] = Idle
    BY <1>4 DEF Restart, RestartChecks
  <2>2. CheckFollows' /\ StatusWritesByAdmin' /\ PreparedRowsKeepDeleted'
    BY <1>4, <2>1 DEF Restart, CheckFollows, Begun, Judged, Idle,
                      StatusWritesByAdmin, PreparedRowsKeepDeleted
  <2>3. HeldKept
    BY <2>1, ContinuesHeld DEF Continues, Idle
  <2> QED
    BY <1>1, <1>4, <2>2, <2>3
       DEF LifeInv, Lifecycle!LifecycleNext, Lifecycle!Elsewhere,
           Lifecycle!ChecksEnd, HeldKept, Restart, RestartChecks, dbVars
<1>5. CASE UNCHANGED vars
  <2>1. CheckFollows' /\ HeldStatuses' = HeldStatuses
    BY <1>5, ChecksStay DEF vars, healthVars
  <2>2. StatusWritesByAdmin' /\ PreparedRowsKeepDeleted'
    BY <1>5 DEF LifeInv, StatusWritesByAdmin, PreparedRowsKeepDeleted, vars,
                webVars, dbVars
  <2> QED
    BY <1>1, <1>5, <2>1, <2>2
       DEF LifeInv, Lifecycle!lifecycleVars, vars, dbVars
<1> QED BY <1>2, <1>3, <1>4, <1>5 DEF Next

LEMMA LifeInvariant == Spec => []LifeInv
<1>1. Init => LifeInv
  BY LifeInit
<1>2. LifeInv /\ [Next]_vars => LifeInv'
  BY LifeStep
<1> QED BY <1>1, <1>2, PTL DEF Spec
-----------------------------------------------------------------------------
\* A step that makes a deleted service active writes the status alone, or is
\* the end of an edit that was suspended: no prepared row does.
LEMMA RevivalSteps ==
    ASSUME LifeInv, [Next]_vars, NEW c \in Callsigns,
           status[c] = "deleted", status'[c] = "active"
    PROVE  \/ audit'.action = "status_change"
           \/ \E e \in edits \ edits' : e.service = c
<1>1. status # status'
  OBVIOUS
<1>2. ASSUME NEW d, NEW new, NEW actor, UpdateServiceStatus(d, new, actor)
      PROVE  audit'.action = "status_change"
  BY <1>2 DEF UpdateServiceStatus, Audit
<1>3. CASE HealthNext
  <2>1. PICK t \in Threads : UpdateStatus(t)
    BY <1>1, <1>3
       DEF HealthNext, JobFires, TriggerHealthCheck, TriggerAllHealthChecks,
           ReceivePacket, ThreadStep, SkipDeleted, BeginCheck, CannotSend,
           SendMessage, PollHears, Retry, GiveUp, LateLookup, TakeTimestamp,
           Judge, RecordResult, AddHealthCheck, serviceVars, dbVars
  <2> QED BY <1>2, <2>1 DEF UpdateStatus
<1>4. CASE WebNext
  <2>1. CASE PerformWrite
    <3>1. PICK w \in loop :
             \/ w.op = "upsert" /\ UpsertService(w.service, w.row, w.actor)
             \/ w.op = "status"
                /\ UpdateServiceStatus(w.service, w.row.status, w.actor)
      BY <2>1 DEF PerformWrite
    <3>2. CASE w.op = "upsert" /\ UpsertService(w.service, w.row, w.actor)
      <4>1. w.service = c /\ w.row.status = "active"
        BY <3>2 DEF UpsertService, LifeInv, SystemInv, WebInv, WebOK, DBTypeOK
      <4> QED BY <3>2, <4>1 DEF LifeInv, PreparedRowsKeepDeleted
    <3> QED BY <1>2, <3>1, <3>2
  <2>2. ASSUME NEW d \in Callsigns, ServiceRequest(d)
        PROVE  audit'.action = "status_change"
    BY <1>1, <1>2, <2>2
       DEF ServiceRequest, Register, CreateService, UndeleteService,
           DeleteService, DeleteServiceRow, ToggleFeatured,
           ToggleFeaturedFlag, OpenEdit, dbVars
  <2>3. ASSUME NEW d \in Callsigns, CommandRequest(d)
        PROVE  FALSE
    BY <1>1, <2>3 DEF CommandRequest, SetCommands, AddCommand, AddCommandRow,
                      DeleteCommand, RemoveCommandRows, SubmitCommand,
                      SubmitCommandRow, serviceVars, dbVars
  <2>4. ASSUME NEW s \in submissions, Moderation(s)
        PROVE  FALSE
    BY <1>1, <2>4 DEF Moderation, ApproveCommand, RejectCommand,
                      ApproveSubmissionRow, RejectSubmissionRow, serviceVars
  <2>5. ASSUME NEW e \in edits, EditStep(e)
        PROVE  e \in edits \ edits' /\ e.service = c
    <3>1. PICK f \in Forms : SubmitEdit(e, f)
      BY <1>1, <2>5 DEF EditStep, AbandonEdit, dbVars
    <3>2. e.service = c
      BY <3>1 DEF SubmitEdit, UpsertService, LifeInv, SystemInv, WebInv,
                  WebOK, DBTypeOK
    <3> QED BY <3>1, <3>2 DEF SubmitEdit
  <2> QED BY <1>4, <2>1, <2>2, <2>3, <2>4, <2>5 DEF WebNext
<1> QED BY <1>1, <1>3, <1>4 DEF Next, Restart, RestartChecks, vars, dbVars

\* registry() and set_commands, which write back a whole row right after they
\* read it, never make a deleted service active: it takes a write of the
\* status alone, or admin_edit_service, which awaits its form in between.
THEOREM RewritesKeepDeletedHolds == Spec => RewritesKeepDeleted
<1> DEFINE Kept ==
        \A c \in Callsigns :
            status[c] = "deleted" /\ status'[c] = "active" =>
                \/ audit'.action = "status_change"
                \/ \E e \in edits \ edits' : e.service = c
<1>1. LifeInv /\ [Next]_vars => Kept
  BY RevivalSteps
<1> HIDE DEF Kept
<1>2. LifeInv /\ [Next]_vars => [Kept]_vars
  BY <1>1
<1> QED BY <1>2, LifeInvariant, PTL DEF Spec, RewritesKeepDeleted, Kept

\* The running registry implements ServiceLifecycle: whatever checks,
\* handlers and restarts do, in whatever order, every change of a status is
\* a transition of guide.html from a status that a check has read, or is
\* asked for by the owner or an admin.
THEOREM StatusesFollowLifecycleHolds == Spec => StatusesFollowLifecycle
<1>1. Init => Lifecycle!LifecycleInit
  BY LifeInit
<1>2. LifeInv /\ [Next]_vars =>
         [Lifecycle!LifecycleNext]_Lifecycle!lifecycleVars
  BY LifeStep
<1> QED
  BY <1>1, <1>2, LifeInvariant, PTL
     DEF Spec, StatusesFollowLifecycle, Lifecycle!LifecycleSpec

\* faq.html: "deleted services cannot be re-registered automatically": a
\* deleted service becomes active only through an admin, or through a check
\* that read another status before the service was deleted.
THEOREM RevivalNeedsAuthorityHolds == Spec => Lifecycle!RevivalNeedsAuthority
<1> DEFINE Authorized ==
        \A c \in Callsigns :
            status[c] = "deleted" /\ status'[c] = "active" =>
                \/ (audit.actor)' = "admin"
                \/ (audit.actor)' = "scheduler" /\ HeldStatuses[c] # {}
<1>1. LifeInv /\ [Next]_vars => Authorized \/ UNCHANGED Lifecycle!lifecycleVars
  <2> SUFFICES ASSUME LifeInv, Lifecycle!LifecycleNext,
                      NEW c \in Callsigns,
                      status[c] = "deleted", status'[c] = "active"
               PROVE  \/ audit'.actor = "admin"
                      \/ audit'.actor = "scheduler" /\ HeldStatuses[c] # {}
    BY LifeStep
  <2>1. status \in [Callsigns -> Statuses \cup {"absent"}]
    BY DEF LifeInv, SystemInv, WebInv, WebOK, DBTypeOK
  <2>2. PICK d \in Callsigns :
           Lifecycle!CheckMoves(d) \/ Lifecycle!OwnerMoves(d)
           \/ Lifecycle!AdminMoves(d)
    BY DEF Lifecycle!LifecycleNext, Lifecycle!CheckReads, Lifecycle!Elsewhere
  <2>3. CASE Lifecycle!CheckMoves(d)
    BY <2>1, <2>3 DEF Lifecycle!CheckMoves, Lifecycle!Set
  <2>4. CASE Lifecycle!OwnerMoves(d)
    BY <2>1, <2>4 DEF Lifecycle!OwnerMoves, Lifecycle!Set
  <2>5. CASE Lifecycle!AdminMoves(d)
    BY <2>5 DEF Lifecycle!AdminMoves
  <2> QED BY <2>2, <2>3, <2>4, <2>5
<1> HIDE DEF Authorized
<1>2. LifeInv /\ [Next]_vars => [Authorized]_Lifecycle!lifecycleVars
  BY <1>1
<1> QED
  BY <1>2, LifeInvariant, PTL
     DEF Spec, Lifecycle!RevivalNeedsAuthority, Authorized
-----------------------------------------------------------------------------
(* What a check decides is what its result, once recorded, makes of the
   history, although the decision is made before.  That needs the check to be
   the only one of its service between reading the history and adding to it. *)

JudgedByHistory ==
    \A t \in Threads, c \in Unattended :
        check[t].pc = "recording" /\ check[t].service = c =>
            check[t].new = NewStatus(check[t].current, check[t].heard,
                                     ConsecutiveFailures(c) + 1)

\* Rows are recorded by RecordResult alone.
LEMMA OnlyRecordingWrites ==
    ASSUME [Next]_vars, ~ \E t \in Threads : RecordResult(t)
    PROVE  checks' = checks
<1>1. CASE HealthNext
  BY <1>1 DEF HealthNext, ThreadStep, SkipDeleted, BeginCheck, CannotSend,
              SendMessage, PollHears, Retry, GiveUp, LateLookup, TakeTimestamp, Judge,
              UpdateStatus, UpdateServiceStatus, JobFires, TriggerHealthCheck,
              TriggerAllHealthChecks, ReceivePacket, dbVars
<1>2. CASE WebNext
  BY <1>2, HandlersLeaveChecks
<1> QED BY <1>1, <1>2 DEF Next, Restart, RestartChecks, vars, dbVars

\* A thread with a verdict has just reached it, or had it before the step.
LEMMA VerdictsStay ==
    ASSUME LifeInv, [Next]_vars, NEW t \in Threads,
           check'[t].pc = "recording", ~Judge(t)
    PROVE  check'[t] = check[t]
<1>0. check \in [Threads -> Check]
  BY DEF LifeInv, SystemInv, HealthInv, HealthTypeOK
<1>1. ASSUME NEW u \in Threads, ThreadStep(u)
      PROVE  check'[t] = check[t]
  <2>1. CASE u # t
    BY <1>0, <1>1, <2>1
       DEF ThreadStep, SkipDeleted, BeginCheck, CannotSend, SendMessage,
           PollHears, Retry, GiveUp, LateLookup, TakeTimestamp, Judge, RecordResult,
           UpdateStatus
  <2>2. CASE u = t
    <3>1. CASE SendMessage(t) \/ Retry(t)
      <4>1. PICK pc \in SendOutcome, n \in {0, 1, check[t].attempt + 1} :
               check'[t] = [check[t] EXCEPT !.pc = pc, !.attempt = n]
        BY <1>0, <3>1 DEF SendMessage, Retry, SendOutcome
      <4> QED BY <1>0, <4>1 DEF SendOutcome, Check
    <3>2. CASE SkipDeleted(t) \/ UpdateStatus(t) \/ RecordResult(t)
      BY <1>0, <3>2 DEF SkipDeleted, UpdateStatus, RecordResult, Idle, Check
    <3>3. CASE BeginCheck(t) \/ CannotSend(t) \/ PollHears(t) \/ GiveUp(t)
               \/ LateLookup(t) \/ TakeTimestamp(t)
      BY <1>0, <3>3 DEF BeginCheck, CannotSend, PollHears, GiveUp, LateLookup,
                        TakeTimestamp, Check
    <3> QED BY <1>1, <2>2, <3>1, <3>2, <3>3 DEF ThreadStep
  <2> QED BY <2>1, <2>2
<1>2. ASSUME NEW u \in Threads, NEW c \in Callsigns,
             JobFires(u, c) \/ TriggerHealthCheck(u, c)
      PROVE  check'[t] = check[t]
  BY <1>0, <1>2, StartedCheck DEF JobFires, TriggerHealthCheck
<1>3. ASSUME TriggerAllHealthChecks
      PROVE  check'[t] = check[t]
  <2>1. \/ check'[t] = check[t]
        \/ \E c \in CheckableServices : check'[t] = Started(c, "manual")
    BY <1>3 DEF TriggerAllHealthChecks
  <2>2. CheckableServices \subseteq Callsigns
    BY DEF CheckableServices, GetAllServices
  <2> QED BY <2>1, <2>2, StartedCheck
<1>4. ASSUME NEW c \in Callsigns, ReceivePacket(c)
      PROVE  check'[t] = check[t]
  <2>1. CASE Service(t) # c
    BY <1>4, <2>1 DEF ReceivePacket
  <2>2. CASE Service(t) = c
    <3>1. check'[t] = [check[t] EXCEPT !.packet = Overheard(check[t])]
      BY <1>4, <2>2 DEF ReceivePacket
    <3>2. check[t].pc = "recording"
      BY <1>0, <3>1 DEF Check
    <3> QED BY <1>0, <3>1, <3>2 DEF Overheard, Check
  <2> QED BY <2>1, <2>2
<1>5. CASE Restart
  BY <1>5 DEF Restart, RestartChecks, Idle
<1>6. CASE UNCHANGED check
  BY <1>6
<1> QED BY <1>1, <1>2, <1>3, <1>4, <1>5, <1>6
        DEF Next, HealthNext, vars, healthVars

LEMMA JudgedByHistoryStep ==
    ASSUME LifeInv, JudgedByHistory, [Next]_vars
    PROVE  JudgedByHistory'
<1> SUFFICES ASSUME NEW t \in Threads, NEW c \in Unattended,
                    check'[t].pc = "recording", check'[t].service = c
             PROVE  check'[t].new =
                       NewStatus(check'[t].current, check'[t].heard,
                                 ConsecutiveFailures(c)' + 1)
  BY DEF JudgedByHistory, Unattended, NewStatus
<1>0. check \in [Threads -> Check]
  BY DEF LifeInv, SystemInv, HealthInv, HealthTypeOK
<1>1. CASE Judge(t)
  <2> DEFINE n == ConsecutiveFailures(Service(t)) + 1
             new == NewStatus(check[t].current, check[t].heard, n)
  <2>1. check'[t] = [check[t] EXCEPT !.pc = "recording", !.new = new]
    BY <1>0, <1>1 DEF Judge
  <2> HIDE DEF n, new
  <2>2. /\ check'[t].new = new /\ check'[t].current = check[t].current
        /\ check'[t].heard = check[t].heard
        /\ check'[t].service = check[t].service
    BY <1>0, <2>1 DEF Check
  <2>3. ConsecutiveFailures(c)' + 1 = n
    <3>1. checks' = checks
      BY <1>1 DEF Judge, dbVars
    <3> QED BY <2>2, <3>1
            DEF n, ConsecutiveFailures, RecentFailures, Service
  <2> QED BY <2>2, <2>3 DEF new
<1>2. CASE ~Judge(t)
  <2>1. check'[t] = check[t]
    BY <1>2, VerdictsStay
  <2>2. checks'[c] = checks[c]
    <3>1. CASE \E u \in Threads : RecordResult(u)
      <4>1. PICK u \in Threads : RecordResult(u)
        BY <3>1
      <4>2. u # t
        BY <1>0, <2>1, <4>1 DEF RecordResult, At, Idle, Check
      <4>3. check[u].service # c
        BY <2>1, <4>2
           DEF LifeInv, SystemInv, HealthInv, SoleCheck, InFlight
      <4> QED BY <4>1, <4>3
              DEF RecordResult, AddHealthCheck, Service, LifeInv, SystemInv,
                  HealthInv, ChecksTypeOK, Unattended
    <3>2. CASE ~ \E u \in Threads : RecordResult(u)
      BY <3>2, OnlyRecordingWrites
    <3> QED BY <3>1, <3>2
  <2>3. ConsecutiveFailures(c)' = ConsecutiveFailures(c)
    BY <2>2 DEF ConsecutiveFailures, RecentFailures
  <2> QED BY <2>1, <2>3 DEF JudgedByHistory
<1> QED BY <1>1, <1>2

\* The result joins the history: a success ends every row of failures, and a
\* failure makes it one longer.
LEMMA ResultCounts ==
    ASSUME LifeInv, NEW t \in Threads, RecordResult(t),
           NEW c \in Unattended, Service(t) = c
    PROVE  ConsecutiveFailures(c)' =
               IF check[t].heard THEN 0 ELSE ConsecutiveFailures(c) + 1
<1>1. /\ check[t] \in Check /\ check[t].pc = "recording"
      /\ check[t].service = c /\ c \in Callsigns
  BY DEF LifeInv, SystemInv, HealthInv, HealthTypeOK, RecordResult, At,
         Service, Unattended
<1>2. PICK at \in Nat, ok \in BOOLEAN : at = check[t].at /\ ok = check[t].heard
  BY <1>1 DEF Check
<1>3. AddHealthCheck(c, [at |-> at, ok |-> ok])
  BY <1>2 DEF RecordResult
<1>4. ChecksTypeOK /\ IsFiniteSet(checks[c])
  BY <1>1 DEF LifeInv, SystemInv, HealthInv, Stamps
<1>5. \A r \in checks[c] : r.at < at /\ r.at # at
  BY <1>1, <1>2
     DEF LifeInv, SystemInv, HealthInv, NewestStamp, Stamps, Stamped
<1>6. CASE ~ok
  BY <1>1, <1>2, <1>3, <1>4, <1>5, <1>6, RecordedCounts
<1>7. CASE ok
  <2> DEFINE row == [at |-> at, ok |-> ok]
  <2>1. row.at = at /\ row.ok
    BY <1>7
  <2>2. checks'[c] = checks[c] \cup {row}
    BY <1>1, <1>3, <1>4 DEF AddHealthCheck, ChecksTypeOK
  <2> HIDE DEF row
  <2>3. \A r \in checks[c] : r.at \in Nat
    BY <1>1, <1>4 DEF ChecksTypeOK, HealthRow
  <2>4. RecentFailures(c)' = {}
    <3> SUFFICES ASSUME NEW r \in checks'[c], ~r.ok,
                        \A s \in checks'[c] : s.ok => s.at < r.at
                 PROVE  FALSE
      BY DEF RecentFailures
    <3>1. r \in checks[c] /\ at < r.at
      BY <2>1, <2>2
    <3> QED BY <1>2, <1>5, <2>3, <3>1
  <2> QED BY <1>2, <1>7, <2>4, FS_EmptySet DEF ConsecutiveFailures
<1> QED BY <1>6, <1>7

\* guide.html, "Status Transitions": a check of a service only the scheduler
\* checks decides what the list says of the history with its own result.
THEOREM DecidedByHistoryHolds == Spec => DecidedByHistory
<1> DEFINE Decision ==
       \A t \in Threads, c \in Unattended :
          /\ At(t, "recording")
          /\ Service(t) = c
          /\ checks'[c] # checks[c]
          => LET failures == ConsecutiveFailures(c)'
                 current == check[t].current
                 decided == IF check'[t].pc = "updating" THEN check'[t].new
                            ELSE current
             IN decided =
                   CASE failures = 0 -> "active"
                     [] failures > 0 /\ current = "active" -> "pending"
                     [] failures > 0 /\ current = "pending" ->
                            IF failures >= FailuresForDown THEN "down"
                            ELSE "pending"
                     [] failures > 0 /\ current \notin {"active", "pending"} ->
                            current
<1>1. Init => LifeInv /\ JudgedByHistory
  BY LifeInit DEF Init, HealthInit, Idle, JudgedByHistory
<1>2. LifeInv /\ JudgedByHistory /\ [Next]_vars => (LifeInv /\ JudgedByHistory)'
  BY LifeStep, JudgedByHistoryStep
<1>3. ASSUME LifeInv, JudgedByHistory, [Next]_vars
      PROVE  Decision
  <2> SUFFICES ASSUME NEW t \in Threads, NEW c \in Unattended,
                      check[t].pc = "recording", Service(t) = c,
                      checks'[c] # checks[c]
               PROVE  LET failures == ConsecutiveFailures(c)'
                          current == check[t].current
                          decided == IF check'[t].pc = "updating"
                                     THEN check'[t].new ELSE current
                      IN decided =
                         CASE failures = 0 -> "active"
                           [] failures > 0 /\ current = "active" -> "pending"
                           [] failures > 0 /\ current = "pending" ->
                                  IF failures >= FailuresForDown THEN "down"
                                  ELSE "pending"
                           [] failures > 0
                              /\ current \notin {"active", "pending"} -> current
    BY DEF At
  <2> DEFINE new == check[t].new
             current == check[t].current
             heard == check[t].heard
             before == ConsecutiveFailures(c)
             failures == ConsecutiveFailures(c)'
             decided == IF check'[t].pc = "updating" THEN check'[t].new
                        ELSE current
  <2>0. check \in [Threads -> Check] /\ check[t] \in Check
    BY <1>3 DEF LifeInv, SystemInv, HealthInv, HealthTypeOK
  <2>1. RecordResult(t)
    <3>1. PICK u \in Threads : RecordResult(u)
      BY <1>3, OnlyRecordingWrites
    <3>2. check[u].service = c
      BY <1>3, <3>1
         DEF RecordResult, AddHealthCheck, Service, LifeInv, SystemInv,
             HealthInv, ChecksTypeOK
    <3>3. u = t
      BY <1>3, <3>2
         DEF LifeInv, SystemInv, HealthInv, SoleCheck, InFlight, Service
    <3> QED BY <3>1, <3>3
  <2>2. failures = IF heard THEN 0 ELSE before + 1
    BY <1>3, <2>1, ResultCounts
  <2>3. before \in Nat
    <3>1. c \in Callsigns /\ IsFiniteSet(checks[c])
      BY <1>3 DEF Unattended, LifeInv, SystemInv, HealthInv, Stamps
    <3> QED BY <3>1, FailureCounts
  <2>4. new = NewStatus(current, heard, before + 1)
    BY <1>3 DEF JudgedByHistory, Service
  <2>5. current \in {"active", "pending", "down"} /\ heard \in BOOLEAN
    BY <1>3, <2>0
       DEF LifeInv, CheckFollows, Begun, Lifecycle!Checked,
           Lifecycle!AllStatuses, Check
  <2>6. decided = new
    <3>1. CASE new = current
      BY <2>0, <2>1, <3>1 DEF RecordResult, Idle
    <3>2. CASE new # current
      <4>1. check'[t] = [check[t] EXCEPT !.pc = "updating"]
        BY <2>0, <2>1, <3>2 DEF RecordResult
      <4> QED BY <2>0, <4>1 DEF Check
    <3> QED BY <3>1, <3>2
  <2> HIDE DEF new, current, heard, before, failures, decided
  <2>7. decided = CASE failures = 0 -> "active"
                    [] failures > 0 /\ current = "active" -> "pending"
                    [] failures > 0 /\ current = "pending" ->
                           IF failures >= FailuresForDown THEN "down"
                           ELSE "pending"
                    [] failures > 0 /\ current \notin {"active", "pending"} ->
                           current
    BY <2>2, <2>3, <2>4, <2>5, <2>6 DEF NewStatus
  <2> QED BY <2>7 DEF new, current, heard, before, failures, decided
<1> HIDE DEF Decision
<1>4. LifeInv /\ JudgedByHistory /\ [Next]_vars => [Decision]_healthSystemVars
  BY <1>3
<1>5. DecidedByHistory <=> [][Decision]_healthSystemVars
  BY DEF DecidedByHistory, Decision
<1> QED BY <1>1, <1>2, <1>4, <1>5, PTL DEF Spec
-----------------------------------------------------------------------------
(* What EveryCheckEnds rests on besides fairness: a check has a number of
   steps to go that its own steps lower and nobody else's raise. *)

StepsLeft(t) ==
    LET pc == check[t].pc
    IN CASE pc = "idle" -> 0
         [] pc = "updating" -> 1
         [] pc = "recording" -> 2
         [] pc = "stamped" -> 3
         [] pc = "judging" -> 4
         [] pc = "late" -> 5
         [] pc = "polling" -> 6 + MaxRetries - check[t].attempt
         [] pc = "begun" -> 6 + MaxRetries
         [] pc = "started" -> 7 + MaxRetries

AttemptsCounted ==
    \A t \in Threads :
        check[t].pc = "polling" => check[t].attempt \in 1..MaxRetries

LEMMA StepsLeftByPC ==
    ASSUME NEW t \in Threads, AttemptsCounted, check[t].pc \in PCs
    PROVE  /\ StepsLeft(t) \in 0..7 + MaxRetries
           /\ StepsLeft(t) = 0 <=> check[t].pc = "idle"
           /\ check[t].pc = "updating" => StepsLeft(t) = 1
           /\ check[t].pc = "recording" => StepsLeft(t) = 2
           /\ check[t].pc = "stamped" => StepsLeft(t) = 3
           /\ check[t].pc = "judging" => StepsLeft(t) = 4
           /\ check[t].pc = "late" => StepsLeft(t) = 5
           /\ check[t].pc = "polling" =>
                 /\ StepsLeft(t) = 6 + MaxRetries - check[t].attempt
                 /\ StepsLeft(t) \in 6..5 + MaxRetries
           /\ check[t].pc = "begun" => StepsLeft(t) = 6 + MaxRetries
           /\ check[t].pc = "started" => StepsLeft(t) = 7 + MaxRetries
<1>1. /\ check[t].pc = "idle" => StepsLeft(t) = 0
      /\ check[t].pc = "updating" => StepsLeft(t) = 1
      /\ check[t].pc = "recording" => StepsLeft(t) = 2
      /\ check[t].pc = "stamped" => StepsLeft(t) = 3
      /\ check[t].pc = "judging" => StepsLeft(t) = 4
      /\ check[t].pc = "late" => StepsLeft(t) = 5
      /\ check[t].pc = "polling" =>
            StepsLeft(t) = 6 + MaxRetries - check[t].attempt
      /\ check[t].pc = "begun" => StepsLeft(t) = 6 + MaxRetries
      /\ check[t].pc = "started" => StepsLeft(t) = 7 + MaxRetries
  BY DEF StepsLeft
<1>2. MaxRetries \in Nat \ {0}
  BY HealthAssumption DEF HealthAssumption
<1>3. check[t].pc = "polling" => check[t].attempt \in 1..MaxRetries
  BY DEF AttemptsCounted
<1>4. check[t].pc = "polling" =>
         /\ StepsLeft(t) \in 6..5 + MaxRetries
         /\ StepsLeft(t) \in 0..7 + MaxRetries
         /\ StepsLeft(t) # 0
  BY <1>1, <1>2, <1>3
<1>5. check[t].pc # "polling" =>
         /\ StepsLeft(t) \in 0..7 + MaxRetries
         /\ StepsLeft(t) = 0 <=> check[t].pc = "idle"
  BY <1>1, <1>2 DEF PCs
<1> QED BY <1>1, <1>4, <1>5

\* Where a step of its own takes a check.
LEMMA ThreadAdvances ==
    ASSUME LifeInv, NEW t \in Threads, ThreadStep(t)
    PROVE  LET from == check[t].pc
               to == check'[t].pc
           IN /\ \A u \in Threads \ {t} : check'[u] = check[u]
              /\ \/ to = "idle" /\ from \in {"started", "recording", "updating"}
                 \/ from = "started" /\ to = "begun"
                 \/ from = "begun" /\ to = "late"
                 \/ from = "begun" /\ to = "polling" /\ check'[t].attempt = 1
                 \/ /\ from = "polling" /\ to = "polling"
                    /\ check[t].attempt < MaxRetries
                    /\ check'[t].attempt = check[t].attempt + 1
                 \/ from = "polling" /\ to \in {"late", "judging"}
                 \/ from = "late" /\ to = "judging"
                 \/ from = "judging" /\ to = "stamped"
                 \/ from = "stamped" /\ to = "recording"
                 \/ from = "recording" /\ to = "updating"
<1>0. check \in [Threads -> Check] /\ check[t] \in Check
  BY DEF LifeInv, SystemInv, HealthInv, HealthTypeOK
<1>1. \A u \in Threads \ {t} : check'[u] = check[u]
  BY <1>0 DEF ThreadStep, SkipDeleted, BeginCheck, CannotSend, SendMessage,
              PollHears, Retry, GiveUp, LateLookup, TakeTimestamp, Judge, RecordResult,
              UpdateStatus
<1>2. CASE SendMessage(t)
  <2>1. PICK pc \in SendOutcome :
           check'[t] = [check[t] EXCEPT !.pc = pc,
                           !.attempt = IF pc = "polling" THEN 1 ELSE 0]
    BY <1>0, <1>2 DEF SendMessage
  <2> QED BY <1>0, <1>1, <1>2, <2>1 DEF SendMessage, SendOutcome, At, Check
<1>3. CASE Retry(t)
  <2>1. PICK pc \in SendOutcome :
           check'[t] = [check[t] EXCEPT !.pc = pc,
                           !.attempt = IF pc = "polling"
                                       THEN check[t].attempt + 1 ELSE 0]
    BY <1>0, <1>3 DEF Retry
  <2> QED BY <1>0, <1>1, <1>3, <2>1 DEF Retry, SendOutcome, At, Check
<1>4. CASE SkipDeleted(t) \/ UpdateStatus(t) \/ RecordResult(t)
  BY <1>0, <1>1, <1>4
     DEF SkipDeleted, UpdateStatus, RecordResult, At, Idle, Check
<1>5. CASE BeginCheck(t) \/ CannotSend(t) \/ LateLookup(t)
  BY <1>0, <1>1, <1>5 DEF BeginCheck, CannotSend, LateLookup, At, Check
<1>7. CASE PollHears(t) \/ GiveUp(t)
  <2>1. PICK pc \in {"late", "judging"}, heard \in BOOLEAN :
           check'[t] = [check[t] EXCEPT !.pc = pc, !.attempt = 0,
                                        !.heard = heard]
    <3>1. CASE PollHears(t)
      BY <1>0, <3>1 DEF PollHears
    <3>2. CASE GiveUp(t)
      <4>1. check'[t] = [check[t] EXCEPT !.pc = "late", !.attempt = 0,
                                         !.heard = check[t].heard]
        BY <1>0, <3>2 DEF GiveUp, Check
      <4> QED BY <1>0, <4>1 DEF Check
    <3> QED BY <1>7, <3>1, <3>2
  <2> QED BY <1>0, <1>1, <1>7, <2>1 DEF PollHears, GiveUp, At, Check
<1>6. CASE TakeTimestamp(t) \/ Judge(t)
  BY <1>0, <1>1, <1>6 DEF TakeTimestamp, Judge, At, Check
<1> QED BY <1>2, <1>3, <1>4, <1>5, <1>6, <1>7 DEF ThreadStep

\* What other steps do to a check in progress: end it, or nothing but bring
\* it a packet.
LEMMA OthersWait ==
    ASSUME LifeInv, [Next]_vars, NEW t \in Threads, ~ThreadStep(t)
    PROVE  \/ check'[t].pc = "idle"
           \/ /\ check'[t].pc = check[t].pc
              /\ check'[t].attempt = check[t].attempt
           \/ ~Running(t) /\ check'[t].pc = "started"
<1>0. check \in [Threads -> Check]
  BY DEF LifeInv, SystemInv, HealthInv, HealthTypeOK
<1>1. ASSUME NEW u \in Threads, ThreadStep(u)
      PROVE  check'[t] = check[t]
  BY <1>1, ThreadAdvances
<1>2. ASSUME NEW u \in Threads, NEW c \in Callsigns,
             JobFires(u, c) \/ TriggerHealthCheck(u, c)
      PROVE  \/ check'[t] = check[t]
             \/ ~Running(t) /\ check'[t].pc = "started"
  BY <1>0, <1>2, StartedCheck DEF JobFires, TriggerHealthCheck
<1>3. ASSUME TriggerAllHealthChecks
      PROVE  \/ check'[t] = check[t]
             \/ ~Running(t) /\ check'[t].pc = "started"
  <2>1. PICK thread \in [CheckableServices -> {u \in Threads : ~Running(u)}] :
          check' = [u \in Threads |->
             IF \E c \in CheckableServices : thread[c] = u
             THEN Started(CHOOSE c \in CheckableServices : thread[c] = u,
                          "manual")
             ELSE check[u]]
    BY <1>3 DEF TriggerAllHealthChecks
  <2>2. CheckableServices \subseteq Callsigns
    BY DEF CheckableServices, GetAllServices
  <2>3. CASE \E c \in CheckableServices : thread[c] = t
    <3>1. \E c \in CheckableServices : check'[t] = Started(c, "manual")
      BY <2>1, <2>3
    <3> QED BY <2>2, <2>3, <3>1, StartedCheck
  <2>4. CASE ~ \E c \in CheckableServices : thread[c] = t
    BY <2>1, <2>4
  <2> QED BY <2>3, <2>4
<1>4. ASSUME NEW c \in Callsigns, ReceivePacket(c)
      PROVE  /\ check'[t].pc = check[t].pc
             /\ check'[t].attempt = check[t].attempt
  BY <1>0, <1>4 DEF ReceivePacket, Check
<1>5. CASE Restart
  BY <1>5 DEF Restart, RestartChecks, Idle
<1>6. CASE UNCHANGED check
  BY <1>6
<1> QED BY <1>1, <1>2, <1>3, <1>4, <1>5, <1>6
        DEF Next, HealthNext, vars, healthVars

\* check_service ends: it has at most MaxRetries + 7 steps to go, each step
\* of its thread is one of them, and no packet, handler or other check ever
\* adds one.
THEOREM ChecksAreFiniteHolds ==
    Spec => /\ [](\A t \in Threads :
                     /\ StepsLeft(t) \in 0..7 + MaxRetries
                     /\ StepsLeft(t) = 0 <=> ~Running(t))
            /\ [][\A t \in Threads :
                     Running(t) =>
                        /\ StepsLeft(t)' <= StepsLeft(t)
                        /\ ThreadStep(t) => StepsLeft(t)' < StepsLeft(t)]_vars
<1> DEFINE Bounded ==
              \A t \in Threads : /\ StepsLeft(t) \in 0..7 + MaxRetries
                                 /\ StepsLeft(t) = 0 <=> ~Running(t)
           Falls ==
              \A t \in Threads :
                 Running(t) =>
                    /\ StepsLeft(t)' <= StepsLeft(t)
                    /\ ThreadStep(t) => StepsLeft(t)' < StepsLeft(t)
<1> USE HealthAssumption DEF HealthAssumption
<1>1. Init => LifeInv /\ AttemptsCounted
  BY LifeInit DEF Init, HealthInit, Idle, AttemptsCounted
<1>2. LifeInv /\ AttemptsCounted /\ [Next]_vars => AttemptsCounted'
  <2> SUFFICES ASSUME LifeInv, AttemptsCounted, [Next]_vars,
                      NEW t \in Threads, check'[t].pc = "polling"
               PROVE  check'[t].attempt \in 1..MaxRetries
    BY DEF AttemptsCounted
  <2>1. CASE ThreadStep(t)
    BY <2>1, ThreadAdvances DEF AttemptsCounted
  <2>2. CASE ~ThreadStep(t)
    BY <2>2, OthersWait DEF AttemptsCounted
  <2> QED BY <2>1, <2>2
<1>3. LifeInv /\ AttemptsCounted => Bounded
  BY StepsLeftByPC DEF LifeInv, SystemInv, HealthInv, HealthTypeOK, Check,
                       Running
<1>4. ASSUME LifeInv, AttemptsCounted, LifeInv', AttemptsCounted', [Next]_vars
      PROVE  Falls
  <2> SUFFICES ASSUME NEW t \in Threads, Running(t)
               PROVE  /\ StepsLeft(t)' <= StepsLeft(t)
                      /\ ThreadStep(t) => StepsLeft(t)' < StepsLeft(t)
    OBVIOUS
  <2>1. /\ check[t].pc \in PCs /\ check'[t].pc \in PCs
        /\ check[t].attempt \in Nat /\ check'[t].attempt \in Nat
    BY <1>4 DEF LifeInv, SystemInv, HealthInv, HealthTypeOK, Check
  <2> DEFINE n == StepsLeft(t)
             m == StepsLeft(t)'
             pc == check[t].pc
             next == check'[t].pc
  <2>2. /\ n \in 1..7 + MaxRetries
        /\ pc = "updating" => n = 1
        /\ pc = "recording" => n = 2
        /\ pc = "stamped" => n = 3
        /\ pc = "judging" => n = 4
        /\ pc = "late" => n = 5
        /\ pc = "polling" => /\ n = 6 + MaxRetries - check[t].attempt
                             /\ n >= 6
        /\ pc = "begun" => n = 6 + MaxRetries
        /\ pc = "started" => n = 7 + MaxRetries
    BY <1>4, <2>1, StepsLeftByPC DEF Running
  <2>3. /\ next = "idle" => m = 0
        /\ next = "updating" => m = 1
        /\ next = "recording" => m = 2
        /\ next = "stamped" => m = 3
        /\ next = "judging" => m = 4
        /\ next = "late" => m = 5
        /\ next = "polling" => m = 6 + MaxRetries - check'[t].attempt
        /\ next = "begun" => m = 6 + MaxRetries
        /\ next = "started" => m = 7 + MaxRetries
    BY <1>4, <2>1 DEF StepsLeft
  <2>4. pc \in PCs \ {"idle"}
    BY <2>1 DEF Running
  <2> HIDE DEF n, m
  <2>5. n \in Int /\ m \in Int
    BY <2>1, <2>2, <2>3 DEF PCs
  <2>6. CASE ThreadStep(t)
    <3>1. /\ next = "idle" /\ pc \in {"started", "recording", "updating"} =>
                m < n
          /\ pc = "started" /\ next = "begun" => m < n
          /\ pc = "begun" /\ next = "late" => m < n
          /\ pc = "polling" /\ next \in {"late", "judging"} => m < n
          /\ pc = "late" /\ next = "judging" => m < n
          /\ pc = "judging" /\ next = "stamped" => m < n
          /\ pc = "stamped" /\ next = "recording" => m < n
          /\ pc = "recording" /\ next = "updating" => m < n
      BY <2>2, <2>3
    <3>2. /\ pc = "begun" /\ next = "polling" /\ check'[t].attempt = 1 => m < n
          /\ pc = "polling" /\ next = "polling"
                /\ check'[t].attempt = check[t].attempt + 1 => m < n
      BY <2>1, <2>2, <2>3
    <3>3. \/ next = "idle" /\ pc \in {"started", "recording", "updating"}
          \/ pc = "started" /\ next = "begun"
          \/ pc = "begun" /\ next = "late"
          \/ pc = "begun" /\ next = "polling" /\ check'[t].attempt = 1
          \/ /\ pc = "polling" /\ next = "polling"
             /\ check'[t].attempt = check[t].attempt + 1
          \/ pc = "polling" /\ next \in {"late", "judging"}
          \/ pc = "late" /\ next = "judging"
          \/ pc = "judging" /\ next = "stamped"
          \/ pc = "stamped" /\ next = "recording"
          \/ pc = "recording" /\ next = "updating"
      BY <1>4, <2>6, ThreadAdvances
    <3> HIDE DEF pc, next
    <3>4. m < n
      BY <3>1, <3>2, <3>3
    <3> QED BY <2>5, <2>6, <3>4 DEF n, m
  <2>7. CASE ~ThreadStep(t)
    <3>1. m <= n
      BY <1>4, <2>1, <2>2, <2>3, <2>4, <2>7, OthersWait DEF PCs, Running
    <3> QED BY <2>7, <3>1 DEF n, m
  <2> QED BY <2>6, <2>7
<1> HIDE DEF Bounded, Falls
<1>5. Spec => [](LifeInv /\ AttemptsCounted)
  BY <1>1, <1>2, LifeStep, PTL DEF Spec
<1>6. Spec => []Bounded
  BY <1>3, <1>5, PTL
<1>7. Spec => [][Falls]_vars
  BY <1>4, <1>5, PTL DEF Spec
<1> QED BY <1>6, <1>7 DEF Bounded, Falls
=============================================================================
