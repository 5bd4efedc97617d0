---------------------------- MODULE HealthChecker ----------------------------
(***************************************************************************)
(* health_checker.py: check_service as run by APScheduler jobs and by the  *)
(* threads the trigger endpoints start, send_and_wait_for_response, the    *)
(* response tracker the persistent consumer thread fills, and the jobs     *)
(* setup_scheduler creates at startup.                                     *)
(*                                                                         *)
(* A thread's steps are cut where another thread or the event loop can     *)
(* come between two accesses to shared state.  Waiting 30 s is a choice    *)
(* between hearing the response and giving up.  Wall-clock times are kept  *)
(* as far as the code compares them: a history row has the rank of its     *)
(* timestamp among the results of its service, and a check knows whether   *)
(* the newest packet of its service is newer than its start.               *)
(***************************************************************************)
EXTENDS RegistryDB

CONSTANTS
    Threads,              \* threads that can be running checks at once
    NoService,            \* a thread that runs no check
    Manual,               \* services somebody triggers checks of by hand
    HealthChecksEnabled,  \* CONF.registry.health_check_enabled
    MaxRetries,           \* max_retries: 3 in the code
    FailuresForDown,      \* CONSECUTIVE_FAILURES_FOR_DOWN: 3 in the code
    MaxChecks             \* bound: checks of a service

ASSUME HealthAssumption ==
    /\ NoService \notin Callsigns
    /\ Manual \subseteq Callsigns
    /\ HealthChecksEnabled \in BOOLEAN
    /\ MaxRetries \in Nat \ {0}
    /\ FailuresForDown \in Nat \ {0}
    /\ MaxChecks \in Nat

VARIABLES
    check,      \* Threads -> the locals of the check the thread runs
    responses,  \* _received_responses: is there an entry for the service
    clock,      \* results of each service that have taken their timestamp
    scheduled   \* services with a job in the scheduler

healthVars == <<check, responses, clock, scheduled>>

PCs == {"idle", "started", "begun", "polling", "late", "judging", "stamped",
        "recording", "updating"}

Check ==
    [pc : PCs,
     service : Callsigns \cup {NoService},
     source : {"job", "manual"},
     current : Statuses,    \* current_status, read when the check begins
     attempt : Nat,         \* of max_retries; 0 when not polling
     heard : BOOLEAN,       \* response_text is not None
     at : Nat,              \* timestamp of the result
     new : Statuses,        \* new_status
     packet : {"none", "early", "answer"}]
                            \* the newest packet is older than the check,
                            \* or newer, or newer than its first message

Idle ==
    [pc |-> "idle", service |-> NoService, source |-> "job",
     current |-> "active", attempt |-> 0, heard |-> FALSE, at |-> 0,
     new |-> "active", packet |-> "none"]

HealthTypeOK ==
    /\ check \in [Threads -> Check]
    /\ responses \in [Callsigns -> BOOLEAN]
    /\ clock \in [Callsigns -> Nat]
    /\ scheduled \subseteq Callsigns

InFlight(c) == {t \in Threads : check[t].service = c}
Running(t) == check[t].pc # "idle"

\* get_checkable_services
CheckableServices == GetAllServices(CheckableStatuses)

\* setup_scheduler: one job per service that is checkable at that moment.
JobsAtStartup == IF HealthChecksEnabled THEN CheckableServices ELSE {}

HealthInit ==
    /\ check = [t \in Threads |-> Idle]
    /\ responses = [c \in Callsigns |-> FALSE]
    /\ clock = [c \in Callsigns |-> 0]
    /\ scheduled = JobsAtStartup
-----------------------------------------------------------------------------
(* Who starts a check *)

RoomFor(c) == clock[c] + Cardinality(InFlight(c)) < MaxChecks

Started(c, source) ==
    [Idle EXCEPT !.pc = "started", !.service = c, !.source = source]

\* The hourly job of c: APScheduler runs it on a pool thread, and skips the
\* run while an earlier one is still going (max_instances is 1).
JobFires(t, c) ==
    /\ c \in scheduled
    /\ \A u \in InFlight(c) : check[u].source # "job"
    /\ ~Running(t)
    /\ RoomFor(c)
    /\ check' = [check EXCEPT ![t] = Started(c, "job")]
    /\ UNCHANGED <<dbVars, responses, clock, scheduled>>

\* trigger_health_check and the admin page's button: a thread of its own,
\* whatever else is checking c and whatever the status of c.
TriggerHealthCheck(t, c) ==
    /\ c \in Manual
    /\ Registered(c)
    /\ ~Running(t)
    /\ RoomFor(c)
    /\ check' = [check EXCEPT ![t] = Started(c, "manual")]
    /\ UNCHANGED <<dbVars, responses, clock, scheduled>>

\* trigger_all_health_checks: one thread per checkable service.
TriggerAllHealthChecks ==
    /\ CheckableServices \subseteq Manual
    /\ \A c \in CheckableServices : RoomFor(c)
    /\ \E thread \in [CheckableServices -> {t \in Threads : ~Running(t)}] :
          /\ \A c, d \in CheckableServices : thread[c] = thread[d] => c = d
          /\ check' = [t \in Threads |->
                IF \E c \in CheckableServices : thread[c] = t
                THEN Started(CHOOSE c \in CheckableServices : thread[c] = t,
                             "manual")
                ELSE check[t]]
    /\ UNCHANGED <<dbVars, responses, clock, scheduled>>
-----------------------------------------------------------------------------
(* check_service, step by step *)

At(t, pc) == check[t].pc = pc
Service(t) == check[t].service

\* Mutant of SkipDeleted: pending services are skipped as well.
SkipPending(t) ==
    /\ At(t, "started")
    /\ status[Service(t)] # "active"
    /\ check' = [check EXCEPT ![t] = Idle]
    /\ UNCHANGED <<dbVars, responses, clock, scheduled>>

\* The service is found deleted: the check ends.
SkipDeleted(t) ==
    /\ At(t, "started")
    /\ status[Service(t)] \notin CheckableStatuses
    /\ check' = [check EXCEPT ![t] = Idle]
    /\ UNCHANGED <<dbVars, responses, clock, scheduled>>

\* get_service, then check_start_time: no packet is newer than that yet.
BeginCheck(t) ==
    /\ At(t, "started")
    /\ status[Service(t)] \in CheckableStatuses
    /\ check' = [check EXCEPT ![t] =
          [@ EXCEPT !.pc = "begun", !.current = status[Service(t)]]]
    /\ UNCHANGED <<dbVars, responses, clock, scheduled>>

\* send_and_wait_for_response returns (None, None) before it sends: checks
\* are disabled, or APRSD, its consumer or its callsign is missing.
CannotSend(t) ==
    /\ At(t, "begun")
    /\ check' = [check EXCEPT ![t].pc = "late"]
    /\ UNCHANGED <<dbVars, responses, clock, scheduled>>

\* tx.send may raise, which the function turns into (None, None).
SendOutcome == {"polling", "late"}

\* start_time is taken, the tracker's old entry dropped, the message sent.
SendMessage(t) ==
    /\ At(t, "begun")
    /\ HealthChecksEnabled
    /\ responses' = [responses EXCEPT ![Service(t)] = FALSE]
    /\ \E next \in SendOutcome :
          check' = [check EXCEPT ![t] =
              [@ EXCEPT !.pc = next,
                        !.attempt = IF next = "polling" THEN 1 ELSE 0]]
    /\ UNCHANGED <<dbVars, clock, scheduled>>

\* get_recent_response since the start of the check.  The poll asks since
\* the first message, which is the same: what was older has been dropped.
RecentResponse(t) == responses[Service(t)] /\ check[t].packet # "none"

PollHears(t) ==
    /\ At(t, "polling")
    /\ RecentResponse(t)
    /\ check' = [check EXCEPT ![t] =
          [@ EXCEPT !.pc = "judging", !.attempt = 0, !.heard = TRUE]]
    /\ UNCHANGED <<dbVars, responses, clock, scheduled>>

\* The polls of one retry interval found nothing: send once more.
Retry(t) ==
    /\ At(t, "polling")
    /\ check[t].attempt < MaxRetries
    /\ \E next \in SendOutcome :
          check' = [check EXCEPT ![t] =
              [@ EXCEPT !.pc = next,
                        !.attempt =
                    IF next = "polling" THEN check[t].attempt + 1 ELSE 0]]
    /\ UNCHANGED <<dbVars, responses, clock, scheduled>>

\* Mutant of GiveUp: the attempts are counted from zero.
GiveUpLater(t) ==
    /\ At(t, "polling")
    /\ check[t].attempt > MaxRetries
    /\ check' = [check EXCEPT ![t] =
          [@ EXCEPT !.pc = "late", !.attempt = 0]]
    /\ UNCHANGED <<dbVars, responses, clock, scheduled>>

GiveUp(t) ==
    /\ At(t, "polling")
    /\ check[t].attempt = MaxRetries
    /\ check' = [check EXCEPT ![t] =
          [@ EXCEPT !.pc = "late", !.attempt = 0]]
    /\ UNCHANGED <<dbVars, responses, clock, scheduled>>

\* Mutant of LateLookup: only packets older than the first message count.
LateLookupEarly(t) ==
    /\ At(t, "late")
    /\ check' = [check EXCEPT ![t] =
          [@ EXCEPT !.pc = "judging",
                    !.heard = RecentResponse(t) /\ check[t].packet = "early"]]
    /\ UNCHANGED <<dbVars, responses, clock, scheduled>>

\* The second look at the tracker, since check_start_time.
LateLookup(t) ==
    /\ At(t, "late")
    /\ check' = [check EXCEPT ![t] =
          [@ EXCEPT !.pc = "judging", !.heard = RecentResponse(t)]]
    /\ UNCHANGED <<dbVars, responses, clock, scheduled>>

\* Failures newer than every success.  The query reads the newest 10 rows;
\* what is compared with FailuresForDown = 3 is the same without the limit.
RecentFailures(c) ==
    {r \in checks[c] : ~r.ok /\ \A s \in checks[c] : s.ok => s.at < r.at}

ConsecutiveFailures(c) == Cardinality(RecentFailures(c))

\* Mutant of NewStatus: the current failure is counted twice.
NewStatusEarly(current, heard, failures) ==
    CASE heard /\ current \in {"pending", "down"}  -> "active"
      [] ~heard /\ current = "active"              -> "pending"
      [] ~heard /\ current = "pending"
           /\ failures + 1 >= FailuresForDown      -> "down"
      [] OTHER                                     -> current

\* Mutant of NewStatus: the current failure is not counted.
NewStatusLate(current, heard, failures) ==
    CASE heard /\ current \in {"pending", "down"}  -> "active"
      [] ~heard /\ current = "active"              -> "pending"
      [] ~heard /\ current = "pending"
           /\ failures > FailuresForDown           -> "down"
      [] OTHER                                     -> current

\* The status transitions; failures counts the current one.
NewStatus(current, heard, failures) ==
    CASE heard /\ current \in {"pending", "down"}  -> "active"
      [] ~heard /\ current = "active"              -> "pending"
      [] ~heard /\ current = "pending"
           /\ failures >= FailuresForDown          -> "down"
      [] OTHER                                     -> current

\* The HealthCheckResult is made: it takes its timestamp.
TakeTimestamp(t) ==
    /\ At(t, "judging")
    /\ clock' = [clock EXCEPT ![Service(t)] = @ + 1]
    /\ check' = [check EXCEPT ![t] =
          [@ EXCEPT !.pc = "stamped", !.at = clock[Service(t)] + 1]]
    /\ UNCHANGED <<dbVars, responses, scheduled>>

\* Mutant of Judge: failures before a success count, too.
JudgeAll(t) ==
    /\ At(t, "stamped")
    /\ check' = [check EXCEPT ![t] =
          [@ EXCEPT !.pc = "recording",
                    !.new = NewStatus(check[t].current, check[t].heard,
                        Cardinality({r \in checks[Service(t)] : ~r.ok}) + 1)]]
    /\ UNCHANGED <<dbVars, responses, clock, scheduled>>

\* The status is decided, with the history as it is now.
Judge(t) ==
    /\ At(t, "stamped")
    /\ check' = [check EXCEPT ![t] =
          [@ EXCEPT !.pc = "recording",
                    !.new = NewStatus(check[t].current, check[t].heard,
                                ConsecutiveFailures(Service(t)) + 1)]]
    /\ UNCHANGED <<dbVars, responses, clock, scheduled>>

\* add_health_check; the check ends here when the status does not change.
RecordResult(t) ==
    /\ At(t, "recording")
    /\ AddHealthCheck(Service(t), [at |-> check[t].at, ok |-> check[t].heard])
    /\ check' = [check EXCEPT ![t] =
          IF @.new # @.current THEN [@ EXCEPT !.pc = "updating"] ELSE Idle]
    /\ UNCHANGED <<responses, clock, scheduled>>

\* update_service_status with the status decided from the earlier reads.
UpdateStatus(t) ==
    /\ At(t, "updating")
    /\ UpdateServiceStatus(Service(t), check[t].new, "scheduler")
    /\ check' = [check EXCEPT ![t] = Idle]
    /\ UNCHANGED <<responses, clock, scheduled>>
-----------------------------------------------------------------------------
(* The consumer thread: _global_rx_callback and record_response *)

\* How the packet stands to the start and the first message of a check.
Overheard(k) ==
    IF k.pc \in {"polling", "late"} THEN "answer"
    ELSE IF k.pc = "begun" THEN "early"
    ELSE k.packet

ReceivePacket(c) ==
    /\ responses' = [responses EXCEPT ![c] = TRUE]
    /\ check' = [t \in Threads |->
          IF Service(t) = c
          THEN [check[t] EXCEPT !.packet = Overheard(check[t])]
          ELSE check[t]]
    /\ UNCHANGED <<dbVars, clock, scheduled>>
-----------------------------------------------------------------------------
\* The process ends, by a crash or through lifespan's shutdown, and starts
\* again: check threads end with it (they are daemon threads, or find the
\* database closed), the tracker is empty, lifespan makes the jobs anew.
RestartChecks ==
    /\ check' = [t \in Threads |-> Idle]
    /\ responses' = [c \in Callsigns |-> FALSE]
    /\ scheduled' = JobsAtStartup
    /\ UNCHANGED <<dbVars, clock>>

ThreadStep(t) ==
    \/ SkipDeleted(t)
    \/ BeginCheck(t)
    \/ CannotSend(t)
    \/ SendMessage(t)
    \/ PollHears(t)
    \/ Retry(t)
    \/ GiveUp(t)
    \/ LateLookup(t)
    \/ TakeTimestamp(t)
    \/ Judge(t)
    \/ RecordResult(t)
    \/ UpdateStatus(t)

HealthNext ==
    \/ \E t \in Threads : ThreadStep(t)
    \/ \E t \in Threads, c \in Callsigns :
          JobFires(t, c) \/ TriggerHealthCheck(t, c)
    \/ TriggerAllHealthChecks
    \/ \E c \in Callsigns : ReceivePacket(c)

\* The component by itself: it starts on a database some services are in and
\* nobody else writes to.
HealthStart ==
    /\ status \in [Callsigns -> Statuses \cup {"absent"}]
    /\ featured = [c \in Callsigns |-> FALSE]
    /\ healthCommand = [c \in Callsigns |-> NoCommand]
    /\ commands = [c \in Callsigns |-> {}]
    /\ checks = [c \in Callsigns |-> {}]
    /\ submissions = {}
    /\ audit = [actor |-> "system", action |-> "none"]
    /\ HealthInit

healthSystemVars == <<dbVars, healthVars>>

HealthSpec ==
    HealthStart /\ [][HealthNext \/ RestartChecks]_healthSystemVars

\* A started thread keeps running, and a job that is due is run: both are the
\* operating system's and APScheduler's.  Nothing makes a packet arrive or an
\* operator press a button.  Between two restarts:
HealthFairSpec ==
    /\ HealthStart
    /\ [][HealthNext]_healthSystemVars
    /\ \A t \in Threads : WF_healthSystemVars(ThreadStep(t))
    /\ \A c \in Callsigns :
          WF_healthSystemVars(\E t \in Threads : JobFires(t, c))
-----------------------------------------------------------------------------
(* Properties *)

\* The services whose checks only the scheduler starts.
Unattended == Callsigns \ Manual

\* A check that is about to take a service down has three failures in the
\* history table, its own among them; true of overlapping checks too.
DownIsBacked ==
    \A t \in Threads :
        At(t, "updating") /\ check[t].new = "down" =>
            Cardinality({r \in checks[Service(t)] : ~r.ok}) >= FailuresForDown

\* guide.html: "Pending -> Down - Occurs after 3 consecutive failed health
\* checks", for the services only the scheduler checks: at the moment the
\* status is written no success is newer than the three failures.
DownAfterConsecutiveFailures ==
    \A t \in Threads :
        /\ At(t, "updating")
        /\ check[t].new = "down"
        /\ Service(t) \in Unattended
        => ConsecutiveFailures(Service(t)) >= FailuresForDown

\* A packet that arrives between the first message and the second look at
\* the tracker makes the check pass, also between the last poll and that
\* look, for the services only the scheduler checks.
AnsweredCheckSucceeds ==
    \A t \in Threads :
        /\ Service(t) \in Unattended
        /\ check[t].packet = "answer"
        /\ check[t].pc \in {"judging", "stamped", "recording", "updating"}
        => check[t].heard

\* guide.html, "Status Transitions", all of them and at their time, for the
\* services only the scheduler checks: what a check decides with the history
\* it read before its own result was there is what the list says of the
\* history with the result.  No outage is missed, and no recovery.
DecidedByHistory ==
    [][\A t \in Threads, c \in Unattended :
          /\ At(t, "recording")
          /\ Service(t) = c
          /\ checks'[c] # checks[c]
          => LET failures == ConsecutiveFailures(c)'
                 current == check[t].current
                 decided == IF check'[t].pc = "updating" THEN check'[t].new
                            ELSE current
             IN decided =
                   CASE failures = 0 -> "active"
                     [] failures > 0 /\ current = "active" -> "pending"
                     [] failures > 0 /\ current = "pending" ->
                            IF failures >= FailuresForDown THEN "down"
                            ELSE "pending"
                     [] failures > 0 /\ current \notin {"active", "pending"} ->
                            current
      ]_healthSystemVars

\* Every check ends, however the packets and the other checks fall: the
\* retries run out and nothing waits for anything else.
EveryCheckEnds == \A t \in Threads : Running(t) ~> ~Running(t)

\* faq.html: a service with a job that never answers is taken down, unless a
\* check of it passes; of the services only the scheduler checks.
SilentServiceGoesDown ==
    \A c \in Unattended :
        c \in scheduled /\ status[c] \in {"active", "pending"}
            ~> status[c] = "down" \/ \E r \in checks[c] : r.ok
=============================================================================
