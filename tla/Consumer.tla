------------------------------ MODULE Consumer ------------------------------
(***************************************************************************)
(* How the process gets and keeps its connection to APRS-IS:               *)
(* _initialize_aprsd, which re-reads the configuration on the way, the     *)
(* start and stop of the persistent consumer thread, that thread's loop,   *)
(* and everybody who calls them: lifespan, checks, bulletins and beacons.  *)
(*                                                                         *)
(* An attempt to initialise is cut where other threads see a different     *)
(* configuration; everything done under a lock that nobody else can see is *)
(* one step.  Waits with a time limit are steps without a guard.           *)
(*                                                                         *)
(* APRSDClient is not part of the repository.  Assumed of it: connecting   *)
(* and resetting succeed while the network is up, fail or raise while it   *)
(* is not, and consumer() returns or raises at some time.                  *)
(***************************************************************************)
EXTENDS Naturals, FiniteSets

CONSTANTS
    Loop,         \* the thread of the event loop: lifespan and the handlers
    Workers,      \* threads that run checks and the bulletin job
    Consumers,    \* consumer threads there can be at once
    Nobody,       \* holds a lock that is free
    NoConsumer,   \* _consumer_thread is None
    TurnedOn      \* switches the operator's configuration turns on

Threads == Workers \cup {Loop}

Switches == {"health_check_enabled", "bulletin_enabled", "admin_password"}

ASSUME ConsumerAssumption ==
    /\ Loop \notin Workers
    /\ Nobody \notin Threads
    /\ NoConsumer \notin Consumers
    /\ TurnedOn \subseteq Switches

VARIABLES
    phase,         \* how far lifespan is
    pc,            \* what each thread is about to do
    initLock,      \* _aprsd_init_lock: who holds it
    consumerLock,  \* _consumer_lock: who holds it
    initialized,   \* _aprsd_initialized
    options,       \* CONF.registry: the operator's value or the default
    overridden,    \* options with a set_override, which a re-read leaves alone
    saved,         \* preserved_registry_config of the attempt in progress
    readable,      \* values of aprsd_config_path that name a readable file
    listener,      \* Consumers -> where the consumer thread is
    current,       \* _consumer_thread
    running,       \* _consumer_running
    net,           \* APRS-IS can be reached
    link           \* client.is_alive

configVars == <<options, overridden, saved, readable>>
consumerVars == <<listener, current, running>>
netVars == <<net, link>>
consumerSystemVars ==
    <<phase, pc, initLock, consumerLock, initialized, configVars,
      consumerVars, netVars>>

\* The options of group registry; web address and port, log level, tracing
\* and the deprecated storage options behave like save_location.
Options == Switches \cup {"aprsd_config_path", "save_location", "db_path"}

\* The keys of preserved_registry_config.
Preserved == Options \ {"db_path"}

Values == {"operator", "default"}

ConsumerTypeOK ==
    /\ phase \in {"starting", "serving", "stopping", "stopped"}
    /\ pc \in [Threads -> {"idle", "initialize", "start", "nested", "parsing",
                           "restoring", "connecting", "spawn", "stop", "join"}]
    /\ initLock \in Threads \cup {Nobody}
    /\ consumerLock \in Threads \cup {Nobody}
    /\ initialized \in BOOLEAN
    /\ options \in [Options -> Values]
    /\ overridden \subseteq Options
    /\ saved \in [Preserved -> Values]
    /\ readable \subseteq Values
    /\ listener \in [Consumers -> {"none", "top", "resetting", "reading"}]
    /\ current \in Consumers \cup {NoConsumer}
    /\ running \in BOOLEAN
    /\ net \in BOOLEAN
    /\ link \in BOOLEAN

\* The command line has read the operator's configuration file.
ConsumerInit ==
    /\ phase = "starting"
    /\ pc = [t \in Threads |-> "idle"]
    /\ initLock = Nobody
    /\ consumerLock = Nobody
    /\ initialized = FALSE
    /\ options = [o \in Options |-> "operator"]
    /\ overridden = {}
    /\ saved = [o \in Preserved |-> "default"]
    /\ readable \in SUBSET Values
    /\ listener = [k \in Consumers |-> "none"]
    /\ current = NoConsumer
    /\ running = FALSE
    /\ net \in BOOLEAN
    /\ link = FALSE

\* Every switch is off by default.
On(switch) == options[switch] = "operator" /\ switch \in TurnedOn

Listeners == {k \in Consumers : listener[k] # "none"}

ConsumerIsAlive == current \in Listeners

Goto(t, where) == pc' = [pc EXCEPT ![t] = where]

\* The call that took t here returns; lifespan goes on when its own does.
Return(t) ==
    /\ Goto(t, "idle")
    /\ phase' = IF t = Loop /\ phase = "starting" THEN "serving" ELSE phase
-----------------------------------------------------------------------------
(* _initialize_aprsd *)

\* Mutant of EnterInitialize: db_path is preserved as well.
EnterInitializeAll(t) ==
    /\ pc[t] \in {"initialize", "nested"}
    /\ initLock = Nobody
    /\ ~initialized
    /\ Goto(t, "parsing")
    /\ initLock' = t
    /\ saved' = options
    /\ UNCHANGED <<phase, consumerLock, initialized, options, overridden,
                   readable, consumerVars, netVars>>

\* with _aprsd_init_lock: initialised already, or an attempt that begins by
\* remembering the options to preserve.
EnterInitialize(t) ==
    /\ pc[t] \in {"initialize", "nested"}
    /\ initLock = Nobody
    /\ IF initialized
       THEN /\ Goto(t, IF pc[t] = "nested" THEN "spawn" ELSE "start")
            /\ UNCHANGED <<initLock, saved>>
       ELSE /\ Goto(t, "parsing")
            /\ initLock' = t
            /\ saved' = [o \in Preserved |-> options[o]]
    /\ UNCHANGED <<phase, consumerLock, initialized, options, overridden,
                   readable, consumerVars, netVars>>

\* Mutant of GiveUpInitialize: _consumer_lock is kept.
GiveUpHoldingLock(t) ==
    /\ Return(t)
    /\ initLock' = Nobody
    /\ UNCHANGED consumerLock

\* The attempt is over without a connection: False all the way up.
GiveUpInitialize(t) ==
    /\ Return(t)
    /\ initLock' = Nobody
    /\ consumerLock' = IF consumerLock = t THEN Nobody ELSE consumerLock

\* cfg.CONF(args=[], default_config_files=[aprsd_config_path]) forgets the
\* file read before; it raises when the new one cannot be read.
Parse(t) ==
    /\ pc[t] = "parsing"
    /\ options' = [o \in Options |->
                      IF o \in overridden THEN options[o] ELSE "default"]
    /\ IF options["aprsd_config_path"] \in readable
       THEN Goto(t, "restoring") /\ UNCHANGED <<phase, initLock, consumerLock>>
       ELSE GiveUpInitialize(t)
    /\ UNCHANGED <<initialized, overridden, saved, readable, consumerVars,
                   netVars>>

\* Mutant of Restore: the overrides are taken from the re-read configuration.
RestoreNothing(t) ==
    /\ pc[t] = "restoring"
    /\ Goto(t, "connecting")
    /\ overridden' = overridden \cup Preserved
    /\ UNCHANGED <<phase, initLock, consumerLock, initialized, options, saved,
                   readable, consumerVars, netVars>>

\* The set_override calls.
Restore(t) ==
    /\ pc[t] = "restoring"
    /\ Goto(t, "connecting")
    /\ options' = [o \in Options |->
                      IF o \in Preserved THEN saved[o] ELSE options[o]]
    /\ overridden' = overridden \cup Preserved
    /\ UNCHANGED <<phase, initLock, consumerLock, initialized, saved,
                   readable, consumerVars, netVars>>

\* APRSDClient() connects; the lock is released either way.
Connect(t) ==
    /\ pc[t] = "connecting"
    /\ link' = net
    /\ initialized' = net
    /\ IF net
       THEN /\ Goto(t, IF consumerLock = t THEN "spawn" ELSE "start")
            /\ initLock' = Nobody
            /\ UNCHANGED <<phase, consumerLock>>
       ELSE GiveUpInitialize(t)
    /\ UNCHANGED <<configVars, consumerVars, net>>
-----------------------------------------------------------------------------
(* start_persistent_consumer and stop_persistent_consumer *)

\* Mutant of StartConsumer: the lock is not taken.
StartConsumerUnlocked(t) ==
    /\ pc[t] = "start"
    /\ IF ConsumerIsAlive THEN Return(t)
       ELSE Goto(t, "nested") /\ UNCHANGED phase
    /\ UNCHANGED <<consumerLock, initLock, initialized, configVars,
                   consumerVars, netVars>>

\* with _consumer_lock: there is a live thread, or one has to be started.
StartConsumer(t) ==
    /\ pc[t] = "start"
    /\ consumerLock = Nobody
    /\ IF ConsumerIsAlive
       THEN Return(t) /\ UNCHANGED consumerLock
       ELSE Goto(t, "nested") /\ consumerLock' = t /\ UNCHANGED phase
    /\ UNCHANGED <<initLock, initialized, configVars, consumerVars, netVars>>

\* The flag is set and a thread started.
Spawn(t) ==
    /\ pc[t] = "spawn"
    /\ running' = TRUE
    /\ \E k \in Consumers \ Listeners :
          /\ listener' = [listener EXCEPT ![k] = "top"]
          /\ current' = k
    /\ consumerLock' = Nobody
    /\ Return(t)
    /\ UNCHANGED <<initLock, initialized, configVars, netVars>>

StopConsumer ==
    /\ pc[Loop] = "stop"
    /\ consumerLock = Nobody
    /\ IF current = NoConsumer
       THEN /\ Goto(Loop, "idle")
            /\ phase' = "stopped"
            /\ UNCHANGED <<running, consumerLock>>
       ELSE /\ Goto(Loop, "join")
            /\ running' = FALSE
            /\ consumerLock' = Loop
            /\ UNCHANGED phase
    /\ UNCHANGED <<initLock, initialized, configVars, listener, current,
                   netVars>>

\* join(timeout=5): the thread has ended or the time is over; either way it
\* is forgotten.
JoinConsumer ==
    /\ pc[Loop] = "join"
    /\ Goto(Loop, "idle")
    /\ phase' = "stopped"
    /\ current' = NoConsumer
    /\ consumerLock' = Nobody
    /\ UNCHANGED <<initLock, initialized, configVars, listener, running,
                   netVars>>
-----------------------------------------------------------------------------
(* Who calls them *)

\* Mutant of LifespanStarts: the consumer is left to the first check.
LifespanSkipsConsumer ==
    /\ phase = "starting"
    /\ pc[Loop] = "idle"
    /\ phase' = "serving"
    /\ UNCHANGED <<pc, initLock, consumerLock, initialized, configVars,
                   consumerVars, netVars>>

\* lifespan calls start_persistent_consumer before it serves anything.
LifespanStarts ==
    /\ phase = "starting"
    /\ pc[Loop] = "idle"
    /\ Goto(Loop, "start")
    /\ UNCHANGED <<phase, initLock, consumerLock, initialized, configVars,
                   consumerVars, netVars>>

\* lifespan's shutdown; checks that are under way go on.
LifespanStops ==
    /\ phase = "serving"
    /\ pc[Loop] = "idle"
    /\ phase' = "stopping"
    /\ Goto(Loop, "stop")
    /\ UNCHANGED <<initLock, consumerLock, initialized, configVars,
                   consumerVars, netVars>>

\* send_and_wait_for_response, by a job or a triggered thread.
CheckSends(t) ==
    /\ phase = "serving"
    /\ t \in Workers /\ pc[t] = "idle"
    /\ On("health_check_enabled")
    /\ Goto(t, "initialize")
    /\ UNCHANGED <<phase, initLock, consumerLock, initialized, configVars,
                   consumerVars, netVars>>

\* send_bulletins, by its job, or by the handler for an admin.
SendBulletins(t) ==
    /\ phase = "serving"
    /\ pc[t] = "idle"
    /\ On("bulletin_enabled")
    /\ t = Loop => On("admin_password")
    /\ Goto(t, IF initialized THEN "start" ELSE "initialize")
    /\ UNCHANGED <<phase, initLock, consumerLock, initialized, configVars,
                   consumerVars, netVars>>

\* send_beacon, by the handler for an admin.
SendBeacon ==
    /\ phase = "serving"
    /\ pc[Loop] = "idle"
    /\ On("admin_password")
    /\ Goto(Loop, IF initialized THEN "start" ELSE "initialize")
    /\ UNCHANGED <<phase, initLock, consumerLock, initialized, configVars,
                   consumerVars, netVars>>
-----------------------------------------------------------------------------
(* _run_persistent_consumer, by consumer thread k *)

Listen(k, where) == listener' = [listener EXCEPT ![k] = where]

\* Mutant of LoopTop: the flag is not looked at while the client is alive.
LoopTopDeaf(k) ==
    /\ listener[k] = "top"
    /\ Listen(k, CASE link -> "reading"
                   [] ~link /\ running -> "resetting"
                   [] ~link /\ ~running -> "none")
    /\ UNCHANGED <<phase, pc, initLock, consumerLock, initialized, configVars,
                   current, running, netVars>>

\* while _consumer_running: is the client alive?
LoopTop(k) ==
    /\ listener[k] = "top"
    /\ Listen(k, CASE ~running -> "none"
                   [] running /\ ~link -> "resetting"
                   [] running /\ link -> "reading")
    /\ UNCHANGED <<phase, pc, initLock, consumerLock, initialized, configVars,
                   current, running, netVars>>

\* Mutant of ResetClient: the client is not reset.
ResetClientNot(k) ==
    /\ listener[k] = "resetting"
    /\ \/ Listen(k, "top")
       \/ ~net /\ Listen(k, "none")
    /\ UNCHANGED <<phase, pc, initLock, consumerLock, initialized, configVars,
                   current, running, netVars>>

\* client.reset() and 5 s of sleep.  Without a network it may raise, outside
\* the inner try: the thread ends.
ResetClient(k) ==
    /\ listener[k] = "resetting"
    /\ link' = net
    /\ \/ Listen(k, "top")
       \/ ~net /\ Listen(k, "none")
    /\ UNCHANGED <<phase, pc, initLock, consumerLock, initialized, configVars,
                   current, running, net>>

\* client.consumer() returns, or raises for whatever reason.
ReadReturns(k) ==
    /\ listener[k] = "reading"
    /\ \/ Listen(k, "top")
       \/ Listen(k, IF running THEN "resetting" ELSE "top")
    /\ UNCHANGED <<phase, pc, initLock, consumerLock, initialized, configVars,
                   current, running, netVars>>

\* The network comes and goes; a connection can break at any time.
Network ==
    /\ \/ net' = ~net /\ UNCHANGED link
       \/ link /\ link' = FALSE /\ UNCHANGED net
    /\ UNCHANGED <<phase, pc, initLock, consumerLock, initialized, configVars,
                   consumerVars>>
-----------------------------------------------------------------------------
CallStep(t) ==
    \/ EnterInitialize(t)
    \/ Parse(t)
    \/ Restore(t)
    \/ Connect(t)
    \/ StartConsumer(t)
    \/ Spawn(t)

StopStep == StopConsumer \/ JoinConsumer

ListenerStep(k) == LoopTop(k) \/ ResetClient(k) \/ ReadReturns(k)

ConsumerNext ==
    \/ LifespanStarts
    \/ LifespanStops
    \/ StopStep
    \/ SendBeacon
    \/ \E t \in Threads : CallStep(t) \/ SendBulletins(t)
    \/ \E t \in Workers : CheckSends(t)
    \/ \E k \in Consumers : ListenerStep(k)
    \/ Network

ConsumerSpec == ConsumerInit /\ [][ConsumerNext]_consumerSystemVars

\* Threads run; a thread that waits for a lock which is free again and again
\* gets it; while health checks are on the scheduler starts another one.
ConsumerFairSpec ==
    /\ ConsumerSpec
    /\ WF_consumerSystemVars(LifespanStarts)
    /\ SF_consumerSystemVars(StopStep)
    /\ \A t \in Threads : SF_consumerSystemVars(CallStep(t))
    /\ \A k \in Consumers : WF_consumerSystemVars(ListenerStep(k))
    /\ WF_consumerSystemVars(\E t \in Workers : CheckSends(t))
-----------------------------------------------------------------------------
(* Properties *)

\* start_persistent_consumer: "Start the persistent consumer thread if not
\* already running".  Until lifespan has stopped the consumer there is no
\* other than _consumer_thread, whoever starts it at once; a check that is
\* still under way then can add one to the one the stop has forgotten, and
\* no third.
OneConsumer ==
    /\ phase # "stopped" => Listeners \subseteq {current}
    /\ Cardinality(Listeners) <= 2

\* "CRITICAL: Preserve our registry config values": no handler, check or job
\* ever sees a preserved option change, although an attempt to initialise
\* resets all of them for a moment: the first attempt is over before
\* anything is served, and overrides last.
OptionsSteady ==
    [][phase # "starting" =>
          \A o \in Preserved : options'[o] = options[o]]_consumerSystemVars

\* What they see is the operator's value, if APRSD's file can be read.
OptionsPreserved ==
    phase # "starting" /\ "operator" \in readable =>
        \A o \in Preserved : options[o] = "operator"

\* The lock t is waiting for is held by that thread.
WaitsFor(t) ==
    CASE pc[t] \in {"initialize", "nested"} -> initLock
      [] pc[t] \in {"start", "stop"} -> consumerLock
      [] OTHER -> Nobody

\* No two threads wait for each other, and nobody for a lock that is left
\* behind: who waits does so for a thread in the midst of a call, and who that
\* one waits for, if anybody, waits for nobody.
WaitsEnd ==
    \A t \in Threads : WaitsFor(t) # Nobody =>
        LET holder == WaitsFor(t)
        IN /\ holder # t
           /\ pc[holder] # "idle"
           /\ WaitsFor(holder) # Nobody =>
                 /\ WaitsFor(holder) \notin {t, holder}
                 /\ pc[WaitsFor(holder)] # "idle"
                 /\ WaitsFor(WaitsFor(holder)) = Nobody

\* Nobody waits for ever for the two locks: a call that makes sure of the
\* consumer returns, and so does the stop.
CallsReturn == \A t \in Threads : pc[t] # "idle" ~> pc[t] = "idle"

\* After an outage, whatever it made of client and consumer thread: once the
\* network stays up there is a consumer for good, and it is connected again
\* and again.  Needs checks (a dead thread is replaced by the next one) and a
\* readable file.
ListenerReturns ==
    "health_check_enabled" \in TurnedOn /\ "operator" \in readable =>
        (<>[](net /\ phase = "serving") => <>[]ConsumerIsAlive /\ []<>link)

\* When the flag stays down every consumer thread ends.
StoppedConsumersEnd == <>[](~running) => <>[](Listeners = {})
-----------------------------------------------------------------------------
(* What a document says and the code does not do *)

\* get_aprs_connection_status and health_check_endpoint: the answer is 200.
ReportsHealthy == On("health_check_enabled") => initialized /\ link

\* health_check_endpoint: "Returns 503 if APRS-IS connection is down", with
\* health checks turned on by the operator.
DisconnectedIsUnhealthy ==
    phase = "serving" /\ "health_check_enabled" \in TurnedOn /\ ~link =>
        ~ReportsHealthy
=============================================================================
