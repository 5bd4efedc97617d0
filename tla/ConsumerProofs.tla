-------------------------- MODULE ConsumerProofs --------------------------
(***************************************************************************)
(* The safety of the consumer thread and of the configuration, for any     *)
(* number of threads and any configuration of the operator.                *)
(*                                                                         *)
(* Two locks carry the argument.  Who holds _consumer_lock and is not in a *)
(* join has seen that there is no live consumer, and nobody else can start *)
(* one.  Who holds _aprsd_init_lock is alone in an attempt; the first one  *)
(* belongs to lifespan, before anything else runs, and leaves every        *)
(* preserved option overridden or at its default, so that a later re-read  *)
(* changes none of them.                                                   *)
(***************************************************************************)
EXTENDS Consumer, FiniteSetTheorems, TLAPS

InAttempt(t) == pc[t] \in {"parsing", "restoring", "connecting"}

LockInv ==
    /\ \A t \in Threads : InAttempt(t) <=> initLock = t
    /\ \A t \in Threads : pc[t] \in {"nested", "spawn", "join"} => consumerLock = t
    /\ \A t \in Threads :
          consumerLock = t =>
              InAttempt(t) \/ pc[t] \in {"nested", "spawn", "join"}
    /\ \A t \in Threads :
          pc[t] \in {"stop", "join"} => t = Loop /\ phase = "stopping"

ListenersInv ==
    /\ phase # "stopped" => Listeners \subseteq {current}
    /\ \A j, k \in Listeners \ {current} : j = k
    /\ \A t \in Threads :
          consumerLock = t /\ pc[t] # "join" => current \notin Listeners

All(values, value) == \A o \in Preserved : values[o] = value

\* lifespan's own attempt, before anything else happens.
StartingInv ==
    phase = "starting" =>
        /\ \A t \in Workers : pc[t] = "idle"
        /\ pc[Loop] \in {"idle", "start", "nested", "parsing", "restoring",
                         "connecting", "spawn"}
        /\ current = NoConsumer
        /\ pc[Loop] \in {"parsing", "restoring", "connecting"} =>
              consumerLock = Loop
        /\ pc[Loop] \in {"idle", "start", "nested", "parsing"} =>
              ~initialized /\ overridden = {} /\ All(options, "operator")
        /\ pc[Loop] \in {"parsing", "restoring"} => All(saved, "operator")
        /\ pc[Loop] \in {"connecting", "spawn"} =>
              Preserved \subseteq overridden /\ All(options, "operator")

\* After it.
SettledInv ==
    phase # "starting" =>
        /\ Preserved \subseteq overridden \/ All(options, "default")
        /\ \A t \in Threads :
              pc[t] \in {"parsing", "restoring"} =>
                  \A o \in Preserved : saved[o] = options[o]
        /\ "operator" \in readable => All(options, "operator")

ConsumerInv ==
    /\ ConsumerTypeOK
    /\ LockInv
    /\ ListenersInv
    /\ StartingInv
    /\ SettledInv
-----------------------------------------------------------------------------
(* Types *)

LEMMA TypeInit ==
    ASSUME ConsumerInit
    PROVE  ConsumerTypeOK
BY DEF ConsumerInit, ConsumerTypeOK, Values

LEMMA TypeStep ==
    ASSUME ConsumerTypeOK, [ConsumerNext]_consumerSystemVars
    PROVE  ConsumerTypeOK'
<1> USE DEF ConsumerTypeOK
<1>1. "default" \in Values /\ Loop \in Threads /\ Preserved \subseteq Options
  BY DEF Values, Threads, Preserved
<1>2. ASSUME NEW t \in Threads, EnterInitialize(t)
      PROVE  ConsumerTypeOK'
  BY <1>1, <1>2 DEF EnterInitialize, Goto, consumerVars, netVars
<1>3. ASSUME NEW t \in Threads, Parse(t)
      PROVE  ConsumerTypeOK'
  BY <1>1, <1>3
     DEF Parse, GiveUpInitialize, Return, Goto, consumerVars, netVars
<1>4. ASSUME NEW t \in Threads, Restore(t)
      PROVE  ConsumerTypeOK'
  BY <1>1, <1>4 DEF Restore, Goto, consumerVars, netVars
<1>5. ASSUME NEW t \in Threads, Connect(t)
      PROVE  ConsumerTypeOK'
  BY <1>1, <1>5
     DEF Connect, GiveUpInitialize, Return, Goto, configVars, consumerVars
<1>6. ASSUME NEW t \in Threads, StartConsumer(t)
      PROVE  ConsumerTypeOK'
  BY <1>1, <1>6 DEF StartConsumer, Return, Goto, configVars, consumerVars,
                    netVars
<1>7. ASSUME NEW t \in Threads, Spawn(t)
      PROVE  ConsumerTypeOK'
  BY <1>1, <1>7 DEF Spawn, Return, Goto, configVars, netVars
<1>8. ASSUME StopStep
      PROVE  ConsumerTypeOK'
  BY <1>1, <1>8
     DEF StopStep, StopConsumer, JoinConsumer, Goto, configVars, netVars
<1>9. ASSUME LifespanStarts \/ LifespanStops \/ SendBeacon
      PROVE  ConsumerTypeOK'
  BY <1>1, <1>9 DEF LifespanStarts, LifespanStops, SendBeacon, Goto,
                    configVars, consumerVars, netVars
<1>10. ASSUME NEW t \in Threads, CheckSends(t) \/ SendBulletins(t)
       PROVE  ConsumerTypeOK'
  BY <1>1, <1>10 DEF CheckSends, SendBulletins, Goto, configVars,
                     consumerVars, netVars
<1>11. ASSUME NEW k \in Consumers, ListenerStep(k)
       PROVE  ConsumerTypeOK'
  BY <1>11 DEF ListenerStep, LoopTop, ResetClient, ReadReturns, Listen,
               configVars, netVars
<1>12. CASE Network
  BY <1>12 DEF Network, configVars, consumerVars
<1>13. CASE UNCHANGED consumerSystemVars
  BY <1>13 DEF consumerSystemVars, configVars, consumerVars, netVars
<1> QED BY <1>2, <1>3, <1>4, <1>5, <1>6, <1>7, <1>8, <1>9, <1>10, <1>11,
           <1>12, <1>13 DEF ConsumerNext, CallStep, Threads
-----------------------------------------------------------------------------
(* The locks *)

LEMMA LockStep ==
    ASSUME ConsumerTypeOK, LockInv, [ConsumerNext]_consumerSystemVars
    PROVE  LockInv'
<1> USE ConsumerAssumption DEF ConsumerTypeOK, LockInv, InAttempt
<1>0. Loop \in Threads
  BY DEF Threads
<1>1. ASSUME NEW t \in Threads, EnterInitialize(t)
      PROVE  LockInv'
  BY <1>0, <1>1
     DEF EnterInitialize, Goto, consumerVars, netVars
<1>2. ASSUME NEW t \in Threads, Parse(t)
      PROVE  LockInv'
  BY <1>0, <1>2
     DEF Parse, GiveUpInitialize, Return, Goto, consumerVars, netVars
<1>3. ASSUME NEW t \in Threads, Restore(t)
      PROVE  LockInv'
  BY <1>0, <1>3
     DEF Restore, Goto, consumerVars, netVars
<1>4. ASSUME NEW t \in Threads, Connect(t)
      PROVE  LockInv'
  BY <1>0, <1>4
     DEF Connect, GiveUpInitialize, Return, Goto, configVars,
         consumerVars
<1>5. ASSUME NEW t \in Threads, StartConsumer(t)
      PROVE  LockInv'
  BY <1>0, <1>5
     DEF StartConsumer, Return, Goto, configVars, consumerVars,
         netVars
<1>6. ASSUME NEW t \in Threads, Spawn(t)
      PROVE  LockInv'
  BY <1>0, <1>6
     DEF Spawn, Return, Goto, configVars, netVars
<1>7. ASSUME StopStep
      PROVE  LockInv'
  BY <1>0, <1>7
     DEF StopStep, StopConsumer, JoinConsumer, Goto, configVars,
         netVars
<1>8. ASSUME LifespanStarts \/ LifespanStops \/ SendBeacon
      PROVE  LockInv'
  BY <1>0, <1>8
     DEF LifespanStarts, LifespanStops, SendBeacon, Goto, configVars,
         consumerVars, netVars
<1>9. ASSUME NEW t \in Threads, CheckSends(t) \/ SendBulletins(t)
      PROVE  LockInv'
  BY <1>0, <1>9
     DEF CheckSends, SendBulletins, Goto, configVars, consumerVars,
         netVars
<1>10. ASSUME NEW k \in Consumers, ListenerStep(k)
      PROVE  LockInv'
  BY <1>0, <1>10
     DEF ListenerStep, LoopTop, ResetClient, ReadReturns, Listen,
         configVars, netVars
<1>11. ASSUME Network
      PROVE  LockInv'
  BY <1>0, <1>11
     DEF Network, configVars, consumerVars
<1>12. ASSUME UNCHANGED consumerSystemVars
      PROVE  LockInv'
  BY <1>0, <1>12
     DEF consumerSystemVars, configVars, consumerVars, netVars
<1> QED BY <1>1, <1>2, <1>3, <1>4, <1>5, <1>6,
           <1>7, <1>8, <1>9, <1>10, <1>11, <1>12
        DEF ConsumerNext, CallStep, Threads
-----------------------------------------------------------------------------
(* The consumer threads *)

LEMMA ListenersStep ==
    ASSUME ConsumerTypeOK, LockInv, ListenersInv,
           [ConsumerNext]_consumerSystemVars
    PROVE  ListenersInv'
<1> USE ConsumerAssumption
    DEF ConsumerTypeOK, LockInv, InAttempt, ListenersInv, Listeners,
        ConsumerIsAlive
<1>0. Loop \in Threads
  BY DEF Threads
<1>1. ASSUME NEW t \in Threads, EnterInitialize(t)
      PROVE  ListenersInv'
  BY <1>0, <1>1
     DEF EnterInitialize, Goto, consumerVars, netVars
<1>2. ASSUME NEW t \in Threads, Parse(t)
      PROVE  ListenersInv'
  BY <1>0, <1>2
     DEF Parse, GiveUpInitialize, Return, Goto, consumerVars, netVars
<1>3. ASSUME NEW t \in Threads, Restore(t)
      PROVE  ListenersInv'
  BY <1>0, <1>3
     DEF Restore, Goto, consumerVars, netVars
<1>4. ASSUME NEW t \in Threads, Connect(t)
      PROVE  ListenersInv'
  BY <1>0, <1>4
     DEF Connect, GiveUpInitialize, Return, Goto, configVars,
         consumerVars
<1>5. ASSUME NEW t \in Threads, StartConsumer(t)
      PROVE  ListenersInv'
  BY <1>0, <1>5
     DEF StartConsumer, Return, Goto, configVars, consumerVars, netVars
<1>6. ASSUME NEW t \in Threads, Spawn(t)
      PROVE  ListenersInv'
  BY <1>0, <1>6
     DEF Spawn, Return, Goto, configVars, netVars
<1>7. ASSUME StopStep
      PROVE  ListenersInv'
  BY <1>0, <1>7
     DEF StopStep, StopConsumer, JoinConsumer, Goto, configVars,
         netVars
<1>8. ASSUME LifespanStarts \/ LifespanStops \/ SendBeacon
      PROVE  ListenersInv'
  BY <1>0, <1>8
     DEF LifespanStarts, LifespanStops, SendBeacon, Goto, configVars,
         consumerVars, netVars
<1>9. ASSUME NEW t \in Threads, CheckSends(t) \/ SendBulletins(t)
      PROVE  ListenersInv'
  BY <1>0, <1>9
     DEF CheckSends, SendBulletins, Goto, configVars, consumerVars,
         netVars
<1>10. ASSUME NEW k \in Consumers, ListenerStep(k)
      PROVE  ListenersInv'
  BY <1>0, <1>10
     DEF ListenerStep, LoopTop, ResetClient, ReadReturns, Listen,
         configVars, netVars
<1>11. ASSUME Network
      PROVE  ListenersInv'
  BY <1>0, <1>11
     DEF Network, configVars, consumerVars
<1>12. ASSUME UNCHANGED consumerSystemVars
      PROVE  ListenersInv'
  BY <1>0, <1>12
     DEF consumerSystemVars, configVars, consumerVars, netVars
<1> QED BY <1>1, <1>2, <1>3, <1>4, <1>5, <1>6,
           <1>7, <1>8, <1>9, <1>10, <1>11, <1>12
        DEF ConsumerNext, CallStep, Threads
-----------------------------------------------------------------------------
(* The configuration *)

LEMMA StartingStep ==
    ASSUME ConsumerTypeOK, LockInv, ListenersInv, StartingInv,
           [ConsumerNext]_consumerSystemVars
    PROVE  StartingInv'
<1> USE ConsumerAssumption
    DEF ConsumerTypeOK, StartingInv, All
<1>0. /\ Threads = Workers \cup {Loop} /\ Preserved \subseteq Options
      /\ \A t \in Threads : pc[t] \in {"nested", "spawn"} => consumerLock = t
  BY DEF Threads, Preserved, LockInv
<1>1. ASSUME NEW t \in Threads, EnterInitialize(t)
      PROVE  StartingInv'
  BY <1>0, <1>1
     DEF EnterInitialize, Goto, consumerVars, netVars
<1>2. ASSUME NEW t \in Threads, Parse(t)
      PROVE  StartingInv'
  BY <1>0, <1>2
     DEF Parse, GiveUpInitialize, Return, Goto, consumerVars, netVars
<1>3. ASSUME NEW t \in Threads, Restore(t)
      PROVE  StartingInv'
  BY <1>0, <1>3
     DEF Restore, Goto, consumerVars, netVars
<1>4. ASSUME NEW t \in Threads, Connect(t)
      PROVE  StartingInv'
  BY <1>0, <1>4
     DEF Connect, GiveUpInitialize, Return, Goto, configVars,
         consumerVars
<1>5. ASSUME NEW t \in Threads, StartConsumer(t)
      PROVE  StartingInv'
  BY <1>0, <1>5
     DEF StartConsumer, Return, Goto, configVars, consumerVars, netVars
<1>6. ASSUME NEW t \in Threads, Spawn(t)
      PROVE  StartingInv'
  BY <1>0, <1>6
     DEF Spawn, Return, Goto, configVars, netVars
<1>7. ASSUME StopStep
      PROVE  StartingInv'
  BY <1>0, <1>7
     DEF StopStep, StopConsumer, JoinConsumer, Goto, configVars,
         netVars
<1>8. ASSUME LifespanStarts \/ LifespanStops \/ SendBeacon
      PROVE  StartingInv'
  BY <1>0, <1>8
     DEF LifespanStarts, LifespanStops, SendBeacon, Goto, configVars,
         consumerVars, netVars
<1>9. ASSUME NEW t \in Threads, CheckSends(t) \/ SendBulletins(t)
      PROVE  StartingInv'
  BY <1>0, <1>9
     DEF CheckSends, SendBulletins, Goto, configVars, consumerVars,
         netVars
<1>10. ASSUME NEW k \in Consumers, ListenerStep(k)
      PROVE  StartingInv'
  BY <1>0, <1>10
     DEF ListenerStep, LoopTop, ResetClient, ReadReturns, Listen,
         configVars, netVars
<1>11. ASSUME Network
      PROVE  StartingInv'
  BY <1>0, <1>11
     DEF Network, configVars, consumerVars
<1>12. ASSUME UNCHANGED consumerSystemVars
      PROVE  StartingInv'
  BY <1>0, <1>12
     DEF consumerSystemVars, configVars, consumerVars, netVars
<1> QED BY <1>1, <1>2, <1>3, <1>4, <1>5, <1>6,
           <1>7, <1>8, <1>9, <1>10, <1>11, <1>12
        DEF ConsumerNext, CallStep, Threads

LEMMA SettledStep ==
    ASSUME ConsumerTypeOK, LockInv, ListenersInv, StartingInv, SettledInv,
           [ConsumerNext]_consumerSystemVars
    PROVE  SettledInv'
<1> USE ConsumerAssumption
    DEF ConsumerTypeOK, StartingInv, SettledInv, All
<1>0. /\ Threads = Workers \cup {Loop} /\ Preserved \subseteq Options
      /\ "aprsd_config_path" \in Preserved
      /\ NoConsumer \notin Listeners
      /\ \A t, u \in Threads :
            /\ pc[t] \in {"parsing", "restoring"}
            /\ pc[u] \in {"parsing", "restoring"}
            => t = u
  BY DEF Threads, Preserved, Options, LockInv, InAttempt, Listeners
<1>1. ASSUME NEW t \in Threads, EnterInitialize(t)
      PROVE  SettledInv'
  BY <1>0, <1>1
     DEF EnterInitialize, Goto, consumerVars, netVars
<1>2. ASSUME NEW t \in Threads, Parse(t)
      PROVE  SettledInv'
  BY <1>0, <1>2
     DEF Parse, GiveUpInitialize, Return, Goto, consumerVars, netVars
<1>3. ASSUME NEW t \in Threads, Restore(t)
      PROVE  SettledInv'
  BY <1>0, <1>3
     DEF Restore, Goto, consumerVars, netVars
<1>4. ASSUME NEW t \in Threads, Connect(t)
      PROVE  SettledInv'
  BY <1>0, <1>4
     DEF Connect, GiveUpInitialize, Return, Goto, configVars,
         consumerVars
<1>5. ASSUME NEW t \in Threads, StartConsumer(t)
      PROVE  SettledInv'
  BY <1>0, <1>5
     DEF StartConsumer, ConsumerIsAlive, Return, Goto, configVars, consumerVars, netVars
<1>6. ASSUME NEW t \in Threads, Spawn(t)
      PROVE  SettledInv'
  BY <1>0, <1>6
     DEF Spawn, Return, Goto, configVars, netVars
<1>7. ASSUME StopStep
      PROVE  SettledInv'
  BY <1>0, <1>7
     DEF StopStep, StopConsumer, JoinConsumer, Goto, configVars,
         netVars
<1>8. ASSUME LifespanStarts \/ LifespanStops \/ SendBeacon
      PROVE  SettledInv'
  BY <1>0, <1>8
     DEF LifespanStarts, LifespanStops, SendBeacon, Goto, configVars,
         consumerVars, netVars
<1>9. ASSUME NEW t \in Threads, CheckSends(t) \/ SendBulletins(t)
      PROVE  SettledInv'
  BY <1>0, <1>9
     DEF CheckSends, SendBulletins, Goto, configVars, consumerVars,
         netVars
<1>10. ASSUME NEW k \in Consumers, ListenerStep(k)
      PROVE  SettledInv'
  BY <1>0, <1>10
     DEF ListenerStep, LoopTop, ResetClient, ReadReturns, Listen,
         configVars, netVars
<1>11. ASSUME Network
      PROVE  SettledInv'
  BY <1>0, <1>11
     DEF Network, configVars, consumerVars
<1>12. ASSUME UNCHANGED consumerSystemVars
      PROVE  SettledInv'
  BY <1>0, <1>12
     DEF consumerSystemVars, configVars, consumerVars, netVars
<1> QED BY <1>1, <1>2, <1>3, <1>4, <1>5, <1>6,
           <1>7, <1>8, <1>9, <1>10, <1>11, <1>12
        DEF ConsumerNext, CallStep, Threads

\* No step changes a preserved option once lifespan's attempt is over.
Steady ==
    phase # "starting" => \A o \in Preserved : options'[o] = options[o]

LEMMA SteadyStep ==
    ASSUME ConsumerInv, [ConsumerNext]_consumerSystemVars
    PROVE  Steady
<1>1. SUFFICES ASSUME phase # "starting", options' # options
               PROVE  \A o \in Preserved : options'[o] = options[o]
  BY DEF Steady
<1>2. Preserved \subseteq Options /\ Loop \in Threads
  BY DEF Preserved, Threads
<1>3. PICK t \in Threads : Parse(t) \/ Restore(t)
  <2>1. ASSUME NEW t \in Threads, CallStep(t), ~Parse(t), ~Restore(t)
        PROVE  options' = options
    BY <2>1 DEF CallStep, EnterInitialize, Connect, StartConsumer, Spawn,
                configVars
  <2>2. ASSUME NEW t, CheckSends(t) \/ SendBulletins(t)
        PROVE  options' = options
    BY <2>2 DEF CheckSends, SendBulletins, configVars
  <2>3. ASSUME NEW k, ListenerStep(k)
        PROVE  options' = options
    BY <2>3 DEF ListenerStep, LoopTop, ResetClient, ReadReturns, configVars
  <2>4. ASSUME LifespanStarts \/ LifespanStops \/ StopStep \/ SendBeacon
                   \/ Network \/ UNCHANGED consumerSystemVars
        PROVE  options' = options
    BY <2>4 DEF LifespanStarts, LifespanStops, StopStep, StopConsumer,
                JoinConsumer, SendBeacon, Network, configVars,
                consumerSystemVars
  <2> QED BY <1>1, <2>1, <2>2, <2>3, <2>4 DEF ConsumerNext
<1>4. CASE Parse(t)
  BY <1>1, <1>2, <1>4 DEF Parse, ConsumerInv, SettledInv, All
<1>5. CASE Restore(t)
  BY <1>1, <1>2, <1>5 DEF Restore, ConsumerInv, SettledInv
<1> QED BY <1>3, <1>4, <1>5
-----------------------------------------------------------------------------
(* The properties *)

THEOREM ConsumerInvariant == ConsumerSpec => []ConsumerInv
<1>1. ConsumerInit => ConsumerInv
  <2> SUFFICES ASSUME ConsumerInit PROVE ConsumerInv
    OBVIOUS
  <2>1. Listeners = {}
    BY DEF ConsumerInit, Listeners
  <2>2. /\ Loop \in Threads /\ Workers \subseteq Threads /\ Nobody \notin Threads
        /\ Preserved \subseteq Options
    BY ConsumerAssumption DEF Threads, Preserved
  <2>3. LockInv /\ ListenersInv
    BY <2>1, <2>2 DEF ConsumerInit, LockInv, ListenersInv, InAttempt
  <2>4. StartingInv /\ SettledInv
    BY <2>2 DEF ConsumerInit, StartingInv, SettledInv, All
  <2> QED BY <2>3, <2>4, TypeInit DEF ConsumerInv
<1>2. ConsumerInv /\ [ConsumerNext]_consumerSystemVars => ConsumerInv'
  BY TypeStep, LockStep, ListenersStep, StartingStep, SettledStep
     DEF ConsumerInv
<1> QED BY <1>1, <1>2, PTL DEF ConsumerSpec

\* Every variable of the consumer and the configuration keeps its type.
THEOREM ConsumerTypeCorrect == ConsumerSpec => []ConsumerTypeOK
<1>1. ConsumerInv => ConsumerTypeOK
  BY DEF ConsumerInv
<1> QED BY <1>1, ConsumerInvariant, PTL

\* However many threads make sure of the consumer at once, there is one until
\* lifespan has stopped it, and there are two at most after that.
THEOREM OneConsumerHolds == ConsumerSpec => []OneConsumer
<1>1. ConsumerInv => OneConsumer
  <2> SUFFICES ASSUME ConsumerInv
               PROVE  Cardinality(Listeners) <= 2
    BY DEF ConsumerInv, ListenersInv, OneConsumer
  <2>1. PICK f : Listeners \ {current} \subseteq {f}
    <3>1. \A j, k \in Listeners \ {current} : j = k
      BY DEF ConsumerInv, ListenersInv
    <3>2. CASE Listeners \ {current} = {}
      BY <3>2
    <3>3. CASE \E f : f \in Listeners \ {current}
      BY <3>1, <3>3
    <3> QED BY <3>2, <3>3
  <2>2. /\ IsFiniteSet({current}) /\ Cardinality({current}) = 1
        /\ IsFiniteSet({f}) /\ Cardinality({f}) = 1
    BY FS_Singleton
  <2>3. /\ IsFiniteSet({current} \cup {f})
        /\ Cardinality({current} \cup {f}) <= 2
    <3>1. /\ IsFiniteSet({current} \cup {f})
          /\ Cardinality({current} \cup {f})
                = 1 + 1 - Cardinality({current} \cap {f})
      BY <2>2, FS_Union
    <3>2. Cardinality({current} \cap {f}) \in Nat
      BY <2>2, FS_Intersection, FS_CardinalityType
    <3> QED BY <3>1, <3>2
  <2>4. Listeners \subseteq {current} \cup {f}
    BY <2>1
  <2>5. Cardinality(Listeners) <= Cardinality({current} \cup {f})
    BY <2>3, <2>4, FS_Subset
  <2>6. Cardinality(Listeners) \in Nat /\ Cardinality({current} \cup {f}) \in Nat
    BY <2>3, <2>4, FS_Subset, FS_CardinalityType
  <2> QED BY <2>3, <2>5, <2>6
<1> QED BY <1>1, ConsumerInvariant, PTL

\* Whoever waits for _aprsd_init_lock waits for a thread that is in an attempt
\* and waits for nobody; whoever waits for _consumer_lock waits for such a
\* thread, or for one that waits for _aprsd_init_lock.
THEOREM WaitsEndHolds == ConsumerSpec => []WaitsEnd
<1>1. ConsumerInv => WaitsEnd
  <2> SUFFICES ASSUME ConsumerInv, NEW t \in Threads, WaitsFor(t) # Nobody
               PROVE  LET holder == WaitsFor(t)
                      IN /\ holder # t
                         /\ pc[holder] # "idle"
                         /\ WaitsFor(holder) # Nobody =>
                               /\ WaitsFor(holder) \notin {t, holder}
                               /\ pc[WaitsFor(holder)] # "idle"
                               /\ WaitsFor(WaitsFor(holder)) = Nobody
    BY DEF WaitsEnd
  <2> USE ConsumerAssumption DEF ConsumerInv, ConsumerTypeOK, LockInv
  <2>1. ASSUME initLock # Nobody
        PROVE  /\ initLock \in Threads /\ InAttempt(initLock)
               /\ WaitsFor(initLock) = Nobody
    BY <2>1 DEF InAttempt, WaitsFor
  <2>2. ASSUME NEW u \in Threads, consumerLock = u
        PROVE  WaitsFor(u) \in {Nobody, initLock} /\ pc[u] # "idle"
               /\ (pc[u] = "nested" \/ WaitsFor(u) = Nobody)
    BY <2>2 DEF InAttempt, WaitsFor
  <2>3. CASE pc[t] \in {"initialize", "nested"}
    <3>1. WaitsFor(t) = initLock
      BY <2>3 DEF WaitsFor
    <3> QED BY <2>1, <2>3, <3>1 DEF InAttempt
  <2>4. CASE pc[t] \in {"start", "stop"}
    <3>1. WaitsFor(t) = consumerLock /\ consumerLock \in Threads
      BY <2>4 DEF WaitsFor
    <3>2. PICK holder \in Threads : holder = consumerLock
      BY <3>1
    <3>3. /\ holder # t
          /\ pc[holder] # "idle"
          /\ WaitsFor(holder) \in {Nobody, initLock}
      BY <2>2, <2>4, <3>2 DEF InAttempt
    <3>4. CASE WaitsFor(holder) = Nobody
      BY <3>1, <3>2, <3>3, <3>4
    <3>5. CASE WaitsFor(holder) # Nobody
      <4>1. WaitsFor(holder) = initLock /\ pc[holder] = "nested"
        BY <2>2, <3>2, <3>3, <3>5
      <4>2. initLock \notin {t, holder}
        BY <2>1, <2>4, <3>5, <4>1 DEF InAttempt
      <4> QED BY <2>1, <3>1, <3>2, <3>3, <3>5, <4>1, <4>2 DEF InAttempt
    <3> QED BY <3>4, <3>5
  <2>5. CASE pc[t] \notin {"initialize", "nested", "start", "stop"}
    BY <2>5 DEF WaitsFor
  <2> QED BY <2>3, <2>4, <2>5
<1> QED BY <1>1, ConsumerInvariant, PTL

\* With a readable file of APRSD nothing that is served ever sees a preserved
\* option with another value than the operator's.
THEOREM OptionsPreservedHolds == ConsumerSpec => []OptionsPreserved
<1>1. ConsumerInv => OptionsPreserved
  BY DEF ConsumerInv, SettledInv, All, OptionsPreserved
<1> QED BY <1>1, ConsumerInvariant, PTL

\* Nothing that is served sees a preserved option change, file or no file.
THEOREM OptionsSteadyHolds == ConsumerSpec => OptionsSteady
<1>1. ConsumerInv /\ [ConsumerNext]_consumerSystemVars
          => [Steady]_consumerSystemVars
  BY SteadyStep
<1>2. [Steady]_consumerSystemVars
          => [phase # "starting" =>
                  \A o \in Preserved : options'[o] = options[o]
             ]_consumerSystemVars
  BY DEF Steady
<1> QED BY <1>1, <1>2, ConsumerInvariant, PTL DEF ConsumerSpec, OptionsSteady
-----------------------------------------------------------------------------
(* What CallsReturn rests on besides fairness and WaitsEnd: a call has a
   number of steps to go that its own steps lower and nobody else's raise. *)

StepsToGo(t) ==
    LET Twice(inner, outer) == IF consumerLock = t THEN inner ELSE outer
    IN CASE pc[t] = "idle" -> 0
         [] pc[t] \in {"spawn", "join"} -> 1
         [] pc[t] = "stop" -> 2
         [] pc[t] = "connecting" -> Twice(2, 7)
         [] pc[t] = "restoring" -> Twice(3, 8)
         [] pc[t] = "parsing" -> Twice(4, 9)
         [] pc[t] = "nested" -> 5
         [] pc[t] = "start" -> 6
         [] pc[t] = "initialize" -> 10

\* A step of the call that t is in.
CallGoes(t) ==
    \/ CallStep(t)
    \/ t = Loop /\ StopStep

LEMMA StepsToGoByPC ==
    ASSUME ConsumerTypeOK, NEW t \in Threads
    PROVE  StepsToGo(t) \in 0..10 /\ (StepsToGo(t) = 0 <=> pc[t] = "idle")
<1>1. pc[t] \in {"idle", "initialize", "start", "nested", "parsing",
                "restoring", "connecting", "spawn", "stop", "join"}
  BY DEF ConsumerTypeOK
<1>2. pc[t] = "idle" => StepsToGo(t) = 0
  BY DEF StepsToGo
<1>3. pc[t] # "idle" => StepsToGo(t) \in {1, 2, 3, 4, 5, 6, 7, 8, 9, 10}
  BY <1>1 DEF StepsToGo
<1> QED BY <1>2, <1>3

\* A step of a call brings it nearer to its end.
LEMMA CallAdvances ==
    ASSUME ConsumerInv, NEW t \in Threads,
           CallGoes(t)
    PROVE  StepsToGo(t)' < StepsToGo(t)
<1> USE ConsumerAssumption
    DEF ConsumerInv, ConsumerTypeOK, LockInv, InAttempt, Goto
<1>0. Nobody # t
  OBVIOUS
<1>1. CASE EnterInitialize(t)
  BY <1>0, <1>1 DEF EnterInitialize, StepsToGo
<1>2. CASE Parse(t)
  BY <1>0, <1>2 DEF Parse, GiveUpInitialize, Return, StepsToGo
<1>3. CASE Restore(t)
  BY <1>0, <1>3 DEF Restore, StepsToGo
<1>4. CASE Connect(t)
  BY <1>0, <1>4 DEF Connect, GiveUpInitialize, Return, StepsToGo
<1>5. CASE StartConsumer(t)
  BY <1>0, <1>5 DEF StartConsumer, Return, StepsToGo
<1>6. CASE Spawn(t)
  BY <1>0, <1>6 DEF Spawn, Return, StepsToGo
<1>7. CASE t = Loop /\ StopStep
  BY <1>0, <1>7 DEF StopStep, StopConsumer, JoinConsumer, StepsToGo
<1> QED BY <1>1, <1>2, <1>3, <1>4, <1>5, <1>6, <1>7 DEF CallStep, CallGoes

\* The other steps do not touch a call that is under way, nor its hold on
\* _consumer_lock.
LEMMA OthersLeaveCalls ==
    ASSUME ConsumerInv, [ConsumerNext]_consumerSystemVars,
           NEW t \in Threads, pc[t] # "idle",
           ~CallGoes(t)
    PROVE  pc'[t] = pc[t] /\ (consumerLock' = t <=> consumerLock = t)
<1> USE ConsumerAssumption
    DEF ConsumerInv, ConsumerTypeOK, LockInv, InAttempt, Goto
<1>0. Nobody # t /\ Loop \in Threads
  BY DEF Threads
<1>1. ASSUME NEW u \in Threads, CallStep(u)
      PROVE  pc'[t] = pc[t] /\ (consumerLock' = t <=> consumerLock = t)
  <2>0. u # t
    BY <1>1 DEF CallGoes
  <2>1. CASE EnterInitialize(u)
    BY <1>0, <2>0, <2>1 DEF EnterInitialize
  <2>2. CASE Parse(u)
    BY <1>0, <2>0, <2>2 DEF Parse, GiveUpInitialize, Return
  <2>3. CASE Restore(u)
    BY <1>0, <2>0, <2>3 DEF Restore
  <2>4. CASE Connect(u)
    BY <1>0, <2>0, <2>4 DEF Connect, GiveUpInitialize, Return
  <2>5. CASE StartConsumer(u)
    BY <1>0, <2>0, <2>5 DEF StartConsumer, Return
  <2>6. CASE Spawn(u)
    BY <1>0, <2>0, <2>6 DEF Spawn, Return
  <2> QED BY <1>1, <2>1, <2>2, <2>3, <2>4, <2>5, <2>6 DEF CallStep
<1>2. CASE t # Loop /\ StopStep
  BY <1>0, <1>2 DEF StopStep, StopConsumer, JoinConsumer
<1>3. CASE LifespanStarts \/ LifespanStops \/ SendBeacon
  BY <1>0, <1>3 DEF LifespanStarts, LifespanStops, SendBeacon
<1>4. ASSUME NEW u \in Threads, CheckSends(u) \/ SendBulletins(u)
      PROVE  pc'[t] = pc[t] /\ consumerLock' = consumerLock
  BY <1>4 DEF CheckSends, SendBulletins
<1>5. ASSUME NEW k \in Consumers, ListenerStep(k)
      PROVE  pc'[t] = pc[t] /\ consumerLock' = consumerLock
  BY <1>5 DEF ListenerStep, LoopTop, ResetClient, ReadReturns
<1>6. CASE Network \/ UNCHANGED consumerSystemVars
  BY <1>6 DEF Network, consumerSystemVars
<1> QED BY <1>1, <1>2, <1>3, <1>4, <1>5, <1>6 DEF ConsumerNext, Threads, CallGoes

\* A call that makes sure of the consumer, and the stop, end after ten steps
\* of their own at most; whatever other threads, the network and the consumer
\* threads do adds none.
THEOREM CallsAreFiniteHolds ==
    ConsumerSpec =>
       /\ [](\A t \in Threads :
                /\ StepsToGo(t) \in 0..10
                /\ StepsToGo(t) = 0 <=> pc[t] = "idle")
       /\ [][\A t \in Threads :
                pc[t] # "idle" =>
                   /\ StepsToGo(t)' <= StepsToGo(t)
                   /\ CallGoes(t) => StepsToGo(t)' < StepsToGo(t)]_consumerSystemVars
<1> DEFINE Bounded ==
              \A t \in Threads : /\ StepsToGo(t) \in 0..10
                                 /\ StepsToGo(t) = 0 <=> pc[t] = "idle"
           Falls ==
              \A t \in Threads :
                 pc[t] # "idle" =>
                    /\ StepsToGo(t)' <= StepsToGo(t)
                    /\ CallGoes(t) => StepsToGo(t)' < StepsToGo(t)
<1>1. ConsumerInv => Bounded
  BY StepsToGoByPC DEF ConsumerInv
<1>2. ASSUME ConsumerInv, ConsumerInv', Bounded, Bounded',
             [ConsumerNext]_consumerSystemVars
      PROVE  Falls
  <2> SUFFICES ASSUME NEW t \in Threads, pc[t] # "idle"
               PROVE  /\ StepsToGo(t)' <= StepsToGo(t)
                      /\ CallGoes(t) => StepsToGo(t)' < StepsToGo(t)
    OBVIOUS
  <2>1. StepsToGo(t) \in 0..10 /\ StepsToGo(t)' \in 0..10
    BY <1>2
  <2>2. CASE CallGoes(t)
    <3>1. StepsToGo(t)' < StepsToGo(t)
      BY <1>2, <2>2, CallAdvances
    <3> QED BY <2>1, <3>1
  <2>3. CASE ~CallGoes(t)
    <3>1. pc'[t] = pc[t] /\ (consumerLock' = t <=> consumerLock = t)
      BY <1>2, <2>3, OthersLeaveCalls
    <3>2. StepsToGo(t)' = StepsToGo(t)
      BY <1>2, <3>1 DEF StepsToGo
    <3> QED BY <2>1, <2>3, <3>2
  <2> QED BY <2>2, <2>3
<1> HIDE DEF Bounded, Falls
<1>3. ConsumerSpec => []Bounded
  BY <1>1, ConsumerInvariant, PTL
<1>4. ConsumerSpec => [][Falls]_consumerSystemVars
  BY <1>1, <1>2, ConsumerInvariant, PTL DEF ConsumerSpec
<1> QED BY <1>3, <1>4 DEF Bounded, Falls
=============================================================================
