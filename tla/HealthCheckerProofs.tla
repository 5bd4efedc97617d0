------------------------- MODULE HealthCheckerProofs -------------------------
(***************************************************************************)
(* The inductive invariant of the health checker and the proof that every  *)
(* step of it keeps the invariant, for any number of services, threads,    *)
(* retries and failures, whatever the handlers do to the status columns    *)
(* in between.                                                             *)
(***************************************************************************)
EXTENDS HealthChecker, FiniteSetTheorems, TLAPS

FailedRows(c) == {r \in checks[c] : ~r.ok}

\* A thread has a service exactly while it runs a check, and has heard
\* nothing of it before the check begins.
CheckShape ==
    \A t \in Threads :
        /\ check[t].pc = "idle" <=> check[t].service = NoService
        /\ check[t].pc \in {"idle", "started"} => check[t].packet = "none"
        /\ check[t].pc = "begun" => check[t].packet # "answer"

JobsOnly ==
    \A t \in Threads : check[t].service \in Unattended => check[t].source = "job"

\* max_instances of the job, and nobody who triggers checks by hand: an
\* unattended service has one check at most.
SoleCheck ==
    \A c \in Unattended : \A t, u \in InFlight(c) : t = u

\* A check whose result has its timestamp and is not in the history yet.
Stamped(t) == check[t].pc \in {"stamped", "recording"}

\* Timestamps are unique within a service, and the newest of an unattended
\* service is the one about to be recorded.
Stamps ==
    /\ \A c \in Callsigns :
          IsFiniteSet(checks[c]) /\ \A r \in checks[c] : r.at <= clock[c]
    /\ \A t \in Threads :
          Stamped(t) =>
              /\ check[t].at <= clock[check[t].service]
              /\ \A r \in checks[check[t].service] : r.at # check[t].at
    /\ \A t, u \in Threads :
          /\ Stamped(t) /\ Stamped(u)
          /\ check[t].service = check[u].service
          /\ check[t].at = check[u].at
          => t = u

NewestStamp ==
    \A t \in Threads :
        Stamped(t) /\ check[t].service \in Unattended =>
            \A r \in checks[check[t].service] : r.at < check[t].at

\* What a verdict of "down" rests on between judging and recording.
VerdictBacked ==
    \A t \in Threads :
        /\ check[t].pc = "recording"
        /\ check[t].new = "down" /\ check[t].current # "down"
        => /\ ~check[t].heard
           /\ Cardinality(FailedRows(check[t].service)) + 1 >= FailuresForDown
           /\ check[t].service \in Unattended =>
                ConsecutiveFailures(check[t].service) + 1 >= FailuresForDown

\* The answer of an unattended service stays in the tracker until looked at.
AnswerKept ==
    \A t \in Threads :
        /\ check[t].pc \in {"polling", "late"}
        /\ check[t].service \in Unattended
        /\ check[t].packet = "answer"
        => responses[check[t].service]

ChecksTypeOK == checks \in [Callsigns -> SUBSET HealthRow]

HealthInv ==
    /\ HealthTypeOK
    /\ ChecksTypeOK
    /\ CheckShape
    /\ JobsOnly
    /\ SoleCheck
    /\ Stamps
    /\ NewestStamp
    /\ VerdictBacked
    /\ DownIsBacked
    /\ DownAfterConsecutiveFailures
    /\ AnswerKept
    /\ AnsweredCheckSucceeds
-----------------------------------------------------------------------------
(* Frame lemmas *)

\* What a step must leave alone for the results on their way to stay backed.
ResultsKept ==
    /\ UNCHANGED <<checks, clock>>
    /\ \A t \in Threads :
          check'[t].pc \in {"stamped", "recording", "updating"} =>
              check'[t] = check[t]

LEMMA ResultFrame ==
    ASSUME HealthInv, ResultsKept
    PROVE  /\ Stamps' /\ NewestStamp' /\ VerdictBacked'
           /\ DownIsBacked' /\ DownAfterConsecutiveFailures'
<1> USE DEF HealthInv, ResultsKept
<1>1. \A c : FailedRows(c)' = FailedRows(c)
  BY DEF FailedRows
<1>2. \A c : ConsecutiveFailures(c)' = ConsecutiveFailures(c)
  BY DEF ConsecutiveFailures, RecentFailures
<1>3. Stamps'
  BY DEF Stamps, Stamped
<1>4. NewestStamp'
  BY DEF NewestStamp, Stamped, Unattended
<1>5. VerdictBacked'
  BY <1>1, <1>2 DEF VerdictBacked, Unattended
<1>6. DownIsBacked'
  BY DEF DownIsBacked, At, Service
<1>7. DownAfterConsecutiveFailures'
  BY <1>2 DEF DownAfterConsecutiveFailures, At, Service, Unattended
<1> QED BY <1>3, <1>4, <1>5, <1>6, <1>7

\* A step that starts no check.
ServicesKept ==
    \A t \in Threads :
        \/ check'[t].service = NoService
        \/ /\ check'[t].service = check[t].service
           /\ check'[t].source = check[t].source

LEMMA ServiceFrame ==
    ASSUME HealthInv, ServicesKept
    PROVE  JobsOnly' /\ SoleCheck'
<1> USE DEF HealthInv, ServicesKept, Unattended
<1>0. NoService \notin Callsigns
  BY HealthAssumption DEF HealthAssumption
<1>1. JobsOnly'
  BY <1>0 DEF JobsOnly
<1>2. SoleCheck'
  BY <1>0 DEF SoleCheck, InFlight
<1> QED BY <1>1, <1>2
\* The locals the retry loop changes.
LEMMA RetryLocals ==
    ASSUME NEW k \in Check, NEW pc \in PCs, NEW n \in Nat
    PROVE  [k EXCEPT !.pc = pc, !.attempt = n] \in Check
BY DEF Check

\* The locals the other steps before the verdict change.
LEMMA BegunLocals ==
    ASSUME NEW k \in Check, NEW s \in Statuses
    PROVE  [k EXCEPT !.pc = "begun", !.current = s] \in Check
BY DEF Check, PCs

LEMMA HeardLocals ==
    ASSUME NEW k \in Check, NEW h \in BOOLEAN
    PROVE  [k EXCEPT !.pc = "judging", !.heard = h] \in Check
BY DEF Check, PCs

LEMMA AnsweredLocals ==
    ASSUME NEW k \in Check, NEW h \in BOOLEAN
    PROVE  [k EXCEPT !.pc = "judging", !.attempt = 0, !.heard = h] \in Check
BY DEF Check, PCs
-----------------------------------------------------------------------------
(* Steps that neither judge nor record a result *)

\* What is left to prove of a step once the frames apply.
LEMMA QuietStep ==
    ASSUME HealthInv, ResultsKept, ServicesKept, HealthTypeOK',
           CheckShape', AnswerKept', AnsweredCheckSucceeds'
    PROVE  HealthInv'
<1>1. ChecksTypeOK'
  BY DEF HealthInv, ChecksTypeOK, ResultsKept
<1>2. JobsOnly' /\ SoleCheck'
  BY ServiceFrame
<1>3. /\ Stamps' /\ NewestStamp' /\ VerdictBacked'
      /\ DownIsBacked' /\ DownAfterConsecutiveFailures'
  BY ResultFrame
<1> QED BY <1>1, <1>2, <1>3 DEF HealthInv

LEMMA SkipDeletedKeeps ==
    ASSUME HealthInv, NEW t \in Threads, SkipDeleted(t)
    PROVE  HealthInv'
<1> USE HealthAssumption DEF HealthInv, SkipDeleted, At, Service, Idle
<1>1. HealthTypeOK'
  BY DEF HealthTypeOK, Check, PCs, Statuses
<1>2. ResultsKept /\ ServicesKept
  BY DEF ResultsKept, ServicesKept, HealthTypeOK, dbVars
<1>3. CheckShape'
  BY DEF CheckShape, HealthTypeOK
<1>4. AnswerKept' /\ AnsweredCheckSucceeds'
  BY DEF AnswerKept, AnsweredCheckSucceeds, HealthTypeOK, Unattended
<1> QED BY <1>1, <1>2, <1>3, <1>4, QuietStep

LEMMA BeginCheckKeeps ==
    ASSUME HealthInv, NEW t \in Threads, BeginCheck(t)
    PROVE  HealthInv'
<1> USE HealthAssumption DEF HealthInv, BeginCheck, At, Service
<1>0. status[check[t].service] \in Statuses
  BY DEF CheckableStatuses, Statuses
<1>1. HealthTypeOK'
  <2>1. [check[t] EXCEPT !.pc = "begun",
                           !.current = status[check[t].service]] \in Check
    BY <1>0, BegunLocals DEF HealthTypeOK
  <2> QED BY <1>0, <2>1 DEF HealthTypeOK
<1>2. ResultsKept /\ ServicesKept
  BY DEF ResultsKept, ServicesKept, HealthTypeOK, Check, dbVars
<1>3. CheckShape'
  BY DEF CheckShape, HealthTypeOK, Check
<1>4. AnswerKept' /\ AnsweredCheckSucceeds'
  BY DEF AnswerKept, AnsweredCheckSucceeds, HealthTypeOK, Check, Unattended
<1> QED BY <1>1, <1>2, <1>3, <1>4, QuietStep

LEMMA CannotSendKeeps ==
    ASSUME HealthInv, NEW t \in Threads, CannotSend(t)
    PROVE  HealthInv'
<1> USE HealthAssumption DEF HealthInv, CannotSend, At, Service
<1>1. HealthTypeOK'
  BY DEF HealthTypeOK, Check, PCs
<1>2. ResultsKept /\ ServicesKept
  BY DEF ResultsKept, ServicesKept, HealthTypeOK, Check, dbVars
<1>3. CheckShape'
  BY DEF CheckShape, HealthTypeOK, Check
<1>4. AnswerKept' /\ AnsweredCheckSucceeds'
  BY DEF AnswerKept, AnsweredCheckSucceeds, HealthTypeOK, Check, Unattended,
         CheckShape
<1> QED BY <1>1, <1>2, <1>3, <1>4, QuietStep

\* The message that clears the tracker is the only one that could lose
\* another check's answer, and an unattended service has no other check.
LEMMA SendMessageKeeps ==
    ASSUME HealthInv, NEW t \in Threads, SendMessage(t)
    PROVE  HealthInv'
<1> USE HealthAssumption DEF HealthInv, SendMessage, At, Service
<1>0. PICK next \in SendOutcome :
          check' = [check EXCEPT ![t] =
              [@ EXCEPT !.pc = next,
                        !.attempt = IF next = "polling" THEN 1 ELSE 0]]
  OBVIOUS
<1>1. HealthTypeOK'
  <2> DEFINE n == IF next = "polling" THEN 1 ELSE 0
  <2>1. [check[t] EXCEPT !.pc = next, !.attempt = n] \in Check
    <3>1. check[t] \in Check /\ next \in PCs /\ n \in Nat
      BY <1>0 DEF HealthTypeOK, PCs, SendOutcome
    <3> HIDE DEF n
    <3> QED BY <3>1, RetryLocals
  <2> QED BY <1>0, <2>1 DEF HealthTypeOK
<1>2. ResultsKept /\ ServicesKept
  BY <1>0 DEF ResultsKept, ServicesKept, HealthTypeOK, Check, dbVars,
              SendOutcome
<1>3. CheckShape'
  BY <1>0 DEF CheckShape, HealthTypeOK, Check, SendOutcome
<1>4. AnswerKept'
  <2> SUFFICES ASSUME NEW u \in Threads,
                      check'[u].pc \in {"polling", "late"},
                      check'[u].service \in Unattended,
                      check'[u].packet = "answer"
               PROVE  responses'[check'[u].service]
    BY DEF AnswerKept
  <2>1. u # t
    BY <1>0 DEF CheckShape, HealthTypeOK, Check
  <2>2. check'[u] = check[u] /\ responses[check[u].service]
    BY <1>0, <2>1 DEF AnswerKept, HealthTypeOK
  <2>3. check[t].service # check[u].service
    BY <2>1, <2>2 DEF SoleCheck, InFlight, Unattended
  <2> QED BY <2>2, <2>3 DEF HealthTypeOK, Check, Unattended
<1>5. AnsweredCheckSucceeds'
  BY <1>0 DEF AnsweredCheckSucceeds, HealthTypeOK, Check, Unattended,
              SendOutcome
<1> QED BY <1>1, <1>2, <1>3, <1>4, <1>5, QuietStep

LEMMA PollHearsKeeps ==
    ASSUME HealthInv, NEW t \in Threads, PollHears(t)
    PROVE  HealthInv'
<1> USE HealthAssumption DEF HealthInv, PollHears, At, Service
<1>1. HealthTypeOK'
  <2>1. [check[t] EXCEPT !.pc = "judging", !.attempt = 0, !.heard = TRUE] \in Check
    BY AnsweredLocals DEF HealthTypeOK
  <2> QED BY <2>1 DEF HealthTypeOK
<1>2. ResultsKept /\ ServicesKept
  BY DEF ResultsKept, ServicesKept, HealthTypeOK, Check, dbVars
<1>3. CheckShape'
  BY DEF CheckShape, HealthTypeOK, Check
<1>4. AnswerKept' /\ AnsweredCheckSucceeds'
  BY DEF AnswerKept, AnsweredCheckSucceeds, HealthTypeOK, Check, Unattended
<1> QED BY <1>1, <1>2, <1>3, <1>4, QuietStep

LEMMA RetryKeeps ==
    ASSUME HealthInv, NEW t \in Threads, Retry(t)
    PROVE  HealthInv'
<1> USE HealthAssumption DEF HealthInv, Retry, At, Service
<1>0. PICK next \in SendOutcome :
          check' = [check EXCEPT ![t] =
              [@ EXCEPT !.pc = next,
                        !.attempt =
                    IF next = "polling" THEN check[t].attempt + 1 ELSE 0]]
  OBVIOUS
<1>1. HealthTypeOK'
  <2> DEFINE n == IF next = "polling" THEN check[t].attempt + 1 ELSE 0
  <2>1. [check[t] EXCEPT !.pc = next, !.attempt = n] \in Check
    <3>1. check[t] \in Check /\ next \in PCs /\ n \in Nat
      BY <1>0 DEF HealthTypeOK, PCs, SendOutcome, Check
    <3> HIDE DEF n
    <3> QED BY <3>1, RetryLocals
  <2>2. check' = [check EXCEPT
                    ![t] = [check[t] EXCEPT !.pc = next, !.attempt = n]]
    BY <1>0 DEF HealthTypeOK
  <2> HIDE DEF n
  <2> QED BY <2>1, <2>2 DEF HealthTypeOK
<1>2. ResultsKept /\ ServicesKept
  BY <1>0 DEF ResultsKept, ServicesKept, HealthTypeOK, Check, dbVars,
              SendOutcome
<1>3. CheckShape'
  BY <1>0 DEF CheckShape, HealthTypeOK, Check, SendOutcome
<1>4. AnswerKept' /\ AnsweredCheckSucceeds'
  BY <1>0 DEF AnswerKept, AnsweredCheckSucceeds, HealthTypeOK, Check,
              Unattended, SendOutcome
<1> QED BY <1>1, <1>2, <1>3, <1>4, QuietStep

LEMMA GiveUpKeeps ==
    ASSUME HealthInv, NEW t \in Threads, GiveUp(t)
    PROVE  HealthInv'
<1> USE HealthAssumption DEF HealthInv, GiveUp, At, Service
<1>1. HealthTypeOK'
  <2>1. [check[t] EXCEPT !.pc = "late", !.attempt = 0] \in Check
    BY RetryLocals DEF HealthTypeOK, PCs
  <2> QED BY <2>1 DEF HealthTypeOK
<1>2. ResultsKept /\ ServicesKept
  BY DEF ResultsKept, ServicesKept, HealthTypeOK, Check, dbVars
<1>3. CheckShape'
  BY DEF CheckShape, HealthTypeOK, Check
<1>4. AnswerKept' /\ AnsweredCheckSucceeds'
  BY DEF AnswerKept, AnsweredCheckSucceeds, HealthTypeOK, Check, Unattended
<1> QED BY <1>1, <1>2, <1>3, <1>4, QuietStep

LEMMA LateLookupKeeps ==
    ASSUME HealthInv, NEW t \in Threads, LateLookup(t)
    PROVE  HealthInv'
<1> USE HealthAssumption DEF HealthInv, LateLookup, At, Service
<1>0. RecentResponse(t) \in BOOLEAN
  BY DEF RecentResponse
<1>1. HealthTypeOK'
  <2>1. [check[t] EXCEPT !.pc = "judging", !.heard = RecentResponse(t)] \in Check
    BY <1>0, HeardLocals DEF HealthTypeOK
  <2> QED BY <1>0, <2>1 DEF HealthTypeOK
<1>2. ResultsKept /\ ServicesKept
  BY DEF ResultsKept, ServicesKept, HealthTypeOK, Check, dbVars
<1>3. CheckShape'
  BY DEF CheckShape, HealthTypeOK, Check
<1>4. AnswerKept'
  BY DEF AnswerKept, HealthTypeOK, Check, Unattended
<1>5. AnsweredCheckSucceeds'
  BY DEF AnswerKept, AnsweredCheckSucceeds, HealthTypeOK, Check, Unattended,
         RecentResponse
<1> QED BY <1>1, <1>2, <1>3, <1>4, <1>5, QuietStep

LEMMA ReceivePacketKeeps ==
    ASSUME HealthInv, NEW c \in Callsigns, ReceivePacket(c)
    PROVE  HealthInv'
<1> USE HealthAssumption DEF HealthInv, ReceivePacket, Service, Overheard
<1>1. HealthTypeOK'
  BY DEF HealthTypeOK, Check
<1>2. ResultsKept /\ ServicesKept
  BY DEF ResultsKept, ServicesKept, HealthTypeOK, Check, dbVars
<1>3. CheckShape'
  BY DEF CheckShape, HealthTypeOK, Check
<1>4. AnswerKept'
  BY DEF AnswerKept, HealthTypeOK, Check, Unattended
<1>5. AnsweredCheckSucceeds'
  BY DEF AnsweredCheckSucceeds, HealthTypeOK, Check, Unattended
<1> QED BY <1>1, <1>2, <1>3, <1>4, <1>5, QuietStep
-----------------------------------------------------------------------------
(* Starting a check, and the restart *)

LEMMA StartedCheck ==
    ASSUME NEW c \in Callsigns, NEW source \in {"job", "manual"}
    PROVE  /\ Started(c, source) \in Check
           /\ Started(c, source).pc = "started"
           /\ Started(c, source).service = c
           /\ Started(c, source).source = source
           /\ Started(c, source).packet = "none"
BY DEF Started, Idle, Check, PCs, Statuses

\* max_instances = 1: the job of an unattended service finds nobody at it.
LEMMA JobFiresKeeps ==
    ASSUME HealthInv, NEW t \in Threads, NEW c \in Callsigns, JobFires(t, c)
    PROVE  HealthInv'
<1> USE HealthAssumption DEF HealthInv, JobFires, Running
<1> DEFINE k == Started(c, "job")
<1>0. /\ k \in Check /\ k.pc = "started" /\ k.service = c
      /\ k.source = "job" /\ k.packet = "none"
  BY StartedCheck
<1>1. check' = [check EXCEPT ![t] = k]
  OBVIOUS
<1> HIDE DEF k
<1>2. HealthTypeOK'
  BY <1>0, <1>1 DEF HealthTypeOK
<1>3. ResultsKept
  BY <1>0, <1>1 DEF ResultsKept, HealthTypeOK, dbVars
<1>4. JobsOnly'
  BY <1>0, <1>1 DEF JobsOnly, HealthTypeOK, Unattended
<1>5. SoleCheck'
  BY <1>0, <1>1 DEF SoleCheck, JobsOnly, InFlight, HealthTypeOK, Unattended
<1>6. CheckShape'
  BY <1>0, <1>1 DEF CheckShape, HealthTypeOK
<1>7. AnswerKept' /\ AnsweredCheckSucceeds'
  BY <1>0, <1>1 DEF AnswerKept, AnsweredCheckSucceeds, HealthTypeOK,
                    Unattended, Service
<1>8. ChecksTypeOK'
  BY DEF ChecksTypeOK, dbVars
<1> QED BY <1>2, <1>3, <1>4, <1>5, <1>6, <1>7, <1>8, ResultFrame

\* A step that starts manual checks, of services in Manual, on idle threads.
ManualStarts ==
    \A t \in Threads :
        \/ check'[t] = check[t]
        \/ \E c \in Manual : check'[t] = Started(c, "manual")

LEMMA ManualStartsKeep ==
    ASSUME HealthInv, ManualStarts, HealthTypeOK',
           UNCHANGED <<dbVars, responses, clock, scheduled>>
    PROVE  HealthInv'
<1> USE HealthAssumption DEF HealthInv
<1>0. ASSUME NEW t \in Threads
      PROVE  \/ check'[t] = check[t]
             \/ /\ check'[t].pc = "started"
                /\ check'[t].service \in Manual
                /\ check'[t].packet = "none"
  BY StartedCheck DEF ManualStarts
<1>1. ResultsKept
  BY <1>0 DEF ResultsKept, dbVars
<1>2. JobsOnly'
  BY <1>0 DEF JobsOnly, Unattended
<1>3. SoleCheck'
  BY <1>0 DEF SoleCheck, InFlight, Unattended
<1>4. CheckShape'
  BY <1>0 DEF CheckShape
<1>5. AnswerKept' /\ AnsweredCheckSucceeds'
  BY <1>0 DEF AnswerKept, AnsweredCheckSucceeds, Unattended, Service
<1>6. ChecksTypeOK'
  BY DEF ChecksTypeOK, dbVars
<1> QED BY <1>1, <1>2, <1>3, <1>4, <1>5, <1>6, ResultFrame

LEMMA TriggerHealthCheckKeeps ==
    ASSUME HealthInv, NEW t \in Threads, NEW c \in Callsigns,
           TriggerHealthCheck(t, c)
    PROVE  HealthInv'
<1> USE DEF TriggerHealthCheck
<1>1. HealthTypeOK'
  BY StartedCheck DEF HealthInv, HealthTypeOK
<1>2. ManualStarts
  BY DEF ManualStarts, HealthInv, HealthTypeOK
<1> QED BY <1>1, <1>2, ManualStartsKeep

LEMMA TriggerAllHealthChecksKeeps ==
    ASSUME HealthInv, TriggerAllHealthChecks
    PROVE  HealthInv'
<1> USE DEF TriggerAllHealthChecks
<1>0. CheckableServices \subseteq Callsigns /\ CheckableServices \subseteq Manual
  BY DEF CheckableServices, GetAllServices
<1>1. PICK thread \in [CheckableServices -> {t \in Threads : ~Running(t)}] :
          check' = [t \in Threads |->
             IF \E c \in CheckableServices : thread[c] = t
             THEN Started(CHOOSE c \in CheckableServices : thread[c] = t,
                          "manual")
             ELSE check[t]]
  OBVIOUS
<1>2. ASSUME NEW t \in Threads
      PROVE  \/ check'[t] = check[t]
             \/ \E c \in CheckableServices : check'[t] = Started(c, "manual")
  BY <1>1
<1>3. ManualStarts
  BY <1>0, <1>2 DEF ManualStarts
<1>4. HealthTypeOK'
  <2>1. \A t \in Threads : check'[t] \in Check
    BY <1>0, <1>2, StartedCheck DEF HealthInv, HealthTypeOK
  <2> QED BY <1>1, <2>1 DEF HealthInv, HealthTypeOK
<1> QED BY <1>3, <1>4, ManualStartsKeep

LEMMA RestartChecksKeeps ==
    ASSUME HealthInv, RestartChecks
    PROVE  HealthInv'
<1> USE HealthAssumption DEF HealthInv, RestartChecks, Idle
<1>1. HealthTypeOK'
  BY DEF HealthTypeOK, Check, PCs, Statuses, JobsAtStartup,
         CheckableServices, GetAllServices
<1>2. ResultsKept /\ ServicesKept
  BY DEF ResultsKept, ServicesKept, dbVars
<1>3. CheckShape'
  BY DEF CheckShape
<1>4. AnswerKept' /\ AnsweredCheckSucceeds'
  BY DEF AnswerKept, AnsweredCheckSucceeds, Unattended, Service
<1> QED BY <1>1, <1>2, <1>3, <1>4, QuietStep
-----------------------------------------------------------------------------
(* Judging, recording and writing the status *)

LEMMA FailureCounts ==
    ASSUME NEW c \in Callsigns, IsFiniteSet(checks[c])
    PROVE  /\ IsFiniteSet(FailedRows(c)) /\ IsFiniteSet(RecentFailures(c))
           /\ Cardinality(FailedRows(c)) \in Nat
           /\ ConsecutiveFailures(c) \in Nat
           /\ ConsecutiveFailures(c) <= Cardinality(FailedRows(c))
<1>1. /\ FailedRows(c) \subseteq checks[c]
      /\ RecentFailures(c) \subseteq FailedRows(c)
  BY DEF FailedRows, RecentFailures
<1>2. IsFiniteSet(FailedRows(c))
  BY <1>1, FS_Subset
<1>3. /\ IsFiniteSet(RecentFailures(c))
      /\ Cardinality(RecentFailures(c)) <= Cardinality(FailedRows(c))
  BY <1>1, <1>2, FS_Subset
<1> QED BY <1>2, <1>3, FS_CardinalityType DEF ConsecutiveFailures

LEMMA NewStatusDown ==
    ASSUME NEW current \in Statuses, NEW heard \in BOOLEAN, NEW failures
    PROVE  /\ NewStatus(current, heard, failures) \in Statuses
           /\ NewStatus(current, heard, failures) = "down" /\ current # "down"
                => ~heard /\ failures >= FailuresForDown
BY DEF NewStatus, Statuses

\* A new timestamp is newer than all that were taken.
LEMMA TakeTimestampKeeps ==
    ASSUME HealthInv, NEW t \in Threads, TakeTimestamp(t)
    PROVE  HealthInv'
<1> USE HealthAssumption DEF HealthInv, TakeTimestamp, At, Service
<1> DEFINE c == check[t].service
           at == clock[c] + 1
           k == [check[t] EXCEPT !.pc = "stamped", !.at = at]
<1>1. check[t] \in Check /\ c \in Callsigns /\ clock[c] \in Nat
  BY DEF CheckShape, HealthTypeOK, Check
<1>2. /\ check' = [check EXCEPT ![t] = k]
      /\ clock' = [clock EXCEPT ![c] = @ + 1]
      /\ checks' = checks /\ responses' = responses /\ scheduled' = scheduled
  BY DEF dbVars
<1>3. /\ k \in Check /\ k.pc = "stamped" /\ k.at = clock[c] + 1
      /\ k.service = c /\ k.source = check[t].source
      /\ k.heard = check[t].heard /\ k.packet = check[t].packet
  <2>1. at \in Nat /\ check[t] \in Check /\ k = [check[t] EXCEPT !.pc = "stamped", !.at = at]
    BY <1>1
  <2> HIDE DEF at, k, c, TakeTimestamp, HealthInv
  <2>2. /\ k \in Check /\ k.pc = "stamped" /\ k.at = at
        /\ k.service = check[t].service /\ k.source = check[t].source
        /\ k.heard = check[t].heard /\ k.packet = check[t].packet
    BY <2>1 DEF Check, PCs
  <2> QED BY <2>2 DEF at, c
<1>4. \A u \in Threads : check'[u] = IF u = t THEN k ELSE check[u]
  BY <1>2 DEF HealthTypeOK
<1>5. HealthTypeOK'
  BY <1>1, <1>2, <1>3 DEF HealthTypeOK
<1>6. ServicesKept /\ CheckShape'
  BY <1>3, <1>4 DEF ServicesKept, CheckShape
<1>7. AnswerKept' /\ AnsweredCheckSucceeds'
  BY <1>2, <1>3, <1>4 DEF AnswerKept, AnsweredCheckSucceeds, Unattended
<1> HIDE DEF k, at
<1>8. Stamps'
  <2>1. \A d \in Callsigns :
           IsFiniteSet(checks[d]) /\ \A r \in checks[d] : r.at <= clock'[d]
    BY <1>2 DEF Stamps, HealthTypeOK, ChecksTypeOK, HealthRow
  <2>2. \A u \in Threads : Stamped(u) =>
           check[u].at <= clock'[check[u].service]
    BY <1>2 DEF Stamps, Stamped, HealthTypeOK, Check, CheckShape
  <2>3. k.at <= clock'[c] /\ \A r \in checks[c] : r.at # k.at
    BY <1>1, <1>2, <1>3 DEF Stamps, HealthTypeOK, ChecksTypeOK, HealthRow
  <2>4. \A u \in Threads :
           Stamped(u) /\ check[u].service = c => check[u].at # k.at
    BY <1>1, <1>3 DEF Stamps, HealthTypeOK, Check
  <2> QED BY <1>2, <1>3, <1>4, <2>1, <2>2, <2>3, <2>4 DEF Stamps, Stamped
<1>9. NewestStamp'
  <2>1. \A r \in checks[c] : r.at < k.at
    BY <1>1, <1>3 DEF Stamps, ChecksTypeOK, HealthRow
  <2> QED BY <1>2, <1>3, <1>4, <2>1 DEF NewestStamp, Stamped, Unattended
<1>10. \A d : /\ FailedRows(d)' = FailedRows(d)
              /\ ConsecutiveFailures(d)' = ConsecutiveFailures(d)
  BY <1>2 DEF FailedRows, ConsecutiveFailures, RecentFailures
<1>11. VerdictBacked'
  BY <1>3, <1>4, <1>10 DEF VerdictBacked, Unattended
<1>12. DownIsBacked' /\ DownAfterConsecutiveFailures'
  BY <1>2, <1>3, <1>4, <1>10
     DEF DownIsBacked, DownAfterConsecutiveFailures, Unattended
<1>13. JobsOnly' /\ SoleCheck'
  BY <1>6, ServiceFrame
<1>14. ChecksTypeOK'
  BY <1>2 DEF ChecksTypeOK
<1> QED BY <1>5, <1>6, <1>7, <1>8, <1>9, <1>11, <1>12, <1>13, <1>14

LEMMA JudgeKeeps ==
    ASSUME HealthInv, NEW t \in Threads, Judge(t)
    PROVE  HealthInv'
<1> USE HealthAssumption DEF HealthInv, Judge, At, Service
<1> DEFINE c == check[t].service
           new == NewStatus(check[t].current, check[t].heard,
                            ConsecutiveFailures(c) + 1)
           k == [check[t] EXCEPT !.pc = "recording", !.new = new]
<1>1. check[t] \in Check /\ c \in Callsigns /\ check[t].pc = "stamped"
  BY DEF CheckShape, HealthTypeOK, Check
<1>2. new \in Statuses
  BY <1>1, NewStatusDown DEF Check
<1>3. /\ new = "down" /\ check[t].current # "down" =>
            ~check[t].heard /\ ConsecutiveFailures(c) + 1 >= FailuresForDown
  BY <1>1, NewStatusDown DEF Check
<1>4. /\ check' = [check EXCEPT ![t] = k]
      /\ clock' = clock
      /\ checks' = checks /\ responses' = responses /\ scheduled' = scheduled
  BY DEF dbVars
<1> HIDE DEF new
<1>5. /\ k \in Check /\ k.pc = "recording" /\ k.at = check[t].at
      /\ k.new = new /\ k.service = c /\ k.source = check[t].source
      /\ k.heard = check[t].heard /\ k.current = check[t].current
      /\ k.packet = check[t].packet
  BY <1>1, <1>2 DEF Check, PCs
<1>6. \A u \in Threads : check'[u] = IF u = t THEN k ELSE check[u]
  BY <1>4 DEF HealthTypeOK
<1>7. HealthTypeOK'
  BY <1>1, <1>4, <1>5 DEF HealthTypeOK
<1>8. ServicesKept /\ CheckShape'
  BY <1>5, <1>6 DEF ServicesKept, CheckShape
<1>9. AnswerKept' /\ AnsweredCheckSucceeds'
  BY <1>1, <1>4, <1>5, <1>6 DEF AnswerKept, AnsweredCheckSucceeds, Unattended
<1> HIDE DEF k
<1>10. Stamps'
  BY <1>1, <1>4, <1>5, <1>6 DEF Stamps, Stamped
<1>11. NewestStamp'
  BY <1>1, <1>4, <1>5, <1>6 DEF NewestStamp, Stamped, Unattended
<1>12. \A d : /\ FailedRows(d)' = FailedRows(d)
              /\ ConsecutiveFailures(d)' = ConsecutiveFailures(d)
  BY <1>4 DEF FailedRows, ConsecutiveFailures, RecentFailures
<1>13. VerdictBacked'
  <2>1. /\ Cardinality(FailedRows(c)) \in Nat
        /\ ConsecutiveFailures(c) \in Nat
        /\ ConsecutiveFailures(c) <= Cardinality(FailedRows(c))
    BY <1>1, FailureCounts DEF Stamps
  <2>2. new = "down" /\ check[t].current # "down" =>
           Cardinality(FailedRows(c)) + 1 >= FailuresForDown
    BY <1>3, <2>1
  <2>3. ASSUME NEW u \in Threads, check'[u].pc = "recording",
               check'[u].new = "down", check'[u].current # "down"
        PROVE  /\ ~check'[u].heard
               /\ Cardinality(FailedRows(check'[u].service)) + 1
                    >= FailuresForDown
               /\ check'[u].service \in Unattended =>
                    ConsecutiveFailures(check'[u].service) + 1
                        >= FailuresForDown
    <3>1. CASE u = t
      BY <1>3, <1>5, <1>6, <2>2, <2>3, <3>1
    <3>2. CASE u # t
      BY <1>6, <2>3, <3>2 DEF VerdictBacked
    <3> QED BY <3>1, <3>2
  <2> QED BY <1>12, <2>3 DEF VerdictBacked, Unattended
<1>14. DownIsBacked' /\ DownAfterConsecutiveFailures'
  BY <1>4, <1>5, <1>6, <1>12
     DEF DownIsBacked, DownAfterConsecutiveFailures, Unattended
<1>15. JobsOnly' /\ SoleCheck'
  BY <1>8, ServiceFrame
<1>16. ChecksTypeOK'
  BY <1>4 DEF ChecksTypeOK
<1> QED BY <1>7, <1>8, <1>9, <1>10, <1>11, <1>13, <1>14, <1>15, <1>16

LEMMA UpdateStatusKeeps ==
    ASSUME HealthInv, NEW t \in Threads, UpdateStatus(t)
    PROVE  HealthInv'
<1> USE HealthAssumption
    DEF HealthInv, UpdateStatus, UpdateServiceStatus, At, Service, Idle
<1>1. HealthTypeOK'
  BY DEF HealthTypeOK, Check, PCs, Statuses
<1>2. ResultsKept /\ ServicesKept
  BY DEF ResultsKept, ServicesKept, HealthTypeOK
<1>3. CheckShape'
  BY DEF CheckShape, HealthTypeOK
<1>4. AnswerKept' /\ AnsweredCheckSucceeds'
  BY DEF AnswerKept, AnsweredCheckSucceeds, HealthTypeOK, Unattended
<1> QED BY <1>1, <1>2, <1>3, <1>4, QuietStep

\* The new row is nobody else's timestamp; of an unattended service it is the
\* newest row, so a failure adds one to both counts.
LEMMA RecordedCounts ==
    ASSUME NEW c \in Callsigns, NEW at \in Nat, NEW ok \in BOOLEAN,
           ChecksTypeOK, IsFiniteSet(checks[c]),
           AddHealthCheck(c, [at |-> at, ok |-> ok]),
           \A r \in checks[c] : r.at # at
    PROVE  /\ IsFiniteSet(checks'[c])
           /\ Cardinality(FailedRows(c)') >= Cardinality(FailedRows(c))
           /\ ~ok => Cardinality(FailedRows(c)')
                        = Cardinality(FailedRows(c)) + 1
           /\ ~ok /\ (\A r \in checks[c] : r.at < at) =>
                ConsecutiveFailures(c)' = ConsecutiveFailures(c) + 1
<1> DEFINE row == [at |-> at, ok |-> ok]
<1>1. checks'[c] = checks[c] \cup {row} /\ row \notin checks[c]
  BY DEF AddHealthCheck, ChecksTypeOK
<1>2. row.ok = ok /\ row.at = at
  OBVIOUS
<1> HIDE DEF row
<1>3. IsFiniteSet(checks'[c])
  BY <1>1, FS_AddElement
<1>4. CASE ok
  <2>1. FailedRows(c)' = FailedRows(c)
    BY <1>1, <1>2, <1>4 DEF FailedRows
  <2> QED BY <1>3, <1>4, <2>1, FailureCounts
<1>5. CASE ~ok
  <2>1. FailedRows(c)' = FailedRows(c) \cup {row} /\ row \notin FailedRows(c)
    BY <1>1, <1>2, <1>5 DEF FailedRows
  <2>2. Cardinality(FailedRows(c)') = Cardinality(FailedRows(c)) + 1
    BY <2>1, FailureCounts, FS_AddElement
  <2>3. ASSUME \A r \in checks[c] : r.at < at
        PROVE  ConsecutiveFailures(c)' = ConsecutiveFailures(c) + 1
    <3>1. /\ RecentFailures(c)' = RecentFailures(c) \cup {row}
          /\ row \notin RecentFailures(c)
      BY <1>1, <1>2, <1>5, <2>3 DEF RecentFailures
    <3> QED BY <3>1, FailureCounts, FS_AddElement DEF ConsecutiveFailures
  <2> QED BY <1>3, <1>5, <2>2, <2>3, FailureCounts
<1> QED BY <1>4, <1>5

LEMMA RecordResultKeeps ==
    ASSUME HealthInv, NEW t \in Threads, RecordResult(t)
    PROVE  HealthInv'
<1> USE HealthAssumption
<1>0. /\ check[t] \in Check /\ check[t].service \in Callsigns
      /\ check[t].pc = "recording"
  BY DEF HealthInv, CheckShape, HealthTypeOK, Check, RecordResult, At
<1>c. PICK c \in Callsigns : c = check[t].service
  BY <1>0
<1>a. PICK at \in Nat : at = check[t].at
  BY <1>0 DEF Check
<1>o. PICK ok \in BOOLEAN : ok = check[t].heard
  BY <1>0 DEF Check
<1> USE <1>c, <1>a, <1>o
<1>1. /\ check[t] \in Check
      /\ check[t].pc = "recording"
      /\ IsFiniteSet(checks[c])
      /\ \A r \in checks[c] : r.at # at
  BY <1>0 DEF HealthInv, Stamps, Stamped
<1>2. /\ AddHealthCheck(c, [at |-> at, ok |-> ok])
      /\ responses' = responses /\ clock' = clock /\ scheduled' = scheduled
  BY DEF RecordResult, Service
<1>3. checks' = [checks EXCEPT ![c] = @ \cup {[at |-> at, ok |-> ok]}]
  BY <1>2 DEF AddHealthCheck
<1>4. \A u \in Threads :
         \/ u # t /\ check'[u] = check[u]
         \/ /\ u = t /\ check[t].new # check[t].current
            /\ check'[t] = [check[t] EXCEPT !.pc = "updating"]
         \/ u = t /\ check'[t] = Idle
  BY DEF RecordResult, HealthInv, HealthTypeOK
<1>5. DOMAIN check' = Threads /\ check' \in [Threads -> Check]
  <2>1. Idle \in Check /\ [check[t] EXCEPT !.pc = "updating"] \in Check
    BY <1>1 DEF Idle, Check, PCs, Statuses
  <2> QED BY <2>1 DEF RecordResult, HealthInv, HealthTypeOK
<1>6. /\ Idle.pc = "idle" /\ Idle.service = NoService
      /\ Idle.packet = "none"
  BY DEF Idle
<1>7. \A u \in Threads :
         check'[u].pc = "updating" /\ u = t =>
             /\ check'[u].service = c /\ check'[u].new = check[t].new
             /\ check'[u].packet = check[t].packet
             /\ check'[u].heard = check[t].heard
             /\ check[t].new # check[t].current
  BY <1>1, <1>4, <1>6 DEF Check
<1>8. HealthTypeOK' /\ ChecksTypeOK'
  <2>1. [at |-> at, ok |-> ok] \in HealthRow
    BY <1>1 DEF HealthRow
  <2> QED BY <1>1, <1>2, <1>3, <1>5, <2>1
          DEF HealthInv, HealthTypeOK, ChecksTypeOK
<1>9. ServicesKept
  BY <1>1, <1>4, <1>6 DEF ServicesKept, Check
<1>10. JobsOnly' /\ SoleCheck'
  BY <1>9, ServiceFrame
<1>11. CheckShape'
  BY <1>1, <1>4, <1>6 DEF HealthInv, CheckShape, Check
<1>12. AnswerKept' /\ AnsweredCheckSucceeds'
  BY <1>1, <1>2, <1>4, <1>6
     DEF HealthInv, AnswerKept, AnsweredCheckSucceeds, Check, Unattended,
         Service
<1>13. /\ IsFiniteSet(checks'[c])
       /\ Cardinality(FailedRows(c)') >= Cardinality(FailedRows(c))
       /\ ~ok => Cardinality(FailedRows(c)') = Cardinality(FailedRows(c)) + 1
       /\ ~ok /\ (\A r \in checks[c] : r.at < at) =>
             ConsecutiveFailures(c)' = ConsecutiveFailures(c) + 1
  <2>1. ChecksTypeOK
    BY DEF HealthInv
  <2> QED BY <1>1, <1>2, <2>1, RecordedCounts
<1>14. \A d \in Callsigns : d # c =>
          /\ checks'[d] = checks[d]
          /\ FailedRows(d)' = FailedRows(d)
          /\ ConsecutiveFailures(d)' = ConsecutiveFailures(d)
  BY <1>3 DEF HealthInv, ChecksTypeOK, FailedRows, ConsecutiveFailures,
              RecentFailures
<1>15. \A d \in Callsigns :
          /\ Cardinality(FailedRows(d)) \in Nat
          /\ Cardinality(FailedRows(d)') >= Cardinality(FailedRows(d))
  BY <1>13, <1>14, FailureCounts DEF HealthInv, Stamps
<1>16. Stamps'
  <2>1. \A r \in checks'[c] : r.at <= clock'[c]
    BY <1>0, <1>1, <1>2, <1>3 DEF HealthInv, Stamps, Stamped, ChecksTypeOK
  <2>2. \A d \in Callsigns :
           IsFiniteSet(checks'[d]) /\ \A r \in checks'[d] : r.at <= clock'[d]
    BY <1>2, <1>13, <1>14, <2>1 DEF HealthInv, Stamps
  <2>3. \A u \in Threads :
           Stamped(u)' => u # t /\ check'[u] = check[u] /\ Stamped(u)
    BY <1>0, <1>4, <1>6 DEF Check, Stamped
  <2>4. \A u \in Threads :
           Stamped(u) /\ check[u].service = c /\ u # t => check[u].at # at
    BY <1>0, <1>1 DEF HealthInv, Stamps, Stamped
  <2>5. \A u \in Threads :
           Stamped(u) /\ u # t =>
              \A r \in checks'[check[u].service] : r.at # check[u].at
    <3> SUFFICES ASSUME NEW u \in Threads,
                        Stamped(u), u # t,
                        NEW r \in checks'[check[u].service]
                 PROVE  r.at # check[u].at
      OBVIOUS
    <3>1. check[u].service \in Callsigns
      BY DEF HealthInv, CheckShape, HealthTypeOK, Check, Stamped
    <3>2. CASE check[u].service = c
      BY <1>3, <2>4, <3>2 DEF HealthInv, Stamps, ChecksTypeOK
    <3>3. CASE check[u].service # c
      BY <1>14, <3>1, <3>3 DEF HealthInv, Stamps
    <3> QED BY <3>2, <3>3
  <2> QED BY <1>2, <2>2, <2>3, <2>5 DEF HealthInv, Stamps
<1>17. ASSUME NEW u \in Threads, u # t, check[u].service \in Unattended,
              check[u].pc # "idle"
       PROVE  check[u].service # c /\ check[u].service \in Callsigns
  BY <1>0, <1>17 DEF HealthInv, SoleCheck, InFlight, Unattended, Service
<1>18. NewestStamp'
  <2> SUFFICES ASSUME NEW u \in Threads, Stamped(u)',
                      check'[u].service \in Unattended
               PROVE  \A r \in checks'[check'[u].service] : r.at < check'[u].at
    BY DEF NewestStamp, Unattended
  <2>1. u # t /\ check'[u] = check[u] /\ Stamped(u)
    BY <1>0, <1>4, <1>6 DEF Check, Stamped
  <2>2. check[u].service # c /\ check[u].service \in Callsigns
    BY <1>17, <2>1 DEF Stamped
  <2> QED BY <1>14, <2>1, <2>2 DEF HealthInv, NewestStamp
<1>19. ASSUME check[t].new = "down", check[t].new # check[t].current
       PROVE  /\ Cardinality(FailedRows(c)') >= FailuresForDown
              /\ c \in Unattended =>
                   ConsecutiveFailures(c)' >= FailuresForDown
  <2>1. /\ ~ok /\ Cardinality(FailedRows(c)) + 1 >= FailuresForDown
        /\ c \in Unattended => ConsecutiveFailures(c) + 1 >= FailuresForDown
    BY <1>1, <1>19 DEF HealthInv, VerdictBacked
  <2>2. c \in Unattended => \A r \in checks[c] : r.at < at
    BY <1>1 DEF HealthInv, NewestStamp, Stamped
  <2> QED BY <1>13, <2>1, <2>2
\* The counts of the service of another thread u.
<1>20. ASSUME NEW u \in Threads, u # t, NEW d \in Callsigns,
              check[u].service = d
       PROVE  /\ Cardinality(FailedRows(d)) \in Nat
              /\ Cardinality(FailedRows(d)') \in Nat
              /\ Cardinality(FailedRows(d)') >= Cardinality(FailedRows(d))
              /\ d \in Unattended =>
                   ConsecutiveFailures(d)' = ConsecutiveFailures(d)
  <2>1. d \in Unattended => d # c
    BY <1>0, <1>20 DEF HealthInv, SoleCheck, InFlight
  <2>2. Cardinality(FailedRows(d)') \in Nat
    <3>1. IsFiniteSet(checks'[d])
      BY <1>13, <1>14 DEF HealthInv, Stamps
    <3>2. FailedRows(d)' \subseteq checks'[d]
      BY DEF FailedRows
    <3> QED BY <3>1, <3>2, FS_Subset, FS_CardinalityType
  <2> QED BY <1>14, <1>15, <2>1, <2>2
<1>21. VerdictBacked'
  <2> SUFFICES ASSUME NEW u \in Threads,
                      (/\ check[u].pc = "recording"
                       /\ check[u].new = "down" /\ check[u].current # "down")'
               PROVE  (/\ ~check[u].heard
                       /\ Cardinality(FailedRows(check[u].service)) + 1
                             >= FailuresForDown
                       /\ check[u].service \in Unattended =>
                            ConsecutiveFailures(check[u].service) + 1
                               >= FailuresForDown)'
    BY DEF VerdictBacked
  <2>1. u # t /\ check'[u] = check[u]
    BY <1>0, <1>4, <1>6 DEF Check
  <2>2. PICK d \in Callsigns : check[u].service = d
    BY <2>1 DEF HealthInv, CheckShape, HealthTypeOK, Check
  <2>3. /\ ~check[u].heard
        /\ Cardinality(FailedRows(d)) + 1 >= FailuresForDown
        /\ d \in Unattended => ConsecutiveFailures(d) + 1 >= FailuresForDown
    BY <2>1, <2>2 DEF HealthInv, VerdictBacked
  <2>4. /\ FailedRows(check[u].service)' = FailedRows(d)'
        /\ ConsecutiveFailures(check[u].service)' = ConsecutiveFailures(d)'
        /\ Unattended' = Unattended
    BY <2>1, <2>2
       DEF FailedRows, ConsecutiveFailures, RecentFailures, Unattended
  <2>5. /\ Cardinality(FailedRows(d)') + 1 >= FailuresForDown
        /\ d \in Unattended => ConsecutiveFailures(d)' + 1 >= FailuresForDown
    BY <1>20, <2>1, <2>2, <2>3, HealthAssumption DEF HealthAssumption
  <2> QED BY <2>1, <2>2, <2>3, <2>4, <2>5
\* A thread about to write the status: t itself, or one that was before.
<1>22. ASSUME NEW u \in Threads, check'[u].pc = "updating",
              check'[u].new = "down",
              NEW d \in Callsigns, check'[u].service = d
       PROVE  /\ Cardinality(FailedRows(d)') >= FailuresForDown
              /\ d \in Unattended => ConsecutiveFailures(d)' >= FailuresForDown
  <2>1. CASE u = t
    BY <1>7, <1>19, <1>22, <2>1
  <2>2. CASE u # t
    <3>1. check'[u] = check[u]
      BY <1>4, <2>2
    <3>2. /\ Cardinality(FailedRows(d)) >= FailuresForDown
          /\ d \in Unattended => ConsecutiveFailures(d) >= FailuresForDown
      BY <1>22, <3>1
         DEF HealthInv, DownIsBacked, DownAfterConsecutiveFailures, FailedRows,
             At, Service
    <3> QED BY <1>20, <1>22, <2>2, <3>1, <3>2, HealthAssumption
            DEF HealthAssumption
  <2> QED BY <2>1, <2>2
<1>23. DownIsBacked' /\ DownAfterConsecutiveFailures'
  <2>1. ASSUME NEW u \in Threads, check'[u].pc = "updating"
        PROVE  check'[u].service \in Callsigns
    BY <1>8, <1>11, <2>1 DEF HealthTypeOK, CheckShape, Check
  <2>2. DownIsBacked'
    BY <1>22, <2>1 DEF DownIsBacked, FailedRows, At, Service
  <2>3. DownAfterConsecutiveFailures'
    BY <1>22, <2>1
       DEF DownAfterConsecutiveFailures, ConsecutiveFailures, RecentFailures,
           At, Service, Unattended
  <2> QED BY <2>2, <2>3
<1> QED BY <1>8, <1>10, <1>11, <1>12, <1>16, <1>18, <1>21, <1>23
        DEF HealthInv
-----------------------------------------------------------------------------
(* The invariant *)

LEMMA HealthNextKeeps ==
    ASSUME HealthInv, HealthNext
    PROVE  HealthInv'
<1>1. ASSUME NEW t \in Threads, ThreadStep(t)
      PROVE  HealthInv'
  BY <1>1, SkipDeletedKeeps, BeginCheckKeeps, CannotSendKeeps,
     SendMessageKeeps, PollHearsKeeps, RetryKeeps, GiveUpKeeps,
     LateLookupKeeps, TakeTimestampKeeps, JudgeKeeps, RecordResultKeeps, UpdateStatusKeeps
     DEF ThreadStep
<1> QED
  BY <1>1, JobFiresKeeps, TriggerHealthCheckKeeps,
     TriggerAllHealthChecksKeeps, ReceivePacketKeeps DEF HealthNext

\* Steps of others, the handlers' among them.
LEMMA OthersKeep ==
    ASSUME HealthInv, UNCHANGED <<checks, check, responses, clock, scheduled>>
    PROVE  HealthInv'
<1>1. ResultsKept /\ ServicesKept
  BY DEF ResultsKept, ServicesKept
<1>2. HealthTypeOK'
  BY DEF HealthInv, HealthTypeOK
<1>3. CheckShape' /\ AnswerKept' /\ AnsweredCheckSucceeds'
  BY DEF HealthInv, CheckShape, AnswerKept, AnsweredCheckSucceeds, Service,
         Unattended
<1> QED BY <1>1, <1>2, <1>3, QuietStep

LEMMA HealthInitInv ==
    ASSUME HealthInit, checks = [c \in Callsigns |-> {}]
    PROVE  HealthInv
<1> USE HealthAssumption DEF HealthAssumption, HealthInit, Idle
<1>1. HealthTypeOK /\ ChecksTypeOK
  BY DEF HealthTypeOK, ChecksTypeOK, Check, PCs, Statuses, JobsAtStartup,
         CheckableServices, GetAllServices
<1>2. CheckShape /\ JobsOnly /\ NewestStamp /\ VerdictBacked
  BY DEF CheckShape, JobsOnly, NewestStamp, Stamped, VerdictBacked, Unattended
<1>3. SoleCheck
  BY DEF SoleCheck, InFlight, Unattended
<1>4. Stamps
  BY FS_EmptySet DEF Stamps, Stamped
<1>5. /\ DownIsBacked /\ DownAfterConsecutiveFailures
      /\ AnswerKept /\ AnsweredCheckSucceeds
  BY DEF DownIsBacked, DownAfterConsecutiveFailures, AnswerKept,
         AnsweredCheckSucceeds, At, Service
<1> QED BY <1>1, <1>2, <1>3, <1>4, <1>5 DEF HealthInv

\* The component by itself, whatever statuses the services of the database it
\* starts on have.
LEMMA HealthInvariant == HealthSpec => []HealthInv
<1>1. HealthStart => HealthInv
  BY HealthInitInv DEF HealthStart
<1>2. HealthInv /\ [HealthNext \/ RestartChecks]_healthSystemVars => HealthInv'
  BY HealthNextKeeps, RestartChecksKeeps, OthersKeep
     DEF healthSystemVars, dbVars, healthVars
<1> QED BY <1>1, <1>2, PTL DEF HealthSpec

\* Whoever starts checks of a service, and however many overlap: one that is
\* about to take it down has FailuresForDown failures in the history.
THEOREM DownIsBackedAlone == HealthSpec => []DownIsBacked
<1>1. HealthInv => DownIsBacked
  BY DEF HealthInv
<1> QED BY <1>1, HealthInvariant, PTL
=============================================================================
