------------------------------- MODULE System -------------------------------
(***************************************************************************)
(* The running registry: the request handlers on the event loop (WebApi)   *)
(* and the check threads with the consumer (HealthChecker) over one        *)
(* database (RegistryDB), and the restart of the process.                  *)
(***************************************************************************)
EXTENDS HealthChecker, WebApi

vars == <<dbVars, healthVars, webVars>>

TypeOK == DBTypeOK /\ HealthTypeOK /\ WebTypeOK

\* The first start, on an empty database.
Init == DBInit /\ HealthInit /\ WebInit

\* A restart also loses the requests in progress.
Restart ==
    /\ RestartChecks
    /\ loop' = {}
    /\ edits' = {}

Next ==
    \/ HealthNext /\ UNCHANGED webVars
    \/ WebNext /\ UNCHANGED healthVars
    \/ Restart

Spec == Init /\ [][Next]_vars
-----------------------------------------------------------------------------
(* Properties *)

\* The statuses that checks in progress have read.
HeldStatuses ==
    [c \in Callsigns |->
        {check[t].current : t \in {u \in InFlight(c) : ~At(u, "started")}}]

Lifecycle == INSTANCE ServiceLifecycle
    WITH status <- status, by <- audit.actor, held <- HeldStatuses

\* guide.html: the transitions of checks; faq.html: who restores a deleted
\* service.  Whatever writes whole rows back after reading them, changes of
\* commands included, every change of a status is one of ServiceLifecycle.
StatusesFollowLifecycle == Lifecycle!LifecycleSpec

\* registry(): "Don't allow re-registration to un-delete a service", and the
\* same of set-commands: a whole row that is written back right after it was
\* read does not make a deleted service active, whatever is deleted, checked
\* or edited around it.  Only a write of the status alone does (undeleting, a
\* check), or an edit that was suspended while its form was awaited.
RewritesKeepDeleted ==
    [][\A c \in Callsigns :
          status[c] = "deleted" /\ status'[c] = "active" =>
              \/ audit'.action = "status_change"
              \/ \E e \in edits \ edits' : e.service = c]_vars
-----------------------------------------------------------------------------
(* What a document says and the code does not do *)

\* check_service: "Skips services that are: Deleted"; faq.html: "deleted
\* services cannot be re-registered automatically": no check brings one back.
CheckKeepsDeleted ==
    [][\A c \in Callsigns :
          status[c] = "deleted" /\ status'[c] # "deleted" =>
              audit'.actor # "scheduler"]_vars
=============================================================================
