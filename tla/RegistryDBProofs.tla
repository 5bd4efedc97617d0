-------------------------- MODULE RegistryDBProofs --------------------------
(***************************************************************************)
(* Each write method of the database keeps the types of the tables.        *)
(***************************************************************************)
EXTENDS RegistryDB, TLAPS

Actors == {"api", "admin", "system", "scheduler"}

LEMMA UpsertType ==
    ASSUME DBTypeOK, NEW c \in Callsigns, NEW row \in ServiceRow,
           NEW actor \in Actors, UpsertService(c, row, actor)
    PROVE  DBTypeOK'
<1>1. /\ row.status \in Statuses /\ row.featured \in BOOLEAN
      /\ row.healthCommand \in HealthCommands \cup {NoCommand}
      /\ row.commands \in SUBSET CommandNames
  BY DEF ServiceRow
<1>2. audit' \in [actor : Actors, action : AuditActions]
  BY DEF UpsertService, Audit, AuditActions
<1> QED BY <1>1, <1>2 DEF DBTypeOK, UpsertService, Actors

LEMMA StatusType ==
    ASSUME DBTypeOK, NEW c, NEW new \in Statuses, NEW actor \in Actors,
           UpdateServiceStatus(c, new, actor)
    PROVE  DBTypeOK'
<1>1. audit' \in [actor : Actors, action : AuditActions]
  BY DEF UpdateServiceStatus, Audit, AuditActions
<1> QED BY <1>1 DEF DBTypeOK, UpdateServiceStatus, Actors

LEMMA ToggleType ==
    ASSUME DBTypeOK, NEW c \in Callsigns, ToggleFeaturedFlag(c, "admin")
    PROVE  DBTypeOK'
<1>1. audit' \in [actor : Actors, action : AuditActions]
  BY DEF ToggleFeaturedFlag, Audit, AuditActions, Actors
<1> QED BY <1>1 DEF DBTypeOK, ToggleFeaturedFlag, Actors

LEMMA AddCommandType ==
    ASSUME DBTypeOK, NEW c \in Callsigns, NEW n \in CommandNames,
           AddCommandRow(c, n, "admin")
    PROVE  DBTypeOK'
<1>1. audit' \in [actor : Actors, action : AuditActions]
  BY DEF AddCommandRow, Audit, AuditActions, Actors
<1> QED BY <1>1 DEF DBTypeOK, AddCommandRow, serviceVars, Actors

LEMMA RemoveCommandType ==
    ASSUME DBTypeOK, NEW c \in Callsigns, NEW n \in CommandNames,
           RemoveCommandRows(c, n, "admin")
    PROVE  DBTypeOK'
<1>1. audit' \in [actor : Actors, action : AuditActions]
  BY DEF RemoveCommandRows, Audit, AuditActions, Actors
<1> QED BY <1>1 DEF DBTypeOK, RemoveCommandRows, serviceVars, Actors

LEMMA HealthRowType ==
    ASSUME DBTypeOK, NEW c, NEW row \in HealthRow, AddHealthCheck(c, row)
    PROVE  DBTypeOK'
BY DEF DBTypeOK, AddHealthCheck, serviceVars

LEMMA SubmitType ==
    ASSUME DBTypeOK, NEW c \in Callsigns, NEW n \in CommandNames,
           NEW id \in Tickets, SubmitCommandRow(id, c, n)
    PROVE  DBTypeOK'
<1>1. audit' \in [actor : Actors, action : AuditActions]
  BY DEF SubmitCommandRow, Audit, AuditActions, Actors
<1>2. submissions' \subseteq Submission
  BY DEF DBTypeOK, SubmitCommandRow, Submission
<1> QED BY <1>1, <1>2 DEF DBTypeOK, SubmitCommandRow, serviceVars, Actors

\* A decision changes the state of its row and nothing else.
LEMMA DecideType ==
    ASSUME DBTypeOK, NEW s \in submissions,
           NEW state \in {"approved", "rejected"}, Decide(s, state)
    PROVE  /\ submissions' \subseteq Submission
           /\ \A u \in submissions' :
                 u \in submissions \/ u.state # "pending"
<1>1. s \in Submission
  BY DEF DBTypeOK
<1>2. /\ [s EXCEPT !.state = state] \in Submission
      /\ [s EXCEPT !.state = state].state # "pending"
  BY <1>1 DEF Submission
<1> QED BY <1>2 DEF DBTypeOK, Decide

LEMMA ApproveType ==
    ASSUME DBTypeOK, NEW s \in submissions, ApproveSubmissionRow(s, "admin")
    PROVE  DBTypeOK'
<1>1. s.service \in Callsigns /\ s.name \in CommandNames
  BY DEF DBTypeOK, Submission
<1>2. audit' \in [actor : Actors, action : AuditActions]
  BY DEF ApproveSubmissionRow, Audit, AuditActions, Actors
<1>3. submissions' \subseteq Submission
  BY DecideType DEF ApproveSubmissionRow
<1>4. commands' \in [Callsigns -> SUBSET CommandNames]
  BY <1>1 DEF DBTypeOK, ApproveSubmissionRow
<1> QED BY <1>2, <1>3, <1>4
        DEF DBTypeOK, ApproveSubmissionRow, serviceVars, Actors

LEMMA RejectType ==
    ASSUME DBTypeOK, NEW s \in submissions, RejectSubmissionRow(s, "admin")
    PROVE  DBTypeOK'
<1>1. audit' \in [actor : Actors, action : AuditActions]
  BY DEF RejectSubmissionRow, Audit, AuditActions, Actors
<1>2. submissions' \subseteq Submission
  BY DecideType DEF RejectSubmissionRow
<1> QED BY <1>1, <1>2 DEF DBTypeOK, RejectSubmissionRow, serviceVars, Actors
=============================================================================
