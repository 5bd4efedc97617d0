--------------------------- MODULE SharedConnection ---------------------------
(***************************************************************************)
(* The one sqlite3 connection of RegistryDB under its methods: which of    *)
(* the statements of calls that run at the same time reach the file.       *)
(*                                                                         *)
(* The connection is opened with check_same_thread=False and shared by     *)
(* the event loop and every check thread.  SQLite makes a statement        *)
(* atomic; a transaction belongs to the connection, not to the thread: the *)
(* first write of anybody opens it, the commit or rollback of anybody ends *)
(* it for all.  Every method, also one that only reads, commits at its     *)
(* end.  What the statements write is left out, only how many there are.   *)
(***************************************************************************)
EXTENDS Naturals, Sequences, FiniteSets

CONSTANTS
    Clients,     \* who calls methods: the event loop and the check threads
    MethodsOf,   \* Clients -> the methods the client calls
    MayFail,     \* clients whose statements or commits may raise
    MaxCalls     \* bound: calls of a client
-----------------------------------------------------------------------------
(* The methods the handlers, the checks and the commands of cli.py call:   *)
(* the tables written by their statements, in order.  delete_service is    *)
(* update_service_status, get_last_health_check is get_health_checks.      *)

GetService == <<>>
GetAllServices == <<>>
ServiceCount == <<>>
GetHealthChecks == <<>>
GetPendingSubmissions == <<>>
GetSubmission == <<>>

\* The row, the audit event, and the commands deleted and inserted anew.
UpsertService ==
    <<"services", "audit_events", "service_commands", "service_commands">>

UpdateServiceStatus == <<"services", "audit_events">>
ToggleFeatured == <<"services", "audit_events">>
AddCommand == <<"service_commands", "audit_events">>
RemoveCommand == <<"service_commands", "audit_events">>
AddHealthCheck == <<"health_checks">>
SubmitCommand == <<"command_submissions", "audit_events">>
ApproveSubmission ==
    <<"command_submissions", "service_commands", "audit_events">>
RejectSubmission == <<"command_submissions", "audit_events">>

Writes ==
    [get_service |-> GetService,
     get_all_services |-> GetAllServices,
     service_count |-> ServiceCount,
     get_health_checks |-> GetHealthChecks,
     get_pending_submissions |-> GetPendingSubmissions,
     get_submission |-> GetSubmission,
     upsert_service |-> UpsertService,
     update_service_status |-> UpdateServiceStatus,
     toggle_featured |-> ToggleFeatured,
     add_command |-> AddCommand,
     remove_command |-> RemoveCommand,
     add_health_check |-> AddHealthCheck,
     submit_command |-> SubmitCommand,
     approve_submission |-> ApproveSubmission,
     reject_submission |-> RejectSubmission]

Methods == DOMAIN Writes

\* "return self.get_service(callsign_upper)", after the "with"
ReadsBack == {"upsert_service"}

ASSUME ConnectionAssumption ==
    /\ MethodsOf \in [Clients -> SUBSET Methods]
    /\ MayFail \subseteq Clients
    /\ MaxCalls \in Nat
-----------------------------------------------------------------------------
VARIABLES
    call,         \* Clients -> the call in progress
    transaction,  \* statements executed since the transaction began
    file,         \* statements in the database file
    history,      \* calls that have ended, and how
    overlapped,   \* observed: calls that ran at the same time as another
    undone        \* observed: calls that lost statements to another's rollback

connectionVars == <<call, transaction, file, history, overlapped, undone>>

\* The statements of the n-th call of client c, if it is one of m.
StatementsOf(c, n, m) == {<<c, n, i>> : i \in 1..Len(Writes[m])}

Call ==
    [state : {"idle", "running", "reading", "failed"}, n : Nat,
     method : Methods, next : Nat \ {0}]

Statement == Clients \X Nat \X Nat

Ended ==
    [client : Clients, n : Nat, method : Methods,
     result : {"returned", "raised", "crashed"}]

ConnectionTypeOK ==
    /\ call \in [Clients -> Call]
    /\ transaction \subseteq Statement
    /\ file \subseteq Statement
    /\ history \subseteq Ended
    /\ overlapped \subseteq Clients \X Nat
    /\ undone \subseteq Clients \X Nat

ConnectionInit ==
    /\ call = [c \in Clients |->
          [state |-> "idle", n |-> 0, method |-> "get_service", next |-> 1]]
    /\ transaction = {}
    /\ file = {}
    /\ history = {}
    /\ overlapped = {}
    /\ undone = {}

InProgress == {c \in Clients : call[c].state # "idle"}
Current(c) == <<c, call[c].n>>

Ending(c, result) ==
    [client |-> c, n |-> call[c].n, method |-> call[c].method,
     result |-> result]

EndCall(c, result) ==
    /\ call' = [call EXCEPT ![c].state = "idle"]
    /\ history' = history \cup {Ending(c, result)}

\* The next call of c has begun: it overlaps what is in progress.
NoteOverlap(c) ==
    overlapped' = IF InProgress = {} THEN overlapped
                  ELSE overlapped \cup {<<c, call[c].n + 1>>}
                                  \cup {Current(d) : d \in InProgress}

\* Mutant of Begin: a transaction that is still open is rolled back.
BeginAfresh(c, m) ==
    /\ call[c].state = "idle"
    /\ call[c].n < MaxCalls
    /\ m \in MethodsOf[c]
    /\ call' = [call EXCEPT ![c] =
          [state |-> "running", n |-> @.n + 1, method |-> m, next |-> 1]]
    /\ transaction' = {}
    /\ NoteOverlap(c)
    /\ UNCHANGED <<file, history, undone>>

\* "with self._connect() as conn"
Begin(c, m) ==
    /\ call[c].state = "idle"
    /\ call[c].n < MaxCalls
    /\ m \in MethodsOf[c]
    /\ call' = [call EXCEPT ![c] =
          [state |-> "running", n |-> @.n + 1, method |-> m, next |-> 1]]
    /\ NoteOverlap(c)
    /\ UNCHANGED <<transaction, file, history, undone>>

AllExecuted(c) == call[c].next > Len(Writes[call[c].method])

\* conn.execute of the next statement
Execute(c) ==
    /\ call[c].state = "running"
    /\ ~AllExecuted(c)
    /\ transaction' = transaction \cup {<<c, call[c].n, call[c].next>>}
    /\ call' = [call EXCEPT ![c].next = @ + 1]
    /\ UNCHANGED <<file, history, overlapped, undone>>

\* The method returns, or goes on to read its row back.
AfterCommit(c) ==
    \/ /\ call[c].method \in ReadsBack
       /\ call' = [call EXCEPT ![c].state = "reading"]
       /\ UNCHANGED history
    \/ /\ call[c].method \notin ReadsBack
       /\ EndCall(c, "returned")

\* Mutant of Commit: of the open transaction only the caller's statements
\* reach the file.
CommitOwn(c) ==
    /\ call[c].state = "running"
    /\ AllExecuted(c)
    /\ file' = file \cup
          (transaction \cap StatementsOf(c, call[c].n, call[c].method))
    /\ transaction' = {}
    /\ AfterCommit(c)
    /\ UNCHANGED <<overlapped, undone>>

\* self._conn.commit(), also after reading: everybody's statements
Commit(c) ==
    /\ call[c].state = "running"
    /\ AllExecuted(c)
    /\ file' = file \cup transaction
    /\ transaction' = {}
    /\ AfterCommit(c)
    /\ UNCHANGED <<overlapped, undone>>

\* The second "with self._connect()" of upsert_service, in get_service.
ReadBack(c) ==
    /\ call[c].state = "reading"
    /\ file' = file \cup transaction
    /\ transaction' = {}
    /\ EndCall(c, "returned")
    /\ UNCHANGED <<overlapped, undone>>

\* A statement or the commit raises: a constraint, the disk, or the lock a
\* command of cli.py holds for longer than busy_timeout.
Fail(c) ==
    /\ c \in MayFail
    /\ call[c].state \in {"running", "reading"}
    /\ call' = [call EXCEPT ![c].state = "failed"]
    /\ UNCHANGED <<transaction, file, history, overlapped, undone>>

\* Mutant of Rollback: the exception is raised without a rollback.
RaiseOnly(c) ==
    /\ call[c].state = "failed"
    /\ EndCall(c, "raised")
    /\ UNCHANGED <<transaction, file, overlapped, undone>>

\* self._conn.rollback(): everybody's statements
Rollback(c) ==
    /\ call[c].state = "failed"
    /\ transaction' = {}
    /\ undone' = undone \cup ({<<s[1], s[2]>> : s \in transaction} \ {Current(c)})
    /\ EndCall(c, "raised")
    /\ UNCHANGED <<file, overlapped>>

\* The process dies; SQLite rolls the open transaction back when the file is
\* opened next.
Crash ==
    /\ InProgress # {}
    /\ call' = [c \in Clients |-> [call[c] EXCEPT !.state = "idle"]]
    /\ history' = history \cup {Ending(c, "crashed") : c \in InProgress}
    /\ transaction' = {}
    /\ UNCHANGED <<file, overlapped, undone>>

ClientStep(c) ==
    \/ \E m \in MethodsOf[c] : Begin(c, m)
    \/ Execute(c)
    \/ Commit(c)
    \/ ReadBack(c)
    \/ Fail(c)
    \/ Rollback(c)

ConnectionNext == (\E c \in Clients : ClientStep(c)) \/ Crash

ConnectionSpec == ConnectionInit /\ [][ConnectionNext]_connectionVars
-----------------------------------------------------------------------------
(* Properties *)

\* The promise of db.py's methods is kept to every call that overlaps no
\* other, whichever calls fail and whenever the process dies.  Two handlers
\* never overlap: the event loop runs them one at a time.
Store == INSTANCE AtomicStore
KeepsPromise == Store!StoreSpec

\* class RegistryDB: "serialized writes. Thread-safe via SQLite's internal
\* locking": a call that has returned is in the file as a whole.
ReturnedIsDurable ==
    \A e \in history :
        e.result = "returned" => StatementsOf(e.client, e.n, e.method) \subseteq file

\* What the one connection keeps of it for calls that overlap: whoever commits
\* or crashes in between, a call that has returned is in the file as a whole,
\* unless the rollback of another call took statements of it away.
LostOnlyByRollback ==
    \A e \in history :
        e.result = "returned" /\ <<e.client, e.n>> \notin undone =>
            StatementsOf(e.client, e.n, e.method) \subseteq file

\* Nor does a commit of another call, a failure or a crash leave anything but
\* the beginning of a call, no audit event without the change it is about,
\* unless the rollback of another call took statements of it away.
DurableIsPrefix ==
    \A s \in file :
        <<s[1], s[2]>> \notin undone =>
            \A i \in 1..s[3] : <<s[1], s[2], i>> \in file
=============================================================================
