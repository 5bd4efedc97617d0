------------------------ MODULE SharedConnectionProofs ------------------------
(***************************************************************************)
(* What the shared connection keeps of the calls' statements for any       *)
(* number of clients, calls and methods, whichever calls fail: the promise *)
(* of module AtomicStore to every call that overlaps no other, and of      *)
(* calls that overlap all that no other call's rollback takes away.        *)
(***************************************************************************)
EXTENDS SharedConnection, TLAPS

Reached == transaction \cup file

\* The first k statements of the n-th call of c.
FirstOf(c, n, k) == {<<c, n, i>> : i \in 1..k}

\* A call in progress is counted, has not ended, and is somewhere in its
\* statements.
CallsCounted ==
    /\ \A c \in Clients :
          call[c].state # "idle" =>
              call[c].n \in 1..MaxCalls
              /\ call[c].next <= Len(Writes[call[c].method]) + 1
    /\ \A e \in history :
          /\ e.n \in 1..MaxCalls /\ e.n <= call[e.client].n
          /\ e.n = call[e.client].n => call[e.client].state = "idle"

ConnectionOK == ConnectionTypeOK /\ CallsCounted

LEMMA WritesLength ==
    \A m \in Methods : Len(Writes[m]) \in Nat
<1> DEFINE Sequences == {GetService, GetAllServices, ServiceCount,
                         GetHealthChecks, GetPendingSubmissions,
                         GetSubmission, UpsertService, UpdateServiceStatus,
                         ToggleFeatured, AddCommand, RemoveCommand,
                         AddHealthCheck, SubmitCommand, ApproveSubmission,
                         RejectSubmission}
<1>1. \A w \in Sequences : Len(w) \in Nat
  BY DEF GetService, GetAllServices, ServiceCount, GetHealthChecks,
         GetPendingSubmissions, GetSubmission, UpsertService,
         UpdateServiceStatus, ToggleFeatured, AddCommand, RemoveCommand,
         AddHealthCheck, SubmitCommand, ApproveSubmission, RejectSubmission
<1>2. \A m \in Methods : Writes[m] \in Sequences
  BY DEF Methods, Writes
<1> QED BY <1>1, <1>2

\* Moving the call of one client to its next statement leaves a call.
LEMMA CallFields ==
    ASSUME NEW k \in Call
    PROVE  \A i \in Nat \ {0} : [k EXCEPT !.next = i] \in Call
BY DEF Call

\* A call in progress goes on to another state.
LEMMA StateChange ==
    ASSUME ConnectionOK, NEW c \in Clients, call[c].state # "idle",
           NEW st \in {"idle", "reading", "failed"},
           call' = [call EXCEPT ![c].state = st]
    PROVE  /\ call' \in [Clients -> Call]
           /\ call'[c].state = st /\ call'[c].n = call[c].n
           /\ call'[c].method = call[c].method
           /\ call'[c].next = call[c].next
           /\ \A d \in Clients : d # c => call'[d] = call[d]
           /\ history' = history => CallsCounted'
<1>1. call[c] \in Call
  BY DEF ConnectionOK, ConnectionTypeOK
<1>e. [call[c] EXCEPT !.state = st] \in Call
  BY <1>1 DEF Call
<1>2. PICK new \in Call : new = [call[c] EXCEPT !.state = st]
  BY <1>e
<1>3. /\ new.state = st /\ new.n = call[c].n
      /\ new.method = call[c].method /\ new.next = call[c].next
  BY <1>1, <1>2 DEF Call
<1>4. call' = [call EXCEPT ![c] = new]
  BY <1>2 DEF ConnectionOK, ConnectionTypeOK
<1>5. \A e \in history : e.client \in Clients
  BY DEF ConnectionOK, ConnectionTypeOK, Ended
<1> QED BY <1>3, <1>4, <1>5 DEF ConnectionOK, ConnectionTypeOK, CallsCounted

\* Ending the call of one client.
LEMMA EndCallCounted ==
    ASSUME ConnectionOK, NEW c \in Clients, call[c].state # "idle",
           NEW result \in {"returned", "raised"}, EndCall(c, result)
    PROVE  /\ call' \in [Clients -> Call] /\ history' \subseteq Ended
           /\ CallsCounted'
           /\ call'[c].state = "idle" /\ call'[c].n = call[c].n
           /\ \A d \in Clients : d # c => call'[d] = call[d]
<1>1. call[c] \in Call
  BY DEF ConnectionOK, ConnectionTypeOK
<1>2. Ending(c, result) \in Ended
  BY <1>1 DEF Ending, Ended, Call
<1>3. /\ Ending(c, result).client = c /\ Ending(c, result).n = call[c].n
  BY DEF Ending
<1>4. call' = [call EXCEPT ![c].state = "idle"]
  BY DEF EndCall
<1>5. /\ call' \in [Clients -> Call]
      /\ call'[c].state = "idle" /\ call'[c].n = call[c].n
      /\ \A d \in Clients : d # c => call'[d] = call[d]
  BY <1>4, StateChange
<1>6. history' \subseteq Ended
  BY <1>2 DEF EndCall, ConnectionOK, ConnectionTypeOK
<1>7. \A e \in history : e.client \in Clients
  BY DEF ConnectionOK, ConnectionTypeOK, Ended
<1> QED BY <1>3, <1>5, <1>6, <1>7 DEF EndCall, ConnectionOK, CallsCounted

LEMMA BeginKeeps ==
    ASSUME ConnectionOK, NEW c \in Clients, NEW m \in MethodsOf[c], Begin(c, m)
    PROVE  ConnectionOK'
<1>1. call[c] \in Call /\ m \in Methods
  BY ConnectionAssumption
     DEF ConnectionOK, ConnectionTypeOK, ConnectionAssumption
<1>b. [state |-> "running", n |-> call[c].n + 1, method |-> m, next |-> 1]
         \in Call
  BY <1>1 DEF Call
<1>2. PICK new \in Call :
         new = [state |-> "running", n |-> call[c].n + 1, method |-> m,
                next |-> 1]
  BY <1>b
<1>3. /\ new.state = "running" /\ new.n = call[c].n + 1 /\ new.next = 1
      /\ new.method = m
  BY <1>2
<1>4. call' = [call EXCEPT ![c] = new]
  BY <1>2 DEF Begin, ConnectionOK, ConnectionTypeOK
<1>o. overlapped' \subseteq Clients \X Nat
  BY <1>1 DEF Begin, NoteOverlap, InProgress, Current, Call, ConnectionOK,
              ConnectionTypeOK
<1>5. ConnectionTypeOK'
  BY <1>4, <1>o DEF Begin, ConnectionOK, ConnectionTypeOK
<1>6. Len(Writes[m]) \in Nat /\ call[c].n \in Nat
  BY <1>1, WritesLength DEF Call
<1>7. call[c].n + 1 \in 1..MaxCalls
  BY <1>6, ConnectionAssumption DEF Begin, ConnectionAssumption
<1>8. \A e \in history : e.client \in Clients
  BY DEF ConnectionOK, ConnectionTypeOK, Ended
<1>9. \A e \in history : e.n \in Nat
  BY DEF ConnectionOK, ConnectionTypeOK, Ended
<1> QED BY <1>3, <1>4, <1>5, <1>6, <1>7, <1>8, <1>9
        DEF Begin, ConnectionOK, ConnectionTypeOK, CallsCounted

LEMMA ExecuteKeeps ==
    ASSUME ConnectionOK, NEW c \in Clients, Execute(c)
    PROVE  /\ ConnectionOK'
           /\ call'[c] = [call[c] EXCEPT !.next = @ + 1]
           /\ \A d \in Clients : d # c => call'[d] = call[d]
<1>1. call[c] \in Call
  BY DEF ConnectionOK, ConnectionTypeOK
<1>2. Len(Writes[call[c].method]) \in Nat
  BY <1>1, WritesLength DEF Call
<1>b. call[c].next + 1 \in Nat \ {0}
  BY <1>1 DEF Call
<1>e. [call[c] EXCEPT !.next = call[c].next + 1] \in Call
  BY <1>1, <1>b, CallFields
<1>3. PICK new \in Call : new = [call[c] EXCEPT !.next = call[c].next + 1]
  BY <1>e
<1>4. /\ new.state = call[c].state /\ new.n = call[c].n
      /\ new.method = call[c].method /\ new.next = call[c].next + 1
  BY <1>1, <1>3 DEF Call
<1>5. call' = [call EXCEPT ![c] = new]
  BY <1>3 DEF Execute, ConnectionOK, ConnectionTypeOK
<1>6. <<c, call[c].n, call[c].next>> \in Statement
  BY <1>1 DEF Call, Statement
<1>7. ConnectionTypeOK'
  BY <1>5, <1>6 DEF Execute, ConnectionOK, ConnectionTypeOK
<1>8. call[c].next + 1 <= Len(Writes[call[c].method]) + 1
  BY <1>1, <1>2 DEF Execute, AllExecuted, Call
<1>9. CallsCounted'
  <2>1. \A e \in history : e.client \in Clients
    BY DEF ConnectionOK, ConnectionTypeOK, Ended
  <2> QED BY <1>4, <1>5, <1>8, <2>1
          DEF Execute, ConnectionOK, ConnectionTypeOK, CallsCounted
<1> QED BY <1>3, <1>5, <1>7, <1>9 DEF ConnectionOK, ConnectionTypeOK

LEMMA FailKeeps ==
    ASSUME ConnectionOK, NEW c \in Clients, Fail(c)
    PROVE  ConnectionOK'
<1>1. /\ call' = [call EXCEPT ![c].state = "failed"]
      /\ call[c].state # "idle" /\ history' = history
  BY DEF Fail
<1>2. call' \in [Clients -> Call] /\ CallsCounted'
  BY <1>1, StateChange
<1> QED BY <1>2 DEF Fail, ConnectionOK, ConnectionTypeOK

LEMMA CrashKeeps ==
    ASSUME ConnectionOK, Crash
    PROVE  /\ ConnectionOK'
           /\ \A c \in Clients : call'[c].state = "idle"
           /\ \A e \in history' \ history : e.result = "crashed"
<1>1. \A c \in Clients : call[c] \in Call
  BY DEF ConnectionOK, ConnectionTypeOK
<1>2. \A c \in Clients :
         /\ call'[c] = [call[c] EXCEPT !.state = "idle"]
         /\ call'[c] \in Call
         /\ call'[c].state = "idle" /\ call'[c].n = call[c].n
  BY <1>1 DEF Crash, Call
<1>3. \A c \in Clients :
         /\ Ending(c, "crashed") \in Ended
         /\ Ending(c, "crashed").client = c
         /\ Ending(c, "crashed").n = call[c].n
         /\ Ending(c, "crashed").result = "crashed"
  BY <1>1 DEF Ending, Ended, Call
<1>4. \A e \in history' \ history :
         \E c \in Clients : call[c].state # "idle" /\ e = Ending(c, "crashed")
  BY DEF Crash, InProgress
<1>5. history' \subseteq Ended
  BY <1>3, <1>4 DEF ConnectionOK, ConnectionTypeOK
<1>6. ConnectionTypeOK'
  BY <1>2, <1>5 DEF Crash, ConnectionOK, ConnectionTypeOK
<1>7. CallsCounted'
  <2>1. \A e \in history : e.client \in Clients
    BY DEF ConnectionOK, ConnectionTypeOK, Ended
  <2>2. ASSUME NEW e \in history'
        PROVE  /\ e.n \in 1..MaxCalls /\ e.n <= call'[e.client].n
               /\ call'[e.client].state = "idle"
    <3>1. CASE e \in history
      BY <1>2, <2>1, <3>1 DEF ConnectionOK, CallsCounted
    <3>2. CASE e \notin history
      <4>1. PICK c \in Clients :
               call[c].state # "idle" /\ e = Ending(c, "crashed")
        BY <1>4, <3>2
      <4>2. call[c].n \in 1..MaxCalls /\ call[c].n \in Nat
        BY <1>1, <4>1 DEF ConnectionOK, CallsCounted, Call
      <4>3. /\ e.client = c /\ e.n = call[c].n
            /\ call'[c].n = call[c].n /\ call'[c].state = "idle"
        BY <1>2, <1>3, <4>1
      <4> QED BY <4>2, <4>3
    <3> QED BY <3>1, <3>2
  <2> QED BY <1>2, <2>2 DEF CallsCounted
<1>8. \A e \in history' \ history : e.result = "crashed"
  BY <1>3, <1>4
<1> QED BY <1>2, <1>6, <1>7, <1>8 DEF ConnectionOK

\* A commit, the read back and a rollback.
LEMMA EndKeeps ==
    ASSUME ConnectionOK, NEW c \in Clients,
           Commit(c) \/ ReadBack(c) \/ Rollback(c)
    PROVE  ConnectionOK'
<1>1. call[c].state # "idle"
  BY DEF Commit, ReadBack, Rollback
<1>2. /\ transaction' \subseteq Statement /\ file' \subseteq Statement
      /\ overlapped' \subseteq Clients \X Nat
  BY DEF Commit, ReadBack, Rollback, ConnectionOK, ConnectionTypeOK
<1>3. undone' \subseteq Clients \X Nat
  <2>1. \A s \in transaction : <<s[1], s[2]>> \in Clients \X Nat
    BY DEF ConnectionOK, ConnectionTypeOK, Statement
  <2> QED BY <2>1 DEF Commit, ReadBack, Rollback, ConnectionOK, ConnectionTypeOK
<1>4. CASE \E result \in {"returned", "raised"} : EndCall(c, result)
  <2>1. /\ call' \in [Clients -> Call] /\ history' \subseteq Ended
        /\ CallsCounted'
    BY <1>1, <1>4, EndCallCounted
  <2> QED BY <1>2, <1>3, <2>1 DEF ConnectionOK, ConnectionTypeOK
<1>5. CASE /\ call' = [call EXCEPT ![c].state = "reading"]
           /\ UNCHANGED history
  <2>1. call' \in [Clients -> Call] /\ CallsCounted'
    BY <1>1, <1>5, StateChange
  <2> QED BY <1>2, <1>3, <1>5, <2>1 DEF ConnectionOK, ConnectionTypeOK
<1> QED BY <1>4, <1>5 DEF Commit, AfterCommit, ReadBack, Rollback

LEMMA ConnectionOKKeeps ==
    ASSUME ConnectionOK, [ConnectionNext]_connectionVars
    PROVE  ConnectionOK'
<1>1. CASE UNCHANGED connectionVars
  BY <1>1 DEF ConnectionOK, ConnectionTypeOK, CallsCounted, connectionVars
<1> QED
  BY <1>1, BeginKeeps, ExecuteKeeps, FailKeeps, CrashKeeps, EndKeeps
     DEF ConnectionNext, ClientStep

LEMMA ConnectionOKInit ==
    ASSUME ConnectionInit
    PROVE  ConnectionOK
<1>1. "get_service" \in Methods
  BY DEF Methods, Writes
<1>2. [state |-> "idle", n |-> 0, method |-> "get_service", next |-> 1] \in Call
  BY <1>1 DEF Call
<1> QED BY <1>2 DEF ConnectionInit, ConnectionOK, ConnectionTypeOK, CallsCounted

\* ConnectionTypeOK for any clients, methods and failures.
THEOREM ConnectionTypeCorrect == ConnectionSpec => []ConnectionTypeOK
<1>1. ConnectionInit => ConnectionOK
  BY ConnectionOKInit
<1>2. ConnectionOK /\ [ConnectionNext]_connectionVars => ConnectionOK'
  BY ConnectionOKKeeps
<1>3. ConnectionOK => ConnectionTypeOK
  BY DEF ConnectionOK
<1> QED BY <1>1, <1>2, <1>3, PTL DEF ConnectionSpec
-----------------------------------------------------------------------------
(* What reaches the file of calls that overlap *)

\* The statements of a call in progress are in the transaction or the file,
\* unless another call's rollback took some; one that reads its row back has
\* executed all of them.
Executed ==
    \A c \in Clients :
        /\ call[c].state \in {"running", "reading"} /\ Current(c) \notin undone =>
               FirstOf(c, call[c].n, call[c].next - 1) \subseteq Reached
        /\ call[c].state = "reading" => AllExecuted(c)

\* So are, with a statement, the statements before it.
PrefixesReached ==
    \A s \in Reached :
        <<s[1], s[2]>> \notin undone =>
            \A i \in 1..s[3] : <<s[1], s[2], i>> \in Reached

OverlapInv ==
    /\ ConnectionOK
    /\ Executed
    /\ PrefixesReached
    /\ LostOnlyByRollback
    /\ DurableIsPrefix

\* A commit puts all that is in the transaction or the file into the file.
LEMMA CommitReaches ==
    ASSUME OverlapInv, NEW c \in Clients, Commit(c) \/ ReadBack(c)
    PROVE  /\ file' = Reached /\ Reached' = Reached /\ undone' = undone
           /\ Current(c) \notin undone =>
                  StatementsOf(c, call[c].n, call[c].method) \subseteq Reached
<1>1. /\ file' = Reached /\ Reached' = Reached /\ undone' = undone
      /\ call[c].state \in {"running", "reading"} /\ AllExecuted(c)
  BY DEF Commit, ReadBack, Reached, OverlapInv, Executed
<1>2. call[c] \in Call
  BY DEF OverlapInv, ConnectionOK, ConnectionTypeOK
<1>3. Len(Writes[call[c].method]) \in Nat /\ call[c].next \in Nat
  BY <1>2, WritesLength DEF Call
<1>4. Len(Writes[call[c].method]) <= call[c].next - 1
  BY <1>1, <1>3 DEF AllExecuted
<1>5. Current(c) \notin undone =>
         FirstOf(c, call[c].n, call[c].next - 1) \subseteq Reached
  BY <1>1 DEF OverlapInv, Executed
<1> QED BY <1>1, <1>3, <1>4, <1>5 DEF StatementsOf, FirstOf

LEMMA OverlapStep ==
    ASSUME OverlapInv, [ConnectionNext]_connectionVars
    PROVE  OverlapInv'
<1>0. ConnectionOK /\ ConnectionOK'
  BY ConnectionOKKeeps DEF OverlapInv
<1>h. \A e \in history : e.client \in Clients
  BY <1>0 DEF ConnectionOK, ConnectionTypeOK, Ended
<1>t. \A c \in Clients : call[c] \in Call
  BY <1>0 DEF ConnectionOK, ConnectionTypeOK
<1>1. ASSUME NEW c \in Clients, NEW m \in MethodsOf[c], Begin(c, m)
      PROVE  OverlapInv'
  <2>1. /\ call'[c].state = "running" /\ call'[c].next = 1
        /\ \A d \in Clients : d # c => call'[d] = call[d]
    BY <1>0, <1>1 DEF Begin, ConnectionOK, ConnectionTypeOK
  <2>2. /\ transaction' = transaction /\ file' = file /\ history' = history
        /\ undone' = undone
    BY <1>1 DEF Begin
  <2>3. Executed'
    BY <2>1, <2>2 DEF OverlapInv, Executed, FirstOf, Reached, Current, AllExecuted
  <2> QED BY <1>0, <2>2, <2>3
          DEF OverlapInv, PrefixesReached, Reached, LostOnlyByRollback,
              DurableIsPrefix
<1>2. ASSUME NEW c \in Clients, Execute(c)
      PROVE  OverlapInv'
  <2>1. /\ call'[c] = [call[c] EXCEPT !.next = @ + 1]
        /\ \A d \in Clients : d # c => call'[d] = call[d]
    BY <1>0, <1>2, ExecuteKeeps
  <2>2. /\ call[c].n \in Nat /\ call[c].next \in Nat \ {0}
        /\ call[c].state = "running"
    BY <1>2, <1>t DEF Call, Execute
  <2>3. /\ call'[c].n = call[c].n /\ call'[c].next = call[c].next + 1
        /\ call'[c].state = "running"
    BY <1>t, <2>1, <2>2 DEF Call
  <2>4. /\ Reached' = Reached \cup {<<c, call[c].n, call[c].next>>}
        /\ file' = file /\ history' = history /\ undone' = undone
    BY <1>2 DEF Execute, Reached
  <2>5. Current(c) \notin undone =>
            FirstOf(c, call[c].n, call[c].next) \subseteq Reached'
    <3>1. Current(c) \notin undone =>
              FirstOf(c, call[c].n, call[c].next - 1) \subseteq Reached
      BY <2>2 DEF OverlapInv, Executed
    <3>2. FirstOf(c, call[c].n, call[c].next)
            \subseteq FirstOf(c, call[c].n, call[c].next - 1)
                         \cup {<<c, call[c].n, call[c].next>>}
      BY <2>2 DEF FirstOf
    <3> QED BY <2>4, <3>1, <3>2
  <2>6. Executed'
    <3>1. call'[c].next - 1 = call[c].next
      BY <2>2, <2>3
    <3>2. \A d \in Clients : d # c =>
             (AllExecuted(d)' <=> AllExecuted(d)) /\ Current(d)' = Current(d)
      BY <2>1 DEF AllExecuted, Current
    <3>3. Current(c)' = Current(c)
      BY <2>3 DEF Current
    <3>4. ASSUME NEW d \in Clients, d # c
          PROVE  /\ call'[d].state \in {"running", "reading"}
                       /\ Current(d)' \notin undone' =>
                        FirstOf(d, call'[d].n, call'[d].next - 1) \subseteq Reached'
                 /\ call'[d].state = "reading" => AllExecuted(d)'
      BY <2>1, <2>4, <3>2, <3>4 DEF OverlapInv, Executed
    <3> QED BY <2>3, <2>4, <2>5, <3>1, <3>3, <3>4 DEF Executed
  <2>7. PrefixesReached'
    <3> DEFINE new == <<c, call[c].n, call[c].next>>
    <3>1. new[1] = c /\ new[2] = call[c].n /\ new[3] = call[c].next
      OBVIOUS
    <3>2. <<new[1], new[2]>> \notin undone =>
              \A i \in 1..new[3] : <<new[1], new[2], i>> \in Reached'
      BY <2>5, <3>1 DEF FirstOf, Current
    <3>3. Reached' = Reached \cup {new}
      BY <2>4
    <3> HIDE DEF new
    <3>4. \A s \in Reached :
             <<s[1], s[2]>> \notin undone =>
                 \A i \in 1..s[3] : <<s[1], s[2], i>> \in Reached'
      BY <2>4 DEF OverlapInv, PrefixesReached
    <3> QED BY <2>4, <3>2, <3>3, <3>4 DEF PrefixesReached
  <2> QED BY <1>0, <2>4, <2>6, <2>7
          DEF OverlapInv, LostOnlyByRollback, DurableIsPrefix
<1>3. ASSUME NEW c \in Clients, Commit(c) \/ ReadBack(c)
      PROVE  OverlapInv'
  <2>1. /\ file' = Reached /\ Reached' = Reached /\ undone' = undone
        /\ Current(c) \notin undone =>
               StatementsOf(c, call[c].n, call[c].method) \subseteq Reached
    BY <1>3, CommitReaches
  <2>2. DurableIsPrefix' /\ PrefixesReached'
    BY <2>1 DEF OverlapInv, PrefixesReached, DurableIsPrefix
  <2>3. \A e \in history :
           e.result = "returned" /\ <<e.client, e.n>> \notin undone =>
               StatementsOf(e.client, e.n, e.method) \subseteq Reached
    BY DEF OverlapInv, LostOnlyByRollback, Reached
  <2>4. CASE EndCall(c, "returned")
    <3>1. /\ call'[c].state = "idle"
          /\ \A d \in Clients : d # c => call'[d] = call[d]
      BY <1>0, <1>3, <2>4, EndCallCounted DEF Commit, ReadBack
    <3>2. Executed'
      BY <2>1, <3>1 DEF OverlapInv, Executed, Current, AllExecuted
    <3>3. /\ Ending(c, "returned").client = c
          /\ Ending(c, "returned").n = call[c].n
          /\ Ending(c, "returned").method = call[c].method
          /\ history' = history \cup {Ending(c, "returned")}
      BY <2>4 DEF Ending, EndCall
    <3>4. LostOnlyByRollback'
      BY <2>1, <2>3, <3>3 DEF LostOnlyByRollback, StatementsOf, Current
    <3> QED BY <1>0, <2>2, <3>2, <3>4 DEF OverlapInv
  <2>5. CASE /\ call' = [call EXCEPT ![c].state = "reading"]
             /\ UNCHANGED history /\ Commit(c)
    <3>1. call[c].state = "running" /\ AllExecuted(c)
      BY <2>5 DEF Commit
    <3>2. /\ call'[c].state = "reading" /\ call'[c].n = call[c].n
          /\ call'[c].method = call[c].method /\ call'[c].next = call[c].next
          /\ \A d \in Clients : d # c => call'[d] = call[d]
      BY <1>0, <2>5, <3>1, StateChange
    <3>3. \A d \in Clients :
             /\ call'[d].n = call[d].n /\ call'[d].next = call[d].next
             /\ Current(d)' = Current(d) /\ (AllExecuted(d)' <=> AllExecuted(d))
      BY <3>2 DEF Current, AllExecuted
    <3>4. Executed'
      BY <2>1, <3>1, <3>2, <3>3 DEF OverlapInv, Executed
    <3>5. LostOnlyByRollback'
      BY <2>1, <2>3, <2>5 DEF LostOnlyByRollback, StatementsOf
    <3> QED BY <1>0, <2>2, <3>4, <3>5 DEF OverlapInv
  <2> QED BY <1>3, <2>4, <2>5 DEF Commit, AfterCommit, ReadBack
<1>4. ASSUME NEW c \in Clients, Fail(c)
      PROVE  OverlapInv'
  <2>1. /\ call'[c].state = "failed"
        /\ \A d \in Clients : d # c => call'[d] = call[d]
    BY <1>0, <1>4, StateChange DEF Fail
  <2>2. /\ transaction' = transaction /\ file' = file /\ history' = history
        /\ undone' = undone
    BY <1>4 DEF Fail
  <2>3. Executed'
    BY <2>1, <2>2 DEF OverlapInv, Executed, Reached, Current, AllExecuted
  <2> QED BY <1>0, <2>2, <2>3
          DEF OverlapInv, PrefixesReached, Reached, LostOnlyByRollback,
              DurableIsPrefix
<1>5. ASSUME NEW c \in Clients, Rollback(c)
      PROVE  OverlapInv'
  <2>1. /\ call'[c].state = "idle"
        /\ \A d \in Clients : d # c => call'[d] = call[d]
    BY <1>0, <1>5, EndCallCounted DEF Rollback
  <2>2. /\ file' = file /\ Reached' = file
        /\ undone \subseteq undone'
        /\ \A s \in transaction :
              <<s[1], s[2]>> \in undone' \/ <<s[1], s[2]>> = Current(c)
        /\ history' = history \cup {Ending(c, "raised")}
    BY <1>5 DEF Rollback, Reached, EndCall
  <2>3. DurableIsPrefix'
    BY <2>2 DEF OverlapInv, DurableIsPrefix
  <2>4. PrefixesReached'
    BY <2>2, <2>3 DEF PrefixesReached, DurableIsPrefix
  <2>5. LostOnlyByRollback'
    <3>1. Ending(c, "raised").result = "raised"
      BY DEF Ending
    <3> QED BY <2>2, <3>1 DEF OverlapInv, LostOnlyByRollback, StatementsOf
  <2>6. ASSUME NEW d \in Clients, d # c
        PROVE  /\ call[d].state \in {"running", "reading"}
                     /\ Current(d) \notin undone' =>
                      FirstOf(d, call[d].n, call[d].next - 1) \subseteq file
               /\ call[d].state = "reading" => AllExecuted(d)
    <3>1. ASSUME call[d].state \in {"running", "reading"},
                 Current(d) \notin undone',
                 NEW s \in FirstOf(d, call[d].n, call[d].next - 1)
          PROVE  s \in file
      <4>1. s \in transaction \cup file
        BY <2>2, <3>1 DEF OverlapInv, Executed, Reached
      <4>2. <<s[1], s[2]>> = Current(d) /\ s[1] = d
        BY DEF FirstOf, Current
      <4>3. <<s[1], s[2]>> # Current(c)
        BY <2>6, <4>2 DEF Current
      <4> QED BY <2>2, <3>1, <4>1, <4>2, <4>3
    <3> QED BY <3>1 DEF OverlapInv, Executed
  <2>7. Executed'
    BY <2>1, <2>2, <2>6 DEF Executed, Current, AllExecuted
  <2> QED BY <1>0, <2>3, <2>4, <2>5, <2>7 DEF OverlapInv
<1>6. CASE Crash
  <2>1. /\ \A c \in Clients : call'[c].state = "idle"
        /\ \A e \in history' \ history : e.result = "crashed"
    BY <1>0, <1>6, CrashKeeps
  <2>2. file' = file /\ Reached' = file /\ undone' = undone
    BY <1>6 DEF Crash, Reached
  <2> QED BY <1>0, <2>1, <2>2
          DEF OverlapInv, Executed, PrefixesReached, LostOnlyByRollback,
              DurableIsPrefix
<1>7. CASE UNCHANGED connectionVars
  BY <1>0, <1>7 DEF OverlapInv, Executed, PrefixesReached, LostOnlyByRollback,
                    DurableIsPrefix, Reached, Current, AllExecuted,
                    connectionVars
<1> QED
  BY <1>1, <1>2, <1>3, <1>4, <1>5, <1>6, <1>7 DEF ConnectionNext, ClientStep

LEMMA OverlapInvariant == ConnectionSpec => []OverlapInv
<1>1. ConnectionInit => OverlapInv
  BY ConnectionOKInit
     DEF ConnectionInit, OverlapInv, Executed, PrefixesReached, Reached,
         LostOnlyByRollback, DurableIsPrefix
<1>2. OverlapInv /\ [ConnectionNext]_connectionVars => OverlapInv'
  BY OverlapStep
<1> QED BY <1>1, <1>2, PTL DEF ConnectionSpec

\* However the methods of any number of threads overlap on the connection,
\* whichever fail and whenever the process dies: a call that returns without
\* all of its statements in the file lost them to another call's rollback.
THEOREM LostOnlyByRollbackHolds == ConnectionSpec => []LostOnlyByRollback
<1>1. OverlapInv => LostOnlyByRollback
  BY DEF OverlapInv
<1> QED BY <1>1, OverlapInvariant, PTL

\* Nor is a later statement of a call in the file without the earlier ones,
\* unless another call's rollback took them.
THEOREM DurableIsPrefixHolds == ConnectionSpec => []DurableIsPrefix
<1>1. OverlapInv => DurableIsPrefix
  BY DEF OverlapInv
<1> QED BY <1>1, OverlapInvariant, PTL
-----------------------------------------------------------------------------
(* The promise to calls that overlap no other *)

\* The open transaction is the work of calls in progress; nothing is in the
\* file of a call that has not begun.
TransactionOwned ==
    /\ \A s \in transaction :
          /\ s[1] \in InProgress /\ s[2] = call[s[1]].n
          /\ s[3] \in 1..(call[s[1]].next - 1)
    /\ \A s \in file : s[2] <= call[s[1]].n

OverlapNoted ==
    \A c, d \in InProgress : c # d => Current(c) \in overlapped

OwnWork(c) == StatementsOf(c, call[c].n, call[c].method)
NothingInFile(c) == \A s \in file : s[1] # c \/ s[2] # call[c].n

\* A call in progress that overlaps no other has all of its work in the
\* transaction until it commits, and then in the file.
AloneSoFar(c) ==
    /\ call[c].state = "running" =>
          /\ NothingInFile(c)
          /\ FirstOf(c, call[c].n, call[c].next - 1) \subseteq transaction
    /\ call[c].state = "reading" => OwnWork(c) \subseteq file /\ transaction = {}
    /\ call[c].state = "failed" => NothingInFile(c) \/ OwnWork(c) \subseteq file

PromiseInv ==
    /\ ConnectionOK
    /\ TransactionOwned
    /\ OverlapNoted
    /\ \A c \in InProgress : Current(c) \notin overlapped => AloneSoFar(c)

LEMMA InProgressTyped ==
    ASSUME ConnectionOK
    PROVE  /\ \A c \in Clients : call[c] \in Call
           /\ \A s \in transaction \cup file :
                 s[1] \in Clients /\ s[2] \in Nat /\ s[3] \in Nat
                 /\ s = <<s[1], s[2], s[3]>>
           /\ \A e \in history : e.client \in Clients /\ e.n \in Nat
           /\ \A c \in InProgress :
                 c \in Clients /\ call[c].n \in 1..MaxCalls
                 /\ ~Store!HasEnded(Current(c))
           /\ \A e \in history : e \in Store!Ended
<1>1. \A c \in Clients : call[c] \in Call
  BY DEF ConnectionOK, ConnectionTypeOK
<1>2. \A s \in transaction \cup file :
         s[1] \in Clients /\ s[2] \in Nat /\ s[3] \in Nat
         /\ s = <<s[1], s[2], s[3]>>
  BY DEF ConnectionOK, ConnectionTypeOK, Statement
<1>3. \A e \in history : e.client \in Clients /\ e.n \in Nat
  BY DEF ConnectionOK, ConnectionTypeOK, Ended
<1>4. \A c \in InProgress : c \in Clients /\ call[c].n \in 1..MaxCalls
  BY DEF InProgress, ConnectionOK, CallsCounted
<1>5. \A c \in InProgress : ~Store!HasEnded(Current(c))
  BY <1>3 DEF InProgress, ConnectionOK, CallsCounted, Store!HasEnded,
              Store!IdOf, Current
<1>6. \A e \in history : e \in Store!Ended
  <2>1. \A e \in history : e \in Ended /\ e.n \in 1..MaxCalls
    BY DEF ConnectionOK, ConnectionTypeOK, CallsCounted
  <2> QED BY <2>1 DEF Ended, Store!Ended, Store!Methods, Methods
<1> QED BY <1>1, <1>2, <1>3, <1>4, <1>5, <1>6

\* A call in progress that overlaps no other is the only one in progress.
LEMMA OthersOverlap ==
    ASSUME PromiseInv, NEW c \in InProgress, Current(c) \notin overlapped
    PROVE  \A d \in InProgress : d = c
BY DEF PromiseInv, OverlapNoted

\* A call that begins beside others meets them; alone it changes nothing that
\* the store shows.
LEMMA BeginMeets ==
    ASSUME PromiseInv, NEW c \in Clients, NEW m \in MethodsOf[c], Begin(c, m)
    PROVE  PromiseInv' /\ [Store!StoreNext]_(Store!storeVars)
<1>0. ConnectionOK /\ ConnectionOK'
  BY BeginKeeps DEF PromiseInv
<1>1. /\ call'[c].state = "running" /\ call'[c].next = 1
      /\ call'[c].n = call[c].n + 1 /\ call[c].state = "idle"
      /\ \A d \in Clients : d # c => call'[d] = call[d]
  BY <1>0 DEF Begin, ConnectionOK, ConnectionTypeOK
<1>2. transaction' = transaction /\ file' = file /\ history' = history
  BY DEF Begin
<1>3. /\ InProgress' = InProgress \cup {c} /\ c \notin InProgress
      /\ \A d \in InProgress : d \in Clients /\ call'[d] = call[d]
                               /\ Current(d)' = Current(d)
  BY <1>1 DEF InProgress, Current
<1>4. call[c].n \in Nat /\ call'[c].n \in 1..MaxCalls
  <2>1. call[c] \in Call /\ c \in InProgress'
    BY <1>0, <1>3, InProgressTyped
  <2> QED BY <1>0, <1>1, <2>1 DEF Call, ConnectionOK, CallsCounted
<1>5. TransactionOwned'
  <2>1. \A s \in transaction : call'[s[1]] = call[s[1]] /\ s[1] \in InProgress
    BY <1>3 DEF PromiseInv, TransactionOwned
  <2>2. \A s \in file : s[2] <= call'[s[1]].n
    <3>1. \A s \in file : s[1] \in Clients /\ s[2] \in Nat
      BY <1>0, InProgressTyped
    <3> QED BY <1>1, <1>4, <3>1 DEF PromiseInv, TransactionOwned
  <2> QED BY <1>2, <1>3, <2>1, <2>2 DEF PromiseInv, TransactionOwned
<1>6. NothingInFile(c)'
  <2>1. \A s \in file : s[1] \in Clients /\ s[2] \in Nat
    BY <1>0, InProgressTyped
  <2>2. \A s \in file : s[1] = c => s[2] <= call[c].n
    BY DEF PromiseInv, TransactionOwned
  <2> QED BY <1>1, <1>2, <1>4, <2>1, <2>2 DEF NothingInFile
<1>7. AloneSoFar(c)'
  BY <1>1, <1>6 DEF AloneSoFar, FirstOf
<1>8. CASE InProgress = {}
  <2>1. overlapped' = overlapped
    BY <1>8 DEF Begin, NoteOverlap
  <2> QED BY <1>0, <1>2, <1>3, <1>5, <1>7, <1>8, <2>1
          DEF PromiseInv, OverlapNoted, Store!storeVars
<1>9. CASE InProgress # {}
  <2> DEFINE ids == {Current(c)'} \cup {Current(d) : d \in InProgress}
  <2>1. overlapped' = overlapped \cup ids
    BY <1>1, <1>9 DEF Begin, NoteOverlap, Current
  <2>2. \A d \in InProgress' : Current(d)' \in overlapped'
    BY <1>3, <2>1
  <2>3. OverlapNoted' /\ PromiseInv'
    BY <1>0, <1>5, <2>2 DEF PromiseInv, OverlapNoted
  <2>4. \A id \in ids : id \in Store!Calls /\ ~Store!HasEnded(id)
    <3>1. \A d \in InProgress : /\ Current(d) \in Store!Calls
                                /\ ~Store!HasEnded(Current(d))
      BY <1>0, InProgressTyped DEF Current, Store!Calls
    <3>2. Current(c)' \in Store!Calls
      BY <1>4 DEF Current, Store!Calls
    <3>3. \A e \in history : e.client \in Clients /\ e.n \in Nat
      BY <1>0, InProgressTyped
    <3>4. \A e \in history : e.client = c => e.n <= call[c].n
      BY <1>0 DEF ConnectionOK, CallsCounted
    <3>5. ~Store!HasEnded(Current(c)')
      BY <1>1, <1>4, <3>3, <3>4 DEF Store!HasEnded, Store!IdOf, Current
    <3> QED BY <3>1, <3>2, <3>5
  <2>5. \E a, b \in ids : a[1] # b[1]
    <3>1. PICK d \in InProgress : d # c
      BY <1>3, <1>9
    <3>2. Current(c)'[1] = c /\ Current(d)[1] = d
      BY DEF Current
    <3> QED BY <3>1, <3>2
  <2>6. ids \in SUBSET Store!Calls
    BY <2>4
  <2> HIDE DEF ids
  <2>7. Store!Meet
    BY <1>2, <2>1, <2>4, <2>5, <2>6 DEF Store!Meet
  <2> QED BY <2>3, <2>7 DEF Store!StoreNext
<1> QED BY <1>8, <1>9

LEMMA ExecuteStutters ==
    ASSUME PromiseInv, NEW c \in Clients, Execute(c)
    PROVE  PromiseInv' /\ UNCHANGED Store!storeVars
<1>0. /\ ConnectionOK /\ ConnectionOK'
      /\ call'[c] = [call[c] EXCEPT !.next = @ + 1]
      /\ \A d \in Clients : d # c => call'[d] = call[d]
  BY ExecuteKeeps DEF PromiseInv
<1>1. /\ call[c] \in Call
      /\ call[c].n \in Nat /\ call[c].next \in Nat \ {0}
      /\ call[c].state = "running" /\ c \in InProgress
  BY <1>0, InProgressTyped DEF Call, Execute, InProgress
<1>2. /\ call'[c].n = call[c].n /\ call'[c].next = call[c].next + 1
      /\ call'[c].state = "running" /\ call'[c].method = call[c].method
  BY <1>0, <1>1 DEF Call
<1>3. /\ transaction' = transaction \cup {<<c, call[c].n, call[c].next>>}
      /\ file' = file /\ history' = history /\ overlapped' = overlapped
  BY DEF Execute
<1>4. /\ InProgress' = InProgress
      /\ \A d \in Clients : Current(d)' = Current(d)
      /\ \A d \in Clients : call'[d].n = call[d].n
  BY <1>0, <1>1, <1>2 DEF InProgress, Current
<1>5. TransactionOwned'
  <2> DEFINE new == <<c, call[c].n, call[c].next>>
  <2>1. /\ new[1] \in InProgress' /\ new[2] = call'[new[1]].n
        /\ new[3] \in 1..(call'[new[1]].next - 1)
    BY <1>1, <1>2, <1>4
  <2>2. ASSUME NEW s \in transaction
        PROVE  /\ s[1] \in InProgress' /\ s[2] = call'[s[1]].n
               /\ s[3] \in 1..(call'[s[1]].next - 1)
    <3>1. /\ s[1] \in InProgress /\ s[2] = call[s[1]].n /\ s[1] \in Clients
          /\ s[3] \in 1..(call[s[1]].next - 1)
      BY <1>0, InProgressTyped DEF PromiseInv, TransactionOwned
    <3>2. CASE s[1] = c
      BY <1>1, <1>2, <1>4, <3>1, <3>2
    <3>3. CASE s[1] # c
      BY <1>0, <1>4, <3>1, <3>3
    <3> QED BY <3>2, <3>3
  <2>3. transaction' = transaction \cup {new}
    BY <1>3
  <2>4. \A s \in file : s[2] <= call'[s[1]].n
    <3>1. \A s \in file : s[1] \in Clients
      BY <1>0, InProgressTyped
    <3> QED BY <1>4, <3>1 DEF PromiseInv, TransactionOwned
  <2> HIDE DEF new
  <2> QED BY <1>3, <2>1, <2>2, <2>3, <2>4 DEF TransactionOwned
<1>6. ASSUME NEW d \in InProgress, Current(d) \notin overlapped
      PROVE  AloneSoFar(d)'
  <2>1. d = c
    BY <1>1, <1>6, OthersOverlap
  <2>2. /\ NothingInFile(c)
        /\ FirstOf(c, call[c].n, call[c].next - 1) \subseteq transaction
    BY <1>1, <1>6, <2>1 DEF PromiseInv, AloneSoFar
  <2>3. FirstOf(c, call[c].n, call[c].next)
          \subseteq FirstOf(c, call[c].n, call[c].next - 1)
                       \cup {<<c, call[c].n, call[c].next>>}
    BY <1>1 DEF FirstOf
  <2>4. call'[c].next - 1 = call[c].next
    BY <1>1, <1>2
  <2>5. FirstOf(c, call'[c].n, call'[c].next - 1) \subseteq transaction'
    BY <1>2, <1>3, <2>2, <2>3, <2>4
  <2> QED BY <1>2, <1>3, <2>1, <2>2, <2>5 DEF AloneSoFar, NothingInFile
<1> QED BY <1>0, <1>3, <1>4, <1>5, <1>6
        DEF PromiseInv, OverlapNoted, InProgress, Store!storeVars

\* What ends or commits leaves the transaction empty, and of the other calls
\* only those in progress that overlap.
LEMMA EmptiedKeeps ==
    ASSUME PromiseInv, ConnectionOK', NEW c \in InProgress,
           transaction' = {}, file' \in {file, file \cup transaction},
           overlapped' = overlapped,
           call'[c].n = call[c].n,
           \A d \in Clients : d # c => call'[d] = call[d],
           Current(c) \notin overlapped /\ call'[c].state # "idle" =>
               AloneSoFar(c)'
    PROVE  PromiseInv'
<1>0. ConnectionOK
  BY DEF PromiseInv
<1>1. /\ InProgress' \subseteq InProgress
      /\ \A d \in Clients : Current(d)' = Current(d) /\ call'[d].n = call[d].n
  BY DEF InProgress, Current
<1>2. TransactionOwned'
  <2>1. \A s \in transaction \cup file : s[1] \in Clients /\ s[2] \in Nat
    BY <1>0, InProgressTyped
  <2>2. \A s \in file \cup transaction : s[2] <= call[s[1]].n
    BY <2>1 DEF PromiseInv, TransactionOwned
  <2> QED BY <1>1, <2>1, <2>2 DEF TransactionOwned
<1>3. ASSUME NEW d \in InProgress', Current(d) \notin overlapped
      PROVE  AloneSoFar(d)'
  <2>1. d = c
    BY <1>1, <1>3, OthersOverlap
  <2> QED BY <1>3, <2>1 DEF InProgress
<1>4. \A d \in InProgress' : Current(d)' = Current(d) /\ d \in Clients
  BY <1>1 DEF InProgress
<1>5. OverlapNoted'
  BY <1>1, <1>4 DEF PromiseInv, OverlapNoted
<1>6. \A d \in InProgress' : Current(d)' \notin overlapped' => AloneSoFar(d)'
  BY <1>3, <1>4
<1> QED BY <1>2, <1>5, <1>6 DEF PromiseInv

\* What the end of a call adds to the calls that have ended.
LEMMA EndingTyped ==
    ASSUME PromiseInv, ConnectionOK', NEW c \in InProgress,
           NEW result \in {"returned", "raised"}, EndCall(c, result)
    PROVE  /\ history' = history \cup {Ending(c, result)}
           /\ Ending(c, result) \in Store!Ended
           /\ Ending(c, result).result = result
           /\ Store!IdOf(Ending(c, result)) = Current(c)
           /\ ~Store!HasEnded(Current(c))
           /\ Store!WorkOf(Ending(c, result)) = OwnWork(c)
<1>1. history' = history \cup {Ending(c, result)}
  BY DEF EndCall
<1>2. \A e \in history' : e \in Ended /\ e.n \in 1..MaxCalls
  BY DEF ConnectionOK, ConnectionTypeOK, CallsCounted
<1>3. Ending(c, result) \in Store!Ended
  BY <1>1, <1>2 DEF Ended, Store!Ended, Store!Methods, Methods
<1>4. ~Store!HasEnded(Current(c))
  BY InProgressTyped DEF PromiseInv
<1>5. /\ Ending(c, result).client = c /\ Ending(c, result).n = call[c].n
      /\ Ending(c, result).method = call[c].method
      /\ Ending(c, result).result = result
  BY DEF Ending
<1> QED BY <1>1, <1>3, <1>4, <1>5
        DEF Store!IdOf, Store!WorkOf, Current, OwnWork, StatementsOf,
            Store!StatementsOf

\* The transaction of a call that overlaps no other is all of its work once
\* all of it has been executed.
LEMMA CommitsOwnWork ==
    ASSUME PromiseInv, NEW c \in InProgress, call[c].state = "running",
           AllExecuted(c), Current(c) \notin overlapped
    PROVE  transaction = OwnWork(c)
<1>0. ConnectionOK
  BY DEF PromiseInv
<1>1. c \in Clients /\ call[c] \in Call
  BY <1>0, InProgressTyped
<1>2. Len(Writes[call[c].method]) \in Nat /\ call[c].next \in Nat
  BY <1>1, WritesLength DEF Call
<1>3. call[c].next - 1 = Len(Writes[call[c].method])
  BY <1>0, <1>1, <1>2 DEF AllExecuted, ConnectionOK, CallsCounted
<1>4. OwnWork(c) = FirstOf(c, call[c].n, call[c].next - 1)
  BY <1>3 DEF OwnWork, StatementsOf, FirstOf
<1>5. FirstOf(c, call[c].n, call[c].next - 1) \subseteq transaction
  BY DEF PromiseInv, AloneSoFar
<1>6. ASSUME NEW s \in transaction
      PROVE  s \in FirstOf(c, call[c].n, call[c].next - 1)
  <2>1. /\ s[1] \in InProgress /\ s[2] = call[s[1]].n
        /\ s[3] \in 1..(call[s[1]].next - 1)
    BY DEF PromiseInv, TransactionOwned
  <2>2. s[1] = c
    BY <2>1, OthersOverlap
  <2>3. s = <<s[1], s[2], s[3]>>
    BY <1>0, InProgressTyped
  <2>4. s = <<c, call[c].n, s[3]>> /\ s[3] \in 1..(call[c].next - 1)
    BY <2>1, <2>2, <2>3
  <2> QED BY <2>4 DEF FirstOf
<1> QED BY <1>4, <1>5, <1>6

\* The commit of calls that overlap adds work of calls in progress, all of
\* which overlap.
LEMMA OverlappingCommit ==
    ASSUME PromiseInv, NEW c \in InProgress, Current(c) \in overlapped,
           NEW s \in transaction
    PROVE  <<s[1], s[2]>> \in overlapped /\ ~Store!HasEnded(<<s[1], s[2]>>)
<1>1. s[1] \in InProgress /\ s[2] = call[s[1]].n
  BY DEF PromiseInv, TransactionOwned
<1>2. <<s[1], s[2]>> = Current(s[1])
  BY <1>1 DEF Current
<1>3. ~Store!HasEnded(Current(s[1]))
  BY <1>1, InProgressTyped DEF PromiseInv
<1>4. Current(s[1]) \in overlapped
  BY <1>1 DEF PromiseInv, OverlapNoted
<1> QED BY <1>2, <1>3, <1>4

\* Perform, or PerformFirst for a method that goes on to read; Interfere when
\* calls overlap.
LEMMA CommitPerforms ==
    ASSUME PromiseInv, NEW c \in Clients, Commit(c)
    PROVE  PromiseInv' /\ Store!StoreNext
<1>0. ConnectionOK /\ ConnectionOK'
  BY EndKeeps DEF PromiseInv
<1>1. /\ c \in InProgress /\ call[c].state = "running" /\ AllExecuted(c)
      /\ file' = file \cup transaction /\ transaction' = {}
      /\ overlapped' = overlapped
  BY DEF Commit, InProgress
<1>2. /\ call'[c].n = call[c].n /\ call'[c].method = call[c].method
      /\ call'[c].state \in {"idle", "reading"}
      /\ \A d \in Clients : d # c => call'[d] = call[d]
  <2>1. PICK st \in {"idle", "reading"} :
           call' = [call EXCEPT ![c].state = st]
    BY DEF Commit, AfterCommit, EndCall
  <2> QED BY <1>0, <1>1, <2>1, StateChange
<1>3. Current(c) \notin overlapped => transaction = OwnWork(c)
  BY <1>1, CommitsOwnWork
<1>4. OwnWork(c)' = OwnWork(c)
  BY <1>2 DEF OwnWork, StatementsOf
<1>5. Current(c) \notin overlapped => AloneSoFar(c)'
  BY <1>1, <1>2, <1>3, <1>4 DEF AloneSoFar
<1>6. PromiseInv'
  BY <1>0, <1>1, <1>2, <1>5, EmptiedKeeps
<1>7. CASE EndCall(c, "returned") /\ Current(c) \notin overlapped
  <2>1. /\ history' = history \cup {Ending(c, "returned")}
        /\ Ending(c, "returned") \in Store!Ended
        /\ Ending(c, "returned").result = "returned"
        /\ Store!IdOf(Ending(c, "returned")) = Current(c)
        /\ ~Store!HasEnded(Current(c))
        /\ Store!WorkOf(Ending(c, "returned")) = OwnWork(c)
    BY <1>0, <1>1, <1>7, EndingTyped
  <2>2. Store!Perform
    BY <1>1, <1>3, <1>7, <2>1 DEF Store!Perform
  <2> QED BY <1>6, <2>2 DEF Store!StoreNext
<1>8. CASE EndCall(c, "returned") /\ Current(c) \in overlapped
  <2>1. /\ history' = history \cup {Ending(c, "returned")}
        /\ Ending(c, "returned") \in Store!Ended
        /\ Store!IdOf(Ending(c, "returned")) = Current(c)
        /\ ~Store!HasEnded(Current(c))
    BY <1>0, <1>1, <1>8, EndingTyped
  <2>2. \A s \in transaction :
           <<s[1], s[2]>> \in overlapped /\ ~Store!HasEnded(<<s[1], s[2]>>)
    BY <1>1, <1>8, OverlappingCommit
  <2>3. Store!Interfere
    BY <1>1, <1>8, <2>1, <2>2 DEF Store!Interfere
  <2> QED BY <1>6, <2>3 DEF Store!StoreNext
<1>9. CASE /\ call[c].method \in ReadsBack /\ UNCHANGED history
           /\ Current(c) \notin overlapped
  <2>1. Current(c) \in Store!Calls /\ ~Store!HasEnded(Current(c))
    BY <1>0, <1>1, InProgressTyped DEF Current, Store!Calls
  <2>2. Store!StatementsOf(Current(c)[1], Current(c)[2], call[c].method)
          = OwnWork(c)
    BY DEF Current, OwnWork, StatementsOf, Store!StatementsOf
  <2>3. Store!PerformFirst
    BY <1>1, <1>3, <1>9, <2>1, <2>2 DEF Store!PerformFirst
  <2> QED BY <1>6, <2>3 DEF Store!StoreNext
<1>10. CASE UNCHANGED history /\ Current(c) \in overlapped
  <2>1. \A s \in transaction :
           <<s[1], s[2]>> \in overlapped /\ ~Store!HasEnded(<<s[1], s[2]>>)
    BY <1>1, <1>10, OverlappingCommit
  <2>2. Store!Interfere
    BY <1>1, <1>10, <2>1 DEF Store!Interfere
  <2> QED BY <1>6, <2>2 DEF Store!StoreNext
<1> QED BY <1>7, <1>8, <1>9, <1>10 DEF Commit, AfterCommit

\* End, or Interfere when calls overlap.
LEMMA ReadBackEnds ==
    ASSUME PromiseInv, NEW c \in Clients, ReadBack(c)
    PROVE  PromiseInv' /\ Store!StoreNext
<1>0. ConnectionOK /\ ConnectionOK'
  BY EndKeeps DEF PromiseInv
<1>1. /\ c \in InProgress /\ call[c].state = "reading"
      /\ file' = file \cup transaction /\ transaction' = {}
      /\ overlapped' = overlapped /\ EndCall(c, "returned")
  BY DEF ReadBack, InProgress
<1>2. /\ call'[c].n = call[c].n /\ call'[c].state = "idle"
      /\ \A d \in Clients : d # c => call'[d] = call[d]
  BY <1>0, <1>1, EndCallCounted
<1>3. PromiseInv'
  BY <1>0, <1>1, <1>2, EmptiedKeeps
<1>4. /\ history' = history \cup {Ending(c, "returned")}
      /\ Ending(c, "returned") \in Store!Ended
      /\ Store!IdOf(Ending(c, "returned")) = Current(c)
      /\ ~Store!HasEnded(Current(c))
      /\ Store!WorkOf(Ending(c, "returned")) = OwnWork(c)
  BY <1>0, <1>1, EndingTyped
<1>5. CASE Current(c) \notin overlapped
  <2>1. OwnWork(c) \subseteq file /\ file' = file
    BY <1>1, <1>5 DEF PromiseInv, AloneSoFar
  <2>2. Store!End
    BY <1>1, <1>4, <2>1 DEF Store!End
  <2> QED BY <1>3, <2>2 DEF Store!StoreNext
<1>6. CASE Current(c) \in overlapped
  <2>1. \A s \in transaction :
           <<s[1], s[2]>> \in overlapped /\ ~Store!HasEnded(<<s[1], s[2]>>)
    BY <1>1, <1>6, OverlappingCommit
  <2>2. Store!Interfere
    BY <1>1, <1>4, <1>6, <2>1 DEF Store!Interfere
  <2> QED BY <1>3, <2>2 DEF Store!StoreNext
<1> QED BY <1>5, <1>6

LEMMA FailStutters ==
    ASSUME PromiseInv, NEW c \in Clients, Fail(c)
    PROVE  PromiseInv' /\ UNCHANGED Store!storeVars
<1>0. ConnectionOK /\ ConnectionOK'
  BY FailKeeps DEF PromiseInv
<1>1. /\ c \in InProgress /\ call[c].state \in {"running", "reading"}
      /\ call' = [call EXCEPT ![c].state = "failed"]
      /\ transaction' = transaction /\ file' = file /\ history' = history
      /\ overlapped' = overlapped
  BY DEF Fail, InProgress
<1>2. /\ call'[c].n = call[c].n /\ call'[c].state = "failed"
      /\ call'[c].method = call[c].method /\ call'[c].next = call[c].next
      /\ \A d \in Clients : d # c => call'[d] = call[d]
  BY <1>0, <1>1, StateChange
<1>3. /\ InProgress' = InProgress
      /\ \A d \in Clients : Current(d)' = Current(d)
      /\ \A d \in Clients : call'[d].n = call[d].n /\ call'[d].next = call[d].next
  BY <1>1, <1>2 DEF InProgress, Current
<1>4. TransactionOwned'
  <2>1. \A s \in transaction \cup file : s[1] \in Clients
    BY <1>0, InProgressTyped
  <2> QED BY <1>1, <1>3, <2>1 DEF PromiseInv, TransactionOwned
<1>5. ASSUME NEW d \in InProgress, Current(d) \notin overlapped
      PROVE  AloneSoFar(d)'
  <2>1. d = c
    BY <1>1, <1>5, OthersOverlap
  <2>2. NothingInFile(c) \/ OwnWork(c) \subseteq file
    BY <1>1, <1>5, <2>1 DEF PromiseInv, AloneSoFar
  <2>3. /\ NothingInFile(c) => NothingInFile(c)'
        /\ OwnWork(c)' = OwnWork(c)
    BY <1>1, <1>2 DEF NothingInFile, OwnWork, StatementsOf
  <2> QED BY <1>1, <1>2, <2>1, <2>2, <2>3 DEF AloneSoFar
<1>6. \A d \in InProgress : d \in Clients
  BY DEF InProgress
<1> QED BY <1>0, <1>1, <1>3, <1>4, <1>5, <1>6
        DEF PromiseInv, OverlapNoted, Store!storeVars

LEMMA RollbackEnds ==
    ASSUME PromiseInv, NEW c \in Clients, Rollback(c)
    PROVE  PromiseInv' /\ Store!StoreNext
<1>0. ConnectionOK /\ ConnectionOK'
  BY EndKeeps DEF PromiseInv
<1>1. /\ c \in InProgress /\ call[c].state = "failed"
      /\ file' = file /\ transaction' = {}
      /\ overlapped' = overlapped /\ EndCall(c, "raised")
  BY DEF Rollback, InProgress
<1>2. /\ call'[c].n = call[c].n /\ call'[c].state = "idle"
      /\ \A d \in Clients : d # c => call'[d] = call[d]
  BY <1>0, <1>1, EndCallCounted
<1>3. PromiseInv'
  BY <1>0, <1>1, <1>2, EmptiedKeeps
<1>4. /\ history' = history \cup {Ending(c, "raised")}
      /\ Ending(c, "raised") \in Store!Ended
      /\ Ending(c, "raised").result = "raised"
      /\ Store!IdOf(Ending(c, "raised")) = Current(c)
      /\ ~Store!HasEnded(Current(c))
      /\ Store!WorkOf(Ending(c, "raised")) = OwnWork(c)
  BY <1>0, <1>1, EndingTyped
<1>5. Current(c) \notin overlapped =>
         OwnWork(c) \cap file = {} \/ OwnWork(c) \subseteq file
  BY <1>1 DEF PromiseInv, AloneSoFar, NothingInFile, OwnWork, StatementsOf
<1>6. Store!End
  BY <1>1, <1>4, <1>5 DEF Store!End
<1> QED BY <1>3, <1>6 DEF Store!StoreNext

LEMMA CrashEnds ==
    ASSUME PromiseInv, Crash
    PROVE  PromiseInv' /\ Store!StoreNext
<1>0. /\ ConnectionOK /\ ConnectionOK'
      /\ \A c \in Clients : call'[c].state = "idle"
  BY CrashKeeps DEF PromiseInv
<1>1. /\ transaction' = {} /\ file' = file /\ overlapped' = overlapped
      /\ history' = history \cup {Ending(c, "crashed") : c \in InProgress}
  BY DEF Crash
<1>2. PromiseInv'
  <2>1. InProgress' = {}
    BY <1>0 DEF InProgress
  <2>2. \A s \in file : s[2] <= call'[s[1]].n
    <3>1. \A s \in file : s[1] \in Clients
      BY <1>0, InProgressTyped
    <3>2. \A c \in Clients : call[c] \in Call
      BY <1>0, InProgressTyped
    <3>3. \A c \in Clients : call'[c].n = call[c].n
      BY <3>2 DEF Crash, Call
    <3> QED BY <3>1, <3>3 DEF PromiseInv, TransactionOwned
  <2> QED BY <1>0, <1>1, <2>1, <2>2
          DEF PromiseInv, TransactionOwned, OverlapNoted
<1>3. ASSUME NEW c \in InProgress
      PROVE  /\ Store!IdOf(Ending(c, "crashed")) = Current(c)
             /\ ~Store!HasEnded(Current(c))
             /\ Store!WorkOf(Ending(c, "crashed")) = OwnWork(c)
             /\ Ending(c, "crashed").result = "crashed"
  <2>1. ~Store!HasEnded(Current(c))
    BY <1>0, InProgressTyped
  <2>2. /\ Ending(c, "crashed").client = c
        /\ Ending(c, "crashed").n = call[c].n
        /\ Ending(c, "crashed").method = call[c].method
        /\ Ending(c, "crashed").result = "crashed"
    BY DEF Ending
  <2> QED BY <2>1, <2>2 DEF Store!IdOf, Store!WorkOf, Current, OwnWork,
                            StatementsOf, Store!StatementsOf
<1>4. ASSUME NEW c \in InProgress
      PROVE  /\ Ending(c, "crashed") \in Store!Ended
             /\ \/ Current(c) \in overlapped
                \/ OwnWork(c) \subseteq file
                \/ OwnWork(c) \cap file = {}
  <2>1. Ending(c, "crashed") \in history'
    BY <1>1
  <2>2. \A e \in history' : e \in Ended /\ e.n \in 1..MaxCalls
    BY <1>0 DEF ConnectionOK, ConnectionTypeOK, CallsCounted
  <2>3. Ending(c, "crashed") \in Store!Ended
    BY <2>1, <2>2 DEF Ended, Store!Ended, Store!Methods, Methods
  <2>4. call[c].state \in {"running", "reading", "failed"}
    BY <1>0, InProgressTyped DEF InProgress, Call
  <2>5. Current(c) \notin overlapped =>
           OwnWork(c) \cap file = {} \/ OwnWork(c) \subseteq file
    BY <2>4 DEF PromiseInv, AloneSoFar, NothingInFile, OwnWork, StatementsOf
  <2> QED BY <2>3, <2>5
<1>5. Store!End
  <2>1. \A e \in history' \ history :
           \E c \in InProgress : e = Ending(c, "crashed")
    BY <1>1
  <2>2. ASSUME NEW e \in history' \ history
        PROVE  /\ e \in Store!Ended
               /\ ~Store!HasEnded(Store!IdOf(e))
               /\ \/ Store!IdOf(e) \in overlapped
                  \/ Store!WorkOf(e) \subseteq file
                  \/ Store!WorkOf(e) \cap file = {} /\ e.result # "returned"
    <3>1. PICK c \in InProgress : e = Ending(c, "crashed")
      BY <2>1
    <3> QED BY <1>3, <1>4, <3>1
  <2> QED BY <1>1, <2>2 DEF Store!End
<1> QED BY <1>2, <1>5 DEF Store!StoreNext

LEMMA PromiseStep ==
    ASSUME PromiseInv, [ConnectionNext]_connectionVars
    PROVE  PromiseInv' /\ [Store!StoreNext]_(Store!storeVars)
<1>1. CASE UNCHANGED connectionVars
  <2>1. PromiseInv'
    <3>1. ConnectionOK'
      BY ConnectionOKKeeps DEF PromiseInv
    <3>2. /\ call' = call /\ transaction' = transaction /\ file' = file
          /\ overlapped' = overlapped
      BY <1>1 DEF connectionVars
    <3>3. InProgress' = InProgress
      BY <3>2 DEF InProgress
    <3>4. TransactionOwned' /\ OverlapNoted'
      BY <3>2, <3>3 DEF PromiseInv, TransactionOwned, OverlapNoted, Current
    <3>5. \A c \in InProgress' : Current(c)' \notin overlapped' => AloneSoFar(c)'
      BY <3>2, <3>3
         DEF PromiseInv, Current, AloneSoFar, NothingInFile, OwnWork,
             StatementsOf, FirstOf
    <3> QED BY <3>1, <3>4, <3>5 DEF PromiseInv
  <2> QED BY <1>1, <2>1 DEF connectionVars, Store!storeVars
<1> QED
  BY <1>1, BeginMeets, ExecuteStutters, CommitPerforms, ReadBackEnds,
     FailStutters, RollbackEnds, CrashEnds
     DEF ConnectionNext, ClientStep

\* The methods of RegistryDB on one connection implement AtomicStore: the
\* calls that overlap no other, of any number of clients, are all or nothing,
\* whichever calls fail and whenever the process dies.
THEOREM ConnectionImplementsStore == ConnectionSpec => KeepsPromise
<1>1. ConnectionInit => PromiseInv /\ Store!StoreInit
  BY ConnectionOKInit
     DEF ConnectionInit, PromiseInv, TransactionOwned, OverlapNoted,
         InProgress, Store!StoreInit
<1>2. PromiseInv /\ [ConnectionNext]_connectionVars =>
         PromiseInv' /\ [Store!StoreNext]_(Store!storeVars)
  BY PromiseStep
<1> QED BY <1>1, <1>2, PTL
        DEF ConnectionSpec, KeepsPromise, Store!StoreSpec
=============================================================================
