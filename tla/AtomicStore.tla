----------------------------- MODULE AtomicStore -----------------------------
(***************************************************************************)
(* What the methods of class RegistryDB promise: "Provide the connection   *)
(* within a transaction" (db.py).  A call that overlaps no other call of   *)
(* the connection either puts all of its statements into the database file *)
(* and returns, or leaves the file alone and raises, or ends with the      *)
(* process.  A method that reads its row back has its statements in the    *)
(* file before it ends, and may end in every way after that.               *)
(*                                                                         *)
(* Of calls that overlap it is only promised that nothing of them comes    *)
(* into the file once they have ended, and that the others are left alone. *)
(***************************************************************************)
EXTENDS Naturals, Sequences

CONSTANTS
    Clients,     \* who calls methods: the event loop and the check threads
    Writes,      \* of each method: the tables its statements write, in order
    ReadsBack,   \* methods that read their row back after their transaction
    MaxCalls     \* bound: calls of a client

VARIABLES
    file,        \* statements in the database file
    history,     \* calls that have ended, and how
    overlapped   \* calls that ran at the same time as another

storeVars == <<file, history, overlapped>>

Methods == DOMAIN Writes
Calls == Clients \X (1..MaxCalls)

\* The statements of the n-th call of client c, if it is one of m.
StatementsOf(c, n, m) == {<<c, n, i>> : i \in 1..Len(Writes[m])}

Ended ==
    [client : Clients, n : 1..MaxCalls, method : Methods,
     result : {"returned", "raised", "crashed"}]

IdOf(e) == <<e.client, e.n>>
HasEnded(id) == \E e \in history : IdOf(e) = id
WorkOf(e) == StatementsOf(e.client, e.n, e.method)

StoreInit == file = {} /\ history = {} /\ overlapped = {}

\* A call does all of its work and returns.
Perform ==
    /\ \E e \in Ended :
          /\ e.result = "returned"
          /\ IdOf(e) \notin overlapped
          /\ ~HasEnded(IdOf(e))
          /\ file' = file \cup WorkOf(e)
          /\ history' = history \cup {e}
    /\ UNCHANGED overlapped

\* A call that reads its row back does all of its work.
PerformFirst ==
    /\ \E id \in Calls, m \in ReadsBack :
          /\ id \notin overlapped
          /\ ~HasEnded(id)
          /\ file' = file \cup StatementsOf(id[1], id[2], m)
    /\ UNCHANGED <<history, overlapped>>

\* A call, or with the process every call, ends: with all of its work in the
\* file, or without any of it and then not by returning.
End ==
    /\ history \subseteq history'
    /\ \A e \in history' \ history :
          /\ e \in Ended
          /\ ~HasEnded(IdOf(e))
          /\ \/ IdOf(e) \in overlapped
             \/ WorkOf(e) \subseteq file
             \/ WorkOf(e) \cap file = {} /\ e.result # "returned"
    /\ UNCHANGED <<file, overlapped>>

\* Calls of different clients overlap from now on.
Meet ==
    /\ \E ids \in SUBSET Calls :
          /\ \E a, b \in ids : a[1] # b[1]
          /\ \A id \in ids : ~HasEnded(id)
          /\ overlapped' = overlapped \cup ids
    /\ UNCHANGED <<file, history>>

\* Calls that overlap do some of their work or end.
Interfere ==
    /\ file \subseteq file'
    /\ \A s \in file' \ file :
          <<s[1], s[2]>> \in overlapped /\ ~HasEnded(<<s[1], s[2]>>)
    /\ history \subseteq history'
    /\ \A e \in history' \ history :
          e \in Ended /\ IdOf(e) \in overlapped /\ ~HasEnded(IdOf(e))
    /\ UNCHANGED overlapped

StoreNext == Perform \/ PerformFirst \/ End \/ Meet \/ Interfere

StoreSpec == StoreInit /\ [][StoreNext]_storeVars
=============================================================================
