-------------------------- MODULE ServiceLifecycle --------------------------
(***************************************************************************)
(* What can happen to the status of a service, and at whose hands: the     *)
(* state machine of guide.html and faq.html, as far as the code keeps to   *)
(* it.  Everything else the registry does is a step that leaves the        *)
(* statuses alone.                                                         *)
(*                                                                         *)
(* guide.html draws the transitions of checks as if a check saw the status *)
(* it changes.  What it sees is the status the service had when the check  *)
(* began; held has those.                                                  *)
(***************************************************************************)
CONSTANT Callsigns

VARIABLES
    status,  \* of each service, or "absent"
    by,      \* who made the newest audited change
    held     \* statuses of each service that checks in progress have read

lifecycleVars == <<status, by, held>>

AllStatuses == {"active", "pending", "down", "deleted"}
Checked == AllStatuses \ {"deleted"}

\* "Pending -> Active: a check passes", and so on.
CheckEdges ==
    {<<"active", "pending">>, <<"pending", "down">>,
     <<"pending", "active">>, <<"down", "active">>}

LifecycleInit ==
    /\ status = [c \in Callsigns |-> "absent"]
    /\ by = "system"
    /\ held = [c \in Callsigns |-> {}]

Set(c, s) == status' = [status EXCEPT ![c] = s]

\* Checks end, with the process if need be; nothing new is read.
ChecksEnd == \A c \in Callsigns : held'[c] \subseteq held[c]

CheckReads(c) ==
    /\ status[c] \in Checked
    /\ held' = [held EXCEPT ![c] = @ \cup {status[c]}]
    /\ UNCHANGED <<status, by>>

\* One transition from a status that a check has read.
CheckMoves(c) ==
    /\ by' = "scheduler"
    /\ \E s \in held[c], new \in Checked : <<s, new>> \in CheckEdges /\ Set(c, new)
    /\ ChecksEnd

\* Whoever runs the service registers it with a status or deletes it; what
\* is deleted does not become active that way.
OwnerMoves(c) ==
    /\ by' = "api"
    /\ \E new \in AllStatuses :
          Set(c, new) /\ ~(status[c] = "deleted" /\ new = "active")
    /\ UNCHANGED held

AdminMoves(c) ==
    /\ by' = "admin"
    /\ \E new \in AllStatuses : Set(c, new)
    /\ UNCHANGED held

Elsewhere == ChecksEnd /\ UNCHANGED status

LifecycleNext ==
    \/ \E c \in Callsigns :
          CheckReads(c) \/ CheckMoves(c) \/ OwnerMoves(c) \/ AdminMoves(c)
    \/ Elsewhere

LifecycleSpec == LifecycleInit /\ [][LifecycleNext]_lifecycleVars
-----------------------------------------------------------------------------
\* faq.html: "deleted services cannot be re-registered automatically".  A
\* deleted service becomes active by an admin, or by a check that has read
\* another status of it before; by nothing else.
RevivalNeedsAuthority ==
    [][\A c \in Callsigns :
          status[c] = "deleted" /\ status'[c] = "active" =>
              \/ by' = "admin"
              \/ by' = "scheduler" /\ held[c] # {}]_lifecycleVars
=============================================================================
