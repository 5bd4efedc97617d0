---------------------------- MODULE MCConnection ----------------------------
(* Constants of SharedConnection for TLC; the cfg files choose among them. *)
EXTENDS SharedConnection

CONSTANTS loop, thread

LoopAlone == {loop}
LoopAndThread == {loop, thread}

\* The two methods check_service writes with; of the handlers' methods one
\* that only reads, one that writes, and the one that reads its row back.
FewMethodsOf ==
    [c \in Clients |->
        IF c = loop THEN {"get_service", "toggle_featured", "upsert_service"}
        ELSE {"add_health_check", "update_service_status"}]
=============================================================================
