------------------------------ MODULE MCSystem ------------------------------
(* Constants of System for TLC; the cfg files choose among them. *)
EXTENDS System, TLC

CONSTANTS c1, c2, t1, t2, help, HELP, kelvin, ping, blank, i1, i2, i3

OneService == {c1}
NoServices == {}
OneThread == {t1}
TwoThreads == {t1, t2}

\* Three spellings of one name, one of them with a letter that Python lowers
\* and SQLite does not: it is outside ASCII.
Names == {help, HELP, kelvin}
NamesFolded == [n \in Names |-> help]
NamesLowered == [n \in Names |-> IF n = kelvin THEN kelvin ELSE help]
NoNamesFolded == [n \in {} |-> n]

\* No request's own list holds two spellings of one name.
Lists == {{}, {HELP}, {kelvin}}
NoLists == {{}}

Row(st, f, h, names) ==
    [status |-> st, featured |-> f, healthCommand |-> h, commands |-> names]

Field(st, f, h) == [status |-> st, featured |-> f, healthCommand |-> h]

AnyStatus == {Row(st, FALSE, NoCommand, {}) : st \in Statuses}
OwnStatuses == {Row(st, FALSE, NoCommand, {}) : st \in {"active", "pending"}}
ActiveWithLists ==
    {Row("active", TRUE, h, names) : h \in {NoCommand, ping}, names \in Lists}
AnyForm == {Field(st, FALSE, NoCommand) : st \in Statuses}
ActiveForms ==
    {Field(st, f, h) : st \in {"active", "unset"}, f \in BOOLEAN,
                       h \in {NoCommand, blank}}

ThreadSymmetry == Permutations(TwoThreads)
TwoTickets == {i1, i2}
TicketSymmetry == Permutations(Tickets)

\* No action reads the audit table, so states that differ in it only have the
\* same successors.
ButAudit ==
    <<status, featured, healthCommand, commands, checks, submissions,
      healthVars, webVars>>
=============================================================================
