--------------------------- MODULE MCCommandLine ---------------------------
(* Constants of CommandLine for TLC; the cfg file chooses among them. *)
EXTENDS CommandLine, TLC

CONSTANTS c1, c2, help, i1, i2, i3

TwoServices == {c1, c2}
NamesFolded == [n \in {help} |-> n]
ThreeTickets == {i1, i2, i3}

Row(s, names) ==
    [status |-> s, featured |-> FALSE, healthCommand |-> NoCommand,
     commands |-> names]

Suggestion(c) == [service |-> c, name |-> help]

NoneRefused == [services |-> {}, results |-> {}, suggestions |-> {}]

\* The files of one service; the same without its suggestions; results and
\* suggestions of a service that is not pickled; no file at all; a service, a
\* result, a suggestion that the tables refuse.
SomePickles ==
    LET one == c1 :> Row("active", {})
        failed == <<c1, [at |-> 1, ok |-> FALSE]>>
        both == [services |-> one, results |-> {failed},
                 suggestions |-> i1 :> Suggestion(c1) @@ i2 :> Suggestion(c1),
                 refused |-> NoneRefused]
    IN {both,
        [both EXCEPT !.results = @ \cup {<<c1, [at |-> 2, ok |-> TRUE]>>},
                     !.suggestions = <<>>],
        [both EXCEPT !.results = @ \cup {<<c2, [at |-> 1, ok |-> TRUE]>>},
                     !.suggestions = <<>>],
        [both EXCEPT !.results = {},
                     !.suggestions = i1 :> Suggestion(c1) @@ i2 :> Suggestion(c2)],
        [services |-> <<>>, results |-> {}, suggestions |-> <<>>,
         refused |-> NoneRefused],
        [both EXCEPT !.services = one @@ c2 :> Row("down", {}),
                     !.refused.services = {c2}],
        [both EXCEPT !.refused.results = {failed}],
        [both EXCEPT !.refused.suggestions = {i2}]}

Registrations == {Row("active", {help})}

\* No action reads the audit table.
ButAudit ==
    <<status, featured, healthCommand, commands, checks, submissions,
      commandLineVars>>
=============================================================================
