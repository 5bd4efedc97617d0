--------------------------- MODULE MCCalculations ---------------------------
(* Arguments for TLC to try the functions of Calculations on. *)
EXTENDS Calculations, SequencesExt

CONSTANTS c1, c2, help, stat

\* Up to five characters: two letters, one of them in both cases, a digit, a
\* dash.
ShortTexts == SeqOf({65, 97, 75, 48, Dash}, 5)

\* Few services, and the end of the interval.
SomeCounts == 0..70 \cup {1799, 1800, 1801, 3599, 3600, 3601, 7200}

\* Every figure of a history get_health_checks returns.
AllFigures == {f \in (0..50) \X (0..50) : f[1] <= f[2]}

Rows == [service : {c1, c2}, name : {help, stat, NoName}]
Registries ==
    UNION {[cs -> SUBSET {help, stat}] : cs \in SUBSET {c1, c2}}

\* Up to three suggestions, of services that need not be there any more.
ShortPages == SeqOf(Rows, 3) \X Registries
=============================================================================
