---------------------------- MODULE Calculations ----------------------------
(***************************************************************************)
(* The functions of the registry that only compute: the APRS passcode that *)
(* admits a suggestion, the spread of the hourly checks, the uptime figure *)
(* and the labels of the moderation page.  A state is a function with its  *)
(* arguments, and later its result.                                        *)
(*                                                                         *)
(* A number that is computed bit by bit is the set of its bits, so that an *)
(* exclusive or is a symmetric difference.  A character is its code.       *)
(***************************************************************************)
EXTENDS Naturals, FiniteSets, Sequences

CONSTANTS
    Texts,    \* what is given as a callsign, a sequence of characters
    Counts,   \* how many services there are to check
    Figures,  \* how many checks passed, and how many are recorded
    Pages,    \* pending suggestions in their order, and the services' commands
    NoName,   \* what a blank command name folds to
    Nothing   \* None, or "--"

\* str.upper() and ord() are modelled for these.
Ascii == 0..127

\* get_health_checks: limit = 50
HistoryLimit == 50

ASSUME CalculationAssumption ==
    /\ Texts \subseteq Seq(Ascii)
    /\ Counts \subseteq Nat
    /\ Figures \subseteq
          {f \in (0..HistoryLimit) \X (0..HistoryLimit) : f[1] <= f[2]}
    /\ \A p \in Pages : p[1] \in Seq({p[1][i] : i \in DOMAIN p[1]})

VARIABLES
    call,   \* the function that is called, with its arguments
    result  \* <<>>, or the value it has returned

calculationVars == <<call, result>>
-----------------------------------------------------------------------------
(* calculate_aprs_passcode *)

Bits(n) == {b \in 0..15 : (n \div 2^b) % 2 = 1}

Xor(a, b) == (a \ b) \cup (b \ a)

Dash == 45

Upper(ch) == IF ch \in 97..122 THEN ch - 32 ELSE ch

\* callsign.upper().split("-")[0]
Base(text) ==
    LET upper == [i \in 1..Len(text) |-> Upper(text[i])]
        end == {i \in 1..Len(text) : upper[i] = Dash}
    IN IF end = {} THEN upper
       ELSE SubSeq(upper, 1, (CHOOSE i \in end : \A j \in end : i <= j) - 1)

\* Mutant of Shifted: the second of a pair is shifted.
ShiftedSecond(ch, i) == IF i % 2 = 0 THEN Bits(ch * 256) ELSE Bits(ch)

\* The first character of a pair is the high byte.
Shifted(ch, i) == IF i % 2 = 1 THEN Bits(ch * 256) ELSE Bits(ch)

\* 0x73e2
Seed == 29666

\* The loop over pairs of characters: hash_val after each of them.
Hash(base) ==
    LET hash[i \in 0..Len(base)] ==
            IF i = 0 THEN Bits(Seed)
            ELSE Xor(hash[i - 1], Shifted(base[i], i))
    IN hash

\* 0x7fff
Mask == 0..14

Passcode(text) == Hash(Base(text))[Len(Base(text))] \cap Mask
-----------------------------------------------------------------------------
(* calculate_stagger_interval, setup_scheduler, calculate_uptime *)

SecondsPerHour == 3600

\* Mutant of Interval: rounded up.
IntervalUp(n) ==
    IF n = 0 THEN Nothing ELSE (SecondsPerHour + n - 1) \div n

Interval(n) == IF n = 0 THEN Nothing ELSE SecondsPerHour \div n

\* setup_scheduler: when the check number k begins, counted from 0 over all n
\* services, hour after hour.
Start(n, k) == SecondsPerHour * (k \div n) + (k % n) * Interval(n)

\* Mutant of Uptime: of the length of a full history.
UptimeOfFifty(passed, recorded) ==
    IF recorded = 0 THEN Nothing ELSE (100 * passed) \div 50

\* A percentage without decimals.  Halves go to the even number, except that
\* 23 of 40 is a little less than 57.5 in binary.
Uptime(passed, recorded) ==
    LET whole == (100 * passed) \div recorded
        twiceRest == 2 * ((100 * passed) % recorded)
    IN CASE recorded = 0 -> Nothing
         [] recorded > 0 /\ twiceRest < recorded -> whole
         [] recorded > 0 /\ twiceRest > recorded -> whole + 1
         [] recorded > 0 /\ twiceRest = recorded ->
                IF passed = 23 /\ recorded = 40 THEN 57 ELSE whole + (whole % 2)
-----------------------------------------------------------------------------
(* admin_commands *)

\* Approving the row now would be turned into a rejection; so it would if the
\* service were gone.
Exists(row, registry) ==
    \/ row.service \notin DOMAIN registry
    \/ row.name # NoName /\ row.name \in registry[row.service]

\* Mutant of Same: one name on two services.
SameName(row, other) == row.name = other.name

\* The key of seen_pending_names.
Same(row, other) == row = other

Label(row, seen, registry) ==
    CASE Exists(row, registry) -> "exists"
      [] ~Exists(row, registry) ->
             IF \E r \in seen : Same(r, row) THEN "duplicate" ELSE "ok"

\* seen_pending_names after each row of the page.
Seen(queue, registry) ==
    LET seen[i \in 0..Len(queue)] ==
            IF i = 0 THEN {}
            ELSE seen[i - 1] \cup
                    {r \in {queue[i]} :
                        /\ r.name # NoName
                        /\ Label(r, seen[i - 1], registry) = "ok"}
    IN seen

Labels(queue, registry) ==
    LET seen == Seen(queue, registry)
    IN [i \in 1..Len(queue) |-> Label(queue[i], seen[i - 1], registry)]
-----------------------------------------------------------------------------
Value ==
    CASE call.of = "passcode" -> Passcode(call.text)
      [] call.of = "interval" -> Interval(call.services)
      [] call.of = "uptime" -> Uptime(call.passed, call.recorded)
      [] call.of = "page" -> Labels(call.queue, call.registry)

Calls ==
    {[of |-> "passcode", text |-> text] : text \in Texts}
        \cup {[of |-> "interval", services |-> n] : n \in Counts}
        \cup {[of |-> "uptime", passed |-> f[1], recorded |-> f[2]] :
                  f \in Figures}
        \cup {[of |-> "page", queue |-> p[1], registry |-> p[2]] : p \in Pages}

CalculationInit ==
    /\ call \in Calls
    /\ result = <<>>

Calculate ==
    /\ result = <<>>
    /\ result' = <<Value>>
    /\ UNCHANGED call

CalculationSpec == CalculationInit /\ [][Calculate]_calculationVars
-----------------------------------------------------------------------------
(* Properties *)

Returned(function) == result # <<>> /\ call.of = function

\* "XOR pairs of characters with 0x73e2 as seed", "without SSID", "Mask to 15
\* bits": a bit of the passcode is set if an odd number of the seed and the
\* characters before the first dash, upper-cased and in their halves of the
\* word, have it.
PasscodeIsParity ==
    Returned("passcode") =>
        LET text == call.text
            before == {i \in 1..Len(text) : \A j \in 1..i : text[j] # Dash}
            Has(b, i) ==
                IF i % 2 = 1 THEN b >= 8 /\ b - 8 \in Bits(Upper(text[i]))
                ELSE b < 8 /\ b \in Bits(Upper(text[i]))
            Ones(b) ==
                Cardinality({i \in before : Has(b, i)})
                    + (IF b \in Bits(Seed) THEN 1 ELSE 0)
        IN \A b \in 0..15 : b \in result[1] <=> b < 15 /\ Ones(b) % 2 = 1

\* "spread them over an hour": consecutive checks begin the interval apart or
\* more, those of two rounds included; no longer interval would do; and only
\* from 3601 services on do checks begin together, then all at once.
ChecksAreSpread ==
    Returned("interval") =>
        LET n == call.services
            interval == result[1]
        IN IF n = 0 THEN interval = Nothing
           ELSE /\ \A k \in 0..2 * n : Start(n, k + 1) - Start(n, k) >= interval
                /\ n * (interval + 1) > SecondsPerHour
                /\ interval = 0 <=> n > SecondsPerHour

\* The figure for the 50 checks a page shows is "100%" only if all passed, "0%"
\* only if none did, and at most half a percent off in between.
UptimeIsHonest ==
    Returned("uptime") =>
        IF call.recorded = 0 THEN result[1] = Nothing
        ELSE LET figure == result[1] IN
             /\ figure = 100 <=> call.passed = call.recorded
             /\ figure = 0 <=> call.passed = 0
             /\ 2 * figure * call.recorded <= 200 * call.passed + call.recorded
             /\ 200 * call.passed <= 2 * figure * call.recorded + call.recorded

\* '"ok" - safe to approve': all rows with that label can be approved, in
\* whatever order, and none of them turns into a rejection by the others; and
\* each suggestion that adds something is offered by one of them.
LabelsAreSafe ==
    Returned("page") =>
        LET rows == call.queue
            new == {i \in DOMAIN rows : result[1][i] = "ok"}
        IN /\ \A i \in new : ~Exists(rows[i], call.registry)
           /\ \A i, j \in new :
                 rows[i] = rows[j] /\ rows[i].name # NoName => i = j
           /\ \A i \in DOMAIN rows :
                 ~Exists(rows[i], call.registry) =>
                     \E j \in new : j <= i /\ rows[j] = rows[i]
=============================================================================
