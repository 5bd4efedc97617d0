------------------------- MODULE CalculationsProofs -------------------------
(***************************************************************************)
(* The functions of Calculations keep their promises for all arguments.    *)
(*                                                                         *)
(* Two of them are loops.  What a loop computes is proved by looking at    *)
(* the least number of rounds after which it would not hold: every set of  *)
(* natural numbers that is not empty has a least element.                  *)
(***************************************************************************)
EXTENDS Calculations, WellFoundedInduction, FiniteSetTheorems, TLAPS

LEMMA LeastElement ==
    ASSUME NEW S, S \subseteq Nat, S # {}
    PROVE  \E n \in S : \A m \in S : n <= m
<1> DEFINE Less == OpToRel(<, Nat)
<1>1. IsWellFoundedOn(Less, Nat)
  BY NatLessThanWellFounded
<1>2. ASSUME NEW m \in Nat, NEW n \in Nat, m < n
      PROVE  <<m, n>> \in Less
  <2>1. Less = {p \in Nat \X Nat : p[1] < p[2]}
    BY DEF OpToRel
  <2> HIDE DEF Less
  <2> QED BY <1>2, <2>1
<1> HIDE DEF Less
<1>3. PICK n \in S : \A m \in S : <<m, n>> \notin Less
  BY <1>1, WFMin
<1>4. ASSUME NEW m \in S
      PROVE  n <= m
  <2>1. ~ m < n
    BY <1>2, <1>3
  <2> QED BY <2>1
<1> QED BY <1>4
-----------------------------------------------------------------------------
(* The spread of the checks *)

LEMMA DivisionIsUnique ==
    ASSUME NEW n \in Nat, n > 0, NEW q \in Nat, NEW r \in Nat, r < n
    PROVE  (q * n + r) \div n = q /\ (q * n + r) % n = r
<1> DEFINE k == q * n + r
<1>1. k \in Nat
  OBVIOUS
<1>2. PICK p \in Nat, s \in 0..n - 1 :
         p = k \div n /\ s = k % n /\ k = p * n + s
  BY <1>1
<1>3. ~ p < q
  <2> SUFFICES ASSUME p + 1 <= q PROVE FALSE
    OBVIOUS
  <2>1. (p + 1) * n <= q * n
    OBVIOUS
  <2> QED BY <1>2, <2>1
<1>4. ~ q < p
  <2> SUFFICES ASSUME q + 1 <= p PROVE FALSE
    OBVIOUS
  <2>1. (q + 1) * n <= p * n
    OBVIOUS
  <2> QED BY <1>2, <2>1
<1> QED BY <1>2, <1>3, <1>4

LEMMA IntervalIsShare ==
    ASSUME NEW n \in Nat, n > 0
    PROVE  /\ Interval(n) \in Nat
           /\ n * Interval(n) <= SecondsPerHour
           /\ n * (Interval(n) + 1) > SecondsPerHour
<1> DEFINE share == SecondsPerHour \div n
<1>1. /\ share \in Nat
      /\ SecondsPerHour = share * n + (SecondsPerHour % n)
      /\ SecondsPerHour % n \in 0..n - 1
  BY DEF SecondsPerHour
<1>2. Interval(n) = share
  BY DEF Interval
<1> HIDE DEF share
<1>3. n * share = share * n /\ n * (share + 1) = share * n + n
  BY <1>1
<1> QED BY <1>1, <1>2, <1>3 DEF SecondsPerHour

\* Consecutive checks are the interval apart, and the last check of a round
\* is no closer to the first one of the next.
LEMMA StartsAreApart ==
    ASSUME NEW n \in Nat, n > 0, NEW k \in Nat
    PROVE  Start(n, k + 1) - Start(n, k) >= Interval(n)
<1> DEFINE q == k \div n
           r == k % n
<1>1. q \in Nat /\ r \in 0..n - 1 /\ k = q * n + r
  OBVIOUS
<1>2. PICK i \in Nat : i = Interval(n) /\ n * i <= SecondsPerHour
  BY IntervalIsShare
<1>3. Start(n, k) = SecondsPerHour * q + r * i
  BY <1>2 DEF Start
<1> HIDE DEF q, r
<1>4. CASE r + 1 < n
  <2>1. (k + 1) \div n = q /\ (k + 1) % n = r + 1
    <3>1. k + 1 = q * n + (r + 1)
      BY <1>1
    <3> QED BY <1>1, <1>4, <3>1, DivisionIsUnique
  <2>2. Start(n, k + 1) = SecondsPerHour * q + (r + 1) * i
    BY <1>2, <2>1 DEF Start
  <2>3. (r + 1) * i = r * i + i
    BY <1>1
  <2> QED BY <1>1, <1>2, <1>3, <2>2, <2>3 DEF SecondsPerHour
<1>5. CASE r + 1 = n
  <2>1. (k + 1) \div n = q + 1 /\ (k + 1) % n = 0
    <3>1. k + 1 = (q + 1) * n + 0
      BY <1>1, <1>5
    <3> QED BY <1>1, <3>1, DivisionIsUnique
  <2>2. Start(n, k + 1) = SecondsPerHour * (q + 1)
    BY <1>1, <1>2, <2>1 DEF Start, SecondsPerHour
  <2>3. r * i + i <= SecondsPerHour
    <3>1. n * i = r * i + i
      BY <1>1, <1>5
    <3> QED BY <1>2, <3>1
  <2> QED BY <1>1, <1>2, <1>3, <2>2, <2>3 DEF SecondsPerHour
<1> QED BY <1>1, <1>4, <1>5

\* Checks begin together only if there are more of them than seconds.
LEMMA TogetherFromLimitOn ==
    ASSUME NEW n \in Nat, n > 0
    PROVE  Interval(n) = 0 <=> n > SecondsPerHour
<1>1. PICK i \in Nat :
         /\ i = Interval(n)
         /\ n * i <= SecondsPerHour
         /\ n * (i + 1) > SecondsPerHour
  BY IntervalIsShare
<1>2. CASE i = 0
  BY <1>1, <1>2
<1>3. CASE i > 0
  <2>1. n <= n * i
    BY <1>3
  <2> QED BY <1>1, <1>3, <2>1 DEF SecondsPerHour
<1> QED BY <1>2, <1>3
-----------------------------------------------------------------------------
(* The uptime figure *)

\* The figure is the percentage rounded to one side or the other, up if the
\* rest is half or more, down if it is half or less.
LEMMA FigureIsRounded ==
    ASSUME NEW passed \in 0..HistoryLimit, NEW recorded \in 1..HistoryLimit
    PROVE  LET figure == Uptime(passed, recorded) IN
           /\ figure \in Nat
           /\ 2 * (figure * recorded) <= 200 * passed + recorded
           /\ 200 * passed <= 2 * (figure * recorded) + recorded
<1> DEFINE whole == (100 * passed) \div recorded
           rest == (100 * passed) % recorded
           figure == Uptime(passed, recorded)
<1>1. /\ passed \in Nat /\ recorded \in Nat /\ recorded > 0
  BY DEF HistoryLimit
<1>2. /\ whole \in Nat /\ rest \in 0..recorded - 1
      /\ 100 * passed = whole * recorded + rest
  BY <1>1
<1>3. (whole + 1) * recorded = whole * recorded + recorded
  BY <1>1, <1>2
<1>4. \/ figure = whole /\ 2 * rest <= recorded
      \/ figure = whole + 1 /\ 2 * rest >= recorded
  <2>1. CASE 2 * rest < recorded
    BY <1>1, <1>2, <2>1 DEF Uptime
  <2>2. CASE 2 * rest > recorded
    BY <1>1, <1>2, <2>2 DEF Uptime
  <2>3. CASE 2 * rest = recorded /\ ~(passed = 23 /\ recorded = 40)
    <3>1. figure = whole + (whole % 2)
      BY <1>1, <1>2, <2>3 DEF Uptime
    <3>2. whole % 2 \in {0, 1}
      BY <1>2
    <3> QED BY <1>2, <2>3, <3>1, <3>2
  <2>4. CASE passed = 23 /\ recorded = 40
    <3>1. figure = 57 /\ whole = 57 /\ rest = 20
      BY <2>4 DEF Uptime
    <3> QED BY <2>4, <3>1
  <2> QED BY <1>1, <1>2, <2>1, <2>2, <2>3, <2>4
<1> HIDE DEF whole, rest, figure
<1> QED BY <1>1, <1>2, <1>3, <1>4 DEF figure

LEMMA FigureIsHonest ==
    ASSUME NEW passed \in 0..HistoryLimit, NEW recorded \in 1..HistoryLimit,
           passed <= recorded
    PROVE  LET figure == Uptime(passed, recorded) IN
           /\ figure = 100 <=> passed = recorded
           /\ figure = 0 <=> passed = 0
           /\ 2 * figure * recorded <= 200 * passed + recorded
           /\ 200 * passed <= 2 * figure * recorded + recorded
<1>1. PICK figure \in Nat :
         /\ figure = Uptime(passed, recorded)
         /\ 2 * (figure * recorded) <= 200 * passed + recorded
         /\ 200 * passed <= 2 * (figure * recorded) + recorded
  BY FigureIsRounded
<1>2. /\ passed \in Nat /\ recorded \in Nat /\ recorded > 0 /\ recorded <= 50
      /\ 2 * figure * recorded = 2 * (figure * recorded)
  BY DEF HistoryLimit
<1>3. figure = 100 => passed = recorded
  BY <1>1, <1>2
<1>4. passed = recorded => figure = 100
  <2>1. figure >= 101 => figure * recorded >= 101 * recorded
    BY <1>2
  <2>2. figure <= 99 => figure * recorded <= 99 * recorded
    BY <1>2
  <2> QED BY <1>1, <1>2, <2>1, <2>2
<1>5. figure = 0 => passed = 0
  BY <1>1, <1>2
<1>6. passed = 0 => figure = 0
  <2>1. figure >= 1 => figure * recorded >= recorded
    BY <1>2
  <2> QED BY <1>1, <1>2, <2>1
<1> QED BY <1>1, <1>2, <1>3, <1>4, <1>5, <1>6
-----------------------------------------------------------------------------
(* The labels of the moderation page *)

SeenStep(before, row, registry) ==
    before \cup
        {r \in {row} :
            r.name # NoName /\ Label(r, before, registry) = "ok"}

\* The first n rounds of the loop.
SeenUpTo(f, n, queue, registry) ==
    f = [i \in 0..n |->
            IF i = 0 THEN {} ELSE SeenStep(f[i - 1], queue[i], registry)]

LEMMA SeenUpToExists ==
    ASSUME NEW queue, NEW registry, NEW n \in Nat
    PROVE  \E f : SeenUpTo(f, n, queue, registry)
<1> DEFINE Runs(m) == \E f : SeenUpTo(f, m, queue, registry)
           stuck == {m \in Nat : ~ Runs(m)}
<1> SUFFICES ASSUME stuck # {} PROVE FALSE
  OBVIOUS
<1> HIDE DEF Runs
<1>1. PICK m \in stuck : \A k \in stuck : m <= k
  BY LeastElement
<1>2. CASE m = 0
  <2>1. SeenUpTo([i \in 0..0 |-> {}], 0, queue, registry)
    BY DEF SeenUpTo
  <2> QED BY <1>2, <2>1 DEF Runs
<1>3. CASE m # 0
  <2>1. m - 1 \in Nat /\ Runs(m - 1)
    BY <1>1, <1>3
  <2>2. PICK f : SeenUpTo(f, m - 1, queue, registry)
    BY <2>1 DEF Runs
  <2> DEFINE g == [i \in 0..m |->
                      IF i = m THEN SeenStep(f[m - 1], queue[m], registry)
                      ELSE f[i]]
  <2>3. \A i \in 0..m - 1 : g[i] = f[i]
    BY <1>1
  <2>4. ASSUME NEW i \in 0..m
        PROVE  g[i] = IF i = 0 THEN {}
                      ELSE SeenStep(g[i - 1], queue[i], registry)
    <3>1. CASE i = m
      <4>1. g[i] = SeenStep(f[m - 1], queue[m], registry)
        BY <3>1
      <4> QED BY <1>3, <2>1, <2>3, <3>1, <4>1
    <3>2. CASE i # m
      <4>1. i \in 0..m - 1 /\ (i # 0 => i - 1 \in 0..m - 1)
        BY <2>1, <3>2
      <4>2. f[i] = IF i = 0 THEN {} ELSE SeenStep(f[i - 1], queue[i], registry)
        BY <2>2, <4>1 DEF SeenUpTo
      <4> HIDE DEF g
      <4> QED BY <2>3, <4>1, <4>2
    <3> QED BY <3>1, <3>2
  <2>5. SeenUpTo(g, m, queue, registry)
    BY <2>4 DEF SeenUpTo
  <2> QED BY <2>5 DEF Runs
<1> QED BY <1>2, <1>3

LEMMA SeenUnfolds ==
    ASSUME NEW queue, NEW registry, Len(queue) \in Nat
    PROVE  SeenUpTo(Seen(queue, registry), Len(queue), queue, registry)
<1>1. PICK f : SeenUpTo(f, Len(queue), queue, registry)
  BY SeenUpToExists
<1> QED BY <1>1 DEF SeenUpTo, Seen, SeenStep

\* What has been seen are the named rows that were offered.
LEMMA SeenIsOffered ==
    ASSUME NEW queue, NEW registry, Len(queue) \in Nat, NEW n \in 0..Len(queue)
    PROVE  Seen(queue, registry)[n] =
              {queue[i] : i \in {j \in 1..n :
                  /\ queue[j].name # NoName
                  /\ Labels(queue, registry)[j] = "ok"}}
<1> DEFINE seen == Seen(queue, registry)
           labels == Labels(queue, registry)
           offered(m) == {j \in 1..m : queue[j].name # NoName /\ labels[j] = "ok"}
           Right(m) == seen[m] = {queue[i] : i \in offered(m)}
           wrong == {m \in 0..Len(queue) : ~ Right(m)}
<1> SUFFICES ASSUME wrong # {} PROVE FALSE
  OBVIOUS
<1> HIDE DEF Right
<1>1. PICK m \in wrong : \A k \in wrong : m <= k
  <2>1. wrong \subseteq Nat
    OBVIOUS
  <2> HIDE DEF wrong
  <2> QED BY <2>1, LeastElement
<1>2. \A i \in 0..Len(queue) :
         seen[i] = IF i = 0 THEN {} ELSE SeenStep(seen[i - 1], queue[i], registry)
  <2> HIDE DEF seen
  <2>1. SeenUpTo(seen, Len(queue), queue, registry)
    BY SeenUnfolds DEF seen
  <2> QED BY <2>1 DEF SeenUpTo
<1>3. \A i \in 1..Len(queue) : labels[i] = Label(queue[i], seen[i - 1], registry)
  BY DEF Labels
<1> HIDE DEF seen, labels
<1>4. CASE m = 0
  BY <1>2, <1>4 DEF Right
<1>5. CASE m # 0
  <2>1. m - 1 \in 0..Len(queue) /\ m \in 1..Len(queue)
    BY <1>5
  <2>2. seen[m - 1] = {queue[i] : i \in offered(m - 1)}
    <3>1. Right(m - 1)
      BY <1>1, <2>1
    <3> QED BY <3>1 DEF Right
  <2>3. seen[m] = SeenStep(seen[m - 1], queue[m], registry)
    BY <1>2, <1>5
  <2>4. offered(m) = offered(m - 1) \cup {j \in {m} :
                        queue[j].name # NoName /\ labels[j] = "ok"}
    BY <2>1
  <2>5. labels[m] = Label(queue[m], seen[m - 1], registry)
    BY <1>3, <2>1
  <2>6. {queue[i] : i \in offered(m)} =
           {queue[i] : i \in offered(m - 1)}
              \cup {r \in {queue[m]} : r.name # NoName /\ labels[m] = "ok"}
    BY <2>4
  <2>7. Right(m)
    BY <2>2, <2>3, <2>5, <2>6 DEF SeenStep, Right
  <2> QED BY <2>7
<1> QED BY <1>4, <1>5

\* A row is labelled by what was offered above it.
LEMMA LabelsByOffers ==
    ASSUME NEW queue, NEW registry, Len(queue) \in Nat, NEW n \in 1..Len(queue)
    PROVE  LET labels == Labels(queue, registry)
               offered == {i \in 1..n - 1 :
                              queue[i].name # NoName /\ labels[i] = "ok"}
           IN labels[n] = IF Exists(queue[n], registry) THEN "exists"
                          ELSE IF \E i \in offered : queue[i] = queue[n]
                               THEN "duplicate" ELSE "ok"
<1> DEFINE labels == Labels(queue, registry)
           offered == {i \in 1..n - 1 :
                          queue[i].name # NoName /\ labels[i] = "ok"}
           before == Seen(queue, registry)[n - 1]
<1>1. before = {queue[i] : i \in offered}
  BY SeenIsOffered
<1>2. labels[n] = Label(queue[n], before, registry)
  BY DEF Labels
<1> HIDE DEF labels, before, offered
<1>3. (\E r \in before : Same(r, queue[n]))
         <=> \E i \in offered : queue[i] = queue[n]
  BY <1>1 DEF Same
<1>4. CASE Exists(queue[n], registry)
  BY <1>2, <1>4 DEF Label, labels
<1>5. CASE ~ Exists(queue[n], registry)
  <2>1. labels[n] = IF \E r \in before : Same(r, queue[n])
                    THEN "duplicate" ELSE "ok"
    BY <1>2, <1>5 DEF Label
  <2> QED BY <1>3, <1>5, <2>1 DEF labels, offered
<1> QED BY <1>4, <1>5

LEMMA LabelsAreSound ==
    ASSUME NEW rows, NEW registry, Len(rows) \in Nat, DOMAIN rows = 1..Len(rows)
    PROVE  LET labels == Labels(rows, registry)
               new == {i \in DOMAIN rows : labels[i] = "ok"}
           IN /\ \A i \in new : ~Exists(rows[i], registry)
              /\ \A i, j \in new :
                    rows[i] = rows[j] /\ rows[i].name # NoName => i = j
              /\ \A i \in DOMAIN rows :
                    ~Exists(rows[i], registry) =>
                        \E j \in new : j <= i /\ rows[j] = rows[i]
<1> DEFINE labels == Labels(rows, registry)
           new == {i \in DOMAIN rows : labels[i] = "ok"}
           Offered(n) == {i \in 1..n - 1 :
                             rows[i].name # NoName /\ labels[i] = "ok"}
<1>1. ASSUME NEW n \in DOMAIN rows
      PROVE  labels[n] = IF Exists(rows[n], registry) THEN "exists"
                         ELSE IF \E i \in Offered(n) : rows[i] = rows[n]
                              THEN "duplicate" ELSE "ok"
  BY LabelsByOffers
<1> HIDE DEF labels
<1>2. ASSUME NEW i \in new
      PROVE  ~ Exists(rows[i], registry) /\ ~ \E j \in Offered(i) : rows[j] = rows[i]
  BY <1>1
<1>3. ASSUME NEW i \in new, NEW j \in new,
             rows[i] = rows[j], rows[i].name # NoName
      PROVE  i = j
  <2>1. i \in Offered(j) \/ j \in Offered(i) \/ i = j
    BY <1>3
  <2> QED BY <1>2, <1>3, <2>1
<1>4. ASSUME NEW i \in DOMAIN rows, ~ Exists(rows[i], registry)
      PROVE  \E j \in new : j <= i /\ rows[j] = rows[i]
  <2>1. CASE labels[i] = "ok"
    BY <2>1
  <2>2. CASE labels[i] # "ok"
    <3>1. PICK j \in Offered(i) : rows[j] = rows[i]
      BY <1>1, <1>4, <2>2
    <3> QED BY <3>1
  <2> QED BY <2>1, <2>2
<1> QED BY <1>2, <1>3, <1>4 DEF labels
-----------------------------------------------------------------------------
(* The passcode *)

\* Bits with the powers of two written out.
LEMMA BitsByPower ==
    ASSUME NEW n \in Nat
    PROVE  Bits(n) =
              {b \in 0..15 :
                  (n \div <<1, 2, 4, 8, 16, 32, 64, 128, 256, 512, 1024, 2048,
                            4096, 8192, 16384, 32768>>[b + 1]) % 2 = 1}
<1> DEFINE power == [b \in 0..15 |-> 2^b]
<1>1. /\ power[0] = 1 /\ power[1] = 2 /\ power[2] = 4 /\ power[3] = 8
      /\ power[4] = 16 /\ power[5] = 32 /\ power[6] = 64 /\ power[7] = 128
      /\ power[8] = 256 /\ power[9] = 512
      /\ power[10] = 1024 /\ power[11] = 2048
      /\ power[12] = 4096 /\ power[13] = 8192
      /\ power[14] = 16384 /\ power[15] = 32768
  OBVIOUS
<1>2. Bits(n) = {b \in 0..15 : (n \div power[b]) % 2 = 1}
  <2>1. ASSUME NEW b \in 0..15
        PROVE  power[b] = 2^b
    OBVIOUS
  <2> QED BY Zenon DEF Bits
<1> HIDE DEF power
<1>3. \A b \in 0..15 :
         power[b] = <<1, 2, 4, 8, 16, 32, 64, 128, 256, 512, 1024, 2048,
                      4096, 8192, 16384, 32768>>[b + 1]
  BY <1>1
<1> QED BY <1>2, <1>3

LEMMA BitsOfCharacter ==
    ASSUME NEW ch \in Ascii
    PROVE  /\ \A b \in 0..15 : b \in Bits(ch) => b < 8
           /\ \A b \in 0..15 : b \in Bits(ch * 256) <=> b >= 8 /\ b - 8 \in Bits(ch)
<1> DEFINE power == <<1, 2, 4, 8, 16, 32, 64, 128, 256, 512, 1024, 2048, 4096,
                      8192, 16384, 32768>>
<1>1. \A n \in Nat, b \in 0..15 : b \in Bits(n) <=> (n \div power[b + 1]) % 2 = 1
  <2> SUFFICES ASSUME NEW n \in Nat
               PROVE  \A b \in 0..15 :
                         b \in Bits(n) <=> (n \div power[b + 1]) % 2 = 1
    OBVIOUS
  <2>1. Bits(n) = {b \in 0..15 : (n \div power[b + 1]) % 2 = 1}
    BY BitsByPower
  <2> HIDE DEF power
  <2> QED BY <2>1
<1>2. ch \in Nat /\ ch < 128 /\ ch * 256 \in Nat
  BY DEF Ascii
<1>3. ASSUME NEW b \in 0..15, b \in Bits(ch)
      PROVE  b < 8
  BY <1>1, <1>2, <1>3
<1>4. ASSUME NEW b \in 0..15
      PROVE  b \in Bits(ch * 256) <=> b >= 8 /\ b - 8 \in Bits(ch)
  <2>1. b \in Bits(ch * 256) <=> ((ch * 256) \div power[b + 1]) % 2 = 1
    BY <1>1, <1>2
  <2>2. b >= 8 => (b - 8 \in Bits(ch) <=> (ch \div power[b - 8 + 1]) % 2 = 1)
    BY <1>1, <1>2
  <2>3. CASE b < 8
    <3>1. ((ch * 256) \div power[b + 1]) % 2 = 0
      BY <1>2, <2>3
    <3> QED BY <2>1, <2>3, <3>1
  <2>4. CASE b >= 8
    <3>1. (ch * 256) \div power[b + 1] = ch \div power[b - 8 + 1]
      BY <1>2, <2>4
    <3> QED BY <2>1, <2>2, <2>4, <3>1
  <2> QED BY <2>3, <2>4
<1> QED BY <1>3, <1>4

LEMMA UpperOfCharacter ==
    ASSUME NEW ch \in Ascii
    PROVE  Upper(ch) \in Ascii /\ (Upper(ch) = Dash <=> ch = Dash)
BY DEF Upper, Ascii, Dash

\* The base is what comes before the first dash, upper-cased.
LEMMA BaseIsBefore ==
    ASSUME NEW text \in Seq(Ascii)
    PROVE  LET base == Base(text) IN
           /\ Len(base) \in Nat
           /\ 1..Len(base) =
                 {i \in 1..Len(text) : \A j \in 1..i : text[j] # Dash}
           /\ \A i \in 1..Len(base) : base[i] = Upper(text[i])
<1> DEFINE upper == [i \in 1..Len(text) |-> Upper(text[i])]
           end == {i \in 1..Len(text) : upper[i] = Dash}
           base == Base(text)
<1>1. Len(text) \in Nat /\ \A i \in 1..Len(text) : text[i] \in Ascii
  OBVIOUS
<1>2. \A i \in 1..Len(text) : i \in end <=> text[i] = Dash
  BY <1>1, UpperOfCharacter
<1>3. upper \in Seq(Ascii) /\ Len(upper) = Len(text)
  BY <1>1, UpperOfCharacter
<1>4. base = IF end = {} THEN upper
             ELSE SubSeq(upper, 1, (CHOOSE i \in end : \A j \in end : i <= j) - 1)
  BY DEF Base
<1>5. end \subseteq 1..Len(text)
  OBVIOUS
<1>6. \A i \in 1..Len(text) : upper[i] = Upper(text[i])
  OBVIOUS
<1> HIDE DEF upper, end, base
<1>7. CASE end = {}
  BY <1>1, <1>2, <1>3, <1>4, <1>6, <1>7 DEF base
<1>8. CASE end # {}
  <2> DEFINE first == CHOOSE i \in end : \A j \in end : i <= j
  <2>1. first \in end /\ \A j \in end : first <= j
    <3>1. \E i \in end : \A j \in end : i <= j
      <4>1. end \subseteq Nat
        BY <1>1, <1>5
      <4> QED BY <1>8, <4>1, LeastElement
    <3> QED BY <3>1
  <2> HIDE DEF first
  <2>2. first \in 1..Len(text) /\ base = SubSeq(upper, 1, first - 1)
    BY <1>4, <1>5, <1>8, <2>1 DEF first
  <2>3. /\ Len(base) = first - 1
        /\ \A i \in 1..first - 1 : base[i] = upper[i]
    BY <1>1, <1>3, <2>2
  <2>4. \A i \in 1..Len(text) :
           i \in 1..first - 1 <=> \A j \in 1..i : text[j] # Dash
    BY <1>1, <1>2, <2>1, <2>2
  <2> QED BY <1>1, <1>6, <2>2, <2>3, <2>4 DEF base
<1> QED BY <1>7, <1>8

\* The first n rounds of the loop.
HashUpTo(f, n, base) ==
    f = [i \in 0..n |->
            IF i = 0 THEN Bits(Seed) ELSE Xor(f[i - 1], Shifted(base[i], i))]

LEMMA HashUpToExists ==
    ASSUME NEW base, NEW n \in Nat
    PROVE  \E f : HashUpTo(f, n, base)
<1> DEFINE Runs(m) == \E f : HashUpTo(f, m, base)
           stuck == {m \in Nat : ~ Runs(m)}
<1> SUFFICES ASSUME stuck # {} PROVE FALSE
  OBVIOUS
<1> HIDE DEF Runs
<1>1. PICK m \in stuck : \A k \in stuck : m <= k
  BY LeastElement
<1>2. CASE m = 0
  <2>1. HashUpTo([i \in 0..0 |-> Bits(Seed)], 0, base)
    BY DEF HashUpTo
  <2> QED BY <1>2, <2>1 DEF Runs
<1>3. CASE m # 0
  <2>1. m - 1 \in Nat /\ Runs(m - 1)
    BY <1>1, <1>3
  <2>2. PICK f : HashUpTo(f, m - 1, base)
    BY <2>1 DEF Runs
  <2> DEFINE g == [i \in 0..m |->
                      IF i = m THEN Xor(f[m - 1], Shifted(base[m], m)) ELSE f[i]]
  <2>3. \A i \in 0..m - 1 : g[i] = f[i]
    BY <1>1
  <2>4. ASSUME NEW i \in 0..m
        PROVE  g[i] = IF i = 0 THEN Bits(Seed)
                      ELSE Xor(g[i - 1], Shifted(base[i], i))
    <3>1. CASE i = m
      <4>1. g[i] = Xor(f[m - 1], Shifted(base[m], m))
        BY <3>1
      <4> QED BY <1>3, <2>1, <2>3, <3>1, <4>1
    <3>2. CASE i # m
      <4>1. i \in 0..m - 1 /\ (i # 0 => i - 1 \in 0..m - 1)
        BY <2>1, <3>2
      <4>2. f[i] = IF i = 0 THEN Bits(Seed)
                   ELSE Xor(f[i - 1], Shifted(base[i], i))
        BY <2>2, <4>1 DEF HashUpTo
      <4> HIDE DEF g
      <4> QED BY <2>3, <4>1, <4>2
    <3> QED BY <3>1, <3>2
  <2>5. HashUpTo(g, m, base)
    BY <2>4 DEF HashUpTo
  <2> QED BY <2>5 DEF Runs
<1> QED BY <1>2, <1>3

LEMMA HashUnfolds ==
    ASSUME NEW base, Len(base) \in Nat
    PROVE  /\ Hash(base)[0] = Bits(Seed)
           /\ \A i \in 1..Len(base) :
                 Hash(base)[i] = Xor(Hash(base)[i - 1], Shifted(base[i], i))
<1> DEFINE hash == Hash(base)
<1>1. PICK f : HashUpTo(f, Len(base), base)
  BY HashUpToExists
<1>2. HashUpTo(Hash(base), Len(base), base)
  BY <1>1 DEF HashUpTo, Hash
<1> HIDE DEF hash
<1>3. /\ hash[0] = Bits(Seed)
      /\ \A i \in 1..Len(base) : hash[i] = Xor(hash[i - 1], Shifted(base[i], i))
  BY <1>2 DEF HashUpTo, hash
<1> QED BY <1>3 DEF hash

\* The characters up to number n that have bit b in their half of the word.
Setters(base, n, b) == {i \in 1..n : b \in Shifted(base[i], i)}

SeedBit(b) == IF b \in Bits(Seed) THEN 1 ELSE 0

LEMMA SettersGrow ==
    ASSUME NEW base, NEW n \in Nat, n > 0, NEW b
    PROVE  /\ Cardinality(Setters(base, n, b)) \in Nat
           /\ Cardinality(Setters(base, n - 1, b)) \in Nat
           /\ Cardinality(Setters(base, n, b)) =
                 Cardinality(Setters(base, n - 1, b))
                    + (IF b \in Shifted(base[n], n) THEN 1 ELSE 0)
<1> DEFINE old == Setters(base, n - 1, b)
           new == Setters(base, n, b)
<1>1. IsFiniteSet(1..n - 1) /\ old \subseteq 1..n - 1
  BY FS_Interval DEF Setters
<1>2. IsFiniteSet(old) /\ Cardinality(old) \in Nat
  BY <1>1, FS_Subset, FS_CardinalityType
<1>3. n \notin old
  BY DEF Setters
<1>4. new = IF b \in Shifted(base[n], n) THEN old \cup {n} ELSE old
  BY DEF Setters
<1> HIDE DEF old, new
<1>5. CASE b \in Shifted(base[n], n)
  <2>1. Cardinality(old \cup {n}) = Cardinality(old) + 1
    BY <1>2, <1>3, FS_AddElement
  <2> QED BY <1>2, <1>4, <1>5, <2>1 DEF old, new
<1>6. CASE b \notin Shifted(base[n], n)
  BY <1>2, <1>4, <1>6 DEF old, new
<1> QED BY <1>5, <1>6

\* A bit of hash_val is the parity of those that have set it.
LEMMA HashIsParity ==
    ASSUME NEW base, Len(base) \in Nat, NEW b \in 0..15, NEW n \in 0..Len(base)
    PROVE  b \in Hash(base)[n]
              <=> (Cardinality(Setters(base, n, b)) + SeedBit(b)) % 2 = 1
<1> DEFINE hash == Hash(base)
           count(m) == Cardinality(Setters(base, m, b))
           Right(m) == b \in hash[m] <=> (count(m) + SeedBit(b)) % 2 = 1
           wrong == {m \in 0..Len(base) : ~ Right(m)}
<1> SUFFICES ASSUME wrong # {} PROVE FALSE
  OBVIOUS
<1>1. /\ hash[0] = Bits(Seed)
      /\ \A i \in 1..Len(base) : hash[i] = Xor(hash[i - 1], Shifted(base[i], i))
  BY HashUnfolds
<1>2. \A m \in 1..Len(base) :
         /\ count(m) \in Nat /\ count(m - 1) \in Nat
         /\ count(m) = count(m - 1) + (IF b \in Shifted(base[m], m) THEN 1 ELSE 0)
  BY SettersGrow
<1>3. count(0) = 0
  <2>1. Setters(base, 0, b) = {}
    BY DEF Setters
  <2> QED BY <2>1, FS_EmptySet
<1>4. SeedBit(b) \in {0, 1} /\ (SeedBit(b) = 1 <=> b \in Bits(Seed))
  BY DEF SeedBit
<1> HIDE DEF hash, count, Right
<1>5. PICK m \in wrong : \A k \in wrong : m <= k
  <2>1. wrong \subseteq Nat
    OBVIOUS
  <2> HIDE DEF wrong
  <2> QED BY <2>1, LeastElement
<1>6. CASE m = 0
  <2>1. Right(0)
    BY <1>1, <1>3, <1>4 DEF Right
  <2> QED BY <1>6, <2>1
<1>7. CASE m # 0
  <2>1. m \in 1..Len(base) /\ m - 1 \in 0..Len(base)
    BY <1>7
  <2>2. Right(m - 1)
    BY <1>5, <2>1
  <2>3. b \in hash[m] <=> ~(b \in hash[m - 1] <=> b \in Shifted(base[m], m))
    BY <1>1, <2>1 DEF Xor
  <2>4. Right(m)
    <3>1. CASE b \in Shifted(base[m], m)
      <4>1. /\ count(m - 1) + SeedBit(b) \in Nat
            /\ count(m) + SeedBit(b) = (count(m - 1) + SeedBit(b)) + 1
        BY <1>2, <1>4, <2>1, <3>1
      <4>2. \A k \in Nat : (k + 1) % 2 = 1 <=> k % 2 # 1
        OBVIOUS
      <4> QED BY <2>2, <2>3, <3>1, <4>1, <4>2 DEF Right
    <3>2. CASE b \notin Shifted(base[m], m)
      BY <1>2, <1>4, <2>1, <2>2, <2>3, <3>2 DEF Right
    <3> QED BY <3>1, <3>2
  <2> QED BY <2>4
<1> QED BY <1>6, <1>7

LEMMA PasscodeByBits ==
    ASSUME NEW text \in Seq(Ascii), NEW b \in 0..15
    PROVE  LET before == {i \in 1..Len(text) : \A j \in 1..i : text[j] # Dash}
               Has(i) ==
                   IF i % 2 = 1 THEN b >= 8 /\ b - 8 \in Bits(Upper(text[i]))
                   ELSE b < 8 /\ b \in Bits(Upper(text[i]))
           IN b \in Passcode(text) <=>
                 /\ b < 15
                 /\ (Cardinality({i \in before : Has(i)}) + SeedBit(b)) % 2 = 1
<1> DEFINE before == {i \in 1..Len(text) : \A j \in 1..i : text[j] # Dash}
           Has(i) == IF i % 2 = 1 THEN b >= 8 /\ b - 8 \in Bits(Upper(text[i]))
                     ELSE b < 8 /\ b \in Bits(Upper(text[i]))
           base == Base(text)
<1>1. /\ Len(base) \in Nat
      /\ 1..Len(base) = before
      /\ \A i \in 1..Len(base) : base[i] = Upper(text[i])
  BY BaseIsBefore
<1>2. b \in Passcode(text) <=> b < 15 /\ b \in Hash(base)[Len(base)]
  BY DEF Passcode, Mask
<1>3. b \in Hash(base)[Len(base)]
         <=> (Cardinality(Setters(base, Len(base), b)) + SeedBit(b)) % 2 = 1
  <2> HIDE DEF base
  <2>1. Len(base) \in 0..Len(base)
    BY <1>1
  <2> QED BY <1>1, <2>1, HashIsParity
<1>4. ASSUME NEW i \in before
      PROVE  b \in Shifted(base[i], i) <=> Has(i)
  <2>1. i \in 1..Len(text) /\ text[i] \in Ascii
    OBVIOUS
  <2>2. PICK ch \in Ascii : ch = Upper(text[i]) /\ base[i] = ch
    BY <1>1, <2>1, UpperOfCharacter
  <2> HIDE DEF before, base
  <2>3. CASE i % 2 = 1
    BY <2>2, <2>3, BitsOfCharacter DEF Shifted
  <2>4. CASE i % 2 # 1
    BY <2>2, <2>4, BitsOfCharacter DEF Shifted
  <2> QED BY <2>3, <2>4
<1>5. Setters(base, Len(base), b) = {i \in before : Has(i)}
  <2> HIDE DEF before, base, Has
  <2> QED BY <1>1, <1>4 DEF Setters
<1> QED BY <1>2, <1>3, <1>5
-----------------------------------------------------------------------------
(* The specification *)

CalculationInv ==
    /\ call \in Calls
    /\ result = <<>> \/ result = <<Value>>

LEMMA CalculationInvariant == CalculationSpec => []CalculationInv
<1>1. CalculationInit => CalculationInv
  BY DEF CalculationInit, CalculationInv
<1>2. CalculationInv /\ [Calculate]_calculationVars => CalculationInv'
  BY DEF CalculationInv, Calculate, calculationVars, Value
<1> QED BY <1>1, <1>2, PTL DEF CalculationSpec

\* calculate_aprs_passcode: the passcode of every ASCII text is the parity of
\* the characters before the first dash.
THEOREM PasscodeIsParityHolds == CalculationSpec => []PasscodeIsParity
<1>1. CalculationInv => PasscodeIsParity
  <2> SUFFICES ASSUME CalculationInv, Returned("passcode")
               PROVE  PasscodeIsParity
    BY DEF PasscodeIsParity
  <2>1. call.text \in Seq(Ascii) /\ result[1] = Passcode(call.text)
    BY CalculationAssumption DEF CalculationInv, Calls, Returned, Value
  <2> DEFINE text == call.text
  <2>2. text \in Seq(Ascii)
    BY <2>1
  <2> HIDE DEF text
  <2> QED BY <2>1, <2>2, PasscodeByBits DEF PasscodeIsParity, SeedBit, text
<1> QED BY <1>1, CalculationInvariant, PTL

\* calculate_stagger_interval, setup_scheduler: for any number of services the
\* checks are the interval apart, and together only from 3601 services on.
THEOREM ChecksAreSpreadHolds == CalculationSpec => []ChecksAreSpread
<1>1. CalculationInv => ChecksAreSpread
  <2> SUFFICES ASSUME CalculationInv, Returned("interval")
               PROVE  ChecksAreSpread
    BY DEF ChecksAreSpread
  <2>1. call.services \in Nat /\ result[1] = Interval(call.services)
    BY CalculationAssumption DEF CalculationInv, Calls, Returned, Value
  <2>2. CASE call.services = 0
    BY <2>1, <2>2 DEF ChecksAreSpread, Interval
  <2>3. CASE call.services # 0
    <3> DEFINE n == call.services
    <3>1. n \in Nat /\ n > 0
      BY <2>1, <2>3
    <3> HIDE DEF n
    <3>2. \A k \in 0..2 * n : Start(n, k + 1) - Start(n, k) >= Interval(n)
      BY <3>1, StartsAreApart
    <3>3. n * (Interval(n) + 1) > SecondsPerHour
      BY <3>1, IntervalIsShare
    <3>4. Interval(n) = 0 <=> n > SecondsPerHour
      BY <3>1, TogetherFromLimitOn
    <3> QED BY <2>1, <3>1, <3>2, <3>3, <3>4 DEF ChecksAreSpread, n
  <2> QED BY <2>2, <2>3
<1> QED BY <1>1, CalculationInvariant, PTL

\* calculate_uptime: no figure of a history a page shows flatters.
THEOREM UptimeIsHonestHolds == CalculationSpec => []UptimeIsHonest
<1>1. CalculationInv => UptimeIsHonest
  <2> SUFFICES ASSUME CalculationInv, Returned("uptime")
               PROVE  UptimeIsHonest
    BY DEF UptimeIsHonest
  <2>1. /\ call.passed \in 0..HistoryLimit
        /\ call.recorded \in 0..HistoryLimit
        /\ call.passed <= call.recorded
        /\ result[1] = Uptime(call.passed, call.recorded)
    BY CalculationAssumption DEF CalculationInv, Calls, Returned, Value
  <2>2. CASE call.recorded = 0
    BY <2>1, <2>2 DEF UptimeIsHonest, Uptime
  <2>3. CASE call.recorded # 0
    <3>1. call.recorded \in 1..HistoryLimit
      BY <2>1, <2>3 DEF HistoryLimit
    <3> QED BY <2>1, <2>3, <3>1, FigureIsHonest DEF UptimeIsHonest
  <2> QED BY <2>2, <2>3
<1> QED BY <1>1, CalculationInvariant, PTL

\* admin_commands: on a page of any length every row labelled "ok" can be
\* approved, and every new suggestion is offered by one.
THEOREM LabelsAreSafeHolds == CalculationSpec => []LabelsAreSafe
<1>1. CalculationInv => LabelsAreSafe
  <2> SUFFICES ASSUME CalculationInv, Returned("page")
               PROVE  LabelsAreSafe
    BY DEF LabelsAreSafe
  <2>1. PICK p \in Pages : call = [of |-> "page", queue |-> p[1], registry |-> p[2]]
    BY DEF CalculationInv, Calls, Returned
  <2>2. result[1] = Labels(call.queue, call.registry)
    BY DEF CalculationInv, Returned, Value
  <2>3. Len(call.queue) \in Nat /\ DOMAIN call.queue = 1..Len(call.queue)
    BY <2>1, CalculationAssumption
  <2> DEFINE rows == call.queue
             registry == call.registry
             labels == result[1]
             new == {i \in DOMAIN rows : labels[i] = "ok"}
  <2>4. /\ labels = Labels(rows, registry)
        /\ Len(rows) \in Nat
        /\ DOMAIN rows = 1..Len(rows)
    BY <2>2, <2>3
  <2> SUFFICES /\ \A i \in new : ~Exists(rows[i], registry)
               /\ \A i, j \in new :
                     rows[i] = rows[j] /\ rows[i].name # NoName => i = j
               /\ \A i \in DOMAIN rows :
                     ~Exists(rows[i], registry) =>
                         \E j \in new : j <= i /\ rows[j] = rows[i]
    BY DEF LabelsAreSafe
  <2> HIDE DEF rows, registry, labels
  <2> QED BY <2>4, LabelsAreSound
<1> QED BY <1>1, CalculationInvariant, PTL
=============================================================================
