------------------------- MODULE Evaluation_proofs -------------------------
(***************************************************************************)
(* Proofs about what is made of a session when it is over: what the        *)
(* evaluators find in its rows, for any number of submissions, whichever   *)
(* challenges there are, and whatever order their evaluators are listed    *)
(* in; and what its trail is turned into, snapshots of the workspace and   *)
(* steps of the canonical trajectory, however long it is.                  *)
(***************************************************************************)
EXTENDS Scoring, RunTrail, FiniteSetTheorems, Loops, TLAPS

-----------------------------------------------------------------------------
(* The loops over the rows                                                 *)

Numbers == Nat \cup {NoValue}

Submissions ==
    [sim : Sims, prediction : Predictions, seen : Nat,
     status : {"queued", "running", "sim_ok", "failed"},
     metric : challenge.metrics \cup {NoMetric}]

(* A submission as it is written, with a metric only if it went well.      *)
Submitted(i) ==
    /\ subs[i].seen <= Len(rows)
    /\ MetricOf(i) # NoMetric =>
         MetricOf(i) \in challenge.metrics /\ subs[i].status = "sim_ok"

(* Rows are those of submissions that ended, each once; it was appended    *)
(* after what its submission had seen.                                     *)
RowsInv ==
    /\ challenge \in Challenges
    /\ subs \in Seq(Submissions)
    /\ \A i \in 1..Len(subs) : Submitted(i)
    /\ rows \in Seq(1..Len(subs))
    /\ \A k \in 1..Len(rows) :
         /\ subs[rows[k]].status \in {"sim_ok", "failed"}
         /\ subs[rows[k]].seen < k
         /\ \A j \in 1..Len(rows) : rows[j] = rows[k] => j = k

(* The types RowsInv gives.                                                *)
LEMMA RowsTypes ==
    ASSUME RowsInv
    PROVE  /\ subs \in Seq(Submissions) /\ Len(subs) \in Nat
           /\ rows \in Seq(1..Len(subs)) /\ Len(rows) \in Nat
           /\ \A i \in 1..Len(subs) : subs[i] \in Submissions /\ Submitted(i)
           /\ \A k \in 1..Len(rows) : /\ rows[k] \in 1..Len(subs)
                                      /\ subs[rows[k]].status \in {"sim_ok", "failed"}
                                      /\ subs[rows[k]].seen < k
<1>1. subs \in Seq(Submissions) /\ rows \in Seq(1..Len(subs))
  BY DEF RowsInv
<1>2. \A i \in 1..Len(subs) : subs[i] \in Submissions
  BY <1>1
<1>3. \A k \in 1..Len(rows) : rows[k] \in 1..Len(subs)
  BY <1>1
<1> QED BY <1>1, <1>2, <1>3 DEF RowsInv

(* A value is a number or absent, and only successful rows have one.       *)
LEMMA ValuesAreNumbers ==
    ASSUME RowsInv
    PROVE  /\ Lower \in BOOLEAN
           /\ \A k \in 1..Len(rows) :
                /\ rows[k] \in 1..Len(subs) /\ rows[k] # NoSub
                /\ Value(k) \in Numbers
                /\ Value(k) # NoValue => k \in SimOk /\ Value(k) = Metric(k).head
                /\ k \in SimOk =>
                     Metric(k) \in challenge.metrics /\ Value(k) = Metric(k).head
                /\ Measured(Value(k)) => Value(k) \in Nat
<1>1. challenge.lower \in BOOLEAN
  BY ScoringAssumption DEF RowsInv
<1>2. \A m \in challenge.metrics : m.head \in Numbers
  BY ScoringAssumption DEF RowsInv, Numbers
<1> SUFFICES ASSUME NEW k \in 1..Len(rows)
             PROVE  /\ rows[k] \in 1..Len(subs) /\ rows[k] # NoSub
                    /\ Value(k) \in Numbers
                    /\ Value(k) # NoValue => k \in SimOk /\ Value(k) = Metric(k).head
                    /\ k \in SimOk =>
                         Metric(k) \in challenge.metrics /\ Value(k) = Metric(k).head
                    /\ Measured(Value(k)) => Value(k) \in Nat
  BY <1>1 DEF Lower
<1>3. rows[k] \in 1..Len(subs) /\ rows[k] # NoSub
  BY DEF RowsInv, NoSub
<1>4. Submitted(rows[k])
  BY <1>3 DEF RowsInv
<1>5. Has(rows[k]) => Metric(k) \in challenge.metrics /\ subs[rows[k]].status = "sim_ok"
  BY <1>4 DEF Has, Metric, Submitted
<1>6. Value(k) = IF Has(rows[k]) THEN Metric(k).head ELSE NoValue
  BY DEF Value, ValueOf, Metric
<1>7. Value(k) \in Numbers
  BY <1>2, <1>5, <1>6 DEF Numbers
<1>8. Measured(Value(k)) => Value(k) \in Nat
  BY <1>7 DEF Measured, Numbers
<1> QED BY <1>3, <1>5, <1>6, <1>7, <1>8 DEF SimOk

(* Better is an order.                                                     *)
LEMMA BetterFacts ==
    ASSUME Lower \in BOOLEAN, NEW a \in Nat, NEW b \in Nat
    PROVE  /\ ~Better(a, a)
           /\ Better(a, b) => ~Better(b, a)
           /\ ~Better(a, b) /\ ~Better(b, a) => a = b
           /\ \A c \in Nat : /\ Better(a, b) /\ ~Better(c, b) => Better(a, c)
                             /\ ~Better(b, a) /\ Better(b, c) => Better(a, c)
                             /\ ~Better(a, b) /\ ~Better(b, c) => ~Better(a, c)
BY DEF Better

(* The scan has, after each row, the first best of the rows so far.        *)
LEMMA ScoredIsLoop ==
    ASSUME RowsInv
    PROVE  \E f : /\ f \in [0..Len(rows) -> Nat] /\ f[0] = NoSub
                  /\ \A k \in 1..Len(rows) : f[k] = Scan(rows[k], f[k - 1])
                  /\ ScoredSub = f[Len(rows)]
<1> DEFINE n == Len(rows)
           step == [x \in Nat \X (1..n) |-> Scan(rows[x[2]], x[1])]
           Body(f) == [k \in 0..n |-> IF k = 0 THEN NoSub ELSE Scan(rows[k], f[k - 1])]
           g == CHOOSE f : f = Body(f)
<1>1. n \in Nat /\ \A k \in 1..n : rows[k] \in Nat
  BY DEF RowsInv
<1>2. step \in [Nat \X (1..n) -> Nat]
  <2>1. \A x \in Nat \X (1..n) : Scan(rows[x[2]], x[1]) \in Nat
    BY <1>1 DEF Scan
  <2> HIDE DEF n
  <2> QED BY <2>1
<1>3. \A x \in Nat, k \in 1..n : step[<<x, k>>] = Scan(rows[k], x)
  OBVIOUS
<1>4. NoSub \in Nat
  BY DEF NoSub
<1>5. PICK f : IsLoop(f, n, Nat, NoSub, step)
  <2> HIDE DEF n, step
  <2> QED BY <1>1, <1>2, <1>4, LoopExists
<1>6. f = Body(f)
  <2> HIDE DEF n, step
  <2>1. \A k \in 0..n : f[k] = IF k = 0 THEN NoSub ELSE Scan(rows[k], f[k - 1])
    <3> TAKE k \in 0..n
    <3>1. CASE k = 0
      BY <1>5, <3>1 DEF IsLoop
    <3>2. CASE k # 0
      <4>1. k \in 1..n /\ k - 1 \in 0..n
        BY <1>1, <3>2
      <4>2. f[k] = step[<<f[k - 1], k>>] /\ f[k - 1] \in Nat
        BY <1>5, <4>1 DEF IsLoop
      <4> QED BY <1>3, <3>2, <4>1, <4>2
    <3> QED BY <3>1, <3>2
  <2> QED BY <1>5, <2>1 DEF IsLoop
<1>7. g = Body(g)
  <2> HIDE DEF Body
  <2> QED BY <1>6
<1>8. ScoredSub = g[n]
  BY DEF ScoredSub
<1> HIDE DEF g, n
<1>9. g[0] = NoSub /\ \A k \in 1..n : g[k] = Scan(rows[k], g[k - 1])
  <2>1. 0 \in 0..n /\ \A k \in 1..n : k \in 0..n /\ k # 0
    BY <1>1
  <2> QED BY <1>7, <2>1
<1>10. g \in [0..n -> Nat]
  <2> DEFINE Good == {k \in Nat : k \in 0..n => g[k] \in Nat}
  <2>1. 0 \in Good
    BY <1>4, <1>9
  <2>2. ASSUME NEW k \in Nat, k \in Good PROVE k + 1 \in Good
    <3> SUFFICES ASSUME k + 1 \in 0..n PROVE g[k + 1] \in Nat
      OBVIOUS
    <3>1. k \in 0..n /\ k + 1 \in 1..n /\ (k + 1) - 1 = k
      BY <1>1
    <3>2. g[k + 1] = Scan(rows[k + 1], g[k])
      BY <1>9, <3>1
    <3> QED BY <1>1, <2>2, <3>1, <3>2 DEF Scan
  <2>3. \A k \in Nat : k \in Good
    <3> HIDE DEF Good
    <3> QED BY <2>1, <2>2, NumbersInduction
  <2>4. \A k \in 0..n : g[k] \in Nat
    BY <1>1, <2>3
  <2> QED BY <1>7, <2>4
<1> QED BY <1>8, <1>9, <1>10 DEF n

(* The first best of the rows up to n.                                     *)
FirstBest(p, n) ==
    /\ p \in History /\ p <= n
    /\ \A k \in History : /\ k < p => Better(Value(p), Value(k))
                          /\ k <= n => ~Better(Value(k), Value(p))

(* One more row.                                                           *)
LEMMA FirstBestStep ==
    ASSUME RowsInv, NEW n \in Nat, n + 1 <= Len(rows)
    PROVE  /\ n + 1 \in History /\ (\A k \in History : n < k) => FirstBest(n + 1, n + 1)
           /\ \A p \in History : FirstBest(p, n) =>
                /\ n + 1 \notin History => FirstBest(p, n + 1)
                /\ n + 1 \in History =>
                     IF Better(Value(n + 1), Value(p))
                     THEN FirstBest(n + 1, n + 1) ELSE FirstBest(p, n + 1)
<1>1. /\ Len(rows) \in Nat /\ History \subseteq 1..Len(rows) /\ Lower \in BOOLEAN
      /\ \A k \in History : Value(k) \in Nat /\ k \in Nat
  BY ValuesAreNumbers DEF RowsInv, History
<1>2. ASSUME n + 1 \in History, \A k \in History : n < k
      PROVE  FirstBest(n + 1, n + 1)
  <2>1. ~Better(Value(n + 1), Value(n + 1))
    BY <1>1, <1>2, BetterFacts
  <2>2. \A k \in History : ~(k < n + 1) /\ (k <= n + 1 => k = n + 1)
    BY <1>1, <1>2
  <2> QED BY <1>2, <2>1, <2>2 DEF FirstBest
<1>3. ASSUME NEW p \in History, FirstBest(p, n), n + 1 \notin History
      PROVE  FirstBest(p, n + 1)
  <2>1. \A k \in History : k <= n + 1 => k <= n
    BY <1>1, <1>3
  <2> QED BY <1>1, <1>3, <2>1 DEF FirstBest
<1>4. ASSUME NEW p \in History, FirstBest(p, n), n + 1 \in History,
             Better(Value(n + 1), Value(p))
      PROVE  FirstBest(n + 1, n + 1)
  <2>1. \A k \in History : k < n + 1 => Better(Value(n + 1), Value(k))
    <3> TAKE k \in History
    <3>1. k < n + 1 => ~Better(Value(k), Value(p))
      BY <1>1, <1>4 DEF FirstBest
    <3>2. Value(k) \in Nat /\ Value(p) \in Nat /\ Value(n + 1) \in Nat
      BY <1>1, <1>4
    <3> QED BY <1>1, <1>4, <3>1, <3>2, BetterFacts
  <2>2. \A k \in History : k <= n + 1 => ~Better(Value(k), Value(n + 1))
    <3> TAKE k \in History
    <3>1. Value(k) \in Nat /\ Value(n + 1) \in Nat /\ k \in Nat
      BY <1>1, <1>4
    <3>2. CASE k = n + 1
      BY <1>1, <3>1, <3>2, BetterFacts
    <3>3. CASE k < n + 1
      BY <1>1, <2>1, <3>1, <3>3, BetterFacts
    <3> QED BY <3>1, <3>2, <3>3
  <2> QED BY <1>4, <2>1, <2>2 DEF FirstBest
<1>5. ASSUME NEW p \in History, FirstBest(p, n), n + 1 \in History,
             ~Better(Value(n + 1), Value(p))
      PROVE  FirstBest(p, n + 1)
  <2>1. \A k \in History : k <= n + 1 <=> k <= n \/ k = n + 1
    BY <1>1
  <2> QED BY <1>1, <1>5, <2>1 DEF FirstBest
<1> QED BY <1>2, <1>3, <1>4, <1>5

(* prediction_calibration's scan ends at the first best of the measured    *)
(* rows, or at none.                                                       *)
LEMMA ScoredIsFirstBest ==
    ASSUME RowsInv
    PROVE  /\ History = {} => ScoredSub = NoSub
           /\ History # {} =>
                \E p \in History : ScoredSub = rows[p] /\ FirstBest(p, Len(rows))
<1>1. PICK f : /\ f \in [0..Len(rows) -> Nat] /\ f[0] = NoSub
               /\ \A k \in 1..Len(rows) : f[k] = Scan(rows[k], f[k - 1])
               /\ ScoredSub = f[Len(rows)]
  BY ScoredIsLoop
<1> DEFINE None(n) == f[n] = NoSub /\ \A k \in History : n < k
           Some(n) == \E p \in History : f[n] = rows[p] /\ FirstBest(p, n)
           Good == {n \in Nat : n <= Len(rows) => None(n) \/ Some(n)}
<1>2. /\ Len(rows) \in Nat /\ History \subseteq 1..Len(rows) /\ Lower \in BOOLEAN
      /\ \A k \in History : /\ Value(k) \in Nat /\ rows[k] # NoSub /\ k \in Nat
                            /\ Measured(Value(k)) /\ subs[rows[k]].status = "sim_ok"
  <2>1. Len(rows) \in Nat /\ History \subseteq 1..Len(rows) /\ Lower \in BOOLEAN
    BY ValuesAreNumbers DEF RowsInv, History
  <2>2. ASSUME NEW k \in History
        PROVE  /\ Value(k) \in Nat /\ rows[k] # NoSub /\ k \in Nat
               /\ Measured(Value(k)) /\ subs[rows[k]].status = "sim_ok"
    <3>1. k \in 1..Len(rows) /\ Measured(Value(k))
      BY DEF History
    <3>2. Value(k) \in Nat /\ rows[k] # NoSub /\ k \in SimOk
      BY <3>1, ValuesAreNumbers DEF Measured
    <3> QED BY <3>1, <3>2 DEF SimOk
  <2> QED BY <2>1, <2>2
<1>3. 0 \in Good
  <2>1. \A k \in History : 0 < k
    BY <1>2
  <2> QED BY <1>1, <2>1
<1>4. ASSUME NEW n \in Nat, n \in Good PROVE n + 1 \in Good
  <2> SUFFICES ASSUME n + 1 <= Len(rows) PROVE None(n + 1) \/ Some(n + 1)
    OBVIOUS
  <2>1. /\ n + 1 \in 1..Len(rows) /\ (n + 1) - 1 = n /\ n <= Len(rows)
        /\ f[n + 1] = Scan(rows[n + 1], f[n])
    BY <1>1, <1>2
  <2>2. None(n) \/ Some(n)
    BY <1>4, <2>1
  <2>3. (n + 1 \in History) <=> Measured(ValueOf(rows[n + 1]))
    BY <2>1 DEF History, Value
  <2>4. CASE n + 1 \notin History
    <3>1. f[n + 1] = f[n]
      BY <2>1, <2>3, <2>4 DEF Scan
    <3>2. CASE None(n)
      <4>1. \A k \in History : n + 1 < k
        BY <1>2, <2>4, <3>2
      <4> QED BY <3>1, <3>2, <4>1
    <3>3. CASE Some(n)
      BY <2>4, <3>1, <3>3, FirstBestStep
    <3> QED BY <2>2, <3>2, <3>3
  <2>5. CASE n + 1 \in History
    <3>1. CASE None(n)
      <4>1. f[n + 1] = rows[n + 1]
        BY <1>2, <2>1, <2>3, <2>5, <3>1 DEF Scan
      <4> QED BY <2>5, <3>1, <4>1, FirstBestStep
    <3>2. CASE Some(n)
      <4>1. PICK p \in History : f[n] = rows[p] /\ FirstBest(p, n)
        BY <3>2
      <4>2. ValueOf(f[n]) = Value(p) /\ ValueOf(rows[n + 1]) = Value(n + 1)
              /\ f[n] # NoSub
        BY <1>2, <4>1 DEF Value
      <4>3. f[n + 1] = IF Better(Value(n + 1), Value(p)) THEN rows[n + 1] ELSE f[n]
        BY <1>2, <2>1, <2>3, <2>5, <4>2 DEF Scan
      <4> QED BY <2>5, <4>1, <4>3, FirstBestStep
    <3> QED BY <2>2, <3>1, <3>2
  <2> QED BY <2>4, <2>5
<1>5. Len(rows) \in Good
  <2> HIDE DEF Good
  <2> QED BY <1>2, <1>3, <1>4, NumbersInduction
<1>6. None(Len(rows)) \/ Some(Len(rows))
  BY <1>2, <1>5
<1>7. CASE None(Len(rows))
  <2>1. History = {}
    BY <1>2, <1>7
  <2> QED BY <1>1, <1>7, <2>1
<1>8. CASE Some(Len(rows))
  BY <1>1, <1>8
<1> QED BY <1>6, <1>7, <1>8

(* iteration_quality's loop, too.                                          *)
LEMMA BestIsLoop ==
    ASSUME RowsInv
    PROVE  \E f : /\ f[0] = NoValue
                  /\ \A k \in 1..Len(rows) :
                       f[k] = IF /\ Measured(Value(k))
                                 /\ f[k - 1] = NoValue \/ Better(Value(k), f[k - 1])
                              THEN Value(k) ELSE f[k - 1]
                  /\ BestOf = f[Len(rows)]
<1> DEFINE n == Len(rows)
           One(x, k) == IF Measured(Value(k)) /\ (x = NoValue \/ Better(Value(k), x))
                        THEN Value(k) ELSE x
           step == [x \in Numbers \X (1..n) |-> One(x[1], x[2])]
           Body(f) == [k \in 0..n |-> IF k = 0 THEN NoValue ELSE One(f[k - 1], k)]
           g == CHOOSE f : f = Body(f)
<1>1. n \in Nat /\ \A k \in 1..n : Value(k) \in Numbers
  BY ValuesAreNumbers DEF RowsInv
<1>2. step \in [Numbers \X (1..n) -> Numbers]
  <2>1. \A x \in Numbers \X (1..n) : One(x[1], x[2]) \in Numbers
    BY <1>1
  <2> HIDE DEF n, One
  <2> QED BY <2>1
<1>3. \A x \in Numbers, k \in 1..n : step[<<x, k>>] = One(x, k)
  OBVIOUS
<1>4. NoValue \in Numbers
  BY DEF Numbers
<1>5. PICK f : IsLoop(f, n, Numbers, NoValue, step)
  <2> HIDE DEF n, step
  <2> QED BY <1>1, <1>2, <1>4, LoopExists
<1>6. f = Body(f)
  <2> HIDE DEF n, step, One
  <2>1. \A k \in 0..n : f[k] = IF k = 0 THEN NoValue ELSE One(f[k - 1], k)
    <3> TAKE k \in 0..n
    <3>1. CASE k = 0
      BY <1>5, <3>1 DEF IsLoop
    <3>2. CASE k # 0
      <4>1. k \in 1..n /\ k - 1 \in 0..n
        BY <1>1, <3>2
      <4>2. f[k] = step[<<f[k - 1], k>>] /\ f[k - 1] \in Numbers
        BY <1>5, <4>1 DEF IsLoop
      <4> QED BY <1>3, <3>2, <4>1, <4>2
    <3> QED BY <3>1, <3>2
  <2> QED BY <1>5, <2>1 DEF IsLoop
<1>7. g = Body(g)
  <2> HIDE DEF Body
  <2> QED BY <1>6
<1>8. BestOf = g[n]
  BY DEF BestOf
<1> HIDE DEF g, n
<1>9. g[0] = NoValue /\ \A k \in 1..n : g[k] = One(g[k - 1], k)
  <2>1. 0 \in 0..n /\ \A k \in 1..n : k \in 0..n /\ k # 0
    BY <1>1
  <2> HIDE DEF One
  <2> QED BY <1>7, <2>1
<1> QED BY <1>8, <1>9 DEF n

(* iteration_quality's best is the value of such a row, too.               *)
LEMMA BestIsBest ==
    ASSUME RowsInv, History # {}
    PROVE  \E p \in History : BestOf = Value(p) /\ FirstBest(p, Len(rows))
<1>1. PICK f : /\ f[0] = NoValue
               /\ \A k \in 1..Len(rows) :
                       f[k] = IF /\ Measured(Value(k))
                                 /\ f[k - 1] = NoValue \/ Better(Value(k), f[k - 1])
                              THEN Value(k) ELSE f[k - 1]
               /\ BestOf = f[Len(rows)]
  BY BestIsLoop
<1> DEFINE None(n) == f[n] = NoValue /\ \A k \in History : n < k
           Some(n) == \E p \in History : f[n] = Value(p) /\ FirstBest(p, n)
           Good == {n \in Nat : n <= Len(rows) => None(n) \/ Some(n)}
<1>2. /\ Len(rows) \in Nat /\ History \subseteq 1..Len(rows) /\ Lower \in BOOLEAN
      /\ \A k \in History : /\ Value(k) \in Nat /\ Value(k) # NoValue /\ k \in Nat
                            /\ Measured(Value(k))
  BY ValuesAreNumbers DEF RowsInv, History, Measured
<1>3. 0 \in Good
  <2>1. \A k \in History : 0 < k
    BY <1>2
  <2> QED BY <1>1, <2>1
<1>4. ASSUME NEW n \in Nat, n \in Good PROVE n + 1 \in Good
  <2> SUFFICES ASSUME n + 1 <= Len(rows) PROVE None(n + 1) \/ Some(n + 1)
    OBVIOUS
  <2>1. /\ n + 1 \in 1..Len(rows) /\ n <= Len(rows)
        /\ f[n + 1] = IF /\ Measured(Value(n + 1))
                         /\ f[n] = NoValue \/ Better(Value(n + 1), f[n])
                      THEN Value(n + 1) ELSE f[n]
    <3>1. n + 1 \in 1..Len(rows) /\ n <= Len(rows) /\ (n + 1) - 1 = n
      BY <1>2
    <3>2. f[n + 1] = IF /\ Measured(Value(n + 1))
                        /\ \/ f[(n + 1) - 1] = NoValue
                           \/ Better(Value(n + 1), f[(n + 1) - 1])
                     THEN Value(n + 1) ELSE f[(n + 1) - 1]
      BY <1>1, <3>1, Zenon
    <3> QED BY <3>1, <3>2
  <2>2. None(n) \/ Some(n)
    BY <1>4, <2>1
  <2>3. (n + 1 \in History) <=> Measured(Value(n + 1))
    BY <2>1 DEF History
  <2>4. CASE n + 1 \notin History
    <3>1. f[n + 1] = f[n]
      BY <2>1, <2>3, <2>4
    <3>2. CASE None(n)
      <4>1. \A k \in History : n + 1 < k
        BY <1>2, <2>4, <3>2
      <4> QED BY <3>1, <3>2, <4>1
    <3>3. CASE Some(n)
      BY <2>4, <3>1, <3>3, FirstBestStep
    <3> QED BY <2>2, <3>2, <3>3
  <2>5. CASE n + 1 \in History
    <3>1. CASE None(n)
      BY <2>1, <2>3, <2>5, <3>1, FirstBestStep
    <3>2. CASE Some(n)
      <4>1. PICK p \in History : f[n] = Value(p) /\ FirstBest(p, n)
        BY <3>2
      <4>2. f[n + 1] = IF Better(Value(n + 1), Value(p)) THEN Value(n + 1) ELSE f[n]
        BY <1>2, <2>1, <2>3, <2>5, <4>1
      <4> QED BY <2>5, <4>1, <4>2, FirstBestStep
    <3> QED BY <2>2, <3>1, <3>2
  <2> QED BY <2>4, <2>5
<1>5. Len(rows) \in Good
  <2> HIDE DEF Good
  <2> QED BY <1>2, <1>3, <1>4, NumbersInduction
<1>6. None(Len(rows)) \/ Some(Len(rows))
  BY <1>2, <1>5
<1>7. ~None(Len(rows))
  <2>1. \A k \in History : ~(Len(rows) < k)
    BY <1>2
  <2> QED BY <2>1
<1> QED BY <1>1, <1>6, <1>7

(* The successful rows are finitely many; the last one is one of them.     *)
LEMMA SimOkFacts ==
    ASSUME RowsInv
    PROVE  /\ Len(rows) \in Nat /\ SimOk \subseteq 1..Len(rows)
           /\ SimOk # {} => Max(SimOk) \in SimOk
<1>1. Len(rows) \in Nat /\ SimOk \subseteq 1..Len(rows)
  BY DEF RowsInv, SimOk
<1> QED BY <1>1, MaxOfNumbers

(* simulator_metric's choice.                                              *)
LEMMA BestSubmitFacts ==
    ASSUME RowsInv
    PROVE  /\ SimOk = {} => BestSubmit = NoSub
           /\ SimOk # {} => \E p \in SimOk :
                /\ BestSubmit = rows[p]
                /\ \A k \in SimOk : Value(k) # NoValue =>
                     Value(p) # NoValue /\ ~Better(Value(k), Value(p))
<1>1. SimOk = {} => BestSubmit = NoSub
  BY DEF BestSubmit
<1> DEFINE keyed == {k \in SimOk : Value(k) # NoValue}
           First(k) == \A j \in keyed \ {k} :
                  Better(Value(k), Value(j)) \/ (Value(k) = Value(j) /\ k < j)
<1>2. /\ Len(rows) \in Nat /\ keyed \subseteq 1..Len(rows) /\ Lower \in BOOLEAN
      /\ \A k \in keyed : Value(k) \in Nat
  <2>1. \A k \in keyed : Value(k) \in Numbers
    BY SimOkFacts, ValuesAreNumbers
  <2> QED BY <2>1, SimOkFacts, ValuesAreNumbers DEF Numbers
<1>3. CASE SimOk # {} /\ keyed = {}
  <2>1. BestSubmit = rows[Max(SimOk)] /\ Max(SimOk) \in SimOk
    BY <1>3, SimOkFacts DEF BestSubmit
  <2> QED BY <1>3, <2>1
<1>4. CASE keyed # {}
  <2>1. BestSubmit = rows[CHOOSE k \in keyed : First(k)]
    BY <1>4 DEF BestSubmit
  <2>2. \E k \in keyed : First(k)
    <3> DEFINE val == [k \in keyed |-> Value(k)]
    <3>1. \A k \in keyed : val[k] = Value(k) /\ val[k] \in Nat
      BY <1>2
    <3> HIDE DEF val, keyed
    <3>2. PICK p \in keyed : \A j \in keyed \ {p} :
              \/ IF Lower THEN val[p] < val[j] ELSE val[p] > val[j]
              \/ val[p] = val[j] /\ p < j
      BY <1>2, <1>4, <3>1, FirstOfBest
    <3> QED BY <3>1, <3>2 DEF Better
  <2> DEFINE p == CHOOSE k \in keyed : First(k)
  <2>3. p \in keyed /\ First(p)
    <3> HIDE DEF keyed, First
    <3> QED BY <2>2
  <2> HIDE DEF p
  <2>4. \A k \in keyed : ~Better(Value(k), Value(p))
    <3> TAKE k \in keyed
    <3>1. Value(k) \in Nat /\ Value(p) \in Nat
      BY <1>2, <2>3
    <3>2. k = p \/ Better(Value(p), Value(k)) \/ Value(p) = Value(k)
      BY <2>3
    <3> QED BY <1>2, <3>1, <3>2, BetterFacts
  <2> QED BY <2>1, <2>3, <2>4 DEF p
<1> QED BY <1>1, <1>3, <1>4

(* _best_feasible_edp's choice.                                            *)
LEMMA BestFeasibleFacts ==
    ASSUME RowsInv, Feasible # {}
    PROVE  \E p \in Feasible :
              /\ BestFeasible = rows[p]
              /\ \A k \in Feasible : ~(Metric(k).raw < Metric(p).raw)
<1> DEFINE First(k) == \A j \in Feasible \ {k} :
                  \/ Metric(k).raw < Metric(j).raw
                  \/ Metric(k).raw = Metric(j).raw /\ k < j
           p == CHOOSE k \in Feasible : First(k)
<1>1. /\ Len(rows) \in Nat /\ Feasible \subseteq 1..Len(rows)
      /\ \A k \in Feasible : Metric(k).raw \in Nat
  <2>1. \A k \in Feasible : Metric(k) \in challenge.metrics /\ Metric(k).raw # NoValue
    BY SimOkFacts, ValuesAreNumbers DEF Feasible
  <2>2. \A m \in challenge.metrics : m.raw \in Nat \cup {NoValue}
    BY ScoringAssumption DEF RowsInv
  <2> QED BY <2>1, <2>2, SimOkFacts DEF Feasible
<1>2. \E k \in Feasible : First(k)
  <2> DEFINE val == [k \in Feasible |-> Metric(k).raw]
  <2>1. \A k \in Feasible : val[k] = Metric(k).raw /\ val[k] \in Nat
    BY <1>1
  <2> HIDE DEF val
  <2>2. PICK k \in Feasible : \A j \in Feasible \ {k} :
              \/ IF TRUE THEN val[k] < val[j] ELSE val[k] > val[j]
              \/ val[k] = val[j] /\ k < j
    BY <1>1, <2>1, FirstOfBest
  <2> QED BY <2>1, <2>2
<1>3. p \in Feasible /\ First(p)
  <2> HIDE DEF First
  <2> QED BY <1>2
<1>4. BestFeasible = rows[p]
  BY DEF BestFeasible
<1> HIDE DEF p
<1>5. \A k \in Feasible : ~(Metric(k).raw < Metric(p).raw)
  <2> TAKE k \in Feasible
  <2>1. Metric(k).raw \in Nat /\ Metric(p).raw \in Nat
    BY <1>1, <1>3
  <2>2. k = p \/ Metric(p).raw < Metric(k).raw \/ Metric(p).raw = Metric(k).raw
    BY <1>3
  <2> QED BY <2>1, <2>2
<1> QED BY <1>3, <1>4, <1>5

(* cross_sim_discrepancy's choice.                                         *)
LEMMA LastOkFacts ==
    ASSUME RowsInv, NEW s, LastOk(s) # NoSub
    PROVE  \E p \in 1..Len(rows) :
              /\ LastOk(s) = rows[p]
              /\ \A k \in SimOk : subs[rows[k]].sim = s /\ Value(k) # NoValue => k <= p
<1> DEFINE mine == {k \in SimOk : subs[rows[k]].sim = s /\ Value(k) # NoValue}
<1>1. mine # {} /\ LastOk(s) = rows[Max(mine)]
  BY DEF LastOk
<1>2. Len(rows) \in Nat /\ mine \subseteq 1..Len(rows)
  BY SimOkFacts
<1>3. Max(mine) \in mine /\ \A k \in mine : k <= Max(mine)
  <2> HIDE DEF mine
  <2> QED BY <1>1, <1>2, MaxOfNumbers
<1> QED BY <1>1, <1>2, <1>3

(* All three loops, and what they look for.                                *)
LEMMA OneBest ==
    ASSUME RowsInv
    PROVE  /\ History = {} => ScoredSub = NoSub
           /\ History # {} => ScoredSub # NoSub /\ BestOf = ValueOf(ScoredSub)
           /\ BestSubmit = NoSub => History = {}
           /\ BestSubmit # NoSub /\ Measured(ValueOf(BestSubmit)) =>
                ScoredSub # NoSub /\ ValueOf(BestSubmit) = ValueOf(ScoredSub)
<1>1. /\ Lower \in BOOLEAN /\ History \subseteq 1..Len(rows) /\ History \subseteq SimOk
      /\ \A k \in History : Value(k) \in Nat /\ Value(k) # NoValue /\ rows[k] # NoSub
      /\ \A k \in SimOk : rows[k] # NoSub
  BY ValuesAreNumbers DEF History, Measured, SimOk
<1>2. \A k : Value(k) = ValueOf(rows[k])
  BY DEF Value
<1>3. \A p, q \in History : ~Better(Value(p), Value(q)) /\ ~Better(Value(q), Value(p))
                               => Value(p) = Value(q)
  BY <1>1, BetterFacts
<1>4. ASSUME NEW p \in History, NEW q \in History,
             FirstBest(p, Len(rows)), FirstBest(q, Len(rows))
      PROVE  Value(p) = Value(q)
  <2>1. p <= Len(rows) /\ q <= Len(rows)
    BY <1>4 DEF FirstBest
  <2> QED BY <1>3, <1>4, <2>1 DEF FirstBest
<1>5. History # {} => ScoredSub # NoSub /\ BestOf = ValueOf(ScoredSub)
  BY <1>1, <1>2, <1>4, ScoredIsFirstBest, BestIsBest
<1>6. BestSubmit = NoSub => History = {}
  BY <1>1, BestSubmitFacts
<1>7. ASSUME BestSubmit # NoSub, Measured(ValueOf(BestSubmit))
      PROVE  ScoredSub # NoSub /\ ValueOf(BestSubmit) = ValueOf(ScoredSub)
  <2>1. PICK p \in SimOk :
          /\ BestSubmit = rows[p]
          /\ \A k \in SimOk : Value(k) # NoValue =>
               Value(p) # NoValue /\ ~Better(Value(k), Value(p))
    BY <1>7, BestSubmitFacts
  <2>2. p \in History
    BY <1>2, <1>7, <2>1 DEF History, SimOk
  <2>3. PICK q \in History : ScoredSub = rows[q] /\ FirstBest(q, Len(rows))
    BY <2>2, ScoredIsFirstBest
  <2>4. ~Better(Value(p), Value(q))
    <3>1. p <= Len(rows)
      BY <1>1, <2>2 DEF RowsInv
    <3> QED BY <2>2, <2>3, <3>1 DEF FirstBest
  <2>5. ~Better(Value(q), Value(p))
    BY <1>1, <2>1, <2>3
  <2> QED BY <1>1, <1>2, <1>3, <2>1, <2>2, <2>3, <2>4, <2>5
<1> QED BY <1>5, <1>6, <1>7, ScoredIsFirstBest

-----------------------------------------------------------------------------
(* What the reports say, once all submissions had their rows in time       *)

Between(name) == reading /\ Evaluating(name)

(* Nothing was in flight when the evaluators began, so nothing is added.   *)
Settled == Judging /\ ~overdue => \A i \in 1..Len(subs) : Contains(rows, i)

NothingYet ==
    ~Judging =>
        /\ ~reading /\ metric.source = NotYet /\ metric.head = NoValue
        /\ calibration = NoReport /\ iteration = NoQuality
        /\ \A s \in Sims : cross[s] = NoSub

MetricInv ==
    /\ metric.head \in Numbers
    /\ metric.source \in {NotYet, "submit_outcomes_jsonl", "evaluate_sh", "failed"}
    /\ metric.source \in {NotYet, "failed"} => metric.head = NoValue
    /\ metric.source = "submit_outcomes_jsonl" /\ Measured(metric.head) =>
         \E k \in History : Value(k) = metric.head
    /\ ~overdue =>
        /\ metric.source = "submit_outcomes_jsonl" =>
             /\ BestSubmit # NoSub /\ metric.sub = BestSubmit
             /\ metric.head = ValueOf(BestSubmit)
        /\ metric.source = "evaluate_sh" => ~challenge.bypass \/ BestSubmit = NoSub

FeasibleInv ==
    /\ ~overdue /\ ~Between("simulator_metric")
    /\ metric.source = "submit_outcomes_jsonl"
    /\ MetricOf(metric.sub).raw # NoValue
    => feasible = [count |-> Cardinality(Feasible), sub |-> BestFeasible]

(* What the value comes from that is about to be graded against.           *)
ActualInv ==
    Between("prediction_calibration") =>
        /\ actual.by \in {"submit_outcomes_jsonl", "evaluate_sh"}
        /\ actual.by = "evaluate_sh" =>
             ~challenge.bypass \/ overdue \/ ScoredSub = NoSub
        /\ actual.by = "submit_outcomes_jsonl" =>
             /\ \E k \in History : Value(k) = actual.value
             /\ ~overdue => ScoredSub # NoSub /\ actual.value = ValueOf(ScoredSub)

(* The same of the value in the report.                                    *)
ReportInv ==
    ~overdue =>
        /\ calibration.class = "no_ground_truth" => ScoredSub = NoSub
        /\ calibration.class \notin {NotYet, "no_ground_truth"}
             /\ calibration.actual.by # "evaluate_sh" =>
             ScoredSub # NoSub /\ calibration.actual.value = ValueOf(ScoredSub)

(* A bound report's row was better than those before it, and graded        *)
(* against its own value but for what GradedOnItsRow names.                *)
BoundInv ==
    calibration.bound =>
        /\ calibration.class # NotYet
        /\ \E p \in 1..Len(rows) :
             /\ rows[p] = calibration.sub
             /\ \A k \in 1..Len(rows) :
                  k < p /\ Measured(Value(k)) => Better(Value(p), Value(k))
             /\ IF calibration.actual.by = "evaluate_sh"
                THEN ~challenge.bypass \/ overdue
                ELSE \/ calibration.actual.value = Value(p)
                     \/ overdue /\ Better(Value(p), calibration.actual.value)

IterationInv ==
    /\ iteration.class \in {NotYet, "scored", "no_ground_truth"}
    /\ ~overdue =>
        /\ iteration.class = "scored" => History # {} /\ iteration.best = BestOf
        /\ iteration.class = "no_ground_truth" => History = {}

CrossInv == ~overdue => \A s \in Sims : cross[s] \in {NoSub, LastOk(s)}

ScoringInv ==
    /\ RowsInv /\ at \in Nat /\ Settled /\ NothingYet
    /\ MetricInv /\ FeasibleInv /\ ActualInv /\ ReportInv
    /\ BoundInv /\ IterationInv /\ CrossInv

(* Nothing is submitted or reported yet.                                   *)
LEMMA ScoringInitInv == Init => ScoringInv
<1> SUFFICES ASSUME Init PROVE ScoringInv
  OBVIOUS
<1>1. RowsInv
  BY DEF Init, RowsInv
<1>2. at = 0 /\ ~Judging
  BY DEF Init, Judging
<1>3. calibration = NoReport /\ ~calibration.bound /\ calibration.class = NotYet
  BY DEF Init, NoReport
<1>4. iteration = NoQuality /\ iteration.class = NotYet
  BY DEF Init, NoQuality
<1>5. metric.source = NotYet /\ metric.head = NoValue /\ ~reading
  BY DEF Init
<1>6. \A s \in Sims : cross[s] = NoSub
  BY DEF Init
<1>7. /\ NotYet # "scored" /\ NotYet # "no_ground_truth" /\ NotYet # "evaluate_sh"
      /\ NotYet # "submit_outcomes_jsonl"
  BY DEF NotYet
<1> QED BY <1>1, <1>2, <1>3, <1>4, <1>5, <1>6, <1>7
        DEF ScoringInv, Settled, NothingYet, MetricInv, FeasibleInv, ActualInv,
            ReportInv, BoundInv, IterationInv, CrossInv, Between, Numbers

(* What the agent and the workers do leaves the rows there are as they     *)
(* are; when it happens, the evaluators have not begun, or nothing more is *)
(* claimed of their reports than that a bound prediction was early.        *)
LEMMA AgentKeeps ==
    ASSUME ScoringInv, UNCHANGED <<challenge, judges, reports>>, RowsInv',
           ~Judging \/ overdue,
           \A k \in 1..Len(rows) :
              k \in 1..Len(rows)' /\ rows'[k] = rows[k] /\ Value(k)' = Value(k),
           \A k \in 1..Len(rows)' : k \in 1..Len(rows) \/ Len(rows) < k,
           Len(rows) \in Nat
    PROVE  ScoringInv'
<1>1. /\ at' = at /\ overdue' = overdue /\ reading' = reading /\ metric' = metric
      /\ feasible' = feasible /\ actual' = actual /\ calibration' = calibration
      /\ iteration' = iteration /\ cross' = cross /\ challenge' = challenge
  BY DEF judges, reports
<1>2. Judging' = Judging /\ Lower' = Lower /\ order' = order
        /\ \A a, b : Better(a, b)' = Better(a, b)
  BY <1>1 DEF Judging, Lower, order, Better
<1>3. at' \in Nat /\ NothingYet' /\ Settled'
  BY <1>1, <1>2 DEF ScoringInv, NothingYet, Settled
<1>4. MetricInv'
  <2>1. ASSUME metric.source = "submit_outcomes_jsonl", Measured(metric.head)
        PROVE  \E k \in History' : Value(k)' = metric.head
    <3>1. PICK k \in History : Value(k) = metric.head
      BY <2>1 DEF ScoringInv, MetricInv
    <3>2. k \in 1..Len(rows) /\ Measured(Value(k))
      BY <3>1 DEF History
    <3>3. k \in 1..Len(rows)' /\ Value(k)' = Value(k)
      BY <3>2
    <3>4. k \in History'
      BY <3>2, <3>3 DEF History, Measured
    <3> QED BY <3>1, <3>3, <3>4
  <2>2. ~overdue => metric.source \notin {"submit_outcomes_jsonl", "evaluate_sh"}
    <3>1. ~Judging => metric.source = NotYet
      BY DEF ScoringInv, NothingYet
    <3>2. NotYet \notin {"submit_outcomes_jsonl", "evaluate_sh"}
      BY DEF NotYet
    <3> QED BY <3>1, <3>2
  <2>3. Measured(metric.head)' <=> Measured(metric.head)
    BY <1>1 DEF Measured
  <2> QED BY <1>1, <2>1, <2>2, <2>3 DEF ScoringInv, MetricInv
<1>5. BoundInv'
  <2> SUFFICES ASSUME calibration.bound PROVE BoundInv'
    BY <1>1 DEF BoundInv
  <2>1. PICK p \in 1..Len(rows) :
             /\ rows[p] = calibration.sub
             /\ \A k \in 1..Len(rows) :
                  k < p /\ Measured(Value(k)) => Better(Value(p), Value(k))
             /\ IF calibration.actual.by = "evaluate_sh"
                THEN ~challenge.bypass \/ overdue
                ELSE \/ calibration.actual.value = Value(p)
                     \/ overdue /\ Better(Value(p), calibration.actual.value)
    BY DEF ScoringInv, BoundInv
  <2>2. \A k \in 1..Len(rows)' : k < p => k \in 1..Len(rows)
    OBVIOUS
  <2>3. p \in 1..Len(rows)' /\ rows'[p] = calibration.sub /\ Value(p)' = Value(p)
    BY <2>1
  <2>4. \A k \in 1..Len(rows)' :
            k < p /\ Measured(Value(k))' => Better(Value(p), Value(k))'
    BY <1>2, <2>1, <2>2, <2>3 DEF Measured
  <2>5. IF calibration.actual.by = "evaluate_sh"
        THEN ~challenge'.bypass \/ overdue'
        ELSE \/ calibration.actual.value = Value(p)'
             \/ overdue' /\ Better(Value(p), calibration.actual.value)'
    BY <1>1, <1>2, <2>1, <2>3 DEF Better, Lower
  <2>6. calibration.class # NotYet
    BY DEF ScoringInv, BoundInv
  <2> QED BY <1>1, <2>3, <2>4, <2>5, <2>6 DEF BoundInv
<1>6. CASE overdue
  <2>1. ActualInv'
    <3> SUFFICES ASSUME Between("prediction_calibration") PROVE ActualInv'
      BY <1>1, <1>2 DEF ActualInv, Between, Evaluating
    <3>1. actual.by = "submit_outcomes_jsonl" =>
            \E k \in History' : Value(k)' = actual.value
      <4> SUFFICES ASSUME actual.by = "submit_outcomes_jsonl"
                   PROVE  \E k \in History' : Value(k)' = actual.value
        OBVIOUS
      <4>1. PICK k \in History : Value(k) = actual.value
        BY DEF ScoringInv, ActualInv
      <4>2. k \in 1..Len(rows) /\ Measured(Value(k))
        BY <4>1 DEF History
      <4>3. k \in 1..Len(rows)' /\ Value(k)' = Value(k)
        BY <4>2
      <4> QED BY <4>1, <4>2, <4>3 DEF History, Measured
    <3>2. actual.by \in {"submit_outcomes_jsonl", "evaluate_sh"}
      BY DEF ScoringInv, ActualInv
    <3> QED BY <1>1, <1>6, <3>1, <3>2 DEF ActualInv
  <2> QED BY <1>1, <1>2, <1>3, <1>4, <1>5, <1>6, <2>1
          DEF ScoringInv, FeasibleInv, ReportInv, IterationInv, CrossInv
<1>7. CASE ~Judging
  <2>1. /\ ~reading /\ metric.source = NotYet /\ metric.head = NoValue
        /\ calibration.class = NotYet /\ ~calibration.bound
        /\ iteration.class = NotYet /\ \A s \in Sims : cross[s] = NoSub
    BY <1>7 DEF ScoringInv, NothingYet, NoReport, NoQuality
  <2>2. /\ NotYet # "scored" /\ NotYet # "no_ground_truth" /\ NotYet # "evaluate_sh"
        /\ NotYet # "submit_outcomes_jsonl" /\ NoValue \in Numbers
    BY DEF NotYet, Numbers
  <2> QED BY <1>1, <1>2, <1>3, <1>4, <1>5, <2>1, <2>2
          DEF ScoringInv, FeasibleInv, ActualInv, ReportInv,
              IterationInv, CrossInv, Between
<1> QED BY <1>6, <1>7

(* The rows are those of RowsInv when the submissions are as before but    *)
(* for one, which has no row yet.                                          *)
LEMMA OneChanges ==
    ASSUME ScoringInv, NEW i \in 1..Len(subs), ~Contains(rows, i),
           NEW s \in Submissions, s.seen = subs[i].seen,
           s.metric # NoMetric =>
               s.metric \in challenge.metrics /\ s.status = "sim_ok",
           subs' = [subs EXCEPT ![i] = s], UNCHANGED <<challenge, rows>>,
           UNCHANGED <<judges, reports>>
    PROVE  ScoringInv'
<1>1. /\ RowsInv /\ subs \in Seq(Submissions) /\ Len(rows) \in Nat
      /\ \A k \in 1..Len(rows) : rows[k] \in 1..Len(subs)
  BY RowsTypes DEF ScoringInv
<1>2. Submissions' = Submissions
  BY DEF Submissions
<1>3. Len(subs') = Len(subs) /\ subs' \in Seq(Submissions)
      /\ subs'[i] = s /\ \A j \in 1..Len(subs) : j # i => subs'[j] = subs[j]
  BY <1>1
<1>4. \A k \in 1..Len(rows) : rows[k] # i /\ subs'[rows[k]] = subs[rows[k]]
  BY <1>1, <1>3 DEF Contains
<1>5. \A j \in 1..Len(subs') : Submitted(j)'
  <2> TAKE j \in 1..Len(subs')
  <2>1. Submitted(j)
    BY <1>1, <1>3 DEF RowsInv
  <2>2. CASE j = i
    BY <1>3, <2>1, <2>2 DEF Submitted, MetricOf
  <2>3. CASE j # i
    BY <1>3, <2>1, <2>3 DEF Submitted, MetricOf
  <2> QED BY <2>2, <2>3
<1>6. RowsInv'
  <2>1. /\ challenge' \in Challenges /\ rows \in Seq(1..Len(subs))
        /\ \A k \in 1..Len(rows) :
             /\ subs[rows[k]].status \in {"sim_ok", "failed"}
             /\ subs[rows[k]].seen < k
             /\ \A j \in 1..Len(rows) : rows[j] = rows[k] => j = k
    BY <1>1 DEF RowsInv
  <2> QED BY <1>2, <1>3, <1>4, <1>5, <2>1 DEF RowsInv
<1>7. \A k \in 1..Len(rows) : Value(k)' = Value(k)
  BY <1>4 DEF Value, ValueOf, Has, MetricOf
<1>8. ~Judging \/ overdue
  BY DEF ScoringInv, Settled
<1> QED BY <1>1, <1>6, <1>7, <1>8, AgentKeeps

(* A submission is accepted: it has no row.                                *)
LEMMA AcceptKeeps ==
    ASSUME ScoringInv, NEW s \in Sims, NEW p \in Predictions, Accept(s, p)
    PROVE  ScoringInv'
<1> DEFINE new == [sim |-> s, prediction |-> p, seen |-> Len(rows),
                   status |-> "queued", metric |-> NoMetric]
<1>1. /\ RowsInv /\ subs \in Seq(Submissions) /\ Len(rows) \in Nat
      /\ Len(subs) \in Nat /\ rows \in Seq(1..Len(subs))
      /\ \A k \in 1..Len(rows) : rows[k] \in 1..Len(subs)
  BY RowsTypes DEF ScoringInv
<1>2. /\ subs' = Append(subs, new) /\ ~Judging
      /\ UNCHANGED <<challenge, rows, judges, reports>>
  BY DEF Accept
<1>3. new \in Submissions /\ Submissions' = Submissions
  BY <1>1, <1>2 DEF Submissions
<1>4. new.seen = Len(rows) /\ new.metric = NoMetric
  OBVIOUS
<1> HIDE DEF new
<1>5. /\ Len(subs') = Len(subs) + 1 /\ subs' \in Seq(Submissions)
      /\ subs'[Len(subs) + 1] = new /\ \A j \in 1..Len(subs) : subs'[j] = subs[j]
  BY <1>1, <1>2, <1>3
<1>6. \A j \in 1..Len(subs') : Submitted(j)'
  <2> TAKE j \in 1..Len(subs')
  <2>1. CASE j = Len(subs) + 1
    BY <1>1, <1>2, <1>4, <1>5, <2>1 DEF Submitted, MetricOf
  <2>2. CASE j \in 1..Len(subs)
    <3>1. Submitted(j)
      BY <1>1, <2>2 DEF RowsInv
    <3> QED BY <1>2, <1>5, <2>2, <3>1 DEF Submitted, MetricOf
  <2> QED BY <1>1, <1>5, <2>1, <2>2
<1>7. \A k \in 1..Len(rows) : subs'[rows[k]] = subs[rows[k]]
  BY <1>1, <1>5
<1>8. RowsInv'
  <2>1. /\ challenge' \in Challenges
        /\ \A k \in 1..Len(rows) :
             /\ subs[rows[k]].status \in {"sim_ok", "failed"}
             /\ subs[rows[k]].seen < k
             /\ \A j \in 1..Len(rows) : rows[j] = rows[k] => j = k
    BY <1>1, <1>2 DEF RowsInv
  <2>2. rows \in Seq(1..(Len(subs) + 1))
    <3>1. 1..Len(subs) \subseteq 1..(Len(subs) + 1)
      BY <1>1
    <3> QED BY <1>1, <3>1
  <2> QED BY <1>2, <1>3, <1>5, <1>6, <1>7, <2>1, <2>2 DEF RowsInv
<1>9. \A k \in 1..Len(rows) : Value(k)' = Value(k)
  BY <1>2, <1>7 DEF Value, ValueOf, Has, MetricOf
<1> QED BY <1>1, <1>2, <1>8, <1>9, AgentKeeps

(* A worker changes the submission it works on, or appends its row.        *)
LEMMA WorkerKeeps ==
    ASSUME ScoringInv, NEW i \in 1..Len(subs), Worker(i) PROVE ScoringInv'
<1>1. /\ RowsInv /\ subs \in Seq(Submissions) /\ Len(rows) \in Nat
      /\ Len(subs) \in Nat /\ rows \in Seq(1..Len(subs))
      /\ subs[i] \in Submissions /\ Submitted(i)
      /\ \A k \in 1..Len(rows) : /\ rows[k] \in 1..Len(subs)
                                 /\ subs[rows[k]].status \in {"sim_ok", "failed"}
  BY RowsTypes DEF ScoringInv
<1>2. subs[i].status \in {"queued", "running"} =>
        ~Contains(rows, i) /\ subs[i].metric = NoMetric
  BY <1>1 DEF Contains, Submitted, MetricOf
<1>3. CASE CheckBudget(i)
  <2> DEFINE st == IF Successes(subs[i].sim) >= challenge.budget
                   THEN "sim_ok" ELSE "running"
  <2>1. /\ subs' = [subs EXCEPT ![i] = [subs[i] EXCEPT !.status = st]]
        /\ UNCHANGED <<challenge, rows, judges, reports>>
        /\ subs[i].status = "queued"
    BY <1>3 DEF CheckBudget
  <2>2. st \in {"sim_ok", "running"}
    OBVIOUS
  <2> HIDE DEF st
  <2> DEFINE s == [subs[i] EXCEPT !.status = st]
  <2>3. s \in Submissions /\ s.seen = subs[i].seen /\ s.metric = subs[i].metric
    BY <1>1, <2>2 DEF Submissions
  <2> HIDE DEF s
  <2> QED BY <1>2, <2>1, <2>3, OneChanges DEF s
<1>4. CASE \E m \in challenge.metrics : Succeed(i, m)
  <2>1. PICK m \in challenge.metrics : Succeed(i, m)
    BY <1>4
  <2> DEFINE s == [subs[i] EXCEPT !.status = "sim_ok", !.metric = m]
  <2>2. /\ subs' = [subs EXCEPT ![i] = s]
        /\ UNCHANGED <<challenge, rows, judges, reports>>
        /\ subs[i].status = "running"
    BY <2>1 DEF Succeed
  <2>3. /\ s \in Submissions /\ s.seen = subs[i].seen
        /\ s.metric = m /\ s.status = "sim_ok"
    BY <1>1 DEF Submissions
  <2> HIDE DEF s
  <2> QED BY <1>2, <2>2, <2>3, OneChanges
<1>5. CASE Fail(i)
  <2> DEFINE s == [subs[i] EXCEPT !.status = "failed"]
  <2>1. /\ subs' = [subs EXCEPT ![i] = s]
        /\ UNCHANGED <<challenge, rows, judges, reports>>
        /\ subs[i].status = "running"
    BY <1>5 DEF Fail
  <2>2. s \in Submissions /\ s.seen = subs[i].seen /\ s.metric = subs[i].metric
    BY <1>1 DEF Submissions
  <2> HIDE DEF s
  <2> QED BY <1>2, <2>1, <2>2, OneChanges
<1>6. CASE AppendRow(i)
  <2>1. /\ rows' = Append(rows, i) /\ UNCHANGED <<challenge, subs, judges, reports>>
        /\ subs[i].status \in {"sim_ok", "failed"} /\ ~Contains(rows, i)
    BY <1>6 DEF AppendRow
  <2>2. /\ Len(rows') = Len(rows) + 1 /\ rows' \in Seq(1..Len(subs))
        /\ rows'[Len(rows) + 1] = i /\ \A k \in 1..Len(rows) : rows'[k] = rows[k]
    BY <1>1, <2>1
  <2>3. \A k \in 1..Len(rows) : rows[k] # i
    BY <2>1 DEF Contains
  <2>4. RowsInv'
    <3>1. Submissions' = Submissions /\ challenge' \in Challenges
      BY <1>1, <2>1 DEF Submissions, RowsInv
    <3>2. \A j \in 1..Len(subs') : Submitted(j)'
      <4> TAKE j \in 1..Len(subs')
      <4>1. Submitted(j) /\ subs[j] \in Submissions
        BY <1>1, <2>1 DEF RowsInv
      <4>2. subs[j].seen \in Nat
        BY <4>1 DEF Submissions
      <4> QED BY <1>1, <2>1, <2>2, <4>1, <4>2 DEF Submitted, MetricOf
    <3>3. \A k \in 1..Len(rows') :
             /\ subs[rows'[k]].status \in {"sim_ok", "failed"}
             /\ subs[rows'[k]].seen < k
             /\ \A j \in 1..Len(rows') : rows'[j] = rows'[k] => j = k
      <4> TAKE k \in 1..Len(rows')
      <4> DEFINE n == Len(rows)
      <4>0. \A j \in 1..Len(rows') :
              \/ j = n + 1 /\ rows'[j] = i
              \/ j \in 1..n /\ j # n + 1 /\ rows'[j] = rows[j] /\ rows[j] # i
        BY <1>1, <2>2, <2>3
      <4>1. CASE k = Len(rows) + 1
        <5>1. subs[i].seen < k
          <6>1. subs[i].seen \in Nat
            BY <1>1 DEF Submissions
          <6> QED BY <1>1, <4>1, <6>1 DEF Submitted
        <5>2. \A j \in 1..Len(rows') : rows'[j] = rows'[k] => j = k
          BY <2>2, <4>0, <4>1
        <5> QED BY <2>1, <2>2, <4>1, <5>1, <5>2
      <4>2. CASE k \in 1..Len(rows)
        <5>1. /\ subs[rows[k]].status \in {"sim_ok", "failed"}
              /\ subs[rows[k]].seen < k
              /\ \A j \in 1..Len(rows) : rows[j] = rows[k] => j = k
          BY <1>1, <4>2 DEF RowsInv
        <5>2. \A j \in 1..Len(rows') : rows'[j] = rows'[k] => j = k
          <6>1. rows'[k] = rows[k] /\ rows[k] # i
            BY <2>2, <2>3, <4>2
          <6> QED BY <4>0, <5>1, <6>1
        <5>3. rows'[k] = rows[k]
          BY <2>2, <4>2
        <5>4. subs[rows'[k]] = subs[rows[k]]
          BY <5>3
        <5> QED BY <5>1, <5>2, <5>4
      <4>3. k = Len(rows) + 1 \/ k \in 1..Len(rows)
        BY <4>0
      <4> HIDE DEF n
      <4> QED BY <4>1, <4>2, <4>3
    <3> QED BY <1>1, <2>1, <2>2, <3>1, <3>2, <3>3 DEF RowsInv
  <2>5. \A k \in 1..Len(rows) : Value(k)' = Value(k)
    BY <2>1, <2>2 DEF Value, ValueOf, Has, MetricOf
  <2>6. ~Judging \/ overdue
    BY <2>1 DEF ScoringInv, Settled
  <2>7. \A k \in 1..Len(rows)' : k \in 1..Len(rows) \/ Len(rows) < k
    BY <1>1, <2>2
  <2>8. \A k \in 1..Len(rows) : k \in 1..Len(rows)' /\ rows'[k] = rows[k]
    <3>1. \A n \in Nat : \A k \in 1..n : k \in 1..(n + 1)
      OBVIOUS
    <3> QED BY <1>1, <2>2, <3>1
  <2> QED BY <1>1, <2>1, <2>4, <2>5, <2>6, <2>7, <2>8, AgentKeeps
<1> QED BY <1>3, <1>4, <1>5, <1>6 DEF Worker


(* What a step of the evaluators leaves as it is.                          *)
LEMMA SameRows ==
    ASSUME ScoringInv, UNCHANGED agent, UNCHANGED overdue
    PROVE  /\ RowsInv' /\ challenge' = challenge /\ order' = order /\ rows' = rows
           /\ subs' = subs /\ History' = History /\ Feasible' = Feasible
           /\ ScoredSub' = ScoredSub /\ BestOf' = BestOf
           /\ BestFeasible' = BestFeasible
           /\ \A s : LastOk(s)' = LastOk(s)
           /\ \A i : MetricOf(i)' = MetricOf(i) /\ ValueOf(i)' = ValueOf(i)
           /\ \A k : Value(k)' = Value(k)
           /\ \A a, b : Better(a, b)' = Better(a, b)
           /\ \A i : Contains(rows, i)' = Contains(rows, i)
<1>1. /\ challenge' = challenge /\ order' = order /\ rows' = rows /\ subs' = subs
      /\ Lower' = Lower
  BY DEF agent, order, Lower
<1>2. RowsInv'
  <2>1. RowsInv
    BY DEF ScoringInv
  <2> QED BY <1>1, <2>1 DEF RowsInv, Submissions, Submitted, MetricOf
<1>3. /\ \A i : MetricOf(i)' = MetricOf(i) /\ ValueOf(i)' = ValueOf(i)
      /\ \A k : Value(k)' = Value(k)
      /\ \A a, b : Better(a, b)' = Better(a, b)
      /\ \A i : Contains(rows, i)' = Contains(rows, i)
  BY <1>1 DEF MetricOf, ValueOf, Has, Value, Better, Contains
<1>4. History' = History /\ Feasible' = Feasible
  BY <1>1 DEF History, Value, ValueOf, Has, MetricOf, Measured, Feasible, SimOk, Metric
<1>5. ScoredSub' = ScoredSub
  BY <1>1 DEF ScoredSub, Scan, ValueOf, Has, MetricOf, Measured, Better, Lower
<1>6. BestOf' = BestOf
  BY <1>1 DEF BestOf, Value, ValueOf, Has, MetricOf, Measured, Better, Lower
<1>7. BestFeasible' = BestFeasible
  BY <1>1 DEF BestFeasible, Feasible, SimOk, Metric, Has, MetricOf
<1>8. \A s : LastOk(s)' = LastOk(s)
  BY <1>1 DEF LastOk, SimOk, Value, Has, ValueOf, MetricOf
<1> QED BY <1>1, <1>2, <1>3, <1>4, <1>5, <1>6, <1>7, <1>8

(* With the rows the choice of simulator_metric stays, too.                *)
LEMMA BestStays == ASSUME UNCHANGED agent PROVE BestSubmit' = BestSubmit
<1>1. challenge' = challenge /\ subs' = subs /\ rows' = rows
  BY DEF agent
<1>2. CASE Lower
  BY <1>1, <1>2 DEF BestSubmit, SimOk, Value, Has, ValueOf, MetricOf, Better, Lower
<1>3. CASE ~Lower
  BY <1>1, <1>3 DEF BestSubmit, SimOk, Value, Has, ValueOf, MetricOf, Better, Lower
<1> QED BY <1>2, <1>3

(* What a step of the evaluators need not be asked for.                    *)
LEMMA JudgeKeeps ==
    ASSUME ScoringInv, UNCHANGED agent, UNCHANGED overdue, Judging,
           at' \in Nat, at' >= at,
           MetricInv', FeasibleInv', ActualInv', ReportInv',
           BoundInv', IterationInv', CrossInv'
    PROVE  ScoringInv'
<1>1. at \in Nat /\ Judging'
  BY DEF ScoringInv, Judging
<1>2. Settled'
  BY SameRows DEF ScoringInv, Settled
<1> QED BY <1>1, <1>2, SameRows DEF ScoringInv, NothingYet

(* A report that stays is as early as it was.                              *)
LEMMA BoundStays ==
    ASSUME ScoringInv, UNCHANGED agent, UNCHANGED overdue, UNCHANGED calibration
    PROVE  BoundInv' /\ ReportInv'
<1>1. ReportInv'
  BY SameRows DEF ScoringInv, ReportInv
<1>2. CASE ~calibration.bound
  BY <1>1, <1>2 DEF BoundInv
<1>3. CASE calibration.bound
  <2>1. /\ calibration.class # NotYet
        /\ \E p \in 1..Len(rows) :
             /\ rows[p] = calibration.sub
             /\ \A k \in 1..Len(rows) :
                  k < p /\ Measured(Value(k)) => Better(Value(p), Value(k))
             /\ IF calibration.actual.by = "evaluate_sh"
                THEN ~challenge.bypass \/ overdue
                ELSE \/ calibration.actual.value = Value(p)
                     \/ overdue /\ Better(Value(p), calibration.actual.value)
    BY <1>3 DEF ScoringInv, BoundInv
  <2>2. /\ rows' = rows /\ calibration' = calibration /\ overdue' = overdue
        /\ challenge' = challenge /\ \A k : Value(k)' = Value(k)
        /\ Lower' = Lower
    BY SameRows DEF Lower
  <2>3. BoundInv'
    BY <2>1, <2>2 DEF BoundInv, Better, Measured
  <2> QED BY <1>1, <2>3
<1> QED BY <1>2, <1>3, <1>1

(* Which conjuncts only read what a step leaves as it is.                  *)
LEMMA CalibrationKeeps ==
    ASSUME ScoringInv, UNCHANGED agent, UNCHANGED overdue,
           UNCHANGED <<actual, calibration>>,
           ~Between("prediction_calibration")'
    PROVE  ActualInv' /\ BoundInv' /\ ReportInv'
BY BoundStays DEF ActualInv

(* Reports that stay say what they said.                                   *)
LEMMA ListsKeep ==
    ASSUME ScoringInv, UNCHANGED agent, UNCHANGED overdue
    PROVE  /\ UNCHANGED iteration => IterationInv'
           /\ UNCHANGED cross => CrossInv'
           /\ UNCHANGED metric => MetricInv'
<1>1. UNCHANGED iteration => IterationInv'
  BY SameRows DEF ScoringInv, IterationInv
<1>2. UNCHANGED cross => CrossInv'
  BY SameRows DEF ScoringInv, CrossInv
<1>3. UNCHANGED metric => MetricInv'
  <2>1. BestSubmit' = BestSubmit
    BY BestStays
  <2> QED BY <2>1, SameRows DEF ScoringInv, MetricInv
<1> QED BY <1>1, <1>2, <1>3

(* simulator_metric, from the rows.                                        *)
LEMMA JudgeRowsKeeps == ASSUME ScoringInv, JudgeRows PROVE ScoringInv'
<1>1. /\ UNCHANGED agent /\ UNCHANGED overdue /\ UNCHANGED <<actual, calibration>>
      /\ UNCHANGED iteration /\ UNCHANGED cross /\ Judging
      /\ Evaluating("simulator_metric") /\ ~reading /\ BestSubmit # NoSub
      /\ metric' = [source |-> "submit_outcomes_jsonl", sub |-> BestSubmit,
                    head |-> ValueOf(BestSubmit)]
      /\ feasible' = feasible
  BY DEF JudgeRows, Evaluating
<1>2. \/ at' = at /\ reading' /\ MetricOf(BestSubmit).raw # NoValue
      \/ at' = at + 1 /\ ~reading' /\ MetricOf(BestSubmit).raw = NoValue
  BY DEF JudgeRows, Reread, Next1
<1>3. at \in Nat /\ at' \in Nat /\ at' >= at /\ RowsInv
  BY <1>2 DEF ScoringInv
<1>4. BestSubmit' = BestSubmit
  BY <1>1, BestStays
<1>5. ~Between("prediction_calibration")'
  <2>1. reading' => order'[at'] = "simulator_metric"
    BY <1>1, <1>2, SameRows DEF Evaluating
  <2> QED BY <2>1 DEF Between, Evaluating
<1>6. MetricInv'
  <2>1. PICK p \in SimOk : BestSubmit = rows[p]
    BY <1>1, <1>3, BestSubmitFacts
  <2>2. p \in 1..Len(rows) /\ Value(p) = ValueOf(BestSubmit)
    BY <1>3, <2>1, SimOkFacts DEF Value
  <2>3. ValueOf(BestSubmit) \in Numbers
    BY <1>3, <2>2, ValuesAreNumbers
  <2>4. Measured(ValueOf(BestSubmit)) => \E k \in History : Value(k) = ValueOf(BestSubmit)
    BY <2>2 DEF History
  <2>5. metric'.source \notin {NotYet, "failed", "evaluate_sh"}
    BY <1>1 DEF NotYet
  <2>6. metric'.source = "submit_outcomes_jsonl" /\ metric'.sub = BestSubmit
        /\ metric'.head = ValueOf(BestSubmit)
    BY <1>1
  <2>7. \A v : Measured(v)' <=> Measured(v)
    BY DEF Measured
  <2> QED BY <1>1, <1>4, <2>3, <2>4, <2>5, <2>6, <2>7, SameRows DEF MetricInv
<1>7. FeasibleInv'
  <2>1. CASE reading'
    <3>1. Between("simulator_metric")'
      BY <1>1, <1>2, <2>1, SameRows DEF Between, Evaluating, Judging
    <3> QED BY <3>1 DEF FeasibleInv
  <2>2. CASE ~reading'
    BY <1>1, <1>2, <2>2, SameRows DEF FeasibleInv
  <2> QED BY <2>1, <2>2
<1> QED BY <1>1, <1>3, <1>5, <1>6, <1>7, CalibrationKeeps, ListsKeep, JudgeKeeps

(* simulator_metric, from evaluate.sh.                                     *)
LEMMA RerunKeeps == ASSUME ScoringInv, Rerun PROVE ScoringInv'
<1>1. /\ UNCHANGED agent /\ UNCHANGED overdue /\ UNCHANGED <<actual, calibration>>
      /\ UNCHANGED iteration /\ UNCHANGED cross /\ Judging
      /\ Evaluating("simulator_metric") /\ ~reading
      /\ ~challenge.bypass \/ BestSubmit = NoSub
      /\ at' = at + 1 /\ ~reading' /\ feasible' = feasible
  BY DEF Rerun, Evaluating, Next1
<1>2. \/ \E v \in {m.head : m \in challenge.metrics} \cup {NoValue} :
           metric' = [source |-> "evaluate_sh", sub |-> NoSub, head |-> v]
      \/ metric' = [source |-> "failed", sub |-> NoSub, head |-> NoValue]
  BY DEF Rerun
<1>3. at \in Nat /\ at' \in Nat /\ at' >= at /\ RowsInv
  BY <1>1 DEF ScoringInv
<1>4. BestSubmit' = BestSubmit
  BY <1>1, BestStays
<1>5. ~Between("prediction_calibration")'
  BY <1>1 DEF Between
<1>6. /\ metric'.source \in {"evaluate_sh", "failed"} /\ metric'.head \in Numbers
      /\ metric'.source = "failed" => metric'.head = NoValue
  <2>1. \A m \in challenge.metrics : m.head \in Numbers
    BY <1>3, ScoringAssumption DEF RowsInv, Numbers
  <2>2. NoValue \in Numbers
    BY DEF Numbers
  <2> QED BY <1>2, <2>1, <2>2
<1>7. MetricInv' /\ FeasibleInv'
  <2>1. NotYet \notin {"evaluate_sh", "failed"}
    BY DEF NotYet
  <2> QED BY <1>1, <1>4, <1>6, <2>1, SameRows DEF MetricInv, FeasibleInv
<1> QED BY <1>1, <1>3, <1>5, <1>7, CalibrationKeeps, ListsKeep, JudgeKeeps

(* Its second read of the rows.                                            *)
LEMMA JudgeFeasibleKeeps == ASSUME ScoringInv, JudgeFeasible PROVE ScoringInv'
<1>1. /\ UNCHANGED agent /\ UNCHANGED overdue /\ UNCHANGED <<actual, calibration>>
      /\ UNCHANGED iteration /\ UNCHANGED cross /\ UNCHANGED metric /\ Judging
      /\ at' = at + 1 /\ ~reading'
      /\ feasible' = [count |-> Cardinality(Feasible), sub |-> BestFeasible]
  BY DEF JudgeFeasible, Evaluating, Next1
<1>2. at \in Nat /\ at' \in Nat /\ at' >= at
  BY <1>1 DEF ScoringInv
<1>3. ~Between("prediction_calibration")'
  BY <1>1 DEF Between
<1>4. FeasibleInv'
  BY <1>1, SameRows DEF FeasibleInv
<1> QED BY <1>1, <1>2, <1>3, <1>4, CalibrationKeeps, ListsKeep, JudgeKeeps

(* An evaluator of the last two kinds writes its own report only.          *)
LEMMA OthersKeep ==
    ASSUME ScoringInv, UNCHANGED agent, UNCHANGED overdue, Judging,
           UNCHANGED <<actual, calibration>>, UNCHANGED metric, UNCHANGED feasible,
           ~reading', at' = at + 1, order[at] # "simulator_metric",
           MetricInv', IterationInv', CrossInv'
    PROVE  ScoringInv'
<1>1. at \in Nat /\ at' \in Nat /\ at' >= at
  BY DEF ScoringInv
<1>2. ~Between("prediction_calibration")' /\ ~Between("simulator_metric")
  BY DEF Between, Evaluating
<1>3. FeasibleInv'
  BY <1>2, SameRows DEF ScoringInv, FeasibleInv
<1> QED BY <1>1, <1>2, <1>3, CalibrationKeeps, JudgeKeeps

(* What prediction_calibration grades against: the value of the scored     *)
(* submission, which simulator_metric has found as well.                   *)
LEMMA ReadActualKeeps == ASSUME ScoringInv, ReadActual PROVE ScoringInv'
<1> DEFINE v == IF Measured(metric.head)
                THEN [by |-> metric.source, value |-> metric.head]
                ELSE IF ScoredSub # NoSub
                THEN [by |-> "submit_outcomes_jsonl", value |-> ValueOf(ScoredSub)]
                ELSE NoActual
<1>1. /\ UNCHANGED agent /\ UNCHANGED overdue /\ UNCHANGED iteration
      /\ UNCHANGED cross /\ UNCHANGED metric /\ UNCHANGED feasible /\ Judging
      /\ Evaluating("prediction_calibration") /\ ~reading /\ actual' = v
      /\ \/ /\ v = NoActual /\ ~reading' /\ at' = at + 1
            /\ calibration' = [NoReport EXCEPT !.class = "no_ground_truth"]
         \/ v # NoActual /\ reading' /\ at' = at /\ UNCHANGED calibration
  BY DEF ReadActual, Evaluating, Next1, Reread
<1>2. /\ at \in Nat /\ at' \in Nat /\ at' >= at /\ RowsInv /\ order[at] # "simulator_metric"
  BY <1>1 DEF ScoringInv, Evaluating
<1>3. Measured(metric.head) =>
        /\ metric.source \in {"submit_outcomes_jsonl", "evaluate_sh"}
        /\ v # NoActual /\ v.by = metric.source /\ v.value = metric.head
  <2> SUFFICES ASSUME Measured(metric.head)
               PROVE  /\ metric.source \in {"submit_outcomes_jsonl", "evaluate_sh"}
                      /\ v # NoActual /\ v.by = metric.source /\ v.value = metric.head
    OBVIOUS
  <2>1. metric.head # NoValue
    BY DEF Measured
  <2>2. metric.source \in {"submit_outcomes_jsonl", "evaluate_sh"}
    BY <2>1 DEF ScoringInv, MetricInv
  <2>3. v = [by |-> metric.source, value |-> metric.head]
    OBVIOUS
  <2>4. NoActual.by = NotYet /\ NotYet \notin {"submit_outcomes_jsonl", "evaluate_sh"}
    BY DEF NoActual, NotYet
  <2> QED BY <2>2, <2>3, <2>4
<1>4. ScoredSub # NoSub =>
        \E p \in History : ScoredSub = rows[p] /\ Value(p) = ValueOf(ScoredSub)
  BY <1>2, ScoredIsFirstBest DEF Value
<1>5. ~Measured(metric.head) /\ ScoredSub # NoSub =>
        v # NoActual /\ v.by = "submit_outcomes_jsonl" /\ v.value = ValueOf(ScoredSub)
  <2> SUFFICES ASSUME ~Measured(metric.head), ScoredSub # NoSub
               PROVE  v # NoActual /\ v.by = "submit_outcomes_jsonl"
                      /\ v.value = ValueOf(ScoredSub)
    OBVIOUS
  <2>1. v = [by |-> "submit_outcomes_jsonl", value |-> ValueOf(ScoredSub)]
    OBVIOUS
  <2>2. NoActual.by # "submit_outcomes_jsonl"
    BY DEF NoActual, NotYet
  <2> QED BY <2>1, <2>2
<1>6. ~Measured(metric.head) /\ ScoredSub = NoSub => v = NoActual
  OBVIOUS
<1>7. v # NoActual =>
        /\ v.by \in {"submit_outcomes_jsonl", "evaluate_sh"}
        /\ v.by = "evaluate_sh" => ~challenge.bypass \/ overdue \/ ScoredSub = NoSub
        /\ v.by = "submit_outcomes_jsonl" =>
             /\ \E k \in History : Value(k) = v.value
             /\ ~overdue => ScoredSub # NoSub /\ v.value = ValueOf(ScoredSub)
  <2>1. CASE Measured(metric.head)
    <3>1. v.by = metric.source /\ v.value = metric.head
          /\ metric.source \in {"submit_outcomes_jsonl", "evaluate_sh"}
      BY <1>3, <2>1
    <3> HIDE DEF v
    <3>2. v.by = "evaluate_sh" => ~challenge.bypass \/ overdue \/ ScoredSub = NoSub
      <4>1. BestSubmit = NoSub => ScoredSub = NoSub
        BY <1>2, OneBest, ScoredIsFirstBest
      <4> QED BY <3>1, <4>1 DEF ScoringInv, MetricInv
    <3>3. v.by = "submit_outcomes_jsonl" => \E k \in History : Value(k) = v.value
      BY <2>1, <3>1 DEF ScoringInv, MetricInv
    <3>4. v.by = "submit_outcomes_jsonl" /\ ~overdue =>
            ScoredSub # NoSub /\ v.value = ValueOf(ScoredSub)
      <4> SUFFICES ASSUME v.by = "submit_outcomes_jsonl", ~overdue
                   PROVE  ScoredSub # NoSub /\ v.value = ValueOf(ScoredSub)
        OBVIOUS
      <4>1. metric.head = ValueOf(BestSubmit)
        BY <3>1 DEF ScoringInv, MetricInv
      <4>2. History # {}
        BY <3>3
      <4> QED BY <1>2, <2>1, <3>1, <4>1, <4>2, OneBest
    <3> QED BY <3>1, <3>2, <3>3, <3>4
  <2>2. CASE ~Measured(metric.head) /\ ScoredSub # NoSub
    <3>1. v.by = "submit_outcomes_jsonl" /\ v.value = ValueOf(ScoredSub)
      BY <1>5, <2>2
    <3> HIDE DEF v
    <3> QED BY <1>4, <2>2, <3>1
  <2>3. CASE ~Measured(metric.head) /\ ScoredSub = NoSub
    BY <1>6, <2>3
  <2> QED BY <2>1, <2>2, <2>3
<1>8. v = NoActual => ScoredSub = NoSub
  BY <1>3, <1>5
<1> HIDE DEF v
<1>9. ActualInv'
  <2>1. CASE v = NoActual
    BY <1>1, <2>1 DEF ActualInv, Between
  <2>2. CASE v # NoActual
    BY <1>1, <1>7, <2>2, SameRows DEF ActualInv
  <2> QED BY <2>1, <2>2
<1>10. FeasibleInv'
  <2>1. ~Between("simulator_metric")
    BY <1>1 DEF Between
  <2> QED BY <1>1, <2>1, SameRows DEF ScoringInv, FeasibleInv
<1>11. BoundInv' /\ ReportInv'
  <2>1. CASE v = NoActual
    <3>1. ~calibration'.bound /\ calibration'.class = "no_ground_truth"
      BY <1>1, <2>1 DEF NoReport
    <3> QED BY <1>1, <1>8, <2>1, <3>1, SameRows DEF BoundInv, ReportInv
  <2>2. CASE v # NoActual
    <3>1. UNCHANGED calibration
      BY <1>1, <2>2
    <3> QED BY <1>1, <3>1, BoundStays
  <2> QED BY <2>1, <2>2
<1> QED BY <1>1, <1>2, <1>9, <1>10, <1>11, ListsKeep, JudgeKeeps

(* The prediction of the scored submission, found again.                   *)
LEMMA GradePredictionKeeps == ASSUME ScoringInv, GradePrediction PROVE ScoringInv'
<1> DEFINE bound == ScoredSub # NoSub /\ subs[ScoredSub].prediction # "none"
           p == IF bound THEN subs[ScoredSub].prediction ELSE workspace
           class == IF p = "none" THEN "agent_missing_artifact"
                    ELSE IF p = "broken" THEN "artifact_broken" ELSE "scored"
<1>1. /\ UNCHANGED agent /\ UNCHANGED overdue /\ UNCHANGED iteration
      /\ UNCHANGED cross /\ UNCHANGED metric /\ UNCHANGED feasible /\ Judging
      /\ UNCHANGED actual
      /\ Evaluating("prediction_calibration") /\ reading /\ ~reading' /\ at' = at + 1
      /\ calibration' = [class |-> class, sub |-> IF bound THEN ScoredSub ELSE NoSub,
                         bound |-> bound, actual |-> actual]
  BY DEF GradePrediction, Evaluating, Next1
<1>2. /\ at \in Nat /\ at' \in Nat /\ at' >= at /\ RowsInv
      /\ Between("prediction_calibration") /\ order[at] # "simulator_metric"
  BY <1>1 DEF ScoringInv, Evaluating, Between
<1>3. class # NotYet /\ class # "no_ground_truth"
  BY DEF NotYet
<1>4. ActualInv'
  BY <1>1 DEF ActualInv, Between
<1>5. FeasibleInv'
  <2>1. ~Between("simulator_metric")
    BY <1>2 DEF Between, Evaluating
  <2> QED BY <1>1, <2>1, SameRows DEF ScoringInv, FeasibleInv
<1> HIDE DEF class
<1>6. /\ calibration'.class = class /\ calibration'.actual = actual
      /\ calibration'.bound = bound /\ calibration'.sub = IF bound THEN ScoredSub ELSE NoSub
  BY <1>1
<1>7. ReportInv'
  BY <1>1, <1>2, <1>3, <1>6, SameRows DEF ScoringInv, ActualInv, ReportInv
<1>8. BoundInv'
  <2> SUFFICES ASSUME bound PROVE BoundInv'
    BY <1>1 DEF BoundInv
  <2>1. ScoredSub # NoSub
    OBVIOUS
  <2>2. calibration'.class # NotYet /\ calibration'.sub = ScoredSub
    BY <1>3, <1>6
  <2> HIDE DEF bound
  <2>3. PICK q \in History : ScoredSub = rows[q] /\ FirstBest(q, Len(rows))
    BY <1>2, <2>1, ScoredIsFirstBest
  <2>4. q \in 1..Len(rows)
    BY <2>3 DEF History
  <2>5. \A k \in 1..Len(rows) : k < q /\ Measured(Value(k)) => Better(Value(q), Value(k))
    BY <2>3 DEF FirstBest, History
  <2>6. actual.by # "evaluate_sh" => \/ actual.value = Value(q)
                                     \/ overdue /\ Better(Value(q), actual.value)
    <3> SUFFICES ASSUME actual.by # "evaluate_sh", actual.value # Value(q)
                 PROVE  overdue /\ Better(Value(q), actual.value)
      OBVIOUS
    <3>1. PICK k \in History : Value(k) = actual.value
      BY <1>2 DEF ScoringInv, ActualInv
    <3>2. overdue
      BY <1>2, <2>3 DEF ScoringInv, ActualInv, Value
    <3>3. ~Better(Value(k), Value(q))
      <4>1. k \in 1..Len(rows) /\ Len(rows) \in Nat
        BY <1>2, RowsTypes DEF History
      <4>2. k <= Len(rows)
        BY <4>1
      <4> QED BY <2>3, <4>2 DEF FirstBest
    <3>4. Value(k) \in Nat /\ Value(q) \in Nat /\ Lower \in BOOLEAN
      BY <1>2, <2>3, ValuesAreNumbers DEF History
    <3> QED BY <3>1, <3>2, <3>3, <3>4, BetterFacts
  <2>7. actual.by = "evaluate_sh" => ~challenge.bypass \/ overdue
    BY <1>2, <2>1 DEF ScoringInv, ActualInv
  <2>8. /\ rows' = rows /\ overdue' = overdue /\ challenge' = challenge
        /\ \A k : Value(k)' = Value(k)
        /\ \A x, y : (Better(x, y)' <=> Better(x, y)) /\ \A z : (Measured(z)' <=> Measured(z))
    BY <1>1, SameRows DEF Measured
  <2>9. rows[q] = ScoredSub /\ calibration'.actual = actual
    BY <1>6, <2>3
  <2> QED BY <2>2, <2>4, <2>5, <2>6, <2>7, <2>8, <2>9 DEF BoundInv
<1> QED BY <1>1, <1>2, <1>4, <1>5, <1>6, <1>7, <1>8, ListsKeep, JudgeKeeps

(* iteration_quality.                                                      *)
LEMMA GradeIterationsKeeps == ASSUME ScoringInv, GradeIterations PROVE ScoringInv'
<1>1. /\ UNCHANGED agent /\ UNCHANGED overdue /\ UNCHANGED <<actual, calibration>>
      /\ UNCHANGED cross /\ UNCHANGED metric /\ UNCHANGED feasible /\ Judging
      /\ Evaluating("iteration_quality") /\ ~reading' /\ at' = at + 1
      /\ iteration' =
           IF History = {} THEN [NoQuality EXCEPT !.class = "no_ground_truth"]
           ELSE [class |-> "scored", first |-> Value(Min(History)),
                 best |-> BestOf, last |-> Value(Max(History)),
                 scored |-> Cardinality(History)]
  BY DEF GradeIterations, Evaluating, Next1
<1>2. IterationInv'
  <2>1. CASE History = {}
    <3>1. iteration'.class = "no_ground_truth"
      BY <1>1, <2>1 DEF NoQuality
    <3> QED BY <1>1, <2>1, <3>1, SameRows DEF IterationInv
  <2>2. CASE History # {}
    <3>1. iteration'.class = "scored" /\ iteration'.best = BestOf
      BY <1>1, <2>2
    <3> QED BY <1>1, <2>2, <3>1, SameRows DEF IterationInv
  <2> QED BY <2>1, <2>2
<1> QED BY <1>1, <1>2, OthersKeep, ListsKeep DEF Evaluating

(* cross_sim_discrepancy.                                                  *)
LEMMA CompareSimsKeeps == ASSUME ScoringInv, CompareSims PROVE ScoringInv'
<1>1. /\ UNCHANGED agent /\ UNCHANGED overdue /\ UNCHANGED <<actual, calibration>>
      /\ UNCHANGED iteration /\ UNCHANGED metric /\ UNCHANGED feasible /\ Judging
      /\ Evaluating("cross_sim_discrepancy") /\ ~reading' /\ at' = at + 1
      /\ cross' = [s \in Sims |-> LastOk(s)]
  BY DEF CompareSims, Evaluating, Next1
<1>2. CrossInv'
  BY <1>1, SameRows DEF CrossInv
<1> QED BY <1>1, <1>2, OthersKeep, ListsKeep DEF Evaluating

(* The evaluators begin: nothing is in flight, or they are overdue.        *)
LEMMA BeginKeeps ==
    ASSUME ScoringInv, NEW p \in Predictions, BeginJudging(p) PROVE ScoringInv'
<1>1. /\ ~Judging /\ at' = 1 /\ UNCHANGED agent /\ UNCHANGED reports
      /\ UNCHANGED reading
      /\ overdue' = \E i \in 1..Len(subs) : ~Contains(rows, i)
  BY DEF BeginJudging
<1>2. /\ challenge' = challenge /\ subs' = subs /\ rows' = rows /\ metric' = metric
      /\ feasible' = feasible /\ calibration' = calibration /\ iteration' = iteration
      /\ cross' = cross /\ reading' = reading
  BY <1>1 DEF agent, reports
<1>3. /\ ~reading /\ metric.source = NotYet /\ metric.head = NoValue
      /\ calibration.class = NotYet /\ ~calibration.bound
      /\ iteration.class = NotYet /\ \A s \in Sims : cross[s] = NoSub
  BY <1>1 DEF ScoringInv, NothingYet, NoReport, NoQuality
<1>4. /\ NotYet # "scored" /\ NotYet # "no_ground_truth" /\ NotYet # "evaluate_sh"
      /\ NotYet # "submit_outcomes_jsonl" /\ NoValue \in Numbers
  BY DEF NotYet, Numbers
<1>5. RowsInv'
  <2>1. RowsInv
    BY DEF ScoringInv
  <2> QED BY <1>2, <2>1 DEF RowsInv, Submissions, Submitted, MetricOf
<1>6. at' \in Nat /\ Settled' /\ NothingYet'
  <2>1. overdue' = \E i \in 1..Len(subs') : ~Contains(rows', i)
    BY <1>1, <1>2
  <2>2. Settled'
    BY <2>1 DEF Settled
  <2>3. Judging'
    BY <1>1 DEF Judging
  <2> QED BY <1>1, <2>2, <2>3 DEF NothingYet
<1> QED BY <1>2, <1>3, <1>4, <1>5, <1>6
        DEF ScoringInv, MetricInv, FeasibleInv, ActualInv, ReportInv,
            BoundInv, IterationInv, CrossInv, Between

(* A stutter.                                                              *)
LEMMA ScoringStutters == ASSUME ScoringInv, UNCHANGED vars PROVE ScoringInv'
<1>1. /\ UNCHANGED agent /\ UNCHANGED overdue /\ at' = at /\ reading' = reading
      /\ metric' = metric /\ feasible' = feasible /\ actual' = actual
      /\ calibration' = calibration /\ iteration' = iteration /\ cross' = cross
  BY DEF vars, judges, reports
<1>2. \A name : Between(name)' = Between(name)
  BY <1>1, SameRows DEF Between, Evaluating, Judging
<1>3. RowsInv' /\ at' \in Nat /\ Settled' /\ NothingYet'
  BY <1>1, SameRows DEF ScoringInv, Settled, NothingYet, Judging
<1>4. MetricInv' /\ IterationInv' /\ CrossInv' /\ BoundInv' /\ ReportInv'
  BY <1>1, ListsKeep, BoundStays
<1>5. FeasibleInv' /\ ActualInv'
  BY <1>1, <1>2, SameRows DEF ScoringInv, FeasibleInv, ActualInv
<1> QED BY <1>3, <1>4, <1>5 DEF ScoringInv

(* Every step keeps the invariant.                                         *)
LEMMA ScoringNextInv == ScoringInv /\ [Next]_vars => ScoringInv'
<1> SUFFICES ASSUME ScoringInv, [Next]_vars PROVE ScoringInv'
  OBVIOUS
<1>1. ASSUME NEW s \in Sims, NEW p \in Predictions, Accept(s, p) PROVE ScoringInv'
  BY <1>1, AcceptKeeps
<1>2. ASSUME NEW i \in 1..Len(subs), Worker(i) PROVE ScoringInv'
  BY <1>2, WorkerKeeps
<1>3. ASSUME NEW p \in Predictions, BeginJudging(p) PROVE ScoringInv'
  BY <1>3, BeginKeeps
<1>4. CASE Evaluate
  BY <1>4, JudgeRowsKeeps, JudgeFeasibleKeeps, RerunKeeps, ReadActualKeeps,
     GradePredictionKeeps, GradeIterationsKeeps, CompareSimsKeeps DEF Evaluate
<1>5. CASE UNCHANGED vars
  BY <1>5, ScoringStutters
<1> QED BY <1>1, <1>2, <1>3, <1>4, <1>5 DEF Next

LEMMA ScoringAlways == Spec => []ScoringInv
BY ScoringInitInv, ScoringNextInv, PTL DEF Spec

LEMMA InvGrades == ScoringInv => GradedOnItsRow
BY DEF ScoringInv, GradedOnItsRow, BoundInv, Value

(* A prediction that counts as bound to the scored submission is graded    *)
(* against the value of that very submission (_find_prediction, which says *)
(* that it uses the same row _actual_metric grades against), unless        *)
(* evaluate.sh was run again, which takes a challenge without              *)
(* bypass_if_present or overdue submissions, or a better row came late.    *)
THEOREM GradesItsRow == Spec => []GradedOnItsRow
BY ScoringAlways, InvGrades, PTL

LEMMA InvRetrofits == ScoringInv => NoRetrofit
<1> SUFFICES ASSUME ScoringInv, calibration.bound,
                    NEW k \in 1..subs[calibration.sub].seen,
                    Measured(ValueOf(rows[k]))
             PROVE  Better(ValueOf(calibration.sub), ValueOf(rows[k]))
  BY DEF NoRetrofit
<1>1. PICK p \in 1..Len(rows) :
             /\ rows[p] = calibration.sub
             /\ \A j \in 1..Len(rows) :
                  j < p /\ Measured(Value(j)) => Better(Value(p), Value(j))
  BY DEF ScoringInv, BoundInv
<1>2. subs[rows[p]].seen < p /\ subs[rows[p]].seen \in Nat
  <2>1. rows[p] \in 1..Len(subs) /\ subs[rows[p]].seen < p /\ subs \in Seq(Submissions)
    BY RowsTypes DEF ScoringInv
  <2>2. subs[rows[p]] \in Submissions
    BY <2>1
  <2> QED BY <2>1, <2>2 DEF Submissions
<1>3. Len(rows) \in Nat
  BY RowsTypes DEF ScoringInv
<1>4. k \in 1..Len(rows) /\ k < p
  BY <1>1, <1>2, <1>3
<1> QED BY <1>1, <1>4 DEF Value

(* A bound prediction was made before any result as good as the one it is  *)
(* graded on was in the results (submit_outcomes.jsonl, scanned for the    *)
(* first strictly best row).                                               *)
THEOREM NeverRetrofits == Spec => []NoRetrofit
BY ScoringAlways, InvRetrofits, PTL

LEMMA InvLatest == ScoringInv => FinalIsLatest
<1> SUFFICES ASSUME ScoringInv, NEW s \in Sims, NEW k \in 1..Len(rows),
                    ~overdue, cross[s] # NoSub, subs[rows[k]].sim = s,
                    subs[rows[k]].status = "sim_ok", ValueOf(rows[k]) # NoValue,
                    NEW n \in 1..subs[rows[k]].seen
             PROVE  rows[n] # cross[s]
  BY DEF FinalIsLatest
<1>1. RowsInv /\ cross[s] = LastOk(s) /\ LastOk(s) # NoSub
  BY DEF ScoringInv, CrossInv
<1>2. PICK p \in 1..Len(rows) :
              /\ LastOk(s) = rows[p]
              /\ \A j \in SimOk : subs[rows[j]].sim = s /\ Value(j) # NoValue => j <= p
  BY <1>1, LastOkFacts
<1>3. k \in SimOk /\ Value(k) # NoValue
  BY DEF SimOk, Value, ValueOf
<1>4. k <= p
  BY <1>2, <1>3
<1>5. subs[rows[k]].seen < k /\ subs[rows[k]].seen \in Nat /\ Len(rows) \in Nat
  <2>1. /\ rows[k] \in 1..Len(subs) /\ subs[rows[k]].seen < k /\ Len(rows) \in Nat
        /\ subs \in Seq(Submissions)
    BY <1>1 DEF RowsInv
  <2>2. subs[rows[k]] \in Submissions
    BY <2>1
  <2> QED BY <2>1, <2>2 DEF Submissions
<1>6. n < p /\ n \in 1..Len(rows)
  BY <1>4, <1>5
<1>7. rows[n] # rows[p]
  BY <1>1, <1>6 DEF RowsInv
<1> QED BY <1>1, <1>2, <1>7

(* cross_sim_discrepancy takes the final successful submission to each     *)
(* simulator: none with a row was submitted after its result was out.      *)
THEOREM LatestIsFinal == Spec => []FinalIsLatest
BY ScoringAlways, InvLatest, PTL

LEMMA InvAgree == ScoringInv => JudgesAgree
<1> SUFFICES ASSUME ScoringInv, ~overdue
             PROVE  /\ iteration.class = "scored" =>
                         /\ calibration.class # NotYet
                              /\ calibration.actual.by # "evaluate_sh" =>
                              calibration.actual.value = iteration.best
                         /\ metric.source = "submit_outcomes_jsonl"
                              /\ Measured(metric.head) => metric.head = iteration.best
                    /\ iteration.class = "no_ground_truth" /\ calibration.class # NotYet
                         /\ calibration.actual.by # "evaluate_sh" =>
                         calibration.class = "no_ground_truth"
  BY DEF JudgesAgree
<1>1. RowsInv
  BY DEF ScoringInv
<1>2. ASSUME iteration.class = "scored"
      PROVE  /\ calibration.class # NotYet /\ calibration.actual.by # "evaluate_sh" =>
                  calibration.actual.value = iteration.best
             /\ metric.source = "submit_outcomes_jsonl" /\ Measured(metric.head) =>
                  metric.head = iteration.best
  <2>1. /\ iteration.best = BestOf /\ ScoredSub # NoSub /\ BestOf = ValueOf(ScoredSub)
        /\ BestSubmit # NoSub
    BY <1>1, <1>2, OneBest DEF ScoringInv, IterationInv
  <2>2. calibration.class # NotYet /\ calibration.actual.by # "evaluate_sh" =>
          calibration.actual.value = ValueOf(ScoredSub)
    BY <2>1 DEF ScoringInv, ReportInv
  <2>3. ASSUME metric.source = "submit_outcomes_jsonl", Measured(metric.head)
        PROVE  metric.head = ValueOf(ScoredSub)
    <3>1. metric.head = ValueOf(BestSubmit)
      BY <2>3 DEF ScoringInv, MetricInv
    <3> QED BY <1>1, <2>1, <2>3, <3>1, OneBest
  <2> QED BY <2>1, <2>2, <2>3
<1>3. ASSUME iteration.class = "no_ground_truth", calibration.class # NotYet,
             calibration.actual.by # "evaluate_sh"
      PROVE  calibration.class = "no_ground_truth"
  <2>1. ScoredSub = NoSub
    BY <1>1, <1>3, OneBest DEF ScoringInv, IterationInv
  <2> QED BY <1>3, <2>1 DEF ScoringInv, ReportInv
<1> QED BY <1>2, <1>3

LEMMA InvFeasible == ScoringInv /\ GatesPenalties => BestFeasibleIsHeadline
<1> SUFFICES ASSUME ScoringInv, GatesPenalties, ~overdue, ~reading,
                    metric.source = "submit_outcomes_jsonl",
                    MetricOf(metric.sub).raw # NoValue
             PROVE  IF feasible.count > 0
                    THEN MetricOf(feasible.sub).raw = metric.head
                    ELSE ~Measured(metric.head)
  BY DEF BestFeasibleIsHeadline
<1>1. /\ RowsInv /\ BestSubmit # NoSub /\ metric.sub = BestSubmit
      /\ metric.head = ValueOf(BestSubmit)
  BY DEF ScoringInv, MetricInv
<1>2. feasible = [count |-> Cardinality(Feasible), sub |-> BestFeasible]
  BY DEF ScoringInv, FeasibleInv, Between
<1>3. PICK p \in SimOk :
          /\ BestSubmit = rows[p]
          /\ \A k \in SimOk : Value(k) # NoValue =>
               Value(p) # NoValue /\ ~Better(Value(k), Value(p))
  BY <1>1, BestSubmitFacts
<1>4. \A k \in SimOk :
        /\ k \in 1..Len(rows) /\ Metric(k) \in challenge.metrics
        /\ Value(k) = Metric(k).head
  BY <1>1, SimOkFacts, ValuesAreNumbers
<1>5. \A m \in challenge.metrics :
        /\ m.raw \in Nat \cup {NoValue} /\ m.feasible \in BOOLEAN
        /\ m.raw # NoValue =>
            /\ Lower
            /\ IF m.feasible THEN m.head = m.raw /\ m.raw < Sentinel
                             ELSE m.head \in Nat /\ ~Measured(m.head)
  BY <1>1, ScoringAssumption DEF RowsInv, GatesPenalties, Lower
<1>6. Metric(p).raw # NoValue /\ metric.head = Metric(p).head
  <2>1. Metric(p).raw # NoValue
    BY <1>1, <1>3 DEF Metric
  <2>2. metric.head = Value(p)
    BY <1>1, <1>3 DEF Value
  <2> QED BY <1>4, <2>1, <2>2
<1>7. Lower /\ Metric(p) \in challenge.metrics /\ Sentinel \in Nat
  BY <1>4, <1>5, <1>6, ScoringAssumption
<1>8. IsFiniteSet(Feasible) /\ Cardinality(Feasible) \in Nat
        /\ (Cardinality(Feasible) = 0 <=> Feasible = {})
  <2>1. Len(rows) \in Nat /\ Feasible \subseteq 1..Len(rows)
    BY <1>1, SimOkFacts DEF Feasible
  <2>2. IsFiniteSet(1..Len(rows))
    BY <2>1, FS_Interval
  <2>3. IsFiniteSet(Feasible)
    BY <2>1, <2>2, FS_Subset
  <2> QED BY <2>3, FS_CardinalityType, FS_EmptySet
<1>9. CASE Feasible = {}
  <2>1. ~(feasible.count > 0)
    BY <1>2, <1>8, <1>9
  <2>2. ~Metric(p).feasible
    BY <1>6, <1>9 DEF Feasible
  <2> QED BY <1>5, <1>6, <1>7, <2>1, <2>2
<1>10. CASE Feasible # {}
  <2>1. feasible.count > 0 /\ feasible.sub = BestFeasible
    BY <1>2, <1>8, <1>10
  <2>2. PICK q \in Feasible :
              /\ BestFeasible = rows[q]
              /\ \A k \in Feasible : ~(Metric(k).raw < Metric(q).raw)
    BY <1>1, <1>10, BestFeasibleFacts
  <2>3. /\ q \in SimOk /\ Metric(q).feasible /\ Metric(q).raw # NoValue
        /\ Metric(q) \in challenge.metrics /\ Value(q) = Metric(q).head
    BY <1>4, <2>2 DEF Feasible
  <2>4. /\ Metric(q).head = Metric(q).raw /\ Metric(q).raw < Sentinel
        /\ Metric(q).raw \in Nat
    BY <1>5, <2>3
  <2>5. ~(Metric(q).head < Metric(p).head)
    <3>1. ~Better(Value(q), Value(p))
      BY <1>3, <2>3, <2>4, ScoringAssumption
    <3> QED BY <1>4, <1>7, <2>3, <3>1 DEF Better
  <2>6. Metric(p).feasible
    <3> SUFFICES ASSUME ~Metric(p).feasible PROVE FALSE
      BY <1>5, <1>7
    <3>1. Metric(p).head \in Nat /\ ~Measured(Metric(p).head)
      BY <1>5, <1>6, <1>7
    <3>2. Metric(p).head # NoValue
      BY <3>1, ScoringAssumption
    <3> QED BY <1>7, <2>4, <2>5, <3>1, <3>2 DEF Measured
  <2>7. p \in Feasible /\ Metric(p).head = Metric(p).raw /\ Metric(p).raw \in Nat
    BY <1>5, <1>6, <1>7, <2>6 DEF Feasible
  <2>8. Metric(p).raw = Metric(q).raw
    BY <2>2, <2>4, <2>5, <2>7
  <2>9. MetricOf(feasible.sub) = Metric(q)
    BY <2>1, <2>2 DEF Metric
  <2> QED BY <1>6, <2>1, <2>7, <2>8, <2>9
<1> QED BY <1>9, <1>10

(* Whoever looks for the best submission finds the same one:               *)
(* _best_submit_outcomes, _actual_metric and iteration_quality by their    *)
(* three loops, and _best_feasible_edp where evaluate.sh gates edp to a    *)
(* penalty exactly for designs that are not feasible; whichever of them    *)
(* read the rows, in whatever order they are listed, and however often.    *)
THEOREM JudgesFindOne ==
    ASSUME GatesPenalties PROVE Spec => []BestIsOne
<1>1. ScoringInv => BestIsOne
  BY InvAgree, InvFeasible DEF BestIsOne
<1> QED BY <1>1, ScoringAlways, PTL

(***************************************************************************)
(* What a run leaves behind                                                *)
(***************************************************************************)
(* What is written, as the events tell it.                                 *)
Told == Seq(Letters \cup {"fence"})
Actions == Ids \cup {"none", "bash", "file_change"}

Changes ==
    [type : {"write"}, name : Names, form : Forms, text : Told]
    \cup [type : {"edit"}, name : Names, form : Forms, old : Letters, new : Letters]
Others ==
    [type : {"call"}, id : Ids \cup {"bash"}] \cup [type : {"text"}, said : BOOLEAN]
    \cup [type : {"start"}] \cup [type : {"end"}]
Events == Changes \cup Others

Dicts == Seq([name : Names, form : Forms, text : Told])
Accs == [steps : Seq(Actions), cur : [action : Actions, said : BOOLEAN]]

(* What the fields of an event are.                                        *)
LEMMA EventFields ==
    ASSUME NEW e \in Events
    PROVE  /\ e.type \in {"write", "edit", "call", "text", "start", "end"}
           /\ TellsChange(e) => e.name \in Names /\ e.form \in Forms
           /\ e.type = "write" => e.text \in Told
           /\ e.type = "edit" => e.new \in Letters
           /\ e.type = "call" => e.id \in Ids \cup {"bash"}
           /\ e.type = "text" => e.said \in BOOLEAN
BY DEF Events, Changes, Others, TellsChange

(* Replacing the first occurrence gives a text.                            *)
LEMMA ReplaceTyped ==
    ASSUME NEW S, NEW c \in Seq(S), NEW x, NEW y \in S
    PROVE  ReplaceFirst(c, x, y) \in Seq(S)
<1>1. CASE Where(c, x) = {}
  BY <1>1 DEF ReplaceFirst
<1>2. CASE Where(c, x) # {}
  <2>1. Min(Where(c, x)) \in 1..Len(c)
    <3>1. Where(c, x) \in SUBSET Nat /\ Where(c, x) \subseteq 1..Len(c)
      BY DEF Where
    <3> QED BY <1>2, <3>1, MinOfNumbers
  <2> QED BY <1>2, <2>1 DEF ReplaceFirst
<1> QED BY <1>1, <1>2

(* The text an edit is made to is a text.                                  *)
LEMMA TextTyped ==
    ASSUME NEW dict \in Dicts, NEW e PROVE TextOf(dict, e) \in Told
<1> DEFINE S == [name : Names, form : Forms, text : Told]
<1>1. CASE Index(dict, e) = {}
  BY <1>1 DEF TextOf, Told
<1>2. CASE Index(dict, e) # {}
  <2>1. Index(dict, e) \in SUBSET Nat /\ Index(dict, e) \subseteq 1..Len(dict)
    BY DEF Index
  <2>2. dict \in Seq(S) /\ Min(Index(dict, e)) \in 1..Len(dict)
    BY <1>2, <2>1, MinOfNumbers DEF Dicts
  <2> HIDE DEF S
  <2>3. dict[Min(Index(dict, e))] \in S
    BY <2>2
  <2> QED BY <1>2, <2>3 DEF TextOf, S
<1> QED BY <1>1, <1>2

(* Replaying an event gives a dict.                                        *)
LEMMA ReplayTyped ==
    ASSUME NEW dict \in Dicts, NEW e \in Events PROVE Replay(dict, e) \in Dicts
<1>1. CASE ~TellsChange(e)
  BY <1>1 DEF Replay
<1>2. CASE TellsChange(e)
  <2>1. Index(dict, e) # {} => Min(Index(dict, e)) \in 1..Len(dict)
    <3>1. Index(dict, e) \in SUBSET Nat /\ Index(dict, e) \subseteq 1..Len(dict)
      BY DEF Index
    <3> QED BY <3>1, MinOfNumbers
  <2>2. ASSUME NEW text \in Told PROVE Put(dict, e, text) \in Dicts
    <3>1. Entry(e.name, e.form, text) \in [name : Names, form : Forms, text : Told]
      BY <1>2, EventFields DEF Entry
    <3> DEFINE entry == Entry(e.name, e.form, text)
               S == [name : Names, form : Forms, text : Told]
               i == Min(Index(dict, e))
    <3>2. dict \in Seq(S)
      BY DEF Dicts
    <3>3. Put(dict, e, text) = IF Index(dict, e) = {} THEN Append(dict, entry)
                               ELSE [dict EXCEPT ![i] = entry]
      BY DEF Put
    <3>4. entry \in S /\ (Index(dict, e) # {} => i \in 1..Len(dict))
      BY <2>1, <3>1
    <3> HIDE DEF entry, S, i
    <3>5. Append(dict, entry) \in Seq(S)
      BY <3>2, <3>4
    <3>6. Index(dict, e) # {} => [dict EXCEPT ![i] = entry] \in Seq(S)
      BY <3>2, <3>4
    <3>7. Put(dict, e, text) \in Seq(S)
      BY <3>3, <3>5, <3>6
    <3> QED BY <3>7 DEF S, Dicts
  <2>3. TextOf(dict, e) \in Told
    BY TextTyped
  <2>4. e.type = "write" => e.text \in Told
    BY EventFields
  <2>5. e.type = "edit" => ReplaceFirst(TextOf(dict, e), e.old, e.new) \in Told
    <3>1. e.type = "edit" => e.new \in Letters \cup {"fence"}
      BY EventFields
    <3> QED BY <2>3, <3>1, ReplaceTyped DEF Told
  <2>6. e.type # "write" => e.type = "edit"
    BY <1>2 DEF TellsChange
  <2> QED BY <1>2, <2>2, <2>4, <2>5, <2>6 DEF Replay
<1> QED BY <1>1, <1>2

(* The replay of all events is a loop over them.                           *)
LEMMA ReplayAllIsLoop ==
    ASSUME NEW dict \in Dicts, NEW events \in Seq(Events)
    PROVE  \E f : /\ f[0] = dict
                  /\ \A k \in 1..Len(events) : f[k] = Replay(f[k - 1], events[k])
                  /\ ReplayAll(dict, events) = f[Len(events)]
                  /\ f[Len(events)] \in Dicts
<1> DEFINE n == Len(events)
           step == [x \in Dicts \X (1..n) |-> Replay(x[1], events[x[2]])]
           Body(f) == [k \in 0..n |-> IF k = 0 THEN dict ELSE Replay(f[k - 1], events[k])]
           g == CHOOSE f : f = Body(f)
<1>1. n \in Nat /\ \A k \in 1..n : events[k] \in Events
  OBVIOUS
<1>2. step \in [Dicts \X (1..n) -> Dicts]
  <2>1. \A x \in Dicts \X (1..n) : Replay(x[1], events[x[2]]) \in Dicts
    BY <1>1, ReplayTyped
  <2> HIDE DEF n
  <2> QED BY <2>1
<1>3. \A x \in Dicts, k \in 1..n : step[<<x, k>>] = Replay(x, events[k])
  OBVIOUS
<1>4. PICK f : IsLoop(f, n, Dicts, dict, step)
  <2> HIDE DEF n, step
  <2> QED BY <1>1, <1>2, LoopExists
<1>5. f = Body(f)
  <2> HIDE DEF n, step
  <2>1. \A k \in 0..n : f[k] = IF k = 0 THEN dict ELSE Replay(f[k - 1], events[k])
    <3> TAKE k \in 0..n
    <3>1. CASE k = 0
      BY <1>4, <3>1 DEF IsLoop
    <3>2. CASE k # 0
      <4>1. k \in 1..n /\ k - 1 \in 0..n
        BY <1>1, <3>2
      <4>2. f[k] = step[<<f[k - 1], k>>] /\ f[k - 1] \in Dicts
        BY <1>4, <4>1 DEF IsLoop
      <4> QED BY <1>3, <3>2, <4>1, <4>2
    <3> QED BY <3>1, <3>2
  <2> QED BY <1>4, <2>1 DEF IsLoop
<1>6. g = Body(g)
  <2> HIDE DEF Body
  <2> QED BY <1>5
<1>7. ReplayAll(dict, events) = g[n]
  BY DEF ReplayAll
<1> HIDE DEF g, n
<1>8. \A h : h = Body(h) => h[0] = dict /\ \A k \in 1..n : h[k] = Replay(h[k - 1], events[k])
  <2>1. 0 \in 0..n /\ \A k \in 1..n : k \in 0..n /\ k # 0
    BY <1>1
  <2> QED BY <2>1
<1>9. f[n] = g[n]
  <2> HIDE DEF Body
  <2> QED BY <1>1, <1>5, <1>6, <1>8, LoopsAgree
<1>10. f[n] \in Dicts
  BY <1>1, <1>4 DEF IsLoop
<1> HIDE DEF Body
<1> QED BY <1>5, <1>7, <1>8, <1>9, <1>10 DEF n

(* What is in a sequence when an element was appended.                     *)
LEMMA Appended ==
    ASSUME NEW S, NEW s \in Seq(S), NEW e \in S
    PROVE  /\ Append(s, e) \in Seq(S) /\ Len(Append(s, e)) = Len(s) + 1
           /\ Append(s, e)[Len(s) + 1] = e
           /\ \A k \in 1..Len(s) : Append(s, e)[k] = s[k]
           /\ Len(s) \in Nat
OBVIOUS

(* One event more is replayed last.                                        *)
LEMMA ReplayGrows ==
    ASSUME NEW dict \in Dicts, NEW events \in Seq(Events), NEW e \in Events
    PROVE  /\ ReplayAll(dict, events) \in Dicts
           /\ ReplayAll(dict, Append(events, e)) = Replay(ReplayAll(dict, events), e)
<1> DEFINE more == Append(events, e)
           n == Len(events)
<1>1. /\ more \in Seq(Events) /\ Len(more) = n + 1 /\ more[n + 1] = e /\ n \in Nat
      /\ \A k \in 1..n : more[k] = events[k]
  BY Appended
<1> HIDE DEF more
<1>2. PICK f : /\ f[0] = dict /\ \A k \in 1..n : f[k] = Replay(f[k - 1], events[k])
               /\ ReplayAll(dict, events) = f[n] /\ f[n] \in Dicts
  BY ReplayAllIsLoop
<1> HIDE DEF n
<1>3. PICK g : /\ g[0] = dict /\ \A k \in 1..(n + 1) : g[k] = Replay(g[k - 1], more[k])
               /\ ReplayAll(dict, more) = g[n + 1]
  <2>1. \E g : /\ g[0] = dict
               /\ \A k \in 1..Len(more) : g[k] = Replay(g[k - 1], more[k])
               /\ ReplayAll(dict, more) = g[Len(more)]
    <3>1. more \in Seq(Events)
      BY <1>1
    <3>2. \E h : /\ h[0] = dict
                 /\ \A k \in 1..Len(more) : h[k] = Replay(h[k - 1], more[k])
                 /\ ReplayAll(dict, more) = h[Len(more)]
                 /\ h[Len(more)] \in Dicts
      BY <3>1, ReplayAllIsLoop, Zenon
    <3> QED BY <3>2, Zenon
  <2>2. Len(more) = n + 1
    BY <1>1
  <2> QED BY <2>1, <2>2, Zenon
<1>4. f[n] = g[n]
  <2>1. \A k \in 1..n : k \in 1..(n + 1)
    BY <1>1
  <2> QED BY <1>1, <1>2, <1>3, <2>1, LoopsAgree
<1>5. g[n + 1] = Replay(g[n], e)
  <2>1. n + 1 \in 1..(n + 1) /\ (n + 1) - 1 = n
    BY <1>1
  <2> QED BY <1>1, <1>3, <2>1
<1> QED BY <1>2, <1>3, <1>4, <1>5 DEF more

(* The steps that the adapter makes of them.                               *)
Begun == [steps |-> <<>>, cur |-> NoStep]

(* What flushing does to the steps.                                        *)
LEMMA FlushFields ==
    ASSUME NEW acc \in Accs, NEW e
    PROVE  /\ Flush(acc, e) \in Seq(Actions)
           /\ IF acc.cur.said \/ acc.cur.action # NoAction
              THEN /\ Len(Flush(acc, e)) = Len(acc.steps) + 1
                   /\ Flush(acc, e)[Len(acc.steps) + 1] = acc.cur.action
                   /\ \A k \in 1..Len(acc.steps) : Flush(acc, e)[k] = acc.steps[k]
              ELSE Flush(acc, e) = acc.steps
<1>1. acc.steps \in Seq(Actions) /\ acc.cur.action \in Actions
  BY DEF Accs
<1> QED BY <1>1 DEF Flush

(* A tool call is an action.                                               *)
LEMMA ActionFields ==
    ASSUME NEW e \in Events, e.type \notin {"start", "end", "text"}
    PROVE  Action(e) \in Actions \ {NoAction}
BY EventFields, TrailAssumption DEF Action, Actions, NoAction, TellsChange

(* What an event does to the step under way.                               *)
LEMMA AdaptFields ==
    ASSUME NEW acc \in Accs, NEW e \in Events
    PROVE  /\ AdaptEvent(acc, e) \in Accs
           /\ e.type \in {"start", "end"} =>
                /\ AdaptEvent(acc, e).steps = Flush(acc, e)
                /\ AdaptEvent(acc, e).cur = NoStep
           /\ e.type = "text" =>
                /\ AdaptEvent(acc, e).steps = acc.steps
                /\ AdaptEvent(acc, e).cur.action = acc.cur.action
                /\ AdaptEvent(acc, e).cur.said = (acc.cur.said \/ e.said)
           /\ e.type \notin {"start", "end", "text"} =>
                /\ AdaptEvent(acc, e).steps = acc.steps
                /\ AdaptEvent(acc, e).cur.action = Action(e)
                /\ AdaptEvent(acc, e).cur.said = acc.cur.said
<1>1. CASE e.type \in {"start", "end"}
  <2>1. Flush(acc, e) \in Seq(Actions) /\ NoStep \in [action : Actions, said : BOOLEAN]
    BY FlushFields DEF NoStep, NoAction, Actions
  <2>2. AdaptEvent(acc, e) = [steps |-> Flush(acc, e), cur |-> NoStep]
    BY <1>1 DEF AdaptEvent
  <2> QED BY <1>1, <2>1, <2>2 DEF Accs
<1>2. CASE e.type = "text"
  <2> DEFINE b == acc.cur.said \/ e.said
  <2>1. b \in BOOLEAN /\ AdaptEvent(acc, e) = [acc EXCEPT !.cur.said = b]
    BY <1>2 DEF AdaptEvent
  <2> HIDE DEF b
  <2>2. /\ AdaptEvent(acc, e) \in Accs /\ AdaptEvent(acc, e).steps = acc.steps
        /\ AdaptEvent(acc, e).cur.action = acc.cur.action
        /\ AdaptEvent(acc, e).cur.said = b
    BY <2>1 DEF Accs
  <2> QED BY <1>2, <2>2 DEF b
<1>3. CASE e.type \notin {"start", "end", "text"}
  <2>1. AdaptEvent(acc, e) = [acc EXCEPT !.cur.action = Action(e)]
    BY <1>3 DEF AdaptEvent
  <2> QED BY <1>3, <2>1, ActionFields DEF Accs
<1> QED BY <1>1, <1>2, <1>3

(* Adapting an event keeps the types.                                      *)
LEMMA AdaptTyped ==
    /\ Begun \in Accs
    /\ \A acc \in Accs, e \in Events : AdaptEvent(acc, e) \in Accs
<1>1. <<>> \in Seq(Actions) /\ NoStep \in [action : Actions, said : BOOLEAN]
  BY DEF NoStep, NoAction, Actions
<1>2. Begun \in Accs
  BY <1>1 DEF Begun, Accs
<1> QED BY <1>2, AdaptFields

(* The adapter is a loop over the events.                                  *)
LEMMA AdaptAllIsLoop ==
    ASSUME NEW events \in Seq(Events)
    PROVE  \E f : /\ f[0] = Begun
                  /\ \A k \in 1..Len(events) : f[k] = AdaptEvent(f[k - 1], events[k])
                  /\ AdaptAll(events) = f[Len(events)]
                  /\ f[Len(events)] \in Accs
<1> DEFINE n == Len(events)
           step == [x \in Accs \X (1..n) |-> AdaptEvent(x[1], events[x[2]])]
           Body(f) == [k \in 0..n |-> IF k = 0 THEN Begun ELSE AdaptEvent(f[k - 1], events[k])]
           g == CHOOSE f : f = Body(f)
<1>1. n \in Nat /\ \A k \in 1..n : events[k] \in Events
  OBVIOUS
<1>2. step \in [Accs \X (1..n) -> Accs]
  <2>1. \A x \in Accs \X (1..n) : AdaptEvent(x[1], events[x[2]]) \in Accs
    BY <1>1, AdaptTyped
  <2> HIDE DEF n
  <2> QED BY <2>1
<1>3. \A x \in Accs, k \in 1..n : step[<<x, k>>] = AdaptEvent(x, events[k])
  OBVIOUS
<1>4. PICK f : IsLoop(f, n, Accs, Begun, step)
  <2> HIDE DEF n, step
  <2> QED BY <1>1, <1>2, AdaptTyped, LoopExists
<1>5. f = Body(f)
  <2> HIDE DEF n, step
  <2>1. \A k \in 0..n : f[k] = IF k = 0 THEN Begun ELSE AdaptEvent(f[k - 1], events[k])
    <3> TAKE k \in 0..n
    <3>1. CASE k = 0
      BY <1>4, <3>1 DEF IsLoop
    <3>2. CASE k # 0
      <4>1. k \in 1..n /\ k - 1 \in 0..n
        BY <1>1, <3>2
      <4>2. f[k] = step[<<f[k - 1], k>>] /\ f[k - 1] \in Accs
        BY <1>4, <4>1 DEF IsLoop
      <4> QED BY <1>3, <3>2, <4>1, <4>2
    <3> QED BY <3>1, <3>2
  <2> QED BY <1>4, <2>1 DEF IsLoop
<1>6. g = Body(g)
  <2> HIDE DEF Body
  <2> QED BY <1>5
<1>7. AdaptAll(events) = g[n]
  BY DEF AdaptAll, Begun
<1> HIDE DEF g, n
<1>8. \A h : h = Body(h) => h[0] = Begun /\ \A k \in 1..n : h[k] = AdaptEvent(h[k - 1], events[k])
  <2>1. 0 \in 0..n /\ \A k \in 1..n : k \in 0..n /\ k # 0
    BY <1>1
  <2> QED BY <2>1
<1>9. f[n] = g[n]
  <2> HIDE DEF Body
  <2> QED BY <1>1, <1>5, <1>6, <1>8, LoopsAgree
<1>10. f[n] \in Accs
  BY <1>1, <1>4 DEF IsLoop
<1> HIDE DEF Body
<1> QED BY <1>5, <1>7, <1>8, <1>9, <1>10 DEF n

(* One event more is adapted last.                                         *)
LEMMA AdaptGrows ==
    ASSUME NEW events \in Seq(Events), NEW e \in Events
    PROVE  /\ AdaptAll(events) \in Accs
           /\ AdaptAll(Append(events, e)) = AdaptEvent(AdaptAll(events), e)
<1> DEFINE more == Append(events, e)
           n == Len(events)
<1>1. /\ more \in Seq(Events) /\ Len(more) = n + 1 /\ more[n + 1] = e /\ n \in Nat
      /\ \A k \in 1..n : more[k] = events[k]
  BY Appended
<1> HIDE DEF more
<1>2. PICK f : /\ f[0] = Begun /\ \A k \in 1..n : f[k] = AdaptEvent(f[k - 1], events[k])
               /\ AdaptAll(events) = f[n] /\ f[n] \in Accs
  BY AdaptAllIsLoop
<1> HIDE DEF n
<1>3. PICK g : /\ g[0] = Begun /\ \A k \in 1..(n + 1) : g[k] = AdaptEvent(g[k - 1], more[k])
               /\ AdaptAll(more) = g[n + 1]
  <2>1. \E g : /\ g[0] = Begun
               /\ \A k \in 1..Len(more) : g[k] = AdaptEvent(g[k - 1], more[k])
               /\ AdaptAll(more) = g[Len(more)]
    <3>1. more \in Seq(Events)
      BY <1>1
    <3>2. \E h : /\ h[0] = Begun
                 /\ \A k \in 1..Len(more) : h[k] = AdaptEvent(h[k - 1], more[k])
                 /\ AdaptAll(more) = h[Len(more)]
                 /\ h[Len(more)] \in Accs
      BY <3>1, AdaptAllIsLoop, Zenon
    <3> QED BY <3>2, Zenon
  <2>2. Len(more) = n + 1
    BY <1>1
  <2> QED BY <2>1, <2>2, Zenon
<1>4. f[n] = g[n]
  <2>1. \A k \in 1..n : k \in 1..(n + 1)
    BY <1>1
  <2> QED BY <1>1, <1>2, <1>3, <2>1, LoopsAgree
<1>5. g[n + 1] = AdaptEvent(g[n], e)
  <2>1. n + 1 \in 1..(n + 1) /\ (n + 1) - 1 = n
    BY <1>1
  <2> QED BY <1>1, <1>3, <2>1
<1> QED BY <1>2, <1>3, <1>4, <1>5 DEF more

(***************************************************************************)
(* The trail, and the files                                                *)
(***************************************************************************)
Contents == Seq(Letters) \cup {NoFile}

TrailTypes ==
    /\ runtime \in {"claude_code", "mini"}
    /\ DOMAIN starter \subseteq Names /\ starter \in [DOMAIN starter -> Texts]
    /\ files \in [Places -> Contents]
    /\ trail \in Seq(Events)
    /\ inTurn \in BOOLEAN
    /\ forms \in [Names -> SUBSET Forms]

(* The replay has one entry for each path a name was written under, and    *)
(* the text of a name that has one path and changed as told is the file's. *)
DictFor(dict, fm, od, fl) ==
    /\ dict \in Dicts
    /\ \A i \in 1..Len(dict) : dict[i].form \in fm[dict[i].name]
    /\ \A i, j \in 1..Len(dict) :
         dict[i].name = dict[j].name /\ dict[i].form = dict[j].form => i = j
    /\ \A n \in Names : \A form \in fm[n] :
         \E i \in 1..Len(dict) : dict[i].name = n /\ dict[i].form = form
    /\ \A n \in Names \ od, form \in Forms : fm[n] = {form} =>
         \A i \in 1..Len(dict) : dict[i].name = n => dict[i].text = fl[Place(n, "abs")]

FilesInv ==
    /\ \A n \in Names : forms[n] = {} /\ n \notin odd =>
         files[Place(n, "abs")] = NoFile
    /\ DictFor(Replayed, forms, odd, files)

(* Two paths are one place only by the two ways to write it.               *)
LEMMA PlacesAre ==
    /\ \A n \in Names, form \in Forms : Place(n, form) \in Places
    /\ \A n, m, f, g :
         Place(n, f) = Place(m, g) <=> n = m /\ (f = "starter" <=> g = "starter")
BY DEF Places, Place

(* What an edit does to a file.                                            *)
LEMMA ReplaceInFile ==
    ASSUME NEW text \in Seq(Letters), NEW x \in Letters, NEW y \in Letters
    PROVE  /\ ReplaceFirst(text, x, y) \in Seq(Letters)
           /\ [i \in 1..Len(text) |-> IF text[i] = x THEN y ELSE text[i]] \in Seq(Letters)
           /\ Cardinality(Where(text, x)) \in Nat
           /\ Cardinality(Where(text, x)) = 0 =>
                /\ ReplaceFirst(text, x, y) = text
                /\ [i \in 1..Len(text) |-> IF text[i] = x THEN y ELSE text[i]] = text
<1>1. ReplaceFirst(text, x, y) \in Seq(Letters)
  BY ReplaceTyped
<1>2. IsFiniteSet(Where(text, x))
  <2>1. IsFiniteSet(1..Len(text)) /\ Where(text, x) \subseteq 1..Len(text)
    <3>1. Len(text) \in Nat
      OBVIOUS
    <3> QED BY <3>1, FS_Interval DEF Where
  <2> QED BY <2>1, FS_Subset
<1>3. Cardinality(Where(text, x)) \in Nat
  BY <1>2, FS_CardinalityType
<1>4. ASSUME Cardinality(Where(text, x)) = 0
      PROVE  /\ ReplaceFirst(text, x, y) = text
             /\ [i \in 1..Len(text) |-> IF text[i] = x THEN y ELSE text[i]] = text
  <2>1. Where(text, x) = {}
    BY <1>2, <1>4, FS_EmptySet
  <2>2. \A i \in 1..Len(text) : text[i] # x
    BY <2>1 DEF Where
  <2>3. [i \in 1..Len(text) |-> IF text[i] = x THEN y ELSE text[i]] = text
    BY <2>2
  <2> QED BY <2>1, <2>3 DEF ReplaceFirst
<1>5. [i \in 1..Len(text) |-> IF text[i] = x THEN y ELSE text[i]] \in Seq(Letters)
  OBVIOUS
<1> QED BY <1>1, <1>3, <1>4, <1>5

(* What an event does to the replay.                                       *)
LEMMA PutFields ==
    ASSUME NEW dict \in Dicts, NEW e \in Events, TellsChange(e), NEW text \in Told,
           \A i, j \in 1..Len(dict) :
             dict[i].name = dict[j].name /\ dict[i].form = dict[j].form => i = j
    PROVE  LET d == Put(dict, e, text) IN
           IF \E i \in 1..Len(dict) : dict[i].name = e.name /\ dict[i].form = e.form
           THEN \E i \in 1..Len(dict) :
                  /\ dict[i].name = e.name /\ dict[i].form = e.form
                  /\ TextOf(dict, e) = dict[i].text
                  /\ Len(d) = Len(dict) /\ d[i] = Entry(e.name, e.form, text)
                  /\ \A j \in 1..Len(dict) \ {i} : d[j] = dict[j]
           ELSE /\ Len(d) = Len(dict) + 1
                /\ d[Len(dict) + 1] = Entry(e.name, e.form, text)
                /\ \A j \in 1..Len(dict) : d[j] = dict[j]
<1>1. dict \in Seq([name : Names, form : Forms, text : Told]) /\ Len(dict) \in Nat
  BY DEF Dicts
<1>2. CASE \E i \in 1..Len(dict) : dict[i].name = e.name /\ dict[i].form = e.form
  <2>1. PICK i \in 1..Len(dict) : dict[i].name = e.name /\ dict[i].form = e.form
    BY <1>2
  <2>2. Index(dict, e) = {i}
    BY <2>1 DEF Index
  <2>3. Min({i}) = i
    <3>1. {i} \in SUBSET Nat
      OBVIOUS
    <3> QED BY <3>1, MinOfNumbers
  <2>4. /\ TextOf(dict, e) = dict[i].text
        /\ Put(dict, e, text) = [dict EXCEPT ![i] = Entry(e.name, e.form, text)]
    <3>1. {i} # {}
      OBVIOUS
    <3> QED BY <2>2, <2>3, <3>1 DEF TextOf, Put
  <2> HIDE DEF Put, Entry
  <2> QED BY <1>1, <1>2, <2>1, <2>4
<1>3. CASE ~\E i \in 1..Len(dict) : dict[i].name = e.name /\ dict[i].form = e.form
  <2>1. Index(dict, e) = {}
    BY <1>3 DEF Index
  <2>2. Put(dict, e, text) = Append(dict, Entry(e.name, e.form, text))
    BY <2>1 DEF Put
  <2> QED BY <1>1, <1>3, <2>2
<1> QED BY <1>2, <1>3

(* What the fields of an entry are.                                        *)
LEMMA DictFields ==
    ASSUME NEW dict \in Dicts
    PROVE  /\ Len(dict) \in Nat
           /\ \A j \in 1..Len(dict) :
                dict[j].name \in Names /\ dict[j].form \in Forms /\ dict[j].text \in Told
<1> DEFINE S == [name : Names, form : Forms, text : Told]
<1>1. dict \in Seq(S)
  BY DEF Dicts
<1>2. \A x \in S : x.name \in Names /\ x.form \in Forms /\ x.text \in Told
  OBVIOUS
<1> HIDE DEF S
<1>3. Len(dict) \in Nat /\ \A j \in 1..Len(dict) : dict[j] \in S
  BY <1>1
<1> QED BY <1>2, <1>3

(* The entries after a change: one is new, or took the place of its path's. *)
LEMMA PutIs ==
    ASSUME NEW dict \in Dicts, NEW e \in Events, TellsChange(e), NEW text \in Told,
           \A i, j \in 1..Len(dict) :
             dict[i].name = dict[j].name /\ dict[i].form = dict[j].form => i = j
    PROVE  LET d == Put(dict, e, text) IN
           \E i \in 1..Len(d) :
              /\ d[i].name = e.name /\ d[i].form = e.form /\ d[i].text = text
              /\ \A j \in 1..Len(d) \ {i} :
                   /\ j \in 1..Len(dict) /\ d[j] = dict[j]
                   /\ ~(d[j].name = e.name /\ d[j].form = e.form)
              /\ \A j \in 1..Len(dict) :
                   \/ j \in 1..Len(d) \ {i}
                   \/ dict[j].name = e.name /\ dict[j].form = e.form
<1> DEFINE d == Put(dict, e, text)
           entry == Entry(e.name, e.form, text)
<1>1. Len(dict) \in Nat
  BY DEF Dicts
<1>2. entry.name = e.name /\ entry.form = e.form /\ entry.text = text
  BY DEF Entry
<1> HIDE DEF entry
<1>3. CASE \E i \in 1..Len(dict) : dict[i].name = e.name /\ dict[i].form = e.form
  <2>1. PICK i \in 1..Len(dict) :
                  /\ dict[i].name = e.name /\ dict[i].form = e.form
                  /\ Len(d) = Len(dict) /\ d[i] = entry
                  /\ \A j \in 1..Len(dict) \ {i} : d[j] = dict[j]
    BY <1>3, PutFields DEF entry
  <2> HIDE DEF d
  <2>2. i \in 1..Len(d) /\ d[i].name = e.name /\ d[i].form = e.form /\ d[i].text = text
    BY <1>2, <2>1
  <2>3. \A j \in 1..Len(d) \ {i} :
                   /\ j \in 1..Len(dict) /\ d[j] = dict[j]
                   /\ ~(d[j].name = e.name /\ d[j].form = e.form)
    BY <2>1
  <2>4. \A j \in 1..Len(dict) :
                   \/ j \in 1..Len(d) \ {i}
                   \/ dict[j].name = e.name /\ dict[j].form = e.form
    <3> TAKE j \in 1..Len(dict)
    <3>1. j # i => j \in 1..Len(d) \ {i}
      BY <2>1
    <3>2. j = i => dict[j].name = e.name /\ dict[j].form = e.form
      BY <2>1
    <3> QED BY <3>1, <3>2
  <2> QED BY <2>2, <2>3, <2>4 DEF d
<1>4. CASE ~\E i \in 1..Len(dict) : dict[i].name = e.name /\ dict[i].form = e.form
  <2>1. /\ Len(d) = Len(dict) + 1
        /\ d[Len(dict) + 1] = entry
        /\ \A j \in 1..Len(dict) : d[j] = dict[j]
    BY <1>4, PutFields DEF entry
  <2> HIDE DEF d
  <2> DEFINE i == Len(dict) + 1
  <2>2. i \in 1..Len(d) /\ d[i].name = e.name /\ d[i].form = e.form /\ d[i].text = text
    BY <1>1, <1>2, <2>1
  <2>3. \A j \in 1..Len(d) \ {i} :
                   /\ j \in 1..Len(dict) /\ d[j] = dict[j]
                   /\ ~(d[j].name = e.name /\ d[j].form = e.form)
    <3> TAKE j \in 1..Len(d) \ {i}
    <3>1. j \in 1..Len(dict)
      BY <1>1, <2>1
    <3> QED BY <1>4, <2>1, <3>1
  <2>4. \A j \in 1..Len(dict) : j \in 1..Len(d) \ {i}
    BY <1>1, <2>1
  <2> HIDE DEF i
  <2> QED BY <2>2, <2>3, <2>4 DEF d
<1> QED BY <1>3, <1>4

(* Putting a text gives a dict.                                            *)
LEMMA PutTyped ==
    ASSUME NEW dict \in Dicts, NEW e \in Events, TellsChange(e), NEW text \in Told
    PROVE  Put(dict, e, text) \in Dicts
<1> DEFINE ev == [type |-> "write", name |-> e.name, form |-> e.form, text |-> text]
<1>1. ev \in Events /\ TellsChange(ev) /\ ev.type = "write" /\ ev.text = text
      /\ ev.name = e.name /\ ev.form = e.form
  BY EventFields DEF Events, Changes, TellsChange
<1> HIDE DEF ev
<1>2. Replay(dict, ev) = Put(dict, ev, text)
  BY <1>1 DEF Replay
<1>3. Put(dict, ev, text) = Put(dict, e, text)
  BY <1>1 DEF Put, Index, Entry
<1> QED BY <1>1, <1>2, <1>3, ReplayTyped

(* A change that is told of one name leaves the texts of the others.       *)
LEMMA PutKeeps ==
    ASSUME NEW dict \in Dicts, NEW e \in Events, TellsChange(e), NEW text \in Told,
           NEW fm \in [Names -> SUBSET Forms], NEW od, NEW fl,
           NEW od2, NEW fl2, DictFor(dict, fm, od, fl),
           \A m \in Names \ {e.name} :
             /\ m \notin od2 => m \notin od
             /\ fl2[Place(m, "abs")] = fl[Place(m, "abs")],
           e.name \notin od2 /\ fm[e.name] \subseteq {e.form} =>
             text = fl2[Place(e.name, "abs")]
    PROVE  DictFor(Put(dict, e, text), [fm EXCEPT ![e.name] = @ \cup {e.form}], od2, fl2)
<1> DEFINE d == Put(dict, e, text)
           name == e.name
           form == e.form
           fm2 == [fm EXCEPT ![e.name] = @ \cup {e.form}]
<1>1. /\ name \in Names /\ form \in Forms
      /\ fm2[name] = fm[name] \cup {form} /\ \A m \in Names \ {name} : fm2[m] = fm[m]
  BY EventFields
<1>2. d \in Dicts /\ \A j \in 1..Len(dict) : dict[j].name \in Names
  <2>1. d \in Dicts
    BY PutTyped
  <2>2. \A j \in 1..Len(dict) : dict[j].name \in Names
    BY DictFields
  <2> QED BY <2>1, <2>2
<1>3. PICK i \in 1..Len(d) :
              /\ d[i].name = name /\ d[i].form = form /\ d[i].text = text
              /\ \A j \in 1..Len(d) \ {i} :
                   /\ j \in 1..Len(dict) /\ d[j] = dict[j]
                   /\ ~(d[j].name = name /\ d[j].form = form)
              /\ \A j \in 1..Len(dict) :
                   \/ j \in 1..Len(d) \ {i}
                   \/ dict[j].name = name /\ dict[j].form = form
  <2>1. \A i, j \in 1..Len(dict) :
          dict[i].name = dict[j].name /\ dict[i].form = dict[j].form => i = j
    BY DEF DictFor
  <2> HIDE DEF fm2
  <2> QED BY <2>1, PutIs
<1> HIDE DEF d, fm2
<1>4. \A j \in 1..Len(d) : d[j].form \in fm2[d[j].name]
  <2> TAKE j \in 1..Len(d)
  <2>1. CASE j = i
    BY <1>1, <1>3, <2>1
  <2>2. CASE j # i
    <3>1. j \in 1..Len(dict) /\ d[j] = dict[j]
      BY <1>3, <2>2
    <3>2. dict[j].form \in fm[dict[j].name] /\ dict[j].name \in Names
      BY <1>2, <3>1 DEF DictFor
    <3>3. fm[dict[j].name] \subseteq fm2[dict[j].name]
      BY <1>1, <3>2
    <3> QED BY <3>1, <3>2, <3>3
  <2> QED BY <2>1, <2>2
<1>5. \A j, k \in 1..Len(d) : d[j].name = d[k].name /\ d[j].form = d[k].form => j = k
  <2> TAKE j, k \in 1..Len(d)
  <2>1. j # i /\ k # i => /\ j \in 1..Len(dict) /\ k \in 1..Len(dict)
                          /\ d[j] = dict[j] /\ d[k] = dict[k]
    BY <1>3
  <2> QED BY <1>3, <2>1 DEF DictFor
<1>6. \A n \in Names : \A f \in fm2[n] : \E j \in 1..Len(d) : d[j].name = n /\ d[j].form = f
  <2> TAKE n \in Names
  <2> TAKE f \in fm2[n]
  <2>1. CASE n = name /\ f = form
    BY <1>3, <2>1
  <2>2. CASE ~(n = name /\ f = form)
    <3>1. f \in fm[n]
      BY <1>1, <2>2
    <3>2. PICK j \in 1..Len(dict) : dict[j].name = n /\ dict[j].form = f
      BY <3>1 DEF DictFor
    <3>3. j \in 1..Len(d) \ {i}
      BY <1>3, <2>2, <3>2
    <3> QED BY <1>3, <3>2, <3>3
  <2> QED BY <2>1, <2>2
<1>7. ASSUME NEW n \in Names \ od2, NEW f \in Forms, fm2[n] = {f},
             NEW j \in 1..Len(d), d[j].name = n
      PROVE  d[j].text = fl2[Place(n, "abs")]
  <2>1. CASE n = name
    <3>1. f = form /\ fm[name] \subseteq {form}
      BY <1>1, <1>7, <2>1
    <3>2. d[j].form = form
      BY <1>4, <1>7, <3>1
    <3>3. j = i
      BY <1>3, <1>7, <2>1, <3>2
    <3> QED BY <1>3, <1>7, <2>1, <3>1, <3>3
  <2>2. CASE n # name
    <3>1. fm[n] = {f} /\ n \notin od /\ fl2[Place(n, "abs")] = fl[Place(n, "abs")]
      BY <1>1, <1>7, <2>2
    <3>2. j \in 1..Len(dict) /\ d[j] = dict[j]
      BY <1>3, <1>7, <2>2
    <3> QED BY <1>7, <3>1, <3>2 DEF DictFor
  <2> QED BY <2>1, <2>2
<1>8. DictFor(d, fm2, od2, fl2)
  <2> HIDE DEF name, form
  <2> QED BY <1>2, <1>4, <1>5, <1>6, <1>7 DEF DictFor
<1> QED BY <1>8 DEF d, fm2

(* A finite set as a sequence has each element once.                       *)
LEMMA ListOfSet ==
    ASSUME NEW S, IsFiniteSet(S)
    PROVE  /\ SetToSeq(S) \in Seq(S)
           /\ \A x \in S : \E i \in 1..Len(SetToSeq(S)) : SetToSeq(S)[i] = x
           /\ \A i, j \in 1..Len(SetToSeq(S)) : SetToSeq(S)[i] = SetToSeq(S)[j] => i = j
<1> DEFINE n == Cardinality(S)
           s == SetToSeq(S)
<1>1. n \in Nat /\ ExistsBijection(1..n, S)
  BY FS_CardinalityType
<1>2. PICK f : f \in Bijection(1..n, S)
  BY <1>1 DEF ExistsBijection
<1> HIDE DEF n
<1>3. f \in [1..n -> S] /\ IsInjective(f)
  BY <1>2 DEF Bijection, Injection, IsInjective
<1>4. s \in [1..n -> S] /\ IsInjective(s)
  BY <1>3 DEF SetToSeq, n
<1> HIDE DEF s
<1>5. s \in Seq(S) /\ Len(s) = n
  BY <1>1, <1>4
<1>6. \A i, j \in 1..Len(s) : s[i] = s[j] => i = j
  BY <1>4, <1>5 DEF IsInjective
<1>7. \A x \in S : \E i \in 1..n : s[i] = x
  <2>1. s \in Injection(1..n, S)
    BY <1>4 DEF Injection, IsInjective
  <2>2. s \in Surjection(1..n, S)
    <3>1. IsFiniteSet(1..n) /\ Cardinality(1..n) = Cardinality(S)
      BY <1>1, FS_Interval DEF n
    <3> QED BY <2>1, <3>1, FS_Injection
  <2> QED BY <2>2 DEF Surjection
<1> QED BY <1>5, <1>6, <1>7 DEF s

(* The replay begins with the starter, one entry for each of its names.    *)
LEMMA StarterListed ==
    ASSUME NEW S \in SUBSET Names, starter \in [S -> Texts]
    PROVE  /\ StarterEntries \in Dicts
           /\ \A i \in 1..Len(StarterEntries) :
                LET x == StarterEntries[i] IN
                /\ x.name \in S /\ x.form = "abs" /\ x.text = starter[x.name]
                /\ \A j \in 1..Len(StarterEntries) : StarterEntries[j].name = x.name => i = j
           /\ \A n \in S : \E i \in 1..Len(StarterEntries) : StarterEntries[i].name = n
<1> DEFINE E == {Entry(n, "abs", starter[n]) : n \in DOMAIN starter}
           s == StarterEntries
<1>1. DOMAIN starter = S /\ IsFiniteSet(S)
  BY TrailAssumption, FS_Subset
<1>2. IsFiniteSet(E)
  <2>1. \E f : f \in Surjection(S, E)
    <3> DEFINE f == [n \in S |-> Entry(n, "abs", starter[n])]
    <3>1. f \in Surjection(S, E)
      BY <1>1 DEF Surjection
    <3> QED BY <3>1
  <2> QED BY <1>1, <2>1, FS_Surjection
<1>3. /\ s \in Seq(E) /\ \A x \in E : \E i \in 1..Len(s) : s[i] = x
      /\ \A i, j \in 1..Len(s) : s[i] = s[j] => i = j
  BY <1>2, ListOfSet DEF StarterEntries
<1>4. \A x \in E : /\ x.name \in S /\ x.form = "abs" /\ x.text = starter[x.name]
                   /\ x = Entry(x.name, "abs", starter[x.name])
                   /\ x \in [name : Names, form : Forms, text : Told]
  <2> TAKE x \in E
  <2>1. PICK n \in S : x = Entry(n, "abs", starter[n])
    BY <1>1
  <2>2. starter[n] \in Told /\ n \in Names /\ "abs" \in Forms
    <3>1. starter[n] \in Seq(Letters)
      BY TrailAssumption
    <3> QED BY <3>1 DEF Told, Forms
  <2> QED BY <2>1, <2>2 DEF Entry
<1>5. \A n \in S : Entry(n, "abs", starter[n]) \in E /\ Entry(n, "abs", starter[n]).name = n
  BY <1>1 DEF Entry
<1> HIDE DEF E, s
<1>6. s \in Dicts
  <2> DEFINE T == [name : Names, form : Forms, text : Told]
  <2>1. \A x \in E : x \in T
    BY <1>4
  <2> HIDE DEF T
  <2>2. s \in Seq(T)
    BY <1>3, <2>1
  <2> QED BY <2>2 DEF T, Dicts
<1>7. \A i \in 1..Len(s) : s[i] \in E
  BY <1>3
<1>8. ASSUME NEW i \in 1..Len(s)
      PROVE  /\ s[i].name \in S /\ s[i].form = "abs" /\ s[i].text = starter[s[i].name]
             /\ \A j \in 1..Len(s) : s[j].name = s[i].name => i = j
  <2>1. s[i].name \in S /\ s[i].form = "abs" /\ s[i].text = starter[s[i].name]
    BY <1>4, <1>7
  <2>2. ASSUME NEW j \in 1..Len(s), s[j].name = s[i].name PROVE i = j
    <3>1. s[i] = s[j]
      BY <1>4, <1>7, <2>2
    <3> QED BY <1>3, <3>1
  <2> QED BY <2>1, <2>2
<1>9. \A n \in S : \E i \in 1..Len(s) : s[i].name = n
  BY <1>3, <1>5
<1> QED BY <1>6, <1>8, <1>9 DEF s

(* At the start the replay is the starter.                                 *)
LEMMA InitFiles == TrailInit => TrailTypes /\ FilesInv
<1> SUFFICES ASSUME TrailInit PROVE TrailTypes /\ FilesInv
  OBVIOUS
<1>1. PICK S \in SUBSET Names : starter \in [S -> Texts]
  BY DEF TrailInit
<1>2. DOMAIN starter = S
  BY <1>1
<1>3. trail = <<>> /\ Len(trail) = 0 /\ trail \in Seq(Events)
  BY DEF TrailInit
<1>4. forms \in [Names -> SUBSET Forms]
      /\ \A n \in Names : forms[n] = IF n \in S THEN {"abs"} ELSE {}
  BY <1>2 DEF TrailInit, Forms
<1>5. PICK l1 \in BOOLEAN :
         /\ files = [p \in Places |->
              IF p.name \in DOMAIN starter /\ (l1 \/ p.dir = "starter")
              THEN starter[p.name] ELSE NoFile]
         /\ odd = IF l1 THEN {} ELSE DOMAIN starter
  BY DEF TrailInit
<1>6. \A n \in Names : files[Place(n, "abs")] = IF n \in S /\ l1 THEN starter[n] ELSE NoFile
  <2> TAKE n \in Names
  <2>1. Place(n, "abs") \in Places /\ Place(n, "abs").name = n /\ Place(n, "abs").dir = "root"
    BY DEF Places, Place, Forms
  <2> QED BY <1>2, <1>5, <2>1
<1>7. files \in [Places -> Contents]
  <2>1. \A n \in S : starter[n] \in Contents
    BY <1>1, TrailAssumption DEF Contents
  <2>2. NoFile \in Contents
    BY DEF Contents
  <2> QED BY <1>2, <1>5, <2>1, <2>2
<1>8. TrailTypes
  <2>1. runtime \in {"claude_code", "mini"} /\ inTurn \in BOOLEAN
    BY DEF TrailInit
  <2> QED BY <1>1, <1>2, <1>3, <1>4, <1>7, <2>1 DEF TrailTypes
<1>9. \A n \in Names : forms[n] = {} /\ n \notin odd => files[Place(n, "abs")] = NoFile
  BY <1>4, <1>6
<1>10. Replayed = StarterEntries
  <2>1. StarterEntries \in Dicts
    BY <1>1, StarterListed
  <2>2. PICK f : f[0] = StarterEntries /\ ReplayAll(StarterEntries, trail) = f[Len(trail)]
    <3>1. \E f : /\ f[0] = StarterEntries
                 /\ \A k \in 1..Len(trail) : f[k] = Replay(f[k - 1], trail[k])
                 /\ ReplayAll(StarterEntries, trail) = f[Len(trail)]
                 /\ f[Len(trail)] \in Dicts
      BY <1>3, <2>1, ReplayAllIsLoop
    <3> QED BY <3>1, Zenon
  <2> QED BY <1>3, <2>2 DEF Replayed
<1>11. DictFor(StarterEntries, forms, odd, files)
  <2> DEFINE s == StarterEntries
  <2>1. /\ s \in Dicts
        /\ \A i \in 1..Len(s) :
                /\ s[i].name \in S /\ s[i].form = "abs" /\ s[i].text = starter[s[i].name]
                /\ \A j \in 1..Len(s) : s[j].name = s[i].name => i = j
        /\ \A n \in S : \E i \in 1..Len(s) : s[i].name = n
    BY <1>1, StarterListed
  <2> HIDE DEF s
  <2>2. \A i \in 1..Len(s) : s[i].form \in forms[s[i].name]
    BY <1>4, <2>1
  <2>3. \A i, j \in 1..Len(s) : s[i].name = s[j].name /\ s[i].form = s[j].form => i = j
    BY <2>1
  <2>4. \A n \in Names : \A form \in forms[n] :
          \E i \in 1..Len(s) : s[i].name = n /\ s[i].form = form
    <3> TAKE n \in Names
    <3>1. \A form \in forms[n] : n \in S /\ form = "abs"
      BY <1>4
    <3> QED BY <2>1, <3>1
  <2>5. \A n \in Names \ odd, form \in Forms : forms[n] = {form} =>
          \A i \in 1..Len(s) : s[i].name = n => s[i].text = files[Place(n, "abs")]
    <3> TAKE n \in Names \ odd, form \in Forms
    <3> SUFFICES ASSUME NEW i \in 1..Len(s), s[i].name = n
                 PROVE  s[i].text = files[Place(n, "abs")]
      OBVIOUS
    <3>1. n \in S /\ l1
      BY <1>2, <1>5, <2>1
    <3> QED BY <1>6, <2>1, <3>1
  <2>6. DictFor(s, forms, odd, files)
    BY <2>1, <2>2, <2>3, <2>4, <2>5 DEF DictFor
  <2> QED BY <2>6 DEF s
<1> QED BY <1>8, <1>9, <1>10, <1>11 DEF FilesInv

(* An event appended to the trail is replayed next.                        *)
LEMMA ReplayedNext ==
    ASSUME TrailTypes, NEW e \in Events, trail' = Append(trail, e), starter' = starter
    PROVE  trail' \in Seq(Events) /\ Replayed' = Replay(Replayed, e)
<1>1. StarterEntries \in Dicts /\ trail \in Seq(Events)
  BY StarterListed DEF TrailTypes
<1>2. StarterEntries' = StarterEntries
  BY DEF StarterEntries
<1>3. Replayed' = ReplayAll(StarterEntries, Append(trail, e))
  BY <1>2 DEF Replayed
<1>4. ReplayAll(StarterEntries, Append(trail, e)) = Replay(Replayed, e)
  BY <1>1, ReplayGrows DEF Replayed
<1> QED BY <1>1, <1>3, <1>4

(* Events that tell no change leave the replay alone.                      *)
LEMMA OtherFiles ==
    ASSUME TrailTypes, FilesInv, NEW e \in Others, trail' = Append(trail, e),
           starter' = starter, forms' = forms,
           NEW m \in Names,
           \/ files' = files /\ odd' = odd
           \/ odd' = odd \cup {m} /\ \A n \in Names \ {m} :
                files'[Place(n, "abs")] = files[Place(n, "abs")]
    PROVE  FilesInv' /\ trail' \in Seq(Events)
<1>1. e \in Events /\ ~TellsChange(e)
  BY DEF Events, Others, TellsChange
<1>2. trail' \in Seq(Events) /\ Replayed' = Replayed
  BY <1>1, ReplayedNext DEF Replay
<1>3. \A n \in Names \ odd' : n \in Names \ odd /\ files'[Place(n, "abs")] = files[Place(n, "abs")]
  OBVIOUS
<1>4. DictFor(Replayed, forms, odd, files)
  BY DEF FilesInv
<1>5. DictFor(Replayed, forms, odd', files')
  BY <1>3, <1>4 DEF DictFor
<1>6. \A n \in Names : forms[n] = {} /\ n \notin odd' => files'[Place(n, "abs")] = NoFile
  BY <1>3 DEF FilesInv
<1>7. FilesInv' <=> /\ \A n \in Names : forms'[n] = {} /\ n \notin odd' => files'[Place(n, "abs")] = NoFile
                    /\ DictFor(Replayed', forms', odd', files')
  BY DEF FilesInv
<1> QED BY <1>2, <1>5, <1>6, <1>7

(* An event that tells a change does to the replay what was done to the    *)
(* file, or the name is odd.                                               *)
LEMMA ChangedFiles ==
    ASSUME TrailTypes, FilesInv, NEW e \in Changes, trail' = Append(trail, e),
           starter' = starter, forms' = [forms EXCEPT ![e.name] = @ \cup {e.form}],
           \A m \in Names \ {e.name} :
             /\ m \notin odd' => m \notin odd
             /\ files'[Place(m, "abs")] = files[Place(m, "abs")],
           NEW text \in Told, Replay(Replayed, e) = Put(Replayed, e, text),
           e.name \notin odd' /\ forms[e.name] \subseteq {e.form} =>
             text = files'[Place(e.name, "abs")]
    PROVE  FilesInv' /\ trail' \in Seq(Events) /\ forms' \in [Names -> SUBSET Forms]
<1>1. e \in Events /\ TellsChange(e) /\ e.name \in Names /\ e.form \in Forms
  BY DEF Events, Changes, TellsChange
<1>2. trail' \in Seq(Events) /\ Replayed' = Put(Replayed, e, text)
  BY <1>1, ReplayedNext
<1>3. forms \in [Names -> SUBSET Forms] /\ forms' \in [Names -> SUBSET Forms]
  BY <1>1 DEF TrailTypes
<1>4. DictFor(Replayed, forms, odd, files) /\ Replayed \in Dicts
  BY DEF FilesInv, DictFor
<1>5. DictFor(Put(Replayed, e, text), [forms EXCEPT ![e.name] = @ \cup {e.form}], odd', files')
  BY <1>1, <1>3, <1>4, PutKeeps
<1>6. \A n \in Names : forms'[n] = {} /\ n \notin odd' => files'[Place(n, "abs")] = NoFile
  <2> TAKE n \in Names
  <2>1. CASE n = e.name
    BY <1>1, <1>3, <2>1
  <2>2. CASE n # e.name
    <3>1. forms'[n] = forms[n]
      BY <1>3, <2>2
    <3> QED BY <2>2, <3>1 DEF FilesInv
  <2> QED BY <2>1, <2>2
<1>7. FilesInv' <=> /\ \A n \in Names : forms'[n] = {} /\ n \notin odd' => files'[Place(n, "abs")] = NoFile
                    /\ DictFor(Replayed', forms', odd', files')
  BY DEF FilesInv
<1> QED BY <1>2, <1>3, <1>5, <1>6, <1>7

(* What an agent writes can be told, behind a fence, too.                  *)
LEMMA TextsToldOf ==
    /\ \A text \in Texts : text \in Told /\ <<"fence">> \o text \in Told /\ text \in Seq(Letters)
    /\ Seq(Letters) \subseteq Told
<1>1. \A text \in Texts : text \in Seq(Letters)
  BY TrailAssumption
<1>2. Seq(Letters) \subseteq Told
  BY DEF Told
<1>3. <<"fence">> \in Told
  BY DEF Told
<1>4. \A s, t \in Told : s \o t \in Told
  BY DEF Told
<1> QED BY <1>1, <1>2, <1>3, <1>4

(* A write, that works or fails, keeps the replay true.                    *)
LEMMA WriteFiles ==
    ASSUME TrailTypes, FilesInv, NEW n \in Names, NEW form \in Forms, NEW text \in Texts,
           WriteFile(n, form, text)
    PROVE  TrailTypes' /\ FilesInv'
<1>1. PICK works \in BOOLEAN, fenced \in BOOLEAN :
         /\ Emit([type |-> "write", name |-> n, form |-> form,
                  text |-> IF fenced THEN <<"fence">> \o text ELSE text])
         /\ files' = IF works THEN [files EXCEPT ![Place(n, form)] = text] ELSE files
         /\ odd' = IF works /\ ~fenced /\ form # "starter"
                   THEN odd \ {n} ELSE odd \cup {n}
  BY DEF WriteFile
<1> DEFINE told == IF fenced THEN <<"fence">> \o text ELSE text
           e == [type |-> "write", name |-> n, form |-> form, text |-> told]
<1>2. told \in Told /\ text \in Contents
  BY TextsToldOf DEF Contents
<1>3. trail' = Append(trail, e)
  BY <1>1 DEF Emit
<1>4. /\ forms' = [forms EXCEPT ![n] = @ \cup {form}]
      /\ runtime' = runtime /\ starter' = starter /\ inTurn' = inTurn
  BY DEF WriteFile
<1>5. ~fenced => told = text
  OBVIOUS
<1> HIDE DEF told
<1>6. e \in Changes /\ e.name = n /\ e.form = form /\ TellsChange(e) /\ e.type = "write" /\ e.text = told
  BY <1>2 DEF Changes, TellsChange
<1> HIDE DEF e
<1>7. Replay(Replayed, e) = Put(Replayed, e, told)
  BY <1>6 DEF Replay
<1>8. files \in [Places -> Contents] /\ Place(n, form) \in Places
  BY PlacesAre DEF TrailTypes
<1>9. \A m \in Names \ {n} : /\ m \notin odd' => m \notin odd
                             /\ files'[Place(m, "abs")] = files[Place(m, "abs")]
  <2> TAKE m \in Names \ {n}
  <2>1. Place(m, "abs") # Place(n, form)
    BY PlacesAre
  <2> QED BY <1>1, <1>8, <2>1
<1>10. n \notin odd' => told = files'[Place(n, "abs")]
  <2> SUFFICES ASSUME n \notin odd' PROVE told = files'[Place(n, "abs")]
    OBVIOUS
  <2>1. works /\ ~fenced /\ form # "starter"
    BY <1>1
  <2>2. Place(n, "abs") = Place(n, form)
    BY <2>1, PlacesAre
  <2> QED BY <1>1, <1>5, <1>8, <2>1, <2>2
<1>11. files' \in [Places -> Contents]
  BY <1>1, <1>2, <1>8
<1>12. FilesInv' /\ trail' \in Seq(Events) /\ forms' \in [Names -> SUBSET Forms]
  BY <1>2, <1>3, <1>4, <1>6, <1>7, <1>9, <1>10, ChangedFiles
<1> QED BY <1>4, <1>11, <1>12 DEF TrailTypes

(* An edit keeps the replay true.                                          *)
LEMMA EditFiles ==
    ASSUME TrailTypes, FilesInv, NEW n \in Names, NEW form \in Forms,
           NEW x \in Letters, NEW y \in Letters, NEW all \in BOOLEAN,
           EditFile(n, form, x, y, all)
    PROVE  TrailTypes' /\ FilesInv'
<1> DEFINE e == [type |-> "edit", name |-> n, form |-> form, old |-> x, new |-> y]
           text == files[Place(n, form)]
           k == Cardinality(Where(text, x))
           every == [i \in 1..Len(text) |-> IF text[i] = x THEN y ELSE text[i]]
           new == IF k = 1 THEN ReplaceFirst(text, x, y) ELSE IF all THEN every ELSE text
           told == ReplaceFirst(TextOf(Replayed, e), x, y)
<1>1. files \in [Places -> Contents] /\ Place(n, form) \in Places
  BY PlacesAre DEF TrailTypes
<1>2. text \in Seq(Letters)
  BY <1>1 DEF EditFile, Contents
<1>3. files' = [files EXCEPT ![Place(n, form)] = new]
  BY <1>1 DEF EditFile
<1>4. odd' = IF k <= 1 /\ form # "starter" THEN odd ELSE odd \cup {n}
  BY DEF EditFile
<1>5. /\ trail' = Append(trail, e) /\ forms' = [forms EXCEPT ![n] = @ \cup {form}]
      /\ runtime' = runtime /\ starter' = starter /\ inTurn' = inTurn
  BY DEF EditFile, Emit
<1>6. /\ e \in Changes /\ e.name = n /\ e.form = form /\ TellsChange(e) /\ e.type = "edit"
      /\ e.old = x /\ e.new = y
  BY DEF Changes, TellsChange
<1>7. /\ new \in Seq(Letters) /\ k \in Nat
      /\ k <= 1 => new = ReplaceFirst(text, x, y)
  <2>1. /\ ReplaceFirst(text, x, y) \in Seq(Letters) /\ every \in Seq(Letters) /\ k \in Nat
        /\ k = 0 => ReplaceFirst(text, x, y) = text /\ every = text
    BY <1>2, ReplaceInFile
  <2> HIDE DEF every, k, text
  <2> QED BY <1>2, <2>1
<1> HIDE DEF new, every, k, e
<1>8. files' \in [Places -> Contents]
  BY <1>1, <1>3, <1>7 DEF Contents
<1>9. \A m \in Names \ {n} : /\ m \notin odd' => m \notin odd
                             /\ files'[Place(m, "abs")] = files[Place(m, "abs")]
  <2> TAKE m \in Names \ {n}
  <2>1. Place(m, "abs") # Place(n, form)
    BY PlacesAre
  <2> QED BY <1>1, <1>3, <1>4, <2>1
<1>10. Replay(Replayed, e) = Put(Replayed, e, told)
  BY <1>6 DEF Replay
<1>11. Replayed \in Dicts /\ e \in Events
  BY <1>6 DEF FilesInv, DictFor, Events
<1>12. told \in Told
  <2>1. TextOf(Replayed, e) \in Told
    BY <1>11, TextTyped
  <2>2. TextOf(Replayed, e) \in Seq(Letters \cup {"fence"}) /\ y \in Letters \cup {"fence"}
    BY <2>1 DEF Told
  <2> QED BY <2>2, ReplaceTyped DEF Told
<1>13. ASSUME n \notin odd', forms[n] \subseteq {form}
       PROVE  told = files'[Place(n, "abs")]
  <2>1. n \notin odd /\ k <= 1 /\ form # "starter"
    BY <1>4, <1>13
  <2>2. Place(n, "abs") = Place(n, form)
    BY <2>1, PlacesAre
  <2>3. forms[n] = {form}
    <3>1. forms[n] # {}
      BY <2>1, <2>2 DEF FilesInv, EditFile
    <3> QED BY <1>13, <3>1
  <2>4. DictFor(Replayed, forms, odd, files)
    BY DEF FilesInv
  <2>5. \E i \in 1..Len(Replayed) : Replayed[i].name = n /\ Replayed[i].form = form
    BY <2>3, <2>4 DEF DictFor
  <2>6. PICK i \in 1..Len(Replayed) : Replayed[i].name = n /\ TextOf(Replayed, e) = Replayed[i].text
    <3>1. \A i, j \in 1..Len(Replayed) :
             Replayed[i].name = Replayed[j].name /\ Replayed[i].form = Replayed[j].form => i = j
      BY <2>4 DEF DictFor
    <3> QED BY <1>6, <1>11, <1>12, <2>5, <3>1, PutFields
  <2>7. Replayed[i].text = text
    BY <2>1, <2>2, <2>3, <2>4, <2>6 DEF DictFor
  <2> QED BY <1>1, <1>3, <1>7, <2>1, <2>2, <2>6, <2>7
<1> HIDE DEF told
<1>14. FilesInv' /\ trail' \in Seq(Events) /\ forms' \in [Names -> SUBSET Forms]
  BY <1>5, <1>6, <1>9, <1>10, <1>12, <1>13, ChangedFiles
<1> QED BY <1>5, <1>8, <1>14 DEF TrailTypes

(* Every step keeps the replay true.                                       *)
LEMMA TrailStep == TrailTypes /\ FilesInv /\ [TrailNext]_trailVars => TrailTypes' /\ FilesInv'
<1> SUFFICES ASSUME TrailTypes, FilesInv, [TrailNext]_trailVars PROVE TrailTypes' /\ FilesInv'
  OBVIOUS
<1>1. ASSUME NEW n \in Names, NEW form \in Forms, NEW text \in Texts, WriteFile(n, form, text)
      PROVE  TrailTypes' /\ FilesInv'
  BY <1>1, WriteFiles
<1>2. ASSUME NEW n \in Names, NEW form \in Forms, NEW x \in Letters, NEW y \in Letters,
             NEW all \in BOOLEAN, EditFile(n, form, x, y, all)
      PROVE  TrailTypes' /\ FilesInv'
  BY <1>2, EditFiles
<1>3. ASSUME NEW n \in Names, NEW text \in Texts, Bash(n, text)
      PROVE  TrailTypes' /\ FilesInv'
  <2> DEFINE e == [type |-> "call", id |-> "bash"]
  <2>1. e \in Others
    BY DEF Others
  <2>2. /\ trail' = Append(trail, e) /\ odd' = odd \cup {n}
        /\ files' = [files EXCEPT ![Place(n, "abs")] = text]
        /\ runtime' = runtime /\ starter' = starter /\ inTurn' = inTurn /\ forms' = forms
    BY <1>3 DEF Bash, Emit
  <2>3. files' \in [Places -> Contents] /\ files \in [Places -> Contents]
    BY <2>2, TextsToldOf DEF TrailTypes, Contents
  <2>4. \A m \in Names \ {n} : files'[Place(m, "abs")] = files[Place(m, "abs")]
    <3> TAKE m \in Names \ {n}
    <3>1. Place(m, "abs") \in Places /\ Place(m, "abs") # Place(n, "abs")
      BY PlacesAre DEF Forms
    <3> QED BY <2>2, <2>3, <3>1
  <2>5. FilesInv' /\ trail' \in Seq(Events)
    BY <2>1, <2>2, <2>4, OtherFiles
  <2> QED BY <2>2, <2>3, <2>5 DEF TrailTypes
<1>4. ASSUME NEW e \in Others, Emit(e), inTurn' \in BOOLEAN,
             UNCHANGED <<runtime, starter, files, forms, odd>>
      PROVE  TrailTypes' /\ FilesInv'
  <2>1. FilesInv' /\ trail' \in Seq(Events)
    <3>1. trail' = Append(trail, e)
      BY <1>4 DEF Emit
    <3>2. CASE Names = {}
      <4>1. e \in Events /\ ~TellsChange(e)
        BY DEF Events, Others, TellsChange
      <4>2. trail' \in Seq(Events) /\ Replayed' = Replayed
        BY <1>4, <3>1, <4>1, ReplayedNext DEF Replay
      <4>3. DictFor(Replayed', forms', odd', files')
        BY <1>4, <4>2 DEF FilesInv
      <4> QED BY <3>2, <4>2, <4>3 DEF FilesInv
    <3>3. CASE Names # {}
      BY <1>4, <3>1, <3>3, OtherFiles
    <3> QED BY <3>2, <3>3
  <2> QED BY <1>4, <2>1 DEF TrailTypes
<1>5. ASSUME NEW id \in Ids, Call(id) PROVE TrailTypes' /\ FilesInv'
  <2>1. [type |-> "call", id |-> id] \in Others
    BY DEF Others
  <2> QED BY <1>4, <1>5, <2>1 DEF Call, TrailTypes
<1>6. CASE Say
  <2>1. PICK said \in BOOLEAN : Emit([type |-> "text", said |-> said])
    BY <1>6 DEF Say
  <2>2. [type |-> "text", said |-> said] \in Others
    BY DEF Others
  <2> QED BY <1>4, <1>6, <2>1, <2>2 DEF Say, TrailTypes
<1>7. CASE StartTurn
  <2>1. [type |-> "start"] \in Others
    BY DEF Others
  <2> QED BY <1>4, <1>7, <2>1 DEF StartTurn
<1>8. CASE EndTurn
  <2>1. [type |-> "end"] \in Others
    BY DEF Others
  <2> QED BY <1>4, <1>8, <2>1 DEF EndTurn
<1>9. CASE UNCHANGED trailVars
  <2>1. /\ runtime' = runtime /\ starter' = starter /\ files' = files /\ trail' = trail
        /\ inTurn' = inTurn /\ forms' = forms /\ odd' = odd
    BY <1>9 DEF trailVars
  <2>2. Replayed' = Replayed
    BY <2>1 DEF Replayed, StarterEntries
  <2>3. FilesInv'
    BY <2>1, <2>2 DEF FilesInv
  <2> QED BY <2>1, <2>3 DEF TrailTypes
<1> QED BY <1>1, <1>2, <1>3, <1>5, <1>6, <1>7, <1>8, <1>9 DEF TrailNext

(* A replay that is true gives true snapshots.                             *)
LEMMA SnapshotHolds == TrailTypes /\ FilesInv => SnapshotIsWorkspace
<1> SUFFICES ASSUME TrailTypes, FilesInv, NEW n \in Names \ odd,
                    forms[n] # {}, Cardinality(forms[n]) = 1
             PROVE  Snapshot(Replayed)[n] = files[Place(n, "abs")]
  BY DEF SnapshotIsWorkspace
<1> DEFINE d == Replayed
           own == {i \in 1..Len(d) : d[i].name = n}
<1>1. DictFor(d, forms, odd, files)
  BY DEF FilesInv
<1>2. PICK form \in Forms : forms[n] = {form}
  <2>1. forms[n] \subseteq Forms
    BY DEF TrailTypes
  <2>2. IsFiniteSet(forms[n])
    <3>1. IsFiniteSet({"abs", "rel", "starter"})
      <4>1. IsFiniteSet({"abs"} \cup {"rel"})
        BY FS_Singleton, FS_Union
      <4>2. IsFiniteSet(({"abs"} \cup {"rel"}) \cup {"starter"})
        BY <4>1, FS_Singleton, FS_Union
      <4>3. ({"abs"} \cup {"rel"}) \cup {"starter"} = {"abs", "rel", "starter"}
        OBVIOUS
      <4> QED BY <4>2, <4>3
    <3> QED BY <2>1, <3>1, FS_Subset DEF Forms
  <2>3. \E x : forms[n] = {x}
    BY <2>2, FS_Singleton
  <2> QED BY <2>1, <2>3
<1>3. Len(d) \in Nat
  BY <1>1, DictFields DEF DictFor
<1>4. own # {}
  <2>1. \E i \in 1..Len(d) : d[i].name = n /\ d[i].form = form
    BY <1>1, <1>2 DEF DictFor
  <2> QED BY <2>1
<1>5. Max(own) \in own
  BY <1>3, <1>4, MaxOfNumbers
<1>6. d[Max(own)].text = files[Place(n, "abs")]
  <2> DEFINE i == Max(own)
  <2>1. i \in 1..Len(d) /\ d[i].name = n
    BY <1>5
  <2> HIDE DEF i, d
  <2>2. d[i].text = files[Place(n, "abs")]
    BY <1>1, <1>2, <2>1 DEF DictFor
  <2> QED BY <2>2 DEF i
<1>7. n \in {d[i].name : i \in 1..Len(d)}
  BY <1>5
<1>8. Snapshot(d)[n] = d[Max(own)].text
  BY <1>7 DEF Snapshot
<1> QED BY <1>6, <1>8

(* The last snapshot is the workspace: a name written under one path whose *)
(* changes the events tell has, in it, the text its file has              *)
(* (replay_workspace_history).                                             *)
THEOREM SnapshotsAreTrue == TrailSpec => []SnapshotIsWorkspace
<1>1. TrailInit => TrailTypes /\ FilesInv
  BY InitFiles
<1>2. TrailTypes /\ FilesInv /\ [TrailNext]_trailVars => TrailTypes' /\ FilesInv'
  BY TrailStep
<1>3. TrailTypes /\ FilesInv => SnapshotIsWorkspace
  BY SnapshotHolds
<1> QED BY <1>1, <1>2, <1>3, PTL DEF TrailSpec

(***************************************************************************)
(* Turns and steps                                                         *)
(***************************************************************************)
(* The steps made so far are those of the turns of S.                      *)
Recorded(S, steps) ==
    Len(steps) = Cardinality(S) /\ \A i \in S : steps[Rank(i)] = ActionOf(i)

(* The turn under way began at l, the last start.                          *)
UnderWay(l, acc) ==
    /\ l \in Starts /\ \A s \in Starts : s <= l
    /\ acc.cur.said <=> Speaks(l)
    /\ acc.cur.action = ActionOf(l)
    /\ Calls(l) = {} <=> acc.cur.action = NoAction
    /\ Recorded(Eventful \ {l}, acc.steps)

TurnsInv ==
    runtime = "mini" =>
       IF inTurn THEN \E l \in Starts : UnderWay(l, AdaptAll(trail))
       ELSE AdaptAll(trail).cur = NoStep /\ Recorded(Eventful, AdaptAll(trail).steps)

(* Turns and their events are places of the trail.                         *)
LEMMA TurnsAreFinite ==
    ASSUME trail \in Seq(Events)
    PROVE  /\ Len(trail) \in Nat /\ Starts \subseteq 1..Len(trail) /\ Eventful \subseteq Starts
           /\ IsFiniteSet(Eventful)
           /\ \A i : Within(i) \subseteq 1..Len(trail) /\ Calls(i) \subseteq Within(i)
<1>1. Len(trail) \in Nat /\ Starts \subseteq 1..Len(trail) /\ Eventful \subseteq Starts
  BY DEF Starts, Eventful
<1>2. IsFiniteSet(1..Len(trail))
  BY <1>1, FS_Interval
<1>3. IsFiniteSet(Eventful)
  BY <1>1, <1>2, FS_Subset
<1>4. \A i : Within(i) \subseteq 1..Len(trail) /\ Calls(i) \subseteq Within(i)
  BY DEF Within, Calls
<1> QED BY <1>1, <1>3, <1>4

(* Flushing adds the step of the turn under way, if it has one.            *)
LEMMA FlushRecords ==
    ASSUME trail \in Seq(Events), NEW l, NEW acc \in Accs, UnderWay(l, acc), NEW e
    PROVE  Recorded(Eventful, Flush(acc, e))
<1> DEFINE old == Eventful \ {l}
           steps == Flush(acc, e)
           n == Len(acc.steps)
<1>1. /\ l \in Starts /\ \A s \in Starts : s <= l
      /\ n = Cardinality(old) /\ \A i \in old : acc.steps[Rank(i)] = ActionOf(i)
      /\ acc.cur.action = ActionOf(l)
      /\ l \in Eventful <=> (acc.cur.said \/ acc.cur.action # NoAction)
  BY DEF UnderWay, Recorded, Eventful
<1>2. IsFiniteSet(Eventful) /\ Eventful \subseteq Starts /\ Starts \subseteq Nat
  BY TurnsAreFinite
<1>3. IsFiniteSet(old) /\ n \in Nat
  BY <1>1, <1>2, FS_Subset, FS_CardinalityType
<1>4. CASE l \notin Eventful
  <2>1. old = Eventful /\ steps = acc.steps
    BY <1>1, <1>4, FlushFields
  <2> QED BY <1>1, <2>1 DEF Recorded
<1>5. CASE l \in Eventful
  <2>1. /\ Len(steps) = n + 1 /\ steps[n + 1] = ActionOf(l)
        /\ \A k \in 1..n : steps[k] = acc.steps[k]
    BY <1>1, <1>5, FlushFields
  <2>2. Cardinality(Eventful) = n + 1
    <3>1. Cardinality(old) = Cardinality(Eventful) - 1 /\ Cardinality(Eventful) \in Nat
      BY <1>2, <1>5, FS_RemoveElement, FS_CardinalityType
    <3> QED BY <1>1, <3>1
  <2>3. Rank(l) = n + 1
    <3>1. {j \in Eventful : j <= l} = Eventful
      BY <1>1, <1>2
    <3> QED BY <2>2, <3>1 DEF Rank
  <2>4. \A i \in old : Rank(i) \in 1..n
    <3> TAKE i \in old
    <3> DEFINE upto == {j \in Eventful : j <= i}
    <3>1. upto \subseteq old /\ i \in upto
      BY <1>1, <1>2
    <3>2. IsFiniteSet(upto) /\ Cardinality(upto) <= Cardinality(old) /\ Cardinality(upto) \in Nat
      BY <1>3, <3>1, FS_Subset, FS_CardinalityType
    <3>3. Cardinality(upto) # 0
      BY <3>1, <3>2, FS_EmptySet
    <3> HIDE DEF upto
    <3>4. Cardinality(upto) \in 1..n
      BY <1>1, <1>3, <3>2, <3>3
    <3> QED BY <3>4 DEF Rank, upto
  <2> HIDE DEF steps, n, old
  <2>5. \A i \in old : steps[Rank(i)] = ActionOf(i)
    BY <1>1, <2>1, <2>4
  <2>6. \A i \in Eventful : i = l \/ i \in old
    BY DEF old
  <2>7. \A i \in Eventful : steps[Rank(i)] = ActionOf(i)
    BY <2>1, <2>3, <2>5, <2>6
  <2> QED BY <2>1, <2>2, <2>7 DEF Recorded, steps
<1> QED BY <1>4, <1>5

(* A turn that gets no event stays as it is.                               *)
LEMMA Untouched ==
    ASSUME trail \in Seq(Events), NEW e \in Events, trail' = Append(trail, e),
           NEW i, Within(i)' = Within(i)
    PROVE  Calls(i)' = Calls(i) /\ (Speaks(i)' <=> Speaks(i)) /\ ActionOf(i)' = ActionOf(i)
<1>1. \A j \in Within(i) : trail'[j] = trail[j]
  <2>1. Within(i) \subseteq 1..Len(trail)
    BY TurnsAreFinite
  <2>2. \A j \in 1..Len(trail) : trail'[j] = trail[j]
    BY Appended
  <2> QED BY <2>1, <2>2
<1>2. Calls(i)' = Calls(i)
  BY <1>1 DEF Calls
<1>3. Speaks(i)' <=> Speaks(i)
  BY <1>1 DEF Speaks
<1>4. Calls(i) # {} => Max(Calls(i)) \in Within(i)
  <2>1. Len(trail) \in Nat /\ Calls(i) \subseteq 1..Len(trail) /\ Calls(i) \subseteq Within(i)
    BY TurnsAreFinite
  <2> QED BY <2>1, MaxOfNumbers
<1>5. ActionOf(i)' = IF Calls(i) = {} THEN NoAction ELSE Action(trail'[Max(Calls(i))])
  BY <1>2 DEF ActionOf
<1>6. ActionOf(i)' = ActionOf(i)
  BY <1>1, <1>4, <1>5 DEF ActionOf
<1> QED BY <1>2, <1>3, <1>6

(* What an event of the mini loop is: a start, or part of an open turn.    *)
LEMMA MiniEmits ==
    ASSUME TrailTypes, TrailNext, runtime = "mini"
    PROVE  \E e \in Events :
              /\ trail' = Append(trail, e)
              /\ runtime' = runtime
              /\ e.type = "start" => inTurn'
              /\ e.type = "end" => inTurn /\ ~inTurn'
              /\ e.type \notin {"start", "end"} => inTurn /\ inTurn'
<1>1. ASSUME NEW n \in Names, NEW form \in Forms, NEW text \in Texts, WriteFile(n, form, text)
      PROVE  \E e \in Events : /\ e.type = "write" /\ trail' = Append(trail, e)
                               /\ runtime' = runtime /\ inTurn /\ inTurn'
  <2>1. PICK fenced \in BOOLEAN :
           Emit([type |-> "write", name |-> n, form |-> form,
                 text |-> IF fenced THEN <<"fence">> \o text ELSE text])
    BY <1>1 DEF WriteFile
  <2> DEFINE told == IF fenced THEN <<"fence">> \o text ELSE text
             e == [type |-> "write", name |-> n, form |-> form, text |-> told]
  <2>2. told \in Told
    BY TextsToldOf
  <2>3. trail' = Append(trail, e)
    BY <2>1 DEF Emit
  <2> HIDE DEF told
  <2>4. e \in Events /\ e.type = "write"
    BY <2>2 DEF Events, Changes
  <2> HIDE DEF e
  <2>5. runtime' = runtime /\ inTurn /\ inTurn'
    BY <1>1 DEF WriteFile
  <2> QED BY <2>3, <2>4, <2>5
<1>2. ASSUME NEW n \in Names, NEW text \in Texts, Bash(n, text)
      PROVE  \E e \in Events : /\ e.type = "call" /\ trail' = Append(trail, e)
                               /\ runtime' = runtime /\ inTurn /\ inTurn'
  <2>1. [type |-> "call", id |-> "bash"] \in Events
    BY DEF Events, Others
  <2> QED BY <1>2, <2>1 DEF Bash, Emit
<1>3. ASSUME NEW id \in Ids, Call(id)
      PROVE  \E e \in Events : /\ e.type = "call" /\ trail' = Append(trail, e)
                               /\ runtime' = runtime /\ inTurn /\ inTurn'
  <2>1. [type |-> "call", id |-> id] \in Events
    BY DEF Events, Others
  <2> QED BY <1>3, <2>1 DEF Call, Emit
<1>4. CASE Say
  <2>1. PICK said \in BOOLEAN : Emit([type |-> "text", said |-> said])
    BY <1>4 DEF Say
  <2>2. [type |-> "text", said |-> said] \in Events
    BY DEF Events, Others
  <2> QED BY <1>4, <2>1, <2>2 DEF Say, Emit
<1>5. CASE StartTurn
  <2>1. [type |-> "start"] \in Events
    BY DEF Events, Others
  <2> QED BY <1>5, <2>1 DEF StartTurn, Emit
<1>6. CASE EndTurn
  <2>1. [type |-> "end"] \in Events
    BY DEF Events, Others
  <2> QED BY <1>6, <2>1 DEF EndTurn, Emit
<1>7. ASSUME NEW n \in Names, NEW form \in Forms, NEW x \in Letters, NEW y \in Letters,
             NEW all \in BOOLEAN, EditFile(n, form, x, y, all)
      PROVE  FALSE
  BY <1>7 DEF EditFile
<1>8. TrailNext => \/ \E n \in Names, form \in Forms, text \in Texts : WriteFile(n, form, text)
                   \/ \E n \in Names, form \in Forms, x \in Letters, y \in Letters, all \in BOOLEAN :
                         EditFile(n, form, x, y, all)
                   \/ \E n \in Names, text \in Texts : Bash(n, text)
                   \/ \E id \in Ids : Call(id)
                   \/ Say \/ StartTurn \/ EndTurn
  BY DEF TrailNext
<1>9. CASE \E n \in Names, form \in Forms, text \in Texts : WriteFile(n, form, text)
  BY <1>1, <1>9
<1>10. CASE \E n \in Names, text \in Texts : Bash(n, text)
  BY <1>2, <1>10
<1>11. CASE \E id \in Ids : Call(id)
  BY <1>3, <1>11
<1> QED BY <1>4, <1>5, <1>6, <1>7, <1>8, <1>9, <1>10, <1>11

(* A new turn: the others keep their events, it has none.                  *)
LEMMA TurnBegins ==
    ASSUME trail \in Seq(Events), NEW e \in Events, trail' = Append(trail, e), e.type = "start",
           NEW m, m = Len(trail) + 1
    PROVE  /\ m \in Starts' /\ \A s \in Starts' : s <= m
           /\ Calls(m)' = {} /\ ~Speaks(m)' /\ ActionOf(m)' = NoAction
           /\ Eventful' = Eventful /\ m \notin Eventful
           /\ \A i \in Eventful : Rank(i)' = Rank(i) /\ ActionOf(i)' = ActionOf(i)
<1>1. /\ Len(trail) \in Nat /\ Len(trail') = m /\ trail'[m] = e
      /\ \A k \in 1..Len(trail) : trail'[k] = trail[k]
  BY Appended
<1>2. Starts' = Starts \cup {m} /\ m \notin Starts /\ Starts \subseteq 1..Len(trail)
  BY <1>1 DEF Starts
<1>3. Within(m)' = {}
  BY <1>1 DEF Within
<1>4. Calls(m)' = {} /\ ~Speaks(m)' /\ ActionOf(m)' = NoAction
  BY <1>3 DEF Calls, Speaks, ActionOf
<1>5. \A i \in Starts : Within(i)' = Within(i)
  <2> TAKE i \in Starts
  <2>1. \A j \in 1..Len(trail) :
           (\A s \in Starts' : ~(i < s /\ s <= j)) <=> (\A s \in Starts : ~(i < s /\ s <= j))
    BY <1>1, <1>2
  <2>2. m \in Starts' /\ i < m /\ m <= m
    BY <1>1, <1>2
  <2>3. \A j : j \in Within(i)' <=> j \in Within(i)
    <3>1. Within(i)' = {j \in 1..Len(trail') : i < j /\ \A s \in Starts' : ~(i < s /\ s <= j)}
      BY DEF Within
    <3>2. \A j : j \in 1..Len(trail') <=> j \in 1..Len(trail) \/ j = m
      BY <1>1
    <3> QED BY <2>1, <2>2, <3>1, <3>2 DEF Within
  <2>4. Within(i)' \subseteq Within(i) /\ Within(i) \subseteq Within(i)'
    BY <2>3
  <2> QED BY <2>4
<1>6. \A i \in Starts :
         Calls(i)' = Calls(i) /\ (Speaks(i)' <=> Speaks(i)) /\ ActionOf(i)' = ActionOf(i)
  BY <1>5, Untouched
<1>7. Eventful' = Eventful
  <2>1. Eventful' = {i \in Starts' : Calls(i)' # {} \/ Speaks(i)'}
    BY DEF Eventful
  <2>2. \A i : i \in Eventful' <=> i \in Starts /\ (Calls(i)' # {} \/ Speaks(i)')
    BY <1>2, <1>4, <2>1
  <2>3. \A i : i \in Eventful' <=> i \in Eventful
    BY <1>6, <2>2 DEF Eventful
  <2>4. Eventful' \subseteq Eventful /\ Eventful \subseteq Eventful'
    BY <2>3
  <2> QED BY <2>4
<1>8. Eventful \subseteq Starts
  BY DEF Eventful
<1>9. \A i \in Eventful : Rank(i)' = Rank(i)
  BY <1>7 DEF Rank
<1> QED BY <1>1, <1>2, <1>4, <1>6, <1>7, <1>8, <1>9

(* An event of the last turn: the others keep theirs.                      *)
LEMMA TurnGoesOn ==
    ASSUME trail \in Seq(Events), NEW e \in Events, trail' = Append(trail, e), e.type # "start",
           NEW l, l \in Starts, \A s \in Starts : s <= l
    PROVE  /\ l \in Starts' /\ \A s \in Starts' : s <= l
           /\ Eventful' \ {l} = Eventful \ {l}
           /\ \A i \in Eventful \ {l} : Rank(i)' = Rank(i) /\ ActionOf(i)' = ActionOf(i)
           /\ e.type \in {"text", "end"} => Calls(l)' = Calls(l) /\ ActionOf(l)' = ActionOf(l)
           /\ e.type \notin {"text", "end"} => Calls(l)' # {} /\ ActionOf(l)' = Action(e)
           /\ Speaks(l)' <=> (Speaks(l) \/ (e.type = "text" /\ e.said))
<1> PICK m : m = Len(trail) + 1
  OBVIOUS
<1>1. /\ Len(trail) \in Nat /\ Len(trail') = m /\ trail'[m] = e
      /\ \A k \in 1..Len(trail) : trail'[k] = trail[k]
  BY Appended
<1>2. Starts' = Starts /\ Starts \subseteq 1..Len(trail) /\ Starts \subseteq Nat
  BY <1>1 DEF Starts
<1>3. \A i : Within(i)' = {j \in 1..m : i < j /\ \A s \in Starts : ~(i < s /\ s <= j)}
  BY <1>1, <1>2 DEF Within
<1>4. \A i \in Starts \ {l} : Within(i)' = Within(i)
  <2> TAKE i \in Starts \ {l}
  <2>1. i < l /\ l <= m
    BY <1>1, <1>2
  <2>2. \A j : j \in 1..m <=> j \in 1..Len(trail) \/ j = m
    BY <1>1
  <2> QED BY <1>3, <2>1, <2>2 DEF Within
<1>5. Within(l)' = Within(l) \cup {m}
  <2>1. l < m /\ \A s \in Starts : ~(l < s /\ s <= m)
    BY <1>1, <1>2
  <2>2. \A j : j \in 1..m <=> j \in 1..Len(trail) \/ j = m
    BY <1>1
  <2> QED BY <1>3, <2>1, <2>2 DEF Within
<1>6. \A i \in Starts \ {l} :
         Calls(i)' = Calls(i) /\ (Speaks(i)' <=> Speaks(i)) /\ ActionOf(i)' = ActionOf(i)
  BY <1>4, Untouched
<1>7. Eventful' \ {l} = Eventful \ {l}
  <2>1. Eventful' = {i \in Starts' : Calls(i)' # {} \/ Speaks(i)'}
    BY DEF Eventful
  <2> QED BY <1>2, <1>6, <2>1 DEF Eventful
<1>8. \A i \in Eventful \ {l} : Rank(i)' = Rank(i)
  <2> TAKE i \in Eventful \ {l}
  <2>1. i \in Starts /\ i < l /\ Eventful \subseteq Starts
    BY <1>2 DEF Eventful
  <2>2. {j \in Eventful' : j <= i} = {j \in Eventful : j <= i}
    BY <1>2, <1>7, <2>1
  <2> QED BY <2>2 DEF Rank
<1>9. Eventful \subseteq Starts
  BY DEF Eventful
<1>10. \A j \in Within(l) : trail'[j] = trail[j]
  BY <1>1, TurnsAreFinite
<1>11. m \notin Within(l)
  BY <1>1, TurnsAreFinite
<1>12. Calls(l)' = IF e.type \in {"text", "end"} THEN Calls(l) ELSE Calls(l) \cup {m}
  <2>1. Calls(l)' = {j \in Within(l) \cup {m} : trail'[j].type \notin {"text", "end"}}
    BY <1>5 DEF Calls
  <2> QED BY <1>1, <1>10, <2>1 DEF Calls
<1>13. Speaks(l)' <=> (Speaks(l) \/ (e.type = "text" /\ e.said))
  <2>1. Speaks(l)' <=> \E j \in Within(l) \cup {m} : trail'[j].type = "text" /\ trail'[j].said
    BY <1>5 DEF Speaks
  <2> QED BY <1>1, <1>10, <2>1 DEF Speaks
<1>14. ASSUME e.type \in {"text", "end"} PROVE ActionOf(l)' = ActionOf(l)
  <2>1. Calls(l) # {} => Max(Calls(l)) \in Within(l)
    <3>1. Len(trail) \in Nat /\ Calls(l) \subseteq 1..Len(trail) /\ Calls(l) \subseteq Within(l)
      BY TurnsAreFinite
    <3> QED BY <3>1, MaxOfNumbers
  <2>2. ActionOf(l)' = IF Calls(l) = {} THEN NoAction ELSE Action(trail'[Max(Calls(l))])
    BY <1>12, <1>14 DEF ActionOf
  <2> QED BY <1>10, <2>1, <2>2 DEF ActionOf
<1>15. ASSUME e.type \notin {"text", "end"} PROVE Calls(l)' # {} /\ ActionOf(l)' = Action(e)
  <2> DEFINE C == Calls(l) \cup {m}
  <2>1. Calls(l)' = C
    BY <1>12, <1>15
  <2>2. C \subseteq 1..m /\ C # {} /\ m \in C /\ m \in Nat
    <3>1. Calls(l) \subseteq 1..Len(trail)
      BY TurnsAreFinite
    <3> QED BY <1>1, <3>1
  <2>3. Max(C) \in C /\ \A i \in C : i <= Max(C)
    BY <2>2, MaxOfNumbers
  <2>4. Max(C) = m
    <3>1. Max(C) \in 1..m /\ m <= Max(C)
      BY <2>2, <2>3
    <3> QED BY <2>2, <3>1
  <2>5. ActionOf(l)' = Action(trail'[Max(C)])
    <3>1. ActionOf(l)' = IF Calls(l)' = {} THEN NoAction ELSE Action(trail'[Max(Calls(l)')])
      BY DEF ActionOf
    <3> QED BY <2>1, <2>2, <3>1
  <2> QED BY <1>1, <2>1, <2>2, <2>4, <2>5
<1> QED BY <1>2, <1>6, <1>7, <1>8, <1>9, <1>12, <1>13, <1>14, <1>15

(* The steps, and the one under way, after an event.                       *)
LEMMA TurnsNext ==
    ASSUME TrailTypes, TurnsInv, TrailNext, runtime = "mini" PROVE TurnsInv'
<1> DEFINE acc == AdaptAll(trail)
<1>1. PICK e \in Events :
              /\ trail' = Append(trail, e)
              /\ runtime' = runtime
              /\ e.type = "start" => inTurn'
              /\ e.type = "end" => inTurn /\ ~inTurn'
              /\ e.type \notin {"start", "end"} => inTurn /\ inTurn'
  BY MiniEmits
<1>2. trail \in Seq(Events)
  BY DEF TrailTypes
<1>3. acc \in Accs /\ AdaptAll(trail') = AdaptEvent(acc, e)
  BY <1>1, <1>2, AdaptGrows
<1>4. PICK a \in Accs : a = acc
  BY <1>3
<1>5. PICK b \in Accs : b = AdaptEvent(a, e)
  BY <1>3, <1>4, AdaptTyped
<1>6. AdaptAll(trail)' = b
  BY <1>3, <1>4, <1>5
<1>7. TurnsInv' <=>
        IF inTurn'
        THEN \E l \in Starts' : /\ l \in Starts' /\ \A s \in Starts' : s <= l
                               /\ (b.cur.said <=> Speaks(l)')
                               /\ b.cur.action = ActionOf(l)'
                               /\ (Calls(l)' = {} <=> b.cur.action = NoAction)
                               /\ Len(b.steps) = Cardinality(Eventful' \ {l})
                               /\ \A i \in Eventful' \ {l} : b.steps[Rank(i)'] = ActionOf(i)'
        ELSE /\ b.cur = NoStep /\ Len(b.steps) = Cardinality(Eventful')
             /\ \A i \in Eventful' : b.steps[Rank(i)'] = ActionOf(i)'
  BY <1>1, <1>6 DEF TurnsInv, UnderWay, Recorded
<1>8. inTurn => \E l \in Starts : UnderWay(l, a)
  BY <1>4 DEF TurnsInv
<1>9. ~inTurn => a.cur = NoStep /\ Recorded(Eventful, a.steps)
  BY <1>4 DEF TurnsInv
<1> HIDE DEF acc
<1>10. Recorded(Eventful, Flush(a, e))
  <2>1. CASE inTurn
    BY <1>2, <1>8, <2>1, FlushRecords
  <2>2. CASE ~inTurn
    <3>1. Flush(a, e) = a.steps
      BY <1>9, <2>2 DEF Flush, NoStep
    <3> QED BY <1>9, <2>2, <3>1
  <2> QED BY <2>1, <2>2
<1>11. CASE e.type = "start"
  <2>1. PICK m : m = Len(trail) + 1
    OBVIOUS
  <2>2. /\ m \in Starts' /\ \A s \in Starts' : s <= m
        /\ Calls(m)' = {} /\ ~Speaks(m)' /\ ActionOf(m)' = NoAction
        /\ Eventful' = Eventful /\ m \notin Eventful
        /\ \A i \in Eventful : Rank(i)' = Rank(i) /\ ActionOf(i)' = ActionOf(i)
    BY <1>1, <1>2, <1>11, <2>1, TurnBegins
  <2>3. b.steps = Flush(a, e) /\ b.cur = NoStep
    BY <1>5, <1>11, AdaptFields
  <2>4. ~b.cur.said /\ b.cur.action = NoAction
    BY <2>3 DEF NoStep
  <2>5. Eventful' \ {m} = Eventful
    BY <2>2
  <2>6. /\ Len(b.steps) = Cardinality(Eventful)
        /\ \A i \in Eventful : b.steps[Rank(i)'] = ActionOf(i)'
    BY <1>10, <2>2, <2>3 DEF Recorded
  <2> QED BY <1>1, <1>7, <1>11, <2>2, <2>4, <2>5, <2>6
<1>12. CASE e.type # "start"
  <2>1. PICK l \in Starts : UnderWay(l, a)
    BY <1>1, <1>8, <1>12
  <2>2. /\ l \in Starts' /\ \A s \in Starts' : s <= l
        /\ Eventful' \ {l} = Eventful \ {l}
        /\ \A i \in Eventful \ {l} : Rank(i)' = Rank(i) /\ ActionOf(i)' = ActionOf(i)
        /\ e.type \in {"text", "end"} => Calls(l)' = Calls(l) /\ ActionOf(l)' = ActionOf(l)
        /\ e.type \notin {"text", "end"} => Calls(l)' # {} /\ ActionOf(l)' = Action(e)
        /\ Speaks(l)' <=> (Speaks(l) \/ (e.type = "text" /\ e.said))
    BY <1>1, <1>2, <1>12, <2>1, TurnGoesOn DEF UnderWay
  <2>3. /\ a.cur.said <=> Speaks(l)
        /\ a.cur.action = ActionOf(l)
        /\ Calls(l) = {} <=> a.cur.action = NoAction
        /\ Len(a.steps) = Cardinality(Eventful \ {l})
        /\ \A i \in Eventful \ {l} : a.steps[Rank(i)] = ActionOf(i)
    BY <2>1 DEF UnderWay, Recorded
  <2>4. CASE e.type # "end"
    <3>1. inTurn'
      BY <1>1, <1>12, <2>4
    <3>2. /\ b.steps = a.steps
          /\ e.type = "text" => /\ b.cur.action = a.cur.action
                                /\ b.cur.said = (a.cur.said \/ e.said)
          /\ e.type # "text" => b.cur.action = Action(e) /\ b.cur.said = a.cur.said
      BY <1>5, <1>12, <2>4, AdaptFields
    <3>3. b.cur.said <=> Speaks(l)'
      BY <2>2, <2>3, <3>2
    <3>4. b.cur.action = ActionOf(l)'
      BY <2>2, <2>3, <2>4, <3>2
    <3>5. Calls(l)' = {} <=> b.cur.action = NoAction
      <4>1. e.type # "text" => Action(e) # NoAction
        BY <1>12, <2>4, ActionFields
      <4> QED BY <2>2, <2>3, <2>4, <3>2, <4>1
    <3>6. /\ Len(b.steps) = Cardinality(Eventful' \ {l})
          /\ \A i \in Eventful' \ {l} : b.steps[Rank(i)'] = ActionOf(i)'
      BY <2>2, <2>3, <3>2
    <3> QED BY <1>7, <2>2, <3>1, <3>3, <3>4, <3>5, <3>6
  <2>5. CASE e.type = "end"
    <3>1. ~inTurn'
      BY <1>1, <2>5
    <3>2. b.steps = Flush(a, e) /\ b.cur = NoStep
      BY <1>5, <2>5, AdaptFields
    <3>3. Calls(l)' = Calls(l) /\ ActionOf(l)' = ActionOf(l) /\ (Speaks(l)' <=> Speaks(l))
      BY <2>2, <2>5
    <3>4. l \in Eventful' <=> l \in Eventful
      <4>1. l \in Eventful' <=> l \in Starts' /\ (Calls(l)' # {} \/ Speaks(l)')
        BY DEF Eventful
      <4> QED BY <2>2, <3>3, <4>1 DEF Eventful
    <3>5. Eventful' = Eventful
      BY <2>2, <3>4
    <3>6. Rank(l)' = Rank(l)
      BY <3>5 DEF Rank
    <3>7. \A i \in Eventful : Rank(i)' = Rank(i) /\ ActionOf(i)' = ActionOf(i)
      BY <2>2, <3>3, <3>6
    <3>8. /\ Len(b.steps) = Cardinality(Eventful')
          /\ \A i \in Eventful' : b.steps[Rank(i)'] = ActionOf(i)'
      BY <1>10, <3>2, <3>5, <3>7 DEF Recorded
    <3> QED BY <1>7, <3>1, <3>2, <3>8
  <2> QED BY <2>4, <2>5
<1> QED BY <1>11, <1>12

(* Every step keeps the steps those of the turns.                          *)
LEMMA TurnsStep == TrailTypes /\ TurnsInv /\ [TrailNext]_trailVars => TurnsInv'
<1> SUFFICES ASSUME TrailTypes, TurnsInv, [TrailNext]_trailVars PROVE TurnsInv'
  OBVIOUS
<1>1. CASE TrailNext /\ runtime = "mini"
  BY <1>1, TurnsNext
<1>2. CASE TrailNext /\ runtime # "mini"
  <2>1. ASSUME NEW n \in Names, NEW form \in Forms, NEW text \in Texts,
               WriteFile(n, form, text)
        PROVE  runtime' = runtime
    BY <2>1 DEF WriteFile
  <2>2. ASSUME NEW n \in Names, NEW form \in Forms, NEW x \in Letters, NEW y \in Letters,
               NEW all \in BOOLEAN, EditFile(n, form, x, y, all)
        PROVE  runtime' = runtime
    BY <2>2 DEF EditFile
  <2>3. ASSUME NEW n \in Names, NEW text \in Texts, Bash(n, text) PROVE runtime' = runtime
    BY <2>3 DEF Bash
  <2>4. ASSUME NEW id \in Ids, Call(id) PROVE runtime' = runtime
    BY <2>4 DEF Call
  <2>5. Say \/ StartTurn \/ EndTurn => runtime' = runtime
    BY DEF Say, StartTurn, EndTurn
  <2>6. runtime' = runtime
    BY <1>2, <2>1, <2>2, <2>3, <2>4, <2>5 DEF TrailNext
  <2> QED BY <1>2, <2>6 DEF TurnsInv
<1>3. CASE UNCHANGED trailVars
  <2>1. runtime' = runtime /\ inTurn' = inTurn /\ trail' = trail
    BY <1>3 DEF trailVars
  <2>2. Starts' = Starts /\ (\A i : Within(i)' = Within(i)) /\ (\A i : Calls(i)' = Calls(i))
        /\ (\A i : Speaks(i)' <=> Speaks(i)) /\ (\A i : ActionOf(i)' = ActionOf(i))
        /\ Eventful' = Eventful /\ \A i : Rank(i)' = Rank(i)
    BY <2>1 DEF Starts, Within, Calls, Speaks, ActionOf, Eventful, Rank
  <2> QED BY <2>1, <2>2 DEF TurnsInv, UnderWay, Recorded
<1> QED BY <1>1, <1>2, <1>3

(* At the start there is no step, and no turn.                             *)
LEMMA TurnsInit == TrailInit => TurnsInv
<1> SUFFICES ASSUME TrailInit, runtime = "mini" PROVE TurnsInv
  BY DEF TurnsInv
<1>1. trail = <<>> /\ Len(trail) = 0 /\ trail \in Seq(Events) /\ ~inTurn
  <2>1. trail = <<>> /\ inTurn = (runtime = "claude_code")
    BY DEF TrailInit
  <2>2. runtime # "claude_code"
    OBVIOUS
  <2>3. ~inTurn
    BY <2>1, <2>2, Zenon
  <2> QED BY <2>1, <2>3
<1>2. AdaptAll(trail) = Begun
  <2>1. PICK f : f[0] = Begun /\ AdaptAll(trail) = f[Len(trail)]
    <3>1. \E f : /\ f[0] = Begun
                 /\ \A k \in 1..Len(trail) : f[k] = AdaptEvent(f[k - 1], trail[k])
                 /\ AdaptAll(trail) = f[Len(trail)]
                 /\ f[Len(trail)] \in Accs
      BY <1>1, AdaptAllIsLoop
    <3> QED BY <3>1, Zenon
  <2> QED BY <1>1, <2>1
<1>3. Eventful = {}
  BY <1>1 DEF Eventful, Starts
<1>4. Recorded(Eventful, <<>>)
  <2>1. Cardinality({}) = 0 /\ Len(<<>>) = 0
    BY FS_EmptySet
  <2> QED BY <1>3, <2>1 DEF Recorded
<1>5. Begun.cur = NoStep /\ Begun.steps = <<>>
  BY DEF Begun
<1> QED BY <1>1, <1>2, <1>4, <1>5 DEF TurnsInv

(* Every turn of the mini loop in which something happened is one step of  *)
(* the trajectory, in order, with its last tool call as the action; a turn *)
(* cut short is one, too (_events_to_steps).                               *)
THEOREM TurnsAreSteps == TrailSpec => []StepsAreTurns
<1>1. TrailInit => TrailTypes /\ FilesInv /\ TurnsInv
  BY InitFiles, TurnsInit
<1>2. TrailTypes /\ FilesInv /\ TurnsInv /\ [TrailNext]_trailVars
        => TrailTypes' /\ FilesInv' /\ TurnsInv'
  BY TrailStep, TurnsStep
<1>3. TrailTypes /\ TurnsInv => StepsAreTurns
  <2> SUFFICES ASSUME TrailTypes, TurnsInv, runtime = "mini" PROVE Recorded(Eventful, Steps)
    BY DEF StepsAreTurns, Recorded
  <2>1. trail \in Seq(Events)
    BY DEF TrailTypes
  <2>2. AdaptAll(trail) \in Accs
    <3>1. [type |-> "end"] \in Events
      BY DEF Events, Others
    <3> QED BY <2>1, <3>1, AdaptGrows
  <2>3. CASE inTurn
    BY <2>1, <2>2, <2>3, FlushRecords DEF TurnsInv, Steps
  <2>4. CASE ~inTurn
    <3>1. Steps = AdaptAll(trail).steps
      BY <2>4 DEF TurnsInv, Steps, Flush, NoStep
    <3> QED BY <2>4, <3>1 DEF TurnsInv
  <2> QED BY <2>3, <2>4
<1> QED BY <1>1, <1>2, <1>3, PTL DEF TrailSpec
=============================================================================
