------------------------------ MODULE Scoring ------------------------------
(***************************************************************************)
(* How a session is scored: the rows the connectors append to              *)
(* submit_outcomes.jsonl and the evaluators that read them, one after      *)
(* another, while late submissions may still append.                       *)
(*                                                                         *)
(* A metric is a record: head is its value under the challenge's headline  *)
(* key, raw its edp_raw, feasible says that acc_ok and area_ok are both    *)
(* true.  NoValue stands for an absent key.  Everything from Sentinel on   *)
(* is a penalty, not a measurement.  A row is written as the number of its *)
(* submission, whose report is final by then.                              *)
(***************************************************************************)
EXTENDS Naturals, Sequences, FiniteSets, SequencesExt

CONSTANTS Sims,            \* the challenge's simulators, one connector each
          Challenges,      \* what varies between challenges: see below
          NoMetric, NoValue,
          Sentinel,        \* 1e29
          MaxSubs          \* bound on the submissions of a session

Evaluators == {"simulator_metric", "prediction_calibration",
               "iteration_quality", "cross_sim_discrepancy"}

(* Whether lower is better, max_submissions, what its simulations can      *)
(* measure, the order in which challenge.evaluations lists the evaluators, *)
(* and whether simulator_metric's config.bypass_if_present names the rows. *)
ASSUME ScoringAssumption ==
    /\ MaxSubs \in Nat /\ Sentinel \in Nat
    /\ NoValue \notin Nat
    /\ \A c \in Challenges :
           /\ c.lower \in BOOLEAN /\ c.bypass \in BOOLEAN /\ c.budget \in Nat \ {0}
           /\ \A m \in c.metrics : /\ {m.head, m.raw} \subseteq Nat \cup {NoValue}
                                   /\ m.feasible \in BOOLEAN
           /\ NoMetric \notin c.metrics
           /\ c.order \in Seq(Evaluators)

VARIABLES
    challenge,    \* the challenge of the session
    subs,         \* submissions in the order they were accepted
    rows,         \* submit_outcomes.jsonl
    overdue,      \* the grace period ended with submissions in flight
    workspace,    \* prediction.json of the workspace, once it is copied out
    at,           \* the entry of challenge.evaluations being evaluated
    reading,      \* between the two reads of an evaluator
    metric,       \* eval_simulator_metric.json: raw_metric
    feasible,     \* eval_simulator_metric.json: best feasible design
    actual,       \* prediction_calibration: the value it grades against, and
                  \* where that comes from
    calibration,  \* eval_prediction_calibration.json
    iteration,    \* eval_iteration_quality.json
    cross         \* eval_cross_sim_discrepancy.json: submission per simulator

agent   == <<challenge, subs, rows>>
judges  == <<overdue, workspace, at, reading>>
reports == <<metric, feasible, actual, calibration, iteration, cross>>
vars    == <<agent, judges, reports>>

Lower  == challenge.lower
order  == challenge.order
Values == {m.head : m \in challenge.metrics} \cup {m.raw : m \in challenge.metrics}

(* What prediction.json holds: nothing usable, a prediction, or an object  *)
(* that _parse_prediction refuses.                                         *)
Predictions == {"none", "good", "broken"}

Submission == [sim : Sims, prediction : Predictions, seen : 0..MaxSubs,
               status : {"queued", "running", "sim_ok", "failed"},
               metric : challenge.metrics \cup {NoMetric}]

NoSub     == 0
NotYet    == "not yet"
NoActual  == [by |-> NotYet, value |-> NoValue]
NoReport  == [class |-> NotYet, sub |-> NoSub, bound |-> FALSE, actual |-> NoActual]
NoQuality == [class |-> NotYet, first |-> NoValue, best |-> NoValue,
              last |-> NoValue, scored |-> 0]

Init ==
    /\ challenge \in Challenges
    /\ subs = <<>>
    /\ rows = <<>>
    /\ overdue = FALSE
    /\ workspace = "none"
    /\ at = 0
    /\ reading = FALSE
    /\ metric = [source |-> NotYet, sub |-> NoSub, head |-> NoValue]
    /\ feasible = [count |-> 0, sub |-> NoSub]
    /\ actual = NoActual
    /\ calibration = NoReport
    /\ iteration = NoQuality
    /\ cross = [s \in Sims |-> NoSub]

-----------------------------------------------------------------------------
(* The session: the agent submits, the connectors answer.                  *)

Judging == at > 0

(* A submission is accepted; its prediction is captured at once.           *)
Accept(s, p) ==
    /\ ~Judging /\ Len(subs) < MaxSubs
    /\ subs' = Append(subs, [sim |-> s, prediction |-> p, seen |-> Len(rows),
                             status |-> "queued", metric |-> NoMetric])
    /\ UNCHANGED <<challenge, rows, judges, reports>>

Successes(s) == Cardinality({j \in 1..Len(subs) :
                    subs[j].sim = s /\ subs[j].metric # NoMetric})

(* The budget check of handle_submit: a submission past the budget is      *)
(* reported as sim_ok without a metric, at once.                           *)
CheckBudget(i) ==
    /\ subs[i].status = "queued"
    /\ subs' = [subs EXCEPT ![i].status =
                    IF Successes(subs[i].sim) >= challenge.budget
                    THEN "sim_ok" ELSE "running"]
    /\ UNCHANGED <<challenge, rows, judges, reports>>

Succeed(i, m) ==
    /\ subs[i].status = "running"
    /\ subs' = [subs EXCEPT ![i].status = "sim_ok", ![i].metric = m]
    /\ UNCHANGED <<challenge, rows, judges, reports>>

Fail(i) ==
    /\ subs[i].status = "running"
    /\ subs' = [subs EXCEPT ![i].status = "failed"]
    /\ UNCHANGED <<challenge, rows, judges, reports>>

(* Rows are appended by the workers, in the order they get there.          *)
AppendRow(i) ==
    /\ subs[i].status \in {"sim_ok", "failed"}
    /\ ~Contains(rows, i)
    /\ rows' = Append(rows, i)
    /\ UNCHANGED <<challenge, subs, judges, reports>>

-----------------------------------------------------------------------------
(* What the evaluators compute from the rows.                              *)

Better(a, b) == IF Lower THEN a < b ELSE a > b

(* A finite value below the penalties.                                     *)
Measured(v) == v # NoValue /\ v < Sentinel

MetricOf(i) == subs[i].metric
Has(i)      == MetricOf(i) # NoMetric
ValueOf(i)  == IF Has(i) THEN MetricOf(i).head ELSE NoValue

(* What the evaluators look for are rows, by their place in the file.      *)
SimOk == {k \in 1..Len(rows) : subs[rows[k]].status = "sim_ok" /\ Has(rows[k])}
Value(k) == ValueOf(rows[k])
Metric(k) == MetricOf(rows[k])

(* A bug: the last submission is scored.                                   *)
MutBestSubmit == IF SimOk = {} THEN NoSub ELSE rows[Max(SimOk)]

(* _best_submit_outcomes: the first best one under the headline key, a     *)
(* penalty counting like a value; without the key the last row.            *)
BestSubmit ==
    LET keyed == {k \in SimOk : Value(k) # NoValue} IN
    IF SimOk = {} THEN NoSub
    ELSE IF keyed = {} THEN rows[Max(SimOk)]
    ELSE rows[CHOOSE k \in keyed : \A j \in keyed \ {k} :
                  Better(Value(k), Value(j)) \/ (Value(k) = Value(j) /\ k < j)]

(* A bug: a design that misses its accuracy or area counts.                *)
MutFeasible == {k \in SimOk : Metric(k).raw # NoValue}

(* _best_feasible_edp: the smallest edp_raw of the feasible rows, the      *)
(* earliest of equals.                                                     *)
Feasible == {k \in SimOk : Metric(k).feasible /\ Metric(k).raw # NoValue}
BestFeasible ==
    IF Feasible = {} THEN NoSub
    ELSE rows[CHOOSE k \in Feasible : \A j \in Feasible \ {k} :
                  \/ Metric(k).raw < Metric(j).raw
                  \/ Metric(k).raw = Metric(j).raw /\ k < j]

(* A bug: an equal result takes over.                                      *)
MutScan(i, acc) ==
    IF /\ subs[i].status = "sim_ok"
       /\ Measured(ValueOf(i))
       /\ acc = NoSub \/ ~Better(ValueOf(acc), ValueOf(i))
    THEN i ELSE acc
(* One row of the scan for the scored submission: strictly better wins.    *)
Scan(i, acc) ==
    IF /\ subs[i].status = "sim_ok"
       /\ Measured(ValueOf(i))
       /\ acc = NoSub \/ Better(ValueOf(i), ValueOf(acc))
    THEN i ELSE acc
ScoredSub ==
    LET after[k \in 0..Len(rows)] ==
          IF k = 0 THEN NoSub ELSE Scan(rows[k], after[k - 1])
    IN after[Len(rows)]

(* iteration_quality takes every measured value, whatever the outcome, and *)
(* of them the first, the best and the last.                               *)
History == {k \in 1..Len(rows) : Measured(Value(k))}
MutBestOf == Value(Max(History))
BestOf ==
    LET best[k \in 0..Len(rows)] ==
          IF k = 0 THEN NoValue
          ELSE IF /\ Measured(Value(k))
                  /\ best[k - 1] = NoValue \/ Better(Value(k), best[k - 1])
          THEN Value(k) ELSE best[k - 1]
    IN best[Len(rows)]

MutLastOk(s) ==
    LET mine == {k \in SimOk : subs[rows[k]].sim = s}
    IN IF mine = {} THEN NoSub ELSE rows[Min(mine)]
LastOk(s) ==
    LET mine == {k \in SimOk : subs[rows[k]].sim = s /\ Value(k) # NoValue}
    IN IF mine = {} THEN NoSub ELSE rows[Max(mine)]

-----------------------------------------------------------------------------
(* _run_post_session_evaluators: one evaluator after the other.            *)

BeginJudging(p) ==
    /\ ~Judging
    /\ at' = 1
    /\ overdue' = \E i \in 1..Len(subs) : ~Contains(rows, i)
    /\ workspace' = p
    /\ UNCHANGED <<agent, reading, reports>>

Evaluating(name) == Judging /\ at <= Len(order) /\ order[at] = name
Next1 == at' = at + 1 /\ reading' = FALSE
Reread == reading' = TRUE /\ UNCHANGED at

(* simulator_metric from the rows, where the challenge lets it; a scalar   *)
(* EDP metric is followed by a second read of the file.                    *)
JudgeRows ==
    /\ Evaluating("simulator_metric") /\ ~reading
    /\ challenge.bypass /\ BestSubmit # NoSub
    /\ metric' = [source |-> "submit_outcomes_jsonl", sub |-> BestSubmit,
                  head |-> ValueOf(BestSubmit)]
    /\ IF MetricOf(BestSubmit).raw # NoValue THEN Reread ELSE Next1
    /\ UNCHANGED <<agent, overdue, workspace, feasible, actual, calibration, iteration,
                   cross>>

JudgeFeasible ==
    /\ Evaluating("simulator_metric") /\ reading
    /\ feasible' = [count |-> Cardinality(Feasible), sub |-> BestFeasible]
    /\ Next1
    /\ UNCHANGED <<agent, overdue, workspace, metric, actual, calibration, iteration,
                   cross>>

(* Otherwise, or without a metric in the rows, evaluate.sh is run on the   *)
(* final workspace, whose design need not be one of the rows'; its output  *)
(* may lack the headline key.                                              *)
Rerun ==
    /\ Evaluating("simulator_metric") /\ ~reading
    /\ ~challenge.bypass \/ BestSubmit = NoSub
    /\ \/ \E v \in {m.head : m \in challenge.metrics} \cup {NoValue} :
              metric' = [source |-> "evaluate_sh", sub |-> NoSub, head |-> v]
       \/ metric' = [source |-> "failed", sub |-> NoSub, head |-> NoValue]
    /\ Next1
    /\ UNCHANGED <<agent, overdue, workspace, feasible, actual, calibration, iteration,
                   cross>>

(* prediction_calibration: _actual_metric, which prefers what              *)
(* simulator_metric wrote, ...                                             *)
ReadActual ==
    LET v == IF Measured(metric.head)
             THEN [by |-> metric.source, value |-> metric.head]
             ELSE IF ScoredSub # NoSub
             THEN [by |-> "submit_outcomes_jsonl", value |-> ValueOf(ScoredSub)]
             ELSE NoActual
    IN /\ Evaluating("prediction_calibration") /\ ~reading
       /\ actual' = v
       /\ IF v = NoActual
          THEN /\ calibration' = [NoReport EXCEPT !.class = "no_ground_truth"]
               /\ Next1
          ELSE Reread /\ UNCHANGED calibration
       /\ UNCHANGED <<agent, overdue, workspace, metric, feasible, iteration, cross>>

(* ... then _find_prediction, which reads the rows anew, and               *)
(* _parse_prediction.                                                      *)
GradePrediction ==
    LET bound == ScoredSub # NoSub /\ subs[ScoredSub].prediction # "none"
        p     == IF bound THEN subs[ScoredSub].prediction
                 ELSE workspace
    IN /\ Evaluating("prediction_calibration") /\ reading
       /\ calibration' =
              [class |-> IF p = "none" THEN "agent_missing_artifact"
                         ELSE IF p = "broken" THEN "artifact_broken"
                         ELSE "scored",
               sub   |-> IF bound THEN ScoredSub ELSE NoSub,
               bound |-> bound, actual |-> actual]
       /\ Next1
       /\ UNCHANGED <<agent, overdue, workspace, metric, feasible, actual, iteration,
                      cross>>

GradeIterations ==
    /\ Evaluating("iteration_quality")
    /\ iteration' =
           IF History = {} THEN [NoQuality EXCEPT !.class = "no_ground_truth"]
           ELSE [class |-> "scored", first |-> Value(Min(History)),
                 best |-> BestOf, last |-> Value(Max(History)),
                 scored |-> Cardinality(History)]
    /\ Next1
    /\ UNCHANGED <<agent, overdue, workspace, metric, feasible, actual, calibration,
                   cross>>

CompareSims ==
    /\ Evaluating("cross_sim_discrepancy")
    /\ cross' = [s \in Sims |-> LastOk(s)]
    /\ Next1
    /\ UNCHANGED <<agent, overdue, workspace, metric, feasible, actual, calibration,
                   iteration>>

-----------------------------------------------------------------------------
Worker(i) == \/ CheckBudget(i)
             \/ \E m \in challenge.metrics : Succeed(i, m)
             \/ Fail(i)
             \/ AppendRow(i)

Evaluate == \/ JudgeRows
            \/ JudgeFeasible
            \/ Rerun
            \/ ReadActual
            \/ GradePrediction
            \/ GradeIterations
            \/ CompareSims

Next == \/ \E s \in Sims, p \in Predictions : Accept(s, p)
        \/ \E i \in 1..Len(subs) : Worker(i)
        \/ \E p \in Predictions : BeginJudging(p)
        \/ Evaluate

Spec == Init /\ [][Next]_vars

-----------------------------------------------------------------------------
Classes == {NotYet, "scored", "no_ground_truth", "agent_missing_artifact",
            "artifact_broken"}

Actuals == [by : {NotYet, "submit_outcomes_jsonl", "evaluate_sh"},
            value : Values \cup {NoValue}]

(* Every variable keeps to its type; a submission has at most one row.     *)
TypeOK ==
    /\ challenge \in Challenges
    /\ subs \in Seq(Submission) /\ Len(subs) <= MaxSubs
    /\ rows \in Seq(1..Len(subs)) /\ IsInjective(rows)
    /\ overdue \in BOOLEAN /\ workspace \in Predictions
    /\ at \in 0..(Len(order) + 1) /\ reading \in BOOLEAN
    /\ metric \in [source : {NotYet, "submit_outcomes_jsonl", "evaluate_sh",
                             "failed"},
                   sub : 0..MaxSubs, head : Values \cup {NoValue}]
    /\ feasible \in [count : 0..MaxSubs, sub : 0..MaxSubs]
    /\ actual \in Actuals
    /\ calibration \in [class : Classes, sub : 0..MaxSubs, bound : BOOLEAN,
                        actual : Actuals]
    /\ iteration \in [class : Classes, first : Values \cup {NoValue},
                      best : Values \cup {NoValue}, last : Values \cup {NoValue},
                      scored : 0..MaxSubs]
    /\ cross \in [Sims -> 0..MaxSubs]

(* A prediction that counts as bound to the scored submit is graded        *)
(* against the value of that very submit, although value and prediction    *)
(* come from two reads, of two files, by two evaluators (_find_prediction: *)
(* the same row _actual_metric grades against).  Two things come between:  *)
(* evaluate.sh run again, which takes a challenge without                  *)
(* bypass_if_present or overdue submissions; and an overdue row, appended  *)
(* between the reads, which is then a better one, never a worse.           *)
GradedOnItsRow ==
    LET graded == calibration.actual IN
    calibration.bound =>
        IF graded.by = "evaluate_sh" THEN ~challenge.bypass \/ overdue
        ELSE \/ graded.value = ValueOf(calibration.sub)
             \/ overdue /\ Better(ValueOf(calibration.sub), graded.value)

(* A bound prediction was made before any result as good as the one it is  *)
(* graded on was in the results: submitting once more with a prediction    *)
(* written after the fact never replaces the first one.                    *)
NoRetrofit ==
    calibration.bound =>
        \A k \in 1..subs[calibration.sub].seen :
            Measured(ValueOf(rows[k])) =>
                Better(ValueOf(calibration.sub), ValueOf(rows[k]))

(* iteration_quality, prediction_calibration and simulator_metric find     *)
(* the best value by three loops of their own; whichever read the rows     *)
(* agree on it, and on whether there is one.                               *)
JudgesAgree ==
    LET graded  == calibration.actual
        readers == calibration.class # NotYet /\ graded.by # "evaluate_sh"
    IN ~overdue =>
       /\ iteration.class = "scored" =>
              /\ readers => graded.value = iteration.best
              /\ metric.source = "submit_outcomes_jsonl" /\ Measured(metric.head)
                   => metric.head = iteration.best
       /\ iteration.class = "no_ground_truth" /\ readers =>
              calibration.class = "no_ground_truth"

(* Where evaluate.sh gates edp to a penalty exactly for designs that are   *)
(* not feasible, the best feasible design has the headline value, and a    *)
(* headline that is a penalty means that no design was feasible.           *)
BestFeasibleIsHeadline ==
    /\ ~overdue /\ Judging /\ ~reading
    /\ metric.source = "submit_outcomes_jsonl"
    /\ MetricOf(metric.sub).raw # NoValue
    =>  IF feasible.count > 0
        THEN MetricOf(feasible.sub).raw = metric.head
        ELSE ~Measured(metric.head)

(* Whoever looks for the best submission finds the same one: the three     *)
(* loops over the rows, and the one over the feasible designs.             *)
BestIsOne == JudgesAgree /\ BestFeasibleIsHeadline

(* What BestIsOne takes of the challenges: where there is an edp_raw, edp  *)
(* is lower-is-better, and a penalty exactly when it is not feasible.      *)
GatesPenalties ==
    \A c \in Challenges : \A m \in c.metrics :
        m.raw # NoValue =>
            /\ c.lower
            /\ IF m.feasible THEN m.head = m.raw /\ m.raw < Sentinel
                             ELSE m.head \in Nat /\ ~Measured(m.head)

(* cross_sim_discrepancy takes the final successful submission to each     *)
(* simulator: nothing successful was submitted to it after the result of   *)
(* that one was out (rows come in the order submissions finish, so among   *)
(* those in flight together the last to finish counts).                    *)
FinalIsLatest ==
    \A s \in Sims, k \in 1..Len(rows) :
        LET i == rows[k] IN
        /\ ~overdue /\ cross[s] # NoSub /\ subs[i].sim = s
        /\ subs[i].status = "sim_ok" /\ ValueOf(i) # NoValue
        => \A n \in 1..subs[i].seen : rows[n] # cross[s]
=============================================================================
