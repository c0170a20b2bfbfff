----------------------------- MODULE MCScoring -----------------------------
(* Challenges for TLC.                                                     *)
EXTENDS Scoring

Plain(v) == [head |-> v, raw |-> NoValue, feasible |-> FALSE]
Edp(v)   == [head |-> v, raw |-> v, feasible |-> TRUE]
Gated(v) == [head |-> Sentinel, raw |-> v, feasible |-> FALSE]

All == <<"simulator_metric", "prediction_calibration", "iteration_quality",
         "cross_sim_discrepancy">>
Twice == Append(All, "simulator_metric")

(* Two values, with a penalty, without the headline key, and as an EDP     *)
(* gated for designs that are not feasible; simulator_metric before and    *)
(* after prediction_calibration, listed twice, and not at all; and a       *)
(* challenge without bypass_if_present.                                    *)
Mixed ==
    {[lower |-> TRUE, budget |-> 2, bypass |-> TRUE, order |-> o,
      metrics |-> {Plain(1), Plain(2), Plain(Sentinel)}] :
        o \in {Twice, Reverse(All), Tail(All)}}
    \cup {[lower |-> FALSE, budget |-> 1, bypass |-> TRUE, order |-> All,
            metrics |-> {Plain(1), Plain(2), Plain(NoValue)}],
          [lower |-> TRUE, budget |-> 2, bypass |-> FALSE, order |-> All,
            metrics |-> {Plain(1), Plain(2)}],
          [lower |-> TRUE, budget |-> 2, bypass |-> TRUE, order |-> All,
            metrics |-> {Edp(1), Edp(2), Gated(1)}]}

(* What the theorem about BestIsOne assumes of them.                       *)
ASSUME MixedIsSound == GatesPenalties
=============================================================================
