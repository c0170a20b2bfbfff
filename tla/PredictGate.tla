----------------------------- MODULE PredictGate -----------------------------
(***************************************************************************)
(* The loop of the archharness agent: a submission must be preceded by a   *)
(* prediction, unless the loop believes that a submission is in flight. It *)
(* keeps one prediction and one flag for all submissions, and learns what  *)
(* became of them only from the replies the LLM asks for.                  *)
(*                                                                         *)
(* Source: runtimes/archharness/src/main.py; what the connector answers is *)
(* taken from simulators/champsim/connector/handlers/submit.py.            *)
(***************************************************************************)
EXTENDS Naturals, Sequences

CONSTANTS
    Subs,          \* submissions (bounds the run)
    MaxTurns,      \* --max-turns
    MaxSubmits,    \* --max-submits
    NudgeLimit,    \* turns without a tool call in a row, 5 in the code
    CallsPerTurn   \* tool calls of one LLM answer (bounds the run)

ASSUME GateAssumption ==
    {MaxTurns, MaxSubmits, NudgeLimit, CallsPerTurn} \subseteq Nat \ {0}

VARIABLES
    advertised,   \* mcp_tool_names
    ipc,          \* the metrics of this simulator have an "ipc"
    turn,         \* iterations begun
    nudges,       \* text_only_nudges
    calls,        \* tool calls of this turn still to be made
    prediction,   \* pending_prediction: none, without a value, with one
    inFlight,     \* submit_in_flight
    submitsDone,  \* submits_done
    over,         \* session_ended
    stopped,      \* why the loop ended
    late,         \* the deadline has passed
    sub,          \* the connector's view of each submission
    seen          \* submissions whose metrics were reported to the loop

turnVars == <<turn, nudges, stopped>>
gateVars == <<prediction, inFlight, submitsDone, seen>>
vars == <<advertised, ipc, turnVars, calls, gateVars, over, late, sub>>

(* The tools of a session with one simulator, and what they are called in  *)
(* one with several: <sim>_submit, ...  The loop does not tell one         *)
(* simulator's from another's, nor knows any of them by its name.          *)
McpTools == {"submit", "submit_and_wait", "check_submission", "session_end"}
PrefixedTools == {"sim_submit", "sim_submit_and_wait", "sim_check_submission",
                  "sim_session_end"}
SubmitTools == {"submit", "submit_and_wait"} \cap advertised
(* A local tool other than predict, or a name nobody offers, has no effect *)
(* on the loop; predict may lack its value.                                *)
LocalCalls == {"local", "predict", "predict_nothing"}
Reasons == {"turns", "timeout", "ended", "no_choices", "nudges", "budget",
            "crashed"}

(* tools/list may fail: then only the local tools are known.  A tier may   *)
(* leave tools out.                                                        *)
Discovered == SUBSET McpTools \cup SUBSET PrefixedTools

Init ==
    /\ advertised \in Discovered /\ ipc \in BOOLEAN
    /\ turn = 0 /\ nudges = 0 /\ calls = <<>>
    /\ prediction = "none" /\ inFlight = FALSE /\ submitsDone = 0
    /\ over = FALSE /\ stopped = "no" /\ late = FALSE
    /\ sub = [x \in Subs |-> "none"] /\ seen = {}

-----------------------------------------------------------------------------
(* A turn *)

AtTop == stopped = "no" /\ calls = <<>>

(* The top of the for loop: its bound, the deadline, session_end.          *)
LoopEnds ==
    /\ AtTop
    /\ \/ turn = MaxTurns /\ stopped' = "turns"
       \/ turn < MaxTurns /\ late /\ stopped' = "timeout"
       \/ turn < MaxTurns /\ ~late /\ over /\ stopped' = "ended"
    /\ UNCHANGED <<advertised, ipc, turn, nudges, calls, gateVars, over, late,
                   sub>>

BeginTurn ==
    /\ AtTop /\ turn < MaxTurns /\ ~late /\ ~over
    /\ turn' = turn + 1
    /\ UNCHANGED <<advertised, ipc, gateVars, over, late, sub>>

(* call_llm raises after its attempts, or the answer has no choices.       *)
NoAnswer ==
    /\ BeginTurn
    /\ stopped' \in {"crashed", "no_choices"}
    /\ UNCHANGED <<nudges, calls>>

TextOnly ==
    /\ BeginTurn
    /\ nudges' = nudges + 1
    /\ stopped' = IF nudges' >= NudgeLimit THEN "nudges" ELSE "no"
    /\ UNCHANGED calls

(* _prio: predictions first, submissions last.                             *)
Prio(c) == IF c \in {"predict", "predict_nothing"} THEN 0
           ELSE IF c \in SubmitTools THEN 2 ELSE 1

InOrder(s) == \A i, j \in DOMAIN s : i < j => Prio(s[i]) <= Prio(s[j])

ToolCalls ==
    /\ BeginTurn
    /\ nudges' = 0 /\ stopped' = "no"
    /\ \E n \in 1..CallsPerTurn :
          \E s \in [1..n -> LocalCalls \cup advertised] : InOrder(s) /\ calls' = s

-----------------------------------------------------------------------------
(* What the connector answers, and how the loop reads it *)

(* to_dict of a submission: outcome and metrics once it is done; a worker  *)
(* that raised leaves an error and no outcome.                             *)
ReplyOf(state) ==
    [status  |-> IF state = "running" THEN "running" ELSE "done",
     outcome |-> IF state = "ok" THEN "sim_ok"
                 ELSE IF state = "failed" THEN "sim_fail" ELSE "none",
     error   |-> state = "broken"]

(* An unknown id, or submit_and_wait that waited too long.                 *)
ErrorReply == [status |-> "timeout", outcome |-> "none", error |-> TRUE]

(* The call raised: "MCP ERROR ..." is no JSON and says nothing.           *)
LostReply == [status |-> "none", outcome |-> "none", error |-> FALSE]

(* _classify_submit_response                                               *)
IsStarted(r)  == r.status = "running"
IsResult(r)   == r.status = "done" /\ r.outcome = "sim_ok" /\ ipc
IsRejected(r) == r.error

(* Mutant: a result does not clear the flag.                               *)
MutClears(r) == IsRejected(r)

(* A result and an error clear the flag; a failed build or simulation does *)
(* not.                                                                    *)
Clears(r) == IsResult(r) \/ IsRejected(r)

Spent(done) == done >= MaxSubmits

(* A reply about submission x: a result is counted and uses up the         *)
(* prediction each time it is reported, and ends the loop at the budget,   *)
(* with the rest of the turn's calls.                                      *)
Bookkeep(x, r) ==
    /\ inFlight' = (~Clears(r) /\ (IsStarted(r) \/ inFlight))
    /\ IF IsResult(r)
       THEN /\ prediction' = "none"
            /\ submitsDone' = submitsDone + 1
            /\ seen' = seen \cup {x}
       ELSE UNCHANGED <<prediction, submitsDone, seen>>
    /\ IF IsResult(r) /\ Spent(submitsDone')
       THEN stopped' = "budget" /\ calls' = <<>>
       ELSE stopped' = "no" /\ calls' = Tail(calls)

(* A reply about no submission.                                            *)
BookkeepNone(r) ==
    /\ inFlight' = (~Clears(r) /\ inFlight)
    /\ stopped' = "no" /\ calls' = Tail(calls)
    /\ UNCHANGED <<prediction, submitsDone, seen>>

-----------------------------------------------------------------------------
(* A tool call *)

CallMade(c) ==
    /\ stopped = "no" /\ calls # <<>> /\ Head(calls) = c
    /\ UNCHANGED <<advertised, ipc, turn, nudges, late>>

LocalCall ==
    /\ CallMade("local")
    /\ calls' = Tail(calls)
    /\ UNCHANGED <<stopped, gateVars, over, sub>>

(* predict replaces what was predicted before, with a value or without.    *)
Predict ==
    /\ \/ CallMade("predict") /\ prediction' = "valued"
       \/ CallMade("predict_nothing") /\ prediction' = "empty"
    /\ calls' = Tail(calls)
    /\ UNCHANGED <<stopped, inFlight, submitsDone, seen, over, sub>>

(* need_prediction                                                         *)
NeedPrediction == ~inFlight /\ prediction # "valued"

(* The gate answers in the connector's place.                              *)
SubmitBlocked ==
    /\ \E c \in SubmitTools : CallMade(c)
    /\ NeedPrediction
    /\ calls' = Tail(calls)
    /\ UNCHANGED <<stopped, gateVars, over, sub>>

(* submit starts a submission and returns its handle; a call that raised   *)
(* may have started one, too.                                              *)
Submit ==
    /\ CallMade("submit") /\ ~NeedPrediction
    /\ \/ /\ \E x \in Subs :
                /\ sub[x] = "none"
                /\ sub' = [sub EXCEPT ![x] = "running"]
                /\ \/ Bookkeep(x, ReplyOf("running"))
                   \/ BookkeepNone(LostReply)
       \/ UNCHANGED sub /\ BookkeepNone(LostReply)
    /\ UNCHANGED over

(* submit_and_wait reports how it ended, or that it waited too long.       *)
SubmitAndWait ==
    /\ CallMade("submit_and_wait") /\ ~NeedPrediction
    /\ \/ /\ \E x \in Subs, end \in {"ok", "failed", "broken", "running"} :
                /\ sub[x] = "none"
                /\ sub' = [sub EXCEPT ![x] = end]
                /\ \/ end # "running" /\ Bookkeep(x, ReplyOf(end))
                   \/ end = "running" /\ BookkeepNone(ErrorReply)
                   \/ BookkeepNone(LostReply)
       \/ UNCHANGED sub /\ BookkeepNone(LostReply)
    /\ UNCHANGED over

(* check_submission passes the gate, and reports as often as it is asked.  *)
CheckSubmission ==
    /\ CallMade("check_submission")
    /\ \/ \E x \in Subs : sub[x] # "none" /\ Bookkeep(x, ReplyOf(sub[x]))
       \/ BookkeepNone(ErrorReply)
       \/ BookkeepNone(LostReply)
    /\ UNCHANGED <<over, sub>>

(* The loop ends at the next turn, whatever the connector answered.        *)
SessionEnd ==
    /\ CallMade("session_end")
    /\ over' = TRUE
    /\ calls' = Tail(calls)
    /\ UNCHANGED <<stopped, gateVars, sub>>

(* A tool of one simulator of several is none of submit_tool_names, not    *)
(* check_submission and not session_end: no gate, and no bookkeeping.      *)
SubmitPrefixed ==
    /\ \/ \E x \in Subs :
             /\ sub[x] = "none"
             /\ \/ CallMade("sim_submit") /\ sub' = [sub EXCEPT ![x] = "running"]
                \/ /\ CallMade("sim_submit_and_wait")
                   /\ \E end \in {"ok", "failed", "broken", "running"} :
                          sub' = [sub EXCEPT ![x] = end]
       \/ \E c \in PrefixedTools : CallMade(c) /\ UNCHANGED sub
    /\ calls' = Tail(calls)
    /\ UNCHANGED <<stopped, gateVars, over>>

-----------------------------------------------------------------------------
(* Around the loop *)

SubmissionEnds(x) ==
    /\ sub[x] = "running"
    /\ \E end \in {"ok", "failed", "broken"} : sub' = [sub EXCEPT ![x] = end]
    /\ UNCHANGED <<advertised, ipc, turnVars, calls, gateVars, over, late>>

DeadlinePasses ==
    /\ ~late /\ late' = TRUE
    /\ UNCHANGED <<advertised, ipc, turnVars, calls, gateVars, over, sub>>

LoopStep ==
    \/ LoopEnds \/ NoAnswer \/ TextOnly \/ ToolCalls
    \/ LocalCall \/ Predict \/ SubmitBlocked \/ Submit \/ SubmitAndWait
    \/ CheckSubmission \/ SessionEnd \/ SubmitPrefixed

Next == LoopStep \/ DeadlinePasses \/ \E x \in Subs : SubmissionEnds(x)

Spec == Init /\ [][Next]_vars

-----------------------------------------------------------------------------
(* Properties *)

TypeOK ==
    /\ advertised \in Discovered /\ ipc \in BOOLEAN
    /\ turn \in 0..MaxTurns /\ nudges \in 0..NudgeLimit
    /\ calls \in Seq(LocalCalls \cup McpTools \cup PrefixedTools)
    /\ prediction \in {"none", "empty", "valued"}
    /\ inFlight \in BOOLEAN /\ submitsDone \in Nat /\ over \in BOOLEAN
    /\ stopped \in Reasons \cup {"no"} /\ late \in BOOLEAN
    /\ sub \in [Subs -> {"none", "running", "ok", "failed", "broken"}]
    /\ seen \subseteq Subs

(* The flag is up only on account of a submission that was started and     *)
(* whose metrics the agent was not given.                                  *)
FlagIsEarned == inFlight => \E y \in Subs : sub[y] # "none" /\ y \notin seen

(* A submission that starts was predicted with a value since the last      *)
(* result, or starts beside one whose metrics the agent was not given yet  *)
(* (the gate of run_loop, need_prediction), in every session whose tools   *)
(* have the names the loop knows; with several simulators they have not,   *)
(* and nothing is gated.                                                   *)
GateCovers ==
    [][\A x \in Subs :
         advertised \cap PrefixedTools = {} /\ sub[x] = "none" /\ sub'[x] # "none"
         => \/ prediction = "valued"
            \/ \E y \in Subs \ {x} : sub[y] # "none" /\ y \notin seen]_vars
=============================================================================
