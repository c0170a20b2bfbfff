------------------------------ MODULE AgentLoop ------------------------------
(***************************************************************************)
(* The loop of the mini agent: turns of one LLM call and the tool calls it *)
(* asks for, the advisory count of successful submissions, the early stop, *)
(* and the end of the session in a session of one or several simulators.   *)
(* Tools are known by the names the server advertises.                     *)
(*                                                                         *)
(* Source: runtimes/mini/src/main.py; what the tools do is taken from      *)
(* simulators/champsim/connector/handlers/submit.py.                       *)
(***************************************************************************)
EXTENDS Naturals, Sequences, FiniteSets

CONSTANTS
    Sims,          \* simulators
    NoSim,         \* not a simulator
    Tools,         \* tools the challenge's tier allows (tier_tools)
    Subs,          \* submissions (bounds the run)
    MaxTurns,      \* --max-turns
    MaxSubmits,    \* --max-submits
    NudgeLimit,    \* turns without a tool call in a row, 5 in the code
    CallsPerTurn   \* tool calls of one LLM answer (bounds the run)

ASSUME LoopAssumption ==
    /\ Sims # {} /\ IsFiniteSet(Sims) /\ NoSim \notin Sims
    /\ Tools \subseteq {"submit", "submit_and_wait", "check_submission",
                        "session_end"}
    /\ {MaxTurns, MaxSubmits, NudgeLimit, CallsPerTurn} \subseteq Nat \ {0}

VARIABLES
    advertised,   \* mcp_tool_names, one for each simulator of the session
    turn,         \* iterations begun
    nudges,       \* text_only_nudges
    pending,      \* tool calls of this turn still to be made
    submitsDone,  \* submits_done
    ended,        \* simulators whose session_end was called
    over,         \* session_ended
    late,         \* the deadline has passed
    stopped,      \* why the loop ended
    sub,          \* the connector's view of each submission
    seen          \* submissions whose success was reported to the agent

loopVars == <<turn, nudges, pending, submitsDone, ended, over, stopped>>
vars == <<advertised, loopVars, late, sub, seen>>

Reasons == {"turns", "timeout", "ended", "no_choices", "nudges", "budget",
            "crashed"}
NamesOf(sims) == [sim : sims, tool : Tools]
AllNames == NamesOf(Sims)
Local == [sim |-> NoSim, tool |-> "local"]

(* The simulators of the session, as far as the loop knows them.           *)
Bound == {n.sim : n \in advertised}

(* _ends(suffix): the advertised names of one tool.                        *)
Ends(tool) == {n \in advertised : n.tool = tool}

(* _is_multi_sim counts the submit names.                                  *)
IsMultiSim == Cardinality(Ends("submit")) > 1

SubsOf(s) == {x \in Subs : sub[x].sim = s}
NoSub == [sim |-> NoSim, state |-> "none"]

(* A session binds some of the simulators. tools/list may fail: then only  *)
(* the local tools are known.                                              *)
Init ==
    /\ \E sims \in SUBSET Sims : advertised = NamesOf(sims)
    /\ turn = 0 /\ nudges = 0 /\ pending = <<>> /\ submitsDone = 0
    /\ ended = {} /\ over = FALSE /\ late = FALSE /\ stopped = "no"
    /\ sub = [x \in Subs |-> NoSub] /\ seen = {}

-----------------------------------------------------------------------------
(* A turn *)

StopBecause(why) ==
    /\ stopped' = why
    /\ UNCHANGED <<turn, nudges, submitsDone, ended, over>>

(* The top of the for loop: its bound, the deadline, session_end.          *)
LoopEnds ==
    /\ stopped = "no" /\ pending = <<>>
    /\ \/ turn = MaxTurns /\ StopBecause("turns")
       \/ turn < MaxTurns /\ late /\ StopBecause("timeout")
       \/ turn < MaxTurns /\ ~late /\ over /\ StopBecause("ended")
    /\ UNCHANGED <<advertised, pending, late, sub, seen>>

(* Mutant: the turn is not counted.                                        *)
MutBeginTurn ==
    /\ stopped = "no" /\ pending = <<>>
    /\ turn < MaxTurns /\ ~late /\ ~over
    /\ turn' = turn
    /\ UNCHANGED <<advertised, submitsDone, ended, over, late, sub, seen>>

BeginTurn ==
    /\ stopped = "no" /\ pending = <<>>
    /\ turn < MaxTurns /\ ~late /\ ~over
    /\ turn' = turn + 1
    /\ UNCHANGED <<advertised, submitsDone, ended, over, late, sub, seen>>

(* call_llm raises after its retries.                                      *)
LlmFails ==
    /\ BeginTurn
    /\ stopped' = "crashed"
    /\ UNCHANGED <<nudges, pending>>

NoChoices ==
    /\ BeginTurn
    /\ stopped' = "no_choices"
    /\ UNCHANGED <<nudges, pending>>

TextOnly ==
    /\ BeginTurn
    /\ nudges' = nudges + 1
    /\ stopped' = IF nudges' >= NudgeLimit THEN "nudges" ELSE "no"
    /\ UNCHANGED pending

(* The LLM may call any name; a name that is not advertised is answered    *)
(* without effect, as a local tool is.                                     *)
ToolCalls ==
    /\ BeginTurn
    /\ nudges' = 0 /\ stopped' = "no"
    /\ \E n \in 1..CallsPerTurn : pending' \in [1..n -> advertised \cup {Local}]

-----------------------------------------------------------------------------
(* A tool call *)

CallMade(name) ==
    /\ stopped = "no" /\ pending # <<>> /\ Head(pending) = name
    /\ UNCHANGED <<advertised, turn, nudges, late>>

LocalCall ==
    /\ CallMade(Local)
    /\ pending' = Tail(pending)
    /\ UNCHANGED <<submitsDone, ended, over, stopped, sub, seen>>

(* A reply with the metrics of a submission (the one in reported) counts   *)
(* each time; the loop of a single simulator stops at the budget.          *)
Bookkeep(reported) ==
    /\ submitsDone' = submitsDone + Cardinality(reported)
    /\ seen' = seen \cup reported
    /\ IF ~IsMultiSim /\ reported # {} /\ submitsDone' >= MaxSubmits
       THEN stopped' = "budget" /\ pending' = <<>>
       ELSE stopped' = "no" /\ pending' = Tail(pending)
    /\ UNCHANGED <<ended, over>>

(* submit starts a submission and returns its handle; the call may fail    *)
(* with (MCP ERROR) or without the submission having been started.         *)
CallSubmit(s) ==
    /\ CallMade([sim |-> s, tool |-> "submit"])
    /\ \/ UNCHANGED sub
       \/ \E x \in Subs :
            /\ sub[x] = NoSub
            /\ sub' = [sub EXCEPT ![x] = [sim |-> s, state |-> "running"]]
    /\ Bookkeep({})

(* submit_and_wait also reports the outcome, unless it takes too long.     *)
CallSubmitAndWait(s) ==
    /\ CallMade([sim |-> s, tool |-> "submit_and_wait"])
    /\ \/ UNCHANGED sub /\ Bookkeep({})
       \/ \E x \in Subs, outcome \in {"running", "ok", "failed"} :
            /\ sub[x] = NoSub
            /\ sub' = [sub EXCEPT ![x] = [sim |-> s, state |-> outcome]]
            /\ \/ outcome = "ok" /\ Bookkeep({x})
               \/ outcome # "ok" /\ Bookkeep({})
               \/ Bookkeep({})

(* check_submission reports the outcome of a submission as often as it is  *)
(* asked.                                                                  *)
CallCheckSubmission(s) ==
    /\ CallMade([sim |-> s, tool |-> "check_submission"])
    /\ \/ Bookkeep({})
       \/ \E x \in SubsOf(s) : sub[x].state = "ok" /\ Bookkeep({x})
    /\ UNCHANGED sub

(* Mutant: any session_end ends the loop.                                  *)
MutEndsLoop(s) == TRUE

(* One session_end of a single simulator ends the loop; of several, each   *)
(* name that was advertised must have been called.                         *)
EndsLoop(s) ==
    ~IsMultiSim \/ {n.sim : n \in Ends("session_end")} \subseteq ended \cup {s}

CallSessionEnd(s) ==
    /\ CallMade([sim |-> s, tool |-> "session_end"])
    /\ ended' = ended \cup {s}
    /\ over' = (over \/ EndsLoop(s))
    /\ pending' = Tail(pending)
    /\ UNCHANGED <<submitsDone, stopped, sub, seen>>

-----------------------------------------------------------------------------
(* Around the loop *)

(* A running submission ends.                                              *)
SubmissionEnds(x) ==
    /\ sub[x].state = "running"
    /\ \E outcome \in {"ok", "failed"} : sub' = [sub EXCEPT ![x].state = outcome]
    /\ UNCHANGED <<advertised, loopVars, late, seen>>

DeadlinePasses ==
    /\ ~late /\ late' = TRUE
    /\ UNCHANGED <<advertised, loopVars, sub, seen>>

LoopStep ==
    \/ LoopEnds \/ LlmFails \/ NoChoices \/ TextOnly \/ ToolCalls \/ LocalCall
    \/ \E s \in Sims : \/ CallSubmit(s) \/ CallSubmitAndWait(s)
                       \/ CallCheckSubmission(s) \/ CallSessionEnd(s)

Next == LoopStep \/ DeadlinePasses \/ \E x \in Subs : SubmissionEnds(x)

Spec == Init /\ [][Next]_vars

(* LLM and tool calls return.                                              *)
FairSpec == Spec /\ WF_vars(LoopStep)

-----------------------------------------------------------------------------
(* Properties *)

TypeOK ==
    /\ advertised \subseteq AllNames
    /\ turn \in 0..MaxTurns /\ nudges \in 0..NudgeLimit
    /\ pending \in Seq(AllNames \cup {Local})
    /\ submitsDone \in Nat
    /\ ended \subseteq Sims /\ over \in BOOLEAN /\ late \in BOOLEAN
    /\ stopped \in Reasons \cup {"no"}
    /\ sub \in [Subs -> [sim : Sims \cup {NoSim},
                    state : {"none", "running", "ok", "failed"}]]
    /\ seen \subseteq Subs

(* The loop never goes on once max_submits successes have been reported to *)
(* the agent of a single simulator.                                        *)
SpentStops ==
    stopped = "no" /\ ~IsMultiSim => Cardinality(seen) < MaxSubmits

(* With several simulators the budget is the connector's business: the     *)
(* loop is never cut short after max_submits successes in total.           *)
BudgetStopsOnlySingle == stopped = "budget" => Cardinality(Bound) = 1

(* A loop that the agent ended has ended every simulator's session.        *)
EndCoversSims == stopped = "ended" => ended = Bound

(* With several simulators neither the shared count of successes nor the   *)
(* session_end of one of them ends the loop for the others.                *)
SeveralSims == EndCoversSims /\ BudgetStopsOnlySingle

(* Whatever the LLM answers, the loop ends.                                *)
LoopTerminates == <>(stopped # "no")
=============================================================================
