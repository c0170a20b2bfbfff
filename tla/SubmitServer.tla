---------------------------- MODULE SubmitServer ----------------------------
(***************************************************************************)
(* The submit connector: the process that receives an agent's submit,      *)
(* submit_and_wait and check_submission calls, runs each submission on a   *)
(* worker thread of its own and leaves one row per finished submission in  *)
(* submit_outcomes.jsonl.                                                  *)
(*                                                                         *)
(* Source: simulators/champsim/connector/handlers/submit.py, registered by *)
(* server_subprocess.py.  Tool handlers are plain functions that FastMCP   *)
(* calls on its event loop, so one handler runs at a time ("loop" below);  *)
(* worker threads interleave with the handler and with each other at every *)
(* shared read, write and blocking call.                                   *)
(*                                                                         *)
(* A Calls element stands for one submit()/submit_and_wait() call, the     *)
(* SubmissionState object it creates and the worker thread it spawns.  A   *)
(* Designs element stands for the content of /workspace: the files to ship *)
(* together with the prediction.json the agent wrote for them.             *)
(***************************************************************************)
EXTENDS Naturals, FiniteSets

CONSTANTS
    Calls,           \* submit calls the agent may make (bounds the run)
    Sims,            \* names of the simulators bound to the server
    Designs,         \* contents of the agent's /workspace
    MaxSubmissions,  \* challenge.eval.max_submissions
    AttemptFactor,   \* 10 in the code
    AttemptFloor,    \* 30 in the code
    SharedStaging,   \* TRUE: simulate.sh mode, FALSE: evaluate.sh mode
    DiskMayFail,     \* TRUE: writes under results_dir may fail
    NoCall, NoSim, NoPrefix, NoFiles, NoReport

(* OutcomeReport; metrics are identified with the design they measure and  *)
(* NoFiles stands for metrics=None.                                        *)
Outcomes == {"build_fail", "validation_reject", "sim_timeout", "sim_ok"}
Reports == [outcome : Outcomes, metrics : Designs \cup {NoFiles},
            index : Nat, exhausted : BOOLEAN]

ASSUME ConstantsAssumption ==
    /\ MaxSubmissions \in Nat
    /\ AttemptFactor \in Nat
    /\ AttemptFloor \in Nat
    /\ SharedStaging \in BOOLEAN
    /\ DiskMayFail \in BOOLEAN
    /\ Sims # {}
    /\ Designs # {}
    /\ NoCall \notin Calls
    /\ NoSim \notin Sims
    /\ NoPrefix \notin Sims
    /\ NoFiles \notin Designs
    /\ NoReport \notin Reports

VARIABLES
    (* event loop *)
    loop,          \* the handler being executed: [op, call, wait, seen]
    reply,         \* the last reply the agent received: [call, status, report]
    (* one per call *)
    pc,            \* next step of the call's handler, then of its worker
    sim,           \* the simulator whose context the call uses
    num,           \* the number in its submission id
    status,        \* SubmissionState.status
    report,        \* SubmissionState.report
    snapshot,      \* SubmissionState.prediction_snapshot
    copied,        \* the files the worker pulled from the agent container
    result,        \* the OutcomeReport handle_submit is about to return
    (* one SubmitContext per simulator *)
    submissions,   \* registry: number in the id -> call
    attemptCount,
    submitCount,
    staging,       \* /work/submission of the simulator container
    (* shared by all contexts *)
    inFlight,      \* names of the files in <results_dir>/.in_flight
    rows,          \* submit_outcomes.jsonl
    sessionEnd,    \* session_end.requested exists
    (* the agent *)
    workspace      \* current content of /workspace

loopVars   == <<loop, reply>>
callVars   == <<sim, num, snapshot>>
ctxVars    == <<attemptCount, submitCount, staging>>
diskVars   == <<inFlight, rows, sessionEnd>>
vars == <<loop, reply, pc, sim, num, status, report, snapshot, copied, result,
          submissions, attemptCount, submitCount, staging,
          inFlight, rows, sessionEnd, workspace>>

-----------------------------------------------------------------------------
(* Data *)

Report(o, m, i, x) ==
    [outcome |-> o, metrics |-> m, index |-> i, exhausted |-> x]

Statuses == {"queued", "running", "done"}

(* The reply of check_submission (SubmissionState.to_dict), of             *)
(* submit_and_wait when its deadline passes, or nothing yet.               *)
Replies == [call : Calls \cup {NoCall}, status : Statuses \cup {"none", "timeout"},
            report : Reports \cup {NoReport}]
NoReply == [call |-> NoCall, status |-> "none", report |-> NoReport]

(* The handler the event loop is in: wait says that submit_and_wait is     *)
(* polling, seen is the status the poll read.                              *)
LoopOps == {"idle", "submit", "poll", "fields", "sleep"}
LoopStates == [op : LoopOps, call : Calls \cup {NoCall}, wait : BOOLEAN,
               seen : Statuses \cup {"none"}]

Idle == [op |-> "idle", call |-> NoCall, wait |-> FALSE, seen |-> "none"]

MaxAttempts ==
    IF MaxSubmissions * AttemptFactor > AttemptFloor
    THEN MaxSubmissions * AttemptFactor ELSE AttemptFloor

(* A prefix is put before the ids only when several simulators are bound.  *)
Multi == \E s, t \in Sims : s # t
(* Mutant: no prefix in multi-simulator sessions.                          *)
MutPrefix(s) == NoPrefix

Prefix(s) == IF Multi THEN s ELSE NoPrefix

(* The submission id as a string: the marker's file name, the row's key.   *)
SubmissionId(c) == <<Prefix(sim[c]), num[c]>>

(* Mutant: numbers follow the rows written, not the submissions accepted.  *)
MutNextNumber(s) == Cardinality(rows) + 1

(* The number _next_submission_id gives the next submission of s.          *)
NextNumber(s) == Cardinality(DOMAIN submissions[s]) + 1

Insert(f, n, c) == [m \in DOMAIN f \cup {n} |-> IF m = n THEN c ELSE f[m]]

HandlerSteps == {"snapshot", "register", "mark", "spawn"}
WorkerSteps == {"start", "attempt", "cap", "budget", "copy", "clear", "fill",
                "simulate", "count", "index", "publish", "finish", "append",
                "unmark"}
Steps == {"unused", "exited"} \cup HandlerSteps \cup WorkerSteps

Init ==
    /\ loop = Idle
    /\ reply = NoReply
    /\ pc = [c \in Calls |-> "unused"]
    /\ sim = [c \in Calls |-> NoSim]
    /\ num = [c \in Calls |-> 0]
    /\ status = [c \in Calls |-> "queued"]
    /\ report = [c \in Calls |-> NoReport]
    /\ snapshot = [c \in Calls |-> NoFiles]
    /\ copied = [c \in Calls |-> NoFiles]
    /\ result = [c \in Calls |-> NoReport]
    /\ submissions = [s \in Sims |-> [n \in {} |-> NoCall]]
    /\ attemptCount = [s \in Sims |-> 0]
    /\ submitCount = [s \in Sims |-> 0]
    /\ staging = [s \in Sims |-> NoFiles]
    /\ inFlight = {}
    /\ rows = {}
    /\ sessionEnd = FALSE
    /\ workspace \in Designs

Goto(c, from, to) == pc[c] = from /\ pc' = [pc EXCEPT ![c] = to]
-----------------------------------------------------------------------------
(* The event loop: one handler at a time *)

(* submit() or submit_and_wait() is called: the id is chosen.              *)
Submit(c, s, w) ==
    /\ loop = Idle
    /\ Goto(c, "unused", "snapshot")
    /\ loop' = [op |-> "submit", call |-> c, wait |-> w, seen |-> "none"]
    /\ sim' = [sim EXCEPT ![c] = s]
    /\ num' = [num EXCEPT ![c] = NextNumber(s)]
    /\ UNCHANGED <<reply, status, report, snapshot, copied, result, submissions,
                   ctxVars, diskVars, workspace>>

(* prediction.json is copied out of the agent container, or is not there.  *)
CaptureSnapshot(c) ==
    /\ Goto(c, "snapshot", "register")
    /\ \E p \in {workspace, NoFiles} : snapshot' = [snapshot EXCEPT ![c] = p]
    /\ UNCHANGED <<loopVars, sim, num, status, report, copied, result,
                   submissions, ctxVars, diskVars, workspace>>

Register(c) ==
    /\ Goto(c, "register", "mark")
    /\ submissions' = [submissions EXCEPT ![sim[c]] = Insert(@, num[c], c)]
    /\ UNCHANGED <<loopVars, callVars, status, report, copied, result,
                   ctxVars, diskVars, workspace>>

(* Mutant: the marker is not written before the worker is spawned.         *)
MutMarkInflight(c) ==
    /\ Goto(c, "mark", "spawn")
    /\ UNCHANGED <<loopVars, callVars, status, report, copied, result,
                   submissions, ctxVars, diskVars, workspace>>

(* Writing the marker is best effort: an OS error is logged and ignored.   *)
MarkInflight(c) ==
    /\ Goto(c, "mark", "spawn")
    /\ \/ inFlight' = inFlight \cup {SubmissionId(c)}
       \/ DiskMayFail /\ UNCHANGED inFlight
    /\ UNCHANGED <<loopVars, callVars, status, report, copied, result,
                   submissions, ctxVars, rows, sessionEnd, workspace>>

(* submit() replies; submit_and_wait() starts polling.                     *)
SpawnWorker(c) ==
    /\ Goto(c, "spawn", "start")
    /\ IF loop.wait
       THEN loop' = [loop EXCEPT !.op = "poll"] /\ UNCHANGED reply
       ELSE /\ loop' = Idle
            /\ reply' = [call |-> c, status |-> "queued", report |-> NoReport]
    /\ UNCHANGED <<callVars, status, report, copied, result, submissions,
                   ctxVars, diskVars, workspace>>

(* check_submission() of a known id; an unknown one changes nothing.       *)
CheckSubmission(s, n) ==
    /\ loop = Idle
    /\ n \in DOMAIN submissions[s]
    /\ loop' = [op |-> "poll", call |-> submissions[s][n],
                wait |-> FALSE, seen |-> "none"]
    /\ UNCHANGED <<reply, pc, callVars, status, report, copied, result,
                   submissions, ctxVars, diskVars, workspace>>

(* to_dict() reads the status first and the report later, without a lock.  *)
ReadStatus ==
    /\ loop.op = "poll"
    /\ loop' = [loop EXCEPT !.op = "fields", !.seen = status[loop.call]]
    /\ UNCHANGED <<reply, pc, callVars, status, report, copied, result,
                   submissions, ctxVars, diskVars, workspace>>

(* Mutant: submit_and_wait does not recognise a finished submission.       *)
MutReadFields ==
    /\ loop.op = "fields"
    /\ IF loop.wait
       THEN loop' = [loop EXCEPT !.op = "sleep"] /\ UNCHANGED reply
       ELSE /\ loop' = Idle
            /\ reply' = [call |-> loop.call, status |-> loop.seen,
                         report |-> report[loop.call]]
    /\ UNCHANGED <<pc, callVars, status, report, copied, result,
                   submissions, ctxVars, diskVars, workspace>>

ReadFields ==
    /\ loop.op = "fields"
    /\ IF loop.wait /\ loop.seen # "done"
       THEN loop' = [loop EXCEPT !.op = "sleep"] /\ UNCHANGED reply
       ELSE /\ loop' = Idle
            /\ reply' = [call |-> loop.call, status |-> loop.seen,
                         report |-> report[loop.call]]
    /\ UNCHANGED <<pc, callVars, status, report, copied, result,
                   submissions, ctxVars, diskVars, workspace>>

(* submit_and_wait() polls again after its sleep, or gives up.             *)
PollAgain ==
    /\ loop.op = "sleep"
    /\ loop' = [loop EXCEPT !.op = "poll"]
    /\ UNCHANGED <<reply, pc, callVars, status, report, copied, result,
                   submissions, ctxVars, diskVars, workspace>>

WaitTimeout ==
    /\ loop.op = "sleep"
    /\ loop' = Idle
    /\ reply' = [call |-> loop.call, status |-> "timeout",
                 report |-> NoReport]
    /\ UNCHANGED <<pc, callVars, status, report, copied, result,
                   submissions, ctxVars, diskVars, workspace>>

(* session_end(): the marker is written, or the write fails.               *)
SessionEnd ==
    /\ loop = Idle
    /\ sessionEnd' = TRUE
    /\ UNCHANGED <<loopVars, pc, callVars, status, report, copied, result,
                   submissions, ctxVars, inFlight, rows, workspace>>

(* Between two tool calls the agent rewrites its files and its prediction. *)
Edit ==
    /\ loop = Idle
    /\ workspace' \in Designs
    /\ UNCHANGED <<loopVars, pc, callVars, status, report, copied, result,
                   submissions, ctxVars, diskVars>>

-----------------------------------------------------------------------------
(* The worker threads: _run_submit_worker and handle_submit *)

StartWorker(c) ==
    /\ Goto(c, "start", "attempt")
    /\ status' = [status EXCEPT ![c] = "running"]
    /\ UNCHANGED <<loopVars, callVars, report, copied, result, submissions,
                   ctxVars, diskVars, workspace>>

CountAttempt(c) ==
    /\ Goto(c, "attempt", "cap")
    /\ attemptCount' = [attemptCount EXCEPT ![sim[c]] = @ + 1]
    /\ UNCHANGED <<loopVars, callVars, status, report, copied, result,
                   submissions, submitCount, staging, diskVars, workspace>>

(* handle_submit returns early with a report that carries no metrics.      *)
ReturnEarly(c, from, outcome, exhausted) ==
    /\ Goto(c, from, "publish")
    /\ result' = [result EXCEPT
                    ![c] = Report(outcome, NoFiles, submitCount[sim[c]],
                                  exhausted)]
    /\ UNCHANGED <<loopVars, callVars, status, report, copied, submissions,
                   ctxVars, diskVars, workspace>>

Continue(c, from, to) ==
    /\ Goto(c, from, to)
    /\ UNCHANGED <<loopVars, callVars, status, report, copied, result,
                   submissions, ctxVars, diskVars, workspace>>

CapReached(c) ==
    /\ pc[c] = "cap" /\ attemptCount[sim[c]] > MaxAttempts
    /\ ReturnEarly(c, "cap", "validation_reject", FALSE)

UnderCap(c) ==
    /\ pc[c] = "cap" /\ attemptCount[sim[c]] <= MaxAttempts
    /\ Continue(c, "cap", "budget")

BudgetExhausted(c) ==
    /\ pc[c] = "budget" /\ submitCount[sim[c]] >= MaxSubmissions
    /\ ReturnEarly(c, "budget", "sim_ok", TRUE)

UnderBudget(c) ==
    /\ pc[c] = "budget" /\ submitCount[sim[c]] < MaxSubmissions
    /\ Continue(c, "budget", "copy")

(* Mutant: a build failure consumes budget.                                *)
MutRejectFiles(c) ==
    /\ Goto(c, "copy", "publish")
    /\ submitCount' = [submitCount EXCEPT ![sim[c]] = @ + 1]
    /\ result' = [result EXCEPT ![c] = Report("sim_timeout", NoFiles,
                                              submitCount[sim[c]], FALSE)]
    /\ UNCHANGED <<loopVars, callVars, status, report, copied, submissions,
                   attemptCount, staging, diskVars, workspace>>

(* Wrong paths, an unreadable file or too many lines; an exception here is *)
(* turned into SIM_TIMEOUT by the worker.                                  *)
RejectFiles(c) ==
    \E o \in {"build_fail", "sim_timeout"} : ReturnEarly(c, "copy", o, FALSE)

CopyFiles(c) ==
    /\ Goto(c, "copy", IF SharedStaging THEN "clear" ELSE "simulate")
    /\ copied' = [copied EXCEPT ![c] = workspace]
    /\ UNCHANGED <<loopVars, callVars, status, report, result, submissions,
                   ctxVars, diskVars, workspace>>

(* run_submit in simulate.sh mode: rm -rf /work/submission/*, then copy_in *)
ClearStaging(c) ==
    /\ Goto(c, "clear", "fill")
    /\ staging' = [staging EXCEPT ![sim[c]] = NoFiles]
    /\ UNCHANGED <<loopVars, callVars, status, report, copied, result,
                   submissions, attemptCount, submitCount, diskVars, workspace>>

FillStaging(c) ==
    /\ Goto(c, "fill", "simulate")
    /\ staging' = [staging EXCEPT ![sim[c]] = copied[c]]
    /\ UNCHANGED <<loopVars, callVars, status, report, copied, result,
                   submissions, attemptCount, submitCount, diskVars, workspace>>

(* The simulator container is gone or docker cp fails.                     *)
StagingFails(c) ==
    \E from \in {"clear", "fill"} : ReturnEarly(c, from, "sim_timeout", FALSE)

(* The files the simulator builds: its own container's staging directory,  *)
(* which every submission of that simulator clears and fills, or the       *)
(* temporary directory of this submission that evaluate.sh is given.       *)
Built(c) == IF SharedStaging THEN staging[sim[c]] ELSE copied[c]

SimulateOk(c) ==
    /\ Goto(c, "simulate", "count")
    /\ Built(c) # NoFiles
    /\ result' = [result EXCEPT ![c] = Report("sim_ok", Built(c), 0, FALSE)]
    /\ UNCHANGED <<loopVars, callVars, status, report, copied, submissions,
                   ctxVars, diskVars, workspace>>

(* Mutant: a crash of the simulator run is not turned into an outcome.     *)
MutSimulateFails(c) ==
    /\ pc[c] = "simulate" /\ Built(c) # NoFiles
    /\ ReturnEarly(c, "simulate", "sim_timeout", FALSE)

(* Build failure, rejected validation, timeout, crash, unparseable output. *)
SimulateFails(c) ==
    \E o \in Outcomes \ {"sim_ok"} : ReturnEarly(c, "simulate", o, FALSE)

CountSubmission(c) ==
    /\ Goto(c, "count", "index")
    /\ submitCount' = [submitCount EXCEPT ![sim[c]] = @ + 1]
    /\ UNCHANGED <<loopVars, callVars, status, report, copied, result,
                   submissions, attemptCount, staging, diskVars, workspace>>

(* The report reads the counter again, after other workers may have run.   *)
TakeIndex(c) ==
    /\ Goto(c, "index", "publish")
    /\ result' = [result EXCEPT ![c].index = submitCount[sim[c]]]
    /\ UNCHANGED <<loopVars, callVars, status, report, copied, submissions,
                   ctxVars, diskVars, workspace>>

(* Mutant: the report is never stored.                                     *)
MutPublishReport(c) == Continue(c, "publish", "finish")

PublishReport(c) ==
    /\ Goto(c, "publish", "finish")
    /\ report' = [report EXCEPT ![c] = result[c]]
    /\ UNCHANGED <<loopVars, callVars, status, copied, result, submissions,
                   ctxVars, diskVars, workspace>>

MarkDone(c) ==
    /\ Goto(c, "finish", "append")
    /\ status' = [status EXCEPT ![c] = "done"]
    /\ UNCHANGED <<loopVars, callVars, report, copied, result, submissions,
                   ctxVars, diskVars, workspace>>

(* Best effort, as is the removal of the marker.                           *)
AppendOutcome(c) ==
    /\ Goto(c, "append", "unmark")
    /\ \/ rows' = rows \cup {[id |-> SubmissionId(c), report |-> report[c]]}
       \/ DiskMayFail /\ UNCHANGED rows
    /\ UNCHANGED <<loopVars, callVars, status, report, copied, result,
                   submissions, ctxVars, inFlight, sessionEnd, workspace>>

ClearInflight(c) ==
    /\ Goto(c, "unmark", "exited")
    /\ \/ inFlight' = inFlight \ {SubmissionId(c)}
       \/ DiskMayFail /\ UNCHANGED inFlight
    /\ UNCHANGED <<loopVars, callVars, status, report, copied, result,
                   submissions, ctxVars, rows, sessionEnd, workspace>>

-----------------------------------------------------------------------------
(* Specification *)

HandlerStep(c) ==
    CaptureSnapshot(c) \/ Register(c) \/ MarkInflight(c) \/ SpawnWorker(c)

ReplyStep == ReadStatus \/ ReadFields \/ PollAgain

WorkerStep(c) ==
    \/ StartWorker(c) \/ CountAttempt(c) \/ CapReached(c) \/ UnderCap(c)
    \/ BudgetExhausted(c) \/ UnderBudget(c)
    \/ RejectFiles(c) \/ CopyFiles(c)
    \/ ClearStaging(c) \/ FillStaging(c) \/ StagingFails(c)
    \/ SimulateOk(c) \/ SimulateFails(c)
    \/ CountSubmission(c) \/ TakeIndex(c)
    \/ PublishReport(c) \/ MarkDone(c) \/ AppendOutcome(c) \/ ClearInflight(c)

AgentStep ==
    \/ \E c \in Calls, s \in Sims, w \in BOOLEAN : Submit(c, s, w)
    \/ \E s \in Sims : \E n \in DOMAIN submissions[s] : CheckSubmission(s, n)
    \/ SessionEnd
    \/ Edit

ServerStep ==
    \/ \E c \in Calls : HandlerStep(c) \/ WorkerStep(c)
    \/ ReplyStep
    \/ WaitTimeout

Next == AgentStep \/ ServerStep

Spec == Init /\ [][Next]_vars

(* The loop and every thread are scheduled; a simulation ends because      *)
(* run_submit has a wall-clock limit.  The agent owes nothing.             *)
Fairness ==
    /\ \A c \in Calls : WF_vars(HandlerStep(c)) /\ WF_vars(WorkerStep(c))
    /\ WF_vars(ReplyStep)

FairSpec == Spec /\ Fairness

(* A client that submits to a simulator only after its earlier submissions *)
(* there are done, as one does that waits for each result.                 *)
SerialClient ==
    \A c, d \in Calls :
        pc[c] = "unused" /\ pc'[c] # "unused" /\ sim[d] = sim'[c]
            => status[d] = "done"

SerialSpec == Init /\ [][Next /\ SerialClient]_vars

-----------------------------------------------------------------------------
(* Properties *)

Accepted(c) == pc[c] \notin {"unused", "snapshot", "register", "mark"}
Registered(c) == Accepted(c) \/ pc[c] = "mark"

(* Every variable keeps to its type.                                       *)
TypeOK ==
    /\ loop \in LoopStates
    /\ reply \in Replies
    /\ pc \in [Calls -> Steps]
    /\ sim \in [Calls -> Sims \cup {NoSim}]
    /\ num \in [Calls -> Nat]
    /\ status \in [Calls -> Statuses]
    /\ report \in [Calls -> Reports \cup {NoReport}]
    /\ snapshot \in [Calls -> Designs \cup {NoFiles}]
    /\ copied \in [Calls -> Designs \cup {NoFiles}]
    /\ result \in [Calls -> Reports \cup {NoReport}]
    /\ DOMAIN submissions = Sims
    /\ \A s \in Sims : /\ DOMAIN submissions[s] \subseteq Nat
                       /\ submissions[s] \in [DOMAIN submissions[s] -> Calls]
    /\ attemptCount \in [Sims -> Nat]
    /\ submitCount \in [Sims -> Nat]
    /\ staging \in [Sims -> Designs \cup {NoFiles}]
    /\ inFlight \subseteq (Sims \cup {NoPrefix}) \X Nat
    /\ rows \subseteq [id : (Sims \cup {NoPrefix}) \X Nat, report : Reports]
    /\ sessionEnd \in BOOLEAN
    /\ workspace \in Designs

(* The contract the harness's grace wait relies on: once a submission is   *)
(* accepted, as long as its marker is missing from .in_flight its outcome  *)
(* is already a row of submit_outcomes.jsonl.  Two simulators or two       *)
(* submissions sharing an id would clear each other's marker.              *)
UnmarkedIsRecorded ==
    ~DiskMayFail =>
        \A c \in Calls :
            Accepted(c) /\ SubmissionId(c) \notin inFlight
                => [id |-> SubmissionId(c), report |-> report[c]] \in rows

(* Every id the agent was given names its own submission in the registry,  *)
(* whatever else was accepted meanwhile.                                   *)
IdNamesItsSubmission ==
    \A c \in Calls :
        Registered(c) => /\ num[c] \in DOMAIN submissions[sim[c]]
                         /\ submissions[sim[c]][num[c]] = c

(* Each row is the frozen report of one finished submission, and no        *)
(* submission has two different rows.                                      *)
RowsAreReports ==
    \A r \in rows : \E c \in Calls :
        /\ SubmissionId(c) = r.id
        /\ status[c] = "done"
        /\ report[c] = r.report
        /\ \A q \in rows : q.id = r.id => q = r

(* to_dict() takes no lock, yet a reply that says "done" carries the final *)
(* report: the worker stores the report before the status and the reader   *)
(* reads them in the opposite order.                                       *)
DoneReplyIsComplete ==
    reply.status = "done" => /\ reply.report = report[reply.call]
                             /\ reply.report # NoReport

(* "Once done, mutable fields are frozen", and a status never goes back.   *)
DoneIsFrozen ==
    [][\A c \in Calls :
         /\ status[c] = "done" => status'[c] = "done" /\ report'[c] = report[c]
         /\ status[c] = "running" => status'[c] # "queued"]_vars

(* submit_count counts exactly the submissions with metrics: no failed,    *)
(* rejected or budget-exhausted attempt consumes budget, whichever way     *)
(* the workers interleave.                                                 *)
Counted(c) ==
    \/ pc[c] = "index"
    \/ pc[c] \notin {"simulate", "count"} /\ result[c] # NoReport
                                         /\ result[c].metrics # NoFiles
CountsOnlySuccesses ==
    \A s \in Sims :
        submitCount[s] = Cardinality({c \in Calls : sim[c] = s /\ Counted(c)})

(* The defensive cap holds under any interleaving: no more than            *)
(* MaxAttempts submissions of a simulator get past it.                     *)
CapBoundsRuns ==
    \A s \in Sims :
        Cardinality({c \in Calls : sim[c] = s /\ copied[c] # NoFiles})
            <= MaxAttempts

(* The two counters the workers share without a lock mean what the handler *)
(* takes them for, whichever way the workers interleave.                   *)
CountersSound == CountsOnlySuccesses /\ CapBoundsRuns

(* No more successful submissions than the challenge allows.               *)
BudgetRespected == \A s \in Sims : submitCount[s] <= MaxSubmissions

(* The server implements SubmissionService: a call is accepted when its    *)
(* marker is written, done when its status says so, durable when its row   *)
(* is in submit_outcomes.jsonl and pending while its marker exists.        *)
Service == INSTANCE SubmissionService WITH
    state <- [c \in Calls |-> IF Accepted(c) THEN status[c] ELSE "absent"],
    outcome <- [c \in Calls |-> IF status[c] = "done" THEN report[c]
                                                     ELSE NoReport],
    durable <- {c \in Calls : Accepted(c)
                    /\ [id |-> SubmissionId(c), report |-> report[c]] \in rows},
    pending <- {c \in Calls : Accepted(c) /\ SubmissionId(c) \in inFlight}

ImplementsService == Service!Spec

(* Every submission whose worker was spawned ends with a recorded attempt  *)
(* to persist it and without its marker, even if nobody polls.             *)
EverySubmissionEnds ==
    \A c \in Calls : pc[c] = "start" ~> pc[c] = "exited"

(* submit_and_wait blocks every other handler, and still always returns:   *)
(* the worker it waits for never needs the event loop.                     *)
LoopIsReleased == loop # Idle ~> loop = Idle
=============================================================================
