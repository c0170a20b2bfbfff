------------------------ MODULE SubmitServer_proofs ------------------------
(***************************************************************************)
(* Proofs about SubmitServer, for any sets of calls, simulators and        *)
(* designs and any limits: what the server promises its clients, and what  *)
(* its counters count.                                                     *)
(***************************************************************************)
EXTENDS SubmitServer, FiniteSetTheorems, TLAPS

-----------------------------------------------------------------------------
(* The inductive invariant *)

(* Calls whose handler or worker owns an id.                               *)
Numbered(c) == pc[c] # "unused"

(* The event loop runs the one handler that is being executed.             *)
LoopInv ==
    /\ loop.op # "idle" => loop.call \in Calls
    /\ loop.op \in {"poll", "fields", "sleep"} => Registered(loop.call)
    /\ \A c \in Calls :
         pc[c] \in HandlerSteps => loop.op = "submit" /\ loop.call = c
    /\ loop.op = "submit" => pc[loop.call] \in HandlerSteps

(* The registry holds numbers 1..k, each under its own call; the handler   *)
(* in progress has the next one.                                           *)
RegistryInv ==
    /\ \A c \in Calls : Numbered(c) => sim[c] \in Sims
    /\ \A s \in Sims : \E k \in Nat : DOMAIN submissions[s] = 1..k
    /\ \A s \in Sims : \A n \in DOMAIN submissions[s] :
         Registered(submissions[s][n])
    /\ \A c \in Calls :
         pc[c] \in {"snapshot", "register"} => num[c] = NextNumber(sim[c])
    /\ IdNamesItsSubmission

(* Status and report follow the worker's progress.                         *)
Progress(c) ==
    /\ status[c] = "done" <=> pc[c] \in {"append", "unmark", "exited"}
    /\ status[c] = "queued" <=> pc[c] \in {"unused", "start"} \cup HandlerSteps
    /\ pc[c] \in {"count", "index", "publish"} => result[c] # NoReport
    /\ pc[c] \in {"finish", "append", "unmark", "exited"}
         => report[c] # NoReport
ProgressInv == \A c \in Calls : Progress(c)

(* Marker and row of a submission, when writes do not fail.                *)
Past(c) == pc[c] \in {"unmark", "exited"}
Marked(c) ==
    /\ Accepted(c) /\ pc[c] # "exited" => SubmissionId(c) \in inFlight
    /\ pc[c] = "exited" => SubmissionId(c) \notin inFlight
    /\ Past(c) => [id |-> SubmissionId(c), report |-> report[c]] \in rows
MarkerInv == ~DiskMayFail => \A c \in Calls : Marked(c)

(* Rows are written by submissions that are past their append step.        *)
RowOf(r, c) == Past(c) /\ r = [id |-> SubmissionId(c), report |-> report[c]]
RowsInv == \A r \in rows : \E c \in Calls : RowOf(r, c)

Final == {"append", "unmark", "exited"}

(* A reader that has seen "done" looks at a finished submission.           *)
ReplyInv ==
    /\ loop.op = "fields" /\ loop.seen = "done" => pc[loop.call] \in Final
    /\ reply.status = "done" =>
         /\ reply.call \in Calls /\ pc[reply.call] \in Final
         /\ reply.report = report[reply.call]

IInv == /\ TypeOK /\ LoopInv /\ RegistryInv /\ ProgressInv
        /\ MarkerInv /\ RowsInv /\ ReplyInv

-----------------------------------------------------------------------------
(* Types *)

(* Whatever handle_submit puts into an OutcomeReport is a report.          *)
LEMMA ReportType ==
    ASSUME NEW o \in Outcomes, NEW m \in Designs \cup {NoFiles},
           NEW i \in Nat, NEW x \in BOOLEAN
    PROVE  Report(o, m, i, x) \in Reports
BY DEF Report, Reports

LEMMA ReportIndexType ==
    ASSUME NEW r \in Reports, NEW i \in Nat
    PROVE  [r EXCEPT !.index = i] \in Reports
BY DEF Reports

(* A numbered submission has an id the marker directory and the outcome    *)
(* file can hold.                                                          *)
LEMMA IdType ==
    ASSUME TypeOK, NEW c \in Calls, sim[c] \in Sims
    PROVE  SubmissionId(c) \in (Sims \cup {NoPrefix}) \X Nat
BY DEF TypeOK, SubmissionId, Prefix

(* The number of the next submission is a number.                          *)
LEMMA NextNumberType ==
    ASSUME RegistryInv, NEW s \in Sims
    PROVE  /\ NextNumber(s) \in Nat
           /\ \E k \in Nat : DOMAIN submissions[s] = 1..k /\ NextNumber(s) = k + 1
<1>1. PICK k \in Nat : DOMAIN submissions[s] = 1..k
  BY DEF RegistryInv
<1>2. Cardinality(1..k) = k
  BY FS_Interval
<1> QED BY <1>1, <1>2 DEF NextNumber


(* The two ways a handler that may be waiting goes on.                     *)
LEMMA SpawnWorkerCases ==
    ASSUME NEW c, SpawnWorker(c)
    PROVE  \/ loop' = [loop EXCEPT !.op = "poll"] /\ reply' = reply
           \/ /\ loop' = Idle
              /\ reply' = [call |-> c, status |-> "queued", report |-> NoReport]
BY Zenon DEF SpawnWorker, loopVars

LEMMA ReadFieldsCases ==
    ASSUME ReadFields
    PROVE  \/ loop' = [loop EXCEPT !.op = "sleep"] /\ reply' = reply
           \/ /\ loop' = Idle
              /\ reply' = [call |-> loop.call, status |-> loop.seen,
                           report |-> report[loop.call]]
BY Zenon DEF ReadFields

LEMMA LoopType ==
    /\ Idle \in LoopStates
    /\ \A l \in LoopStates, o \in LoopOps : [l EXCEPT !.op = o] \in LoopStates
    /\ "poll" \in LoopOps /\ "sleep" \in LoopOps
BY DEF Idle, LoopStates, LoopOps

(* Every step keeps the types; the id, the call and the report it writes   *)
(* come from the other parts of the invariant.                             *)
LEMMA TypeStep == IInv /\ Next => TypeOK'
<1> SUFFICES ASSUME IInv, Next PROVE TypeOK'
  OBVIOUS
<1> USE DEF TypeOK, Steps, HandlerSteps, WorkerSteps, Statuses, Goto,
            loopVars, callVars, ctxVars, diskVars
<1>t. TypeOK
  BY DEF IInv
<1>n. \A c \in Calls : pc[c] # "unused" => sim[c] \in Sims
  BY DEF IInv, RegistryInv, Numbered
<1>i. \A c \in Calls : pc[c] # "unused" =>
        SubmissionId(c) \in (Sims \cup {NoPrefix}) \X Nat
  BY <1>t, <1>n, IdType
<1>1. ASSUME NEW c \in Calls, NEW s \in Sims, NEW w \in BOOLEAN, Submit(c, s, w)
      PROVE  TypeOK'
  <2>1. NextNumber(s) \in Nat
    BY NextNumberType DEF IInv
  <2> QED BY <1>t, <1>1, <2>1 DEF Submit, LoopStates, LoopOps
<1>2. ASSUME NEW c \in Calls, CaptureSnapshot(c) PROVE TypeOK'
  BY <1>t, <1>2 DEF CaptureSnapshot
<1>3. ASSUME NEW c \in Calls, Register(c) PROVE TypeOK'
  <2>1. sim[c] \in Sims /\ num[c] \in Nat
    BY <1>t, <1>n, <1>3 DEF Register
  <2>2. /\ DOMAIN submissions' = Sims
        /\ \A s \in Sims : /\ DOMAIN submissions'[s] \subseteq Nat
                           /\ submissions'[s] \in [DOMAIN submissions'[s] -> Calls]
    BY <1>t, <1>3, <2>1 DEF Register, Insert
  <2> QED BY <1>t, <1>3, <2>2 DEF Register
<1>4. ASSUME NEW c \in Calls, MarkInflight(c) PROVE TypeOK'
  BY <1>t, <1>i, <1>4 DEF MarkInflight
<1>5. ASSUME NEW c \in Calls, SpawnWorker(c) PROVE TypeOK'
  <2>1. loop' \in LoopStates
    BY <1>t, <1>5, SpawnWorkerCases, LoopType
  <2>2. reply' \in Replies
    BY <1>t, <1>5, SpawnWorkerCases DEF Replies
  <2> QED BY <1>t, <1>5, <2>1, <2>2 DEF SpawnWorker
<1>6. ASSUME NEW s \in Sims, NEW n \in DOMAIN submissions[s],
             CheckSubmission(s, n)
      PROVE  TypeOK'
  <2>1. submissions[s][n] \in Calls
    BY <1>t
  <2> QED BY <1>t, <1>6, <2>1 DEF CheckSubmission, LoopStates, LoopOps
<1>7. CASE ReadStatus
  BY <1>t, <1>7 DEF ReadStatus, IInv, LoopInv, LoopStates, LoopOps
<1>8. CASE ReadFields
  <2>1. loop.op = "fields" /\ loop.call \in Calls
    BY <1>8 DEF ReadFields, IInv, LoopInv
  <2>2. loop' \in LoopStates
    BY <1>t, <1>8, ReadFieldsCases, LoopType
  <2>3. report[loop.call] \in Reports \cup {NoReport}
    BY <1>t, <2>1
  <2>4. reply' \in Replies
    BY <1>t, <1>8, <2>1, <2>3, ReadFieldsCases
       DEF Replies, LoopStates, LoopOps
  <2> QED BY <1>t, <1>8, <2>2, <2>4 DEF ReadFields
<1>9. CASE PollAgain
  BY <1>t, <1>9 DEF PollAgain, LoopStates, LoopOps
<1>10. CASE WaitTimeout
  BY <1>t, <1>10 DEF WaitTimeout, Idle, Replies, LoopStates, LoopOps
<1>11. CASE SessionEnd
  BY <1>t, <1>11 DEF SessionEnd
<1>12. CASE Edit
  BY <1>t, <1>12 DEF Edit
<1>13. ASSUME NEW c \in Calls, StartWorker(c) PROVE TypeOK'
  BY <1>t, <1>13 DEF StartWorker
<1>14. ASSUME NEW c \in Calls, CountAttempt(c) PROVE TypeOK'
  BY <1>t, <1>n, <1>14 DEF CountAttempt
<1>15. ASSUME NEW c \in Calls, NEW from \in WorkerSteps, NEW o \in Outcomes,
              NEW x \in BOOLEAN, ReturnEarly(c, from, o, x)
       PROVE  TypeOK'
  <2>1. submitCount[sim[c]] \in Nat
    BY <1>t, <1>n, <1>15 DEF ReturnEarly
  <2>2. Report(o, NoFiles, submitCount[sim[c]], x) \in Reports
    BY <2>1, ReportType
  <2> QED BY <1>t, <1>15, <2>2 DEF ReturnEarly
<1>16. ASSUME NEW c \in Calls, NEW from, NEW to \in WorkerSteps,
              Continue(c, from, to)
       PROVE  TypeOK'
  BY <1>t, <1>16 DEF Continue
<1>17. ASSUME NEW c \in Calls, CopyFiles(c) PROVE TypeOK'
  BY <1>t, <1>17 DEF CopyFiles
<1>18. ASSUME NEW c \in Calls, ClearStaging(c) PROVE TypeOK'
  BY <1>t, <1>18 DEF ClearStaging
<1>19. ASSUME NEW c \in Calls, FillStaging(c) PROVE TypeOK'
  BY <1>t, <1>19 DEF FillStaging
<1>20. ASSUME NEW c \in Calls, SimulateOk(c) PROVE TypeOK'
  <2>1. Built(c) \in Designs
    BY <1>t, <1>n, <1>20 DEF SimulateOk, Built
  <2>2. Report("sim_ok", Built(c), 0, FALSE) \in Reports
    BY <2>1, ReportType DEF Outcomes
  <2> QED BY <1>t, <1>20, <2>2 DEF SimulateOk
<1>21. ASSUME NEW c \in Calls, CountSubmission(c) PROVE TypeOK'
  BY <1>t, <1>n, <1>21 DEF CountSubmission
<1>22. ASSUME NEW c \in Calls, TakeIndex(c) PROVE TypeOK'
  <2>1. submitCount[sim[c]] \in Nat
    BY <1>t, <1>n, <1>22 DEF TakeIndex
  <2>2. result[c] \in Reports
    BY <1>t, <1>22 DEF TakeIndex, IInv, ProgressInv, Progress
  <2>3. [result[c] EXCEPT !.index = submitCount[sim[c]]] \in Reports
    BY <2>1, <2>2, ReportIndexType
  <2> QED BY <1>t, <1>22, <2>3 DEF TakeIndex
<1>23. ASSUME NEW c \in Calls, PublishReport(c) PROVE TypeOK'
  BY <1>t, <1>23 DEF PublishReport
<1>24. ASSUME NEW c \in Calls, MarkDone(c) PROVE TypeOK'
  BY <1>t, <1>24 DEF MarkDone
<1>25. ASSUME NEW c \in Calls, AppendOutcome(c) PROVE TypeOK'
  <2>1. report[c] \in Reports
    BY <1>t, <1>25 DEF AppendOutcome, IInv, ProgressInv, Progress
  <2> QED BY <1>t, <1>i, <1>25, <2>1 DEF AppendOutcome
<1>26. ASSUME NEW c \in Calls, ClearInflight(c) PROVE TypeOK'
  BY <1>t, <1>26 DEF ClearInflight
<1>27. ASSUME NEW c \in Calls, WorkerStep(c) PROVE TypeOK'
  BY <1>27, <1>13, <1>14, <1>15, <1>16, <1>17, <1>18, <1>19, <1>20, <1>21,
     <1>22, <1>23, <1>24, <1>25, <1>26
     DEF WorkerStep, CapReached, UnderCap, BudgetExhausted, UnderBudget,
         RejectFiles, StagingFails, SimulateFails, Outcomes
<1> QED
  BY <1>1, <1>2, <1>3, <1>4, <1>5, <1>6, <1>7, <1>8, <1>9, <1>10, <1>11,
     <1>12, <1>27
     DEF Next, AgentStep, ServerStep, HandlerStep, ReplyStep

(* What worker threads leave alone: the event loop, the registry and every *)
(* id.  Only the worker's own progress changes.                            *)
WorkerFrame(c) ==
    /\ pc[c] \in WorkerSteps
    /\ pc'[c] \in WorkerSteps \cup {"exited"}
    /\ \A d \in Calls \ {c} : /\ pc'[d] = pc[d]
                              /\ status'[d] = status[d]
                              /\ report'[d] = report[d]
                              /\ result'[d] = result[d]
    /\ UNCHANGED <<loop, reply, sim, num, snapshot, submissions>>

LEMMA WorkerFrameHolds ==
    ASSUME TypeOK, NEW c \in Calls, WorkerStep(c)
    PROVE  WorkerFrame(c)
<1> USE DEF TypeOK, WorkerFrame, WorkerSteps, Goto,
            loopVars, callVars, ctxVars, diskVars
<1>1. CASE StartWorker(c) \/ CountAttempt(c) \/ CopyFiles(c) \/ ClearStaging(c)
            \/ FillStaging(c) \/ SimulateOk(c) \/ CountSubmission(c)
  BY <1>1 DEF StartWorker, CountAttempt, CopyFiles, ClearStaging, FillStaging,
              SimulateOk, CountSubmission
<1>2. CASE TakeIndex(c) \/ PublishReport(c) \/ MarkDone(c) \/ AppendOutcome(c)
            \/ ClearInflight(c)
  BY <1>2 DEF TakeIndex, PublishReport, MarkDone, AppendOutcome, ClearInflight
<1>3. CASE \E from \in WorkerSteps, o \in Outcomes, x \in BOOLEAN :
              ReturnEarly(c, from, o, x)
  BY <1>3 DEF ReturnEarly
<1>4. CASE \E from \in WorkerSteps, to \in WorkerSteps : Continue(c, from, to)
  BY <1>4 DEF Continue
<1> QED
  BY <1>1, <1>2, <1>3, <1>4
     DEF WorkerStep, CapReached, UnderCap, BudgetExhausted, UnderBudget,
         RejectFiles, StagingFails, SimulateFails, Outcomes

(* What the agent's polls, its session_end and its edits leave alone.      *)
ReaderFrame ==
    UNCHANGED <<pc, sim, num, status, report, copied, result, submissions,
                attemptCount, submitCount, staging, inFlight, rows>>

ReaderStep ==
    \/ \E s \in Sims : \E n \in DOMAIN submissions[s] : CheckSubmission(s, n)
    \/ ReplyStep \/ WaitTimeout \/ SessionEnd \/ Edit

LEMMA ReaderFrameHolds == ReaderStep => ReaderFrame
BY DEF ReaderStep, ReaderFrame, CheckSubmission, ReplyStep, ReadStatus, ReadFields,
       PollAgain, WaitTimeout, SessionEnd, Edit,
       loopVars, callVars, ctxVars, diskVars

LEMMA NextCases ==
    Next <=> \/ \E c \in Calls, s \in Sims, w \in BOOLEAN : Submit(c, s, w)
             \/ \E c \in Calls : HandlerStep(c) \/ WorkerStep(c)
             \/ ReaderStep
BY DEF Next, AgentStep, ServerStep, ReaderStep

-----------------------------------------------------------------------------
(* One step of each part of the invariant *)

LEMMA LoopStep == IInv /\ Next => LoopInv'
<1> SUFFICES ASSUME IInv, Next PROVE LoopInv'
  OBVIOUS
<1> USE DEF IInv, TypeOK, LoopStates, LoopInv, Registered, Accepted, HandlerSteps, Goto,
            loopVars, callVars, ctxVars, diskVars
<1>1. ASSUME NEW c \in Calls, NEW s \in Sims, NEW w \in BOOLEAN, Submit(c, s, w)
      PROVE  LoopInv'
  BY <1>1 DEF Submit, Idle
<1>2. ASSUME NEW c \in Calls, CaptureSnapshot(c) PROVE LoopInv'
  BY <1>2 DEF CaptureSnapshot
<1>3. ASSUME NEW c \in Calls, Register(c) PROVE LoopInv'
  BY <1>3 DEF Register
<1>4. ASSUME NEW c \in Calls, MarkInflight(c) PROVE LoopInv'
  BY <1>4 DEF MarkInflight
<1>5. ASSUME NEW c \in Calls, SpawnWorker(c) PROVE LoopInv'
  BY <1>5 DEF SpawnWorker, Idle
<1>6. ASSUME NEW c \in Calls, WorkerStep(c) PROVE LoopInv'
  BY <1>6, WorkerFrameHolds DEF WorkerFrame, WorkerSteps
<1>7. CASE ReaderStep
  <2>1. UNCHANGED pc
    BY <1>7, ReaderFrameHolds DEF ReaderFrame
  <2>2. ASSUME NEW s \in Sims, NEW n \in DOMAIN submissions[s],
               CheckSubmission(s, n)
        PROVE  LoopInv'
    BY <2>1, <2>2 DEF CheckSubmission, RegistryInv, Idle
  <2>3. CASE ReadFields
    BY <2>1, <2>3, ReadFieldsCases DEF ReadFields, Idle
  <2>4. CASE ReadStatus \/ PollAgain
    BY <2>1, <2>4 DEF ReadStatus, PollAgain
  <2>5. CASE WaitTimeout \/ SessionEnd \/ Edit
    BY <2>1, <2>5 DEF WaitTimeout, SessionEnd, Edit, Idle
  <2> QED BY <1>7, <2>2, <2>3, <2>4, <2>5 DEF ReaderStep, ReplyStep
<1> QED BY <1>1, <1>2, <1>3, <1>4, <1>5, <1>6, <1>7, NextCases DEF HandlerStep

(* Handlers run one at a time, so the number chosen by Submit is still the *)
(* next one when Register uses it.                                         *)
LEMMA RegistryStep == IInv /\ Next => RegistryInv'
<1> SUFFICES ASSUME IInv, Next PROVE RegistryInv'
  OBVIOUS
<1> USE DEF IInv, RegistryInv, IdNamesItsSubmission, Numbered, Registered,
            Accepted
<1>t. /\ pc \in [Calls -> Steps] /\ sim \in [Calls -> Sims \cup {NoSim}]
      /\ num \in [Calls -> Nat] /\ DOMAIN submissions = Sims
      /\ \A s \in Sims : submissions[s] \in [DOMAIN submissions[s] -> Calls]
  BY DEF TypeOK
<1>1. ASSUME NEW c \in Calls, NEW s \in Sims, NEW w \in BOOLEAN, Submit(c, s, w)
      PROVE  RegistryInv'
  <2>1. \A d \in Calls : pc[d] \notin HandlerSteps
    BY <1>1 DEF Submit, Idle, LoopInv
  <2> QED BY <1>t, <1>1, <2>1
          DEF Submit, Goto, NextNumber, HandlerSteps, ctxVars, diskVars
<1>2. ASSUME NEW c \in Calls, CaptureSnapshot(c) PROVE RegistryInv'
  BY <1>t, <1>2 DEF CaptureSnapshot, Goto, NextNumber
<1>3. ASSUME NEW c \in Calls, Register(c) PROVE RegistryInv'
  <2> DEFINE t == sim[c]
  <2>1. /\ pc' = [pc EXCEPT ![c] = "mark"] /\ pc[c] = "register"
        /\ t \in Sims /\ num[c] = NextNumber(t)
        /\ UNCHANGED <<sim, num>>
        /\ submissions' = [submissions EXCEPT ![t] = Insert(@, num[c], c)]
    BY <1>3 DEF Register, Goto, callVars
  <2>2. PICK k \in Nat : DOMAIN submissions[t] = 1..k /\ num[c] = k + 1
    BY <2>1, NextNumberType
  <2>3. submissions'[t] = Insert(submissions[t], k + 1, c)
    BY <1>t, <2>1, <2>2
  <2>4. /\ DOMAIN submissions'[t] = 1..(k + 1)
        /\ submissions'[t][k + 1] = c
        /\ \A n \in 1..k : submissions'[t][n] = submissions[t][n]
    BY <2>2, <2>3 DEF Insert
  <2>5. \A s \in Sims : s # t => submissions'[s] = submissions[s]
    BY <1>t, <2>1
  <2> HIDE DEF t
  <2>6. \A s \in Sims : \E j \in Nat : DOMAIN submissions'[s] = 1..j
    BY <2>2, <2>4, <2>5
  <2>7. \A d \in Calls : /\ Registered(d) => Registered(d)'
                         /\ Registered(d)' => Registered(d) \/ d = c
                         /\ pc'[d] \notin {"snapshot", "register"}
    <3>1. \A d \in Calls : pc[d] \in HandlerSteps => d = c
      BY <2>1 DEF LoopInv, HandlerSteps
    <3> QED BY <1>t, <2>1, <3>1 DEF HandlerSteps
  <2>8. ASSUME NEW s \in Sims, NEW n \in DOMAIN submissions'[s]
        PROVE  Registered(submissions[s][n])'
    <3>1. Registered(c)'
      BY <1>t, <2>1
    <3>2. CASE s = t /\ n = k + 1
      BY <3>1, <3>2, <2>4
    <3>3. CASE ~(s = t /\ n = k + 1)
      <4>1. n \in DOMAIN submissions[s] /\ submissions'[s][n] = submissions[s][n]
        BY <3>3, <2>2, <2>4, <2>5
      <4>2. submissions[s][n] \in Calls /\ Registered(submissions[s][n])
        BY <1>t, <4>1
      <4> QED BY <4>1, <4>2, <2>7
    <3> QED BY <3>2, <3>3
  <2>9. IdNamesItsSubmission'
    <3> SUFFICES ASSUME NEW d \in Calls, Registered(d)'
                 PROVE  /\ num[d] \in DOMAIN submissions'[sim[d]]
                        /\ submissions'[sim[d]][num[d]] = d
      BY <2>1
    <3>1. CASE d = c
      BY <3>1, <2>2, <2>4 DEF t
    <3>2. CASE d # c
      <4>1. /\ sim[d] \in Sims /\ num[d] \in DOMAIN submissions[sim[d]]
            /\ submissions[sim[d]][num[d]] = d
        BY <3>2, <2>7
      <4> QED BY <4>1, <2>2, <2>4, <2>5
    <3> QED BY <3>1, <3>2
  <2>10. \A d \in Calls : Numbered(d)' => sim'[d] \in Sims
    BY <1>t, <2>1 DEF t
  <2> QED BY <2>6, <2>7, <2>8, <2>9, <2>10
<1>4. ASSUME NEW c \in Calls, MarkInflight(c) PROVE RegistryInv'
  BY <1>t, <1>4 DEF MarkInflight, Goto, NextNumber, callVars
<1>5. ASSUME NEW c \in Calls, SpawnWorker(c) PROVE RegistryInv'
  BY <1>t, <1>5 DEF SpawnWorker, Goto, NextNumber, callVars
<1>6. ASSUME NEW c \in Calls, WorkerStep(c) PROVE RegistryInv'
  <2>1. WorkerFrame(c)
    BY <1>6, WorkerFrameHolds
  <2>2. \A d \in Calls : /\ Registered(d)' <=> Registered(d)
                         /\ Numbered(d)' <=> Numbered(d)
                         /\ pc'[d] \in {"snapshot", "register"}
                              <=> pc[d] \in {"snapshot", "register"}
    BY <1>t, <2>1 DEF WorkerFrame, WorkerSteps
  <2>3. /\ sim' = sim /\ num' = num /\ submissions' = submissions
        /\ \A s : NextNumber(s)' = NextNumber(s)
    BY <2>1 DEF WorkerFrame, NextNumber
  <2> HIDE DEF Registered, Numbered
  <2> QED BY <1>t, <2>2, <2>3
<1>7. CASE ReaderStep
  BY <1>7, ReaderFrameHolds DEF ReaderFrame, NextNumber
<1> QED BY <1>1, <1>2, <1>3, <1>4, <1>5, <1>6, <1>7, NextCases DEF HandlerStep

LEMMA ProgressStep == IInv /\ Next => ProgressInv'
<1> SUFFICES ASSUME IInv, Next, NEW d \in Calls PROVE Progress(d)'
  BY DEF ProgressInv
<1>t. /\ pc \in [Calls -> Steps] /\ status \in [Calls -> Statuses]
      /\ result \in [Calls -> Reports \cup {NoReport}]
      /\ report \in [Calls -> Reports \cup {NoReport}]
      /\ NoReport \notin Reports
      /\ TypeOK
      /\ Progress(d)
      /\ \A c \in Calls : pc[c] # "unused" => sim[c] \in Sims
  BY ConstantsAssumption DEF IInv, TypeOK, ProgressInv, RegistryInv, Numbered
<1> USE DEF Progress, HandlerSteps
<1>1. ASSUME NEW c \in Calls, NEW s \in Sims, NEW w \in BOOLEAN, Submit(c, s, w)
      PROVE  Progress(d)'
  BY <1>t, <1>1 DEF Submit, Goto
<1>2. ASSUME NEW c \in Calls, HandlerStep(c) PROVE Progress(d)'
  BY <1>t, <1>2 DEF HandlerStep, CaptureSnapshot, Register, MarkInflight,
                    SpawnWorker, Goto
<1>3. ASSUME NEW c \in Calls, WorkerStep(c) PROVE Progress(d)'
  <2>1. CASE d # c
    <3>1. /\ pc'[d] = pc[d] /\ status'[d] = status[d]
          /\ report'[d] = report[d] /\ result'[d] = result[d]
      BY <1>t, <1>3, <2>1, WorkerFrameHolds DEF WorkerFrame
    <3> QED BY <1>t, <3>1
  <2>2. CASE d = c
    <3> USE <1>t, <2>2 DEF Goto
    <3>1. CASE StartWorker(c) \/ MarkDone(c)
      BY <3>1 DEF StartWorker, MarkDone, Statuses
    <3>2. CASE CountAttempt(c) \/ CopyFiles(c) \/ ClearStaging(c)
                \/ FillStaging(c)
      BY <3>2 DEF CountAttempt, CopyFiles, ClearStaging, FillStaging
    <3>3. CASE SimulateOk(c)
      <4>1. Built(c) \in Designs
        BY <3>3 DEF SimulateOk, Built, TypeOK
      <4>2. Report("sim_ok", Built(c), 0, FALSE) \in Reports
        BY <4>1, ReportType DEF Outcomes
      <4> QED BY <3>3, <4>2 DEF SimulateOk
    <3>4. CASE CountSubmission(c)
      BY <3>4 DEF CountSubmission
    <3>5. CASE TakeIndex(c)
      <4>1. submitCount[sim[c]] \in Nat /\ result[c] \in Reports
        BY <3>5 DEF TakeIndex, TypeOK
      <4>2. [result[c] EXCEPT !.index = submitCount[sim[c]]] \in Reports
        BY <4>1, ReportIndexType
      <4>3. result'[c] = [result[c] EXCEPT !.index = submitCount[sim[c]]]
        BY <3>5 DEF TakeIndex
      <4> QED BY <3>5, <4>2, <4>3 DEF TakeIndex
    <3>6. CASE PublishReport(c) \/ AppendOutcome(c) \/ ClearInflight(c)
      BY <3>6 DEF PublishReport, AppendOutcome, ClearInflight
    <3>7. ASSUME NEW from \in WorkerSteps, NEW o \in Outcomes, NEW x \in BOOLEAN,
                 ReturnEarly(c, from, o, x),
                 from \in {"cap", "budget", "copy", "clear", "fill", "simulate"}
          PROVE  Progress(d)'
      <4>1. submitCount[sim[c]] \in Nat
        BY <3>7 DEF ReturnEarly, TypeOK
      <4>2. Report(o, NoFiles, submitCount[sim[c]], x) \in Reports
        BY <4>1, ReportType
      <4> QED BY <3>7, <4>2 DEF ReturnEarly
    <3>8. CASE UnderCap(c) \/ UnderBudget(c)
      BY <3>8 DEF UnderCap, UnderBudget, Continue
    <3> QED
      BY <1>3, <3>1, <3>2, <3>3, <3>4, <3>5, <3>6, <3>7, <3>8
         DEF WorkerStep, CapReached, BudgetExhausted, RejectFiles,
             StagingFails, SimulateFails, Outcomes, WorkerSteps
  <2> QED BY <2>1, <2>2
<1>4. CASE ReaderStep
  BY <1>t, <1>4, ReaderFrameHolds DEF ReaderFrame
<1> QED BY <1>1, <1>2, <1>3, <1>4, NextCases

-----------------------------------------------------------------------------
(* Ids and finished submissions *)

(* Two registered submissions never share an id, on one simulator or two.  *)
LEMMA IdsDistinct ==
    ASSUME IInv, NEW c \in Calls, NEW d \in Calls, Registered(c), Registered(d),
           SubmissionId(c) = SubmissionId(d)
    PROVE  c = d
<1>1. /\ sim[c] \in Sims /\ sim[d] \in Sims
      /\ submissions[sim[c]][num[c]] = c /\ submissions[sim[d]][num[d]] = d
  BY DEF IInv, RegistryInv, IdNamesItsSubmission, Registered, Accepted, Numbered
<1>2. num[c] = num[d] /\ Prefix(sim[c]) = Prefix(sim[d])
  BY DEF SubmissionId
<1>3. sim[c] = sim[d]
  BY <1>1, <1>2 DEF Prefix, Multi
<1> QED BY <1>1, <1>2, <1>3

(* An id never changes once it is chosen.                                  *)
LEMMA IdFrozen ==
    ASSUME IInv, Next, NEW c \in Calls, pc[c] # "unused"
    PROVE  /\ sim'[c] = sim[c] /\ num'[c] = num[c]
           /\ SubmissionId(c)' = SubmissionId(c)
<1>1. sim'[c] = sim[c] /\ num'[c] = num[c]
  <2>1. ASSUME NEW d \in Calls, NEW s \in Sims, NEW w \in BOOLEAN, Submit(d, s, w)
        PROVE  sim'[c] = sim[c] /\ num'[c] = num[c]
    BY <2>1 DEF Submit, Goto, IInv, TypeOK
  <2>2. ASSUME NEW d \in Calls, HandlerStep(d)
        PROVE  sim'[c] = sim[c] /\ num'[c] = num[c]
    BY <2>2 DEF HandlerStep, CaptureSnapshot, Register, MarkInflight, SpawnWorker,
                callVars
  <2>3. ASSUME NEW d \in Calls, WorkerStep(d)
        PROVE  sim'[c] = sim[c] /\ num'[c] = num[c]
    BY <2>3, WorkerFrameHolds DEF WorkerFrame, IInv
  <2>4. CASE ReaderStep
    BY <2>4, ReaderFrameHolds DEF ReaderFrame
  <2> QED BY <2>1, <2>2, <2>3, <2>4, NextCases
<1> QED BY <1>1 DEF SubmissionId

(* A finished submission stays as it is.                                   *)
FrozenAt(c) ==
    /\ pc'[c] \in Final /\ (Past(c) => Past(c)')
    /\ report'[c] = report[c] /\ status'[c] = status[c]

LEMMA FinalFrozen ==
    ASSUME IInv, Next, NEW c \in Calls, pc[c] \in Final
    PROVE  FrozenAt(c)
<1>t. pc \in [Calls -> Steps] /\ TypeOK
  BY DEF IInv, TypeOK
<1> USE DEF Final, Goto, FrozenAt, Past
<1>1. ASSUME NEW d \in Calls, NEW s \in Sims, NEW w \in BOOLEAN, Submit(d, s, w)
      PROVE  FrozenAt(c)
  BY <1>t, <1>1 DEF Submit
<1>2. ASSUME NEW d \in Calls, HandlerStep(d)
      PROVE  FrozenAt(c)
  BY <1>t, <1>2 DEF HandlerStep, CaptureSnapshot, Register, MarkInflight,
                    SpawnWorker
<1>3. ASSUME NEW d \in Calls, WorkerStep(d)
      PROVE  FrozenAt(c)
  <2>1. CASE d # c
    BY <1>t, <1>3, <2>1, WorkerFrameHolds DEF WorkerFrame
  <2>2. CASE d = c
    <3>1. AppendOutcome(c) \/ ClearInflight(c)
      BY <1>3, <2>2
         DEF WorkerStep, StartWorker, CountAttempt, CapReached, UnderCap,
             BudgetExhausted, UnderBudget, RejectFiles, CopyFiles, ClearStaging,
             FillStaging, StagingFails, SimulateOk, SimulateFails,
             CountSubmission, TakeIndex, PublishReport, MarkDone,
             ReturnEarly, Continue
    <3> QED BY <1>t, <3>1 DEF AppendOutcome, ClearInflight
  <2> QED BY <2>1, <2>2
<1>4. CASE ReaderStep
  BY <1>4, ReaderFrameHolds DEF ReaderFrame
<1> QED BY <1>1, <1>2, <1>3, <1>4, NextCases

(* Only three steps touch the results directory, accept a submission or    *)
(* get past its row.                                                       *)
DiskUntouched ==
    /\ inFlight' = inFlight /\ rows' = rows
    /\ \A c \in Calls : /\ Accepted(c)' => Accepted(c)
                        /\ Past(c)' => Past(c)
                        /\ pc'[c] = "exited" <=> pc[c] = "exited"

LEMMA DiskFrame ==
    ASSUME IInv, Next,
           ~ \E c \in Calls :
                MarkInflight(c) \/ AppendOutcome(c) \/ ClearInflight(c)
    PROVE  DiskUntouched
<1>t. pc \in [Calls -> Steps] /\ TypeOK
  BY DEF IInv, TypeOK
<1> USE DEF DiskUntouched, Accepted, Past
<1>1. ASSUME NEW d \in Calls, NEW s \in Sims, NEW w \in BOOLEAN, Submit(d, s, w)
      PROVE  DiskUntouched
  BY <1>t, <1>1 DEF Submit, Goto, diskVars
<1>2. ASSUME NEW d \in Calls, HandlerStep(d)
      PROVE  DiskUntouched
  BY <1>t, <1>2 DEF HandlerStep, CaptureSnapshot, Register, SpawnWorker, Goto,
                    diskVars
<1>3. ASSUME NEW d \in Calls, WorkerStep(d)
      PROVE  DiskUntouched
  <2>1. WorkerFrame(d)
    BY <1>t, <1>3, WorkerFrameHolds
  <2>2. /\ inFlight' = inFlight /\ rows' = rows
        /\ pc[d] \notin {"unmark", "exited"} /\ pc'[d] \notin {"unmark", "exited"}
    BY <1>t, <1>3
       DEF WorkerStep, StartWorker, CountAttempt, CapReached, UnderCap,
           BudgetExhausted, UnderBudget, RejectFiles, CopyFiles, ClearStaging,
           FillStaging, StagingFails, SimulateOk, SimulateFails,
           CountSubmission, TakeIndex, PublishReport, MarkDone,
           ReturnEarly, Continue, Goto, diskVars
  <2> QED BY <1>t, <2>1, <2>2 DEF WorkerFrame, WorkerSteps
<1>4. CASE ReaderStep
  BY <1>4, ReaderFrameHolds DEF ReaderFrame
<1> QED BY <1>1, <1>2, <1>3, <1>4, NextCases

-----------------------------------------------------------------------------
(* One step of the remaining parts of the invariant *)

(* The worker removes its own marker only, and only after its row.         *)
LEMMA MarkerStep == IInv /\ Next => MarkerInv'
<1> SUFFICES ASSUME IInv, Next, ~DiskMayFail, NEW d \in Calls PROVE Marked(d)'
  BY DEF MarkerInv
<1>t. pc \in [Calls -> Steps] /\ Marked(d)
  BY DEF IInv, TypeOK, MarkerInv
<1>i. pc[d] # "unused" => SubmissionId(d)' = SubmissionId(d)
  BY IdFrozen
<1>f. pc[d] \in Final => report'[d] = report[d]
  BY FinalFrozen DEF FrozenAt
<1>1. CASE DiskUntouched
  BY <1>t, <1>1, <1>i, <1>f DEF DiskUntouched, Marked, Accepted, Past, Final
<1>2. ASSUME NEW c \in Calls, MarkInflight(c) PROVE Marked(d)'
  <2>1. /\ inFlight' = inFlight \cup {SubmissionId(c)} /\ rows' = rows
        /\ pc[c] = "mark" /\ pc' = [pc EXCEPT ![c] = "spawn"]
    BY <1>2 DEF MarkInflight, Goto
  <2>2. pc[d] = "exited" => SubmissionId(d) # SubmissionId(c)
    BY <2>1, IdsDistinct DEF Registered, Accepted
  <2> QED BY <1>t, <1>i, <1>f, <2>1, <2>2 DEF Marked, Accepted, Past, Final
<1>3. ASSUME NEW c \in Calls, AppendOutcome(c) PROVE Marked(d)'
  <2>1. /\ rows' = rows \cup {[id |-> SubmissionId(c), report |-> report[c]]}
        /\ inFlight' = inFlight
        /\ pc[c] = "append" /\ pc' = [pc EXCEPT ![c] = "unmark"]
    BY <1>3 DEF AppendOutcome, Goto
  <2> QED BY <1>t, <1>i, <1>f, <2>1 DEF Marked, Accepted, Past, Final
<1>4. ASSUME NEW c \in Calls, ClearInflight(c) PROVE Marked(d)'
  <2>1. /\ inFlight' = inFlight \ {SubmissionId(c)} /\ rows' = rows
        /\ pc[c] = "unmark" /\ pc' = [pc EXCEPT ![c] = "exited"]
    BY <1>4 DEF ClearInflight, Goto
  <2>2. Accepted(d) /\ d # c => SubmissionId(d) # SubmissionId(c)
    BY <2>1, IdsDistinct DEF Registered, Accepted
  <2> QED BY <1>t, <1>i, <1>f, <2>1, <2>2 DEF Marked, Accepted, Past, Final
<1> QED BY <1>1, <1>2, <1>3, <1>4, DiskFrame

LEMMA RowsStep == IInv /\ Next => RowsInv'
<1> SUFFICES ASSUME IInv, Next, NEW r \in rows'
             PROVE  \E c \in Calls : RowOf(r, c)'
  BY DEF RowsInv
<1>1. CASE r \in rows
  <2>1. PICK c \in Calls : RowOf(r, c)
    BY <1>1 DEF IInv, RowsInv
  <2> QED BY <2>1, IdFrozen, FinalFrozen DEF RowOf, Final, Past, FrozenAt
<1>2. CASE r \notin rows
  <2>1. PICK c \in Calls : AppendOutcome(c)
    BY <1>2, DiskFrame DEF DiskUntouched, MarkInflight, ClearInflight
  <2>2. r = [id |-> SubmissionId(c), report |-> report[c]] /\ pc[c] \in Final
        /\ Past(c)'
    BY <1>2, <2>1 DEF AppendOutcome, Goto, Final, Past, IInv, TypeOK
  <2> QED BY <2>1, <2>2, IdFrozen, FinalFrozen DEF RowOf, Final, FrozenAt
<1> QED BY <1>1, <1>2

LEMMA ReplyInvStep == IInv /\ Next => ReplyInv'
<1> SUFFICES ASSUME IInv, Next PROVE ReplyInv'
  OBVIOUS
<1>t. TypeOK /\ LoopInv /\ ReplyInv
      /\ \A c \in Calls : status[c] = "done" <=> pc[c] \in Final
  BY DEF IInv, ProgressInv, Progress, Final
<1>f. \A c \in Calls : pc[c] \in Final =>
        pc'[c] \in Final /\ report'[c] = report[c]
  BY FinalFrozen DEF FrozenAt
<1>l. loop.op = "fields" => loop.call \in Calls
  BY <1>t DEF LoopInv
<1> HIDE DEF Final
<1>1. CASE reply' = reply /\ (loop' = loop \/ loop'.op # "fields")
  BY <1>t, <1>f, <1>l, <1>1 DEF ReplyInv
<1>2. ASSUME NEW c \in Calls, SpawnWorker(c) PROVE ReplyInv'
  BY <1>t, <1>f, <1>l, <1>2, SpawnWorkerCases DEF ReplyInv, TypeOK, Idle, LoopStates
<1>3. CASE ReadStatus
  BY <1>t, <1>f, <1>l, <1>3 DEF ReadStatus, ReplyInv, LoopInv, TypeOK, LoopStates
<1>4. CASE ReadFields
  <2>1. UNCHANGED <<pc, report>>
    BY <1>4 DEF ReadFields
  <2> QED BY <1>t, <1>l, <1>4, <2>1, ReadFieldsCases
          DEF ReadFields, ReplyInv, Idle, TypeOK, LoopStates
<1>5. CASE WaitTimeout
  BY <1>t, <1>f, <1>5 DEF WaitTimeout, ReplyInv, Idle
<1>6. ASSUME NEW c \in Calls, NEW s \in Sims, NEW w \in BOOLEAN, Submit(c, s, w)
      PROVE  ReplyInv'
  BY <1>1, <1>6 DEF Submit
<1>7. ASSUME NEW s \in Sims, NEW n \in DOMAIN submissions[s],
             CheckSubmission(s, n)
      PROVE  ReplyInv'
  BY <1>1, <1>7 DEF CheckSubmission
<1>8. CASE SessionEnd \/ Edit
  BY <1>1, <1>8 DEF SessionEnd, Edit, loopVars
<1>9. CASE PollAgain
  BY <1>t, <1>1, <1>9 DEF PollAgain, TypeOK, LoopStates
<1>10. ASSUME NEW c \in Calls, CaptureSnapshot(c) \/ Register(c) \/ MarkInflight(c)
       PROVE  ReplyInv'
  BY <1>1, <1>10 DEF CaptureSnapshot, Register, MarkInflight, loopVars
<1>11. ASSUME NEW c \in Calls, WorkerStep(c) PROVE ReplyInv'
  BY <1>t, <1>1, <1>11, WorkerFrameHolds DEF WorkerFrame
<1> QED BY <1>2, <1>3, <1>4, <1>5, <1>6, <1>7, <1>8, <1>9, <1>10, <1>11
        DEF Next, AgentStep, ServerStep, HandlerStep, ReplyStep

-----------------------------------------------------------------------------
(* Theorems *)

LEMMA InitIInv == Init => IInv
<1> SUFFICES ASSUME Init PROVE IInv
  OBVIOUS
<1> USE DEF Init
<1>1. TypeOK
  BY DEF TypeOK, Idle, LoopStates, LoopOps, NoReply, Replies, Steps, Statuses
<1>2. LoopInv
  BY DEF LoopInv, Idle, HandlerSteps
<1>3. RegistryInv
  <2>1. \A s \in Sims : DOMAIN submissions[s] = 1..0
    OBVIOUS
  <2> QED BY <2>1 DEF RegistryInv, IdNamesItsSubmission, Numbered, Registered,
                      Accepted
<1>4. ProgressInv
  BY DEF ProgressInv, Progress, HandlerSteps
<1>5. MarkerInv /\ RowsInv
  BY DEF MarkerInv, Marked, Past, Accepted, RowsInv
<1>6. ReplyInv
  BY DEF ReplyInv, Idle, NoReply
<1> QED BY <1>1, <1>2, <1>3, <1>4, <1>5, <1>6 DEF IInv

LEMMA IInvStutter == IInv /\ UNCHANGED vars => IInv'
<1> SUFFICES ASSUME IInv, UNCHANGED vars PROVE IInv'
  OBVIOUS
<1> USE DEF vars, IInv
<1>1. TypeOK' /\ LoopInv'
  BY DEF TypeOK, LoopInv, Registered, Accepted
<1>2. RegistryInv'
  BY DEF RegistryInv, IdNamesItsSubmission, Numbered, Registered, Accepted,
         NextNumber
<1>3. ProgressInv'
  BY DEF ProgressInv, Progress
<1>4. MarkerInv' /\ RowsInv' /\ ReplyInv'
  BY DEF MarkerInv, Marked, Past, Accepted, RowsInv, RowOf, ReplyInv, SubmissionId
<1> QED BY <1>1, <1>2, <1>3, <1>4

(* The inductive invariant holds.                                          *)
THEOREM Invariance == Spec => []IInv
<1>1. IInv /\ [Next]_vars => IInv'
  BY TypeStep, LoopStep, RegistryStep, ProgressStep, MarkerStep, RowsStep,
     ReplyInvStep, IInvStutter DEF IInv
<1> QED BY <1>1, InitIInv, PTL DEF Spec

(* Every variable keeps to its type.                                       *)
THEOREM TypeCorrect == Spec => []TypeOK
<1>1. IInv => TypeOK
  BY DEF IInv
<1> QED BY <1>1, Invariance, PTL

(* The grace wait's contract: an accepted submission without a marker has  *)
(* its row, when writes under results_dir do not fail.                     *)
THEOREM GraceContract == Spec => []UnmarkedIsRecorded
<1>1. IInv => UnmarkedIsRecorded
  BY DEF IInv, MarkerInv, Marked, Past, UnmarkedIsRecorded
<1> QED BY <1>1, Invariance, PTL

(* Ids never alias, in any number of simulators and submissions.           *)
THEOREM IdsNeverAlias == Spec => []IdNamesItsSubmission
<1>1. IInv => IdNamesItsSubmission
  BY DEF IInv, RegistryInv
<1> QED BY <1>1, Invariance, PTL

(* submit_outcomes.jsonl holds final reports, one per id.                  *)
THEOREM RowsAreFinal == Spec => []RowsAreReports
<1>1. IInv => RowsAreReports
  <2> SUFFICES ASSUME IInv, NEW r \in rows
               PROVE  \E c \in Calls :
                        /\ SubmissionId(c) = r.id
                        /\ status[c] = "done"
                        /\ report[c] = r.report
                        /\ \A q \in rows : q.id = r.id => q = r
    BY DEF RowsAreReports
  <2>1. PICK c \in Calls : RowOf(r, c)
    BY DEF IInv, RowsInv
  <2>2. ASSUME NEW q \in rows, q.id = r.id PROVE q = r
    <3>1. PICK d \in Calls : RowOf(q, d)
      BY DEF IInv, RowsInv
    <3>2. d = c
      BY <2>1, <2>2, <3>1, IdsDistinct DEF RowOf, Past, Registered, Accepted
    <3> QED BY <2>1, <3>1, <3>2 DEF RowOf
  <2>3. status[c] = "done"
    BY <2>1 DEF IInv, ProgressInv, Progress, RowOf, Past
  <2> QED BY <2>1, <2>2, <2>3 DEF RowOf
<1> QED BY <1>1, Invariance, PTL

(* The lock-free reader never shows a finished submission half-written.    *)
THEOREM LockFreeReads == Spec => []DoneReplyIsComplete
<1>1. IInv => DoneReplyIsComplete
  BY DEF IInv, ReplyInv, ProgressInv, Progress, Final, DoneReplyIsComplete
<1> QED BY <1>1, Invariance, PTL

(* A submission's status only moves forward and its report is final.       *)
THEOREM FinishedIsFrozen == Spec => DoneIsFrozen
<1> DEFINE Frozen == \A c \in Calls :
             /\ status[c] = "done" => status'[c] = "done" /\ report'[c] = report[c]
             /\ status[c] = "running" => status'[c] # "queued"
<1>1. IInv /\ [Next]_vars => [Frozen]_vars
  <2> SUFFICES ASSUME IInv, Next, NEW c \in Calls
               PROVE  /\ status[c] = "done" =>
                           status'[c] = "done" /\ report'[c] = report[c]
                      /\ status[c] = "running" => status'[c] # "queued"
    OBVIOUS
  <2>1. status[c] = "done" => status'[c] = "done" /\ report'[c] = report[c]
    BY FinalFrozen DEF FrozenAt, Final, IInv, ProgressInv, Progress
  <2>2. status[c] = "running" => status'[c] # "queued"
    <3>1. IInv'
      BY TypeStep, LoopStep, RegistryStep, ProgressStep, MarkerStep, RowsStep,
         ReplyInvStep DEF IInv
    <3>2. status'[c] = status[c] \/ \E d \in Calls : StartWorker(d) \/ MarkDone(d)
      BY DEF Next, AgentStep, ServerStep, Submit, CheckSubmission, SessionEnd, Edit,
             HandlerStep, CaptureSnapshot, Register, MarkInflight, SpawnWorker,
             ReplyStep, ReadStatus, ReadFields, PollAgain, WaitTimeout,
             WorkerStep, CountAttempt, CapReached, UnderCap,
             BudgetExhausted, UnderBudget, RejectFiles, CopyFiles, ClearStaging,
             FillStaging, StagingFails, SimulateOk, SimulateFails,
             CountSubmission, TakeIndex, PublishReport, AppendOutcome,
             ClearInflight, ReturnEarly, Continue
    <3> QED BY <3>2 DEF StartWorker, MarkDone, IInv, TypeOK
  <2> QED BY <2>1, <2>2
<1> QED BY <1>1, Invariance, PTL DEF Spec, DoneIsFrozen

-----------------------------------------------------------------------------
(* The server implements the submission service *)

State(c) == IF Accepted(c) THEN status[c] ELSE "absent"
StateMap == [c \in Calls |-> State(c)]
OutcomeMap == [c \in Calls |-> IF status[c] = "done" THEN report[c] ELSE NoReport]
DurableMap == {c \in Calls : Accepted(c)
                  /\ [id |-> SubmissionId(c), report |-> report[c]] \in rows}
PendingMap == {c \in Calls : Accepted(c) /\ SubmissionId(c) \in inFlight}

(* Without disk failures, what is durable and what is pending follows from *)
(* where each worker is.                                                   *)
MapsAreProgress ==
    /\ DurableMap = {c \in Calls : Past(c)}
    /\ PendingMap = {c \in Calls : Accepted(c) /\ pc[c] # "exited"}

LEMMA MapsFollowProgress == IInv /\ ~DiskMayFail => MapsAreProgress
<1> SUFFICES ASSUME IInv, ~DiskMayFail PROVE MapsAreProgress
  OBVIOUS
<1>1. ASSUME NEW c \in Calls, Accepted(c),
             [id |-> SubmissionId(c), report |-> report[c]] \in rows
      PROVE  Past(c)
  <2>1. PICK d \in Calls :
          RowOf([id |-> SubmissionId(c), report |-> report[c]], d)
    BY <1>1 DEF IInv, RowsInv
  <2>2. SubmissionId(c) = SubmissionId(d) /\ Past(d)
    BY <2>1 DEF RowOf
  <2> QED BY <1>1, <2>2, IdsDistinct DEF Registered, Accepted, Past
<1>2. \A c \in Calls : Past(c) =>
        Accepted(c) /\ [id |-> SubmissionId(c), report |-> report[c]] \in rows
  BY DEF IInv, MarkerInv, Marked, Past, Accepted
<1>3. \A c \in Calls : Accepted(c) =>
        (SubmissionId(c) \in inFlight <=> pc[c] # "exited")
  BY DEF IInv, MarkerInv, Marked
<1> QED BY <1>1, <1>2, <1>3 DEF DurableMap, PendingMap, MapsAreProgress

LEMMA MapsFollowProgressNext == (IInv /\ ~DiskMayFail => MapsAreProgress)'
BY MapsFollowProgress, PTL

LEMMA ServiceInit == Init => Service!Init
<1> SUFFICES ASSUME Init PROVE Service!Init
  OBVIOUS
<1> QED BY DEF Init, Service!Init, Accepted

(* A step that accepts, starts and finishes nothing and leaves the         *)
(* directory alone is a stutter of the service.                            *)
LEMMA ServiceStutter ==
    ASSUME IInv, IInv', ~DiskMayFail,
           \A c \in Calls : /\ Accepted(c)' <=> Accepted(c)
                            /\ Past(c)' <=> Past(c)
                            /\ pc'[c] = "exited" <=> pc[c] = "exited"
                            /\ Accepted(c) => status'[c] = status[c]
                            /\ status'[c] = "done" <=> status[c] = "done"
                            /\ status[c] = "done" => report'[c] = report[c]
    PROVE  /\ StateMap' = StateMap /\ OutcomeMap' = OutcomeMap
           /\ DurableMap' = DurableMap /\ PendingMap' = PendingMap
<1>1. StateMap' = StateMap /\ OutcomeMap' = OutcomeMap
  BY DEF StateMap, State, OutcomeMap
<1>2. /\ DurableMap = {c \in Calls : Past(c)}
      /\ PendingMap = {c \in Calls : Accepted(c) /\ pc[c] # "exited"}
  BY MapsFollowProgress DEF MapsAreProgress
<1>3. /\ DurableMap' = {c \in Calls : Past(c)'}
      /\ PendingMap' = {c \in Calls : Accepted(c)' /\ pc'[c] # "exited"}
  BY MapsFollowProgressNext DEF MapsAreProgress
<1> QED BY <1>1, <1>2, <1>3

LEMMA ServiceStep ==
    ASSUME IInv, IInv', ~DiskMayFail, Next
    PROVE  Service!Next \/ UNCHANGED Service!serviceVars
<1> DEFINE Same == /\ StateMap' = StateMap /\ OutcomeMap' = OutcomeMap
                   /\ DurableMap' = DurableMap /\ PendingMap' = PendingMap
<1>s. Same => UNCHANGED Service!serviceVars
  BY DEF Service!serviceVars, StateMap, State, OutcomeMap, DurableMap, PendingMap
<1>t. /\ TypeOK /\ pc \in [Calls -> Steps] /\ status \in [Calls -> Statuses]
      /\ \A c \in Calls : Progress(c)
  BY DEF IInv, TypeOK, ProgressInv
<1>u. \A c \in Calls : Progress(c)'
  BY DEF IInv, ProgressInv
<1>m. MapsAreProgress /\ MapsAreProgress'
  BY MapsFollowProgress, MapsFollowProgressNext
<1>1. ASSUME NEW c \in Calls, MarkInflight(c) PROVE Service!Next
  <2>1. pc[c] = "mark" /\ pc' = [pc EXCEPT ![c] = "spawn"]
        /\ status' = status /\ report' = report
    BY <1>1 DEF MarkInflight, Goto
  <2>2. status[c] = "queued" /\ ~Accepted(c)
    BY <1>t, <2>1 DEF Progress, HandlerSteps, Accepted
  <2>3. Service!Accept(c)
    <3>1. StateMap[c] = "absent" /\ StateMap' = [StateMap EXCEPT ![c] = "queued"]
      BY <1>t, <2>1, <2>2 DEF StateMap, State, Accepted
    <3>2. OutcomeMap' = OutcomeMap
      BY <2>1 DEF OutcomeMap
    <3>3. DurableMap' = DurableMap /\ PendingMap' = PendingMap \cup {c}
      BY <1>t, <1>m, <2>1 DEF MapsAreProgress, Past, Accepted
    <3> QED BY <3>1, <3>2, <3>3
            DEF Service!Accept, StateMap, State, OutcomeMap, DurableMap, PendingMap
  <2> QED BY <2>3 DEF Service!Next
<1>2. ASSUME NEW c \in Calls, StartWorker(c) PROVE Service!Next
  <2>1. pc[c] = "start" /\ pc' = [pc EXCEPT ![c] = "attempt"]
        /\ status' = [status EXCEPT ![c] = "running"] /\ report' = report
    BY <1>2 DEF StartWorker, Goto
  <2>2. status[c] = "queued" /\ Accepted(c)
    BY <1>t, <2>1 DEF Progress, Accepted
  <2>3. Service!Start(c)
    <3>1. StateMap[c] = "queued" /\ StateMap' = [StateMap EXCEPT ![c] = "running"]
      BY <1>t, <2>1, <2>2 DEF StateMap, State, Accepted
    <3>2. OutcomeMap' = OutcomeMap
      BY <1>t, <2>1, <2>2 DEF OutcomeMap
    <3>3. DurableMap' = DurableMap /\ PendingMap' = PendingMap
      BY <1>t, <1>m, <2>1 DEF MapsAreProgress, Past, Accepted
    <3> QED BY <3>1, <3>2, <3>3
            DEF Service!Start, StateMap, State, OutcomeMap, DurableMap, PendingMap
  <2> QED BY <2>3 DEF Service!Next
<1>3. ASSUME NEW c \in Calls, MarkDone(c) PROVE Service!Next
  <2>1. pc[c] = "finish" /\ pc' = [pc EXCEPT ![c] = "append"]
        /\ status' = [status EXCEPT ![c] = "done"] /\ report' = report
    BY <1>3 DEF MarkDone, Goto
  <2>2. status[c] = "running" /\ Accepted(c) /\ report[c] \in Reports
    BY <1>t, <2>1 DEF Progress, Accepted, HandlerSteps, Statuses, TypeOK
  <2>3. Service!Finish(c)
    <3>1. StateMap[c] = "running" /\ StateMap' = [StateMap EXCEPT ![c] = "done"]
      BY <1>t, <2>1, <2>2 DEF StateMap, State, Accepted
    <3>2. /\ OutcomeMap'[c] \in Reports
          /\ OutcomeMap' = [OutcomeMap EXCEPT ![c] = OutcomeMap'[c]]
      BY <1>t, <2>1, <2>2 DEF OutcomeMap
    <3>3. DurableMap' = DurableMap /\ PendingMap' = PendingMap
      BY <1>t, <1>m, <2>1 DEF MapsAreProgress, Past, Accepted
    <3> QED BY <3>1, <3>2, <3>3
            DEF Service!Finish, StateMap, State, OutcomeMap, DurableMap, PendingMap
  <2> QED BY <2>3 DEF Service!Next
<1>4. ASSUME NEW c \in Calls, AppendOutcome(c) PROVE Service!Next
  <2>1. pc[c] = "append" /\ pc' = [pc EXCEPT ![c] = "unmark"]
        /\ status' = status /\ report' = report
    BY <1>4 DEF AppendOutcome, Goto
  <2>2. status[c] = "done" /\ Accepted(c)
    BY <1>t, <2>1 DEF Progress, Accepted
  <2>3. Service!Persist(c)
    <3>1. StateMap[c] = "done" /\ StateMap' = StateMap /\ OutcomeMap' = OutcomeMap
      BY <1>t, <2>1, <2>2 DEF StateMap, State, OutcomeMap, Accepted
    <3>2. /\ c \notin DurableMap /\ DurableMap' = DurableMap \cup {c}
          /\ PendingMap' = PendingMap
      BY <1>t, <1>m, <2>1 DEF MapsAreProgress, Past, Accepted
    <3> QED BY <3>1, <3>2
            DEF Service!Persist, StateMap, State, OutcomeMap, DurableMap, PendingMap
  <2> QED BY <2>3 DEF Service!Next
<1>5. ASSUME NEW c \in Calls, ClearInflight(c) PROVE Service!Next
  <2>1. pc[c] = "unmark" /\ pc' = [pc EXCEPT ![c] = "exited"]
        /\ status' = status /\ report' = report
    BY <1>5 DEF ClearInflight, Goto
  <2>2. Service!Release(c)
    <3>1. StateMap' = StateMap /\ OutcomeMap' = OutcomeMap
      BY <1>t, <2>1 DEF StateMap, State, OutcomeMap, Accepted
    <3>2. /\ c \in DurableMap \cap PendingMap /\ DurableMap' = DurableMap
          /\ PendingMap' = PendingMap \ {c}
      BY <1>t, <1>m, <2>1 DEF MapsAreProgress, Past, Accepted
    <3> QED BY <3>1, <3>2
            DEF Service!Release, StateMap, State, OutcomeMap, DurableMap, PendingMap
  <2> QED BY <2>2 DEF Service!Next
<1>6. ASSUME NEW c \in Calls, NEW s \in Sims, NEW w \in BOOLEAN, Submit(c, s, w)
      PROVE  Same
  <2>1. /\ pc[c] = "unused" /\ pc' = [pc EXCEPT ![c] = "snapshot"]
        /\ status' = status /\ report' = report
    BY <1>6 DEF Submit, Goto
  <2> QED BY <1>t, <2>1, ServiceStutter DEF Past, Accepted
<1>7. ASSUME NEW c \in Calls, CaptureSnapshot(c) \/ Register(c) \/ SpawnWorker(c)
      PROVE  Same
  <2>1. \/ pc[c] = "snapshot" /\ pc' = [pc EXCEPT ![c] = "register"]
        \/ pc[c] = "register" /\ pc' = [pc EXCEPT ![c] = "mark"]
        \/ pc[c] = "spawn" /\ pc' = [pc EXCEPT ![c] = "start"]
    BY <1>7 DEF CaptureSnapshot, Register, SpawnWorker, Goto
  <2>2. status' = status /\ report' = report
    BY <1>7 DEF CaptureSnapshot, Register, SpawnWorker
  <2> QED BY <1>t, <2>1, <2>2, ServiceStutter DEF Past, Accepted
<1>8. ASSUME NEW c \in Calls, WorkerStep(c), ~StartWorker(c), ~MarkDone(c),
             ~AppendOutcome(c), ~ClearInflight(c)
      PROVE  Same
  <2>1. /\ pc[c] \notin {"start", "finish", "append", "unmark", "exited"}
        /\ pc'[c] \notin {"append", "unmark", "exited"}
        /\ status' = status /\ \A d \in Calls : d # c => report'[d] = report[d]
    BY <1>t, <1>8
       DEF WorkerStep, CountAttempt, CapReached, UnderCap, TypeOK,
           BudgetExhausted, UnderBudget, RejectFiles, CopyFiles, ClearStaging,
           FillStaging, StagingFails, SimulateOk, SimulateFails,
           CountSubmission, TakeIndex, PublishReport, ReturnEarly, Continue, Goto
  <2>2. WorkerFrame(c)
    BY <1>t, <1>8, WorkerFrameHolds
  <2>3. status[c] # "done"
    BY <1>t, <2>1 DEF Progress
  <2> QED BY <2>1, <2>2, <2>3, ServiceStutter
          DEF WorkerFrame, WorkerSteps, Past, Accepted
<1>9. ASSUME ReaderStep PROVE Same
  <2>1. ReaderFrame
    BY <1>9, ReaderFrameHolds
  <2> QED BY <2>1 DEF ReaderFrame, StateMap, State, OutcomeMap, DurableMap,
                      PendingMap, Accepted, SubmissionId
<1> QED BY <1>s, <1>1, <1>2, <1>3, <1>4, <1>5, <1>6, <1>7, <1>8, <1>9, NextCases
        DEF HandlerStep

(* Where writes under results_dir do not fail, the server implements       *)
(* SubmissionService: accepted once, one final report, pending until the   *)
(* report is durable.                                                      *)
THEOREM Implementation == ~DiskMayFail /\ Spec => ImplementsService
<1> SUFFICES ASSUME ~DiskMayFail PROVE Spec => ImplementsService
  OBVIOUS
<1>1. IInv /\ IInv' /\ [Next]_vars => [Service!Next]_(Service!serviceVars)
  <2>1. CASE Next
    BY <2>1, ServiceStep
  <2>2. CASE UNCHANGED vars
    BY <2>2 DEF vars, Service!serviceVars, Accepted, SubmissionId
  <2> QED BY <2>1, <2>2
<1> QED BY <1>1, ServiceInit, Invariance, PTL
        DEF Spec, ImplementsService, Service!Spec

-----------------------------------------------------------------------------
(***************************************************************************)
(* The counters: what submit_count and attempt_count count under any       *)
(* interleaving of the workers, what the attempt cap bounds, and when the  *)
(* submission budget holds.                                                *)
(***************************************************************************)
(* What a worker has produced so far *)

Early == {"unused", "start", "attempt", "cap", "budget", "copy"} \cup HandlerSteps
Late == {"count", "index", "publish", "finish"} \cup Final

Produced(c) ==
    /\ pc[c] \in Early => copied[c] = NoFiles
    /\ pc[c] \notin Late => result[c] = NoReport
    /\ pc[c] \in {"count", "index"} => result[c].metrics # NoFiles
    /\ pc[c] \notin {"finish"} \cup Final => report[c] = NoReport
    /\ ~SharedStaging => /\ pc[c] \notin {"clear", "fill"}
                         /\ pc[c] = "simulate" => copied[c] # NoFiles
ProducedInv == \A c \in Calls : Produced(c)

(* Taking the index leaves the metrics alone.                              *)
LEMMA IndexKeepsMetrics ==
    ASSUME NEW r \in Reports, NEW i \in Nat
    PROVE  [r EXCEPT !.index = i].metrics = r.metrics
BY DEF Reports

(* One worker step, seen through the fields of its own submission.         *)
LEMMA WorkerCases ==
    ASSUME IInv, ProducedInv, NEW c \in Calls, WorkerStep(c)
    PROVE  \/ /\ pc[c] \in {"start", "attempt", "cap", "budget", "clear", "fill"}
              /\ pc'[c] \in {"attempt", "cap", "budget", "copy", "fill", "simulate"}
              /\ pc[c] = "start" => pc'[c] = "attempt"
              /\ pc[c] = "attempt" => pc'[c] = "cap"
              /\ pc[c] = "cap" => pc'[c] = "budget"
              /\ pc[c] = "budget" => pc'[c] = "copy"
              /\ pc[c] \in {"clear", "fill"} => pc'[c] \in {"fill", "simulate"}
              /\ UNCHANGED <<copied, result, report>>
           \/ /\ pc[c] = "copy"
              /\ pc'[c] = IF SharedStaging THEN "clear" ELSE "simulate"
              /\ copied' = [copied EXCEPT ![c] = workspace]
              /\ UNCHANGED <<result, report>>
           \/ /\ pc[c] \in {"cap", "budget", "copy", "clear", "fill", "simulate"}
              /\ pc'[c] = "publish"
              /\ result'[c] \in Reports /\ result'[c].metrics = NoFiles
              /\ UNCHANGED <<copied, report>>
           \/ /\ pc[c] = "simulate" /\ pc'[c] = "count"
              /\ result'[c] \in Reports /\ result'[c].metrics = Built(c)
              /\ Built(c) # NoFiles
              /\ UNCHANGED <<copied, report>>
           \/ /\ pc[c] = "count" /\ pc'[c] = "index"
              /\ UNCHANGED <<copied, result, report>>
           \/ /\ pc[c] = "index" /\ pc'[c] = "publish"
              /\ result'[c] \in Reports /\ result'[c].metrics = result[c].metrics
              /\ UNCHANGED <<copied, report>>
           \/ /\ pc[c] = "publish" /\ pc'[c] = "finish"
              /\ report'[c] = result[c]
              /\ UNCHANGED <<copied, result>>
           \/ /\ pc[c] \in {"finish", "append", "unmark"} /\ pc'[c] \in Final
              /\ UNCHANGED <<copied, result, report>>
<1>t. /\ TypeOK /\ sim[c] \in Sims
  <2>1. pc[c] # "unused"
    BY WorkerFrameHolds DEF WorkerFrame, WorkerSteps, IInv
  <2> QED BY <2>1 DEF IInv, RegistryInv, Numbered
<1> USE <1>t DEF TypeOK, Goto
<1>1. CASE StartWorker(c) \/ CountAttempt(c) \/ UnderCap(c) \/ UnderBudget(c)
            \/ ClearStaging(c) \/ FillStaging(c)
  BY <1>1 DEF StartWorker, CountAttempt, UnderCap, UnderBudget, Continue,
              ClearStaging, FillStaging
<1>2. CASE CopyFiles(c)
  BY <1>2 DEF CopyFiles
<1>3. ASSUME NEW from \in {"cap", "budget", "copy", "clear", "fill", "simulate"},
             NEW o \in Outcomes, NEW x \in BOOLEAN, ReturnEarly(c, from, o, x)
      PROVE  /\ pc[c] \in {"cap", "budget", "copy", "clear", "fill", "simulate"}
             /\ pc'[c] = "publish"
             /\ result'[c] \in Reports /\ result'[c].metrics = NoFiles
             /\ UNCHANGED <<copied, report>>
  <2>1. submitCount[sim[c]] \in Nat
    OBVIOUS
  <2>2. Report(o, NoFiles, submitCount[sim[c]], x) \in Reports
    BY <2>1, ReportType
  <2>3. Report(o, NoFiles, submitCount[sim[c]], x).metrics = NoFiles
    BY DEF Report
  <2> QED BY <1>3, <2>2, <2>3 DEF ReturnEarly
<1>4. CASE SimulateOk(c)
  <2>1. Built(c) \in Designs
    BY <1>4 DEF SimulateOk, Built
  <2>2. Report("sim_ok", Built(c), 0, FALSE) \in Reports
    BY <2>1, ReportType DEF Outcomes
  <2>3. Report("sim_ok", Built(c), 0, FALSE).metrics = Built(c)
    BY DEF Report
  <2> QED BY <1>4, <2>2, <2>3 DEF SimulateOk
<1>5. CASE CountSubmission(c)
  BY <1>5 DEF CountSubmission
<1>6. CASE TakeIndex(c)
  <2>1. submitCount[sim[c]] \in Nat /\ result[c] \in Reports
    BY <1>6 DEF TakeIndex, IInv, ProgressInv, Progress
  <2>2. /\ [result[c] EXCEPT !.index = submitCount[sim[c]]] \in Reports
        /\ [result[c] EXCEPT !.index = submitCount[sim[c]]].metrics
             = result[c].metrics
    BY <2>1, ReportIndexType, IndexKeepsMetrics
  <2>3. result'[c] = [result[c] EXCEPT !.index = submitCount[sim[c]]]
    BY <1>6 DEF TakeIndex
  <2> QED BY <1>6, <2>2, <2>3 DEF TakeIndex
<1>7. CASE PublishReport(c)
  BY <1>7 DEF PublishReport
<1>8. CASE MarkDone(c) \/ AppendOutcome(c) \/ ClearInflight(c)
  BY <1>8 DEF MarkDone, AppendOutcome, ClearInflight, Final
<1> HIDE <1>t DEF TypeOK, Goto
<1> QED
  BY <1>1, <1>2, <1>3, <1>4, <1>5, <1>6, <1>7, <1>8
     DEF WorkerStep, CapReached, BudgetExhausted, RejectFiles, StagingFails,
         SimulateFails, Outcomes

(* Nothing but its own worker changes what a submission has produced.      *)
ProducedFrame(d) ==
    copied'[d] = copied[d] /\ result'[d] = result[d] /\ report'[d] = report[d]

HandlerMove(d) ==
    \/ pc'[d] = pc[d]
    \/ pc[d] \in {"unused"} \cup HandlerSteps /\ pc'[d] \in {"start"} \cup HandlerSteps

LEMMA ProducedFrames ==
    ASSUME IInv, Next, NEW d \in Calls, ~WorkerStep(d)
    PROVE  ProducedFrame(d) /\ HandlerMove(d)
<1>t. TypeOK /\ pc \in [Calls -> Steps]
  BY DEF IInv, TypeOK
<1> USE DEF ProducedFrame
<1>1. ASSUME NEW c \in Calls, WorkerStep(c) PROVE ProducedFrame(d) /\ pc'[d] = pc[d]
  <2>1. c # d
    BY <1>1
  <2>2. copied'[d] = copied[d]
    BY <1>t, <1>1, <2>1
       DEF WorkerStep, StartWorker, CountAttempt, CapReached, UnderCap,
           BudgetExhausted, UnderBudget, RejectFiles, CopyFiles, ClearStaging,
           FillStaging, StagingFails, SimulateOk, SimulateFails,
           CountSubmission, TakeIndex, PublishReport, MarkDone, AppendOutcome,
           ClearInflight, ReturnEarly, Continue, TypeOK
  <2> QED BY <1>t, <1>1, <2>1, <2>2, WorkerFrameHolds DEF WorkerFrame
<1>2. ASSUME NEW c \in Calls, HandlerStep(c)
      PROVE  ProducedFrame(d) /\ HandlerMove(d)
  BY <1>t, <1>2 DEF HandlerStep, CaptureSnapshot, Register, MarkInflight,
                    SpawnWorker, Goto, HandlerMove, HandlerSteps
<1>3. ASSUME NEW c \in Calls, NEW s \in Sims, NEW w \in BOOLEAN, Submit(c, s, w)
      PROVE  ProducedFrame(d) /\ HandlerMove(d)
  BY <1>t, <1>3 DEF Submit, Goto, HandlerMove, HandlerSteps
<1>4. ASSUME ReaderStep PROVE ProducedFrame(d) /\ pc'[d] = pc[d]
  BY <1>4, ReaderFrameHolds DEF ReaderFrame
<1> QED BY <1>1, <1>2, <1>3, <1>4, NextCases DEF HandlerMove

LEMMA ProducedStep == IInv /\ ProducedInv /\ Next => ProducedInv'
<1> SUFFICES ASSUME IInv, ProducedInv, Next, NEW d \in Calls PROVE Produced(d)'
  BY DEF ProducedInv
<1>t. Produced(d) /\ workspace \in Designs /\ NoFiles \notin Designs
      /\ copied \in [Calls -> Designs \cup {NoFiles}]
      /\ pc \in [Calls -> Steps]
  BY ConstantsAssumption DEF IInv, TypeOK, ProducedInv
<1>1. CASE WorkerStep(d)
  <2>1. SharedStaging \in BOOLEAN
    BY ConstantsAssumption
  <2>2. ~SharedStaging /\ pc[d] = "simulate" => Built(d) = copied[d]
    BY DEF Built
  <2> QED BY <1>t, <1>1, <2>1, WorkerCases
          DEF Produced, Early, Late, Final, HandlerSteps
<1>2. CASE ~WorkerStep(d)
  <2>1. ProducedFrame(d) /\ HandlerMove(d)
    BY <1>2, ProducedFrames
  <2> QED BY <1>t, <2>1 DEF Produced, ProducedFrame, HandlerMove, Early, Late,
                            Final, HandlerSteps
<1> QED BY <1>1, <1>2

LEMMA ProducedInit == Init => ProducedInv
BY DEF Init, ProducedInv, Produced, Early, Late, Final, HandlerSteps

LEMMA ProducedStutter == ProducedInv /\ UNCHANGED vars => ProducedInv'
BY DEF vars, ProducedInv, Produced

LEMMA ProducedAlways == Spec => []ProducedInv
<1>1. IInv /\ ProducedInv /\ [Next]_vars => ProducedInv'
  BY ProducedStep, ProducedStutter
<1> QED BY <1>1, ProducedInit, Invariance, PTL DEF Spec

-----------------------------------------------------------------------------
(* submit_count counts exactly the successes *)

Success(s) == {c \in Calls : sim[c] = s /\ Counted(c)}
CountInv ==
    \A s \in Sims : /\ IsFiniteSet(Success(s))
                    /\ submitCount[s] = Cardinality(Success(s))

LEMMA CountStep == IInv /\ ProducedInv /\ CountInv /\ Next => CountInv'
<1> SUFFICES ASSUME IInv, ProducedInv, CountInv, Next PROVE CountInv'
  OBVIOUS
<1>t. /\ TypeOK /\ pc \in [Calls -> Steps] /\ \A d \in Calls : Produced(d)
      /\ submitCount \in [Sims -> Nat]
      /\ \A d \in Calls : pc[d] # "unused" => sim'[d] = sim[d]
  BY IdFrozen DEF IInv, TypeOK, ProducedInv
<1>1. ASSUME NEW c \in Calls, CountSubmission(c) PROVE CountInv'
  <2>0. PICK t \in Sims : t = sim[c]
    BY <1>1 DEF CountSubmission, Goto, IInv, RegistryInv, Numbered
  <2>1. /\ pc[c] = "count" /\ pc' = [pc EXCEPT ![c] = "index"]
        /\ submitCount' = [submitCount EXCEPT ![t] = @ + 1]
        /\ result' = result /\ sim' = sim
    BY <1>1, <2>0 DEF CountSubmission, Goto, callVars
  <2>2. c \notin Success(t)
    BY <2>1 DEF Success, Counted
  <2>3. Success(t)' = Success(t) \cup {c}
    BY <1>t, <2>0, <2>1 DEF Success, Counted
  <2>4. \A s \in Sims : s # t => Success(s)' = Success(s)
    BY <1>t, <2>0, <2>1 DEF Success, Counted
  <2>5. /\ IsFiniteSet(Success(t)')
        /\ Cardinality(Success(t)') = Cardinality(Success(t)) + 1
    BY <2>2, <2>3, FS_AddElement DEF CountInv
  <2> QED BY <1>t, <2>1, <2>2, <2>4, <2>5 DEF CountInv
<1>2. CASE ~ \E c \in Calls : CountSubmission(c)
  <2>1. submitCount' = submitCount
    BY <1>2
       DEF Next, AgentStep, ServerStep, Submit, CheckSubmission, SessionEnd, Edit,
           HandlerStep, CaptureSnapshot, Register, MarkInflight, SpawnWorker,
           ReplyStep, ReadStatus, ReadFields, PollAgain, WaitTimeout,
           WorkerStep, StartWorker, CountAttempt, CapReached, UnderCap,
           BudgetExhausted, UnderBudget, RejectFiles, CopyFiles, ClearStaging,
           FillStaging, StagingFails, SimulateOk, SimulateFails, TakeIndex,
           PublishReport, MarkDone, AppendOutcome, ClearInflight, ReturnEarly,
           Continue, ctxVars
  <2>2. ASSUME NEW d \in Calls PROVE Counted(d)' <=> Counted(d)
    <3>1. CASE ~WorkerStep(d)
      BY <1>t, <3>1, ProducedFrames
         DEF ProducedFrame, HandlerMove, Counted, Produced, Late, Final,
             HandlerSteps
    <3>2. CASE WorkerStep(d)
      <4>1. ~(pc[d] = "count")
        <5>1. CASE pc[d] = "count"
          BY <1>2, <3>2, <5>1
             DEF WorkerStep, StartWorker, CountAttempt, CapReached, UnderCap,
                 BudgetExhausted, UnderBudget, RejectFiles, CopyFiles,
                 ClearStaging, FillStaging, StagingFails, SimulateOk,
                 SimulateFails, TakeIndex, PublishReport, MarkDone,
                 AppendOutcome, ClearInflight, ReturnEarly, Continue, Goto
        <5> QED BY <5>1
      <4>2. NoReport \notin Reports
        BY ConstantsAssumption
      <4> QED BY <1>t, <3>2, <4>1, <4>2, WorkerCases
              DEF Counted, Produced, Late, Final
    <3> QED BY <3>1, <3>2
  <2>3. \A d \in Calls : pc[d] = "unused" => ~Counted(d)
    BY <1>t DEF Counted, Produced, Late, Final
  <2>4. \A s \in Sims : Success(s)' = Success(s)
    BY <1>t, <2>2, <2>3 DEF Success
  <2> QED BY <2>1, <2>4 DEF CountInv
<1> QED BY <1>1, <1>2

(* No failed, rejected or exhausted attempt consumes budget and no success *)
(* goes uncounted, however the workers interleave.                         *)
THEOREM CountIsExact == Spec => []CountsOnlySuccesses
<1>1. Init => CountInv
  <2> SUFFICES ASSUME Init PROVE CountInv
    OBVIOUS
  <2>1. \A s \in Sims : Success(s) = {}
    BY DEF Init, Success, Counted
  <2> QED BY <2>1, FS_EmptySet DEF CountInv, Init
<1>2. CountInv /\ UNCHANGED vars => CountInv'
  BY DEF CountInv, Success, Counted, vars
<1>3. IInv /\ ProducedInv /\ CountInv /\ [Next]_vars => CountInv'
  BY <1>2, CountStep
<1>4. CountInv => CountsOnlySuccesses
  BY DEF CountInv, CountsOnlySuccesses, Success
<1> QED BY <1>1, <1>3, <1>4, Invariance, ProducedAlways, PTL DEF Spec

-----------------------------------------------------------------------------
(* The attempt cap *)

(* attempt_count counts the workers past its increment; those that passed  *)
(* the cap were among them when the last of them passed.                   *)
Attempted(c) == pc[c] \notin {"unused", "start", "attempt"} \cup HandlerSteps
Attempts(s) == {c \in Calls : sim[c] = s /\ Attempted(c)}
Passed(c) == pc[c] \in {"budget", "copy"} \/ copied[c] # NoFiles
Passes(s) == {c \in Calls : sim[c] = s /\ Passed(c)}
CapInv ==
    \A s \in Sims : /\ IsFiniteSet(Attempts(s))
                    /\ attemptCount[s] = Cardinality(Attempts(s))
                    /\ Cardinality(Passes(s)) <= MaxAttempts

LEMMA MaxAttemptsType == MaxAttempts \in Nat
BY ConstantsAssumption DEF MaxAttempts

LEMMA PassesAttempted ==
    ASSUME ProducedInv, NEW s
    PROVE  Passes(s) \subseteq Attempts(s)
BY DEF Passes, Passed, Attempts, Attempted, ProducedInv, Produced, Early,
       HandlerSteps

(* Only CountAttempt moves a submission into Attempts and only UnderCap    *)
(* moves one into Passes.                                                  *)
LEMMA CapFrame ==
    ASSUME IInv, ProducedInv, Next, NEW d \in Calls
    PROVE  /\ CountAttempt(d) \/ (Attempted(d)' <=> Attempted(d))
           /\ UnderCap(d) \/ (Passed(d)' => Passed(d))
<1>t. Produced(d) /\ TypeOK
  BY DEF IInv, ProducedInv
<1>1. CASE ~WorkerStep(d)
  <2>1. copied'[d] = copied[d] /\ HandlerMove(d)
    BY <1>1, ProducedFrames DEF ProducedFrame
  <2> QED BY <2>1 DEF Attempted, Passed, HandlerMove, HandlerSteps
<1>2. CASE WorkerStep(d)
  <2>1. pc[d] = "attempt" => CountAttempt(d)
    BY <1>2 DEF WorkerStep, StartWorker, CapReached, UnderCap, BudgetExhausted,
                UnderBudget, RejectFiles, CopyFiles, ClearStaging, FillStaging,
                StagingFails, SimulateOk, SimulateFails, CountSubmission,
                TakeIndex, PublishReport, MarkDone, AppendOutcome,
                ClearInflight, ReturnEarly, Continue, Goto
  <2>2. pc[d] = "cap" => UnderCap(d) \/ pc'[d] = "publish"
    BY <1>t, <1>2
       DEF WorkerStep, StartWorker, CountAttempt, CapReached, BudgetExhausted,
           UnderBudget, RejectFiles, CopyFiles, ClearStaging, FillStaging,
           StagingFails, SimulateOk, SimulateFails, CountSubmission,
           TakeIndex, PublishReport, MarkDone, AppendOutcome,
           ClearInflight, ReturnEarly, Continue, Goto, TypeOK
  <2> HIDE DEF CountAttempt, UnderCap
  <2> QED BY <1>t, <1>2, <2>1, <2>2, WorkerCases
          DEF Attempted, Passed, Produced, Early, Late, Final, HandlerSteps
<1> QED BY <1>1, <1>2

LEMMA CapStep == IInv /\ ProducedInv /\ ProducedInv' /\ CapInv /\ Next => CapInv'
<1> SUFFICES ASSUME IInv, ProducedInv, ProducedInv', CapInv, Next, NEW s \in Sims
             PROVE  /\ IsFiniteSet(Attempts(s)')
                    /\ attemptCount'[s] = Cardinality(Attempts(s)')
                    /\ Cardinality(Passes(s)') <= MaxAttempts
  BY DEF CapInv
<1>t. /\ pc \in [Calls -> Steps] /\ attemptCount \in [Sims -> Nat]
      /\ IsFiniteSet(Attempts(s)) /\ attemptCount[s] = Cardinality(Attempts(s))
      /\ Cardinality(Passes(s)) <= MaxAttempts
      /\ \A d \in Calls : pc[d] # "unused" => sim'[d] = sim[d]
  BY IdFrozen DEF IInv, TypeOK, CapInv
<1>n. \A d \in Calls : pc[d] = "unused" => ~Attempted(d) /\ ~Passed(d)
  BY DEF Attempted, Passed, ProducedInv, Produced, Early
<1>1. /\ IsFiniteSet(Attempts(s)')
      /\ attemptCount'[s] = Cardinality(Attempts(s)')
  <2>1. ASSUME NEW c \in Calls, CountAttempt(c)
        PROVE  /\ IsFiniteSet(Attempts(s)')
               /\ attemptCount'[s] = Cardinality(Attempts(s)')
    <3>1. /\ pc[c] = "attempt" /\ pc' = [pc EXCEPT ![c] = "cap"] /\ sim' = sim
          /\ attemptCount' = [attemptCount EXCEPT ![sim[c]] = @ + 1]
      BY <2>1 DEF CountAttempt, Goto, callVars
    <3>2. CASE sim[c] = s
      <4>1. c \notin Attempts(s) /\ Attempts(s)' = Attempts(s) \cup {c}
        BY <1>t, <3>1, <3>2 DEF Attempts, Attempted, HandlerSteps
      <4> QED BY <1>t, <3>1, <3>2, <4>1, FS_AddElement
    <3>3. CASE sim[c] # s
      <4>1. Attempts(s)' = Attempts(s)
        BY <1>t, <3>1, <3>3 DEF Attempts, Attempted
      <4> QED BY <1>t, <3>1, <3>3, <4>1
    <3> QED BY <3>2, <3>3
  <2>2. CASE ~ \E c \in Calls : CountAttempt(c)
    <3>1. attemptCount' = attemptCount
      BY <2>2
         DEF Next, AgentStep, ServerStep, Submit, CheckSubmission, SessionEnd,
             Edit, HandlerStep, CaptureSnapshot, Register, MarkInflight,
             SpawnWorker, ReplyStep, ReadStatus, ReadFields, PollAgain,
             WaitTimeout, WorkerStep, StartWorker, CapReached, UnderCap,
             BudgetExhausted, UnderBudget, RejectFiles, CopyFiles, ClearStaging,
             FillStaging, StagingFails, SimulateOk, SimulateFails,
             CountSubmission, TakeIndex, PublishReport, MarkDone, AppendOutcome,
             ClearInflight, ReturnEarly, Continue, ctxVars
    <3>2. \A d \in Calls : Attempted(d)' <=> Attempted(d)
      BY <2>2, CapFrame
    <3>3. Attempts(s)' = Attempts(s)
      BY <1>t, <1>n, <3>2 DEF Attempts
    <3> QED BY <1>t, <3>1, <3>3
  <2> QED BY <2>1, <2>2
<1>2. Cardinality(Passes(s)') <= MaxAttempts
  <2>1. ASSUME NEW c \in Calls, UnderCap(c)
        PROVE  Cardinality(Passes(s)') <= MaxAttempts
    <3>1. /\ pc[c] = "cap" /\ pc' = [pc EXCEPT ![c] = "budget"]
          /\ sim' = sim /\ copied' = copied /\ attemptCount' = attemptCount
          /\ attemptCount[sim[c]] <= MaxAttempts
      BY <2>1 DEF UnderCap, Continue, Goto, callVars, ctxVars
    <3>2. CASE sim[c] = s
      <4>1. Passes(s)' \subseteq Attempts(s)'
        BY <1>t, <3>1 DEF Passes, Passed, Attempts, Attempted, ProducedInv,
                          Produced, Early, HandlerSteps
      <4>2. /\ Cardinality(Passes(s)') \in Nat
            /\ Cardinality(Passes(s)') <= Cardinality(Attempts(s)')
        BY <1>1, <4>1, FS_Subset, FS_CardinalityType
      <4> QED BY <1>1, <1>t, <3>1, <3>2, <4>2, MaxAttemptsType
    <3>3. CASE sim[c] # s
      <4>1. Passes(s)' = Passes(s)
        BY <1>t, <3>1, <3>3 DEF Passes, Passed
      <4> QED BY <1>t, <4>1
    <3> QED BY <3>2, <3>3
  <2>2. CASE ~ \E c \in Calls : UnderCap(c)
    <3>1. \A d \in Calls : Passed(d)' => Passed(d)
      BY <2>2, CapFrame
    <3>2. Passes(s)' \subseteq Passes(s)
      BY <1>t, <1>n, <3>1 DEF Passes
    <3>3. IsFiniteSet(Passes(s))
      BY <1>t, PassesAttempted, FS_Subset
    <3>4. /\ Cardinality(Passes(s)') <= Cardinality(Passes(s))
          /\ Cardinality(Passes(s)') \in Nat /\ Cardinality(Passes(s)) \in Nat
      BY <3>2, <3>3, FS_Subset, FS_CardinalityType
    <3> QED BY <1>t, <3>4, MaxAttemptsType
  <2> QED BY <2>1, <2>2
<1> QED BY <1>1, <1>2

(* However many submissions run at once, no more than MaxAttempts of one   *)
(* simulator ever get their files pulled and simulated.                    *)
THEOREM CapHolds == Spec => []CapBoundsRuns
<1>1. Init => CapInv
  <2> SUFFICES ASSUME Init PROVE CapInv
    OBVIOUS
  <2>1. \A s \in Sims : Attempts(s) = {} /\ Passes(s) = {}
    BY DEF Init, Attempts, Attempted, Passes, Passed
  <2>2. IsFiniteSet({}) /\ Cardinality({}) = 0 /\ 0 <= MaxAttempts
    BY FS_EmptySet, MaxAttemptsType
  <2>3. \A s \in Sims : attemptCount[s] = 0
    BY DEF Init
  <2> QED BY <2>1, <2>2, <2>3 DEF CapInv
<1>2. CapInv /\ UNCHANGED vars => CapInv'
  BY DEF CapInv, Attempts, Attempted, Passes, Passed, vars
<1>3. IInv /\ ProducedInv /\ ProducedInv' /\ CapInv /\ [Next]_vars => CapInv'
  BY <1>2, CapStep
<1>4. IInv /\ ProducedInv /\ CapInv => CapBoundsRuns
  <2> SUFFICES ASSUME ProducedInv, CapInv, NEW s \in Sims
               PROVE  Cardinality({c \in Calls : sim[c] = s /\ copied[c] # NoFiles})
                        <= MaxAttempts
    BY DEF CapBoundsRuns
  <2> DEFINE Copied == {c \in Calls : sim[c] = s /\ copied[c] # NoFiles}
  <2>1. Copied \subseteq Passes(s)
    BY DEF Passes, Passed
  <2>2. IsFiniteSet(Passes(s)) /\ Cardinality(Passes(s)) <= MaxAttempts
    BY PassesAttempted, FS_Subset DEF CapInv
  <2>3. /\ Cardinality(Copied) <= Cardinality(Passes(s))
        /\ Cardinality(Copied) \in Nat /\ Cardinality(Passes(s)) \in Nat
    BY <2>1, <2>2, FS_Subset, FS_CardinalityType
  <2> QED BY <2>2, <2>3, MaxAttemptsType
<1> QED BY <1>1, <1>3, <1>4, Invariance, ProducedAlways, PTL DEF Spec

(* Both counters are right for any number of workers and simulators.       *)
THEOREM CountersHold == Spec => []CountersSound
<1>1. CountsOnlySuccesses /\ CapBoundsRuns => CountersSound
  BY DEF CountersSound
<1> QED BY <1>1, CountIsExact, CapHolds, PTL

-----------------------------------------------------------------------------
(* A client that waits keeps the budget *)

Busy(c) == pc[c] # "unused" /\ status[c] # "done"
Granted(c) == pc[c] \in {"copy", "clear", "fill", "simulate", "count"}
SerialInv ==
    /\ \A c, d \in Calls : Busy(c) /\ Busy(d) /\ sim[c] = sim[d] => c = d
    /\ \A c \in Calls : Granted(c) => submitCount[sim[c]] < MaxSubmissions
    /\ BudgetRespected

LEMMA SerialStep ==
    IInv /\ IInv' /\ ProducedInv /\ SerialInv /\ Next /\ SerialClient => SerialInv'
<1> SUFFICES ASSUME IInv, IInv', ProducedInv, SerialInv, Next, SerialClient
             PROVE  SerialInv'
  OBVIOUS
<1>t. /\ TypeOK /\ pc \in [Calls -> Steps] /\ submitCount \in [Sims -> Nat]
      /\ MaxSubmissions \in Nat
      /\ \A d \in Calls : pc[d] # "unused" =>
           /\ sim'[d] = sim[d] /\ sim[d] \in Sims
           /\ status[d] = "done" => status'[d] = "done"
  BY ConstantsAssumption, IdFrozen, FinalFrozen
     DEF IInv, TypeOK, RegistryInv, Numbered, ProgressInv, Progress, Final, FrozenAt
<1>p. \A d \in Calls : Granted(d) => Busy(d)
  BY DEF Granted, Busy, IInv, ProgressInv, Progress
<1>1. ASSUME NEW c \in Calls, NEW d \in Calls, Busy(c)', Busy(d)',
             sim'[c] = sim'[d], c # d
      PROVE  FALSE
  <2>1. ASSUME NEW e \in Calls, NEW f \in Calls, pc[e] = "unused",
               pc'[e] # "unused", sim[f] = sim'[e]
        PROVE  status[f] = "done"
    BY <2>1 DEF SerialClient
  <2>2. pc[c] # "unused" \/ pc[d] # "unused"
    <3>1. ASSUME NEW x \in Calls, pc[x] = "unused", pc'[x] # "unused"
          PROVE  \A y \in Calls : y # x => pc'[y] = pc[y]
      BY <1>t, <3>1, ReaderFrameHolds, WorkerFrameHolds, NextCases
         DEF Submit, HandlerStep, CaptureSnapshot, Register, MarkInflight,
             SpawnWorker, Goto, ReaderFrame, WorkerFrame, WorkerSteps
    <3> QED BY <1>1, <3>1 DEF Busy
  <2>3. CASE pc[c] = "unused"
    BY <1>t, <1>1, <2>1, <2>2, <2>3 DEF Busy
  <2>4. CASE pc[d] = "unused"
    BY <1>t, <1>1, <2>1, <2>2, <2>4 DEF Busy
  <2>5. CASE pc[c] # "unused" /\ pc[d] # "unused"
    BY <1>t, <1>1, <2>5 DEF Busy, SerialInv
  <2> QED BY <2>3, <2>4, <2>5
<1>2. ASSUME NEW c \in Calls, CountSubmission(c)
      PROVE  /\ \A d \in Calls : Granted(d)' => submitCount'[sim'[d]] < MaxSubmissions
             /\ BudgetRespected'
  <2>1. /\ pc[c] = "count" /\ pc' = [pc EXCEPT ![c] = "index"] /\ sim' = sim
        /\ submitCount' = [submitCount EXCEPT ![sim[c]] = @ + 1]
    BY <1>2 DEF CountSubmission, Goto, callVars
  <2>2. submitCount[sim[c]] < MaxSubmissions
    BY <2>1 DEF SerialInv, Granted
  <2>3. ASSUME NEW d \in Calls, Granted(d)'
        PROVE  submitCount'[sim'[d]] < MaxSubmissions
    <3>1. d # c /\ Granted(d)
      BY <1>t, <2>1, <2>3 DEF Granted
    <3>2. sim[d] # sim[c]
      BY <1>p, <2>1, <3>1 DEF SerialInv, Granted
    <3> QED BY <1>t, <2>1, <3>1, <3>2 DEF SerialInv
  <2>4. BudgetRespected'
    BY <1>t, <2>1, <2>2 DEF SerialInv, BudgetRespected
  <2> QED BY <2>3, <2>4
<1>3. ASSUME ~ \E c \in Calls : CountSubmission(c)
      PROVE  /\ \A d \in Calls : Granted(d)' => submitCount'[sim'[d]] < MaxSubmissions
             /\ BudgetRespected'
  <2>1. submitCount' = submitCount
    BY <1>3
       DEF Next, AgentStep, ServerStep, Submit, CheckSubmission, SessionEnd, Edit,
           HandlerStep, CaptureSnapshot, Register, MarkInflight, SpawnWorker,
           ReplyStep, ReadStatus, ReadFields, PollAgain, WaitTimeout,
           WorkerStep, StartWorker, CountAttempt, CapReached, UnderCap,
           BudgetExhausted, UnderBudget, RejectFiles, CopyFiles, ClearStaging,
           FillStaging, StagingFails, SimulateOk, SimulateFails, TakeIndex,
           PublishReport, MarkDone, AppendOutcome, ClearInflight, ReturnEarly,
           Continue, ctxVars
  <2>2. ASSUME NEW d \in Calls, Granted(d)'
        PROVE  submitCount'[sim'[d]] < MaxSubmissions
    <3>1. pc[d] # "unused" /\ (Granted(d) \/ UnderBudget(d))
      <4>1. CASE ~WorkerStep(d)
        BY <2>2, <4>1, ProducedFrames DEF Granted, HandlerMove, HandlerSteps
      <4>2. CASE WorkerStep(d)
        BY <1>t, <2>2, <4>2
           DEF Granted, WorkerStep, StartWorker, CountAttempt, CapReached, UnderCap,
               BudgetExhausted, RejectFiles, CopyFiles, ClearStaging, FillStaging,
               StagingFails, SimulateOk, SimulateFails, CountSubmission,
               TakeIndex, PublishReport, MarkDone, AppendOutcome,
               ClearInflight, ReturnEarly, Continue, Goto, UnderBudget
      <4> QED BY <4>1, <4>2
    <3> QED BY <1>t, <2>1, <3>1 DEF SerialInv, UnderBudget
  <2>3. BudgetRespected'
    BY <2>1 DEF SerialInv, BudgetRespected
  <2> QED BY <2>2, <2>3
<1> QED BY <1>1, <1>2, <1>3 DEF SerialInv

(* The unlocked budget check is enough for a client that submits to a      *)
(* simulator only after its earlier submissions there are done.            *)
THEOREM SerialBudget == SerialSpec => []BudgetRespected
<1>1. SerialSpec => Spec
  BY PTL DEF SerialSpec, Spec
<1>2. Init => SerialInv
  BY ConstantsAssumption DEF Init, SerialInv, Busy, Granted, BudgetRespected
<1>3. SerialInv /\ UNCHANGED vars => SerialInv'
  BY DEF SerialInv, Busy, Granted, BudgetRespected, vars
<1>4. IInv /\ IInv' /\ ProducedInv /\ SerialInv /\ [Next /\ SerialClient]_vars
        => SerialInv'
  BY <1>3, SerialStep
<1>5. SerialInv => BudgetRespected
  BY DEF SerialInv
<1> QED BY <1>1, <1>2, <1>4, <1>5, Invariance, ProducedAlways, PTL DEF SerialSpec
=============================================================================
