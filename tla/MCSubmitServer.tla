--------------------------- MODULE MCSubmitServer ---------------------------
(* Instances of SubmitServer for TLC.                                      *)
EXTENDS SubmitServer, TLC

(* Calls and designs are interchangeable: ids are numbers the server       *)
(* chooses and no action distinguishes two designs.                        *)
Symmetry == Permutations(Calls) \cup Permutations(Designs)

(* A smaller agent, for the runs about counters: it fires submissions off, *)
(* always with a prediction, and never polls or ends the session.          *)
FireAndForget ==
    /\ loop'.op \in {"idle", "submit"} /\ ~loop'.wait
    /\ ~sessionEnd'

(* It edits its files once, between its first and its second submission.   *)
EditsOnce ==
    workspace' # workspace =>
        /\ Cardinality({c \in Calls : pc[c] # "unused"}) = 1
        /\ \A c \in Calls : pc[c] # "unused" => snapshot[c] = workspace

(* Steps that nobody observes while the agent does not poll (those of the  *)
(* handler, which holds the loop, but for the marker, and a worker's own   *)
(* status and report) are taken at once: they commute with all others.     *)
Prompt ==
    \A c \in Calls :
        pc[c] \in {"snapshot", "register", "spawn", "start", "publish", "finish"}
            => pc'[c] # pc[c]

(* It ends the session when no submission is in flight.                    *)
EndsLast ==
    sessionEnd' => \A c \in Calls : pc'[c] \in {"unused", "exited"}

(* Calls are numbers, made in their order (instead of a symmetry, which     *)
(* would not be sound for liveness).                                       *)
InOrder ==
    \A c, d \in Calls : c < d /\ pc'[c] = "unused" => pc'[d] = "unused"

(* The first call is a submit, polled by check_submission; the others are  *)
(* a submit or a submit_and_wait, and not polled otherwise.                *)
PollsFirst ==
    loop = Idle /\ loop'.op \in {"submit", "poll"} =>
        IF loop'.call = 1 THEN ~loop'.wait ELSE loop'.op = "submit"

(* Writes under results_dir fail for the first call only.                  *)
DiskFailsOnce ==
    \A c \in Calls : c # 1 =>
        /\ pc[c] = "mark" /\ pc'[c] = "spawn" => SubmissionId(c) \in inFlight'
        /\ pc[c] = "append" /\ pc'[c] = "unmark"
            => \E r \in rows' : r.id = SubmissionId(c)
        /\ pc[c] = "unmark" /\ pc'[c] = "exited"
            => SubmissionId(c) \notin inFlight'

(* One representative of the outcomes of a failed copy or simulation, and  *)
(* one of the two snapshots: no property of these runs tells them apart.   *)
OneFailure ==
    \A c \in Calls :
        /\ pc[c] \in {"copy", "simulate"} /\ pc'[c] = "publish"
            => result'[c].outcome = "sim_timeout"
        /\ pc'[c] = "register" => snapshot'[c] # NoFiles
=============================================================================
