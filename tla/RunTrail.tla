------------------------------ MODULE RunTrail ------------------------------
(***************************************************************************)
(* What a run leaves behind, and what is made of it: the agent changes     *)
(* files by its tools, the loop appends events to trajectory.jsonl; after  *)
(* the session the events are replayed into snapshots of the workspace,    *)
(* and turned into the steps of the canonical trajectory.                  *)
(*                                                                         *)
(* Source: archbench/core/workspace_history.py, the tools of               *)
(* runtimes/mini and its trajectory_adapter.py, core/runtime_base.py.      *)
(***************************************************************************)
EXTENDS Naturals, Sequences, FiniteSets, SequencesExt, FiniteSetsExt

CONSTANTS
    Names,          \* names of files at the root of the workspace
    Letters,        \* a text is a sequence of letters
    Texts,          \* the texts an agent writes, a starter file holds
    NoFile,         \* there is no such file
    Ids,            \* what tells two calls apart
    MaxEvents,      \* bound on events
    MaxChanges,     \* bound on the events among them that tell a change
    MaxSnapshots    \* MAX_SNAPSHOTS

ASSUME TrailAssumption ==
    /\ IsFiniteSet(Names)
    /\ Texts \subseteq Seq(Letters) /\ NoFile \notin Seq(Letters)
    /\ "none" \notin Ids
    /\ MaxEvents \in Nat /\ MaxChanges \in Nat /\ MaxSnapshots \in Nat

VARIABLES
    runtime,   \* "claude_code" or "mini": tools, and schema of the events
    starter,   \* starter_code: name -> text
    files,     \* the files of the workspace: place -> text
    trail,     \* trajectory.jsonl
    inTurn,    \* a turn of the mini loop is open
    forms,     \* the ways each name was written so far, by path
    odd        \* names whose last change the events do not tell

trailVars == <<runtime, starter, files, trail, inTurn, forms, odd>>

(* A path is absolute under /workspace, relative, or under the starter     *)
(* directory; the first two are the same place.                            *)
Forms == {"abs", "rel", "starter"}
Place(n, form) == [dir |-> IF form = "starter" THEN "starter" ELSE "root",
                   name |-> n]
Places == {Place(n, form) : n \in Names, form \in Forms}

(* stage_workspace: the starter goes to its directory, for L1 to the root, *)
(* too. The replay begins with it at the root, whatever the tier.          *)
TrailInit ==
    /\ runtime \in {"claude_code", "mini"}
    /\ starter \in UNION {[S -> Texts] : S \in SUBSET Names}
    /\ \E l1 \in BOOLEAN :
         /\ files = [p \in Places |->
              IF p.name \in DOMAIN starter /\ (l1 \/ p.dir = "starter")
              THEN starter[p.name] ELSE NoFile]
         /\ odd = IF l1 THEN {} ELSE DOMAIN starter
    /\ trail = <<>>
    /\ inTurn = (runtime = "claude_code")
    /\ forms = [n \in Names |-> IF n \in DOMAIN starter THEN {"abs"} ELSE {}]

-----------------------------------------------------------------------------
(* The agent *)

(* The events _iter_events yields.                                         *)
TellsChange(e) == e.type \in {"write", "edit"}
FileEvents == SelectSeq(trail, TellsChange)

Emit(e) ==
    /\ Len(trail) < MaxEvents
    /\ TellsChange(e) => Len(FileEvents) < MaxChanges
    /\ trail' = Append(trail, e)

Where(c, x) == {i \in 1..Len(c) : c[i] = x}

ReplaceFirst(c, x, y) ==
    IF Where(c, x) = {} THEN c ELSE [c EXCEPT ![Min(Where(c, x))] = y]

(* write_file, or Write: recorded also when it fails, and as the model     *)
(* wrote it, although the tool strips a fence around the text.             *)
WriteFile(n, form, text) ==
    /\ inTurn
    /\ \E works, fenced \in BOOLEAN :
         /\ fenced => runtime = "mini"
         /\ Emit([type |-> "write", name |-> n, form |-> form,
                  text |-> IF fenced THEN <<"fence">> \o text ELSE text])
         /\ files' = IF works THEN [files EXCEPT ![Place(n, form)] = text]
                              ELSE files
         /\ odd' = IF works /\ ~fenced /\ form # "starter"
                   THEN odd \ {n} ELSE odd \cup {n}
    /\ forms' = [forms EXCEPT ![n] = @ \cup {form}]
    /\ UNCHANGED <<runtime, starter, inTurn>>

(* Edit of Claude Code replaces one occurrence, or all when asked to, and  *)
(* fails without one, or with several. The event does not say which.       *)
EditFile(n, form, x, y, all) ==
    /\ runtime = "claude_code" /\ files[Place(n, form)] # NoFile
    /\ Emit([type |-> "edit", name |-> n, form |-> form, old |-> x, new |-> y])
    /\ LET text == files[Place(n, form)]
           k == Cardinality(Where(text, x))
       IN /\ files' = [files EXCEPT ![Place(n, form)] =
                         IF k = 1 THEN ReplaceFirst(@, x, y)
                         ELSE IF all THEN [i \in 1..Len(@) |->
                                             IF @[i] = x THEN y ELSE @[i]]
                         ELSE @]
          /\ odd' = IF k <= 1 /\ form # "starter" THEN odd ELSE odd \cup {n}
    /\ forms' = [forms EXCEPT ![n] = @ \cup {form}]
    /\ UNCHANGED <<runtime, starter, inTurn>>

(* A command changes a file, or does not; its event tells no change.       *)
Bash(n, text) ==
    /\ inTurn
    /\ Emit([type |-> "call", id |-> "bash"])
    /\ files' = [files EXCEPT ![Place(n, "abs")] = text]
    /\ odd' = odd \cup {n}
    /\ UNCHANGED <<runtime, starter, inTurn, forms>>

(* Another tool: submit, a probe, a read.                                  *)
Call(id) ==
    /\ inTurn
    /\ Emit([type |-> "call", id |-> id])
    /\ UNCHANGED <<runtime, starter, files, inTurn, forms, odd>>

(* A message of the model, which may be empty.                             *)
Say ==
    /\ inTurn
    /\ \E said \in BOOLEAN : Emit([type |-> "text", said |-> said])
    /\ UNCHANGED <<runtime, starter, files, inTurn, forms, odd>>

(* turn.started and turn.completed of the mini loop. A round that is cut   *)
(* short leaves its turn open; the next round starts another.              *)
StartTurn ==
    /\ runtime = "mini" /\ Emit([type |-> "start"]) /\ inTurn' = TRUE
    /\ UNCHANGED <<runtime, starter, files, forms, odd>>

EndTurn ==
    /\ runtime = "mini" /\ inTurn /\ Emit([type |-> "end"])
    /\ inTurn' = FALSE
    /\ UNCHANGED <<runtime, starter, files, forms, odd>>

TrailNext ==
    \/ \E n \in Names, form \in Forms :
          \/ \E text \in Texts : WriteFile(n, form, text)
          \/ \E x, y \in Letters, all \in BOOLEAN :
                x # y /\ EditFile(n, form, x, y, all)
    \/ \E n \in Names, text \in Texts : Bash(n, text)
    \/ \E id \in Ids : Call(id)
    \/ Say \/ StartTurn \/ EndTurn

TrailSpec == TrailInit /\ [][TrailNext]_trailVars

-----------------------------------------------------------------------------
(* replay_workspace_history. The dict of current texts, in its order, is a *)
(* sequence of entries; its keys are the paths as they were given.         *)

Entry(n, form, text) == [name |-> n, form |-> form, text |-> text]

StarterEntries ==
    SetToSeq({Entry(n, "abs", starter[n]) : n \in DOMAIN starter})

Index(dict, e) ==
    {i \in 1..Len(dict) : dict[i].name = e.name /\ dict[i].form = e.form}

(* Mutant: edits are made to the starter's text.                           *)
MutTextOf(dict, e) ==
    IF e.name \in DOMAIN starter THEN starter[e.name] ELSE <<>>

TextOf(dict, e) ==
    IF Index(dict, e) = {} THEN <<>> ELSE dict[Min(Index(dict, e))].text

Put(dict, e, text) ==
    IF Index(dict, e) = {} THEN Append(dict, Entry(e.name, e.form, text))
    ELSE [dict EXCEPT ![Min(Index(dict, e))] = Entry(e.name, e.form, text)]

(* An edit replaces the first occurrence; other events tell no change.     *)
Replay(dict, e) ==
    IF ~TellsChange(e) THEN dict
    ELSE Put(dict, e, IF e.type = "write" THEN e.text
                      ELSE ReplaceFirst(TextOf(dict, e), e.old, e.new))

ReplayAll(dict, events) ==
    LET upto[k \in 0..Len(events)] ==
          IF k = 0 THEN dict ELSE Replay(upto[k - 1], events[k])
    IN upto[Len(events)]

Replayed == ReplayAll(StarterEntries, trail)

(* A snapshot is flat: the last entry of a name is written last.           *)
Snapshot(dict) ==
    [n \in {dict[i].name : i \in 1..Len(dict)} |->
       dict[Max({i \in 1..Len(dict) : dict[i].name = n})].text]

(* The snapshot of the last event; there is none beyond the cap.           *)
HasSnapshot == Len(FileEvents) \in 1..MaxSnapshots

-----------------------------------------------------------------------------
(* _events_to_steps of the trajectory adapter. A step under way has an     *)
(* action, if any, and what was said.                                      *)

NoAction == "none"
NoStep == [action |-> NoAction, said |-> FALSE]

(* Mutant: what a turn that was cut short has so far is lost.              *)
MutFlush(acc, e) ==
    IF e.type = "start" THEN acc.steps
    ELSE IF acc.cur.said \/ acc.cur.action # NoAction
         THEN Append(acc.steps, acc.cur.action) ELSE acc.steps

(* A step with nothing in it is dropped.                                   *)
Flush(acc, e) ==
    IF acc.cur.said \/ acc.cur.action # NoAction
    THEN Append(acc.steps, acc.cur.action) ELSE acc.steps

Action(e) == IF TellsChange(e) THEN "file_change" ELSE e.id

AdaptEvent(acc, e) ==
    IF e.type \in {"start", "end"} THEN [steps |-> Flush(acc, e), cur |-> NoStep]
    ELSE IF e.type = "text" THEN [acc EXCEPT !.cur.said = @ \/ e.said]
    ELSE [acc EXCEPT !.cur.action = Action(e)]

AdaptAll(events) ==
    LET upto[k \in 0..Len(events)] ==
          IF k = 0 THEN [steps |-> <<>>, cur |-> NoStep]
          ELSE AdaptEvent(upto[k - 1], events[k])
    IN upto[Len(events)]

Steps == Flush(AdaptAll(trail), [type |-> "end"])

-----------------------------------------------------------------------------
(* Properties *)

(* The last snapshot holds the files at the root of the workspace ("what   *)
(* did the agent's workspace look like after each file-mutating event"),   *)
(* but for names that were written under two paths, and names whose last   *)
(* change was a command's, a failed or fenced write, an edit of several    *)
(* occurrences, or that only the replay finds at the root.                 *)
SnapshotIsWorkspace ==
    HasSnapshot =>
       \A n \in Names \ odd :
          forms[n] # {} /\ Cardinality(forms[n]) = 1 =>
             Snapshot(Replayed)[n] = files[Place(n, "abs")]

(* A turn is known by its start: the events up to the next start, the tool *)
(* calls among them, whether something happened in it, its last call.      *)
Starts == {i \in 1..Len(trail) : trail[i].type = "start"}
Within(i) == {j \in 1..Len(trail) : i < j /\ \A s \in Starts : ~(i < s /\ s <= j)}
Calls(i) == {j \in Within(i) : trail[j].type \notin {"text", "end"}}
Speaks(i) == \E j \in Within(i) : trail[j].type = "text" /\ trail[j].said
Eventful == {i \in Starts : Calls(i) # {} \/ Speaks(i)}
ActionOf(i) == IF Calls(i) = {} THEN NoAction ELSE Action(trail[Max(Calls(i))])
Rank(i) == Cardinality({j \in Eventful : j <= i})

(* Every turn in which something happened is one step, in order, with its  *)
(* last tool call as the action, a turn that was cut short, too.           *)
StepsAreTurns ==
    runtime = "mini" =>
       /\ Len(Steps) = Cardinality(Eventful)
       /\ \A i \in Eventful : Steps[Rank(i)] = ActionOf(i)
=============================================================================
