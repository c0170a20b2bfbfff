------------------------- MODULE ModelCalls_proofs --------------------------
(***************************************************************************)
(* The loop that calls a model, and the proxy between a call and the model *)
(* server: what the bookkeeping of the loop guarantees for any number of   *)
(* simulators, submissions, turns and calls, and what the proxy's cache    *)
(* and the timeouts of both sides do for any number of clients, urls and   *)
(* attempts, whatever the timeouts are.                                    *)
(***************************************************************************)
EXTENDS AgentLoop, ServingProxy, FiniteSetTheorems, TLAPS

(***************************************************************************)
(* The loop                                                                *)
(***************************************************************************)
(* Calls are made by the names the server advertised, if it advertised     *)
(* any, and the patience with an idle LLM is not spent.                    *)
NamesInv ==
    /\ \E sims \in SUBSET Sims : advertised = NamesOf(sims)
    /\ pending \in Seq(advertised \cup {Local})
    /\ stopped = "no" => nudges < NudgeLimit

(* The count of successes is at least the number of submissions reported   *)
(* as successful, and below the budget while a single loop runs.           *)
CountInv ==
    /\ IsFiniteSet(seen) /\ Cardinality(seen) <= submitsDone
    /\ stopped = "no" /\ ~IsMultiSim => submitsDone < MaxSubmits

(* What made the loop stop.                                                *)
EndInv ==
    /\ stopped = "ended" => over
    /\ ended \subseteq Bound /\ (over => ended = Bound)
    /\ stopped = "budget" => Cardinality(Bound) = 1

(* Each simulator advertises its submit tool, as the docstring of          *)
(* _is_multi_sim has it.                                                   *)
SubmitAllowed == "submit" \in Tools

LoopInv == TypeOK /\ NamesInv /\ CountInv /\ (SubmitAllowed => EndInv)

-----------------------------------------------------------------------------
(* A server that advertises a name in a session that _is_multi_sim takes   *)
(* for single has one simulator.                                           *)
LEMMA SingleHasOne ==
    ASSUME SubmitAllowed, NEW r \in Bound, Bound \subseteq Sims,
           advertised = NamesOf(Bound), ~IsMultiSim
    PROVE  Bound = {r}
<1> DEFINE submits == Ends("submit")
           N(s) == [sim |-> s, tool |-> "submit"]
<1>1. \A s \in Bound : N(s) \in submits
  BY DEF SubmitAllowed, NamesOf, Ends
<1>3. \A t \in Bound : t = r
  <2> SUFFICES ASSUME NEW t \in Bound, t # r PROVE FALSE
    OBVIOUS
  <2>1. N(r) # N(t)
    OBVIOUS
  <2>2. IsFiniteSet({N(r), N(t)}) /\ Cardinality({N(r), N(t)}) = 2
    <3>1. IsFiniteSet({N(r)}) /\ Cardinality({N(r)}) = 1 /\ N(t) \notin {N(r)}
      BY <2>1, FS_Singleton
    <3>2. {N(r)} \cup {N(t)} = {N(r), N(t)}
      OBVIOUS
    <3> HIDE DEF N
    <3>3. /\ IsFiniteSet({N(r)} \cup {N(t)})
          /\ Cardinality({N(r)} \cup {N(t)}) = 1 + 1
      BY <3>1, FS_AddElement
    <3> QED BY <3>2, <3>3
  <2>3. IsFiniteSet(submits)
    <3> DEFINE F == [n \in submits |-> n.sim]
    <3>1. F \in Injection(submits, Bound)
      BY DEF Injection, IsInjective, NamesOf, Ends
    <3>2. IsFiniteSet(Bound)
      BY LoopAssumption, FS_Subset
    <3> QED BY <3>1, <3>2, FS_Injection
  <2>4. Cardinality(submits) \in Nat /\ Cardinality(submits) >= 2
    BY <1>1, <2>2, <2>3, FS_Subset, FS_CardinalityType
  <2> QED BY <2>4 DEF IsMultiSim
<1> QED BY <1>3

(* What counting the successes of a reply does: no success is missed, and  *)
(* the budget stops a loop taken for single only.                          *)
LEMMA BookkeepEffect ==
    ASSUME TypeOK, NamesInv, CountInv, pending # <<>>, stopped = "no",
           NEW reported \in {{}} \cup {{x} : x \in Subs}, Bookkeep(reported)
    PROVE  /\ submitsDone' \in Nat /\ seen' \subseteq Subs
           /\ pending' \in Seq(advertised \cup {Local})
           /\ pending' \in Seq(AllNames \cup {Local})
           /\ stopped' \in {"no", "budget"}
           /\ stopped' = "budget" => ~IsMultiSim
           /\ IsFiniteSet(seen') /\ Cardinality(seen') <= submitsDone'
           /\ stopped' = "no" /\ ~IsMultiSim => submitsDone' < MaxSubmits
           /\ UNCHANGED <<ended, over>>
<1>1. stopped' \in {"no", "budget"} /\ UNCHANGED <<ended, over>>
  BY DEF Bookkeep
<1>2. pending' \in Seq(advertised \cup {Local})
  <2>1. Tail(pending) \in Seq(advertised \cup {Local})
    BY DEF NamesInv
  <2>2. pending' = <<>> \/ pending' = Tail(pending)
    BY DEF Bookkeep
  <2>3. <<>> \in Seq(advertised \cup {Local})
    OBVIOUS
  <2> QED BY <2>1, <2>2, <2>3
<1>0. pending' \in Seq(AllNames \cup {Local})
  <2>1. Tail(pending) \in Seq(AllNames \cup {Local})
    BY DEF TypeOK
  <2>2. pending' = <<>> \/ pending' = Tail(pending)
    BY DEF Bookkeep
  <2>3. <<>> \in Seq(AllNames \cup {Local})
    OBVIOUS
  <2> QED BY <2>1, <2>2, <2>3
<1>3. CASE reported = {}
  <2>1. Cardinality(reported) = 0
    BY <1>3, FS_EmptySet
  <2>2. submitsDone' = submitsDone /\ seen' = seen /\ stopped' = "no"
    BY <1>3, <2>1 DEF Bookkeep, TypeOK
  <2> QED BY <1>0, <1>1, <1>2, <2>2 DEF TypeOK, CountInv
<1>4. CASE reported # {}
  <2>1. PICK x \in Subs : reported = {x}
    BY <1>4
  <2>2. Cardinality(reported) = 1
    BY <2>1, FS_Singleton
  <2>3. submitsDone' = submitsDone + 1 /\ seen' = seen \cup {x}
    BY <2>1, <2>2 DEF Bookkeep
  <2>4. IsFiniteSet(seen') /\ Cardinality(seen') <= Cardinality(seen) + 1
    <3>1. IsFiniteSet(seen) /\ Cardinality(seen) \in Nat
      BY FS_CardinalityType DEF CountInv
    <3>2. /\ IsFiniteSet(seen \cup {x})
          /\ Cardinality(seen \cup {x}) =
             IF x \in seen THEN Cardinality(seen) ELSE Cardinality(seen) + 1
      BY <3>1, FS_AddElement
    <3> QED BY <3>1, <3>2, <2>3
  <2>5. Cardinality(seen') \in Nat /\ Cardinality(seen) \in Nat
    BY <2>4, FS_CardinalityType DEF CountInv
  <2>6. stopped' = "budget" => ~IsMultiSim
    BY DEF Bookkeep
  <2>7. stopped' = "no" /\ ~IsMultiSim => submitsDone' < MaxSubmits
    BY <1>4, <2>3, LoopAssumption DEF Bookkeep, TypeOK
  <2> QED BY <1>0, <1>1, <1>2, <2>3, <2>4, <2>5, <2>6, <2>7 DEF TypeOK, CountInv
<1> QED BY <1>3, <1>4

(* Every tool of every bound simulator is advertised, and no other.        *)
LEMMA NamesAreBound ==
    ASSUME NamesInv, SubmitAllowed
    PROVE  advertised = NamesOf(Bound) /\ Bound \subseteq Sims
<1>1. PICK sims \in SUBSET Sims : advertised = NamesOf(sims)
  BY DEF NamesInv
<1>2. \A s \in sims : [sim |-> s, tool |-> "submit"] \in advertised
  BY <1>1 DEF NamesOf, SubmitAllowed
<1>3. \A s \in sims : s \in Bound
  <2> SUFFICES ASSUME NEW s \in sims PROVE s \in Bound
    OBVIOUS
  <2>1. [sim |-> s, tool |-> "submit"].sim = s
    OBVIOUS
  <2> QED BY <1>2, <2>1 DEF Bound
<1>4. Bound \subseteq sims
  BY <1>1 DEF Bound, NamesOf
<1>5. Bound = sims
  BY <1>3, <1>4
<1> QED BY <1>1, <1>5

(* A call by the name of a simulator's tool shows that it is bound.        *)
LEMMA CallIsAdvertised ==
    ASSUME NamesInv, SubmitAllowed, pending # <<>>, NEW s, NEW tool,
           Head(pending) = [sim |-> s, tool |-> tool], tool # "local"
    PROVE  /\ advertised = NamesOf(Bound) /\ Bound \subseteq Sims
           /\ s \in Bound /\ [sim |-> s, tool |-> tool] \in advertised
<1>1. Head(pending) \in advertised \cup {Local}
  BY DEF NamesInv
<1>2. Head(pending) # Local
  BY DEF Local
<1>3. [sim |-> s, tool |-> tool] \in advertised
  BY <1>1, <1>2
<1>4. s \in Bound
  <2>1. [sim |-> s, tool |-> tool].sim = s
    OBVIOUS
  <2> QED BY <1>3, <2>1 DEF Bound
<1> QED BY <1>3, <1>4, NamesAreBound

(* The session keeps its simulators.                                       *)
LEMMA BoundStays == [Next]_vars => Bound' = Bound
<1> SUFFICES ASSUME [Next]_vars PROVE advertised' = advertised
  BY DEF Bound
<1> QED
  BY DEF Next, LoopStep, LoopEnds, LlmFails, NoChoices, TextOnly, ToolCalls,
     BeginTurn, LocalCall, CallSubmit, CallSubmitAndWait, CallCheckSubmission,
     CallSessionEnd, CallMade, SubmissionEnds, DeadlinePasses, vars

(* The invariant holds when the loop starts.                               *)
LEMMA LoopInitInv == Init => LoopInv
<1> SUFFICES ASSUME Init PROVE LoopInv
  OBVIOUS
<1>1. TypeOK
  <2>1. <<>> \in Seq(AllNames \cup {Local})
    OBVIOUS
  <2>2. 0 \in 0..MaxTurns /\ 0 \in 0..NudgeLimit
    BY LoopAssumption
  <2>3. over \in BOOLEAN /\ late \in BOOLEAN
    BY DEF Init
  <2>4. sub \in [Subs -> [sim : Sims \cup {NoSim},
                       state : {"none", "running", "ok", "failed"}]]
    BY DEF Init, NoSub
  <2>5. advertised \subseteq AllNames
    BY DEF Init, NamesOf, AllNames
  <2> QED BY <2>1, <2>2, <2>3, <2>4, <2>5 DEF Init, TypeOK, Reasons
<1>2. NamesInv
  <2>1. <<>> \in Seq(advertised \cup {Local})
    OBVIOUS
  <2>2. NudgeLimit \in Nat \ {0}
    BY LoopAssumption
  <2> QED BY <2>1, <2>2 DEF Init, NamesInv
<1>3. CountInv
  BY LoopAssumption, FS_EmptySet DEF Init, CountInv
<1>4. EndInv
  BY DEF Init, EndInv
<1> QED BY <1>1, <1>2, <1>3, <1>4 DEF LoopInv

(* Every action keeps the variables in their types.                        *)
LEMMA TypeStep ==
    TypeOK /\ NamesInv /\ CountInv /\ [Next]_vars => TypeOK'
<1> SUFFICES ASSUME TypeOK, NamesInv, CountInv, [Next]_vars
             PROVE  TypeOK'
  OBVIOUS
<1> USE LoopAssumption DEF TypeOK, NamesInv, loopVars, Reasons, NoSub,
    AllNames, Local
<1>1. ASSUME LoopEnds PROVE TypeOK'
  BY <1>1 DEF LoopEnds, StopBecause
<1>2. ASSUME LlmFails PROVE TypeOK'
  BY <1>2 DEF LlmFails, BeginTurn
<1>3. ASSUME NoChoices PROVE TypeOK'
  BY <1>3 DEF NoChoices, BeginTurn
<1>4. ASSUME TextOnly PROVE TypeOK'
  BY <1>4 DEF TextOnly, BeginTurn
<1>5. ASSUME ToolCalls PROVE TypeOK'
  BY <1>5 DEF ToolCalls, BeginTurn
<1>6. ASSUME LocalCall PROVE TypeOK'
  BY <1>6 DEF LocalCall, CallMade
<1>7. ASSUME NEW s \in Sims, CallSubmit(s) PROVE TypeOK'
  <2>0. pending # <<>> /\ stopped = "no" /\ UNCHANGED <<advertised, turn, nudges, late>>
    BY <1>7 DEF CallSubmit, CallMade
  <2>1. PICK reported \in {{}} \cup {{x} : x \in Subs} : Bookkeep(reported)
    BY <1>7 DEF CallSubmit, CallMade
  <2>2. sub' \in [Subs -> [sim : Sims \cup {NoSim},
                           state : {"none", "running", "ok", "failed"}]]
    BY <1>7 DEF CallSubmit, CallMade
  <2> QED BY <2>0, <2>1, <2>2, BookkeepEffect
<1>8. ASSUME NEW s \in Sims, CallSubmitAndWait(s) PROVE TypeOK'
  <2>0. pending # <<>> /\ stopped = "no" /\ UNCHANGED <<advertised, turn, nudges, late>>
    BY <1>8 DEF CallSubmitAndWait, CallMade
  <2>1. PICK reported \in {{}} \cup {{x} : x \in Subs} : Bookkeep(reported)
    BY <1>8 DEF CallSubmitAndWait, CallMade
  <2>2. sub' \in [Subs -> [sim : Sims \cup {NoSim},
                           state : {"none", "running", "ok", "failed"}]]
    <3>1. CASE UNCHANGED sub
      BY <3>1
    <3>2. CASE sub' # sub
      <4>1. PICK y \in Subs, outcome \in {"running", "ok", "failed"} :
                   sub' = [sub EXCEPT ![y] = [sim |-> s, state |-> outcome]]
        BY <1>8, <3>2 DEF CallSubmitAndWait
      <4>2. [sim |-> s, state |-> outcome] \in
              [sim : Sims \cup {NoSim},
               state : {"none", "running", "ok", "failed"}]
        OBVIOUS
      <4> QED BY <4>1, <4>2
    <3> QED BY <3>1, <3>2
  <2> QED BY <2>0, <2>1, <2>2, BookkeepEffect
<1>9. ASSUME NEW s \in Sims, CallCheckSubmission(s) PROVE TypeOK'
  <2>0. pending # <<>> /\ stopped = "no" /\ UNCHANGED <<advertised, turn, nudges, late>>
    BY <1>9 DEF CallCheckSubmission, CallMade
  <2>1. PICK reported \in {{}} \cup {{x} : x \in Subs} : Bookkeep(reported)
    BY <1>9 DEF CallCheckSubmission, CallMade, SubsOf
  <2>2. sub' \in [Subs -> [sim : Sims \cup {NoSim},
                           state : {"none", "running", "ok", "failed"}]]
    BY <1>9 DEF CallCheckSubmission, CallMade, SubsOf
  <2> QED BY <2>0, <2>1, <2>2, BookkeepEffect
<1>10. ASSUME NEW s \in Sims, CallSessionEnd(s) PROVE TypeOK'
  BY <1>10 DEF CallSessionEnd, CallMade
<1>11. ASSUME NEW x \in Subs, SubmissionEnds(x) PROVE TypeOK'
  <2>1. sub' \in [Subs -> [sim : Sims \cup {NoSim},
                           state : {"none", "running", "ok", "failed"}]]
    BY <1>11 DEF SubmissionEnds
  <2>2. UNCHANGED <<advertised, loopVars, late, seen>>
    BY <1>11 DEF SubmissionEnds
  <2> QED BY <2>1, <2>2
<1>12. ASSUME DeadlinePasses PROVE TypeOK'
  BY <1>12 DEF DeadlinePasses
<1>13. CASE UNCHANGED vars
  BY <1>13 DEF vars
<1> QED
  BY <1>1, <1>2, <1>3, <1>4, <1>5, <1>6, <1>7, <1>8, <1>9, <1>10, <1>11,
      <1>12, <1>13 DEF Next, LoopStep

(* Every action keeps the calls to advertised names.                       *)
LEMMA NamesStep ==
    TypeOK /\ NamesInv /\ CountInv /\ [Next]_vars => NamesInv'
<1> SUFFICES ASSUME TypeOK, NamesInv, CountInv, [Next]_vars
             PROVE  NamesInv'
  OBVIOUS
<1> USE LoopAssumption DEF TypeOK, NamesInv, loopVars
<1>1. ASSUME LoopEnds PROVE NamesInv'
  BY <1>1 DEF LoopEnds, StopBecause
<1>2. ASSUME LlmFails PROVE NamesInv'
  BY <1>2 DEF LlmFails, BeginTurn
<1>3. ASSUME NoChoices PROVE NamesInv'
  BY <1>3 DEF NoChoices, BeginTurn
<1>4. ASSUME TextOnly PROVE NamesInv'
  BY <1>4 DEF TextOnly, BeginTurn
<1>5. ASSUME ToolCalls PROVE NamesInv'
  BY <1>5 DEF ToolCalls, BeginTurn
<1>6. ASSUME LocalCall PROVE NamesInv'
  BY <1>6 DEF LocalCall, CallMade
<1>7. ASSUME NEW s \in Sims, CallSubmit(s) PROVE NamesInv'
  <2>0. pending # <<>> /\ stopped = "no" /\ UNCHANGED <<advertised, turn, nudges, late>>
    BY <1>7 DEF CallSubmit, CallMade
  <2>1. PICK reported \in {{}} \cup {{x} : x \in Subs} : Bookkeep(reported)
    BY <1>7 DEF CallSubmit, CallMade
  <2> QED BY <2>0, <2>1, BookkeepEffect
<1>8. ASSUME NEW s \in Sims, CallSubmitAndWait(s) PROVE NamesInv'
  <2>0. pending # <<>> /\ stopped = "no" /\ UNCHANGED <<advertised, turn, nudges, late>>
    BY <1>8 DEF CallSubmitAndWait, CallMade
  <2>1. PICK reported \in {{}} \cup {{x} : x \in Subs} : Bookkeep(reported)
    BY <1>8 DEF CallSubmitAndWait, CallMade
  <2> QED BY <2>0, <2>1, BookkeepEffect
<1>9. ASSUME NEW s \in Sims, CallCheckSubmission(s) PROVE NamesInv'
  <2>0. pending # <<>> /\ stopped = "no" /\ UNCHANGED <<advertised, turn, nudges, late>>
    BY <1>9 DEF CallCheckSubmission, CallMade
  <2>1. PICK reported \in {{}} \cup {{x} : x \in Subs} : Bookkeep(reported)
    BY <1>9 DEF CallCheckSubmission, CallMade, SubsOf
  <2> QED BY <2>0, <2>1, BookkeepEffect
<1>10. ASSUME NEW s \in Sims, CallSessionEnd(s) PROVE NamesInv'
  BY <1>10 DEF CallSessionEnd, CallMade
<1>11. ASSUME NEW x \in Subs, SubmissionEnds(x) PROVE NamesInv'
  BY <1>11 DEF SubmissionEnds
<1>12. ASSUME DeadlinePasses PROVE NamesInv'
  BY <1>12 DEF DeadlinePasses
<1>13. CASE UNCHANGED vars
  BY <1>13 DEF vars
<1> QED
  BY <1>1, <1>2, <1>3, <1>4, <1>5, <1>6, <1>7, <1>8, <1>9, <1>10, <1>11,
      <1>12, <1>13 DEF Next, LoopStep

(* Every action keeps the count and the budget in step.                    *)
LEMMA CountStep ==
    TypeOK /\ NamesInv /\ CountInv /\ [Next]_vars => CountInv'
<1> SUFFICES ASSUME TypeOK, NamesInv, CountInv, [Next]_vars
             PROVE  CountInv'
  OBVIOUS
<1> USE LoopAssumption DEF TypeOK, CountInv, loopVars, IsMultiSim, Ends
<1>1. ASSUME LoopEnds PROVE CountInv'
  BY <1>1 DEF LoopEnds, StopBecause
<1>2. ASSUME LlmFails PROVE CountInv'
  BY <1>2 DEF LlmFails, BeginTurn
<1>3. ASSUME NoChoices PROVE CountInv'
  BY <1>3 DEF NoChoices, BeginTurn
<1>4. ASSUME TextOnly PROVE CountInv'
  BY <1>4 DEF TextOnly, BeginTurn
<1>5. ASSUME ToolCalls PROVE CountInv'
  BY <1>5 DEF ToolCalls, BeginTurn
<1>6. ASSUME LocalCall PROVE CountInv'
  BY <1>6 DEF LocalCall, CallMade
<1>7. ASSUME NEW s \in Sims, CallSubmit(s) PROVE CountInv'
  <2>0. pending # <<>> /\ stopped = "no" /\ UNCHANGED <<advertised, turn, nudges, late>>
    BY <1>7 DEF CallSubmit, CallMade
  <2>1. PICK reported \in {{}} \cup {{x} : x \in Subs} : Bookkeep(reported)
    BY <1>7 DEF CallSubmit, CallMade
  <2>2. IsMultiSim' = IsMultiSim
    BY <2>0 DEF IsMultiSim, Ends
  <2> QED BY <2>0, <2>1, <2>2, BookkeepEffect
<1>8. ASSUME NEW s \in Sims, CallSubmitAndWait(s) PROVE CountInv'
  <2>0. pending # <<>> /\ stopped = "no" /\ UNCHANGED <<advertised, turn, nudges, late>>
    BY <1>8 DEF CallSubmitAndWait, CallMade
  <2>1. PICK reported \in {{}} \cup {{x} : x \in Subs} : Bookkeep(reported)
    BY <1>8 DEF CallSubmitAndWait, CallMade
  <2>2. IsMultiSim' = IsMultiSim
    BY <2>0 DEF IsMultiSim, Ends
  <2> QED BY <2>0, <2>1, <2>2, BookkeepEffect
<1>9. ASSUME NEW s \in Sims, CallCheckSubmission(s) PROVE CountInv'
  <2>0. pending # <<>> /\ stopped = "no" /\ UNCHANGED <<advertised, turn, nudges, late>>
    BY <1>9 DEF CallCheckSubmission, CallMade
  <2>1. PICK reported \in {{}} \cup {{x} : x \in Subs} : Bookkeep(reported)
    BY <1>9 DEF CallCheckSubmission, CallMade, SubsOf
  <2>2. IsMultiSim' = IsMultiSim
    BY <2>0 DEF IsMultiSim, Ends
  <2> QED BY <2>0, <2>1, <2>2, BookkeepEffect
<1>10. ASSUME NEW s \in Sims, CallSessionEnd(s) PROVE CountInv'
  BY <1>10 DEF CallSessionEnd, CallMade
<1>11. ASSUME NEW x \in Subs, SubmissionEnds(x) PROVE CountInv'
  BY <1>11 DEF SubmissionEnds
<1>12. ASSUME DeadlinePasses PROVE CountInv'
  BY <1>12 DEF DeadlinePasses
<1>13. CASE UNCHANGED vars
  BY <1>13 DEF vars
<1> QED
  BY <1>1, <1>2, <1>3, <1>4, <1>5, <1>6, <1>7, <1>8, <1>9, <1>10, <1>11,
      <1>12, <1>13 DEF Next, LoopStep

(* Every action keeps the reasons to stop justified.                       *)
LEMMA EndStep ==
    TypeOK /\ NamesInv /\ CountInv /\ SubmitAllowed /\ EndInv /\ [Next]_vars => EndInv'
<1> SUFFICES ASSUME TypeOK, NamesInv, CountInv, SubmitAllowed, EndInv, [Next]_vars
             PROVE  EndInv'
  OBVIOUS
<1> USE LoopAssumption DEF TypeOK, NamesInv, EndInv, loopVars
<1>0. Bound' = Bound
  BY BoundStays
<1>1. ASSUME LoopEnds PROVE EndInv'
  BY <1>0, <1>1 DEF LoopEnds, StopBecause
<1>2. ASSUME LlmFails PROVE EndInv'
  BY <1>0, <1>2 DEF LlmFails, BeginTurn
<1>3. ASSUME NoChoices PROVE EndInv'
  BY <1>0, <1>3 DEF NoChoices, BeginTurn
<1>4. ASSUME TextOnly PROVE EndInv'
  BY <1>0, <1>4 DEF TextOnly, BeginTurn
<1>5. ASSUME ToolCalls PROVE EndInv'
  BY <1>0, <1>5 DEF ToolCalls, BeginTurn
<1>6. ASSUME LocalCall PROVE EndInv'
  BY <1>0, <1>6 DEF LocalCall, CallMade
<1>7. ASSUME NEW s \in Sims, CallSubmit(s) PROVE EndInv'
  <2>0. pending # <<>> /\ stopped = "no" /\ UNCHANGED <<advertised, turn, nudges, late>>
    BY <1>7 DEF CallSubmit, CallMade
  <2>1. PICK reported \in {{}} \cup {{x} : x \in Subs} : Bookkeep(reported)
    BY <1>7 DEF CallSubmit, CallMade
  <2>2. stopped' \in {"no", "budget"} /\ UNCHANGED <<ended, over>>
    BY <2>0, <2>1, BookkeepEffect
  <2>3. stopped' = "budget" => Cardinality(Bound) = 1
    <3>1. /\ advertised = NamesOf(Bound) /\ Bound \subseteq Sims
          /\ s \in Bound
      BY <1>7, CallIsAdvertised DEF CallSubmit, CallMade
    <3>2. stopped' = "budget" => ~IsMultiSim
      BY <2>0, <2>1, BookkeepEffect
    <3> QED BY <3>1, <3>2, SingleHasOne, FS_Singleton
  <2> QED BY <1>0, <2>2, <2>3
<1>8. ASSUME NEW s \in Sims, CallSubmitAndWait(s) PROVE EndInv'
  <2>0. pending # <<>> /\ stopped = "no" /\ UNCHANGED <<advertised, turn, nudges, late>>
    BY <1>8 DEF CallSubmitAndWait, CallMade
  <2>1. PICK reported \in {{}} \cup {{x} : x \in Subs} : Bookkeep(reported)
    BY <1>8 DEF CallSubmitAndWait, CallMade
  <2>2. stopped' \in {"no", "budget"} /\ UNCHANGED <<ended, over>>
    BY <2>0, <2>1, BookkeepEffect
  <2>3. stopped' = "budget" => Cardinality(Bound) = 1
    <3>1. /\ advertised = NamesOf(Bound) /\ Bound \subseteq Sims
          /\ s \in Bound
      BY <1>8, CallIsAdvertised DEF CallSubmitAndWait, CallMade
    <3>2. stopped' = "budget" => ~IsMultiSim
      BY <2>0, <2>1, BookkeepEffect
    <3> QED BY <3>1, <3>2, SingleHasOne, FS_Singleton
  <2> QED BY <1>0, <2>2, <2>3
<1>9. ASSUME NEW s \in Sims, CallCheckSubmission(s) PROVE EndInv'
  <2>0. pending # <<>> /\ stopped = "no" /\ UNCHANGED <<advertised, turn, nudges, late>>
    BY <1>9 DEF CallCheckSubmission, CallMade
  <2>1. PICK reported \in {{}} \cup {{x} : x \in Subs} : Bookkeep(reported)
    BY <1>9 DEF CallCheckSubmission, CallMade, SubsOf
  <2>2. stopped' \in {"no", "budget"} /\ UNCHANGED <<ended, over>>
    BY <2>0, <2>1, BookkeepEffect
  <2>3. stopped' = "budget" => Cardinality(Bound) = 1
    <3>1. /\ advertised = NamesOf(Bound) /\ Bound \subseteq Sims
          /\ s \in Bound
      BY <1>9, CallIsAdvertised DEF CallCheckSubmission, CallMade, SubsOf
    <3>2. stopped' = "budget" => ~IsMultiSim
      BY <2>0, <2>1, BookkeepEffect
    <3> QED BY <3>1, <3>2, SingleHasOne, FS_Singleton
  <2> QED BY <1>0, <2>2, <2>3
<1>10. ASSUME NEW s \in Sims, CallSessionEnd(s) PROVE EndInv'
  <2>1. /\ advertised = NamesOf(Bound) /\ Bound \subseteq Sims
        /\ s \in Bound /\ [sim |-> s, tool |-> "session_end"] \in advertised
    BY <1>10, CallIsAdvertised DEF CallSessionEnd, CallMade
  <2>2. /\ ended' = ended \cup {s} /\ over' = (over \/ EndsLoop(s))
        /\ stopped' = stopped /\ stopped = "no"
    BY <1>10 DEF CallSessionEnd, CallMade
  <2>3. CASE EndsLoop(s)
    <3>1. CASE ~IsMultiSim
      <4>1. Bound = {s}
        BY <2>1, <3>1, SingleHasOne
      <4> QED BY <1>0, <2>2, <4>1 DEF TypeOK
    <3>2. CASE IsMultiSim
      <4>1. {n.sim : n \in Ends("session_end")} \subseteq ended \cup {s}
        BY <2>3, <3>2 DEF EndsLoop
      <4>2. \A z \in Bound : [sim |-> z, tool |-> "session_end"]
                               \in Ends("session_end")
        BY <2>1 DEF NamesOf, Ends
      <4>3. Bound \subseteq ended \cup {s}
        <5> SUFFICES ASSUME NEW z \in Bound PROVE z \in ended \cup {s}
          OBVIOUS
        <5>1. [sim |-> z, tool |-> "session_end"].sim
                \in {n.sim : n \in Ends("session_end")}
          BY <4>2
        <5> QED BY <4>1, <5>1
      <4> QED BY <1>0, <2>1, <2>2, <4>3 DEF TypeOK
    <3> QED BY <3>1, <3>2
  <2>4. CASE ~EndsLoop(s)
    BY <1>0, <2>1, <2>2, <2>4 DEF TypeOK
  <2> QED BY <2>3, <2>4
<1>11. ASSUME NEW x \in Subs, SubmissionEnds(x) PROVE EndInv'
  BY <1>0, <1>11 DEF SubmissionEnds
<1>12. ASSUME DeadlinePasses PROVE EndInv'
  BY <1>0, <1>12 DEF DeadlinePasses
<1>13. CASE UNCHANGED vars
  BY <1>0, <1>13 DEF vars
<1> QED
  BY <1>1, <1>2, <1>3, <1>4, <1>5, <1>6, <1>7, <1>8, <1>9, <1>10, <1>11,
      <1>12, <1>13 DEF Next, LoopStep

-----------------------------------------------------------------------------
(* The invariant holds in every reachable state.                           *)
THEOREM Invariance == Spec => []LoopInv
<1>1. LoopInv /\ [Next]_vars => LoopInv'
  BY TypeStep, NamesStep, CountStep, EndStep DEF LoopInv, SubmitAllowed
<1> QED BY LoopInitInv, <1>1, PTL DEF Spec

(* The variables of the loop keep to their types.                          *)
THEOREM TypeCorrect == Spec => []TypeOK
<1>1. LoopInv => TypeOK
  BY DEF LoopInv
<1> QED BY Invariance, <1>1, PTL

(* The loop of a single simulator never goes on once max_submits           *)
(* successes have been reported to the agent.                              *)
THEOREM BudgetStops == Spec => []SpentStops
<1>1. LoopInv => SpentStops
  BY FS_CardinalityType, LoopAssumption DEF LoopInv, CountInv, TypeOK, SpentStops
<1> QED BY Invariance, <1>1, PTL

(* In every tier with the submit tool, a loop that the agent ended has     *)
(* ended every simulator's session.                                        *)
THEOREM EndIsComplete == Spec => [](SubmitAllowed => EndCoversSims)
<1>1. LoopInv => (SubmitAllowed => EndCoversSims)
  BY DEF LoopInv, EndInv, EndCoversSims
<1> QED BY Invariance, <1>1, PTL

(* In every tier with the submit tool, no loop of several simulators is    *)
(* cut short by the joint count of successes.                              *)
THEOREM NoJointBudget == Spec => [](SubmitAllowed => BudgetStopsOnlySingle)
<1>1. LoopInv => (SubmitAllowed => BudgetStopsOnlySingle)
  BY DEF LoopInv, EndInv, BudgetStopsOnlySingle
<1> QED BY Invariance, <1>1, PTL

(* In every tier with the submit tool, neither the joint count nor one     *)
(* session_end stops the loop of several simulators.                       *)
THEOREM LoopServesAll == Spec => [](SubmitAllowed => SeveralSims)
<1>1. LoopInv => (SubmitAllowed => SeveralSims)
  BY DEF LoopInv, EndInv, EndCoversSims, BudgetStopsOnlySingle, SeveralSims
<1> QED BY Invariance, <1>1, PTL

-----------------------------------------------------------------------------
(***************************************************************************)
(* The proxy                                                               *)
(***************************************************************************)
CallStates ==
    [state : {"idle", "waiting", "backoff", "done", "raised"}, attempt : Nat,
     waited : 0..ClientTimeout, route : Routes, stream : BOOLEAN]
ReqStates == [phase : {"none", "received", "upstream", "streaming"}, wait : Waiting]
Times == 0..Longest

ProxyTypes ==
    /\ file \in [url : Contents, fresh : BOOLEAN, tied : BOOLEAN]
    /\ gone \in [Urls -> 0..Ttl]
    /\ cache \in [url : Urls \cup {NoUrl}, age : 0..Ttl, match : BOOLEAN]
    /\ reading \in Clients \cup {NoClient}
    /\ call \in [Clients -> CallStates]
    /\ req \in [Clients -> ReqStates]
    /\ left \in [Clients -> [Waiting -> Nat]]

(* A url the cache may still answer with is the file's, or was replaced,   *)
(* by a file of the same mtime, no longer ago than it was read.            *)
CacheIsRecent ==
    cache.match /\ cache.url \in Urls =>
        \/ cache.url = file.url
        \/ file.tied /\ gone[cache.url] <= cache.age

(* A request the proxy has not looked at, or reads the file for, waits no  *)
(* time; an open one has been open as long as its client has waited.       *)
RestsWait ==
    \A c \in Clients :
        /\ req[c].phase = "received" =>
              call[c].state = "waiting" /\ call[c].waited = 0
        /\ req[c].phase = "upstream" => Most(req[c].wait) + call[c].waited <= Longest
        /\ reading = c => req[c].phase = "received"

(* The requests that were given up began a client's timeout apart: of      *)
(* those that may last for r, the last but n has n timeouts less.          *)
Spaced ==
    \A c \in Clients, r \in Times :
        OpenFrom(left[c], r) # {} =>
            r + Cardinality(OpenFrom(left[c], r)) * ClientTimeout
              + call[c].waited <= Longest

Finite == \A c \in Clients, r \in Times : IsFiniteSet(OpenFrom(left[c], r))

ProxyInv == ProxyTypes /\ CacheIsRecent /\ RestsWait /\ Spaced /\ Finite

LEMMA SpanTypes ==
    /\ MaxSpan \in Nat \ {0} /\ Waits \in Nat \ {0}
    /\ \A span \in Spans : span \in Nat \ {0} /\ span <= MaxSpan
    /\ \A route \in Routes : RouteTimeout(route) \in Spans
    /\ UpstreamTimeout \in Spans
BY ProxyAssumption DEF MaxSpan, Spans, RouteTimeout

(* A product of natural numbers grows with either.                         *)
LEMMA Grows ==
    ASSUME NEW a \in Nat, NEW b \in Nat, NEW n \in Nat, a <= b
    PROVE  a * n \in Nat /\ a * n <= b * n /\ n * a <= n * b
<1>1. PICK k \in Nat : b = a + k
  <2>1. b - a \in Nat /\ b = a + (b - a)
    OBVIOUS
  <2> QED BY <2>1
<1>2. /\ a * n \in Nat /\ k * n \in Nat /\ b * n = a * n + k * n
      /\ n * a \in Nat /\ n * k \in Nat /\ n * b = n * a + n * k
  BY <1>1
<1> QED BY <1>2

LEMMA ConstantTypes ==
    /\ Longest \in Nat \ {0} /\ Times = 0..Longest /\ 0 \in Times
    /\ ClientTimeout \in Nat \ {0} /\ Ttl \in Nat \ {0}
    /\ Idle \in CallStates /\ NoReq \in ReqStates
<1>1. Longest \in Nat \ {0}
  <2>1. Longest = Waits * MaxSpan /\ 1 * MaxSpan <= Waits * MaxSpan
    BY SpanTypes, Grows DEF Longest
  <2>2. Waits * MaxSpan \in Nat /\ 1 * MaxSpan = MaxSpan
    BY SpanTypes
  <2> QED BY <2>1, <2>2, SpanTypes
<1>2. Begin(UpstreamTimeout) \in Waiting
  BY SpanTypes DEF Begin, Waiting
<1> QED BY <1>1, <1>2, ProxyAssumption
        DEF Times, Idle, NoReq, CallStates, ReqStates, Routes

(* How long a request may stay open, and how that goes down: by one in a   *)
(* tick, by what was left of a wait that ended.                            *)
LEMMA MostTypes == \A w \in Waiting : Most(w) \in Times
<1> SUFFICES ASSUME NEW w \in Waiting PROVE Most(w) \in Nat /\ Most(w) <= Longest
  BY DEF Times
<1>1. /\ w.more \in Nat /\ w.more <= Waits - 1 /\ Waits - 1 \in Nat
      /\ w.rest \in Nat /\ w.rest <= MaxSpan /\ w.span \in Nat /\ w.span <= MaxSpan
  BY SpanTypes DEF Waiting
<1>2. /\ w.more * w.span \in Nat /\ w.more * w.span <= (Waits - 1) * w.span
      /\ (Waits - 1) * w.span \in Nat
      /\ (Waits - 1) * w.span <= (Waits - 1) * MaxSpan
      /\ (Waits - 1) * MaxSpan \in Nat
  BY <1>1, SpanTypes, Grows
<1>3. Longest = (Waits - 1) * MaxSpan + MaxSpan
  BY SpanTypes DEF Longest
<1> QED BY <1>1, <1>2, <1>3, SpanTypes DEF Most

LEMMA Begins ==
    ASSUME NEW span \in Spans PROVE Begin(span) \in Waiting
BY SpanTypes DEF Begin, Waiting

LEMMA Advances ==
    ASSUME NEW w \in Waiting, w.more > 0
    PROVE  Advance(w) \in Waiting /\ Most(Advance(w)) <= Most(w)
<1>1. /\ w.more \in Nat /\ w.more - 1 \in 0..(Waits - 1) /\ w.rest \in Nat
      /\ w.span \in Spans /\ w.span \in 0..MaxSpan /\ w.span \in Nat
  BY SpanTypes DEF Waiting
<1>2. /\ Advance(w) \in Waiting /\ Advance(w).more = w.more - 1
      /\ Advance(w).rest = w.span /\ Advance(w).span = w.span
  BY <1>1 DEF Advance, Waiting
<1>3. (w.more - 1) * w.span + w.span = w.more * w.span /\ w.more * w.span \in Nat
  BY <1>1
<1> QED BY <1>1, <1>2, <1>3 DEF Most

Earlier(w) == [w EXCEPT !.rest = @ + 1]
Later(w) == [w EXCEPT !.rest = @ - 1]

LEMMA OneEarlier ==
    ASSUME NEW w \in Waiting, w.rest < MaxSpan
    PROVE  /\ Earlier(w) \in Waiting /\ Most(Earlier(w)) = Most(w) + 1
           /\ Earlier(w).rest > 0 /\ Later(Earlier(w)) = w
<1>1. w.rest \in Nat /\ w.rest + 1 \in 0..MaxSpan
  BY SpanTypes DEF Waiting
<1>2. /\ Earlier(w) \in Waiting /\ Earlier(w).rest = w.rest + 1
      /\ Earlier(w).more = w.more /\ Earlier(w).span = w.span
      /\ Earlier(w) = [w EXCEPT !.rest = w.rest + 1]
  BY <1>1 DEF Earlier, Waiting
<1>3. Later(Earlier(w)) = w
  <2>1. Later(Earlier(w)) = [w EXCEPT !.rest = (w.rest + 1) - 1]
    BY <1>2 DEF Later, Waiting
  <2>2. (w.rest + 1) - 1 = w.rest
    BY <1>1
  <2> QED BY <2>1, <2>2 DEF Waiting
<1>4. w.more * w.span \in Nat
  BY SpanTypes DEF Waiting
<1> QED BY <1>1, <1>2, <1>3, <1>4 DEF Most

LEMMA OneLater ==
    ASSUME NEW w \in Waiting, w.rest > 0
    PROVE  /\ Later(w) \in Waiting /\ Later(w).rest < MaxSpan
           /\ Most(Later(w)) = Most(w) - 1 /\ Earlier(Later(w)) = w
<1>1. w.rest \in Nat /\ w.rest - 1 \in 0..MaxSpan /\ w.rest - 1 < MaxSpan
  BY SpanTypes DEF Waiting
<1>2. /\ Later(w) \in Waiting /\ Later(w).rest = w.rest - 1
      /\ Later(w).more = w.more /\ Later(w).span = w.span
      /\ Later(w) = [w EXCEPT !.rest = w.rest - 1]
  BY <1>1 DEF Later, Waiting
<1>3. Earlier(Later(w)) = w
  <2>1. Earlier(Later(w)) = [w EXCEPT !.rest = (w.rest - 1) + 1]
    BY <1>2 DEF Earlier, Waiting
  <2>2. (w.rest - 1) + 1 = w.rest
    BY <1>1
  <2> QED BY <2>1, <2>2 DEF Waiting
<1>4. w.more * w.span \in Nat
  BY SpanTypes DEF Waiting
<1> QED BY <1>1, <1>2, <1>3, <1>4 DEF Most

LEMMA OlderType ==
    ASSUME NEW bound \in Nat, NEW n \in 0..bound
    PROVE  Older(n, bound) \in 0..bound /\ n <= Older(n, bound)
           /\ Older(n, bound) <= n + 1
BY DEF Older

-----------------------------------------------------------------------------
(* The types of what the steps put together *)

LEMMA PostTypes ==
    ASSUME ProxyTypes, NEW c \in Clients, NEW k \in CallStates, Post(c, k)
    PROVE  ProxyTypes'
<1>1. [k EXCEPT !.state = "waiting", !.waited = 0, !.attempt = @ + 1] \in CallStates
  <2>1. k.attempt + 1 \in Nat /\ 0 \in 0..ClientTimeout
    BY ConstantTypes DEF CallStates
  <2> QED BY <2>1 DEF CallStates
<1>2. [NoReq EXCEPT !.phase = "received"] \in ReqStates
  BY ConstantTypes DEF ReqStates
<1> QED BY <1>1, <1>2 DEF ProxyTypes, Post, fileVars, cacheVars

LEMMA FailedType ==
    ASSUME NEW k \in CallStates
    PROVE  Failed(k) \in CallStates /\ Failed(k).waited = 0
<1>1. 0 \in 0..ClientTimeout
  BY ConstantTypes
<1>2. /\ [k EXCEPT !.state = "backoff", !.waited = 0] \in CallStates
      /\ [k EXCEPT !.state = "backoff", !.waited = 0].waited = 0
  BY <1>1 DEF CallStates
<1>3. [Idle EXCEPT !.state = "raised"] \in CallStates
      /\ [Idle EXCEPT !.state = "raised"].waited = 0
  BY ConstantTypes DEF Idle, CallStates
<1> QED BY <1>2, <1>3 DEF Failed

(* An answer ends the attempt and leaves no wait behind.                   *)
LEMMA AnswerTypes ==
    ASSUME ProxyTypes, NEW c \in Clients, NEW ok \in BOOLEAN, Answer(c, ok)
    PROVE  /\ call' \in [Clients -> CallStates] /\ call'[c].waited = 0
           /\ req' = [req EXCEPT ![c] = NoReq]
           /\ req' \in [Clients -> ReqStates]
           /\ \A d \in Clients \ {c} : call'[d] = call[d]
<1>1. call[c] \in CallStates
  BY DEF ProxyTypes
<1>2. PICK k \in CallStates : k.waited = 0 /\ call' = [call EXCEPT ![c] = k]
  <2>1. [Idle EXCEPT !.state = "done"] \in CallStates
        /\ [Idle EXCEPT !.state = "done"].waited = 0
        /\ [Idle EXCEPT !.state = "raised"] \in CallStates
        /\ [Idle EXCEPT !.state = "raised"].waited = 0
    BY ConstantTypes DEF Idle, CallStates
  <2> QED BY <2>1, <1>1, FailedType DEF Answer
<1>3. /\ req' = [req EXCEPT ![c] = NoReq]
      /\ req' \in [Clients -> ReqStates]
  BY ConstantTypes DEF ProxyTypes, Answer
<1>4. /\ call' \in [Clients -> CallStates] /\ call'[c].waited = 0
      /\ \A d \in Clients \ {c} : call'[d] = call[d]
  BY <1>2 DEF ProxyTypes
<1> QED BY <1>3, <1>4

LEMMA ForwardTypes ==
    ASSUME ProxyTypes, NEW c \in Clients, Forward(c)
    PROVE  /\ call' = call /\ req' \in [Clients -> ReqStates]
           /\ req'[c].phase \in {"upstream", "streaming"}
           /\ req'[c].wait \in Waiting
           /\ \A d \in Clients \ {c} : req'[d] = req[d]
<1>1. Begin(RouteTimeout(call[c].route)) \in Waiting
  BY SpanTypes, Begins DEF ProxyTypes, CallStates
<1> QED BY <1>1 DEF ProxyTypes, Forward, ReqStates

-----------------------------------------------------------------------------
(* The requests that are still open *)

LEMMA OpenMembers ==
    ASSUME NEW counts \in [Waiting -> Nat], NEW r \in Times
    PROVE  \A x : x \in OpenFrom(counts, r) <=>
                    \E w \in Waiting, n \in Nat \ {0} :
                        x = <<w, n>> /\ r <= Most(w) /\ n <= counts[w]
<1>0. r \in Nat /\ \A w \in Waiting : Most(w) \in Nat
  BY ConstantTypes, MostTypes
<1>1. ASSUME NEW x \in OpenFrom(counts, r)
      PROVE  \E w \in Waiting, n \in Nat \ {0} :
                 x = <<w, n>> /\ r <= Most(w) /\ n <= counts[w]
  <2>1. PICK w \in {v \in Waiting : Most(v) >= r} : x \in {w} \X (1..counts[w])
    BY DEF OpenFrom
  <2>2. PICK n \in 1..counts[w] : x = <<w, n>>
    BY <2>1
  <2>3. w \in Waiting /\ r <= Most(w) /\ counts[w] \in Nat
    BY <1>0, <2>1
  <2>4. n \in Nat \ {0} /\ n <= counts[w]
    BY <2>2, <2>3
  <2> QED BY <2>2, <2>3, <2>4
<1>2. ASSUME NEW w \in Waiting, NEW n \in Nat \ {0}, r <= Most(w), n <= counts[w]
      PROVE  <<w, n>> \in OpenFrom(counts, r)
  <2>1. w \in {v \in Waiting : Most(v) >= r} /\ n \in 1..counts[w]
    BY <1>0, <1>2
  <2> QED BY <2>1 DEF OpenFrom
<1> QED BY <1>1, <1>2

(* One of them less: they are among those there were.                      *)
LEMMA OneLess ==
    ASSUME NEW counts \in [Waiting -> Nat], NEW w \in Waiting, counts[w] > 0,
           NEW r \in Times, IsFiniteSet(OpenFrom(counts, r)),
           NEW new, new = [counts EXCEPT ![w] = @ - 1]
    PROVE  /\ new \in [Waiting -> Nat]
           /\ OpenFrom(new, r) \subseteq OpenFrom(counts, r)
           /\ IsFiniteSet(OpenFrom(new, r))
           /\ Cardinality(OpenFrom(new, r)) <= Cardinality(OpenFrom(counts, r))
<1>1. new \in [Waiting -> Nat] /\ \A u \in Waiting : new[u] <= counts[u]
  OBVIOUS
<1>2. OpenFrom(new, r) \subseteq OpenFrom(counts, r)
  <2> SUFFICES ASSUME NEW x \in OpenFrom(new, r) PROVE x \in OpenFrom(counts, r)
    OBVIOUS
  <2>1. PICK u \in Waiting, n \in Nat \ {0} :
            x = <<u, n>> /\ r <= Most(u) /\ n <= new[u]
    BY <1>1, OpenMembers
  <2>2. n <= counts[u]
    BY <1>1, <2>1
  <2> QED BY <2>1, <2>2, OpenMembers
<1> QED BY <1>1, <1>2, FS_Subset

(* One more: it counts where it may last long enough.                      *)
LEMMA OneMore ==
    ASSUME NEW counts \in [Waiting -> Nat], NEW w \in Waiting,
           NEW r \in Times, IsFiniteSet(OpenFrom(counts, r)),
           NEW new, new = [counts EXCEPT ![w] = @ + 1]
    PROVE  /\ new \in [Waiting -> Nat]
           /\ IsFiniteSet(OpenFrom(new, r))
           /\ Cardinality(OpenFrom(new, r))
                = Cardinality(OpenFrom(counts, r)) + (IF r <= Most(w) THEN 1 ELSE 0)
<1> DEFINE x == <<w, counts[w] + 1>>
<1>1. /\ new \in [Waiting -> Nat] /\ new[w] = counts[w] + 1
      /\ \A u \in Waiting \ {w} : new[u] = counts[u]
  OBVIOUS
<1>0. \A y : y \in OpenFrom(new, r) <=>
               \E u \in Waiting, n \in Nat \ {0} :
                   y = <<u, n>> /\ r <= Most(u) /\ n <= new[u]
  <2> HIDE DEF x
  <2>1. new \in [Waiting -> Nat]
    BY <1>1
  <2> QED BY <2>1, OpenMembers, Zenon
<1>2. CASE r <= Most(w)
  <2>1. x \notin OpenFrom(counts, r)
    <3> SUFFICES ASSUME x \in OpenFrom(counts, r) PROVE FALSE
      OBVIOUS
    <3>1. PICK u \in Waiting, n \in Nat \ {0} : x = <<u, n>> /\ n <= counts[u]
      BY OpenMembers
    <3> QED BY <3>1
  <2>2. OpenFrom(new, r) = OpenFrom(counts, r) \cup {x}
    <3>1. ASSUME NEW u \in Waiting, NEW n \in Nat \ {0}, r <= Most(u)
          PROVE  n <= new[u] <=> n <= counts[u] \/ <<u, n>> = x
      BY <1>1
    <3>2. x \in OpenFrom(new, r)
      <4>1. counts[w] + 1 \in Nat \ {0} /\ counts[w] + 1 <= new[w]
        BY <1>1
      <4> QED BY <1>1, <1>2, <4>1, OpenMembers
    <3>3. ASSUME NEW y \in OpenFrom(counts, r) PROVE y \in OpenFrom(new, r)
      <4>1. PICK u \in Waiting, n \in Nat \ {0} :
                y = <<u, n>> /\ r <= Most(u) /\ n <= counts[u]
        BY OpenMembers
      <4>2. n <= new[u]
        BY <3>1, <4>1
      <4> QED BY <1>1, <4>1, <4>2, OpenMembers
    <3>4. ASSUME NEW y \in OpenFrom(new, r) PROVE y \in OpenFrom(counts, r) \/ y = x
      <4>1. PICK u \in Waiting, n \in Nat \ {0} :
                y = <<u, n>> /\ r <= Most(u) /\ n <= new[u]
        BY <1>0
      <4>2. n <= counts[u] \/ y = x
        BY <3>1, <4>1
      <4> QED BY <4>1, <4>2, OpenMembers
    <3> QED BY <3>2, <3>3, <3>4
  <2>3. /\ IsFiniteSet(OpenFrom(new, r))
        /\ Cardinality(OpenFrom(new, r)) = Cardinality(OpenFrom(counts, r)) + 1
    <3> HIDE DEF x
    <3>1. ASSUME NEW S, IsFiniteSet(S), x \notin S
          PROVE  IsFiniteSet(S \cup {x}) /\ Cardinality(S \cup {x}) = Cardinality(S) + 1
      BY <3>1, FS_AddElement
    <3> QED BY <2>1, <2>2, <3>1
  <2> HIDE DEF x
  <2> QED BY <1>1, <1>2, <2>3
<1>3. CASE ~(r <= Most(w))
  <2>1. OpenFrom(new, r) \subseteq OpenFrom(counts, r)
    <3> SUFFICES ASSUME NEW y \in OpenFrom(new, r) PROVE y \in OpenFrom(counts, r)
      OBVIOUS
    <3>1. PICK u \in Waiting, n \in Nat \ {0} :
              y = <<u, n>> /\ r <= Most(u) /\ n <= new[u]
      BY <1>0
    <3>2. u # w
      BY <1>3, <3>1
    <3>3. n <= counts[u]
      BY <1>1, <3>1, <3>2
    <3> QED BY <3>1, <3>3, OpenMembers
  <2>2. OpenFrom(counts, r) \subseteq OpenFrom(new, r)
    <3> SUFFICES ASSUME NEW y \in OpenFrom(counts, r) PROVE y \in OpenFrom(new, r)
      OBVIOUS
    <3>1. PICK u \in Waiting, n \in Nat \ {0} :
              y = <<u, n>> /\ r <= Most(u) /\ n <= counts[u]
      BY OpenMembers
    <3>2. u # w
      BY <1>3, <3>1
    <3>3. n <= new[u]
      BY <1>1, <3>1, <3>2
    <3> QED BY <1>0, <3>1, <3>3
  <2>3. OpenFrom(new, r) = OpenFrom(counts, r)
    BY <2>1, <2>2
  <2>4. IsFiniteSet(OpenFrom(new, r)) /\ new \in [Waiting -> Nat]
    BY <1>1, <2>3
  <2>5. Cardinality(OpenFrom(new, r)) = Cardinality(OpenFrom(counts, r)) + 0
    BY <2>3, FS_CardinalityType
  <2> HIDE DEF x
  <2> QED BY <1>3, <2>4, <2>5
<1>4. r <= Most(w) \/ ~(r <= Most(w))
  OBVIOUS
<1> HIDE DEF x
<1> QED BY <1>2, <1>3, <1>4, Zenon

(* As time passes each has one less left; none is at 0 then.               *)
Passed(counts) ==
    [w \in Waiting |->
       (IF w.rest < MaxSpan THEN counts[[w EXCEPT !.rest = @ + 1]] ELSE 0)
       + (IF w.rest = 0 THEN counts[w] ELSE 0)]

LEMMA TimePasses ==
    ASSUME NEW counts \in [Waiting -> Nat], NEW r \in Times,
           \A w \in Waiting : w.rest = 0 => counts[w] = 0
    PROVE  /\ Passed(counts) \in [Waiting -> Nat]
           /\ r = Longest => OpenFrom(Passed(counts), r) = {}
           /\ r # Longest =>
                 /\ r + 1 \in Times
                 /\ ExistsBijection(OpenFrom(counts, r + 1), OpenFrom(Passed(counts), r))
<1> DEFINE new == Passed(counts)
<1>0. \A w \in Waiting : w.rest \in Nat /\ w.rest <= MaxSpan /\ Most(w) \in Times
  BY SpanTypes, MostTypes DEF Waiting
<1>1. \A w \in Waiting : new[w] = IF w.rest < MaxSpan THEN counts[Earlier(w)] ELSE 0
  <2> SUFFICES ASSUME NEW w \in Waiting
               PROVE  new[w] = IF w.rest < MaxSpan THEN counts[Earlier(w)] ELSE 0
    OBVIOUS
  <2>1. new[w] = (IF w.rest < MaxSpan THEN counts[Earlier(w)] ELSE 0)
                 + (IF w.rest = 0 THEN counts[w] ELSE 0)
    BY DEF Passed, Earlier
  <2>2. (IF w.rest = 0 THEN counts[w] ELSE 0) = 0
    OBVIOUS
  <2>3. (IF w.rest < MaxSpan THEN counts[Earlier(w)] ELSE 0) \in Nat
    BY OneEarlier
  <2> HIDE DEF new
  <2> QED BY <2>1, <2>2, <2>3
<1>2. new \in [Waiting -> Nat]
  <2>1. \A w \in Waiting : new[w] \in Nat
    <3> HIDE DEF new
    <3> QED BY <1>1, OneEarlier
  <2> QED BY <2>1 DEF Passed
<1> HIDE DEF new
<1>3. ASSUME r = Longest PROVE OpenFrom(new, r) = {}
  <2> SUFFICES ASSUME NEW x \in OpenFrom(new, r) PROVE FALSE
    OBVIOUS
  <2>1. PICK w \in Waiting, n \in Nat \ {0} : r <= Most(w) /\ n <= new[w]
    BY <1>2, OpenMembers
  <2>2. w.rest < MaxSpan
    BY <1>1, <2>1
  <2>3. Earlier(w) \in Waiting /\ Most(Earlier(w)) = Most(w) + 1
    BY <2>2, OneEarlier
  <2> QED BY <1>0, <1>3, <2>1, <2>3, ConstantTypes
<1>4. ASSUME r # Longest
      PROVE  /\ r + 1 \in Times
             /\ ExistsBijection(OpenFrom(counts, r + 1), OpenFrom(new, r))
  <2>0. r \in Nat /\ r + 1 \in Times /\ r + 1 \in Nat
    BY <1>4, ConstantTypes
  <2> DEFINE A == OpenFrom(counts, r + 1)
             B == OpenFrom(new, r)
             f == [x \in A |-> <<Later(x[1]), x[2]>>]
  <2>1. ASSUME NEW w \in Waiting, NEW n \in Nat \ {0}, <<w, n>> \in A
        PROVE  /\ w.rest > 0 /\ <<Later(w), n>> \in B
               /\ f[<<w, n>>] = <<Later(w), n>>
    <3>1. PICK u \in Waiting, m \in Nat \ {0} :
              <<w, n>> = <<u, m>> /\ r + 1 <= Most(u) /\ m <= counts[u]
      BY <2>0, <2>1, OpenMembers
    <3>2. r + 1 <= Most(w) /\ n <= counts[w]
      BY <3>1
    <3>3. w.rest > 0
      BY <1>0, <3>2
    <3>4. /\ Later(w) \in Waiting /\ Later(w).rest < MaxSpan
          /\ Most(Later(w)) = Most(w) - 1 /\ Earlier(Later(w)) = w
      BY <3>3, OneLater
    <3>5. r <= Most(Later(w)) /\ n <= new[Later(w)]
      BY <1>0, <1>1, <2>0, <3>2, <3>4, ConstantTypes
    <3>6. f[<<w, n>>] = <<Later(w), n>>
      BY <2>1
    <3>7. <<Later(w), n>> \in B
      BY <1>2, <2>1, <3>4, <3>5, OpenMembers
    <3> QED BY <3>3, <3>6, <3>7
  <2>2. \A x \in A : \E w \in Waiting, n \in Nat \ {0} : x = <<w, n>>
    BY <2>0, OpenMembers
  <2>3. f \in [A -> B]
    <3>1. \A x \in A : f[x] \in B
      BY <2>1, <2>2
    <3> QED BY <3>1
  <2>4. \A x, y \in A : f[x] = f[y] => x = y
    <3> SUFFICES ASSUME NEW x \in A, NEW y \in A, f[x] = f[y] PROVE x = y
      OBVIOUS
    <3>1. PICK w \in Waiting, n \in Nat \ {0} : x = <<w, n>>
      BY <2>2
    <3>2. PICK u \in Waiting, m \in Nat \ {0} : y = <<u, m>>
      BY <2>2
    <3>3. /\ w.rest > 0 /\ u.rest > 0 /\ f[x] = <<Later(w), n>>
          /\ f[y] = <<Later(u), m>>
      BY <2>1, <3>1, <3>2
    <3>4. Later(w) = Later(u) /\ n = m
      BY <3>3
    <3>5. Earlier(Later(w)) = w /\ Earlier(Later(u)) = u
      BY <3>3, OneLater
    <3> QED BY <3>1, <3>2, <3>4, <3>5
  <2>5. \A y \in B : \E x \in A : f[x] = y
    <3> SUFFICES ASSUME NEW y \in B PROVE \E x \in A : f[x] = y
      OBVIOUS
    <3>1. PICK w \in Waiting, n \in Nat \ {0} :
              y = <<w, n>> /\ r <= Most(w) /\ n <= new[w]
      BY <1>2, OpenMembers
    <3>2. w.rest < MaxSpan /\ n <= counts[Earlier(w)]
      BY <1>1, <3>1
    <3>3. /\ Earlier(w) \in Waiting /\ Most(Earlier(w)) = Most(w) + 1
          /\ Later(Earlier(w)) = w
      BY <3>2, OneEarlier
    <3>4. r + 1 <= Most(Earlier(w))
      BY <1>0, <2>0, <3>1, <3>3, ConstantTypes
    <3>5. <<Earlier(w), n>> \in A
      BY <2>0, <3>1, <3>2, <3>3, <3>4, OpenMembers
    <3>6. f[<<Earlier(w), n>>] = <<Later(Earlier(w)), n>>
      BY <2>1, <3>1, <3>3, <3>5
    <3> QED BY <3>1, <3>3, <3>5, <3>6
  <2> HIDE DEF A, B, f
  <2>6. f \in Bijection(A, B)
    BY <2>3, <2>4, <2>5, Zenon DEF Bijection, Injection, Surjection, IsInjective
  <2> QED BY <2>0, <2>6 DEF ExistsBijection, A, B
<1> QED BY <1>2, <1>3, <1>4 DEF new

-----------------------------------------------------------------------------
(* The steps *)

LEMMA ProxyInitInv == ProxyInit => ProxyInv
<1> SUFFICES ASSUME ProxyInit PROVE ProxyInv
  OBVIOUS
<1>1. ProxyTypes
  <2>1. file \in [url : Contents, fresh : BOOLEAN, tied : BOOLEAN]
    BY DEF ProxyInit
  <2>2. gone \in [Urls -> 0..Ttl]
        /\ cache \in [url : Urls \cup {NoUrl}, age : 0..Ttl, match : BOOLEAN]
    BY ConstantTypes DEF ProxyInit
  <2>3. call \in [Clients -> CallStates] /\ req \in [Clients -> ReqStates]
    BY ConstantTypes DEF ProxyInit
  <2>4. left \in [Clients -> [Waiting -> Nat]]
    BY DEF ProxyInit
  <2> QED BY <2>1, <2>2, <2>3, <2>4 DEF ProxyInit, ProxyTypes
<1>2. CacheIsRecent
  BY DEF ProxyInit, CacheIsRecent
<1>3. RestsWait
  BY ProxyAssumption DEF ProxyInit, RestsWait, NoReq
<1>4. ASSUME NEW c \in Clients, NEW r \in Times PROVE OpenFrom(left[c], r) = {}
  <2>1. left[c] \in [Waiting -> Nat] /\ \A w \in Waiting : left[c][w] = 0
    BY DEF ProxyInit
  <2> SUFFICES ASSUME NEW x \in OpenFrom(left[c], r) PROVE FALSE
    OBVIOUS
  <2>2. PICK w \in Waiting, n \in Nat \ {0} : n <= left[c][w]
    BY <2>1, OpenMembers
  <2> QED BY <2>1, <2>2
<1>5. Spaced /\ Finite
  BY <1>4, FS_EmptySet DEF Spaced, Finite
<1> QED BY <1>1, <1>2, <1>3, <1>5 DEF ProxyInv

(* A step that gives no request up and lets no one wait longer.            *)
LEMMA QuietKeeps ==
    ASSUME ProxyInv, ProxyTypes', left' = left,
           \A c \in Clients :
              /\ call'[c].waited <= call[c].waited
              /\ req'[c].phase = "received" =>
                    call'[c].state = "waiting" /\ call'[c].waited = 0
              /\ req'[c].phase = "upstream" =>
                    Most(req'[c].wait) + call'[c].waited <= Longest
              /\ reading' = c => req'[c].phase = "received"
    PROVE  RestsWait' /\ Spaced' /\ Finite'
<1>1. RestsWait'
  BY DEF RestsWait
<1>2. Spaced'
  <2> SUFFICES ASSUME NEW c \in Clients, NEW r \in Times,
                      OpenFrom(left[c], r) # {}
               PROVE  r + Cardinality(OpenFrom(left[c], r)) * ClientTimeout
                        + call'[c].waited <= Longest
    BY DEF Spaced
  <2> DEFINE n == Cardinality(OpenFrom(left[c], r))
  <2>1. n \in Nat
    BY FS_CardinalityType DEF ProxyInv, Finite
  <2>2. r + n * ClientTimeout + call[c].waited <= Longest
    BY DEF ProxyInv, Spaced
  <2>3. n * ClientTimeout \in Nat
    BY <2>1, ConstantTypes
  <2>4. call[c].waited \in Nat /\ call'[c].waited \in Nat /\ r \in Nat
        /\ Longest \in Nat
    BY ConstantTypes DEF ProxyInv, ProxyTypes, CallStates
  <2>5. call'[c].waited <= call[c].waited
    OBVIOUS
  <2>6. r + n * ClientTimeout + call'[c].waited <= Longest
    <3> DEFINE p == n * ClientTimeout
    <3>1. p \in Nat /\ r + p + call[c].waited <= Longest
      BY <2>2, <2>3
    <3> HIDE DEF p
    <3>2. r + p + call'[c].waited <= Longest
      BY <2>4, <2>5, <3>1
    <3> QED BY <3>2 DEF p
  <2> QED BY <2>6 DEF n
<1>3. Finite'
  BY DEF ProxyInv, Finite
<1> QED BY <1>1, <1>2, <1>3

LEMMA CacheStays ==
    ASSUME ProxyInv, UNCHANGED <<fileVars, cacheVars>>
    PROVE  CacheIsRecent'
BY DEF ProxyInv, CacheIsRecent, fileVars, cacheVars

LEMMA PostKeeps ==
    ASSUME ProxyInv, NEW c \in Clients, NEW k \in CallStates, Post(c, k)
    PROVE  ProxyInv'
<1>1. ProxyTypes'
  BY PostTypes DEF ProxyInv
<1>2. /\ call' = [call EXCEPT ![c] = [k EXCEPT !.state = "waiting", !.waited = 0,
                                               !.attempt = @ + 1]]
      /\ req' = [req EXCEPT ![c] = [NoReq EXCEPT !.phase = "received"]]
      /\ left' = left
  BY DEF Post
<1>3. call'[c].waited = 0 /\ call'[c].state = "waiting"
      /\ req'[c].phase = "received" /\ reading' = reading
  BY <1>2, ConstantTypes
     DEF Post, cacheVars, ProxyInv, ProxyTypes, CallStates, ReqStates
<1>4. \A d \in Clients \ {c} : call'[d] = call[d] /\ req'[d] = req[d]
  BY <1>2 DEF ProxyInv, ProxyTypes
<1>5. call[c].waited >= 0
  BY ConstantTypes DEF ProxyInv, ProxyTypes, CallStates
<1>6. \A d \in Clients :
         /\ call'[d].waited <= call[d].waited
         /\ req'[d].phase = "received" =>
               call'[d].state = "waiting" /\ call'[d].waited = 0
         /\ req'[d].phase = "upstream" => Most(req'[d].wait) + call'[d].waited <= Longest
         /\ reading' = d => req'[d].phase = "received"
  <2>1. \A d \in Clients : call[d].waited <= call[d].waited
    BY ConstantTypes DEF ProxyInv, ProxyTypes, CallStates
  <2> QED BY <1>3, <1>4, <1>5, <2>1 DEF ProxyInv, RestsWait
<1>7. RestsWait' /\ Spaced' /\ Finite'
  BY <1>1, <1>2, <1>6, QuietKeeps
<1>8. CacheIsRecent'
  BY CacheStays DEF Post
<1> QED BY <1>1, <1>7, <1>8 DEF ProxyInv

(* What an answer does to the waits, whatever it does to the cache.        *)
LEMMA AnswerKeeps ==
    ASSUME ProxyInv, NEW c \in Clients, NEW ok \in BOOLEAN, Answer(c, ok), left' = left,
           reading' # c, reading' \in {reading, NoClient}, ProxyTypes', CacheIsRecent'
    PROVE  ProxyInv'
<1>1. /\ call'[c].waited = 0 /\ req'[c].phase = "none"
      /\ \A d \in Clients \ {c} : call'[d] = call[d] /\ req'[d] = req[d]
  BY AnswerTypes DEF ProxyInv, NoReq, ProxyTypes
<1>2. call[c].waited >= 0
  BY ConstantTypes DEF ProxyInv, ProxyTypes, CallStates
<1>3. \A d \in Clients :
         /\ call'[d].waited <= call[d].waited
         /\ req'[d].phase = "received" =>
               call'[d].state = "waiting" /\ call'[d].waited = 0
         /\ req'[d].phase = "upstream" => Most(req'[d].wait) + call'[d].waited <= Longest
         /\ reading' = d => req'[d].phase = "received"
  <2>1. \A d \in Clients : call[d].waited <= call[d].waited
    BY ConstantTypes DEF ProxyInv, ProxyTypes, CallStates
  <2> QED BY <1>1, <1>2, <2>1, ProxyAssumption DEF ProxyInv, RestsWait
<1> QED BY <1>3, QuietKeeps DEF ProxyInv

(* A request is forwarded in the tick it came in.                          *)
LEMMA ForwardKeeps ==
    ASSUME ProxyInv, NEW c \in Clients, Forward(c), req[c].phase = "received",
           left' = left, reading' = NoClient, ProxyTypes', CacheIsRecent'
    PROVE  ProxyInv'
<1>1. /\ call' = call /\ req'[c].phase \in {"upstream", "streaming"}
      /\ req'[c].wait \in Waiting
      /\ \A d \in Clients \ {c} : req'[d] = req[d]
  BY ForwardTypes DEF ProxyInv
<1>2. call[c].waited = 0 /\ Most(req'[c].wait) \in Times
  BY <1>1, MostTypes DEF ProxyInv, RestsWait
<1>3. \A d \in Clients :
         /\ call'[d].waited <= call[d].waited
         /\ req'[d].phase = "received" =>
               call'[d].state = "waiting" /\ call'[d].waited = 0
         /\ req'[d].phase = "upstream" => Most(req'[d].wait) + call'[d].waited <= Longest
         /\ reading' = d => req'[d].phase = "received"
  <2>1. \A d \in Clients : call[d].waited <= call[d].waited
    BY ConstantTypes DEF ProxyInv, ProxyTypes, CallStates
  <2>2. Most(req'[c].wait) + call'[c].waited <= Longest
    BY <1>1, <1>2, ConstantTypes
  <2> QED BY <1>1, <2>1, <2>2, ProxyAssumption DEF ProxyInv, RestsWait
<1> QED BY <1>3, QuietKeeps DEF ProxyInv

(* A step of one client's given up requests that leaves no more of them    *)
(* than there were, however long they may last.                            *)
LEMMA FewerKeeps ==
    ASSUME ProxyInv, NEW c \in Clients, UNCHANGED <<fileVars, cacheVars, call, req>>,
           left' \in [Clients -> [Waiting -> Nat]],
           \A d \in Clients \ {c} : left'[d] = left[d],
           \A r \in Times :
              /\ IsFiniteSet(OpenFrom(left'[c], r))
              /\ Cardinality(OpenFrom(left'[c], r)) <= Cardinality(OpenFrom(left[c], r))
              /\ OpenFrom(left'[c], r) # {} => OpenFrom(left[c], r) # {}
    PROVE  ProxyInv'
<1>1. ProxyTypes'
  BY DEF ProxyInv, ProxyTypes, fileVars, cacheVars
<1>2. RestsWait' /\ CacheIsRecent'
  BY CacheStays DEF ProxyInv, RestsWait, cacheVars
<1>3. Finite'
  BY DEF ProxyInv, Finite
<1>4. Spaced'
  <2> SUFFICES ASSUME NEW d \in Clients, NEW r \in Times, OpenFrom(left'[d], r) # {}
               PROVE  r + Cardinality(OpenFrom(left'[d], r)) * ClientTimeout
                        + call[d].waited <= Longest
    BY DEF Spaced
  <2> DEFINE m == Cardinality(OpenFrom(left'[d], r))
             n == Cardinality(OpenFrom(left[d], r))
  <2>1. m \in Nat /\ n \in Nat
    BY <1>3, FS_CardinalityType DEF ProxyInv, Finite
  <2>2. m <= n /\ OpenFrom(left[d], r) # {}
    BY <2>1
  <2>3. r + n * ClientTimeout + call[d].waited <= Longest
    BY <2>2 DEF ProxyInv, Spaced
  <2>4. r \in Nat /\ call[d].waited \in Nat /\ ClientTimeout \in Nat /\ Longest \in Nat
    BY ConstantTypes DEF ProxyInv, ProxyTypes, CallStates
  <2> HIDE DEF m, n
  <2>5. m * ClientTimeout \in Nat /\ m * ClientTimeout <= n * ClientTimeout
        /\ n * ClientTimeout \in Nat
    BY <2>1, <2>2, <2>4, Grows
  <2> DEFINE p == m * ClientTimeout
             q == n * ClientTimeout
  <2>6. p \in Nat /\ q \in Nat /\ p <= q /\ r + q + call[d].waited <= Longest
    BY <2>3, <2>5
  <2> HIDE DEF p, q
  <2>7. r + p + call[d].waited <= Longest
    BY <2>4, <2>6
  <2> QED BY <2>7 DEF m, p
<1> QED BY <1>1, <1>2, <1>3, <1>4 DEF ProxyInv

(* One of the open requests is answered, or times out.                     *)
LEMMA LeftKeeps ==
    ASSUME ProxyInv, NEW c \in Clients, NEW w \in Waiting, left[c][w] > 0,
           left' = [left EXCEPT ![c][w] = @ - 1],
           UNCHANGED <<fileVars, cacheVars, call, req>>
    PROVE  ProxyInv'
<1>1. left[c] \in [Waiting -> Nat] /\ left'[c] = [left[c] EXCEPT ![w] = @ - 1]
      /\ \A d \in Clients \ {c} : left'[d] = left[d]
  BY DEF ProxyInv, ProxyTypes
<1>2. \A r \in Times :
         /\ left'[c] \in [Waiting -> Nat]
         /\ OpenFrom(left'[c], r) \subseteq OpenFrom(left[c], r)
         /\ IsFiniteSet(OpenFrom(left'[c], r))
         /\ Cardinality(OpenFrom(left'[c], r)) <= Cardinality(OpenFrom(left[c], r))
  BY <1>1, OneLess DEF ProxyInv, Finite
<1>3. left' \in [Clients -> [Waiting -> Nat]]
  BY <1>1, <1>2, ConstantTypes DEF ProxyInv, ProxyTypes
<1> QED BY <1>1, <1>2, <1>3, FewerKeeps

(* One of them gets on: it has one wait less to go, and a whole one before *)
(* it.                                                                     *)
LEMMA LeftGoesKeeps ==
    ASSUME ProxyInv, NEW c \in Clients, LeftGoesOn(c)
    PROVE  ProxyInv'
<1>1. PICK w \in Waiting :
         /\ left[c][w] > 0 /\ w.more > 0
         /\ left' = [left EXCEPT ![c][w] = @ - 1, ![c][Advance(w)] = @ + 1]
  BY DEF LeftGoesOn
<1>0. UNCHANGED <<fileVars, cacheVars, call, req>>
  BY DEF LeftGoesOn
<1>2. PICK u \in Waiting : u = Advance(w) /\ Most(u) <= Most(w)
  BY <1>1, Advances
<1>3. left[c] \in [Waiting -> Nat]
  BY DEF ProxyInv, ProxyTypes
<1>4. PICK mid \in [Waiting -> Nat] :
         mid = [left[c] EXCEPT ![w] = @ - 1] /\ left[c] = [mid EXCEPT ![w] = @ + 1]
  <2> DEFINE m == [left[c] EXCEPT ![w] = @ - 1]
  <2>1. left[c][w] \in Nat /\ left[c][w] - 1 \in Nat /\ (left[c][w] - 1) + 1 = left[c][w]
    BY <1>1, <1>3
  <2>2. m \in [Waiting -> Nat] /\ m[w] = left[c][w] - 1
        /\ \A v \in Waiting \ {w} : m[v] = left[c][v]
    BY <1>3, <2>1
  <2> HIDE DEF m
  <2>3. left[c] = [m EXCEPT ![w] = @ + 1]
    BY <1>3, <2>1, <2>2
  <2> QED BY <2>2, <2>3 DEF m
<1>5. left'[c] = [mid EXCEPT ![u] = @ + 1]
      /\ \A d \in Clients \ {c} : left'[d] = left[d]
  BY <1>1, <1>2, <1>4 DEF ProxyInv, ProxyTypes
<1>6. left' \in [Clients -> [Waiting -> Nat]]
  <2>1. left'[c] \in [Waiting -> Nat]
    BY <1>4, <1>5
  <2>2. DOMAIN left' = Clients /\ left' = [d \in Clients |-> left'[d]]
    BY <1>1 DEF ProxyInv, ProxyTypes
  <2> QED BY <1>5, <2>1, <2>2 DEF ProxyInv, ProxyTypes
<1>7. ASSUME NEW r \in Times
      PROVE  /\ IsFiniteSet(OpenFrom(left'[c], r))
             /\ Cardinality(OpenFrom(left'[c], r)) <= Cardinality(OpenFrom(left[c], r))
             /\ OpenFrom(left'[c], r) # {} => OpenFrom(left[c], r) # {}
  <2>1. IsFiniteSet(OpenFrom(left[c], r))
    BY DEF ProxyInv, Finite
  <2>2. IsFiniteSet(OpenFrom(mid, r))
    BY <1>1, <1>3, <1>4, <2>1, OneLess
  <2>3. Cardinality(OpenFrom(left[c], r))
          = Cardinality(OpenFrom(mid, r)) + (IF r <= Most(w) THEN 1 ELSE 0)
    BY <1>4, <2>2, OneMore
  <2>4. /\ IsFiniteSet(OpenFrom(left'[c], r))
        /\ Cardinality(OpenFrom(left'[c], r))
             = Cardinality(OpenFrom(mid, r)) + (IF r <= Most(u) THEN 1 ELSE 0)
    <3>1. left'[c] = [mid EXCEPT ![u] = @ + 1]
      BY <1>5
    <3>2. IsFiniteSet(OpenFrom(left'[c], r))
      BY <2>2, <3>1, OneMore
    <3>3. Cardinality(OpenFrom(left'[c], r))
            = Cardinality(OpenFrom(mid, r)) + (IF r <= Most(u) THEN 1 ELSE 0)
      BY <2>2, <3>1, OneMore
    <3> QED BY <3>2, <3>3
  <2>5. /\ Cardinality(OpenFrom(left[c], r)) \in Nat
        /\ Cardinality(OpenFrom(left'[c], r)) \in Nat
        /\ Cardinality(OpenFrom(mid, r)) \in Nat
        /\ r \in Nat /\ Most(u) \in Nat /\ Most(w) \in Nat
    BY <2>1, <2>2, <2>4, FS_CardinalityType, ConstantTypes, MostTypes
  <2>6. Cardinality(OpenFrom(left'[c], r)) <= Cardinality(OpenFrom(left[c], r))
    BY <1>2, <2>3, <2>4, <2>5
  <2>7. OpenFrom(left'[c], r) # {} => OpenFrom(left[c], r) # {}
    <3>1. /\ OpenFrom(left'[c], r) # {} => Cardinality(OpenFrom(left'[c], r)) # 0
          /\ OpenFrom(left[c], r) = {} => Cardinality(OpenFrom(left[c], r)) = 0
      BY <2>4, FS_EmptySet
    <3> QED BY <2>5, <2>6, <3>1
  <2> QED BY <2>4, <2>6, <2>7
<1> QED BY <1>0, <1>5, <1>6, <1>7, FewerKeeps

(* So does one whose client still waits.                                   *)
LEMMA RequestGoesKeeps ==
    ASSUME ProxyInv, NEW c \in Clients, RequestGoesOn(c)
    PROVE  ProxyInv'
<1>1. /\ UNCHANGED <<fileVars, cacheVars, call, left>>
      /\ req[c].phase = "upstream" /\ req[c].wait.more > 0
      /\ req' = [req EXCEPT ![c].wait = Advance(req[c].wait)]
  BY DEF RequestGoesOn
<1>2. req[c].wait \in Waiting /\ Advance(req[c].wait) \in Waiting
      /\ Most(Advance(req[c].wait)) <= Most(req[c].wait)
      /\ Most(Advance(req[c].wait)) \in Nat /\ Most(req[c].wait) \in Nat
  BY <1>1, Advances, MostTypes, ConstantTypes DEF ProxyInv, ProxyTypes, ReqStates
<1>3. /\ req'[c].phase = "upstream" /\ req'[c].wait = Advance(req[c].wait)
      /\ req' \in [Clients -> ReqStates]
      /\ \A d \in Clients \ {c} : req'[d] = req[d]
  BY <1>1, <1>2 DEF ProxyInv, ProxyTypes, ReqStates
<1>4. ProxyTypes' /\ reading' = reading
  BY <1>1, <1>3 DEF ProxyInv, ProxyTypes, fileVars, cacheVars
<1>5. call[c].waited \in Nat /\ \A d \in Clients : call[d].waited <= call[d].waited
  BY ConstantTypes DEF ProxyInv, ProxyTypes, CallStates
<1>6. Most(req'[c].wait) + call[c].waited <= Longest
  BY <1>1, <1>2, <1>3, <1>5, ConstantTypes DEF ProxyInv, RestsWait
<1>7. reading # c
  BY <1>1 DEF ProxyInv, RestsWait
<1>8. RestsWait' /\ Spaced' /\ Finite'
  BY <1>1, <1>3, <1>4, <1>5, <1>6, <1>7, QuietKeeps DEF ProxyInv, RestsWait
<1> QED BY <1>1, <1>4, <1>8, CacheStays DEF ProxyInv

(* An answer that leaves the cache alone.                                  *)
LEMMA PlainAnswerKeeps ==
    ASSUME ProxyInv, NEW c \in Clients, NEW ok \in BOOLEAN, Answer(c, ok),
           reading # c, UNCHANGED <<fileVars, cacheVars, left>>
    PROVE  ProxyInv'
<1>1. ProxyTypes' /\ reading' = reading
  BY AnswerTypes DEF ProxyInv, ProxyTypes, fileVars, cacheVars
<1> QED BY <1>1, AnswerKeeps, CacheStays

(* The url is the file's when the read ends, and the age that of the stat. *)
LEMMA StatKeeps ==
    ASSUME ProxyInv, NEW c \in Clients, Stat(c)
    PROVE  ProxyInv'
<1>0. UNCHANGED <<fileVars, left>> /\ req[c].phase = "received"
      /\ reading = NoClient /\ reading # c
  BY ProxyAssumption DEF Stat, Served
<1>1. CASE UNCHANGED cacheVars /\ ForwardTo(c, Discovered(c))
  <2>1. CASE Forward(c)
    <3>1. ProxyTypes' /\ reading' = NoClient
      BY <1>0, <1>1, <2>1, ForwardTypes DEF ProxyInv, ProxyTypes, fileVars, cacheVars
    <3> QED BY <1>0, <1>1, <2>1, <3>1, CacheStays, ForwardKeeps
  <2>2. CASE Answer(c, FALSE)
    BY <1>0, <1>1, <2>2, PlainAnswerKeeps
  <2> QED BY <1>1, <2>1, <2>2 DEF ForwardTo
<1>2. CASE reading' = c /\ cache' = [url |-> NoUrl, age |-> 0, match |-> TRUE]
           /\ UNCHANGED <<call, req>>
  <2>1. ProxyTypes' /\ CacheIsRecent'
    BY <1>0, <1>2, ConstantTypes, ProxyAssumption
       DEF ProxyInv, ProxyTypes, CacheIsRecent, fileVars
  <2>2. \A d \in Clients : call[d].waited <= call[d].waited
    BY ConstantTypes DEF ProxyInv, ProxyTypes, CallStates
  <2>3. RestsWait' /\ Spaced' /\ Finite'
    BY <1>0, <1>2, <2>1, <2>2, QuietKeeps DEF ProxyInv, RestsWait
  <2> QED BY <2>1, <2>3 DEF ProxyInv
<1> QED BY <1>1, <1>2 DEF Stat

LEMMA ReadKeeps ==
    ASSUME ProxyInv, NEW c \in Clients, Read(c)
    PROVE  ProxyInv'
<1>0. /\ UNCHANGED <<fileVars, left>> /\ reading' = NoClient /\ reading' # c
      /\ req[c].phase = "received"
      /\ cache' = [cache EXCEPT !.url = IF file.url \in Urls THEN file.url
                                                             ELSE NoUrl]
  BY ProxyAssumption DEF Read, ProxyInv, RestsWait
<1>1. CacheIsRecent'
  BY <1>0, ProxyAssumption DEF ProxyInv, ProxyTypes, CacheIsRecent, fileVars
<1>2. cache' \in [url : Urls \cup {NoUrl}, age : 0..Ttl, match : BOOLEAN]
  BY <1>0 DEF ProxyInv, ProxyTypes
<1>3. CASE Forward(c)
  <2>1. ProxyTypes'
    BY <1>0, <1>2, <1>3, ForwardTypes DEF ProxyInv, ProxyTypes, fileVars
  <2> QED BY <1>0, <1>1, <1>3, <2>1, ForwardKeeps
<1>4. CASE Answer(c, FALSE)
  <2>1. ProxyTypes'
    BY <1>0, <1>2, <1>4, AnswerTypes DEF ProxyInv, ProxyTypes, fileVars
  <2> QED BY <1>0, <1>1, <1>4, <2>1, AnswerKeeps
<1> QED BY <1>3, <1>4 DEF Read, ForwardTo

(* The client that hangs up had waited for its whole timeout.              *)
LEMMA GiveUpKeeps ==
    ASSUME ProxyInv, NEW c \in Clients, ClientGivesUp(c)
    PROVE  ProxyInv'
<1>0. /\ call[c].state = "waiting" /\ call[c].waited = ClientTimeout
      /\ ClientTimeout # 0 /\ req[c].phase # "received" /\ reading # c
  <2>1. call[c].state = "waiting" /\ call[c].waited >= ClientTimeout
    BY DEF ClientGivesUp, Expired
  <2>2. call[c].waited \in 0..ClientTimeout
    BY DEF ProxyInv, ProxyTypes, CallStates
  <2>3. call[c].waited = ClientTimeout /\ ClientTimeout # 0
    BY <2>1, <2>2, ConstantTypes
  <2> QED BY <2>1, <2>3 DEF ProxyInv, RestsWait
<1>1. /\ call' = [call EXCEPT ![c] = Failed(@)]
      /\ req' = [req EXCEPT ![c] = NoReq]
      /\ UNCHANGED <<fileVars, cacheVars>>
  BY DEF ClientGivesUp
<1>2. /\ call' \in [Clients -> CallStates] /\ call'[c].waited = 0
      /\ req' \in [Clients -> ReqStates] /\ req'[c].phase = "none"
      /\ \A d \in Clients \ {c} : call'[d] = call[d] /\ req'[d] = req[d]
  <2>1. Failed(call[c]) \in CallStates /\ Failed(call[c]).waited = 0
    BY FailedType DEF ProxyInv, ProxyTypes
  <2> QED BY <1>1, <2>1, ConstantTypes DEF ProxyInv, ProxyTypes, NoReq
<1>3. CacheIsRecent' /\ RestsWait'
  BY <1>0, <1>1, <1>2, CacheStays DEF ProxyInv, RestsWait, cacheVars
<1>4. CASE req[c].phase # "upstream"
  <2>1. left' = left
    BY <1>4 DEF ClientGivesUp
  <2>2. ProxyTypes'
    BY <1>1, <1>2, <2>1 DEF ProxyInv, ProxyTypes, fileVars, cacheVars
  <2>3. \A d \in Clients : call'[d].waited <= call[d].waited
    <3>1. \A d \in Clients : call[d].waited <= call[d].waited /\ call[d].waited >= 0
      BY ConstantTypes DEF ProxyInv, ProxyTypes, CallStates
    <3> QED BY <1>2, <3>1
  <2>4. RestsWait' /\ Spaced' /\ Finite'
    BY <1>3, <2>1, <2>2, <2>3, QuietKeeps DEF RestsWait
  <2> QED BY <1>3, <2>2, <2>4 DEF ProxyInv
<1>5. CASE req[c].phase = "upstream"
  <2> DEFINE w == req[c].wait
  <2>1. w \in Waiting /\ Most(w) \in Nat /\ Most(w) + ClientTimeout <= Longest
    BY <1>0, <1>5, MostTypes, ConstantTypes
       DEF ProxyInv, ProxyTypes, ReqStates, RestsWait
  <2>2. left' = [left EXCEPT ![c][w] = @ + 1]
    BY <1>5 DEF ClientGivesUp
  <2> HIDE DEF w
  <2>3. left[c] \in [Waiting -> Nat] /\ left'[c] = [left[c] EXCEPT ![w] = @ + 1]
        /\ \A d \in Clients \ {c} : left'[d] = left[d]
    BY <2>2 DEF ProxyInv, ProxyTypes
  <2>4. \A r \in Times :
           /\ IsFiniteSet(OpenFrom(left[c], r))
           /\ IsFiniteSet(OpenFrom(left'[c], r))
           /\ Cardinality(OpenFrom(left'[c], r))
                = Cardinality(OpenFrom(left[c], r)) + (IF r <= Most(w) THEN 1 ELSE 0)
    BY <2>1, <2>3, OneMore DEF ProxyInv, Finite
  <2>5. ProxyTypes'
    <3>1. left' \in [Clients -> [Waiting -> Nat]]
      <4>1. left'[c] \in [Waiting -> Nat]
        BY <2>1, <2>3
      <4>2. left' = [left EXCEPT ![c] = left'[c]]
        BY <2>2 DEF ProxyInv, ProxyTypes
      <4> QED BY <4>1, <4>2 DEF ProxyInv, ProxyTypes
    <3> QED BY <1>1, <1>2, <3>1 DEF ProxyInv, ProxyTypes, fileVars, cacheVars
  <2>6. Finite'
    BY <2>3, <2>4 DEF ProxyInv, Finite
  <2>7. Spaced'
    <3> SUFFICES ASSUME NEW d \in Clients, NEW r \in Times,
                        OpenFrom(left'[d], r) # {}
                 PROVE  r + Cardinality(OpenFrom(left'[d], r)) * ClientTimeout
                          + call'[d].waited <= Longest
      BY DEF Spaced
    <3> DEFINE n == Cardinality(OpenFrom(left[c], r))
    <3>1. n \in Nat /\ r \in Nat /\ Most(w) \in Nat /\ ClientTimeout \in Nat
          /\ Longest \in Nat
      BY <2>1, <2>4, FS_CardinalityType, ConstantTypes
    <3>2. CASE d # c
      BY <1>2, <2>3, <3>2 DEF ProxyInv, Spaced
    <3>3. CASE d = c /\ ~(r <= Most(w))
      <4>1. Cardinality(OpenFrom(left'[c], r)) = n /\ OpenFrom(left[c], r) # {}
        <5>1. Cardinality(OpenFrom(left'[c], r)) = n + 0
          BY <2>4, <3>3
        <5>2. Cardinality(OpenFrom(left'[c], r)) # 0
          BY <2>4, <3>3, FS_EmptySet
        <5>3. n # 0 /\ Cardinality(OpenFrom(left'[c], r)) = n
          BY <3>1, <5>1, <5>2
        <5> QED BY <5>3, FS_EmptySet
      <4>2. r + n * ClientTimeout + call[c].waited <= Longest
        BY <4>1 DEF ProxyInv, Spaced
      <4>3. n * ClientTimeout \in Nat
        BY <3>1
      <4> HIDE DEF n
      <4>4. r + n * ClientTimeout + 0 <= Longest
        BY <1>0, <3>1, <4>2, <4>3
      <4> QED BY <1>2, <3>3, <4>1, <4>4 DEF n
    <3>4. CASE d = c /\ r <= Most(w)
      <4>1. r + (n + 1) * ClientTimeout <= Longest
        <5>1. CASE OpenFrom(left[c], r) = {}
          <6>1. n = 0
            BY <5>1, FS_EmptySet
          <6>2. (n + 1) * ClientTimeout = ClientTimeout
            BY <3>1, <6>1
          <6> QED BY <2>1, <3>1, <3>4, <6>2
        <5>2. CASE OpenFrom(left[c], r) # {}
          <6>1. r + n * ClientTimeout + ClientTimeout <= Longest
            BY <1>0, <5>2 DEF ProxyInv, Spaced
          <6>2. (n + 1) * ClientTimeout = n * ClientTimeout + ClientTimeout
                /\ n * ClientTimeout \in Nat
            BY <3>1
          <6> HIDE DEF n
          <6> QED BY <3>1, <6>1, <6>2
        <5> QED BY <5>1, <5>2
      <4>2. Cardinality(OpenFrom(left'[d], r)) = n + 1 /\ call'[d].waited = 0
        BY <1>2, <2>4, <3>4
      <4>3. (n + 1) * ClientTimeout \in Nat
        BY <3>1
      <4> HIDE DEF n
      <4>4. r + (n + 1) * ClientTimeout + 0 <= Longest
        BY <3>1, <4>1, <4>3
      <4> QED BY <4>2, <4>4
    <3> QED BY <3>2, <3>3, <3>4
  <2> QED BY <1>3, <2>5, <2>6, <2>7 DEF ProxyInv
<1> QED BY <1>4, <1>5

LEMMA StreamKeeps ==
    ASSUME ProxyInv, NEW c \in Clients, StreamGoesOn(c)
    PROVE  ProxyInv'
<1>1. /\ UNCHANGED <<fileVars, cacheVars, left>>
      /\ req[c].phase = "streaming"
      /\ req' = [req EXCEPT ![c].wait.rest = req[c].wait.span]
      /\ call' = [call EXCEPT ![c].waited = 0]
  BY DEF StreamGoesOn
<1>2. [req[c].wait EXCEPT !.rest = req[c].wait.span] \in Waiting /\ 0 \in 0..ClientTimeout
  <2>1. req[c].wait \in Waiting /\ req[c].wait.span \in 0..MaxSpan
    BY SpanTypes DEF ProxyInv, ProxyTypes, ReqStates, Waiting
  <2> QED BY <2>1, ConstantTypes DEF Waiting
<1>3. ProxyTypes'
  <2>1. call' \in [Clients -> CallStates]
    <3>1. call \in [Clients -> CallStates] /\ [call[c] EXCEPT !.waited = 0] \in CallStates
      BY <1>2 DEF ProxyInv, ProxyTypes, CallStates
    <3>2. call' = [call EXCEPT ![c] = [call[c] EXCEPT !.waited = 0]]
      BY <1>1
    <3> QED BY <3>1, <3>2
  <2>2. req' \in [Clients -> ReqStates]
    <3> DEFINE w == [req[c].wait EXCEPT !.rest = req[c].wait.span]
    <3>1. req \in [Clients -> ReqStates] /\ w \in Waiting
      BY <1>2 DEF ProxyInv, ProxyTypes
    <3>2. req' = [req EXCEPT ![c] = [req[c] EXCEPT !.wait = w]]
      BY <1>1
    <3> HIDE DEF w
    <3> QED BY <3>1, <3>2 DEF ReqStates
  <2> QED BY <1>1, <2>1, <2>2 DEF ProxyInv, ProxyTypes, fileVars, cacheVars
<1>4. /\ call'[c].waited = 0 /\ req'[c].phase = "streaming" /\ reading' = reading
      /\ \A d \in Clients \ {c} : call'[d] = call[d] /\ req'[d] = req[d]
  BY <1>1 DEF ProxyInv, ProxyTypes, CallStates, ReqStates, cacheVars
<1>5. \A d \in Clients : call'[d].waited <= call[d].waited
  <2>1. \A d \in Clients : call[d].waited <= call[d].waited /\ call[d].waited >= 0
    BY ConstantTypes DEF ProxyInv, ProxyTypes, CallStates
  <2> QED BY <1>4, <2>1
<1>6. RestsWait' /\ Spaced' /\ Finite'
  BY <1>1, <1>3, <1>4, <1>5, QuietKeeps DEF ProxyInv, RestsWait
<1> QED BY <1>1, <1>3, <1>6, CacheStays DEF ProxyInv

(* A file of the same mtime keeps the cache: what it replaced is gone for  *)
(* no time yet.                                                            *)
LEMMA JobKeeps == ASSUME ProxyInv, JobWrites PROVE ProxyInv'
<1>1. PICK url \in Contents \ {file.url} :
         /\ file' = [url |-> url, fresh |-> TRUE, tied |-> file.fresh]
         /\ gone' = [u \in Urls |-> IF u = file.url THEN 0 ELSE gone[u]]
         /\ cache' = [cache EXCEPT !.match = @ /\ file.fresh]
         /\ UNCHANGED <<reading, call, req, left>>
  BY DEF JobWrites
<1>2. ProxyTypes'
  <2>1. file' \in [url : Contents, fresh : BOOLEAN, tied : BOOLEAN]
    BY <1>1 DEF ProxyInv, ProxyTypes
  <2>2. gone' \in [Urls -> 0..Ttl]
    BY <1>1, ConstantTypes DEF ProxyInv, ProxyTypes
  <2>3. cache' \in [url : Urls \cup {NoUrl}, age : 0..Ttl, match : BOOLEAN]
    BY <1>1 DEF ProxyInv, ProxyTypes
  <2> QED BY <1>1, <2>1, <2>2, <2>3 DEF ProxyInv, ProxyTypes
<1>3. CacheIsRecent'
  <2> SUFFICES ASSUME cache'.match, cache'.url \in Urls
               PROVE  file'.tied /\ gone'[cache'.url] <= cache'.age
    BY DEF CacheIsRecent
  <2>1. /\ cache.match /\ file.fresh /\ cache'.url = cache.url
        /\ cache'.age = cache.age /\ cache.age \in Nat
    BY <1>1, ConstantTypes DEF ProxyInv, ProxyTypes
  <2>2. cache.url = file.url \/ gone[cache.url] <= cache.age
    BY <2>1 DEF ProxyInv, CacheIsRecent
  <2> QED BY <1>1, <2>1, <2>2
<1>4. RestsWait' /\ Spaced' /\ Finite'
  BY <1>1 DEF ProxyInv, RestsWait, Spaced, Finite
<1> QED BY <1>2, <1>3, <1>4 DEF ProxyInv

LEMMA TickTypes ==
    ASSUME ProxyInv, Tick
    PROVE  /\ ProxyTypes' /\ CacheIsRecent'
           /\ \A c \in Clients :
                 /\ \A w \in Waiting : w.rest = 0 => left[c][w] = 0
                 /\ left'[c] = Passed(left[c])
                 /\ call'[c].state = call[c].state
                 /\ call'[c].waited <= call[c].waited + 1
<1>1. /\ \A c \in Clients :
            /\ ~Expired(c) /\ req[c].phase # "received"
            /\ AtUpstream(c) => ~TimedOut(req[c].wait)
            /\ \A w \in Waiting : TimedOut(w) => left[c][w] = 0
      /\ file' = [file EXCEPT !.fresh = FALSE]
      /\ gone' = [u \in Urls |-> Older(gone[u], Ttl)]
      /\ cache' = [cache EXCEPT !.age = Older(@, Ttl)]
      /\ UNCHANGED reading
  BY DEF Tick
<1>2. /\ call' = [c \in Clients |->
                    IF call[c].state # "waiting" THEN call[c]
                    ELSE [call[c] EXCEPT !.waited = Older(@, ClientTimeout)]]
      /\ req' = [c \in Clients |->
                   IF AtUpstream(c) /\ req[c].wait.rest > 0
                   THEN [req[c] EXCEPT !.wait = Later(@)]
                   ELSE req[c]]
      /\ left' = [c \in Clients |-> Passed(left[c])]
  BY DEF Tick, Passed, Later
<1>3. \A c \in Clients, w \in Waiting : w.rest = 0 => left[c][w] = 0
  BY <1>1 DEF TimedOut
<1>4. left' \in [Clients -> [Waiting -> Nat]]
  BY <1>2, <1>3, TimePasses, ConstantTypes DEF ProxyInv, ProxyTypes
<1>5. \A c \in Clients : /\ call'[c] \in CallStates
                         /\ call'[c].state = call[c].state
                         /\ call'[c].waited <= call[c].waited + 1
  <2> SUFFICES ASSUME NEW c \in Clients
               PROVE  /\ call'[c] \in CallStates /\ call'[c].state = call[c].state
                      /\ call'[c].waited <= call[c].waited + 1
    OBVIOUS
  <2>1. call[c] \in CallStates
    BY DEF ProxyInv, ProxyTypes
  <2>2. Older(call[c].waited, ClientTimeout) \in 0..ClientTimeout
        /\ Older(call[c].waited, ClientTimeout) <= call[c].waited + 1
    BY <2>1, OlderType, ConstantTypes DEF CallStates
  <2>3. call[c].waited <= call[c].waited + 1
    BY <2>1, ConstantTypes DEF CallStates
  <2> QED BY <1>2, <2>1, <2>2, <2>3 DEF CallStates
<1>6. req' \in [Clients -> ReqStates]
  <2>1. \A c \in Clients : req[c] \in ReqStates
    BY DEF ProxyInv, ProxyTypes
  <2>2. \A c \in Clients : req[c].wait.rest > 0 => Later(req[c].wait) \in Waiting
    BY <2>1, OneLater DEF ReqStates
  <2> QED BY <1>2, <2>1, <2>2 DEF ReqStates
<1>7. gone' \in [Urls -> 0..Ttl]
      /\ cache' \in [url : Urls \cup {NoUrl}, age : 0..Ttl, match : BOOLEAN]
  BY <1>1, OlderType, ConstantTypes DEF ProxyInv, ProxyTypes
<1>8. CacheIsRecent'
  <2> SUFFICES ASSUME cache'.match, cache'.url \in Urls, cache'.url # file'.url
               PROVE  file'.tied /\ gone'[cache'.url] <= cache'.age
    BY DEF CacheIsRecent
  <2>1. /\ cache.match /\ cache'.url = cache.url /\ file'.url = file.url
        /\ file'.tied = file.tied
        /\ cache'.age = Older(cache.age, Ttl)
        /\ gone'[cache.url] = Older(gone[cache.url], Ttl)
        /\ cache.age \in 0..Ttl /\ gone[cache.url] \in 0..Ttl
    BY <1>1 DEF ProxyInv, ProxyTypes
  <2>2. file.tied /\ gone[cache.url] <= cache.age
    BY <2>1 DEF ProxyInv, CacheIsRecent
  <2>3. Older(gone[cache.url], Ttl) <= Older(cache.age, Ttl)
    BY <2>1, <2>2, ConstantTypes DEF Older
  <2> QED BY <2>1, <2>2, <2>3
<1>9. ProxyTypes'
  <2>1. call' \in [Clients -> CallStates]
    BY <1>2, <1>5
  <2>2. file' \in [url : Contents, fresh : BOOLEAN, tied : BOOLEAN]
    BY <1>1 DEF ProxyInv, ProxyTypes
  <2> QED BY <1>1, <1>4, <1>6, <1>7, <2>1, <2>2 DEF ProxyInv, ProxyTypes
<1> QED BY <1>2, <1>3, <1>5, <1>8, <1>9

(* In a tick everyone waits longer, and everything has less left.          *)
LEMMA TickKeeps == ASSUME ProxyInv, Tick PROVE ProxyInv'
<1>1. /\ ProxyTypes' /\ CacheIsRecent'
      /\ \A c \in Clients :
            /\ left[c] \in [Waiting -> Nat]
            /\ \A w \in Waiting : w.rest = 0 => left[c][w] = 0
            /\ left'[c] = Passed(left[c])
            /\ call'[c].waited <= call[c].waited + 1
  BY TickTypes DEF ProxyInv, ProxyTypes
<1>2. RestsWait'
  <2> SUFFICES ASSUME NEW c \in Clients
               PROVE  /\ req'[c].phase # "received" /\ reading' # c
                      /\ req'[c].phase = "upstream" =>
                           Most(req'[c].wait) + call'[c].waited <= Longest
    BY DEF RestsWait
  <2>1. /\ req[c].phase # "received" /\ reading' = reading
        /\ AtUpstream(c) => req[c].wait.rest # 0
        /\ req' = [d \in Clients |->
                     IF AtUpstream(d) /\ req[d].wait.rest > 0
                     THEN [req[d] EXCEPT !.wait = Later(@)]
                     ELSE req[d]]
    BY DEF Tick, TimedOut, Later
  <2>2. req[c] \in ReqStates /\ req[c].wait \in Waiting /\ req[c].wait.rest \in Nat
        /\ Most(req[c].wait) \in Nat
    <3>1. req[c] \in ReqStates
      BY DEF ProxyInv, ProxyTypes
    <3>2. req[c].wait \in Waiting
      BY <3>1 DEF ReqStates
    <3>3. req[c].wait.rest \in 0..MaxSpan
      BY <3>2 DEF Waiting
    <3>4. req[c].wait.rest \in Nat
      BY <3>3, SpanTypes
    <3>5. Most(req[c].wait) \in Nat
      BY <3>2, MostTypes, ConstantTypes
    <3> QED BY <3>1, <3>2, <3>4, <3>5
  <2>3. req'[c].phase = req[c].phase
    BY <2>1, <2>2 DEF ReqStates
  <2>4. ASSUME req[c].phase = "upstream"
        PROVE  Most(req'[c].wait) + call'[c].waited <= Longest
    <3>1. req[c].wait.rest > 0 /\ req'[c].wait = Later(req[c].wait)
      BY <2>1, <2>2, <2>4 DEF AtUpstream, ReqStates
    <3>4. Most(req'[c].wait) = Most(req[c].wait) - 1
      BY <2>2, <3>1, OneLater
    <3>2. Most(req[c].wait) + call[c].waited <= Longest
      BY <2>4 DEF ProxyInv, RestsWait
    <3>3. call[c].waited \in Nat /\ call'[c].waited \in Nat
      BY <1>1, ConstantTypes DEF ProxyInv, ProxyTypes, CallStates
    <3> QED BY <1>1, <2>2, <3>2, <3>3, <3>4, ConstantTypes
  <2> QED BY <2>1, <2>3, <2>4 DEF ProxyInv, RestsWait
<1>3. ASSUME NEW c \in Clients, NEW r \in Times
      PROVE  /\ IsFiniteSet(OpenFrom(left'[c], r))
             /\ OpenFrom(left'[c], r) # {} =>
                  /\ r + 1 \in Times /\ OpenFrom(left[c], r + 1) # {}
                  /\ Cardinality(OpenFrom(left'[c], r))
                       = Cardinality(OpenFrom(left[c], r + 1))
  <2>0. /\ left[c] \in [Waiting -> Nat] /\ left'[c] = Passed(left[c])
        /\ \A w \in Waiting : w.rest = 0 => left[c][w] = 0
    BY <1>1, Zenon
  <2>1. CASE r = Longest
    <3>1. OpenFrom(Passed(left[c]), r) = {}
      BY <2>0, <2>1, TimePasses
    <3> QED BY <2>0, <3>1, FS_EmptySet
  <2>2. CASE r # Longest
    <3> DEFINE A == OpenFrom(left[c], r + 1)
               B == OpenFrom(left'[c], r)
    <3>1. r + 1 \in Times /\ ExistsBijection(A, B)
      <4>1. r + 1 \in Times
            /\ ExistsBijection(OpenFrom(left[c], r + 1), OpenFrom(Passed(left[c]), r))
        BY <2>0, <2>2, TimePasses
      <4> QED BY <2>0, <4>1
    <3>2. IsFiniteSet(A)
      BY <3>1 DEF ProxyInv, Finite
    <3> HIDE DEF A, B
    <3>3. IsFiniteSet(B) /\ Cardinality(B) = Cardinality(A)
      BY <3>1, <3>2, FS_Bijection
    <3>4. B # {} => A # {}
      <4>1. PICK f \in [A -> B] : \A y \in B : \E x \in A : f[x] = y
        BY <3>1, Zenon DEF ExistsBijection, Bijection, Surjection
      <4> QED BY <4>1
    <3> QED BY <3>1, <3>3, <3>4 DEF A, B
  <2> QED BY <2>1, <2>2
<1>4. Finite'
  BY <1>3 DEF Finite
<1>5. Spaced'
  <2> SUFFICES ASSUME NEW c \in Clients, NEW r \in Times, OpenFrom(left'[c], r) # {}
               PROVE  r + Cardinality(OpenFrom(left'[c], r)) * ClientTimeout
                        + call'[c].waited <= Longest
    BY DEF Spaced
  <2> DEFINE n == Cardinality(OpenFrom(left[c], r + 1))
  <2>1. /\ r + 1 \in Times /\ OpenFrom(left[c], r + 1) # {}
        /\ Cardinality(OpenFrom(left'[c], r)) = n
    BY <1>3
  <2>2. (r + 1) + n * ClientTimeout + call[c].waited <= Longest
    BY <2>1 DEF ProxyInv, Spaced
  <2>3. n \in Nat
    BY <2>1, FS_CardinalityType DEF ProxyInv, Finite
  <2> DEFINE p == n * ClientTimeout
  <2>4. p \in Nat /\ r \in Nat /\ call[c].waited \in Nat /\ call'[c].waited \in Nat
        /\ Longest \in Nat
    <3>1. p \in Nat
      BY <2>3, ConstantTypes
    <3>2. call[c] \in CallStates /\ call'[c] \in CallStates
      BY <1>1 DEF ProxyInv, ProxyTypes
    <3> HIDE DEF p
    <3> QED BY <3>1, <3>2, ConstantTypes DEF CallStates
  <2>5. (r + 1) + p + call[c].waited <= Longest
    BY <2>2
  <2> HIDE DEF p
  <2>6. r + p + call'[c].waited <= Longest
    BY <1>1, <2>4, <2>5
  <2> QED BY <2>1, <2>6 DEF p
<1> QED BY <1>1, <1>2, <1>4, <1>5 DEF ProxyInv

LEMMA ProxyNextInv == ProxyInv /\ [ProxyNext]_proxyVars => ProxyInv'
<1> SUFFICES ASSUME ProxyInv, [ProxyNext]_proxyVars PROVE ProxyInv'
  OBVIOUS
<1>1. CASE UNCHANGED proxyVars
  BY <1>1 DEF ProxyInv, ProxyTypes, CacheIsRecent, RestsWait, Spaced, Finite, proxyVars,
     fileVars, cacheVars
<1>2. ASSUME NEW c \in Clients, StartCall(c) \/ Retry(c) PROVE ProxyInv'
  <2>1. \A route \in Routes, stream \in BOOLEAN :
           [Idle EXCEPT !.route = route, !.stream = stream] \in CallStates
    BY ConstantTypes DEF Idle, CallStates
  <2>2. call[c] \in CallStates
    BY DEF ProxyInv, ProxyTypes
  <2> QED BY <1>2, <2>1, <2>2, PostKeeps DEF StartCall, Retry
<1>3. ASSUME NEW c \in Clients, Refuse(c) PROVE ProxyInv'
  <2>1. reading # c /\ UNCHANGED <<fileVars, cacheVars, left>> /\ Answer(c, FALSE)
    BY <1>3, ProxyAssumption DEF Refuse, UnknownModel, Unset, Stubbed, Served
  <2> QED BY <2>1, PlainAnswerKeeps
<1>4. ASSUME NEW c \in Clients, ForwardToGateway(c) PROVE ProxyInv'
  <2>1. /\ req[c].phase = "received" /\ reading = NoClient
        /\ UNCHANGED <<fileVars, cacheVars, left>> /\ Forward(c)
    BY <1>4 DEF ForwardToGateway, Served
  <2>2. ProxyTypes' /\ reading' = NoClient
    BY <2>1, ForwardTypes DEF ProxyInv, ProxyTypes, fileVars, cacheVars
  <2> QED BY <2>1, <2>2, CacheStays, ForwardKeeps
<1>5. ASSUME NEW c \in Clients, UpstreamAnswers(c) \/ StreamEnds(c) PROVE ProxyInv'
  <2>1. reading # c /\ UNCHANGED <<fileVars, cacheVars, left>>
        /\ \E ok \in BOOLEAN : Answer(c, ok)
    BY <1>5 DEF UpstreamAnswers, StreamEnds, ProxyInv, RestsWait
  <2> QED BY <2>1, PlainAnswerKeeps
<1>6. ASSUME NEW c \in Clients, LeftAnswers(c) \/ UpstreamTimesOut(c) PROVE ProxyInv'
  <2>1. CASE /\ reading # c /\ Answer(c, FALSE)
             /\ UNCHANGED <<fileVars, cacheVars, left>>
    BY <2>1, PlainAnswerKeeps
  <2>2. CASE \E w \in Waiting : left[c][w] > 0 /\ left' = [left EXCEPT ![c][w] = @ - 1]
                              /\ UNCHANGED <<fileVars, cacheVars, call, req>>
    BY <2>2, LeftKeeps
  <2> QED BY <1>6, <2>1, <2>2
          DEF LeftAnswers, UpstreamTimesOut, AtUpstream, ProxyInv, RestsWait
<1> QED BY <1>1, <1>2, <1>3, <1>4, <1>5, <1>6, GiveUpKeeps, StatKeeps, ReadKeeps,
           RequestGoesKeeps, LeftGoesKeeps, StreamKeeps, JobKeeps, TickKeeps DEF ProxyNext, ProxyStep

-----------------------------------------------------------------------------
(* However often clients give up and try again, and however slowly the     *)
(* upstream takes and answers what it is sent, no more of the plain        *)
(* requests of one are open upstream than begin while one can stay open:   *)
(* the longest of the upstream timeouts once for each wait of a request.   *)
THEOREM OpenIsBounded == ProxySpec => []PileUpBounded
<1>1. ProxyInv => PileUpBounded
  <2> SUFFICES ASSUME ProxyInv, NEW c \in Clients
               PROVE  OpenPlain(c) <= Longest \div ClientTimeout + 1
    BY DEF PileUpBounded
  <2> DEFINE n == Cardinality(OpenFrom(left[c], 0))
             q == Longest \div ClientTimeout
  <2>1. 0 \in Times /\ n \in Nat /\ Longest \in Nat /\ ClientTimeout \in Nat \ {0}
        /\ call[c].waited \in Nat
    BY ConstantTypes, FS_CardinalityType DEF ProxyInv, Finite, ProxyTypes, CallStates
  <2>2. n * ClientTimeout <= Longest
    <3>1. CASE OpenFrom(left[c], 0) = {}
      <4>1. n = 0
        BY <3>1, FS_EmptySet
      <4> HIDE DEF n
      <4> QED BY <2>1, <4>1
    <3>2. CASE OpenFrom(left[c], 0) # {}
      <4>1. 0 + n * ClientTimeout + call[c].waited <= Longest
        BY <2>1, <3>2 DEF ProxyInv, Spaced
      <4>2. n * ClientTimeout \in Nat
        BY <2>1
      <4> HIDE DEF n
      <4> QED BY <2>1, <4>1, <4>2
    <3> QED BY <3>1, <3>2
  <2> HIDE DEF n
  <2>3. n <= q
    BY <2>1, <2>2
  <2>4. q \in Nat
    BY <2>1
  <2> HIDE DEF q
  <2> QED BY <2>1, <2>3, <2>4 DEF OpenPlain, n, q
<1> QED BY ProxyInitInv, ProxyNextInv, <1>1, PTL DEF ProxySpec

(* A request of the managed route that was received is forwarded by the    *)
(* cached answer or by the read, and by nothing else.                      *)
LEMMA ForwardedBy ==
    ASSUME ProxyInv, [ProxyNext]_proxyVars, NEW c \in Clients,
           req[c].phase = "received", call[c].route = "managed",
           req'[c].phase \in {"upstream", "streaming"}
    PROVE  Stat(c) \/ Read(c)
<1>1. req'[c] # req[c] /\ ~Tick /\ ~JobWrites /\ ~UNCHANGED proxyVars
  BY DEF Tick, JobWrites, proxyVars
<1>2. PICK d \in Clients :
         \/ StartCall(d) \/ Retry(d) \/ ClientGivesUp(d) \/ ProxyStep(d)
         \/ UpstreamAnswers(d) \/ LeftAnswers(d)
         \/ RequestGoesOn(d) \/ LeftGoesOn(d)
         \/ StreamGoesOn(d) \/ StreamEnds(d)
  BY <1>1 DEF ProxyNext
<1>3. d = c
  <2> SUFFICES ASSUME d # c PROVE req'[c] = req[c]
    BY <1>1
  <2>1. \A k : Post(d, k) => req'[c] = req[c]
    BY DEF Post, ProxyInv, ProxyTypes
  <2>2. \A ok : Answer(d, ok) => req'[c] = req[c]
    BY DEF Answer, ProxyInv, ProxyTypes
  <2>3. Forward(d) => req'[c] = req[c]
    BY DEF Forward, ProxyInv, ProxyTypes
  <2>4. StartCall(d) \/ Retry(d) => req'[c] = req[c]
    BY <2>1 DEF StartCall, Retry
  <2>5. ClientGivesUp(d) \/ LeftAnswers(d) \/ RequestGoesOn(d) \/ LeftGoesOn(d)
        \/ StreamGoesOn(d) => req'[c] = req[c]
    BY DEF ClientGivesUp, LeftAnswers, RequestGoesOn, LeftGoesOn, StreamGoesOn,
           ProxyInv, ProxyTypes
  <2>6. Stat(d) \/ Read(d) \/ ForwardToGateway(d) => req'[c] = req[c]
    BY <2>2, <2>3 DEF Stat, Read, ForwardToGateway, ForwardTo
  <2>7. Refuse(d) \/ UpstreamTimesOut(d) \/ UpstreamAnswers(d) \/ StreamEnds(d)
        => req'[c] = req[c]
    BY <2>2 DEF Refuse, UpstreamTimesOut, UpstreamAnswers, StreamEnds
  <2> QED BY <1>2, <2>4, <2>5, <2>6, <2>7 DEF ProxyStep
<1>4. call[c].state = "waiting" /\ call[c].waited = 0
  BY DEF ProxyInv, RestsWait
<1>5. ~StartCall(c) /\ ~Retry(c)
  BY <1>4 DEF StartCall, Retry
<1>6. ~ClientGivesUp(c)
  BY <1>4, ConstantTypes DEF ClientGivesUp, Expired
<1>7. ~Refuse(c) /\ ~ForwardToGateway(c)
  BY DEF Refuse, UnknownModel, Unset, Stubbed, Served, ForwardToGateway
<1>8. /\ ~UpstreamAnswers(c) /\ ~LeftAnswers(c) /\ ~RequestGoesOn(c)
      /\ ~LeftGoesOn(c) /\ ~StreamGoesOn(c) /\ ~StreamEnds(c)
      /\ ~UpstreamTimesOut(c)
  BY <1>1 DEF UpstreamAnswers, LeftAnswers, RequestGoesOn, LeftGoesOn, StreamGoesOn,
              StreamEnds, UpstreamTimesOut, AtUpstream
<1> QED BY <1>2, <1>3, <1>5, <1>6, <1>7, <1>8 DEF ProxyStep

(* A managed request is forwarded to the url the file advertises, or to    *)
(* one it replaced less than a ttl ago by a file of the same mtime,        *)
(* whatever the job writes between a stat and a read.                      *)
THEOREM UrlIsFresh == ProxySpec => FreshUrl
<1> DEFINE Fresh ==
      \A c \in Clients :
         /\ req[c].phase = "received" /\ call[c].route = "managed"
         /\ req'[c].phase \in {"upstream", "streaming"}
         => \/ Discovered(c) = file.url
            \/ file.tied /\ gone[Discovered(c)] < Ttl
<1>1. ProxyInv /\ [ProxyNext]_proxyVars => [Fresh]_proxyVars
  <2> SUFFICES ASSUME ProxyInv, [ProxyNext]_proxyVars, NEW c \in Clients,
                      req[c].phase = "received", call[c].route = "managed",
                      req'[c].phase \in {"upstream", "streaming"},
                      Discovered(c) # file.url
               PROVE  file.tied /\ gone[Discovered(c)] < Ttl
    OBVIOUS
  <2>1. reading # c /\ file.url # Missing /\ Discovered(c) = cache.url
    BY DEF Discovered
  <2>2. Stat(c)
    BY <2>1, ForwardedBy DEF Read
  <2>3. CacheHit /\ ForwardTo(c, cache.url)
    BY <2>1, <2>2 DEF Stat
  <2>4. cache.url \in Urls
    <3>1. SUFFICES ASSUME Answer(c, FALSE) PROVE FALSE
      BY <2>3 DEF ForwardTo
    <3>2. req' = [req EXCEPT ![c] = NoReq]
      BY <3>1 DEF Answer
    <3> QED BY <3>2 DEF NoReq, ProxyInv, ProxyTypes
  <2>5. file.tied /\ gone[cache.url] <= cache.age
    BY <2>1, <2>3, <2>4 DEF ProxyInv, CacheIsRecent, CacheHit
  <2>6. gone[cache.url] \in Nat /\ cache.age \in Nat /\ cache.age < Ttl
    BY <2>3, <2>4, ConstantTypes DEF CacheHit, ProxyInv, ProxyTypes
  <2> QED BY <2>1, <2>5, <2>6, ConstantTypes
<1> QED BY ProxyInitInv, ProxyNextInv, <1>1, PTL DEF ProxySpec, FreshUrl
=============================================================================
