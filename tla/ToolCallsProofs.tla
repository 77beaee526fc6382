-------------------------- MODULE ToolCallsProofs --------------------------
(***************************************************************************)
(* What ToolCalls guarantees for any number of invocations and calls, in   *)
(* one process or several, with any number of faults and interrupts.       *)
(*                                                                         *)
(* The argument for the decisions does not rest on the lease: every step   *)
(* that decides on an output looks at the call in the transaction that     *)
(* records the decision, and a call seen in TC3 or TC4 has no decision yet. *)
(***************************************************************************)
EXTENDS ToolCalls, WellFoundedInduction, SequenceTheorems, TLAPS

-----------------------------------------------------------------------------
(* The operators the model is built from. *)

\* The least of some calls is one of them.
LEMMA MinIn ==
  ASSUME NEW S, S \subseteq Nat, S # {}
  PROVE  Min(S) \in S
<1>1. PICK x \in S : \A y \in S : ~(<<y, x>> \in OpToRel(<, Nat))
  BY WFMin, NatLessThanWellFounded, Zenon
<1>2. \A y \in S : ~(y < x)
  BY <1>1, Zenon DEF OpToRel
<1>3. \A y \in S : x <= y
  BY <1>2
<1> QED
  BY <1>3 DEF Min

\* A call in any state but TC6 is unpublished, and in TC5 exactly if decided.
LEMMA StateDecision ==
  ASSUME NEW t
  PROVE  /\ StateOf(t) \in States
         /\ StateOf(t) = "TC5" <=> ~t.published /\ t.decision # "none"
         /\ StateOf(t) \in {"TC1", "TC2.1", "TC2.2", "TC3", "TC4"} => t.decision = "none"
BY DEF StateOf, States

LEMMA ObserveTyped ==
  ASSUME NEW t \in Call
  PROVE  /\ Observe(t) \in Observation
         /\ Observe(t).state = "TC5" => Observe(t).decision # "none"
BY StateDecision DEF Observe, Observation, Call

\* A call whose field gets a value of its type is a call.
LEMMA FieldTyped ==
  ASSUME NEW t \in Call
  PROVE  /\ \A x \in {"none", "granted", "denied"} : [t EXCEPT !.approval = x] \in Call
         /\ \A x \in BOOLEAN : [t EXCEPT !.started = x] \in Call
         /\ \A x \in Invocations \cup {NoInvocation} : [t EXCEPT !.by = x] \in Call
         /\ \A x \in BOOLEAN : [t EXCEPT !.lost = x] \in Call
         /\ \A x \in {"none", "success", "error", "interrupted"} : [t EXCEPT !.finished = x] \in Call
         /\ \A x \in BOOLEAN : [t EXCEPT !.durable = x] \in Call
         /\ \A x \in Decisions : [t EXCEPT !.decision = x] \in Call
         /\ \A x \in {"nobody", "automatic", "user", "explicit"} : [t EXCEPT !.decider = x] \in Call
         /\ \A x \in BOOLEAN : [t EXCEPT !.published = x] \in Call
         /\ \A x \in BOOLEAN : [t EXCEPT !.named = x] \in Call
         /\ \A x \in Nat : [t EXCEPT !.version = x] \in Call
<1>1. \A x \in {"none", "granted", "denied"} : [t EXCEPT !.approval = x] \in Call
  BY DEF Call
<1>2. \A x \in BOOLEAN : [t EXCEPT !.started = x] \in Call
  BY DEF Call
<1>3. \A x \in Invocations \cup {NoInvocation} : [t EXCEPT !.by = x] \in Call
  BY DEF Call
<1>4. \A x \in BOOLEAN : [t EXCEPT !.lost = x] \in Call
  BY DEF Call
<1>5. \A x \in {"none", "success", "error", "interrupted"} : [t EXCEPT !.finished = x] \in Call
  BY DEF Call
<1>6. \A x \in BOOLEAN : [t EXCEPT !.durable = x] \in Call
  BY DEF Call
<1>7. \A x \in Decisions : [t EXCEPT !.decision = x] \in Call
  BY DEF Call
<1>8. \A x \in {"nobody", "automatic", "user", "explicit"} : [t EXCEPT !.decider = x] \in Call
  BY DEF Call
<1>9. \A x \in BOOLEAN : [t EXCEPT !.published = x] \in Call
  BY DEF Call
<1>10. \A x \in BOOLEAN : [t EXCEPT !.named = x] \in Call
  BY DEF Call
<1>11. \A x \in Nat : [t EXCEPT !.version = x] \in Call
  BY DEF Call
<1> QED
  BY <1>1, <1>2, <1>3, <1>4, <1>5, <1>6, <1>7, <1>8, <1>9, <1>10, <1>11

\* Every effect an event has on a call makes a call of it.
LEMMA DecidedTyped ==
  ASSUME NEW t \in Call,
         NEW d \in {"whole", "omit"}, NEW by \in {"automatic", "user", "explicit"},
         NEW a \in {"granted", "denied"}
  PROVE  Decided(t, d, by) \in Call /\ Approved(t, a) \in Call
<1>0. t.version + 1 \in Nat /\ t.finished \in {"none", "success", "error", "interrupted"}
  BY DEF Call
<1>1. Decided(t, d, by) \in Call
  <2>1. [t EXCEPT !.decision = d, !.decider = by] \in Call
    BY FieldTyped DEF Decisions
  <2>2. [t EXCEPT !.decision = d, !.decider = by, !.named = TRUE, !.version = @ + 1] \in Call
    BY <1>0, <2>1, FieldTyped
  <2> QED
    BY <1>0, <2>2, FieldTyped DEF Decided
<1>2. Approved(t, a) \in Call
  BY <1>0, FieldTyped DEF Approved
<1> QED
  BY <1>1, <1>2

LEMMA EffectsTyped ==
  ASSUME NEW t \in Call, NEW i \in Invocations,
         NEW r \in {"success", "error", "interrupted"},
         NEW d \in {"whole", "omit"}
  PROVE  /\ Started(t, i) \in Call /\ Resumed(t, i) \in Call
         /\ Finished(t, r) \in Call /\ Decided(t, d, "automatic") \in Call
         /\ Published(t) \in Call
<1>0. t.version + 1 \in Nat /\ t.finished \in {"none", "success", "error", "interrupted"}
  BY DEF Call
<1>1. Started(t, i) \in Call
  <2>1. [t EXCEPT !.started = TRUE, !.by = i] \in Call
    BY FieldTyped
  <2>2. [t EXCEPT !.started = TRUE, !.by = i, !.lost = FALSE, !.named = TRUE] \in Call
    BY <2>1, FieldTyped
  <2> QED
    BY <1>0, <2>2, FieldTyped DEF Started
<1>2. Resumed(t, i) \in Call
  <2>1. [Started(t, i) EXCEPT !.finished = "none", !.durable = FALSE] \in Call
    BY <1>1, FieldTyped
  <2> QED
    BY <2>1, FieldTyped DEF Resumed, Decisions
<1>3. Finished(t, r) \in Call
  <2>1. [t EXCEPT !.finished = r, !.durable = TRUE] \in Call
    BY FieldTyped
  <2> QED
    BY <1>0, <2>1, FieldTyped DEF Finished
<1>4. Decided(t, d, "automatic") \in Call
  BY DecidedTyped
<1>5. Published(t) \in Call
  BY FieldTyped DEF Published
<1> QED
  BY <1>1, <1>2, <1>3, <1>4, <1>5

LEMMA OwnerGoneTyped ==
  ASSUME calls \in [Calls -> Call], NEW i, NEW recovery \in BOOLEAN
  PROVE  OwnerGone(i, recovery) \in [Calls -> Call]
<1>1. ASSUME NEW c \in Calls
      PROVE  [calls[c] EXCEPT !.finished = IF @ = "none" THEN "interrupted" ELSE @,
                              !.lost = @ \/ recovery] \in Call
  <2>1. (IF calls[c].finished = "none" THEN "interrupted" ELSE calls[c].finished)
          \in {"none", "success", "error", "interrupted"}
    BY DEF Call
  <2>2. (calls[c].lost \/ recovery) \in BOOLEAN
    OBVIOUS
  <2> QED
    BY <2>1, <2>2, FieldTyped
<1> QED
  BY <1>1 DEF OwnerGone

\* A look at some calls, and the plan made of it.
Decidedly(seen) == \A c \in DOMAIN seen : seen[c].state = "TC5" => seen[c].decision # "none"

LEMMA ObserveAllTyped ==
  ASSUME calls \in [Calls -> Call], NEW cs, cs \subseteq Calls
  PROVE  /\ Seeing(ObserveAll(cs)) /\ Decidedly(ObserveAll(cs))
         /\ DOMAIN ObserveAll(cs) = cs
BY ObserveTyped DEF ObserveAll, Seeing, Decidedly

LEMMA ActionableTyped ==
  ASSUME calls \in [Calls -> Call]
  PROVE  Planned(Actionable) /\ Decidedly(Actionable.seen)
<1>1. ASSUME NEW mode \in {"tools", "orphaned", "stranded"}, NEW chosen,
             NEW cs, cs \subseteq Calls
      PROVE  Planned(Batch(mode, chosen, cs)) /\ Decidedly(Batch(mode, chosen, cs).seen)
  <2>1. SameParent(Min(chosen), cs) \subseteq Calls
    BY <1>1 DEF SameParent
  <2> QED
    BY <2>1, ObserveAllTyped DEF Batch, Planned
<1>2. Planned(NoPlan) /\ Decidedly(NoPlan.seen)
  BY ObserveAllTyped DEF NoPlan, Planned
<1> DEFINE orphans == {c \in Calls : Orphaned(c)}
           stranded == {c \in Calls : Stranded(c)}
           user == {c \in UserCalls : Runnable(c)}
           assistant == {c \in Calls \ UserCalls : Runnable(c)}
           undecided == stranded \cup {c \in Calls : State(c) = "TC5"}
<1>3. /\ orphans \subseteq Calls /\ user \subseteq Calls /\ assistant \subseteq Calls
      /\ undecided \subseteq Calls
  BY CallsAssumption
<1>4. Actionable \in {Batch("orphaned", orphans, orphans), Batch("stranded", stranded, undecided),
                      Batch("tools", user, user), Batch("tools", assistant, assistant), NoPlan}
  BY DEF Actionable
<1> HIDE DEF orphans, stranded, user, assistant, undecided
<1> QED
  BY <1>1, <1>2, <1>3, <1>4

-----------------------------------------------------------------------------
(* The inductive invariant: TypeOK, and what it needs of the plans.        *)

\* A fresh invocation has begun nothing; what a plan saw in TC5 was decided.
PlansSound ==
  \A i \in Invocations : /\ phase[i] = "new" => at[i] = "next"
                         /\ Decidedly(plan[i].seen)

IInv == TypeOK /\ PlansSound

(* The conjuncts of IInv that a step touches together. *)

WorkOf(p, q, cs, a) ==
  /\ p \in {"new", "planned", "working", "closing", "closed", "ended"}
  /\ Planned(q) /\ Decidedly(q.seen)
  /\ cs \subseteq DOMAIN q.seen
  /\ a \in {"next", "resumed", "running", "deciding"}
  /\ a # "next" => cs # {}
  /\ p = "new" => a = "next"

WorkTyped ==
  /\ phase = [i \in Invocations |-> phase[i]] /\ plan = [i \in Invocations |-> plan[i]]
  /\ todo = [i \in Invocations |-> todo[i]] /\ at = [i \in Invocations |-> at[i]]
  /\ \A i \in Invocations : WorkOf(phase[i], plan[i], todo[i], at[i])

CallsTyped == calls \in [Calls -> Call]

LeaseTyped == owner \in Invocations \cup {NoInvocation} /\ live \in BOOLEAN

CancelTyped ==
  /\ cancel = [seen |-> cancel.seen, owes |-> cancel.owes, keeps |-> cancel.keeps]
  /\ Seeing(cancel.seen) /\ cancel.owes \subseteq Calls /\ cancel.keeps \in BOOLEAN

RecordTyped ==
  /\ executions \in [Calls -> Nat]
  /\ results \in [Calls -> Seq({"denied", "whole", "omit", "cancelled"})]

BudgetTyped == budget \in [faults : 0..MaxFaults, interrupts : 0..MaxInterrupts]

LEMMA Parts ==
  IInv <=> /\ CallsTyped /\ LeaseTyped /\ WorkTyped
           /\ CancelTyped /\ RecordTyped /\ BudgetTyped
<1>1. ASSUME IInv PROVE WorkTyped
  BY <1>1 DEF IInv, TypeOK, PlansSound, WorkTyped, WorkOf
<1>2. ASSUME WorkTyped
      PROVE  /\ phase \in [Invocations -> {"new", "planned", "working", "closing", "closed", "ended"}]
             /\ plan = [i \in Invocations |-> plan[i]]
             /\ todo \in [Invocations -> SUBSET Calls]
             /\ at \in [Invocations -> {"next", "resumed", "running", "deciding"}]
             /\ \A i \in Invocations : /\ Planned(plan[i])
                                       /\ todo[i] \subseteq DOMAIN plan[i].seen
                                       /\ at[i] # "next" => todo[i] # {}
             /\ PlansSound
  <2>1. \A i \in Invocations : DOMAIN plan[i].seen \subseteq Calls
    BY <1>2 DEF WorkTyped, WorkOf, Planned, Seeing
  <2> QED
    BY <1>2, <2>1 DEF WorkTyped, WorkOf, PlansSound
<1> QED
  BY <1>1, <1>2 DEF IInv, TypeOK, CallsTyped, LeaseTyped, CancelTyped, RecordTyped, BudgetTyped

-----------------------------------------------------------------------------
(* What the steps have in common. *)

LEMMA WorkStep ==
  ASSUME WorkTyped, NEW i \in Invocations, NEW p, NEW q, NEW cs, NEW a,
         WorkOf(p, q, cs, a),
         phase' = [phase EXCEPT ![i] = p], plan' = [plan EXCEPT ![i] = q],
         todo' = [todo EXCEPT ![i] = cs], at' = [at EXCEPT ![i] = a]
  PROVE  WorkTyped'
BY DEF WorkTyped

\* The place of an invocation, as a step that leaves a part of it alone sees it.
LEMMA Unmoved ==
  ASSUME WorkTyped, NEW i \in Invocations
  PROVE  /\ WorkOf(phase[i], plan[i], todo[i], at[i])
         /\ phase = [phase EXCEPT ![i] = phase[i]] /\ plan = [plan EXCEPT ![i] = plan[i]]
         /\ todo = [todo EXCEPT ![i] = todo[i]] /\ at = [at EXCEPT ![i] = at[i]]
BY DEF WorkTyped

LEMMA GoToStep ==
  ASSUME WorkTyped, NEW i \in Invocations,
         NEW p \in {"planned", "working", "closing", "closed", "ended"},
         GoTo(i, p), UNCHANGED <<plan, todo, at>>
  PROVE  WorkTyped'
<1>1. WorkOf(p, plan[i], todo[i], at[i])
  BY Unmoved DEF WorkOf
<1>2. /\ phase' = [phase EXCEPT ![i] = p] /\ plan' = [plan EXCEPT ![i] = plan[i]]
      /\ todo' = [todo EXCEPT ![i] = todo[i]] /\ at' = [at EXCEPT ![i] = at[i]]
  BY Unmoved DEF GoTo
<1> QED
  BY <1>1, <1>2 DEF WorkTyped

LEMMA StayStep ==
  ASSUME WorkTyped, NEW i \in Invocations, NEW where \in {"resumed", "running", "deciding"},
         todo[i] # {}, phase[i] = "working", Stay(i, where)
  PROVE  WorkTyped'
<1>1. WorkOf(phase[i], plan[i], todo[i], where)
  BY Unmoved DEF WorkOf
<1>2. /\ phase' = [phase EXCEPT ![i] = phase[i]] /\ plan' = [plan EXCEPT ![i] = plan[i]]
      /\ todo' = [todo EXCEPT ![i] = todo[i]] /\ at' = [at EXCEPT ![i] = where]
  BY Unmoved DEF Stay
<1> QED
  BY <1>1, <1>2, WorkStep

LEMMA NextCallStep ==
  ASSUME WorkTyped, NEW i \in Invocations, NextCall(i)
  PROVE  WorkTyped'
<1>1. WorkOf(phase[i], plan[i], todo[i] \ {Current(i)}, "next")
  BY Unmoved DEF WorkOf
<1>2. /\ phase' = [phase EXCEPT ![i] = phase[i]] /\ plan' = [plan EXCEPT ![i] = plan[i]]
      /\ todo' = [todo EXCEPT ![i] = todo[i] \ {Current(i)}] /\ at' = [at EXCEPT ![i] = "next"]
  BY Unmoved DEF NextCall
<1> QED
  BY <1>1, <1>2, WorkStep

\* The current call is one the plan saw.
LEMMA CurrentTyped ==
  ASSUME WorkTyped, NEW i \in Invocations, todo[i] # {}
  PROVE  /\ Current(i) \in todo[i] /\ Current(i) \in DOMAIN plan[i].seen
         /\ Current(i) \in Calls
<1>1. todo[i] \subseteq DOMAIN plan[i].seen /\ DOMAIN plan[i].seen \subseteq Calls
  BY Unmoved DEF WorkOf, Planned, Seeing
<1>2. todo[i] \subseteq Nat
  BY <1>1, CallsAssumption
<1>3. Min(todo[i]) \in todo[i]
  BY <1>2, MinIn
<1> QED
  BY <1>1, <1>3 DEF Current

\* What finalization is told to expect leaves a look a look.
LEMMA ExpectTyped ==
  ASSUME NEW seen, Seeing(seen), Decidedly(seen), NEW c \in DOMAIN seen, NEW v \in Nat
  PROVE  /\ Seeing([seen EXCEPT ![c].version = v])
         /\ Decidedly([seen EXCEPT ![c].version = v])
         /\ DOMAIN [seen EXCEPT ![c].version = v] = DOMAIN seen
<1>1. [seen[c] EXCEPT !.version = v] \in Observation
  BY DEF Seeing, Observation
<1>2. /\ [seen[c] EXCEPT !.version = v].state = seen[c].state
      /\ [seen[c] EXCEPT !.version = v].decision = seen[c].decision
  BY DEF Seeing, Observation
<1> QED
  BY <1>1, <1>2 DEF Seeing, Decidedly

LEMMA DecidingStep ==
  ASSUME WorkTyped, NEW i \in Invocations, todo[i] # {}, phase[i] = "working", NEW v \in Nat,
         Expect(i, Current(i), v), at' = [at EXCEPT ![i] = "deciding"], UNCHANGED <<phase, todo>>
  PROVE  WorkTyped'
<1> DEFINE seen == [plan[i].seen EXCEPT ![Current(i)].version = v]
           q == [mode |-> plan[i].mode, seen |-> seen]
<1>1. Planned(plan[i]) /\ Decidedly(plan[i].seen) /\ todo[i] \subseteq DOMAIN plan[i].seen
  BY Unmoved DEF WorkOf
<1>2. Seeing(seen) /\ Decidedly(seen) /\ DOMAIN seen = DOMAIN plan[i].seen
  BY <1>1, CurrentTyped, ExpectTyped DEF Planned
<1>3. plan' = [plan EXCEPT ![i] = q]
  <2>1. plan[i] = [mode |-> plan[i].mode, seen |-> plan[i].seen]
    BY <1>1 DEF Planned
  <2>2. [plan[i] EXCEPT !.seen = seen] = q
    BY <2>1
  <2> QED
    BY <2>2 DEF Expect
<1> HIDE DEF seen
<1>4. Planned(q)
  BY <1>1, <1>2 DEF Planned
<1>5. WorkOf(phase[i], q, todo[i], "deciding")
  BY <1>1, <1>2, <1>4, Unmoved DEF WorkOf
<1>6. phase' = [phase EXCEPT ![i] = phase[i]] /\ todo' = [todo EXCEPT ![i] = todo[i]]
  BY Unmoved
<1> HIDE DEF q
<1> QED
  BY <1>3, <1>5, <1>6, WorkStep

LEMMA SetCallStep ==
  ASSUME CallsTyped, NEW c \in Calls, NEW t \in Call, SetCall(c, t)
  PROVE  CallsTyped'
BY DEF CallsTyped, SetCall

LEMMA PublishStep ==
  ASSUME RecordTyped, NEW c \in Calls, NEW x \in {"denied", "whole", "omit", "cancelled"},
         results' = [results EXCEPT ![c] = Append(@, x)], UNCHANGED executions
  PROVE  RecordTyped'
<1>1. Append(results[c], x) \in Seq({"denied", "whole", "omit", "cancelled"})
  BY AppendProperties DEF RecordTyped
<1> QED
  BY <1>1 DEF RecordTyped

LEMMA ExecuteStep ==
  ASSUME RecordTyped, NEW c \in Calls,
         executions' = [executions EXCEPT ![c] = @ + 1], UNCHANGED results
  PROVE  RecordTyped'
BY DEF RecordTyped

LEMMA Still ==
  /\ CallsTyped /\ UNCHANGED calls => CallsTyped'
  /\ LeaseTyped /\ UNCHANGED lease => LeaseTyped'
  /\ WorkTyped /\ UNCHANGED work => WorkTyped'
  /\ CancelTyped /\ UNCHANGED cancel => CancelTyped'
  /\ RecordTyped /\ UNCHANGED record => RecordTyped'
  /\ BudgetTyped /\ UNCHANGED budget => BudgetTyped'
<1>1. WorkTyped /\ UNCHANGED work => WorkTyped'
  BY DEF WorkTyped, work
<1> QED
  BY <1>1 DEF CallsTyped, LeaseTyped, CancelTyped, RecordTyped, BudgetTyped, lease, record

-----------------------------------------------------------------------------
(* Every step keeps the invariant. *)

Typed == CallsTyped /\ LeaseTyped /\ WorkTyped /\ CancelTyped /\ RecordTyped /\ BudgetTyped

\* The actions of _run_ra_tools.
LEMMA ToolsStep ==
  ASSUME Typed, NEW i \in Invocations,
         \/ PublishDenial(i) \/ RefuseDisallowed(i) \/ Start(i) \/ Finalize(i) \/ Publish(i)
         \/ \E reason \in {"success", "error"} : Finish(i, reason)
  PROVE  Typed'
<1> USE DEF Typed
<1> DEFINE c == Current(i)
<1>c. ASSUME NEW modes, NEW where, Working(i, modes, where)
      PROVE  phase[i] = "working" /\ todo[i] # {} /\ c \in Calls /\ calls[c] \in Call
  BY <1>c, CurrentTyped DEF Working, CallsTyped
<1>v. calls[c] \in Call => calls[c].version + 1 \in Nat
  BY DEF Call
<1>1. CASE PublishDenial(i)
  <2>1. c \in Calls /\ Published(calls[c]) \in Call
    BY <1>1, <1>c, EffectsTyped DEF PublishDenial
  <2>2. CallsTyped' /\ RecordTyped'
    BY <1>1, <2>1, SetCallStep, PublishStep DEF PublishDenial
  <2> QED
    BY <1>1, <2>2, NextCallStep, Still DEF PublishDenial
<1>2. CASE RefuseDisallowed(i)
  <2>1. c \in Calls /\ Finished(calls[c], "error") \in Call /\ calls[c].version + 1 \in Nat
    BY <1>2, <1>c, <1>v, EffectsTyped DEF RefuseDisallowed
  <2>2. CallsTyped' /\ WorkTyped'
    BY <1>2, <1>c, <2>1, SetCallStep, DecidingStep DEF RefuseDisallowed
  <2> QED
    BY <1>2, <2>2, Still DEF RefuseDisallowed
<1>3. CASE Start(i)
  <2>1. c \in Calls /\ Started(calls[c], i) \in Call
    BY <1>3, <1>c, EffectsTyped DEF Start
  <2>2. CallsTyped' /\ WorkTyped' /\ RecordTyped'
    BY <1>3, <1>c, <2>1, SetCallStep, StayStep, ExecuteStep DEF Start
  <2> QED
    BY <1>3, <2>2, Still DEF Start
<1>4. CASE Finalize(i)
  <2>1. c \in Calls /\ Decided(calls[c], "whole", "automatic") \in Call
    BY <1>4, <1>c, EffectsTyped DEF Finalize
  <2>2. CallsTyped' /\ WorkTyped'
    BY <1>4, <2>1, SetCallStep, NextCallStep, GoToStep, Still DEF Finalize
  <2> QED
    BY <1>4, <2>2, Still DEF Finalize
<1>5. CASE Publish(i)
  <2>1. c \in Calls /\ Published(calls[c]) \in Call
    BY <1>5, <1>c, EffectsTyped DEF Publish
  <2>2. Seen(i).decision \in {"whole", "omit"}
    <3>1. c \in DOMAIN plan[i].seen
      BY <1>5, CurrentTyped DEF Publish, Working
    <3>2. Seeing(plan[i].seen) /\ Decidedly(plan[i].seen)
      BY Unmoved DEF WorkOf, Planned
    <3> QED
      BY <1>5, <3>1, <3>2 DEF Publish, Seen, Seeing, Decidedly, Observation, Decisions
  <2>3. CallsTyped' /\ RecordTyped'
    BY <1>5, <2>1, <2>2, SetCallStep, PublishStep DEF Publish
  <2> QED
    BY <1>5, <2>3, NextCallStep, Still DEF Publish
<1>6. ASSUME NEW reason \in {"success", "error"}, Finish(i, reason) PROVE Typed'
  <2>1. c \in Calls /\ Finished(calls[c], reason) \in Call /\ calls[c].version + 1 \in Nat
    BY <1>6, <1>c, <1>v, EffectsTyped DEF Finish
  <2>2. CallsTyped' /\ WorkTyped'
    BY <1>6, <1>c, <2>1, SetCallStep, DecidingStep DEF Finish
  <2> QED
    BY <1>6, <2>2, Still DEF Finish
<1> QED
  BY <1>1, <1>2, <1>3, <1>4, <1>5, <1>6

\* The two recoveries, and the end of the work.
LEMMA RecoveryStep ==
  ASSUME Typed, NEW i \in Invocations,
         \/ RecoverOrphan(i) \/ RunResumed(i) \/ RecoverStranded(i)
         \/ PublishRecovered(i) \/ EndWork(i)
  PROVE  Typed'
<1> USE DEF Typed
<1> DEFINE c == Current(i)
<1>c. ASSUME NEW modes, NEW where, Working(i, modes, where)
      PROVE  /\ phase[i] = "working" /\ todo[i] # {} /\ at[i] = where
             /\ c \in Calls /\ calls[c] \in Call
  BY <1>c, CurrentTyped DEF Working, CallsTyped
<1>1. CASE RecoverOrphan(i)
  <2> DEFINE old == calls[c].by
             base == IF old = NoInvocation THEN calls ELSE OwnerGone(old, TRUE)
  <2>1. base \in [Calls -> Call]
    BY OwnerGoneTyped DEF CallsTyped
  <2> HIDE DEF base
  <2>2. c \in Calls /\ phase[i] = "working" /\ todo[i] # {}
    BY <1>1, <1>c DEF RecoverOrphan
  <2>3. ASSUME NEW reason \in {"error", "interrupted"}
        PROVE  Decided(Finished(base[c], reason), "whole", "automatic") \in Call
    <3>1. Finished(base[c], reason) \in Call
      BY <2>1, <2>2, EffectsTyped
    <3> QED
      BY <3>1, EffectsTyped
  <2>4. Resumed(base[c], i) \in Call
    BY <2>1, <2>2, EffectsTyped
  <2>5. \/ UNCHANGED calls /\ NextCall(i)
        \/ calls' = [base EXCEPT ![c] = Resumed(@, i)] /\ Stay(i, "resumed")
        \/ /\ \E reason \in {"error", "interrupted"} :
                calls' = [base EXCEPT ![c] = Decided(Finished(@, reason), "whole", "automatic")]
           /\ NextCall(i)
    BY <1>1 DEF RecoverOrphan, base
  <2>6. CallsTyped'
    BY <2>1, <2>3, <2>4, <2>5, Still DEF CallsTyped
  <2>7. WorkTyped'
    BY <2>2, <2>5, NextCallStep, StayStep
  <2> QED
    BY <1>1, <2>6, <2>7, Still DEF RecoverOrphan
<1>2. CASE RunResumed(i)
  <2>1. phase[i] = "working" /\ todo[i] # {} /\ c \in Calls
    BY <1>2, <1>c DEF RunResumed
  <2>2. \/ executions' = [executions EXCEPT ![c] = @ + 1] /\ Stay(i, "running")
        \/ UNCHANGED executions /\ NextCall(i)
    BY <1>2 DEF RunResumed
  <2>3. WorkTyped'
    BY <2>1, <2>2, NextCallStep, StayStep
  <2>4. RecordTyped'
    BY <1>2, <2>1, <2>2, ExecuteStep, Still DEF RunResumed, record
  <2> QED
    BY <1>2, <2>3, <2>4, Still DEF RunResumed
<1>3. CASE RecoverStranded(i)
  <2>1. c \in Calls /\ at[i] = "next" /\ Decided(calls[c], "whole", "automatic") \in Call
    BY <1>3, <1>c, EffectsTyped DEF RecoverStranded
  <2>2. CallsTyped'
    BY <1>3, <2>1, SetCallStep, Still DEF RecoverStranded
  <2>3. CASE NextCall(i)
    BY <1>3, <2>2, <2>3, NextCallStep, Still DEF RecoverStranded
  <2>4. CASE todo' = [todo EXCEPT ![i] = {}] /\ UNCHANGED <<calls, phase, plan, at>>
    <3>1. WorkOf(phase[i], plan[i], {}, at[i])
      BY <2>1, Unmoved DEF WorkOf
    <3>2. /\ phase' = [phase EXCEPT ![i] = phase[i]] /\ plan' = [plan EXCEPT ![i] = plan[i]]
          /\ at' = [at EXCEPT ![i] = at[i]]
      BY <2>4, Unmoved
    <3>3. WorkTyped'
      BY <2>4, <3>1, <3>2 DEF WorkTyped
    <3> QED
      BY <1>3, <2>2, <3>3, Still DEF RecoverStranded
  <2> QED
    BY <1>3, <2>3, <2>4 DEF RecoverStranded
<1>4. CASE PublishRecovered(i)
  <2> DEFINE q == [mode |-> "publish", seen |-> ObserveAll(Publishable(i))]
  <2>1. Publishable(i) \subseteq Calls
    BY Unmoved DEF Publishable, WorkOf, Planned, Seeing
  <2>2. Planned(q) /\ Decidedly(q.seen) /\ DOMAIN q.seen = Publishable(i)
    BY <2>1, ObserveAllTyped DEF Planned, CallsTyped
  <2>3. at[i] = "next"
    BY <1>4, Unmoved DEF PublishRecovered, WorkOf
  <2> HIDE DEF q
  <2>4. WorkOf(phase[i], q, Publishable(i), at[i])
    BY <2>2, <2>3, Unmoved DEF WorkOf
  <2>5. /\ plan' = [plan EXCEPT ![i] = q] /\ todo' = [todo EXCEPT ![i] = Publishable(i)]
        /\ phase' = [phase EXCEPT ![i] = phase[i]] /\ at' = [at EXCEPT ![i] = at[i]]
    BY <1>4, Unmoved DEF PublishRecovered, q
  <2>6. WorkTyped'
    BY <2>4, <2>5, WorkStep
  <2> QED
    BY <1>4, <2>6, Still DEF PublishRecovered
<1>5. CASE EndWork(i)
  BY <1>5, GoToStep, Still DEF EndWork
<1> QED
  BY <1>1, <1>2, <1>3, <1>4, <1>5

\* Looking for work, the lease, the end of run_once.
LEMMA LifeStep ==
  ASSUME Typed, NEW i \in Invocations,
         \/ Discover(i) \/ Acquire(i) \/ GiveWay(i) \/ Close(i) \/ Release(i) \/ LoseLease(i)
         \/ Recycle(i)
  PROVE  Typed'
<1> USE DEF Typed
<1>1. CASE Discover(i)
  <2>1. Planned(Actionable) /\ Decidedly(Actionable.seen)
    BY ActionableTyped DEF CallsTyped
  <2>2. at[i] = "next"
    BY <1>1, Unmoved DEF Discover, WorkOf
  <2>3. WorkOf("planned", Actionable, DOMAIN Actionable.seen, at[i])
    BY <2>1, <2>2 DEF WorkOf
  <2>4. /\ phase' = [phase EXCEPT ![i] = "planned"] /\ plan' = [plan EXCEPT ![i] = Actionable]
        /\ todo' = [todo EXCEPT ![i] = DOMAIN Actionable.seen] /\ at' = [at EXCEPT ![i] = at[i]]
    BY <1>1, Unmoved DEF Discover, GoTo
  <2>5. WorkTyped'
    BY <2>3, <2>4, WorkStep
  <2> QED
    BY <1>1, <2>5, Still DEF Discover
<1>2. CASE Acquire(i)
  <2>1. CallsTyped'
    BY <1>2, OwnerGoneTyped DEF Acquire, CallsTyped
  <2>2. LeaseTyped'
    BY <1>2 DEF Acquire, LeaseTyped
  <2> QED
    BY <1>2, <2>1, <2>2, GoToStep, Still DEF Acquire
<1>3. CASE GiveWay(i)
  BY <1>3, GoToStep, Still DEF GiveWay
<1>4. CASE Close(i)
  <2>1. CallsTyped'
    BY <1>4, OwnerGoneTyped DEF Close, CallsTyped
  <2> QED
    BY <1>4, <2>1, GoToStep, Still DEF Close
<1>5. CASE Release(i)
  <2>1. LeaseTyped'
    BY <1>5, Still DEF Release, LeaseTyped
  <2> QED
    BY <1>5, <2>1, GoToStep, Still DEF Release
<1>6. CASE LoseLease(i)
  BY <1>6, GoToStep, Still DEF LoseLease
<1>7. CASE Recycle(i)
  <2>1. CallsTyped'
    <3>1. ASSUME NEW c \in Calls
          PROVE  [calls[c] EXCEPT !.by = IF @ = i THEN NoInvocation ELSE @] \in Call
      <4>1. (IF calls[c].by = i THEN NoInvocation ELSE calls[c].by) \in Invocations \cup {NoInvocation}
        BY DEF CallsTyped, Call
      <4> QED
        BY <4>1, FieldTyped DEF CallsTyped
    <3> QED
      BY <1>7, <3>1 DEF Recycle, CallsTyped
  <2>2. Planned(NoPlan) /\ Decidedly(NoPlan.seen)
    BY ObserveAllTyped DEF NoPlan, Planned, CallsTyped
  <2>3. WorkOf("new", NoPlan, {}, "next")
    BY <2>2 DEF WorkOf
  <2>4. WorkTyped'
    BY <1>7, <2>3, WorkStep DEF Recycle, GoTo
  <2> QED
    BY <1>7, <2>1, <2>4, Still DEF Recycle
<1> QED
  BY <1>1, <1>2, <1>3, <1>4, <1>5, <1>6, <1>7

\* What may cut a run short, and the passing of time.
LEMMA FaultsStep ==
  ASSUME Typed,
         \/ \E i \in Invocations : CancelTask(i) \/ Fail(i) \/ Crash(i)
         \/ Stall \/ Expire \/ Sweep
  PROVE  Typed'
<1> USE DEF Typed
<1>f. Fault => BudgetTyped'
  BY CallsAssumption DEF Fault, BudgetTyped
<1>1. ASSUME NEW i \in Invocations, CancelTask(i) PROVE Typed'
  <2> DEFINE c == Current(i)
             seen == [plan[i].seen EXCEPT ![c].version = calls[c].version + 1]
             q == [mode |-> "tools", seen |-> seen]
  <2>1. phase[i] = "working" /\ c \in Calls /\ c \in DOMAIN plan[i].seen
    BY <1>1, CurrentTyped DEF CancelTask, Working
  <2>2. Finished(calls[c], "interrupted") \in Call /\ calls[c].version + 1 \in Nat
    <3>1. calls[c] \in Call
      BY <2>1 DEF CallsTyped
    <3>2. calls[c].version + 1 \in Nat
      BY <3>1 DEF Call
    <3> QED
      BY <3>1, <3>2, EffectsTyped
  <2>3. CallsTyped'
    BY <1>1, <2>1, <2>2, SetCallStep DEF CancelTask
  <2>4. Planned(plan[i]) /\ Decidedly(plan[i].seen)
    BY Unmoved DEF WorkOf
  <2>5. Seeing(seen) /\ Decidedly(seen) /\ DOMAIN seen = DOMAIN plan[i].seen
    BY <2>1, <2>2, <2>4, ExpectTyped DEF Planned
  <2>6. plan' = [plan EXCEPT ![i] = q]
    <3>1. plan[i] = [mode |-> plan[i].mode, seen |-> plan[i].seen]
      BY <2>4 DEF Planned
    <3>2. [plan[i] EXCEPT !.mode = "tools", !.seen = seen] = q
      <4>1. ASSUME NEW s
            PROVE  [plan[i] EXCEPT !.mode = "tools", !.seen = s] = [mode |-> "tools", seen |-> s]
        <5>1. [plan[i] EXCEPT !.mode = "tools"] = [mode |-> "tools", seen |-> plan[i].seen]
          BY <3>1
        <5>2. \A x : [[mode |-> "tools", seen |-> x] EXCEPT !.seen = s] = [mode |-> "tools", seen |-> s]
          OBVIOUS
        <5>3. [plan[i] EXCEPT !.mode = "tools", !.seen = s]
                = [[mode |-> "tools", seen |-> plan[i].seen] EXCEPT !.seen = s]
          BY <5>1, Zenon
        <5> QED
          BY <5>2, <5>3, Zenon
      <4> QED
        BY <4>1
    <3>3. plan' = [plan EXCEPT ![i] = [plan[i] EXCEPT !.mode = "tools", !.seen = seen]]
      BY <1>1, <3>1 DEF CancelTask, WorkTyped
    <3> QED
      BY <3>2, <3>3
  <2> HIDE DEF seen
  <2>7. Planned(q)
    BY <2>5 DEF Planned
  <2>8. WorkOf(phase[i], q, {c}, "deciding")
    BY <2>1, <2>5, <2>7, Unmoved DEF WorkOf
  <2>9. /\ phase' = [phase EXCEPT ![i] = phase[i]] /\ todo' = [todo EXCEPT ![i] = {c}]
        /\ at' = [at EXCEPT ![i] = "deciding"]
    BY <1>1, Unmoved DEF CancelTask
  <2> HIDE DEF q
  <2>10. WorkTyped'
    BY <2>6, <2>8, <2>9, WorkStep
  <2> QED
    BY <1>1, <1>f, <2>3, <2>10, Still DEF CancelTask
<1>2. ASSUME NEW i \in Invocations, Fail(i) \/ Crash(i) PROVE Typed'
  <2>1. /\ (GoTo(i, "closing") \/ GoTo(i, "ended")) /\ BudgetTyped'
        /\ UNCHANGED <<calls, lease, plan, todo, at, cancel, record>>
    BY <1>2, <1>f DEF Fail, Crash
  <2>2. WorkTyped'
    BY <1>2, GoToStep DEF Fail, Crash
  <2> QED
    BY <1>2, <1>f, <2>2, Still DEF Fail, Crash
<1>3. CASE Stall \/ Expire \/ Sweep
  <2>1. LeaseTyped'
    BY <1>3 DEF Stall, Expire, Sweep, LeaseTyped
  <2>2. UNCHANGED <<calls, work, cancel, record>>
    BY <1>3 DEF Stall, Expire, Sweep
  <2>3. BudgetTyped'
    BY <1>3, <1>f, Still DEF Stall, Expire, Sweep
  <2> QED
    BY <2>1, <2>2, <2>3, Still
<1> QED
  BY <1>1, <1>2, <1>3

\* What the users decide.
LEMMA UsersStep ==
  ASSUME Typed, UserStep
  PROVE  Typed'
<1> USE DEF Typed
<1>i. CountInterrupt => BudgetTyped'
  BY CallsAssumption DEF CountInterrupt, BudgetTyped
<1>1. ASSUME NEW c \in Calls, KeepOutput(c) \/ OmitOutput(c) PROVE Typed'
  <2>1. /\ Decided(calls[c], "whole", "user") \in Call
        /\ Decided(calls[c], "omit", "explicit") \in Call
    <3>1. calls[c] \in Call
      BY DEF CallsTyped
    <3> QED
      BY <3>1, DecidedTyped
  <2>2. CallsTyped'
    BY <1>1, <2>1, SetCallStep DEF KeepOutput, OmitOutput
  <2> QED
    BY <1>1, <2>2, Still DEF KeepOutput, OmitOutput
<1>2. ASSUME NEW c \in Calls, NEW answer \in {"granted", "denied"}, Approve(c, answer)
      PROVE  Typed'
  <2>1. Approved(calls[c], answer) \in Call
    <3>1. calls[c] \in Call
      BY DEF CallsTyped
    <3> QED
      BY <3>1, DecidedTyped
  <2>2. CallsTyped'
    BY <1>2, <2>1, SetCallStep DEF Approve
  <2> QED
    BY <1>2, <2>2, Still DEF Approve
<1>3. CASE ApproveTurn
  <2>1. ASSUME NEW c \in Calls
        PROVE  [calls[c] EXCEPT !.approval = IF @ = "none" THEN "granted" ELSE @] \in Call
    <3>1. calls[c] \in Call
      BY DEF CallsTyped
    <3>2. calls[c].approval \in {"none", "granted", "denied"}
      BY <3>1 DEF Call
    <3>3. (IF calls[c].approval = "none" THEN "granted" ELSE calls[c].approval)
            \in {"none", "granted", "denied"}
      BY <3>2
    <3> QED
      BY <3>1, <3>3, FieldTyped
  <2>2. CallsTyped'
    BY <1>3, <2>1 DEF ApproveTurn, CallsTyped
  <2> QED
    BY <1>3, <2>2, Still DEF ApproveTurn
<1>4. CASE WebInterrupt
  <2>1. CallsTyped'
    BY <1>4, OwnerGoneTyped DEF WebInterrupt, CallsTyped
  <2>2. LeaseTyped' /\ CancelTyped'
    BY <1>4 DEF WebInterrupt, LeaseTyped, CancelTyped
  <2> QED
    BY <1>4, <1>i, <2>1, <2>2, Still DEF WebInterrupt
<1>5. CASE CtrlC
  <2> DEFINE cs == {d \in Calls : StateOf(calls'[d]) \in {"TC1", "TC2.1", "TC3", "TC4", "TC5"}}
             seen == [c \in cs |-> Observe(calls'[c])]
  <2>1. CallsTyped'
    BY <1>5, OwnerGoneTyped, Still DEF CtrlC, CtrlCOver, CallsTyped
  <2>2. Seeing(seen)
    BY <2>1, ObserveTyped DEF CallsTyped, Seeing
  <2> HIDE DEF cs
  <2>3. cancel' = [cancel EXCEPT !.seen = seen]
    BY <1>5 DEF CtrlC, CtrlCOver, cs
  <2> HIDE DEF seen
  <2>4. CancelTyped'
    BY <2>2, <2>3 DEF CancelTyped
  <2>5. LeaseTyped'
    BY <1>5 DEF CtrlC, CtrlCOver, LeaseTyped
  <2> QED
    BY <1>5, <1>i, <2>1, <2>4, <2>5, Still DEF CtrlC, CtrlCOver
<1> QED
  BY <1>1, <1>2, <1>3, <1>4, <1>5 DEF UserStep

\* What the handlers of an interrupt go on to do.
LEMMA CancelsStep ==
  ASSUME Typed, CancelStep
  PROVE  Typed'
<1> USE DEF Typed
<1>1. CASE CancelCall
  <2> DEFINE c == CancelNext
             seen == [d \in DOMAIN cancel.seen \ {c} |-> cancel.seen[d]]
  <2>1. c \in DOMAIN cancel.seen /\ c \in Calls
    <3>1. DOMAIN cancel.seen \subseteq Calls /\ DOMAIN cancel.seen # {}
      BY <1>1 DEF CancelCall, CancelTyped, Seeing
    <3>2. DOMAIN cancel.seen \subseteq Nat
      BY <3>1, CallsAssumption
    <3> QED
      BY <3>1, <3>2, MinIn DEF CancelNext
  <2>2. /\ Approved(calls[c], "denied") \in Call
        /\ Decided(calls[c], "omit", "explicit") \in Call
    <3>1. calls[c] \in Call
      BY <2>1 DEF CallsTyped
    <3> QED
      BY <3>1, DecidedTyped
  <2>3. CallsTyped'
    <3>1. \/ SetCall(c, Approved(calls[c], "denied"))
          \/ SetCall(c, Decided(calls[c], "omit", "explicit"))
          \/ UNCHANGED calls
      BY <1>1 DEF CancelCall
    <3> QED
      BY <2>1, <2>2, <3>1, SetCallStep, Still
  <2>4. CancelTyped'
    <3>1. Seeing(seen)
      BY DEF CancelTyped, Seeing
    <3> HIDE DEF seen
    <3>2. \E owes \in {{c} \ UserCalls, {}} :
            cancel' = [cancel EXCEPT !.seen = seen, !.owes = owes]
      BY <1>1 DEF CancelCall, seen
    <3>3. PICK owes \in {{c} \ UserCalls, {}} :
            cancel' = [cancel EXCEPT !.seen = seen, !.owes = owes]
      BY <3>2
    <3>4. owes \subseteq Calls
      BY <2>1
    <3>5. cancel' = [seen |-> seen, owes |-> owes, keeps |-> cancel.keeps]
      <4>1. [cancel EXCEPT !.seen = seen] = [seen |-> seen, owes |-> cancel.owes, keeps |-> cancel.keeps]
        BY DEF CancelTyped
      <4> QED
        BY <3>3, <4>1
    <3> QED
      BY <3>1, <3>4, <3>5 DEF CancelTyped
  <2> QED
    BY <1>1, <2>3, <2>4, Still DEF CancelCall
<1>2. CASE WebKeepInterrupted
  <2>1. ASSUME NEW c \in Calls PROVE Decided(calls[c], "whole", "explicit") \in Call
    <3>1. calls[c] \in Call
      BY DEF CallsTyped
    <3> QED
      BY <3>1, DecidedTyped
  <2>2. CallsTyped'
    BY <1>2, <2>1 DEF WebKeepInterrupted, CallsTyped
  <2>3. CancelTyped'
    BY <1>2 DEF WebKeepInterrupted, CancelTyped
  <2> QED
    BY <1>2, <2>2, <2>3, Still DEF WebKeepInterrupted
<1>3. ASSUME NEW c \in Calls, AnswerCancelled(c) PROVE Typed'
  <2>1. Published(calls[c]) \in Call
    <3>1. calls[c] \in Call
      BY DEF CallsTyped
    <3> QED
      BY <3>1, FieldTyped DEF Published
  <2>2. CallsTyped' /\ RecordTyped'
    BY <1>3, <2>1, SetCallStep, PublishStep DEF AnswerCancelled
  <2>3. CancelTyped'
    BY <1>3 DEF AnswerCancelled, CancelTyped
  <2> QED
    BY <1>3, <2>2, <2>3, Still DEF AnswerCancelled
<1> QED
  BY <1>1, <1>2, <1>3 DEF CancelStep

LEMMA InvariantStep == IInv /\ [Next]_vars => IInv'
<1> SUFFICES ASSUME Typed, [Next]_vars PROVE Typed'
  <2>1. IInv <=> Typed
    BY Parts DEF Typed
  <2>2. IInv' <=> Typed'
    BY Parts, PTL DEF Typed
  <2> QED
    BY <2>1, <2>2
<1>1. ASSUME NEW i \in Invocations, RunnerStep(i) PROVE Typed'
  BY <1>1, ToolsStep, RecoveryStep, LifeStep DEF RunnerStep
<1>2. ASSUME NEW i \in Invocations, FaultStep(i) PROVE Typed'
  BY <1>2, FaultsStep DEF FaultStep
<1>3. ASSUME NEW i \in Invocations, Recycle(i) PROVE Typed'
  BY <1>3, LifeStep
<1>4. CASE Stall \/ Expire \/ Sweep
  BY <1>4, FaultsStep
<1>5. CASE UserStep
  BY <1>5, UsersStep
<1>6. CASE CancelStep
  BY <1>6, CancelsStep
<1>7. CASE UNCHANGED vars
  BY <1>7, Still DEF vars, Typed
<1> QED
  BY <1>1, <1>2, <1>3, <1>4, <1>5, <1>6, <1>7 DEF Next

LEMMA InvariantInit == Init => IInv
<1> SUFFICES ASSUME Init PROVE Typed
  BY Parts DEF Typed
<1>1. CallsTyped
  BY DEF Init, CallsTyped, Call, Decisions
<1>2. LeaseTyped /\ BudgetTyped
  <2>1. 0 \in 0..MaxFaults /\ 0 \in 0..MaxInterrupts
    BY CallsAssumption
  <2>2. BudgetTyped
    BY <2>1 DEF Init, BudgetTyped
  <2> QED
    BY <2>2 DEF Init, LeaseTyped
<1>3. RecordTyped
  <2>1. <<>> \in Seq({"denied", "whole", "omit", "cancelled"})
    BY EmptySeq
  <2> QED
    BY <2>1 DEF Init, RecordTyped
<1>4. Seeing(ObserveAll({})) /\ Decidedly(ObserveAll({})) /\ DOMAIN ObserveAll({}) = {}
  BY <1>1, ObserveAllTyped DEF CallsTyped
<1>5. CancelTyped
  BY <1>4 DEF Init, CancelTyped
<1>6. WorkTyped
  <2>1. Planned(NoPlan) /\ Decidedly(NoPlan.seen)
    BY <1>4 DEF NoPlan, Planned
  <2>2. WorkOf("new", NoPlan, {}, "next")
    BY <2>1 DEF WorkOf
  <2> QED
    BY <2>2 DEF Init, WorkTyped
<1> QED
  BY <1>1, <1>2, <1>3, <1>5, <1>6 DEF Typed

\* The state keeps its type, whatever the calls, invocations and bounds.
THEOREM TypeCorrect == Spec => []TypeOK
<1>1. IInv => TypeOK
  BY DEF IInv
<1> QED
  BY <1>1, InvariantInit, InvariantStep, PTL DEF Spec

-----------------------------------------------------------------------------
(* Decisions. *)

\* What may become of the decision of a call, t, in a step that makes it u.
Stands(t, u) ==
  t.decision # "none" /\ (u.decision # t.decision \/ u.decider # t.decider)
  => u.decider = "explicit" /\ t.decider # "explicit" /\ ~t.published

SameDecision(t, u) == u.decision = t.decision /\ u.decider = t.decider

\* Of the events, only decisions and a resumption touch the decision.
LEMMA EffectsKeepDecision ==
  ASSUME NEW t \in Call, NEW i, NEW r, NEW a
  PROVE  /\ SameDecision(t, Started(t, i)) /\ SameDecision(t, Finished(t, r))
         /\ SameDecision(t, Published(t)) /\ SameDecision(t, Approved(t, a))
<1>1. SameDecision(t, Started(t, i))
  BY DEF Started, SameDecision, Call
<1>2. SameDecision(t, Finished(t, r))
  BY DEF Finished, SameDecision, Call
<1>3. SameDecision(t, Published(t))
  BY DEF Published, SameDecision, Call
<1>4. SameDecision(t, Approved(t, a))
  BY DEF Approved, SameDecision, Call
<1> QED
  BY <1>1, <1>2, <1>3, <1>4

LEMMA OwnerGoneKeepsDecision ==
  ASSUME calls \in [Calls -> Call], NEW i, NEW recovery, NEW c \in Calls
  PROVE  SameDecision(calls[c], OwnerGone(i, recovery)[c])
BY DEF OwnerGone, SameDecision, Call

LEMMA DecidedExplicitly ==
  ASSUME NEW t \in Call, NEW d
  PROVE  Decided(t, d, "explicit").decider = "explicit"
BY DEF Decided, Call

\* UserMayDecide and CancelCall let an explicit decision through only so.
LEMMA MayDecide ==
  ASSUME NEW t \in Call, NEW d
  PROVE  /\ UserMayDecide(t, "explicit") => Stands(t, Decided(t, d, "explicit"))
         /\ ~t.published /\ t.decider # "explicit" => Stands(t, Decided(t, d, "explicit"))
         /\ UserMayDecide(t, "user") => Stands(t, Decided(t, d, "user"))
<1>1. UserMayDecide(t, "user") => t.decision = "none"
  BY StateDecision DEF UserMayDecide
<1>2. UserMayDecide(t, "explicit") => t.decision = "none" \/ (~t.published /\ t.decider # "explicit")
  BY StateDecision DEF UserMayDecide
<1> QED
  BY <1>1, <1>2, DecidedExplicitly DEF Stands

AllStand == \A c \in Calls : Stands(calls[c], calls'[c])

LEMMA OneStands ==
  ASSUME CallsTyped, NEW c \in Calls, NEW u, SetCall(c, u), Stands(calls[c], u)
  PROVE  AllStand
BY DEF AllStand, CallsTyped, SetCall, Stands

LEMMA SameStands ==
  /\ \A t, u : SameDecision(t, u) => Stands(t, u)
  /\ \A t, u : t.decision = "none" => Stands(t, u)
  /\ UNCHANGED calls => AllStand
BY DEF Stands, SameDecision, AllStand

LEMMA RunnerStands ==
  ASSUME Typed, NEW i \in Invocations, RunnerStep(i) \/ FaultStep(i)
  PROVE  AllStand
<1> USE DEF Typed
<1> DEFINE c == Current(i)
<1>c. ASSUME NEW modes, NEW where, Working(i, modes, where)
      PROVE  c \in Calls /\ calls[c] \in Call
  BY <1>c, CurrentTyped DEF Working, CallsTyped
<1>1. CASE PublishDenial(i) \/ Publish(i)
  <2>1. c \in Calls /\ calls[c] \in Call /\ SetCall(c, Published(calls[c]))
    BY <1>1, <1>c DEF PublishDenial, Publish
  <2> QED
    BY <2>1, EffectsKeepDecision, SameStands, OneStands
<1>2. CASE Start(i)
  <2>1. c \in Calls /\ calls[c] \in Call /\ SetCall(c, Started(calls[c], i))
    BY <1>2, <1>c DEF Start
  <2> QED
    BY <2>1, EffectsKeepDecision, SameStands, OneStands
<1>3. CASE RefuseDisallowed(i) \/ CancelTask(i) \/ \E reason \in {"success", "error"} : Finish(i, reason)
  <2>1. PICK reason \in {"success", "error", "interrupted"} : SetCall(c, Finished(calls[c], reason))
    BY <1>3 DEF RefuseDisallowed, CancelTask, Finish
  <2>2. c \in Calls /\ calls[c] \in Call
    BY <1>3, <1>c DEF RefuseDisallowed, CancelTask, Finish
  <2> QED
    BY <2>1, <2>2, EffectsKeepDecision, SameStands, OneStands
<1>4. CASE Finalize(i)
  <2>1. c \in Calls /\ calls[c] \in Call
    BY <1>4, <1>c DEF Finalize
  <2>2. \/ UNCHANGED calls
        \/ /\ calls[c].decision = "none"
           /\ SetCall(c, Decided(calls[c], "whole", "automatic"))
    BY <1>4, StateDecision DEF Finalize, State
  <2> QED
    BY <2>1, <2>2, SameStands, OneStands
<1>5. CASE RecoverOrphan(i)
  <2> DEFINE old == calls[c].by
             base == IF old = NoInvocation THEN calls ELSE OwnerGone(old, TRUE)
  <2>1. c \in Calls /\ calls[c] \in Call
    BY <1>5, <1>c DEF RecoverOrphan
  <2>2. ASSUME NEW d \in Calls PROVE SameDecision(calls[d], base[d])
    BY OwnerGoneKeepsDecision DEF CallsTyped, SameDecision
  <2>3. base \in [Calls -> Call]
    BY OwnerGoneTyped DEF CallsTyped
  <2> HIDE DEF base
  <2>4. \/ UNCHANGED calls
        \/ calls[c].decision = "none" /\ \E t : calls' = [base EXCEPT ![c] = t]
    BY <1>5, StateDecision DEF RecoverOrphan, base, State
  <2>5. ASSUME NEW t, calls[c].decision = "none", calls' = [base EXCEPT ![c] = t]
        PROVE  AllStand
    <3>1. ASSUME NEW d \in Calls PROVE Stands(calls[d], calls'[d])
      <4>1. CASE d = c
        BY <2>5, <4>1, SameStands
      <4>2. CASE d # c
        <5>1. calls'[d] = base[d]
          BY <2>3, <2>5, <4>2
        <5> QED
          BY <2>2, <5>1, SameStands
      <4> QED
        BY <4>1, <4>2
    <3> QED
      BY <3>1 DEF AllStand
  <2> QED
    BY <2>4, <2>5, SameStands
<1>6. CASE RecoverStranded(i)
  <2>1. c \in Calls /\ calls[c] \in Call
    BY <1>6, <1>c DEF RecoverStranded
  <2>2. \/ UNCHANGED calls
        \/ Stranded(c) /\ SetCall(c, Decided(calls[c], "whole", "automatic"))
    BY <1>6 DEF RecoverStranded
  <2>3. Stranded(c) => calls[c].decision = "none"
    BY StateDecision DEF Stranded, State
  <2> QED
    BY <2>1, <2>2, <2>3, SameStands, OneStands
<1>7. CASE Acquire(i) \/ Close(i)
  <2>1. \/ UNCHANGED calls
        \/ \E j, recovery : calls' = OwnerGone(j, recovery)
    BY <1>7 DEF Acquire, Close
  <2>2. ASSUME NEW j, NEW recovery, calls' = OwnerGone(j, recovery) PROVE AllStand
    BY <2>2, OwnerGoneKeepsDecision, SameStands DEF AllStand, CallsTyped
  <2> QED
    BY <2>1, <2>2, SameStands
<1>8. CASE \/ Discover(i) \/ GiveWay(i) \/ RunResumed(i) \/ PublishRecovered(i) \/ EndWork(i)
           \/ Release(i) \/ LoseLease(i) \/ Fail(i) \/ Crash(i)
  BY <1>8, SameStands DEF Discover, GiveWay, RunResumed, PublishRecovered, EndWork, Release,
                          LoseLease, Fail, Crash
<1> QED
  BY <1>1, <1>2, <1>3, <1>4, <1>5, <1>6, <1>7, <1>8 DEF RunnerStep, FaultStep

LEMMA UserStands ==
  ASSUME Typed, UserStep \/ CancelStep
  PROVE  AllStand
<1> USE DEF Typed
<1>c. ASSUME NEW c \in Calls PROVE calls[c] \in Call
  BY DEF CallsTyped
<1>1. ASSUME NEW c \in Calls, KeepOutput(c) PROVE AllStand
  BY <1>1, <1>c, MayDecide, OneStands DEF KeepOutput
<1>2. ASSUME NEW c \in Calls, OmitOutput(c) PROVE AllStand
  BY <1>2, <1>c, MayDecide, OneStands DEF OmitOutput
<1>3. ASSUME NEW c \in Calls, NEW answer, Approve(c, answer) PROVE AllStand
  BY <1>3, <1>c, EffectsKeepDecision, SameStands, OneStands DEF Approve
<1>4. CASE ApproveTurn
  <2>1. ASSUME NEW c \in Calls PROVE SameDecision(calls[c], calls'[c])
    BY <1>4 DEF ApproveTurn, SameDecision, CallsTyped, Call
  <2> QED
    BY <2>1, SameStands DEF AllStand
<1>5. CASE WebInterrupt \/ CtrlC
  <2>1. UNCHANGED calls \/ \E j, recovery : calls' = OwnerGone(j, recovery)
    BY <1>5 DEF WebInterrupt, CtrlC, CtrlCOver
  <2>2. ASSUME NEW j, NEW recovery, calls' = OwnerGone(j, recovery) PROVE AllStand
    BY <2>2, OwnerGoneKeepsDecision, SameStands DEF AllStand, CallsTyped
  <2> QED
    BY <2>1, <2>2, SameStands
<1>6. CASE WebKeepInterrupted
  <2>1. ASSUME NEW c \in Calls PROVE Stands(calls[c], calls'[c])
    <3>1. \/ calls'[c] = calls[c]
          \/ UserMayDecide(calls[c], "explicit") /\ calls'[c] = Decided(calls[c], "whole", "explicit")
      BY <1>6 DEF WebKeepInterrupted
    <3>2. Stands(calls[c], calls[c])
      BY DEF Stands
    <3> QED
      BY <1>c, <3>1, <3>2, MayDecide
  <2> QED
    BY <2>1 DEF AllStand
<1>7. CASE CancelCall
  <2> DEFINE c == CancelNext
  <2>1. c \in Calls
    <3>1. DOMAIN cancel.seen \subseteq Calls /\ DOMAIN cancel.seen # {}
      BY <1>7 DEF CancelCall, CancelTyped, Seeing
    <3>2. DOMAIN cancel.seen \subseteq Nat
      BY <3>1, CallsAssumption
    <3> QED
      BY <3>1, <3>2, MinIn DEF CancelNext
  <2>2. \/ UNCHANGED calls
        \/ SetCall(c, Approved(calls[c], "denied"))
        \/ /\ ~calls[c].published /\ calls[c].decider # "explicit"
           /\ SetCall(c, Decided(calls[c], "omit", "explicit"))
    BY <1>7 DEF CancelCall
  <2> QED
    BY <1>c, <2>1, <2>2, EffectsKeepDecision, MayDecide, SameStands, OneStands
<1>8. ASSUME NEW c \in Calls, AnswerCancelled(c) PROVE AllStand
  BY <1>8, <1>c, EffectsKeepDecision, SameStands, OneStands DEF AnswerCancelled
<1> QED
  BY <1>1, <1>2, <1>3, <1>4, <1>5, <1>6, <1>7, <1>8 DEF UserStep, CancelStep

\* The first decision on an output stands, whoever decides at the same time, in
\* one process or several.
THEOREM DecisionsStand == Spec => DecisionStands
<1>1. IInv /\ [Next]_vars => [\A c \in Calls : Stands(calls[c], calls'[c])]_vars
  <2> SUFFICES ASSUME Typed, Next PROVE AllStand
    BY Parts DEF Typed, AllStand
  <2>1. ASSUME NEW i \in Invocations, Recycle(i) PROVE AllStand
    BY <2>1, SameStands DEF Recycle, AllStand, SameDecision, Typed, CallsTyped, Call
  <2>2. CASE Stall \/ Expire \/ Sweep
    BY <2>2, SameStands DEF Stall, Expire, Sweep
  <2> QED
    BY <2>1, <2>2, RunnerStands, UserStands DEF Next
<1>2. [\A c \in Calls : Stands(calls[c], calls'[c])]_vars =>
      [\A c \in Calls :
         /\ calls[c].decision # "none"
         /\ \/ calls'[c].decision # calls[c].decision
            \/ calls'[c].decider # calls[c].decider
         => /\ calls'[c].decider = "explicit" /\ calls[c].decider # "explicit"
            /\ ~calls[c].published]_vars
  BY DEF Stands
<1> QED
  BY <1>1, <1>2, InvariantInit, InvariantStep, PTL DEF Spec, DecisionStands
=============================================================================
