----------------------------- MODULE ToolCalls -----------------------------
(***************************************************************************)
(* The life of the tool calls of one eggthreads thread, from TC1 (needs    *)
(* approval) to TC6 (published): the tool work of ThreadRunner.run_once    *)
(* (RA2/RA3), its two recoveries, tool_output.finalize_tool_output, and    *)
(* what the user interfaces do to a call meanwhile.                        *)
(*                                                                         *)
(* The state of a call is what the reducer of tool_state.py makes of the   *)
(* event log, so an action that appends an event applies its effect to     *)
(* the call; version is state_event_seq, counted per call.  The lease is   *)
(* the row of InvocationLease, reduced to its owner and whether it is      *)
(* live.  An invocation works from its plan: the calls as they were when   *)
(* it looked for work, before it acquired the lease.                       *)
(*                                                                         *)
(* Schedulers run as tasks of the event loop their interface runs in: when *)
(* there is one process (Colocated) a runner gives way to others only      *)
(* where run_once awaits.  Two processes may share the database; then the  *)
(* steps of their actors interleave freely.                                *)
(***************************************************************************)
EXTENDS Naturals, Sequences, FiniteSets, FiniteSetsExt

CONSTANTS Invocations,    \* the invoke_ids in use at a time
          NoInvocation,   \* no invoke_id in use
          Calls,          \* tool calls, numbered by (parent_event_seq, index)
          Parent,         \* the message that declares each call
          UserCalls,      \* calls of user commands (RA3); the others are RA2
          Resumable,      \* calls of tools that resume after lease loss
          Restricted,     \* calls of tools the thread may at times not run
          Colocated,      \* all runners and interfaces share one event loop
          MaxFaults,      \* bound: crashes, stalls and failing steps
          MaxInterrupts   \* bound: interrupts by the user

ASSUME CallsAssumption ==
  /\ Calls \subseteq Nat /\ IsFiniteSet(Calls)
  /\ Parent \in [Calls -> Nat]
  /\ UserCalls \subseteq Calls /\ Resumable \subseteq Calls /\ Restricted \subseteq Calls
  /\ \A c, d \in Calls : Parent[c] = Parent[d] => (c \in UserCalls <=> d \in UserCalls)
  /\ NoInvocation \notin Invocations
  /\ Colocated \in BOOLEAN
  /\ MaxFaults \in Nat /\ MaxInterrupts \in Nat

VARIABLES calls,       \* the reduced state of each call
          owner, live, \* the open_streams row: its invoke_id, lease_until > now
          phase,       \* where each invocation is in run_once
          plan,        \* what each invocation set out to do
          todo,        \* the calls of the plan it has not done with
          at,          \* where it is with the first of them
          cancel,      \* what interrupts have still to do: Ctrl+C, the web
          executions,  \* how often the tool of a call was set running
          results,     \* the tool messages published for a call
          budget       \* faults and interrupts so far

lease == <<owner, live>>
work == <<phase, plan, todo, at>>
record == <<executions, results>>
vars == <<calls, lease, work, cancel, record, budget>>

States == {"TC1", "TC2.1", "TC2.2", "TC3", "TC4", "TC5", "TC6"}
Decisions == {"none", "whole", "omit"}
Call == [approval : {"none", "granted", "denied"},
         started : BOOLEAN, by : Invocations \cup {NoInvocation},
         lost : BOOLEAN,     \* a recovery interrupt names its owner
         finished : {"none", "success", "error", "interrupted"},
         durable : BOOLEAN,  \* a tool_call.finished event exists
         decision : Decisions,
         decider : {"nobody", "automatic", "user", "explicit"},
         published : BOOLEAN,
         named : BOOLEAN,    \* a lifecycle event names it, not only the turn
         version : Nat]
Observation == [state : States, version : Nat, decision : Decisions]

\* What somebody saw of some calls.
Seeing(seen) == DOMAIN seen \subseteq Calls /\ seen \in [DOMAIN seen -> Observation]

Planned(p) ==
  /\ p = [mode |-> p.mode, seen |-> p.seen]
  /\ p.mode \in {"none", "tools", "orphaned", "stranded", "publish"}
  /\ Seeing(p.seen)

TypeOK ==
  /\ calls \in [Calls -> Call]
  /\ owner \in Invocations \cup {NoInvocation} /\ live \in BOOLEAN
  /\ phase \in [Invocations -> {"new", "planned", "working", "closing", "closed", "ended"}]
  /\ plan = [i \in Invocations |-> plan[i]]
  /\ todo \in [Invocations -> SUBSET Calls]
  /\ at \in [Invocations -> {"next", "resumed", "running", "deciding"}]
  /\ \A i \in Invocations : /\ Planned(plan[i])
                            /\ todo[i] \subseteq DOMAIN plan[i].seen
                            /\ at[i] # "next" => todo[i] # {}
  /\ cancel = [seen |-> cancel.seen, owes |-> cancel.owes, keeps |-> cancel.keeps]
  /\ Seeing(cancel.seen) /\ cancel.owes \subseteq Calls /\ cancel.keeps \in BOOLEAN
  /\ executions \in [Calls -> Nat]
  /\ results \in [Calls -> Seq({"denied", "whole", "omit", "cancelled"})]
  /\ budget \in [faults : 0..MaxFaults, interrupts : 0..MaxInterrupts]

-----------------------------------------------------------------------------
(* What the reducer makes of a call. *)

\* ToolCallState.state
StateOf(t) ==
  IF t.published THEN "TC6"
  ELSE IF t.decision # "none" THEN "TC5"
  ELSE IF t.finished # "none" THEN "TC4"
  ELSE IF t.started THEN "TC3"
  ELSE IF t.approval = "granted" THEN "TC2.1"
  ELSE IF t.approval = "denied" THEN "TC2.2" ELSE "TC1"

State(c) == StateOf(calls[c])

Observe(t) == [state |-> StateOf(t), version |-> t.version, decision |-> t.decision]

ObserveAll(cs) == [c \in cs |-> Observe(calls[c])]

Started(t, i) ==
  [t EXCEPT !.started = TRUE, !.by = i, !.lost = FALSE, !.named = TRUE, !.version = @ + 1]

\* execution_started with resume_after_lease_loss also forgets the finish.
Resumed(t, i) ==
  [Started(t, i) EXCEPT !.finished = "none", !.durable = FALSE,
                        !.decision = "none", !.decider = "nobody"]

Finished(t, reason) ==
  [t EXCEPT !.finished = reason, !.durable = TRUE, !.named = TRUE, !.version = @ + 1]

\* A decision before any finish is read as an interruption.
Decided(t, d, by) ==
  [t EXCEPT !.decision = d, !.decider = by, !.named = TRUE, !.version = @ + 1,
            !.finished = IF @ = "none" THEN "interrupted" ELSE @]

\* Its state_event_seq moves too; nobody compares it once a call is published.
Published(t) == [t EXCEPT !.published = TRUE]

\* Bug: the interruption of the owner overwrites a finish that was recorded.
OwnerGoneOverwrites(i, recovery) ==
  [c \in Calls |->
    IF calls[c].by # i \/ calls[c].decision # "none" THEN calls[c]
    ELSE [calls[c] EXCEPT !.finished = "interrupted", !.lost = @ \/ recovery]]

\* control.interrupt or stream.close of invocation i: what it had started and
\* not finished reads as interrupted, still without a decision.
OwnerGone(i, recovery) ==
  [c \in Calls |->
    IF calls[c].by # i THEN calls[c]
    ELSE [calls[c] EXCEPT !.finished = IF @ = "none" THEN "interrupted" ELSE @,
                          !.lost = @ \/ recovery]]

-----------------------------------------------------------------------------
(* discover_runner_actionable: recovery before new work, user commands      *)
(* before assistant calls, and of those the calls of the first message.     *)

Orphaned(c) ==
  \/ State(c) = "TC3"
  \/ State(c) = "TC4" /\ calls[c].finished = "interrupted"
     /\ ~calls[c].durable /\ calls[c].lost

Stranded(c) == State(c) = "TC4" /\ calls[c].finished = "success" /\ calls[c].durable

Runnable(c) == State(c) \in {"TC2.1", "TC2.2", "TC5"}

NoPlan == [mode |-> "none", seen |-> ObserveAll({})]

SameParent(first, cs) == {c \in cs : Parent[c] = Parent[first]}

Batch(mode, chosen, cs) == [mode |-> mode, seen |-> ObserveAll(SameParent(Min(chosen), cs))]

\* Bug: successful outputs without a decision are left to somebody else.
ActionableNotStranded ==
  LET orphans == {c \in Calls : Orphaned(c)}
      runnable == {c \in Calls : Runnable(c)}
  IN IF orphans # {} THEN Batch("orphaned", orphans, orphans)
     ELSE IF runnable # {} THEN Batch("tools", runnable, runnable)
     ELSE NoPlan

Actionable ==
  LET orphans == {c \in Calls : Orphaned(c)}
      stranded == {c \in Calls : Stranded(c)}
      user == {c \in UserCalls : Runnable(c)}
      assistant == {c \in Calls \ UserCalls : Runnable(c)}
  IN IF orphans # {} THEN Batch("orphaned", orphans, orphans)
     ELSE IF stranded # {}
          THEN Batch("stranded", stranded, stranded \cup {c \in Calls : State(c) = "TC5"})
     ELSE IF user # {} THEN Batch("tools", user, user)
     ELSE IF assistant # {} THEN Batch("tools", assistant, assistant)
     ELSE NoPlan

-----------------------------------------------------------------------------
Live == owner # NoInvocation /\ live
\* Bug: the fence asks for a live lease of the thread, not for its holder.
OwnsAnyLease(i) == live
Owns(i) == owner = i /\ live
Current(i) == Min(todo[i])
Seen(i) == plan[i].seen[Current(i)]
GoTo(i, p) == phase' = [phase EXCEPT ![i] = p]
Stay(i, where) == at' = [at EXCEPT ![i] = where] /\ UNCHANGED <<phase, plan, todo>>

\* Bug: the place in the previous call is kept.
NextCallKeepsPlace(i) ==
  /\ todo' = [todo EXCEPT ![i] = @ \ {Current(i)}]
  /\ UNCHANGED <<phase, plan, at>>

\* Done with the current call.
NextCall(i) ==
  /\ todo' = [todo EXCEPT ![i] = @ \ {Current(i)}]
  /\ at' = [at EXCEPT ![i] = "next"]
  /\ UNCHANGED <<phase, plan>>

SetCall(c, t) == calls' = [calls EXCEPT ![c] = t]

\* Remember the version the finalization is to find.
Expect(i, c, version) ==
  plan' = [plan EXCEPT ![i].seen[c].version = version]

\* An invocation between two awaits of run_once, and a Ctrl+C handler, keep the
\* event loop to themselves.
InLoop(i) == phase[i] = "planned" \/ (phase[i] = "working" /\ at[i] # "running")
Cancelling == DOMAIN cancel.seen # {} \/ cancel.owes # {}
MayRun(i) == Colocated => ~Cancelling /\ \A j \in Invocations \ {i} : ~InLoop(j)
MayHandle == Colocated => ~Cancelling /\ \A j \in Invocations : ~InLoop(j)

Fault == budget.faults < MaxFaults /\ budget' = [budget EXCEPT !.faults = @ + 1]

\* A user's command is granted by its declaration, or by an event of its own.
Init ==
  /\ \E granted \in SUBSET UserCalls : calls = [c \in Calls |->
       [approval |-> IF c \in UserCalls THEN "granted" ELSE "none",
        started |-> FALSE, by |-> NoInvocation, lost |-> FALSE,
        finished |-> "none", durable |-> FALSE, decision |-> "none",
        decider |-> "nobody", published |-> FALSE, named |-> c \in granted, version |-> 0]]
  /\ owner = NoInvocation /\ live = FALSE
  /\ phase = [i \in Invocations |-> "new"]
  /\ plan = [i \in Invocations |-> NoPlan]
  /\ todo = [i \in Invocations |-> {}]
  /\ at = [i \in Invocations |-> "next"]
  /\ cancel = [seen |-> ObserveAll({}), owes |-> {}, keeps |-> FALSE]
  /\ executions = [c \in Calls |-> 0]
  /\ results = [c \in Calls |-> <<>>]
  /\ budget = [faults |-> 0, interrupts |-> 0]

-----------------------------------------------------------------------------
(* run_once: look for work, then take the lease.  The plan is not looked   *)
(* at again.                                                               *)

Discover(i) ==
  /\ phase[i] = "new" /\ MayRun(i)
  /\ ~Live
  /\ Actionable # NoPlan
  /\ plan' = [plan EXCEPT ![i] = Actionable]
  /\ todo' = [todo EXCEPT ![i] = DOMAIN Actionable.seen]
  /\ GoTo(i, "planned")
  /\ UNCHANGED <<calls, lease, at, cancel, record, budget>>

Acquire(i) ==
  /\ phase[i] = "planned" /\ MayRun(i)
  /\ ~Live
  /\ owner' = i /\ live' = TRUE
  /\ calls' = IF owner = NoInvocation THEN calls ELSE OwnerGone(owner, TRUE)
  /\ GoTo(i, "working")
  /\ UNCHANGED <<plan, todo, at, cancel, record, budget>>

GiveWay(i) ==
  /\ phase[i] = "planned" /\ MayRun(i)
  /\ Live
  /\ GoTo(i, "ended")
  /\ UNCHANGED <<calls, lease, plan, todo, at, cancel, record, budget>>

\* At the current call of a plan of one of these modes.
Working(i, modes, where) ==
  /\ phase[i] = "working" /\ MayRun(i)
  /\ todo[i] # {}
  /\ plan[i].mode \in modes
  /\ at[i] = where

(* _run_ra_tools, for one call as the plan saw it.  Every append is fenced. *)

PublishDenial(i) ==
  /\ Working(i, {"tools"}, "next") /\ Seen(i).state = "TC2.2"
  /\ Owns(i)
  /\ SetCall(Current(i), Published(calls[Current(i)]))
  /\ results' = [results EXCEPT ![Current(i)] = Append(@, "denied")]
  /\ NextCall(i)
  /\ UNCHANGED <<lease, cancel, executions, budget>>

RefuseDisallowed(i) ==
  LET c == Current(i) IN
  /\ Working(i, {"tools"}, "next") /\ Seen(i).state = "TC2.1"
  /\ c \in Restricted
  /\ Owns(i)
  /\ SetCall(c, Finished(calls[c], "error"))
  /\ Expect(i, c, calls[c].version + 1)
  /\ at' = [at EXCEPT ![i] = "deciding"]
  /\ UNCHANGED <<lease, phase, todo, cancel, record, budget>>

Start(i) ==
  LET c == Current(i) IN
  /\ Working(i, {"tools"}, "next") /\ Seen(i).state = "TC2.1"
  /\ Owns(i)
  /\ SetCall(c, Started(calls[c], i))
  /\ executions' = [executions EXCEPT ![c] = @ + 1]
  /\ Stay(i, "running")
  /\ UNCHANGED <<lease, cancel, results, budget>>

\* The tool returned, raised or timed out.
Finish(i, reason) ==
  LET c == Current(i) IN
  /\ Working(i, {"tools", "orphaned"}, "running")
  /\ Owns(i)
  /\ SetCall(c, Finished(calls[c], reason))
  /\ Expect(i, c, calls[c].version + 1)
  /\ at' = [at EXCEPT ![i] = "deciding"]
  /\ UNCHANGED <<lease, phase, todo, cancel, record, budget>>

\* finalize_tool_output by the runner: a decision already made stands; else the
\* call must be as the finish left it, or the run ends with the call in TC4.
Finalize(i) ==
  LET c == Current(i) IN
  /\ Working(i, {"tools", "orphaned"}, "deciding")
  /\ \/ calls[c].decision # "none" /\ UNCHANGED calls /\ NextCall(i)
     \/ /\ State(c) = "TC4" /\ calls[c].version = Seen(i).version
        /\ Owns(i)
        /\ SetCall(c, Decided(calls[c], "whole", "automatic"))
        /\ NextCall(i)
     \/ /\ calls[c].decision = "none"
        /\ State(c) # "TC4" \/ calls[c].version # Seen(i).version
        /\ UNCHANGED <<calls, plan, todo, at>> /\ GoTo(i, "closing")
  /\ UNCHANGED <<lease, cancel, record, budget>>

\* The decision published is the one the plan saw.
Publish(i) ==
  /\ Working(i, {"tools", "publish"}, "next") /\ Seen(i).state = "TC5"
  /\ Owns(i)
  /\ SetCall(Current(i), Published(calls[Current(i)]))
  /\ results' = [results EXCEPT ![Current(i)] = Append(@, Seen(i).decision)]
  /\ NextCall(i)
  /\ UNCHANGED <<lease, cancel, executions, budget>>

(* _recover_orphaned_tool: one transaction for each call that is still as  *)
(* the plan saw it.                                                        *)

\* Bug: any tool is resumed, whether it can be or not.
ResumeAnyOrphan(i) ==
  LET c == Current(i)
      old == calls[c].by
      base == IF old = NoInvocation THEN calls ELSE OwnerGone(old, TRUE)
      unchanged == /\ calls[c].version = Seen(i).version
                   /\ \/ State(c) = "TC3"
                      \/ State(c) = "TC4" /\ calls[c].finished = "interrupted"
  IN
  /\ Working(i, {"orphaned"}, "next")
  /\ \/ ~unchanged /\ UNCHANGED calls /\ NextCall(i)
     \/ /\ unchanged /\ Owns(i)
        /\ calls' = [base EXCEPT ![c] = Resumed(@, i)]
        /\ Stay(i, "resumed")
     \/ /\ unchanged /\ Owns(i)
        /\ \E reason \in IF c \in Resumable THEN {"error"} ELSE {"interrupted"} :
             calls' = [base EXCEPT ![c] = Decided(Finished(@, reason), "whole", "automatic")]
        /\ NextCall(i)
  /\ UNCHANGED <<lease, cancel, record, budget>>

RecoverOrphan(i) ==
  LET c == Current(i)
      old == calls[c].by
      base == IF old = NoInvocation THEN calls ELSE OwnerGone(old, TRUE)
      unchanged == /\ calls[c].version = Seen(i).version
                   /\ \/ State(c) = "TC3"
                      \/ State(c) = "TC4" /\ calls[c].finished = "interrupted"
  IN
  /\ Working(i, {"orphaned"}, "next")
  /\ \/ ~unchanged /\ UNCHANGED calls /\ NextCall(i)
     \/ /\ unchanged /\ Owns(i) /\ c \in Resumable
        /\ calls' = [base EXCEPT ![c] = Resumed(@, i)]
        /\ Stay(i, "resumed")
     \/ /\ unchanged /\ Owns(i)
        /\ \E reason \in IF c \in Resumable THEN {"error"} ELSE {"interrupted"} :
             calls' = [base EXCEPT ![c] = Decided(Finished(@, reason), "whole", "automatic")]
        /\ NextCall(i)
  /\ UNCHANGED <<lease, cancel, record, budget>>

\* A resumed call runs again if nothing happened to it since.
RunResumed(i) ==
  LET c == Current(i) IN
  /\ Working(i, {"orphaned"}, "resumed")
  /\ IF State(c) = "TC3" /\ calls[c].by = i
     THEN executions' = [executions EXCEPT ![c] = @ + 1] /\ Stay(i, "running")
     ELSE UNCHANGED executions /\ NextCall(i)
  /\ UNCHANGED <<calls, lease, cancel, results, budget>>

\* _recover_stranded_successful_tool_output stops at the first sibling that is
\* neither decided nor stranded.
RecoverStranded(i) ==
  LET c == Current(i) IN
  /\ Working(i, {"stranded"}, "next")
  /\ \/ State(c) = "TC5" /\ UNCHANGED calls /\ NextCall(i)
     \/ /\ Stranded(c) /\ Owns(i)
        /\ SetCall(c, Decided(calls[c], "whole", "automatic"))
        /\ NextCall(i)
     \/ /\ State(c) # "TC5" /\ ~Stranded(c)
        /\ todo' = [todo EXCEPT ![i] = {}]
        /\ UNCHANGED <<calls, phase, plan, at>>
  /\ UNCHANGED <<lease, cancel, record, budget>>

\* Both recoveries end by publishing, from a fresh look at the calls.
Publishable(i) ==
  {c \in DOMAIN plan[i].seen :
     \A d \in DOMAIN plan[i].seen :
       d = c \/ (plan[i].mode = "stranded" /\ d < c) => State(d) = "TC5"}

PublishRecovered(i) ==
  /\ phase[i] = "working" /\ MayRun(i)
  /\ todo[i] = {} /\ plan[i].mode \in {"orphaned", "stranded"}
  /\ plan' = [plan EXCEPT ![i] = [mode |-> "publish", seen |-> ObserveAll(Publishable(i))]]
  /\ todo' = [todo EXCEPT ![i] = Publishable(i)]
  /\ UNCHANGED <<calls, lease, phase, at, cancel, record, budget>>

EndWork(i) ==
  /\ phase[i] = "working" /\ MayRun(i)
  /\ todo[i] = {} /\ plan[i].mode \in {"tools", "publish"}
  /\ GoTo(i, "closing")
  /\ UNCHANGED <<calls, lease, plan, todo, at, cancel, record, budget>>

-----------------------------------------------------------------------------
(* The end of run_once, and what may cut it short. *)

Close(i) ==
  /\ phase[i] = "closing" /\ MayRun(i)
  /\ Owns(i)
  /\ calls' = OwnerGone(i, FALSE)
  /\ GoTo(i, "closed")
  /\ UNCHANGED <<lease, plan, todo, at, cancel, record, budget>>

Release(i) ==
  /\ phase[i] = "closed" /\ MayRun(i)
  /\ IF Owns(i) THEN owner' = NoInvocation /\ live' = FALSE ELSE UNCHANGED lease
  /\ GoTo(i, "ended")
  /\ UNCHANGED <<calls, plan, todo, at, cancel, record, budget>>

\* A fenced append fails: no close, no release.
LoseLease(i) ==
  /\ phase[i] \in {"working", "closing"} /\ MayRun(i)
  /\ ~Owns(i)
  /\ GoTo(i, "ended")
  /\ UNCHANGED <<calls, lease, plan, todo, at, cancel, record, budget>>

\* The task is cancelled while the tool runs: the call is finished as
\* interrupted and decided, nothing else of the plan is done.
CancelTask(i) ==
  LET c == Current(i) IN
  /\ Working(i, {"tools", "orphaned"}, "running") /\ Fault
  /\ Owns(i)
  /\ SetCall(c, Finished(calls[c], "interrupted"))
  /\ plan' = [plan EXCEPT ![i].mode = "tools", ![i].seen[c].version = calls[c].version + 1]
  /\ todo' = [todo EXCEPT ![i] = {c}]
  /\ at' = [at EXCEPT ![i] = "deciding"]
  /\ UNCHANGED <<lease, phase, cancel, record>>

\* Any other exception, or an output policy or artifact that fails.
Fail(i) ==
  /\ phase[i] = "working" /\ MayRun(i) /\ Fault
  /\ GoTo(i, "closing")
  /\ UNCHANGED <<calls, lease, plan, todo, at, cancel, record>>

Crash(i) ==
  /\ phase[i] \notin {"new", "ended"} /\ Fault
  /\ GoTo(i, "ended")
  /\ UNCHANGED <<calls, lease, plan, todo, at, cancel, record>>

\* A live invocation misses its heartbeats.
Stall ==
  /\ Live /\ phase[owner] # "ended" /\ Fault
  /\ live' = FALSE
  /\ UNCHANGED <<calls, owner, work, cancel, record>>

\* Nobody renews the lease of an invocation that is over.
Expire ==
  /\ Live /\ phase[owner] = "ended"
  /\ live' = FALSE
  /\ UNCHANGED <<calls, owner, work, cancel, record, budget>>

\* thread_state drops an expired row.
Sweep ==
  /\ owner # NoInvocation /\ ~live /\ MayHandle
  /\ owner' = NoInvocation
  /\ UNCHANGED <<calls, live, work, cancel, record, budget>>

\* Not in the code: an invocation that is over and has no row stands for the next
\* fresh one.
Recycle(i) ==
  /\ phase[i] = "ended" /\ owner # i
  /\ calls' = [c \in Calls |-> [calls[c] EXCEPT !.by = IF @ = i THEN NoInvocation ELSE @]]
  /\ GoTo(i, "new")
  /\ plan' = [plan EXCEPT ![i] = NoPlan]
  /\ todo' = [todo EXCEPT ![i] = {}]
  /\ at' = [at EXCEPT ![i] = "next"]
  /\ UNCHANGED <<lease, cancel, record, budget>>

-----------------------------------------------------------------------------
(* The user interfaces. *)

\* An approval prompt, or an approval policy, decides a call in TC1.
Approved(t, answer) == [t EXCEPT !.approval = answer, !.named = TRUE, !.version = @ + 1]

Approve(c, answer) ==
  /\ State(c) = "TC1" /\ MayHandle
  /\ SetCall(c, Approved(calls[c], answer))
  /\ UNCHANGED <<lease, work, cancel, record, budget>>

\* all-in-turn: one event, which names no call, grants what is still open.
ApproveTurn ==
  /\ \E c \in Calls : State(c) = "TC1"
  /\ MayHandle
  /\ calls' = [c \in Calls |->
       [calls[c] EXCEPT !.approval = IF @ = "none" THEN "granted" ELSE @]]
  /\ UNCHANGED <<lease, work, cancel, record, budget>>

\* finalize_tool_output by a user: the first decision stands, except that an
\* explicit omission or cancellation replaces any other until publication.
\* Bug: an explicit decision is taken after publication too.
UserMayDecideLate(t, by) ==
  \/ StateOf(t) = "TC4"
  \/ StateOf(t) \in {"TC5", "TC6"} /\ by = "explicit" /\ t.decider # "explicit"

UserMayDecide(t, by) ==
  \/ StateOf(t) = "TC4"
  \/ StateOf(t) = "TC5" /\ by = "explicit" /\ t.decider # "explicit"

KeepOutput(c) ==
  /\ MayHandle /\ UserMayDecide(calls[c], "user")
  /\ SetCall(c, Decided(calls[c], "whole", "user"))
  /\ UNCHANGED <<lease, work, cancel, record, budget>>

OmitOutput(c) ==
  /\ MayHandle /\ UserMayDecide(calls[c], "explicit")
  /\ SetCall(c, Decided(calls[c], "omit", "explicit"))
  /\ UNCHANGED <<lease, work, cancel, record, budget>>

CountInterrupt ==
  /\ budget.interrupts < MaxInterrupts
  /\ budget' = [budget EXCEPT !.interrupts = @ + 1]

\* POST interrupt: interrupt_thread drops the row, expired or not, and records
\* it; after a pause the outputs of the interrupted calls are kept.
WebInterrupt ==
  /\ MayHandle
  /\ CountInterrupt
  /\ calls' = IF owner = NoInvocation THEN calls ELSE OwnerGone(owner, FALSE)
  /\ owner' = NoInvocation /\ live' = FALSE
  /\ cancel' = [cancel EXCEPT !.keeps = TRUE]
  /\ UNCHANGED <<work, record>>

WebKeepInterrupted ==
  LET due == {c \in Calls : calls[c].finished = "interrupted"
                            /\ UserMayDecide(calls[c], "explicit")} IN
  /\ MayHandle /\ cancel.keeps
  /\ calls' = [c \in Calls |-> IF c \in due THEN Decided(calls[c], "whole", "explicit")
                               ELSE calls[c]]
  /\ cancel' = [cancel EXCEPT !.keeps = FALSE]
  /\ UNCHANGED <<lease, work, record, budget>>

\* Ctrl+C in the terminal, while the thread has work: thread_state drops an
\* expired row, interrupt_thread a live one, which it records; then the calls are
\* cancelled one by one as they are now.
CtrlCOver(cancelled) ==
  /\ MayHandle /\ ~Cancelling
  /\ CountInterrupt
  /\ owner # NoInvocation \/ \E c \in Calls : State(c) # "TC6"
  /\ calls' = IF Live THEN OwnerGone(owner, FALSE) ELSE calls
  /\ owner' = NoInvocation /\ live' = FALSE
  /\ cancel' = [cancel EXCEPT !.seen =
       [c \in {d \in Calls : StateOf(calls'[d]) \in cancelled} |-> Observe(calls'[c])]]
  /\ UNCHANGED <<work, record>>

\* Bug: published calls are cancelled too.
CtrlCPublishedToo == CtrlCOver({"TC1", "TC2.1", "TC3", "TC4", "TC5", "TC6"})

CtrlC == CtrlCOver({"TC1", "TC2.1", "TC3", "TC4", "TC5"})

CancelNext == Min(DOMAIN cancel.seen)

\* finalize_tool_output compares the version with the last lifecycle event that
\* names the call, under the write lock: it fails if the call changed since the
\* handler looked, or if no event names it.
CancelCall ==
  LET c == CancelNext
      seen == cancel.seen[c]
      committed == \/ seen.state = "TC1"
                   \/ /\ seen.version = calls[c].version /\ calls[c].named
                      /\ ~calls[c].published
                   \/ calls[c].decision # "none"
  IN
  /\ cancel.owes = {} /\ DOMAIN cancel.seen # {}
  /\ Colocated => \A j \in Invocations : ~InLoop(j)
  /\ IF seen.state = "TC1"
     THEN SetCall(c, Approved(calls[c], "denied"))
     ELSE IF committed /\ ~calls[c].published /\ calls[c].decider # "explicit"
     THEN SetCall(c, Decided(calls[c], "omit", "explicit"))
     ELSE UNCHANGED calls
  /\ cancel' = [cancel EXCEPT !.seen = [d \in DOMAIN cancel.seen \ {c} |-> cancel.seen[d]],
                            !.owes = IF committed THEN {c} \ UserCalls ELSE {}]
  /\ UNCHANGED <<lease, work, record, budget>>

\* A plain append.
AnswerCancelled(c) ==
  /\ c \in cancel.owes
  /\ SetCall(c, Published(calls[c]))
  /\ results' = [results EXCEPT ![c] = Append(@, "cancelled")]
  /\ cancel' = [cancel EXCEPT !.owes = {}]
  /\ UNCHANGED <<lease, work, executions, budget>>

-----------------------------------------------------------------------------
RunnerStep(i) ==
  \/ Discover(i) \/ Acquire(i) \/ GiveWay(i)
  \/ PublishDenial(i) \/ RefuseDisallowed(i) \/ Start(i)
  \/ \E reason \in {"success", "error"} : Finish(i, reason)
  \/ Finalize(i) \/ Publish(i)
  \/ RecoverOrphan(i) \/ RunResumed(i) \/ RecoverStranded(i)
  \/ PublishRecovered(i) \/ EndWork(i)
  \/ Close(i) \/ Release(i) \/ LoseLease(i)

FaultStep(i) == CancelTask(i) \/ Fail(i) \/ Crash(i)

CancelStep == CancelCall \/ WebKeepInterrupted \/ \E c \in Calls : AnswerCancelled(c)

UserStep ==
  \/ \E c \in Calls : KeepOutput(c) \/ OmitOutput(c)
                      \/ \E answer \in {"granted", "denied"} : Approve(c, answer)
  \/ ApproveTurn \/ WebInterrupt \/ CtrlC

Next ==
  \/ \E i \in Invocations : RunnerStep(i) \/ FaultStep(i) \/ Recycle(i)
  \/ Stall \/ Expire \/ Sweep
  \/ UserStep \/ CancelStep

Spec == Init /\ [][Next]_vars

\* Schedulers poll and runners go on; time passes; a handler that began ends.
FairSpec ==
  /\ Spec
  /\ \A i \in Invocations : WF_vars(RunnerStep(i)) /\ WF_vars(Recycle(i))
  /\ WF_vars(Expire)
  /\ WF_vars(CancelStep)

-----------------------------------------------------------------------------
(* Properties. *)

\* A tool runs only when somebody granted it and it has not run, or again to
\* resume what its owner lost: a call denied, cancelled or finished meanwhile is
\* not set running by an invocation that planned to run it.
RunOnlyIfWanted ==
  [][\A c \in Calls : executions'[c] # executions[c] =>
       \/ State(c) = "TC2.1"
       \/ c \in Resumable /\ State(c) = "TC3" /\ calls[c].decision = "none"]_vars

\* The side effects of a tool happen once, whatever crashes, expires or is
\* interrupted; only tools declared to resume after a lease loss run again.
RunOnce == \A c \in Calls \ Resumable : executions[c] <= 1

\* The provider protocol: each tool call has at most one tool message.
OneResult == \A c \in Calls : Len(results[c]) <= 1

\* A finish that reached the log is never forgotten: a late interrupt or
\* stream.close does not turn a success into an interruption.
FinishIsFinal ==
  [][\A c \in Calls : calls[c].durable => calls'[c].finished = calls[c].finished]_vars

\* The first decision on an output stands, whoever else decides at the same time
\* on what it saw before; only an explicit omission or cancellation replaces it,
\* once, and never after the output is published.
DecisionStands ==
  [][\A c \in Calls :
       /\ calls[c].decision # "none"
       /\ \/ calls'[c].decision # calls[c].decision
          \/ calls'[c].decider # calls[c].decider
       => /\ calls'[c].decider = "explicit" /\ calls[c].decider # "explicit"
          /\ ~calls[c].published]_vars

-----------------------------------------------------------------------------
(* The abstract specification. *)

StageOf(t) ==
  LET state == StateOf(t) IN
  CASE state = "TC1" -> "asked"
    [] state = "TC2.1" -> "granted"
    [] state = "TC2.2" -> "refused"
    [] state = "TC3" -> "running"
    [] state = "TC4" -> IF t.durable THEN "returned" ELSE "lost"
    [] state = "TC5" -> "decided"
    [] state = "TC6" -> "answered"

Lifecycle == INSTANCE CallLifecycle
  WITH stage <- [c \in Calls |-> StageOf(calls[c])], runs <- executions, answers <- results

\* In one event loop every call goes the way CallLifecycle draws, whatever the
\* runners, recoveries, interfaces and faults do to the log at the same time.
ImplementsLifecycle == Lifecycle!Spec

-----------------------------------------------------------------------------
\* What the transcript shows is what was decided (finalize_tool_output: "a stale
\* publisher cannot use the superseded decision").
PublishedAsDecided ==
  \A c \in Calls : \A k \in DOMAIN results[c] :
     results[c][k] \in {"whole", "omit"} => results[c][k] = calls[c].decision

\* Ctrl+C leaves no call it met to run or to be shown later ("TC2.1 / TC3 / TC4:
\* mark output decision as omit", cancel_pending_tools_on_interrupt).
CancelTakesEffect ==
  [][\A c \in DOMAIN cancel.seen \ DOMAIN cancel'.seen :
       StateOf(calls'[c]) \in {"TC2.2", "TC5", "TC6"}]_vars

\* Every granted call is answered in the transcript, or waits for the user:
\* an output only the user may decide on, or an interrupted one.
Settled(c) ==
  \/ State(c) = "TC6"
  \/ State(c) = "TC4" /\ ~Orphaned(c) /\ ~Stranded(c)

SettledEventually == \A c \in Calls : State(c) = "TC2.1" ~> Settled(c)

=============================================================================
