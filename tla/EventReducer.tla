---------------------------- MODULE EventReducer ----------------------------
(***************************************************************************)
(* The state of a thread is a fold over its event log (tool_state.py).     *)
(* _reduce_thread_events answers from a cache when it can: it folds only   *)
(* the events after the cached reduction onto it                           *)
(* (_try_reduce_thread_events_incrementally) and rebuilds from the whole   *)
(* log otherwise (_reduce_loaded_thread_events).  Every process has a      *)
(* cache of its own, so two processes agree on what is to be done next     *)
(* only if both ways of reading one log give the same result.              *)
(*                                                                         *)
(* The log is a sequence of events and event_seq the index into it.  The   *)
(* actions append what the runner, the user and the API append, each when  *)
(* a rebuild of the log lets its handler do so; continue_thread, which     *)
(* rewrites the meaning of what precedes it, is one event that stands for  *)
(* its msg.edit events and its control.interrupt (one transaction).        *)
(*                                                                         *)
(* A runner chooses its work (run_once), takes the lease and opens its     *)
(* stream in three steps, with no await between them: where all runners    *)
(* and interfaces of the thread share one event loop (Colocated) nothing   *)
(* but time passes in between, and another process is another matter.      *)
(***************************************************************************)
EXTENDS Integers, FiniteSets, SequencesExt, TLC

CONSTANTS
  Calls,                   \* tool call ids
  Invocations,             \* invocation ids, each used once
  None,                    \* no call, no invocation
  Histories,               \* logs of threads at rest to start from
  Colocated,               \* do all runners and interfaces share one event loop?
  MaxNew,                  \* bound on the events that follow one of them
  MaxContinues             \* bound on the continuations of a thread

ASSUME ReducerAssumption ==
  /\ None \notin Calls \cup Invocations
  /\ Colocated \in BOOLEAN
  /\ MaxNew \in Nat /\ MaxContinues \in Nat

MaxLog == Max({Len(h) : h \in Histories}) + MaxNew

VARIABLES
  log,      \* the events of the thread
  thread,   \* what a process without a cache reads in log
  lease,    \* the row of the thread in open_streams
  plan,     \* of an invocation between its choice of work and its stream
  cache     \* _REDUCER_CACHE of one process

vars == <<log, thread, lease, plan, cache>>

-----------------------------------------------------------------------------
\* "call" is the tool call an event is about or declares, "by" its invoke_id
\* or, in an interrupt, the old_invoke_id; "at" is the message a continuation
\* starts from and, as a record of the model, the one that triggered a stream.
\* An approval of a call grants or denies it, a decision is by one of three.
Event == {e \in
  [type : {"user", "assistant", "result", "open", "close", "interrupt",
           "continue", "approval", "started", "finished", "decided"},
   call : Calls \cup {None}, by : Invocations \cup {None},
   arg : {"", "llm", "tool", "granted", "denied", "turn", "global",
          "revoke", "again", "success", "auto", "user", "cancel", "assistant"},
   at : 0..MaxLog] :
     /\ e.type = "approval" /\ e.call # None => e.arg \in {"granted", "denied"}
     /\ e.type = "decided" => e.arg \in {"auto", "user", "cancel"}}

Ev(type, call, by, arg, at) ==
  [type |-> type, call |-> call, by |-> by, arg |-> arg, at |-> at]

IsMessage(e) == e.type \in {"user", "assistant", "result"}

Declares(e) == e.type \in {"user", "assistant"} /\ e.call # None

Positions(L, Is(_)) == {k \in DOMAIN L : Is(L[k])}

\* -1 stands for "no such event", as in the code.
Latest(S) == Max(S \cup {-1})

Users(L) == Positions(L, LAMBDA e : e.type = "user")

Continues(L) == Positions(L, LAMBDA e : e.type = "continue")

\* The messages that a continuation from an earlier one has struck out.
Skipped(L) ==
  LET continues == Continues(L)
  IN  {m \in Positions(L, IsMessage) : \E n \in continues : m < n /\ L[n].at < m}

-----------------------------------------------------------------------------
\* One call.
Call == [parent : 1..MaxLog, role : {"user", "assistant"},
         approval : {"none", "granted", "denied"}, started : BOOLEAN,
         owner : Invocations \cup {None},
         finished : {"none", "success", "interrupted"},
         decision : {"none", "auto", "user", "cancel"}, published : BOOLEAN]

Declared(m, e) ==
  [parent |-> m, role |-> e.type,
   approval |-> IF e.type = "user" THEN "granted" ELSE "none",
   started |-> FALSE, owner |-> None, finished |-> "none",
   decision |-> "none", published |-> FALSE]

State(t) ==
  CASE t.published -> "TC6"
    [] ~t.published /\ t.decision # "none" -> "TC5"
    [] ~t.published /\ t.decision = "none" /\ t.finished # "none" -> "TC4"
    [] OTHER -> CASE t.started -> "TC3"
                  [] ~t.started /\ t.approval = "granted" -> "TC2.1"
                  [] ~t.started /\ t.approval = "denied" -> "TC2.2"
                  [] OTHER -> "TC1"

Priority == [none |-> 0, auto |-> 1, user |-> 2, cancel |-> 3]

Restarted(t) == [t EXCEPT !.finished = "none", !.decision = "none"]

\* What an event that names the call does to it, in both reducers.
Applied(t, e) ==
  CASE e.type = "approval" -> [t EXCEPT !.approval = e.arg]
    [] e.type = "started" ->
         [(IF e.arg = "again" THEN Restarted(t) ELSE t)
            EXCEPT !.started = TRUE, !.owner = e.by]
    [] e.type = "finished" -> [t EXCEPT !.finished = "success"]
    [] e.type = "decided" ->
         IF Priority[e.arg] > Priority[t.decision] THEN [t EXCEPT !.decision = e.arg] ELSE t
    [] e.type = "result" -> [t EXCEPT !.published = TRUE]
    [] OTHER -> t

\* A decision before any finish is read as an interruption.
Sealed(t) ==
  IF t.decision # "none" /\ t.finished = "none" THEN [t EXCEPT !.finished = "interrupted"] ELSE t

\* The invocations whose stream is closed or interrupted after position k.
Gone(L, k) ==
  {L[n].by : n \in {n \in Positions(L, LAMBDA e : e.type \in {"close", "interrupt"}) : n > k}}
    \ {None}

\* What a gone invocation had started and not finished reads as interrupted.
Swept(t, gone) ==
  IF t.started /\ t.finished = "none" /\ t.owner \in gone
  THEN [t EXCEPT !.finished = "interrupted", !.decision = "none"] ELSE t

\* _tool_call_ids_in_turn: is the call of the turn of position k?
InTurn(L, t, k) ==
  /\ \A u \in Users(L) : u <= k => u <= t.parent
  /\ \A u \in Users(L) : u > k => t.parent < u

GrantedTogether(L, t, k) ==
  IF t.approval = "none" /\ InTurn(L, t, k) THEN [t EXCEPT !.approval = "granted"] ELSE t

IsTurnApproval(e) == e.type = "approval" /\ e.arg = "turn"

IsGlobal(e) == e.type = "approval" /\ e.arg \in {"global", "revoke"}

-----------------------------------------------------------------------------
\* What is to be done next: tool calls of the user, tool calls of the
\* assistant, then, once each of those has its result, a turn of the model.
Work == [kind : {"none", "RA1", "RA2", "RA3"}, at : 0..MaxLog]

NoWork == [kind |-> "none", at |-> 0]

\* A result of a user command keeps the user's turn and triggers nothing.
Triggers(e) ==
  \/ e.type = "user" /\ e.call = None
  \/ e.type = "result" /\ e.arg = "assistant"

Runnable(calls, role) ==
  {c \in DOMAIN calls : calls[c].role = role /\ State(calls[c]) \in {"TC2.1", "TC2.2", "TC5"}}

FirstParent(calls, cs) == Min({calls[c].parent : c \in cs})

NextWork(L, calls, after) ==
  LET users == Runnable(calls, "user")
      assistants == Runnable(calls, "assistant")
      triggers == {m \in after : Triggers(L[m])}
  IN  CASE users # {} -> [kind |-> "RA3", at |-> FirstParent(calls, users)]
        [] users = {} /\ assistants # {} ->
             [kind |-> "RA2", at |-> FirstParent(calls, assistants)]
        [] users = {} /\ assistants = {} /\ triggers # {}
           /\ \A c \in DOMAIN calls : calls[c].role = "assistant" => calls[c].published ->
             [kind |-> "RA1", at |-> Min(triggers)]
        [] OTHER -> NoWork

-----------------------------------------------------------------------------
\* The full reducer.

\* Bug: a continuation takes back only what happened to later calls.
TakenBackLater(L, t, k) ==
  LET n == Latest(Positions(L, LAMBDA e : e.type \in {"interrupt", "continue"}))
  IN  /\ n # -1 /\ L[n].type = "continue"
      /\ L[n].at < k /\ k <= n /\ t.parent > L[n].at

\* _should_skip_tc_event: a continuation takes back what had happened to the
\* calls of the message it starts from, as long as it is the latest interrupt.
TakenBack(L, t, k) ==
  LET n == Latest(Positions(L, LAMBDA e : e.type \in {"interrupt", "continue"}))
  IN  /\ n # -1 /\ L[n].type = "continue"
      /\ L[n].at < k /\ k <= n /\ t.parent >= L[n].at

\* What the event at k does to t, the call declared at m.
Replaying(L, m, skipped, t, k) ==
  CASE IsTurnApproval(L[k]) -> GrantedTogether(L, t, k)
    [] L[k].call = L[m].call /\ k > m /\ k \notin skipped /\ ~TakenBack(L, t, k) ->
         Applied(t, L[k])
    [] OTHER -> t

Replayed(L, m) ==
  LET skipped == Skipped(L)
      upTo[k \in 0..Len(L)] ==
        IF k = 0 THEN Declared(m, L[m]) ELSE Replaying(L, m, skipped, upTo[k - 1], k)
  IN  upTo[Len(L)]

\* Is position k in an interval of global approval?  An interval runs from an
\* approval to a revoke: one that is repeated before it is revoked starts anew.
GlobalAt(L, k) ==
  LET switches == Positions(L, IsGlobal)
      g == Latest({n \in switches : n <= k})
      later == {n \in switches : n > k}
  IN  /\ g # -1 /\ L[g].arg = "global"
      /\ later # {} => L[Min(later)].arg = "revoke"

Rebuilt(L, m) ==
  LET t == Swept(Sealed(Replayed(L, m)), Gone(L, 0))
  IN  IF t.approval = "none" /\ GlobalAt(L, m) THEN [t EXCEPT !.approval = "granted"] ELSE t

RebuiltCalls(L) ==
  LET declarations == Positions(L, Declares) \ Skipped(L)
  IN  [c \in {L[m].call : m \in declarations} |->
        Rebuilt(L, CHOOSE m \in declarations : L[m].call = c)]

LLM(L) == {L[k].by : k \in Positions(L, LAMBDA e : e.type = "open" /\ e.arg = "llm")}

\* Bug: a turn ends with its answer or an interrupt, not with its stream.
EndsTurnByInterrupt(e, llm) == e.type = "interrupt" /\ (e.arg = "llm" \/ e.by \in llm)

EndsTurn(e, llm) ==
  \/ e.type = "close" /\ e.by \in llm
  \/ e.type = "interrupt" /\ (e.arg = "llm" \/ e.by \in llm)

TurnEnds(L) == LET llm == LLM(L) IN Positions(L, LAMBDA e : EndsTurn(e, llm))

Assistants(L) == Positions(L, LAMBDA e : e.type = "assistant") \ Skipped(L)

\* _llm_boundary_details_from_records
Boundary(L) ==
  LET b == Latest(TurnEnds(L) \cup Continues(L))
  IN  CASE b = -1 -> Latest(Assistants(L))
        [] b \in Continues(L) -> L[b].at - 1
        [] OTHER -> b

TurnOpen(L) == \E k \in Positions(L, IsTurnApproval) : \A u \in Users(L) : u < k

Rebuild(L) ==
  LET calls == RebuiltCalls(L)
      boundary == Boundary(L)
      after == {m \in Positions(L, IsMessage) \ Skipped(L) : m > boundary}
  IN  [upto |-> Len(L), calls |-> calls, llm |-> LLM(L), boundary |-> boundary,
       stream |-> Latest(TurnEnds(L)), assistant |-> Latest(Assistants(L)),
       global |-> GlobalAt(L, Len(L)), turn |-> TurnOpen(L),
       after |-> after, next |-> NextWork(L, calls, after)]

-----------------------------------------------------------------------------
\* The incremental reducer: the events after r.upto folded onto r.

ForgetsTurn(acc, e) == IF e.type = "user" THEN [acc EXCEPT !.turn = FALSE] ELSE acc

Declaring(acc, k, e) ==
  LET t == Declared(k, e)
      new == IF acc.global \/ acc.turn THEN [t EXCEPT !.approval = "granted"] ELSE t
  IN  [acc EXCEPT !.calls =
         [c \in {e.call} \cup DOMAIN @ |-> IF c = e.call THEN new ELSE @[c]]]

\* A decision seals its call at once here.
Naming(acc, e) == [acc EXCEPT !.calls[e.call] = Sealed(Applied(@, e))]

Extended(acc, L, k) ==
  LET e == L[k]
  IN  CASE IsTurnApproval(e) ->
             [acc EXCEPT !.turn = TRUE,
                         !.calls = [c \in DOMAIN @ |-> GrantedTogether(L, @[c], k)]]
        [] IsGlobal(e) -> [acc EXCEPT !.global = e.arg = "global"]
        [] Declares(e) -> Declaring(ForgetsTurn(acc, e), k, e)
        [] ~Declares(e) /\ e.call # None /\ ~IsGlobal(e) -> Naming(acc, e)
        [] OTHER -> ForgetsTurn(acc, e)

\* Bug: an answer whose stream has not ended is no boundary.
ExtendedBoundaryByStream(L, r) ==
  LET ends == {k \in TurnEnds(L) : k > r.upto} IN IF ends # {} THEN Max(ends) ELSE r.boundary

\* The boundary follows the last answer only while no stream has ended.
ExtendedBoundary(L, r) ==
  LET after(S) == {k \in S : k > r.upto}
      ends == after(TurnEnds(L))
      answers == after(Assistants(L))
      fallback == r.boundary = -1 \/ (r.stream = -1 /\ r.boundary = r.assistant)
  IN  CASE ends # {} -> Max(ends)
        [] ends = {} /\ fallback /\ answers # {} -> Max(answers)
        [] OTHER -> r.boundary

Increment(L, r) ==
  LET upTo[k \in r.upto..Len(L)] ==
        IF k = r.upto THEN [calls |-> r.calls, global |-> r.global, turn |-> r.turn]
        ELSE Extended(upTo[k - 1], L, k)
      acc == upTo[Len(L)]
      calls == [c \in DOMAIN acc.calls |-> Swept(acc.calls[c], Gone(L, r.upto))]
      boundary == ExtendedBoundary(L, r)
      new == {m \in Positions(L, IsMessage) : m > r.upto}
      after == {m \in r.after \cup new : m > boundary}
  IN  [upto |-> Len(L), calls |-> calls, llm |-> LLM(L), boundary |-> boundary,
       stream |-> Latest(TurnEnds(L)), assistant |-> Latest(Assistants(L)),
       global |-> acc.global, turn |-> acc.turn,
       after |-> after, next |-> NextWork(L, calls, after)]

\* _is_incremental_safe_tail_event: a continuation has edited older messages.
SafeTail(L, r) == \A k \in Continues(L) : k <= r.upto

-----------------------------------------------------------------------------
NoCache == [upto |-> 0]

NoLease == [by |-> None, kind |-> "", live |-> FALSE]

Idle == [pc |-> "idle", work |-> NoWork]

Init ==
  /\ log \in Histories
  /\ thread = Rebuild(log)
  /\ lease = NoLease
  /\ plan = [i \in Invocations |-> Idle]
  /\ cache = NoCache

Write(e) ==
  /\ \E h \in Histories : Len(log) < Len(h) + MaxNew /\ IsPrefix(h, log)
  /\ log' = Append(log, e)
  /\ thread' = Rebuild(log')
  /\ UNCHANGED cache

\* In one event loop nothing else runs between the steps of a plan.
Undisturbed == Colocated => \A i \in Invocations : plan[i] = Idle

Add(e) == Undisturbed /\ Write(e) /\ UNCHANGED plan

\* Where invocation i opened its stream.
Streams(i) == Positions(log, LAMBDA e : e.type = "open" /\ e.by = i)

\* An event of the invocation that has opened its stream, fenced by its lease.
Streaming == lease.live /\ Streams(lease.by) # {}

Owned(type, call, arg) == Streaming /\ Add(Ev(type, call, lease.by, arg, 0))

CallState(c) == IF c \in DOMAIN thread.calls THEN State(thread.calls[c]) ELSE "none"

Unused(c) == \A k \in DOMAIN log : log[k].call # c

Fresh(i) == lease.by # i /\ \A k \in DOMAIN log : log[k].by # i

-----------------------------------------------------------------------------
\* What the user and the API append.

\* A message, or with a call a "$ command" message.
UserSays(c) ==
  /\ c = None \/ Unused(c)
  /\ Add(Ev("user", c, None, "", 0))
  /\ UNCHANGED lease

Approve(c, decision) ==
  /\ CallState(c) = "TC1"
  /\ Add(Ev("approval", c, None, decision, 0))
  /\ UNCHANGED lease

ApproveTurn ==
  /\ \E c \in Calls : CallState(c) = "TC1"
  /\ Add(Ev("approval", None, None, "turn", 0))
  /\ UNCHANGED lease

\* approve_tool_calls_for_thread writes what it is asked for, whatever holds by
\* now; only some of its callers look first.
SetGlobal(arg) ==
  /\ Add(Ev("approval", None, None, arg, 0))
  /\ UNCHANGED lease

Decide(c, by) ==
  /\ \/ by = "user" /\ CallState(c) = "TC4"
     \/ by = "cancel" /\ CallState(c) \in {"TC2.1", "TC3", "TC4"}
     \/ by = "cancel" /\ CallState(c) = "TC5" /\ thread.calls[c].decision # "cancel"
  /\ Add(Ev("decided", c, None, by, 0))
  /\ UNCHANGED lease

Interrupted == Ev("interrupt", None, lease.by, lease.kind, 0)

InterruptStream ==
  /\ lease # NoLease
  /\ Add(Interrupted)
  /\ lease' = NoLease

\* With no stream open only a pending turn can be interrupted.
InterruptPending ==
  /\ lease = NoLease /\ thread.next.kind = "RA1"
  /\ Add(Ev("interrupt", None, None, "llm", 0))
  /\ UNCHANGED lease

\* continue_thread from message m, refused while the lease is live.
Continue(m) ==
  /\ ~lease.live /\ Cardinality(Continues(log)) < MaxContinues
  /\ m \notin Skipped(log)
  /\ Add(Ev("continue", None, None, "", m))
  /\ UNCHANGED lease

-----------------------------------------------------------------------------
\* What the runners append.

\* Bug: the kind of the work is written for the kind of the stream.
StreamOfWork(kind) == kind

Stream(kind) == IF kind = "RA1" THEN "llm" ELSE "tool"

Opened(i) == Ev("open", None, i, Stream(plan[i].work.kind), plan[i].work.at)

Proceeds(i, pc, work) == plan' = [plan EXCEPT ![i] = [pc |-> pc, work |-> work]]

\* A call that was started and has no finish belongs to an invocation that is
\* no more: the recovery opens a tool stream for it.
HasOrphan == \E c \in Calls : CallState(c) = "TC3"

\* run_once: no work is chosen while a stream is live.
Look(i) ==
  /\ Undisturbed
  /\ plan[i] = Idle /\ Fresh(i) /\ ~lease.live
  /\ thread.next # NoWork \/ HasOrphan
  /\ Proceeds(i, "planned", thread.next)
  /\ UNCHANGED <<log, thread, lease, cache>>

Leased(i) ==
  /\ lease' = [by |-> i, kind |-> Stream(plan[i].work.kind), live |-> TRUE]
  /\ Proceeds(i, "leased", plan[i].work)

\* try_open_stream
Acquire(i) ==
  /\ plan[i].pc = "planned" /\ lease = NoLease
  /\ Leased(i)
  /\ UNCHANGED <<log, thread, cache>>

\* try_open_stream on an expired row interrupts the invocation it replaces.
TakeOver(i) ==
  /\ plan[i].pc = "planned" /\ lease # NoLease /\ ~lease.live
  /\ Write(Interrupted)
  /\ Leased(i)

OpenStream(i) ==
  /\ plan[i].pc = "leased" /\ lease.live /\ lease.by = i
  /\ Write(Opened(i))
  /\ Proceeds(i, "idle", NoWork)
  /\ UNCHANGED lease

\* Another has the lease, the lease was lost before the stream was opened, or
\* the process dies.
GiveUp(i) ==
  /\ plan[i] # Idle
  /\ Proceeds(i, "idle", NoWork)
  /\ UNCHANGED <<log, thread, lease, cache>>

\* The runner crashes or stalls until its lease expires.
Expire ==
  /\ lease.live
  /\ lease' = [lease EXCEPT !.live = FALSE]
  /\ UNCHANGED <<log, thread, plan, cache>>

\* thread_state deletes an expired row and writes no event.
Sweep ==
  /\ Undisturbed /\ lease # NoLease /\ ~lease.live
  /\ lease' = NoLease
  /\ UNCHANGED <<log, thread, plan, cache>>

Close == Owned("close", None, "") /\ lease' = NoLease

\* The answer of the model, with or without a tool call; there is none if the
\* message that asked for it has been struck out since.
AssistantSays(c) ==
  /\ lease.kind = "llm" /\ (c = None \/ Unused(c))
  /\ \A k \in Streams(lease.by) : log[k].at \notin Skipped(log)
  /\ \A k \in DOMAIN log : ~(log[k].type = "assistant" /\ log[k].by = lease.by)
  /\ Owned("assistant", c, "")
  /\ UNCHANGED lease

Start(c) ==
  /\ lease.kind = "tool" /\ CallState(c) = "TC2.1"
  /\ Owned("started", c, "")
  /\ UNCHANGED lease

\* execution_started with resume_after_lease_loss
Resume(c) ==
  /\ lease.kind = "tool"
  /\ CallState(c) \in {"TC3", "TC4"} /\ thread.calls[c].owner # lease.by
  /\ thread.calls[c].finished # "success"
  /\ Owned("started", c, "again")
  /\ UNCHANGED lease

Finish(c) ==
  /\ CallState(c) \in {"TC3", "TC5"} /\ thread.calls[c].started
  /\ thread.calls[c].owner = lease.by /\ thread.calls[c].finished # "success"
  /\ Owned("finished", c, "success")
  /\ UNCHANGED lease

DecideAutomatically(c) ==
  /\ lease.kind = "tool" /\ CallState(c) = "TC4"
  /\ Owned("decided", c, "auto")
  /\ UNCHANGED lease

\* By the runner, or by the handler that cancelled the call.
Publish(c) ==
  /\ CallState(c) \in {"TC2.2", "TC5"}
  /\ \/ Streaming /\ lease.kind = "tool"
     \/ thread.calls[c].decision = "cancel"
  /\ Add(Ev("result", c, None, thread.calls[c].role, 0))
  /\ UNCHANGED lease

-----------------------------------------------------------------------------
\* _reduce_thread_events
Reduce ==
  /\ Undisturbed
  /\ cache.upto # Len(log)
  /\ cache' = IF cache # NoCache /\ SafeTail(log, cache) THEN Increment(log, cache) ELSE thread
  /\ UNCHANGED <<log, thread, lease, plan>>

\* A restart, or an approval policy that clears the cache.
Forget ==
  /\ Undisturbed
  /\ cache # NoCache
  /\ cache' = NoCache
  /\ UNCHANGED <<log, thread, lease, plan>>

UserStep ==
  \/ \E c \in Calls \cup {None} : UserSays(c)
  \/ \E c \in Calls, d \in {"granted", "denied"} : Approve(c, d)
  \/ \E c \in Calls, by \in {"user", "cancel"} : Decide(c, by)
  \/ ApproveTurn \/ \E arg \in {"global", "revoke"} : SetGlobal(arg)
  \/ InterruptStream \/ InterruptPending
  \/ \E m \in Positions(log, IsMessage) : Continue(m)

RunnerStep ==
  \/ \E i \in Invocations : Look(i) \/ Acquire(i) \/ TakeOver(i) \/ OpenStream(i) \/ GiveUp(i)
  \/ Expire \/ Sweep \/ Close
  \/ \E c \in Calls \cup {None} : AssistantSays(c)
  \/ \E c \in Calls : Start(c) \/ Resume(c) \/ Finish(c) \/ DecideAutomatically(c) \/ Publish(c)

Next == UserStep \/ RunnerStep \/ Reduce \/ Forget

Spec == Init /\ [][Next]_vars

-----------------------------------------------------------------------------
\* The state of the model is of its types.
TypeOK ==
  /\ log \in Seq(Event) /\ Len(log) <= MaxLog
  /\ thread.calls \in [DOMAIN thread.calls -> Call] /\ DOMAIN thread.calls \subseteq Calls
  /\ thread.boundary \in -1..MaxLog /\ thread.after \subseteq DOMAIN log
  /\ lease \in [by : Invocations \cup {None}, kind : {"", "llm", "tool"}, live : BOOLEAN]
  /\ plan \in [Invocations -> [pc : {"idle", "planned", "leased"}, work : Work]]
  /\ cache.upto \in 0..Len(log)

\* What a reduction is used for.
Meaning(r) == [calls |-> r.calls, boundary |-> r.boundary, after |-> r.after,
               next |-> r.next, global |-> r.global]

Agree == cache.upto = Len(log) /\ cache # NoCache => Meaning(cache) = Meaning(thread)

\* The reduction a process keeps up to date event by event is the one a fresh
\* process rebuilds from the whole log: the same state of every call, the same
\* boundary and messages behind it, the same next work.  tool_state.py says so
\* of every log ("rebuildable: SQLite events remain the source of truth").
CachedIsRebuilt == Agree

\* The same, of threads that nobody has continued.
CachedIsRebuiltUnlessContinued == Continues(log) = {} => Agree

\* Every global approval is revoked before it is given again.
RevokedBetween(L) ==
  \A j, k \in Positions(L, IsGlobal) :
    j < k /\ L[j].arg = "global" /\ L[k].arg = "global" =>
      \E n \in j..k : IsGlobal(L[n]) /\ L[n].arg = "revoke"

\* The same, of threads that nobody has continued and whose global approvals
\* were each revoked before the next.
PlainCacheIsRebuilt == Continues(log) = {} /\ RevokedBetween(log) => Agree

\* In every log of a thread, if a turn of the model is opened twice for one
\* message and the first of the two was closed, the thread was continued.
AnsweredIn(L) ==
  LET turns == Positions(L, LAMBDA e : e.type = "open" /\ e.arg = "llm")
  IN  \A j, k \in turns : j < k /\ L[j].at = L[k].at
        => \/ \A n \in j..k : ~(L[n].type = "close" /\ L[n].by = L[j].by)
           \/ \E n \in j..k : L[n].type = "continue"

\* In every log of a thread a call is declared once, before any event names it;
\* the invocation of a stream is a new one and starts nothing once its stream
\* was closed or interrupted; and unless the thread was continued a call is
\* started once, and later started again.
WellFormed(L) ==
  \A j, k \in DOMAIN L : j < k =>
    /\ Declares(L[k]) => L[j].call # L[k].call
    /\ L[k].type = "open" => L[j].by # L[k].by
    /\ L[j].type \in {"close", "interrupt"} /\ L[k].type = "started" => L[j].by # L[k].by
    /\ /\ L[j].type = "started" /\ L[k].type = "started"
       /\ L[j].call = L[k].call /\ L[k].arg # "again"
       => Continues(L) # {}

\* The threads to start from: well-formed logs whose turns were opened for a
\* message that was there, and were answered once.  One of them is the longest.
ASSUME HistoriesAssumption ==
  /\ \A h \in Histories :
       /\ h \in Seq(Event)
       /\ \A k \in DOMAIN h : h[k].type = "open" /\ h[k].arg = "llm" => h[k].at \in 1..(k - 1)
       /\ AnsweredIn(h) /\ WellFormed(h)
  /\ \E longest \in Histories : \A h \in Histories : Len(h) <= Len(longest)

\* A turn of the model whose stream was closed is not asked for again by the
\* same message, unless the thread is continued: so it is in one event loop.
\* (With a second process, a plan made before the close opens the turn again.)
AnsweredOnce == AnsweredIn(log)

\* A continuation from m starts over at m: the calls of m are as they were
\* when m was written, none of a later message is left, and if m asks for a
\* turn the thread has something to do or waits for an earlier call.
ContinueStartsOver ==
  [][log' # log /\ Last(log').type = "continue" =>
       LET m == Last(log').at
       IN  /\ \A c \in DOMAIN thread'.calls :
                /\ thread'.calls[c].parent <= m
                /\ thread'.calls[c].parent = m => State(thread'.calls[c]) \in {"TC1", "TC2.1"}
           /\ Triggers(log[m]) =>
                \/ thread'.next # NoWork
                \/ \E c \in DOMAIN thread'.calls :
                     State(thread'.calls[c]) \in {"TC1", "TC3", "TC4"}]_vars

=============================================================================
