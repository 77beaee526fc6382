------------------------------ MODULE Continuation ------------------------------
(***************************************************************************)
(* What happens to a turn of the model that failed.  The runner that ran   *)
(* it may retry it by itself, once, after a delay                          *)
(* (runner.py, _maybe_auto_continue_after_ra1_failure; api.py,             *)
(* apply_auto_continue); the user may continue the thread from a message,  *)
(* at once or after a delay (continue_thread_manually).  Both strike out   *)
(* the messages after the one they start from, and meanwhile messages      *)
(* arrive, other processes run the thread, and runners die.                *)
(*                                                                         *)
(* A turn may also run out of room.  The runner then asks for a checkpoint *)
(* of the thread, between the end of its stream and the release of its     *)
(* lease; it does the same when the thread has grown past a threshold.     *)
(*                                                                         *)
(* The log is the thread's events, its index the event_seq.  What one      *)
(* transaction appends is one entry: "retry" stands for the claim, the     *)
(* msg.edit events, the interrupt, the notice and the action event of an   *)
(* automatic continuation, "continue" for those of a manual one, a         *)
(* "notice" for the message and the action event of a runner's notice, a   *)
(* "request" for a compaction, the message that asks for a checkpoint and  *)
(* its marker, which no await separates.                                   *)
(***************************************************************************)
EXTENDS Integers, FiniteSets, SequencesExt

CONSTANTS
  Runners,        \* processes that run the thread
  NoLease,        \* open_streams has no row of the thread
  Classes,        \* how failures are classified (runner_recovery.py)
  MaxFailures,    \* bound on the turns that fail
  MaxSilent,      \* bound on the turns that end with nothing said
  MaxCheckpoints, \* bound on the requests of a thread past its threshold
  MaxMessages,    \* bound on the user's messages
  MaxContinues,   \* bound on the manual continuations asked for
  MaxInterrupts,  \* bound on the user's interrupts
  MaxFaults,      \* bound on deaths, expiries and plans overtaken
  MaxInputs,      \* bound on all of these together
  TargetTypes     \* the messages the user continues from

ASSUME ContinuationAssumption ==
  /\ NoLease \notin [by : Runners, live : BOOLEAN]
  /\ Classes \subseteq {"transient", "cut", "overflow", "truncated", "permanent", "limit"}
  /\ MaxFailures \in Nat /\ MaxSilent \in Nat /\ MaxCheckpoints \in Nat
  /\ MaxMessages \in Nat /\ MaxContinues \in Nat
  /\ MaxInterrupts \in Nat /\ MaxFaults \in Nat /\ MaxInputs \in Nat

VARIABLES
  log,      \* the events of the thread
  lease,    \* its row in open_streams: who holds it and is it live
  runner,   \* per process, its turn and the retry it has in mind
  asked,    \* the manual continuation on its way: target, last event seen
  stop,     \* where the log ended at the user's latest interrupt
  used      \* what the bounds count

vars == <<log, lease, runner, asked, stop, used>>

-----------------------------------------------------------------------------
\* "at" is the message a turn or a notice is about or a continuation starts
\* from, "arg" the class of a failure, the action of a notice.  "overflowed" is
\* the event, not a message, of a turn for which the provider had no room.
Entry == [type : {"user", "request", "open", "answer", "failure", "overflowed", "close",
                  "interrupt", "notice", "retry", "continue"},
          at : Nat, arg : {""} \cup Classes \cup {"refused", "scheduled", "stopped"}]

E(type, at, arg) == [type |-> type, at |-> at, arg |-> arg]

Of(L, types) == {k \in DOMAIN L : L[k].type \in types}

Messages(L) == Of(L, {"user", "request", "answer", "failure", "notice", "retry", "continue"})

\* _continue_thread_mutation: every message between the target and the end.
StruckOut(L) ==
  LET continued == Of(L, {"retry", "continue"})
  IN  {m \in Messages(L) : \E c \in continued : L[c].at < m /\ m < c}

Effective(L, types) == Of(L, types) \ StruckOut(L)

\* A failure that is an answer of the model, cut short by the transport or by
\* the limit on its length; the others are messages about the turn.
Partial == {"cut", "truncated"}

Responses(L) ==
  Effective(L, {"answer"}) \cup {k \in Effective(L, {"failure"}) : L[k].arg \in Partial}

-----------------------------------------------------------------------------
\* Where the model's turn is (tool_state.py).

LastBoundary(L) == Max({0} \cup Of(L, {"close", "interrupt", "retry", "continue"}))

LastAnswer(L) == Max({0} \cup Responses(L))

\* Bug: a continuation ends the turn where it is recorded.
BoundaryAtContinuation(L) ==
  IF LastBoundary(L) = 0 THEN LastAnswer(L) ELSE LastBoundary(L)

\* _llm_boundary_details_from_records: the last stream that was closed or
\* interrupted; a continuation puts the boundary before its target.
Boundary(L) ==
  LET b == LastBoundary(L)
  IN  CASE b = 0 -> LastAnswer(L)
        [] b # 0 /\ L[b].type \in {"close", "interrupt"} -> b
        [] OTHER -> L[b].at - 1

\* Bug: whoever wrote a message, it asks for a turn.
NextTriggerAnyone(L) ==
  LET triggers == {m \in Messages(L) \ StruckOut(L) : m > Boundary(L)}
  IN  IF triggers = {} THEN 0 ELSE Min(triggers)

\* The message that asks for a turn, or 0.
NextTrigger(L) ==
  LET triggers == {m \in Effective(L, {"user", "request"}) : m > Boundary(L)}
  IN  IF triggers = {} THEN 0 ELSE Min(triggers)

-----------------------------------------------------------------------------
\* Automatic continuation (runner_recovery.py).

Live == lease # NoLease /\ lease.live

\* find_latest_recovery_source_after, 0 for none.
SourceAfter(t) == Max({0} \cup {s \in Effective(log, {"failure"}) : s > t})

\* recovery_attempt_count
Attempted(t) == \E k \in Of(log, {"retry"}) : log[k].at = t

\* Bug: the fence leaves the messages of the user to the turn that follows.
FenceUnheard(t, s) ==
  /\ lease = NoLease
  /\ s \notin StruckOut(log)
  /\ ~\E c \in Of(log, {"retry", "continue"}) : c > s
  /\ ~Attempted(t)
  /\ {m \in Messages(log) : m > t /\ m # s}
       \subseteq Of(log, {"notice", "retry", "continue", "user"})

\* Bug: the fence does not look at the lease.
FenceUnleased(t, s) ==
  /\ s \notin StruckOut(log)
  /\ ~\E c \in Of(log, {"retry", "continue"}) : c > s
  /\ ~Attempted(t)
  /\ {m \in Messages(log) : m > t /\ m # s} \subseteq Of(log, {"notice", "retry", "continue"})

\* check_recovery_fence: the failure still stands, nobody has continued the
\* thread or tried this before, and nothing but notices came after the
\* message the turn was for.  Any row of open_streams counts, expired or not.
Fence(t, s) ==
  /\ lease = NoLease
  /\ s \notin StruckOut(log)
  /\ ~\E c \in Of(log, {"retry", "continue"}) : c > s
  /\ ~Attempted(t)
  /\ {m \in Messages(log) : m > t /\ m # s} \subseteq Of(log, {"notice", "retry", "continue"})

-----------------------------------------------------------------------------
\* Checkpoints (api.py).

\* Bug: a request whose turn has ended is not pending any more.
PendingUntilClosed(L) ==
  \E q \in Effective(L, {"request"}) :
    ~\E n \in DOMAIN L : n > q /\ L[n].type \in {"retry", "continue", "close"}

\* latest_effective_thread_compaction_summary_in_progress: a request the model
\* has not answered yet, and whose marker, an event after it, no continuation
\* has erased.
Pending(L) ==
  \E q \in Effective(L, {"request"}) :
    /\ ~\E c \in Of(L, {"retry", "continue"}) : L[c].at <= q /\ q < c
    /\ ~\E k \in Responses(L) : q < k

-----------------------------------------------------------------------------
\* The stages of a turn under its lease, and those before and after.
InTurn == {"streaming", "ended", "closed", "compacting", "done"}

Stages == {"idle", "planned", "released", "waiting"} \cup InTurn

\* "quiet" is a turn that no automatic continuation follows.
Idle == [pc |-> "idle", trigger |-> 0, source |-> 0, quiet |-> FALSE]

Init ==
  /\ log = <<E("user", 0, "")>>
  /\ lease = NoLease
  /\ runner = [r \in Runners |-> Idle]
  /\ asked = <<>>
  /\ stop = 0
  /\ used = [messages |-> 0, continues |-> 0, interrupts |-> 0, faults |-> 0, silent |-> 0]

Holds(r) == Live /\ lease.by = r

Goes(r, pc) == runner' = [runner EXCEPT ![r].pc = pc]

Rests(r) == runner' = [runner EXCEPT ![r] = Idle]

ByRunner == UNCHANGED <<asked, stop, used>>

\* What the bounds count; the checkpoints refused follow from the rest.
Failed == Cardinality({k \in Of(log, {"failure", "overflowed"}) : log[k].arg # "refused"})

Spent ==
  used.messages + used.continues + used.interrupts + 2 * used.faults + used.silent
    + Failed + Cardinality(Of(log, {"request"}))

Counts(what, bound) ==
  /\ used[what] < bound
  /\ Spent < MaxInputs
  /\ used' = [used EXCEPT ![what] = @ + 1]

\* try_open_stream, which records the takeover of an expired lease, and
\* stream.open.
Open(r, t) ==
  /\ ~Live
  /\ log' = log \o (IF lease = NoLease THEN <<>> ELSE <<E("interrupt", 0, "")>>)
                \o <<E("open", t, "")>>
  /\ lease' = [by |-> r, live |-> TRUE]
  /\ runner' = [runner EXCEPT ![r] = [Idle EXCEPT !.pc = "streaming", !.trigger = t]]

\* run_once: what is to be done is discovered, then the lease acquired.
Begin(r) ==
  /\ runner[r].pc = "idle"
  /\ NextTrigger(log) # 0
  /\ Open(r, NextTrigger(log))
  /\ ByRunner

\* Nothing but another process comes between the two; when one does, the
\* lease is acquired for what was to be done before, if it is free.
Plan(r) ==
  /\ runner[r].pc = "idle"
  /\ ~Live
  /\ NextTrigger(log) # 0
  /\ runner' = [runner EXCEPT ![r] = [Idle EXCEPT !.pc = "planned", !.trigger = NextTrigger(log)]]
  /\ Counts("faults", MaxFaults)
  /\ UNCHANGED <<log, lease, asked, stop>>

BeginLate(r) ==
  /\ runner[r].pc = "planned"
  /\ \/ Open(r, runner[r].trigger)
     \/ Live /\ Rests(r) /\ UNCHANGED <<log, lease>>
  /\ ByRunner

Ends(r, quiet) == runner' = [runner EXCEPT ![r] = [@ EXCEPT !.pc = "ended", !.quiet = quiet]]

Fails(r, entry, quiet) ==
  /\ Failed < MaxFailures /\ Spent < MaxInputs
  /\ log' = Append(log, entry)
  /\ Ends(r, quiet)
  /\ UNCHANGED used

\* The turn ends in the answer of the model, in nothing at all, in a failure of
\* some class, or in the provider's refusal of a prompt too long.  The model is
\* not asked about a message that has been struck out.  "limit" is the thread's
\* own limit on its context: two messages in a row, and quiet as the refusal.
Publish(r) ==
  /\ runner[r].pc = "streaming"
  /\ Holds(r)
  /\ LET t == runner[r].trigger
         asks == t \notin StruckOut(log)
     IN  \/ /\ asks
            /\ log' = Append(log, E("answer", t, ""))
            /\ Ends(r, FALSE)
            /\ UNCHANGED used
         \/ /\ IF asks THEN Counts("silent", MaxSilent) ELSE UNCHANGED used
            /\ Ends(r, FALSE)
            /\ UNCHANGED log
         \/ \E class \in Classes :
              /\ class \in Partial => asks
              /\ Fails(r, E("failure", t, class), class = "limit")
         \/ asks /\ Fails(r, E("overflowed", t, ""), TRUE)
  /\ UNCHANGED <<lease, asked, stop>>

\* stream.close; the lease stays, and is not renewed any more.
Close(r) ==
  /\ runner[r].pc = "ended"
  /\ Holds(r)
  /\ log' = Append(log, E("close", runner[r].trigger, ""))
  /\ Goes(r, "closed")
  /\ UNCHANGED lease
  /\ ByRunner

\* A failure that may be repeated, or an answer that was too long, comes after
\* the checkpoint of a thread past its threshold.
Resumed(r) ==
  LET s == SourceAfter(runner[r].trigger)
  IN  IF s # 0 /\ log[s].arg \in {"transient", "cut", "truncated"} THEN s ELSE 0

\* append_auto_compaction_summary_request, up to its look for a request that is
\* pending: for a turn without room, or for a thread past its threshold.
Compact(r) ==
  /\ runner[r].pc = "closed"
  /\ ~Pending(log)
  /\ \/ runner[r].quiet /\ Goes(r, "compacting")
     \/ /\ ~runner[r].quiet
        /\ Cardinality(Of(log, {"request"})) < MaxCheckpoints /\ Spent < MaxInputs
        /\ runner' = [runner EXCEPT ![r] = [@ EXCEPT !.pc = "compacting", !.source = Resumed(r)]]
  /\ UNCHANGED <<log, lease>>
  /\ ByRunner

\* Its appends, which no lease guards.
AskCheckpoint(r) ==
  /\ runner[r].pc = "compacting"
  /\ log' = Append(log, E("request", runner[r].trigger, ""))
  /\ LET quiet == runner[r].quiet \/ runner[r].source # 0
     IN  runner' = [runner EXCEPT ![r] = [@ EXCEPT !.pc = "done", !.source = 0, !.quiet = quiet]]
  /\ UNCHANGED lease
  /\ ByRunner

\* A checkpoint that is refused, because one is pending or because nothing can
\* be left out, is a failure of its own; who lost the lease cannot say so.
Refused(r) ==
  /\ runner[r].pc = "closed" /\ runner[r].quiet
  /\ log' = IF Holds(r) THEN Append(log, E("failure", runner[r].trigger, "refused")) ELSE log
  /\ Goes(r, "done")
  /\ UNCHANGED lease
  /\ ByRunner

\* The release of the lease.
Release(r) ==
  /\ \/ runner[r].pc = "closed" /\ ~runner[r].quiet
     \/ runner[r].pc = "done"
  /\ Holds(r)
  /\ lease' = NoLease
  /\ IF runner[r].quiet THEN Rests(r) ELSE Goes(r, "released")
  /\ UNCHANGED log
  /\ ByRunner

\* A write of a runner that lost its lease fails; it is cancelled.
LeaseLost(r) ==
  /\ runner[r].pc \in {"streaming", "ended", "closed", "done"}
  /\ runner[r].pc = "closed" => ~runner[r].quiet
  /\ ~Holds(r)
  /\ Rests(r)
  /\ UNCHANGED <<log, lease>>
  /\ ByRunner

Notice(r, action) == log' = Append(log, E("notice", runner[r].trigger, action))

Stopped(r) == Notice(r, "stopped") /\ Rests(r)

\* _has_compaction_summary_request_between
AnswersRequest(t, s) == \E q \in Of(log, {"request"}) : t <= q /\ q < s

\* A failure for want of room is followed by a compaction, for which the
\* thread's next turn writes a checkpoint, unless that turn is what failed.
RequestCheckpoint(r, s) ==
  /\ ~AnswersRequest(runner[r].trigger, s)
  /\ Fence(runner[r].trigger, s)
  /\ ~Pending(log)
  /\ log' = Append(log, E("request", runner[r].trigger, ""))
  /\ Rests(r)

\* Bug: a retry that is not allowed any more ends without a word.
ScheduleOrNot(r, s) ==
  IF Attempted(runner[r].trigger)
  THEN Rests(r) /\ UNCHANGED log
  ELSE /\ Notice(r, "scheduled")
       /\ runner' = [runner EXCEPT ![r].pc = "waiting", ![r].source = s]

Schedule(r, s) ==
  IF Attempted(runner[r].trigger)
  THEN Stopped(r)
  ELSE /\ Notice(r, "scheduled")
       /\ runner' = [runner EXCEPT ![r].pc = "waiting", ![r].source = s]

\* _maybe_auto_continue_after_ra1_failure up to its sleep.  A compaction may
\* be refused, for other reasons too.
Consider(r) ==
  /\ runner[r].pc = "released"
  /\ LET s == SourceAfter(runner[r].trigger)
     IN  \/ s = 0 /\ Rests(r) /\ UNCHANGED log
         \/ s # 0 /\ log[s].arg \in {"overflow", "truncated"} /\ RequestCheckpoint(r, s)
         \/ s # 0 /\ ~(log[s].arg \in {"transient", "cut"}) /\ Stopped(r)
         \/ s # 0 /\ log[s].arg \in {"transient", "cut"} /\ Schedule(r, s)
  /\ UNCHANGED lease
  /\ ByRunner

\* After the delay, apply_auto_continue with the thread's write lock; a fence
\* that is closed and a transaction that fails leave nothing but a notice.
\* The runner looks at the same fence before it, to the same effect.
Apply(r) ==
  /\ runner[r].pc = "waiting"
  /\ \/ /\ Fence(runner[r].trigger, runner[r].source)
        /\ log' = Append(log, E("retry", runner[r].trigger, "")) /\ Rests(r)
     \/ Stopped(r)
  /\ UNCHANGED lease
  /\ ByRunner

Run(r) ==
  \/ Begin(r) \/ BeginLate(r) \/ Publish(r) \/ Close(r) \/ LeaseLost(r)
  \/ Compact(r) \/ AskCheckpoint(r) \/ Refused(r) \/ Release(r)
  \/ Consider(r) \/ Apply(r)

-----------------------------------------------------------------------------
\* The process is killed and started again; its lease stays.
Die(r) ==
  /\ runner[r] # Idle
  /\ Rests(r)
  /\ Counts("faults", MaxFaults)
  /\ UNCHANGED <<log, lease, asked, stop>>

\* Nobody has renewed the lease in time.
Expire ==
  /\ Live
  /\ lease' = [lease EXCEPT !.live = FALSE]
  /\ \/ ~(runner[lease.by].pc \in InTurn) /\ UNCHANGED used
     \/ runner[lease.by].pc \in InTurn /\ Counts("faults", MaxFaults)
  /\ UNCHANGED <<log, runner, asked, stop>>

UserSays ==
  /\ log' = Append(log, E("user", 0, ""))
  /\ Counts("messages", MaxMessages)
  /\ UNCHANGED <<lease, runner, asked, stop>>

\* interrupt_thread: the row is dropped, live or not; without one, a turn that
\* is asked for is called off, and otherwise nothing is recorded.
Interrupt ==
  /\ lease # NoLease \/ NextTrigger(log) # 0 \/ \E r \in Runners : runner[r] # Idle
  /\ lease' = NoLease
  /\ log' = IF lease # NoLease \/ NextTrigger(log) # 0
            THEN Append(log, E("interrupt", 0, "")) ELSE log
  /\ stop' = Len(log')
  /\ Counts("interrupts", MaxInterrupts)
  /\ UNCHANGED <<runner, asked>>

-----------------------------------------------------------------------------
\* Manual continuation (api.py, builtin_plugins/thread_ui.py).

\* validate_continue_target
Targets == Messages(log) \ StruckOut(log)

\* _manual_continue_retry_trigger: the latest message that asks for a turn, if
\* its turn ended without an answer and has not been started over since.  The
\* interrupts are read after the messages, so that a continuation that follows
\* an interrupt counts as later than any failure.
Evidence(t) ==
  {k \in Effective(log, {"failure", "notice"}) :
     k > t /\ (log[k].type = "notice" => log[k].at = t)}

Interrupts(t) == {k \in Of(log, {"interrupt"}) : k > t}

StartedOver(t) ==
  \E c \in Of(log, {"retry", "continue"}) :
    /\ log[c].at = t
    /\ \/ \E i \in Interrupts(t) : i < c
       \/ c > Max({t} \cup Evidence(t))

FailedTrigger ==
  LET t == Max({0} \cup Effective(log, {"user", "request"}))
  IN  IF /\ t # 0
         /\ NextTrigger(log) = 0
         /\ ~\E k \in Effective(log, {"answer"}) : k > t
         /\ Evidence(t) \cup Interrupts(t) # {}
         /\ ~StartedOver(t)
      THEN t ELSE 0

\* The user asks, with a message or without, now or for later; what the log
\* holds is captured.
AskContinue ==
  /\ asked = <<>>
  /\ ~Live
  /\ \E m \in {0} \cup (Targets \cap Of(log, TargetTypes)) : asked' = <<m, Len(log)>>
  /\ Counts("continues", MaxContinues)
  /\ UNCHANGED <<log, lease, runner, stop>>

\* Bug: the fence compares with what is there when the delay is over.
UnchangedSince(seen) == Len(log) >= seen

\* _continuation_fence_is_unchanged, the commands of the user left aside.
Unchanged(seen) == Len(log) = seen

\* continue_thread_manually and, with the thread's write lock, continue_thread.
Continue ==
  /\ asked # <<>>
  /\ LET m == IF asked[1] = 0 THEN FailedTrigger ELSE asked[1]
     IN  IF m # 0 /\ Unchanged(asked[2]) /\ ~Live /\ m \in Targets
         THEN log' = Append(log, E("continue", m, ""))
         ELSE UNCHANGED log
  /\ asked' = <<>>
  /\ UNCHANGED <<lease, runner, stop, used>>

User == UserSays \/ Interrupt \/ AskContinue \/ Continue

Fault == Expire \/ \E r \in Runners : Plan(r) \/ Die(r)

Next == (\E r \in Runners : Run(r)) \/ User \/ Fault

Spec == Init /\ [][Next]_vars

-----------------------------------------------------------------------------
TypeOK ==
  /\ log \in Seq(Entry)
  /\ lease = NoLease \/ lease \in [by : Runners, live : BOOLEAN]
  /\ runner \in [Runners -> [pc : Stages, trigger : 0..Len(log), source : 0..Len(log),
                             quiet : BOOLEAN]]
  /\ asked = <<>> \/ asked \in (0..Len(log)) \X (1..Len(log))
  /\ stop \in 0..Len(log)
  /\ \A r \in Runners :
       /\ runner[r].trigger # 0 => log[runner[r].trigger].type \in {"user", "request"}
       /\ runner[r].source # 0 => log[runner[r].source].type = "failure"

\* "It prevents repeated threshold checks from appending duplicate summary
\* requests while the assistant has not yet satisfied the post-compaction
\* request": between two requests there is a response of the model, or one of
\* the turns was started over.  The look for a request that is pending and the
\* append of the next are two steps, which only the lease keeps together: it
\* holds while no lease is lost to an interrupt or in other ways.
CheckpointOnce ==
  used.faults = 0 /\ used.interrupts = 0 =>
    \A j, k \in Of(log, {"request"}) :
      j < k => \E n \in (j + 1)..(k - 1) :
        log[n].type \in {"answer", "retry", "continue"} \/ log[n].arg \in Partial

\* "A failure while answering a compaction checkpoint request should stop for
\* the user instead of recursively queuing another checkpoint request."
StopsForTheUser ==
  used.faults = 0 /\ used.interrupts = 0 =>
    \A j, k \in Of(log, {"request"}) :
      j < k => \E n \in (j + 1)..(k - 1) : log[n].type \in {"user", "answer", "continue"}

\* No continuation is recorded during a turn: what the model is answering is
\* not taken away under it.
TurnStands ==
  \A r \in Runners : Holds(r) =>
    ~\E c \in Of(log, {"retry", "continue"}) : \A o \in Of(log, {"open"}) : o < c

Recorded(type) == Len(log') > Len(log) /\ Last(log').type = type

JustStruckOut == StruckOut(log') \ StruckOut(log)

\* An automatic continuation takes nothing back but the failure it is for and
\* the notices of runners: no word of the user, no answer, no other failure.
RetryTakesOnlyTheFailure ==
  [][Recorded("retry") =>
       /\ JustStruckOut \subseteq Of(log, {"failure", "notice", "retry", "continue"})
       /\ Cardinality(JustStruckOut \cap Of(log, {"failure"})) <= 1]_vars

\* A manual continuation, however late it comes, takes back only what was in
\* the log when the user asked for it.
ContinueTakesOnlyWhatWasSeen ==
  [][Recorded("continue") => \A m \in JustStruckOut : m <= asked[2]]_vars

\* A continuation from a message that asks for a turn makes its turn the next
\* one, whatever boundaries were recorded before.
ContinuedIsNext ==
  [][\A type \in {"retry", "continue"} :
       Recorded(type) /\ Last(log').at \in Effective(log, {"user", "request"}) =>
         NextTrigger(log') = Last(log').at]_vars

\* A failure is not left in silence: it is taken back, or the thread says that
\* the retries stopped or that a checkpoint was refused, or asks for one, or the
\* user interrupted it, or a runner still has it in hand.  Only the death of a
\* runner or the expiry of a lease loses it.
Settled(k) ==
  \/ k \in StruckOut(log)
  \/ \E n \in DOMAIN log :
       n > k /\ \/ log[n].type = "notice" /\ log[n].arg = "stopped" /\ log[n].at = log[k].at
                \/ log[n].arg = "refused" /\ log[n].at = log[k].at
                \/ log[n].type \in {"request", "interrupt"}

NoSilentFailure ==
  used.faults = 0 =>
    \A k \in Of(log, {"failure", "overflowed"}) :
      log[k].arg = "refused" \/ Settled(k) \/ \E r \in Runners : runner[r].pc # "idle" /\ runner[r].trigger = log[k].at

\* "Interrupt/cancel current streaming or pending work": a retry on its way is
\* called off by an interrupt.
InterruptCallsOff ==
  [][Recorded("retry") => \E s \in JustStruckOut : log[s].type = "failure" /\ s > stop]_vars

\* "A later failed retry of the same trigger is fresh authority for a new
\* manual /continue": of a thread at rest whose last message that asks for a
\* turn has failed since it was last started over.
FreshFailureIsRetried ==
  LET t == Max({0} \cup Effective(log, {"user", "request"}))
  IN  (/\ lease = NoLease /\ NextTrigger(log) = 0
       /\ ~\E k \in Effective(log, {"answer"}) : k > t
       /\ \E f \in Effective(log, {"failure"}) : f > t)
      => FailedTrigger = t

=============================================================================
