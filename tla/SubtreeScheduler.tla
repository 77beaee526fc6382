-------------------------- MODULE SubtreeScheduler --------------------------
(***************************************************************************)
(* SubtreeScheduler.run_forever of eggthreads/runner.py: one scheduler that *)
(* polls the threads below its root, remembers what it saw of each so that  *)
(* it need not look again, starts at most so many runners, may keep a slot  *)
(* for a thread that has just run (sticky scheduling), and parks threads    *)
(* whose finished output cannot be published (the retry store of the        *)
(* process).  Between two steps of its loop the runners it started, other   *)
(* processes and users go on.                                               *)
(***************************************************************************)
EXTENDS Integers, FiniteSets

CONSTANTS
  Threads,       \* the threads of the subtree, present and future
  Priority,      \* thread -> priority; ties broken, as the sort of the code is
  MaxLlm,        \* effective_max_concurrent_llm_threads
  MaxTool,       \* max_concurrent_tool_threads
  MaxAttempts,   \* retries of one failing output in one process
  MaxTracked,    \* entries the retry store holds
  StickyModes,   \* the values of sticky_scheduling to consider
  LeaseOutlastsTurn, \* lease_ttl_sec is longer than a turn of the loop takes
  InitialWork,   \* thread -> what may be to do when the scheduler starts
  NoKey,         \* Python's None for a recovery key
  MaxEvents,     \* bounds, by thread: messages, tool requests, takeovers
  MaxFaults      \* and deaths, lost leases, failing publications

ASSUME SchedulerAssumption ==
  /\ IsFiniteSet(Threads)
  /\ Priority \in [Threads -> Nat]
  /\ \A t, u \in Threads : Priority[t] = Priority[u] => t = u
  /\ MaxLlm \in Nat \ {0} /\ MaxTool \in Nat \ {0}
  /\ MaxAttempts \in Nat \ {0} /\ MaxTracked \in Nat \ {0}
  /\ NoKey \notin Threads \X Nat
  /\ StickyModes \subseteq BOOLEAN /\ LeaseOutlastsTurn \in BOOLEAN
  /\ InitialWork \in [Threads -> SUBSET {"none", "ask", "llm", "tool", "output"}]
  /\ MaxEvents \in [Threads -> Nat] /\ MaxFaults \in [Threads -> Nat]

VARIABLES
  \* The database.
  work,      \* thread -> what its events say is to be done
  call,      \* thread -> its latest call that finished unpublished
  seq,       \* thread -> event_seq of its last event
  lease,     \* thread -> "free" (or expired), "ours", or another process's:
             \* "taken" before its stream.open, "other" after it, "dead"
  \* The loop: where it is and what it read on the way.
  pc, seqs, leased, todo, cands, running_llm, slots, toolSlots,
  \* What it remembers from turn to turn.
  sticky, checked, sawLease, parked, reserved, idle,
  \* The runners it started, and the process-wide retry store.
  running,   \* running_threads: the resource class, or "no"
  drive,     \* the recovery key drive was given
  at,        \* where the runner of the thread is
  store,     \* recovery key -> attempts made, and whether to wait
  events, faults

durable == <<work, call, seq, lease>>
loop == <<pc, seqs, leased, todo, cands, running_llm, slots, toolSlots>>
memory == <<checked, sawLease, parked, reserved, idle>>
runners == <<running, drive, at>>
vars == <<durable, loop, sticky, memory, runners, store, events, faults>>

-----------------------------------------------------------------------------
(* What a reader makes of the database. *)

Work == {"none", "ask", "llm", "tool", "started", "output"}

\* discover_runner_actionable_cached.  A call left started (TC3) or finished
\* without a decision (TC4) is a recovery, which a live lease hides.
Actionable(t) ==
  \/ work[t] \in {"llm", "tool"}
  \/ work[t] \in {"started", "output"} /\ lease[t] = "free"

\* runner_actionable_resource_class
ResourceClass(t) == IF work[t] = "llm" THEN "llm" ELSE "tool"

\* _tool_output_recovery_key, _tool_output_recovery_key_for_call
RecoveryKey(t) == IF work[t] = "output" THEN <<t, call[t]>> ELSE NoKey

\* _is_thread_idle
IsThreadIdle(t) == lease[t] = "free" /\ ~Actionable(t)

-----------------------------------------------------------------------------
(* _ToolOutputRecoveryRetries, the retry store. *)

Saturated(s) == Cardinality(DOMAIN s) >= MaxTracked

Disposition(s, k) ==
  CASE k \notin DOMAIN s /\ Saturated(s)                 -> "exhausted"
    [] k \notin DOMAIN s /\ ~Saturated(s)                -> "allowed"
    [] k \in DOMAIN s /\ s[k].attempts >= MaxAttempts     -> "exhausted"
    [] k \in DOMAIN s /\ s[k].attempts < MaxAttempts      ->
         IF s[k].wait THEN "later" ELSE "allowed"

\* Bug: the first failure counts for nothing.
RecordFailureUncounted(s, k) ==
  IF k \notin DOMAIN s /\ Saturated(s) THEN s
  ELSE [x \in DOMAIN s \union {k} |->
          IF x # k THEN s[x]
          ELSE [attempts |-> IF k \in DOMAIN s THEN s[k].attempts + 1 ELSE 0, wait |-> TRUE]]

\* A full store does not take a new key.
RecordFailure(s, k) ==
  IF k \notin DOMAIN s /\ Saturated(s) THEN s
  ELSE [x \in DOMAIN s \union {k} |->
          IF x # k THEN s[x]
          ELSE [attempts |-> IF k \in DOMAIN s THEN s[k].attempts + 1 ELSE 1, wait |-> TRUE]]

Without(s, keys) == [k \in DOMAIN s \ keys |-> s[k]]

-----------------------------------------------------------------------------
(* Initial states: threads with any work, nobody running. *)

NotParked == [key |-> NoKey, seq |-> -1, when |-> "now"]

Init ==
  /\ work \in [Threads -> Work] /\ \A t \in Threads : work[t] \in InitialWork[t]
  /\ call = [t \in Threads |-> 0]
  /\ seq = [t \in Threads |-> 0]
  /\ lease = [t \in Threads |-> "free"]
  /\ pc = "seqs" /\ leased = {} /\ todo = {} /\ cands = {}
  /\ seqs = [t \in Threads |-> -1]
  /\ running_llm = 0 /\ slots = 0 /\ toolSlots = 0
  /\ sticky \in StickyModes
  /\ checked = [t \in Threads |-> -1]
  /\ sawLease = {} /\ reserved = {}
  /\ parked = [t \in Threads |-> NotParked]
  /\ idle = [t \in Threads |-> "no"]
  /\ running = [t \in Threads |-> "no"]
  /\ drive = [t \in Threads |-> NoKey]
  /\ at = [t \in Threads |-> "idle"]
  /\ store = <<>>
  /\ events = MaxEvents /\ faults = MaxFaults

-----------------------------------------------------------------------------
(* The loop. *)

\* _max_event_seqs_bulk
ReadSeqs ==
  /\ pc = "seqs" /\ pc' = "leases"
  /\ seqs' = seq
  /\ UNCHANGED <<durable, leased, todo, cands, running_llm, slots,
                 toolSlots, sticky, memory, runners, store, events, faults>>

\* _active_open_thread_leases_bulk
ReadLeases ==
  /\ pc = "leases" /\ pc' = "account"
  /\ leased' = {t \in Threads : lease[t] # "free"}
  /\ UNCHANGED <<durable, seqs, todo, cands, running_llm, slots,
                 toolSlots, sticky, memory, runners, store, events, faults>>

\* Leases that ended take their watermarks along; then the idle timers and the
\* reservations that ran out, then the slots that are left.
Account ==
  LET ended  == sawLease \ leased
      idler(t) == /\ running[t] = "no" /\ t \notin leased /\ IsThreadIdle(t)
      timer  == [t \in Threads |->
                   IF t \notin reserved THEN idle[t]
                   ELSE IF ~idler(t) THEN "no"
                   ELSE IF idle[t] = "no" THEN "timing" ELSE idle[t]]
      expired == {t \in reserved : timer[t] = "elapsed"}
      kept    == IF sticky THEN reserved \ expired ELSE reserved
      llm     == Cardinality({t \in Threads : running[t] = "llm"})
      tool    == Cardinality({t \in Threads : running[t] = "tool"})
  IN /\ pc = "account" /\ pc' = "scan"
     /\ sawLease' = sawLease \ ended
     /\ checked' = [t \in Threads |-> IF t \in ended THEN -1 ELSE checked[t]]
     /\ idle' = IF sticky
                THEN [t \in Threads |-> IF t \in expired THEN "no" ELSE timer[t]]
                ELSE idle
     /\ reserved' = kept
     /\ running_llm' = llm
     /\ slots' = MaxLlm - llm
                   - (IF sticky THEN Cardinality({t \in kept : running[t] = "no"})
                                ELSE 0)
     /\ toolSlots' = MaxTool - tool
     /\ todo' = Threads /\ cands' = {}
     /\ UNCHANGED <<durable, seqs, leased, sticky, parked, runners,
                    store, events, faults>>

\* _sort_by_priority_map
IsFirst(t, S) == t \in S /\ \A u \in S : Priority[u] <= Priority[t]

\* A parked thread is left alone until its log changes or its time has come.
Awake(t) ==
  \/ parked[t] = NotParked
  \/ parked[t].seq # seqs[t]
  \/ parked[t].when = "later" /\ Disposition(store, parked[t].key) = "allowed"

\* Bug: a refusal for now is taken for a refusal for good.
ParkForGood(t, k, s, st) ==
  [key |-> k, seq |-> s,
   when |-> IF Disposition(st, k) # "allowed" THEN "never" ELSE "later"]

Park(t, k, s, st) ==
  [key |-> k, seq |-> s,
   when |-> IF Disposition(st, k) = "exhausted" THEN "never" ELSE "later"]

\* The watermark of an awake thread, which waking up forgets.
Watermark(t) == IF parked[t] = NotParked THEN checked[t] ELSE -1

\* The thread the first pass looks at next, and what it makes of it.
Scanned(t) == pc = "scan" /\ IsFirst(t, todo) /\ todo' = todo \ {t}

SkipRunning(t) ==
  /\ Scanned(t) /\ running[t] # "no"
  /\ UNCHANGED <<cands, memory>>

StayParked(t) ==
  /\ Scanned(t) /\ running[t] = "no" /\ ~Awake(t)
  /\ checked' = [checked EXCEPT ![t] = seqs[t]]
  /\ parked' = IF \/ parked[t].when = "never"
                  \/ Disposition(store, parked[t].key) = "later"
               THEN parked
               ELSE [parked EXCEPT ![t] = Park(t, parked[t].key, seqs[t], store)]
  /\ UNCHANGED <<cands, sawLease, reserved, idle>>

\* Bug: nothing remembers that a lease is behind the watermark.
SkipLeasedForGood(t) ==
  /\ Scanned(t) /\ running[t] = "no" /\ Awake(t) /\ t \in leased
  /\ parked' = [parked EXCEPT ![t] = NotParked]
  /\ checked' = [checked EXCEPT ![t] = seqs[t]]
  /\ UNCHANGED <<cands, sawLease, reserved, idle>>

SkipLeased(t) ==
  /\ Scanned(t) /\ running[t] = "no" /\ Awake(t) /\ t \in leased
  /\ parked' = [parked EXCEPT ![t] = NotParked]
  /\ checked' = [checked EXCEPT ![t] = seqs[t]]
  /\ sawLease' = sawLease \union {t}
  /\ UNCHANGED <<cands, reserved, idle>>

SkipUnchanged(t) ==
  /\ Scanned(t) /\ running[t] = "no" /\ Awake(t) /\ t \notin leased
  /\ seqs[t] = Watermark(t)
  /\ checked' = [checked EXCEPT ![t] = Watermark(t)]
  /\ parked' = [parked EXCEPT ![t] = NotParked]
  /\ UNCHANGED <<cands, sawLease, reserved, idle>>

\* Bug: the watermark moves for threads that wait for a slot, too.
LookOnce(t) ==
  /\ Scanned(t) /\ running[t] = "no" /\ Awake(t) /\ t \notin leased
  /\ seqs[t] # Watermark(t)
  /\ LET k == RecoveryKey(t)
         refused == k # NoKey /\ Disposition(store, k) # "allowed"
     IN \/ /\ ~Actionable(t)
           /\ checked' = [checked EXCEPT ![t] = seqs[t]]
           /\ parked' = [parked EXCEPT ![t] = NotParked]
           /\ UNCHANGED cands
        \/ /\ Actionable(t) /\ refused
           /\ checked' = [checked EXCEPT ![t] = seqs[t]]
           /\ parked' = [parked EXCEPT ![t] = Park(t, k, seqs[t], store)]
           /\ UNCHANGED cands
        \/ /\ Actionable(t) /\ ~refused
           /\ cands' = cands \union {[thread |-> t, class |-> ResourceClass(t),
                                      key |-> k]}
           /\ checked' = [checked EXCEPT ![t] = seqs[t]]
           /\ parked' = [parked EXCEPT ![t] = NotParked]
  /\ UNCHANGED <<sawLease, reserved, idle>>

\* discover_runner_actionable_cached on a thread that changed.
Look(t) ==
  /\ Scanned(t) /\ running[t] = "no" /\ Awake(t) /\ t \notin leased
  /\ seqs[t] # Watermark(t)
  /\ LET k == RecoveryKey(t)
         refused == k # NoKey /\ Disposition(store, k) # "allowed"
     IN \/ /\ ~Actionable(t)
           /\ checked' = [checked EXCEPT ![t] = seqs[t]]
           /\ parked' = [parked EXCEPT ![t] = NotParked]
           /\ UNCHANGED cands
        \/ /\ Actionable(t) /\ refused
           /\ checked' = [checked EXCEPT ![t] = seqs[t]]
           /\ parked' = [parked EXCEPT ![t] = Park(t, k, seqs[t], store)]
           /\ UNCHANGED cands
        \/ /\ Actionable(t) /\ ~refused
           /\ cands' = cands \union {[thread |-> t, class |-> ResourceClass(t),
                                      key |-> k]}
           /\ checked' = [checked EXCEPT ![t] = Watermark(t)]
           /\ parked' = [parked EXCEPT ![t] = NotParked]
  /\ UNCHANGED <<sawLease, reserved, idle>>

Scan(t) ==
  /\ \/ SkipRunning(t) \/ StayParked(t) \/ SkipLeased(t)
     \/ SkipUnchanged(t) \/ Look(t)
  /\ pc' = IF todo' = {} THEN "start" ELSE "scan"
  /\ seqs' = [seqs EXCEPT ![t] = -1]
  /\ UNCHANGED <<durable, leased, running_llm, slots, toolSlots,
                 sticky, runners, store, events, faults>>

\* Bug: a reserved thread needs no free slot.
MayStartReserved(c) ==
  IF c.class = "tool" THEN toolSlots > 0
  ELSE slots > 0 \/ (sticky /\ c.thread \in reserved)

\* Whether the second pass may start a candidate: a slot of its class, and with
\* sticky scheduling one that nobody reserved.
MayStart(c) ==
  IF c.class = "tool" THEN toolSlots > 0
  ELSE /\ slots > 0
       /\ sticky /\ c.thread \notin reserved =>
            running_llm + Cardinality({t \in reserved : running[t] = "no"}) < MaxLlm

Start(c) ==
  /\ pc = "start" /\ c \in cands /\ IsFirst(c.thread, {d.thread : d \in cands})
  /\ cands' = cands \ {c}
  /\ \/ ~MayStart(c) /\ UNCHANGED <<slots, toolSlots, runners, reserved, idle>>
     \/ /\ MayStart(c)
        /\ running' = [running EXCEPT ![c.thread] = c.class]
        /\ drive' = [drive EXCEPT ![c.thread] = c.key]
        /\ at' = [at EXCEPT ![c.thread] = "created"]
        /\ slots' = slots - (IF c.class = "llm" THEN 1 ELSE 0)
        /\ toolSlots' = toolSlots - (IF c.class = "tool" THEN 1 ELSE 0)
        /\ IF sticky /\ c.class = "llm"
           THEN /\ reserved' = reserved \union {c.thread}
                /\ idle' = [idle EXCEPT ![c.thread] = "no"]
           ELSE UNCHANGED <<reserved, idle>>
  /\ UNCHANGED <<durable, pc, seqs, leased, todo, running_llm, sticky,
                 checked, sawLease, parked, store, events, faults>>

Sleep ==
  /\ pc \in {"scan", "start"} /\ todo = {} /\ cands = {}
  /\ pc' = "seqs"
  /\ running_llm' = 0 /\ slots' = 0 /\ toolSlots' = 0
  /\ UNCHANGED <<durable, seqs, leased, todo, cands, sticky, memory, runners,
                 store, events, faults>>

Loop == \/ ReadSeqs \/ ReadLeases \/ Account \/ Sleep
        \/ \E t \in Threads : Scan(t)
        \/ \E c \in cands : Start(c)

-----------------------------------------------------------------------------
(* The runners it started.  run_once looks again by itself. *)

Append(t) == seq' = [seq EXCEPT ![t] = @ + 1]

\* drive's finally, in a state where the log and the store are new.  Asked for
\* no key, a store with entries raises, and the rest of the finally is skipped.
DriveEnds(t) ==
  LET k == drive[t]
      remaining == IF k # NoKey /\ work'[t] = "output" /\ <<t, call'[t]>> = k
                   THEN k ELSE NoKey
      verdict == Disposition(store', k)
      raises == k = NoKey /\ DOMAIN store' # {}
  IN /\ running' = [running EXCEPT ![t] = "no"]
     /\ drive' = [drive EXCEPT ![t] = NoKey]
     /\ at' = [at EXCEPT ![t] = "idle"]
     /\ \/ raises /\ UNCHANGED <<parked, checked, reserved>>
        \/ /\ ~raises /\ remaining # k
           /\ parked' = [parked EXCEPT ![t] = NotParked]
           /\ UNCHANGED checked
        \/ /\ ~raises /\ remaining = k /\ verdict = "allowed"
           /\ parked' = [parked EXCEPT ![t] = NotParked]
           /\ checked' = [checked EXCEPT ![t] = -1]
        \/ /\ ~raises /\ remaining = k /\ verdict # "allowed"
           /\ parked' = [parked EXCEPT ![t] = Park(t, k, seq'[t], store')]
           /\ UNCHANGED checked
     /\ ~raises => reserved' = IF sticky /\ running[t] = "llm"
                               THEN reserved \union {t} ELSE reserved
     /\ UNCHANGED <<sawLease, idle>>

\* The guards of run_once before it takes the lease.
Ready(t) ==
  /\ lease[t] = "free" /\ Actionable(t)
  /\ RecoveryKey(t) # NoKey => Disposition(store, RecoveryKey(t)) = "allowed"

RunNothing(t) ==
  /\ at[t] = "created" /\ ~Ready(t)
  /\ UNCHANGED <<durable, store>>
  /\ DriveEnds(t)
  /\ UNCHANGED <<loop, sticky, events, faults>>

\* The lease is taken, stream.open written, a tool call started.
Begin(t) ==
  /\ at[t] = "created" /\ Ready(t)
  /\ at' = [at EXCEPT ![t] = work[t]]
  /\ work' = [work EXCEPT ![t] = IF @ = "tool" THEN "started" ELSE @]
  /\ lease' = [lease EXCEPT ![t] = "ours"]
  /\ Append(t)
  /\ UNCHANGED <<call, loop, sticky, memory, running, drive, store,
                 events, faults>>

\* A model turn ends with an answer or with tool calls to run or to ask about.
EndTurn(t) ==
  /\ at[t] = "llm" /\ lease[t] = "ours"
  /\ \E next \in {"none", "ask", "tool"} :
       /\ work' = [work EXCEPT ![t] = next]
       /\ next # "none" => events[t] > 0
       /\ events' = IF next = "none" THEN events
                    ELSE [events EXCEPT ![t] = @ - 1]
  /\ lease' = [lease EXCEPT ![t] = "free"] /\ Append(t)
  /\ UNCHANGED <<call, store>>
  /\ DriveEnds(t)
  /\ UNCHANGED <<loop, sticky, faults>>

\* A tool turn or a recovery publishes its result, which the model must answer.
Publish(t) ==
  /\ at[t] \in {"tool", "started", "output"} /\ lease[t] = "ours"
  /\ work' = [work EXCEPT ![t] = "llm"]
  /\ store' = IF at[t] = "output" THEN Without(store, {RecoveryKey(t)}) ELSE store
  /\ lease' = [lease EXCEPT ![t] = "free"] /\ Append(t)
  /\ UNCHANGED call
  /\ DriveEnds(t)
  /\ UNCHANGED <<loop, sticky, events, faults>>

\* The tool finished but its output cannot be published: a failure is counted.
FailToPublish(t) ==
  /\ at[t] \in {"tool", "started", "output"} /\ lease[t] = "ours"
  /\ faults[t] > 0 /\ faults' = [faults EXCEPT ![t] = @ - 1]
  /\ work' = [work EXCEPT ![t] = "output"]
  /\ call' = IF at[t] = "output" THEN call ELSE [call EXCEPT ![t] = @ + 1]
  /\ store' = RecordFailure(store, <<t, call'[t]>>)
  /\ lease' = [lease EXCEPT ![t] = "free"] /\ Append(t)
  /\ DriveEnds(t)
  /\ UNCHANGED <<loop, sticky, events>>

\* The lease is lost (interrupted, or expired under a stalled process): the run
\* ends without a word.
LoseLease(t) ==
  /\ at[t] \in Work /\ lease[t] = "ours" /\ faults[t] > 0
  /\ faults' = [faults EXCEPT ![t] = @ - 1]
  /\ lease' = [lease EXCEPT ![t] = "free"]
  /\ UNCHANGED <<work, call, seq, loop, sticky, memory, runners, store,
                 events>>

RunLost(t) ==
  /\ at[t] \in Work /\ lease[t] # "ours"
  /\ UNCHANGED <<durable, store>>
  /\ DriveEnds(t)
  /\ UNCHANGED <<loop, sticky, events, faults>>

Run(t) == \/ RunNothing(t) \/ Begin(t) \/ EndTurn(t) \/ Publish(t)
          \/ FailToPublish(t) \/ RunLost(t)

-----------------------------------------------------------------------------
(* Users and other processes. *)

\* A message or an approval.
UserSends(t) ==
  /\ events[t] > 0 /\ events' = [events EXCEPT ![t] = @ - 1]
  /\ \/ work[t] = "none" /\ work' = [work EXCEPT ![t] = "llm"]
     \/ work[t] = "ask" /\ work' = [work EXCEPT ![t] = "tool"]
  /\ Append(t)
  /\ UNCHANGED <<call, lease, loop, sticky, memory, runners, store,
                 faults>>

\* A user decides what becomes of an output that could not be published.
UserDecides(t) ==
  /\ work[t] = "output" /\ events[t] > 0 /\ events' = [events EXCEPT ![t] = @ - 1]
  /\ work' = [work EXCEPT ![t] = "tool"]
  /\ Append(t)
  /\ UNCHANGED <<call, lease, loop, sticky, memory, runners, store,
                 faults>>

\* Another process takes the lease, and tells the log in a transaction of its own.
OtherTakes(t) ==
  /\ lease[t] = "free" /\ Actionable(t)
  /\ events[t] > 0 /\ events' = [events EXCEPT ![t] = @ - 1]
  /\ lease' = [lease EXCEPT ![t] = "taken"]
  /\ UNCHANGED <<work, call, seq, loop, sticky, memory, runners, store, faults>>

OtherOpens(t) ==
  /\ lease[t] = "taken"
  /\ lease' = [lease EXCEPT ![t] = "other"]
  /\ work' = [work EXCEPT ![t] = IF @ = "tool" THEN "started" ELSE @]
  /\ Append(t)
  /\ UNCHANGED <<call, loop, sticky, memory, runners, store, events, faults>>

OtherEnds(t) ==
  /\ lease[t] = "other"
  /\ lease' = [lease EXCEPT ![t] = "free"]
  /\ work' = [work EXCEPT ![t] = IF @ = "llm" THEN "none" ELSE "llm"]
  /\ Append(t)
  /\ UNCHANGED <<call, loop, sticky, memory, runners, store, events,
                 faults>>

OtherDies(t) ==
  /\ lease[t] \in {"taken", "other"}
  /\ faults[t] > 0 /\ faults' = [faults EXCEPT ![t] = @ - 1]
  /\ lease' = [lease EXCEPT ![t] = "dead"]
  /\ UNCHANGED <<work, call, seq, loop, sticky, memory, runners, store,
                 events>>

\* Time.  If a lease outlasts a turn of the loop (10 s against half a second and a
\* scan), the loop has read the leases before one of them expires.
LeaseExpires(t) ==
  /\ lease[t] = "dead"
  /\ LeaseOutlastsTurn => t \in leased
  /\ lease' = [lease EXCEPT ![t] = "free"]
  /\ UNCHANGED <<work, call, seq, loop, sticky, memory, runners, store,
                 events, faults>>

IdleElapses(t) ==
  /\ idle[t] = "timing"
  /\ idle' = [idle EXCEPT ![t] = "elapsed"]
  /\ UNCHANGED <<durable, loop, sticky, checked, sawLease, parked, reserved,
                 runners, store, events, faults>>

BackoffEnds(k) ==
  /\ k \in DOMAIN store /\ store[k].wait
  /\ store' = [store EXCEPT ![k].wait = FALSE]
  /\ UNCHANGED <<durable, loop, sticky, memory, runners, events, faults>>

Environment(t) ==
  \/ UserSends(t) \/ UserDecides(t)
  \/ OtherTakes(t) \/ OtherOpens(t) \/ OtherEnds(t) \/ OtherDies(t) \/ LoseLease(t)

Time == \/ \E t \in Threads : LeaseExpires(t) \/ IdleElapses(t)
        \/ \E k \in DOMAIN store : BackoffEnds(k)

Next == Loop \/ Time \/ \E t \in Threads : Run(t) \/ Environment(t)

Spec == Init /\ [][Next]_vars

\* The loop goes round, runners end, other processes end or die, time passes.
FairSpec ==
  /\ Spec /\ WF_vars(Loop)
  /\ \A t \in Threads : WF_vars(Run(t)) /\ WF_vars(OtherOpens(t) \/ OtherEnds(t))
                          /\ WF_vars(LeaseExpires(t)) /\ WF_vars(IdleElapses(t))
  /\ WF_vars(\E k \in DOMAIN store : BackoffEnds(k))

-----------------------------------------------------------------------------
(* Properties. *)

Keys == Threads \X Nat

TypeOK ==
  /\ work \in [Threads -> Work]
  /\ call \in [Threads -> Nat] /\ seq \in [Threads -> Nat]
  /\ lease \in [Threads -> {"free", "ours", "taken", "other", "dead"}]
  /\ pc \in {"seqs", "leases", "account", "scan", "start"}
  /\ leased \subseteq Threads /\ todo \subseteq Threads
  /\ seqs \in [Threads -> Nat \union {-1}]
  /\ cands \subseteq [thread : Threads, class : {"llm", "tool"},
                     key : Keys \union {NoKey}]
  /\ running_llm \in Nat /\ slots \in Int /\ toolSlots \in Int
  /\ sticky \in BOOLEAN
  /\ checked \in [Threads -> Nat \union {-1}]
  /\ sawLease \subseteq Threads /\ reserved \subseteq Threads
  /\ parked \in [Threads -> [key : Keys \union {NoKey}, seq : Nat \union {-1},
                            when : {"now", "later", "never"}]]
  /\ idle \in [Threads -> {"no", "timing", "elapsed"}]
  /\ running \in [Threads -> {"no", "llm", "tool"}]
  /\ drive \in [Threads -> Keys \union {NoKey}]
  /\ at \in [Threads -> {"idle", "created"} \union Work]
  /\ DOMAIN store \subseteq Keys
  /\ \A k \in DOMAIN store : store[k] \in [attempts : 1..MaxAttempts, wait : BOOLEAN]
  /\ events \in [Threads -> Nat] /\ faults \in [Threads -> Nat]

\* The runners started for model turns never outnumber the LLM slots, nor those
\* started for tools theirs, although the slots are counted once a turn, before
\* the scan gives way to runners that end, and reservations come and go.
WithinSlots ==
  /\ Cardinality({t \in Threads : running[t] = "llm"}) <= MaxLlm
  /\ Cardinality({t \in Threads : running[t] = "tool"}) <= MaxTool

\* The end of this lease will drop the watermark of the thread: the loop has
\* noted it, or read it and has still to scan the thread.
LeaseNoted(t) ==
  t \in sawLease \/ (t \in leased /\ (pc = "account" \/ (pc = "scan" /\ t \in todo)))

\* A watermark that makes the loop skip a thread hides no work, though leases come
\* and go without an event: if the thread could run, then it is parked, or it was
\* under a lease that has been noted (last_checked_seq against lease expiry and
\* retry deadlines).
NoHiddenWork ==
  \A t \in Threads :
    checked[t] = seq[t] /\ running[t] = "no" /\ Actionable(t)
      => parked[t] # NotParked \/ LeaseNoted(t)

\* A thread is parked for its own call, as long as its log stands still, and for
\* good only if the retry store gave up on the call, or had no room for it.
ParkedForCause ==
  \A t \in Threads :
    parked[t] # NotParked /\ parked[t].seq = seq[t] =>
      /\ parked[t].key = <<t, call[t]>> /\ work[t] = "output"
      /\ parked[t].when = "never" =>
           \/ parked[t].key \notin DOMAIN store
           \/ store[parked[t].key].attempts >= MaxAttempts

\* Work is done in the end, whoever held the slots or the lease before: without
\* sticky scheduling a thread comes to rest, waits for a user, or holds an output
\* that the process used up its attempts to publish.
WorkIsDone ==
  \A t \in Threads :
    ~sticky ~> \/ work[t] \in {"none", "ask"}
               \/ /\ work[t] = "output"
                  /\ Disposition(store, <<t, call[t]>>) = "exhausted"

\* sticky_scheduling: "threads with reserved slots (recently ran, within
\* threshold)"; a thread that holds a reservation and has a model turn to run
\* gets to run it.
ReservedIsRun ==
  \A t \in Threads : t \in reserved /\ work[t] = "llm" ~> work[t] # "llm"

=============================================================================
