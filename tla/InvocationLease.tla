-------------------------- MODULE InvocationLease --------------------------
(***************************************************************************)
(* The per-thread invocation lease of eggthreads (db.py) and the life of   *)
(* the invocations that use it (runner.py, ThreadRunner.run_once), for one *)
(* thread.  All access goes through one row of the table open_streams and  *)
(* the thread's events, so threads are independent.                        *)
(*                                                                         *)
(* Every run_once attempt draws a fresh invoke_id (os.urandom): an         *)
(* invocation is the actor here, whichever process or task runs it, and it *)
(* may be arbitrarily slow between two of its steps.  A SQLite statement   *)
(* or savepoint that starts by writing is one atomic step; a read followed *)
(* by a statement of its own is two.                                       *)
(*                                                                         *)
(* Time is the remaining life of the row, row.left: lease_until > now is   *)
(* row.left > 0.  A caller computes lease_until before it gets the write   *)
(* lock, so a fresh lease may have any remaining life in 0..TTL.           *)
(***************************************************************************)
EXTENDS Naturals, Sequences, FiniteSets

CONSTANTS Invocations,        \* the invoke_ids
          NoInvocation,       \* no invoke_id (SQL NULL)
          NoRow,              \* open_streams has no row for the thread
          TTL,                \* lease_ttl_sec
          MaxWrites,          \* bound: appends of one invocation in a phase
          MaxIdleInterrupts   \* bound: interrupts recorded with no row

ASSUME LeaseAssumption ==
  /\ NoInvocation \notin Invocations
  /\ TTL \in Nat \ {0}
  /\ NoRow \notin [invoke : Invocations, left : 0..TTL]

VARIABLES row,           \* the open_streams row of the thread, or NoRow
          events,        \* the events of the thread that bear on the lease
          phase,         \* where each invocation is in run_once
          interrupting,  \* invoke_ids read by an interrupt_thread in progress
          sweeping       \* expired invoke_ids read by a thread_state in progress

vars == <<row, events, phase, interrupting, sweeping>>

Phases == {"new", "acquired", "streaming", "finishing", "closed", "ended"}
OwnedKinds == {"stream.open", "stream.delta", "stream.close", "runner.error"}
\* "compaction" stands for the events of the post-stream compaction work; "by"
\* remembers which invocation's run_once wrote it, the row in the database does
\* not.
Kinds == OwnedKinds \cup {"compaction", "control.interrupt"}
Rows == [invoke : Invocations, left : 0..TTL]
Events == [kind : Kinds, by : Invocations \cup {NoInvocation},
           old : Invocations \cup {NoInvocation}]

TypeOK == /\ row \in Rows \cup {NoRow}
          /\ events \in Seq(Events)
          /\ phase \in [Invocations -> Phases]
          /\ interrupting \subseteq Invocations
          /\ sweeping \subseteq Invocations

-----------------------------------------------------------------------------
\* WHERE thread_id=? AND invoke_id=?
HasRow(i) == row # NoRow /\ row.invoke = i

\* ... AND lease_until>datetime('now')
Owns(i) == HasRow(i) /\ row.left > 0

Live == row # NoRow /\ row.left > 0

Event(kind, by, old) == [kind |-> kind, by |-> by, old |-> old]

Fenced(e) == e.kind \in OwnedKinds

WrittenBy(i, kind) == {k \in DOMAIN events : events[k].kind = kind /\ events[k].by = i}

GoTo(i, p) == phase' = [phase EXCEPT ![i] = p]

\* Bug: a plain INSERT under the invocation's name.
AppendWithoutLease(i, kind, next) ==
  /\ events' = Append(events, Event(kind, i, NoInvocation))
  /\ GoTo(i, next)
  /\ UNCHANGED <<row, interrupting, sweeping>>

\* append_event_with_lease: one INSERT ... WHERE EXISTS.  When it inserts
\* nothing LeaseLost is raised, run_once stops without close or release.
AppendWithLease(i, kind, next) ==
  /\ \/ Owns(i) /\ events' = Append(events, Event(kind, i, NoInvocation)) /\ GoTo(i, next)
     \/ ~Owns(i) /\ UNCHANGED events /\ GoTo(i, "ended")
  /\ UNCHANGED <<row, interrupting, sweeping>>

Init == /\ row = NoRow
        /\ events = <<>>
        /\ phase = [i \in Invocations |-> "new"]
        /\ interrupting = {}
        /\ sweeping = {}

-----------------------------------------------------------------------------
(* try_open_stream: take over an expired row, else give way to a live one, *)
(* else insert.  The savepoint takes the write lock before it reads.       *)

\* Bug: the UPDATE does not ask for an expired row.
TakeOverAny(i, left) ==
  /\ phase[i] = "new"
  /\ row # NoRow
  /\ row' = [invoke |-> i, left |-> left]
  /\ events' = Append(events, Event("control.interrupt", NoInvocation, row.invoke))
  /\ GoTo(i, "acquired")
  /\ UNCHANGED <<interrupting, sweeping>>

TakeOver(i, left) ==
  /\ phase[i] = "new"
  /\ row # NoRow
  /\ row.left = 0
  /\ row' = [invoke |-> i, left |-> left]
  /\ events' = Append(events, Event("control.interrupt", NoInvocation, row.invoke))
  /\ GoTo(i, "acquired")
  /\ UNCHANGED <<interrupting, sweeping>>

OpenFresh(i, left) ==
  /\ phase[i] = "new"
  /\ row = NoRow
  /\ row' = [invoke |-> i, left |-> left]
  /\ GoTo(i, "acquired")
  /\ UNCHANGED <<events, interrupting, sweeping>>

Refused(i) ==
  /\ phase[i] = "new"
  /\ Live
  /\ GoTo(i, "ended")
  /\ UNCHANGED <<row, events, interrupting, sweeping>>

-----------------------------------------------------------------------------
(* The rest of run_once. *)

\* stream.open, before the heartbeat task starts.
OpenStream(i) == phase[i] = "acquired" /\ AppendWithLease(i, "stream.open", "streaming")

\* Bug: the UPDATE renews an expired row too.
HeartbeatRevives(i, left) ==
  /\ phase[i] = "streaming"
  /\ HasRow(i)
  /\ row' = [row EXCEPT !.left = left]
  /\ UNCHANGED <<events, phase, interrupting, sweeping>>

\* Bug: the heartbeat task outlives its run_once.
HeartbeatForever(i, left) ==
  /\ phase[i] \in {"streaming", "ended"}
  /\ Owns(i)
  /\ row' = [row EXCEPT !.left = left]
  /\ UNCHANGED <<events, phase, interrupting, sweeping>>

\* The heartbeat task, and the heartbeats of the streaming loops.  A heartbeat
\* that renews nothing ends the task and changes nothing.
Heartbeat(i, left) ==
  /\ phase[i] = "streaming"
  /\ Owns(i)
  /\ row' = [row EXCEPT !.left = left]
  /\ UNCHANGED <<events, phase, interrupting, sweeping>>

\* Any append through the invocation writer while the work runs.
Work(i) ==
  /\ phase[i] = "streaming"
  /\ Cardinality(WrittenBy(i, "stream.delta")) < MaxWrites
  /\ AppendWithLease(i, "stream.delta", "streaming")

\* The work returned, failed or was cancelled: finally cancels the heartbeat.
FinishWork(i) ==
  /\ phase[i] = "streaming"
  /\ GoTo(i, "finishing")
  /\ UNCHANGED <<row, events, interrupting, sweeping>>

Close(i) == phase[i] = "finishing" /\ AppendWithLease(i, "stream.close", "closed")

\* Context recovery and automatic compaction between close and release: plain
\* append_event, without heartbeat and without looking at the lease.
Compact(i) ==
  /\ phase[i] = "closed"
  /\ Cardinality(WrittenBy(i, "compaction")) < MaxWrites
  /\ events' = Append(events, Event("compaction", i, NoInvocation))
  /\ UNCHANGED <<row, phase, interrupting, sweeping>>

\* The error message of a failed context recovery; its LeaseLost is swallowed.
ReportError(i) ==
  /\ phase[i] = "closed"
  /\ Cardinality(WrittenBy(i, "runner.error")) < MaxWrites
  /\ Owns(i)
  /\ events' = Append(events, Event("runner.error", i, NoInvocation))
  /\ UNCHANGED <<row, phase, interrupting, sweeping>>

\* release_invocation_with_lease: DELETE of the exact live row, else LeaseLost.
Release(i) ==
  /\ phase[i] = "closed"
  /\ row' = IF Owns(i) THEN NoRow ELSE row
  /\ GoTo(i, "ended")
  /\ UNCHANGED <<events, interrupting, sweeping>>

\* The process dies; the row stays behind.
Crash(i) ==
  /\ phase[i] \in {"acquired", "streaming", "finishing", "closed"}
  /\ GoTo(i, "ended")
  /\ UNCHANGED <<row, events, interrupting, sweeping>>

-----------------------------------------------------------------------------
(* interrupt_thread: reads the row, expired or not, then deletes that      *)
(* invocation's row and records it in one savepoint; when the row changed  *)
(* hands in between it gives up.                                           *)

InterruptRead ==
  /\ row # NoRow
  /\ interrupting' = interrupting \cup {row.invoke}
  /\ UNCHANGED <<row, events, phase, sweeping>>

\* Bug: the boundary is recorded but the row stays.
InterruptKeepsRow(i) ==
  /\ i \in interrupting
  /\ interrupting' = interrupting \ {i}
  /\ IF HasRow(i)
     THEN events' = Append(events, Event("control.interrupt", NoInvocation, i))
     ELSE UNCHANGED events
  /\ UNCHANGED <<row, phase, sweeping>>

\* Bug: the boundary is recorded whatever the DELETE removed.
InterruptIgnoresRowCount(i) ==
  /\ i \in interrupting
  /\ interrupting' = interrupting \ {i}
  /\ row' = IF HasRow(i) THEN NoRow ELSE row
  /\ events' = Append(events, Event("control.interrupt", NoInvocation, i))
  /\ UNCHANGED <<phase, sweeping>>

InterruptCommit(i) ==
  /\ i \in interrupting
  /\ interrupting' = interrupting \ {i}
  /\ \/ /\ HasRow(i)
        /\ row' = NoRow
        /\ events' = Append(events, Event("control.interrupt", NoInvocation, i))
     \/ /\ ~HasRow(i)
        /\ UNCHANGED <<row, events>>
  /\ UNCHANGED <<phase, sweeping>>

\* No row was read, earlier, and an LLM turn was pending: a boundary naming no
\* invocation, by a plain append.  Somebody may have taken the lease since.
InterruptIdle ==
  /\ Cardinality({k \in DOMAIN events : events[k].kind = "control.interrupt"
                                        /\ events[k].old = NoInvocation}) < MaxIdleInterrupts
  /\ events' = Append(events, Event("control.interrupt", NoInvocation, NoInvocation))
  /\ UNCHANGED <<row, phase, interrupting, sweeping>>

(* thread_state and the wait tool drop an expired row: a read, then a      *)
(* DELETE by invoke_id that does not look at the expiry again.             *)

SweepRead ==
  /\ row # NoRow
  /\ row.left = 0
  /\ sweeping' = sweeping \cup {row.invoke}
  /\ UNCHANGED <<row, events, phase, interrupting>>

\* Bug: the DELETE names the thread only.
SweepDeletesAnyRow(i) ==
  /\ i \in sweeping
  /\ sweeping' = sweeping \ {i}
  /\ row' = NoRow
  /\ UNCHANGED <<events, phase, interrupting>>

SweepDelete(i) ==
  /\ i \in sweeping
  /\ sweeping' = sweeping \ {i}
  /\ row' = IF HasRow(i) THEN NoRow ELSE row
  /\ UNCHANGED <<events, phase, interrupting>>

\* Bug: time passes below zero.
TickBelowZero ==
  /\ row # NoRow
  /\ row' = [row EXCEPT !.left = @ - 1]
  /\ UNCHANGED <<events, phase, interrupting, sweeping>>

Tick ==
  /\ Live
  /\ row' = [row EXCEPT !.left = @ - 1]
  /\ UNCHANGED <<events, phase, interrupting, sweeping>>

-----------------------------------------------------------------------------
Next ==
  \/ \E i \in Invocations, left \in 0..TTL :
       TakeOver(i, left) \/ OpenFresh(i, left) \/ Heartbeat(i, left)
  \/ \E i \in Invocations :
       \/ Refused(i) \/ OpenStream(i) \/ Work(i) \/ FinishWork(i) \/ Close(i)
       \/ Compact(i) \/ ReportError(i) \/ Release(i) \/ Crash(i)
       \/ InterruptCommit(i) \/ SweepDelete(i)
  \/ InterruptRead \/ InterruptIdle \/ SweepRead
  \/ Tick

Spec == Init /\ [][Next]_vars

\* Only the passing of time is certain: nobody is obliged to call anything.
TimedSpec == Spec /\ WF_vars(Tick)

-----------------------------------------------------------------------------
(* Properties. *)

\* The entries an invocation appended under its lease are one tenure: no entry
\* of another invocation lies between two of them.  Readers of the log (the
\* reducer, the live event feed) attribute stream.delta to the stream.open
\* before it and rely on this.
ExclusiveWriter ==
  \A p, q, s \in DOMAIN events :
    /\ p < q /\ q < s
    /\ Fenced(events[p]) /\ Fenced(events[q]) /\ Fenced(events[s])
    /\ events[p].by = events[s].by
    => events[q].by = events[p].by

\* Once the log says an invocation was interrupted or taken over, nothing that
\* invocation appends under its lease follows (interrupt_thread: "invocation-
\* owned INSERT...WHERE EXISTS writes cannot land after it").
InterruptedIsSilent ==
  \A p, q \in DOMAIN events :
    /\ p < q
    /\ events[p].kind = "control.interrupt"
    /\ Fenced(events[q])
    => events[q].by # events[p].old

\* An invocation is superseded at most once, whichever of a takeover and any
\* number of concurrent interrupts gets there first: the reducer would move the
\* turn boundary twice for one lost invocation.
SupersededOnce ==
  \A p, q \in DOMAIN events :
    /\ events[p].kind = "control.interrupt" /\ events[q].kind = "control.interrupt"
    /\ events[p].old = events[q].old /\ events[p].old # NoInvocation
    => p = q

\* An invocation that is past its lease, by expiry, takeover, interruption or
\* release, never owns the thread again: a late heartbeat cannot revive it, and
\* deleting by invoke_id what was once seen expired deletes no live lease.
LostStaysLost ==
  [][\A i \in Invocations :
       phase[i] # "new" /\ ~Owns(i) => ~Owns(i)']_vars

\* thread_state and the wait tool remove expired rows only: whoever deletes a
\* live lease is its owner releasing it, or an interrupt that records it.
LiveLeaseDroppedOpenly ==
  [][\A i \in Invocations :
       Owns(i) /\ row' = NoRow =>
         \/ phase[i] = "closed" /\ phase'[i] = "ended"
         \/ \E k \in DOMAIN events' : events'[k].kind = "control.interrupt"
                                      /\ events'[k].old = i]_vars

\* "Don't need interrupt_thread for crash recovery - leases expire naturally"
\* (system-design.md): the lease of an invocation that is over, by a crash or by
\* LeaseLost before its heartbeat ran, ends though nobody interrupts it.
DeadLeaseExpires ==
  \A i \in Invocations : phase[i] = "ended" ~> ~Owns(i)

\* What close_invocation_with_lease says of the work between close and release:
\* "runner post-stream work can stay fenced by the same lease until all owned
\* writes finish".
PostStreamWorkFenced ==
  \A p, q \in DOMAIN events :
    /\ p < q
    /\ events[p].kind = "control.interrupt"
    /\ events[q].kind = "compaction"
    => events[q].by # events[p].old

-----------------------------------------------------------------------------
(* The abstract specification: the lease makes the log single-writer. *)

AbstractOwner == IF Live THEN row.invoke ELSE NoInvocation

AbstractSpent == {i \in Invocations : phase[i] # "new" /\ ~Owns(i)}

Author(e) == IF Fenced(e) THEN e.by ELSE NoInvocation

AbstractLog == [k \in DOMAIN events |-> Author(events[k])]

Lock == INSTANCE SingleWriter WITH owner <- AbstractOwner,
                                   spent <- AbstractSpent,
                                   log <- AbstractLog

\* Every step of the lease protocol is a step of the single-writer lock.
ImplementsSingleWriter == Lock!Spec
=============================================================================
