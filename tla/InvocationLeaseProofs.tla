------------------------ MODULE InvocationLeaseProofs ------------------------
(***************************************************************************)
(* What InvocationLease guarantees for any number of invocations, any TTL  *)
(* and any bounds.  The argument: an invocation that is not new gets no    *)
(* row it did not have (RowStep), and every entry of the log was appended  *)
(* either by the owner of the row, without moving the row, or by the step  *)
(* that takes the row away from the invocation it names (LogStep).         *)
(***************************************************************************)
EXTENDS InvocationLease, SequenceTheorems, TLAPS

-----------------------------------------------------------------------------
(* The inductive invariant. *)

RowStarted == \A i \in Invocations : HasRow(i) => phase[i] # "new"

AuthorsStarted ==
  \A k \in DOMAIN events :
    Fenced(events[k]) => /\ events[k].by \in Invocations
                         /\ phase[events[k].by] # "new"

\* An invocation after which another one appended has lost the row.
Tenure ==
  \A p, q \in DOMAIN events :
    p < q /\ Fenced(events[p]) /\ Fenced(events[q]) /\ events[p].by # events[q].by
    => ~HasRow(events[p].by)

\* So has an invocation that was interrupted or taken over.
Superseded ==
  \A p \in DOMAIN events :
    events[p].kind = "control.interrupt" /\ events[p].old # NoInvocation
    => phase[events[p].old] # "new" /\ ~HasRow(events[p].old)

LogInv == ExclusiveWriter /\ InterruptedIsSilent /\ SupersededOnce

IInv == TypeOK /\ RowStarted /\ AuthorsStarted /\ Tenure /\ Superseded /\ LogInv

-----------------------------------------------------------------------------
\* The state keeps its type: TypeOK, for all values of the constants.
LEMMA TypeStep == TypeOK /\ [Next]_vars => TypeOK'
<1> SUFFICES ASSUME TypeOK, [Next]_vars PROVE TypeOK'
  OBVIOUS
<1> USE LeaseAssumption DEF TypeOK, Phases
<1>e. \A k \in Kinds, b \in Invocations \cup {NoInvocation}, o \in Invocations \cup {NoInvocation} :
        Event(k, b, o) \in Events
  BY DEF Event, Events
<1>k. OwnedKinds \subseteq Kinds /\ {"compaction", "control.interrupt", "runner.error"} \subseteq Kinds
  BY DEF Kinds, OwnedKinds
<1>r. \A i \in Invocations, left \in 0..TTL : [invoke |-> i, left |-> left] \in Rows
  BY DEF Rows
<1>w. ASSUME NEW i \in Invocations, NEW k \in OwnedKinds, NEW p \in Phases,
             AppendWithLease(i, k, p)
      PROVE  TypeOK'
  <2>1. Event(k, i, NoInvocation) \in Events
    BY <1>e, <1>k
  <2>2. events' \in Seq(Events)
    BY <1>w, <2>1, AppendProperties DEF AppendWithLease
  <2>3. phase' \in [Invocations -> Phases]
    BY <1>w DEF AppendWithLease, GoTo
  <2>4. QED
    BY <1>w, <2>2, <2>3 DEF AppendWithLease
<1>1. ASSUME NEW i \in Invocations, NEW left \in 0..TTL, TakeOver(i, left)
      PROVE  TypeOK'
  <2>1. row.invoke \in Invocations
    BY <1>1 DEF TakeOver, Rows
  <2>2. events' \in Seq(Events)
    BY <1>1, <1>e, <1>k, <2>1, AppendProperties DEF TakeOver
  <2>3. QED
    BY <1>1, <1>r, <2>2 DEF TakeOver, GoTo
<1>2. ASSUME NEW i \in Invocations, NEW left \in 0..TTL, OpenFresh(i, left)
      PROVE  TypeOK'
  BY <1>2, <1>r DEF OpenFresh, GoTo
<1>3. ASSUME NEW i \in Invocations, NEW left \in 0..TTL, Heartbeat(i, left)
      PROVE  TypeOK'
  BY <1>3 DEF Heartbeat, Owns, HasRow, Rows
<1>4. ASSUME NEW i \in Invocations, Refused(i)
      PROVE  TypeOK'
  BY <1>4 DEF Refused, GoTo
<1>5. ASSUME NEW i \in Invocations, OpenStream(i) \/ Work(i) \/ Close(i)
      PROVE  TypeOK'
  BY <1>5, <1>w DEF OpenStream, Work, Close, OwnedKinds
<1>6. ASSUME NEW i \in Invocations, FinishWork(i) \/ Crash(i) \/ Release(i)
      PROVE  TypeOK'
  BY <1>6 DEF FinishWork, Crash, Release, GoTo
<1>7. ASSUME NEW i \in Invocations, Compact(i) \/ ReportError(i)
      PROVE  TypeOK'
  BY <1>7, <1>e, <1>k, AppendProperties DEF Compact, ReportError
<1>8. ASSUME NEW i \in Invocations, InterruptCommit(i)
      PROVE  TypeOK'
  BY <1>8, <1>e, <1>k, AppendProperties DEF InterruptCommit
<1>9. ASSUME NEW i \in Invocations, SweepDelete(i)
      PROVE  TypeOK'
  BY <1>9 DEF SweepDelete
<1>10. CASE InterruptRead
  BY <1>10 DEF InterruptRead, Rows
<1>11. CASE InterruptIdle
  BY <1>11, <1>e, <1>k, AppendProperties DEF InterruptIdle
<1>12. CASE SweepRead
  BY <1>12 DEF SweepRead, Rows
<1>13. CASE Tick
  BY <1>13 DEF Tick, Live, Rows
<1>14. CASE UNCHANGED vars
  BY <1>14 DEF vars
<1>15. QED
  BY <1>1, <1>2, <1>3, <1>4, <1>5, <1>6, <1>7, <1>8, <1>9, <1>10, <1>11,
     <1>12, <1>13, <1>14 DEF Next

LEMMA TypeInit == Init => TypeOK
BY DEF Init, TypeOK, Phases

\* TypeOK always holds.
THEOREM TypeCorrect == Spec => []TypeOK
BY TypeInit, TypeStep, PTL DEF Spec

-----------------------------------------------------------------------------
(* What a step can do to the row. *)

\* An invocation that has started stays started; it gets no row it did not
\* have and no life that had run out.
LEMMA RowStep ==
  ASSUME TypeOK, [Next]_vars, NEW i \in Invocations
  PROVE  /\ phase[i] # "new" => phase'[i] # "new"
         /\ HasRow(i)' => phase'[i] # "new" \/ HasRow(i)
         /\ phase[i] # "new" /\ HasRow(i)' => HasRow(i)
         /\ phase[i] # "new" /\ Owns(i)' => Owns(i)
<1> DEFINE Goal == /\ phase[i] # "new" => phase'[i] # "new"
                   /\ HasRow(i)' => phase'[i] # "new" \/ HasRow(i)
                   /\ phase[i] # "new" /\ HasRow(i)' => HasRow(i)
                   /\ phase[i] # "new" /\ Owns(i)' => Owns(i)
<1> SUFFICES Goal
  OBVIOUS
<1> USE DEF TypeOK, HasRow, Owns, GoTo, Rows
<1>1. ASSUME NEW j \in Invocations, NEW left \in 0..TTL,
             TakeOver(j, left) \/ OpenFresh(j, left)
      PROVE  Goal
  BY <1>1, LeaseAssumption DEF TakeOver, OpenFresh, Phases
<1>2. ASSUME NEW j \in Invocations, NEW left \in 0..TTL, Heartbeat(j, left)
      PROVE  Goal
  BY <1>2 DEF Heartbeat
<1>3. ASSUME NEW j \in Invocations,
             Refused(j) \/ FinishWork(j) \/ Crash(j) \/ Release(j)
      PROVE  Goal
  BY <1>3 DEF Refused, FinishWork, Crash, Release
<1>4. ASSUME NEW j \in Invocations, OpenStream(j) \/ Work(j) \/ Close(j)
      PROVE  Goal
  BY <1>4 DEF OpenStream, Work, Close, AppendWithLease
<1>5. ASSUME NEW j \in Invocations,
             Compact(j) \/ ReportError(j) \/ InterruptCommit(j) \/ SweepDelete(j)
      PROVE  Goal
  BY <1>5 DEF Compact, ReportError, InterruptCommit, SweepDelete
<1>6. CASE InterruptRead \/ InterruptIdle \/ SweepRead
  BY <1>6 DEF InterruptRead, InterruptIdle, SweepRead
<1>7. CASE Tick
  BY <1>7, LeaseAssumption DEF Tick, Live
<1>8. CASE UNCHANGED vars
  BY <1>8 DEF vars
<1>9. QED
  BY <1>1, <1>2, <1>3, <1>4, <1>5, <1>6, <1>7, <1>8 DEF Next

\* LostStaysLost holds, for any number of invocations and any TTL.
THEOREM LostForGood == Spec => LostStaysLost
<1>1. TypeOK /\ [Next]_vars =>
        [\A i \in Invocations : phase[i] # "new" /\ ~Owns(i) => ~Owns(i)']_vars
  BY RowStep
<1>2. QED
  BY <1>1, TypeCorrect, PTL DEF Spec, LostStaysLost

-----------------------------------------------------------------------------
(* What a step can do to the log. *)

\* The entry a step may append: the owner's own, one that takes the row from
\* the invocation it names, or one that concerns no invocation's lease.
OwnEntry(e) == Fenced(e) /\ e.by \in Invocations /\ HasRow(e.by)
               /\ phase[e.by] # "new" /\ UNCHANGED row

InterruptEntry(e) == /\ e.kind = "control.interrupt"
                     /\ e.old \in Invocations
                     /\ HasRow(e.old)
                     /\ ~HasRow(e.old)'

NeutralEntry(e) == \/ e.kind = "control.interrupt" /\ e.old = NoInvocation
                   \/ e.kind = "compaction"

Entry(e) == OwnEntry(e) \/ InterruptEntry(e) \/ NeutralEntry(e)

\* Whatever the step, the log is left alone or grows by one such entry.
LEMMA LogStep ==
  ASSUME TypeOK, RowStarted, [Next]_vars
  PROVE  \/ events' = events
         \/ \E e \in Events : events' = Append(events, e) /\ Entry(e)
<1> DEFINE Goal == \/ events' = events
                   \/ \E e \in Events : events' = Append(events, e) /\ Entry(e)
<1> SUFFICES Goal
  OBVIOUS
<1>k. OwnedKinds \subseteq Kinds /\ {"compaction", "control.interrupt"} \subseteq Kinds
      /\ "runner.error" \in OwnedKinds
  BY DEF Kinds, OwnedKinds
<1>e. \A k \in Kinds, b \in Invocations \cup {NoInvocation},
         o \in Invocations \cup {NoInvocation} :
        /\ Event(k, b, o) \in Events
        /\ Event(k, b, o).kind = k /\ Event(k, b, o).by = b /\ Event(k, b, o).old = o
  BY DEF Event, Events
<1>w. ASSUME NEW i \in Invocations, NEW k \in OwnedKinds, Owns(i), phase[i] # "new",
             events' = Append(events, Event(k, i, NoInvocation)), UNCHANGED row
      PROVE  Goal
  <2> DEFINE e == Event(k, i, NoInvocation)
  <2>1. e \in Events /\ e.kind = k /\ e.by = i
    BY <1>e, <1>k
  <2>2. OwnEntry(e)
    BY <1>w, <2>1 DEF OwnEntry, Fenced, Owns
  <2>3. QED
    BY <1>w, <2>1, <2>2 DEF Entry
<1>1. ASSUME NEW i \in Invocations, NEW left \in 0..TTL, TakeOver(i, left)
      PROVE  Goal
  <2>1. PICK o \in Invocations : row.invoke = o
    BY <1>1 DEF TakeOver, TypeOK, Rows
  <2> DEFINE e == Event("control.interrupt", NoInvocation, o)
  <2>2. e \in Events /\ e.kind = "control.interrupt" /\ e.old = o
    BY <1>e, <1>k
  <2>3. o # i /\ HasRow(o)
    BY <1>1, <2>1 DEF TakeOver, RowStarted, HasRow
  <2>4. ~HasRow(o)'
    BY <1>1, <2>3 DEF TakeOver, HasRow
  <2>5. InterruptEntry(e)
    BY <2>2, <2>3, <2>4 DEF InterruptEntry, HasRow
  <2>6. QED
    BY <1>1, <2>1, <2>2, <2>5 DEF TakeOver, Entry
<1>2. ASSUME NEW i \in Invocations, NEW left \in 0..TTL,
             OpenFresh(i, left) \/ Heartbeat(i, left)
      PROVE  Goal
  BY <1>2 DEF OpenFresh, Heartbeat
<1>3. ASSUME NEW i \in Invocations,
             \/ Refused(i) \/ FinishWork(i) \/ Crash(i) \/ Release(i) \/ SweepDelete(i)
      PROVE  Goal
  BY <1>3 DEF Refused, FinishWork, Crash, Release, SweepDelete
<1>4. ASSUME NEW i \in Invocations, OpenStream(i) \/ Work(i) \/ Close(i)
      PROVE  Goal
  BY <1>4, <1>w DEF OpenStream, Work, Close, AppendWithLease, OwnedKinds
<1>5. ASSUME NEW i \in Invocations, ReportError(i)
      PROVE  Goal
  BY <1>5, <1>w, <1>k DEF ReportError
<1>6. ASSUME NEW i \in Invocations, Compact(i)
      PROVE  Goal
  BY <1>6, <1>e, <1>k DEF Compact, Entry, NeutralEntry
<1>7. ASSUME NEW i \in Invocations, InterruptCommit(i)
      PROVE  Goal
  <2> DEFINE e == Event("control.interrupt", NoInvocation, i)
  <2>1. e \in Events /\ e.kind = "control.interrupt" /\ e.old = i
    <3>1. "control.interrupt" \in Kinds /\ i \in Invocations \cup {NoInvocation}
          /\ NoInvocation \in Invocations \cup {NoInvocation}
      BY <1>k
    <3>2. QED
      BY <1>e, <3>1
  <2>2. CASE HasRow(i) /\ row' = NoRow /\ events' = Append(events, e)
    <3>1. ~HasRow(i)'
      BY <2>2 DEF HasRow
    <3>2. InterruptEntry(e)
      BY <2>1, <2>2, <3>1 DEF InterruptEntry, HasRow
    <3>3. QED
      BY <2>1, <2>2, <3>2 DEF Entry
  <2>3. QED
    BY <1>7, <2>2 DEF InterruptCommit
<1>8. CASE InterruptIdle
  BY <1>8, <1>e, <1>k DEF InterruptIdle, Entry, NeutralEntry
<1>9. CASE InterruptRead \/ SweepRead \/ Tick \/ UNCHANGED vars
  BY <1>9 DEF InterruptRead, SweepRead, Tick, vars
<1>10. QED
  BY <1>1, <1>2, <1>3, <1>4, <1>5, <1>6, <1>7, <1>8, <1>9 DEF Next

-----------------------------------------------------------------------------
(* The invariant is inductive. *)

LEMMA InvInit == Init => IInv
<1>1. Init => events = <<>> /\ row = NoRow
  BY DEF Init
<1>2. QED
  BY <1>1, TypeInit DEF IInv, RowStarted, AuthorsStarted, Tenure, Superseded,
     LogInv, ExclusiveWriter, InterruptedIsSilent, SupersededOnce, HasRow

\* A step that leaves the log alone keeps the invariant.
LEMMA QuietStep ==
  ASSUME IInv, [Next]_vars, events' = events
  PROVE  IInv'
<1> USE DEF IInv
<1>1. TypeOK'
  BY TypeStep
<1>2. RowStarted'
  BY RowStep DEF RowStarted
<1>3. AuthorsStarted'
  BY RowStep DEF AuthorsStarted, Fenced
<1>4. Tenure'
  BY RowStep DEF Tenure, AuthorsStarted, Fenced
<1>5. Superseded'
  <2>1. ASSUME NEW p \in DOMAIN events,
               events[p].kind = "control.interrupt", events[p].old # NoInvocation
        PROVE  events[p].old \in Invocations
    <3>1. events[p] \in Events
      BY <2>1, ElementOfSeq, LenProperties DEF TypeOK
    <3>2. QED
      BY <2>1, <3>1 DEF Events
  <2>2. QED
    BY <2>1, RowStep DEF Superseded
<1>6. LogInv'
  BY DEF LogInv, ExclusiveWriter, InterruptedIsSilent, SupersededOnce, Fenced
<1>7. QED
  BY <1>1, <1>2, <1>3, <1>4, <1>5, <1>6

\* A step that appends an entry keeps it too.
LEMMA AppendStep ==
  ASSUME IInv, [Next]_vars,
         NEW e \in Events, events' = Append(events, e), Entry(e)
  PROVE  IInv'
<1> DEFINE n == Len(events)
<1>s. TypeOK /\ events \in Seq(Events)
  BY DEF IInv, TypeOK
<1>n. /\ n \in Nat
      /\ DOMAIN events = 1..n
      /\ DOMAIN events' = 1..(n + 1)
      /\ \A k \in 1..n : events'[k] = events[k]
      /\ events'[n + 1] = e
  BY <1>s, AppendProperties, LenProperties
<1> HIDE DEF n
<1>t. TypeOK'
  BY TypeStep DEF IInv
<1>r. RowStarted'
  BY <1>s, RowStep DEF IInv, RowStarted
\* The three kinds of entries exclude each other.
<1>k. /\ OwnEntry(e) => Fenced(e)
      /\ InterruptEntry(e) => ~Fenced(e)
      /\ NeutralEntry(e) => ~Fenced(e)
  BY DEF OwnEntry, InterruptEntry, NeutralEntry, Fenced, OwnedKinds
<1>o. Fenced(e) => /\ e.kind # "control.interrupt" /\ e.by \in Invocations
                   /\ HasRow(e.by) /\ phase[e.by] # "new" /\ UNCHANGED row
  BY <1>k DEF Entry, OwnEntry, Fenced, OwnedKinds
<1>i. e.kind = "control.interrupt" /\ e.old # NoInvocation =>
        /\ e.old \in Invocations /\ HasRow(e.old) /\ ~HasRow(e.old)'
  BY <1>o DEF Entry, OwnEntry, InterruptEntry, NeutralEntry
<1>a. AuthorsStarted'
  BY <1>s, <1>n, <1>o, RowStep DEF IInv, AuthorsStarted, Fenced
<1>old. ASSUME NEW p \in 1..n, events[p].kind = "control.interrupt",
               events[p].old # NoInvocation
        PROVE  events[p].old \in Invocations /\ phase[events[p].old] # "new"
               /\ ~HasRow(events[p].old)
  <2>1. events[p] \in Events
    BY <1>s, <1>n, ElementOfSeq DEF n
  <2>2. QED
    BY <1>n, <1>old, <2>1 DEF IInv, Superseded, Events
<1>1. Tenure'
  <2> SUFFICES ASSUME NEW p \in DOMAIN events', NEW q \in DOMAIN events', p < q,
                      Fenced(events'[p]), Fenced(events'[q]),
                      events'[p].by # events'[q].by
               PROVE  (~HasRow(events[p].by))'
    BY DEF Tenure, Fenced
  <2>1. p \in 1..n /\ events'[p] = events[p]
    BY <1>n
  <2>2. events[p].by \in Invocations /\ phase[events[p].by] # "new"
    BY <1>n, <2>1 DEF IInv, AuthorsStarted
  <2>3. PICK a \in Invocations : a = events'[p].by /\ a = events[p].by
    BY <2>1, <2>2
  <2>4. ~HasRow(a)
    <3>1. CASE q = n + 1
      BY <1>n, <1>o, <2>3, <3>1 DEF HasRow
    <3>2. CASE q \in 1..n
      BY <1>n, <2>1, <2>3, <3>2 DEF IInv, Tenure
    <3>3. QED
      BY <1>n, <3>1, <3>2
  <2>5. ~HasRow(a)'
    BY <1>s, <2>2, <2>3, <2>4, RowStep
  <2>6. QED
    BY <2>3, <2>5 DEF HasRow
<1>2. Superseded'
  <2> SUFFICES ASSUME NEW p \in DOMAIN events',
                      events'[p].kind = "control.interrupt",
                      events'[p].old # NoInvocation
               PROVE  (phase[events[p].old] # "new" /\ ~HasRow(events[p].old))'
    BY DEF Superseded
  <2>1. CASE p = n + 1
    <3>1. PICK a \in Invocations : a = events'[p].old /\ HasRow(a) /\ ~HasRow(a)'
      BY <1>n, <1>i, <2>1
    <3>2. phase[a] # "new"
      BY <3>1 DEF IInv, RowStarted
    <3>3. QED
      BY <1>s, <3>1, <3>2, RowStep DEF HasRow
  <2>2. CASE p \in 1..n
    <3>1. PICK a \in Invocations : a = events'[p].old /\ phase[a] # "new" /\ ~HasRow(a)
      BY <1>n, <1>old, <2>2
    <3>2. QED
      BY <1>s, <3>1, RowStep DEF HasRow
  <2>3. QED
    BY <1>n, <2>1, <2>2
<1>3. ExclusiveWriter'
  <2> SUFFICES ASSUME NEW p \in DOMAIN events', NEW q \in DOMAIN events',
                      NEW s \in DOMAIN events', p < q, q < s,
                      Fenced(events'[p]), Fenced(events'[q]), Fenced(events'[s]),
                      events'[p].by = events'[s].by, events'[q].by # events'[p].by
               PROVE  FALSE
    BY DEF ExclusiveWriter, Fenced
  <2>1. p \in 1..n /\ q \in 1..n /\ events'[p] = events[p] /\ events'[q] = events[q]
    BY <1>n
  <2>2. CASE s \in 1..n
    BY <1>n, <2>1, <2>2 DEF IInv, LogInv, ExclusiveWriter
  <2>3. CASE s = n + 1
    <3>1. HasRow(events[p].by)
      BY <1>n, <1>o, <2>1, <2>3
    <3>2. ~HasRow(events[p].by)
      BY <1>n, <2>1 DEF IInv, Tenure
    <3>3. QED
      BY <3>1, <3>2
  <2>4. QED
    BY <1>n, <2>2, <2>3
<1>4. InterruptedIsSilent'
  <2> SUFFICES ASSUME NEW p \in DOMAIN events', NEW q \in DOMAIN events', p < q,
                      events'[p].kind = "control.interrupt", Fenced(events'[q]),
                      events'[q].by = events'[p].old
               PROVE  FALSE
    BY DEF InterruptedIsSilent, Fenced
  <2>1. p \in 1..n /\ events'[p] = events[p]
    BY <1>n
  <2>2. CASE q \in 1..n
    BY <1>n, <2>1, <2>2 DEF IInv, LogInv, InterruptedIsSilent
  <2>3. CASE q = n + 1
    <3>1. e.by \in Invocations /\ HasRow(e.by) /\ e.by = events[p].old
      BY <1>n, <1>o, <2>1, <2>3
    <3>2. QED
      BY <1>old, <2>1, <3>1, LeaseAssumption
  <2>4. QED
    BY <1>n, <2>2, <2>3
<1>5. SupersededOnce'
  <2>1. ASSUME NEW p \in 1..n, events[p].kind = "control.interrupt",
               e.kind = "control.interrupt", events[p].old = e.old,
               e.old # NoInvocation
        PROVE  FALSE
    BY <1>i, <1>old, <2>1
  <2>2. QED
    <3> SUFFICES ASSUME NEW p \in DOMAIN events', NEW q \in DOMAIN events',
                        events'[p].kind = "control.interrupt",
                        events'[q].kind = "control.interrupt",
                        events'[p].old = events'[q].old,
                        events'[p].old # NoInvocation, p # q
                 PROVE  FALSE
      BY DEF SupersededOnce
    <3>1. CASE p \in 1..n /\ q \in 1..n
      BY <1>n, <3>1 DEF IInv, LogInv, SupersededOnce
    <3>2. CASE p \in 1..n /\ q = n + 1
      BY <1>n, <2>1, <3>2
    <3>3. CASE q \in 1..n /\ p = n + 1
      BY <1>n, <2>1, <3>3
    <3>4. QED
      BY <1>n, <3>1, <3>2, <3>3
<1>6. QED
  BY <1>t, <1>r, <1>a, <1>1, <1>2, <1>3, <1>4, <1>5 DEF IInv, LogInv

\* The invariant always holds.
LEMMA Invariance == Spec => []IInv
<1>1. IInv /\ [Next]_vars => IInv'
  <2> SUFFICES ASSUME IInv, [Next]_vars PROVE IInv'
    OBVIOUS
  <2>1. TypeOK /\ RowStarted
    BY DEF IInv
  <2>2. QED
    BY <2>1, LogStep, QuietStep, AppendStep
<1>2. QED
  BY InvInit, <1>1, PTL DEF Spec

\* ExclusiveWriter always holds: the fenced entries of an invocation are one
\* tenure.
THEOREM WriterExclusive == Spec => []ExclusiveWriter
<1>1. IInv => ExclusiveWriter
  BY DEF IInv, LogInv
<1>2. QED
  BY <1>1, Invariance, PTL

\* InterruptedIsSilent always holds: an interruption in the log is final.
THEOREM InterruptFinal == Spec => []InterruptedIsSilent
<1>1. IInv => InterruptedIsSilent
  BY DEF IInv, LogInv
<1>2. QED
  BY <1>1, Invariance, PTL

\* SupersededOnce always holds: takeover and concurrent interrupts record the
\* loss of an invocation at most once.
THEOREM InterruptedOnce == Spec => []SupersededOnce
<1>1. IInv => SupersededOnce
  BY DEF IInv, LogInv
<1>2. QED
  BY <1>1, Invariance, PTL

-----------------------------------------------------------------------------
(* Sweeping expired rows by invoke_id. *)

SweptIsDead == \A i \in sweeping : phase[i] # "new" /\ ~Owns(i)

LEMMA SweptIsDeadStep ==
  ASSUME IInv, SweptIsDead, [Next]_vars
  PROVE  SweptIsDead'
<1>1. TypeOK /\ RowStarted
  BY DEF IInv
<1> SUFFICES ASSUME NEW i \in sweeping' PROVE (phase[i] # "new" /\ ~Owns(i))'
  BY DEF SweptIsDead
<1>2. i \in Invocations
  BY <1>1, TypeStep DEF TypeOK
<1>3. i \in sweeping \/ (SweepRead /\ i = row.invoke)
  BY DEF Next, TakeOver, OpenFresh, Heartbeat, Refused, OpenStream, Work, Close,
     AppendWithLease, FinishWork, Compact, ReportError, Release, Crash,
     InterruptCommit, SweepDelete, InterruptRead, InterruptIdle, SweepRead, Tick, vars
<1>4. phase[i] # "new" /\ ~Owns(i)
  <2>1. CASE SweepRead /\ i = row.invoke
    BY <1>1, <1>2, <2>1 DEF SweepRead, RowStarted, HasRow, Owns
  <2>2. QED
    BY <1>3, <2>1 DEF SweptIsDead
<1>5. QED
  BY <1>1, <1>2, <1>4, RowStep

\* LiveLeaseDroppedOpenly always holds: a delayed sweep of an expired row can
\* not delete a live lease.
THEOREM DroppedOpenly == Spec => LiveLeaseDroppedOpenly
<1> DEFINE A == \A i \in Invocations :
                  Owns(i) /\ row' = NoRow =>
                    \/ phase[i] = "closed" /\ phase'[i] = "ended"
                    \/ \E k \in DOMAIN events' : events'[k].kind = "control.interrupt"
                                                 /\ events'[k].old = i
<1>1. Init => SweptIsDead
  BY DEF Init, SweptIsDead
<1>2. IInv /\ SweptIsDead /\ [Next]_vars => SweptIsDead'
  BY SweptIsDeadStep
<1>3. IInv /\ SweptIsDead /\ [Next]_vars => [A]_vars
  <2> SUFFICES ASSUME IInv, SweptIsDead, [Next]_vars,
                      NEW i \in Invocations, Owns(i), row' = NoRow
               PROVE  \/ phase[i] = "closed" /\ phase'[i] = "ended"
                      \/ \E k \in DOMAIN events' :
                           events'[k].kind = "control.interrupt" /\ events'[k].old = i
    OBVIOUS
  <2>0. TypeOK /\ row \in Rows /\ NoRow \notin Rows /\ row.left > 0 /\ row.invoke = i
    BY LeaseAssumption DEF IInv, TypeOK, Owns, HasRow, Rows
  <2>1. \E j \in Invocations : Release(j) \/ InterruptCommit(j) \/ SweepDelete(j)
    <3>1. \A j \in Invocations, left \in 0..TTL : [invoke |-> j, left |-> left] # NoRow
      BY LeaseAssumption
    <3>2. \A left \in 0..TTL : [row EXCEPT !.left = left] # NoRow
      BY <2>0 DEF Rows
    <3>3. [row EXCEPT !.left = @ - 1] # NoRow
      BY <2>0, LeaseAssumption DEF Rows
    <3>4. QED
      BY <2>0, <3>1, <3>2, <3>3
      DEF Next, TakeOver, OpenFresh, Heartbeat, Refused, OpenStream, Work, Close,
          AppendWithLease, FinishWork, Compact, ReportError, Crash,
          InterruptRead, InterruptIdle, SweepRead, Tick, vars
  <2>2. PICK j \in Invocations : Release(j) \/ InterruptCommit(j) \/ SweepDelete(j)
    BY <2>1
  <2>3. CASE Release(j)
    BY <2>0, <2>3 DEF Release, Owns, HasRow, GoTo, TypeOK
  <2>4. CASE InterruptCommit(j)
    <3>1. j = i /\ events' = Append(events, Event("control.interrupt", NoInvocation, i))
      BY <2>0, <2>4 DEF InterruptCommit, HasRow
    <3>2. Event("control.interrupt", NoInvocation, i) \in Events
      BY DEF Event, Events, Kinds
    <3>3. /\ Len(events) + 1 \in DOMAIN events'
          /\ events'[Len(events) + 1] = Event("control.interrupt", NoInvocation, i)
      BY <2>0, <3>1, <3>2, AppendProperties, LenProperties DEF TypeOK
    <3>4. QED
      BY <3>3 DEF Event
  <2>5. CASE SweepDelete(j)
    <3>1. j = i
      BY <2>0, <2>5 DEF SweepDelete, HasRow
    <3>2. QED
      BY <2>5, <3>1 DEF SweepDelete, SweptIsDead
  <2>6. QED
    BY <2>2, <2>3, <2>4, <2>5
<1>4. QED
  BY <1>1, <1>2, <1>3, Invariance, PTL DEF Spec, LiveLeaseDroppedOpenly

-----------------------------------------------------------------------------
(* Every step is a step of the single-writer lock.  Its parts: what the    *)
(* log, the owner and the spent invocations of the lock do.                *)

LEMMA AbstractInit == Init => Lock!Init
<1> SUFFICES ASSUME Init PROVE Lock!Init
  OBVIOUS
<1>1. AbstractLog = <<>>
  BY DEF Init, AbstractLog
<1>2. AbstractOwner = NoInvocation
  BY DEF Init, AbstractOwner, Live
<1>3. AbstractSpent = {}
  BY DEF Init, AbstractSpent
<1>4. QED
  BY <1>1, <1>2, <1>3 DEF Lock!Init

\* A sequence with one more element, as a function.
LEMMA AppendFunction ==
  ASSUME NEW T, NEW f \in Seq(T), NEW x \in T
  PROVE  Append(f, x) = [k \in 1..(Len(f) + 1) |-> IF k <= Len(f) THEN f[k] ELSE x]
<1>1. /\ Append(f, x) \in Seq(T)
      /\ Len(Append(f, x)) = Len(f) + 1
      /\ \A k \in 1..Len(f) : Append(f, x)[k] = f[k]
      /\ Append(f, x)[Len(f) + 1] = x
  BY AppendProperties
<1>2. Append(f, x) = [k \in 1..(Len(f) + 1) |-> Append(f, x)[k]]
  BY <1>1, LenProperties
<1>3. Len(f) \in Nat
  BY LenProperties
<1>4. QED
  BY <1>1, <1>2, <1>3

\* The same for a function on 1..n, whatever its values are.
LEMMA AppendExtends ==
  ASSUME NEW n \in Nat, NEW f, f = [k \in 1..n |-> f[k]], NEW x
  PROVE  Append(f, x) = [k \in 1..(n + 1) |-> IF k <= n THEN f[k] ELSE x]
<1>1. PICK T : T = {f[k] : k \in 1..n} \cup {x}
  OBVIOUS
<1>2. f \in Seq(T) /\ Len(f) = n /\ x \in T
  BY <1>1
<1>3. QED
  BY <1>2, AppendFunction

\* Appending an entry appends its author.
LEMMA AbstractAppend ==
  ASSUME TypeOK, NEW e \in Events, events' = Append(events, e)
  PROVE  AbstractLog' = Append(AbstractLog, Author(e))
<1> DEFINE n == Len(events)
<1>1. /\ n \in Nat
      /\ DOMAIN events = 1..n
      /\ DOMAIN events' = 1..(n + 1)
      /\ \A k \in 1..n : events'[k] = events[k]
      /\ events'[n + 1] = e
  BY AppendProperties, LenProperties DEF TypeOK
<1> HIDE DEF n
<1>2. AbstractLog = [k \in 1..n |-> Author(events[k])]
  BY <1>1 DEF AbstractLog
<1>3. AbstractLog' = [k \in 1..(n + 1) |-> IF k <= n THEN Author(events[k]) ELSE Author(e)]
  BY <1>1 DEF AbstractLog, Author, Fenced
<1>4. AbstractLog = [k \in 1..n |-> AbstractLog[k]]
  BY <1>2
<1>5. Append(AbstractLog, Author(e)) =
        [k \in 1..(n + 1) |-> IF k <= n THEN AbstractLog[k] ELSE Author(e)]
  BY <1>1, <1>4, AppendExtends
<1>6. \A k \in 1..(n + 1) : k <= n => AbstractLog[k] = Author(events[k])
  BY <1>1, <1>2
<1>7. QED
  BY <1>3, <1>5, <1>6

LEMMA AbstractStep == IInv /\ [Next]_vars => [Lock!Next]_(Lock!vars)
<1> SUFFICES ASSUME IInv, [Next]_vars PROVE [Lock!Next]_(Lock!vars)
  OBVIOUS
<1>i. TypeOK /\ RowStarted /\ (row # NoRow => row \in Rows) /\ NoRow \notin Rows
      /\ phase \in [Invocations -> Phases]
  BY LeaseAssumption DEF IInv, TypeOK, Rows
<1>e. \A k \in Kinds, b \in Invocations \cup {NoInvocation},
         o \in Invocations \cup {NoInvocation} :
        Event(k, b, o) \in Events /\ Event(k, b, o).kind = k /\ Event(k, b, o).by = b
  BY DEF Event, Events
<1>k. /\ OwnedKinds \subseteq Kinds /\ "runner.error" \in OwnedKinds
      /\ {"compaction", "control.interrupt"} \subseteq Kinds \ OwnedKinds
  BY DEF Kinds, OwnedKinds
<1>log. events' = events => AbstractLog' = AbstractLog
  BY DEF AbstractLog, Author, Fenced
<1>note. ASSUME NEW k \in {"compaction", "control.interrupt"},
                NEW b \in Invocations \cup {NoInvocation},
                NEW o \in Invocations \cup {NoInvocation},
                events' = Append(events, Event(k, b, o))
         PROVE  AbstractLog' = Append(AbstractLog, NoInvocation)
  <2>1. Event(k, b, o) \in Events /\ Author(Event(k, b, o)) = NoInvocation
    BY <1>e, <1>k DEF Author, Fenced
  <2>2. QED
    BY <1>i, <1>note, <2>1, AbstractAppend
<1>write. ASSUME NEW i \in Invocations, NEW k \in OwnedKinds, Owns(i), UNCHANGED row,
                 events' = Append(events, Event(k, i, NoInvocation)),
                 AbstractSpent' = AbstractSpent
          PROVE  Lock!Write
  <2>1. Event(k, i, NoInvocation) \in Events /\ Author(Event(k, i, NoInvocation)) = i
    BY <1>e, <1>k DEF Author, Fenced
  <2>2. AbstractLog' = Append(AbstractLog, i)
    BY <1>i, <1>write, <2>1, AbstractAppend
  <2>3. AbstractOwner = i /\ AbstractOwner' = i /\ i # NoInvocation
    BY <1>write, LeaseAssumption DEF AbstractOwner, Owns, HasRow, Live
  <2>4. QED
    BY <1>write, <2>2, <2>3 DEF Lock!Write
\* The owner of a row that goes, or whose life ends, loses the lock.
<1>lose. ASSUME NEW i \in Invocations, Owns(i), phase'[i] # "new",
                \A j \in Invocations : ~Owns(j)', row' = NoRow \/ row'.left = 0,
                \A j \in Invocations : phase'[j] = "new" <=> phase[j] = "new",
                Lock!MaybeNote
         PROVE  Lock!Lose
  <2>1. AbstractOwner = i /\ AbstractOwner' = NoInvocation /\ i # NoInvocation
    BY <1>lose, LeaseAssumption DEF AbstractOwner, Owns, HasRow, Live
  <2>2. AbstractSpent' = AbstractSpent \cup {i}
    BY <1>lose, <1>i DEF AbstractSpent, Owns, HasRow
  <2>3. QED
    BY <1>lose, <2>1, <2>2 DEF Lock!Lose
\* A step that moves neither the row nor who is new leaves the lock alone.
<1>same. ASSUME UNCHANGED row, \A j \in Invocations : phase'[j] = "new" <=> phase[j] = "new"
         PROVE  AbstractOwner' = AbstractOwner /\ AbstractSpent' = AbstractSpent
  BY <1>same DEF AbstractOwner, AbstractSpent, Owns, HasRow, Live
\* A fresh invocation gets the row of a thread nobody owns.
<1>open. ASSUME NEW i \in Invocations, NEW left \in 0..TTL, phase[i] = "new",
                phase' = [phase EXCEPT ![i] = "acquired"], ~Live,
                row' = [invoke |-> i, left |-> left], Lock!MaybeNote
         PROVE  Lock!Next
  <2>0. /\ phase'[i] = "acquired"
        /\ \A j \in Invocations \ {i} : phase'[j] = phase[j]
        /\ row' # NoRow /\ row'.invoke = i /\ row'.left = left
        /\ AbstractOwner = NoInvocation /\ i \notin AbstractSpent
        /\ \A j \in Invocations : ~Owns(j)
        /\ i # NoInvocation
    BY <1>i, <1>open, LeaseAssumption
    DEF AbstractOwner, AbstractSpent, Live, Owns, HasRow
  <2>1. CASE left > 0
    <3>1. AbstractOwner' = i
      BY <2>0, <2>1 DEF AbstractOwner, Live
    <3>2. AbstractSpent' = AbstractSpent
      BY <2>0, <2>1 DEF AbstractSpent, Owns, HasRow
    <3>3. Lock!Acquire(i)
      BY <1>open, <2>0, <3>1, <3>2 DEF Lock!Acquire
    <3>4. QED
      BY <3>3 DEF Lock!Next
  <2>2. CASE left = 0
    <3>1. AbstractOwner' = NoInvocation
      BY <2>0, <2>2 DEF AbstractOwner, Live
    <3>2. AbstractSpent' = AbstractSpent \cup {i}
      BY <2>0, <2>2 DEF AbstractSpent, Owns, HasRow
    <3>3. Lock!Forgo(i)
      BY <1>open, <2>0, <3>1, <3>2 DEF Lock!Forgo
    <3>4. QED
      BY <3>3 DEF Lock!Next
  <2>3. QED
    BY <2>1, <2>2
<1>1. ASSUME NEW i \in Invocations, NEW left \in 0..TTL, TakeOver(i, left)
      PROVE  Lock!Next
  <2>1. PICK o \in Invocations : row.invoke = o
    BY <1>1, <1>i DEF TakeOver, Rows
  <2>2. Lock!MaybeNote
    BY <1>1, <2>1, <1>note DEF TakeOver, Lock!MaybeNote
  <2>3. ~Live /\ phase[i] = "new" /\ row' = [invoke |-> i, left |-> left]
        /\ phase' = [phase EXCEPT ![i] = "acquired"]
    BY <1>1 DEF TakeOver, GoTo, Live
  <2>4. QED
    BY <2>2, <2>3, <1>open
<1>2. ASSUME NEW i \in Invocations, NEW left \in 0..TTL, OpenFresh(i, left)
      PROVE  Lock!Next
  BY <1>2, <1>log, <1>open DEF OpenFresh, GoTo, Live, Lock!MaybeNote
<1>3. ASSUME NEW i \in Invocations, NEW left \in 0..TTL, Heartbeat(i, left)
      PROVE  [Lock!Next]_(Lock!vars)
  <2>0. /\ row \in Rows /\ row' \in Rows /\ row'.left = left /\ row'.invoke = i
        /\ row.invoke = i /\ row.left > 0 /\ phase' = phase
        /\ AbstractLog' = AbstractLog
    BY <1>3, <1>i, <1>log DEF Heartbeat, Owns, HasRow, Rows
  <2>1. CASE left > 0
    <3>1. AbstractOwner' = AbstractOwner
      BY <2>0, <2>1, <1>i DEF AbstractOwner, Live
    <3>2. AbstractSpent' = AbstractSpent
      BY <2>0, <2>1, <1>i DEF AbstractSpent, Owns, HasRow
    <3>3. QED
      BY <2>0, <3>1, <3>2 DEF Lock!vars
  <2>2. CASE left = 0
    <3>1. Lock!MaybeNote /\ Owns(i) /\ phase[i] # "new"
      BY <1>3, <2>0 DEF Heartbeat, Lock!MaybeNote
    <3>2. \A j \in Invocations : ~Owns(j)'
      BY <2>0, <2>2 DEF Owns, HasRow
    <3>3. QED
      BY <2>0, <2>2, <3>1, <3>2, <1>lose DEF Lock!Next
  <2>3. QED
    BY <2>1, <2>2
<1>4. ASSUME NEW i \in Invocations, Refused(i)
      PROVE  Lock!Next
  <2>1. ~HasRow(i) /\ i # NoInvocation /\ i \notin AbstractSpent
    BY <1>4, <1>i, LeaseAssumption DEF Refused, RowStarted, AbstractSpent
  <2>2. i # AbstractOwner /\ AbstractOwner' = AbstractOwner
    BY <1>4, <2>1 DEF Refused, AbstractOwner, HasRow, Live
  <2>3. AbstractSpent' = AbstractSpent \cup {i}
    BY <1>4, <1>i, <2>1 DEF Refused, AbstractSpent, Owns, HasRow, GoTo
  <2>4. Lock!Forgo(i)
    BY <1>4, <1>log, <2>1, <2>2, <2>3 DEF Refused, Lock!Forgo, Lock!MaybeNote
  <2>5. QED
    BY <2>4 DEF Lock!Next
<1>5. ASSUME NEW i \in Invocations, OpenStream(i) \/ Work(i) \/ Close(i)
      PROVE  [Lock!Next]_(Lock!vars)
  <2>1. PICK k \in OwnedKinds, p \in Phases \ {"new"} :
          phase[i] # "new" /\ AppendWithLease(i, k, p)
    BY <1>5 DEF OpenStream, Work, Close, OwnedKinds, Phases
  <2>2. UNCHANGED row /\ \A j \in Invocations : phase'[j] = "new" <=> phase[j] = "new"
    BY <2>1, <1>i DEF AppendWithLease, GoTo
  <2>3. AbstractOwner' = AbstractOwner /\ AbstractSpent' = AbstractSpent
    BY <2>2, <1>same
  <2>4. CASE Owns(i) /\ events' = Append(events, Event(k, i, NoInvocation))
    BY <2>2, <2>3, <2>4, <1>write DEF Lock!Next
  <2>5. CASE events' = events
    BY <2>3, <2>5, <1>log DEF Lock!vars
  <2>6. QED
    BY <2>1, <2>4, <2>5 DEF AppendWithLease
<1>6. ASSUME NEW i \in Invocations, FinishWork(i) \/ Crash(i)
      PROVE  UNCHANGED Lock!vars
  <2>1. UNCHANGED <<row, events>> /\ \A j \in Invocations : phase'[j] = "new" <=> phase[j] = "new"
    BY <1>6, <1>i DEF FinishWork, Crash, GoTo
  <2>2. QED
    BY <2>1, <1>log, <1>same DEF Lock!vars
<1>7. ASSUME NEW i \in Invocations, Compact(i)
      PROVE  Lock!Next
  <2>1. UNCHANGED <<row, phase>> /\ AbstractLog' = Append(AbstractLog, NoInvocation)
    BY <1>7, <1>note DEF Compact
  <2>2. Lock!Note
    BY <2>1, <1>same DEF Lock!Note
  <2>3. QED
    BY <2>2 DEF Lock!Next
<1>8. ASSUME NEW i \in Invocations, ReportError(i)
      PROVE  Lock!Next
  <2>1. AbstractSpent' = AbstractSpent
    BY <1>8, <1>same DEF ReportError
  <2>2. QED
    BY <1>8, <2>1, <1>k, <1>write DEF ReportError, Lock!Next
<1>9. ASSUME NEW i \in Invocations, Release(i)
      PROVE  [Lock!Next]_(Lock!vars)
  <2>1. /\ \A j \in Invocations : phase'[j] = "new" <=> phase[j] = "new"
        /\ phase'[i] # "new" /\ AbstractLog' = AbstractLog
    BY <1>9, <1>i, <1>log DEF Release, GoTo
  <2>2. CASE Owns(i)
    <3>1. row' = NoRow /\ \A j \in Invocations : ~Owns(j)'
      BY <1>9, <2>2 DEF Release, Owns, HasRow
    <3>2. QED
      BY <2>1, <2>2, <3>1, <1>lose DEF Lock!MaybeNote, Lock!Next
  <2>3. CASE ~Owns(i)
    BY <1>9, <2>1, <2>3, <1>same DEF Release, Lock!vars
  <2>4. QED
    BY <2>2, <2>3
<1>10. ASSUME NEW i \in Invocations, InterruptCommit(i)
       PROVE  [Lock!Next]_(Lock!vars)
  <2>1. CASE HasRow(i) /\ row' = NoRow
             /\ events' = Append(events, Event("control.interrupt", NoInvocation, i))
    <3>1. AbstractLog' = Append(AbstractLog, NoInvocation) /\ phase' = phase
      BY <1>10, <2>1, <1>note DEF InterruptCommit
    <3>2. phase[i] # "new" /\ \A j \in Invocations : ~Owns(j)'
      BY <1>i, <2>1 DEF RowStarted, Owns, HasRow
    <3>3. CASE Owns(i)
      BY <2>1, <3>1, <3>2, <3>3, <1>lose DEF Lock!MaybeNote, Lock!Next
    <3>4. CASE ~Owns(i)
      <4>1. \A j \in Invocations : ~Owns(j)
        BY <2>1, <3>4 DEF Owns, HasRow
      <4>2. AbstractOwner' = AbstractOwner /\ AbstractSpent' = AbstractSpent
        BY <2>1, <3>1, <3>2, <3>4, <4>1 DEF AbstractOwner, AbstractSpent, Live, Owns
      <4>3. Lock!Note
        BY <3>1, <4>2 DEF Lock!Note
      <4>4. QED
        BY <4>3 DEF Lock!Next
    <3>5. QED
      BY <3>3, <3>4
  <2>2. CASE UNCHANGED <<row, events>>
    BY <1>10, <2>2, <1>same, <1>log DEF InterruptCommit, Lock!vars
  <2>3. QED
    BY <1>10, <2>1, <2>2 DEF InterruptCommit
<1>11. ASSUME NEW i \in Invocations, SweepDelete(i)
       PROVE  [Lock!Next]_(Lock!vars)
  <2>1. phase' = phase /\ AbstractLog' = AbstractLog
    BY <1>11, <1>log DEF SweepDelete
  <2>2. CASE HasRow(i)
    <3>1. row' = NoRow /\ phase[i] # "new" /\ \A j \in Invocations : ~Owns(j)'
      BY <1>11, <1>i, <2>2 DEF SweepDelete, RowStarted, Owns, HasRow
    <3>2. CASE Owns(i)
      BY <2>1, <3>1, <3>2, <1>lose DEF Lock!MaybeNote, Lock!Next
    <3>3. CASE ~Owns(i)
      <4>1. \A j \in Invocations : ~Owns(j)
        BY <2>2, <3>3 DEF Owns, HasRow
      <4>2. AbstractOwner' = AbstractOwner /\ AbstractSpent' = AbstractSpent
        BY <2>1, <2>2, <3>1, <3>3, <4>1 DEF AbstractOwner, AbstractSpent, Live, Owns
      <4>3. QED
        BY <2>1, <4>2 DEF Lock!vars
    <3>4. QED
      BY <3>2, <3>3
  <2>3. CASE ~HasRow(i)
    BY <1>11, <2>1, <2>3, <1>same DEF SweepDelete, Lock!vars
  <2>4. QED
    BY <2>2, <2>3
<1>12. CASE InterruptIdle
  <2>1. UNCHANGED <<row, phase>> /\ AbstractLog' = Append(AbstractLog, NoInvocation)
    BY <1>12, <1>note DEF InterruptIdle
  <2>2. Lock!Note
    BY <2>1, <1>same DEF Lock!Note
  <2>3. QED
    BY <2>2 DEF Lock!Next
<1>13. CASE Tick
  <2>1. /\ phase' = phase /\ AbstractLog' = AbstractLog /\ row \in Rows /\ row' \in Rows
        /\ row'.invoke = row.invoke /\ row'.left = row.left - 1 /\ row.left \in 1..TTL
    <3>1. phase' = phase /\ events' = events /\ row \in Rows /\ row.left \in 1..TTL
          /\ row' = [row EXCEPT !.left = row.left - 1]
      BY <1>13, <1>i, LeaseAssumption DEF Tick, Live, Rows
    <3>2. row' \in Rows /\ row'.invoke = row.invoke /\ row'.left = row.left - 1
      BY <3>1, LeaseAssumption DEF Rows
    <3>3. QED
      BY <3>1, <3>2, <1>log
  <2>2. PICK i \in Invocations : row.invoke = i
    BY <2>1 DEF Rows
  <2>3. Owns(i) /\ phase[i] # "new"
    BY <1>i, <2>1, <2>2 DEF Owns, HasRow, RowStarted
  <2>4. CASE row'.left = 0
    <3>1. \A j \in Invocations : ~Owns(j)'
      BY <2>4 DEF Owns, HasRow
    <3>2. QED
      BY <2>1, <2>3, <2>4, <3>1, <1>lose DEF Lock!MaybeNote, Lock!Next
  <2>5. CASE row'.left # 0
    <3>1. AbstractOwner' = AbstractOwner
      BY <1>i, <2>1, <2>5 DEF AbstractOwner, Live
    <3>2. AbstractSpent' = AbstractSpent
      BY <1>i, <2>1, <2>5 DEF AbstractSpent, Owns, HasRow
    <3>3. QED
      BY <2>1, <3>1, <3>2 DEF Lock!vars
  <2>6. QED
    BY <2>4, <2>5
<1>14. CASE InterruptRead \/ SweepRead \/ UNCHANGED vars
  BY <1>14, <1>log, <1>same DEF InterruptRead, SweepRead, vars, Lock!vars
<1>15. QED
  BY <1>1, <1>2, <1>3, <1>4, <1>5, <1>6, <1>7, <1>8, <1>9, <1>10, <1>11,
     <1>12, <1>13, <1>14 DEF Next

\* ImplementsSingleWriter: the lease protocol is a single-writer lock on the
\* log, for any number of invocations and any TTL.
THEOREM LeaseImplementsSingleWriter == Spec => ImplementsSingleWriter
BY AbstractInit, AbstractStep, Invariance, PTL DEF Spec, ImplementsSingleWriter, Lock!Spec

=============================================================================
