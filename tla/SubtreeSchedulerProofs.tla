----------------------- MODULE SubtreeSchedulerProofs -----------------------
(***************************************************************************)
(* What the scheduler guarantees for any number of threads, of slots and   *)
(* of attempts, whatever users, other processes and faults do meanwhile.   *)
(*                                                                         *)
(* The loop works from what it read: event numbers first, leases then, the *)
(* work of a thread last, each at a time of its own.  What is read later   *)
(* is as new or newer, every change of a thread's work is an event with a  *)
(* higher number, and a lease that comes and goes without an event is      *)
(* there to be read before it goes, if leases outlast a turn of the loop.  *)
(* So the watermark of a thread is never ahead of the work it stands for.  *)
(***************************************************************************)
EXTENDS SubtreeScheduler, FiniteSetTheorems, TLAPS

-----------------------------------------------------------------------------
(* The inductive invariant. *)

(* The conjuncts of TypeOK that a step touches together. *)

DbTyped ==
  /\ work \in [Threads -> Work]
  /\ call \in [Threads -> Nat] /\ seq \in [Threads -> Nat]
  /\ lease \in [Threads -> {"free", "ours", "taken", "other", "dead"}]

LoopTyped ==
  /\ pc \in {"seqs", "leases", "account", "scan", "start"}
  /\ leased \subseteq Threads /\ todo \subseteq Threads
  /\ seqs \in [Threads -> Nat \union {-1}]
  /\ cands \subseteq [thread : Threads, class : {"llm", "tool"}, key : Keys \union {NoKey}]
  /\ running_llm \in Nat /\ slots \in Int /\ toolSlots \in Int
  /\ sticky \in BOOLEAN

Parking == [key : Keys \union {NoKey}, seq : Nat \union {-1}, when : {"now", "later", "never"}]

MemoryTyped ==
  /\ checked \in [Threads -> Nat \union {-1}]
  /\ sawLease \subseteq Threads /\ reserved \subseteq Threads
  /\ parked \in [Threads -> Parking]
  /\ idle \in [Threads -> {"no", "timing", "elapsed"}]

RunnersTyped ==
  /\ running \in [Threads -> {"no", "llm", "tool"}]
  /\ drive \in [Threads -> Keys \union {NoKey}]
  /\ at \in [Threads -> {"idle", "created"} \union Work]

StoreTyped ==
  /\ DOMAIN store \subseteq Keys
  /\ \A k \in DOMAIN store : store[k] \in [attempts : 1..MaxAttempts, wait : BOOLEAN]

BoundsTyped == events \in [Threads -> Nat] /\ faults \in [Threads -> Nat]

Typed == DbTyped /\ LoopTyped /\ MemoryTyped /\ RunnersTyped /\ StoreTyped /\ BoundsTyped

\* The store counts failures of calls that were made, and a runner that tries
\* again has an attempt left.
AttemptsLeft ==
  /\ \A k \in DOMAIN store : k[2] <= call[k[1]]
  /\ \A t \in Threads : at[t] = "output" /\ <<t, call[t]>> \in DOMAIN store =>
       store[<<t, call[t]>>].attempts < MaxAttempts

\* Candidates are threads that nobody runs, each once.
CandidatesSound ==
  /\ pc \notin {"scan", "start"} => cands = {}
  /\ \A c \in cands : /\ running[c.thread] = "no" /\ c.thread \notin todo
                      /\ checked[c.thread] < seq[c.thread]
  /\ \A c, d \in cands : c.thread = d.thread => c = d
  /\ \A t \in Threads : at[t] # "idle" <=> running[t] # "no"

InClass(class) == {t \in Threads : running[t] = class}

\* The slots counted at the beginning of a turn are there while it lasts.
SlotsCounted ==
  pc \in {"scan", "start"} =>
    /\ slots + Cardinality(InClass("llm")) <= MaxLlm
    /\ toolSlots + Cardinality(InClass("tool")) <= MaxTool

\* The event number of the thread was read in this turn and is still to be used.
Fresh(t) == pc \in {"leases", "account"} \/ (pc = "scan" /\ t \in todo)

\* Nothing read is ahead of the log.
ReadSound ==
  \A t \in Threads :
    /\ seqs[t] <= seq[t] /\ checked[t] <= seq[t] /\ parked[t].seq <= seq[t]
    /\ Fresh(t) => seqs[t] >= 0 /\ checked[t] <= seqs[t]

\* The log of a thread that runs is ahead of its watermark; a thread whose
\* watermark is up to date is parked, or its lease is noted, or it has nothing to
\* do, or nothing that a lease shows which is still to be read.
NothingHidden ==
  \A t \in Threads :
    /\ running[t] # "no" => checked[t] < seq[t]
    /\ LeaseOutlastsTurn /\ checked[t] = seq[t] /\ running[t] = "no" =>
         \/ parked[t] # NotParked \/ LeaseNoted(t)
         \/ ~Actionable(t) /\ (lease[t] = "free" \/ t \notin leased)

IInv == /\ Typed /\ AttemptsLeft /\ CandidatesSound /\ WithinSlots /\ SlotsCounted
        /\ ReadSound /\ NothingHidden /\ ParkedForCause

-----------------------------------------------------------------------------
(* The operators the model is built from. *)

Entry == [attempts : 1..MaxAttempts, wait : BOOLEAN]

Entries(st) == \A k \in DOMAIN st : st[k] \in Entry

\* What the verdicts of the retry store say of a key.
LEMMA DispositionSays ==
  ASSUME NEW st, Entries(st), NEW k
  PROVE  /\ Disposition(st, k) = "exhausted" => k \notin DOMAIN st \/ st[k].attempts >= MaxAttempts
         /\ Disposition(st, k) = "allowed" /\ k \in DOMAIN st => st[k].attempts < MaxAttempts
         /\ DOMAIN st = {} => Disposition(st, k) = "allowed"
<1>1. k \in DOMAIN st => st[k].attempts \in Nat
  BY SchedulerAssumption DEF Entries, Entry
<1>2. CASE k \in DOMAIN st
  BY <1>1, <1>2, SchedulerAssumption DEF Disposition
<1>3. CASE k \notin DOMAIN st
  <2>1. DOMAIN st = {} => ~Saturated(st)
    BY FS_EmptySet, SchedulerAssumption DEF Saturated
  <2>2. Disposition(st, k) = IF Saturated(st) THEN "exhausted" ELSE "allowed"
    BY <1>3 DEF Disposition
  <2> QED
    BY <1>3, <2>1, <2>2
<1> QED
  BY <1>2, <1>3

LEMMA RecordFailureMakes ==
  ASSUME NEW st, Entries(st), NEW k, k \in DOMAIN st => st[k].attempts < MaxAttempts
  PROVE  LET s == RecordFailure(st, k)
         IN  /\ DOMAIN st \subseteq DOMAIN s /\ DOMAIN s \subseteq DOMAIN st \union {k}
             /\ \A x \in DOMAIN st : x # k => s[x] = st[x]
             /\ Entries(s)
<1> DEFINE s == RecordFailure(st, k)
           n == IF k \in DOMAIN st THEN st[k].attempts + 1 ELSE 1
<1>1. s = IF k \notin DOMAIN st /\ Saturated(st) THEN st
          ELSE [x \in DOMAIN st \union {k} |-> IF x # k THEN st[x]
                                               ELSE [attempts |-> n, wait |-> TRUE]]
  BY DEF RecordFailure
<1>2. n \in 1..MaxAttempts
  <2>1. k \in DOMAIN st => st[k].attempts \in 1..MaxAttempts
    BY DEF Entries, Entry
  <2> QED
    BY <2>1, SchedulerAssumption
<1> HIDE DEF n, s
<1>3. [attempts |-> n, wait |-> TRUE] \in Entry
  BY <1>2 DEF Entry
<1>4. /\ DOMAIN st \subseteq DOMAIN s /\ DOMAIN s \subseteq DOMAIN st \union {k}
      /\ \A x \in DOMAIN st : x # k => s[x] = st[x]
  BY <1>1
<1>5. Entries(s)
  BY <1>1, <1>3 DEF Entries
<1> QED
  BY <1>4, <1>5 DEF s

LEMMA WithoutMakes ==
  ASSUME NEW st, Entries(st), NEW keys
  PROVE  LET s == Without(st, keys)
         IN  /\ DOMAIN s \subseteq DOMAIN st
             /\ \A x \in DOMAIN s : s[x] = st[x]
             /\ Entries(s)
BY DEF Without, Entries

\* A parked thread does not look like one that is not.
LEMMA ParkMakes ==
  ASSUME NEW t, NEW k \in Keys \union {NoKey}, NEW n \in Nat \union {-1}, NEW st, Entries(st)
  PROVE  LET p == Park(t, k, n, st)
         IN  /\ p \in Parking /\ p # NotParked
             /\ p.key = k /\ p.seq = n
             /\ p.when = "never" => k \notin DOMAIN st \/ st[k].attempts >= MaxAttempts
<1>1. Park(t, k, n, st) = [key |-> k, seq |-> n,
                           when |-> IF Disposition(st, k) = "exhausted" THEN "never" ELSE "later"]
  BY DEF Park
<1>2. Disposition(st, k) = "exhausted" => k \notin DOMAIN st \/ st[k].attempts >= MaxAttempts
  BY DispositionSays
<1> QED
  BY <1>1, <1>2 DEF Parking, NotParked

LEMMA KeysOf ==
  ASSUME DbTyped, NEW t \in Threads
  PROVE  /\ RecoveryKey(t) \in Keys \union {NoKey}
         /\ RecoveryKey(t) # NoKey => work[t] = "output" /\ RecoveryKey(t) = <<t, call[t]>>
         /\ work[t] = "output" => RecoveryKey(t) = <<t, call[t]>> /\ RecoveryKey(t) # NoKey
<1>1. <<t, call[t]>> \in Threads \X Nat
  BY DEF DbTyped
<1> QED
  BY <1>1, SchedulerAssumption DEF RecoveryKey, Keys

LEMMA TypeOKParts == TypeOK <=> Typed
BY DEF TypeOK, Typed, DbTyped, LoopTyped, MemoryTyped, RunnersTyped, StoreTyped, BoundsTyped,
       Parking

\* What the end of a runner leaves behind, where the log and the store are new.
LEMMA DriveEndsMakes ==
  ASSUME Typed, DbTyped', Entries(store'), NEW t \in Threads, DriveEnds(t)
  PROVE  /\ running' = [running EXCEPT ![t] = "no"] /\ drive' = [drive EXCEPT ![t] = NoKey]
         /\ at' = [at EXCEPT ![t] = "idle"]
         /\ checked' = checked \/ checked' = [checked EXCEPT ![t] = -1]
         /\ reserved' \subseteq reserved \union {t}
         /\ UNCHANGED <<sawLease, idle>>
         /\ \/ parked' = parked
            \/ parked' = [parked EXCEPT ![t] = NotParked]
            \/ /\ work'[t] = "output" /\ drive[t] = <<t, call'[t]>>
               /\ parked' = [parked EXCEPT ![t] = Park(t, drive[t], seq'[t], store')]
<1> DEFINE k == drive[t]
           remaining == IF k # NoKey /\ work'[t] = "output" /\ <<t, call'[t]>> = k
                        THEN k ELSE NoKey
           raises == k = NoKey /\ DOMAIN store' # {}
<1>1. /\ running' = [running EXCEPT ![t] = "no"] /\ drive' = [drive EXCEPT ![t] = NoKey]
      /\ at' = [at EXCEPT ![t] = "idle"] /\ UNCHANGED <<sawLease, idle>>
  BY DEF DriveEnds
<1>2. checked' = checked \/ checked' = [checked EXCEPT ![t] = -1]
  BY DEF DriveEnds
<1>3. reserved' \subseteq reserved \union {t}
  <2>1. raises \/ ~raises
    OBVIOUS
  <2>2. raises => reserved' = reserved
    BY DEF DriveEnds
  <2>3. ~raises => reserved' = IF sticky /\ running[t] = "llm" THEN reserved \union {t} ELSE reserved
    BY DEF DriveEnds
  <2> QED
    BY <2>1, <2>2, <2>3
<1>4. \/ parked' = parked
      \/ parked' = [parked EXCEPT ![t] = NotParked]
      \/ /\ ~raises /\ remaining = k /\ Disposition(store', k) # "allowed"
         /\ parked' = [parked EXCEPT ![t] = Park(t, k, seq'[t], store')]
  BY DEF DriveEnds
<1>5. ~raises /\ remaining = k /\ Disposition(store', k) # "allowed" =>
        work'[t] = "output" /\ k = <<t, call'[t]>>
  <2>1. DOMAIN store' = {} => Disposition(store', k) = "allowed"
    BY DispositionSays
  <2> QED
    BY <2>1
<1> QED
  BY <1>1, <1>2, <1>3, <1>4, <1>5

-----------------------------------------------------------------------------
(* What the steps have in common. *)

RowSame(u) ==
  work'[u] = work[u] /\ call'[u] = call[u] /\ seq'[u] = seq[u] /\ lease'[u] = lease[u]

\* The steps of others than the loop change the row of one thread.  A change of
\* its work is an event.
Moved(t) ==
  /\ \A u \in Threads \ {t} : RowSame(u)
  /\ \/ seq'[t] = seq[t] + 1
     \/ RowSame(t)
     \/ /\ work'[t] = work[t] /\ call'[t] = call[t] /\ seq'[t] = seq[t]
        /\ \/ lease[t] \in {"taken", "other"} /\ lease'[t] = "dead"
           \/ lease[t] = "free" /\ Actionable(t) /\ lease'[t] = "taken"
           \/ lease[t] = "ours" /\ at[t] # "idle" /\ lease'[t] = "free"
           \/ lease[t] = "dead" /\ (LeaseOutlastsTurn => t \in leased) /\ lease'[t] = "free"

LEMMA OutsideMoves ==
  ASSUME Typed, NEW t \in Threads, Environment(t) \/ LeaseExpires(t)
  PROVE  /\ Moved(t) /\ DbTyped' /\ BoundsTyped' /\ UNCHANGED call
         /\ UNCHANGED <<loop, sticky, memory, runners, store>>
<1> USE DEF Typed, DbTyped, BoundsTyped, Moved, RowSame, Append
<1>1. CASE UserSends(t)
  BY <1>1 DEF UserSends, Work
<1>2. CASE UserDecides(t)
  BY <1>2 DEF UserDecides, Work
<1>3. CASE OtherTakes(t)
  BY <1>3 DEF OtherTakes
<1>8. CASE OtherOpens(t)
  BY <1>8 DEF OtherOpens, Work
<1>4. CASE OtherEnds(t)
  BY <1>4 DEF OtherEnds, Work
<1>5. CASE OtherDies(t)
  BY <1>5 DEF OtherDies
<1>6. CASE LoseLease(t)
  BY <1>6 DEF LoseLease, Work
<1>7. CASE LeaseExpires(t)
  BY <1>7 DEF LeaseExpires
<1> QED
  BY <1>1, <1>2, <1>3, <1>4, <1>5, <1>6, <1>7, <1>8 DEF Environment

\* The steps that end a runner.
Ends(t) == RunNothing(t) \/ EndTurn(t) \/ Publish(t) \/ FailToPublish(t) \/ RunLost(t)

LEMMA EndsMove ==
  ASSUME Typed, AttemptsLeft, NEW t \in Threads, Ends(t)
  PROVE  /\ Moved(t) /\ DbTyped' /\ BoundsTyped'
         /\ seq'[t] = seq[t] + 1 \/ RowSame(t)
         /\ call'[t] >= call[t]
         /\ at[t] # "idle" /\ DriveEnds(t) /\ UNCHANGED <<loop, sticky>>
<1> USE DEF Typed, DbTyped, BoundsTyped, Moved, RowSame, Append
<1>1. CASE RunNothing(t)
  BY <1>1 DEF RunNothing, durable
<1>2. CASE EndTurn(t)
  BY <1>2 DEF EndTurn, Work
<1>3. CASE Publish(t)
  BY <1>3 DEF Publish, Work
<1>4. CASE FailToPublish(t)
  BY <1>4 DEF FailToPublish, Work
<1>5. CASE RunLost(t)
  BY <1>5 DEF RunLost, durable, Work
<1> QED
  BY <1>1, <1>2, <1>3, <1>4, <1>5 DEF Ends

\* What they do to the retry store concerns their own call.
LEMMA EndsStore ==
  ASSUME Typed, AttemptsLeft, NEW t \in Threads, Ends(t)
  PROVE  /\ StoreTyped' /\ Entries(store')
         /\ \A k \in DOMAIN store' :
              \/ k \in DOMAIN store /\ store'[k] = store[k]
              \/ k = <<t, call'[t]>>
<1>e. Entries(store)
  BY DEF Typed, StoreTyped, Entries, Entry
<1>m. DbTyped' /\ DbTyped
  BY EndsMove DEF Typed
<1>k. <<t, call'[t]>> \in Keys
  BY <1>m DEF DbTyped, Keys
<1>1. CASE store' = store
  BY <1>1, <1>e DEF Typed, StoreTyped
<1>2. CASE Publish(t)
  <2>1. store' = store \/ store' = Without(store, {RecoveryKey(t)})
    BY <1>2 DEF Publish
  <2>2. CASE store' = Without(store, {RecoveryKey(t)})
    BY <1>e, <2>2, WithoutMakes DEF Typed, StoreTyped, Entries, Entry
  <2> QED
    BY <1>1, <2>1, <2>2
<1>3. CASE FailToPublish(t)
  <2> DEFINE k == <<t, call'[t]>>
  <2>1. store' = RecordFailure(store, k)
    BY <1>3 DEF FailToPublish
  <2>2. k \in DOMAIN store => store[k].attempts < MaxAttempts
    <3>1. CASE at[t] = "output"
      <4>1. call'[t] = call[t]
        BY <1>3, <3>1 DEF FailToPublish
      <4> QED
        BY <3>1, <4>1 DEF AttemptsLeft
    <3>2. CASE at[t] # "output"
      <4>1. call'[t] = call[t] + 1 /\ call[t] \in Nat
        BY <1>3, <1>m, <3>2 DEF FailToPublish, DbTyped
      <4>2. k \in DOMAIN store => k[2] <= call[k[1]]
        BY DEF AttemptsLeft
      <4>3. k[1] = t /\ k[2] = call'[t]
        OBVIOUS
      <4> QED
        BY <4>1, <4>2, <4>3
    <3> QED
      BY <3>1, <3>2
  <2> HIDE DEF k
  <2>3. /\ DOMAIN store \subseteq DOMAIN store' /\ DOMAIN store' \subseteq DOMAIN store \union {k}
        /\ \A x \in DOMAIN store : x # k => store'[x] = store[x]
        /\ Entries(store')
    BY <1>e, <2>1, <2>2, RecordFailureMakes
  <2>4. StoreTyped'
    BY <1>k, <2>3 DEF Typed, StoreTyped, Entries, Entry, k
  <2>5. \A x \in DOMAIN store' : (x \in DOMAIN store /\ store'[x] = store[x]) \/ x = k
    BY <2>3
  <2> QED
    BY <2>3, <2>4, <2>5 DEF k
<1> QED
  BY <1>1, <1>2, <1>3 DEF Ends, RunNothing, EndTurn, RunLost

LEMMA EndsTyped ==
  ASSUME Typed, AttemptsLeft, NEW t \in Threads, Ends(t)
  PROVE  Typed'
<1>1. /\ DbTyped' /\ BoundsTyped' /\ DriveEnds(t) /\ UNCHANGED <<loop, sticky>>
      /\ StoreTyped' /\ Entries(store')
  BY EndsMove, EndsStore
<1>2. LoopTyped'
  BY <1>1 DEF Typed, LoopTyped, loop
<1>3. RunnersTyped'
  BY <1>1, DriveEndsMakes DEF Typed, RunnersTyped
<1>4. MemoryTyped'
  <2>1. /\ drive[t] \in Keys \union {NoKey} /\ seq'[t] \in Nat
    BY <1>1 DEF Typed, RunnersTyped, DbTyped
  <2>2. Park(t, drive[t], seq'[t], store') \in Parking /\ NotParked \in Parking
    BY <1>1, <2>1, ParkMakes DEF Parking, NotParked
  <2>3. parked' \in [Threads -> Parking]
    BY <1>1, <2>2, DriveEndsMakes DEF Typed, MemoryTyped
  <2>4. checked' \in [Threads -> Nat \union {-1}]
    BY <1>1, DriveEndsMakes DEF Typed, MemoryTyped
  <2>5. /\ sawLease' \subseteq Threads /\ reserved' \subseteq Threads
        /\ idle' \in [Threads -> {"no", "timing", "elapsed"}]
    BY <1>1, DriveEndsMakes DEF Typed, MemoryTyped
  <2> QED
    BY <2>3, <2>4, <2>5 DEF MemoryTyped
<1> QED
  BY <1>1, <1>2, <1>3, <1>4 DEF Typed

LEMMA BeginMoves ==
  ASSUME Typed, NEW t \in Threads, Begin(t)
  PROVE  /\ Typed' /\ Moved(t) /\ seq'[t] = seq[t] + 1
         /\ at[t] = "created" /\ at' = [at EXCEPT ![t] = work[t]]
         /\ UNCHANGED <<call, loop, sticky, memory, running, drive, store>>
<1>1. DbTyped' /\ Moved(t) /\ seq'[t] = seq[t] + 1
  BY DEF Begin, Typed, DbTyped, Moved, RowSame, Append, Work
<1>2. LoopTyped' /\ MemoryTyped' /\ StoreTyped' /\ BoundsTyped'
  BY DEF Begin, Typed, LoopTyped, MemoryTyped, StoreTyped, BoundsTyped, loop, memory
<1>3. RunnersTyped'
  BY DEF Begin, Typed, RunnersTyped, DbTyped
<1> QED
  BY <1>1, <1>2, <1>3 DEF Begin, Typed

LEMMA TimeTyped ==
  ASSUME Typed, (\E t \in Threads : IdleElapses(t)) \/ (\E k \in DOMAIN store : BackoffEnds(k))
  PROVE  Typed'
<1>1. ASSUME NEW t \in Threads, IdleElapses(t) PROVE Typed'
  <2>1. DbTyped' /\ LoopTyped' /\ RunnersTyped' /\ StoreTyped' /\ BoundsTyped'
    BY <1>1 DEF IdleElapses, durable, loop, runners, Typed, DbTyped, LoopTyped, RunnersTyped,
                StoreTyped, BoundsTyped
  <2>2. MemoryTyped'
    BY <1>1 DEF IdleElapses, Typed, MemoryTyped
  <2> QED
    BY <2>1, <2>2 DEF Typed
<1>2. ASSUME NEW k \in DOMAIN store, BackoffEnds(k) PROVE Typed'
  <2>1. DbTyped' /\ LoopTyped' /\ RunnersTyped' /\ MemoryTyped' /\ BoundsTyped'
    BY <1>2 DEF BackoffEnds, durable, loop, runners, memory, Typed, DbTyped, LoopTyped,
                RunnersTyped, MemoryTyped, BoundsTyped
  <2>2. StoreTyped'
    <3>1. store' = [store EXCEPT ![k].wait = FALSE]
      BY <1>2 DEF BackoffEnds
    <3>2. [store[k] EXCEPT !.wait = FALSE] \in [attempts : 1..MaxAttempts, wait : BOOLEAN]
      BY DEF Typed, StoreTyped
    <3> QED
      BY <3>1, <3>2 DEF Typed, StoreTyped
  <2> QED
    BY <2>1, <2>2 DEF Typed
<1> QED
  BY <1>1, <1>2

LEMMA InClassFinite ==
  ASSUME NEW class
  PROVE  IsFiniteSet(InClass(class)) /\ Cardinality(InClass(class)) \in Nat
<1>1. InClass(class) \in SUBSET Threads
  BY DEF InClass
<1> QED
  BY <1>1, FS_Subset, FS_CardinalityType, SchedulerAssumption

\* The turn begins.
LEMMA AccountMakes ==
  ASSUME Typed, Account
  PROVE  /\ Typed' /\ pc = "account" /\ pc' = "scan" /\ todo' = Threads /\ cands' = {}
         /\ \A t \in Threads : \/ checked'[t] = -1
                               \/ checked'[t] = checked[t] /\ (t \in sawLease => t \in sawLease')
         /\ slots' + Cardinality(InClass("llm")) <= MaxLlm
         /\ toolSlots' + Cardinality(InClass("tool")) <= MaxTool
         /\ UNCHANGED <<durable, seqs, leased, sticky, parked, runners, store, events, faults>>
<1> DEFINE ended == sawLease \ leased
           llm == Cardinality(InClass("llm"))
           tool == Cardinality(InClass("tool"))
<1>1. llm \in Nat /\ tool \in Nat
  BY InClassFinite
<1>2. /\ pc = "account" /\ pc' = "scan" /\ todo' = Threads /\ cands' = {}
      /\ sawLease' = sawLease \ ended
      /\ checked' = [t \in Threads |-> IF t \in ended THEN -1 ELSE checked[t]]
      /\ running_llm' = llm /\ toolSlots' = MaxTool - tool
      /\ UNCHANGED <<durable, seqs, leased, sticky, parked, runners, store, events, faults>>
  BY DEF Account, InClass
<1>3. \E kept \in SUBSET Threads :
        /\ reserved' = kept
        /\ slots' = MaxLlm - llm - (IF sticky THEN Cardinality({t \in kept : running[t] = "no"}) ELSE 0)
  BY DEF Account, InClass, Typed, MemoryTyped
<1>4. PICK kept \in SUBSET Threads :
        /\ reserved' = kept
        /\ slots' = MaxLlm - llm - (IF sticky THEN Cardinality({t \in kept : running[t] = "no"}) ELSE 0)
  BY <1>3
<1> DEFINE held == IF sticky THEN Cardinality({t \in kept : running[t] = "no"}) ELSE 0
<1>5. held \in Nat
  <2>1. {t \in kept : running[t] = "no"} \in SUBSET Threads
    OBVIOUS
  <2> QED
    BY <2>1, FS_Subset, FS_CardinalityType, SchedulerAssumption
<1>6. slots' = MaxLlm - llm - held
  BY <1>4
<1> HIDE DEF llm, tool, held
<1>7. /\ slots' + llm <= MaxLlm /\ toolSlots' + tool <= MaxTool
      /\ slots' \in Int /\ toolSlots' \in Int
  BY <1>1, <1>2, <1>5, <1>6, SchedulerAssumption
<1>8. \A t \in Threads : \/ checked'[t] = -1
                         \/ checked'[t] = checked[t] /\ (t \in sawLease => t \in sawLease')
  BY <1>2
<1>9. idle' \in [Threads -> {"no", "timing", "elapsed"}]
  BY DEF Account, Typed, MemoryTyped
<1>10. Typed'
  <2>1. DbTyped' /\ RunnersTyped' /\ StoreTyped' /\ BoundsTyped'
    BY <1>2 DEF durable, runners, Typed, DbTyped, RunnersTyped, StoreTyped, BoundsTyped
  <2>2. LoopTyped'
    BY <1>1, <1>2, <1>7 DEF Typed, LoopTyped
  <2>3. MemoryTyped'
    BY <1>2, <1>4, <1>9 DEF Typed, MemoryTyped
  <2> QED
    BY <2>1, <2>2, <2>3 DEF Typed
<1> QED
  BY <1>2, <1>7, <1>8, <1>10 DEF llm, tool

\* The first pass looks at one thread: what it makes of it.
LEMMA ScanMakes ==
  ASSUME Typed, NEW t \in Threads, Scan(t)
  PROVE  /\ pc = "scan" /\ t \in todo /\ todo' = todo \ {t} /\ pc' \in {"scan", "start"}
         /\ pc' = "start" => todo' = {}
         /\ seqs' = [seqs EXCEPT ![t] = -1]
         /\ \A u \in Threads \ {t} : checked'[u] = checked[u] /\ parked'[u] = parked[u]
         /\ sawLease \subseteq sawLease' /\ sawLease' \subseteq Threads
         /\ UNCHANGED <<durable, leased, running_llm, slots, toolSlots, sticky, reserved, idle,
                        runners, store, events, faults>>
         /\ \/ /\ running[t] # "no" /\ UNCHANGED <<cands, memory>>
            \/ /\ running[t] = "no" /\ cands' = cands /\ checked'[t] = seqs[t]
               /\ \/ parked'[t] = parked[t] /\ parked[t] # NotParked
                  \/ /\ parked[t].seq = seqs[t] /\ parked[t] # NotParked
                     /\ parked'[t] = Park(t, parked[t].key, seqs[t], store)
                  \/ parked'[t] = NotParked /\ t \in sawLease'
                  \/ /\ parked'[t] = NotParked /\ t \notin leased /\ ~Actionable(t)
                  \/ /\ RecoveryKey(t) # NoKey /\ parked'[t] = Park(t, RecoveryKey(t), seqs[t], store)
            \/ /\ running[t] = "no" /\ cands' = cands /\ parked'[t] = NotParked /\ t \notin leased
               /\ checked'[t] = Watermark(t) /\ Watermark(t) = seqs[t]
            \/ /\ running[t] = "no" /\ Watermark(t) # seqs[t]
               /\ parked'[t] = NotParked /\ checked'[t] = Watermark(t)
               /\ cands' = cands \union {[thread |-> t, class |-> ResourceClass(t),
                                          key |-> RecoveryKey(t)]}
<1>1. /\ pc = "scan" /\ t \in todo /\ todo' = todo \ {t} /\ pc' \in {"scan", "start"}
      /\ pc' = "start" => todo' = {}
      /\ seqs' = [seqs EXCEPT ![t] = -1]
      /\ UNCHANGED <<durable, leased, running_llm, slots, toolSlots, sticky,
                     runners, store, events, faults>>
  BY DEF Scan, SkipRunning, StayParked, SkipLeased, SkipUnchanged, Look, Scanned, IsFirst
<1>2. /\ checked \in [Threads -> Nat \union {-1}] /\ parked \in [Threads -> Parking]
      /\ sawLease \subseteq Threads
  BY DEF Typed, MemoryTyped
<1>3. CASE SkipRunning(t)
  BY <1>1, <1>2, <1>3 DEF SkipRunning, memory
<1>4. CASE StayParked(t)
  <2>1. parked[t] # NotParked /\ parked[t].seq = seqs[t]
    BY <1>4 DEF StayParked, Awake
  <2> QED
    BY <1>1, <1>2, <1>4, <2>1 DEF StayParked
<1>5. CASE SkipLeased(t)
  BY <1>1, <1>2, <1>5 DEF SkipLeased
<1>6. CASE SkipUnchanged(t)
  BY <1>1, <1>2, <1>6 DEF SkipUnchanged
<1>7. CASE Look(t)
  BY <1>1, <1>2, <1>7 DEF Look
<1> QED
  BY <1>3, <1>4, <1>5, <1>6, <1>7 DEF Scan

LEMMA ScanTyped ==
  ASSUME Typed, NEW t \in Threads, Scan(t)
  PROVE  Typed'
<1>1. /\ pc' \in {"scan", "start"} /\ todo' = todo \ {t} /\ seqs' = [seqs EXCEPT ![t] = -1]
      /\ sawLease' \subseteq Threads
      /\ UNCHANGED <<durable, leased, running_llm, slots, toolSlots, sticky, reserved, idle,
                     runners, store, events, faults>>
  BY ScanMakes
<1>2. DbTyped' /\ RunnersTyped' /\ StoreTyped' /\ BoundsTyped'
  BY <1>1 DEF durable, runners, Typed, DbTyped, RunnersTyped, StoreTyped, BoundsTyped
<1>3. LoopTyped'
  <2>1. [thread |-> t, class |-> ResourceClass(t), key |-> RecoveryKey(t)]
          \in [thread : Threads, class : {"llm", "tool"}, key : Keys \union {NoKey}]
    BY KeysOf DEF Typed, ResourceClass
  <2>2. \/ cands' = cands
        \/ cands' = cands \union {[thread |-> t, class |-> ResourceClass(t),
                                   key |-> RecoveryKey(t)]}
    BY ScanMakes DEF memory
  <2>3. cands' \subseteq [thread : Threads, class : {"llm", "tool"}, key : Keys \union {NoKey}]
    BY <2>1, <2>2 DEF Typed, LoopTyped
  <2> QED
    BY <1>1, <2>3 DEF Typed, LoopTyped
<1>4. MemoryTyped'
  <2>1. seqs[t] \in Nat \union {-1} /\ Watermark(t) \in Nat \union {-1}
        /\ parked[t].key \in Keys \union {NoKey} /\ RecoveryKey(t) \in Keys \union {NoKey}
    BY KeysOf DEF Typed, LoopTyped, MemoryTyped, Watermark, Parking
  <2>2. Entries(store)
    BY DEF Typed, StoreTyped, Entries, Entry
  <2>3. /\ Park(t, parked[t].key, seqs[t], store) \in Parking
        /\ Park(t, RecoveryKey(t), seqs[t], store) \in Parking
        /\ NotParked \in Parking
    BY <2>1, <2>2, ParkMakes DEF Parking, NotParked
  <2>4. parked'[t] \in Parking /\ checked'[t] \in Nat \union {-1}
    <3>1. parked[t] \in Parking /\ checked[t] \in Nat \union {-1}
      BY DEF Typed, MemoryTyped
    <3> QED
      BY <2>1, <2>3, <3>1, ScanMakes DEF memory
  <2>5. /\ checked' = [checked EXCEPT ![t] = checked'[t]]
        /\ parked' = [parked EXCEPT ![t] = parked'[t]]
    <3>1. checked \in [Threads -> Nat \union {-1}] /\ parked \in [Threads -> Parking]
      BY DEF Typed, MemoryTyped
    <3> QED
      BY <3>1 DEF Scan, SkipRunning, StayParked, SkipLeased, SkipUnchanged, Look, memory
  <2>6. checked' \in [Threads -> Nat \union {-1}] /\ parked' \in [Threads -> Parking]
    BY <2>4, <2>5 DEF Typed, MemoryTyped
  <2> QED
    BY <1>1, <2>6 DEF Typed, MemoryTyped
<1> QED
  BY <1>2, <1>3, <1>4 DEF Typed

\* The second pass starts a candidate, or leaves it for another turn.
LEMMA StartMakes ==
  ASSUME Typed, CandidatesSound, NEW c \in cands, Start(c)
  PROVE  /\ Typed' /\ pc = "start" /\ c.thread \in Threads /\ c.class \in {"llm", "tool"}
         /\ cands' = cands \ {c} /\ running[c.thread] = "no"
         /\ UNCHANGED <<durable, pc, seqs, leased, todo, sticky, checked, sawLease, parked, store>>
         /\ \/ UNCHANGED <<slots, toolSlots, runners>>
            \/ /\ running' = [running EXCEPT ![c.thread] = c.class]
               /\ at' = [at EXCEPT ![c.thread] = "created"]
               /\ \/ c.class = "llm" /\ slots > 0 /\ slots' = slots - 1 /\ toolSlots' = toolSlots
                  \/ c.class = "tool" /\ toolSlots > 0 /\ toolSlots' = toolSlots - 1 /\ slots' = slots
<1>1. /\ pc = "start" /\ cands' = cands \ {c}
      /\ UNCHANGED <<durable, pc, seqs, leased, todo, running_llm, sticky,
                     checked, sawLease, parked, store, events, faults>>
  BY DEF Start
<1>2. c.thread \in Threads /\ c.class \in {"llm", "tool"} /\ c.key \in Keys \union {NoKey}
  BY DEF Typed, LoopTyped
<1>3. running[c.thread] = "no"
  BY DEF CandidatesSound
<1>4. slots \in Int /\ toolSlots \in Int
  BY DEF Typed, LoopTyped
<1>5. \/ UNCHANGED <<slots, toolSlots, runners>>
      \/ /\ running' = [running EXCEPT ![c.thread] = c.class]
         /\ drive' = [drive EXCEPT ![c.thread] = c.key]
         /\ at' = [at EXCEPT ![c.thread] = "created"]
         /\ \/ c.class = "llm" /\ slots > 0 /\ slots' = slots - 1 /\ toolSlots' = toolSlots
            \/ c.class = "tool" /\ toolSlots > 0 /\ toolSlots' = toolSlots - 1 /\ slots' = slots
  BY <1>2, <1>4 DEF Start, MayStart
<1>6. /\ reserved' \subseteq reserved \union {c.thread}
      /\ idle' = idle \/ idle' = [idle EXCEPT ![c.thread] = "no"]
  <2>1. CASE MayStart(c)
    BY <2>1 DEF Start
  <2>2. CASE ~MayStart(c)
    BY <2>2 DEF Start
  <2> QED
    BY <2>1, <2>2
<1>7. Typed'
  <2>1. DbTyped' /\ StoreTyped' /\ BoundsTyped'
    BY <1>1 DEF durable, Typed, DbTyped, StoreTyped, BoundsTyped
  <2>2. LoopTyped'
    BY <1>1, <1>4, <1>5 DEF Typed, LoopTyped
  <2>3. MemoryTyped'
    BY <1>1, <1>2, <1>6 DEF Typed, MemoryTyped
  <2>4. RunnersTyped'
    BY <1>2, <1>5 DEF runners, Typed, RunnersTyped
  <2> QED
    BY <2>1, <2>2, <2>3, <2>4 DEF Typed
<1> QED
  BY <1>1, <1>2, <1>3, <1>5, <1>7

LEMMA ReadsTyped ==
  ASSUME Typed, ReadSeqs \/ ReadLeases \/ Sleep
  PROVE  Typed'
<1>1. DbTyped' /\ MemoryTyped' /\ RunnersTyped' /\ StoreTyped' /\ BoundsTyped'
  BY DEF ReadSeqs, ReadLeases, Sleep, durable, memory, runners, Typed, DbTyped, MemoryTyped,
         RunnersTyped, StoreTyped, BoundsTyped
<1>2. LoopTyped'
  BY DEF ReadSeqs, ReadLeases, Sleep, Typed, DbTyped, LoopTyped
<1> QED
  BY <1>1, <1>2 DEF Typed


\* The steps, grouped by what they touch.
LEMMA StepsAre ==
  ASSUME [Next]_vars
  PROVE  \/ ReadSeqs \/ ReadLeases \/ Sleep
         \/ Account
         \/ \E t \in Threads : Scan(t)
         \/ \E c \in cands : Start(c)
         \/ \E t \in Threads : Environment(t) \/ LeaseExpires(t)
         \/ \E t \in Threads : IdleElapses(t)
         \/ \E k \in DOMAIN store : BackoffEnds(k)
         \/ \E t \in Threads : Begin(t)
         \/ \E t \in Threads : Ends(t)
         \/ UNCHANGED vars
BY DEF Next, Loop, Time, Run, Ends

LEMMA TypedStep ==
  ASSUME Typed, AttemptsLeft, CandidatesSound, [Next]_vars
  PROVE  Typed'
<1>1. CASE UNCHANGED vars
  BY <1>1 DEF vars, durable, loop, memory, runners, Typed, DbTyped, LoopTyped, MemoryTyped,
              RunnersTyped, StoreTyped, BoundsTyped
<1>2. CASE \E t \in Threads : Environment(t) \/ LeaseExpires(t)
  <2>1. DbTyped' /\ BoundsTyped' /\ UNCHANGED <<loop, sticky, memory, runners, store>>
    BY <1>2, OutsideMoves
  <2> QED
    BY <2>1 DEF loop, memory, runners, Typed, LoopTyped, MemoryTyped, RunnersTyped, StoreTyped
<1> QED
  BY <1>1, <1>2, StepsAre, ReadsTyped, AccountMakes, ScanTyped, StartMakes, TimeTyped, BeginMoves,
     EndsTyped

LEMMA AttemptsLeftStep ==
  ASSUME Typed, AttemptsLeft, CandidatesSound, [Next]_vars
  PROVE  AttemptsLeft'
<1>1. CASE UNCHANGED <<call, store, at>>
  BY <1>1 DEF AttemptsLeft
<1>2. CASE ReadSeqs \/ ReadLeases \/ Sleep \/ Account \/ \E t \in Threads : IdleElapses(t)
  BY <1>1, <1>2 DEF ReadSeqs, ReadLeases, Sleep, Account, IdleElapses, durable, runners
<1>3. ASSUME NEW t \in Threads, Scan(t) PROVE AttemptsLeft'
  BY <1>1, <1>3 DEF Scan, durable, runners
<1>4. ASSUME NEW c \in cands, Start(c) PROVE AttemptsLeft'
  <2>1. /\ c.thread \in Threads /\ call' = call /\ store' = store
        /\ at' = at \/ at' = [at EXCEPT ![c.thread] = "created"]
    BY <1>4, StartMakes DEF durable, runners
  <2> QED
    BY <2>1 DEF AttemptsLeft, Typed, RunnersTyped
<1>5. CASE \E t \in Threads : Environment(t) \/ LeaseExpires(t)
  BY <1>1, <1>5, OutsideMoves DEF runners
<1>6. ASSUME NEW k \in DOMAIN store, BackoffEnds(k) PROVE AttemptsLeft'
  <2>1. store' = [store EXCEPT ![k].wait = FALSE] /\ UNCHANGED <<call, at>>
    BY <1>6 DEF BackoffEnds, durable, runners
  <2>2. /\ DOMAIN store' = DOMAIN store
        /\ \A x \in DOMAIN store : store'[x].attempts = store[x].attempts
    <3>1. store[k] \in [attempts : 1..MaxAttempts, wait : BOOLEAN]
      BY DEF Typed, StoreTyped
    <3> QED
      BY <2>1, <3>1
  <2> QED
    BY <2>1, <2>2 DEF AttemptsLeft
<1>7. ASSUME NEW t \in Threads, Begin(t) PROVE AttemptsLeft'
  <2>1. at' = [at EXCEPT ![t] = work[t]] /\ call' = call /\ store' = store
    BY <1>7, BeginMoves
  <2>2. work[t] = "output" /\ <<t, call[t]>> \in DOMAIN store =>
          store[<<t, call[t]>>].attempts < MaxAttempts
    <3> SUFFICES ASSUME work[t] = "output", <<t, call[t]>> \in DOMAIN store
                 PROVE  store[<<t, call[t]>>].attempts < MaxAttempts
      OBVIOUS
    <3>1. RecoveryKey(t) = <<t, call[t]>> /\ RecoveryKey(t) # NoKey
      BY KeysOf DEF Typed
    <3>2. Disposition(store, <<t, call[t]>>) = "allowed"
      BY <1>7, <3>1 DEF Begin, Ready
    <3>3. Entries(store)
      BY DEF Typed, StoreTyped, Entries, Entry
    <3> QED
      BY <3>2, <3>3, DispositionSays
  <2> QED
    BY <2>1, <2>2 DEF AttemptsLeft, Typed, RunnersTyped
<1>8. ASSUME NEW t \in Threads, Ends(t) PROVE AttemptsLeft'
  <2>1. /\ \A u \in Threads \ {t} : call'[u] = call[u]
        /\ call'[t] >= call[t] /\ call[t] \in Nat /\ call'[t] \in Nat
    BY <1>8, EndsMove DEF Moved, RowSame, Typed, DbTyped
  <2>2. /\ DOMAIN store' \subseteq Keys
        /\ \A k \in DOMAIN store' : \/ k \in DOMAIN store /\ store'[k] = store[k]
                                    \/ k = <<t, call'[t]>>
    BY <1>8, EndsStore DEF StoreTyped
  <2>3. at' = [at EXCEPT ![t] = "idle"]
    BY <1>8, EndsMove, EndsStore, DriveEndsMakes
  <2>4. ASSUME NEW k \in DOMAIN store' PROVE k[2] <= call'[k[1]]
    <3>1. CASE k = <<t, call'[t]>>
      BY <2>1, <3>1
    <3>2. CASE k \in DOMAIN store /\ k # <<t, call'[t]>>
      <4>1. k[1] \in Threads /\ k[2] \in Nat /\ k[2] <= call[k[1]]
        BY <2>2, <3>2 DEF AttemptsLeft, Keys
      <4> QED
        BY <2>1, <4>1
    <3> QED
      BY <2>2, <3>1, <3>2
  <2>5. ASSUME NEW u \in Threads, at'[u] = "output", <<u, call'[u]>> \in DOMAIN store'
        PROVE  store'[<<u, call'[u]>>].attempts < MaxAttempts
    <3>1. u # t /\ at[u] = "output"
      BY <2>3, <2>5 DEF Typed, RunnersTyped
    <3>2. <<u, call[u]>> = <<u, call'[u]>> /\ <<u, call[u]>> # <<t, call'[t]>>
      BY <2>1, <3>1
    <3>3. <<u, call[u]>> \in DOMAIN store /\ store'[<<u, call[u]>>] = store[<<u, call[u]>>]
      BY <2>2, <2>5, <3>2
    <3> QED
      BY <3>1, <3>2, <3>3 DEF AttemptsLeft
  <2> QED
    BY <2>4, <2>5 DEF AttemptsLeft
<1>9. CASE UNCHANGED vars
  BY <1>1, <1>9 DEF vars, durable, runners
<1> QED
  BY <1>2, <1>3, <1>4, <1>5, <1>6, <1>7, <1>8, <1>9, StepsAre

\* Candidates are made of threads that nobody runs, and only the loop starts one.
LEMMA CandidatesSoundStep ==
  ASSUME IInv, [Next]_vars
  PROVE  CandidatesSound'
<1> USE DEF IInv
<1>1. CASE /\ UNCHANGED <<pc, cands, todo, checked, running, at>>
           /\ \A t \in Threads : seq'[t] \in Nat /\ seq'[t] >= seq[t]
  <2>1. \A c \in cands : c.thread \in Threads
    BY DEF Typed, LoopTyped
  <2>2. \A t \in Threads : seq[t] \in Nat /\ checked[t] \in Nat \union {-1}
    BY DEF Typed, DbTyped, MemoryTyped
  <2> QED
    BY <1>1, <2>1, <2>2 DEF CandidatesSound
<1>2. CASE ReadSeqs \/ ReadLeases \/ Sleep
  <2>1. cands' = {} /\ UNCHANGED <<running, at>>
    BY <1>2 DEF ReadSeqs, ReadLeases, Sleep, runners, CandidatesSound
  <2> QED
    BY <2>1 DEF CandidatesSound
<1>3. CASE Account
  BY <1>3, AccountMakes DEF CandidatesSound, runners
<1>4. ASSUME NEW t \in Threads, Scan(t) PROVE CandidatesSound'
  <2>1. /\ pc = "scan" /\ t \in todo /\ todo' = todo \ {t} /\ pc' \in {"scan", "start"}
        /\ UNCHANGED <<running, at, seq>>
        /\ \A u \in Threads \ {t} : checked'[u] = checked[u]
    BY <1>4, ScanMakes DEF durable, runners
  <2> DEFINE new == [thread |-> t, class |-> ResourceClass(t), key |-> RecoveryKey(t)]
  <2>2. \/ cands' = cands
        \/ /\ cands' = cands \union {new} /\ running[t] = "no"
           /\ Watermark(t) # seqs[t] /\ checked'[t] = Watermark(t)
    BY <1>4, ScanMakes DEF memory
  <2>3. \A c \in cands : /\ c.thread \in Threads /\ running[c.thread] = "no" /\ c.thread \notin todo
                         /\ checked[c.thread] < seq[c.thread]
    BY DEF CandidatesSound, Typed, LoopTyped
  <2>4. Watermark(t) # seqs[t] => Watermark(t) < seq[t]
    <3>1. /\ seqs[t] \in Nat \union {-1} /\ seq[t] \in Nat /\ checked[t] \in Nat \union {-1}
          /\ seqs[t] <= seq[t] /\ seqs[t] >= 0 /\ checked[t] <= seqs[t]
      BY <2>1 DEF ReadSound, Fresh, Typed, DbTyped, LoopTyped, MemoryTyped
    <3> QED
      BY <3>1 DEF Watermark
  <2>5. ASSUME NEW c \in cands'
        PROVE  /\ running'[c.thread] = "no" /\ c.thread \notin todo'
               /\ checked'[c.thread] < seq'[c.thread]
    <3>1. CASE c \in cands
      BY <2>1, <2>3, <3>1
    <3>2. CASE c \notin cands
      <4>1. c.thread = t
        BY <2>2, <3>2
      <4> QED
        BY <2>1, <2>2, <2>4, <3>2, <4>1
    <3> QED
      BY <3>1, <3>2
  <2>6. \A c, d \in cands' : c.thread = d.thread => c = d
    <3>1. new.thread = t
      OBVIOUS
    <3> HIDE DEF new
    <3> QED
      BY <2>1, <2>2, <2>3, <3>1 DEF CandidatesSound
  <2> QED
    BY <2>1, <2>5, <2>6 DEF CandidatesSound
<1>5. ASSUME NEW c \in cands, Start(c) PROVE CandidatesSound'
  <2>1. /\ pc' = "start" /\ cands' = cands \ {c} /\ c.thread \in Threads
        /\ UNCHANGED <<seq, todo, checked>> /\ c.class \in {"llm", "tool"}
        /\ \/ UNCHANGED <<running, at>>
           \/ /\ running' = [running EXCEPT ![c.thread] = c.class]
              /\ at' = [at EXCEPT ![c.thread] = "created"]
    BY <1>5, StartMakes DEF durable, runners
  <2>2. \A d \in cands' : d.thread # c.thread
    BY <2>1 DEF CandidatesSound
  <2>3. \A d \in cands : d.thread \in Threads
    BY DEF Typed, LoopTyped
  <2>4. \A u \in Threads : running'[u] = running[u] \/ u = c.thread
    BY <2>1 DEF Typed, RunnersTyped
  <2>5. \A d \in cands' : /\ running'[d.thread] = "no" /\ d.thread \notin todo'
                          /\ checked'[d.thread] < seq'[d.thread]
    BY <2>1, <2>2, <2>3, <2>4 DEF CandidatesSound
  <2>6. \A u \in Threads : at'[u] # "idle" <=> running'[u] # "no"
    BY <2>1 DEF CandidatesSound, Typed, RunnersTyped
  <2> QED
    BY <2>1, <2>5, <2>6 DEF CandidatesSound
<1>6. ASSUME NEW t \in Threads, Environment(t) \/ LeaseExpires(t) PROVE CandidatesSound'
  BY <1>1, <1>6, OutsideMoves DEF Moved, RowSame, Typed, DbTyped, loop, memory, runners
<1>7. CASE (\E t \in Threads : IdleElapses(t)) \/ (\E k \in DOMAIN store : BackoffEnds(k))
  BY <1>1, <1>7 DEF IdleElapses, BackoffEnds, durable, loop, memory, runners, Typed, DbTyped
<1>8. ASSUME NEW t \in Threads, Begin(t) PROVE CandidatesSound'
  <2>1. /\ Moved(t) /\ seq'[t] = seq[t] + 1 /\ at[t] = "created" /\ at' = [at EXCEPT ![t] = work[t]]
        /\ UNCHANGED <<pc, cands, todo, checked, running>>
    BY <1>8, BeginMoves DEF loop, memory
  <2>2. work[t] # "idle" /\ running[t] # "no"
    BY <2>1 DEF CandidatesSound, Typed, DbTyped, Work
  <2>3. \A u \in Threads : at'[u] # "idle" <=> running'[u] # "no"
    BY <2>1, <2>2 DEF CandidatesSound, Typed, RunnersTyped
  <2>4. \A u \in Threads : seq[u] \in Nat /\ seq'[u] >= seq[u] /\ checked[u] \in Nat \union {-1}
                           /\ seq'[u] \in Nat
    BY <2>1 DEF Moved, RowSame, Typed, DbTyped, MemoryTyped
  <2>5. \A c \in cands : c.thread \in Threads
    BY DEF Typed, LoopTyped
  <2> QED
    BY <2>1, <2>3, <2>4, <2>5 DEF CandidatesSound
<1>9. ASSUME NEW t \in Threads, Ends(t) PROVE CandidatesSound'
  <2>1. /\ Moved(t) /\ at[t] # "idle" /\ UNCHANGED <<pc, cands, todo>>
    BY <1>9, EndsMove DEF loop
  <2>2. /\ running' = [running EXCEPT ![t] = "no"] /\ at' = [at EXCEPT ![t] = "idle"]
        /\ checked' = checked \/ checked' = [checked EXCEPT ![t] = -1]
    BY <1>9, EndsMove, EndsStore, DriveEndsMakes
  <2>3. \A u \in Threads : seq[u] \in Nat /\ seq'[u] >= seq[u] /\ checked[u] \in Nat \union {-1}
                           /\ seq'[u] \in Nat
    BY <2>1 DEF Moved, RowSame, Typed, DbTyped, MemoryTyped
  <2>4. \A c \in cands : c.thread \in Threads /\ c.thread # t
    BY <2>1 DEF CandidatesSound, Typed, LoopTyped
  <2>5. \A u \in Threads : at'[u] # "idle" <=> running'[u] # "no"
    BY <2>2 DEF CandidatesSound, Typed, RunnersTyped
  <2>6. \A u \in Threads \ {t} : running'[u] = running[u] /\ checked'[u] = checked[u]
    BY <2>2 DEF Typed, RunnersTyped, MemoryTyped
  <2>7. \A c \in cands' : /\ running'[c.thread] = "no" /\ c.thread \notin todo'
                          /\ checked'[c.thread] < seq'[c.thread]
    BY <2>1, <2>3, <2>4, <2>6 DEF CandidatesSound
  <2> QED
    BY <2>1, <2>5, <2>7 DEF CandidatesSound
<1>10. CASE UNCHANGED vars
  BY <1>1, <1>10 DEF vars, durable, loop, memory, runners, Typed, DbTyped
<1> QED
  BY <1>2, <1>3, <1>4, <1>5, <1>6, <1>7, <1>8, <1>9, <1>10, StepsAre


\* Where runners only end, no class grows; a start takes a counted slot.
LEMMA SlotsStep ==
  ASSUME IInv, [Next]_vars
  PROVE  WithinSlots' /\ SlotsCounted'
<1> USE DEF IInv
<1> DEFINE llm == Cardinality(InClass("llm"))
           tool == Cardinality(InClass("tool"))
<1>n. /\ llm \in Nat /\ tool \in Nat /\ llm' \in Nat /\ tool' \in Nat
      /\ IsFiniteSet(InClass("llm")) /\ IsFiniteSet(InClass("tool"))
  <2>1. /\ InClass("llm")' \in SUBSET Threads /\ InClass("tool")' \in SUBSET Threads
    BY DEF InClass
  <2> QED
    BY <2>1, InClassFinite, FS_Subset, FS_CardinalityType, SchedulerAssumption
<1>i. slots \in Int /\ toolSlots \in Int /\ MaxLlm \in Nat /\ MaxTool \in Nat
  BY SchedulerAssumption DEF Typed, LoopTyped
<1>w. llm <= MaxLlm /\ tool <= MaxTool
  BY DEF WithinSlots, InClass
<1>g. llm' <= MaxLlm /\ tool' <= MaxTool => WithinSlots'
  BY DEF WithinSlots, InClass
<1>1. CASE /\ running' = running \/ \E t \in Threads : running' = [running EXCEPT ![t] = "no"]
           /\ pc' \in {"scan", "start"} => /\ pc \in {"scan", "start"}
                                           /\ slots' = slots /\ toolSlots' = toolSlots
  <2>1. InClass("llm")' \subseteq InClass("llm") /\ InClass("tool")' \subseteq InClass("tool")
    BY <1>1 DEF InClass, Typed, RunnersTyped
  <2>2. llm' <= llm /\ tool' <= tool
    BY <2>1, <1>n, FS_Subset
  <2>3. pc \in {"scan", "start"} => slots + llm <= MaxLlm /\ toolSlots + tool <= MaxTool
    BY DEF SlotsCounted
  <2> HIDE DEF llm, tool
  <2>4. llm' <= MaxLlm /\ tool' <= MaxTool
    BY <1>n, <1>i, <1>w, <2>2
  <2>5. pc' \in {"scan", "start"} => slots' + llm' <= MaxLlm /\ toolSlots' + tool' <= MaxTool
    BY <1>1, <1>n, <1>i, <2>2, <2>3
  <2> QED
    BY <1>g, <2>4, <2>5 DEF SlotsCounted, llm, tool
<1>2. CASE ReadSeqs \/ ReadLeases \/ Sleep
  BY <1>1, <1>2 DEF ReadSeqs, ReadLeases, Sleep, runners
<1>3. CASE Account
  <2>1. /\ running' = running /\ slots' + llm <= MaxLlm /\ toolSlots' + tool <= MaxTool
    BY <1>3, AccountMakes DEF runners
  <2>2. llm' = llm /\ tool' = tool
    BY <2>1 DEF InClass
  <2> HIDE DEF llm, tool
  <2>3. slots' + llm' <= MaxLlm /\ toolSlots' + tool' <= MaxTool
        /\ llm' <= MaxLlm /\ tool' <= MaxTool
    BY <1>w, <2>1, <2>2
  <2> QED
    BY <1>g, <2>3 DEF SlotsCounted, llm, tool
<1>4. ASSUME NEW t \in Threads, Scan(t) PROVE WithinSlots' /\ SlotsCounted'
  BY <1>1, <1>4, ScanMakes DEF runners
<1>5. ASSUME NEW c \in cands, Start(c) PROVE WithinSlots' /\ SlotsCounted'
  <2>1. /\ pc = "start" /\ pc' = "start" /\ c.thread \in Threads /\ running[c.thread] = "no"
        /\ \/ UNCHANGED <<slots, toolSlots, running>>
           \/ /\ running' = [running EXCEPT ![c.thread] = c.class]
              /\ \/ c.class = "llm" /\ slots > 0 /\ slots' = slots - 1 /\ toolSlots' = toolSlots
                 \/ c.class = "tool" /\ toolSlots > 0 /\ toolSlots' = toolSlots - 1 /\ slots' = slots
    BY <1>5, StartMakes DEF runners
  <2>2. slots + llm <= MaxLlm /\ toolSlots + tool <= MaxTool
    BY <2>1 DEF SlotsCounted
  <2>3. CASE UNCHANGED <<slots, toolSlots, running>>
    BY <1>1, <2>1, <2>3
  <2>4. CASE /\ running' = [running EXCEPT ![c.thread] = c.class]
             /\ c.class = "llm" /\ slots > 0 /\ slots' = slots - 1 /\ toolSlots' = toolSlots
    <3>1. InClass("llm")' = InClass("llm") \union {c.thread} /\ InClass("tool")' = InClass("tool")
      BY <2>1, <2>4 DEF InClass, Typed, RunnersTyped
    <3>2. c.thread \notin InClass("llm")
      BY <2>1 DEF InClass
    <3>3. llm' = llm + 1 /\ tool' = tool
      BY <1>n, <3>1, <3>2, FS_AddElement
    <3> HIDE DEF llm, tool
    <3>4. slots' + llm' <= MaxLlm /\ toolSlots' + tool' <= MaxTool
          /\ llm' <= MaxLlm /\ tool' <= MaxTool
      BY <1>n, <1>i, <1>w, <2>2, <2>4, <3>3
    <3> QED
      BY <1>g, <3>4 DEF SlotsCounted, llm, tool
  <2>5. CASE /\ running' = [running EXCEPT ![c.thread] = c.class]
             /\ c.class = "tool" /\ toolSlots > 0 /\ toolSlots' = toolSlots - 1 /\ slots' = slots
    <3>1. InClass("tool")' = InClass("tool") \union {c.thread} /\ InClass("llm")' = InClass("llm")
      BY <2>1, <2>5 DEF InClass, Typed, RunnersTyped
    <3>2. c.thread \notin InClass("tool")
      BY <2>1 DEF InClass
    <3>3. tool' = tool + 1 /\ llm' = llm
      BY <1>n, <3>1, <3>2, FS_AddElement
    <3> HIDE DEF llm, tool
    <3>4. slots' + llm' <= MaxLlm /\ toolSlots' + tool' <= MaxTool
          /\ llm' <= MaxLlm /\ tool' <= MaxTool
      BY <1>n, <1>i, <1>w, <2>2, <2>5, <3>3
    <3> QED
      BY <1>g, <3>4 DEF SlotsCounted, llm, tool
  <2> QED
    BY <2>1, <2>3, <2>4, <2>5
<1>6. ASSUME NEW t \in Threads, Environment(t) \/ LeaseExpires(t) PROVE WithinSlots' /\ SlotsCounted'
  BY <1>1, <1>6, OutsideMoves DEF loop, runners
<1>7. CASE (\E t \in Threads : IdleElapses(t)) \/ (\E k \in DOMAIN store : BackoffEnds(k))
  BY <1>1, <1>7 DEF IdleElapses, BackoffEnds, loop, runners
<1>8. ASSUME NEW t \in Threads, Begin(t) PROVE WithinSlots' /\ SlotsCounted'
  BY <1>1, <1>8, BeginMoves DEF loop
<1>9. ASSUME NEW t \in Threads, Ends(t) PROVE WithinSlots' /\ SlotsCounted'
  BY <1>1, <1>9, EndsMove, EndsStore, DriveEndsMakes DEF loop
<1>10. CASE UNCHANGED vars
  BY <1>1, <1>10 DEF vars, loop, runners
<1> QED
  BY <1>2, <1>3, <1>4, <1>5, <1>6, <1>7, <1>8, <1>9, <1>10, StepsAre

ReadSoundOf(t) ==
  /\ seqs[t] <= seq[t] /\ checked[t] <= seq[t] /\ parked[t].seq <= seq[t]
  /\ Fresh(t) => seqs[t] >= 0 /\ checked[t] <= seqs[t]

\* Numbers that are compared are numbers.
LEMMA NumbersTyped ==
  ASSUME Typed, NEW t \in Threads
  PROVE  /\ seq[t] \in Nat /\ seqs[t] \in Nat \union {-1} /\ checked[t] \in Nat \union {-1}
         /\ parked[t] \in Parking /\ parked[t].seq \in Nat \union {-1}
BY DEF Typed, DbTyped, LoopTyped, MemoryTyped, Parking

LEMMA ReadSoundStep ==
  ASSUME IInv, [Next]_vars, Typed'
  PROVE  ReadSound'
<1> USE DEF IInv
<1>s. SUFFICES ASSUME NEW u \in Threads PROVE ReadSoundOf(u)'
  BY DEF ReadSound, ReadSoundOf, Fresh
<1>o. ReadSoundOf(u)
  BY DEF ReadSound, ReadSoundOf
<1>n. /\ seq[u] \in Nat /\ seqs[u] \in Nat \union {-1} /\ checked[u] \in Nat \union {-1}
      /\ parked[u].seq \in Nat \union {-1}
      /\ seq'[u] \in Nat /\ seqs'[u] \in Nat \union {-1} /\ checked'[u] \in Nat \union {-1}
  BY DEF Typed, DbTyped, LoopTyped, MemoryTyped, Parking
<1>1. CASE UNCHANGED <<seq, lease, seqs, checked, parked, pc, todo, leased>>
  BY <1>o, <1>1 DEF ReadSoundOf, Fresh
<1>2. CASE ReadSeqs
  BY <1>2, <1>o, <1>n DEF ReadSeqs, ReadSoundOf, Fresh, durable, memory
<1>3. CASE ReadLeases
  BY <1>3, <1>o, <1>n DEF ReadLeases, ReadSoundOf, Fresh, durable, memory
<1>4. CASE Sleep
  BY <1>4, <1>o, <1>n DEF Sleep, ReadSoundOf, Fresh, durable, memory
<1>5. CASE Account
  BY <1>5, <1>o, <1>n, AccountMakes DEF ReadSoundOf, Fresh, durable
<1>6. ASSUME NEW t \in Threads, Scan(t) PROVE ReadSoundOf(u)'
  <2>1. /\ pc = "scan" /\ t \in todo /\ todo' = todo \ {t} /\ pc' \in {"scan", "start"}
        /\ seqs' = [seqs EXCEPT ![t] = -1] /\ UNCHANGED <<seq, lease, leased>>
        /\ u # t => checked'[u] = checked[u] /\ parked'[u] = parked[u]
    BY <1>6, ScanMakes DEF durable
  <2>2. CASE u # t
    BY <1>o, <1>n, <2>1, <2>2 DEF ReadSoundOf, Fresh, Typed, LoopTyped
  <2>3. CASE u = t
    <3>1. ~Fresh(u)' /\ seqs'[u] = -1 /\ Fresh(u)
      BY <2>1, <2>3 DEF Fresh, Typed, LoopTyped
    <3>2. Watermark(t) \in {checked[t], -1}
      BY DEF Watermark
    <3>3. checked'[t] \in {checked[t], seqs[t], -1}
      BY <1>6, <3>2, ScanMakes DEF memory
    <3>4. parked'[t].seq \in {parked[t].seq, seqs[t], -1}
      <4>1. /\ Park(t, parked[t].key, seqs[t], store).seq = seqs[t]
            /\ Park(t, RecoveryKey(t), seqs[t], store).seq = seqs[t]
            /\ NotParked.seq = -1
        BY DEF Park, NotParked
      <4> QED
        BY <1>6, <4>1, ScanMakes DEF memory
    <3> QED
      BY <1>o, <1>n, <2>1, <2>3, <3>1, <3>3, <3>4 DEF ReadSoundOf
  <2> QED
    BY <2>2, <2>3
<1>7. ASSUME NEW c \in cands, Start(c) PROVE ReadSoundOf(u)'
  BY <1>1, <1>7, StartMakes DEF durable
<1>8. ASSUME NEW t \in Threads, Environment(t) \/ LeaseExpires(t) \/ Begin(t) PROVE ReadSoundOf(u)'
  <2>1. Moved(t) /\ UNCHANGED <<seqs, checked, parked, pc, todo, leased>>
    BY <1>8, OutsideMoves, BeginMoves DEF loop, memory
  <2>2. CASE u # t \/ RowSame(t)
    BY <1>o, <2>1, <2>2 DEF Moved, RowSame, ReadSoundOf, Fresh
  <2>3. CASE u = t /\ seq'[t] = seq[t] + 1
    BY <1>o, <1>n, <2>1, <2>3 DEF ReadSoundOf, Fresh
  <2>4. CASE u = t /\ seq'[t] = seq[t]
    BY <1>o, <1>n, <2>1, <2>4 DEF ReadSoundOf, Fresh
  <2> QED
    BY <2>1, <2>2, <2>3, <2>4 DEF Moved
<1>9. CASE (\E t \in Threads : IdleElapses(t)) \/ (\E k \in DOMAIN store : BackoffEnds(k))
  BY <1>1, <1>9 DEF IdleElapses, BackoffEnds, durable, loop, memory
<1>10. ASSUME NEW t \in Threads, Ends(t) PROVE ReadSoundOf(u)'
  <2>1. /\ Moved(t) /\ UNCHANGED <<seqs, pc, todo, leased>>
        /\ checked' = checked \/ checked' = [checked EXCEPT ![t] = -1]
        /\ \/ parked' = parked
           \/ parked' = [parked EXCEPT ![t] = NotParked]
           \/ parked' = [parked EXCEPT ![t] = Park(t, drive[t], seq'[t], store')]
    BY <1>10, EndsMove, EndsStore, DriveEndsMakes DEF loop
  <2>2. checked'[u] = checked[u] \/ checked'[u] = -1
    BY <2>1 DEF Typed, MemoryTyped
  <2>3. parked'[u].seq = parked[u].seq \/ parked'[u].seq = -1 \/ (u = t /\ parked'[u].seq = seq'[t])
    BY <2>1 DEF Park, NotParked, Typed, MemoryTyped
  <2>4. seq'[u] = seq[u] + 1 \/ seq'[u] = seq[u]
    BY <2>1 DEF Moved, RowSame
  <2> QED
    BY <1>o, <1>n, <2>1, <2>2, <2>3, <2>4 DEF ReadSoundOf, Fresh
<1>11. CASE UNCHANGED vars
  BY <1>1, <1>11 DEF vars, durable, loop, memory
<1> QED
  BY <1>2, <1>3, <1>4, <1>5, <1>6, <1>7, <1>8, <1>9, <1>10, <1>11, StepsAre


HiddenNothing(t) ==
  /\ running[t] # "no" => checked[t] < seq[t]
  /\ LeaseOutlastsTurn /\ checked[t] = seq[t] /\ running[t] = "no" =>
       \/ parked[t] # NotParked \/ LeaseNoted(t)
       \/ ~Actionable(t) /\ (lease[t] = "free" \/ t \notin leased)

LEMMA NothingHiddenStep ==
  ASSUME IInv, [Next]_vars
  PROVE  NothingHidden'
<1> USE DEF IInv
<1>s. SUFFICES ASSUME NEW u \in Threads PROVE HiddenNothing(u)'
  BY DEF NothingHidden, HiddenNothing, Actionable, LeaseNoted
<1>o. HiddenNothing(u)
  BY DEF NothingHidden, HiddenNothing, LeaseNoted
<1>n. /\ seq[u] \in Nat /\ seqs[u] \in Nat \union {-1} /\ checked[u] \in Nat \union {-1}
      /\ checked[u] <= seq[u] /\ seqs[u] <= seq[u]
  BY NumbersTyped DEF ReadSound
<1>1. CASE /\ work'[u] = work[u] /\ seq'[u] = seq[u] /\ lease'[u] = lease[u]
           /\ running'[u] = running[u] /\ checked'[u] = checked[u] /\ parked'[u] = parked[u]
           /\ leased' = leased /\ (LeaseNoted(u) => LeaseNoted(u)')
  BY <1>o, <1>1 DEF HiddenNothing, Actionable
<1>2. CASE ReadSeqs \/ Sleep
  BY <1>1, <1>2 DEF ReadSeqs, Sleep, LeaseNoted, durable, memory, runners
<1>11. CASE ReadLeases
  <2>1. /\ UNCHANGED <<work, seq, lease, running, checked, parked, sawLease>>
        /\ pc = "leases" /\ pc' = "account" /\ (u \in leased' <=> lease[u] # "free")
    BY <1>11 DEF ReadLeases, durable, memory, runners
  <2>2. CASE u \in leased'
    BY <1>o, <2>1, <2>2 DEF HiddenNothing, LeaseNoted
  <2>3. CASE u \notin leased'
    BY <1>o, <2>1, <2>3 DEF HiddenNothing, LeaseNoted, Actionable
  <2> QED
    BY <2>2, <2>3
<1>3. CASE Account
  <2>1. /\ UNCHANGED <<work, seq, lease, running, parked, leased>>
        /\ pc = "account" /\ pc' = "scan" /\ todo' = Threads
        /\ \/ checked'[u] = -1
           \/ checked'[u] = checked[u] /\ (u \in sawLease => u \in sawLease')
    BY <1>3, AccountMakes DEF durable, runners
  <2>2. CASE checked'[u] = -1
    BY <1>n, <2>1, <2>2 DEF HiddenNothing
  <2> QED
    BY <1>1, <2>1, <2>2 DEF LeaseNoted
<1>4. ASSUME NEW t \in Threads, Scan(t) PROVE HiddenNothing(u)'
  <2>1. /\ pc = "scan" /\ t \in todo /\ UNCHANGED <<work, seq, lease, running, leased>>
        /\ sawLease \subseteq sawLease' /\ todo' = todo \ {t}
        /\ pc' \in {"scan", "start"} /\ (pc' = "start" => todo' = {})
        /\ u # t => checked'[u] = checked[u] /\ parked'[u] = parked[u]
    BY <1>4, ScanMakes DEF durable, runners
  <2>2. CASE u # t
    BY <1>1, <2>1, <2>2 DEF LeaseNoted
  <2>3. CASE u = t
    <3>1. seqs[u] >= 0 /\ checked[u] <= seqs[u]
      BY <2>1, <2>3 DEF ReadSound, Fresh
    <3>2. CASE running[u] # "no"
      BY <1>o, <1>4, <2>1, <2>3, <3>2, ScanMakes DEF HiddenNothing, memory
    <3>3. CASE running[u] = "no" /\ checked'[u] = seqs[u] /\ parked'[u] # NotParked
      BY <2>1, <3>3 DEF HiddenNothing
    <3>4. CASE running[u] = "no" /\ checked'[u] = seqs[u] /\ u \in sawLease'
      BY <2>1, <3>4 DEF HiddenNothing, LeaseNoted
    <3>5. CASE running[u] = "no" /\ checked'[u] = seqs[u] /\ u \notin leased /\ ~Actionable(u)
      BY <1>n, <2>1, <3>1, <3>5 DEF HiddenNothing, Actionable
    <3>6. CASE /\ running[u] = "no" /\ parked'[u] = NotParked /\ u \notin leased
               /\ checked'[u] = Watermark(u) /\ Watermark(u) = seqs[u]
      <4>1. parked[u] = NotParked /\ checked'[u] = checked[u]
        BY <1>n, <3>1, <3>6 DEF Watermark
      <4> QED
        BY <1>1, <2>1, <3>6, <4>1 DEF LeaseNoted
    <3>7. CASE running[u] = "no" /\ Watermark(u) # seqs[u] /\ checked'[u] = Watermark(u)
      BY <1>n, <2>1, <3>1, <3>7 DEF HiddenNothing, Watermark
    <3>8. /\ Park(u, parked[u].key, seqs[u], store) # NotParked
          /\ Park(u, RecoveryKey(u), seqs[u], store) # NotParked
      <4>1. /\ parked[u].key \in Keys \union {NoKey} /\ RecoveryKey(u) \in Keys \union {NoKey}
        BY NumbersTyped, KeysOf DEF Typed, Parking
      <4>2. Entries(store)
        BY DEF Typed, StoreTyped, Entries, Entry
      <4> QED
        BY <1>n, <4>1, <4>2, ParkMakes
    <3> QED
      BY <1>4, <2>3, <3>2, <3>3, <3>4, <3>5, <3>6, <3>7, <3>8, ScanMakes
  <2> QED
    BY <2>2, <2>3
<1>5. ASSUME NEW c \in cands, Start(c) PROVE HiddenNothing(u)'
  <2>1. /\ UNCHANGED <<work, seq, lease, checked, sawLease, parked, leased, pc, todo>>
        /\ running' = running \/ running' = [running EXCEPT ![c.thread] = c.class]
    BY <1>5, StartMakes DEF durable, runners
  <2>2. CASE running'[u] = running[u]
    BY <1>1, <2>1, <2>2 DEF LeaseNoted
  <2>3. CASE u = c.thread
    <3>1. checked[u] < seq[u]
      BY <2>3 DEF CandidatesSound
    <3> QED
      BY <1>n, <2>1, <3>1 DEF HiddenNothing
  <2> QED
    BY <2>1, <2>2, <2>3 DEF Typed, RunnersTyped
<1>6. ASSUME NEW t \in Threads, Environment(t) \/ LeaseExpires(t) \/ Begin(t)
      PROVE  HiddenNothing(u)'
  <2>1. Moved(t) /\ UNCHANGED <<running, checked, parked, sawLease, leased, pc, todo>>
    BY <1>6, OutsideMoves, BeginMoves DEF memory, runners, loop
  <2>n. LeaseNoted(u)' <=> LeaseNoted(u)
    BY <2>1 DEF LeaseNoted
  <2>2. CASE RowSame(u)
    BY <1>1, <2>1, <2>n, <2>2 DEF RowSame
  <2>3. CASE seq'[u] = seq[u] + 1
    BY <1>n, <2>1, <2>3 DEF HiddenNothing
  <2>4. CASE u = t /\ seq'[u] = seq[u] /\ work'[u] = work[u] /\ lease[u] \in {"taken", "other"}
             /\ lease'[u] = "dead"
    BY <1>o, <1>n, <2>1, <2>n, <2>4 DEF HiddenNothing, Actionable
  <2>5. CASE u = t /\ seq'[u] = seq[u] /\ Actionable(u) /\ lease[u] = "free"
    BY <1>o, <1>n, <2>1, <2>n, <2>5 DEF HiddenNothing
  <2>6. CASE u = t /\ seq'[u] = seq[u] /\ lease[u] = "ours" /\ at[u] # "idle"
    BY <1>o, <1>n, <2>1, <2>6 DEF HiddenNothing, CandidatesSound
  <2>7. CASE /\ u = t /\ seq'[u] = seq[u] /\ lease[u] = "dead"
             /\ LeaseOutlastsTurn => t \in leased
    BY <1>o, <1>n, <2>1, <2>n, <2>7 DEF HiddenNothing
  <2> QED
    BY <2>1, <2>2, <2>3, <2>4, <2>5, <2>6, <2>7 DEF Moved
<1>7. CASE (\E t \in Threads : IdleElapses(t)) \/ (\E k \in DOMAIN store : BackoffEnds(k))
  BY <1>1, <1>7 DEF IdleElapses, BackoffEnds, LeaseNoted, durable, memory, runners, loop
<1>8. ASSUME NEW t \in Threads, Ends(t) PROVE HiddenNothing(u)'
  <2>1. Moved(t) /\ (seq'[t] = seq[t] + 1 \/ RowSame(t)) /\ at[t] # "idle"
    BY <1>8, EndsMove
  <2>2. /\ running' = [running EXCEPT ![t] = "no"] /\ sawLease' = sawLease
        /\ UNCHANGED <<leased, pc, todo>>
        /\ checked' = checked \/ checked' = [checked EXCEPT ![t] = -1]
        /\ \/ parked' = parked
           \/ parked' = [parked EXCEPT ![t] = NotParked]
           \/ parked' = [parked EXCEPT ![t] = Park(t, drive[t], seq'[t], store')]
    BY <1>8, EndsMove, EndsStore, DriveEndsMakes DEF loop
  <2>3. CASE u # t
    <3>1. RowSame(u) /\ running'[u] = running[u] /\ checked'[u] = checked[u]
          /\ parked'[u] = parked[u]
      BY <2>1, <2>2, <2>3 DEF Moved, Typed, RunnersTyped, MemoryTyped
    <3> QED
      BY <1>1, <2>2, <3>1 DEF RowSame, LeaseNoted
  <2>4. CASE u = t
    <3>1. running[u] # "no" /\ running'[u] = "no"
      BY <2>1, <2>2, <2>4 DEF CandidatesSound, Typed, RunnersTyped
    <3>2. checked[u] < seq[u]
      BY <1>o, <3>1 DEF HiddenNothing
    <3>3. checked'[u] \in {checked[u], -1} /\ seq'[u] \in {seq[u], seq[u] + 1}
      BY <2>1, <2>2, <2>4 DEF RowSame, Typed, MemoryTyped
    <3> QED
      BY <1>n, <3>1, <3>2, <3>3 DEF HiddenNothing
  <2> QED
    BY <2>3, <2>4
<1>9. CASE UNCHANGED vars
  BY <1>1, <1>9 DEF vars, durable, memory, runners, loop, LeaseNoted
<1> QED
  BY <1>2, <1>11, <1>3, <1>4, <1>5, <1>6, <1>7, <1>8, <1>9, StepsAre

CausedParking(t) ==
  parked[t] # NotParked /\ parked[t].seq = seq[t] =>
    /\ parked[t].key = <<t, call[t]>> /\ work[t] = "output"
    /\ parked[t].when = "never" =>
         \/ parked[t].key \notin DOMAIN store
         \/ store[parked[t].key].attempts >= MaxAttempts

LEMMA ParkedForCauseStep ==
  ASSUME IInv, [Next]_vars
  PROVE  ParkedForCause'
<1> USE DEF IInv
<1>s. SUFFICES ASSUME NEW u \in Threads PROVE CausedParking(u)'
  BY DEF ParkedForCause, CausedParking
<1>o. CausedParking(u)
  BY DEF ParkedForCause, CausedParking
<1>n. /\ seq[u] \in Nat /\ parked[u] \in Parking /\ parked[u].seq \in Nat \union {-1}
      /\ parked[u].seq <= seq[u]
  BY NumbersTyped DEF ReadSound
<1>e. Entries(store)
  BY DEF Typed, StoreTyped, Entries, Entry
<1>1. CASE /\ parked'[u] = parked[u] /\ seq'[u] = seq[u] /\ call'[u] = call[u]
           /\ work'[u] = work[u] /\ store' = store
  BY <1>o, <1>1 DEF CausedParking
<1>2. CASE parked'[u] = parked[u] /\ seq'[u] = seq[u] + 1
  BY <1>n, <1>2 DEF CausedParking
<1>3. CASE ReadSeqs \/ ReadLeases \/ Sleep \/ \E t \in Threads : IdleElapses(t)
  BY <1>1, <1>3 DEF ReadSeqs, ReadLeases, Sleep, IdleElapses, durable, memory
<1>4. CASE Account
  BY <1>1, <1>4, AccountMakes DEF durable
<1>5. ASSUME NEW t \in Threads, Scan(t) PROVE CausedParking(u)'
  <2>1. /\ UNCHANGED <<work, call, seq, store>>
        /\ u # t => parked'[u] = parked[u]
    BY <1>5, ScanMakes DEF durable
  <2>2. CASE parked'[u] = parked[u]
    BY <1>1, <2>1, <2>2
  <2>3. CASE parked'[u] = NotParked
    BY <2>1, <2>3 DEF CausedParking
  <2>4. seqs[u] \in Nat \union {-1}
    BY NumbersTyped
  <2>5. CASE /\ parked[u].seq = seqs[u] /\ parked[u] # NotParked
             /\ parked'[u] = Park(u, parked[u].key, seqs[u], store)
    <3>1. parked[u].key \in Keys \union {NoKey}
      BY <1>n DEF Parking
    <3>2. /\ parked'[u].key = parked[u].key /\ parked'[u].seq = seqs[u]
          /\ parked'[u].when = "never" => \/ parked[u].key \notin DOMAIN store
                                          \/ store[parked[u].key].attempts >= MaxAttempts
      BY <1>e, <2>4, <2>5, <3>1, ParkMakes
    <3> QED
      BY <1>o, <2>1, <2>5, <3>2 DEF CausedParking
  <2>6. CASE RecoveryKey(u) # NoKey /\ parked'[u] = Park(u, RecoveryKey(u), seqs[u], store)
    <3>1. /\ RecoveryKey(u) \in Keys \union {NoKey} /\ RecoveryKey(u) = <<u, call[u]>>
          /\ work[u] = "output"
      BY <2>6, KeysOf DEF Typed
    <3>2. /\ parked'[u].key = RecoveryKey(u)
          /\ parked'[u].when = "never" => \/ RecoveryKey(u) \notin DOMAIN store
                                          \/ store[RecoveryKey(u)].attempts >= MaxAttempts
      BY <1>e, <2>4, <2>6, <3>1, ParkMakes
    <3> QED
      BY <2>1, <3>1, <3>2 DEF CausedParking
  <2> QED
    BY <1>5, <2>1, <2>2, <2>3, <2>5, <2>6, ScanMakes DEF memory
<1>6. ASSUME NEW c \in cands, Start(c) PROVE CausedParking(u)'
  BY <1>1, <1>6, StartMakes DEF durable
<1>7. ASSUME NEW t \in Threads, Environment(t) \/ LeaseExpires(t) \/ Begin(t)
      PROVE  CausedParking(u)'
  <2>1. Moved(t) /\ UNCHANGED <<parked, store>> /\ call' = call
    BY <1>7, OutsideMoves, BeginMoves DEF memory
  <2> QED
    BY <1>1, <1>2, <2>1 DEF Moved, RowSame
<1>8. ASSUME NEW k \in DOMAIN store, BackoffEnds(k) PROVE CausedParking(u)'
  <2>1. store' = [store EXCEPT ![k].wait = FALSE] /\ UNCHANGED <<work, call, seq, parked>>
    BY <1>8 DEF BackoffEnds, durable, memory
  <2>2. /\ DOMAIN store' = DOMAIN store
        /\ \A x \in DOMAIN store : store'[x].attempts = store[x].attempts
    <3>1. store[k] \in [attempts : 1..MaxAttempts, wait : BOOLEAN]
      BY DEF Typed, StoreTyped
    <3> QED
      BY <2>1, <3>1
  <2> QED
    BY <1>o, <2>1, <2>2 DEF CausedParking
<1>9. ASSUME NEW t \in Threads, Ends(t) PROVE CausedParking(u)'
  <2>1. /\ Moved(t) /\ DbTyped' /\ \/ seq'[t] = seq[t] + 1
                                   \/ RowSame(t) /\ store' = store
    <3>1. Moved(t) /\ DbTyped' /\ (seq'[t] = seq[t] + 1 \/ RowSame(t))
      BY <1>9, EndsMove
    <3>2. store' = store \/ seq'[t] = seq[t] + 1
      BY <1>9 DEF Ends, RunNothing, EndTurn, Publish, FailToPublish, RunLost, Append,
                  Typed, DbTyped
    <3> QED
      BY <3>1, <3>2
  <2>2. /\ Entries(store')
        /\ \A k \in DOMAIN store' : \/ k \in DOMAIN store /\ store'[k] = store[k]
                                    \/ k = <<t, call'[t]>>
    BY <1>9, EndsStore
  <2>3. \/ parked' = parked
        \/ parked' = [parked EXCEPT ![t] = NotParked]
        \/ /\ work'[t] = "output" /\ drive[t] = <<t, call'[t]>>
           /\ parked' = [parked EXCEPT ![t] = Park(t, drive[t], seq'[t], store')]
    BY <1>9, EndsMove, EndsStore, DriveEndsMakes
  <2>4. CASE u # t
    <3>1. RowSame(u) /\ parked'[u] = parked[u]
      BY <2>1, <2>3, <2>4 DEF Moved, Typed, MemoryTyped
    <3>2. <<u, call[u]>> \in DOMAIN store' =>
            /\ <<u, call[u]>> \in DOMAIN store
            /\ store'[<<u, call[u]>>] = store[<<u, call[u]>>]
      BY <2>2, <2>4
    <3> QED
      BY <1>o, <3>1, <3>2 DEF CausedParking, RowSame
  <2>5. CASE u = t
    <3>1. CASE parked' = parked
      BY <1>1, <1>2, <2>1, <2>5, <3>1 DEF RowSame
    <3>2. CASE parked' = [parked EXCEPT ![t] = NotParked]
      BY <2>5, <3>2 DEF CausedParking, Typed, MemoryTyped
    <3>3. CASE /\ work'[t] = "output" /\ drive[t] = <<t, call'[t]>>
               /\ parked' = [parked EXCEPT ![t] = Park(t, drive[t], seq'[t], store')]
      <4>1. parked'[t] = Park(t, drive[t], seq'[t], store')
        BY <3>3 DEF Typed, MemoryTyped
      <4>2. drive[t] \in Keys \union {NoKey} /\ seq'[t] \in Nat
        BY <2>1 DEF Typed, RunnersTyped, DbTyped
      <4>3. /\ parked'[t].key = drive[t]
            /\ parked'[t].when = "never" => \/ drive[t] \notin DOMAIN store'
                                            \/ store'[drive[t]].attempts >= MaxAttempts
        BY <2>2, <4>1, <4>2, ParkMakes
      <4> QED
        BY <2>5, <3>3, <4>3 DEF CausedParking
    <3> QED
      BY <2>3, <3>1, <3>2, <3>3
  <2> QED
    BY <2>4, <2>5
<1>10. CASE UNCHANGED vars
  BY <1>1, <1>10 DEF vars, durable, memory
<1> QED
  BY <1>3, <1>4, <1>5, <1>6, <1>7, <1>8, <1>9, <1>10, StepsAre

-----------------------------------------------------------------------------
(* The invariant, and what follows from it. *)

LEMMA InitSound == Init => IInv
<1> SUFFICES ASSUME Init PROVE IInv
  OBVIOUS
<1>1. Typed
  BY SchedulerAssumption DEF Init, Typed, DbTyped, LoopTyped, MemoryTyped, RunnersTyped,
     StoreTyped, BoundsTyped, Parking, NotParked, Work
<1>2. AttemptsLeft /\ CandidatesSound /\ SlotsCounted
  BY DEF Init, AttemptsLeft, CandidatesSound, SlotsCounted
<1>3. WithinSlots
  <2>1. /\ {t \in Threads : running[t] = "llm"} = {} /\ {t \in Threads : running[t] = "tool"} = {}
    BY DEF Init
  <2>2. /\ Cardinality({t \in Threads : running[t] = "llm"}) = 0
        /\ Cardinality({t \in Threads : running[t] = "tool"}) = 0
    BY <2>1, FS_EmptySet
  <2>3. 0 <= MaxLlm /\ 0 <= MaxTool
    BY SchedulerAssumption
  <2> QED
    BY <2>2, <2>3 DEF WithinSlots
<1>4. ReadSound /\ NothingHidden
  BY DEF Init, ReadSound, NothingHidden, Fresh, NotParked
<1>5. ParkedForCause
  BY DEF Init, ParkedForCause
<1> QED
  BY <1>1, <1>2, <1>3, <1>4, <1>5 DEF IInv

LEMMA StepSound == IInv /\ [Next]_vars => IInv'
<1> SUFFICES ASSUME IInv, [Next]_vars PROVE IInv'
  OBVIOUS
<1>1. Typed'
  BY TypedStep DEF IInv
<1>2. AttemptsLeft'
  BY AttemptsLeftStep DEF IInv
<1>3. CandidatesSound'
  BY CandidatesSoundStep
<1>4. WithinSlots' /\ SlotsCounted'
  BY SlotsStep
<1>5. ReadSound'
  BY <1>1, ReadSoundStep
<1>6. NothingHidden' /\ ParkedForCause'
  BY NothingHiddenStep, ParkedForCauseStep
<1> QED
  BY <1>1, <1>2, <1>3, <1>4, <1>5, <1>6 DEF IInv

\* The scheduler's loop, its runners and everybody else keep the invariant.
THEOREM SchedulerInvariant == Spec => []IInv
BY InitSound, StepSound, PTL DEF Spec

\* Every variable keeps its type, the entries of the retry store their bound.
THEOREM SchedulerTyped == Spec => []TypeOK
<1>1. IInv => TypeOK
  BY TypeOKParts DEF IInv
<1> QED
  BY <1>1, SchedulerInvariant, PTL

\* Runners never outnumber the slots of their class, however many threads there
\* are and whatever happens between the count and the last start of a turn.
THEOREM SlotsRespected == Spec => []WithinSlots
<1>1. IInv => WithinSlots
  BY DEF IInv
<1> QED
  BY <1>1, SchedulerInvariant, PTL

\* A watermark that is up to date hides no work: what the loop read was never
\* newer than the log, and a lease that ends without an event was noted before,
\* if a lease outlasts a turn of the loop.
THEOREM WatermarkHidesNothing == ASSUME LeaseOutlastsTurn PROVE Spec => []NoHiddenWork
<1>1. IInv => NoHiddenWork
  BY DEF IInv, NothingHidden, NoHiddenWork
<1> QED
  BY <1>1, SchedulerInvariant, PTL

\* A thread is parked for its own unpublished call, and for good only when the
\* retry store gave up on the call or never took it.
THEOREM ParkedRightly == Spec => []ParkedForCause
<1>1. IInv => ParkedForCause
  BY DEF IInv
<1> QED
  BY <1>1, SchedulerInvariant, PTL

=============================================================================
