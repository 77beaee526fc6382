-------------------------- MODULE ContinuationProofs --------------------------
(***************************************************************************)
(* What a continuation does and does not do, for any log, any number of    *)
(* processes, failures, messages, interrupts and continuations.  The log   *)
(* only grows, and what one entry strikes out lies before it; so whatever  *)
(* was true of the log when the fence was looked at is true of the entries *)
(* that the continuation strikes out.                                      *)
(***************************************************************************)
EXTENDS Continuation, Extrema, FiniteSetTheorems, TLAPS

-----------------------------------------------------------------------------
(* The log. *)

IsLog(L) == L \in Seq(Entry) /\ Len(L) # 0

Continued(L) == Of(L, {"retry", "continue"})

Asks == {"user", "request"}

\* A log grows, and what it held stays.
Grows(L, M) ==
  /\ Len(M) >= Len(L)
  /\ \A k \in 1..Len(L) : M[k] = L[k]

\* One entry is recorded.
Records(L, e, M) == e \in Entry /\ M = Append(L, e)

LEMMA LogIs ==
  ASSUME NEW L, IsLog(L)
  PROVE  /\ Len(L) \in Nat /\ Len(L) > 0 /\ DOMAIN L = 1..Len(L)
         /\ \A k \in 1..Len(L) : L[k] \in Entry /\ L[k].at \in Nat
<1>1. Len(L) \in Nat /\ DOMAIN L = 1..Len(L) /\ L \in [1..Len(L) -> Entry]
  BY DEF IsLog
<1>2. \A k \in 1..Len(L) : L[k] \in Entry /\ L[k].at \in Nat
  BY <1>1 DEF Entry
<1> QED
  BY <1>1, <1>2 DEF IsLog

LEMMA EntriesOf ==
  ASSUME NEW L, IsLog(L), NEW types
  PROVE  /\ Of(L, types) = {k \in 1..Len(L) : L[k].type \in types}
         /\ Of(L, types) \subseteq 1..Len(L)
         /\ Effective(L, types) \subseteq Of(L, types)
<1>1. Of(L, types) = {k \in 1..Len(L) : L[k].type \in types}
  BY LogIs DEF Of
<1> QED
  BY <1>1 DEF Effective

\* What recording one entry makes of a log.
LEMMA RecordsMake ==
  ASSUME NEW L, IsLog(L), NEW e, NEW M, Records(L, e, M)
  PROVE  /\ IsLog(M) /\ Grows(L, M)
         /\ Len(M) = Len(L) + 1 /\ M[Len(L) + 1] = e /\ Last(M) = e
         /\ \A types : Of(M, types) =
              Of(L, types) \union (IF e.type \in types THEN {Len(L) + 1} ELSE {})
<1>1. /\ M \in Seq(Entry) /\ Len(M) = Len(L) + 1 /\ Len(L) \in Nat
      /\ DOMAIN M = 1..(Len(L) + 1) /\ DOMAIN L = 1..Len(L)
      /\ \A k \in 1..Len(L) : M[k] = L[k]
      /\ M[Len(L) + 1] = e
  BY DEF IsLog, Records
<1>2. IsLog(M) /\ Grows(L, M)
  BY <1>1 DEF IsLog, Grows
<1>3. Last(M) = e
  BY <1>1 DEF Last
<1>4. ASSUME NEW types
      PROVE  Of(M, types) =
              Of(L, types) \union (IF e.type \in types THEN {Len(L) + 1} ELSE {})
  BY <1>1 DEF Of
<1> QED
  BY <1>1, <1>2, <1>3, <1>4

LEMMA RecordsOf ==
  ASSUME NEW L, IsLog(L), NEW e, NEW M, Records(L, e, M), NEW types
  PROVE  /\ e.type \notin types => Of(M, types) = Of(L, types)
         /\ e.type \in types => Of(M, types) = Of(L, types) \union {Len(L) + 1}
<1>1. Of(M, types) = Of(L, types) \union (IF e.type \in types THEN {Len(L) + 1} ELSE {})
  BY RecordsMake
<1> QED
  BY <1>1

LEMMA RecordsGrow ==
  \A L, e, M : IsLog(L) /\ Records(L, e, M) => IsLog(M) /\ Grows(L, M)
BY RecordsMake

LEMMA GrowsKeeps ==
  ASSUME NEW L, NEW M, IsLog(L), IsLog(M), Grows(L, M), NEW types
  PROVE  /\ Of(L, types) \subseteq Of(M, types)
         /\ \A k \in Of(M, types) : k <= Len(L) => k \in Of(L, types)
<1>1. /\ Of(L, types) = {k \in 1..Len(L) : L[k].type \in types}
      /\ Of(M, types) = {k \in 1..Len(M) : M[k].type \in types}
      /\ Len(L) \in Nat /\ Len(M) \in Nat
  BY EntriesOf, LogIs
<1> QED
  BY <1>1 DEF Grows

\* What is struck out stays struck out.
LEMMA StruckOutStays ==
  ASSUME NEW L, NEW M, IsLog(L), IsLog(M), Grows(L, M)
  PROVE  StruckOut(L) \subseteq StruckOut(M)
<1>1. \A types : Of(L, types) \subseteq Of(M, types)
  BY GrowsKeeps
<1>2. \A c \in Of(L, {"retry", "continue"}) : M[c] = L[c]
  BY EntriesOf DEF Grows
<1> QED
  BY <1>1, <1>2 DEF StruckOut, Messages

\* A continuation strikes out what lies between its target and its own entry;
\* any other entry strikes out nothing.
LEMMA StrikesOut ==
  ASSUME NEW L, IsLog(L), NEW e, NEW M, Records(L, e, M)
  PROVE  /\ e.type \in {"retry", "continue"} =>
              StruckOut(M) = StruckOut(L) \union {m \in Messages(L) : e.at < m}
         /\ e.type \notin {"retry", "continue"} => StruckOut(M) = StruckOut(L)
<1> DEFINE n == Len(L) + 1
<1>1. /\ n \in Nat /\ M[n] = e /\ \A k \in 1..Len(L) : M[k] = L[k]
      /\ \A types : Of(M, types) = Of(L, types) \union (IF e.type \in types THEN {n} ELSE {})
  BY RecordsMake, LogIs DEF Grows
<1>2. \A types : \A k \in Of(L, types) : k \in Nat /\ k < n /\ M[k] = L[k]
  BY <1>1, EntriesOf, LogIs
<1>3. Messages(M) = Messages(L) \/ Messages(M) = Messages(L) \union {n}
  BY <1>1 DEF Messages
<1>4. \A m \in Messages(L) : m \in Nat /\ m < n
  BY <1>2 DEF Messages
<1>5. \A c \in Continued(L) : c < n /\ c \in Nat /\ M[c] = L[c]
  BY <1>2 DEF Continued
<1>6. /\ StruckOut(M) = {m \in Messages(M) : \E c \in Continued(M) : M[c].at < m /\ m < c}
      /\ StruckOut(L) = {m \in Messages(L) : \E c \in Continued(L) : L[c].at < m /\ m < c}
  BY DEF StruckOut, Continued
<1>7. CASE e.type \in {"retry", "continue"}
  <2>1. Continued(M) = Continued(L) \union {n}
    BY <1>1, <1>7 DEF Continued
  <2> HIDE DEF n
  <2> QED
    BY <1>1, <1>3, <1>4, <1>5, <1>6, <1>7, <2>1
<1>8. CASE e.type \notin {"retry", "continue"}
  <2>1. Continued(M) = Continued(L)
    BY <1>1, <1>8 DEF Continued
  <2> HIDE DEF n
  <2> QED
    BY <1>1, <1>3, <1>4, <1>5, <1>6, <1>8, <2>1
<1> QED
  BY <1>7, <1>8

-----------------------------------------------------------------------------
(* The inductive invariant. *)

Counted == used \in [messages : Nat, continues : Nat, interrupts : Nat, faults : Nat,
                      silent : Nat]

Typed == TypeOK /\ IsLog(log) /\ Counted

\* Who holds a live lease opened it after the last continuation.
OpenedSince ==
  Live => \A c \in Continued(log) : \E o \in Of(log, {"open"}) : c < o

Failures == {"failure", "overflowed"}

\* A runner that has failed still has the lease, or writes a request, or is
\* past the release and going to look for the failure.
InHand(r, k) ==
  /\ runner[r].trigger = log[k].at
  /\ \/ /\ runner[r].pc \in {"ended", "closed"} /\ Holds(r)
        /\ runner[r].quiet \/ log[k].type = "failure"
     \/ runner[r].pc = "compacting"
     \/ runner[r].pc \in {"released", "waiting"} /\ log[k].type = "failure"

FailuresHeard ==
  \A k \in Of(log, Failures) :
    /\ log[k].at < k
    /\ used.faults = 0 /\ log[k].arg # "refused" =>
         Settled(k) \/ \E r \in Runners : InHand(r, k)

\* While no lease is lost, who is in a turn has it, and what was looked at before
\* a request is still so.
Undisturbed == used.faults = 0 /\ used.interrupts = 0

LeasesKept ==
  Undisturbed => \A r \in Runners :
    /\ runner[r].pc \in InTurn => Holds(r)
    /\ runner[r].pc = "compacting" => ~Pending(log)

IInv == Typed /\ LeasesKept /\ CheckpointOnce /\ OpenedSince /\ FailuresHeard

-----------------------------------------------------------------------------
(* What is read of the log. *)

LEMMA TriggerIs ==
  ASSUME Typed
  PROVE  NextTrigger(log) # 0 => NextTrigger(log) \in Effective(log, Asks)
<1> DEFINE S == {m \in Effective(log, Asks) : m > Boundary(log)}
<1>1. S \in SUBSET Nat
  BY EntriesOf, LogIs DEF Typed
<1>2. S # {} => Min(S) \in S
  <2> HIDE DEF S
  <2> QED
    BY <1>1, MinIs
<1>3. NextTrigger(log) = IF S = {} THEN 0 ELSE Min(S)
  BY DEF NextTrigger, Asks
<1> QED
  BY <1>2, <1>3

LEMMA SourceIs ==
  ASSUME Typed, NEW t \in Nat
  PROVE  LET s == SourceAfter(t)
         IN  /\ s # 0 => s \in Of(log, {"failure"}) /\ s \notin StruckOut(log) /\ s > t
             /\ \A k \in Effective(log, {"failure"}) : k > t => s # 0
<1> DEFINE S == {0} \cup {s \in Effective(log, {"failure"}) : s > t}
<1>1. Len(log) \in Nat /\ S \in SUBSET (0..Len(log)) /\ S # {}
  BY EntriesOf, LogIs DEF Typed
<1>2. Max(S) \in S /\ \A x \in S : x <= Max(S)
  <2> HIDE DEF S
  <2>1. S \in SUBSET Int /\ Len(log) \in Int /\ \A x \in S : x <= Len(log)
    BY <1>1
  <2> QED
    BY <1>1, <2>1, MaxIs
<1>3. SourceAfter(t) = Max(S)
  BY DEF SourceAfter
<1>4. Max(S) # 0 => Max(S) \in Of(log, {"failure"}) /\ Max(S) \notin StruckOut(log) /\ Max(S) > t
  BY <1>2 DEF Effective
<1>5. \A k \in Effective(log, {"failure"}) : k > t => Max(S) # 0
  <2> SUFFICES ASSUME NEW k \in Effective(log, {"failure"}), k > t, Max(S) = 0 PROVE FALSE
    OBVIOUS
  <2>1. k \in S /\ k \in Nat /\ k <= 0
    BY <1>1, <1>2
  <2> QED
    BY <2>1
<1> QED
  BY <1>3, <1>4, <1>5

-----------------------------------------------------------------------------
(* What a step writes. *)

\* What neither asks the model for a checkpoint, nor fails, nor continues.
Ordinary == {"user", "open", "answer", "close", "interrupt", "notice"}

Plain(L, M) ==
  /\ IsLog(M) /\ Grows(L, M)
  /\ \A types : types \cap Ordinary = {} => Of(M, types) = Of(L, types)
  /\ StruckOut(M) = StruckOut(L)
  /\ Len(M) > Len(L) => Last(M).type \in Ordinary

LEMMA PlainNothing ==
  ASSUME NEW L, IsLog(L)
  PROVE  Plain(L, L)
BY LogIs DEF Plain, Grows

LEMMA PlainRecord ==
  ASSUME NEW L, IsLog(L), NEW e, NEW M, Records(L, e, M), e.type \in Ordinary
  PROVE  Plain(L, M)
<1>1. IsLog(M) /\ Grows(L, M) /\ Last(M) = e
  BY RecordsMake
<1>2. StruckOut(M) = StruckOut(L)
  BY StrikesOut DEF Ordinary
<1>3. ASSUME NEW types, types \cap Ordinary = {}
      PROVE  Of(M, types) = Of(L, types)
  <2>1. Of(M, types) = Of(L, types) \union (IF e.type \in types THEN {Len(L) + 1} ELSE {})
    BY RecordsMake
  <2>2. e.type \notin types
    BY <1>3
  <2> QED
    BY <2>1, <2>2
<1> QED
  BY <1>1, <1>2, <1>3 DEF Plain

LEMMA PlainTwice ==
  ASSUME NEW L, NEW M, NEW N, IsLog(L), Plain(L, M), NEW e, Records(M, e, N),
         e.type \in Ordinary
  PROVE  Plain(L, N)
<1>1. IsLog(M) /\ Grows(L, M)
  BY DEF Plain
<1>2. Plain(M, N) /\ Last(N) = e /\ IsLog(N) /\ Grows(M, N)
  BY <1>1, PlainRecord, RecordsMake
<1>3. Len(L) \in Nat /\ Len(M) \in Nat /\ Len(N) \in Nat
  BY <1>1, <1>2, LogIs
<1>4. Grows(L, N)
  BY <1>1, <1>2, <1>3 DEF Grows
<1>5. StruckOut(N) = StruckOut(L) /\ \A types : types \cap Ordinary = {} => Of(N, types) = Of(L, types)
  BY <1>2 DEF Plain
<1> QED
  BY <1>2, <1>4, <1>5 DEF Plain

\* A turn's row in the memory of its runner.
TurnIs(L, x) ==
  /\ x \in [pc : Stages, trigger : 0..Len(L), source : 0..Len(L), quiet : BOOLEAN]
  /\ x.trigger # 0 => L[x.trigger].type \in Asks
  /\ x.source # 0 => L[x.source].type = "failure"

LeaseIs(l) == l = NoLease \/ l \in [by : Runners, live : BOOLEAN]

AskedIs(L, a) == a = <<>> \/ a \in (0..Len(L)) \X (1..Len(L))

TypesFit ==
  /\ IsLog(log) /\ Counted /\ LeaseIs(lease) /\ AskedIs(log, asked)
  /\ stop \in 0..Len(log)
  /\ runner = [r \in Runners |-> runner[r]]
  /\ \A r \in Runners : TurnIs(log, runner[r])

LEMMA TypedIs ==
  Typed <=> TypesFit
<1>1. ASSUME Typed
      PROVE  TypesFit
  BY <1>1 DEF Typed, TypeOK, LeaseIs, AskedIs, TurnIs, Asks, TypesFit
<1>2. ASSUME TypesFit
      PROVE  Typed
  <2>1. runner \in [Runners -> [pc : Stages, trigger : 0..Len(log), source : 0..Len(log),
                                quiet : BOOLEAN]]
    <3>1. \A r \in Runners : runner[r] \in [pc : Stages, trigger : 0..Len(log),
                                             source : 0..Len(log), quiet : BOOLEAN]
      BY <1>2 DEF TypesFit, TurnIs
    <3> QED
      BY <3>1, <1>2 DEF TypesFit
  <2>2. \A r \in Runners :
          /\ runner[r].trigger # 0 => log[runner[r].trigger].type \in {"user", "request"}
          /\ runner[r].source # 0 => log[runner[r].source].type = "failure"
    BY <1>2 DEF TypesFit, TurnIs, Asks
  <2> QED
    BY <1>2, <2>1, <2>2 DEF TypesFit, Typed, TypeOK, LeaseIs, AskedIs, IsLog
<1> QED
  BY <1>1, <1>2

LEMMA TurnStays ==
  ASSUME NEW L, NEW M, IsLog(L), IsLog(M), Grows(L, M), NEW x, TurnIs(L, x)
  PROVE  TurnIs(M, x)
<1>1. Len(L) \in Nat /\ Len(M) \in Nat /\ Len(L) <= Len(M)
  BY LogIs DEF Grows
<1>2. x.trigger \in 0..Len(L) /\ x.source \in 0..Len(L)
  BY DEF TurnIs
<1>3. \A k \in 1..Len(L) : M[k] = L[k]
  BY DEF Grows
<1>4. x.trigger # 0 => M[x.trigger] = L[x.trigger]
  BY <1>1, <1>2, <1>3
<1>5. x.source # 0 => M[x.source] = L[x.source]
  BY <1>1, <1>2, <1>3
<1>6. x \in [pc : Stages, trigger : 0..Len(M), source : 0..Len(M), quiet : BOOLEAN]
  BY <1>1 DEF TurnIs
<1> QED
  BY <1>4, <1>5, <1>6 DEF TurnIs

\* Types are kept by a step that lets the log grow and sets at most one
\* runner's turn to one that fits.
LEMMA TypedStays ==
  ASSUME Typed, IsLog(log'), Grows(log, log'), LeaseIs(lease'), Counted',
         asked' \in {asked, <<>>}, stop' \in {stop, Len(log')},
         \/ runner' = runner
         \/ \E r \in Runners : \E x : TurnIs(log', x) /\ runner' = [runner EXCEPT ![r] = x]
  PROVE  Typed'
<1>1. Len(log) \in Nat /\ Len(log') \in Nat /\ Len(log) <= Len(log')
  BY LogIs DEF Grows, Typed
<1>2. AskedIs(log', asked')
  BY <1>1, TypedIs DEF AskedIs, TypesFit
<1>3. stop' \in 0..Len(log')
  BY <1>1, TypedIs DEF TypesFit
<1>4. \A r \in Runners : TurnIs(log', runner[r])
  BY TypedIs, TurnStays DEF TypesFit, Typed
<1>5. runner = [r \in Runners |-> runner[r]]
  BY TypedIs DEF TypesFit
<1>6. runner' = [r \in Runners |-> runner'[r]] /\ \A r \in Runners : TurnIs(log', runner'[r])
  BY <1>4, <1>5
<1>7. TypesFit'
  BY <1>2, <1>3, <1>6 DEF TypesFit
<1>8. Typed' <=> TypesFit'
  BY TypedIs, PTL
<1> QED
  BY <1>7, <1>8

-----------------------------------------------------------------------------
(* Every action, by what it writes. *)

Asking(r) ==
  /\ runner[r].pc = "released"
  /\ SourceAfter(runner[r].trigger) # 0
  /\ RequestCheckpoint(r, SourceAfter(runner[r].trigger))

Posting(r) ==
  /\ runner[r].pc = "compacting"
  /\ log' = Append(log, E("request", runner[r].trigger, ""))
  /\ UNCHANGED <<lease, used>>

Failing(r) ==
  /\ runner[r].pc = "streaming"
  /\ Holds(r)
  /\ \E e \in Entry :
       /\ log' = Append(log, e) /\ e.type \in Failures /\ e.at = runner[r].trigger
       /\ runner'[r].quiet \/ e.type = "failure"
  /\ runner'[r].pc = "ended" /\ runner'[r].trigger = runner[r].trigger
  /\ UNCHANGED lease

Refusing(r) ==
  /\ runner[r].pc = "closed"
  /\ log' = Append(log, E("failure", runner[r].trigger, "refused"))
  /\ UNCHANGED lease

Retrying(r) ==
  /\ runner[r].pc = "waiting"
  /\ Fence(runner[r].trigger, runner[r].source)
  /\ log' = Append(log, E("retry", runner[r].trigger, ""))
  /\ Rests(r)

Continuing ==
  /\ asked # <<>>
  /\ Unchanged(asked[2])
  /\ ~Live
  /\ \E m \in Targets : log' = Append(log, E("continue", m, ""))

Writes ==
  \/ Plain(log, log')
  \/ \E r \in Runners : Asking(r) \/ Posting(r) \/ Failing(r) \/ Refusing(r) \/ Retrying(r)
  \/ Continuing

OneTurn ==
  \/ runner' = runner
  \/ \E r \in Runners : \E x : TurnIs(log', x) /\ runner' = [runner EXCEPT ![r] = x]

LEMMA GoesFits ==
  ASSUME Typed, NEW r \in Runners, IsLog(log'), Grows(log, log'),
         NEW pc \in Stages, Goes(r, pc)
  PROVE  /\ OneTurn
         /\ runner'[r].pc = pc /\ runner'[r].trigger = runner[r].trigger
         /\ runner'[r].quiet = runner[r].quiet
<1> DEFINE x == [runner[r] EXCEPT !.pc = pc]
<1>1. TurnIs(log', runner[r])
  BY TypedIs, TurnStays DEF TypesFit, Typed
<1>2. TurnIs(log', x) /\ x.pc = pc /\ x.trigger = runner[r].trigger /\ x.quiet = runner[r].quiet
  BY <1>1 DEF TurnIs
<1>3. runner' = [runner EXCEPT ![r] = x] /\ DOMAIN runner = Runners
  <2>1. runner = [q \in Runners |-> runner[q]]
    BY TypedIs DEF TypesFit
  <2> QED
    BY <2>1 DEF Goes
<1>4. runner'[r] = x
  BY <1>3
<1> QED
  BY <1>2, <1>3, <1>4 DEF OneTurn

\* A runner whose turn goes on with another source, or more quietly.
LEMMA ChangesFit ==
  ASSUME Typed, NEW r \in Runners, IsLog(log'), Grows(log, log'),
         NEW pc \in Stages, NEW s \in {0} \union Of(log, {"failure"}), NEW quiet \in BOOLEAN,
         \/ runner' = [runner EXCEPT ![r] = [@ EXCEPT !.pc = pc, !.source = s, !.quiet = quiet]]
         \/ /\ runner' = [runner EXCEPT ![r] = [@ EXCEPT !.pc = pc, !.quiet = quiet]]
            /\ s = runner[r].source
         \/ /\ runner' = [runner EXCEPT ![r] = [@ EXCEPT !.pc = pc, !.source = s]]
            /\ quiet = runner[r].quiet
  PROVE  /\ OneTurn
         /\ runner'[r].pc = pc /\ runner'[r].trigger = runner[r].trigger
         /\ runner'[r].quiet = quiet
<1>1. TurnIs(log, runner[r]) /\ IsLog(log) /\ DOMAIN runner = Runners
  <2>1. runner = [q \in Runners |-> runner[q]]
    BY TypedIs DEF TypesFit
  <2> QED
    BY <2>1, TypedIs DEF TypesFit
<1>2. Len(log) \in Nat /\ (s # 0 => s \in 1..Len(log) /\ log[s].type = "failure")
      /\ s \in 0..Len(log)
  BY <1>1, EntriesOf, LogIs
<1> DEFINE x == [pc |-> pc, trigger |-> runner[r].trigger, source |-> s, quiet |-> quiet]
<1>3. TurnIs(log, x) /\ x.pc = pc /\ x.trigger = runner[r].trigger /\ x.quiet = quiet
  BY <1>1, <1>2 DEF TurnIs
<1>4. runner' = [runner EXCEPT ![r] = x]
  BY <1>1 DEF TurnIs
<1> HIDE DEF x
<1>5. TurnIs(log', x)
  BY <1>1, <1>3, TurnStays
<1>6. runner'[r] = x
  BY <1>1, <1>4
<1> QED
  BY <1>3, <1>4, <1>5, <1>6 DEF OneTurn

LEMMA IdleFits ==
  ASSUME NEW L, IsLog(L)
  PROVE  TurnIs(L, Idle)
<1>1. Len(L) \in Nat
  BY LogIs
<1> QED
  BY <1>1 DEF Idle, TurnIs, Stages, InTurn

LEMMA RestsFits ==
  ASSUME NEW r \in Runners, IsLog(log'), Rests(r)
  PROVE  OneTurn
BY IdleFits DEF OneTurn, Rests

LEMMA TriggerTyped ==
  ASSUME Typed, NEW r \in Runners
  PROVE  /\ runner[r].trigger \in Nat /\ runner[r].trigger <= Len(log)
         /\ runner[r].source \in Nat /\ runner[r].source <= Len(log)
         /\ runner[r].trigger # 0 => runner[r].trigger \in Of(log, Asks)
         /\ runner[r].source # 0 => runner[r].source \in Of(log, {"failure"})
<1>1. TurnIs(log, runner[r]) /\ IsLog(log)
  BY TypedIs DEF TypesFit
<1>2. Len(log) \in Nat /\ \A types : Of(log, types) = {k \in 1..Len(log) : log[k].type \in types}
  BY <1>1, LogIs, EntriesOf
<1> QED
  BY <1>1, <1>2 DEF TurnIs

\* One ordinary entry, or none.
LEMMA WritesPlain ==
  ASSUME Typed,
         \/ UNCHANGED log
         \/ \E e : Records(log, e, log') /\ e.type \in Ordinary
  PROVE  Plain(log, log') /\ IsLog(log') /\ Grows(log, log')
BY PlainNothing, PlainRecord DEF Plain, Typed

\* A turn that starts, or is about to.
LEMMA TurnOf ==
  ASSUME NEW L, IsLog(L), NEW t \in 0..Len(L), t # 0 => L[t].type \in Asks,
         NEW pc \in {"planned", "streaming"}
  PROVE  TurnIs(L, [Idle EXCEPT !.pc = pc, !.trigger = t])
<1> DEFINE x == [Idle EXCEPT !.pc = pc, !.trigger = t]
           y == [Idle EXCEPT !.pc = pc]
<1>1. Len(L) \in Nat /\ t \in 0..Len(L)
  BY LogIs
<1>2. x = [y EXCEPT !.trigger = t]
  OBVIOUS
<1>3. x.trigger = t /\ x.source = 0
  BY DEF Idle
<1>4. y \in [pc : Stages, trigger : 0..Len(L), source : 0..Len(L), quiet : BOOLEAN]
  <2>1. TurnIs(L, Idle)
    BY IdleFits
  <2> QED
    BY <2>1 DEF TurnIs, Stages, InTurn
<1> HIDE DEF x, y
<1>5. TurnIs(L, x)
  BY <1>1, <1>2, <1>3, <1>4 DEF TurnIs
<1> QED
  BY <1>5 DEF x

LEMMA OpenWrites ==
  ASSUME Typed, NEW r \in Runners, NEW t \in 0..Len(log), t # 0 => log[t].type \in Asks, Open(r, t)
  PROVE  /\ Plain(log, log') /\ OneTurn /\ LeaseIs(lease')
         /\ Last(log').type = "open" /\ Len(log') > Len(log)
<1> DEFINE i == E("interrupt", 0, "")
           o == E("open", t, "")
<1>1. t \in Nat /\ IsLog(log) /\ Len(log) \in Nat
  BY LogIs DEF Typed
<1>2. i \in Entry /\ i.type = "interrupt" /\ o \in Entry /\ o.type = "open"
  BY <1>1 DEF E, Entry
<1>3. \/ log' = Append(log, o)
      \/ log' = Append(Append(log, i), o)
  <2>1. log \in Seq(Entry)
    BY <1>1 DEF IsLog
  <2> HIDE DEF i, o
  <2>2. log' = log \o (IF lease = NoLease THEN <<>> ELSE <<i>>) \o <<o>>
    BY DEF Open, i, o
  <2>3. \A M \in Seq(Entry) : M \o <<>> = M /\ M \o <<o>> = Append(M, o)
                               /\ M \o <<i>> = Append(M, i) /\ Append(M, i) \in Seq(Entry)
    BY <1>2
  <2>4. CASE lease = NoLease
    <3>1. log' = (log \o <<>>) \o <<o>>
      BY <2>2, <2>4
    <3> QED
      BY <2>1, <2>3, <3>1
  <2>5. CASE lease # NoLease
    <3>1. log' = (log \o <<i>>) \o <<o>>
      BY <2>2, <2>5
    <3> QED
      BY <2>1, <2>3, <3>1
  <2> QED
    BY <2>4, <2>5
<1> HIDE DEF i, o
<1>4. Plain(log, log') /\ Last(log') = o /\ Len(log') > Len(log)
  <2>1. CASE log' = Append(log, o)
    <3>1. Records(log, o, log')
      BY <1>2, <2>1 DEF Records
    <3> QED
      BY <1>1, <1>2, <3>1, PlainRecord, RecordsMake DEF Ordinary
  <2>2. CASE log' = Append(Append(log, i), o)
    <3> DEFINE M == Append(log, i)
    <3>1. Records(log, i, M) /\ Records(M, o, log')
      BY <1>2, <2>2 DEF Records
    <3> HIDE DEF M
    <3>2. Plain(log, M) /\ IsLog(M) /\ Len(M) = Len(log) + 1
      BY <1>1, <1>2, <3>1, PlainRecord, RecordsMake DEF Ordinary
    <3>3. Plain(log, log') /\ Last(log') = o /\ Len(log') = Len(M) + 1
      BY <1>1, <1>2, <3>1, <3>2, PlainTwice, RecordsMake DEF Ordinary
    <3> QED
      BY <1>1, <3>2, <3>3
  <2> QED
    BY <1>3, <2>1, <2>2
<1>5. IsLog(log') /\ Grows(log, log')
  BY <1>4 DEF Plain
<1>6. OneTurn
  <2>1. TurnIs(log', [Idle EXCEPT !.pc = "streaming", !.trigger = t])
    <3>1. TurnIs(log, [Idle EXCEPT !.pc = "streaming", !.trigger = t])
      BY <1>1, TurnOf
    <3> QED
      BY <1>1, <1>5, <3>1, TurnStays
  <2> QED
    BY <2>1 DEF OneTurn, Open
<1>7. LeaseIs(lease')
  BY DEF Open, LeaseIs
<1> QED
  BY <1>2, <1>4, <1>6, <1>7


\* What a step of a runner, of the user or of time leaves in order.
Keeps == IsLog(log') /\ Grows(log, log') /\ LeaseIs(lease') /\ OneTurn

LEMMA KeepsTyped ==
  ASSUME Typed, Keeps, Counted', asked' \in {asked, <<>>}, stop' \in {stop, Len(log')}
  PROVE  Typed'
BY TypedStays DEF Keeps, OneTurn

LEMMA ByRunnerTyped ==
  ASSUME Typed, Keeps, ByRunner
  PROVE  Typed'
BY KeepsTyped DEF ByRunner, Typed, Counted

LEMMA CountsTyped ==
  ASSUME Typed, NEW what \in {"messages", "continues", "interrupts", "faults", "silent"},
         NEW bound, Counts(what, bound)
  PROVE  /\ Counted'
         /\ what = "faults" => used'.faults # 0
         /\ what # "faults" => used'.faults = used.faults
         /\ what = "interrupts" => used'.interrupts # 0
         /\ what # "interrupts" => used'.interrupts = used.interrupts
BY DEF Typed, Counted, Counts

LEMMA BeginDoes ==
  ASSUME Typed, NEW r \in Runners, Begin(r)
  PROVE  Typed' /\ Plain(log, log')
<1> DEFINE t == NextTrigger(log)
<1>1. t \in 1..Len(log) /\ log[t].type \in Asks /\ Open(r, t)
  BY TriggerIs, EntriesOf DEF Begin, Typed
<1>2. t \in 0..Len(log)
  BY <1>1
<1> HIDE DEF t
<1>3. Plain(log, log') /\ OneTurn /\ LeaseIs(lease')
  BY <1>1, <1>2, OpenWrites
<1>4. Keeps /\ ByRunner
  BY <1>3 DEF Keeps, Plain, Begin
<1> QED
  BY <1>3, <1>4, ByRunnerTyped

LEMMA PlanDoes ==
  ASSUME Typed, NEW r \in Runners, Plan(r)
  PROVE  Typed' /\ Plain(log, log')
<1> DEFINE t == NextTrigger(log)
<1>1. t \in 1..Len(log) /\ log[t].type \in Asks /\ IsLog(log)
  BY TriggerIs, EntriesOf DEF Plan, Typed
<1>2. t \in 0..Len(log)
  BY <1>1
<1>3. runner' = [runner EXCEPT ![r] = [Idle EXCEPT !.pc = "planned", !.trigger = t]]
      /\ log' = log /\ lease' = lease /\ asked' = asked /\ stop' = stop
      /\ Counts("faults", MaxFaults)
  BY DEF Plan
<1> HIDE DEF t
<1>4. TurnIs(log', [Idle EXCEPT !.pc = "planned", !.trigger = t])
  BY <1>1, <1>2, <1>3, TurnOf
<1>5. OneTurn /\ Counted'
  BY <1>3, <1>4, CountsTyped DEF OneTurn
<1>6. Plain(log, log') /\ IsLog(log') /\ Grows(log, log')
  BY <1>3, WritesPlain
<1>7. LeaseIs(lease')
  BY <1>3, TypedIs DEF TypesFit
<1> QED
  BY <1>3, <1>5, <1>6, <1>7, KeepsTyped DEF Keeps

LEMMA BeginLateDoes ==
  ASSUME Typed, NEW r \in Runners, BeginLate(r)
  PROVE  Typed' /\ Plain(log, log')
<1> DEFINE t == runner[r].trigger
<1>1. t \in 0..Len(log) /\ (t # 0 => log[t].type \in Asks)
  BY TypedIs DEF TypesFit, TurnIs
<1>2. Open(r, t) \/ (Rests(r) /\ log' = log /\ lease' = lease)
  BY DEF BeginLate
<1> HIDE DEF t
<1>3. Plain(log, log') /\ OneTurn /\ LeaseIs(lease')
  <2>1. CASE Open(r, t)
    BY <1>1, <2>1, OpenWrites
  <2>2. CASE Rests(r) /\ log' = log /\ lease' = lease
    BY <2>2, WritesPlain, RestsFits, TypedIs DEF TypesFit
  <2> QED
    BY <1>2, <2>1, <2>2
<1>4. Keeps /\ ByRunner
  BY <1>3 DEF Keeps, Plain, BeginLate
<1> QED
  BY <1>3, <1>4, ByRunnerTyped

\* An entry about the message a runner's turn is for.
LEMMA AboutTrigger ==
  ASSUME Typed, NEW r \in Runners,
         NEW type \in {"user", "request", "open", "answer", "failure", "overflowed", "close",
                       "interrupt", "notice", "retry", "continue"},
         NEW arg \in {""} \union Classes \union {"refused", "scheduled", "stopped"},
         log' = Append(log, E(type, runner[r].trigger, arg))
  PROVE  /\ Records(log, E(type, runner[r].trigger, arg), log')
         /\ E(type, runner[r].trigger, arg).type = type
         /\ E(type, runner[r].trigger, arg).at = runner[r].trigger
         /\ E(type, runner[r].trigger, arg).arg = arg
         /\ IsLog(log') /\ Grows(log, log')
         /\ type \in Ordinary => Plain(log, log')
<1> DEFINE e == E(type, runner[r].trigger, arg)
<1>1. e \in Entry /\ e.type = type /\ e.at = runner[r].trigger /\ e.arg = arg
  BY TriggerTyped DEF E, Entry
<1> HIDE DEF e
<1>2. Records(log, e, log') /\ IsLog(log)
  BY <1>1 DEF Records, Typed, e
<1>3. IsLog(log') /\ Grows(log, log')
  BY <1>2, RecordsGrow
<1>4. type \in Ordinary => Plain(log, log')
  BY <1>1, <1>2, PlainRecord
<1> QED
  BY <1>1, <1>2, <1>3, <1>4 DEF e

LEMMA EndsFit ==
  ASSUME Typed, NEW r \in Runners, IsLog(log'), Grows(log, log'), NEW quiet \in BOOLEAN,
         Ends(r, quiet)
  PROVE  /\ OneTurn
         /\ runner'[r].pc = "ended" /\ runner'[r].trigger = runner[r].trigger
         /\ runner'[r].quiet = quiet
<1>1. runner[r].source \in {0} \union Of(log, {"failure"}) /\ "ended" \in Stages
  BY TriggerTyped DEF Stages, InTurn
<1> QED
  BY <1>1, ChangesFit DEF Ends

LEMMA PublishDoes ==
  ASSUME Typed, NEW r \in Runners, Publish(r)
  PROVE  Typed' /\ (Plain(log, log') \/ Failing(r))
<1> DEFINE t == runner[r].trigger
<1>1. LeaseIs(lease') /\ lease' = lease /\ asked' = asked /\ stop' = stop
      /\ runner[r].pc = "streaming" /\ Holds(r)
  BY TypedIs DEF TypesFit, Publish
<1>2. CASE log' = Append(log, E("answer", t, "")) /\ Ends(r, FALSE) /\ UNCHANGED used
  <2>1. IsLog(log') /\ Grows(log, log') /\ Plain(log, log')
    BY <1>2, AboutTrigger DEF Ordinary
  <2>2. OneTurn /\ Counted'
    BY <1>2, <2>1, EndsFit DEF Typed, Counted
  <2> QED
    BY <1>1, <2>1, <2>2, KeepsTyped DEF Keeps
<1>3. CASE /\ Counts("silent", MaxSilent) \/ UNCHANGED used
           /\ Ends(r, FALSE) /\ UNCHANGED log
  <2>1. IsLog(log') /\ Grows(log, log') /\ Plain(log, log')
    BY <1>3, WritesPlain
  <2>2. OneTurn
    BY <1>3, <2>1, EndsFit
  <2>3. Counted'
    BY <1>3, CountsTyped DEF Typed, Counted
  <2> QED
    BY <1>1, <2>1, <2>2, <2>3, KeepsTyped DEF Keeps
<1>4. ASSUME NEW type \in Failures, NEW arg \in {""} \union Classes, NEW quiet \in BOOLEAN,
             quiet \/ type = "failure", Fails(r, E(type, t, arg), quiet)
      PROVE  Typed' /\ Failing(r)
  <2>1. log' = Append(log, E(type, t, arg)) /\ Ends(r, quiet) /\ UNCHANGED used
    BY <1>4 DEF Fails
  <2> DEFINE e == E(type, t, arg)
  <2>5. e \in Entry /\ e.type = type /\ e.at = t
    BY TriggerTyped DEF E, Entry, Failures
  <2> HIDE DEF e
  <2>2. IsLog(log') /\ Grows(log, log') /\ Records(log, e, log')
    <3>1. Records(log, e, log') /\ IsLog(log)
      BY <2>1, <2>5 DEF Records, Typed, e
    <3> QED
      BY <3>1, RecordsGrow
  <2>3. /\ OneTurn /\ runner'[r].pc = "ended" /\ runner'[r].trigger = runner[r].trigger
        /\ runner'[r].quiet = quiet /\ Counted'
    BY <2>1, <2>2, EndsFit DEF Typed, Counted
  <2>4. Failing(r)
    BY <1>1, <1>4, <2>2, <2>3, <2>5 DEF Failing, Records
  <2> QED
    BY <1>1, <2>2, <2>3, <2>4, KeepsTyped DEF Keeps
<1>5. CASE \E class \in Classes : Fails(r, E("failure", t, class), class = "limit")
  <2>1. PICK class \in Classes : Fails(r, E("failure", t, class), class = "limit")
    BY <1>5
  <2> QED
    BY <2>1, <1>4 DEF Failures
<1>6. CASE Fails(r, E("overflowed", t, ""), TRUE)
  BY <1>6, <1>4 DEF Failures
<1> HIDE DEF t
<1>7. \/ log' = Append(log, E("answer", t, "")) /\ Ends(r, FALSE) /\ UNCHANGED used
      \/ /\ Counts("silent", MaxSilent) \/ UNCHANGED used
         /\ Ends(r, FALSE) /\ UNCHANGED log
      \/ \E class \in Classes : Fails(r, E("failure", t, class), class = "limit")
      \/ Fails(r, E("overflowed", t, ""), TRUE)
  BY DEF Publish, t
<1> QED
  BY <1>2, <1>3, <1>5, <1>6, <1>7

LEMMA CloseDoes ==
  ASSUME Typed, NEW r \in Runners, Close(r)
  PROVE  /\ Typed' /\ Plain(log, log') /\ lease' = lease
         /\ runner'[r].pc = "closed" /\ runner'[r].trigger = runner[r].trigger
         /\ runner'[r].quiet = runner[r].quiet
<1>1. /\ LeaseIs(lease') /\ ByRunner /\ log' = Append(log, E("close", runner[r].trigger, ""))
      /\ lease' = lease
  BY TypedIs DEF TypesFit, Close
<1>2. IsLog(log') /\ Grows(log, log') /\ Plain(log, log')
  BY <1>1, AboutTrigger DEF Ordinary
<1>3. /\ OneTurn /\ runner'[r].pc = "closed" /\ runner'[r].trigger = runner[r].trigger
      /\ runner'[r].quiet = runner[r].quiet
  BY <1>2, GoesFits DEF Close, Stages, InTurn
<1> QED
  BY <1>1, <1>2, <1>3, ByRunnerTyped DEF Keeps

LEMMA CompactDoes ==
  ASSUME Typed, NEW r \in Runners, Compact(r)
  PROVE  /\ Typed' /\ Plain(log, log') /\ log' = log /\ lease' = lease
         /\ runner'[r].pc = "compacting" /\ runner'[r].trigger = runner[r].trigger
<1>1. LeaseIs(lease') /\ ByRunner /\ log' = log /\ lease' = lease
  BY TypedIs DEF TypesFit, Compact
<1>2. IsLog(log') /\ Grows(log, log') /\ Plain(log, log')
  BY <1>1, WritesPlain
<1>3. "compacting" \in Stages
  BY DEF Stages, InTurn
<1>4. CASE Goes(r, "compacting")
  <2>1. OneTurn /\ runner'[r].pc = "compacting" /\ runner'[r].trigger = runner[r].trigger
    BY <1>2, <1>3, <1>4, GoesFits
  <2> QED
    BY <1>1, <1>2, <2>1, ByRunnerTyped DEF Keeps
<1>5. CASE runner' = [runner EXCEPT ![r] = [@ EXCEPT !.pc = "compacting", !.source = Resumed(r)]]
  <2>1. Resumed(r) \in {0} \union Of(log, {"failure"})
    BY SourceIs, TriggerTyped DEF Resumed
  <2>2. runner[r].quiet \in BOOLEAN
    BY TypedIs DEF TypesFit, TurnIs
  <2>3. OneTurn /\ runner'[r].pc = "compacting" /\ runner'[r].trigger = runner[r].trigger
    BY <1>2, <1>3, <1>5, <2>1, <2>2, ChangesFit
  <2> QED
    BY <1>1, <1>2, <2>3, ByRunnerTyped DEF Keeps
<1> QED
  BY <1>4, <1>5 DEF Compact

LEMMA AskCheckpointDoes ==
  ASSUME Typed, NEW r \in Runners, AskCheckpoint(r)
  PROVE  Typed' /\ Posting(r) /\ runner'[r].pc = "done"
<1>1. /\ LeaseIs(lease') /\ ByRunner /\ lease' = lease
      /\ log' = Append(log, E("request", runner[r].trigger, ""))
  BY TypedIs DEF TypesFit, AskCheckpoint
<1>2. IsLog(log') /\ Grows(log, log')
  BY <1>1, AboutTrigger
<1>3. OneTurn /\ runner'[r].pc = "done"
  <2> DEFINE quiet == runner[r].quiet \/ runner[r].source # 0
  <2>1. quiet \in BOOLEAN
    OBVIOUS
  <2>2. runner' = [runner EXCEPT ![r] = [@ EXCEPT !.pc = "done", !.source = 0, !.quiet = quiet]]
    BY DEF AskCheckpoint
  <2> HIDE DEF quiet
  <2>3. "done" \in Stages /\ 0 \in {0} \union Of(log, {"failure"})
    BY DEF Stages, InTurn
  <2> QED
    BY <1>2, <2>1, <2>2, <2>3, ChangesFit
<1>4. Posting(r)
  BY <1>1 DEF Posting, AskCheckpoint, ByRunner
<1> QED
  BY <1>1, <1>2, <1>3, <1>4, ByRunnerTyped DEF Keeps

LEMMA RefusedDoes ==
  ASSUME Typed, NEW r \in Runners, Refused(r)
  PROVE  Typed' /\ (Plain(log, log') \/ Refusing(r)) /\ runner'[r].pc = "done"
<1>1. /\ LeaseIs(lease') /\ ByRunner /\ lease' = lease
      /\ log' = Append(log, E("failure", runner[r].trigger, "refused")) \/ log' = log
  BY TypedIs DEF TypesFit, Refused
<1>2. IsLog(log') /\ Grows(log, log') /\ (log' = log => Plain(log, log'))
  BY <1>1, AboutTrigger, WritesPlain
<1>3. OneTurn /\ runner'[r].pc = "done"
  BY <1>2, GoesFits DEF Refused, Stages, InTurn
<1>4. log' = log \/ Refusing(r)
  BY <1>1 DEF Refusing, Refused
<1> QED
  BY <1>1, <1>2, <1>3, <1>4, ByRunnerTyped DEF Keeps

LEMMA ReleaseDoes ==
  ASSUME Typed, NEW r \in Runners, Release(r)
  PROVE  /\ Typed' /\ Plain(log, log')
         /\ \/ Rests(r)
            \/ runner'[r].pc = "released" /\ runner'[r].trigger = runner[r].trigger
<1>1. LeaseIs(lease') /\ ByRunner /\ log' = log
  BY DEF Release, LeaseIs
<1>2. IsLog(log') /\ Grows(log, log') /\ Plain(log, log')
  BY <1>1, WritesPlain
<1>3. CASE Rests(r)
  BY <1>1, <1>2, <1>3, RestsFits, ByRunnerTyped DEF Keeps
<1>4. CASE Goes(r, "released")
  <2>1. OneTurn /\ runner'[r].pc = "released" /\ runner'[r].trigger = runner[r].trigger
    BY <1>2, <1>4, GoesFits DEF Stages
  <2> QED
    BY <1>1, <1>2, <2>1, ByRunnerTyped DEF Keeps
<1> QED
  BY <1>3, <1>4 DEF Release

LEMMA LeaseLostDoes ==
  ASSUME Typed, NEW r \in Runners, LeaseLost(r)
  PROVE  Typed' /\ Plain(log, log')
<1>1. ByRunner /\ log' = log /\ lease' = lease /\ Rests(r)
  BY DEF LeaseLost
<1>2. Plain(log, log') /\ IsLog(log') /\ Grows(log, log') /\ OneTurn /\ LeaseIs(lease')
  BY <1>1, WritesPlain, RestsFits, TypedIs DEF TypesFit
<1> QED
  BY <1>1, <1>2, ByRunnerTyped DEF Keeps


LEMMA StoppedDoes ==
  ASSUME Typed, NEW r \in Runners, Stopped(r)
  PROVE  Plain(log, log') /\ IsLog(log') /\ Grows(log, log') /\ OneTurn
<1>1. log' = Append(log, E("notice", runner[r].trigger, "stopped")) /\ Rests(r)
  BY DEF Stopped, Notice
<1>2. Plain(log, log') /\ IsLog(log') /\ Grows(log, log')
  BY <1>1, AboutTrigger DEF Ordinary
<1> QED
  BY <1>1, <1>2, RestsFits

\* A runner that schedules a retry keeps in mind what it is for.
LEMMA WaitingFits ==
  ASSUME Typed, NEW r \in Runners, IsLog(log'), Grows(log, log'),
         NEW s \in Of(log, {"failure"}),
         runner' = [runner EXCEPT ![r].pc = "waiting", ![r].source = s]
  PROVE  OneTurn
<1> DEFINE y == [runner[r] EXCEPT !.pc = "waiting"]
           x == [y EXCEPT !.source = s]
<1>1. TurnIs(log, runner[r]) /\ IsLog(log)
  BY TypedIs DEF TypesFit
<1>2. Len(log) \in Nat /\ s \in 1..Len(log) /\ log[s].type = "failure"
  BY <1>1, EntriesOf, LogIs
<1>3. TurnIs(log, y)
  BY <1>1 DEF TurnIs, Stages
<1>4. TurnIs(log, x)
  <2> HIDE DEF y
  <2> QED
    BY <1>2, <1>3 DEF TurnIs
<1>5. TurnIs(log', x)
  <2> HIDE DEF x
  <2> QED
    BY <1>1, <1>4, TurnStays
<1>6. runner' = [runner EXCEPT ![r] = x]
  <2>1. runner = [q \in Runners |-> runner[q]]
    BY TypedIs DEF TypesFit
  <2>2. runner' = [[runner EXCEPT ![r].pc = "waiting"] EXCEPT ![r].source = s]
    OBVIOUS
  <2>3. [runner EXCEPT ![r].pc = "waiting"] = [runner EXCEPT ![r] = y]
    OBVIOUS
  <2> QED
    BY <2>1, <2>2, <2>3
<1> QED
  BY <1>5, <1>6 DEF OneTurn

LEMMA ConsiderDoes ==
  ASSUME Typed, NEW r \in Runners, Consider(r)
  PROVE  Typed' /\ (Plain(log, log') \/ Asking(r))
<1> DEFINE s == SourceAfter(runner[r].trigger)
<1>1. LeaseIs(lease') /\ ByRunner
  BY TypedIs DEF TypesFit, Consider
<1>2. s # 0 => s \in Of(log, {"failure"})
  BY SourceIs, TriggerTyped
<1>3. CASE s = 0 /\ Rests(r) /\ UNCHANGED log
  BY <1>1, <1>3, WritesPlain, RestsFits, ByRunnerTyped DEF Keeps
<1>4. CASE s # 0 /\ RequestCheckpoint(r, s)
  <2>1. log' = Append(log, E("request", runner[r].trigger, "")) /\ Rests(r)
    BY <1>4 DEF RequestCheckpoint
  <2>2. IsLog(log') /\ Grows(log, log') /\ OneTurn
    BY <2>1, AboutTrigger, RestsFits
  <2>3. Asking(r)
    BY <1>4 DEF Asking, Consider
  <2> QED
    BY <1>1, <2>2, <2>3, ByRunnerTyped DEF Keeps
<1>5. CASE Stopped(r)
  BY <1>1, <1>5, StoppedDoes, ByRunnerTyped DEF Keeps
<1>6. CASE s # 0 /\ Schedule(r, s) /\ ~Stopped(r)
  <2> HIDE DEF s
  <2>1. /\ log' = Append(log, E("notice", runner[r].trigger, "scheduled"))
        /\ runner' = [runner EXCEPT ![r].pc = "waiting", ![r].source = s]
    BY <1>6 DEF Schedule, Notice
  <2>2. IsLog(log') /\ Grows(log, log') /\ Plain(log, log')
    BY <2>1, AboutTrigger DEF Ordinary
  <2>3. OneTurn
    BY <1>2, <1>6, <2>1, <2>2, WaitingFits
  <2> QED
    BY <1>1, <2>2, <2>3, ByRunnerTyped DEF Keeps
<1> QED
  BY <1>3, <1>4, <1>5, <1>6 DEF Consider

LEMMA ApplyDoes ==
  ASSUME Typed, NEW r \in Runners, Apply(r)
  PROVE  Typed' /\ (Plain(log, log') \/ Retrying(r))
<1>1. LeaseIs(lease') /\ ByRunner
  BY TypedIs DEF TypesFit, Apply
<1>2. CASE Stopped(r)
  BY <1>1, <1>2, StoppedDoes, ByRunnerTyped DEF Keeps
<1>3. CASE /\ Fence(runner[r].trigger, runner[r].source)
           /\ log' = Append(log, E("retry", runner[r].trigger, "")) /\ Rests(r)
  <2>1. IsLog(log') /\ Grows(log, log') /\ OneTurn
    BY <1>3, AboutTrigger, RestsFits
  <2>2. Retrying(r)
    BY <1>3 DEF Retrying, Apply
  <2> QED
    BY <1>1, <2>1, <2>2, ByRunnerTyped DEF Keeps
<1> QED
  BY <1>2, <1>3 DEF Apply

LEMMA RunDoes ==
  ASSUME Typed, NEW r \in Runners, Run(r)
  PROVE  Typed' /\ Writes
BY BeginDoes, BeginLateDoes, PublishDoes, CloseDoes, CompactDoes, AskCheckpointDoes,
   RefusedDoes, ReleaseDoes, LeaseLostDoes, ConsiderDoes, ApplyDoes
   DEF Run, Writes

LEMMA FaultDoes ==
  ASSUME Typed, Fault
  PROVE  Typed' /\ Plain(log, log')
<1>1. CASE Expire
  <2>1. log' = log /\ runner' = runner /\ asked' = asked /\ stop' = stop
    BY <1>1 DEF Expire
  <2>2. LeaseIs(lease')
    BY <1>1, TypedIs DEF TypesFit, Expire, LeaseIs, Live
  <2>3. Counted'
    BY <1>1, CountsTyped DEF Expire, Typed, Counted
  <2> QED
    BY <2>1, <2>2, <2>3, WritesPlain, KeepsTyped DEF Keeps, OneTurn
<1>2. ASSUME NEW r \in Runners, Die(r)
      PROVE  Typed' /\ Plain(log, log')
  <2>1. log' = log /\ lease' = lease /\ asked' = asked /\ stop' = stop
        /\ Rests(r) /\ Counts("faults", MaxFaults)
    BY <1>2 DEF Die
  <2>2. Plain(log, log') /\ IsLog(log') /\ Grows(log, log') /\ OneTurn /\ LeaseIs(lease')
    BY <2>1, WritesPlain, RestsFits, TypedIs DEF TypesFit
  <2> QED
    BY <2>1, <2>2, CountsTyped, KeepsTyped DEF Keeps
<1> QED
  BY <1>1, <1>2, PlanDoes DEF Fault

\* An entry of the user's.
LEMMA UserWrites ==
  ASSUME Typed, NEW type \in {"user", "interrupt", "continue"}, NEW at \in Nat,
         log' = Append(log, E(type, at, ""))
  PROVE  /\ Records(log, E(type, at, ""), log') /\ IsLog(log') /\ Grows(log, log')
         /\ E(type, at, "").type = type /\ E(type, at, "").at = at
         /\ type \in Ordinary => Plain(log, log')
<1> DEFINE e == E(type, at, "")
<1>1. e \in Entry /\ e.type = type /\ e.at = at
  BY DEF E, Entry
<1> HIDE DEF e
<1>2. Records(log, e, log') /\ IsLog(log)
  BY <1>1 DEF Records, Typed, e
<1>3. IsLog(log') /\ Grows(log, log')
  BY <1>2, RecordsGrow
<1>4. type \in Ordinary => Plain(log, log')
  BY <1>1, <1>2, PlainRecord
<1> QED
  BY <1>1, <1>2, <1>3, <1>4 DEF e

LEMMA InterruptDoes ==
  ASSUME Typed, Interrupt
  PROVE  Typed' /\ Plain(log, log')
<1>1. lease' = NoLease /\ stop' = Len(log') /\ runner' = runner /\ asked' = asked
      /\ Counts("interrupts", MaxInterrupts)
      /\ (log' = Append(log, E("interrupt", 0, "")) \/ log' = log)
  BY DEF Interrupt
<1>2. Plain(log, log') /\ IsLog(log') /\ Grows(log, log')
  BY <1>1, UserWrites, WritesPlain DEF Ordinary
<1> QED
  BY <1>1, <1>2, CountsTyped, KeepsTyped DEF Keeps, LeaseIs, OneTurn

LEMMA AskContinueDoes ==
  ASSUME Typed, AskContinue
  PROVE  Typed' /\ Plain(log, log')
<1>1. PICK m \in {0} \cup (Targets \cap Of(log, TargetTypes)) : asked' = <<m, Len(log)>>
  BY DEF AskContinue
<1>2. log' = log /\ lease' = lease /\ runner' = runner /\ stop' = stop
      /\ Counts("continues", MaxContinues)
  BY DEF AskContinue
<1>3. IsLog(log) /\ Len(log) \in Nat /\ Len(log) > 0 /\ m \in 0..Len(log)
  BY <1>1, EntriesOf, LogIs DEF Typed
<1>4. AskedIs(log', asked')
  BY <1>1, <1>2, <1>3 DEF AskedIs
<1>5. Counted'
  BY <1>2, CountsTyped
<1>6. TypesFit'
  BY <1>2, <1>4, <1>5, TypedIs DEF TypesFit
<1>7. Typed' <=> TypesFit'
  BY TypedIs, PTL
<1> QED
  BY <1>2, <1>6, <1>7, WritesPlain

LEMMA ContinueDoes ==
  ASSUME Typed, Continue
  PROVE  Typed' /\ (Plain(log, log') \/ Continuing)
<1>1. asked # <<>> /\ asked' = <<>> /\ lease' = lease /\ runner' = runner
      /\ stop' = stop /\ used' = used
  BY DEF Continue
<1>2. LeaseIs(lease') /\ OneTurn /\ Counted'
  BY <1>1, TypedIs DEF TypesFit, Typed, Counted, OneTurn
<1>3. CASE log' = log
  BY <1>1, <1>2, <1>3, WritesPlain, KeepsTyped DEF Keeps
<1>4. CASE \E m : /\ m # 0 /\ Unchanged(asked[2]) /\ ~Live /\ m \in Targets
                  /\ log' = Append(log, E("continue", m, ""))
  <2>1. PICK m \in Targets : /\ Unchanged(asked[2]) /\ ~Live
                             /\ log' = Append(log, E("continue", m, ""))
    BY <1>4
  <2>2. m \in Nat
    BY EntriesOf, LogIs DEF Targets, Messages, Typed
  <2>3. IsLog(log') /\ Grows(log, log')
    BY <2>1, <2>2, UserWrites
  <2>4. Continuing
    BY <1>1, <2>1 DEF Continuing
  <2> QED
    BY <1>1, <1>2, <2>3, <2>4, KeepsTyped DEF Keeps
<1> QED
  BY <1>3, <1>4 DEF Continue

LEMMA UserSaysDoes ==
  ASSUME Typed, UserSays
  PROVE  Typed' /\ Plain(log, log')
<1>1. lease' = lease /\ stop' = stop /\ runner' = runner /\ asked' = asked
      /\ Counts("messages", MaxMessages) /\ log' = Append(log, E("user", 0, ""))
  BY DEF UserSays
<1>2. Plain(log, log') /\ IsLog(log') /\ Grows(log, log') /\ LeaseIs(lease')
  BY <1>1, UserWrites, TypedIs DEF Ordinary, TypesFit
<1> QED
  BY <1>1, <1>2, CountsTyped, KeepsTyped DEF Keeps, OneTurn

LEMMA StepDoes ==
  ASSUME Typed, [Next]_vars
  PROVE  Typed' /\ Writes
<1>1. CASE UNCHANGED vars
  <2>1. Plain(log, log')
    BY <1>1, WritesPlain DEF vars
  <2>2. TypesFit'
    BY <1>1, TypedIs DEF vars, TypesFit, Counted
  <2>3. Typed' <=> TypesFit'
    BY TypedIs, PTL
  <2> QED
    BY <2>1, <2>2, <2>3 DEF Writes
<1>2. CASE Next
  BY <1>2, RunDoes, FaultDoes, UserSaysDoes, InterruptDoes, AskContinueDoes, ContinueDoes
     DEF Next, User, Writes
<1> QED
  BY <1>1, <1>2


-----------------------------------------------------------------------------
(* A checkpoint is asked for once. *)

\* What each kind of step records.
LEMMA AskingRecords ==
  ASSUME Typed, NEW r \in Runners, Asking(r)
  PROVE  \E e : Records(log, e, log') /\ e.type = "request" /\ e.at = runner[r].trigger
<1> DEFINE e == [type |-> "request", at |-> runner[r].trigger, arg |-> ""]
<1>1. log' = Append(log, e)
  BY DEF Asking, RequestCheckpoint, E
<1>2. e \in Entry /\ e.type = "request" /\ e.at = runner[r].trigger
  BY TriggerTyped DEF Entry
<1> HIDE DEF e
<1> QED
  BY <1>1, <1>2 DEF Records

LEMMA RetryingRecords ==
  ASSUME Typed, NEW r \in Runners, Retrying(r)
  PROVE  \E e : Records(log, e, log') /\ e.type = "retry" /\ e.at = runner[r].trigger
<1> DEFINE e == [type |-> "retry", at |-> runner[r].trigger, arg |-> ""]
<1>1. log' = Append(log, e)
  BY DEF Retrying, E
<1>2. e \in Entry /\ e.type = "retry" /\ e.at = runner[r].trigger
  BY TriggerTyped DEF Entry
<1> HIDE DEF e
<1> QED
  BY <1>1, <1>2 DEF Records

LEMMA PostingRecords ==
  ASSUME Typed, NEW r \in Runners, Posting(r)
  PROVE  \E e : Records(log, e, log') /\ e.type = "request" /\ e.at = runner[r].trigger
<1> DEFINE e == [type |-> "request", at |-> runner[r].trigger, arg |-> ""]
<1>1. log' = Append(log, e)
  BY DEF Posting, E
<1>2. e \in Entry /\ e.type = "request" /\ e.at = runner[r].trigger
  BY TriggerTyped DEF Entry
<1> HIDE DEF e
<1> QED
  BY <1>1, <1>2 DEF Records

LEMMA RefusingRecords ==
  ASSUME Typed, NEW r \in Runners, Refusing(r)
  PROVE  \E e : /\ Records(log, e, log') /\ e.type = "failure" /\ e.at = runner[r].trigger
               /\ e.arg = "refused"
<1> DEFINE e == [type |-> "failure", at |-> runner[r].trigger, arg |-> "refused"]
<1>1. log' = Append(log, e)
  BY DEF Refusing, E
<1>2. e \in Entry /\ e.type = "failure" /\ e.at = runner[r].trigger /\ e.arg = "refused"
  BY TriggerTyped DEF Entry
<1> HIDE DEF e
<1> QED
  BY <1>1, <1>2 DEF Records

LEMMA FailingRecords ==
  ASSUME Typed, NEW r \in Runners, Failing(r)
  PROVE  \E e : /\ Records(log, e, log') /\ e.type \in Failures /\ e.at = runner[r].trigger
               /\ (runner'[r].quiet \/ e.type = "failure")
BY DEF Failing, Records

LEMMA ContinuingRecords ==
  ASSUME Typed, Continuing
  PROVE  \E e : /\ Records(log, e, log') /\ e.type = "continue"
               /\ e.at \in Targets /\ e.at \in Nat
<1>1. PICK m \in Targets : log' = Append(log, E("continue", m, ""))
  BY DEF Continuing
<1>2. m \in Nat
  BY EntriesOf, LogIs DEF Targets, Messages, Typed
<1>3. /\ Records(log, E("continue", m, ""), log')
      /\ E("continue", m, "").type = "continue" /\ E("continue", m, "").at = m
  BY <1>1, <1>2, UserWrites
<1> QED
  BY <1>2, <1>3

LEMMA WritesGrow ==
  ASSUME Typed, Typed', Writes
  PROVE  Grows(log, log') /\ IsLog(log) /\ IsLog(log')
<1>1. IsLog(log) /\ IsLog(log')
  BY DEF Typed
<1>2. CASE \E e : Records(log, e, log')
  BY <1>1, <1>2, RecordsGrow
<1> QED
  BY <1>1, <1>2, AskingRecords, PostingRecords, RetryingRecords, FailingRecords,
     RefusingRecords, ContinuingRecords DEF Writes, Plain

\* What is counted once stays counted.
LEMMA CountsStay ==
  ASSUME Typed, [Next]_vars
  PROVE  /\ used'.faults = 0 => used.faults = 0
         /\ used'.interrupts = 0 => used.interrupts = 0
<1> DEFINE Whats == {"messages", "continues", "interrupts", "faults", "silent"}
<1>1. used' = used \/ (\E what \in Whats : \E bound : Counts(what, bound))
  <2>1. ASSUME NEW r \in Runners, Run(r)
        PROVE  used' = used \/ (\E what \in Whats : \E bound : Counts(what, bound))
    BY <2>1 DEF Run, Begin, BeginLate, Publish, Fails, Close, Compact, AskCheckpoint, Refused,
                Release, LeaseLost, Consider, Apply, ByRunner
  <2>2. ASSUME User \/ Fault
        PROVE  used' = used \/ (\E what \in Whats : \E bound : Counts(what, bound))
    BY <2>2 DEF User, Fault, UserSays, Interrupt, AskContinue, Continue, Expire, Plan, Die
  <2> QED
    BY <2>1, <2>2 DEF Next, vars
<1>2. ASSUME NEW what \in Whats, NEW bound, Counts(what, bound)
      PROVE  /\ used'.faults = 0 => used.faults = 0
             /\ used'.interrupts = 0 => used.interrupts = 0
  BY <1>2, CountsTyped
<1> QED
  BY <1>1, <1>2

\* An action of a runner touches its own turn only.
LEMMA OthersStay ==
  ASSUME Typed, NEW q \in Runners, Run(q), NEW r \in Runners, r # q
  PROVE  runner'[r] = runner[r]
<1>1. runner = [p \in Runners |-> runner[p]]
  BY TypedIs DEF TypesFit
<1> QED
  BY <1>1 DEF Run, Begin, BeginLate, Open, Publish, Fails, Ends, Close, Compact, AskCheckpoint,
     Refused, Release, LeaseLost, Consider, Apply, RequestCheckpoint, Schedule, Stopped,
     Rests, Goes

LEMMA TurnSet ==
  ASSUME Typed, NEW r \in Runners, NEW x, runner' = [runner EXCEPT ![r] = x]
  PROVE  runner'[r] = x
<1>1. runner = [p \in Runners |-> runner[p]]
  BY TypedIs DEF TypesFit
<1> QED
  BY <1>1

LEMMA TurnGoes ==
  ASSUME Typed, NEW r \in Runners,
         \/ Rests(r)
         \/ \E pc, t : runner' = [runner EXCEPT ![r] = [Idle EXCEPT !.pc = pc, !.trigger = t]]
         \/ \E pc, s : runner' = [runner EXCEPT ![r].pc = pc, ![r].source = s]
         \/ \E quiet : Ends(r, quiet)
  PROVE  /\ Rests(r) => runner'[r].pc = "idle"
         /\ \A pc, t : runner' = [runner EXCEPT ![r] = [Idle EXCEPT !.pc = pc, !.trigger = t]]
                         => runner'[r].pc = pc
         /\ \A pc, s : runner' = [runner EXCEPT ![r].pc = pc, ![r].source = s]
                         => runner'[r].pc = pc /\ runner'[r].trigger = runner[r].trigger
         /\ \A quiet : Ends(r, quiet) => runner'[r].pc = "ended"
<1>1. runner = [p \in Runners |-> runner[p]] /\ TurnIs(log, runner[r])
  BY TypedIs DEF TypesFit
<1>2. Rests(r) => runner'[r].pc = "idle"
  BY <1>1 DEF Rests, Idle
<1>3. ASSUME NEW pc, NEW t,
             runner' = [runner EXCEPT ![r] = [Idle EXCEPT !.pc = pc, !.trigger = t]]
      PROVE  runner'[r].pc = pc
  <2>1. runner'[r] = [Idle EXCEPT !.pc = pc, !.trigger = t]
    BY <1>1, <1>3
  <2> QED
    BY <2>1 DEF Idle
<1>4. ASSUME NEW pc, NEW s, runner' = [runner EXCEPT ![r].pc = pc, ![r].source = s]
      PROVE  runner'[r].pc = pc /\ runner'[r].trigger = runner[r].trigger
  BY <1>1, <1>4 DEF TurnIs
<1>5. ASSUME NEW quiet, Ends(r, quiet)
      PROVE  runner'[r].pc = "ended"
  <2>1. runner'[r] = [runner[r] EXCEPT !.pc = "ended", !.quiet = quiet]
    BY <1>1, <1>5 DEF Ends
  <2> QED
    BY <1>1, <2>1 DEF TurnIs
<1> QED
  BY <1>2, <1>3, <1>4, <1>5

\* What is no request, no failure and no continuation makes no request pending.
LEMMA PendingStays ==
  ASSUME NEW L, NEW M, IsLog(L), Plain(L, M), ~Pending(L)
  PROVE  ~Pending(M)
<1>1. IsLog(M) /\ Grows(L, M) /\ StruckOut(M) = StruckOut(L)
  BY DEF Plain
<1>2. /\ Of(M, {"request"}) = Of(L, {"request"}) /\ Of(M, {"failure"}) = Of(L, {"failure"})
      /\ Of(M, {"retry", "continue"}) = Of(L, {"retry", "continue"})
  BY DEF Plain, Ordinary
<1>3. Of(L, {"answer"}) \subseteq Of(M, {"answer"})
  BY <1>1, GrowsKeeps
<1>4. \A types : \A k \in Of(L, types) : k \in 1..Len(L)
  BY EntriesOf
<1>5. \A types : \A k \in Of(L, types) : M[k] = L[k]
  BY <1>1, <1>4 DEF Grows
<1>6. Responses(L) \subseteq Responses(M)
  BY <1>1, <1>2, <1>3, <1>5 DEF Responses, Effective
<1>7. Effective(M, {"request"}) = Effective(L, {"request"})
  BY <1>1, <1>2 DEF Effective
<1> SUFFICES ASSUME NEW q \in Effective(L, {"request"}),
                    ~\E c \in Of(M, {"retry", "continue"}) : M[c].at <= q /\ q < c,
                    ~\E k \in Responses(M) : q < k
             PROVE  FALSE
  BY <1>7 DEF Pending
<1>8. ~\E c \in Of(L, {"retry", "continue"}) : L[c].at <= q /\ q < c
  BY <1>2, <1>5
<1> QED
  BY <1>6, <1>8 DEF Pending

\* Whoever holds the lease is not disturbed by the other runners.
LEMMA HolderIsLeft ==
  ASSUME Typed, Undisturbed, LeasesKept, NEW q \in Runners, Run(q), NEW r \in Runners, r # q,
         Holds(r)
  PROVE  lease' = lease /\ Plain(log, log')
<1>1. Live /\ lease.by = r
  BY DEF Holds
<1>2. ~(runner[q].pc \in InTurn)
  BY <1>1 DEF LeasesKept, Holds
<1>3. ~Begin(q)
  BY <1>1 DEF Begin, Open
<1>4. CASE BeginLate(q)
  BY <1>1, <1>4, BeginLateDoes DEF BeginLate, Open
<1>5. ~(Publish(q) \/ Close(q) \/ Compact(q) \/ AskCheckpoint(q) \/ Refused(q) \/ Release(q)
        \/ LeaseLost(q))
  BY <1>2 DEF InTurn, Publish, Close, Compact, AskCheckpoint, Refused, Release, LeaseLost
<1>6. CASE Consider(q)
  <2>1. ~Asking(q)
    BY <1>1 DEF Asking, RequestCheckpoint, Fence, Live
  <2> QED
    BY <1>6, <2>1, ConsiderDoes DEF Consider
<1>7. CASE Apply(q)
  <2>1. ~Retrying(q)
    BY <1>1 DEF Retrying, Fence, Live
  <2> QED
    BY <1>7, <2>1, ApplyDoes DEF Apply
<1> QED
  BY <1>3, <1>4, <1>5, <1>6, <1>7 DEF Run

LEMMA LeasesKeptByRunner ==
  ASSUME Typed, Undisturbed, LeasesKept, NEW q \in Runners, Run(q), NEW r \in Runners
  PROVE  /\ runner'[r].pc \in InTurn => Holds(r)'
         /\ runner'[r].pc = "compacting" => ~Pending(log')
<1>1. /\ runner[r].pc \in InTurn => Holds(r)
      /\ runner[r].pc = "compacting" => ~Pending(log)
  BY DEF LeasesKept
<1>2. IsLog(log)
  BY DEF Typed
<1>3. CASE r # q
  <2>1. runner'[r] = runner[r]
    BY <1>3, OthersStay
  <2>2. CASE Holds(r)
    <3>1. lease' = lease /\ Plain(log, log')
      BY <1>3, <2>2, HolderIsLeft
    <3>2. ~Pending(log) => ~Pending(log')
      BY <1>2, <3>1, PendingStays
    <3> QED
      BY <1>1, <2>1, <3>1, <3>2 DEF Holds, Live
  <2>3. CASE ~Holds(r)
    BY <1>1, <2>1, <2>3 DEF InTurn
  <2> QED
    BY <2>2, <2>3
<1>4. CASE r = q
  <2>1. "idle" \notin InTurn /\ "released" \notin InTurn /\ "waiting" \notin InTurn
    BY DEF InTurn
  <2>2. CASE Rests(r)
    BY <2>1, <2>2, TurnGoes DEF InTurn
  <2>3. CASE \E t : Open(r, t)
    <3>1. PICK t : Open(r, t)
      BY <2>3
    <3>2. /\ runner' = [runner EXCEPT ![r] = [Idle EXCEPT !.pc = "streaming", !.trigger = t]]
          /\ lease' = [by |-> r, live |-> TRUE]
      BY <3>1 DEF Open
    <3>3. runner'[r].pc = "streaming"
      BY <3>2, TurnGoes
    <3>4. lease'.by = r /\ lease'.live /\ lease' # NoLease
      <4>1. [by |-> r, live |-> TRUE] \in [by : Runners, live : BOOLEAN]
        OBVIOUS
      <4>2. lease' # NoLease
        BY <3>2, <4>1, ContinuationAssumption
      <4> QED
        BY <3>2, <4>2
    <3> QED
      BY <3>3, <3>4 DEF Holds, Live
  <2>4. CASE Publish(r)
    <3>1. runner'[r].pc = "ended"
      BY <2>4, TurnGoes DEF Publish, Fails
    <3> QED
      BY <1>1, <2>4, <3>1 DEF Publish, Holds, Live
  <2>5. CASE Close(r)
    BY <1>1, <2>5, CloseDoes DEF Close, Holds, Live
  <2>6. CASE Compact(r)
    <3>1. log' = log /\ lease' = lease /\ runner[r].pc = "closed" /\ ~Pending(log)
      BY <2>6 DEF Compact
    <3> QED
      BY <1>1, <3>1 DEF Holds, Live, InTurn
  <2>7. CASE AskCheckpoint(r)
    BY <1>1, <2>7, AskCheckpointDoes DEF AskCheckpoint, Holds, Live, InTurn
  <2>8. CASE Refused(r)
    BY <1>1, <2>8, RefusedDoes DEF Refused, Holds, Live, InTurn
  <2>9. CASE Release(r)
    BY <2>1, <2>2, <2>9, ReleaseDoes
  <2>10. CASE Consider(r) /\ ~Rests(r)
    <3>1. runner' = [runner EXCEPT ![r].pc = "waiting", ![r].source = SourceAfter(runner[r].trigger)]
      BY <2>10 DEF Consider, RequestCheckpoint, Stopped, Schedule
    <3>2. runner'[r].pc = "waiting"
      BY <3>1, TurnGoes
    <3> QED
      BY <2>1, <3>2
  <2>11. Begin(r) \/ BeginLate(r) => Rests(r) \/ \E t : Open(r, t)
    BY DEF Begin, BeginLate
  <2>12. LeaseLost(r) \/ Apply(r) => Rests(r)
    BY DEF LeaseLost, Apply, Stopped
  <2> QED
    BY <1>4, <2>2, <2>3, <2>4, <2>5, <2>6, <2>7, <2>8, <2>9, <2>10, <2>11, <2>12 DEF Run
<1> QED
  BY <1>3, <1>4

LEMMA LeasesKeptKept ==
  ASSUME Typed, Typed', Writes, LeasesKept, [Next]_vars
  PROVE  LeasesKept'
<1> SUFFICES ASSUME Undisturbed', NEW r \in Runners
             PROVE  /\ runner'[r].pc \in InTurn => Holds(r)'
                    /\ runner'[r].pc = "compacting" => ~Pending(log')
  BY DEF LeasesKept
<1>1. Undisturbed
  BY CountsStay DEF Undisturbed
<1>2. /\ runner[r].pc \in InTurn => Holds(r)
      /\ runner[r].pc = "compacting" => ~Pending(log)
  BY <1>1 DEF LeasesKept
<1>3. IsLog(log) /\ ("compacting" \in InTurn)
  BY DEF Typed, InTurn
<1>4. CASE UNCHANGED vars
  BY <1>2, <1>4 DEF vars, Holds, Live
<1>5. CASE \E q \in Runners : Run(q)
  BY <1>1, <1>5, LeasesKeptByRunner
<1>6. CASE UserSays \/ AskContinue \/ Continue
  <2>1. runner' = runner /\ lease' = lease
    BY <1>6 DEF UserSays, AskContinue, Continue
  <2>2. Live => Plain(log, log')
    BY <1>6, UserSaysDoes, AskContinueDoes, ContinueDoes DEF Continuing
  <2>3. Live /\ ~Pending(log) => ~Pending(log')
    BY <1>3, <2>2, PendingStays
  <2> QED
    BY <1>2, <1>3, <2>1, <2>3 DEF Holds, Live
<1>7. ~Interrupt
  BY CountsTyped DEF Interrupt, Undisturbed
<1>8. CASE Fault
  <2>1. ~Counts("faults", MaxFaults)
    BY CountsTyped DEF Undisturbed
  <2>2. Expire /\ ~(runner[lease.by].pc \in InTurn) /\ runner' = runner
    BY <1>8, <2>1 DEF Fault, Plan, Die, Expire
  <2>3. ~(runner[r].pc \in InTurn)
    BY <1>2, <2>2 DEF Holds
  <2> QED
    BY <1>3, <2>2, <2>3
<1> QED
  BY <1>4, <1>5, <1>6, <1>7, <1>8 DEF Next, User

\* The word between two requests that keeps them apart stays.
Apart(L, j, k) ==
  \E n \in (j + 1)..(k - 1) :
    L[n].type \in {"answer", "retry", "continue"} \/ L[n].arg \in Partial

LEMMA ApartStays ==
  ASSUME NEW L, NEW M, IsLog(L), Grows(L, M), NEW j \in Nat, NEW k \in 1..(Len(L) + 1),
         Apart(L, j, k)
  PROVE  Apart(M, j, k)
<1>1. Len(L) \in Nat
  BY LogIs
<1>2. \A n \in (j + 1)..(k - 1) : n \in 1..Len(L)
  BY <1>1
<1>3. \A n \in (j + 1)..(k - 1) : M[n] = L[n]
  BY <1>2 DEF Grows
<1> QED
  BY <1>3 DEF Apart

LEMMA CheckpointOnceIs ==
  CheckpointOnce <=>
    (Undisturbed => \A j, k \in Of(log, {"request"}) : j < k => Apart(log, j, k))
BY DEF CheckpointOnce, Undisturbed, Apart

\* A new request: those before it are answered or erased.
LEMMA NewRequestApart ==
  ASSUME NEW L, IsLog(L), ~Pending(L), NEW j \in Of(L, {"request"})
  PROVE  Apart(L, j, Len(L) + 1)
<1>1. Len(L) \in Nat /\ \A types : Of(L, types) = {k \in 1..Len(L) : L[k].type \in types}
  BY LogIs, EntriesOf
<1>2. j \in 1..Len(L)
  BY <1>1
<1>3. ASSUME NEW n \in 1..Len(L), j < n,
             L[n].type \in {"answer", "retry", "continue"} \/ L[n].arg \in Partial
      PROVE  Apart(L, j, Len(L) + 1)
  <2>1. n \in (j + 1)..((Len(L) + 1) - 1)
    BY <1>1, <1>2, <1>3
  <2> QED
    BY <1>3, <2>1 DEF Apart
<1>4. CASE \E c \in Of(L, {"retry", "continue"}) : j < c
  <2>1. PICK c \in Of(L, {"retry", "continue"}) : j < c
    BY <1>4
  <2>2. c \in 1..Len(L) /\ L[c].type \in {"retry", "continue"}
    BY <1>1
  <2> QED
    BY <1>3, <2>1, <2>2
<1>5. CASE \E k \in Responses(L) : j < k
  <2>1. PICK k \in Responses(L) : j < k
    BY <1>5
  <2>2. k \in 1..Len(L) /\ (L[k].type = "answer" \/ L[k].arg \in Partial)
    BY <1>1 DEF Responses, Effective
  <2> QED
    BY <1>3, <2>1, <2>2
<1>6. j \in StruckOut(L) => \E c \in Of(L, {"retry", "continue"}) : j < c
  BY DEF StruckOut
<1>7. j \in Effective(L, {"request"}) =>
        \/ \E c \in Of(L, {"retry", "continue"}) : j < c
        \/ \E k \in Responses(L) : j < k
  BY DEF Pending
<1> QED
  BY <1>4, <1>5, <1>6, <1>7 DEF Effective

LEMMA CheckpointOnceKept ==
  ASSUME Typed, Typed', Writes, LeasesKept, CheckpointOnce, [Next]_vars
  PROVE  CheckpointOnce'
<1> SUFFICES ASSUME Undisturbed'
             PROVE  \A j, k \in Of(log', {"request"}) : j < k => Apart(log', j, k)
  BY DEF CheckpointOnce, Undisturbed, Apart
<1>0. Undisturbed
  BY CountsStay DEF Undisturbed
<1>1. Grows(log, log') /\ IsLog(log) /\ IsLog(log') /\ Len(log) \in Nat
  BY WritesGrow, LogIs
<1>2. \A j, k \in Of(log, {"request"}) :
        j < k => j \in 1..Len(log) /\ k \in 1..Len(log) /\ Apart(log', j, k)
  <2> SUFFICES ASSUME NEW j \in Of(log, {"request"}), NEW k \in Of(log, {"request"}), j < k
               PROVE  j \in 1..Len(log) /\ k \in 1..Len(log) /\ Apart(log', j, k)
    OBVIOUS
  <2>1. j \in 1..Len(log) /\ k \in 1..Len(log) /\ Apart(log, j, k)
    BY <1>0, <1>1, EntriesOf, CheckpointOnceIs
  <2>2. j \in Nat /\ k \in 1..(Len(log) + 1)
    BY <1>1, <2>1
  <2> QED
    BY <1>1, <2>1, <2>2, ApartStays
<1>3. CASE Of(log', {"request"}) = Of(log, {"request"})
  BY <1>2, <1>3
<1>4. CASE ~Pending(log) /\ \E e : Records(log, e, log') /\ e.type = "request"
  <2>1. PICK e : Records(log, e, log') /\ e.type = "request"
    BY <1>4
  <2> DEFINE n == Len(log) + 1
  <2>2. Of(log', {"request"}) = Of(log, {"request"}) \union {n}
    BY <1>1, <2>1, RecordsOf
  <2>3. n \in Nat /\ n \in 1..(Len(log) + 1)
    BY <1>1
  <2>4. \A j \in Of(log, {"request"}) : j \in Nat /\ ~(n < j) /\ Apart(log', j, n)
    <3> SUFFICES ASSUME NEW j \in Of(log, {"request"})
                 PROVE  j \in Nat /\ ~(n < j) /\ Apart(log', j, n)
      OBVIOUS
    <3>1. j \in 1..Len(log)
      BY <1>1, EntriesOf
    <3>2. j \in Nat /\ ~(n < j)
      BY <1>1, <3>1
    <3>3. Apart(log, j, n)
      BY <1>1, <1>4, NewRequestApart
    <3> HIDE DEF n
    <3>4. Apart(log', j, n)
      BY <1>1, <2>3, <3>2, <3>3, ApartStays
    <3> QED
      BY <3>2, <3>4
  <2> HIDE DEF n
  <2>5. ~(n < n)
    BY <2>3
  <2> QED
    BY <1>2, <2>2, <2>4, <2>5
<1>5. ASSUME NEW r \in Runners, Asking(r) \/ Posting(r)
      PROVE  ~Pending(log) /\ \E e : Records(log, e, log') /\ e.type = "request"
  <2>1. ~Pending(log)
    BY <1>0, <1>5 DEF Asking, RequestCheckpoint, Posting, LeasesKept
  <2> QED
    BY <1>5, <2>1, AskingRecords, PostingRecords
<1>6. CASE Plain(log, log')
  BY <1>3, <1>6 DEF Plain, Ordinary
<1>7. CASE \E e : Records(log, e, log') /\ e.type # "request"
  <2>1. PICK e : Records(log, e, log') /\ e.type # "request"
    BY <1>7
  <2> QED
    BY <1>1, <1>3, <2>1, RecordsOf
<1>8. (\E r \in Runners : Failing(r) \/ Refusing(r) \/ Retrying(r)) \/ Continuing
        => \E e : Records(log, e, log') /\ e.type # "request"
  BY RetryingRecords, FailingRecords, RefusingRecords, ContinuingRecords DEF Failures
<1> QED
  BY <1>4, <1>5, <1>6, <1>7, <1>8 DEF Writes


-----------------------------------------------------------------------------
(* No continuation is recorded during a turn. *)

LEMMA LeaseMoves ==
  ASSUME Typed, [Next]_vars
  PROVE  \/ lease' = lease
         \/ ~Live'
         \/ \E r \in Runners : Begin(r) \/ (BeginLate(r) /\ Open(r, runner[r].trigger))
<1>1. ASSUME NEW r \in Runners, Run(r)
      PROVE  \/ lease' = lease \/ ~Live'
             \/ Begin(r) \/ (BeginLate(r) /\ Open(r, runner[r].trigger))
  BY <1>1 DEF Run, BeginLate, Publish, Close, Compact, AskCheckpoint, Refused, Release,
              LeaseLost, Consider, Apply, Live
<1>2. ASSUME Fault
      PROVE  lease' = lease \/ ~Live'
  <2>1. CASE Expire
    <3>1. lease \in [by : Runners, live : BOOLEAN] /\ lease' = [lease EXCEPT !.live = FALSE]
      BY <2>1, TypedIs DEF TypesFit, LeaseIs, Expire, Live
    <3> QED
      BY <3>1 DEF Live
  <2>2. CASE \E r \in Runners : Plan(r) \/ Die(r)
    BY <2>2 DEF Plan, Die
  <2> QED
    BY <1>2, <2>1, <2>2 DEF Fault
<1>3. ASSUME User
      PROVE  lease' = lease \/ ~Live'
  BY <1>3 DEF User, UserSays, Interrupt, AskContinue, Continue, Live
<1> QED
  BY <1>1, <1>2, <1>3 DEF Next, vars

LEMMA OpensLast ==
  ASSUME Typed, NEW r \in Runners,
         Begin(r) \/ (BeginLate(r) /\ Open(r, runner[r].trigger))
  PROVE  Plain(log, log') /\ Len(log') > Len(log) /\ Last(log').type = "open"
<1>1. PICK t \in 0..Len(log) : (t # 0 => log[t].type \in Asks) /\ Open(r, t)
  <2>1. CASE Begin(r)
    <3>1. NextTrigger(log) \in 1..Len(log) /\ log[NextTrigger(log)].type \in Asks
      BY <2>1, TriggerIs, EntriesOf DEF Begin, Typed
    <3> QED
      BY <2>1, <3>1 DEF Begin
  <2>2. CASE BeginLate(r) /\ Open(r, runner[r].trigger)
    <3>1. runner[r].trigger \in 0..Len(log)
          /\ (runner[r].trigger # 0 => log[runner[r].trigger].type \in Asks)
      BY TypedIs DEF TypesFit, TurnIs
    <3> QED
      BY <2>2, <3>1
  <2> QED
    BY <2>1, <2>2
<1> QED
  BY <1>1, OpenWrites

LEMMA LastIs ==
  ASSUME NEW L, IsLog(L)
  PROVE  /\ \A types : Last(L).type \in types => Len(L) \in Of(L, types)
         /\ \A types : Last(L).type \notin types => Len(L) \notin Of(L, types)
<1>1. Len(L) \in 1..Len(L) /\ Last(L) = L[Len(L)]
  BY LogIs DEF Last
<1> QED
  BY <1>1, EntriesOf

LEMMA OpenedSinceKept ==
  ASSUME Typed, Typed', Writes, OpenedSince, [Next]_vars
  PROVE  OpenedSince'
<1> SUFFICES ASSUME Live', NEW c \in Continued(log')
             PROVE  \E o \in Of(log', {"open"}) : c < o
  BY DEF OpenedSince
<1>1. Grows(log, log') /\ IsLog(log) /\ IsLog(log')
  BY WritesGrow
<1>2. Len(log) \in Nat /\ Len(log') \in Nat /\ Of(log, {"open"}) \subseteq Of(log', {"open"})
  BY <1>1, LogIs, GrowsKeeps
<1>3. CASE \E r \in Runners : Begin(r) \/ (BeginLate(r) /\ Open(r, runner[r].trigger))
  <2>1. Plain(log, log') /\ Len(log') > Len(log) /\ Last(log').type = "open"
    BY <1>3, OpensLast
  <2>2. Len(log') \in Of(log', {"open"})
    BY <1>1, <2>1, LastIs
  <2>3. Of(log', {"retry", "continue"}) = Of(log, {"retry", "continue"})
    BY <2>1 DEF Plain, Ordinary
  <2>4. c \in Of(log, {"retry", "continue"})
    BY <2>3 DEF Continued
  <2>5. c \in 1..Len(log)
    BY <1>1, <2>4, EntriesOf
  <2>6. c < Len(log')
    BY <1>2, <2>1, <2>5
  <2> QED
    BY <2>2, <2>6
<1>4. CASE lease' = lease
  <2>1. Live
    BY <1>4 DEF Live
  <2>2. Of(log', {"retry", "continue"}) = Of(log, {"retry", "continue"})
    <3>1. CASE Plain(log, log')
      BY <3>1 DEF Plain, Ordinary
    <3>2. CASE \E e : Records(log, e, log') /\ e.type \in {"request"} \union Failures
      <4>1. PICK e : Records(log, e, log') /\ e.type \in {"request"} \union Failures
        BY <3>2
      <4>2. e.type \notin {"retry", "continue"}
        BY <4>1 DEF Failures
      <4> QED
        BY <1>1, <4>1, <4>2, RecordsOf
    <3>3. ~(\E r \in Runners : Retrying(r)) /\ ~Continuing
      BY <2>1 DEF Retrying, Fence, Continuing, Live
    <3>4. (\E r \in Runners : Asking(r) \/ Posting(r) \/ Failing(r) \/ Refusing(r))
            => \E e : Records(log, e, log') /\ e.type \in {"request"} \union Failures
      BY AskingRecords, PostingRecords, FailingRecords, RefusingRecords DEF Failures
    <3> QED
      BY <3>1, <3>2, <3>3, <3>4 DEF Writes
  <2>3. c \in Continued(log)
    BY <2>2 DEF Continued
  <2> QED
    BY <1>2, <2>1, <2>3 DEF OpenedSince
<1> QED
  BY <1>3, <1>4, LeaseMoves

-----------------------------------------------------------------------------
(* What a continuation takes back. *)

LEMMA NotRecorded ==
  ASSUME Typed, Typed', Writes, NEW type \in {"retry", "continue"}, Recorded(type)
  PROVE  \/ type = "retry" /\ \E r \in Runners : Retrying(r)
         \/ type = "continue" /\ Continuing
<1>1. IsLog(log)
  BY DEF Typed
<1>2. ~Plain(log, log')
  BY DEF Plain, Recorded, Ordinary
<1>3. \A e : Records(log, e, log') => e.type = type
  BY <1>1, RecordsMake DEF Recorded
<1> QED
  BY <1>2, <1>3, AskingRecords, PostingRecords, FailingRecords, RefusingRecords, RetryingRecords,
     ContinuingRecords DEF Writes, Failures

LEMMA RetryStep ==
  ASSUME Typed, Typed', Writes, Recorded("retry")
  PROVE  /\ JustStruckOut \subseteq Of(log, {"failure", "notice", "retry", "continue"})
         /\ Cardinality(JustStruckOut \cap Of(log, {"failure"})) <= 1
<1>1. PICK r \in Runners : Retrying(r)
  BY NotRecorded
<1> DEFINE t == runner[r].trigger
           s == runner[r].source
<1>2. Fence(t, s)
  BY <1>1 DEF Retrying
<1>3. IsLog(log) /\ t \in Nat /\ (s # 0 => s \in Of(log, {"failure"}))
  BY TriggerTyped DEF Typed
<1>4. PICK e : Records(log, e, log') /\ e.type = "retry" /\ e.at = t
  BY <1>1, RetryingRecords
<1> HIDE DEF t, s
<1>5. StruckOut(log') = StruckOut(log) \union {m \in Messages(log) : t < m}
  BY <1>3, <1>4, StrikesOut
<1>6. \A m \in JustStruckOut : m \in Messages(log) /\ t < m
  BY <1>5 DEF JustStruckOut
<1>7. \A types : Of(log, types) = {k \in 1..Len(log) : log[k].type \in types}
  BY <1>3, EntriesOf
<1>8. ASSUME NEW m \in JustStruckOut
      PROVE  m \in Of(log, {"notice", "retry", "continue"}) \/ (m = s /\ s \in Of(log, {"failure"}))
  <2>1. m \in Messages(log) /\ t < m /\ m \in Nat /\ m # 0
    BY <1>3, <1>6, <1>7, LogIs DEF Messages
  <2>2. CASE m = s
    BY <1>3, <2>1, <2>2
  <2>3. CASE m # s
    BY <1>2, <2>1, <2>3 DEF Fence
  <2> QED
    BY <2>2, <2>3
<1>9. JustStruckOut \subseteq Of(log, {"failure", "notice", "retry", "continue"})
  BY <1>7, <1>8
<1>10. JustStruckOut \cap Of(log, {"failure"}) \subseteq {s}
  <2>1. \A m : ~(m \in Of(log, {"failure"}) /\ m \in Of(log, {"notice", "retry", "continue"}))
    BY <1>7
  <2> QED
    BY <1>8, <2>1
<1>11. Cardinality(JustStruckOut \cap Of(log, {"failure"})) <= 1
  <2>1. IsFiniteSet({s}) /\ Cardinality({s}) = 1
    BY FS_Singleton
  <2> QED
    BY <1>10, <2>1, FS_Subset
<1> QED
  BY <1>9, <1>11

LEMMA ContinueStep ==
  ASSUME Typed, Typed', Writes, Recorded("continue")
  PROVE  \A m \in JustStruckOut : m <= asked[2]
<1>1. Continuing
  BY NotRecorded
<1>2. IsLog(log) /\ Len(log) = asked[2]
  BY <1>1 DEF Continuing, Unchanged, Typed
<1>3. PICK e : Records(log, e, log') /\ e.type = "continue"
  BY <1>1, ContinuingRecords
<1>4. StruckOut(log') = StruckOut(log) \union {m \in Messages(log) : e.at < m}
  BY <1>2, <1>3, StrikesOut
<1>5. Messages(log) \subseteq 1..Len(log) /\ Len(log) \in Nat
  BY <1>2, EntriesOf, LogIs DEF Messages
<1> QED
  BY <1>2, <1>4, <1>5 DEF JustStruckOut

\* After a continuation the boundary lies before its target, and every message
\* after the target is struck out: the target is the only one left to ask.
LEMMA NextStep ==
  ASSUME Typed, Typed', Writes, NEW type \in {"retry", "continue"}, Recorded(type),
         Last(log').at \in Effective(log, {"user", "request"})
  PROVE  NextTrigger(log') = Last(log').at
<1> DEFINE t == Last(log').at
           n == Len(log) + 1
<1>1. PICK e : Records(log, e, log') /\ e.type \in {"retry", "continue"}
  BY NotRecorded, RetryingRecords, ContinuingRecords
<1>2. IsLog(log) /\ IsLog(log') /\ Len(log) \in Nat /\ Len(log') = n /\ log'[n] = e /\ Last(log') = e
  BY <1>1, RecordsMake, LogIs DEF Typed
<1>3. StruckOut(log') = StruckOut(log) \union {m \in Messages(log) : t < m}
  BY <1>1, <1>2, StrikesOut
<1>4. Of(log', Asks) = Of(log, Asks)
  <2>1. e.type \notin Asks
    BY <1>1 DEF Asks
  <2> QED
    BY <1>1, <1>2, <2>1, RecordsOf
<1>5. t \in Effective(log, Asks)
  BY DEF Asks
<1>6. /\ Of(log, Asks) \subseteq 1..Len(log) /\ Of(log, Asks) \subseteq Messages(log)
      /\ t \in 1..Len(log) /\ t \in Nat
  BY <1>2, <1>5, EntriesOf DEF Messages, Of, Asks, Effective
<1>7. LastBoundary(log') = n
  <2> DEFINE S == {0} \cup Of(log', {"close", "interrupt", "retry", "continue"})
  <2>1. n \in Nat /\ S \in SUBSET (0..n) /\ S # {}
    BY <1>2, EntriesOf
  <2>2. n \in S
    BY <1>1, <1>2, LastIs
  <2> HIDE DEF S
  <2>3. Max(S) \in S /\ \A x \in S : x <= Max(S)
    <3>1. S \in SUBSET Int /\ n \in Int /\ \A x \in S : x <= n
      BY <2>1
    <3> QED
      BY <2>1, <3>1, MaxIs
  <2>4. Max(S) \in 0..n /\ n <= Max(S)
    BY <2>1, <2>2, <2>3
  <2>5. \A x \in 0..n : n <= x => x = n
    BY <2>1
  <2>6. Max(S) = n
    BY <2>4, <2>5
  <2> QED
    BY <2>6 DEF LastBoundary, S
<1> HIDE DEF n
<1>8. Boundary(log') = t - 1
  <2>1. n # 0
    BY <1>2 DEF n
  <2>2. log'[n].type \notin {"close", "interrupt"} /\ log'[n].at = t
    BY <1>1, <1>2
  <2> HIDE DEF t
  <2> QED
    BY <1>7, <2>1, <2>2 DEF Boundary
<1> HIDE DEF t
<1>9. {m \in Effective(log', Asks) : m > t - 1} = {t}
  <2>1. Effective(log', Asks) = {m \in Of(log, Asks) : m \notin StruckOut(log) /\ ~(t < m)}
    BY <1>3, <1>4, <1>6 DEF Effective
  <2>2. t \in Effective(log', Asks)
    BY <1>5, <1>6, <2>1 DEF Effective
  <2>3. \A m \in Effective(log', Asks) : m \in Nat /\ ~(t < m)
    BY <1>6, <2>1
  <2>4. \A m \in Nat : ~(t < m) /\ m > t - 1 => m = t
    BY <1>6
  <2>5. t > t - 1
    BY <1>6
  <2> QED
    BY <2>2, <2>3, <2>4, <2>5
<1>10. Min({t}) = t
  BY <1>6, MinIs
<1>11. NextTrigger(log') = t
  BY <1>8, <1>9, <1>10 DEF NextTrigger, Asks
<1> QED
  BY <1>11 DEF t


-----------------------------------------------------------------------------
(* A failure is not left in silence. *)

LEMMA SettledStays ==
  ASSUME IsLog(log), IsLog(log'), Grows(log, log'), NEW k \in 1..Len(log), Settled(k)
  PROVE  Settled(k)'
<1>1. /\ DOMAIN log = 1..Len(log) /\ DOMAIN log' = 1..Len(log')
      /\ Len(log) \in Nat /\ Len(log') \in Nat
  BY LogIs
<1>2. \A n \in DOMAIN log : n \in DOMAIN log' /\ log'[n] = log[n]
  BY <1>1 DEF Grows
<1>3. log'[k] = log[k] /\ StruckOut(log) \subseteq StruckOut(log')
  BY StruckOutStays DEF Grows
<1> QED
  BY <1>2, <1>3 DEF Settled

LEMMA SettledBy ==
  ASSUME IsLog(log), NEW e, Records(log, e, log'), NEW k \in 1..Len(log),
         \/ e.type = "notice" /\ e.arg = "stopped" /\ e.at = log[k].at
         \/ e.arg = "refused" /\ e.at = log[k].at
         \/ e.type \in {"request", "interrupt"}
  PROVE  Settled(k)'
<1> DEFINE n == Len(log) + 1
<1>1. IsLog(log') /\ log'[n] = e /\ Len(log') = n /\ log'[k] = log[k] /\ Len(log) \in Nat
  BY RecordsMake, LogIs DEF Grows
<1>2. n \in DOMAIN log' /\ n > k
  BY <1>1, LogIs
<1> HIDE DEF n
<1> QED
  BY <1>1, <1>2 DEF Settled

\* A retry takes back the failures that came after the message it is for.
LEMMA SettledByRetry ==
  ASSUME IsLog(log), NEW e, Records(log, e, log'), e.type = "retry",
         NEW k \in Of(log, {"failure"}), e.at < k
  PROVE  Settled(k)'
<1>1. k \in Messages(log)
  BY DEF Of, Messages
<1>2. k \in StruckOut(log')
  BY <1>1, StrikesOut
<1> QED
  BY <1>2 DEF Settled

LEMMA InHandStays ==
  ASSUME IsLog(log), Grows(log, log'), NEW k \in 1..Len(log), NEW r \in Runners, InHand(r, k),
         runner'[r] = runner[r],
         lease' = lease \/ runner[r].pc \in {"compacting", "released", "waiting"}
  PROVE  InHand(r, k)'
<1>1. log'[k] = log[k]
  BY DEF Grows
<1>2. CASE lease' = lease
  BY <1>1, <1>2 DEF InHand, Holds, Live
<1>3. CASE runner[r].pc \in {"compacting", "released", "waiting"}
  BY <1>1, <1>3 DEF InHand
<1> QED
  BY <1>2, <1>3

Heard(k) == Settled(k) \/ \E r \in Runners : InHand(r, k)

LEMMA HeardByRunner ==
  ASSUME Typed, Typed', Writes, NEW q \in Runners, Run(q),
         NEW k \in Of(log, Failures), log[k].at < k, ~Settled(k),
         NEW r \in Runners, InHand(r, k)
  PROVE  Heard(k)'
<1>1. IsLog(log) /\ IsLog(log') /\ Grows(log, log') /\ k \in 1..Len(log)
  BY WritesGrow, EntriesOf
<1>2. runner[r].trigger = log[k].at /\ log[k].at \in Nat /\ log'[k] = log[k]
  BY <1>1, LogIs DEF InHand, Grows
<1>3. CASE q # r
  <2>1. runner'[r] = runner[r]
    BY <1>3, OthersStay
  <2>2. lease' = lease \/ runner[r].pc \in {"compacting", "released", "waiting"}
    BY <1>3 DEF InHand, Holds, Run, Begin, BeginLate, Open, Publish, Close, Compact,
       AskCheckpoint, Refused, Release, LeaseLost, Consider, Apply
  <2> QED
    BY <1>1, <2>1, <2>2, InHandStays DEF Heard
<1>4. CASE q = r
  <2>1. CASE Close(r)
    <3>1. /\ lease' = lease /\ runner'[r].pc = "closed" /\ runner'[r].trigger = runner[r].trigger
          /\ runner'[r].quiet = runner[r].quiet
      BY <2>1, CloseDoes
    <3>2. Holds(r) /\ (runner[r].quiet \/ log[k].type = "failure")
      BY <2>1 DEF InHand, Close
    <3> QED
      BY <1>2, <3>1, <3>2 DEF Heard, InHand, Holds, Live
  <2>2. CASE Compact(r)
    <3>1. runner'[r].pc = "compacting" /\ runner'[r].trigger = runner[r].trigger
      BY <2>2, CompactDoes
    <3> QED
      BY <1>2, <3>1 DEF Heard, InHand
  <2>3. CASE AskCheckpoint(r)
    <3>1. PICK e : Records(log, e, log') /\ e.type = "request"
      BY <2>3, AskCheckpointDoes, PostingRecords
    <3> QED
      BY <1>1, <3>1, SettledBy DEF Heard
  <2>4. CASE Refused(r)
    <3>1. Refusing(r)
      BY <2>4 DEF Refusing, Refused, InHand
    <3>2. PICK e : Records(log, e, log') /\ e.at = runner[r].trigger /\ e.arg = "refused"
      BY <3>1, RefusingRecords
    <3> QED
      BY <1>1, <1>2, <3>2, SettledBy DEF Heard
  <2>5. CASE Release(r)
    <3>1. runner[r].pc = "closed" /\ ~runner[r].quiet /\ log[k].type = "failure"
      BY <2>5 DEF Release, InHand
    <3>2. Goes(r, "released")
      BY <2>5, <3>1 DEF Release
    <3>3. runner'[r].pc = "released" /\ runner'[r].trigger = runner[r].trigger
      BY <1>1, <3>2, GoesFits DEF Stages
    <3> QED
      BY <1>2, <3>1, <3>3 DEF Heard, InHand
  <2>6. ASSUME Stopped(r)
        PROVE  Settled(k)'
    <3> DEFINE e == [type |-> "notice", at |-> runner[r].trigger, arg |-> "stopped"]
    <3>1. log' = Append(log, e)
      BY <2>6 DEF Stopped, Notice, E
    <3>2. e \in Entry /\ e.type = "notice" /\ e.at = log[k].at /\ e.arg = "stopped"
      BY <1>2 DEF Entry
    <3> HIDE DEF e
    <3>3. Records(log, e, log')
      BY <3>1, <3>2 DEF Records
    <3> QED
      BY <1>1, <3>2, <3>3, SettledBy
  <2>7. CASE Consider(r)
    <3> DEFINE s == SourceAfter(runner[r].trigger)
    <3>0. log[k].type = "failure"
      BY <2>7 DEF Consider, InHand
    <3>1. s # 0
      <4>1. k \in Effective(log, {"failure"})
        BY <3>0 DEF Settled, Effective, Of
      <4>2. runner[r].trigger \in Nat /\ k > runner[r].trigger
        BY <1>1, <1>2, LogIs
      <4> QED
        BY <4>1, <4>2, SourceIs
    <3>2. CASE RequestCheckpoint(r, s)
      <4>1. Asking(r)
        BY <2>7, <3>1, <3>2 DEF Asking, Consider
      <4>2. PICK e : Records(log, e, log') /\ e.type = "request"
        BY <4>1, AskingRecords
      <4> QED
        BY <1>1, <4>2, SettledBy DEF Heard
    <3>3. CASE Stopped(r)
      BY <2>6, <3>3 DEF Heard
    <3>4. CASE Schedule(r, s) /\ ~Stopped(r)
      <4> HIDE DEF s
      <4>1. runner' = [runner EXCEPT ![r].pc = "waiting", ![r].source = s]
        BY <3>4 DEF Schedule
      <4>2. runner'[r].pc = "waiting" /\ runner'[r].trigger = runner[r].trigger
        BY <4>1, TurnGoes
      <4> QED
        BY <1>2, <3>0, <4>2 DEF Heard, InHand
    <3> QED
      BY <2>7, <3>1, <3>2, <3>3, <3>4 DEF Consider
  <2>8. CASE Apply(r)
    <3>1. CASE Stopped(r)
      BY <2>6, <3>1 DEF Heard
    <3>2. CASE ~Stopped(r)
      <4>1. Retrying(r)
        BY <2>8, <3>2 DEF Apply, Retrying
      <4>2. PICK e : Records(log, e, log') /\ e.type = "retry" /\ e.at = log[k].at
        BY <1>2, <4>1, RetryingRecords
      <4>3. k \in Of(log, {"failure"})
        BY <2>8 DEF Apply, InHand, Of
      <4> QED
        BY <1>1, <4>2, <4>3, SettledByRetry DEF Heard
    <3> QED
      BY <3>1, <3>2
  <2>9. ~(Begin(r) \/ BeginLate(r) \/ Publish(r) \/ LeaseLost(r))
    BY DEF InHand, Begin, BeginLate, Publish, LeaseLost
  <2> QED
    BY <1>4, <2>1, <2>2, <2>3, <2>4, <2>5, <2>7, <2>8, <2>9 DEF Run
<1> QED
  BY <1>3, <1>4

LEMMA HeardByOthers ==
  ASSUME Typed, Typed', Writes, User \/ Fault, used'.faults = 0,
         NEW k \in Of(log, Failures),
         NEW r \in Runners, InHand(r, k)
  PROVE  Heard(k)'
<1>1. IsLog(log) /\ IsLog(log') /\ Grows(log, log') /\ k \in 1..Len(log)
  BY WritesGrow, EntriesOf
<1>2. CASE UserSays \/ AskContinue \/ Continue
  <2>1. runner' = runner /\ lease' = lease
    BY <1>2 DEF UserSays, AskContinue, Continue
  <2> QED
    BY <1>1, <2>1, InHandStays DEF Heard
<1>3. CASE Interrupt
  <2>1. runner' = runner
    BY <1>3 DEF Interrupt
  <2>2. CASE runner[r].pc \in {"compacting", "released", "waiting"}
    BY <1>1, <2>1, <2>2, InHandStays DEF Heard
  <2>3. CASE Holds(r)
    <3> DEFINE e == [type |-> "interrupt", at |-> 0, arg |-> ""]
    <3>1. log' = Append(log, e)
      BY <1>3, <2>3 DEF Interrupt, Holds, Live, E
    <3>2. e \in Entry /\ e.type = "interrupt"
      BY DEF Entry
    <3> HIDE DEF e
    <3>3. Records(log, e, log')
      BY <3>1, <3>2 DEF Records
    <3> QED
      BY <1>1, <3>2, <3>3, SettledBy DEF Heard
  <2> QED
    BY <2>2, <2>3 DEF InHand
<1>4. CASE Expire
  <2>1. runner' = runner
    BY <1>4 DEF Expire
  <2>2. runner[r].pc \in {"compacting", "released", "waiting"}
    <3> SUFFICES ASSUME runner[r].pc \in {"ended", "closed"}, lease.by = r PROVE FALSE
      BY DEF InHand, Holds
    <3>1. Counts("faults", MaxFaults)
      BY <1>4 DEF Expire, InTurn
    <3> QED
      BY <3>1, CountsTyped
  <2> QED
    BY <1>1, <2>1, <2>2, InHandStays DEF Heard
<1>5. ~\E q \in Runners : Plan(q) \/ Die(q)
  BY CountsTyped DEF Plan, Die
<1> QED
  BY <1>2, <1>3, <1>4, <1>5 DEF User, Fault

LEMMA FailuresHeardKept ==
  ASSUME Typed, Typed', Writes, FailuresHeard, [Next]_vars
  PROVE  FailuresHeard'
<1>1. IsLog(log) /\ IsLog(log') /\ Grows(log, log') /\ Len(log) \in Nat
  BY WritesGrow, LogIs
<1>2. ASSUME NEW k \in Of(log, Failures)
      PROVE  /\ log'[k].at < k
             /\ used'.faults = 0 /\ log'[k].arg # "refused" => Heard(k)'
  <2>1. k \in 1..Len(log) /\ log'[k] = log[k] /\ log[k].at < k
    BY <1>1, EntriesOf DEF Grows, FailuresHeard
  <2>2. ASSUME used'.faults = 0, log'[k].arg # "refused"
        PROVE  Heard(k)'
    <3>1. CASE Settled(k)
      BY <1>1, <2>1, <3>1, SettledStays DEF Heard
    <3>2. CASE ~Settled(k)
      <4>1. PICK r \in Runners : InHand(r, k)
        BY <2>1, <2>2, <3>2, CountsStay DEF FailuresHeard
      <4>2. CASE UNCHANGED vars
        <5>1. runner' = runner /\ lease' = lease
          BY <4>2 DEF vars
        <5> QED
          BY <1>1, <2>1, <4>1, <5>1, InHandStays DEF Heard
      <4>3. CASE \E q \in Runners : Run(q)
        BY <2>1, <3>2, <4>1, <4>3, HeardByRunner
      <4>4. CASE User \/ Fault
        BY <2>2, <4>1, <4>4, HeardByOthers
      <4> QED
        BY <4>2, <4>3, <4>4 DEF Next
    <3> QED
      BY <3>1, <3>2
  <2> QED
    BY <2>1, <2>2
<1>3. CASE Of(log', Failures) = Of(log, Failures)
  BY <1>2, <1>3 DEF FailuresHeard, Heard
<1>4. ASSUME NEW q \in Runners, NEW e, Records(log, e, log'), e.type \in Failures,
             e.at = runner[q].trigger,
             e.arg = "refused" \/ (Failing(q) /\ (runner'[q].quiet \/ e.type = "failure"))
      PROVE  FailuresHeard'
  <2>0. PICK n \in Nat : n = Len(log) + 1
    BY <1>1
  <2>2. Of(log', Failures) = Of(log, Failures) \union {n} /\ log'[n] = e
    <3>1. Of(log', Failures) = Of(log, Failures) \union {n}
      BY <1>1, <1>4, <2>0, RecordsOf
    <3>2. log'[n] = e
      BY <1>1, <1>4, <2>0, RecordsMake
    <3> QED
      BY <3>1, <3>2
  <2>3. log'[n].at < n
    BY <1>1, <1>4, <2>0, <2>2, TriggerTyped
  <2>4. log'[n].arg # "refused" => InHand(q, n)'
    <3> SUFFICES ASSUME log'[n].arg # "refused" PROVE InHand(q, n)'
      OBVIOUS
    <3>1. Failing(q) /\ (runner'[q].quiet \/ log'[n].type = "failure")
      BY <1>4, <2>2
    <3>2. runner'[q].pc = "ended" /\ runner'[q].trigger = log'[n].at /\ Holds(q) /\ lease' = lease
      BY <1>4, <2>2, <3>1 DEF Failing
    <3> QED
      BY <3>1, <3>2 DEF InHand, Holds, Live
  <2> QED
    BY <1>2, <2>2, <2>3, <2>4 DEF FailuresHeard, Heard
<1>5. ASSUME NEW q \in Runners, Failing(q) \/ Refusing(q)
      PROVE  FailuresHeard'
  <2>1. CASE Failing(q)
    <3>1. PICK e : /\ Records(log, e, log') /\ e.type \in Failures /\ e.at = runner[q].trigger
                   /\ (runner'[q].quiet \/ e.type = "failure")
      BY <2>1, FailingRecords
    <3> QED
      BY <1>4, <2>1, <3>1
  <2>2. CASE Refusing(q)
    <3>1. PICK e : /\ Records(log, e, log') /\ e.type = "failure" /\ e.at = runner[q].trigger
                   /\ e.arg = "refused"
      BY <2>2, RefusingRecords
    <3>2. e.type \in Failures
      BY <3>1 DEF Failures
    <3> QED
      BY <1>4, <3>1, <3>2
  <2> QED
    BY <1>5, <2>1, <2>2
<1>6. (\E q \in Runners : Failing(q) \/ Refusing(q)) \/ Of(log', Failures) = Of(log, Failures)
  <2>1. CASE Plain(log, log')
    BY <2>1 DEF Plain, Ordinary, Failures
  <2>2. CASE \E e : Records(log, e, log') /\ e.type \notin Failures
    <3>1. PICK e : Records(log, e, log') /\ e.type \notin Failures
      BY <2>2
    <3> QED
      BY <1>1, <3>1, RecordsOf
  <2>3. (\E q \in Runners : Asking(q) \/ Posting(q) \/ Retrying(q)) \/ Continuing
          => \E e : Records(log, e, log') /\ e.type \notin Failures
    BY AskingRecords, PostingRecords, RetryingRecords, ContinuingRecords DEF Failures
  <2> QED
    BY <2>1, <2>2, <2>3 DEF Writes
<1> QED
  BY <1>3, <1>5, <1>6

-----------------------------------------------------------------------------
(* The theorems. *)

LEMMA InitIs == Init => IInv
<1> SUFFICES ASSUME Init PROVE IInv
  OBVIOUS
<1> DEFINE e == [type |-> "user", at |-> 0, arg |-> ""]
<1>1. log = <<e>>
  BY DEF Init, E
<1>2. e \in Entry
  BY DEF Entry
<1>4. e.type = "user"
  OBVIOUS
<1> HIDE DEF e
<1>3. log \in Seq(Entry) /\ Len(log) = 1 /\ log[1] = e /\ DOMAIN log = {1}
  <2>1. Len(log) = 1 /\ log[1] = e /\ log \in Seq(Entry)
    BY <1>1, <1>2
  <2>2. DOMAIN log = 1..Len(log)
    BY <2>1
  <2> QED
    BY <2>1, <2>2
<1>5. IsLog(log)
  BY <1>3 DEF IsLog
<1>6. \A r \in Runners : TurnIs(log, runner[r])
  BY <1>5, IdleFits DEF Init
<1>7. Typed
  <2>1. runner = [r \in Runners |-> runner[r]]
    BY DEF Init
  <2>2. Counted
    BY DEF Init, Counted
  <2>3. LeaseIs(lease) /\ AskedIs(log, asked)
    BY DEF Init, LeaseIs, AskedIs
  <2>4. stop \in 0..Len(log)
    <3>1. stop = 0
      BY DEF Init
    <3> QED
      BY <1>3, <3>1
  <2> QED
    BY <1>5, <1>6, <2>1, <2>2, <2>3, <2>4, TypedIs DEF TypesFit
<1>8. Of(log, {"request"}) = {} /\ Of(log, Failures) = {}
  BY <1>3, <1>4 DEF Of, Failures
<1>9. ~Live
  BY DEF Init, Live
<1>10. LeasesKept
  BY DEF Init, Idle, InTurn, LeasesKept
<1> QED
  BY <1>7, <1>8, <1>9, <1>10 DEF IInv, CheckpointOnce, OpenedSince, FailuresHeard

\* The invariant holds in every state, whatever the numbers of processes,
\* failures, messages, interrupts and continuations.
THEOREM ContinuationInvariant == Spec => []IInv
<1>1. IInv /\ [Next]_vars => IInv'
  BY StepDoes, LeasesKeptKept, CheckpointOnceKept, OpenedSinceKept, FailuresHeardKept DEF IInv
<1> QED
  BY InitIs, <1>1, PTL DEF Spec

\* A turn and a continuation are always of a message of the log that asks for
\* one, a retry always for a failure.
THEOREM ContinuationTyped == Spec => []TypeOK
<1>1. IInv => TypeOK
  BY DEF IInv, Typed
<1> QED
  BY ContinuationInvariant, <1>1, PTL

\* While no lease is lost to a fault or an interrupt, there is between two
\* requests for a checkpoint a response of the model or a continuation: whoever
\* asks looks for a request that is pending before (api.py,
\* append_auto_compaction_summary_request), and from a runner's look after its
\* turn to its append its lease keeps the others away.
THEOREM CheckpointAskedOnce == Spec => []CheckpointOnce
<1>1. IInv => CheckpointOnce
  BY DEF IInv
<1> QED
  BY ContinuationInvariant, <1>1, PTL

\* While somebody holds the lease nobody takes back what is being answered
\* (api.py, check_recovery_fence and continue_thread look at the lease).
THEOREM TurnsStand == Spec => []TurnStands
<1>1. IInv => TurnStands
  <2> SUFFICES ASSUME IInv, NEW r \in Runners, Holds(r),
                      NEW c \in Of(log, {"retry", "continue"})
               PROVE  \E o \in Of(log, {"open"}) : ~(o < c)
    BY DEF TurnStands
  <2>1. PICK o \in Of(log, {"open"}) : c < o
    BY DEF IInv, OpenedSince, Holds, Continued
  <2>2. c \in Nat /\ o \in Nat
    BY EntriesOf, LogIs DEF IInv, Typed
  <2> QED
    BY <2>1, <2>2
<1> QED
  BY ContinuationInvariant, <1>1, PTL

\* Without a death or a lost lease, a failure, the refusal of a prompt too long
\* included, is taken back, answered by a notice, by a request for a checkpoint or
\* by the word that it was refused, interrupted, or in the hands of a runner.
THEOREM FailuresAreHeard == Spec => []NoSilentFailure
<1>1. IInv => NoSilentFailure
  <2> SUFFICES ASSUME IInv, used.faults = 0, NEW k \in Of(log, Failures),
                      log[k].arg # "refused", ~Settled(k)
               PROVE  \E r \in Runners : runner[r].pc # "idle" /\ runner[r].trigger = log[k].at
    BY DEF NoSilentFailure, Failures
  <2>1. PICK r \in Runners : InHand(r, k)
    BY DEF IInv, FailuresHeard
  <2> QED
    BY <2>1 DEF InHand
<1> QED
  BY ContinuationInvariant, <1>1, PTL

\* An automatic continuation takes back its failure and notices, nothing that
\* the user or the model said.
THEOREM RetriesTakeTheirFailure == Spec => RetryTakesOnlyTheFailure
<1>1. IInv /\ [Next]_vars =>
        [Recorded("retry") =>
           /\ JustStruckOut \subseteq Of(log, {"failure", "notice", "retry", "continue"})
           /\ Cardinality(JustStruckOut \cap Of(log, {"failure"})) <= 1]_vars
  BY StepDoes, RetryStep DEF IInv
<1> QED
  BY ContinuationInvariant, <1>1, PTL DEF Spec, RetryTakesOnlyTheFailure

\* A manual continuation takes back only what its user had seen.
THEOREM ContinuesTakeWhatWasSeen == Spec => ContinueTakesOnlyWhatWasSeen
<1>1. IInv /\ [Next]_vars =>
        [Recorded("continue") => \A m \in JustStruckOut : m <= asked[2]]_vars
  BY StepDoes, ContinueStep DEF IInv
<1> QED
  BY ContinuationInvariant, <1>1, PTL DEF Spec, ContinueTakesOnlyWhatWasSeen

\* The message that a continuation starts from is the next to be answered.
THEOREM ContinuedComesNext == Spec => ContinuedIsNext
<1>1. IInv /\ [Next]_vars =>
        [\A type \in {"retry", "continue"} :
           Recorded(type) /\ Last(log').at \in Effective(log, {"user", "request"}) =>
             NextTrigger(log') = Last(log').at]_vars
  BY StepDoes, NextStep DEF IInv
<1> QED
  BY ContinuationInvariant, <1>1, PTL DEF Spec, ContinuedIsNext

=============================================================================
