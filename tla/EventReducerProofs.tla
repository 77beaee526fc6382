-------------------------- MODULE EventReducerProofs --------------------------
(***************************************************************************)
(* What the log of a thread is read as, for any threads to start from and  *)
(* any number of events:                                                   *)
(*   - a turn of the model that was closed is not asked for again by the   *)
(*     same message: what asks for a turn lies behind the boundary, and    *)
(*     the boundary does not lie before the last turn's end unless the     *)
(*     thread was continued since; and in one event loop nothing but an    *)
(*     interruption is written between the choice of a turn and its        *)
(*     stream;                                                             *)
(*   - the state has its types: a replay is followed event by event;       *)
(*   - a continuation starts over at its message;                          *)
(*   - the reduction kept up to date event by event is the one rebuilt     *)
(*     from the whole log, of a thread that nobody has continued and whose *)
(*     global approvals were each revoked before the next: at every event  *)
(*     the two agree on each call that is declared by then, except for     *)
(*     what the rebuild reads at the end (the interruptions) or at the     *)
(*     declaration (a global approval), which Shown puts on a replay.      *)
(***************************************************************************)
EXTENDS EventReducer, Extrema

-----------------------------------------------------------------------------
(* The log. *)

IsLog(L) == \E S : L \in Seq(S)

Grows(L, M) ==
  /\ Len(M) >= Len(L)
  /\ \A k \in 1..Len(L) : M[k] = L[k]

IsTurn(e) == e.type = "open" /\ e.arg = "llm"

\* A turn is opened after the message it is for.
OpensLater(L) == \A k \in DOMAIN L : IsTurn(L[k]) => L[k].at \in 1..(k - 1)

LEMMA LogIs ==
  ASSUME NEW L, IsLog(L)
  PROVE  Len(L) \in Nat /\ DOMAIN L = 1..Len(L)
BY DEF IsLog

LEMMA AnsweredIs ==
  ASSUME NEW L, IsLog(L)
  PROVE  AnsweredIn(L) <=>
           \A j, k \in 1..Len(L) :
             j < k /\ IsTurn(L[j]) /\ IsTurn(L[k]) /\ L[j].at = L[k].at
               => \/ \A n \in j..k : ~(L[n].type = "close" /\ L[n].by = L[j].by)
                  \/ \E n \in j..k : L[n].type = "continue"
<1>1. DOMAIN L = 1..Len(L)
  BY LogIs
<1> QED
  BY <1>1 DEF AnsweredIn, IsTurn, Positions

\* An event written.
LEMMA WritesOne ==
  ASSUME IsLog(log), NEW e, Write(e)
  PROVE  /\ IsLog(log') /\ Grows(log, log')
         /\ Len(log') = Len(log) + 1 /\ log'[Len(log) + 1] = e
         /\ thread' = Rebuild(log')
<1>1. PICK S : log \in Seq(S)
  BY DEF IsLog
<1>2. log' = Append(log, e) /\ thread' = Rebuild(log')
  BY DEF Write
<1>3. log \in Seq(S \union {e})
  BY <1>1
<1>4. /\ log' \in Seq(S \union {e}) /\ Len(log') = Len(log) + 1 /\ log'[Len(log) + 1] = e
      /\ \A k \in 1..Len(log) : log'[k] = log[k]
  BY <1>2, <1>3
<1>5. Len(log) \in Nat
  BY LogIs
<1> QED
  BY <1>2, <1>4, <1>5 DEF IsLog, Grows

\* One more event, if it is a turn then for a message that is there.
LEMMA OneMore ==
  ASSUME NEW L, NEW M, IsLog(L), IsLog(M), Grows(L, M), Len(M) = Len(L) + 1, OpensLater(L),
         IsTurn(M[Len(M)]) => M[Len(M)].at \in 1..Len(L)
  PROVE  OpensLater(M)
<1>1. Len(L) \in Nat /\ DOMAIN L = 1..Len(L) /\ DOMAIN M = 1..Len(M)
  BY LogIs
<1> SUFFICES ASSUME NEW n \in DOMAIN M, IsTurn(M[n]) PROVE M[n].at \in 1..(n - 1)
  BY DEF OpensLater
<1>2. CASE n \in 1..Len(L)
  BY <1>1, <1>2 DEF OpensLater, Grows
<1>3. CASE n = Len(M)
  BY <1>1, <1>3
<1> QED
  BY <1>1, <1>2, <1>3

LEMMA GrowsAgain ==
  ASSUME NEW P, NEW L, NEW M, IsLog(P), IsLog(L), IsLog(M), Grows(P, L), Grows(L, M)
  PROVE  Grows(P, M)
<1>1. Len(P) \in Nat /\ Len(L) \in Nat /\ Len(M) \in Nat
  BY LogIs
<1> QED
  BY <1>1 DEF Grows

\* What opens no turn of the model leaves the turns as they were.
LEMMA QuietGrows ==
  ASSUME NEW L, NEW M, IsLog(L), IsLog(M), Grows(L, M), AnsweredIn(L), OpensLater(L),
         \A n \in (Len(L) + 1)..Len(M) : ~IsTurn(M[n])
  PROVE  AnsweredIn(M)
<1>1. Len(L) \in Nat /\ Len(M) \in Nat /\ DOMAIN L = 1..Len(L) /\ DOMAIN M = 1..Len(M)
  BY LogIs
<1>2. \A n \in 1..Len(M) : IsTurn(M[n]) => n \in 1..Len(L)
  BY <1>1
<1>3. \A n \in 1..Len(L) : M[n] = L[n]
  BY DEF Grows
<1>4. ASSUME NEW j \in 1..Len(M), NEW k \in 1..Len(M), j < k, IsTurn(M[j]), IsTurn(M[k]),
             M[j].at = M[k].at
      PROVE  \/ \A n \in j..k : ~(M[n].type = "close" /\ M[n].by = M[j].by)
             \/ \E n \in j..k : M[n].type = "continue"
  <2>1. j \in 1..Len(L) /\ k \in 1..Len(L) /\ M[j] = L[j] /\ M[k] = L[k]
    BY <1>2, <1>3, <1>4
  <2>2. \A n \in j..k : n \in 1..Len(L) /\ M[n] = L[n]
    BY <1>1, <1>3, <2>1
  <2>3. \/ \A n \in j..k : ~(L[n].type = "close" /\ L[n].by = L[j].by)
        \/ \E n \in j..k : L[n].type = "continue"
    BY <1>4, <2>1, AnsweredIs
  <2> QED
    BY <2>1, <2>2, <2>3
<1> QED
  BY <1>4, AnsweredIs

-----------------------------------------------------------------------------
(* The boundary. *)

LEMMA LatestIs ==
  ASSUME NEW N \in Nat, NEW S \in SUBSET (1..N)
  PROVE  Latest(S) \in S \cup {-1} /\ \A x \in S : x <= Latest(S)
<1> DEFINE T == S \cup {-1}
<1>1. T \in SUBSET Int /\ N \in Int /\ T # {} /\ \A x \in T : x <= N
  OBVIOUS
<1>2. Latest(S) = Max(T)
  BY DEF Latest
<1> HIDE DEF T
<1>3. Max(T) \in T /\ \A x \in T : x <= Max(T)
  BY <1>1, MaxIs
<1> QED
  BY <1>2, <1>3 DEF T

LEMMA PositionsAre ==
  ASSUME NEW L
  PROVE  /\ Continues(L) = {k \in DOMAIN L : L[k].type = "continue"}
         /\ TurnEnds(L) = {k \in DOMAIN L : EndsTurn(L[k], LLM(L))}
         /\ LLM(L) = {L[k].by : k \in {n \in DOMAIN L : IsTurn(L[n])}}
         /\ Positions(L, IsMessage) = {k \in DOMAIN L : IsMessage(L[k])}
BY DEF Continues, TurnEnds, LLM, Positions, IsTurn

\* The boundary is no earlier than the end of a turn, unless the thread was
\* continued after it.
LEMMA BoundaryIs ==
  ASSUME NEW L, IsLog(L), NEW n \in TurnEnds(L), \A c \in Continues(L) : c < n
  PROVE  n <= Boundary(L) /\ Boundary(L) \in Int
<1> DEFINE S == TurnEnds(L) \cup Continues(L)
           b == Latest(S)
<1>1. Len(L) \in Nat /\ S \in SUBSET (1..Len(L)) /\ n \in 1..Len(L)
  <2>1. Len(L) \in Nat /\ DOMAIN L = 1..Len(L)
    BY LogIs
  <2>2. TurnEnds(L) \subseteq DOMAIN L /\ Continues(L) \subseteq DOMAIN L
    BY DEF TurnEnds, Continues, Positions
  <2> QED
    BY <2>1, <2>2
<1>2. b \in S \cup {-1} /\ \A x \in S : x <= b
  <2> HIDE DEF S
  <2> QED
    BY <1>1, LatestIs
<1>3. n <= b
  BY <1>2
<1>4. b # -1 /\ b \notin Continues(L)
  <2>1. b \in Int /\ n \in Nat /\ n > 0
    BY <1>1, <1>2
  <2> HIDE DEF b, S
  <2> QED
    BY <1>3, <2>1
<1>5. Boundary(L) = b
  <2> HIDE DEF b
  <2>1. Boundary(L) = CASE b = -1 -> Latest(Assistants(L))
                        [] b \in Continues(L) -> L[b].at - 1
                        [] OTHER -> b
    BY DEF Boundary, b, S
  <2> QED
    BY <1>4, <2>1
<1> QED
  BY <1>1, <1>2, <1>3, <1>5

\* A turn that is to be run is for a message behind the boundary.
LEMMA NextIsBehind ==
  ASSUME NEW L, IsLog(L), Rebuild(L).next.kind = "RA1"
  PROVE  Rebuild(L).next.at \in 1..Len(L) /\ Rebuild(L).next.at > Boundary(L)
<1> DEFINE calls == RebuiltCalls(L)
           after == {m \in Positions(L, IsMessage) \ Skipped(L) : m > Boundary(L)}
           triggers == {m \in after : Triggers(L[m])}
<1>1. Rebuild(L).next = NextWork(L, calls, after)
  BY DEF Rebuild
<1>2. Len(L) \in Nat /\ after \subseteq 1..Len(L)
  BY LogIs, PositionsAre
<1>3. \A m \in after : m > Boundary(L)
  OBVIOUS
<1> HIDE DEF calls, after
<1>4. NextWork(L, calls, after).kind = "RA1" =>
        triggers # {} /\ NextWork(L, calls, after).at = Min(triggers)
  BY DEF NextWork, NoWork
<1>5. triggers # {} => Min(triggers) \in triggers
  <2>1. triggers \subseteq after /\ after \subseteq Nat
    BY <1>2
  <2> HIDE DEF triggers
  <2> QED
    BY <2>1, MinIs
<1> QED
  BY <1>1, <1>2, <1>3, <1>4, <1>5

\* A turn opened for what was to be done: its message lies behind the
\* boundary, so no turn that was closed is for the same one, unless the
\* thread was continued since.
LEMMA TurnOpens ==
  ASSUME NEW L, NEW M, IsLog(L), IsLog(M), Grows(L, M), AnsweredIn(L), OpensLater(L),
         NEW k, k = Len(M), k > Len(L), M[k].at \in 1..Len(L), M[k].at > Boundary(L),
         \A n \in (Len(L) + 1)..(k - 1) : M[n].type = "interrupt"
  PROVE  AnsweredIn(M) /\ OpensLater(M)
<1>1. Len(L) \in Nat /\ k \in Nat /\ DOMAIN L = 1..Len(L) /\ DOMAIN M = 1..k
  BY LogIs
<1>2. \A n \in 1..Len(L) : M[n] = L[n]
  BY DEF Grows
<1>3. \A n \in 1..k : n \in 1..Len(L) \/ n = k \/ M[n].type = "interrupt"
  BY <1>1
<1>4. \A n \in 1..k : IsTurn(M[n]) => n \in 1..Len(L) \/ n = k
  BY <1>3 DEF IsTurn
<1>5. OpensLater(M)
  <2> SUFFICES ASSUME NEW n \in 1..k, IsTurn(M[n]) PROVE M[n].at \in 1..(n - 1)
    BY <1>1 DEF OpensLater
  <2>1. CASE n \in 1..Len(L)
    BY <1>1, <1>2, <2>1 DEF OpensLater
  <2>2. CASE n = k
    BY <1>1, <2>2
  <2> QED
    BY <1>4, <2>1, <2>2
<1>6. ASSUME NEW j \in 1..k, NEW l \in 1..k, j < l, IsTurn(M[j]), IsTurn(M[l]),
             M[j].at = M[l].at
      PROVE  \/ \A n \in j..l : ~(M[n].type = "close" /\ M[n].by = M[j].by)
             \/ \E n \in j..l : M[n].type = "continue"
  <2>1. j \in 1..Len(L) /\ M[j] = L[j]
    BY <1>1, <1>2, <1>4, <1>6
  <2>2. CASE l \in 1..Len(L)
    <3>1. \A n \in j..l : n \in 1..Len(L) /\ M[n] = L[n]
      BY <1>1, <1>2, <2>1, <2>2
    <3>2. M[l] = L[l]
      BY <1>2, <2>2
    <3>3. \/ \A n \in j..l : ~(L[n].type = "close" /\ L[n].by = L[j].by)
          \/ \E n \in j..l : L[n].type = "continue"
      BY <1>6, <2>1, <2>2, <3>2, AnsweredIs
    <3> QED
      BY <2>1, <3>1, <3>3
  <2>3. CASE l = k
    <3> SUFFICES ASSUME NEW n \in j..k, M[n].type = "close", M[n].by = M[j].by,
                        ~\E c \in j..k : M[c].type = "continue"
                 PROVE  FALSE
      BY <2>3
    <3>1. n \in 1..Len(L) /\ M[n] = L[n]
      <4>1. n \in 1..k
        BY <1>1, <2>1
      <4>2. n # k
        BY <1>6, <2>3 DEF IsTurn
      <4>3. M[n].type # "interrupt"
        OBVIOUS
      <4> QED
        BY <1>2, <1>3, <4>1, <4>2, <4>3
    <3>2. n \in TurnEnds(L)
      <4>1. L[j].by \in LLM(L)
        BY <1>1, <1>6, <2>1, PositionsAre
      <4>2. EndsTurn(L[n], LLM(L))
        BY <2>1, <3>1, <4>1 DEF EndsTurn
      <4> QED
        BY <1>1, <3>1, <4>2, PositionsAre
    <3>3. \A c \in Continues(L) : c < n
      <4> SUFFICES ASSUME NEW c \in Continues(L), ~(c < n) PROVE FALSE
        OBVIOUS
      <4>1. c \in 1..Len(L) /\ L[c].type = "continue"
        <5>1. Continues(L) = {q \in DOMAIN L : L[q].type = "continue"}
          BY PositionsAre
        <5> QED
          BY <1>1, <5>1
      <4>2. c \in j..k /\ M[c] = L[c]
        BY <1>1, <1>2, <2>1, <3>1, <4>1
      <4> QED
        BY <4>1, <4>2
    <3>4. n <= Boundary(L) /\ Boundary(L) \in Int
      BY <3>2, <3>3, BoundaryIs
    <3>5. L[j].at \in 1..(j - 1)
      BY <1>1, <1>6, <2>1 DEF OpensLater
    <3>6. M[k].at = L[j].at
      BY <1>6, <2>1, <2>3
    <3> QED
      BY <1>1, <2>1, <3>1, <3>4, <3>5, <3>6
  <2> QED
    BY <1>4, <1>6, <2>2, <2>3
<1> QED
  BY <1>1, <1>5, <1>6, AnsweredIs

-----------------------------------------------------------------------------
(* The steps. *)

Read == thread = Rebuild(log)

\* A turn is planned for a message of the log.
PlansFit ==
  /\ plan = [i \in Invocations |-> plan[i]]
  /\ \A i \in Invocations : plan[i].work.kind = "RA1" => plan[i].work.at \in 1..Len(log)

\* A turn was planned for what was to be done, and nothing but interruptions
\* was written since.
Stands(L, w) ==
  w.kind = "RA1" => \E P :
    /\ IsLog(P) /\ Grows(P, L) /\ AnsweredIn(P) /\ OpensLater(P)
    /\ w.at \in 1..Len(P) /\ w.at > Boundary(P)
    /\ \A n \in (Len(P) + 1)..Len(L) : L[n].type = "interrupt"

\* In one event loop a plan stands, and there is one at a time.
PlansStand ==
  /\ \A i \in Invocations : Stands(log, plan[i].work)
  /\ \A i, j \in Invocations : plan[i] # Idle /\ plan[j] # Idle => i = j

IInv ==
  /\ IsLog(log) /\ Read /\ OpensLater(log) /\ PlansFit
  /\ Colocated => AnsweredOnce /\ PlansStand

LEMMA IdleStands ==
  ASSUME NEW L
  PROVE  NoWork.kind # "RA1" /\ Stands(L, NoWork)
BY DEF NoWork, Stands

LEMMA WritesAll ==
  ASSUME IsLog(log), NEW e, Write(e)
  PROVE  /\ IsLog(log') /\ Grows(log, log') /\ Len(log) \in Nat
         /\ Len(log') = Len(log) + 1 /\ log'[Len(log')] = e /\ thread' = Rebuild(log')
BY WritesOne, LogIs

LEMMA QuietAnswers ==
  ASSUME IsLog(log), OpensLater(log), NEW e, Write(e), ~IsTurn(e), AnsweredOnce
  PROVE  AnsweredOnce'
<1>1. /\ IsLog(log') /\ Grows(log, log') /\ Len(log) \in Nat
      /\ Len(log') = Len(log) + 1 /\ log'[Len(log')] = e
  BY WritesAll
<1>2. \A n \in (Len(log) + 1)..Len(log') : ~IsTurn(log'[n])
  BY <1>1
<1>3. AnsweredIn(log')
  BY <1>1, <1>2, QuietGrows DEF AnsweredOnce
<1> QED
  BY <1>3 DEF AnsweredOnce

\* In one event loop there is no plan while others write.
LEMMA QuietKeeps ==
  ASSUME IInv, NEW e, Add(e), ~IsTurn(e)
  PROVE  IInv'
<1>1. Write(e) /\ plan' = plan /\ (Colocated => \A i \in Invocations : plan[i] = Idle)
  BY DEF Add, Undisturbed
<1>2. /\ IsLog(log) /\ IsLog(log') /\ Grows(log, log') /\ Len(log) \in Nat
      /\ Len(log') = Len(log) + 1 /\ log'[Len(log')] = e /\ thread' = Rebuild(log')
  BY <1>1, WritesAll DEF IInv
<1>3. OpensLater(log')
  BY <1>2, OneMore DEF IInv
<1>4. PlansFit'
  BY <1>1, <1>2 DEF IInv, PlansFit
<1>5. Colocated => AnsweredOnce'
  BY <1>1, QuietAnswers DEF IInv
<1>6. Colocated => PlansStand'
  BY <1>1, IdleStands DEF PlansStand, Idle
<1> QED
  BY <1>2, <1>3, <1>4, <1>5, <1>6 DEF IInv, Read

LEMMA StillKeeps ==
  ASSUME IInv, UNCHANGED <<log, thread, plan>>
  PROVE  IInv'
BY DEF IInv, IsLog, Read, OpensLater, AnsweredOnce, PlansFit, PlansStand, Stands

\* The steps of a plan that write nothing.
LEMMA PlansKeep ==
  ASSUME IInv, UNCHANGED <<log, thread>>, NEW i \in Invocations, NEW pc, NEW work,
         Proceeds(i, pc, work),
         work.kind = "RA1" => work.at \in 1..Len(log),
         Colocated => Stands(log, work) /\ \A j \in Invocations : plan[j] # Idle => j = i
  PROVE  IInv'
<1>0. PlansFit
  BY DEF IInv
<1>1. /\ plan' = [j \in Invocations |-> plan'[j]]
      /\ plan'[i].work = work
      /\ \A j \in Invocations : j # i => plan'[j] = plan[j]
  BY <1>0 DEF PlansFit, Proceeds
<1>2. PlansFit'
  BY <1>1 DEF IInv, PlansFit
<1>3. Colocated => PlansStand'
  BY <1>1 DEF IInv, PlansStand
<1> QED
  BY <1>2, <1>3 DEF IInv, IsLog, Read, OpensLater, AnsweredOnce

LEMMA LookKeeps ==
  ASSUME IInv, NEW i \in Invocations, Look(i)
  PROVE  IInv'
<1>1. Proceeds(i, "planned", thread.next) /\ UNCHANGED <<log, thread>>
  BY DEF Look
<1>2. thread.next.kind = "RA1" => thread.next.at \in 1..Len(log) /\ thread.next.at > Boundary(log)
  BY NextIsBehind DEF IInv, Read
<1>3. Grows(log, log) /\ Len(log) \in Nat
  BY LogIs DEF IInv, Grows
<1>4. Colocated => Stands(log, thread.next)
  <2> SUFFICES ASSUME Colocated, thread.next.kind = "RA1" PROVE Stands(log, thread.next)
    BY DEF Stands
  <2>1. \A n \in (Len(log) + 1)..Len(log) : log[n].type = "interrupt"
    BY <1>3
  <2> QED
    BY <1>2, <1>3, <2>1 DEF Stands, IInv, AnsweredOnce
<1>5. Colocated => \A j \in Invocations : plan[j] # Idle => j = i
  BY DEF Look, Undisturbed
<1> QED
  BY <1>1, <1>2, <1>4, <1>5, PlansKeep

LEMMA AcquireKeeps ==
  ASSUME IInv, NEW i \in Invocations, Acquire(i)
  PROVE  IInv'
<1>1. plan[i] # Idle /\ Proceeds(i, "leased", plan[i].work) /\ UNCHANGED <<log, thread>>
  BY DEF Acquire, Leased, Idle
<1>2. /\ plan[i].work.kind = "RA1" => plan[i].work.at \in 1..Len(log)
      /\ Colocated => /\ Stands(log, plan[i].work)
                      /\ \A j \in Invocations : plan[j] # Idle => j = i
  BY <1>1 DEF IInv, PlansFit, PlansStand
<1> QED
  BY <1>1, <1>2, PlansKeep

LEMMA GiveUpKeeps ==
  ASSUME IInv, NEW i \in Invocations, GiveUp(i)
  PROVE  IInv'
<1>1. plan[i] # Idle /\ Proceeds(i, "idle", NoWork) /\ UNCHANGED <<log, thread>>
  BY DEF GiveUp
<1>2. Colocated => \A j \in Invocations : plan[j] # Idle => j = i
  BY <1>1 DEF IInv, PlansStand
<1> QED
  BY <1>1, <1>2, PlansKeep, IdleStands

\* The invocation that is replaced is interrupted.
LEMMA TakeOverKeeps ==
  ASSUME IInv, NEW i \in Invocations, TakeOver(i)
  PROVE  IInv'
<1> DEFINE e == Interrupted
<1>1. Write(e) /\ Proceeds(i, "leased", plan[i].work) /\ e.type = "interrupt" /\ ~IsTurn(e)
  BY DEF TakeOver, Leased, Interrupted, Ev, IsTurn
<1> HIDE DEF e
<1>2. /\ IsLog(log) /\ IsLog(log') /\ Grows(log, log') /\ Len(log) \in Nat
      /\ Len(log') = Len(log) + 1 /\ log'[Len(log')] = e /\ thread' = Rebuild(log')
  BY <1>1, WritesAll DEF IInv
<1>3. /\ plan' = [j \in Invocations |-> plan'[j]]
      /\ \A j \in Invocations : plan'[j].work = plan[j].work
      /\ \A j \in Invocations : plan'[j] = plan[j] \/ j = i
  <2>1. PlansFit
    BY DEF IInv
  <2>2. /\ plan' = [j \in Invocations |-> plan'[j]]
        /\ plan'[i].work = plan[i].work
        /\ \A j \in Invocations : j # i => plan'[j] = plan[j]
    BY <1>1, <2>1 DEF PlansFit, Proceeds
  <2> QED
    BY <2>2
<1>0. plan[i] # Idle
  BY DEF TakeOver, Idle
<1>4. OpensLater(log')
  BY <1>1, <1>2, OneMore DEF IInv
<1>5. PlansFit'
  BY <1>2, <1>3 DEF IInv, PlansFit
<1>6. Colocated => AnsweredOnce'
  BY <1>1, QuietAnswers DEF IInv
<1>7. ASSUME NEW w, Stands(log, w)
      PROVE  Stands(log', w)
  <2> SUFFICES ASSUME w.kind = "RA1" PROVE Stands(log', w)
    BY DEF Stands
  <2>1. PICK P : /\ IsLog(P) /\ Grows(P, log) /\ AnsweredIn(P) /\ OpensLater(P)
                 /\ w.at \in 1..Len(P) /\ w.at > Boundary(P)
                 /\ \A n \in (Len(P) + 1)..Len(log) : log[n].type = "interrupt"
    BY <1>7 DEF Stands
  <2>2. Grows(P, log') /\ Len(P) \in Nat
    BY <1>2, <2>1, GrowsAgain, LogIs
  <2>3. \A n \in (Len(P) + 1)..Len(log') : log'[n].type = "interrupt"
    <3> SUFFICES ASSUME NEW n \in (Len(P) + 1)..Len(log') PROVE log'[n].type = "interrupt"
      OBVIOUS
    <3>1. CASE n = Len(log')
      BY <1>1, <1>2, <3>1
    <3>2. CASE n # Len(log')
      <4>1. n \in (Len(P) + 1)..Len(log) /\ n \in 1..Len(log)
        BY <1>2, <2>2, <3>2
      <4> QED
        BY <1>2, <2>1, <4>1 DEF Grows
    <3> QED
      BY <3>1, <3>2
  <2> QED
    BY <2>1, <2>2, <2>3 DEF Stands
<1>8. Colocated => PlansStand'
  BY <1>0, <1>3, <1>7 DEF IInv, PlansStand
<1> QED
  BY <1>2, <1>4, <1>5, <1>6, <1>8 DEF IInv, Read

\* The event of a stream: a turn of the model when that was planned.
LEMMA OpenedIs ==
  ASSUME NEW i, IsTurn(Opened(i))
  PROVE  plan[i].work.kind = "RA1" /\ Opened(i).at = plan[i].work.at
<1>1. Opened(i).arg = Stream(plan[i].work.kind) /\ Opened(i).at = plan[i].work.at
  BY DEF Opened, Ev
<1> QED
  BY <1>1 DEF IsTurn, Stream

LEMMA OpenKeeps ==
  ASSUME IInv, NEW i \in Invocations, OpenStream(i)
  PROVE  IInv'
<1> DEFINE e == Opened(i)
<1>1. Write(e) /\ Proceeds(i, "idle", NoWork)
  BY DEF OpenStream
<1>2. IsTurn(e) => plan[i].work.kind = "RA1" /\ e.at = plan[i].work.at
  BY OpenedIs
<1> HIDE DEF e
<1>3. /\ IsLog(log) /\ IsLog(log') /\ Grows(log, log') /\ Len(log) \in Nat
      /\ Len(log') = Len(log) + 1 /\ log'[Len(log')] = e /\ thread' = Rebuild(log')
  BY <1>1, WritesAll DEF IInv
<1>4. /\ plan' = [j \in Invocations |-> plan'[j]] /\ plan'[i].work = NoWork
      /\ \A j \in Invocations : j # i => plan'[j] = plan[j]
  <2>1. PlansFit
    BY DEF IInv
  <2> QED
    BY <1>1, <2>1 DEF PlansFit, Proceeds
<1>5. OpensLater(log')
  BY <1>2, <1>3, OneMore DEF IInv, PlansFit
<1>6. PlansFit'
  <2> SUFFICES ASSUME NEW j \in Invocations, plan'[j].work.kind = "RA1"
               PROVE  plan'[j].work.at \in 1..Len(log')
    BY <1>4 DEF PlansFit
  <2>1. j # i
    BY <1>4, IdleStands
  <2>2. plan'[j].work.at \in 1..Len(log)
    BY <1>4, <2>1 DEF IInv, PlansFit
  <2> QED
    BY <1>3, <2>2
<1>7. Colocated => AnsweredOnce'
  <2> SUFFICES ASSUME Colocated PROVE AnsweredIn(log')
    BY DEF AnsweredOnce
  <2>1. CASE ~IsTurn(e)
    BY <1>1, <2>1, QuietAnswers DEF IInv, AnsweredOnce
  <2>2. CASE IsTurn(e)
    <3>1. PICK P : /\ IsLog(P) /\ Grows(P, log) /\ AnsweredIn(P) /\ OpensLater(P)
                   /\ e.at \in 1..Len(P) /\ e.at > Boundary(P)
                   /\ \A n \in (Len(P) + 1)..Len(log) : log[n].type = "interrupt"
      BY <1>2, <2>2 DEF IInv, PlansStand, Stands
    <3>2. PICK k : k = Len(log')
      OBVIOUS
    <3>3. Grows(P, log') /\ Len(P) \in Nat /\ Len(P) <= Len(log)
      BY <1>3, <3>1, GrowsAgain, LogIs DEF Grows
    <3>4. \A n \in (Len(P) + 1)..(k - 1) : log'[n].type = "interrupt"
      <4> SUFFICES ASSUME NEW n \in (Len(P) + 1)..(k - 1) PROVE log'[n].type = "interrupt"
        OBVIOUS
      <4>1. n \in 1..Len(log) /\ n \in (Len(P) + 1)..Len(log)
        BY <1>3, <3>2, <3>3
      <4> QED
        BY <1>3, <3>1, <4>1 DEF Grows
    <3>5. k > Len(P) /\ log'[k] = e
      BY <1>3, <3>2, <3>3
    <3> QED
      BY <1>3, <2>2, <3>1, <3>2, <3>3, <3>4, <3>5, TurnOpens
  <2> QED
    BY <2>1, <2>2
<1>8. Colocated => PlansStand'
  <2> SUFFICES ASSUME Colocated PROVE PlansStand'
    OBVIOUS
  <2>1. plan[i] # Idle
    BY DEF OpenStream, Idle
  <2>2. \A j \in Invocations : j # i => plan[j] = Idle
    BY <2>1 DEF IInv, PlansStand
  <2>3. \A j \in Invocations : plan'[j].work = NoWork /\ plan'[j] = Idle
    BY <1>1, <1>4, <2>2 DEF Idle, IInv, PlansFit, Proceeds
  <2> QED
    BY <2>3, IdleStands DEF PlansStand
<1> QED
  BY <1>3, <1>5, <1>6, <1>7, <1>8 DEF IInv, Read

\* The other events open nothing.
LEMMA EventIsNoTurn ==
  ASSUME NEW type, type # "open", NEW call, NEW by, NEW arg, NEW at
  PROVE  ~IsTurn(Ev(type, call, by, arg, at))
BY DEF IsTurn, Ev

LEMMA UserKeeps ==
  ASSUME IInv, UserStep
  PROVE  IInv'
<1>1. \E e : Add(e) /\ ~IsTurn(e)
  <2>1. ASSUME NEW c, UserSays(c)
        PROVE  \E e : Add(e) /\ ~IsTurn(e)
    BY <2>1, EventIsNoTurn DEF UserSays
  <2>2. ASSUME NEW c, NEW d, Approve(c, d)
        PROVE  \E e : Add(e) /\ ~IsTurn(e)
    BY <2>2, EventIsNoTurn DEF Approve
  <2>3. ASSUME NEW c, NEW by, Decide(c, by)
        PROVE  \E e : Add(e) /\ ~IsTurn(e)
    BY <2>3, EventIsNoTurn DEF Decide
  <2>4. ASSUME ApproveTurn \/ InterruptPending
        PROVE  \E e : Add(e) /\ ~IsTurn(e)
    BY <2>4, EventIsNoTurn DEF ApproveTurn, InterruptPending
  <2>5. ASSUME NEW arg, SetGlobal(arg)
        PROVE  \E e : Add(e) /\ ~IsTurn(e)
    BY <2>5, EventIsNoTurn DEF SetGlobal
  <2>6. ASSUME InterruptStream
        PROVE  \E e : Add(e) /\ ~IsTurn(e)
    BY <2>6, EventIsNoTurn DEF InterruptStream, Interrupted
  <2>7. ASSUME NEW m, Continue(m)
        PROVE  \E e : Add(e) /\ ~IsTurn(e)
    BY <2>7, EventIsNoTurn DEF Continue
  <2> QED
    BY <2>1, <2>2, <2>3, <2>4, <2>5, <2>6, <2>7 DEF UserStep
<1> QED
  BY <1>1, QuietKeeps

LEMMA OwnedKeeps ==
  ASSUME IInv, NEW type, type # "open", NEW call, NEW arg, Owned(type, call, arg)
  PROVE  IInv'
BY QuietKeeps, EventIsNoTurn DEF Owned

LEMMA RunnerKeeps ==
  ASSUME IInv, RunnerStep
  PROVE  IInv'
<1>1. ASSUME NEW i \in Invocations,
             Look(i) \/ Acquire(i) \/ TakeOver(i) \/ OpenStream(i) \/ GiveUp(i)
      PROVE  IInv'
  BY <1>1, LookKeeps, AcquireKeeps, TakeOverKeeps, OpenKeeps, GiveUpKeeps
<1>2. ASSUME Expire \/ Sweep
      PROVE  IInv'
  BY <1>2, StillKeeps DEF Expire, Sweep
<1>3. ASSUME Close
      PROVE  IInv'
  BY <1>3, OwnedKeeps DEF Close
<1>4. ASSUME NEW c, AssistantSays(c) \/ Start(c) \/ Resume(c) \/ Finish(c) \/ DecideAutomatically(c)
      PROVE  IInv'
  BY <1>4, OwnedKeeps DEF AssistantSays, Start, Resume, Finish, DecideAutomatically
<1>5. ASSUME NEW c, Publish(c)
      PROVE  IInv'
  BY <1>5, QuietKeeps, EventIsNoTurn DEF Publish
<1> QED
  BY <1>1, <1>2, <1>3, <1>4, <1>5 DEF RunnerStep

-----------------------------------------------------------------------------
(* A turn is answered once. *)

\* The invariant holds in every state: thread is what the log rebuilds to, a
\* turn is opened after the message it is for and, in one event loop, answered
\* once.
THEOREM ReducerInvariant == Spec => []IInv
<1>1. Init => IInv
  <2> SUFFICES ASSUME Init PROVE IInv
    OBVIOUS
  <2>1. log \in Seq(Event) /\ OpensLater(log) /\ AnsweredIn(log)
    BY HistoriesAssumption DEF Init, OpensLater, IsTurn
  <2> QED
    BY <2>1, IdleStands DEF Init, IInv, IsLog, Read, AnsweredOnce, PlansFit, PlansStand, Idle
<1>2. IInv /\ [Next]_vars => IInv'
  <2> SUFFICES ASSUME IInv, [Next]_vars PROVE IInv'
    OBVIOUS
  <2>1. CASE UserStep
    BY <2>1, UserKeeps
  <2>2. CASE RunnerStep
    BY <2>2, RunnerKeeps
  <2>3. CASE Reduce \/ Forget \/ UNCHANGED vars
    BY <2>3, StillKeeps DEF Reduce, Forget, vars
  <2> QED
    BY <2>1, <2>2, <2>3 DEF Next
<1> QED
  BY <1>1, <1>2, PTL DEF Spec

\* A turn of the model that was closed is not asked for again by the same
\* message, unless the thread is continued (tool_state.py, the boundary that
\* _llm_boundary_details_from_records draws): so it is where all runners and
\* interfaces share one event loop, in which no plan of a turn gets old.
THEOREM TurnsAnsweredOnce ==
  ASSUME Colocated
  PROVE  Spec => []AnsweredOnce
<1>1. IInv => AnsweredOnce
  BY DEF IInv
<1> QED
  BY ReducerInvariant, <1>1, PTL

-----------------------------------------------------------------------------
(* One call. *)

LEMMA DeclaredTyped ==
  ASSUME NEW m \in 1..MaxLog, NEW e \in Event, Declares(e)
  PROVE  /\ Declared(m, e) \in Call /\ Declared(m, e).parent = m
         /\ e.call \in Calls
BY DEF Declared, Call, Declares, Event

LEMMA GrantedTyped ==
  ASSUME NEW L, NEW t \in Call, NEW k
  PROVE  GrantedTogether(L, t, k) \in Call /\ GrantedTogether(L, t, k).parent = t.parent
BY DEF GrantedTogether, Call

LEMMA AppliedTyped ==
  ASSUME NEW t \in Call, NEW e \in Event, e.call # None
  PROVE  Applied(t, e) \in Call /\ Applied(t, e).parent = t.parent
<1>1. CASE e.type = "approval"
  BY <1>1 DEF Applied, Call, Event
<1>2. CASE e.type = "started"
  <2>1. e.by \in Invocations \cup {None}
    BY DEF Event
  <2>2. Restarted(t) \in Call /\ Restarted(t).parent = t.parent
    BY DEF Restarted, Call
  <2> QED
    BY <1>2, <2>1, <2>2 DEF Applied, Call
<1>3. CASE e.type = "finished"
  BY <1>3 DEF Applied, Call
<1>4. CASE e.type = "decided"
  <2>1. e.arg \in {"auto", "user", "cancel"}
    BY <1>4 DEF Event
  <2>2. [t EXCEPT !.decision = e.arg] \in Call
    BY <2>1 DEF Call
  <2>3. [t EXCEPT !.decision = e.arg].parent = t.parent
    BY DEF Call
  <2>4. Applied(t, e) \in {t, [t EXCEPT !.decision = e.arg]}
    BY <1>4 DEF Applied
  <2> QED
    BY <2>2, <2>3, <2>4
<1>5. CASE e.type = "result"
  BY <1>5 DEF Applied, Call
<1>6. CASE e.type \notin {"approval", "started", "finished", "decided", "result"}
  BY <1>6 DEF Applied
<1> QED
  BY <1>1, <1>2, <1>3, <1>4, <1>5, <1>6

-----------------------------------------------------------------------------
(* The replay of a log, event by event. *)

Replay(L, m) ==
  LET skipped == Skipped(L)
      upTo[k \in 0..Len(L)] ==
        IF k = 0 THEN Declared(m, L[m]) ELSE Replaying(L, m, skipped, upTo[k - 1], k)
  IN  upTo

LEMMA ReplayIs ==
  ASSUME NEW L, Len(L) \in Nat, NEW m, NEW T, Declared(m, L[m]) \in T,
         \A k \in 1..Len(L), t \in T : Replaying(L, m, Skipped(L), t, k) \in T
  PROVE  /\ Replayed(L, m) = Replay(L, m)[Len(L)]
         /\ Replay(L, m) \in [0..Len(L) -> T]
         /\ Replay(L, m)[0] = Declared(m, L[m])
         /\ \A k \in 1..Len(L) :
              Replay(L, m)[k] = Replaying(L, m, Skipped(L), Replay(L, m)[k - 1], k)
<1> DEFINE n == Len(L)
           t0 == Declared(m, L[m])
           R(t, k) == Replaying(L, m, Skipped(L), t, k)
           f == CHOOSE g : g = [k \in 0..n |-> IF k = 0 THEN t0 ELSE R(g[k - 1], k)]
<1>1. Replayed(L, m) = f[n] /\ Replay(L, m) = f
  BY DEF Replayed, Replay
<1> DEFINE s == [k \in (0 + 1)..n |-> [t \in T |-> R(t, k)]]
<1>2. \A k \in 1..n, t \in T : R(t, k) \in T
  OBVIOUS
<1> HIDE DEF R
<1>3. s \in [(0 + 1)..n -> [T -> T]] /\ \A k \in 1..n, t \in T : s[k][t] = R(t, k)
  BY <1>2
<1> HIDE DEF s
<1>4. t0 \in T /\ n \in Nat
  OBVIOUS
<1> HIDE DEF t0, n
<1>5. PICK g : IsFold(g, 0, n, T, t0, s)
  <2>1. 0 <= n
    BY <1>4
  <2> QED
    BY <1>3, <1>4, <2>1, FoldExists
<1>6. g = [k \in 0..n |-> IF k = 0 THEN t0 ELSE R(g[k - 1], k)]
  <2> SUFFICES ASSUME NEW k \in 0..n PROVE g[k] = IF k = 0 THEN t0 ELSE R(g[k - 1], k)
    BY <1>5 DEF IsFold
  <2>1. CASE k = 0
    BY <1>5, <2>1 DEF IsFold
  <2>2. CASE k # 0
    <3>1. k \in 1..n /\ k - 1 \in 0..n /\ k \in (0 + 1)..n
      BY <1>4, <2>2
    <3> QED
      BY <1>3, <1>5, <2>2, <3>1 DEF IsFold
  <2> QED
    BY <2>1, <2>2
<1>7. f = [k \in 0..n |-> IF k = 0 THEN t0 ELSE R(f[k - 1], k)]
  BY <1>6
<1> HIDE DEF f
<1>8. f[0] = t0 /\ \A k \in 1..n : f[k] = R(f[k - 1], k)
  <2>1. ASSUME NEW k \in 1..n PROVE f[k] = R(f[k - 1], k)
    <3>1. k \in 0..n /\ k # 0
      BY <1>4
    <3> QED
      BY <1>7, <3>1
  <2>2. f[0] = t0
    BY <1>4, <1>7
  <2> QED
    BY <2>1, <2>2
<1>9. f \in [0..n -> T]
  <2> DEFINE S == {k \in 0..n : f[k] \in T}
  <2>1. 0 \in S
    BY <1>4, <1>8
  <2>2. ASSUME NEW k \in (0 + 1)..n, k - 1 \in S PROVE k \in S
    <3>1. k \in 1..n /\ k \in 0..n /\ f[k - 1] \in T
      BY <1>4, <2>2
    <3> QED
      BY <1>2, <1>8, <3>1
  <2> HIDE DEF S
  <2>3. \A k \in 0..n : k \in S
    BY <1>4, <2>1, <2>2, Climbs
  <2>4. \A k \in 0..n : f[k] \in T
    BY <2>3 DEF S
  <2>5. f = [k \in 0..n |-> f[k]]
    BY <1>7
  <2> HIDE DEF S
  <2> QED
    BY <2>4, <2>5
<1> QED
  BY <1>1, <1>8, <1>9 DEF R, t0, n

LEMMA ReplayedIn ==
  ASSUME NEW L, Len(L) \in Nat, NEW m, NEW T, Declared(m, L[m]) \in T,
         \A k \in 1..Len(L), t \in T : Replaying(L, m, Skipped(L), t, k) \in T
  PROVE  Replayed(L, m) \in T
<1>1. Replayed(L, m) = Replay(L, m)[Len(L)] /\ Replay(L, m) \in [0..Len(L) -> T]
  BY ReplayIs
<1> QED
  BY <1>1

-----------------------------------------------------------------------------
(* The rebuild of a log of events is of its types. *)

LogTyped(L) == L \in Seq(Event) /\ Len(L) <= MaxLog

LEMMA LongestLog ==
  /\ MaxLog \in Nat
  /\ \A h \in Histories : Len(h) \in Nat /\ Len(h) + MaxNew <= MaxLog
<1> DEFINE S == {Len(h) : h \in Histories}
<1>1. \A h \in Histories : Len(h) \in Nat
  BY HistoriesAssumption
<1>2. PICK longest \in Histories : \A h \in Histories : Len(h) <= Len(longest)
  BY HistoriesAssumption
<1>3. S \in SUBSET Int /\ Len(longest) \in Int /\ S # {} /\ \A x \in S : x <= Len(longest)
  <2>1. Len(longest) \in S /\ Len(longest) \in Int
    BY <1>1, <1>2
  <2>2. \A x \in S : x \in Int
    BY <1>1
  <2>3. \A x \in S : x <= Len(longest)
    BY <1>2
  <2> QED
    BY <2>1, <2>2, <2>3
<1>4. Max(S) \in S /\ \A x \in S : x <= Max(S)
  <2> HIDE DEF S
  <2> QED
    BY <1>3, MaxIs
<1>5. Max(S) \in Nat /\ \A h \in Histories : Len(h) <= Max(S)
  BY <1>1, <1>4
<1>6. MaxLog = Max(S) + MaxNew /\ MaxNew \in Nat
  BY ReducerAssumption DEF MaxLog
<1> HIDE DEF S
<1> QED
  BY <1>1, <1>5, <1>6

LEMMA TypedIs ==
  ASSUME NEW L, LogTyped(L)
  PROVE  /\ IsLog(L) /\ Len(L) \in Nat /\ DOMAIN L = 1..Len(L) /\ MaxLog \in Nat
         /\ \A k \in 1..Len(L) : L[k] \in Event /\ k \in 1..MaxLog
BY LongestLog DEF LogTyped, IsLog

LEMMA ReplayedTyped ==
  ASSUME NEW L, LogTyped(L), NEW m \in 1..Len(L), Declares(L[m])
  PROVE  Replayed(L, m) \in Call /\ Replayed(L, m).parent = m
<1> DEFINE T == {t \in Call : t.parent = m}
<1>1. Len(L) \in Nat /\ m \in 1..MaxLog /\ L[m] \in Event
  BY TypedIs
<1>2. Declared(m, L[m]) \in T /\ L[m].call # None
  BY <1>1, DeclaredTyped DEF Declares
<1>3. ASSUME NEW k \in 1..Len(L), NEW t \in T PROVE Replaying(L, m, Skipped(L), t, k) \in T
  <2>1. L[k] \in Event
    BY TypedIs
  <2>2. GrantedTogether(L, t, k) \in T
    BY GrantedTyped
  <2>3. L[k].call = L[m].call => Applied(t, L[k]) \in T
    BY <1>2, <2>1, AppliedTyped
  <2> QED
    BY <2>2, <2>3 DEF Replaying
<1> HIDE DEF T
<1>4. Replayed(L, m) \in T
  BY <1>1, <1>2, <1>3, ReplayedIn
<1> QED
  BY <1>4 DEF T

LEMMA RebuiltTyped ==
  ASSUME NEW L, LogTyped(L), NEW m \in 1..Len(L), Declares(L[m])
  PROVE  Rebuilt(L, m) \in Call /\ Rebuilt(L, m).parent = m
<1>1. ASSUME NEW t \in Call PROVE Sealed(t) \in Call /\ Sealed(t).parent = t.parent
  BY DEF Sealed, Call
<1>2. ASSUME NEW t \in Call, NEW gone PROVE Swept(t, gone) \in Call /\ Swept(t, gone).parent = t.parent
  BY DEF Swept, Call
<1>3. ASSUME NEW t \in Call
      PROVE  [t EXCEPT !.approval = "granted"] \in Call
             /\ [t EXCEPT !.approval = "granted"].parent = t.parent
  BY DEF Call
<1> DEFINE r == Replayed(L, m)
           w == Swept(Sealed(r), Gone(L, 0))
<1>4. r \in Call /\ r.parent = m
  BY ReplayedTyped
<1>5. w \in Call /\ w.parent = m
  <2> HIDE DEF r
  <2> QED
    BY <1>1, <1>2, <1>4
<1>6. Rebuilt(L, m) \in {w, [w EXCEPT !.approval = "granted"]}
  BY DEF Rebuilt
<1> HIDE DEF w
<1> QED
  BY <1>3, <1>5, <1>6

\* A call is the one that a message, which is not struck out, declared.
LEMMA CallsAre ==
  ASSUME NEW L, LogTyped(L)
  PROVE  /\ RebuiltCalls(L) \in [DOMAIN RebuiltCalls(L) -> Call]
         /\ DOMAIN RebuiltCalls(L) \subseteq Calls
         /\ \A c \in DOMAIN RebuiltCalls(L) :
              \E m \in 1..Len(L) : /\ Declares(L[m]) /\ L[m].call = c /\ m \notin Skipped(L)
                                   /\ RebuiltCalls(L)[c] = Rebuilt(L, m)
                                   /\ RebuiltCalls(L)[c].parent = m
<1> DEFINE D == Positions(L, Declares) \ Skipped(L)
           at(c) == CHOOSE m \in D : L[m].call = c
           C == {L[m].call : m \in D}
<1>1. D = {m \in 1..Len(L) : Declares(L[m])} \ Skipped(L)
  BY TypedIs DEF Positions
<1>2. RebuiltCalls(L) = [c \in C |-> Rebuilt(L, at(c))]
  BY DEF RebuiltCalls
<1>3. ASSUME NEW c \in C PROVE at(c) \in D /\ L[at(c)].call = c
  <2>1. \E m \in D : L[m].call = c
    OBVIOUS
  <2> HIDE DEF D
  <2> QED
    BY <2>1
<1> HIDE DEF at, D
<1>4. ASSUME NEW m \in D
      PROVE  m \in 1..Len(L) /\ Declares(L[m]) /\ m \notin Skipped(L) /\ L[m].call \in Calls
  <2>1. m \in 1..Len(L) /\ Declares(L[m]) /\ m \notin Skipped(L)
    BY <1>1
  <2>2. L[m] \in Event /\ m \in 1..MaxLog
    BY <2>1, TypedIs
  <2> QED
    BY <2>1, <2>2, DeclaredTyped
<1>5. \A m \in D : Rebuilt(L, m) \in Call /\ Rebuilt(L, m).parent = m
  BY <1>4, RebuiltTyped
<1> QED
  BY <1>2, <1>3, <1>4, <1>5

LEMMA BoundaryTyped ==
  ASSUME NEW L, LogTyped(L)
  PROVE  Boundary(L) \in -1..MaxLog
<1> DEFINE b == Latest(TurnEnds(L) \cup Continues(L))
           a == Latest(Assistants(L))
<1>1. Len(L) \in Nat /\ MaxLog \in Nat /\ Len(L) <= MaxLog /\ DOMAIN L = 1..Len(L)
  BY TypedIs DEF LogTyped
<1>2. ASSUME NEW S \in SUBSET (1..Len(L)) PROVE Latest(S) \in S \cup {-1} /\ Latest(S) \in -1..MaxLog
  <2>1. PICK x : x = Latest(S)
    OBVIOUS
  <2>2. x \in S \cup {-1}
    BY <1>1, <2>1, LatestIs
  <2>3. x \in S => x \in 1..Len(L)
    BY <1>2
  <2> QED
    BY <1>1, <2>1, <2>2, <2>3
<1>3. b \in -1..MaxLog
  BY <1>1, <1>2, PositionsAre
<1>4. a \in -1..MaxLog
  <2>1. Assistants(L) \in SUBSET (1..Len(L))
    BY <1>1 DEF Assistants, Positions
  <2> QED
    BY <1>2, <2>1
<1>5. b \in Continues(L) => L[b].at - 1 \in -1..MaxLog
  <2>1. b \in Continues(L) => L[b] \in Event
    BY <1>1, PositionsAre, TypedIs
  <2>2. \A e \in Event : e.at \in 0..MaxLog
    BY DEF Event
  <2> HIDE DEF b
  <2>3. b \in Continues(L) => L[b].at \in 0..MaxLog
    BY <2>1, <2>2
  <2> QED
    BY <1>1, <2>3
<1>6. Boundary(L) = CASE b = -1 -> a [] b \in Continues(L) -> L[b].at - 1 [] OTHER -> b
  BY DEF Boundary
<1> HIDE DEF a, b
<1> QED
  BY <1>3, <1>4, <1>5, <1>6

LEMMA NextTyped ==
  ASSUME NEW L, LogTyped(L)
  PROVE  /\ Rebuild(L).next.kind \in {"none", "RA1", "RA2", "RA3"}
         /\ Rebuild(L).next.at \in 0..MaxLog
<1> DEFINE calls == RebuiltCalls(L)
           after == {m \in Positions(L, IsMessage) \ Skipped(L) : m > Boundary(L)}
           triggers == {m \in after : Triggers(L[m])}
<1>1. Rebuild(L).next = NextWork(L, calls, after)
  BY DEF Rebuild
<1>2. Len(L) \in Nat /\ MaxLog \in Nat /\ Len(L) <= MaxLog /\ DOMAIN L = 1..Len(L)
  BY TypedIs DEF LogTyped
<1>3. \A c \in DOMAIN calls : calls[c].parent \in 1..Len(L)
  BY CallsAre
<1>4. triggers \subseteq 1..Len(L)
  BY <1>2 DEF Positions
<1> HIDE DEF calls, after
<1>5. ASSUME NEW S, S \subseteq 1..Len(L), S # {} PROVE Min(S) \in 0..MaxLog
  <2>1. S \in SUBSET Nat
    BY <1>5
  <2>2. PICK x : x = Min(S)
    OBVIOUS
  <2>3. x \in S
    BY <1>5, <2>1, <2>2, MinIs
  <2>4. x \in 1..Len(L)
    BY <1>5, <2>3
  <2> QED
    BY <1>2, <2>2, <2>4
<1>6. ASSUME NEW cs, cs \subseteq DOMAIN calls, cs # {} PROVE FirstParent(calls, cs) \in 0..MaxLog
  <2>1. {calls[c].parent : c \in cs} \subseteq 1..Len(L) /\ {calls[c].parent : c \in cs} # {}
    BY <1>3, <1>6
  <2> QED
    BY <1>5, <2>1 DEF FirstParent
<1> DEFINE users == Runnable(calls, "user")
           assistants == Runnable(calls, "assistant")
<1>7. users \subseteq DOMAIN calls /\ assistants \subseteq DOMAIN calls
  BY DEF Runnable
<1>8. /\ users # {} => FirstParent(calls, users) \in 0..MaxLog
      /\ assistants # {} => FirstParent(calls, assistants) \in 0..MaxLog
      /\ triggers # {} => Min(triggers) \in 0..MaxLog
  <2> HIDE DEF users, assistants, triggers
  <2> QED
    BY <1>4, <1>5, <1>6, <1>7
<1>9. NextWork(L, calls, after) \in {NoWork, [kind |-> "RA3", at |-> FirstParent(calls, users)],
         [kind |-> "RA2", at |-> FirstParent(calls, assistants)], [kind |-> "RA1", at |-> Min(triggers)]}
      /\ (NextWork(L, calls, after).kind = "RA3" => users # {})
      /\ (NextWork(L, calls, after).kind = "RA2" => assistants # {})
      /\ (NextWork(L, calls, after).kind = "RA1" => triggers # {})
  <2> HIDE DEF users, assistants, triggers
  <2> QED
   BY DEF NextWork, NoWork, users, assistants, triggers
<1> HIDE DEF users, assistants, triggers
<1> QED
  BY <1>1, <1>2, <1>8, <1>9 DEF NoWork

-----------------------------------------------------------------------------
(* The types of the state. *)

LeaseTyped ==
  lease \in [by : Invocations \cup {None}, kind : {"", "llm", "tool"}, live : BOOLEAN]

PlanTyped == plan \in [Invocations -> [pc : {"idle", "planned", "leased"}, work : Work]]

Typed == LogTyped(log) /\ Read /\ LeaseTyped /\ PlanTyped /\ cache.upto \in 0..Len(log)

\* What is written is an event, and the log does not outgrow MaxLog.
LEMMA WritesTyped ==
  ASSUME Typed, NEW e \in Event, Write(e)
  PROVE  LogTyped(log') /\ Read' /\ (cache.upto \in 0..Len(log))'
<1>1. PICK h \in Histories : Len(log) < Len(h) + MaxNew
  BY DEF Write
<1>2. /\ log \in Seq(Event) /\ Len(log) \in Nat
      /\ MaxLog \in Nat /\ Len(h) \in Nat /\ MaxNew \in Nat /\ Len(h) + MaxNew <= MaxLog
  BY LongestLog, ReducerAssumption DEF Typed, LogTyped
<1>3. log' \in Seq(Event) /\ Len(log') = Len(log) + 1
  BY <1>2 DEF Write
<1>4. thread' = Rebuild(log') /\ cache' = cache
  BY DEF Write
<1> QED
  BY <1>1, <1>2, <1>3, <1>4 DEF Typed, LogTyped, Read

LEMMA WritesTypedEvent ==
  ASSUME Typed, NEW e \in Event, Add(e), LeaseTyped'
  PROVE  Typed'
<1>1. Write(e) /\ PlanTyped'
  BY DEF Add, Typed, PlanTyped
<1> QED
  BY <1>1, WritesTyped DEF Typed

\* An invocation proceeds with the work it has chosen.
LEMMA PlansTyped ==
  ASSUME Typed, NEW i \in Invocations, NEW pc \in {"idle", "planned", "leased"},
         NEW work \in Work, Proceeds(i, pc, work)
  PROVE  PlanTyped'
BY DEF Typed, PlanTyped, Proceeds

LEMMA LeasedTyped ==
  ASSUME Typed, NEW i \in Invocations, Leased(i)
  PROVE  PlanTyped' /\ LeaseTyped'
<1>1. plan[i].work \in Work
  BY DEF Typed, PlanTyped
<1>2. PlanTyped'
  BY <1>1, PlansTyped DEF Leased
<1>3. Stream(plan[i].work.kind) \in {"llm", "tool"}
  BY DEF Stream
<1> QED
  BY <1>2, <1>3 DEF Leased, LeaseTyped

LEMMA NoWorkTyped ==
  NoWork \in Work
BY LongestLog DEF NoWork, Work

\* A named call is one of the log.
LEMMA NamedIs ==
  ASSUME Typed, NEW c, CallState(c) # "none"
  PROVE  /\ c \in DOMAIN thread.calls /\ c \in Calls
         /\ thread.calls[c] \in Call /\ CallState(c) = State(thread.calls[c])
<1>1. c \in DOMAIN thread.calls /\ CallState(c) = State(thread.calls[c])
  BY DEF CallState
<1>2. LogTyped(log) /\ thread.calls = RebuiltCalls(log)
  BY DEF Typed, Read, Rebuild
<1> QED
  BY <1>1, <1>2, CallsAre

\* The kinds of events that the handlers write.
Types == {"user", "assistant", "result", "open", "close", "interrupt", "continue",
          "approval", "started", "finished", "decided"}

Args == {"", "llm", "tool", "granted", "denied", "turn", "global", "revoke", "again",
         "success", "auto", "user", "cancel", "assistant"}

LEMMA EventIs ==
  ASSUME NEW type \in Types, NEW call \in Calls \cup {None}, NEW by \in Invocations \cup {None},
         NEW arg \in Args, NEW at \in 0..MaxLog,
         type = "approval" /\ call # None => arg \in {"granted", "denied"},
         type = "decided" => arg \in {"auto", "user", "cancel"}
  PROVE  Ev(type, call, by, arg, at) \in Event
<1> DEFINE e == [type |-> type, call |-> call, by |-> by, arg |-> arg, at |-> at]
           T == [type : Types, call : Calls \cup {None}, by : Invocations \cup {None},
                 arg : Args, at : 0..MaxLog]
<1>1. /\ e.type = "approval" /\ e.call # None => e.arg \in {"granted", "denied"}
      /\ e.type = "decided" => e.arg \in {"auto", "user", "cancel"}
  OBVIOUS
<1>2. e \in T
  OBVIOUS
<1>3. e = Ev(type, call, by, arg, at)
  BY DEF Ev
<1>4. Event = {x \in T :
                 /\ x.type = "approval" /\ x.call # None => x.arg \in {"granted", "denied"}
                 /\ x.type = "decided" => x.arg \in {"auto", "user", "cancel"}}
  BY DEF Event, Types, Args
<1> HIDE DEF e, T
<1> QED
  BY <1>1, <1>2, <1>3, <1>4

LEMMA LeaseIs ==
  ASSUME Typed
  PROVE  /\ lease.by \in Invocations \cup {None} /\ lease.kind \in {"", "llm", "tool"}
         /\ 0 \in 0..MaxLog
<1>1. LeaseTyped
  BY DEF Typed
<1>2. lease.by \in Invocations \cup {None} /\ lease.kind \in {"", "llm", "tool"}
  BY <1>1 DEF LeaseTyped
<1>3. 0 \in 0..MaxLog
  BY LongestLog
<1> QED
  BY <1>2, <1>3

LEMMA InterruptedTyped ==
  ASSUME Typed
  PROVE  Interrupted \in Event
<1>1. "interrupt" \in Types /\ lease.kind \in Args
  BY LeaseIs DEF Types, Args
<1>2. "interrupt" # "approval" /\ "interrupt" # "decided"
  OBVIOUS
<1> QED
  BY <1>1, <1>2, LeaseIs, EventIs DEF Interrupted

LEMMA OpenedTyped ==
  ASSUME Typed, NEW i \in Invocations
  PROVE  Opened(i) \in Event
<1>1. plan[i].work.at \in 0..MaxLog
  BY DEF Typed, PlanTyped, Work
<1>2. Stream(plan[i].work.kind) \in {"llm", "tool"}
  BY DEF Stream
<1> QED
  BY <1>1, <1>2, EventIs DEF Opened, Types, Args

LEMMA UserTyped ==
  ASSUME Typed, UserStep
  PROVE  Typed'
<1>0. 0 \in 0..MaxLog /\ LeaseTyped /\ LogTyped(log)
  BY LongestLog DEF Typed
<1>1. ASSUME NEW c \in Calls \cup {None}, UserSays(c) PROVE Typed'
  <2>1. Ev("user", c, None, "", 0) \in Event
    BY <1>0, EventIs DEF Types, Args
  <2>2. LeaseTyped'
    BY <1>0, <1>1 DEF UserSays, LeaseTyped
  <2> QED
    BY <1>1, <2>1, <2>2, WritesTypedEvent DEF UserSays
<1>2. ASSUME NEW c \in Calls, NEW d \in {"granted", "denied"}, Approve(c, d) PROVE Typed'
  <2>1. Ev("approval", c, None, d, 0) \in Event
    BY <1>0, EventIs DEF Types, Args
  <2>2. LeaseTyped'
    BY <1>0, <1>2 DEF Approve, LeaseTyped
  <2> QED
    BY <1>2, <2>1, <2>2, WritesTypedEvent DEF Approve
<1>3. ASSUME NEW c \in Calls, NEW by \in {"user", "cancel"}, Decide(c, by) PROVE Typed'
  <2>1. Ev("decided", c, None, by, 0) \in Event
    BY <1>0, EventIs DEF Types, Args
  <2>2. LeaseTyped'
    BY <1>0, <1>3 DEF Decide, LeaseTyped
  <2> QED
    BY <1>3, <2>1, <2>2, WritesTypedEvent DEF Decide
<1>4. ASSUME ApproveTurn PROVE Typed'
  <2>1. Ev("approval", None, None, "turn", 0) \in Event
    BY <1>0, EventIs DEF Types, Args
  <2>2. LeaseTyped'
    BY <1>0, <1>4 DEF ApproveTurn, LeaseTyped
  <2> QED
    BY <1>4, <2>1, <2>2, WritesTypedEvent DEF ApproveTurn
<1>5. ASSUME NEW arg \in {"global", "revoke"}, SetGlobal(arg) PROVE Typed'
  <2>1. Ev("approval", None, None, arg, 0) \in Event
    BY <1>0, EventIs DEF Types, Args
  <2>2. LeaseTyped'
    BY <1>0, <1>5 DEF SetGlobal, LeaseTyped
  <2> QED
    BY <1>5, <2>1, <2>2, WritesTypedEvent DEF SetGlobal
<1>6. ASSUME InterruptStream PROVE Typed'
  <2>1. Interrupted \in Event
    BY InterruptedTyped
  <2>2. LeaseTyped'
    BY <1>6 DEF InterruptStream, LeaseTyped, NoLease
  <2> QED
    BY <1>6, <2>1, <2>2, WritesTypedEvent DEF InterruptStream
<1>7. ASSUME InterruptPending PROVE Typed'
  <2>1. Ev("interrupt", None, None, "llm", 0) \in Event
    BY <1>0, EventIs DEF Types, Args
  <2>2. LeaseTyped'
    BY <1>0, <1>7 DEF InterruptPending, LeaseTyped
  <2> QED
    BY <1>7, <2>1, <2>2, WritesTypedEvent DEF InterruptPending
<1>8. ASSUME NEW m \in Positions(log, IsMessage), Continue(m) PROVE Typed'
  <2>1. m \in 0..MaxLog
    <3>1. m \in 1..Len(log)
      BY <1>0, <1>8, TypedIs DEF Positions
    <3>2. m \in 1..MaxLog
      BY <1>0, <3>1, TypedIs
    <3> QED
      BY <3>2
  <2>2. Ev("continue", None, None, "", m) \in Event
    BY <2>1, EventIs DEF Types, Args
  <2>3. LeaseTyped'
    BY <1>0, <1>8 DEF Continue, LeaseTyped
  <2> QED
    BY <1>8, <2>2, <2>3, WritesTypedEvent DEF Continue
<1> QED
  BY <1>1, <1>2, <1>3, <1>4, <1>5, <1>6, <1>7, <1>8 DEF UserStep

\* An event of the current invocation, of a call or of none.
LEMMA OwnedTyped ==
  ASSUME Typed, LeaseTyped',
         NEW type \in {"assistant", "close", "started", "finished", "decided"},
         NEW call \in Calls \cup {None}, NEW arg \in {"", "again", "success", "auto"},
         type = "decided" => arg = "auto", Owned(type, call, arg)
  PROVE  Typed'
<1>1. 0 \in 0..MaxLog /\ lease.by \in Invocations \cup {None}
  BY LeaseIs
<1>2. Ev(type, call, lease.by, arg, 0) \in Event
  <2>0. PICK by \in Invocations \cup {None} : by = lease.by
    BY <1>1
  <2>1. type # "approval"
    OBVIOUS
  <2>2. type = "decided" => arg \in {"auto", "user", "cancel"}
    OBVIOUS
  <2>3. type \in Types /\ arg \in Args
    BY DEF Types, Args
  <2>4. Ev(type, call, by, arg, 0) \in Event
    BY <1>1, <2>1, <2>2, <2>3, EventIs
  <2> QED
    BY <2>0, <2>4
<1> QED
  BY <1>2, WritesTypedEvent DEF Owned

LEMMA RunnerTyped ==
  ASSUME Typed, RunnerStep
  PROVE  Typed'
<1>0. 0 \in 0..MaxLog /\ LeaseTyped
  BY LongestLog DEF Typed
<1>1. ASSUME NEW i \in Invocations, Look(i) \/ Acquire(i) \/ GiveUp(i) PROVE Typed'
  <2>1. thread.next \in Work
    <3>1. LogTyped(log) /\ thread = Rebuild(log)
      BY DEF Typed, Read
    <3>2. thread.next \in {[kind |-> thread.next.kind, at |-> thread.next.at]}
      BY <3>1 DEF Rebuild, NextWork, NoWork
    <3> QED
      BY <3>1, <3>2, NextTyped DEF Work
  <2>2. PlanTyped' /\ LeaseTyped'
    <3>1. CASE Look(i)
      BY <1>0, <2>1, <3>1, PlansTyped DEF Look, LeaseTyped
    <3>2. CASE Acquire(i)
      BY <3>2, LeasedTyped DEF Acquire
    <3>3. CASE GiveUp(i)
      BY <1>0, <3>3, NoWorkTyped, PlansTyped DEF GiveUp, LeaseTyped
    <3> QED
      BY <1>1, <3>1, <3>2, <3>3
  <2> QED
    BY <1>1, <2>2 DEF Look, Acquire, GiveUp, Typed, LogTyped, Read
<1>2. ASSUME NEW i \in Invocations, TakeOver(i) \/ OpenStream(i) PROVE Typed'
  <2>1. Opened(i) \in Event /\ Interrupted \in Event
    BY OpenedTyped, InterruptedTyped
  <2>2. PlanTyped' /\ LeaseTyped'
    <3>1. CASE TakeOver(i)
      BY <3>1, LeasedTyped DEF TakeOver
    <3>2. CASE OpenStream(i)
      BY <1>0, <3>2, NoWorkTyped, PlansTyped DEF OpenStream, LeaseTyped
    <3> QED
      BY <1>2, <3>1, <3>2
  <2> QED
    BY <1>2, <2>1, <2>2, WritesTyped DEF TakeOver, OpenStream, Typed
<1>3. ASSUME Expire \/ Sweep PROVE Typed'
  <2>1. CASE Expire
    <3>1. LeaseTyped'
      BY <1>0, <2>1 DEF Expire, LeaseTyped
    <3> QED
      BY <2>1, <3>1 DEF Expire, Typed, LogTyped, Read, PlanTyped
  <2>2. CASE Sweep
    <3>1. LeaseTyped'
      BY <2>2 DEF Sweep, LeaseTyped, NoLease
    <3> QED
      BY <2>2, <3>1 DEF Sweep, Typed, LogTyped, Read, PlanTyped
  <2> QED
    BY <1>3, <2>1, <2>2
<1>4. ASSUME Close PROVE Typed'
  <2>1. LeaseTyped'
    BY <1>4 DEF Close, LeaseTyped, NoLease
  <2> QED
    BY <1>4, <2>1, OwnedTyped DEF Close
<1>5. ASSUME NEW c \in Calls \cup {None}, AssistantSays(c) PROVE Typed'
  <2>1. LeaseTyped'
    BY <1>0, <1>5 DEF AssistantSays, LeaseTyped
  <2> QED
    BY <1>5, <2>1, OwnedTyped DEF AssistantSays
<1>6. ASSUME NEW c \in Calls, Start(c) \/ Resume(c) \/ Finish(c) \/ DecideAutomatically(c)
      PROVE  Typed'
  <2>1. LeaseTyped'
    BY <1>0, <1>6 DEF Start, Resume, Finish, DecideAutomatically, LeaseTyped
  <2>2. CASE Start(c)
    BY <2>1, <2>2, OwnedTyped DEF Start
  <2>3. CASE Resume(c)
    BY <2>1, <2>3, OwnedTyped DEF Resume
  <2>4. CASE Finish(c)
    BY <2>1, <2>4, OwnedTyped DEF Finish
  <2>5. CASE DecideAutomatically(c)
    BY <2>1, <2>5, OwnedTyped DEF DecideAutomatically
  <2> QED
    BY <1>6, <2>2, <2>3, <2>4, <2>5
<1>7. ASSUME NEW c \in Calls, Publish(c) PROVE Typed'
  <2>1. thread.calls[c].role \in {"user", "assistant"}
    <3>1. thread.calls[c] \in Call
      BY <1>7, NamedIs DEF Publish
    <3> QED
      BY <3>1 DEF Call
  <2>2. Ev("result", c, None, thread.calls[c].role, 0) \in Event
    BY <1>0, <2>1, EventIs DEF Types, Args
  <2>3. LeaseTyped'
    BY <1>0, <1>7 DEF Publish, LeaseTyped
  <2> QED
    BY <1>7, <2>2, <2>3, WritesTypedEvent DEF Publish
<1> QED
  BY <1>1, <1>2, <1>3, <1>4, <1>5, <1>6, <1>7 DEF RunnerStep

LEMMA StillTyped ==
  ASSUME Typed, UNCHANGED <<log, thread, lease, plan>>, (cache.upto \in 0..Len(log))'
  PROVE  Typed'
<1>1. LeaseTyped' /\ PlanTyped'
  BY DEF Typed, LeaseTyped, PlanTyped
<1> QED
  BY <1>1 DEF Typed, LogTyped, Read

\* In every state the log is a sequence of events within its bound, thread is
\* what it rebuilds to, and the lease and the cache have their types.
THEOREM ReducerTyped == Spec => []Typed
<1>1. Init => Typed
  <2> SUFFICES ASSUME Init PROVE Typed
    OBVIOUS
  <2>1. LogTyped(log)
    <3>1. log \in Histories
      BY DEF Init
    <3>2. Len(log) \in Nat /\ Len(log) + MaxNew <= MaxLog /\ MaxLog \in Nat /\ MaxNew \in Nat
      BY <3>1, LongestLog, ReducerAssumption
    <3> QED
      BY <3>1, <3>2, HistoriesAssumption DEF LogTyped
  <2>2. cache.upto \in 0..Len(log)
    <3>1. Len(log) \in Nat /\ cache.upto = 0
      BY <2>1 DEF LogTyped, Init, NoCache
    <3> QED
      BY <3>1
  <2>3. LeaseTyped /\ PlanTyped
    BY NoWorkTyped DEF Init, LeaseTyped, PlanTyped, NoLease, Idle
  <2> QED
    BY <2>1, <2>2, <2>3 DEF Init, Typed, Read
<1>2. Typed /\ [Next]_vars => Typed'
  <2> SUFFICES ASSUME Typed, [Next]_vars PROVE Typed'
    OBVIOUS
  <2>1. CASE UserStep
    BY <2>1, UserTyped
  <2>2. CASE RunnerStep
    BY <2>2, RunnerTyped
  <2>3. CASE Reduce
    <3>1. Increment(log, cache).upto = Len(log)
      BY DEF Increment
    <3>2. thread.upto = Len(log)
      BY DEF Typed, Read, Rebuild
    <3>3. cache'.upto = Len(log) /\ Len(log) \in Nat
      BY <2>3, <3>1, <3>2 DEF Reduce, Typed, LogTyped
    <3>4. (cache.upto \in 0..Len(log))'
      BY <2>3, <3>3 DEF Reduce
    <3> QED
      BY <2>3, <3>4, StillTyped DEF Reduce
  <2>4. CASE Forget
    <3>1. Len(log) \in Nat /\ log' = log /\ cache'.upto = 0
      BY <2>4 DEF Typed, LogTyped, Forget, NoCache
    <3>2. (cache.upto \in 0..Len(log))'
      BY <3>1
    <3> QED
      BY <2>4, <3>2, StillTyped DEF Forget
  <2>5. CASE UNCHANGED vars
    BY <2>5 DEF vars, Typed, LogTyped, Read, LeaseTyped, PlanTyped
  <2> QED
    BY <2>1, <2>2, <2>3, <2>4, <2>5 DEF Next
<1> QED
  BY <1>1, <1>2, PTL DEF Spec

\* The state has its types: the calls of the log are calls of the thread, the
\* boundary and the messages behind it lie in the log (tool_state.py,
\* _reduce_loaded_thread_events).
THEOREM ReducerTypeOK == Spec => []TypeOK
<1>1. Typed => TypeOK
  <2> SUFFICES ASSUME Typed PROVE TypeOK
    OBVIOUS
  <2>1. LogTyped(log) /\ DOMAIN log = 1..Len(log) /\ thread = Rebuild(log)
    BY TypedIs DEF Typed, Read
  <2>2. thread.calls = RebuiltCalls(log) /\ thread.boundary = Boundary(log)
    BY <2>1 DEF Rebuild
  <2>3. thread.after \subseteq DOMAIN log
    BY <2>1 DEF Rebuild, Positions
  <2>4. thread.calls \in [DOMAIN thread.calls -> Call] /\ DOMAIN thread.calls \subseteq Calls
    BY <2>1, <2>2, CallsAre
  <2>5. thread.boundary \in -1..MaxLog
    BY <2>1, <2>2, BoundaryTyped
  <2> QED
    BY <2>1, <2>3, <2>4, <2>5 DEF Typed, LogTyped, LeaseTyped, PlanTyped, TypeOK
<1> QED
  BY ReducerTyped, <1>1, PTL

-----------------------------------------------------------------------------
(* A continuation starts over. *)

\* L ends with a continuation from the message m, which no earlier one struck out.
ContinuedFrom(L, m) ==
  /\ LogTyped(L) /\ Len(L) > 0 /\ L[Len(L)].type = "continue" /\ L[Len(L)].at = m
  /\ m \in 1..(Len(L) - 1) /\ IsMessage(L[m]) /\ m \notin Skipped(L)

LEMMA ContinuedIs ==
  ASSUME NEW L, NEW m, ContinuedFrom(L, m)
  PROVE  /\ Len(L) \in Nat /\ Len(L) \in Continues(L)
         /\ \A S \in SUBSET (1..Len(L)) : Len(L) \in S => Latest(S) = Len(L)
         /\ \A k \in Positions(L, IsMessage) \ Skipped(L) : k <= m
<1> DEFINE n == Len(L)
<1>1. n \in Nat /\ n \in 1..n /\ DOMAIN L = 1..n /\ L[n].type = "continue" /\ L[n].at = m /\ m \in Nat
  BY TypedIs DEF ContinuedFrom
<1>2. n \in Continues(L)
  BY <1>1, PositionsAre
<1>3. ASSUME NEW S \in SUBSET (1..n), n \in S PROVE Latest(S) = n
  <2>1. PICK b : b = Latest(S)
    OBVIOUS
  <2>2. b \in S \cup {-1} /\ n <= b
    BY <1>1, <1>3, <2>1, LatestIs
  <2>3. b \in S => b \in 1..n
    BY <1>3
  <2> QED
    BY <1>1, <2>1, <2>2, <2>3
<1>4. ASSUME NEW k \in Positions(L, IsMessage), k \notin Skipped(L) PROVE k <= m
  <2>1. k \in 1..n /\ IsMessage(L[k])
    BY <1>1, <1>4, PositionsAre
  <2>2. k < n
    BY <1>1, <2>1 DEF IsMessage
  <2>3. ~(k < n /\ L[n].at < k)
    BY <1>2, <1>4 DEF Skipped
  <2> QED
    BY <1>1, <2>1, <2>2, <2>3
<1> QED
  BY <1>1, <1>2, <1>3, <1>4

\* A call as its message wrote it, but for an approval of a whole turn.
Untouched(m) ==
  {t \in Call : /\ t.parent = m /\ ~t.started /\ t.finished = "none" /\ t.decision = "none"
                /\ ~t.published /\ t.approval \in {"none", "granted"}}

\* What happened to the calls of the message since is taken back.
LEMMA TakesBack ==
  ASSUME NEW L, NEW m, ContinuedFrom(L, m), NEW t, t.parent = m, NEW k \in (m + 1)..Len(L)
  PROVE  TakenBack(L, t, k)
<1> DEFINE S == Positions(L, LAMBDA e : e.type \in {"interrupt", "continue"})
<1>1. Len(L) \in Nat /\ Len(L) \in 1..Len(L) /\ DOMAIN L = 1..Len(L) /\ m \in Nat
  BY TypedIs DEF ContinuedFrom
<1>2. S \in SUBSET (1..Len(L)) /\ Len(L) \in S
  BY <1>1 DEF Positions, ContinuedFrom
<1>3. Latest(S) = Len(L)
  <2> HIDE DEF S
  <2> QED
    BY <1>2, ContinuedIs
<1>4. TakenBack(L, t, k) <=> /\ Latest(S) # -1 /\ L[Latest(S)].type = "continue"
                             /\ L[Latest(S)].at < k /\ k <= Latest(S) /\ t.parent >= L[Latest(S)].at
  BY DEF TakenBack
<1> HIDE DEF S
<1> QED
  BY <1>1, <1>3, <1>4 DEF ContinuedFrom

LEMMA StartsOver ==
  ASSUME NEW L, NEW m, ContinuedFrom(L, m), Declares(L[m])
  PROVE  State(Rebuilt(L, m)) \in {"TC1", "TC2.1"}
<1>1. /\ LogTyped(L) /\ Len(L) \in Nat /\ m \in 1..Len(L) /\ m \in 1..MaxLog /\ m \in Nat
      /\ L[m] \in Event
  <2>1. LogTyped(L) /\ Len(L) \in Nat /\ m \in 1..Len(L) /\ m \in Nat
    BY TypedIs DEF ContinuedFrom
  <2> QED
    BY <2>1, TypedIs
<1>2. Declared(m, L[m]) \in Untouched(m)
  <2>1. Declared(m, L[m]) \in Call
    BY <1>1, DeclaredTyped
  <2> QED
    BY <2>1 DEF Declared, Untouched
<1>3. ASSUME NEW k \in 1..Len(L), NEW t \in Untouched(m)
      PROVE  Replaying(L, m, Skipped(L), t, k) \in Untouched(m)
  <2>1. t \in Call /\ t.parent = m
    BY DEF Untouched
  <2>2. GrantedTogether(L, t, k) \in Untouched(m)
    <3>1. [t EXCEPT !.approval = "granted"] \in Untouched(m)
      BY DEF Untouched, Call
    <3> QED
      BY <3>1 DEF GrantedTogether
  <2>3. k > m => TakenBack(L, t, k)
    <3> SUFFICES ASSUME k > m PROVE TakenBack(L, t, k)
      OBVIOUS
    <3>1. k \in (m + 1)..Len(L)
      BY <1>1
    <3> QED
      BY <2>1, <3>1, TakesBack
  <2>4. Replaying(L, m, Skipped(L), t, k) \in {t, GrantedTogether(L, t, k)}
    BY <2>3 DEF Replaying
  <2> QED
    BY <2>2, <2>4
<1> DEFINE r == Replayed(L, m)
<1>4. r \in Untouched(m)
  BY <1>1, <1>2, <1>3, ReplayedIn
<1>5. Rebuilt(L, m) \in {r, [r EXCEPT !.approval = "granted"]}
  <2>1. Swept(Sealed(r), Gone(L, 0)) = r
    <3> HIDE DEF r
    <3>1. Sealed(r) = r
      BY <1>4 DEF Untouched, Sealed
    <3> QED
      BY <1>4, <3>1 DEF Untouched, Swept
  <2> QED
    BY <2>1 DEF Rebuilt
<1> HIDE DEF r
<1>6. [r EXCEPT !.approval = "granted"] \in Untouched(m)
  BY <1>4 DEF Untouched, Call
<1>7. ASSUME NEW t \in Untouched(m) PROVE State(t) \in {"TC1", "TC2.1"}
  BY DEF Untouched, Call, State
<1> QED
  BY <1>4, <1>5, <1>6, <1>7

\* Behind the boundary lies the message continued from.
LEMMA ContinuedBoundary ==
  ASSUME NEW L, NEW m, ContinuedFrom(L, m)
  PROVE  Boundary(L) = m - 1 /\ m \in Rebuild(L).after
<1> DEFINE b == Latest(TurnEnds(L) \cup Continues(L))
<1>1. /\ LogTyped(L) /\ Len(L) \in Nat /\ DOMAIN L = 1..Len(L) /\ m \in 1..Len(L) /\ m \in Nat
      /\ IsMessage(L[m]) /\ m \notin Skipped(L) /\ Len(L) # -1 /\ L[Len(L)].at = m
  BY TypedIs DEF ContinuedFrom
<1>2. b = Len(L)
  <2>1. TurnEnds(L) \cup Continues(L) \in SUBSET (1..Len(L))
    BY <1>1, PositionsAre
  <2>2. Len(L) \in TurnEnds(L) \cup Continues(L)
    BY ContinuedIs
  <2> QED
    BY <2>1, <2>2, ContinuedIs
<1>3. Boundary(L) = CASE b = -1 -> Latest(Assistants(L))
                      [] b \in Continues(L) -> L[b].at - 1
                      [] OTHER -> b
  BY DEF Boundary
<1> HIDE DEF b
<1>4. Boundary(L) = m - 1
  BY <1>1, <1>2, <1>3, ContinuedIs
<1>5. m \in Positions(L, IsMessage)
  BY <1>1, PositionsAre
<1> QED
  BY <1>1, <1>4, <1>5 DEF Rebuild

\* A message that asks for a turn leaves something to do, or a call to wait for.
LEMMA TriggersWork ==
  ASSUME NEW L, NEW calls, calls \in [DOMAIN calls -> Call], NEW after, NEW m \in after, Triggers(L[m])
  PROVE  \/ NextWork(L, calls, after) # NoWork
         \/ \E c \in DOMAIN calls : State(calls[c]) \in {"TC1", "TC3", "TC4"}
<1> DEFINE users == Runnable(calls, "user")
           assistants == Runnable(calls, "assistant")
           triggers == {k \in after : Triggers(L[k])}
<1> SUFFICES ASSUME \A c \in DOMAIN calls : State(calls[c]) \notin {"TC1", "TC3", "TC4"}
             PROVE  NextWork(L, calls, after) # NoWork
  OBVIOUS
<1>1. m \in triggers
  OBVIOUS
<1>2. ASSUME NEW c \in DOMAIN calls, calls[c].role = "assistant", ~calls[c].published
      PROVE  c \in assistants
  <2>1. calls[c] \in Call
    OBVIOUS
  <2>2. State(calls[c]) \in {"TC1", "TC2.1", "TC2.2", "TC3", "TC4", "TC5"}
    BY <1>2, <2>1 DEF State
  <2> QED
    BY <1>2, <2>2 DEF Runnable
<1>3. NextWork(L, calls, after).kind \in {"RA1", "RA2", "RA3"}
  <2> HIDE DEF users, assistants, triggers
  <2>1. CASE users # {}
    BY <2>1 DEF NextWork, users
  <2>2. CASE users = {} /\ assistants # {}
    BY <2>2 DEF NextWork, users, assistants
  <2>3. CASE users = {} /\ assistants = {}
    <3>1. \A c \in DOMAIN calls : calls[c].role = "assistant" => calls[c].published
      BY <1>2, <2>3
    <3> QED
      BY <1>1, <2>3, <3>1 DEF NextWork, users, assistants, triggers
  <2> QED
    BY <2>1, <2>2, <2>3
<1> QED
  BY <1>3 DEF NoWork

\* What a rebuild reads after a continuation.
LEMMA ContinuedReads ==
  ASSUME NEW L, NEW m, ContinuedFrom(L, m)
  PROVE  LET r == Rebuild(L)
         IN  /\ \A c \in DOMAIN r.calls :
                  /\ r.calls[c].parent <= m
                  /\ r.calls[c].parent = m => State(r.calls[c]) \in {"TC1", "TC2.1"}
             /\ Triggers(L[m]) =>
                  \/ r.next # NoWork
                  \/ \E c \in DOMAIN r.calls : State(r.calls[c]) \in {"TC1", "TC3", "TC4"}
<1> DEFINE calls == RebuiltCalls(L)
           after == Rebuild(L).after
<1>1. Rebuild(L).calls = calls /\ Rebuild(L).next = NextWork(L, calls, after)
  BY DEF Rebuild
<1>2. LogTyped(L) /\ DOMAIN L = 1..Len(L)
  BY TypedIs DEF ContinuedFrom
<1>3. ASSUME NEW c \in DOMAIN calls
      PROVE  /\ calls[c].parent <= m
             /\ calls[c].parent = m => State(calls[c]) \in {"TC1", "TC2.1"}
  <2>1. PICK p \in 1..Len(L) : /\ Declares(L[p]) /\ p \notin Skipped(L)
                               /\ calls[c] = Rebuilt(L, p) /\ calls[c].parent = p
    BY <1>2, <1>3, CallsAre
  <2>2. p \in Positions(L, IsMessage)
    BY <1>2, <2>1, PositionsAre DEF Declares, IsMessage
  <2>3. p <= m
    BY <2>1, <2>2, ContinuedIs
  <2>4. p = m => State(Rebuilt(L, m)) \in {"TC1", "TC2.1"}
    BY <2>1, StartsOver
  <2> HIDE DEF calls
  <2> QED
    BY <2>1, <2>3, <2>4
<1>4. calls \in [DOMAIN calls -> Call] /\ m \in after
  BY <1>2, CallsAre, ContinuedBoundary
<1> HIDE DEF calls, after
<1>5. Triggers(L[m]) => \/ NextWork(L, calls, after) # NoWork
                        \/ \E c \in DOMAIN calls : State(calls[c]) \in {"TC1", "TC3", "TC4"}
  BY <1>4, TriggersWork
<1> QED
  BY <1>1, <1>3, <1>5

\* The other handlers write no continuation.
LEMMA WritesOther ==
  ASSUME Typed, NEW type, type # "continue", NEW call, NEW by, NEW arg, NEW at,
         Write(Ev(type, call, by, arg, at))
  PROVE  Last(log').type # "continue"
<1> DEFINE e == Ev(type, call, by, arg, at)
<1>1. e.type # "continue" /\ Write(e) /\ IsLog(log)
  BY TypedIs DEF Ev, Typed
<1> HIDE DEF e
<1>2. Len(log') = Len(log) + 1 /\ log'[Len(log) + 1] = e
  BY <1>1, WritesOne
<1> QED
  BY <1>1, <1>2 DEF Last

LEMMA WhoContinues ==
  ASSUME Typed, Next, log' # log, Last(log').type = "continue"
  PROVE  \E m \in Positions(log, IsMessage) : Continue(m)
<1>1. ASSUME UserStep, ~\E m \in Positions(log, IsMessage) : Continue(m) PROVE FALSE
  <2>1. ~\E c : UserSays(c)
    BY WritesOther DEF UserSays, Add
  <2>2. ~\E c, d : Approve(c, d)
    BY WritesOther DEF Approve, Add
  <2>3. ~\E c, by : Decide(c, by)
    BY WritesOther DEF Decide, Add
  <2>4. ~(ApproveTurn \/ InterruptPending)
    BY WritesOther DEF ApproveTurn, InterruptPending, Add
  <2>5. ~\E arg : SetGlobal(arg)
    BY WritesOther DEF SetGlobal, Add
  <2>6. ~InterruptStream
    BY WritesOther DEF InterruptStream, Interrupted, Add
  <2> QED
    BY <1>1, <2>1, <2>2, <2>3, <2>4, <2>5, <2>6 DEF UserStep
<1>2. ASSUME RunnerStep PROVE FALSE
  <2>1. ~\E i : Look(i) \/ Acquire(i) \/ GiveUp(i)
    BY DEF Look, Acquire, GiveUp
  <2>2. ~\E i : TakeOver(i) \/ OpenStream(i)
    BY WritesOther DEF TakeOver, Interrupted, OpenStream, Opened
  <2>3. ~(Expire \/ Sweep)
    BY DEF Expire, Sweep
  <2>4. ASSUME NEW type, type # "continue", NEW call, NEW arg, Owned(type, call, arg) PROVE FALSE
    BY <2>4, WritesOther DEF Owned, Add
  <2>5. ~Close
    BY <2>4 DEF Close
  <2>6. ~\E c : AssistantSays(c)
    BY <2>4 DEF AssistantSays
  <2>7. ~\E c : Start(c) \/ Resume(c) \/ Finish(c) \/ DecideAutomatically(c)
    BY <2>4 DEF Start, Resume, Finish, DecideAutomatically
  <2>8. ~\E c : Publish(c)
    BY WritesOther DEF Publish, Add
  <2> QED
    BY <1>2, <2>1, <2>2, <2>3, <2>5, <2>6, <2>7, <2>8 DEF RunnerStep
<1>3. ~(Reduce \/ Forget)
  BY DEF Reduce, Forget
<1> QED
  BY <1>1, <1>2, <1>3 DEF Next

LEMMA ContinueContinues ==
  ASSUME Typed, NEW m \in Positions(log, IsMessage), Continue(m)
  PROVE  Typed' /\ ContinuedFrom(log', m) /\ Last(log').at = m /\ log'[m] = log[m]
<1> DEFINE e == Ev("continue", None, None, "", m)
           n == Len(log) + 1
<1>1. Typed'
  <2>1. UserStep
    BY DEF UserStep
  <2> QED
    BY <2>1, UserTyped
<1>2. Write(e) /\ e.type = "continue" /\ e.at = m /\ m \notin Skipped(log) /\ IsLog(log)
  BY TypedIs DEF Continue, Add, Ev, Typed
<1> HIDE DEF e
<1>3. /\ Grows(log, log') /\ Len(log') = n /\ log'[n] = e
      /\ IsLog(log') /\ Len(log) \in Nat /\ DOMAIN log' = 1..n
  BY <1>2, WritesOne, LogIs
<1>4. m \in 1..Len(log) /\ IsMessage(log[m]) /\ log'[m] = log[m]
  BY <1>2, <1>3, LogIs, PositionsAre DEF Grows
<1>5. m \notin Skipped(log')
  <2> SUFFICES ASSUME NEW k \in Continues(log'), m < k, log'[k].at < m PROVE FALSE
    BY DEF Skipped
  <2>1. k \in 1..n /\ log'[k].type = "continue"
    BY <1>3, PositionsAre
  <2>2. k # n
    BY <1>2, <1>3, <1>4
  <2>3. k \in 1..Len(log) /\ log'[k] = log[k]
    BY <1>3, <2>1, <2>2 DEF Grows
  <2>4. k \in Continues(log) /\ m \in Positions(log, IsMessage)
    BY <1>2, <2>1, <2>3, LogIs, PositionsAre
  <2> QED
    BY <1>2, <2>3, <2>4 DEF Skipped
<1>6. LogTyped(log')
  BY <1>1 DEF Typed
<1> QED
  BY <1>1, <1>2, <1>3, <1>4, <1>5, <1>6 DEF ContinuedFrom, Last

\* A continuation from m starts over at m (continue_thread, and the skip rules
\* of tool_state.py): the calls of m are as they were when m was written, none
\* of a later message is left, and a message that asks for a turn leaves
\* something to do or an earlier call to wait for.
THEOREM ContinuationStartsOver == Spec => ContinueStartsOver
<1> DEFINE Over(m) ==
             /\ \A c \in DOMAIN thread'.calls :
                  /\ thread'.calls[c].parent <= m
                  /\ thread'.calls[c].parent = m => State(thread'.calls[c]) \in {"TC1", "TC2.1"}
             /\ Triggers(log[m]) =>
                  \/ thread'.next # NoWork
                  \/ \E c \in DOMAIN thread'.calls :
                       State(thread'.calls[c]) \in {"TC1", "TC3", "TC4"}
<1>1. Typed /\ [Next]_vars => [log' # log /\ Last(log').type = "continue" => Over(Last(log').at)]_vars
  <2> SUFFICES ASSUME Typed, Next, log' # log, Last(log').type = "continue"
               PROVE  Over(Last(log').at)
    BY DEF vars
  <2>1. PICK m \in Positions(log, IsMessage) : Continue(m)
    BY WhoContinues
  <2>2. /\ Typed' /\ ContinuedFrom(log', m) /\ Last(log').at = m /\ log'[m] = log[m]
    BY <2>1, ContinueContinues
  <2>3. thread' = Rebuild(log')
    BY <2>2 DEF Typed, Read
  <2>4. Over(m)
    BY <2>2, <2>3, ContinuedReads
  <2> QED
    BY <2>2, <2>4
<1> QED
  BY <1>1, ReducerTyped, PTL DEF Spec, ContinueStartsOver

-----------------------------------------------------------------------------
(* What a reduction shows of a call: its replay, with interruptions read in *)
(* and the global approval of the moment it was declared.                  *)

Shown(t, gone, global) ==
  LET w == Swept(Sealed(t), gone)
  IN  IF w.approval = "none" /\ global THEN [w EXCEPT !.approval = "granted"] ELSE w

LEMMA RebuiltIsShown ==
  ASSUME NEW L, NEW m
  PROVE  Rebuilt(L, m) = Shown(Replayed(L, m), Gone(L, 0), GlobalAt(L, m))
BY DEF Rebuilt, Shown

LEMMA SameCall ==
  ASSUME NEW s \in Call, NEW t \in Call,
         s.parent = t.parent, s.role = t.role, s.approval = t.approval, s.started = t.started,
         s.owner = t.owner, s.finished = t.finished, s.decision = t.decision,
         s.published = t.published
  PROVE  s = t
BY DEF Call

LEMMA SealedIs ==
  ASSUME NEW t \in Call
  PROVE  /\ Sealed(t) \in Call
         /\ Sealed(t).parent = t.parent /\ Sealed(t).role = t.role
         /\ Sealed(t).started = t.started /\ Sealed(t).owner = t.owner
         /\ Sealed(t).decision = t.decision /\ Sealed(t).published = t.published
         /\ Sealed(t).approval = t.approval
         /\ Sealed(t).finished = IF t.decision # "none" /\ t.finished = "none" THEN "interrupted"
                                 ELSE t.finished
BY DEF Sealed, Call

LEMMA SweptIs ==
  ASSUME NEW t \in Call, NEW gone, t.decision # "none" => t.finished # "none"
  PROVE  /\ Swept(t, gone) \in Call
         /\ Swept(t, gone).parent = t.parent /\ Swept(t, gone).role = t.role
         /\ Swept(t, gone).started = t.started /\ Swept(t, gone).owner = t.owner
         /\ Swept(t, gone).decision = t.decision /\ Swept(t, gone).published = t.published
         /\ Swept(t, gone).approval = t.approval
         /\ Swept(t, gone).finished =
              IF t.finished = "none" /\ t.started /\ t.owner \in gone THEN "interrupted"
              ELSE t.finished
BY DEF Swept, Call

LEMMA ShownIs ==
  ASSUME NEW t \in Call, NEW gone, NEW global
  PROVE  LET w == Shown(t, gone, global)
         IN  /\ w \in Call
             /\ w.parent = t.parent /\ w.role = t.role /\ w.started = t.started
             /\ w.owner = t.owner /\ w.decision = t.decision /\ w.published = t.published
             /\ w.approval = IF t.approval = "none" /\ global THEN "granted" ELSE t.approval
             /\ w.finished =
                  IF t.finished = "none"
                     /\ (t.decision # "none" \/ (t.started /\ t.owner \in gone))
                  THEN "interrupted" ELSE t.finished
<1> DEFINE s == Sealed(t)
           w == Swept(s, gone)
<1>1. /\ s \in Call /\ s.parent = t.parent /\ s.role = t.role /\ s.started = t.started
      /\ s.owner = t.owner /\ s.decision = t.decision /\ s.published = t.published
      /\ s.approval = t.approval
      /\ s.finished = IF t.decision # "none" /\ t.finished = "none" THEN "interrupted" ELSE t.finished
  BY SealedIs
<1> HIDE DEF s
<1>2. s.decision # "none" => s.finished # "none"
  BY <1>1
<1>3. /\ w \in Call /\ w.parent = s.parent /\ w.role = s.role /\ w.started = s.started
      /\ w.owner = s.owner /\ w.decision = s.decision /\ w.published = s.published
      /\ w.approval = s.approval
      /\ w.finished = IF s.finished = "none" /\ s.started /\ s.owner \in gone THEN "interrupted"
                      ELSE s.finished
  BY <1>1, <1>2, SweptIs
<1>4. Shown(t, gone, global) = IF w.approval = "none" /\ global THEN [w EXCEPT !.approval = "granted"] ELSE w
  BY DEF Shown, s
<1> HIDE DEF w
<1> DEFINE v == [w EXCEPT !.approval = "granted"]
<1>5. /\ v \in Call /\ v.parent = w.parent /\ v.role = w.role /\ v.started = w.started
      /\ v.owner = w.owner /\ v.decision = w.decision /\ v.published = w.published
      /\ v.approval = "granted" /\ v.finished = w.finished
  BY <1>3 DEF Call
<1> HIDE DEF v
<1>6. Shown(t, gone, global) = IF w.approval = "none" /\ global THEN v ELSE w
  BY <1>4 DEF v
<1>7. CASE w.approval = "none" /\ global
  BY <1>1, <1>3, <1>5, <1>6, <1>7
<1>8. CASE ~(w.approval = "none" /\ global)
  BY <1>1, <1>3, <1>6, <1>8
<1> QED
  BY <1>7, <1>8

\* An approval of a turn, an event that names the call and a sweep have on
\* what is shown the effect they have on the replay.
LEMMA ShownGranted ==
  ASSUME NEW L, NEW t \in Call, NEW gone, NEW global, NEW k
  PROVE  GrantedTogether(L, Shown(t, gone, global), k) = Shown(GrantedTogether(L, t, k), gone, global)
<1> DEFINE w == Shown(t, gone, global)
           g == [t EXCEPT !.approval = "granted"]
<1>1. /\ w \in Call /\ w.parent = t.parent /\ w.role = t.role /\ w.started = t.started
      /\ w.owner = t.owner /\ w.decision = t.decision /\ w.published = t.published
      /\ w.approval = IF t.approval = "none" /\ global THEN "granted" ELSE t.approval
      /\ w.finished =
           IF t.finished = "none" /\ (t.decision # "none" \/ (t.started /\ t.owner \in gone))
           THEN "interrupted" ELSE t.finished
  BY ShownIs
<1>2. /\ g \in Call /\ g.parent = t.parent /\ g.role = t.role /\ g.started = t.started
      /\ g.owner = t.owner /\ g.decision = t.decision /\ g.published = t.published
      /\ g.approval = "granted" /\ g.finished = t.finished
  BY DEF Call
<1>3. InTurn(L, w, k) = InTurn(L, t, k)
  BY <1>1 DEF InTurn
<1>4. CASE ~(t.approval = "none" /\ InTurn(L, t, k))
  <2>1. GrantedTogether(L, t, k) = t
    BY <1>4 DEF GrantedTogether
  <2>2. ~(w.approval = "none" /\ InTurn(L, w, k))
    <3> HIDE DEF w
    <3> QED
      BY <1>1, <1>3, <1>4
  <2>3. GrantedTogether(L, w, k) = w
    <3> HIDE DEF w
    <3> QED
      BY <2>2 DEF GrantedTogether
  <2> QED
    BY <2>1, <2>3
<1>5. CASE t.approval = "none" /\ InTurn(L, t, k)
  <2>1. GrantedTogether(L, t, k) = g
    BY <1>5 DEF GrantedTogether
  <2> DEFINE v == Shown(g, gone, global)
             h == GrantedTogether(L, w, k)
  <2>2. /\ v \in Call /\ v.parent = g.parent /\ v.role = g.role /\ v.started = g.started
        /\ v.owner = g.owner /\ v.decision = g.decision /\ v.published = g.published
        /\ v.approval = IF g.approval = "none" /\ global THEN "granted" ELSE g.approval
        /\ v.finished =
             IF g.finished = "none" /\ (g.decision # "none" \/ (g.started /\ g.owner \in gone))
             THEN "interrupted" ELSE g.finished
    <3> HIDE DEF g
    <3> QED
      BY <1>2, ShownIs
  <2>3. /\ h \in Call /\ h.parent = w.parent /\ h.role = w.role /\ h.started = w.started
        /\ h.owner = w.owner /\ h.decision = w.decision /\ h.published = w.published
        /\ h.approval = "granted" /\ h.finished = w.finished
    <3> HIDE DEF w
    <3>1. h = IF w.approval = "none" THEN [w EXCEPT !.approval = "granted"] ELSE w
      BY <1>3, <1>5 DEF GrantedTogether
    <3>2. w.approval \in {"none", "granted"}
      BY <1>1, <1>5
    <3> QED
      BY <1>1, <3>1, <3>2 DEF Call
  <2> HIDE DEF v, h, w, g
  <2>4. h = v
    BY <1>1, <1>2, <2>2, <2>3, SameCall
  <2> QED
    BY <2>1, <2>4 DEF h, v, w
<1> QED
  BY <1>4, <1>5

LEMMA ShownSwept ==
  ASSUME NEW t \in Call, NEW early, NEW late, NEW global
  PROVE  Swept(Shown(t, early, global), late) = Shown(t, early \cup late, global)
<1> DEFINE w == Shown(t, early, global)
           v == Shown(t, early \cup late, global)
<1>1. /\ w \in Call /\ w.parent = t.parent /\ w.role = t.role /\ w.started = t.started
      /\ w.owner = t.owner /\ w.decision = t.decision /\ w.published = t.published
      /\ w.approval = IF t.approval = "none" /\ global THEN "granted" ELSE t.approval
      /\ w.finished =
           IF t.finished = "none" /\ (t.decision # "none" \/ (t.started /\ t.owner \in early))
           THEN "interrupted" ELSE t.finished
  BY ShownIs
<1>2. /\ v \in Call /\ v.parent = t.parent /\ v.role = t.role /\ v.started = t.started
      /\ v.owner = t.owner /\ v.decision = t.decision /\ v.published = t.published
      /\ v.approval = IF t.approval = "none" /\ global THEN "granted" ELSE t.approval
      /\ v.finished =
           IF t.finished = "none"
              /\ (t.decision # "none" \/ (t.started /\ t.owner \in early \cup late))
           THEN "interrupted" ELSE t.finished
  BY ShownIs
<1> HIDE DEF w, v
<1> DEFINE h == Swept(w, late)
<1>3. /\ h \in Call /\ h.parent = w.parent /\ h.role = w.role /\ h.started = w.started
      /\ h.owner = w.owner /\ h.decision = w.decision /\ h.published = w.published
      /\ h.approval = w.approval
      /\ h.finished = IF w.finished = "none" /\ w.started /\ w.owner \in late THEN "interrupted"
                      ELSE w.finished
  <2>1. w.decision # "none" => w.finished # "none"
    BY <1>1
  <2> QED
    BY <1>1, <2>1, SweptIs
<1> HIDE DEF h
<1>4. h = v
  <2>1. h.finished = v.finished
    BY <1>1, <1>2, <1>3
  <2> QED
    BY <1>1, <1>2, <1>3, <2>1, SameCall
<1> QED
  BY <1>4 DEF h, w, v

\* What an event that names the call does to it.
LEMMA ShownApplied ==
  ASSUME NEW t \in Call, NEW gone, NEW global, NEW e \in Event, e.call # None,
         e.type = "started" => e.by \notin gone /\ (e.arg = "again" \/ ~t.started)
  PROVE  Sealed(Applied(Shown(t, gone, global), e)) = Shown(Applied(t, e), gone, global)
<1> DEFINE w == Shown(t, gone, global)
           a == Applied(t, e)
           b == Applied(w, e)
           v == Shown(a, gone, global)
           s == Sealed(b)
<1>1. /\ w \in Call /\ w.parent = t.parent /\ w.role = t.role /\ w.started = t.started
      /\ w.owner = t.owner /\ w.decision = t.decision /\ w.published = t.published
      /\ w.approval = IF t.approval = "none" /\ global THEN "granted" ELSE t.approval
      /\ w.finished =
           IF t.finished = "none" /\ (t.decision # "none" \/ (t.started /\ t.owner \in gone))
           THEN "interrupted" ELSE t.finished
  BY ShownIs
<1> HIDE DEF w
<1>2. a \in Call /\ b \in Call
  BY <1>1, AppliedTyped
<1>3. /\ v \in Call /\ v.parent = a.parent /\ v.role = a.role /\ v.started = a.started
      /\ v.owner = a.owner /\ v.decision = a.decision /\ v.published = a.published
      /\ v.approval = IF a.approval = "none" /\ global THEN "granted" ELSE a.approval
      /\ v.finished =
           IF a.finished = "none" /\ (a.decision # "none" \/ (a.started /\ a.owner \in gone))
           THEN "interrupted" ELSE a.finished
  <2> HIDE DEF a
  <2> QED
    BY <1>2, ShownIs
<1>4. /\ s \in Call /\ s.parent = b.parent /\ s.role = b.role /\ s.started = b.started
      /\ s.owner = b.owner /\ s.decision = b.decision /\ s.published = b.published
      /\ s.approval = b.approval
      /\ s.finished = IF b.decision # "none" /\ b.finished = "none" THEN "interrupted" ELSE b.finished
  <2> HIDE DEF b
  <2> QED
    BY <1>2, SealedIs
<1> HIDE DEF v, s
\* What an event does, field by field.
<1>5. ASSUME NEW x \in Call
      PROVE  LET y == Applied(x, e)
             IN  /\ y.parent = x.parent /\ y.role = x.role
                 /\ y.approval = IF e.type = "approval" THEN e.arg ELSE x.approval
                 /\ y.started = IF e.type = "started" THEN TRUE ELSE x.started
                 /\ y.owner = IF e.type = "started" THEN e.by ELSE x.owner
                 /\ y.published = IF e.type = "result" THEN TRUE ELSE x.published
                 /\ y.finished = IF e.type = "finished" THEN "success"
                                 ELSE IF e.type = "started" /\ e.arg = "again" THEN "none"
                                 ELSE x.finished
                 /\ y.decision = IF e.type = "decided"
                                 THEN IF Priority[e.arg] > Priority[x.decision] THEN e.arg ELSE x.decision
                                 ELSE IF e.type = "started" /\ e.arg = "again" THEN "none"
                                 ELSE x.decision
  <2>1. CASE e.type = "approval"
    BY <2>1 DEF Applied, Call
  <2>2. CASE e.type = "started"
    BY <2>2 DEF Applied, Restarted, Call
  <2>3. CASE e.type = "finished"
    BY <2>3 DEF Applied, Call
  <2>4. CASE e.type = "decided"
    <3> DEFINE d == [x EXCEPT !.decision = e.arg]
    <3>1. /\ d.parent = x.parent /\ d.role = x.role /\ d.approval = x.approval
          /\ d.started = x.started /\ d.owner = x.owner /\ d.published = x.published
          /\ d.finished = x.finished /\ d.decision = e.arg
      BY DEF Call
    <3>2. Applied(x, e) = IF Priority[e.arg] > Priority[x.decision] THEN d ELSE x
      BY <2>4 DEF Applied
    <3> HIDE DEF d
    <3>3. CASE Priority[e.arg] > Priority[x.decision]
      BY <2>4, <3>1, <3>2, <3>3
    <3>4. CASE ~(Priority[e.arg] > Priority[x.decision])
      BY <2>4, <3>2, <3>4
    <3> QED
      BY <3>3, <3>4
  <2>5. CASE e.type = "result"
    BY <2>5 DEF Applied, Call
  <2>6. CASE e.type \notin {"approval", "started", "finished", "decided", "result"}
    BY <2>6 DEF Applied
  <2> QED
    BY <2>1, <2>2, <2>3, <2>4, <2>5, <2>6
<1>6. /\ a.parent = t.parent /\ a.role = t.role
      /\ a.approval = IF e.type = "approval" THEN e.arg ELSE t.approval
      /\ a.started = IF e.type = "started" THEN TRUE ELSE t.started
      /\ a.owner = IF e.type = "started" THEN e.by ELSE t.owner
      /\ a.published = IF e.type = "result" THEN TRUE ELSE t.published
      /\ a.finished = IF e.type = "finished" THEN "success"
                      ELSE IF e.type = "started" /\ e.arg = "again" THEN "none" ELSE t.finished
      /\ a.decision = IF e.type = "decided"
                      THEN IF Priority[e.arg] > Priority[t.decision] THEN e.arg ELSE t.decision
                      ELSE IF e.type = "started" /\ e.arg = "again" THEN "none" ELSE t.decision
  BY <1>5
<1>7. /\ b.parent = w.parent /\ b.role = w.role
      /\ b.approval = IF e.type = "approval" THEN e.arg ELSE w.approval
      /\ b.started = IF e.type = "started" THEN TRUE ELSE w.started
      /\ b.owner = IF e.type = "started" THEN e.by ELSE w.owner
      /\ b.published = IF e.type = "result" THEN TRUE ELSE w.published
      /\ b.finished = IF e.type = "finished" THEN "success"
                      ELSE IF e.type = "started" /\ e.arg = "again" THEN "none" ELSE w.finished
      /\ b.decision = IF e.type = "decided"
                      THEN IF Priority[e.arg] > Priority[w.decision] THEN e.arg ELSE w.decision
                      ELSE IF e.type = "started" /\ e.arg = "again" THEN "none" ELSE w.decision
  BY <1>1, <1>5
<1>8. /\ e.type = "approval" => e.arg \in {"granted", "denied"}
      /\ e.type = "decided" => e.arg # "none"
  BY DEF Event
<1> HIDE DEF a, b
<1>9. a.decision = b.decision
  BY <1>1, <1>6, <1>7
<1>10. s.approval = v.approval
  BY <1>1, <1>3, <1>4, <1>6, <1>7, <1>8
<1>11. s.finished = v.finished
  <2>1. CASE e.type = "finished"
    BY <1>3, <1>4, <1>6, <1>7, <2>1
  <2>2. CASE e.type = "started"
    BY <1>1, <1>3, <1>4, <1>6, <1>7, <1>9, <2>2
  <2>3. CASE e.type = "decided"
    <3>1. t.decision # "none" => a.decision # "none"
      BY <1>6, <1>8, <2>3
    <3>2. a.finished = t.finished /\ b.finished = w.finished /\ a.started = t.started /\ a.owner = t.owner
      BY <1>6, <1>7, <2>3
    <3> QED
      BY <1>1, <1>3, <1>4, <1>9, <3>1, <3>2
  <2>4. CASE e.type \notin {"finished", "started", "decided"}
    <3>1. a.finished = t.finished /\ b.finished = w.finished /\ a.started = t.started
          /\ a.owner = t.owner /\ a.decision = t.decision
      BY <1>6, <1>7, <2>4
    <3> QED
      BY <1>1, <1>3, <1>4, <1>9, <3>1
  <2> QED
    BY <2>1, <2>2, <2>3, <2>4
<1>12. /\ s.parent = v.parent /\ s.role = v.role /\ s.started = v.started /\ s.owner = v.owner
       /\ s.decision = v.decision /\ s.published = v.published
  BY <1>1, <1>3, <1>4, <1>6, <1>7, <1>9
<1>13. s = v
  BY <1>3, <1>4, <1>10, <1>11, <1>12, SameCall
<1> QED
  BY <1>13 DEF s, v, a, b, w

-----------------------------------------------------------------------------
(* Logs of threads that nobody has continued, and their prefixes. *)

Uncontinued(L) == LogTyped(L) /\ WellFormed(L) /\ Continues(L) = {}

LEMMA UncontinuedIs ==
  ASSUME NEW L, Uncontinued(L), NEW k \in 1..Len(L), NEW j \in 1..(k - 1)
  PROVE  /\ Declares(L[k]) => L[j].call # L[k].call
         /\ L[k].type = "open" => L[j].by # L[k].by
         /\ L[j].type \in {"close", "interrupt"} /\ L[k].type = "started" => L[j].by # L[k].by
         /\ L[j].type = "started" /\ L[k].type = "started" /\ L[j].call = L[k].call
              => L[k].arg = "again"
<1>1. LogTyped(L) /\ WellFormed(L) /\ Continues(L) = {}
  BY DEF Uncontinued
<1>2. DOMAIN L = 1..Len(L) /\ Len(L) \in Nat
  BY <1>1, TypedIs
<1>3. j \in DOMAIN L /\ k \in DOMAIN L /\ j < k
  BY <1>2
<1> QED
  BY <1>1, <1>3 DEF WellFormed

LEMMA NothingStruck ==
  ASSUME NEW L, Uncontinued(L)
  PROVE  Skipped(L) = {} /\ \A t, k : ~TakenBack(L, t, k)
<1>1. LogTyped(L) /\ Continues(L) = {} /\ DOMAIN L = 1..Len(L) /\ Len(L) \in Nat
  BY TypedIs DEF Uncontinued
<1>2. Skipped(L) = {}
  BY <1>1 DEF Skipped
<1> DEFINE S == Positions(L, LAMBDA e : e.type \in {"interrupt", "continue"})
<1>3. S \in SUBSET (1..Len(L))
  BY <1>1 DEF Positions
<1>4. Latest(S) # -1 => L[Latest(S)].type # "continue"
  <2> DEFINE b == Latest(S)
  <2>1. b \in S \cup {-1}
    <3> HIDE DEF S
    <3> QED
      BY <1>1, <1>3, LatestIs
  <2>2. b \in S => b \in 1..Len(L)
    BY <1>3
  <2> HIDE DEF b
  <2>3. b # -1 => b \notin Continues(L) /\ b \in DOMAIN L
    BY <1>1, <2>1, <2>2
  <2>4. b # -1 => L[b].type # "continue"
    BY <2>3, PositionsAre
  <2> QED
    BY <2>4 DEF b
<1>5. ASSUME NEW t, NEW k PROVE ~TakenBack(L, t, k)
  BY <1>4 DEF TakenBack
<1> QED
  BY <1>2, <1>5

LEMMA PrefixIs ==
  ASSUME NEW P, NEW L, LogTyped(P), Uncontinued(L), Grows(P, L)
  PROVE  /\ Uncontinued(P)
         /\ Len(P) \in 0..Len(L) /\ Len(L) \in Nat /\ Len(P) \in Nat
         /\ DOMAIN P = 1..Len(P) /\ DOMAIN L = 1..Len(L)
         /\ \A k \in 1..Len(P) : k \in 1..Len(L) /\ P[k] = L[k]
<1>1. /\ LogTyped(L) /\ WellFormed(L) /\ Continues(L) = {}
      /\ Len(L) \in Nat /\ Len(P) \in Nat /\ DOMAIN P = 1..Len(P) /\ DOMAIN L = 1..Len(L)
  BY TypedIs DEF Uncontinued
<1>2. Len(P) \in 0..Len(L) /\ \A k \in 1..Len(P) : k \in 1..Len(L) /\ P[k] = L[k]
  BY <1>1 DEF Grows
<1>3. Continues(P) = {}
  <2> SUFFICES ASSUME NEW k \in Continues(P) PROVE FALSE
    OBVIOUS
  <2>1. k \in 1..Len(P) /\ P[k].type = "continue"
    BY <1>1, PositionsAre
  <2>2. k \in DOMAIN L /\ L[k].type = "continue"
    BY <1>1, <1>2, <2>1
  <2>3. k \in Continues(L)
    BY <2>2, PositionsAre
  <2> QED
    BY <1>1, <2>3
<1>4. WellFormed(P)
  <2> SUFFICES ASSUME NEW j \in DOMAIN P, NEW k \in DOMAIN P, j < k
               PROVE  /\ Declares(P[k]) => P[j].call # P[k].call
                      /\ P[k].type = "open" => P[j].by # P[k].by
                      /\ P[j].type \in {"close", "interrupt"} /\ P[k].type = "started"
                           => P[j].by # P[k].by
                      /\ /\ P[j].type = "started" /\ P[k].type = "started"
                         /\ P[j].call = P[k].call /\ P[k].arg # "again"
                         => Continues(P) # {}
    BY DEF WellFormed
  <2>1. k \in 1..Len(L) /\ j \in 1..(k - 1) /\ P[j] = L[j] /\ P[k] = L[k]
    BY <1>1, <1>2
  <2> QED
    BY <2>1, UncontinuedIs
<1> QED
  BY <1>1, <1>2, <1>3, <1>4 DEF Uncontinued

\* Turns and intervals of global approval.
TurnAt(L, k) ==
  \E j \in 1..k : IsTurnApproval(L[j]) /\ \A u \in 1..k : L[u].type = "user" => u < j

LEMMA TurnSteps ==
  ASSUME NEW L, LogTyped(L)
  PROVE  /\ TurnOpen(L) = TurnAt(L, Len(L))
         /\ \A k \in 1..Len(L) :
              TurnAt(L, k) = IF IsTurnApproval(L[k]) THEN TRUE
                             ELSE IF L[k].type = "user" THEN FALSE ELSE TurnAt(L, k - 1)
<1>1. DOMAIN L = 1..Len(L) /\ Len(L) \in Nat
  BY TypedIs
<1>2. TurnOpen(L) <=> TurnAt(L, Len(L))
  BY <1>1 DEF TurnOpen, TurnAt, Positions, Users
<1>3. ASSUME NEW k \in 1..Len(L)
      PROVE  TurnAt(L, k) <=> IF IsTurnApproval(L[k]) THEN TRUE
                             ELSE IF L[k].type = "user" THEN FALSE ELSE TurnAt(L, k - 1)
  <2>1. \A j : j \in 1..k <=> j = k \/ j \in 1..(k - 1)
    BY <1>1
  <2>2. CASE IsTurnApproval(L[k])
    <3>1. L[k].type # "user"
      BY <2>2 DEF IsTurnApproval
    <3>2. \A u \in 1..k : L[u].type = "user" => u < k
      BY <1>1, <3>1
    <3> QED
      BY <1>1, <2>2, <3>2 DEF TurnAt
  <2>3. CASE L[k].type = "user"
    <3>1. ~IsTurnApproval(L[k])
      BY <2>3 DEF IsTurnApproval
    <3>2. \A j \in 1..k : ~(k < j)
      BY <1>1
    <3> QED
      BY <1>1, <2>1, <2>3, <3>1, <3>2 DEF TurnAt
  <2>4. CASE ~IsTurnApproval(L[k]) /\ L[k].type # "user"
    <3>1. TurnAt(L, k) <=> TurnAt(L, k - 1)
      BY <2>1, <2>4 DEF TurnAt
    <3> QED
      BY <2>4, <3>1
  <2> QED
    BY <2>2, <2>3, <2>4
<1> QED
  BY <1>2, <1>3 DEF TurnOpen, TurnAt

\* Where each approval is revoked before the next, the latest switch decides.
LEMMA GlobalIs ==
  ASSUME NEW L, LogTyped(L), RevokedBetween(L), NEW k \in 0..Len(L)
  PROVE  LET g == Latest({n \in Positions(L, IsGlobal) : n <= k})
         IN  GlobalAt(L, k) = (g # -1 /\ L[g].arg = "global")
<1> DEFINE switches == Positions(L, IsGlobal)
           before == {n \in switches : n <= k}
           later == {n \in switches : n > k}
           g == Latest(before)
<1>1. /\ DOMAIN L = 1..Len(L) /\ Len(L) \in Nat
      /\ \A n : n \in switches <=> n \in 1..Len(L) /\ IsGlobal(L[n])
  BY TypedIs DEF Positions
<1>0. \A j, n \in switches :
        j < n /\ L[j].arg = "global" /\ L[n].arg = "global" =>
          \E x \in j..n : IsGlobal(L[x]) /\ L[x].arg = "revoke"
  BY DEF RevokedBetween
<1>3. GlobalAt(L, k) = (/\ g # -1 /\ L[g].arg = "global"
                        /\ later # {} => L[Min(later)].arg = "revoke")
  BY DEF GlobalAt
<1> HIDE DEF switches
<1>2. before \in SUBSET (1..Len(L)) /\ later \in SUBSET (1..Len(L))
  BY <1>1
<1>4. ASSUME g # -1, L[g].arg = "global", later # {}
      PROVE  L[Min(later)].arg = "revoke"
  <2>1. PICK n : n = Min(later)
    OBVIOUS
  <2>2. n \in later /\ \A x \in later : n <= x
    <3>1. later \in SUBSET Nat /\ later # {}
      BY <1>2, <1>4
    <3> HIDE DEF later
    <3> QED
      BY <2>1, <3>1, MinIs
  <2>3. PICK j : j = g
    OBVIOUS
  <2>4. j \in before /\ \A x \in before : x <= j
    <3>1. g \in before \cup {-1} /\ \A x \in before : x <= g
      <4> HIDE DEF before
      <4> QED
        BY <1>1, <1>2, LatestIs
    <3> QED
      BY <1>4, <2>3, <3>1
  <2>5. /\ j \in 1..Len(L) /\ n \in 1..Len(L) /\ j <= k /\ n > k /\ j < n
        /\ IsGlobal(L[j]) /\ IsGlobal(L[n])
    BY <1>1, <2>2, <2>4
  <2> SUFFICES ASSUME L[n].arg # "revoke" PROVE FALSE
    BY <2>1
  <2>6. L[n].arg = "global" /\ L[j].arg = "global"
    BY <1>4, <2>3, <2>5 DEF IsGlobal
  <2>7. PICK x \in j..n : IsGlobal(L[x]) /\ L[x].arg = "revoke"
    BY <1>0, <2>2, <2>4, <2>5, <2>6
  <2>8. x \in 1..Len(L) /\ x # j /\ x # n /\ x \in switches
    BY <1>1, <2>5, <2>6, <2>7
  <2>9. CASE x > k
    BY <2>2, <2>5, <2>7, <2>8, <2>9
  <2>10. CASE ~(x > k)
    BY <1>1, <2>4, <2>5, <2>7, <2>8, <2>10
  <2> QED
    BY <2>9, <2>10
<1> HIDE DEF before, later, g
<1>5. GlobalAt(L, k) = (g # -1 /\ L[g].arg = "global")
  BY <1>3, <1>4
<1> QED
  BY <1>5 DEF g, before, switches

LEMMA RevokedPrefix ==
  ASSUME NEW P, NEW L, LogTyped(P), LogTyped(L), Grows(P, L), RevokedBetween(L)
  PROVE  RevokedBetween(P)
<1>1. /\ Len(L) \in Nat /\ Len(P) \in Nat /\ DOMAIN P = 1..Len(P) /\ DOMAIN L = 1..Len(L)
      /\ Len(P) <= Len(L) /\ \A n \in 1..Len(P) : n \in 1..Len(L) /\ P[n] = L[n]
  BY TypedIs DEF Grows
<1> SUFFICES ASSUME NEW j \in Positions(P, IsGlobal), NEW k \in Positions(P, IsGlobal),
                    j < k, P[j].arg = "global", P[k].arg = "global"
             PROVE  \E n \in j..k : IsGlobal(P[n]) /\ P[n].arg = "revoke"
  BY DEF RevokedBetween
<1>2. /\ j \in 1..Len(P) /\ k \in 1..Len(P)
      /\ j \in Positions(L, IsGlobal) /\ k \in Positions(L, IsGlobal)
  BY <1>1 DEF Positions
<1>3. PICK n \in j..k : IsGlobal(L[n]) /\ L[n].arg = "revoke"
  BY <1>1, <1>2 DEF RevokedBetween
<1>4. n \in 1..Len(P)
  BY <1>1, <1>2, <1>3
<1> QED
  BY <1>1, <1>3, <1>4

LEMMA GlobalSteps ==
  ASSUME NEW L, LogTyped(L), RevokedBetween(L), NEW k \in 1..Len(L)
  PROVE  GlobalAt(L, k) = IF IsGlobal(L[k]) THEN L[k].arg = "global" ELSE GlobalAt(L, k - 1)
<1> DEFINE S(i) == {n \in Positions(L, IsGlobal) : n <= i}
<1>1. DOMAIN L = 1..Len(L) /\ Len(L) \in Nat
  BY TypedIs
<1>2. \A i : S(i) = {n \in 1..Len(L) : IsGlobal(L[n]) /\ n <= i}
  BY <1>1 DEF Positions
<1>3. \A i \in {k - 1, k} : GlobalAt(L, i) = (Latest(S(i)) # -1 /\ L[Latest(S(i))].arg = "global")
  <2>1. k - 1 \in 0..Len(L) /\ k \in 0..Len(L)
    BY <1>1
  <2> QED
    BY <2>1, GlobalIs
<1> HIDE DEF S
<1>4. CASE IsGlobal(L[k])
  <2>1. S(k) \in SUBSET (1..Len(L)) /\ k \in S(k) /\ \A n \in S(k) : n <= k
    BY <1>1, <1>2, <1>4
  <2>2. PICK b : b = Latest(S(k))
    OBVIOUS
  <2>3. b \in S(k) \cup {-1} /\ k <= b
    BY <1>1, <2>1, <2>2, LatestIs
  <2>4. b \in S(k) => b \in 1..Len(L) /\ b <= k
    BY <2>1
  <2>5. b = k
    BY <1>1, <2>3, <2>4
  <2>6. k # -1
    BY <1>1
  <2> QED
    BY <1>3, <1>4, <2>2, <2>5, <2>6
<1>5. CASE ~IsGlobal(L[k])
  <2>1. S(k) = S(k - 1)
    <3>1. \A n \in 1..Len(L) : n <= k /\ IsGlobal(L[n]) <=> n <= k - 1 /\ IsGlobal(L[n])
      BY <1>1, <1>5
    <3> QED
      BY <1>2, <3>1
  <2> QED
    BY <1>3, <1>5, <2>1
<1> QED
  BY <1>4, <1>5

LEMMA GlobalPrefix ==
  ASSUME NEW P, NEW L, LogTyped(P), Uncontinued(L), RevokedBetween(L), Grows(P, L),
         NEW k \in 0..Len(P)
  PROVE  GlobalAt(P, k) = GlobalAt(L, k)
<1> DEFINE S(M) == {n \in Positions(M, IsGlobal) : n <= k}
<1>1. /\ Len(L) \in Nat /\ Len(P) \in Nat /\ DOMAIN P = 1..Len(P) /\ DOMAIN L = 1..Len(L)
      /\ Len(P) <= Len(L) /\ \A n \in 1..Len(P) : n \in 1..Len(L) /\ P[n] = L[n]
  BY PrefixIs
<1>2. /\ S(P) = {n \in 1..Len(P) : IsGlobal(P[n]) /\ n <= k}
      /\ S(L) = {n \in 1..Len(L) : IsGlobal(L[n]) /\ n <= k}
  BY <1>1 DEF Positions
<1>3. S(P) = S(L)
  <2> HIDE DEF S
  <2>1. \A n \in 1..Len(L) : n <= k => n \in 1..Len(P)
    BY <1>1
  <2> QED
    BY <1>1, <1>2, <2>1
<1>4. S(P) \in SUBSET (1..Len(P))
  <2> HIDE DEF S
  <2> QED
    BY <1>2
<1>5. \A M \in {P, L} : GlobalAt(M, k) = (Latest(S(M)) # -1 /\ M[Latest(S(M))].arg = "global")
  <2>1. LogTyped(L) /\ RevokedBetween(P) /\ k \in 0..Len(L)
    BY <1>1, RevokedPrefix DEF Uncontinued
  <2> QED
    BY <2>1, GlobalIs
<1> HIDE DEF S
<1>6. Latest(S(P)) # -1 => P[Latest(S(P))] = L[Latest(S(P))]
  <2>1. Latest(S(P)) \in S(P) \cup {-1}
    BY <1>1, <1>4, LatestIs
  <2> QED
    BY <1>1, <1>4, <2>1
<1> QED
  BY <1>3, <1>5, <1>6

LEMMA GonePrefix ==
  ASSUME NEW P, NEW L, LogTyped(P), Uncontinued(L), Grows(P, L)
  PROVE  /\ Gone(L, 0) = Gone(P, 0) \cup Gone(L, Len(P))
         /\ \A i \in Gone(P, 0) : \E j \in 1..Len(P) :
              L[j].type \in {"close", "interrupt"} /\ L[j].by = i
<1> DEFINE Ends(e) == e.type \in {"close", "interrupt"}
<1>1. /\ Len(L) \in Nat /\ Len(P) \in Nat /\ DOMAIN P = 1..Len(P) /\ DOMAIN L = 1..Len(L)
      /\ Len(P) <= Len(L) /\ \A n \in 1..Len(P) : n \in 1..Len(L) /\ P[n] = L[n]
  BY PrefixIs
<1>2. /\ Gone(L, 0) = {L[n].by : n \in {n \in 1..Len(L) : Ends(L[n]) /\ n > 0}} \ {None}
      /\ Gone(L, Len(P)) = {L[n].by : n \in {n \in 1..Len(L) : Ends(L[n]) /\ n > Len(P)}} \ {None}
      /\ Gone(P, 0) = {P[n].by : n \in {n \in 1..Len(P) : Ends(P[n]) /\ n > 0}} \ {None}
  <2>1. ASSUME NEW M, DOMAIN M = 1..Len(M), NEW k
        PROVE  Gone(M, k) = {M[n].by : n \in {n \in 1..Len(M) : Ends(M[n]) /\ n > k}} \ {None}
    <3>1. {n \in Positions(M, LAMBDA e : e.type \in {"close", "interrupt"}) : n > k}
            = {n \in 1..Len(M) : Ends(M[n]) /\ n > k}
      BY <2>1 DEF Positions
    <3> QED
      BY <3>1 DEF Gone
  <2> HIDE DEF Ends
  <2> QED
    BY <1>1, <2>1
<1> HIDE DEF Ends
<1>3. \A n \in 1..Len(L) : n > 0 /\ (n \in 1..Len(P) \/ n > Len(P))
  BY <1>1
<1>4. Gone(L, 0) \subseteq Gone(P, 0) \cup Gone(L, Len(P))
  <2> SUFFICES ASSUME NEW i \in Gone(L, 0), i \notin Gone(L, Len(P)) PROVE i \in Gone(P, 0)
    OBVIOUS
  <2>1. PICK n \in 1..Len(L) : Ends(L[n]) /\ L[n].by = i /\ i # None
    BY <1>2
  <2>2. n \in 1..Len(P)
    BY <1>2, <1>3, <2>1
  <2>3. P[n] = L[n] /\ n > 0
    BY <1>1, <2>2
  <2> QED
    BY <1>2, <2>1, <2>2, <2>3
<1>5. Gone(L, Len(P)) \subseteq Gone(L, 0)
  BY <1>2, <1>3
<1>6. ASSUME NEW i \in Gone(P, 0)
      PROVE  \E j \in 1..Len(P) : Ends(L[j]) /\ L[j].by = i /\ i # None
  BY <1>1, <1>2
<1>7. Gone(P, 0) \subseteq Gone(L, 0)
  <2> SUFFICES ASSUME NEW i \in Gone(P, 0) PROVE i \in Gone(L, 0)
    OBVIOUS
  <2>1. PICK j \in 1..Len(P) : Ends(L[j]) /\ L[j].by = i /\ i # None
    BY <1>6
  <2>2. j \in 1..Len(L) /\ j > 0
    BY <1>1
  <2> QED
    BY <1>2, <2>1, <2>2
<1> QED
  BY <1>4, <1>5, <1>6, <1>7 DEF Ends

-----------------------------------------------------------------------------
(* The replay of a call, one event after the other. *)

LEMMA ReplaySteps ==
  ASSUME NEW L, Uncontinued(L), NEW m \in 1..Len(L), Declares(L[m])
  PROVE  /\ Replayed(L, m) = Replay(L, m)[Len(L)]
         /\ Replay(L, m)[0] = Declared(m, L[m])
         /\ \A k \in 0..Len(L) : Replay(L, m)[k] \in Call /\ Replay(L, m)[k].parent = m
         /\ \A k \in 1..Len(L) :
              Replay(L, m)[k] =
                IF IsTurnApproval(L[k]) THEN GrantedTogether(L, Replay(L, m)[k - 1], k)
                ELSE IF L[k].call = L[m].call /\ k > m THEN Applied(Replay(L, m)[k - 1], L[k])
                ELSE Replay(L, m)[k - 1]
<1> DEFINE T == {t \in Call : t.parent = m}
           R == Replay(L, m)
<1>1. LogTyped(L) /\ Len(L) \in Nat /\ m \in 1..MaxLog /\ L[m] \in Event
  BY TypedIs DEF Uncontinued
<1>2. Declared(m, L[m]) \in T /\ L[m].call # None
  BY <1>1, DeclaredTyped DEF Declares
<1>3. ASSUME NEW k \in 1..Len(L), NEW t \in T PROVE Replaying(L, m, Skipped(L), t, k) \in T
  <2>1. L[k] \in Event
    BY <1>1, TypedIs
  <2>2. GrantedTogether(L, t, k) \in T
    BY GrantedTyped
  <2>3. L[k].call = L[m].call => Applied(t, L[k]) \in T
    BY <1>2, <2>1, AppliedTyped
  <2> QED
    BY <2>2, <2>3 DEF Replaying
<1> HIDE DEF T
<1>4. /\ Replayed(L, m) = R[Len(L)] /\ R \in [0..Len(L) -> T] /\ R[0] = Declared(m, L[m])
      /\ \A k \in 1..Len(L) : R[k] = Replaying(L, m, Skipped(L), R[k - 1], k)
  BY <1>1, <1>2, <1>3, ReplayIs
<1> HIDE DEF R
<1>5. ASSUME NEW k \in 1..Len(L), NEW t
      PROVE  Replaying(L, m, Skipped(L), t, k) =
               IF IsTurnApproval(L[k]) THEN GrantedTogether(L, t, k)
               ELSE IF L[k].call = L[m].call /\ k > m THEN Applied(t, L[k]) ELSE t
  <2>1. ~TakenBack(L, t, k) /\ k \notin Skipped(L)
    BY NothingStruck
  <2>2. L[k] \in Event
    BY <1>1, TypedIs
  <2>3. IsTurnApproval(L[k]) => L[k].call # L[m].call
    BY <1>2, <2>2 DEF IsTurnApproval, Event
  <2>4. CASE IsTurnApproval(L[k])
    BY <2>3, <2>4 DEF Replaying
  <2>5. CASE ~IsTurnApproval(L[k])
    BY <2>1, <2>5 DEF Replaying
  <2> QED
    BY <2>4, <2>5
<1>6. \A k \in 0..Len(L) : R[k] \in Call /\ R[k].parent = m
  BY <1>4 DEF T
<1> QED
  BY <1>4, <1>5, <1>6 DEF R

\* The replay of a prefix is the beginning of the replay.
LEMMA ReplayPrefix ==
  ASSUME NEW P, NEW L, LogTyped(P), Uncontinued(L), Grows(P, L), NEW m \in 1..Len(P), Declares(P[m])
  PROVE  \A k \in 0..Len(P) : Replay(P, m)[k] = Replay(L, m)[k]
<1> DEFINE S == {k \in 0..Len(P) : Replay(P, m)[k] = Replay(L, m)[k]}
<1>1. /\ Uncontinued(P) /\ Len(L) \in Nat /\ Len(P) \in Nat /\ Len(P) <= Len(L)
      /\ DOMAIN P = 1..Len(P) /\ DOMAIN L = 1..Len(L)
      /\ \A n \in 1..Len(P) : n \in 1..Len(L) /\ P[n] = L[n]
  BY PrefixIs
<1>2. m \in 1..Len(L) /\ Declares(L[m]) /\ L[m] = P[m]
  BY <1>1
<1>3. ASSUME NEW k \in 1..Len(P), NEW t, t.parent = m
      PROVE  GrantedTogether(P, t, k) = GrantedTogether(L, t, k)
  <2>1. Users(P) = {u \in 1..Len(P) : P[u].type = "user"}
    BY <1>1 DEF Users, Positions
  <2>2. Users(L) = {u \in 1..Len(L) : L[u].type = "user"}
    BY <1>1 DEF Users, Positions
  <2>3. \A u \in 1..Len(L) : u \notin 1..Len(P) => u > k /\ m < u
    BY <1>1
  <2>4. \A u \in 1..Len(P) : u \in Users(P) <=> u \in Users(L)
    BY <1>1, <2>1, <2>2
  <2>5. InTurn(P, t, k) <=> InTurn(L, t, k)
    <3>1. InTurn(L, t, k) => InTurn(P, t, k)
      BY <2>1, <2>4, <1>3 DEF InTurn
    <3>2. InTurn(P, t, k) => InTurn(L, t, k)
      <4> SUFFICES ASSUME InTurn(P, t, k), NEW u \in Users(L)
                   PROVE  (u <= k => u <= m) /\ (u > k => m < u)
        BY <1>3 DEF InTurn
      <4>1. u \in 1..Len(L) /\ (u \in 1..Len(P) => u \in Users(P))
        BY <2>2, <2>4
      <4>2. CASE u \in 1..Len(P)
        BY <1>3, <4>1, <4>2 DEF InTurn
      <4>3. CASE u \notin 1..Len(P)
        BY <1>1, <2>3, <4>1, <4>3
      <4> QED
        BY <4>2, <4>3
    <3> QED
      BY <3>1, <3>2
  <2> QED
    BY <2>5 DEF GrantedTogether
<1>4. 0 \in S
  BY <1>1, <1>2, ReplaySteps
<1>5. ASSUME NEW k \in (0 + 1)..Len(P), k - 1 \in S PROVE k \in S
  <2>1. k \in 1..Len(P) /\ k \in 1..Len(L) /\ P[k] = L[k] /\ k - 1 \in 0..Len(L) /\ k \in 0..Len(P)
    BY <1>1
  <2>2. Replay(P, m)[k - 1] = Replay(L, m)[k - 1]
    BY <1>5
  <2>3. Replay(L, m)[k - 1].parent = m
    BY <1>1, <1>2, <2>1, ReplaySteps
  <2>4. GrantedTogether(P, Replay(L, m)[k - 1], k) = GrantedTogether(L, Replay(L, m)[k - 1], k)
    BY <1>3, <2>1, <2>3
  <2>5. Replay(P, m)[k] =
          IF IsTurnApproval(P[k]) THEN GrantedTogether(P, Replay(P, m)[k - 1], k)
          ELSE IF P[k].call = P[m].call /\ k > m THEN Applied(Replay(P, m)[k - 1], P[k])
          ELSE Replay(P, m)[k - 1]
    BY <1>1, <2>1, ReplaySteps
  <2>6. Replay(L, m)[k] =
          IF IsTurnApproval(L[k]) THEN GrantedTogether(L, Replay(L, m)[k - 1], k)
          ELSE IF L[k].call = L[m].call /\ k > m THEN Applied(Replay(L, m)[k - 1], L[k])
          ELSE Replay(L, m)[k - 1]
    BY <1>1, <1>2, <2>1, ReplaySteps
  <2>7. Replay(P, m)[k] = Replay(L, m)[k]
    BY <1>2, <2>1, <2>2, <2>4, <2>5, <2>6
  <2> QED
    BY <2>1, <2>7
<1> HIDE DEF S
<1>6. \A k \in 0..Len(P) : k \in S
  BY <1>1, <1>4, <1>5, Climbs
<1> QED
  BY <1>6 DEF S

\* A call reads as started when, and only when, an event has started it.
LEMMA StartedIs ==
  ASSUME NEW L, Uncontinued(L), NEW m \in 1..Len(L), Declares(L[m]), NEW k \in 0..Len(L)
  PROVE  Replay(L, m)[k].started <=>
           \E j \in 1..k : j > m /\ L[j].type = "started" /\ L[j].call = L[m].call
<1> DEFINE By(i) == \E j \in 1..i : j > m /\ L[j].type = "started" /\ L[j].call = L[m].call
           S == {i \in 0..Len(L) : Replay(L, m)[i].started <=> By(i)}
<1>1. LogTyped(L) /\ Len(L) \in Nat /\ DOMAIN L = 1..Len(L)
  BY TypedIs DEF Uncontinued
<1>2. 0 \in S
  <2>1. ~Replay(L, m)[0].started
    <3>1. Replay(L, m)[0] = Declared(m, L[m])
      BY ReplaySteps
    <3>2. Declared(m, L[m]).started = FALSE
      BY DEF Declared
    <3> QED
      BY <3>1, <3>2
  <2>2. ~By(0)
    OBVIOUS
  <2> QED
    BY <1>1, <2>1, <2>2
<1>3. ASSUME NEW i \in (0 + 1)..Len(L), i - 1 \in S PROVE i \in S
  <2> DEFINE t == Replay(L, m)[i - 1]
  <2>1. i \in 1..Len(L) /\ i - 1 \in 0..Len(L) /\ i \in 0..Len(L)
    BY <1>1
  <2>2. t \in Call /\ L[i] \in Event
    BY <1>1, <2>1, ReplaySteps, TypedIs
  <2>3. Replay(L, m)[i] = IF IsTurnApproval(L[i]) THEN GrantedTogether(L, t, i)
                          ELSE IF L[i].call = L[m].call /\ i > m THEN Applied(t, L[i]) ELSE t
    BY <2>1, ReplaySteps
  <2>4. By(i) <=> By(i - 1) \/ (i > m /\ L[i].type = "started" /\ L[i].call = L[m].call)
    <3>1. \A j : j \in 1..i <=> j = i \/ j \in 1..(i - 1)
      BY <2>1
    <3> QED
      BY <3>1
  <2>5. t.started <=> By(i - 1)
    BY <1>3
  <2> HIDE DEF t, By
  <2>6. GrantedTogether(L, t, i).started = t.started
    BY <2>2 DEF GrantedTogether, Call
  <2>7. L[i].call # None => Applied(t, L[i]).started = (L[i].type = "started" \/ t.started)
    <3> DEFINE e == L[i]
    <3>1. e \in Event
      BY <2>2
    <3> HIDE DEF e
    <3>2. e.call # None => Applied(t, e).started = (e.type = "started" \/ t.started)
      <4>1. CASE e.type = "started"
        BY <2>2, <3>1, <4>1 DEF Applied, Restarted, Call
      <4>2. CASE e.type = "decided"
        BY <2>2, <3>1, <4>2 DEF Applied, Call
      <4>3. CASE e.type \notin {"started", "decided"}
        BY <2>2, <3>1, <4>3 DEF Applied, Call
      <4> QED
        BY <4>1, <4>2, <4>3
    <3> QED
      BY <3>2 DEF e
  <2>8. L[m].call # None
    BY DEF Declares
  <2>9. IsTurnApproval(L[i]) => L[i].type # "started"
    BY DEF IsTurnApproval
  <2>10. Replay(L, m)[i].started <=> By(i)
    BY <2>3, <2>4, <2>5, <2>6, <2>7, <2>8, <2>9
  <2> QED
    BY <2>1, <2>10
<1> HIDE DEF S
<1>4. \A i \in 0..Len(L) : i \in S
  BY <1>1, <1>2, <1>3, Climbs
<1> QED
  BY <1>4 DEF S

\* Where it is declared a call is what its message made it, and what an
\* approval of its turn had granted before.
LEMMA ReplayDeclared ==
  ASSUME NEW L, Uncontinued(L), NEW m \in 1..Len(L), Declares(L[m])
  PROVE  LET t == Declared(m, L[m])
         IN  Replay(L, m)[m] = IF t.approval = "none" /\ TurnAt(L, m)
                               THEN [t EXCEPT !.approval = "granted"] ELSE t
<1> DEFINE t == Declared(m, L[m])
           g == [t EXCEPT !.approval = "granted"]
           Granted(i) == \E j \in 1..i : IsTurnApproval(L[j]) /\ InTurn(L, t, j)
           S == {i \in 0..m : Replay(L, m)[i] = IF t.approval = "none" /\ Granted(i) THEN g ELSE t}
<1>1. /\ LogTyped(L) /\ Len(L) \in Nat /\ DOMAIN L = 1..Len(L) /\ m \in Nat
      /\ L[m] \in Event /\ m \in 1..MaxLog
  BY TypedIs DEF Uncontinued
<1>2. t \in Call /\ t.parent = m
  BY <1>1, DeclaredTyped
<1>3. g.approval = "granted" /\ g.parent = m
  BY <1>2 DEF Call
<1> HIDE DEF t, g
<1>4. 0 \in S
  <2>1. ~Granted(0)
    OBVIOUS
  <2> QED
    BY <1>1, <2>1, ReplaySteps DEF t
<1>5. ASSUME NEW i \in (0 + 1)..m, i - 1 \in S PROVE i \in S
  <2> DEFINE r == Replay(L, m)[i - 1]
  <2>1. i \in 1..Len(L) /\ i \in 0..m /\ ~(i > m) /\ i \in Nat
    BY <1>1
  <2>2. Replay(L, m)[i] = IF IsTurnApproval(L[i]) THEN GrantedTogether(L, r, i) ELSE r
    BY <2>1, ReplaySteps
  <2>3. r = IF t.approval = "none" /\ Granted(i - 1) THEN g ELSE t
    BY <1>5
  <2>4. Granted(i) <=> Granted(i - 1) \/ (IsTurnApproval(L[i]) /\ InTurn(L, t, i))
    <3>1. \A j : j \in 1..i <=> j = i \/ j \in 1..(i - 1)
      BY <2>1
    <3> QED
      BY <3>1
  <2> HIDE DEF r, Granted
  <2>5. GrantedTogether(L, g, i) = g
    BY <1>3 DEF GrantedTogether
  <2>6. GrantedTogether(L, t, i) = IF t.approval = "none" /\ InTurn(L, t, i) THEN g ELSE t
    BY DEF GrantedTogether, g
  <2>7. Replay(L, m)[i] = IF t.approval = "none" /\ Granted(i) THEN g ELSE t
    BY <2>2, <2>3, <2>4, <2>5, <2>6
  <2> QED
    BY <2>1, <2>7
<1> HIDE DEF S
<1>6. m \in S
  <2>1. \A i \in 0..m : i \in S
    BY <1>1, <1>4, <1>5, Climbs
  <2> QED
    BY <1>1, <2>1
<1>7. Granted(m) <=> TurnAt(L, m)
  <2>1. Users(L) = {u \in 1..Len(L) : L[u].type = "user"}
    BY <1>1 DEF Users, Positions
  <2>2. ASSUME NEW j \in 1..m, IsTurnApproval(L[j])
        PROVE  InTurn(L, t, j) <=> \A u \in 1..m : L[u].type = "user" => u < j
    <3>1. ASSUME InTurn(L, t, j), NEW u \in 1..m, L[u].type = "user" PROVE u < j
      <4>1. u \in Users(L) /\ u # j
        BY <1>1, <2>1, <2>2, <3>1 DEF IsTurnApproval
      <4>2. ~(u > j)
        BY <1>1, <1>2, <3>1, <4>1 DEF InTurn
      <4> QED
        BY <1>1, <4>1, <4>2
    <3>2. ASSUME \A u \in 1..m : L[u].type = "user" => u < j PROVE InTurn(L, t, j)
      <4> SUFFICES ASSUME NEW u \in Users(L) PROVE (u <= j => u <= m) /\ (u > j => m < u)
        BY <1>2 DEF InTurn
      <4>1. u \in 1..Len(L) /\ L[u].type = "user"
        BY <2>1
      <4> QED
        BY <1>1, <3>2, <4>1
    <3> QED
      BY <3>1, <3>2
  <2> QED
    BY <2>2 DEF TurnAt
<1>8. Replay(L, m)[m] = IF t.approval = "none" /\ Granted(m) THEN g ELSE t
  BY <1>6 DEF S
<1> HIDE DEF Granted
<1> QED
  BY <1>7, <1>8 DEF t, g

-----------------------------------------------------------------------------
(* The boundary of a log that grows. *)

LEMMA LatestSplit ==
  ASSUME NEW N \in Nat, NEW S \in SUBSET (1..N), NEW u \in Nat
  PROVE  LET new == {k \in S : k > u}
             old == {k \in S : k <= u}
         IN  /\ new = {} => Latest(S) = Latest(old)
             /\ new # {} => Latest(S) = Max(new) /\ Max(new) > u
<1> DEFINE new == {k \in S : k > u}
           old == {k \in S : k <= u}
<1>0. \A k \in S : k \in Int /\ k <= N /\ (k > u \/ k <= u)
  <2> SUFFICES ASSUME NEW k \in S PROVE k \in Int /\ k <= N /\ (k > u \/ k <= u)
    OBVIOUS
  <2>1. k \in 1..N
    OBVIOUS
  <2> QED
    BY <2>1
<1>1. new = {} => S = old
  <2> SUFFICES ASSUME new = {} PROVE S = old
    OBVIOUS
  <2>1. \A k \in S : k \in old
    BY <1>0
  <2> QED
    BY <2>1
<1>2. ASSUME new # {} PROVE Latest(S) = Max(new) /\ Max(new) > u
  <2>1. new \in SUBSET Int /\ N \in Int /\ \A x \in new : x <= N
    <3>1. \A x \in new : x \in Int /\ x <= N
      BY <1>0
    <3>2. N \in Int
      OBVIOUS
    <3> HIDE DEF new
    <3> QED
      BY <3>1, <3>2
  <2>2. PICK b : b = Max(new)
    OBVIOUS
  <2>3. b \in new /\ \A x \in new : x <= b
    <3> HIDE DEF new
    <3> QED
      BY <1>2, <2>1, <2>2, MaxIs
  <2>4. b \in S /\ b > u /\ b \in Nat
    BY <2>3
  <2>5. PICK l : l = Latest(S)
    OBVIOUS
  <2>6. l \in S \cup {-1} /\ b <= l
    BY <2>4, <2>5, LatestIs
  <2>7. l \in S /\ l \in Nat
    BY <2>4, <2>6
  <2>8. l \in new
    BY <2>4, <2>6, <2>7
  <2>9. l <= b
    BY <2>3, <2>8
  <2>10. l = b
    BY <2>4, <2>6, <2>7, <2>9
  <2> QED
    BY <2>2, <2>4, <2>5, <2>10
<1> QED
  BY <1>1, <1>2

\* The ends of turns, and the answers, of a prefix are those of the log up to it.
LEMMA EndsPrefix ==
  ASSUME NEW P, NEW L, LogTyped(P), Uncontinued(L), Grows(P, L)
  PROVE  /\ TurnEnds(P) = {k \in TurnEnds(L) : k <= Len(P)}
         /\ Assistants(P) = {k \in Assistants(L) : k <= Len(P)}
         /\ TurnEnds(L) \in SUBSET (1..Len(L)) /\ Assistants(L) \in SUBSET (1..Len(L))
<1>1. /\ Uncontinued(P) /\ Len(L) \in Nat /\ Len(P) \in Nat /\ Len(P) <= Len(L)
      /\ DOMAIN P = 1..Len(P) /\ DOMAIN L = 1..Len(L)
      /\ \A k \in 1..Len(P) : k \in 1..Len(L) /\ P[k] = L[k]
  BY PrefixIs
<1>2. /\ TurnEnds(P) = {k \in 1..Len(P) : EndsTurn(P[k], LLM(P))}
      /\ TurnEnds(L) = {k \in 1..Len(L) : EndsTurn(L[k], LLM(L))}
      /\ LLM(P) = {P[k].by : k \in {n \in 1..Len(P) : IsTurn(P[n])}}
      /\ LLM(L) = {L[k].by : k \in {n \in 1..Len(L) : IsTurn(L[n])}}
  BY <1>1, PositionsAre
<1>3. ASSUME NEW k \in 1..Len(P) PROVE L[k].by \in LLM(L) <=> L[k].by \in LLM(P)
  <2>1. LLM(P) \subseteq LLM(L)
    BY <1>1, <1>2
  <2>2. ASSUME L[k].by \in LLM(L) PROVE L[k].by \in LLM(P)
    <3>1. PICK j \in 1..Len(L) : IsTurn(L[j]) /\ L[j].by = L[k].by
      BY <1>2, <2>2
    <3>2. j \in 1..Len(P)
      <4> SUFFICES ASSUME j \notin 1..Len(P) PROVE FALSE
        OBVIOUS
      <4>1. k \in 1..(j - 1)
        BY <1>1
      <4> QED
        BY <3>1, <4>1, UncontinuedIs DEF IsTurn
    <3> QED
      BY <1>1, <1>2, <3>1, <3>2
  <2> QED
    BY <2>1, <2>2
<1>4. ASSUME NEW k \in 1..Len(P) PROVE k \in TurnEnds(P) <=> k \in TurnEnds(L)
  BY <1>1, <1>2, <1>3 DEF EndsTurn
<1>5. TurnEnds(P) = {k \in TurnEnds(L) : k <= Len(P)}
  <2>1. TurnEnds(P) \subseteq 1..Len(P) /\ TurnEnds(L) \subseteq 1..Len(L)
    BY <1>2
  <2>2. \A k \in 1..Len(L) : k <= Len(P) <=> k \in 1..Len(P)
    BY <1>1
  <2> QED
    BY <1>1, <1>4, <2>1, <2>2
<1>6. /\ Assistants(P) = {k \in 1..Len(P) : P[k].type = "assistant"}
      /\ Assistants(L) = {k \in 1..Len(L) : L[k].type = "assistant"}
  BY <1>1, NothingStruck DEF Assistants, Positions
<1>7. Assistants(P) = {k \in Assistants(L) : k <= Len(P)}
  BY <1>1, <1>6
<1> QED
  BY <1>2, <1>5, <1>6, <1>7

LEMMA UncontinuedBoundary ==
  ASSUME NEW L, Uncontinued(L)
  PROVE  Boundary(L) = IF Latest(TurnEnds(L)) = -1 THEN Latest(Assistants(L)) ELSE Latest(TurnEnds(L))
<1>1. Continues(L) = {}
  BY DEF Uncontinued
<1>2. TurnEnds(L) \cup Continues(L) = TurnEnds(L)
  BY <1>1
<1> DEFINE b == Latest(TurnEnds(L))
<1>3. Boundary(L) = CASE b = -1 -> Latest(Assistants(L))
                      [] b \in Continues(L) -> L[b].at - 1
                      [] OTHER -> b
  BY <1>2 DEF Boundary
<1> HIDE DEF b
<1> QED
  BY <1>1, <1>3 DEF b

LEMMA ExtendsBoundary ==
  ASSUME NEW P, NEW L, LogTyped(P), Uncontinued(L), Grows(P, L)
  PROVE  ExtendedBoundary(L, Rebuild(P)) = Boundary(L) /\ Boundary(P) <= Boundary(L)
<1> DEFINE r == Rebuild(P)
           u == Len(P)
           ends == {k \in TurnEnds(L) : k > u}
           answers == {k \in Assistants(L) : k > u}
           e == Latest(TurnEnds(P))
           a == Latest(Assistants(P))
           d == Latest(TurnEnds(L))
           b == Latest(Assistants(L))
<1>1. /\ Uncontinued(P) /\ Len(L) \in Nat /\ u \in Nat /\ u <= Len(L)
  BY PrefixIs
<1>2. /\ r.upto = u /\ r.boundary = Boundary(P) /\ r.stream = e /\ r.assistant = a
  BY DEF Rebuild
<1>3. /\ Boundary(P) = IF e = -1 THEN a ELSE e
      /\ Boundary(L) = IF d = -1 THEN b ELSE d
  BY <1>1, UncontinuedBoundary
<1>4. /\ ends = {} => d = e
      /\ ends # {} => d = Max(ends) /\ d > u
      /\ answers = {} => b = a
      /\ answers # {} => b = Max(answers) /\ b > u
  <2>1. /\ TurnEnds(P) = {k \in TurnEnds(L) : k <= u} /\ Assistants(P) = {k \in Assistants(L) : k <= u}
        /\ TurnEnds(L) \in SUBSET (1..Len(L)) /\ Assistants(L) \in SUBSET (1..Len(L))
    BY EndsPrefix
  <2>2. /\ ends = {} => d = Latest({k \in TurnEnds(L) : k <= u})
        /\ ends # {} => d = Max(ends) /\ Max(ends) > u
    BY <1>1, <2>1, LatestSplit
  <2>3. /\ answers = {} => b = Latest({k \in Assistants(L) : k <= u})
        /\ answers # {} => b = Max(answers) /\ Max(answers) > u
    BY <1>1, <2>1, LatestSplit
  <2> QED
    BY <2>1, <2>2, <2>3
<1>5. e \in -1..u /\ a \in -1..u /\ d \in -1..Len(L) /\ b \in -1..Len(L)
  <2>1. ASSUME NEW N \in Nat, NEW S \in SUBSET (1..N) PROVE Latest(S) \in -1..N
    <3>1. PICK l : l = Latest(S)
      OBVIOUS
    <3>2. l \in S \cup {-1}
      BY <3>1, LatestIs
    <3>3. l \in -1..N
      BY <3>2
    <3> QED
      BY <3>1, <3>3
  <2>2. TurnEnds(P) \in SUBSET (1..u) /\ Assistants(P) \in SUBSET (1..u)
    BY <1>1, EndsPrefix
  <2>3. TurnEnds(L) \in SUBSET (1..Len(L)) /\ Assistants(L) \in SUBSET (1..Len(L))
    BY EndsPrefix
  <2> QED
    BY <1>1, <2>1, <2>2, <2>3
<1> HIDE DEF e, a, d, b
<1>6. Boundary(P) <= Boundary(L)
  <2>1. CASE ends # {}
    BY <1>1, <1>3, <1>4, <1>5, <2>1
  <2>2. CASE ends = {} /\ answers = {}
    BY <1>1, <1>3, <1>4, <1>5, <2>2
  <2>3. CASE ends = {} /\ answers # {}
    BY <1>1, <1>3, <1>4, <1>5, <2>3
  <2> QED
    BY <2>1, <2>2, <2>3
<1> DEFINE fallback == Boundary(P) = -1 \/ (e = -1 /\ Boundary(P) = a)
<1>7. ExtendedBoundary(L, r) =
        CASE ends # {} -> Max(ends)
          [] ends = {} /\ fallback /\ answers # {} -> Max(answers)
          [] OTHER -> Boundary(P)
  <2> HIDE DEF r
  <2> QED
    BY <1>2 DEF ExtendedBoundary
<1> HIDE DEF ends, answers, fallback, r
<1>8. fallback <=> e = -1
  BY <1>3, <1>5 DEF fallback
<1>9. ExtendedBoundary(L, r) = Boundary(L)
  <2>1. CASE ends # {}
    BY <1>1, <1>3, <1>4, <1>5, <1>7, <2>1
  <2>2. CASE ends = {} /\ e = -1 /\ answers # {}
    BY <1>1, <1>3, <1>4, <1>5, <1>7, <1>8, <2>2
  <2>3. CASE ends = {} /\ ~(e = -1 /\ answers # {})
    BY <1>1, <1>3, <1>4, <1>5, <1>7, <1>8, <2>3
  <2> QED
    BY <2>1, <2>2, <2>3
<1> QED
  BY <1>6, <1>9 DEF r

-----------------------------------------------------------------------------
(* The extension of a reduction, event by event. *)

Extending(L, r) ==
  LET upTo[k \in r.upto..Len(L)] ==
        IF k = r.upto THEN [calls |-> r.calls, global |-> r.global, turn |-> r.turn]
        ELSE Extended(upTo[k - 1], L, k)
  IN  upTo

CallMaps == UNION {[D -> Call] : D \in SUBSET Calls}

Accumulator == [calls : CallMaps, global : BOOLEAN, turn : BOOLEAN]

LEMMA MapIs ==
  ASSUME NEW f
  PROVE  f \in CallMaps <=> f \in [DOMAIN f -> Call] /\ DOMAIN f \subseteq Calls
<1>1. ASSUME f \in CallMaps PROVE f \in [DOMAIN f -> Call] /\ DOMAIN f \subseteq Calls
  <2>1. PICK D \in SUBSET Calls : f \in [D -> Call]
    BY <1>1 DEF CallMaps
  <2>2. DOMAIN f = D
    BY <2>1
  <2> QED
    BY <2>1, <2>2
<1>2. ASSUME f \in [DOMAIN f -> Call], DOMAIN f \subseteq Calls PROVE f \in CallMaps
  BY <1>2 DEF CallMaps
<1> QED
  BY <1>1, <1>2

\* What one event does to the calls, the global approval and the turn's.
\* x is what the event at k makes of acc.
ExtendsTo(x, acc, L, k) ==
  /\ x \in Accumulator
  /\ x.global = IF IsGlobal(L[k]) THEN L[k].arg = "global" ELSE acc.global
  /\ x.turn = IF IsTurnApproval(L[k]) THEN TRUE
              ELSE IF L[k].type = "user" THEN FALSE ELSE acc.turn
  /\ x.calls =
       IF IsTurnApproval(L[k])
       THEN [c \in DOMAIN acc.calls |-> GrantedTogether(L, acc.calls[c], k)]
       ELSE IF Declares(L[k])
       THEN [c \in {L[k].call} \cup DOMAIN acc.calls |->
              IF c = L[k].call
              THEN IF acc.global \/ (L[k].type # "user" /\ acc.turn)
                   THEN [Declared(k, L[k]) EXCEPT !.approval = "granted"] ELSE Declared(k, L[k])
              ELSE acc.calls[c]]
       ELSE IF L[k].call # None
       THEN [acc.calls EXCEPT ![L[k].call] = Sealed(Applied(@, L[k]))]
       ELSE acc.calls

LEMMA ExtendedIs ==
  ASSUME NEW L, LogTyped(L), NEW k \in 1..Len(L), NEW acc \in Accumulator
  PROVE  ExtendsTo(Extended(acc, L, k), acc, L, k)
<1> DEFINE e == L[k]
           x == Extended(acc, L, k)
<1>1. e \in Event /\ k \in 1..MaxLog
  BY TypedIs
<1>2. acc.calls \in CallMaps /\ acc.global \in BOOLEAN /\ acc.turn \in BOOLEAN
      /\ acc.calls \in [DOMAIN acc.calls -> Call] /\ DOMAIN acc.calls \subseteq Calls
  BY MapIs DEF Accumulator
<1> HIDE DEF e
<1>3. /\ IsTurnApproval(e) => e.call = None /\ e.type = "approval" /\ ~IsGlobal(e)
      /\ IsGlobal(e) => e.call = None /\ e.type = "approval" /\ ~IsTurnApproval(e)
      /\ Declares(e) => e.call # None /\ e.type \in {"user", "assistant"}
  BY <1>1 DEF IsTurnApproval, IsGlobal, Declares, Event
<1>4. /\ ForgetsTurn(acc, e) \in Accumulator
      /\ ForgetsTurn(acc, e).calls = acc.calls /\ ForgetsTurn(acc, e).global = acc.global
      /\ ForgetsTurn(acc, e).turn = IF e.type = "user" THEN FALSE ELSE acc.turn
  BY DEF ForgetsTurn, Accumulator
<1>5. CASE IsTurnApproval(e)
  <2> DEFINE f == [c \in DOMAIN acc.calls |-> GrantedTogether(L, acc.calls[c], k)]
  <2>1. f \in CallMaps
    <3>1. \A c \in DOMAIN acc.calls : GrantedTogether(L, acc.calls[c], k) \in Call
      BY <1>2, GrantedTyped
    <3>2. f \in [DOMAIN acc.calls -> Call] /\ DOMAIN f = DOMAIN acc.calls
      BY <3>1
    <3> HIDE DEF f
    <3> QED
      BY <1>2, <3>2, MapIs
  <2>2. x = [acc EXCEPT !.turn = TRUE, !.calls = f]
    BY <1>3, <1>5 DEF Extended, e
  <2> HIDE DEF f, x
  <2>3. x \in Accumulator /\ x.global = acc.global /\ x.turn = TRUE /\ x.calls = f
    BY <2>1, <2>2 DEF Accumulator
  <2> QED
    BY <1>3, <1>5, <2>3 DEF ExtendsTo, x, f, e
<1>6. CASE IsGlobal(e)
  <2>1. x = [acc EXCEPT !.global = e.arg = "global"]
    BY <1>3, <1>6 DEF Extended, e
  <2> HIDE DEF x
  <2>2. x \in Accumulator /\ x.global = (e.arg = "global") /\ x.turn = acc.turn /\ x.calls = acc.calls
    BY <2>1 DEF Accumulator
  <2>3. ~IsTurnApproval(e) /\ ~Declares(e) /\ e.call = None /\ e.type # "user"
    BY <1>3, <1>6
  <2> QED
    BY <1>6, <2>2, <2>3 DEF ExtendsTo, x, e
<1>7. CASE Declares(e)
  <2> DEFINE a == ForgetsTurn(acc, e)
             t == Declared(k, e)
             new == IF a.global \/ a.turn THEN [t EXCEPT !.approval = "granted"] ELSE t
             f == [c \in {e.call} \cup DOMAIN a.calls |-> IF c = e.call THEN new ELSE a.calls[c]]
  <2>1. t \in Call /\ e.call \in Calls
    BY <1>1, <1>7, DeclaredTyped
  <2>2. new \in Call
    <3> HIDE DEF t, a
    <3>1. [t EXCEPT !.approval = "granted"] \in Call
      BY <2>1 DEF Call
    <3> QED
      BY <2>1, <3>1
  <2> HIDE DEF a, new
  <2>3. f \in CallMaps
    <3>1. a.calls = acc.calls
      BY <1>4 DEF a
    <3>2. f \in [{e.call} \cup DOMAIN acc.calls -> Call] /\ DOMAIN f = {e.call} \cup DOMAIN acc.calls
      BY <1>2, <2>2, <3>1
    <3> HIDE DEF f
    <3> QED
      BY <1>2, <2>1, <3>2, MapIs
  <2>4. x = [a EXCEPT !.calls = f]
    <3>1. ~IsTurnApproval(e) /\ ~IsGlobal(e)
      BY <1>3, <1>7
    <3>2. x = Declaring(a, k, e)
      BY <1>7, <3>1 DEF Extended, e, a
    <3> QED
      BY <3>2 DEF Declaring, new
  <2>5. x \in Accumulator /\ x.global = a.global /\ x.turn = a.turn /\ x.calls = f
    <3>1. a \in Accumulator
      BY <1>4 DEF a
    <3> HIDE DEF f, x
    <3> QED
      BY <2>3, <2>4, <3>1 DEF Accumulator
  <2>6. ~IsTurnApproval(e) /\ ~IsGlobal(e)
    BY <1>3, <1>7
  <2>7. f = [c \in {e.call} \cup DOMAIN acc.calls |->
               IF c = e.call
               THEN IF acc.global \/ (e.type # "user" /\ acc.turn)
                    THEN [Declared(k, e) EXCEPT !.approval = "granted"] ELSE Declared(k, e)
               ELSE acc.calls[c]]
    <3>1. a.calls = acc.calls /\ a.global = acc.global
          /\ a.turn = IF e.type = "user" THEN FALSE ELSE acc.turn
      BY <1>4 DEF a
    <3>2. new = IF acc.global \/ (e.type # "user" /\ acc.turn)
                THEN [Declared(k, e) EXCEPT !.approval = "granted"] ELSE Declared(k, e)
      <4>1. (a.global \/ a.turn) <=> (acc.global \/ (e.type # "user" /\ acc.turn))
        BY <3>1
      <4> QED
        BY <4>1 DEF new, t
    <3> QED
      BY <3>1, <3>2
  <2> HIDE DEF f, x
  <2>8. x.global = acc.global /\ x.turn = IF e.type = "user" THEN FALSE ELSE acc.turn
    BY <1>4, <2>5 DEF a
  <2> QED
    BY <1>7, <2>5, <2>6, <2>7, <2>8 DEF ExtendsTo, x, e
<1>8. CASE ~IsTurnApproval(e) /\ ~IsGlobal(e) /\ ~Declares(e) /\ e.call # None
  <2> DEFINE f == [acc.calls EXCEPT ![e.call] = Sealed(Applied(@, e))]
  <2>1. f \in CallMaps
    <3>1. \A c \in DOMAIN acc.calls : Sealed(Applied(acc.calls[c], e)) \in Call
      BY <1>1, <1>2, <1>8, AppliedTyped, SealedIs
    <3>2. f \in [DOMAIN acc.calls -> Call] /\ DOMAIN f = DOMAIN acc.calls
      BY <1>2, <3>1
    <3> HIDE DEF f
    <3> QED
      BY <1>2, <3>2, MapIs
  <2>2. x = [acc EXCEPT !.calls = f]
    <3>1. x = Naming(acc, e)
      BY <1>8 DEF Extended, e
    <3> QED
      BY <3>1 DEF Naming
  <2> HIDE DEF f, x
  <2>3. x \in Accumulator /\ x.global = acc.global /\ x.turn = acc.turn /\ x.calls = f
    BY <2>1, <2>2 DEF Accumulator
  <2>4. e.type # "user"
    BY <1>8 DEF Declares
  <2> QED
    BY <1>8, <2>3, <2>4 DEF ExtendsTo, x, f, e
<1>9. CASE ~IsTurnApproval(e) /\ ~IsGlobal(e) /\ ~Declares(e) /\ e.call = None
  <2>1. x = ForgetsTurn(acc, e)
    BY <1>9 DEF Extended, e
  <2> HIDE DEF x
  <2> QED
    BY <1>4, <1>9, <2>1 DEF ExtendsTo, x, e
<1> QED
  BY <1>5, <1>6, <1>7, <1>8, <1>9

\* X takes the reduction r through the events of L after r.upto.
Extends(X, L, r) ==
  /\ \A k \in r.upto..Len(L) : X[k] \in Accumulator
  /\ X[r.upto] = [calls |-> r.calls, global |-> r.global, turn |-> r.turn]
  /\ \A k \in (r.upto + 1)..Len(L) : X[k] = Extended(X[k - 1], L, k)

LEMMA ExtendingSteps ==
  ASSUME NEW L, LogTyped(L), NEW r, r.upto \in 0..Len(L),
         r.calls \in CallMaps, r.global \in BOOLEAN, r.turn \in BOOLEAN
  PROVE  Extends(Extending(L, r), L, r)
<1> DEFINE n == Len(L)
           u == r.upto
           t0 == [calls |-> r.calls, global |-> r.global, turn |-> r.turn]
           f == CHOOSE g : g = [k \in u..n |-> IF k = u THEN t0 ELSE Extended(g[k - 1], L, k)]
           s == [k \in (u + 1)..n |-> [t \in Accumulator |-> Extended(t, L, k)]]
<1>1. Extending(L, r) = f
  BY DEF Extending
<1>2. n \in Nat /\ u \in Nat /\ u <= n
  BY TypedIs
<1>3. t0 \in Accumulator
  BY DEF Accumulator
<1>4. ASSUME NEW k \in (u + 1)..n, NEW t \in Accumulator PROVE Extended(t, L, k) \in Accumulator
  <2>1. k \in 1..Len(L)
    BY <1>2
  <2> QED
    BY <2>1, ExtendedIs DEF ExtendsTo
<1>5. s \in [(u + 1)..n -> [Accumulator -> Accumulator]]
      /\ \A k \in (u + 1)..n, t \in Accumulator : s[k][t] = Extended(t, L, k)
  BY <1>4
<1> HIDE DEF t0, s, n, u
<1>6. PICK g : IsFold(g, u, n, Accumulator, t0, s)
  BY <1>2, <1>3, <1>5, FoldExists
<1>7. g = [k \in u..n |-> IF k = u THEN t0 ELSE Extended(g[k - 1], L, k)]
  <2> SUFFICES ASSUME NEW k \in u..n PROVE g[k] = IF k = u THEN t0 ELSE Extended(g[k - 1], L, k)
    BY <1>6 DEF IsFold
  <2>1. CASE k = u
    BY <1>6, <2>1 DEF IsFold
  <2>2. CASE k # u
    <3>1. k \in (u + 1)..n /\ k - 1 \in u..n
      BY <1>2, <2>2
    <3> QED
      BY <1>5, <1>6, <2>2, <3>1 DEF IsFold
  <2> QED
    BY <2>1, <2>2
<1>8. f = [k \in u..n |-> IF k = u THEN t0 ELSE Extended(f[k - 1], L, k)]
  BY <1>7
<1> HIDE DEF f
<1>9. f[u] = t0 /\ \A k \in (u + 1)..n : f[k] = Extended(f[k - 1], L, k)
  <2>1. u \in u..n
    BY <1>2
  <2>2. \A k \in (u + 1)..n : k \in u..n /\ k # u
    BY <1>2
  <2> QED
    BY <1>8, <2>1, <2>2
<1>10. \A k \in u..n : f[k] \in Accumulator
  <2> DEFINE S == {k \in u..n : f[k] \in Accumulator}
  <2>1. u \in S
    BY <1>2, <1>3, <1>9
  <2>2. ASSUME NEW k \in (u + 1)..n, k - 1 \in S PROVE k \in S
    <3>1. k \in u..n /\ f[k - 1] \in Accumulator
      BY <1>2, <2>2
    <3> QED
      BY <1>4, <1>9, <3>1
  <2> HIDE DEF S
  <2>3. \A k \in u..n : k \in S
    BY <1>2, <2>1, <2>2, Climbs
  <2> QED
    BY <2>3 DEF S
<1> QED
  BY <1>1, <1>9, <1>10 DEF Extends, n, u, t0

-----------------------------------------------------------------------------
(* The extension of a rebuild is the rebuild of the extended log. *)

DeclaredBy(L, k) == {m \in 1..k : Declares(L[m])}

LEMMA DeclaredOnce ==
  ASSUME NEW L, Uncontinued(L), NEW k \in 0..Len(L), NEW m \in DeclaredBy(L, k), NEW n \in DeclaredBy(L, k),
         L[m].call = L[n].call
  PROVE  m = n
<1>1. Len(L) \in Nat
  BY TypedIs DEF Uncontinued
<1>2. m \in 1..Len(L) /\ n \in 1..Len(L) /\ Declares(L[m]) /\ Declares(L[n])
  BY <1>1 DEF DeclaredBy
<1>3. ~(m < n)
  <2>1. m < n => m \in 1..(n - 1)
    BY <1>1, <1>2
  <2> QED
    BY <1>2, <2>1, UncontinuedIs
<1>4. ~(n < m)
  <2>1. n < m => n \in 1..(m - 1)
    BY <1>1, <1>2
  <2> QED
    BY <1>2, <2>1, UncontinuedIs
<1> QED
  BY <1>2, <1>3, <1>4

LEMMA RebuiltAt ==
  ASSUME NEW L, Uncontinued(L)
  PROVE  /\ DOMAIN RebuiltCalls(L) = {L[m].call : m \in DeclaredBy(L, Len(L))}
         /\ \A m \in DeclaredBy(L, Len(L)) : RebuiltCalls(L)[L[m].call] = Rebuilt(L, m)
         /\ RebuiltCalls(L) \in CallMaps
<1> DEFINE D == Positions(L, Declares) \ Skipped(L)
           at(c) == CHOOSE m \in D : L[m].call = c
<1>1. LogTyped(L) /\ Len(L) \in Nat /\ DOMAIN L = 1..Len(L)
  BY TypedIs DEF Uncontinued
<1>2. D = DeclaredBy(L, Len(L))
  BY <1>1, NothingStruck DEF Positions, DeclaredBy
<1>3. RebuiltCalls(L) = [c \in {L[m].call : m \in D} |-> Rebuilt(L, at(c))]
  BY DEF RebuiltCalls
<1> HIDE DEF D
<1>4. ASSUME NEW m \in D PROVE at(L[m].call) = m
  <2>1. at(L[m].call) \in D /\ L[at(L[m].call)].call = L[m].call
    OBVIOUS
  <2>2. Len(L) \in 0..Len(L)
    BY <1>1
  <2> HIDE DEF at
  <2> QED
    BY <1>2, <2>1, <2>2, DeclaredOnce
<1> HIDE DEF at
<1>5. RebuiltCalls(L) \in CallMaps
  BY <1>1, CallsAre, MapIs
<1> QED
  BY <1>2, <1>3, <1>4, <1>5

\* The extension has reached position k.
Reached(L, r, gone, k) ==
  LET acc == Extending(L, r)[k]
  IN  /\ acc.global = GlobalAt(L, k) /\ acc.turn = TurnAt(L, k)
      /\ DOMAIN acc.calls = {L[m].call : m \in DeclaredBy(L, k)}
      /\ \A m \in DeclaredBy(L, k) :
           acc.calls[L[m].call] = Shown(Replay(L, m)[k], gone, GlobalAt(L, m))

LEMMA ReachesStart ==
  ASSUME NEW P, NEW L, LogTyped(P), Uncontinued(L), RevokedBetween(L), Grows(P, L)
  PROVE  /\ Rebuild(P).upto = Len(P) /\ Rebuild(P).calls \in CallMaps
         /\ Rebuild(P).global \in BOOLEAN /\ Rebuild(P).turn \in BOOLEAN
         /\ Reached(L, Rebuild(P), Gone(P, 0), Len(P))
<1> DEFINE r == Rebuild(P)
           u == Len(P)
           acc == Extending(L, r)[u]
<1>1. /\ Uncontinued(P) /\ LogTyped(L) /\ Len(L) \in Nat /\ u \in Nat /\ u \in 0..Len(L)
      /\ \A k \in 1..u : k \in 1..Len(L) /\ P[k] = L[k]
  BY PrefixIs DEF Uncontinued
<1>2. /\ r.upto = u /\ r.calls = RebuiltCalls(P) /\ r.global = GlobalAt(P, u) /\ r.turn = TurnOpen(P)
  BY DEF Rebuild
<1>3. r.calls \in CallMaps /\ r.global \in BOOLEAN /\ r.turn \in BOOLEAN
  <2>1. r.calls \in CallMaps
    BY <1>1, <1>2, RebuiltAt
  <2>2. r.global \in BOOLEAN
    BY <1>2 DEF GlobalAt
  <2>3. r.turn \in BOOLEAN
    BY <1>2 DEF TurnOpen
  <2> QED
    BY <2>1, <2>2, <2>3
<1> HIDE DEF r
<1>4. acc = [calls |-> r.calls, global |-> r.global, turn |-> r.turn]
  <2>1. Extending(L, r)[r.upto] = [calls |-> r.calls, global |-> r.global, turn |-> r.turn]
    <3>1. r.upto \in 0..Len(L)
      BY <1>1, <1>2
    <3> QED
      BY <1>1, <1>3, <3>1, ExtendingSteps DEF Extends
  <2> QED
    BY <1>2, <2>1
<1> HIDE DEF acc
<1>5. acc.global = GlobalAt(L, u)
  <2>1. u \in 0..Len(P)
    BY <1>1
  <2>2. GlobalAt(P, u) = GlobalAt(L, u)
    BY <2>1, GlobalPrefix
  <2> QED
    BY <1>2, <1>4, <2>2
<1>6. acc.turn = TurnAt(L, u)
  <2>1. TurnOpen(P) = TurnAt(P, u)
    BY TurnSteps
  <2>2. TurnAt(P, u) = TurnAt(L, u)
    <3>1. TurnAt(P, u) <=> TurnAt(L, u)
      BY <1>1 DEF TurnAt
    <3> QED
      BY <3>1 DEF TurnAt
  <2> QED
    BY <1>2, <1>4, <2>1, <2>2
<1>7. DeclaredBy(P, u) = DeclaredBy(L, u) /\ \A m \in DeclaredBy(L, u) : P[m] = L[m]
  BY <1>1 DEF DeclaredBy
<1>8. DOMAIN acc.calls = {L[m].call : m \in DeclaredBy(L, u)}
  <2>1. DOMAIN acc.calls = {P[m].call : m \in DeclaredBy(P, u)}
    BY <1>1, <1>2, <1>4, RebuiltAt
  <2> QED
    BY <1>7, <2>1
<1>9. ASSUME NEW m \in DeclaredBy(L, u)
      PROVE  acc.calls[L[m].call] = Shown(Replay(L, m)[u], Gone(P, 0), GlobalAt(L, m))
  <2>1. m \in 1..Len(P) /\ Declares(P[m]) /\ P[m] = L[m] /\ m \in 0..Len(P) /\ u \in 0..Len(P)
        /\ m \in DeclaredBy(P, u)
    BY <1>1, <1>7, <1>9 DEF DeclaredBy
  <2>2. acc.calls[L[m].call] = Rebuilt(P, m)
    BY <1>1, <1>2, <1>4, <2>1, RebuiltAt
  <2>3. Replayed(P, m) = Replay(P, m)[u]
    BY <1>1, <2>1, ReplaySteps
  <2>4. Replay(P, m)[u] = Replay(L, m)[u]
    BY <2>1, ReplayPrefix
  <2>5. GlobalAt(P, m) = GlobalAt(L, m)
    BY <2>1, GlobalPrefix
  <2> QED
    BY <2>2, <2>3, <2>4, <2>5, RebuiltIsShown
<1>10. Reached(L, r, Gone(P, 0), u)
  BY <1>5, <1>6, <1>8, <1>9 DEF Reached, acc
<1> QED
  BY <1>2, <1>3, <1>10 DEF r

LEMMA ReachesNext ==
  ASSUME NEW L, Uncontinued(L), RevokedBetween(L), NEW r, r.upto \in 0..Len(L), NEW gone,
         r.calls \in CallMaps, r.global \in BOOLEAN, r.turn \in BOOLEAN,
         \A i \in gone : \E j \in 1..r.upto : L[j].type \in {"close", "interrupt"} /\ L[j].by = i,
         NEW k \in (r.upto + 1)..Len(L), Reached(L, r, gone, k - 1)
  PROVE  Reached(L, r, gone, k)
<1> DEFINE e == L[k]
           acc == Extending(L, r)[k - 1]
           x == Extending(L, r)[k]
           D == DeclaredBy(L, k - 1)
<1>1. /\ LogTyped(L) /\ Len(L) \in Nat /\ r.upto \in Nat /\ k \in 1..Len(L) /\ k - 1 \in 0..Len(L)
      /\ k - 1 \in r.upto..Len(L) /\ e \in Event
  BY TypedIs DEF Uncontinued
<1>2. acc \in Accumulator /\ x = Extended(acc, L, k)
  <2>1. /\ \A i \in r.upto..Len(L) : Extending(L, r)[i] \in Accumulator
        /\ \A i \in (r.upto + 1)..Len(L) : Extending(L, r)[i] = Extended(Extending(L, r)[i - 1], L, i)
    <3> HIDE DEF e, acc, x, D
    <3>1. LogTyped(L) /\ r.upto \in 0..Len(L) /\ r.calls \in CallMaps /\ r.global \in BOOLEAN /\ r.turn \in BOOLEAN
      BY <1>1
    <3>2. Extends(Extending(L, r), L, r)
      BY <3>1, ExtendingSteps
    <3> QED
      BY <3>2 DEF Extends
  <2> QED
    BY <1>1, <2>1
<1>3. /\ acc.global = GlobalAt(L, k - 1) /\ acc.turn = TurnAt(L, k - 1)
      /\ DOMAIN acc.calls = {L[m].call : m \in D}
      /\ \A m \in D : acc.calls[L[m].call] = Shown(Replay(L, m)[k - 1], gone, GlobalAt(L, m))
  BY DEF Reached
<1>4. /\ x.global = IF IsGlobal(e) THEN e.arg = "global" ELSE acc.global
      /\ x.turn = IF IsTurnApproval(e) THEN TRUE ELSE IF e.type = "user" THEN FALSE ELSE acc.turn
      /\ x.calls =
           IF IsTurnApproval(e)
           THEN [c \in DOMAIN acc.calls |-> GrantedTogether(L, acc.calls[c], k)]
           ELSE IF Declares(e)
           THEN [c \in {e.call} \cup DOMAIN acc.calls |->
                  IF c = e.call
                  THEN IF acc.global \/ (e.type # "user" /\ acc.turn)
                       THEN [Declared(k, e) EXCEPT !.approval = "granted"] ELSE Declared(k, e)
                  ELSE acc.calls[c]]
           ELSE IF e.call # None
           THEN [acc.calls EXCEPT ![e.call] = Sealed(Applied(@, e))]
           ELSE acc.calls
  <2>1. LogTyped(L) /\ k \in 1..Len(L)
    BY <1>1
  <2> HIDE DEF acc, x
  <2>2. ExtendsTo(x, acc, L, k)
    BY <1>2, <2>1, ExtendedIs
  <2> QED
    BY <2>2 DEF ExtendsTo
<1>5. /\ IsTurnApproval(e) => e.call = None /\ ~Declares(e)
      /\ IsGlobal(e) => e.call = None /\ ~IsTurnApproval(e) /\ ~Declares(e)
      /\ Declares(e) => e.call # None /\ ~IsGlobal(e) /\ ~IsTurnApproval(e)
  BY <1>1 DEF IsTurnApproval, IsGlobal, Declares, Event
<1>6. DeclaredBy(L, k) = IF Declares(e) THEN D \cup {k} ELSE D
  <2>1. \A m : m \in 1..k <=> m = k \/ m \in 1..(k - 1)
    BY <1>1
  <2> QED
    BY <2>1 DEF DeclaredBy
<1>7. ASSUME NEW m \in D
      PROVE  /\ m \in 1..Len(L) /\ m \in 1..(k - 1) /\ Declares(L[m]) /\ L[m].call # None
             /\ Replay(L, m)[k - 1] \in Call
             /\ Replay(L, m)[k] = IF IsTurnApproval(e) THEN GrantedTogether(L, Replay(L, m)[k - 1], k)
                                  ELSE IF e.call = L[m].call THEN Applied(Replay(L, m)[k - 1], e)
                                  ELSE Replay(L, m)[k - 1]
  <2>1. m \in 1..Len(L) /\ m \in 1..(k - 1) /\ Declares(L[m]) /\ k > m
    BY <1>1, <1>7 DEF DeclaredBy
  <2>2. L[m].call # None
    BY <2>1 DEF Declares
  <2>3. Replay(L, m)[k - 1] \in Call
    BY <1>1, <2>1, ReplaySteps
  <2>4. Replay(L, m)[k] =
          IF IsTurnApproval(L[k]) THEN GrantedTogether(L, Replay(L, m)[k - 1], k)
          ELSE IF L[k].call = L[m].call /\ k > m THEN Applied(Replay(L, m)[k - 1], L[k])
          ELSE Replay(L, m)[k - 1]
    BY <1>1, <2>1, ReplaySteps
  <2> QED
    BY <2>1, <2>2, <2>3, <2>4
<1>8. x.global = GlobalAt(L, k)
  <2>1. GlobalAt(L, k) = IF IsGlobal(e) THEN e.arg = "global" ELSE GlobalAt(L, k - 1)
    BY <1>1, GlobalSteps
  <2> HIDE DEF e, x, acc
  <2> QED
    BY <1>3, <1>4, <2>1
<1>9. x.turn = TurnAt(L, k)
  <2>1. TurnAt(L, k) = IF IsTurnApproval(e) THEN TRUE ELSE IF e.type = "user" THEN FALSE ELSE TurnAt(L, k - 1)
    BY <1>1, TurnSteps
  <2> HIDE DEF e, x, acc
  <2> QED
    BY <1>3, <1>4, <2>1
<1> HIDE DEF x, acc, e, D
<1>10. /\ DOMAIN x.calls = {L[m].call : m \in DeclaredBy(L, k)}
       /\ \A m \in DeclaredBy(L, k) :
            x.calls[L[m].call] = Shown(Replay(L, m)[k], gone, GlobalAt(L, m))
  <2>1. CASE IsTurnApproval(e)
    <3>1. DeclaredBy(L, k) = D /\ x.calls = [c \in DOMAIN acc.calls |-> GrantedTogether(L, acc.calls[c], k)]
      BY <1>4, <1>5, <1>6, <2>1
    <3>2. ASSUME NEW m \in D
          PROVE  x.calls[L[m].call] = Shown(Replay(L, m)[k], gone, GlobalAt(L, m))
      <4>1. x.calls[L[m].call]
              = GrantedTogether(L, Shown(Replay(L, m)[k - 1], gone, GlobalAt(L, m)), k)
        BY <1>3, <3>1
      <4>2. Replay(L, m)[k] = GrantedTogether(L, Replay(L, m)[k - 1], k)
        BY <1>7, <2>1
      <4>3. Replay(L, m)[k - 1] \in Call
        BY <1>7
      <4> QED
        BY <4>1, <4>2, <4>3, ShownGranted
    <3> QED
      BY <1>3, <3>1, <3>2
  <2>2. CASE Declares(e)
    <3> DEFINE t == Declared(k, e)
               new == IF acc.global \/ (e.type # "user" /\ acc.turn)
                      THEN [t EXCEPT !.approval = "granted"] ELSE t
    <3>1. /\ DeclaredBy(L, k) = D \cup {k}
          /\ x.calls = [c \in {e.call} \cup DOMAIN acc.calls |-> IF c = e.call THEN new ELSE acc.calls[c]]
      BY <1>4, <1>5, <1>6, <2>2
    <3> HIDE DEF new
    <3>2. \A m \in D : L[m].call # e.call
      BY <1>1, <1>7, <2>2, UncontinuedIs DEF e
    <3>3. ASSUME NEW m \in D
          PROVE  x.calls[L[m].call] = Shown(Replay(L, m)[k], gone, GlobalAt(L, m))
      <4>1. x.calls[L[m].call] = acc.calls[L[m].call]
        BY <1>3, <3>1, <3>2
      <4>2. Replay(L, m)[k] = Replay(L, m)[k - 1]
        BY <1>5, <1>7, <2>2, <3>2
      <4> QED
        BY <1>3, <4>1, <4>2
    <3>4. new = Shown(Replay(L, k)[k], gone, GlobalAt(L, k))
      <4> DEFINE g == [t EXCEPT !.approval = "granted"]
                 p == Replay(L, k)[k]
                 w == Shown(p, gone, GlobalAt(L, k))
      <4>1. p = IF t.approval = "none" /\ TurnAt(L, k) THEN g ELSE t
        BY <1>1, <2>2, ReplayDeclared DEF e
      <4>2. TurnAt(L, k) <=> e.type # "user" /\ acc.turn
        <5>1. TurnAt(L, k) = IF IsTurnApproval(e) THEN TRUE
                             ELSE IF e.type = "user" THEN FALSE ELSE TurnAt(L, k - 1)
          BY <1>1, TurnSteps DEF e
        <5> QED
          BY <1>3, <1>5, <2>2, <5>1
      <4>3. GlobalAt(L, k) = acc.global
        <5>1. GlobalAt(L, k) = IF IsGlobal(e) THEN e.arg = "global" ELSE GlobalAt(L, k - 1)
          BY <1>1, GlobalSteps DEF e
        <5> QED
          BY <1>3, <1>5, <2>2, <5>1
      <4>4. t \in Call /\ t.approval = (IF e.type = "user" THEN "granted" ELSE "none")
            /\ t.finished = "none" /\ t.decision = "none" /\ ~t.started
        <5>1. t \in Call
          BY <1>1, <2>2, DeclaredTyped, TypedIs
        <5> QED
          BY <5>1 DEF Declared
      <4> HIDE DEF t
      <4>5. /\ g \in Call /\ g.parent = t.parent /\ g.role = t.role /\ g.started = t.started
            /\ g.owner = t.owner /\ g.decision = t.decision /\ g.published = t.published
            /\ g.approval = "granted" /\ g.finished = t.finished
        BY <4>4 DEF Call
      <4>6. new = IF acc.global \/ (e.type # "user" /\ acc.turn) THEN g ELSE t
        BY DEF new
      <4> HIDE DEF g
      <4>7. p \in Call /\ p.finished = "none" /\ p.decision = "none" /\ ~p.started
        <5> HIDE DEF p
        <5> QED
          BY <4>1, <4>4, <4>5
      <4> HIDE DEF p
      <4>8. /\ w \in Call /\ w.parent = p.parent /\ w.role = p.role /\ w.started = p.started
            /\ w.owner = p.owner /\ w.decision = p.decision /\ w.published = p.published
            /\ w.approval = IF p.approval = "none" /\ GlobalAt(L, k) THEN "granted" ELSE p.approval
            /\ w.finished = p.finished
        BY <4>7, ShownIs
      <4> HIDE DEF w
      <4>9. new \in Call /\ new.approval = w.approval
        <5>1. CASE e.type = "user"
          BY <4>1, <4>3, <4>4, <4>5, <4>6, <4>8, <5>1
        <5>2. CASE e.type # "user"
          BY <4>1, <4>2, <4>3, <4>4, <4>5, <4>6, <4>8, <5>2
        <5> QED
          BY <5>1, <5>2
      <4>10. /\ new.parent = w.parent /\ new.role = w.role /\ new.started = w.started
             /\ new.owner = w.owner /\ new.decision = w.decision /\ new.published = w.published
             /\ new.finished = w.finished
        BY <4>1, <4>5, <4>6, <4>8
      <4>11. new = w
        BY <4>8, <4>9, <4>10, SameCall
      <4> QED
        BY <4>11 DEF w, p
    <3>5. x.calls[L[k].call] = new
      BY <3>1 DEF e
    <3>6. DOMAIN x.calls = {L[m].call : m \in DeclaredBy(L, k)}
      <4>1. DOMAIN x.calls = {L[k].call} \cup {L[m].call : m \in D}
        BY <1>3, <3>1 DEF e
      <4> QED
        BY <3>1, <4>1
    <3> QED
      BY <3>1, <3>3, <3>4, <3>5, <3>6
  <2>3. CASE ~IsTurnApproval(e) /\ ~Declares(e) /\ e.call # None
    <3>1. DeclaredBy(L, k) = D /\ x.calls = [acc.calls EXCEPT ![e.call] = Sealed(Applied(@, e))]
      BY <1>4, <1>6, <2>3
    <3>2. ASSUME NEW m \in D
          PROVE  x.calls[L[m].call] = Shown(Replay(L, m)[k], gone, GlobalAt(L, m))
      <4> DEFINE t == Replay(L, m)[k - 1]
      <4>1. acc.calls[L[m].call] = Shown(t, gone, GlobalAt(L, m)) /\ L[m].call \in DOMAIN acc.calls
        BY <1>3
      <4>2. t \in Call
        BY <1>7
      <4>3. Replay(L, m)[k] = IF e.call = L[m].call THEN Applied(t, e) ELSE t
        BY <1>7, <2>3
      <4>4. e.type = "started" => e.by \notin gone
        <5> SUFFICES ASSUME e.type = "started", e.by \in gone PROVE FALSE
          OBVIOUS
        <5>1. PICK j \in 1..r.upto : L[j].type \in {"close", "interrupt"} /\ L[j].by = e.by
          OBVIOUS
        <5>2. j \in 1..(k - 1)
          BY <1>1
        <5> QED
          BY <1>1, <5>1, <5>2, UncontinuedIs DEF e
      <4>5. e.type = "started" /\ e.call = L[m].call /\ t.started => e.arg = "again"
        <5> SUFFICES ASSUME e.type = "started", e.call = L[m].call, t.started PROVE e.arg = "again"
          OBVIOUS
        <5>1. PICK j \in 1..(k - 1) : L[j].type = "started" /\ L[j].call = L[m].call
          BY <1>1, <1>7, StartedIs
        <5> QED
          BY <1>1, <5>1, UncontinuedIs DEF e
      <4> HIDE DEF t
      <4>6. CASE e.call = L[m].call
        <5>1. x.calls[L[m].call] = Sealed(Applied(Shown(t, gone, GlobalAt(L, m)), e))
          BY <3>1, <4>1, <4>6
        <5>2. e.type = "started" => e.by \notin gone /\ (e.arg = "again" \/ ~t.started)
          BY <4>4, <4>5, <4>6
        <5>3. Sealed(Applied(Shown(t, gone, GlobalAt(L, m)), e)) = Shown(Applied(t, e), gone, GlobalAt(L, m))
          BY <1>1, <2>3, <4>2, <5>2, ShownApplied
        <5> QED
          BY <4>3, <4>6, <5>1, <5>3
      <4>7. CASE e.call # L[m].call
        BY <3>1, <4>1, <4>3, <4>7
      <4> QED
        BY <4>6, <4>7
    <3> QED
      BY <1>3, <3>1, <3>2
  <2>4. CASE ~IsTurnApproval(e) /\ ~Declares(e) /\ e.call = None
    <3>1. DeclaredBy(L, k) = D /\ x.calls = acc.calls
      BY <1>4, <1>6, <2>4
    <3>2. \A m \in D : Replay(L, m)[k] = Replay(L, m)[k - 1]
      BY <1>7, <2>4
    <3> QED
      BY <1>3, <3>1, <3>2
  <2> QED
    BY <2>1, <2>2, <2>3, <2>4
<1> QED
  BY <1>8, <1>9, <1>10 DEF Reached, x

LEMMA ReachesEnd ==
  ASSUME NEW P, NEW L, LogTyped(P), Uncontinued(L), RevokedBetween(L), Grows(P, L)
  PROVE  Reached(L, Rebuild(P), Gone(P, 0), Len(L)) /\ Extending(L, Rebuild(P))[Len(L)] \in Accumulator
<1> DEFINE r == Rebuild(P)
           u == Len(P)
           gone == Gone(P, 0)
           S == {k \in u..Len(L) : Reached(L, r, gone, k)}
<1>1. /\ LogTyped(L) /\ Len(L) \in Nat /\ u \in Nat /\ u \in 0..Len(L)
      /\ \A i \in gone : \E j \in 1..u : L[j].type \in {"close", "interrupt"} /\ L[j].by = i
  BY PrefixIs, GonePrefix DEF Uncontinued
<1>2. /\ r.upto = u /\ r.calls \in CallMaps /\ r.global \in BOOLEAN /\ r.turn \in BOOLEAN
      /\ Reached(L, r, gone, u)
  BY ReachesStart
<1> HIDE DEF r, gone, u
<1>3. u \in S
  BY <1>1, <1>2
<1>4. ASSUME NEW k \in (u + 1)..Len(L), k - 1 \in S PROVE k \in S
  <2>1. Reached(L, r, gone, k - 1)
    BY <1>4
  <2>2. Reached(L, r, gone, k)
    BY <1>1, <1>2, <2>1, ReachesNext
  <2> QED
    BY <1>1, <2>2
<1> HIDE DEF S
<1>5. Len(L) \in u..Len(L)
  BY <1>1
<1>6. Len(L) \in S
  BY <1>1, <1>3, <1>4, <1>5, Climbs
<1>7. Reached(L, r, gone, Len(L))
  BY <1>6 DEF S
<1>8. Extending(L, r)[Len(L)] \in Accumulator
  BY <1>1, <1>2, <1>5, ExtendingSteps DEF Extends
<1> QED
  BY <1>7, <1>8 DEF r, gone

\* To extend the rebuild of a log is to rebuild the extended one, of a thread
\* that nobody has continued and whose global approvals were each revoked
\* before the next (_try_reduce_thread_events_incrementally against
\* _reduce_loaded_thread_events).
THEOREM IncrementRebuilds ==
  ASSUME NEW P, NEW L, LogTyped(P), Uncontinued(L), RevokedBetween(L), Grows(P, L)
  PROVE  Increment(L, Rebuild(P)) = Rebuild(L)
<1> DEFINE r == Rebuild(P)
           n == Len(L)
           u == Len(P)
           acc == Extending(L, r)[n]
           calls == [c \in DOMAIN acc.calls |-> Swept(acc.calls[c], Gone(L, u))]
           after == {m \in r.after \cup {m \in Positions(L, IsMessage) : m > u} : m > Boundary(L)}
           behind == {m \in Positions(L, IsMessage) \ Skipped(L) : m > Boundary(L)}
<1>1. /\ Uncontinued(P) /\ LogTyped(L) /\ n \in Nat /\ u \in Nat /\ u <= n
      /\ DOMAIN P = 1..u /\ DOMAIN L = 1..n
      /\ \A k \in 1..u : k \in 1..n /\ P[k] = L[k]
  BY PrefixIs DEF Uncontinued
<1>2. r.upto = u /\ r.after = {m \in Positions(P, IsMessage) \ Skipped(P) : m > Boundary(P)}
  BY DEF Rebuild
<1>3. /\ acc.global = GlobalAt(L, n) /\ acc.turn = TurnAt(L, n)
      /\ DOMAIN acc.calls = {L[m].call : m \in DeclaredBy(L, n)}
      /\ \A m \in DeclaredBy(L, n) :
           acc.calls[L[m].call] = Shown(Replay(L, m)[n], Gone(P, 0), GlobalAt(L, m))
  BY ReachesEnd DEF Reached
<1>4. acc.turn = TurnOpen(L)
  BY <1>1, <1>3, TurnSteps
<1>5. calls = RebuiltCalls(L)
  <2> HIDE DEF acc
  <2>1. DOMAIN calls = DOMAIN RebuiltCalls(L)
    BY <1>3, RebuiltAt
  <2>2. ASSUME NEW m \in DeclaredBy(L, n) PROVE calls[L[m].call] = RebuiltCalls(L)[L[m].call]
    <3>1. m \in 1..n /\ Declares(L[m]) /\ n \in 0..n
      BY <1>1 DEF DeclaredBy
    <3>2. Replay(L, m)[n] \in Call /\ Replayed(L, m) = Replay(L, m)[n]
      BY <3>1, ReplaySteps
    <3>3. calls[L[m].call] = Swept(Shown(Replay(L, m)[n], Gone(P, 0), GlobalAt(L, m)), Gone(L, u))
      BY <1>3
    <3>4. Swept(Shown(Replay(L, m)[n], Gone(P, 0), GlobalAt(L, m)), Gone(L, u))
            = Shown(Replay(L, m)[n], Gone(P, 0) \cup Gone(L, u), GlobalAt(L, m))
      BY <3>2, ShownSwept
    <3>5. Gone(L, 0) = Gone(P, 0) \cup Gone(L, u)
      BY GonePrefix
    <3>6. RebuiltCalls(L)[L[m].call] = Rebuilt(L, m)
      BY RebuiltAt
    <3> QED
      BY <3>2, <3>3, <3>4, <3>5, <3>6, RebuiltIsShown
  <2>3. \A c \in DOMAIN calls : calls[c] = RebuiltCalls(L)[c]
    BY <1>3, <2>2
  <2>4. RebuiltCalls(L) = [c \in DOMAIN RebuiltCalls(L) |-> RebuiltCalls(L)[c]]
    <3>1. RebuiltCalls(L) \in [DOMAIN RebuiltCalls(L) -> Call]
      BY <1>1, CallsAre
    <3> QED
      BY <3>1
  <2>5. calls = [c \in DOMAIN calls |-> calls[c]]
    OBVIOUS
  <2> HIDE DEF calls
  <2> QED
    BY <2>1, <2>3, <2>4, <2>5
<1>6. after = behind
  <2>1. Skipped(L) = {} /\ Skipped(P) = {}
    BY <1>1, NothingStruck
  <2>2. /\ Positions(L, IsMessage) = {m \in 1..n : IsMessage(L[m])}
        /\ Positions(P, IsMessage) = {m \in 1..u : IsMessage(P[m])}
    BY <1>1, PositionsAre
  <2>3. Boundary(P) <= Boundary(L) /\ Boundary(P) \in Int /\ Boundary(L) \in Int
    BY <1>1, ExtendsBoundary, BoundaryTyped DEF Uncontinued
  <2> HIDE DEF r
  <2>4. ASSUME NEW m \in after PROVE m \in behind
    BY <1>1, <1>2, <2>1, <2>2
  <2>5. ASSUME NEW m \in behind PROVE m \in after
    <3>1. m \in 1..n /\ IsMessage(L[m]) /\ m > Boundary(L)
      BY <2>1, <2>2
    <3>2. CASE m > u
      BY <2>2, <3>1, <3>2
    <3>3. CASE ~(m > u)
      <4>1. m \in 1..u /\ P[m] = L[m] /\ m > Boundary(P)
        BY <1>1, <2>3, <3>1, <3>3
      <4>2. m \in r.after
        BY <1>2, <2>1, <2>2, <3>1, <4>1
      <4> QED
        BY <3>1, <4>2
    <3> QED
      BY <3>2, <3>3
  <2> HIDE DEF after, behind
  <2> QED
    BY <2>4, <2>5
<1>7. ExtendedBoundary(L, r) = Boundary(L)
  BY ExtendsBoundary
<1>8. Increment(L, r) =
        [upto |-> n, calls |-> calls, llm |-> LLM(L), boundary |-> Boundary(L),
         stream |-> Latest(TurnEnds(L)), assistant |-> Latest(Assistants(L)),
         global |-> acc.global, turn |-> acc.turn,
         after |-> after, next |-> NextWork(L, calls, after)]
  <2> HIDE DEF r
  <2> QED
    BY <1>2, <1>7 DEF Increment, Extending
<1>9. Rebuild(L) =
        [upto |-> n, calls |-> RebuiltCalls(L), llm |-> LLM(L), boundary |-> Boundary(L),
         stream |-> Latest(TurnEnds(L)), assistant |-> Latest(Assistants(L)),
         global |-> GlobalAt(L, n), turn |-> TurnOpen(L),
         after |-> behind, next |-> NextWork(L, RebuiltCalls(L), behind)]
  BY DEF Rebuild
<1> HIDE DEF r, acc, calls, after, behind
<1> QED
  BY <1>3, <1>4, <1>5, <1>6, <1>8, <1>9 DEF r

-----------------------------------------------------------------------------
(* The log stays well-formed, the lease is of an invocation whose stream    *)
(* has not ended, and an invocation writes nothing before it opens a stream.*)

\* May e follow the events of L?
Fits(L, e) ==
  \A j \in DOMAIN L :
    /\ Declares(e) => L[j].call # e.call
    /\ e.type = "open" => L[j].by # e.by
    /\ L[j].type \in {"close", "interrupt"} /\ e.type = "started" => L[j].by # e.by
    /\ L[j].type = "started" /\ e.type = "started" /\ L[j].call = e.call /\ e.arg # "again"
         => Continues(L) # {}

LeaseHolds ==
  lease # NoLease =>
    /\ lease.by \in Invocations
    /\ \A k \in DOMAIN log : log[k].type \in {"close", "interrupt"} => log[k].by # lease.by

Unwritten(i) == \A k \in DOMAIN log : log[k].by # i

PlansFresh ==
  \A i \in Invocations :
    /\ plan[i].pc = "planned" => lease.by # i /\ Unwritten(i)
    /\ plan[i].pc = "leased" /\ lease.by = i => Unwritten(i)

Shaped == Typed /\ WellFormed(log) /\ LeaseHolds /\ PlansFresh

LEMMA GrowsUncontinued ==
  ASSUME NEW L, NEW M, LogTyped(L), LogTyped(M), Grows(L, M), Continues(M) = {}
  PROVE  Continues(L) = {}
<1>1. Len(L) \in Nat /\ DOMAIN L = 1..Len(L) /\ DOMAIN M = 1..Len(M) /\ Len(M) \in Nat
  BY TypedIs
<1>2. \A k \in 1..Len(L) : k \in 1..Len(M) /\ M[k] = L[k]
  BY <1>1 DEF Grows
<1> SUFFICES ASSUME NEW k \in Continues(L) PROVE FALSE
  OBVIOUS
<1>3. k \in 1..Len(L) /\ L[k].type = "continue"
  BY <1>1, PositionsAre
<1>4. k \in DOMAIN M /\ M[k].type = "continue"
  BY <1>1, <1>2, <1>3
<1>5. k \in Continues(M)
  BY <1>4, PositionsAre
<1> QED
  BY <1>5

LEMMA StaysFormed ==
  ASSUME NEW L, NEW M, LogTyped(L), LogTyped(M), Grows(L, M), WellFormed(L),
         Len(M) = Len(L) + 1, Fits(L, M[Len(M)])
  PROVE  WellFormed(M)
<1>1. Len(L) \in Nat /\ Len(M) \in Nat /\ DOMAIN L = 1..Len(L) /\ DOMAIN M = 1..Len(M)
  BY TypedIs
<1>2. \A k \in 1..Len(L) : k \in 1..Len(M) /\ M[k] = L[k]
  BY <1>1 DEF Grows
<1>3. Continues(L) # {} => Continues(M) # {}
  BY GrowsUncontinued
<1> SUFFICES ASSUME NEW j \in DOMAIN M, NEW k \in DOMAIN M, j < k
             PROVE  /\ Declares(M[k]) => M[j].call # M[k].call
                    /\ M[k].type = "open" => M[j].by # M[k].by
                    /\ M[j].type \in {"close", "interrupt"} /\ M[k].type = "started"
                         => M[j].by # M[k].by
                    /\ /\ M[j].type = "started" /\ M[k].type = "started"
                       /\ M[j].call = M[k].call /\ M[k].arg # "again"
                       => Continues(M) # {}
  BY DEF WellFormed
<1>4. j \in DOMAIN L /\ M[j] = L[j]
  BY <1>1, <1>2
<1>5. CASE k \in DOMAIN L
  <2>1. M[k] = L[k]
    BY <1>1, <1>2, <1>5
  <2> QED
    BY <1>3, <1>4, <1>5, <2>1 DEF WellFormed
<1>6. CASE k \notin DOMAIN L
  <2>1. k = Len(M)
    BY <1>1, <1>6
  <2> QED
    BY <1>3, <1>4, <2>1 DEF Fits
<1> QED
  BY <1>5, <1>6

\* What an event does to the log.
LEMMA LogGrows ==
  ASSUME Typed, Typed', NEW e, Write(e)
  PROVE  /\ DOMAIN log = 1..Len(log) /\ DOMAIN log' = 1..Len(log')
         /\ Len(log) \in Nat /\ Len(log') = Len(log) + 1 /\ log'[Len(log')] = e
         /\ \A k \in DOMAIN log' : k = Len(log') \/ (k \in DOMAIN log /\ log'[k] = log[k])
         /\ Grows(log, log')
<1>1. LogTyped(log) /\ LogTyped(log') /\ IsLog(log)
  BY DEF Typed, LogTyped, IsLog
<1>2. Len(log) \in Nat /\ DOMAIN log = 1..Len(log) /\ DOMAIN log' = 1..Len(log')
  BY <1>1, TypedIs
<1>3. Grows(log, log') /\ Len(log') = Len(log) + 1 /\ log'[Len(log')] = e
  BY <1>1, WritesAll
<1>4. \A k \in 1..Len(log') : k = Len(log') \/ (k \in 1..Len(log) /\ log'[k] = log[k])
  BY <1>2, <1>3 DEF Grows
<1> QED
  BY <1>2, <1>3, <1>4

LEMMA WritesWellFormed ==
  ASSUME Shaped, Typed', NEW e, Write(e), Fits(log, e)
  PROVE  WellFormed(log')
<1>1. Grows(log, log') /\ Len(log') = Len(log) + 1 /\ log'[Len(log')] = e
  BY LogGrows DEF Shaped
<1> QED
  BY <1>1, StaysFormed DEF Shaped, Typed

\* An event of the user, or of the invocation whose stream is open, and the
\* lease given up or kept.
LEMMA WritesFormed ==
  ASSUME Shaped, Typed', NEW e, Add(e), Fits(log, e),
         \/ lease' = NoLease
         \/ lease' = lease /\ e.type \notin {"close", "interrupt"},
         e.by = None \/ (e.by = lease.by /\ (lease' = NoLease \/ Streaming))
  PROVE  Shaped'
<1>1. Write(e) /\ plan' = plan
  BY DEF Add
<1>2. WellFormed(log')
  BY <1>1, WritesWellFormed
<1>3. /\ Len(log') \in DOMAIN log' /\ log'[Len(log')] = e
      /\ \A k \in DOMAIN log' : k = Len(log') \/ (k \in DOMAIN log /\ log'[k] = log[k])
  BY <1>1, LogGrows DEF Shaped
<1>4. LeaseHolds'
  <2>1. CASE lease' = NoLease
    BY <2>1 DEF LeaseHolds, NoLease
  <2>2. CASE lease' = lease /\ e.type \notin {"close", "interrupt"} /\ lease' # NoLease
    <3>1. /\ lease.by \in Invocations
          /\ \A k \in DOMAIN log : log[k].type \in {"close", "interrupt"} => log[k].by # lease.by
      BY <2>2 DEF Shaped, LeaseHolds, NoLease
    <3>2. \A k \in DOMAIN log' : log'[k].type \in {"close", "interrupt"} => log'[k].by # lease.by
      BY <1>3, <2>2, <3>1
    <3> QED
      BY <2>2, <3>1, <3>2 DEF LeaseHolds
  <2> QED
    BY <2>1, <2>2
<1>5. PlansFresh'
  <2> SUFFICES ASSUME NEW i \in Invocations
               PROVE  /\ plan[i].pc = "planned" => lease'.by # i /\ Unwritten(i)'
                      /\ plan[i].pc = "leased" /\ lease'.by = i => Unwritten(i)'
    BY <1>1 DEF PlansFresh
  <2>1. i # None /\ NoLease.by = None
    BY ReducerAssumption DEF NoLease
  <2>2. lease'.by # None => lease'.by = lease.by /\ lease' # NoLease
    BY <2>1
  <2>3. ASSUME Unwritten(i), lease.by # i \/ (lease.by = i /\ lease' # NoLease)
        PROVE  Unwritten(i)'
    <3>1. e.by # i
      <4> SUFFICES ASSUME e.by = i PROVE FALSE
        OBVIOUS
      <4>1. lease.by = i /\ Streaming
        BY <2>1, <2>3
      <4> QED
        BY <2>3, <4>1 DEF Streaming, Streams, Positions, Unwritten
    <3> QED
      BY <1>3, <2>3, <3>1 DEF Unwritten
  <2>4. CASE plan[i].pc = "planned"
    <3>1. lease.by # i /\ Unwritten(i)
      BY <2>4 DEF Shaped, PlansFresh
    <3> QED
      BY <2>1, <2>2, <2>3, <2>4, <3>1
  <2>5. CASE plan[i].pc = "leased" /\ lease'.by = i
    <3>1. lease.by = i /\ lease' # NoLease
      BY <2>1, <2>2, <2>5
    <3>2. Unwritten(i)
      BY <2>5, <3>1 DEF Shaped, PlansFresh
    <3> QED
      BY <2>3, <2>5, <3>1, <3>2
  <2> QED
    BY <2>4, <2>5
<1> QED
  BY <1>2, <1>4, <1>5 DEF Shaped

\* Most events may follow any.
LEMMA PlainFits ==
  ASSUME NEW L, NEW e, e.type \notin {"user", "assistant", "open", "started"}
  PROVE  Fits(L, e)
BY DEF Fits, Declares

LEMMA MessageFits ==
  ASSUME NEW c, c = None \/ Unused(c), NEW e, e.type \in {"user", "assistant"}, e.call = c
  PROVE  Fits(log, e)
BY DEF Fits, Declares, Unused

LEMMA EvIs ==
  ASSUME NEW type, NEW call, NEW by, NEW arg, NEW at
  PROVE  LET e == Ev(type, call, by, arg, at)
         IN  e.type = type /\ e.call = call /\ e.by = by /\ e.arg = arg
BY DEF Ev

\* A call that can be started was not, unless the thread was continued.
LEMMA NotStarted ==
  ASSUME Shaped, NEW c, CallState(c) = "TC2.1", Continues(log) = {}
  PROVE  \A j \in DOMAIN log : log[j].type = "started" => log[j].call # c
<1>1. Uncontinued(log) /\ LogTyped(log) /\ DOMAIN log = 1..Len(log) /\ Len(log) \in Nat
  BY TypedIs DEF Shaped, Typed, Uncontinued
<1>2. thread.calls = RebuiltCalls(log)
  BY DEF Shaped, Typed, Read, Rebuild
<1>3. c \in DOMAIN thread.calls /\ State(thread.calls[c]) = "TC2.1" /\ thread.calls[c] \in Call
  BY NamedIs DEF Shaped
<1>4. ~thread.calls[c].started
  BY <1>3 DEF State, Call
<1>5. PICK m \in DeclaredBy(log, Len(log)) : c = log[m].call
  <2>1. DOMAIN RebuiltCalls(log) = {log[m].call : m \in DeclaredBy(log, Len(log))}
    BY <1>1, RebuiltAt
  <2> QED
    BY <1>2, <1>3, <2>1
<1>6. m \in 1..Len(log) /\ Declares(log[m]) /\ Len(log) \in 0..Len(log)
  BY <1>1 DEF DeclaredBy
<1>7. thread.calls[c] = Rebuilt(log, m)
  BY <1>1, <1>2, <1>5, RebuiltAt
<1>8. Replayed(log, m) = Replay(log, m)[Len(log)] /\ Replay(log, m)[Len(log)] \in Call
  BY <1>1, <1>6, ReplaySteps
<1>9. Rebuilt(log, m).started = Replay(log, m)[Len(log)].started
  BY <1>8, RebuiltIsShown, ShownIs
<1>10. ~\E j \in 1..Len(log) : j > m /\ log[j].type = "started" /\ log[j].call = log[m].call
  BY <1>1, <1>4, <1>6, <1>7, <1>9, StartedIs
<1> SUFFICES ASSUME NEW j \in DOMAIN log, log[j].type = "started", log[j].call = c PROVE FALSE
  OBVIOUS
<1>11. ~(j > m)
  BY <1>1, <1>5, <1>10
<1>12. j # m
  BY <1>6 DEF Declares
<1>13. j \in 1..(m - 1)
  BY <1>1, <1>6, <1>11, <1>12
<1> QED
  BY <1>1, <1>5, <1>6, <1>13, UncontinuedIs

\* The events of the user.
LEMMA UserFormed ==
  ASSUME Shaped, UserStep, Typed'
  PROVE  Shaped'
<1>1. ASSUME NEW c \in Calls \cup {None}, UserSays(c) PROVE Shaped'
  <2> DEFINE e == Ev("user", c, None, "", 0)
  <2>1. /\ e.type = "user" /\ e.call = c /\ e.by = None /\ Add(e) /\ lease' = lease
        /\ c = None \/ Unused(c)
    BY <1>1 DEF UserSays, Ev
  <2> HIDE DEF e
  <2>2. Fits(log, e)
    BY <2>1, MessageFits
  <2> QED
    BY <2>1, <2>2, WritesFormed
<1>2. ASSUME NEW c \in Calls, NEW d \in {"granted", "denied"}, Approve(c, d) PROVE Shaped'
  BY <1>2, PlainFits, WritesFormed, EvIs DEF Approve
<1>3. ASSUME NEW c \in Calls, NEW by \in {"user", "cancel"}, Decide(c, by) PROVE Shaped'
  BY <1>3, PlainFits, WritesFormed, EvIs DEF Decide
<1>4. ASSUME ApproveTurn PROVE Shaped'
  BY <1>4, PlainFits, WritesFormed, EvIs DEF ApproveTurn
<1>5. ASSUME NEW arg, SetGlobal(arg) PROVE Shaped'
  BY <1>5, PlainFits, WritesFormed, EvIs DEF SetGlobal
<1>6. ASSUME InterruptStream PROVE Shaped'
  BY <1>6, PlainFits, WritesFormed, EvIs DEF InterruptStream, Interrupted
<1>7. ASSUME InterruptPending PROVE Shaped'
  BY <1>7, PlainFits, WritesFormed, EvIs DEF InterruptPending
<1>8. ASSUME NEW m, Continue(m) PROVE Shaped'
  <2> DEFINE e == Ev("continue", None, None, "", m)
  <2>1. e.type = "continue" /\ e.by = None /\ Add(e) /\ lease' = lease
    BY <1>8 DEF Continue, Ev
  <2> HIDE DEF e
  <2> QED
    BY <2>1, PlainFits, WritesFormed
<1> QED
  BY <1>1, <1>2, <1>3, <1>4, <1>5, <1>6, <1>7, <1>8 DEF UserStep

\* The stream of a live lease has not ended.
LEMMA LiveLease ==
  ASSUME Shaped, lease.live
  PROVE  \A j \in DOMAIN log : log[j].type \in {"close", "interrupt"} => log[j].by # lease.by
<1>1. lease # NoLease
  <2>1. NoLease.live = FALSE
    BY DEF NoLease
  <2> QED
    BY <2>1
<1> QED
  BY <1>1 DEF Shaped, LeaseHolds

\* The lease of an invocation that has written nothing.
LEMMA LeasedFormed ==
  ASSUME Shaped, NEW i \in Invocations, plan[i].pc = "planned", Leased(i),
         \A j \in Invocations : plan[j].pc = "planned" => Unwritten(j)'
  PROVE  LeaseHolds' /\ PlansFresh'
<1>1. /\ lease'.by = i
      /\ plan'[i].pc = "leased" /\ \A j \in Invocations : j # i => plan'[j] = plan[j]
  BY DEF Leased, Proceeds, Shaped, Typed, PlanTyped
<1>2. LeaseHolds'
  BY <1>1 DEF LeaseHolds, Unwritten
<1>3. PlansFresh'
  <2> SUFFICES ASSUME NEW j \in Invocations
               PROVE  /\ plan'[j].pc = "planned" => lease'.by # j /\ Unwritten(j)'
                      /\ plan'[j].pc = "leased" /\ lease'.by = j => Unwritten(j)'
    BY DEF PlansFresh
  <2> QED
    BY <1>1
<1> QED
  BY <1>2, <1>3

LEMMA OpenFormed ==
  ASSUME Shaped, NEW i \in Invocations,
         Look(i) \/ Acquire(i) \/ TakeOver(i) \/ OpenStream(i) \/ GiveUp(i), Typed'
  PROVE  Shaped'
<1>0. /\ plan \in [Invocations -> [pc : {"idle", "planned", "leased"}, work : Work]]
      /\ \A pc, work : Proceeds(i, pc, work) =>
           plan'[i].pc = pc /\ \A j \in Invocations : j # i => plan'[j] = plan[j]
  BY DEF Shaped, Typed, PlanTyped, Proceeds
<1>1. CASE Look(i)
  <2>1. /\ plan'[i].pc = "planned" /\ \A j \in Invocations : j # i => plan'[j] = plan[j]
        /\ UNCHANGED <<log, lease>> /\ Fresh(i)
    BY <1>0, <1>1 DEF Look
  <2>2. LeaseHolds'
    BY <2>1 DEF Shaped, LeaseHolds
  <2>3. PlansFresh'
    BY <2>1 DEF Shaped, PlansFresh, Unwritten, Fresh
  <2> QED
    BY <2>1, <2>2, <2>3 DEF Shaped
<1>2. CASE Acquire(i)
  <2>1. plan[i].pc = "planned" /\ Leased(i) /\ log' = log
    BY <1>2 DEF Acquire
  <2>2. \A j \in Invocations : plan[j].pc = "planned" => Unwritten(j)'
    BY <2>1 DEF Shaped, PlansFresh, Unwritten
  <2> QED
    BY <2>1, <2>2, LeasedFormed DEF Shaped
<1>3. CASE TakeOver(i)
  <2> DEFINE e == Interrupted
  <2>1. /\ plan[i].pc = "planned" /\ Leased(i) /\ Write(e)
        /\ e.type = "interrupt" /\ e.by = lease.by
    BY <1>3, EvIs DEF TakeOver, Interrupted
  <2> HIDE DEF e
  <2>2. WellFormed(log')
    BY <2>1, PlainFits, WritesWellFormed
  <2>3. /\ log'[Len(log')] = e
        /\ \A k \in DOMAIN log' : k = Len(log') \/ (k \in DOMAIN log /\ log'[k] = log[k])
    BY <2>1, LogGrows DEF Shaped
  <2>4. \A j \in Invocations : plan[j].pc = "planned" => Unwritten(j)'
    BY <2>1, <2>3 DEF Shaped, PlansFresh, Unwritten
  <2> QED
    BY <2>1, <2>2, <2>4, LeasedFormed DEF Shaped
<1>4. CASE OpenStream(i)
  <2> DEFINE e == Opened(i)
  <2>1. /\ plan[i].pc = "leased" /\ lease.by = i /\ Write(e) /\ lease' = lease
        /\ plan'[i].pc = "idle" /\ \A j \in Invocations : j # i => plan'[j] = plan[j]
        /\ e.type = "open" /\ e.by = i
    BY <1>0, <1>4, EvIs DEF OpenStream, Opened
  <2> HIDE DEF e
  <2>2. Unwritten(i)
    BY <2>1 DEF Shaped, PlansFresh
  <2>3. WellFormed(log')
    <3>1. Fits(log, e)
      BY <2>1, <2>2 DEF Fits, Unwritten, Declares
    <3> QED
      BY <2>1, <3>1, WritesWellFormed
  <2>4. /\ log'[Len(log')] = e
        /\ \A k \in DOMAIN log' : k = Len(log') \/ (k \in DOMAIN log /\ log'[k] = log[k])
    BY <2>1, LogGrows DEF Shaped
  <2>5. LeaseHolds'
    BY <2>1, <2>2, <2>4 DEF LeaseHolds, Unwritten
  <2>6. PlansFresh'
    BY <2>1, <2>4 DEF Shaped, PlansFresh, Unwritten
  <2> QED
    BY <2>3, <2>5, <2>6 DEF Shaped
<1>5. CASE GiveUp(i)
  <2>1. /\ plan'[i].pc = "idle" /\ \A j \in Invocations : j # i => plan'[j] = plan[j]
        /\ UNCHANGED <<log, lease>>
    BY <1>0, <1>5 DEF GiveUp
  <2>2. LeaseHolds'
    BY <2>1 DEF Shaped, LeaseHolds
  <2>3. PlansFresh'
    BY <2>1 DEF Shaped, PlansFresh, Unwritten
  <2> QED
    BY <2>1, <2>2, <2>3 DEF Shaped
<1> QED
  BY <1>1, <1>2, <1>3, <1>4, <1>5

LEMMA RunnerFormed ==
  ASSUME Shaped, RunnerStep, Typed'
  PROVE  Shaped'
<1>1. ASSUME NEW i \in Invocations,
             Look(i) \/ Acquire(i) \/ TakeOver(i) \/ OpenStream(i) \/ GiveUp(i)
      PROVE  Shaped'
  BY <1>1, OpenFormed
<1>2. ASSUME Expire PROVE Shaped'
  <2>1. log' = log /\ plan' = plan /\ lease # NoLease /\ lease'.by = lease.by
    <3>1. lease # NoLease
      <4>1. lease.live /\ NoLease.live = FALSE
        BY <1>2 DEF Expire, NoLease
      <4> QED
        BY <4>1
    <3>2. LeaseTyped
      BY DEF Shaped, Typed
    <3> QED
      BY <1>2, <3>1, <3>2 DEF Expire, LeaseTyped
  <2>2. LeaseHolds' /\ PlansFresh'
    BY <2>1 DEF Shaped, LeaseHolds, PlansFresh, Unwritten
  <2> QED
    BY <2>1, <2>2 DEF Shaped
<1>3. ASSUME Sweep PROVE Shaped'
  <2>1. log' = log /\ plan' = plan /\ lease' = NoLease /\ NoLease.by = None /\ None \notin Invocations
    BY <1>3, ReducerAssumption DEF Sweep, NoLease
  <2>2. LeaseHolds' /\ PlansFresh'
    BY <2>1 DEF Shaped, LeaseHolds, PlansFresh, Unwritten
  <2> QED
    BY <2>1, <2>2 DEF Shaped
<1>4. ASSUME Close PROVE Shaped'
  <2> DEFINE e == Ev("close", None, lease.by, "", 0)
  <2>1. e.type = "close" /\ e.by = lease.by /\ Add(e) /\ lease' = NoLease
    BY <1>4 DEF Close, Owned, Ev
  <2> HIDE DEF e
  <2> QED
    BY <2>1, PlainFits, WritesFormed
<1>5. ASSUME NEW c \in Calls \cup {None}, AssistantSays(c) PROVE Shaped'
  <2> DEFINE e == Ev("assistant", c, lease.by, "", 0)
  <2>1. /\ e.type = "assistant" /\ e.call = c /\ e.by = lease.by /\ Add(e) /\ lease' = lease
        /\ Streaming
        /\ c = None \/ Unused(c)
    BY <1>5 DEF AssistantSays, Owned, Ev
  <2> HIDE DEF e
  <2>2. Fits(log, e)
    BY <2>1, MessageFits
  <2> QED
    BY <2>1, <2>2, WritesFormed
<1>6. ASSUME NEW c \in Calls, Start(c) PROVE Shaped'
  <2> DEFINE e == Ev("started", c, lease.by, "", 0)
  <2>1. /\ e.type = "started" /\ e.call = c /\ e.by = lease.by /\ Add(e) /\ lease' = lease
        /\ lease.live /\ Streaming /\ CallState(c) = "TC2.1"
    BY <1>6 DEF Start, Owned, Streaming, Ev
  <2> HIDE DEF e
  <2>2. Fits(log, e)
    BY <2>1, LiveLease, NotStarted DEF Fits, Declares
  <2> QED
    BY <2>1, <2>2, WritesFormed
<1>7. ASSUME NEW c \in Calls, Resume(c) PROVE Shaped'
  <2> DEFINE e == Ev("started", c, lease.by, "again", 0)
  <2>1. /\ e.type = "started" /\ e.arg = "again" /\ e.by = lease.by /\ Add(e) /\ lease' = lease
        /\ lease.live /\ Streaming
    BY <1>7 DEF Resume, Owned, Streaming, Ev
  <2> HIDE DEF e
  <2>2. Fits(log, e)
    BY <2>1, LiveLease DEF Fits, Declares
  <2> QED
    BY <2>1, <2>2, WritesFormed
<1>8. ASSUME NEW c \in Calls, Finish(c) PROVE Shaped'
  BY <1>8, PlainFits, WritesFormed, EvIs DEF Finish, Owned
<1>9. ASSUME NEW c \in Calls, DecideAutomatically(c) PROVE Shaped'
  BY <1>9, PlainFits, WritesFormed, EvIs DEF DecideAutomatically, Owned
<1>10. ASSUME NEW c \in Calls, Publish(c) PROVE Shaped'
  BY <1>10, PlainFits, WritesFormed, EvIs DEF Publish
<1> QED
  BY <1>1, <1>2, <1>3, <1>4, <1>5, <1>6, <1>7, <1>8, <1>9, <1>10 DEF RunnerStep

\* In every state the log is well-formed (calls are declared before they are
\* named, invocations are new and start nothing once they are gone, no call is
\* started twice for the first time), the lease is of a stream that has not
\* ended, and an invocation writes nothing before it opens its stream.
THEOREM ReducerShaped == Spec => []Shaped
<1>1. Init /\ Typed => Shaped
  BY HistoriesAssumption DEF Init, LeaseHolds, Shaped, PlansFresh, Idle
<1>2. Shaped /\ [Next]_vars /\ Typed' => Shaped'
  <2> SUFFICES ASSUME Shaped, [Next]_vars, Typed' PROVE Shaped'
    OBVIOUS
  <2>1. CASE UserStep
    BY <2>1, UserFormed
  <2>2. CASE RunnerStep
    BY <2>2, RunnerFormed
  <2>3. CASE Reduce \/ Forget \/ UNCHANGED vars
    BY <2>3 DEF Reduce, Forget, vars, Shaped, LeaseHolds, PlansFresh, Unwritten
  <2> QED
    BY <2>1, <2>2, <2>3 DEF Next
<1> QED
  BY <1>1, <1>2, ReducerTyped, PTL DEF Spec

-----------------------------------------------------------------------------
(* The cache. *)

\* What a process has cached is what a prefix of the log rebuilds to.
CacheRead ==
  cache # NoCache /\ Continues(log) = {} /\ RevokedBetween(log) =>
    \E P : LogTyped(P) /\ Grows(P, log) /\ cache = Rebuild(P)

\* The log is kept by every step, and the cache by every step that writes.
LEMMA StepsGrow ==
  ASSUME Typed, UserStep \/ RunnerStep
  PROVE  cache' = cache /\ Grows(log, log')
<1>1. \/ \E e : Write(e)
      \/ log' = log /\ cache' = cache
  <2>1. CASE UserStep
    BY <2>1 DEF UserStep, UserSays, Approve, Decide, ApproveTurn, SetGlobal, InterruptStream,
       InterruptPending, Continue, Add
  <2>2. CASE RunnerStep
    BY <2>2 DEF RunnerStep, Look, Acquire, TakeOver, OpenStream, GiveUp, Expire, Sweep, Close,
       AssistantSays, Start, Resume, Finish, DecideAutomatically, Publish, Owned, Add
  <2> QED
    BY <2>1, <2>2
<1>2. IsLog(log) /\ Len(log) \in Nat
  BY TypedIs DEF Typed
<1>3. ASSUME NEW e, Write(e) PROVE cache' = cache /\ Grows(log, log')
  BY <1>2, <1>3, WritesOne DEF Write
<1>4. log' = log /\ cache' = cache => Grows(log, log')
  BY <1>2 DEF Grows
<1> QED
  BY <1>1, <1>3, <1>4

LEMMA WritesRead ==
  ASSUME Typed, Typed', CacheRead, UserStep \/ RunnerStep
  PROVE  CacheRead'
<1>1. cache' = cache /\ Grows(log, log') /\ LogTyped(log) /\ LogTyped(log')
  BY StepsGrow DEF Typed
<1> SUFFICES ASSUME cache' # NoCache, Continues(log') = {}, RevokedBetween(log')
             PROVE  \E P : LogTyped(P) /\ Grows(P, log') /\ cache' = Rebuild(P)
  BY DEF CacheRead
<1>2. Continues(log) = {} /\ RevokedBetween(log)
  <2>1. Continues(log') = {} /\ RevokedBetween(log')
    OBVIOUS
  <2> QED
    BY <1>1, <2>1, GrowsUncontinued, RevokedPrefix
<1>3. PICK P : LogTyped(P) /\ Grows(P, log) /\ cache = Rebuild(P)
  BY <1>1, <1>2 DEF CacheRead
<1>4. Grows(P, log')
  BY <1>1, <1>3, GrowsAgain DEF LogTyped, IsLog
<1> QED
  BY <1>1, <1>3, <1>4

LEMMA ReducesRead ==
  ASSUME Shaped, CacheRead, Reduce
  PROVE  CacheRead'
<1>1. LogTyped(log) /\ Grows(log, log) /\ thread = Rebuild(log) /\ log' = log
  BY TypedIs DEF Shaped, Typed, Read, Reduce, Grows
<1> SUFFICES ASSUME Continues(log) = {}, RevokedBetween(log) PROVE cache' = Rebuild(log)
  BY <1>1 DEF CacheRead
<1>2. Uncontinued(log)
  BY DEF Uncontinued, Shaped, Typed
<1>3. CASE cache # NoCache
  <2>1. PICK P : LogTyped(P) /\ Grows(P, log) /\ cache = Rebuild(P)
    BY <1>3 DEF CacheRead
  <2>2. Increment(log, cache) = Rebuild(log)
    BY <1>2, <2>1, IncrementRebuilds
  <2> QED
    BY <1>1, <2>2 DEF Reduce
<1>4. CASE cache = NoCache
  BY <1>1, <1>4 DEF Reduce
<1> QED
  BY <1>3, <1>4

\* The cache of a process is a rebuild of what it has read of the log, of a
\* thread that nobody has continued and whose global approvals were each
\* revoked before the next (_REDUCER_CACHE).
THEOREM CacheIsRead == Spec => []CacheRead
<1>1. Init => CacheRead
  BY DEF Init, CacheRead
<1>2. CacheRead /\ [Next]_vars /\ Shaped /\ Shaped' => CacheRead'
  <2> SUFFICES ASSUME CacheRead, [Next]_vars, Shaped, Shaped' PROVE CacheRead'
    OBVIOUS
  <2>1. CASE UserStep \/ RunnerStep
    BY <2>1, WritesRead DEF Shaped
  <2>2. CASE Reduce
    BY <2>2, ReducesRead
  <2>3. CASE Forget
    BY <2>3 DEF Forget, CacheRead
  <2>4. CASE UNCHANGED vars
    BY <2>4 DEF vars, CacheRead
  <2> QED
    BY <2>1, <2>2, <2>3, <2>4 DEF Next
<1> QED
  BY <1>1, <1>2, ReducerShaped, PTL DEF Spec

\* A reduction that a process keeps up to date event by event is the one that
\* a fresh process rebuilds, of any log of a thread that nobody has continued
\* and whose global approvals were each revoked before the next
\* (_reduce_thread_events).
THEOREM CacheRebuilds == Spec => []PlainCacheIsRebuilt
<1>1. Typed /\ CacheRead => PlainCacheIsRebuilt
  <2> SUFFICES ASSUME Typed, CacheRead, Continues(log) = {}, RevokedBetween(log),
                      cache.upto = Len(log), cache # NoCache
               PROVE  Meaning(cache) = Meaning(thread)
    BY DEF PlainCacheIsRebuilt, Agree
  <2>1. PICK P : LogTyped(P) /\ Grows(P, log) /\ cache = Rebuild(P)
    BY DEF CacheRead
  <2>2. cache.upto = Len(P)
    BY <2>1 DEF Rebuild
  <2>3. P = log
    BY <2>1, <2>2 DEF LogTyped, Typed, Grows
  <2> QED
    BY <2>1, <2>3 DEF Typed, Read
<1> QED
  BY <1>1, CacheIsRead, ReducerTyped, PTL

=============================================================================
