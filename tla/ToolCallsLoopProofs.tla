------------------------ MODULE ToolCallsLoopProofs ------------------------
(***************************************************************************)
(* What ToolCalls guarantees when the runners and the interfaces are tasks *)
(* of one event loop: tools run once and only if wanted, a call gets one   *)
(* tool message, a recorded finish stays, and every call goes the way     *)
(* CallLifecycle draws.                                                    *)
(*                                                                         *)
(* A runner works from a plan that it does not look at again.  The plan    *)
(* stays good for two reasons.  Until the runner has the lease, and between *)
(* two of its awaits, it has the loop to itself.  While a tool runs, others *)
(* may act; but what they may do to a call that is granted, denied or      *)
(* decided leaves it so, unless they take the lease away first, and then   *)
(* every append of the runner fails.                                       *)
(***************************************************************************)
EXTENDS ToolCallsProofs

-----------------------------------------------------------------------------
(* The inductive invariant. *)

\* What is true of every call by itself: nobody began what is not started, and
\* a finish that is on record is one.
Sound(t) ==
  /\ ~t.started => t.by = NoInvocation
  /\ t.durable => t.finished # "none"

\* The side effects and tool messages of a call, against its record.
Accounted(c) ==
  /\ ~calls[c].started => executions[c] = 0
  /\ c \notin Resumable => executions[c] <= 1
  /\ calls[c].published => Len(results[c]) = 1
  /\ ~calls[c].published => results[c] = <<>>

CallsSound == \A c \in Calls : Sound(calls[c]) /\ Accounted(c)

\* One runner at a time is between two awaits, and none while a Ctrl+C is being
\* carried out, which took the lease away and met unpublished calls only.
LoopSound ==
  /\ \A i, j \in Invocations : InLoop(i) /\ InLoop(j) => i = j
  /\ Cancelling => owner = NoInvocation /\ \A i \in Invocations : ~InLoop(i)
  /\ \A c \in DOMAIN cancel.seen \cup cancel.owes : ~calls[c].published
  /\ DOMAIN cancel.seen \cap cancel.owes = {}
  /\ \A i \in Invocations : phase[i] = "planned" => at[i] = "next"

\* States of a call in which a plan to run or to publish it stays good.
Steady == {"TC2.1", "TC2.2", "TC5"}

\* The calls of its plan that an invocation has not begun with.
Untouched(i) == {c \in todo[i] : at[i] = "next" \/ c # Current(i)}

\* Tools are run and results published by an invocation that holds the lease,
\* or is about to take it, on calls that are as its plan saw them.
PlanHolds(i) ==
  /\ phase[i] = "planned" \/ (phase[i] = "working" /\ owner = i)
  /\ plan[i].mode \in {"tools", "publish"}
  => \A c \in Untouched(i) : State(c) \in Steady /\ plan[i].seen[c].state = State(c)

\* An orphan whose version is the one its recovery saw has no finish on record.
OrphansUnfinished(i) ==
  phase[i] \in {"planned", "working"} /\ plan[i].mode = "orphaned" =>
    \A c \in Untouched(i) :
      /\ plan[i].seen[c].version <= calls[c].version
      /\ plan[i].seen[c].version = calls[c].version => ~calls[c].durable

\* The call whose tool an owner runs has no finish on record; only a tool that
\* can be resumed is.
AtWork(i) ==
  phase[i] = "working" =>
    /\ at[i] = "running" /\ owner = i => ~calls[Current(i)].durable
    /\ at[i] = "resumed" => Current(i) \in Resumable

WorkSound == \A i \in Invocations : PlanHolds(i) /\ OrphansUnfinished(i) /\ AtWork(i)

LoopInv == CallsSound /\ LoopSound /\ WorkSound

-----------------------------------------------------------------------------
(* What events make of a call. *)

Made(u, approval, started, by, finished, durable, decision, published, version) ==
  /\ u.approval = approval /\ u.started = started /\ u.by = by /\ u.finished = finished
  /\ u.durable = durable /\ u.decision = decision /\ u.published = published
  /\ u.version = version

LEMMA EffectsMake ==
  ASSUME NEW t \in Call, NEW i, NEW r, NEW d, NEW by, NEW a
  PROVE  /\ Made(Started(t, i), t.approval, TRUE, i, t.finished, t.durable, t.decision,
                 t.published, t.version + 1)
         /\ Made(Resumed(t, i), t.approval, TRUE, i, "none", FALSE, "none",
                 t.published, t.version + 1)
         /\ Made(Finished(t, r), t.approval, t.started, t.by, r, TRUE, t.decision,
                 t.published, t.version + 1)
         /\ Made(Decided(t, d, by), t.approval, t.started, t.by,
                 IF t.finished = "none" THEN "interrupted" ELSE t.finished, t.durable, d,
                 t.published, t.version + 1)
         /\ Made(Published(t), t.approval, t.started, t.by, t.finished, t.durable,
                 t.decision, TRUE, t.version)
         /\ Made(Approved(t, a), a, t.started, t.by, t.finished, t.durable, t.decision,
                 t.published, t.version + 1)
<1>1. Made(Started(t, i), t.approval, TRUE, i, t.finished, t.durable, t.decision,
           t.published, t.version + 1)
  BY DEF Started, Call, Made
<1>2. Made(Resumed(t, i), t.approval, TRUE, i, "none", FALSE, "none",
           t.published, t.version + 1)
  BY DEF Resumed, Started, Call, Made
<1>3. Made(Finished(t, r), t.approval, t.started, t.by, r, TRUE, t.decision,
           t.published, t.version + 1)
  BY DEF Finished, Call, Made
<1>4. Made(Decided(t, d, by), t.approval, t.started, t.by,
           IF t.finished = "none" THEN "interrupted" ELSE t.finished, t.durable, d,
           t.published, t.version + 1)
  BY DEF Decided, Call, Made
<1>5. Made(Published(t), t.approval, t.started, t.by, t.finished, t.durable,
           t.decision, TRUE, t.version)
  BY DEF Published, Call, Made
<1>6. Made(Approved(t, a), a, t.started, t.by, t.finished, t.durable, t.decision,
           t.published, t.version + 1)
  BY DEF Approved, Call, Made
<1> QED
  BY <1>1, <1>2, <1>3, <1>4, <1>5, <1>6

LEMMA OwnerGoneMakes ==
  ASSUME calls \in [Calls -> Call], NEW i, NEW recovery, NEW c \in Calls
  PROVE  LET t == calls[c]
             u == OwnerGone(i, recovery)[c]
         IN  \/ u = t
             \/ /\ t.by = i
                /\ Made(u, t.approval, t.started, t.by,
                        IF t.finished = "none" THEN "interrupted" ELSE t.finished,
                        t.durable, t.decision, t.published, t.version)
BY DEF OwnerGone, Made, Call

\* What every step makes of a call, t: a finish on record stays, and a new one
\* comes with a new version.
Follows(t, u) ==
  /\ Sound(u)
  /\ t.version <= u.version /\ (u.durable => t.durable \/ t.version < u.version)
  /\ t.durable => u.finished = t.finished

\* What others may make of a call while a runner has the lease.
Keeps(t, u) ==
  /\ StateOf(t) \in Steady => StateOf(u) = StateOf(t)
  /\ u.durable => t.durable

LEMMA Same ==
  ASSUME NEW t \in Call, Sound(t)
  PROVE  Follows(t, t) /\ Keeps(t, t)
BY DEF Follows, Keeps, Call

LEMMA StartedFollows ==
  ASSUME NEW t \in Call, Sound(t), NEW i
  PROVE  Follows(t, Started(t, i))
<1>1. t.version \in Nat /\ t.durable \in BOOLEAN
  BY DEF Call
<1>2. Made(Started(t, i), t.approval, TRUE, i, t.finished, t.durable, t.decision,
         t.published, t.version + 1)
  BY EffectsMake
<1> QED
  BY <1>1, <1>2 DEF Made, Follows, Sound

LEMMA PublishedFollows ==
  ASSUME NEW t \in Call, Sound(t)
  PROVE  Follows(t, Published(t))
<1>1. t.version \in Nat /\ t.durable \in BOOLEAN
  BY DEF Call
<1>2. Made(Published(t), t.approval, t.started, t.by, t.finished, t.durable, t.decision,
         TRUE, t.version)
  BY EffectsMake
<1> QED
  BY <1>1, <1>2 DEF Made, Follows, Sound

LEMMA ApprovedFollows ==
  ASSUME NEW t \in Call, Sound(t), NEW a
  PROVE  Follows(t, Approved(t, a))
<1>1. t.version \in Nat /\ t.durable \in BOOLEAN
  BY DEF Call
<1>2. Made(Approved(t, a), a, t.started, t.by, t.finished, t.durable, t.decision,
         t.published, t.version + 1)
  BY EffectsMake
<1> QED
  BY <1>1, <1>2 DEF Made, Follows, Sound

LEMMA DecidedFollows ==
  ASSUME NEW t \in Call, Sound(t), NEW d, NEW by
  PROVE  Follows(t, Decided(t, d, by))
<1>1. t.version \in Nat /\ t.durable \in BOOLEAN
  BY DEF Call
<1>2. Made(Decided(t, d, by), t.approval, t.started, t.by,
         IF t.finished = "none" THEN "interrupted" ELSE t.finished, t.durable, d,
         t.published, t.version + 1)
  BY EffectsMake
<1> QED
  BY <1>1, <1>2 DEF Made, Follows, Sound

\* A finish, and the resumption that forgets one, are of calls without a finish on
\* record.
LEMMA FinishedFollows ==
  ASSUME NEW t \in Call, Sound(t), NEW r, r # "none", ~t.durable
  PROVE  Follows(t, Finished(t, r))
<1>1. t.version \in Nat /\ t.durable \in BOOLEAN
  BY DEF Call
<1>2. Made(Finished(t, r), t.approval, t.started, t.by, r, TRUE, t.decision,
         t.published, t.version + 1)
  BY EffectsMake
<1> QED
  BY <1>1, <1>2 DEF Made, Follows, Sound

LEMMA ResumedFollows ==
  ASSUME NEW t \in Call, Sound(t), NEW i, ~t.durable
  PROVE  Follows(t, Resumed(t, i))
<1>1. t.version \in Nat /\ t.durable \in BOOLEAN
  BY DEF Call
<1>2. Made(Resumed(t, i), t.approval, TRUE, i, "none", FALSE, "none",
         t.published, t.version + 1)
  BY EffectsMake
<1> QED
  BY <1>1, <1>2 DEF Made, Follows, Sound

\* Users decide on outputs that are there, or replace a decision.
LEMMA EffectsKeep ==
  ASSUME NEW t \in Call, Sound(t), NEW d, d # "none", NEW by, NEW a
  PROVE  /\ UserMayDecide(t, by) => Keeps(t, Decided(t, d, by))
         /\ StateOf(t) = "TC1" => Keeps(t, Approved(t, a))
<1>1. UserMayDecide(t, by) => Keeps(t, Decided(t, d, by))
  <2>1. Made(Decided(t, d, by), t.approval, t.started, t.by,
             IF t.finished = "none" THEN "interrupted" ELSE t.finished, t.durable, d,
             t.published, t.version + 1)
    BY EffectsMake
  <2> QED
    BY <2>1 DEF Made, Keeps, Steady, UserMayDecide, StateOf
<1>2. StateOf(t) = "TC1" => Keeps(t, Approved(t, a))
  <2>1. Made(Approved(t, a), a, t.started, t.by, t.finished, t.durable, t.decision,
             t.published, t.version + 1)
    BY EffectsMake
  <2> QED
    BY <2>1 DEF Made, Keeps, Steady
<1> QED
  BY <1>1, <1>2

LEMMA OwnerGoneFollows ==
  ASSUME CallsTyped, NEW c \in Calls, Sound(calls[c]), NEW i, NEW recovery
  PROVE  /\ Follows(calls[c], OwnerGone(i, recovery)[c])
         /\ i # NoInvocation => Keeps(calls[c], OwnerGone(i, recovery)[c])
         /\ OwnerGone(i, recovery)[c].version = calls[c].version
         /\ OwnerGone(i, recovery)[c].started = calls[c].started
         /\ OwnerGone(i, recovery)[c].published = calls[c].published
<1> DEFINE t == calls[c]
           u == OwnerGone(i, recovery)[c]
<1>0. t \in Call /\ t.version \in Nat /\ t.durable \in BOOLEAN /\ t.started \in BOOLEAN
  BY DEF CallsTyped, Call
<1>1. \/ u = t
      \/ /\ t.by = i
         /\ Made(u, t.approval, t.started, t.by,
                 IF t.finished = "none" THEN "interrupted" ELSE t.finished,
                 t.durable, t.decision, t.published, t.version)
  BY OwnerGoneMakes DEF CallsTyped
<1> HIDE DEF t, u
<1>s. Sound(t)
  BY DEF t
<1>2. Follows(t, u) /\ u.version = t.version /\ u.started = t.started /\ u.published = t.published
  BY <1>0, <1>1, <1>s DEF Made, Follows, Sound
<1>3. i # NoInvocation => Keeps(t, u)
  <2>1. CASE u = t
    BY <1>0, <1>s, <2>1, Same
  <2>2. ASSUME u # t, i # NoInvocation PROVE Keeps(t, u)
    <3>1. t.started
      BY <1>0, <1>1, <1>s, <2>2 DEF Sound
    <3> QED
      BY <1>1, <2>2, <3>1 DEF Made, Keeps, Steady, StateOf
  <2> QED
    BY <2>1, <2>2
<1> QED
  BY <1>2, <1>3 DEF t, u

-----------------------------------------------------------------------------
(* Every step follows, as far as the calls go. *)

AllFollow == \A c \in Calls : Follows(calls[c], calls'[c])

LEMMA OneFollows ==
  ASSUME CallsTyped, CallsSound, NEW c \in Calls, NEW u, SetCall(c, u), Follows(calls[c], u)
  PROVE  AllFollow
<1>1. ASSUME NEW d \in Calls PROVE Follows(calls[d], calls'[d])
  <2>1. calls'[d] = IF d = c THEN u ELSE calls[d]
    BY DEF CallsTyped, SetCall
  <2>2. Follows(calls[d], calls[d])
    BY Same DEF CallsTyped, CallsSound
  <2> QED
    BY <2>1, <2>2
<1> QED
  BY <1>1 DEF AllFollow

LEMMA NoneFollows ==
  ASSUME CallsTyped, CallsSound, UNCHANGED calls
  PROVE  AllFollow
BY Same DEF CallsTyped, CallsSound, AllFollow

LEMMA GoneFollows ==
  ASSUME CallsTyped, CallsSound, NEW i, NEW recovery, calls' = OwnerGone(i, recovery)
  PROVE  AllFollow
BY OwnerGoneFollows DEF CallsSound, AllFollow

\* Where an invocation stands that begins with the next call of its plan.
LEMMA AtNext ==
  ASSUME Typed, WorkSound, NEW i \in Invocations, NEW modes, Working(i, modes, "next")
  PROVE  /\ Current(i) \in Calls /\ Current(i) \in Untouched(i)
         /\ calls[Current(i)] \in Call
         /\ owner = i /\ plan[i].mode \in {"tools", "publish"} => State(Current(i)) = Seen(i).state
         /\ /\ plan[i].mode = "orphaned" /\ calls[Current(i)].version = Seen(i).version
            => ~calls[Current(i)].durable
<1>1. /\ todo[i] # {} /\ phase[i] = "working" /\ at[i] = "next"
      /\ Current(i) \in Calls /\ Current(i) \in todo[i]
  BY CurrentTyped DEF Typed, Working
<1>2. Current(i) \in Untouched(i)
  BY <1>1 DEF Untouched
<1>3. PlanHolds(i) /\ OrphansUnfinished(i)
  BY DEF WorkSound
<1> QED
  BY <1>1, <1>2, <1>3 DEF PlanHolds, OrphansUnfinished, Seen, Typed, CallsTyped

LEMMA AtWhere ==
  ASSUME Typed, NEW i \in Invocations, NEW modes, NEW where, Working(i, modes, where)
  PROVE  /\ Current(i) \in Calls /\ Current(i) \in todo[i]
         /\ calls[Current(i)] \in Call
         /\ phase[i] = "working" /\ at[i] = where /\ plan[i].mode \in modes
BY CurrentTyped DEF Typed, Working, CallsTyped

LEMMA Undone ==
  ASSUME NEW t \in Call, Sound(t)
  PROVE  /\ StateOf(t) \in {"TC1", "TC2.1", "TC2.2", "TC3"} => ~t.durable /\ t.decision = "none"
         /\ StateOf(t) \in {"TC1", "TC2.1", "TC2.2"} => ~t.started
         /\ StateOf(t) = "TC3" => t.started
         /\ StateOf(t) # "TC6" <=> ~t.published
BY DEF StateOf, Sound, Call

LEMMA RunnerFollows ==
  ASSUME Typed, CallsSound, WorkSound, NEW i \in Invocations, RunnerStep(i) \/ FaultStep(i)
  PROVE  AllFollow
<1> DEFINE c == Current(i)
<1>t. CallsTyped
  BY DEF Typed
<1>s. c \in Calls => Sound(calls[c])
  BY DEF CallsSound
<1>1. CASE PublishDenial(i) \/ Publish(i)
  <2>1. c \in Calls /\ calls[c] \in Call /\ SetCall(c, Published(calls[c]))
    BY <1>1, AtWhere DEF PublishDenial, Publish
  <2>2. Follows(calls[c], Published(calls[c]))
    BY <1>s, <2>1, PublishedFollows
  <2> QED
    BY <1>t, <2>1, <2>2, OneFollows
<1>2. CASE Start(i)
  <2>1. c \in Calls /\ calls[c] \in Call /\ SetCall(c, Started(calls[c], i))
    BY <1>2, AtWhere DEF Start
  <2>2. Follows(calls[c], Started(calls[c], i))
    BY <1>s, <2>1, StartedFollows
  <2> QED
    BY <1>t, <2>1, <2>2, OneFollows
<1>3. CASE RefuseDisallowed(i) \/ CancelTask(i) \/ \E reason \in {"success", "error"} : Finish(i, reason)
  <2>1. PICK reason \in {"success", "error", "interrupted"} : SetCall(c, Finished(calls[c], reason))
    BY <1>3 DEF RefuseDisallowed, CancelTask, Finish
  <2>2. c \in Calls /\ calls[c] \in Call
    BY <1>3, AtWhere DEF RefuseDisallowed, CancelTask, Finish
  <2>3. ~calls[c].durable
    <3>1. CASE RefuseDisallowed(i)
      <4>1. Working(i, {"tools"}, "next") /\ Seen(i).state = "TC2.1" /\ owner = i
        BY <3>1 DEF RefuseDisallowed, Owns
      <4>2. State(c) = "TC2.1"
        BY <4>1, AtNext, AtWhere
      <4> QED
        BY <1>s, <2>2, <4>2, Undone DEF State
    <3>2. CASE ~RefuseDisallowed(i)
      <4>1. Working(i, {"tools", "orphaned"}, "running") /\ owner = i
        BY <1>3, <3>2 DEF CancelTask, Finish, Owns
      <4>2. phase[i] = "working" /\ at[i] = "running"
        BY <4>1, AtWhere
      <4> QED
        BY <4>1, <4>2 DEF WorkSound, AtWork
    <3> QED
      BY <3>1, <3>2
  <2>4. Follows(calls[c], Finished(calls[c], reason))
    BY <1>s, <2>2, <2>3, FinishedFollows
  <2> QED
    BY <1>t, <2>1, <2>2, <2>4, OneFollows
<1>4. CASE Finalize(i) \/ RecoverStranded(i)
  <2>1. c \in Calls /\ calls[c] \in Call
    BY <1>4, AtWhere DEF Finalize, RecoverStranded
  <2>2. UNCHANGED calls \/ SetCall(c, Decided(calls[c], "whole", "automatic"))
    BY <1>4 DEF Finalize, RecoverStranded
  <2>3. Follows(calls[c], Decided(calls[c], "whole", "automatic"))
    BY <1>s, <2>1, DecidedFollows
  <2> QED
    BY <1>t, <2>1, <2>2, <2>3, OneFollows, NoneFollows
<1>5. CASE RecoverOrphan(i)
  <2> DEFINE old == calls[c].by
             base == IF old = NoInvocation THEN calls ELSE OwnerGone(old, TRUE)
  <2>0. Working(i, {"orphaned"}, "next")
    BY <1>5 DEF RecoverOrphan
  <2>1. c \in Calls /\ calls[c] \in Call /\ plan[i].mode = "orphaned"
    BY <2>0, AtWhere
  <2>2. /\ base \in [Calls -> Call]
        /\ \A d \in Calls : Follows(calls[d], base[d]) /\ base[d].version = calls[d].version
    <3>1. calls \in [Calls -> Call] /\ \A d \in Calls : Sound(calls[d])
      BY <1>t DEF CallsTyped, CallsSound
    <3>2. CASE old = NoInvocation
      BY <3>1, <3>2, Same
    <3>3. CASE old # NoInvocation
      BY <1>t, <3>1, <3>3, OwnerGoneFollows, OwnerGoneTyped
    <3> QED
      BY <3>2, <3>3
  <2> HIDE DEF base
  <2>3. base[c].durable => calls[c].durable
    <3>1. /\ Follows(calls[c], base[c]) /\ base[c].version = calls[c].version
          /\ calls[c].version \in Nat
      BY <2>1, <2>2 DEF Call
    <3> QED
      BY <3>1 DEF Follows
  <2>4. CASE UNCHANGED calls
    BY <1>t, <2>4, NoneFollows
  <2>5. CASE ~UNCHANGED calls
    <3>1. calls[c].version = Seen(i).version
      BY <1>5, <2>5 DEF RecoverOrphan
    <3>2. ~calls[c].durable /\ ~base[c].durable
      BY <2>0, <2>1, <2>3, <3>1, AtNext
    <3>3. PICK u \in {Resumed(base[c], i)} \cup
                     {Decided(Finished(base[c], r), "whole", "automatic") : r \in {"error", "interrupted"}} :
            calls' = [base EXCEPT ![c] = u]
      BY <1>5, <2>5 DEF RecoverOrphan, base
    <3>4. base[c] \in Call /\ Sound(base[c])
      BY <2>1, <2>2 DEF Follows
    <3>5. Follows(calls[c], u)
      <4>1. Follows(base[c], Resumed(base[c], i))
        BY <3>2, <3>4, ResumedFollows
      <4>2. ASSUME NEW r \in {"error", "interrupted"}
            PROVE  Follows(base[c], Finished(base[c], r)) /\ Finished(base[c], r) \in Call
        BY <3>2, <3>4, FinishedFollows, EffectsTyped
      <4>3. ASSUME NEW r \in {"error", "interrupted"}
            PROVE  Follows(Finished(base[c], r), Decided(Finished(base[c], r), "whole", "automatic"))
        BY <4>2, DecidedFollows DEF Follows
      <4>4. /\ calls[c].version \in Nat /\ base[c].version \in Nat
            /\ \A r \in {"error", "interrupted"} : Finished(base[c], r).version \in Nat
        BY <2>1, <3>4, <4>2 DEF Call
      <4>5. ASSUME NEW v, Follows(base[c], v), v.version \in Nat PROVE Follows(calls[c], v)
        BY <2>1, <2>2, <3>2, <4>4, <4>5 DEF Follows
      <4>6. Resumed(base[c], i) \in Call
        BY <3>4, EffectsTyped
      <4>7. ASSUME NEW r \in {"error", "interrupted"}
            PROVE  Decided(Finished(base[c], r), "whole", "automatic") \in Call
        BY <4>2, DecidedTyped
      <4>8. ASSUME NEW r \in {"error", "interrupted"}
            PROVE  Follows(base[c], Decided(Finished(base[c], r), "whole", "automatic"))
        <5> DEFINE f == Finished(base[c], r)
                   w == Decided(f, "whole", "automatic")
        <5>1. w.version \in Nat /\ f.version \in Nat /\ base[c].version \in Nat
          BY <4>4, <4>7 DEF Call
        <5>2. Follows(base[c], f) /\ Follows(f, w)
          BY <4>2, <4>3
        <5>3. f.durable
          BY <3>4, EffectsMake DEF Made
        <5> HIDE DEF f, w
        <5>4. Follows(base[c], w)
          BY <3>2, <5>1, <5>2, <5>3 DEF Follows
        <5> QED
          BY <5>4 DEF f, w
      <4> QED
        BY <3>3, <4>1, <4>5, <4>6, <4>7, <4>8 DEF Call
    <3>6. ASSUME NEW d \in Calls PROVE Follows(calls[d], calls'[d])
      <4>1. calls'[d] = IF d = c THEN u ELSE base[d]
        BY <2>1, <2>2, <3>3
      <4> QED
        BY <2>2, <3>5, <4>1
    <3> QED
      BY <3>6 DEF AllFollow
  <2> QED
    BY <2>4, <2>5
<1>6. CASE Acquire(i) \/ Close(i)
  <2>1. \/ UNCHANGED calls
        \/ \E j, recovery : calls' = OwnerGone(j, recovery)
    BY <1>6 DEF Acquire, Close
  <2> QED
    BY <1>t, <2>1, GoneFollows, NoneFollows
<1>7. CASE \/ Discover(i) \/ GiveWay(i) \/ RunResumed(i) \/ PublishRecovered(i) \/ EndWork(i)
           \/ Release(i) \/ LoseLease(i) \/ Fail(i) \/ Crash(i)
  <2>1. UNCHANGED calls
    BY <1>7 DEF Discover, GiveWay, RunResumed, PublishRecovered, EndWork, Release,
                LoseLease, Fail, Crash
  <2> QED
    BY <1>t, <2>1, NoneFollows
<1> QED
  BY <1>1, <1>2, <1>3, <1>4, <1>5, <1>6, <1>7 DEF RunnerStep, FaultStep

\* Steps of others: they follow, and they keep what a plan rests on.
AllKeep == \A c \in Calls : Keeps(calls[c], calls'[c])

LEMMA OneKeeps ==
  ASSUME CallsTyped, CallsSound, NEW c \in Calls, NEW u, SetCall(c, u),
         Follows(calls[c], u), Keeps(calls[c], u)
  PROVE  AllFollow /\ AllKeep
<1>1. ASSUME NEW d \in Calls PROVE Keeps(calls[d], calls'[d])
  <2>1. calls'[d] = IF d = c THEN u ELSE calls[d]
    BY DEF CallsTyped, SetCall
  <2>2. Keeps(calls[d], calls[d])
    BY Same DEF CallsTyped, CallsSound
  <2> QED
    BY <2>1, <2>2
<1> QED
  BY <1>1, OneFollows DEF AllKeep

LEMMA NoneKeeps ==
  ASSUME CallsTyped, CallsSound, UNCHANGED calls
  PROVE  AllFollow /\ AllKeep
BY Same, NoneFollows DEF CallsTyped, CallsSound, AllKeep

LEMMA GoneKeeps ==
  ASSUME CallsTyped, CallsSound, NEW i, i # NoInvocation, NEW recovery,
         calls' = OwnerGone(i, recovery)
  PROVE  AllFollow /\ AllKeep
BY OwnerGoneFollows, GoneFollows DEF CallsSound, AllKeep

LEMMA RecycleKeeps ==
  ASSUME Typed, CallsSound, NEW i \in Invocations, Recycle(i)
  PROVE  AllFollow /\ AllKeep
<1>1. ASSUME NEW c \in Calls
      PROVE  Follows(calls[c], calls'[c]) /\ Keeps(calls[c], calls'[c])
  <2> DEFINE t == calls[c]
             u == [t EXCEPT !.by = IF @ = i THEN NoInvocation ELSE @]
  <2>1. calls'[c] = u
    BY <1>1 DEF Recycle
  <2>2. t \in Call /\ Sound(t)
    BY <1>1 DEF Typed, CallsTyped, CallsSound
  <2> HIDE DEF t
  <2>3. Made(u, t.approval, t.started, IF t.by = i THEN NoInvocation ELSE t.by, t.finished,
             t.durable, t.decision, t.published, t.version)
    BY <2>2 DEF Made, Call
  <2>4. t.version \in Nat /\ t.durable \in BOOLEAN
    BY <2>2 DEF Call
  <2> HIDE DEF u
  <2>5. Follows(t, u)
    BY <2>2, <2>3, <2>4 DEF Made, Follows, Sound
  <2>6. Keeps(t, u)
    BY <2>2, <2>3 DEF Made, Keeps, StateOf
  <2> QED
    BY <2>1, <2>5, <2>6 DEF t
<1> QED
  BY <1>1 DEF AllFollow, AllKeep

LEMMA OthersKeep ==
  ASSUME Typed, CallsSound, UserStep \/ WebKeepInterrupted \/ Stall \/ Expire \/ Sweep
  PROVE  AllFollow /\ AllKeep
<1>t. CallsTyped
  BY DEF Typed
<1>c. ASSUME NEW c \in Calls PROVE calls[c] \in Call /\ Sound(calls[c])
  BY <1>t DEF CallsTyped, CallsSound
<1>d. ASSUME NEW c \in Calls, NEW d \in {"whole", "omit"}, NEW by, UserMayDecide(calls[c], by)
      PROVE  /\ Follows(calls[c], Decided(calls[c], d, by))
             /\ Keeps(calls[c], Decided(calls[c], d, by))
  <2>1. Follows(calls[c], Decided(calls[c], d, by))
    BY <1>c, DecidedFollows
  <2>2. d # "none"
    OBVIOUS
  <2> QED
    BY <1>c, <1>d, <2>1, <2>2, EffectsKeep
<1>1. ASSUME NEW c \in Calls, KeepOutput(c) \/ OmitOutput(c) PROVE AllFollow /\ AllKeep
  <2>1. PICK d \in {"whole", "omit"}, by \in {"user", "explicit"} :
          UserMayDecide(calls[c], by) /\ SetCall(c, Decided(calls[c], d, by))
    BY <1>1 DEF KeepOutput, OmitOutput
  <2> QED
    BY <1>t, <1>d, <2>1, OneKeeps
<1>2. ASSUME NEW c \in Calls, NEW answer, Approve(c, answer) PROVE AllFollow /\ AllKeep
  <2>1. StateOf(calls[c]) = "TC1" /\ SetCall(c, Approved(calls[c], answer))
    BY <1>2 DEF Approve, State
  <2>2. Follows(calls[c], Approved(calls[c], answer))
    BY <1>c, ApprovedFollows
  <2>3. Keeps(calls[c], Approved(calls[c], answer))
    <3>1. "whole" # "none"
      OBVIOUS
    <3> QED
      BY <1>c, <2>1, <3>1, EffectsKeep
  <2> QED
    BY <1>t, <2>1, <2>2, <2>3, OneKeeps
<1>3. CASE ApproveTurn
  <2>1. ASSUME NEW c \in Calls
        PROVE  Follows(calls[c], calls'[c]) /\ Keeps(calls[c], calls'[c])
    <3> DEFINE t == calls[c]
               u == [t EXCEPT !.approval = IF @ = "none" THEN "granted" ELSE @]
    <3>1. calls'[c] = u
      BY <1>3 DEF ApproveTurn
    <3>2. t \in Call /\ Sound(t)
      BY <1>c
    <3> HIDE DEF t
    <3>3. Made(u, IF t.approval = "none" THEN "granted" ELSE t.approval, t.started, t.by,
               t.finished, t.durable, t.decision, t.published, t.version)
      BY <3>2 DEF Made, Call
    <3>4. t.version \in Nat /\ t.durable \in BOOLEAN
      BY <3>2 DEF Call
    <3> HIDE DEF u
    <3>5. Follows(t, u)
      BY <3>2, <3>3, <3>4 DEF Made, Follows, Sound
    <3>6. Keeps(t, u)
      BY <3>2, <3>3 DEF Made, Keeps, StateOf, Steady
    <3> QED
      BY <3>1, <3>5, <3>6 DEF t
  <2> QED
    BY <2>1 DEF AllFollow, AllKeep
<1>4. CASE WebInterrupt \/ CtrlC
  <2>1. \/ UNCHANGED calls
        \/ owner # NoInvocation /\ calls' = OwnerGone(owner, FALSE)
    BY <1>4 DEF WebInterrupt, CtrlC, CtrlCOver, Live
  <2> QED
    BY <1>t, <2>1, GoneKeeps, NoneKeeps
<1>5. CASE WebKeepInterrupted
  <2>1. ASSUME NEW c \in Calls
        PROVE  Follows(calls[c], calls'[c]) /\ Keeps(calls[c], calls'[c])
    <3>1. \/ calls'[c] = calls[c]
          \/ UserMayDecide(calls[c], "explicit") /\ calls'[c] = Decided(calls[c], "whole", "explicit")
      BY <1>5 DEF WebKeepInterrupted
    <3> QED
      BY <1>c, <1>d, <3>1, Same
  <2> QED
    BY <2>1 DEF AllFollow, AllKeep
<1>6. CASE Stall \/ Expire \/ Sweep
  BY <1>t, <1>6, NoneKeeps DEF Stall, Expire, Sweep
<1> QED
  BY <1>1, <1>2, <1>3, <1>4, <1>5, <1>6 DEF UserStep

LEMMA CancelFollows ==
  ASSUME Typed, CallsSound, CancelCall \/ \E c \in Calls : AnswerCancelled(c)
  PROVE  AllFollow
<1>t. CallsTyped
  BY DEF Typed
<1>c. ASSUME NEW c \in Calls PROVE calls[c] \in Call /\ Sound(calls[c])
  BY <1>t DEF CallsTyped, CallsSound
<1>1. CASE CancelCall
  <2> DEFINE c == CancelNext
  <2>1. c \in Calls
    <3>1. DOMAIN cancel.seen \subseteq Calls /\ DOMAIN cancel.seen # {}
      BY <1>1 DEF CancelCall, Typed, CancelTyped, Seeing
    <3>2. DOMAIN cancel.seen \subseteq Nat
      BY <3>1, CallsAssumption
    <3> QED
      BY <3>1, <3>2, MinIn DEF CancelNext
  <2>2. \/ UNCHANGED calls
        \/ SetCall(c, Approved(calls[c], "denied"))
        \/ SetCall(c, Decided(calls[c], "omit", "explicit"))
    BY <1>1 DEF CancelCall
  <2>3. /\ Follows(calls[c], Approved(calls[c], "denied"))
        /\ Follows(calls[c], Decided(calls[c], "omit", "explicit"))
    BY <1>c, <2>1, ApprovedFollows, DecidedFollows
  <2> QED
    BY <1>t, <2>1, <2>2, <2>3, OneFollows, NoneFollows
<1>2. ASSUME NEW c \in Calls, AnswerCancelled(c) PROVE AllFollow
  <2>1. SetCall(c, Published(calls[c])) /\ Follows(calls[c], Published(calls[c]))
    BY <1>2, <1>c, PublishedFollows DEF AnswerCancelled
  <2> QED
    BY <1>t, <2>1, OneFollows
<1> QED
  BY <1>1, <1>2

-----------------------------------------------------------------------------
(* Side effects and tool messages are accounted for. *)

\* What leaves the account of a call alone.
Counted(t, u) == (t.started => u.started) /\ u.published = t.published

AllCounted == \A c \in Calls : Counted(calls[c], calls'[c])

LEMMA EffectsCount ==
  ASSUME NEW t \in Call, NEW i, NEW r, NEW d, NEW by, NEW a
  PROVE  /\ Counted(t, t) /\ Counted(t, Started(t, i)) /\ Counted(t, Resumed(t, i))
         /\ Counted(t, Finished(t, r)) /\ Counted(t, Decided(t, d, by))
         /\ Counted(t, Approved(t, a))
<1>1. Counted(t, t) /\ Counted(t, Started(t, i)) /\ Counted(t, Resumed(t, i))
  BY DEF Counted, Started, Resumed, Call
<1>2. Counted(t, Finished(t, r)) /\ Counted(t, Decided(t, d, by))
  BY DEF Counted, Finished, Decided, Call
<1>3. Counted(t, Approved(t, a))
  BY DEF Counted, Approved, Call
<1> QED
  BY <1>1, <1>2, <1>3

LEMMA OneCounts ==
  ASSUME CallsTyped, NEW c \in Calls, NEW u, SetCall(c, u), Counted(calls[c], u)
  PROVE  AllCounted
<1>1. ASSUME NEW d \in Calls PROVE Counted(calls[d], calls'[d])
  <2>1. calls'[d] = IF d = c THEN u ELSE calls[d]
    BY DEF CallsTyped, SetCall
  <2> QED
    BY <2>1 DEF Counted
<1> QED
  BY <1>1 DEF AllCounted

LEMMA NoneCounts ==
  ASSUME UNCHANGED calls
  PROVE  AllCounted
BY DEF AllCounted, Counted

LEMMA GoneCounts ==
  ASSUME CallsTyped, CallsSound, NEW i, NEW recovery, calls' = OwnerGone(i, recovery)
  PROVE  AllCounted
BY OwnerGoneFollows DEF CallsSound, AllCounted, Counted

\* Of the steps of a runner only publications change what is published.
LEMMA RunnerCounts ==
  ASSUME Typed, CallsSound, NEW i \in Invocations, RunnerStep(i) \/ FaultStep(i),
         ~PublishDenial(i), ~Publish(i)
  PROVE  AllCounted
<1> DEFINE c == Current(i)
<1>t. CallsTyped
  BY DEF Typed
<1>1. CASE Start(i)
  BY <1>t, <1>1, AtWhere, EffectsCount, OneCounts DEF Start
<1>2. CASE RefuseDisallowed(i) \/ CancelTask(i) \/ \E reason \in {"success", "error"} : Finish(i, reason)
  <2>1. PICK reason \in {"success", "error", "interrupted"} : SetCall(c, Finished(calls[c], reason))
    BY <1>2 DEF RefuseDisallowed, CancelTask, Finish
  <2>2. c \in Calls /\ calls[c] \in Call
    BY <1>2, AtWhere DEF RefuseDisallowed, CancelTask, Finish
  <2> QED
    BY <1>t, <2>1, <2>2, EffectsCount, OneCounts
<1>3. CASE Finalize(i) \/ RecoverStranded(i)
  <2>1. c \in Calls /\ calls[c] \in Call
    BY <1>3, AtWhere DEF Finalize, RecoverStranded
  <2>2. UNCHANGED calls \/ SetCall(c, Decided(calls[c], "whole", "automatic"))
    BY <1>3 DEF Finalize, RecoverStranded
  <2> QED
    BY <1>t, <2>1, <2>2, EffectsCount, OneCounts, NoneCounts
<1>4. CASE RecoverOrphan(i)
  <2> DEFINE old == calls[c].by
             base == IF old = NoInvocation THEN calls ELSE OwnerGone(old, TRUE)
  <2>1. c \in Calls
    BY <1>4, AtWhere DEF RecoverOrphan
  <2>2. base \in [Calls -> Call] /\ \A d \in Calls : Counted(calls[d], base[d])
    <3>1. calls \in [Calls -> Call] /\ \A d \in Calls : Sound(calls[d])
      BY <1>t DEF CallsTyped, CallsSound
    <3>2. CASE old = NoInvocation
      BY <3>1, <3>2, EffectsCount
    <3>3. CASE old # NoInvocation
      BY <1>t, <3>1, <3>3, OwnerGoneFollows, OwnerGoneTyped DEF Counted
    <3> QED
      BY <3>2, <3>3
  <2>3. \/ UNCHANGED calls
        \/ \E u \in {Resumed(base[c], i)} \cup
                   {Decided(Finished(base[c], r), "whole", "automatic") : r \in {"error", "interrupted"}} :
             calls' = [base EXCEPT ![c] = u]
    BY <1>4 DEF RecoverOrphan
  <2> HIDE DEF base
  <2>4. ASSUME NEW u, Counted(base[c], u), calls' = [base EXCEPT ![c] = u] PROVE AllCounted
    <3>1. ASSUME NEW d \in Calls PROVE Counted(calls[d], calls'[d])
      <4>1. calls'[d] = IF d = c THEN u ELSE base[d]
        BY <2>1, <2>2, <2>4
      <4>2. Counted(calls[d], base[d])
        BY <2>2
      <4> QED
        BY <2>4, <4>1, <4>2 DEF Counted
    <3> QED
      BY <3>1 DEF AllCounted
  <2>5. Counted(base[c], Resumed(base[c], i))
    BY <2>1, <2>2, EffectsCount
  <2>6. ASSUME NEW r \in {"error", "interrupted"}
        PROVE  Counted(base[c], Decided(Finished(base[c], r), "whole", "automatic"))
    <3>1. Finished(base[c], r) \in Call /\ Counted(base[c], Finished(base[c], r))
      BY <2>1, <2>2, EffectsCount, EffectsTyped
    <3>2. Counted(Finished(base[c], r), Decided(Finished(base[c], r), "whole", "automatic"))
      BY <3>1, EffectsCount
    <3> QED
      BY <3>1, <3>2 DEF Counted
  <2> QED
    BY <2>3, <2>4, <2>5, <2>6, NoneCounts
<1>5. CASE Acquire(i) \/ Close(i)
  <2>1. \/ UNCHANGED calls
        \/ \E j, recovery : calls' = OwnerGone(j, recovery)
    BY <1>5 DEF Acquire, Close
  <2> QED
    BY <1>t, <2>1, GoneCounts, NoneCounts
<1>6. CASE \/ Discover(i) \/ GiveWay(i) \/ RunResumed(i) \/ PublishRecovered(i) \/ EndWork(i)
           \/ Release(i) \/ LoseLease(i) \/ Fail(i) \/ Crash(i)
  BY <1>6, NoneCounts DEF Discover, GiveWay, RunResumed, PublishRecovered, EndWork, Release,
                          LoseLease, Fail, Crash
<1> QED
  BY <1>1, <1>2, <1>3, <1>4, <1>5, <1>6 DEF RunnerStep, FaultStep

LEMMA OthersCount ==
  ASSUME Typed, CallsSound,
         \/ UserStep \/ WebKeepInterrupted \/ Stall \/ Expire \/ Sweep \/ CancelCall
         \/ \E i \in Invocations : Recycle(i)
  PROVE  AllCounted
<1>t. CallsTyped
  BY DEF Typed
<1>c. ASSUME NEW c \in Calls PROVE calls[c] \in Call
  BY <1>t DEF CallsTyped
<1>1. ASSUME NEW c \in Calls, NEW u, SetCall(c, u),
             u \in {Decided(calls[c], d, by) : d \in {"whole", "omit"}, by \in {"user", "explicit"}}
                  \cup {Approved(calls[c], a) : a \in {"granted", "denied"}}
      PROVE  AllCounted
  BY <1>t, <1>c, <1>1, EffectsCount, OneCounts
<1>2. ASSUME NEW c \in Calls, KeepOutput(c) \/ OmitOutput(c) PROVE AllCounted
  BY <1>1, <1>2 DEF KeepOutput, OmitOutput
<1>3. ASSUME NEW c \in Calls, NEW answer \in {"granted", "denied"}, Approve(c, answer)
      PROVE  AllCounted
  BY <1>1, <1>3 DEF Approve
<1>4. CASE ApproveTurn
  BY <1>4, <1>c DEF ApproveTurn, AllCounted, Counted, Call
<1>5. CASE WebInterrupt \/ CtrlC
  <2>1. UNCHANGED calls \/ calls' = OwnerGone(owner, FALSE)
    BY <1>5 DEF WebInterrupt, CtrlC, CtrlCOver
  <2> QED
    BY <1>t, <2>1, GoneCounts, NoneCounts
<1>6. CASE WebKeepInterrupted
  <2>1. ASSUME NEW c \in Calls PROVE Counted(calls[c], calls'[c])
    <3>1. calls'[c] = calls[c] \/ calls'[c] = Decided(calls[c], "whole", "explicit")
      BY <1>6 DEF WebKeepInterrupted
    <3> QED
      BY <1>c, <3>1, EffectsCount
  <2> QED
    BY <2>1 DEF AllCounted
<1>7. CASE Stall \/ Expire \/ Sweep
  BY <1>7, NoneCounts DEF Stall, Expire, Sweep
<1>8. CASE CancelCall
  <2> DEFINE c == CancelNext
  <2>1. c \in Calls
    <3>1. DOMAIN cancel.seen \subseteq Calls /\ DOMAIN cancel.seen # {}
      BY <1>8 DEF CancelCall, Typed, CancelTyped, Seeing
    <3>2. DOMAIN cancel.seen \subseteq Nat
      BY <3>1, CallsAssumption
    <3> QED
      BY <3>1, <3>2, MinIn DEF CancelNext
  <2>2. \/ UNCHANGED calls
        \/ SetCall(c, Approved(calls[c], "denied"))
        \/ SetCall(c, Decided(calls[c], "omit", "explicit"))
    BY <1>8 DEF CancelCall
  <2> QED
    BY <1>1, <2>1, <2>2, NoneCounts
<1>9. ASSUME NEW i \in Invocations, Recycle(i) PROVE AllCounted
  BY <1>9, <1>c DEF Recycle, AllCounted, Counted, Call
<1> QED
  BY <1>2, <1>3, <1>4, <1>5, <1>6, <1>7, <1>8, <1>9 DEF UserStep

\* What a call had done and published, when neither changes.
LEMMA CountedAccounts ==
  ASSUME CallsTyped, CallsSound, AllCounted, UNCHANGED record
  PROVE  \A c \in Calls : Accounted(c)'
BY DEF CallsTyped, Call, CallsSound, AllCounted, Counted, Accounted, record

\* One more message for a call that had none.
LEMMA PublishedAccounts ==
  ASSUME CallsTyped, RecordTyped, CallsSound, NEW c \in Calls, NEW x, ~calls[c].published,
         SetCall(c, Published(calls[c])),
         results' = [results EXCEPT ![c] = Append(@, x)], UNCHANGED executions
  PROVE  \A d \in Calls : Accounted(d)'
<1>1. ASSUME NEW d \in Calls PROVE Accounted(d)'
  <2>1. CASE d # c
    <3>1. calls'[d] = calls[d] /\ results'[d] = results[d] /\ executions'[d] = executions[d]
      BY <2>1 DEF CallsTyped, RecordTyped, SetCall
    <3> QED
      BY <3>1 DEF CallsSound, Accounted
  <2>2. CASE d = c
    <3>1. calls[c] \in Call /\ calls'[c] = Published(calls[c])
      BY DEF CallsTyped, SetCall
    <3>2. calls'[c].started = calls[c].started /\ calls'[c].published
      BY <3>1 DEF Published, Call
    <3>3. results[c] = <<>>
      BY DEF CallsSound, Accounted
    <3>4. results'[c] = Append(<<>>, x)
      BY <3>3 DEF RecordTyped
    <3>5. Len(results'[c]) = 1
      BY <3>4
    <3> QED
      BY <2>2, <3>2, <3>5 DEF CallsSound, Accounted
  <2> QED
    BY <2>1, <2>2
<1> QED
  BY <1>1

LEMMA AccountsStep ==
  ASSUME Typed, CallsSound, LoopSound, WorkSound, Next
  PROVE  \A c \in Calls : Accounted(c)'
<1>t. CallsTyped /\ RecordTyped
  BY DEF Typed
<1>1. ASSUME NEW i \in Invocations, PublishDenial(i) \/ Publish(i)
      PROVE  \A c \in Calls : Accounted(c)'
  <2> DEFINE c == Current(i)
  <2>1. PICK modes \in {{"tools"}, {"tools", "publish"}} : Working(i, modes, "next")
    BY <1>1 DEF PublishDenial, Publish
  <2>2. owner = i /\ Seen(i).state \in {"TC2.2", "TC5"} /\ UNCHANGED executions
    BY <1>1 DEF PublishDenial, Publish, Owns
  <2>3. PICK x : results' = [results EXCEPT ![c] = Append(@, x)]
    BY <1>1 DEF PublishDenial, Publish
  <2>4. c \in Calls /\ calls[c] \in Call /\ State(c) = Seen(i).state
    BY <2>1, <2>2, AtNext, AtWhere
  <2>5. ~calls[c].published
    BY <2>2, <2>4 DEF State, StateOf
  <2>6. SetCall(c, Published(calls[c]))
    BY <1>1 DEF PublishDenial, Publish
  <2> QED
    BY <1>t, <2>2, <2>3, <2>4, <2>5, <2>6, PublishedAccounts
<1>2. ASSUME NEW i \in Invocations, Start(i) PROVE \A c \in Calls : Accounted(c)'
  <2> DEFINE c == Current(i)
  <2>1. Working(i, {"tools"}, "next") /\ owner = i /\ Seen(i).state = "TC2.1"
    BY <1>2 DEF Start, Owns
  <2>2. c \in Calls /\ calls[c] \in Call /\ State(c) = "TC2.1"
    BY <2>1, AtNext, AtWhere
  <2>3. ~calls[c].started /\ executions[c] = 0
    BY <2>2, Undone DEF CallsSound, State, Accounted
  <2>4. calls'[c] = Started(calls[c], i) /\ \A d \in Calls \ {c} : calls'[d] = calls[d]
    BY <1>2, <1>t, <2>2 DEF Start, SetCall, CallsTyped
  <2>5. calls'[c].started /\ calls'[c].published = calls[c].published
    BY <2>2, <2>4 DEF Started, Call
  <2>6. executions'[c] = 1 /\ \A d \in Calls \ {c} : executions'[d] = executions[d]
    BY <1>2, <1>t, <2>2, <2>3 DEF Start, RecordTyped
  <2>7. UNCHANGED results
    BY <1>2 DEF Start
  <2> QED
    BY <2>2, <2>4, <2>5, <2>6, <2>7 DEF CallsSound, Accounted
<1>3. ASSUME NEW i \in Invocations, RunResumed(i) PROVE \A c \in Calls : Accounted(c)'
  <2> DEFINE c == Current(i)
  <2>1. Working(i, {"orphaned"}, "resumed") /\ UNCHANGED <<calls, results>>
    BY <1>3 DEF RunResumed
  <2>2. c \in Calls /\ calls[c] \in Call /\ c \in Resumable
    BY <2>1, AtWhere DEF WorkSound, AtWork
  <2>3. \/ UNCHANGED executions
        \/ State(c) = "TC3" /\ executions' = [executions EXCEPT ![c] = @ + 1]
    BY <1>3 DEF RunResumed
  <2>4. State(c) = "TC3" => calls[c].started
    BY <2>2, Undone DEF CallsSound, State
  <2>5. \A d \in Calls \ {c} : executions'[d] = executions[d]
    BY <1>t, <2>2, <2>3 DEF RecordTyped
  <2> QED
    BY <2>1, <2>2, <2>3, <2>4, <2>5 DEF CallsSound, Accounted
<1>4. ASSUME NEW c \in Calls, AnswerCancelled(c) PROVE \A d \in Calls : Accounted(d)'
  <2>1. ~calls[c].published
    BY <1>4 DEF AnswerCancelled, LoopSound
  <2> QED
    BY <1>t, <1>4, <2>1, PublishedAccounts DEF AnswerCancelled
<1>5. ASSUME NEW i \in Invocations, RunnerStep(i) \/ FaultStep(i),
             ~PublishDenial(i), ~Publish(i), ~Start(i), ~RunResumed(i)
      PROVE  \A c \in Calls : Accounted(c)'
  <2>1. UNCHANGED record
    BY <1>5 DEF RunnerStep, FaultStep, Discover, Acquire, GiveWay, RefuseDisallowed, Finish,
         Finalize, RecoverOrphan, RecoverStranded, PublishRecovered, EndWork, Close, Release,
         LoseLease, CancelTask, Fail, Crash, record
  <2>2. AllCounted
    BY <1>5, RunnerCounts
  <2> QED
    BY <1>t, <2>1, <2>2, CountedAccounts
<1>6. CASE \/ UserStep \/ WebKeepInterrupted \/ Stall \/ Expire \/ Sweep \/ CancelCall
           \/ \E i \in Invocations : Recycle(i)
  <2>1. UNCHANGED record
    BY <1>6 DEF UserStep, KeepOutput, OmitOutput, Approve, ApproveTurn, WebInterrupt, CtrlC,
         CtrlCOver, WebKeepInterrupted, Stall, Expire, Sweep, CancelCall, Recycle, record
  <2>2. AllCounted
    BY <1>6, OthersCount
  <2> QED
    BY <1>t, <2>1, <2>2, CountedAccounts
<1> QED
  BY <1>1, <1>2, <1>3, <1>4, <1>5, <1>6 DEF Next, CancelStep

-----------------------------------------------------------------------------
(* The event loop is kept. *)

\* A step of a runner finds the loop free, but for the death of its process, and
\* leaves the places of the others alone.
LEMMA RunnerAlone ==
  ASSUME Typed, Colocated, NEW i \in Invocations, RunnerStep(i) \/ FaultStep(i)
  PROVE  /\ \A j \in Invocations \ {i} :
              /\ phase'[j] = phase[j] /\ plan'[j] = plan[j]
              /\ todo'[j] = todo[j] /\ at'[j] = at[j]
         /\ UNCHANGED cancel
         /\ \/ ~Cancelling /\ \A j \in Invocations \ {i} : ~InLoop(j)
            \/ phase'[i] = "ended" /\ UNCHANGED <<calls, lease>>
<1>1. /\ phase = [j \in Invocations |-> phase[j]] /\ plan = [j \in Invocations |-> plan[j]]
      /\ todo = [j \in Invocations |-> todo[j]] /\ at = [j \in Invocations |-> at[j]]
  BY DEF Typed, WorkTyped
<1>2. CASE \/ Discover(i) \/ Acquire(i) \/ GiveWay(i) \/ PublishDenial(i) \/ RefuseDisallowed(i)
           \/ Start(i) \/ \E reason \in {"success", "error"} : Finish(i, reason)
  BY <1>1, <1>2 DEF Discover, Acquire, GiveWay, PublishDenial, RefuseDisallowed, Start, Finish,
       Working, MayRun, NextCall, Stay, GoTo, Expect
<1>3. CASE Finalize(i) \/ Publish(i) \/ RecoverOrphan(i) \/ RunResumed(i) \/ RecoverStranded(i)
  BY <1>1, <1>3 DEF Finalize, Publish, RecoverOrphan, RunResumed, RecoverStranded,
       Working, MayRun, NextCall, Stay, GoTo
<1>4. CASE \/ PublishRecovered(i) \/ EndWork(i) \/ Close(i) \/ Release(i) \/ LoseLease(i)
           \/ CancelTask(i) \/ Fail(i)
  BY <1>1, <1>4 DEF PublishRecovered, EndWork, Close, Release, LoseLease, CancelTask, Fail,
       Working, MayRun, GoTo
<1>5. CASE Crash(i)
  BY <1>1, <1>5 DEF Crash, GoTo, lease
<1> QED
  BY <1>2, <1>3, <1>4, <1>5 DEF RunnerStep, FaultStep

\* A step of a runner changes no call while another has the lease.
LEMMA Fenced ==
  ASSUME NEW i \in Invocations, NEW j \in Invocations, j # i, j # NoInvocation,
         RunnerStep(i) \/ FaultStep(i), owner' = j
  PROVE  owner = j /\ UNCHANGED calls
<1>1. owner = j
  BY DEF RunnerStep, FaultStep, Discover, Acquire, GiveWay, PublishDenial,
     RefuseDisallowed, Start, Finish, Finalize, Publish, RecoverOrphan, RunResumed,
     RecoverStranded, PublishRecovered, EndWork, Close, Release, LoseLease, CancelTask, Fail,
     Crash, lease
<1>2. CASE Finalize(i) \/ RecoverOrphan(i) \/ RecoverStranded(i)
  BY <1>1, <1>2 DEF Finalize, RecoverOrphan, RecoverStranded, lease, Owns
<1>3. CASE PublishDenial(i) \/ RefuseDisallowed(i) \/ Start(i) \/ Publish(i) \/ Close(i)
           \/ CancelTask(i) \/ \E reason \in {"success", "error"} : Finish(i, reason)
  BY <1>1, <1>3 DEF PublishDenial, RefuseDisallowed, Start, Publish, Close,
     CancelTask, Finish, lease, Owns
<1>4. CASE \/ Discover(i) \/ Acquire(i) \/ GiveWay(i) \/ RunResumed(i) \/ PublishRecovered(i)
           \/ EndWork(i) \/ Release(i) \/ LoseLease(i) \/ Fail(i) \/ Crash(i)
  BY <1>1, <1>4 DEF Discover, Acquire, GiveWay, RunResumed, PublishRecovered,
     EndWork, Release, LoseLease, Fail, Crash
<1> QED
  BY <1>1, <1>2, <1>3, <1>4 DEF RunnerStep, FaultStep

LEMMA LoopStep ==
  ASSUME Typed, Colocated, CallsSound, LoopSound, Next
  PROVE  LoopSound'
<1>1. ASSUME NEW i \in Invocations, RunnerStep(i) \/ FaultStep(i) PROVE LoopSound'
  <2>1. \A j \in Invocations \ {i} : InLoop(j)' <=> InLoop(j)
    BY <1>1, RunnerAlone DEF InLoop
  <2>2. UNCHANGED cancel /\ (Cancelling' <=> Cancelling)
    BY <1>1, RunnerAlone DEF Cancelling
  <2>3. CASE ~Cancelling /\ \A j \in Invocations \ {i} : ~InLoop(j)
    <3>1. DOMAIN cancel'.seen = {} /\ cancel'.owes = {}
      BY <2>2, <2>3 DEF Cancelling
    <3>2. phase'[i] = "planned" => at'[i] = "next"
      <4>1. CASE Discover(i)
        BY <4>1, Unmoved DEF Discover, Typed, WorkOf
      <4>2. CASE ~Discover(i)
        <5>1. phase'[i] # "planned"
          BY <1>1, <4>2, Unmoved DEF RunnerStep, FaultStep, Acquire, GiveWay, PublishDenial,
               RefuseDisallowed, Start, Finish, Finalize, Publish, RecoverOrphan, RunResumed,
               RecoverStranded, PublishRecovered, EndWork, Close, Release, LoseLease, CancelTask,
               Fail, Crash, Working, NextCall, Stay, GoTo, Typed, WorkTyped
        <5> QED
          BY <5>1
      <4> QED
        BY <4>1, <4>2
    <3>3. \A j \in Invocations \ {i} : phase'[j] = "planned" => at'[j] = "next"
      BY <1>1, RunnerAlone DEF LoopSound
    <3>4. \A j, k \in Invocations : InLoop(j)' /\ InLoop(k)' => j = k
      BY <2>1, <2>3
    <3> QED
      BY <2>2, <2>3, <3>1, <3>2, <3>3, <3>4 DEF LoopSound
  <2>4. CASE phase'[i] = "ended" /\ UNCHANGED <<calls, lease>>
    <3>1. ~InLoop(i)' /\ owner' = owner /\ calls' = calls
      BY <2>4 DEF InLoop, lease
    <3>2. \A j \in Invocations : phase'[j] = "planned" => at'[j] = "next"
      BY <1>1, <2>4, RunnerAlone DEF LoopSound
    <3> QED
      BY <2>1, <2>2, <3>1, <3>2 DEF LoopSound
  <2> QED
    BY <1>1, <2>3, <2>4, RunnerAlone
<1>2. ASSUME NEW i \in Invocations, Recycle(i) PROVE LoopSound'
  <2>1. \A j \in Invocations : /\ phase'[j] = (IF j = i THEN "new" ELSE phase[j])
                               /\ at'[j] = (IF j = i THEN "next" ELSE at[j])
    BY <1>2 DEF Recycle, GoTo, Typed, WorkTyped
  <2>2. owner' = owner /\ cancel' = cancel
    BY <1>2 DEF Recycle, lease
  <2>3. \A c \in Calls : calls'[c].published = calls[c].published
    BY <1>2, OthersCount DEF AllCounted, Counted
  <2>4. DOMAIN cancel.seen \cup cancel.owes \subseteq Calls
    BY DEF Typed, CancelTyped, Seeing
  <2> QED
    BY <2>1, <2>2, <2>3, <2>4 DEF LoopSound, InLoop, Cancelling
<1>3. CASE Stall \/ Expire \/ Sweep
  <2>1. /\ UNCHANGED <<calls, phase, at, cancel>>
        /\ owner' = owner \/ owner' = NoInvocation
    BY <1>3 DEF Stall, Expire, Sweep, work
  <2> QED
    BY <2>1 DEF LoopSound, InLoop, Cancelling
<1>4. CASE UserStep /\ ~CtrlC
  <2>1. /\ UNCHANGED <<phase, at>> /\ MayHandle
        /\ cancel'.seen = cancel.seen /\ cancel'.owes = cancel.owes
    BY <1>4 DEF UserStep, KeepOutput, OmitOutput, Approve, ApproveTurn, WebInterrupt, work,
         Typed, CancelTyped
  <2>2. DOMAIN cancel'.seen = {} /\ cancel'.owes = {}
    BY <2>1 DEF MayHandle, Cancelling
  <2> QED
    BY <2>1, <2>2 DEF LoopSound, InLoop, Cancelling
<1>5. CASE CtrlC
  <2>1. /\ UNCHANGED <<phase, at>> /\ \A j \in Invocations : ~InLoop(j)
        /\ cancel.owes = {} /\ owner' = NoInvocation
    BY <1>5 DEF CtrlC, CtrlCOver, MayHandle, Cancelling, work
  <2>2. /\ cancel'.owes = {}
        /\ \A c \in DOMAIN cancel'.seen : c \in Calls /\ StateOf(calls'[c]) # "TC6"
    <3> DEFINE met == {d \in Calls : StateOf(calls'[d]) \in {"TC1", "TC2.1", "TC2.2", "TC3", "TC4", "TC5"}}
    <3>1. cancel' = [cancel EXCEPT !.seen = [c \in {d \in Calls : StateOf(calls'[d]) \in
                        {"TC1", "TC2.1", "TC3", "TC4", "TC5"}} |-> Observe(calls'[c])]]
      BY <1>5 DEF CtrlC, CtrlCOver
    <3> QED
      BY <2>1, <3>1 DEF Typed, CancelTyped
  <2>3. \A c \in DOMAIN cancel'.seen : ~calls'[c].published
    BY <2>2 DEF StateOf
  <2> QED
    BY <2>1, <2>2, <2>3 DEF LoopSound, InLoop
<1>6. CASE CancelCall
  <2> DEFINE c == CancelNext
  <2>1. /\ UNCHANGED <<phase, at, owner>> /\ Cancelling
        /\ DOMAIN cancel'.seen = DOMAIN cancel.seen \ {c}
        /\ cancel'.owes \subseteq {c}
    BY <1>6 DEF CancelCall, Cancelling, work, lease, Typed, CancelTyped
  <2>2. c \in DOMAIN cancel.seen
    <3>1. DOMAIN cancel.seen \subseteq Calls /\ DOMAIN cancel.seen # {}
      BY <1>6 DEF CancelCall, Typed, CancelTyped, Seeing
    <3>2. DOMAIN cancel.seen \subseteq Nat
      BY <3>1, CallsAssumption
    <3> QED
      BY <3>1, <3>2, MinIn DEF CancelNext
  <2>3. \A d \in Calls : calls'[d].published = calls[d].published
    BY <1>6, OthersCount DEF AllCounted, Counted
  <2>4. DOMAIN cancel.seen \subseteq Calls
    BY DEF Typed, CancelTyped, Seeing
  <2> QED
    BY <2>1, <2>2, <2>3, <2>4 DEF LoopSound, InLoop
<1>7. CASE WebKeepInterrupted
  <2>1. /\ UNCHANGED <<phase, at, owner>>
        /\ cancel'.seen = cancel.seen /\ cancel'.owes = cancel.owes
    BY <1>7 DEF WebKeepInterrupted, work, lease, Typed, CancelTyped
  <2>2. \A d \in Calls : calls'[d].published = calls[d].published
    BY <1>7, OthersCount DEF AllCounted, Counted
  <2>3. DOMAIN cancel.seen \cup cancel.owes \subseteq Calls
    BY DEF Typed, CancelTyped, Seeing
  <2> QED
    BY <2>1, <2>2, <2>3 DEF LoopSound, InLoop, Cancelling
<1>8. ASSUME NEW c \in Calls, AnswerCancelled(c) PROVE LoopSound'
  <2>1. /\ UNCHANGED <<phase, at, owner>> /\ Cancelling
        /\ cancel'.seen = cancel.seen /\ cancel'.owes = {}
        /\ c \notin DOMAIN cancel.seen
    BY <1>8 DEF AnswerCancelled, work, lease, Typed, CancelTyped, Cancelling, LoopSound
  <2>2. \A d \in Calls \ {c} : calls'[d] = calls[d]
    BY <1>8 DEF AnswerCancelled, SetCall, Typed, CallsTyped
  <2>3. DOMAIN cancel.seen \subseteq Calls
    BY DEF Typed, CancelTyped, Seeing
  <2> QED
    BY <2>1, <2>2, <2>3 DEF LoopSound, InLoop
<1> QED
  BY <1>1, <1>2, <1>3, <1>4, <1>5, <1>6, <1>7, <1>8 DEF Next, CancelStep

-----------------------------------------------------------------------------
(* Plans stay good. *)

PlanSound(i) == PlanHolds(i) /\ OrphansUnfinished(i) /\ AtWork(i)

\* The plan of an invocation that does nothing, or only gets the lease.
LEMMA Bystander ==
  ASSUME Typed, Typed', CallsSound, AllFollow, NEW j \in Invocations, PlanSound(j),
         plan'[j] = plan[j], todo'[j] = todo[j], at'[j] = at[j],
         \/ phase'[j] = phase[j]
         \/ phase[j] = "planned" /\ at[j] = "next" /\ phase'[j] = "working",
         phase'[j] = "planned" \/ (phase'[j] = "working" /\ owner' = j) =>
            AllKeep /\ (phase[j] = "planned" \/ owner = j)
  PROVE  PlanSound(j)'
<1>t. todo[j] \subseteq Calls
  BY Unmoved DEF Typed, WorkOf, Planned, Seeing
<1>u. Untouched(j)' = Untouched(j) /\ Untouched(j) \subseteq Calls /\ Current(j)' = Current(j)
  BY <1>t DEF Untouched, Current
<1>1. PlanHolds(j)'
  <2> SUFFICES ASSUME phase'[j] = "planned" \/ (phase'[j] = "working" /\ owner' = j),
                      plan'[j].mode \in {"tools", "publish"}, NEW c \in Untouched(j)
               PROVE  State(c)' \in Steady /\ plan'[j].seen[c].state = State(c)'
    BY <1>u DEF PlanHolds
  <2>1. State(c) \in Steady /\ plan[j].seen[c].state = State(c)
    BY DEF PlanSound, PlanHolds
  <2>2. Keeps(calls[c], calls'[c])
    BY <1>u DEF AllKeep
  <2> QED
    BY <2>1, <2>2 DEF Keeps, State
<1>2. OrphansUnfinished(j)'
  <2> SUFFICES ASSUME phase'[j] \in {"planned", "working"}, plan'[j].mode = "orphaned",
                      NEW c \in Untouched(j)
               PROVE  /\ plan'[j].seen[c].version <= calls'[c].version
                      /\ plan'[j].seen[c].version = calls'[c].version => ~calls'[c].durable
    BY <1>u DEF OrphansUnfinished
  <2>1. /\ plan[j].seen[c].version <= calls[c].version
        /\ plan[j].seen[c].version = calls[c].version => ~calls[c].durable
    BY DEF PlanSound, OrphansUnfinished
  <2>2. Follows(calls[c], calls'[c])
    BY <1>u DEF AllFollow
  <2>3. calls[c].version \in Nat /\ calls'[c].version \in Nat /\ plan[j].seen[c].version \in Nat
    <3>1. calls[c] \in Call
      BY <1>u DEF Typed, CallsTyped
    <3>2. plan[j].seen[c] \in Observation
      BY Unmoved DEF Typed, WorkOf, Planned, Seeing, Untouched
    <3>3. calls'[c].version \in Nat
      BY <1>u DEF Typed, CallsTyped, Call
    <3> QED
      BY <3>1, <3>2, <3>3 DEF Call, Observation
  <2> QED
    BY <2>1, <2>2, <2>3 DEF Follows
<1>3. AtWork(j)'
  <2> SUFFICES ASSUME phase'[j] = "working"
               PROVE  /\ at'[j] = "running" /\ owner' = j => ~calls'[Current(j)].durable
                      /\ at'[j] = "resumed" => Current(j) \in Resumable
    BY <1>u DEF AtWork
  <2>1. CASE phase[j] = "planned" /\ at[j] = "next"
    BY <2>1
  <2>2. CASE phase[j] = "working"
    <3>1. ASSUME at'[j] = "running", owner' = j PROVE ~calls'[Current(j)].durable
      <4>1. AllKeep /\ owner = j
        BY <2>2, <3>1
      <4>2. ~calls[Current(j)].durable
        BY <2>2, <3>1, <4>1 DEF PlanSound, AtWork
      <4>3. Current(j) \in Calls
        BY <3>1, CurrentTyped, Unmoved DEF Typed, WorkOf
      <4> QED
        BY <4>1, <4>2, <4>3 DEF AllKeep, Keeps
    <3> QED
      BY <2>2, <3>1 DEF PlanSound, AtWork
  <2> QED
    BY <2>1, <2>2
<1> QED
  BY <1>1, <1>2, <1>3 DEF PlanSound

\* The plan of an invocation that begins with its current call, or is done with it.
LEMMA Ahead ==
  ASSUME Typed, Typed', CallsSound, AllFollow, NEW i \in Invocations, PlanSound(i),
         phase[i] = "working", phase'[i] = "working", owner' = owner,
         plan'[i].mode = plan[i].mode,
         \A d \in todo[i] \ {Current(i)} : plan'[i].seen[d] = plan[i].seen[d],
         Untouched(i)' \subseteq todo[i] \ {Current(i)},
         plan[i].mode \in {"tools", "publish"} =>
            \A d \in Calls \ {Current(i)} : calls'[d] = calls[d],
         at'[i] = "running" => ~calls'[Current(i)'].durable,
         at'[i] = "resumed" => Current(i)' \in Resumable
  PROVE  PlanSound(i)'
<1>t. todo[i] \subseteq Calls /\ todo[i] \ {Current(i)} \subseteq Untouched(i)
  BY Unmoved DEF Typed, WorkOf, Planned, Seeing, Untouched
<1>1. PlanHolds(i)'
  <2> SUFFICES ASSUME owner' = i, plan'[i].mode \in {"tools", "publish"}, NEW c \in Untouched(i)'
               PROVE  State(c)' \in Steady /\ plan'[i].seen[c].state = State(c)'
    BY DEF PlanHolds
  <2>1. State(c) \in Steady /\ plan[i].seen[c].state = State(c)
    BY <1>t DEF PlanSound, PlanHolds
  <2> QED
    BY <1>t, <2>1 DEF State
<1>2. OrphansUnfinished(i)'
  <2> SUFFICES ASSUME plan'[i].mode = "orphaned", NEW c \in Untouched(i)'
               PROVE  /\ plan'[i].seen[c].version <= calls'[c].version
                      /\ plan'[i].seen[c].version = calls'[c].version => ~calls'[c].durable
    BY DEF OrphansUnfinished
  <2>0. c \in Calls /\ c \in Untouched(i) /\ plan'[i].seen[c] = plan[i].seen[c]
    BY <1>t
  <2>1. /\ plan[i].seen[c].version <= calls[c].version
        /\ plan[i].seen[c].version = calls[c].version => ~calls[c].durable
    BY <2>0 DEF PlanSound, OrphansUnfinished
  <2>2. Follows(calls[c], calls'[c])
    BY <2>0 DEF AllFollow
  <2>3. calls[c].version \in Nat /\ calls'[c].version \in Nat /\ plan[i].seen[c].version \in Nat
    <3>1. calls[c].version \in Nat /\ calls'[c].version \in Nat
      BY <2>0 DEF Typed, CallsTyped, Call
    <3>2. plan[i].seen[c] \in Observation
      BY <1>t, Unmoved DEF Typed, WorkOf, Planned, Seeing
    <3> QED
      BY <3>1, <3>2 DEF Observation
  <2> QED
    BY <2>0, <2>1, <2>2, <2>3 DEF Follows
<1> QED
  BY <1>1, <1>2 DEF PlanSound, AtWork

\* A plan nobody works from.
LEMMA Over ==
  ASSUME NEW i, phase'[i] \notin {"planned", "working"}
  PROVE  PlanSound(i)'
BY DEF PlanSound, PlanHolds, OrphansUnfinished, AtWork

\* Looking for work makes a good plan.
LEMMA DiscoverPlans ==
  ASSUME Typed, CallsSound, NEW i \in Invocations, Discover(i)
  PROVE  PlanSound(i)'
<1>1. /\ plan'[i] = Actionable /\ at'[i] = "next" /\ todo'[i] = DOMAIN Actionable.seen
      /\ phase'[i] = "planned" /\ calls' = calls
  BY Unmoved DEF Discover, GoTo, Typed, WorkTyped, WorkOf
<1> DEFINE orphans == {c \in Calls : Orphaned(c)}
           stranded == {c \in Calls : Stranded(c)}
           user == {c \in UserCalls : Runnable(c)}
           assistant == {c \in Calls \ UserCalls : Runnable(c)}
           undecided == stranded \cup {c \in Calls : State(c) = "TC5"}
<1>2. Actionable \in {Batch("orphaned", orphans, orphans), Batch("stranded", stranded, undecided),
                      Batch("tools", user, user), Batch("tools", assistant, assistant), NoPlan}
  BY DEF Actionable
<1>3. ASSUME NEW mode, NEW chosen, NEW cs, Actionable = Batch(mode, chosen, cs)
      PROVE  /\ Actionable.mode = mode
             /\ \A c \in DOMAIN Actionable.seen : c \in cs /\ Actionable.seen[c] = Observe(calls[c])
  BY <1>3 DEF Batch, ObserveAll, SameParent
<1>o. \A c : Observe(calls[c]).state = State(c) /\ Observe(calls[c]).version = calls[c].version
  BY DEF Observe, State
<1>4. Actionable = NoPlan => Actionable.mode = "none"
  BY DEF NoPlan
<1>5. \A c \in orphans : c \in Calls /\ ~calls[c].durable
  <2>1. ASSUME NEW c \in Calls, State(c) = "TC3" PROVE ~calls[c].durable
    BY <2>1, Undone DEF Typed, CallsTyped, CallsSound, State
  <2> QED
    BY <2>1 DEF Orphaned
<1>6. /\ \A c \in user : State(c) \in Steady
      /\ \A c \in assistant : State(c) \in Steady
  BY DEF Runnable, Steady
<1> HIDE DEF orphans, stranded, user, assistant, undecided
<1>7. /\ Actionable.mode \in {"tools", "publish"} =>
           \A c \in DOMAIN Actionable.seen :
              State(c) \in Steady /\ Actionable.seen[c].state = State(c)
      /\ Actionable.mode = "orphaned" =>
           \A c \in DOMAIN Actionable.seen :
              c \in Calls /\ ~calls[c].durable /\ Actionable.seen[c].version = calls[c].version
  <2>1. CASE Actionable = Batch("orphaned", orphans, orphans)
    <3>1. /\ Actionable.mode = "orphaned"
          /\ \A c \in DOMAIN Actionable.seen :
               c \in orphans /\ Actionable.seen[c] = Observe(calls[c])
      BY <1>3, <2>1
    <3> QED
      BY <1>5, <1>o, <3>1
  <2>2. CASE Actionable = Batch("stranded", stranded, undecided)
    BY <1>3, <2>2
  <2>3. CASE Actionable = Batch("tools", user, user)
    <3>1. /\ Actionable.mode = "tools"
          /\ \A c \in DOMAIN Actionable.seen :
               c \in user /\ Actionable.seen[c] = Observe(calls[c])
      BY <1>3, <2>3
    <3> QED
      BY <1>6, <1>o, <3>1
  <2>4. CASE Actionable = Batch("tools", assistant, assistant)
    <3>1. /\ Actionable.mode = "tools"
          /\ \A c \in DOMAIN Actionable.seen :
               c \in assistant /\ Actionable.seen[c] = Observe(calls[c])
      BY <1>3, <2>4
    <3> QED
      BY <1>6, <1>o, <3>1
  <2> QED
    BY <1>2, <1>4, <2>1, <2>2, <2>3, <2>4
<1>8. Untouched(i)' \subseteq DOMAIN Actionable.seen
  BY <1>1 DEF Untouched
<1>9. \A c \in Calls : calls[c].version \in Nat
  BY DEF Typed, CallsTyped, Call
<1>10. PlanHolds(i)'
  BY <1>1, <1>7, <1>8 DEF PlanHolds, State
<1>11. OrphansUnfinished(i)'
  BY <1>1, <1>7, <1>8, <1>9 DEF OrphansUnfinished
<1>12. AtWork(i)'
  BY <1>1 DEF AtWork
<1> QED
  BY <1>10, <1>11, <1>12 DEF PlanSound

LEMMA NextCallPlans ==
  ASSUME Typed, Typed', CallsSound, AllFollow, NEW i \in Invocations, PlanSound(i), NextCall(i),
         phase[i] = "working", owner' = owner,
         plan[i].mode \in {"tools", "publish"} =>
            \A d \in Calls \ {Current(i)} : calls'[d] = calls[d]
  PROVE  PlanSound(i)'
<1>1. /\ phase'[i] = phase[i] /\ plan'[i] = plan[i] /\ at'[i] = "next"
      /\ todo'[i] = todo[i] \ {Current(i)}
  BY Unmoved DEF NextCall, Typed, WorkTyped
<1>2. Untouched(i)' \subseteq todo[i] \ {Current(i)}
  BY <1>1 DEF Untouched
<1> QED
  BY <1>1, <1>2, Ahead

LEMMA StayPlans ==
  ASSUME Typed, Typed', CallsSound, AllFollow, NEW i \in Invocations, PlanSound(i),
         phase[i] = "working", owner' = owner,
         phase'[i] = phase[i], todo'[i] = todo[i], at'[i] # "next",
         plan'[i].mode = plan[i].mode,
         \A d \in todo[i] \ {Current(i)} : plan'[i].seen[d] = plan[i].seen[d],
         plan[i].mode \in {"tools", "publish"} =>
            \A d \in Calls \ {Current(i)} : calls'[d] = calls[d],
         at'[i] = "running" => ~calls'[Current(i)].durable,
         at'[i] = "resumed" => Current(i) \in Resumable
  PROVE  PlanSound(i)'
<1>1. Current(i)' = Current(i)
  BY DEF Current
<1>2. Untouched(i)' \subseteq todo[i] \ {Current(i)}
  BY <1>1 DEF Untouched
<1> QED
  BY <1>1, <1>2, Ahead

\* Whatever a runner does, its own plan stays good.
LEMMA ActorSound ==
  ASSUME Typed, Typed', CallsSound, LoopSound, WorkSound, AllFollow,
         NEW i \in Invocations, RunnerStep(i) \/ FaultStep(i)
  PROVE  PlanSound(i)'
<1> DEFINE c == Current(i)
<1>t. CallsTyped /\ PlanSound(i)
  BY DEF Typed, WorkSound, PlanSound
<1>f. /\ phase = [j \in Invocations |-> phase[j]] /\ plan = [j \in Invocations |-> plan[j]]
      /\ todo = [j \in Invocations |-> todo[j]] /\ at = [j \in Invocations |-> at[j]]
  BY DEF Typed, WorkTyped
<1>1. CASE Discover(i)
  BY <1>1, DiscoverPlans
<1>2. CASE Acquire(i)
  <2>1. /\ phase[i] = "planned" /\ phase'[i] = "working" /\ plan'[i] = plan[i]
        /\ todo'[i] = todo[i] /\ at'[i] = at[i]
    BY <1>2, <1>f DEF Acquire, GoTo
  <2>2. at[i] = "next"
    BY <2>1 DEF LoopSound
  <2>3. UNCHANGED calls \/ (owner # NoInvocation /\ calls' = OwnerGone(owner, TRUE))
    BY <1>2 DEF Acquire
  <2>4. AllKeep
    BY <1>t, <2>3, GoneKeeps, NoneKeeps
  <2> QED
    BY <1>t, <2>1, <2>2, <2>4, Bystander
<1>3. CASE \/ GiveWay(i) \/ EndWork(i) \/ Close(i) \/ Release(i) \/ LoseLease(i)
           \/ Fail(i) \/ Crash(i)
  <2>1. phase'[i] \notin {"planned", "working"}
    BY <1>3, <1>f DEF GiveWay, EndWork, Close, Release, LoseLease, Fail, Crash, GoTo
  <2> QED
    BY <2>1, Over
<1>4. CASE PublishDenial(i) \/ Publish(i)
  <2>1. /\ c \in Calls /\ phase[i] = "working" /\ owner' = owner
        /\ NextCall(i) /\ SetCall(c, Published(calls[c]))
    BY <1>4, AtWhere DEF PublishDenial, Publish, lease
  <2>2. \A d \in Calls \ {c} : calls'[d] = calls[d]
    BY <1>t, <2>1 DEF SetCall, CallsTyped
  <2> QED
    BY <1>t, <2>1, <2>2, NextCallPlans
<1>5. CASE Finalize(i)
  <2>1. c \in Calls /\ phase[i] = "working" /\ owner' = owner
    BY <1>5, AtWhere DEF Finalize, lease
  <2>2. \/ NextCall(i) /\ (UNCHANGED calls \/ SetCall(c, Decided(calls[c], "whole", "automatic")))
        \/ GoTo(i, "closing")
    BY <1>5 DEF Finalize
  <2>3. CASE GoTo(i, "closing")
    <3>1. phase'[i] = "closing"
      BY <1>f, <2>3 DEF GoTo
    <3> QED
      BY <3>1, Over
  <2>4. CASE NextCall(i) /\ (UNCHANGED calls \/ SetCall(c, Decided(calls[c], "whole", "automatic")))
    <3>1. \A d \in Calls \ {c} : calls'[d] = calls[d]
      BY <1>t, <2>4 DEF SetCall, CallsTyped
    <3> QED
      BY <1>t, <2>1, <2>4, <3>1, NextCallPlans
  <2> QED
    BY <2>2, <2>3, <2>4
<1>6. CASE RecoverStranded(i)
  <2>1. /\ c \in Calls /\ phase[i] = "working" /\ at[i] = "next" /\ owner' = owner
        /\ plan[i].mode = "stranded"
    BY <1>6, AtWhere DEF RecoverStranded, lease
  <2>2. \/ NextCall(i)
        \/ todo' = [todo EXCEPT ![i] = {}] /\ UNCHANGED <<phase, plan, at>>
    BY <1>6 DEF RecoverStranded
  <2>3. CASE NextCall(i)
    BY <1>t, <2>1, <2>3, NextCallPlans
  <2>4. CASE todo' = [todo EXCEPT ![i] = {}] /\ UNCHANGED <<phase, plan, at>>
    <3>1. plan'[i].mode = "stranded" /\ at'[i] = "next"
      BY <2>1, <2>4
    <3> QED
      BY <3>1 DEF PlanSound, PlanHolds, OrphansUnfinished, AtWork
  <2> QED
    BY <2>2, <2>3, <2>4
<1>7. CASE RunResumed(i)
  <2>1. /\ c \in Calls /\ calls[c] \in Call /\ phase[i] = "working" /\ owner' = owner
        /\ calls' = calls
    BY <1>7, AtWhere DEF RunResumed, lease
  <2>2. NextCall(i) \/ (State(c) = "TC3" /\ Stay(i, "running"))
    BY <1>7 DEF RunResumed
  <2>3. CASE NextCall(i)
    BY <1>t, <2>1, <2>3, NextCallPlans
  <2>4. CASE State(c) = "TC3" /\ Stay(i, "running")
    <3>1. /\ phase'[i] = phase[i] /\ todo'[i] = todo[i] /\ plan'[i] = plan[i]
          /\ at'[i] = "running"
      BY <1>f, <2>4 DEF Stay
    <3>2. ~calls[c].durable
      BY <2>1, <2>4, Undone DEF State, CallsSound
    <3> QED
      BY <1>t, <2>1, <3>1, <3>2, StayPlans
  <2> QED
    BY <2>2, <2>3, <2>4
<1>8. CASE RecoverOrphan(i)
  <2>1. c \in Calls /\ phase[i] = "working" /\ owner' = owner /\ plan[i].mode = "orphaned"
    BY <1>8, AtWhere DEF RecoverOrphan, lease
  <2>2. NextCall(i) \/ (c \in Resumable /\ Stay(i, "resumed"))
    BY <1>8 DEF RecoverOrphan
  <2>3. CASE NextCall(i)
    BY <1>t, <2>1, <2>3, NextCallPlans
  <2>4. CASE c \in Resumable /\ Stay(i, "resumed")
    <3>1. /\ phase'[i] = phase[i] /\ todo'[i] = todo[i] /\ plan'[i] = plan[i]
          /\ at'[i] = "resumed"
      BY <1>f, <2>4 DEF Stay
    <3> QED
      BY <1>t, <2>1, <2>4, <3>1, StayPlans
  <2> QED
    BY <2>2, <2>3, <2>4
<1>9. CASE Start(i)
  <2>1. /\ c \in Calls /\ calls[c] \in Call /\ phase[i] = "working" /\ owner' = owner
        /\ owner = i /\ Working(i, {"tools"}, "next") /\ Seen(i).state = "TC2.1"
        /\ SetCall(c, Started(calls[c], i)) /\ Stay(i, "running")
    BY <1>9, AtWhere DEF Start, lease, Owns
  <2>2. State(c) = "TC2.1"
    BY <2>1, AtNext, AtWhere
  <2>3. ~calls[c].durable
    BY <2>1, <2>2, Undone DEF State, CallsSound
  <2>4. calls'[c] = Started(calls[c], i) /\ \A d \in Calls \ {c} : calls'[d] = calls[d]
    BY <1>t, <2>1 DEF SetCall, CallsTyped
  <2>5. ~calls'[c].durable
    BY <2>1, <2>3, <2>4 DEF Started, Call
  <2>6. /\ phase'[i] = phase[i] /\ todo'[i] = todo[i] /\ plan'[i] = plan[i]
        /\ at'[i] = "running"
    BY <1>f, <2>1 DEF Stay
  <2> QED
    BY <1>t, <2>1, <2>4, <2>5, <2>6, StayPlans
<1>10. CASE RefuseDisallowed(i) \/ \E reason \in {"success", "error"} : Finish(i, reason)
  <2>1. /\ c \in Calls /\ calls[c] \in Call /\ phase[i] = "working" /\ owner' = owner
    BY <1>10, AtWhere DEF RefuseDisallowed, Finish, lease
  <2>2. PICK reason : SetCall(c, Finished(calls[c], reason))
    BY <1>10 DEF RefuseDisallowed, Finish
  <2>3. \A d \in Calls \ {c} : calls'[d] = calls[d]
    BY <1>t, <2>1, <2>2 DEF SetCall, CallsTyped
  <2>4. /\ Expect(i, c, calls[c].version + 1) /\ at' = [at EXCEPT ![i] = "deciding"]
        /\ UNCHANGED <<phase, todo>>
    BY <1>10 DEF RefuseDisallowed, Finish
  <2>5. Planned(plan[i]) /\ todo[i] \subseteq DOMAIN plan[i].seen
    BY Unmoved DEF Typed, WorkOf
  <2>6. /\ phase'[i] = phase[i] /\ todo'[i] = todo[i] /\ at'[i] = "deciding"
        /\ plan'[i].mode = plan[i].mode
        /\ \A d \in todo[i] \ {c} : plan'[i].seen[d] = plan[i].seen[d]
    BY <1>f, <2>4, <2>5 DEF Expect, Planned, Seeing
  <2> QED
    BY <1>t, <2>1, <2>3, <2>6, StayPlans
<1>11. CASE PublishRecovered(i)
  <2>1. /\ phase[i] = "working" /\ todo[i] = {} /\ UNCHANGED <<calls, phase, at>>
        /\ plan'[i] = [mode |-> "publish", seen |-> ObserveAll(Publishable(i))]
        /\ todo'[i] = Publishable(i)
    BY <1>11, <1>f DEF PublishRecovered
  <2>2. at[i] = "next"
    BY <2>1, Unmoved DEF Typed, WorkOf
  <2>3. ASSUME NEW d \in Publishable(i)
        PROVE  State(d) = "TC5" /\ plan'[i].seen[d].state = State(d)
    <3>1. plan'[i].seen[d] = Observe(calls[d])
      BY <2>1 DEF ObserveAll
    <3>2. Observe(calls[d]).state = State(d)
      BY DEF Observe, State
    <3> QED
      BY <3>1, <3>2 DEF Publishable
  <2>4. Untouched(i)' \subseteq Publishable(i)
    BY <2>1 DEF Untouched
  <2>5. PlanHolds(i)'
    <3> SUFFICES ASSUME NEW d \in Untouched(i)'
                 PROVE  State(d)' \in Steady /\ plan'[i].seen[d].state = State(d)'
      BY DEF PlanHolds
    <3>1. State(d)' = State(d)
      BY <2>1 DEF State
    <3> QED
      BY <2>3, <2>4, <3>1 DEF Steady
  <2> QED
    BY <2>1, <2>2, <2>5 DEF PlanSound, OrphansUnfinished, AtWork
<1>12. CASE CancelTask(i)
  <2>1. c \in Calls /\ todo'[i] = {c} /\ at'[i] = "deciding"
    BY <1>12, <1>f, AtWhere DEF CancelTask
  <2>2. Current(i)' = c
    <3>1. {c} \subseteq Nat /\ {c} # {}
      BY <2>1, CallsAssumption
    <3>2. Min({c}) \in {c}
      BY ONLY <3>1, MinIn
    <3> QED
      BY <2>1, <3>2 DEF Current
  <2>3. Untouched(i)' = {}
    BY <2>1, <2>2 DEF Untouched
  <2> QED
    BY <2>1, <2>3 DEF PlanSound, PlanHolds, OrphansUnfinished, AtWork
<1> QED
  BY <1>1, <1>2, <1>3, <1>4, <1>5, <1>6, <1>7, <1>8, <1>9, <1>10, <1>11, <1>12
     DEF RunnerStep, FaultStep

LEMMA WorkSoundStep ==
  ASSUME Typed, Typed', Colocated, CallsSound, LoopSound, WorkSound, AllFollow, Next
  PROVE  WorkSound'
<1> SUFFICES ASSUME NEW j \in Invocations PROVE PlanSound(j)'
  BY DEF WorkSound, PlanSound
<1>t. CallsTyped /\ PlanSound(j) /\ j # NoInvocation
  BY CallsAssumption DEF Typed, WorkSound, PlanSound
<1>1. ASSUME NEW i \in Invocations, RunnerStep(i) \/ FaultStep(i) PROVE PlanSound(j)'
  <2>1. CASE j = i
    BY <1>1, <2>1, ActorSound
  <2>2. CASE j # i
    <3>1. /\ phase'[j] = phase[j] /\ plan'[j] = plan[j] /\ todo'[j] = todo[j] /\ at'[j] = at[j]
      BY <1>1, <2>2, RunnerAlone
    <3>2. owner' = j => owner = j /\ UNCHANGED calls
      BY <1>1, <1>t, <2>2, Fenced
    <3>4. phase'[j] = "planned" => UNCHANGED calls
      BY <1>1, <2>2, <3>1, RunnerAlone DEF InLoop
    <3>5. phase'[j] = "planned" \/ (phase'[j] = "working" /\ owner' = j) =>
            AllKeep /\ (phase[j] = "planned" \/ owner = j)
      BY <1>t, <3>1, <3>2, <3>4, NoneKeeps
    <3> QED
      BY <1>t, <3>1, <3>5, Bystander
  <2> QED
    BY <2>1, <2>2
<1>2. ASSUME NEW i \in Invocations, Recycle(i) PROVE PlanSound(j)'
  <2>1. AllKeep
    BY <1>2, RecycleKeeps
  <2>2. CASE j = i
    <3>1. phase'[j] = "new"
      BY <1>2, <2>2 DEF Recycle, GoTo, Typed, WorkTyped
    <3> QED
      BY <3>1, Over
  <2>3. CASE j # i
    <3>1. /\ phase'[j] = phase[j] /\ plan'[j] = plan[j] /\ todo'[j] = todo[j] /\ at'[j] = at[j]
          /\ owner' = owner
      BY <1>2, <2>3 DEF Recycle, GoTo, Typed, WorkTyped, lease
    <3> QED
      BY <1>t, <2>1, <3>1, Bystander
  <2> QED
    BY <2>2, <2>3
<1>3. CASE UserStep \/ WebKeepInterrupted \/ Stall \/ Expire \/ Sweep
  <2>1. AllKeep
    BY <1>3, OthersKeep
  <2>2. UNCHANGED work /\ (owner' = owner \/ owner' = NoInvocation)
    BY <1>3 DEF UserStep, KeepOutput, OmitOutput, Approve, ApproveTurn, WebInterrupt, CtrlC,
       CtrlCOver, WebKeepInterrupted, Stall, Expire, Sweep, lease
  <2> QED
    BY <1>t, <2>1, <2>2, Bystander DEF work
<1>4. CASE CancelCall \/ \E c \in Calls : AnswerCancelled(c)
  <2>1. UNCHANGED work /\ owner' = owner /\ Cancelling
    BY <1>4 DEF CancelCall, AnswerCancelled, Cancelling, lease
  <2>2. owner = NoInvocation /\ ~InLoop(j)
    BY <2>1 DEF LoopSound
  <2>3. /\ phase'[j] = phase[j] /\ plan'[j] = plan[j] /\ todo'[j] = todo[j] /\ at'[j] = at[j]
    BY <2>1 DEF work
  <2>4. ~(phase'[j] = "planned" \/ (phase'[j] = "working" /\ owner' = j))
    BY <1>t, <2>1, <2>2, <2>3 DEF InLoop
  <2> QED
    BY <1>t, <2>3, <2>4, Bystander
<1> QED
  BY <1>1, <1>2, <1>3, <1>4 DEF Next, CancelStep

-----------------------------------------------------------------------------
(* Theorems. *)

LEMMA LoopInvStep == Colocated /\ IInv /\ LoopInv /\ [Next]_vars => LoopInv'
<1> SUFFICES ASSUME Colocated, Typed, LoopInv, [Next]_vars PROVE LoopInv'
  BY Parts DEF Typed
<1>1. CASE Next
  <2>1. CallsSound /\ LoopSound /\ WorkSound
    BY DEF LoopInv
  <2>2. Typed'
    <3>1. IInv
      BY Parts DEF Typed
    <3>2. IInv'
      BY <1>1, <3>1, InvariantStep
    <3>3. IInv' <=> Typed'
      BY Parts, PTL DEF Typed
    <3> QED
      BY <3>2, <3>3
  <2>3. AllFollow
    BY <1>1, <2>1, RunnerFollows, RecycleKeeps, OthersKeep, CancelFollows DEF Next, CancelStep
  <2>4. \A c \in Calls : Accounted(c)'
    BY <1>1, <2>1, AccountsStep
  <2>5. CallsSound'
    BY <2>3, <2>4 DEF CallsSound, AllFollow, Follows
  <2> QED
    BY <1>1, <2>1, <2>2, <2>3, <2>5, LoopStep, WorkSoundStep DEF LoopInv
<1>2. CASE UNCHANGED vars
  <2>1. /\ UNCHANGED <<calls, owner, live, phase, plan, todo, at, cancel>>
        /\ UNCHANGED <<executions, results>>
    BY <1>2 DEF vars, lease, work, record
  <2>2. CallsSound'
    BY <2>1 DEF LoopInv, CallsSound, Accounted
  <2>3. LoopSound'
    BY <2>1 DEF LoopInv, LoopSound, InLoop, Cancelling
  <2>4. \A i \in Invocations : Untouched(i)' = Untouched(i) /\ Current(i)' = Current(i)
    BY <2>1 DEF Untouched, Current
  <2>5. WorkSound'
    BY <2>1, <2>4 DEF LoopInv, WorkSound, PlanHolds, OrphansUnfinished, AtWork, State
  <2> QED
    BY <2>2, <2>3, <2>5 DEF LoopInv
<1> QED
  BY <1>1, <1>2

LEMMA LoopInvInit == Init => LoopInv
<1> SUFFICES ASSUME Init PROVE LoopInv
  OBVIOUS
<1>1. CallsSound
  <2>1. Len(<<>>) = 0
    OBVIOUS
  <2> QED
    BY <2>1 DEF Init, CallsSound, Sound, Accounted
<1>2. LoopSound
  <2>1. DOMAIN ObserveAll({}) = {}
    BY DEF ObserveAll
  <2> QED
    BY <2>1 DEF Init, LoopSound, InLoop, Cancelling
<1>3. WorkSound
  BY DEF Init, WorkSound, PlanHolds, OrphansUnfinished, AtWork
<1> QED
  BY <1>1, <1>2, <1>3 DEF LoopInv

THEOREM LoopInvariant == ASSUME Colocated PROVE Spec => []LoopInv
BY LoopInvInit, LoopInvStep, InvariantInit, InvariantStep, PTL DEF Spec

\* In one event loop the side effects of a tool happen once, whatever crashes,
\* stalls, expires or is interrupted; only resumable tools run again.
THEOREM RunsOnce == ASSUME Colocated PROVE Spec => []RunOnce
<1>1. LoopInv => RunOnce
  BY DEF LoopInv, CallsSound, Accounted, RunOnce
<1> QED
  BY <1>1, LoopInvariant, PTL

\* In one event loop a call has at most one tool message.
THEOREM OneResultEach == ASSUME Colocated PROVE Spec => []OneResult
<1>1. LoopInv => OneResult
  <2> SUFFICES ASSUME LoopInv, NEW c \in Calls PROVE Len(results[c]) <= 1
    BY DEF OneResult
  <2>1. results[c] = <<>> \/ Len(results[c]) = 1
    BY DEF LoopInv, CallsSound, Accounted
  <2>2. Len(<<>>) = 0
    OBVIOUS
  <2>3. CASE results[c] = <<>>
    BY <2>2, <2>3
  <2>4. CASE Len(results[c]) = 1
    BY <2>4
  <2> QED
    BY <2>1, <2>3, <2>4
<1> QED
  BY <1>1, LoopInvariant, PTL

\* In one event loop a finish on record is never forgotten.
THEOREM FinishesStay == ASSUME Colocated PROVE Spec => FinishIsFinal
<1>1. IInv /\ LoopInv /\ [Next]_vars =>
        [\A c \in Calls : calls[c].durable => calls'[c].finished = calls[c].finished]_vars
  <2> SUFFICES ASSUME Typed, LoopInv, Next, NEW c \in Calls, calls[c].durable
               PROVE  calls'[c].finished = calls[c].finished
    BY Parts DEF Typed
  <2>1. AllFollow
    BY RunnerFollows, RecycleKeeps, OthersKeep, CancelFollows DEF LoopInv, Next, CancelStep
  <2> QED
    BY <2>1 DEF AllFollow, Follows
<1> QED
  BY <1>1, LoopInvariant, InvariantInit, InvariantStep, PTL DEF Spec, FinishIsFinal

\* In one event loop a tool is set running only while somebody wants it run.
THEOREM RunsOnlyIfWanted == ASSUME Colocated PROVE Spec => RunOnlyIfWanted
<1>1. IInv /\ LoopInv /\ [Next]_vars =>
        [\A c \in Calls : executions'[c] # executions[c] =>
           \/ State(c) = "TC2.1"
           \/ c \in Resumable /\ State(c) = "TC3" /\ calls[c].decision = "none"]_vars
  <2> SUFFICES ASSUME Typed, LoopInv, Next, NEW d \in Calls, executions'[d] # executions[d]
               PROVE  \/ State(d) = "TC2.1"
                      \/ d \in Resumable /\ State(d) = "TC3" /\ calls[d].decision = "none"
    BY Parts DEF Typed
  <2>t. CallsTyped /\ RecordTyped /\ WorkSound
    BY DEF Typed, LoopInv
  <2>1. PICK i \in Invocations : Start(i) \/ RunResumed(i)
    BY DEF Next, RunnerStep, FaultStep, UserStep, CancelStep, Discover, Acquire, GiveWay,
       PublishDenial, RefuseDisallowed, Finish, Finalize, Publish, RecoverOrphan, RecoverStranded,
       PublishRecovered, EndWork, Close, Release, LoseLease, CancelTask, Fail, Crash, Recycle,
       Stall, Expire, Sweep, KeepOutput, OmitOutput, Approve, ApproveTurn, WebInterrupt, CtrlC,
       CtrlCOver, CancelCall, WebKeepInterrupted, AnswerCancelled, record
  <2>2. CASE Start(i)
    <3>1. Working(i, {"tools"}, "next") /\ owner = i /\ Seen(i).state = "TC2.1"
      BY <2>2 DEF Start, Owns
    <3>2. State(Current(i)) = "TC2.1"
      BY <2>t, <3>1, AtNext, AtWhere
    <3>3. executions' = [executions EXCEPT ![Current(i)] = @ + 1]
      BY <2>2 DEF Start
    <3> QED
      BY <2>t, <3>2, <3>3 DEF RecordTyped
  <2>3. CASE RunResumed(i)
    <3>1. Working(i, {"orphaned"}, "resumed")
      BY <2>3 DEF RunResumed
    <3>2. Current(i) \in Resumable
      BY <2>t, <3>1, AtWhere DEF WorkSound, AtWork
    <3>3. State(Current(i)) = "TC3" /\ executions' = [executions EXCEPT ![Current(i)] = @ + 1]
      BY <2>3 DEF RunResumed
    <3>4. calls[Current(i)].decision = "none"
      BY <3>3, StateDecision DEF State
    <3> QED
      BY <2>t, <3>2, <3>3, <3>4 DEF RecordTyped
  <2> QED
    BY <2>1, <2>2, <2>3
<1> QED
  BY <1>1, LoopInvariant, InvariantInit, InvariantStep, PTL DEF Spec, RunOnlyIfWanted

-----------------------------------------------------------------------------
(* The detailed calls go the way of the abstract ones.                     *)

\* The ways of a call on which it is neither run nor answered.
Moves(t, u) ==
  \/ StageOf(u) = StageOf(t)
  \/ StageOf(t) = "asked" /\ StageOf(u) \in {"granted", "refused"}
  \/ StageOf(t) \in {"granted", "running"} /\ StageOf(u) = "returned"
  \/ StageOf(t) = "running" /\ StageOf(u) = "lost"
  \/ StageOf(t) \in {"granted", "running", "lost", "returned"} /\ StageOf(u) = "decided"

\* Only a decision is explicit.
Explicit(t) == t.decider = "explicit" => t.decision # "none"

LEMMA StageState ==
  ASSUME NEW t \in Call
  PROVE  /\ StageOf(t) = "asked" <=> StateOf(t) = "TC1"
         /\ StageOf(t) = "granted" <=> StateOf(t) = "TC2.1"
         /\ StageOf(t) = "refused" <=> StateOf(t) = "TC2.2"
         /\ StageOf(t) = "running" <=> StateOf(t) = "TC3"
         /\ StageOf(t) = "lost" <=> StateOf(t) = "TC4" /\ ~t.durable
         /\ StageOf(t) = "returned" <=> StateOf(t) = "TC4" /\ t.durable
         /\ StageOf(t) = "decided" <=> StateOf(t) = "TC5"
         /\ StageOf(t) = "answered" <=> StateOf(t) = "TC6"
<1>1. StateOf(t) \in States /\ t.durable \in BOOLEAN
  BY StateDecision DEF Call
<1> QED
  BY <1>1 DEF StageOf, States

\* The stage of a call, field by field.
LEMMA StageFields ==
  ASSUME NEW u
  PROVE  /\ u.published => StageOf(u) = "answered"
         /\ ~u.published /\ u.decision # "none" => StageOf(u) = "decided"
         /\ ~u.published /\ u.decision = "none" /\ u.finished # "none" /\ u.durable
              => StageOf(u) = "returned"
         /\ ~u.published /\ u.decision = "none" /\ u.finished # "none" /\ ~u.durable
              => StageOf(u) = "lost"
         /\ ~u.published /\ u.decision = "none" /\ u.finished = "none" /\ u.started
              => StageOf(u) = "running"
         /\ ~u.published /\ u.decision = "none" /\ u.finished = "none" /\ ~u.started =>
              /\ u.approval = "granted" => StageOf(u) = "granted"
              /\ u.approval = "denied" => StageOf(u) = "refused"
<1>1. StateOf(u) = IF u.published THEN "TC6" ELSE IF u.decision # "none" THEN "TC5"
                   ELSE IF u.finished # "none" THEN "TC4" ELSE IF u.started THEN "TC3"
                   ELSE IF u.approval = "granted" THEN "TC2.1"
                   ELSE IF u.approval = "denied" THEN "TC2.2" ELSE "TC1"
  BY DEF StateOf
<1> QED
  BY <1>1 DEF StageOf

LEMMA EffectsMove ==
  ASSUME NEW t \in Call, Sound(t), NEW i, NEW r, r # "none", NEW d, d # "none", NEW by,
         NEW a \in {"granted", "denied"}
  PROVE  /\ StateOf(t) = "TC1" => Moves(t, Approved(t, a))
         /\ StateOf(t) = "TC2.1" => StageOf(Started(t, i)) = "running"
         /\ StateOf(t) \in {"TC2.1", "TC3"} => Moves(t, Finished(t, r))
         /\ StateOf(t) \in {"TC2.1", "TC3", "TC4", "TC5"} => Moves(t, Decided(t, d, by))
         /\ ~t.published => StageOf(Resumed(t, i)) = "running" /\ StageOf(Decided(t, d, by)) = "decided"
         /\ StageOf(Published(t)) = "answered"
<1>t. /\ t.started \in BOOLEAN /\ t.durable \in BOOLEAN /\ t.published \in BOOLEAN
      /\ t.approval \in {"none", "granted", "denied"}
  BY DEF Call
<1>1. StateOf(t) = "TC1" => Moves(t, Approved(t, a))
  <2>1. Made(Approved(t, a), a, t.started, t.by, t.finished, t.durable, t.decision,
             t.published, t.version + 1)
    BY EffectsMake
  <2>2. StateOf(t) = "TC1" =>
          ~t.published /\ t.decision = "none" /\ t.finished = "none" /\ ~t.started
    BY DEF StateOf
  <2> QED
    BY <1>t, <2>1, <2>2, StageFields, StageState DEF Made, Moves
<1>2. StateOf(t) = "TC2.1" => StageOf(Started(t, i)) = "running"
  <2>1. Made(Started(t, i), t.approval, TRUE, i, t.finished, t.durable, t.decision,
             t.published, t.version + 1)
    BY EffectsMake
  <2>2. StateOf(t) = "TC2.1" => ~t.published /\ t.decision = "none" /\ t.finished = "none"
    BY DEF StateOf
  <2> QED
    BY <1>t, <2>1, <2>2, StageFields DEF Made
<1>3. StateOf(t) \in {"TC2.1", "TC3"} => Moves(t, Finished(t, r))
  <2>1. Made(Finished(t, r), t.approval, t.started, t.by, r, TRUE, t.decision,
             t.published, t.version + 1)
    BY EffectsMake
  <2>2. StateOf(t) \in {"TC2.1", "TC3"} => ~t.published /\ t.decision = "none"
    BY DEF StateOf
  <2> QED
    BY <1>t, <2>1, <2>2, StageFields, StageState DEF Made, Moves
<1>4. ~t.published => StageOf(Decided(t, d, by)) = "decided"
  <2>1. Made(Decided(t, d, by), t.approval, t.started, t.by,
             IF t.finished = "none" THEN "interrupted" ELSE t.finished, t.durable, d,
             t.published, t.version + 1)
    BY EffectsMake
  <2> QED
    BY <1>t, <2>1, StageFields DEF Made
<1>5. StateOf(t) \in {"TC2.1", "TC3", "TC4", "TC5"} => Moves(t, Decided(t, d, by))
  BY <1>t, <1>4, StageState, Undone DEF Moves
<1>6. ~t.published => StageOf(Resumed(t, i)) = "running"
  <2>1. Made(Resumed(t, i), t.approval, TRUE, i, "none", FALSE, "none",
             t.published, t.version + 1)
    BY EffectsMake
  <2> QED
    BY <1>t, <2>1, StageFields DEF Made
<1>7. StageOf(Published(t)) = "answered"
  <2>1. Made(Published(t), t.approval, t.started, t.by, t.finished, t.durable,
             t.decision, TRUE, t.version)
    BY EffectsMake
  <2> QED
    BY <1>t, <2>1, StageFields DEF Made
<1> QED
  BY <1>1, <1>2, <1>3, <1>4, <1>5, <1>6, <1>7

LEMMA EffectsExplicit ==
  ASSUME NEW t \in Call, Explicit(t), NEW i, NEW r, NEW d, d # "none", NEW by, NEW a
  PROVE  /\ Explicit(Approved(t, a)) /\ Explicit(Started(t, i)) /\ Explicit(Finished(t, r))
         /\ Explicit(Decided(t, d, by)) /\ Explicit(Resumed(t, i)) /\ Explicit(Published(t))
<1>1. Explicit(Approved(t, a)) /\ Explicit(Started(t, i)) /\ Explicit(Finished(t, r))
  BY DEF Explicit, Approved, Started, Finished, Call
<1>2. Explicit(Decided(t, d, by))
  BY DEF Explicit, Decided, Call
<1>3. Explicit(Resumed(t, i)) /\ Explicit(Published(t))
  BY DEF Explicit, Resumed, Started, Published, Call
<1> QED
  BY <1>1, <1>2, <1>3

\* The owner of some calls is gone: those that ran are lost.
LEMMA OwnerGoneMoves ==
  ASSUME CallsTyped, NEW c \in Calls, Sound(calls[c]), NEW i, i # NoInvocation, NEW recovery
  PROVE  /\ Moves(calls[c], OwnerGone(i, recovery)[c])
         /\ Explicit(calls[c]) => Explicit(OwnerGone(i, recovery)[c])
<1> DEFINE t == calls[c]
           u == OwnerGone(i, recovery)[c]
<1>0. /\ t \in Call /\ t.started \in BOOLEAN /\ t.durable \in BOOLEAN /\ t.published \in BOOLEAN
      /\ t.approval \in {"none", "granted", "denied"}
  BY DEF CallsTyped, Call
<1>1. \/ u = t
      \/ /\ t.by = i
         /\ Made(u, t.approval, t.started, t.by,
                 IF t.finished = "none" THEN "interrupted" ELSE t.finished,
                 t.durable, t.decision, t.published, t.version)
  BY OwnerGoneMakes DEF CallsTyped
<1>2. Explicit(t) => Explicit(u)
  BY <1>0 DEF OwnerGone, Explicit, Call
<1> HIDE DEF u, t
<1>s. Sound(t)
  BY DEF t
<1>3. Moves(t, u)
  <2>1. CASE u = t
    BY <2>1 DEF Moves
  <2>2. ASSUME u # t PROVE t.started
    BY <1>1, <1>s, <2>2 DEF Sound
  <2>3. CASE u # t /\ t.published
    BY <1>0, <1>1, <1>s, <2>3, StageFields DEF Made, Moves
  <2>4. CASE u # t /\ ~t.published /\ t.decision # "none"
    BY <1>0, <1>1, <2>4, StageFields DEF Made, Moves
  <2>5. CASE u # t /\ ~t.published /\ t.decision = "none" /\ t.finished # "none"
    BY <1>0, <1>1, <2>5, StageFields DEF Made, Moves
  <2>6. CASE u # t /\ ~t.published /\ t.decision = "none" /\ t.finished = "none"
    <3>1. ~t.durable
      BY <1>s, <2>6 DEF Sound
    <3>2. StageOf(u) = "lost"
      BY <1>0, <1>1, <2>6, <3>1, StageFields DEF Made
    <3>3. StageOf(t) = "running"
      BY <1>0, <2>2, <2>6, StageFields
    <3> QED
      BY <3>2, <3>3 DEF Moves
  <2> QED
    BY <2>1, <2>3, <2>4, <2>5, <2>6
<1> QED
  BY <1>2, <1>3 DEF u, t

\* A call takes an abstract step.
LEMMA Walks ==
  ASSUME NEW c \in Calls
  PROVE  /\ /\ Moves(calls[c], calls'[c])
            /\ executions'[c] = executions[c] /\ results'[c] = results[c]
            => Lifecycle!Step(c)
         /\ /\ StageOf(calls[c]) = "granted" /\ StageOf(calls'[c]) = "running"
            /\ executions'[c] = executions[c] + 1 /\ results'[c] = results[c]
            => Lifecycle!Step(c)
         /\ /\ c \in Resumable
            /\ StageOf(calls[c]) \in {"running", "lost"} /\ StageOf(calls'[c]) = "running"
            /\ executions'[c] \in {executions[c], executions[c] + 1} /\ results'[c] = results[c]
            => Lifecycle!Step(c)
         /\ /\ \E x \in {"cancelled", "denied", "whole", "omit"} :
                 /\ results'[c] = Append(results[c], x)
                 /\ \/ StageOf(calls[c]) = "refused" /\ x \in {"cancelled", "denied"}
                    \/ StageOf(calls[c]) = "decided" /\ x \in {"cancelled", "whole", "omit"}
            /\ StageOf(calls'[c]) = "answered"
            /\ executions'[c] = executions[c]
            => Lifecycle!Step(c)
<1> DEFINE stage == [d \in Calls |-> StageOf(calls[d])]
<1>1. stage[c] = StageOf(calls[c]) /\ stage'[c] = StageOf(calls'[c])
  OBVIOUS
<1> HIDE DEF stage
<1>2. /\ Moves(calls[c], calls'[c])
      /\ executions'[c] = executions[c] /\ results'[c] = results[c]
      => Lifecycle!Step(c)
  BY <1>1 DEF Moves, stage, Lifecycle!Step, Lifecycle!Rest, Lifecycle!Judge, Lifecycle!Return,
     Lifecycle!Lose, Lifecycle!Decide, Lifecycle!Goes, Lifecycle!SameRuns, Lifecycle!SameAnswers
<1>3. /\ StageOf(calls[c]) = "granted" /\ StageOf(calls'[c]) = "running"
      /\ executions'[c] = executions[c] + 1 /\ results'[c] = results[c]
      => Lifecycle!Step(c)
  BY <1>1 DEF stage, Lifecycle!Step, Lifecycle!Run, Lifecycle!Goes, Lifecycle!SameAnswers
<1>4. /\ c \in Resumable
      /\ StageOf(calls[c]) \in {"running", "lost"} /\ StageOf(calls'[c]) = "running"
      /\ executions'[c] \in {executions[c], executions[c] + 1} /\ results'[c] = results[c]
      => Lifecycle!Step(c)
  BY <1>1 DEF stage, Lifecycle!Step, Lifecycle!Resume, Lifecycle!Goes, Lifecycle!SameAnswers
<1>5. /\ \E x \in {"cancelled", "denied", "whole", "omit"} :
           /\ results'[c] = Append(results[c], x)
           /\ \/ StageOf(calls[c]) = "refused" /\ x \in {"cancelled", "denied"}
              \/ StageOf(calls[c]) = "decided" /\ x \in {"cancelled", "whole", "omit"}
      /\ StageOf(calls'[c]) = "answered"
      /\ executions'[c] = executions[c]
      => Lifecycle!Step(c)
  BY <1>1 DEF stage, Lifecycle!Step, Lifecycle!Answer, Lifecycle!Goes, Lifecycle!SameRuns
<1> QED
  BY <1>2, <1>3, <1>4, <1>5

\* The call whose tool an owner runs is running, and is its own.
OwnersRun ==
  \A i \in Invocations : phase[i] = "working" /\ at[i] = "running" /\ owner = i =>
    State(Current(i)) = "TC3" /\ calls[Current(i)].by = i

\* A Ctrl+C that is being carried out has seen the calls as they are, none of them
\* denied, and the call it owes an answer is denied or decided.
CancelSound ==
  /\ \A c \in DOMAIN cancel.seen : cancel.seen[c] = Observe(calls[c]) /\ State(c) # "TC2.2"
  /\ \A c \in cancel.owes : State(c) \in {"TC2.2", "TC5"}

ExplicitSound == \A c \in Calls : Explicit(calls[c])

LifeInv == OwnersRun /\ CancelSound /\ ExplicitSound

AllWalk == \A c \in Calls : Lifecycle!Step(c) /\ Explicit(calls'[c])

LEMMA QuietWalk ==
  ASSUME UNCHANGED record, \A c \in Calls : Moves(calls[c], calls'[c]) /\ Explicit(calls'[c])
  PROVE  AllWalk
BY Walks DEF AllWalk, record

LEMMA NoneWalks ==
  ASSUME ExplicitSound, UNCHANGED <<calls, record>>
  PROVE  AllWalk
<1>1. \A c \in Calls : Moves(calls[c], calls'[c]) /\ Explicit(calls'[c])
  BY DEF Moves, ExplicitSound
<1> QED
  BY <1>1, QuietWalk

LEMMA OneWalks ==
  ASSUME CallsTyped, ExplicitSound, NEW c \in Calls, NEW u, SetCall(c, u), Explicit(u),
         \A d \in Calls \ {c} : executions'[d] = executions[d] /\ results'[d] = results[d],
         calls'[c] = u => Lifecycle!Step(c)
  PROVE  AllWalk
<1>1. /\ calls'[c] = u
      /\ \A d \in Calls \ {c} : calls'[d] = calls[d]
  BY DEF CallsTyped, SetCall
<1>2. ASSUME NEW d \in Calls \ {c} PROVE Lifecycle!Step(d) /\ Explicit(calls'[d])
  BY <1>1, Walks DEF Moves, ExplicitSound
<1> QED
  BY <1>1, <1>2 DEF AllWalk

LEMMA OneQuiet ==
  ASSUME CallsTyped, ExplicitSound, NEW c \in Calls, NEW u, SetCall(c, u), Explicit(u),
         Moves(calls[c], u), UNCHANGED record
  PROVE  AllWalk
<1>1. calls'[c] = u => Lifecycle!Step(c)
  BY Walks DEF record
<1>2. \A d \in Calls \ {c} : executions'[d] = executions[d] /\ results'[d] = results[d]
  BY DEF record
<1> QED
  BY <1>1, <1>2, OneWalks

LEMMA GoneWalks ==
  ASSUME CallsTyped, CallsSound, ExplicitSound, NEW i, i # NoInvocation, NEW recovery,
         calls' = OwnerGone(i, recovery), UNCHANGED record
  PROVE  AllWalk
<1>1. \A c \in Calls : Moves(calls[c], calls'[c]) /\ Explicit(calls'[c])
  BY OwnerGoneMoves DEF CallsSound, ExplicitSound
<1> QED
  BY <1>1, QuietWalk

\* A tool message for a call that was refused or decided on.
LEMMA AnswerWalks ==
  ASSUME Typed, CallsSound, ExplicitSound, NEW c \in Calls,
         NEW x \in {"cancelled", "denied", "whole", "omit"},
         \/ State(c) = "TC2.2" /\ x \in {"cancelled", "denied"}
         \/ State(c) = "TC5" /\ x \in {"cancelled", "whole", "omit"},
         SetCall(c, Published(calls[c])),
         results' = [results EXCEPT ![c] = Append(@, x)], UNCHANGED executions
  PROVE  AllWalk
<1>t. /\ calls[c] \in Call /\ Sound(calls[c]) /\ Explicit(calls[c]) /\ CallsTyped
      /\ results = [d \in Calls |-> results[d]]
  BY DEF Typed, CallsTyped, CallsSound, ExplicitSound, RecordTyped
<1>1. StageOf(calls[c]) = "refused" \/ StageOf(calls[c]) = "decided"
  BY <1>t, StageState DEF State
<1>2. /\ StageOf(calls[c]) = "refused" => x \in {"cancelled", "denied"}
      /\ StageOf(calls[c]) = "decided" => x \in {"cancelled", "whole", "omit"}
  BY <1>t, StageState DEF State
<1>3. "x" # "none"
  OBVIOUS
<1>4. StageOf(Published(calls[c])) = "answered" /\ Explicit(Published(calls[c]))
  BY <1>t, <1>3, EffectsMove, EffectsExplicit
<1>5. results'[c] = Append(results[c], x) /\ \A d \in Calls \ {c} : results'[d] = results[d]
  BY <1>t
<1>6. calls'[c] = Published(calls[c]) => Lifecycle!Step(c)
  BY <1>1, <1>2, <1>4, <1>5, Walks
<1> QED
  BY <1>t, <1>4, <1>5, <1>6, OneWalks

\* What _run_ra_tools does is Run, Return, Decide and Answer.
LEMMA ToolsWalk ==
  ASSUME Typed, LoopInv, LifeInv, NEW i \in Invocations,
         \/ PublishDenial(i) \/ RefuseDisallowed(i) \/ Start(i) \/ Finalize(i) \/ Publish(i)
         \/ CancelTask(i) \/ \E reason \in {"success", "error"} : Finish(i, reason)
  PROVE  AllWalk
<1> DEFINE c == Current(i)
<1>t. CallsTyped /\ CallsSound /\ ExplicitSound /\ WorkSound /\ OwnersRun
  BY DEF Typed, LoopInv, LifeInv
<1>c. c \in Calls => calls[c] \in Call /\ Sound(calls[c]) /\ Explicit(calls[c])
  BY <1>t DEF CallsTyped, CallsSound, ExplicitSound
<1>1. CASE PublishDenial(i)
  <2>1. /\ Working(i, {"tools"}, "next") /\ owner = i /\ Seen(i).state = "TC2.2"
        /\ SetCall(c, Published(calls[c]))
        /\ results' = [results EXCEPT ![c] = Append(@, "denied")] /\ UNCHANGED executions
    BY <1>1 DEF PublishDenial, Owns
  <2>2. c \in Calls /\ State(c) = "TC2.2"
    BY <1>t, <2>1, AtNext, AtWhere
  <2> QED
    BY <1>t, <2>1, <2>2, AnswerWalks
<1>2. CASE Publish(i)
  <2>1. /\ Working(i, {"tools", "publish"}, "next") /\ owner = i /\ Seen(i).state = "TC5"
        /\ SetCall(c, Published(calls[c]))
        /\ results' = [results EXCEPT ![c] = Append(@, Seen(i).decision)] /\ UNCHANGED executions
    BY <1>2 DEF Publish, Owns
  <2>2. c \in Calls /\ State(c) = "TC5" /\ c \in todo[i]
    BY <1>t, <2>1, AtNext, AtWhere
  <2>3. Seen(i).decision \in {"whole", "omit"}
    <3>1. /\ Seeing(plan[i].seen) /\ Decidedly(plan[i].seen) /\ c \in DOMAIN plan[i].seen
      BY <2>2, Unmoved DEF Typed, WorkOf, Planned
    <3> QED
      BY <2>1, <3>1 DEF Seeing, Observation, Decisions, Decidedly, Seen
  <2> QED
    BY <1>t, <2>1, <2>2, <2>3, AnswerWalks
<1>3. CASE RefuseDisallowed(i)
  <2>1. /\ Working(i, {"tools"}, "next") /\ owner = i /\ Seen(i).state = "TC2.1"
        /\ SetCall(c, Finished(calls[c], "error")) /\ UNCHANGED record
    BY <1>3 DEF RefuseDisallowed, Owns
  <2>2. c \in Calls /\ State(c) = "TC2.1"
    BY <1>t, <2>1, AtNext, AtWhere
  <2>3. "error" # "none"
    OBVIOUS
  <2>4. Moves(calls[c], Finished(calls[c], "error")) /\ Explicit(Finished(calls[c], "error"))
    BY <1>c, <2>2, <2>3, EffectsMove, EffectsExplicit DEF State
  <2> QED
    BY <1>t, <2>1, <2>2, <2>4, OneQuiet
<1>4. CASE CancelTask(i) \/ \E reason \in {"success", "error"} : Finish(i, reason)
  <2>1. /\ Working(i, {"tools", "orphaned"}, "running") /\ owner = i /\ UNCHANGED record
    BY <1>4 DEF CancelTask, Finish, Owns
  <2>2. PICK reason : reason # "none" /\ SetCall(c, Finished(calls[c], reason))
    BY <1>4 DEF CancelTask, Finish
  <2>3. c \in Calls /\ State(c) = "TC3"
    BY <1>t, <2>1, AtWhere DEF OwnersRun
  <2>4. Moves(calls[c], Finished(calls[c], reason)) /\ Explicit(Finished(calls[c], reason))
    BY <1>c, <2>2, <2>3, EffectsMove, EffectsExplicit DEF State
  <2> QED
    BY <1>t, <2>1, <2>2, <2>3, <2>4, OneQuiet
<1>5. CASE Start(i)
  <2>1. /\ Working(i, {"tools"}, "next") /\ owner = i /\ Seen(i).state = "TC2.1"
        /\ SetCall(c, Started(calls[c], i)) /\ UNCHANGED results
        /\ executions' = [executions EXCEPT ![c] = @ + 1]
    BY <1>5 DEF Start, Owns
  <2>2. c \in Calls /\ State(c) = "TC2.1"
    BY <1>t, <2>1, AtNext, AtWhere
  <2>3. "x" # "none"
    OBVIOUS
  <2>4. /\ StageOf(calls[c]) = "granted" /\ StageOf(Started(calls[c], i)) = "running"
        /\ Explicit(Started(calls[c], i))
    BY <1>c, <2>2, <2>3, EffectsMove, EffectsExplicit, StageState DEF State
  <2>5. /\ executions'[c] = executions[c] + 1
        /\ \A d \in Calls \ {c} : executions'[d] = executions[d]
    BY <2>1, <2>2 DEF Typed, RecordTyped
  <2>6. calls'[c] = Started(calls[c], i) => Lifecycle!Step(c)
    BY <2>1, <2>2, <2>4, <2>5, Walks
  <2> QED
    BY <1>t, <2>1, <2>2, <2>4, <2>5, <2>6, OneWalks
<1>6. CASE Finalize(i)
  <2>1. Working(i, {"tools", "orphaned"}, "deciding") /\ UNCHANGED record
    BY <1>6 DEF Finalize
  <2>2. c \in Calls
    BY <2>1, AtWhere
  <2>3. UNCHANGED calls \/ (State(c) = "TC4" /\ SetCall(c, Decided(calls[c], "whole", "automatic")))
    BY <1>6, Zenon DEF Finalize
  <2>4. CASE UNCHANGED calls
    BY <1>t, <2>1, <2>4, NoneWalks
  <2>5. CASE State(c) = "TC4" /\ SetCall(c, Decided(calls[c], "whole", "automatic"))
    <3>1. "whole" # "none"
      OBVIOUS
    <3>2. /\ Moves(calls[c], Decided(calls[c], "whole", "automatic"))
          /\ Explicit(Decided(calls[c], "whole", "automatic"))
      BY <1>c, <2>2, <2>5, <3>1, EffectsMove, EffectsExplicit DEF State
    <3> QED
      BY <1>t, <2>1, <2>2, <2>5, <3>2, OneQuiet
  <2> QED
    BY <2>3, <2>4, <2>5
<1> QED
  BY <1>1, <1>2, <1>3, <1>4, <1>5, <1>6

\* The recoveries are Resume and Decide; others the same owner left are lost.
LEMMA OrphanWalks ==
  ASSUME Typed, LoopInv, LifeInv, NEW i \in Invocations, RecoverOrphan(i)
  PROVE  AllWalk
<1> DEFINE c == Current(i)
           old == calls[c].by
           base == IF old = NoInvocation THEN calls ELSE OwnerGone(old, TRUE)
<1>t. CallsTyped /\ CallsSound /\ ExplicitSound /\ WorkSound
  BY DEF Typed, LoopInv, LifeInv
<1>1. Working(i, {"orphaned"}, "next") /\ UNCHANGED record
  BY DEF RecoverOrphan
<1>2. c \in Calls /\ calls[c] \in Call /\ plan[i].mode = "orphaned"
  BY <1>1, AtWhere
<1>3. CASE UNCHANGED calls
  BY <1>t, <1>1, <1>3, NoneWalks
<1>4. CASE ~UNCHANGED calls
  <2>1. /\ calls[c].version = Seen(i).version
        /\ State(c) = "TC3" \/ State(c) = "TC4"
    BY <1>4 DEF RecoverOrphan
  <2>2. ~calls[c].durable
    BY <1>t, <1>1, <1>2, <2>1, AtNext
  <2>3. StageOf(calls[c]) \in {"running", "lost"} /\ ~calls[c].published
    BY <1>t, <1>2, <2>1, <2>2, StageState, Undone DEF State, CallsSound
  <2>4. /\ base \in [Calls -> Call]
        /\ \A d \in Calls : /\ Sound(base[d]) /\ Explicit(base[d]) /\ Moves(calls[d], base[d])
                            /\ base[d].published = calls[d].published
    <3>1. calls \in [Calls -> Call] /\ \A d \in Calls : Sound(calls[d]) /\ Explicit(calls[d])
      BY <1>t DEF CallsTyped, CallsSound, ExplicitSound
    <3>2. CASE old = NoInvocation
      BY <3>1, <3>2 DEF Moves
    <3>3. CASE old # NoInvocation
      BY <1>t, <3>1, <3>3, OwnerGoneFollows, OwnerGoneTyped, OwnerGoneMoves DEF Follows
    <3> QED
      BY <3>2, <3>3
  <2>5. \/ c \in Resumable /\ calls' = [base EXCEPT ![c] = Resumed(base[c], i)]
        \/ \E r \in {"error", "interrupted"} :
             calls' = [base EXCEPT ![c] = Decided(Finished(base[c], r), "whole", "automatic")]
    BY <1>4 DEF RecoverOrphan
  <2> HIDE DEF base, c
  <2>6. \A d \in Calls \ {c} : Lifecycle!Step(d) /\ Explicit(calls'[d])
    <3>1. \A d \in Calls \ {c} : calls'[d] = base[d]
      BY <2>4, <2>5
    <3> QED
      BY <1>1, <2>4, <3>1, Walks DEF record
  <2>7. "whole" # "none" /\ "error" # "none"
    OBVIOUS
  <2>8. ~base[c].published /\ base[c] \in Call /\ Sound(base[c]) /\ Explicit(base[c])
    BY <1>2, <2>3, <2>4
  <2>9. CASE c \in Resumable /\ calls' = [base EXCEPT ![c] = Resumed(base[c], i)]
    <3>1. StageOf(Resumed(base[c], i)) = "running" /\ Explicit(Resumed(base[c], i))
      BY <2>7, <2>8, EffectsMove, EffectsExplicit
    <3>2. calls'[c] = Resumed(base[c], i)
      BY <1>2, <2>4, <2>9
    <3>3. Lifecycle!Step(c)
      BY <1>1, <1>2, <2>3, <2>9, <3>1, <3>2, Walks DEF record
    <3> QED
      BY <2>6, <3>1, <3>2, <3>3 DEF AllWalk
  <2>10. ASSUME NEW r \in {"error", "interrupted"},
                calls' = [base EXCEPT ![c] = Decided(Finished(base[c], r), "whole", "automatic")]
         PROVE  AllWalk
    <3> DEFINE f == Finished(base[c], r)
               u == Decided(f, "whole", "automatic")
    <3>1. f \in Call /\ Explicit(f) /\ ~f.published
      <4>1. Made(f, base[c].approval, base[c].started, base[c].by, r, TRUE, base[c].decision,
                 base[c].published, base[c].version + 1)
        BY <2>8, EffectsMake
      <4>2. f \in Call
        BY <2>8, EffectsTyped
      <4>3. Explicit(f)
        BY <2>7, <2>8, EffectsExplicit
      <4> QED
        BY <2>8, <4>1, <4>2, <4>3 DEF Made
    <3>2. StageOf(u) = "decided"
      <4>1. Made(u, f.approval, f.started, f.by,
                 IF f.finished = "none" THEN "interrupted" ELSE f.finished, f.durable, "whole",
                 f.published, f.version + 1)
        BY <3>1, EffectsMake
      <4> QED
        BY <2>7, <3>1, <4>1, StageFields DEF Made
    <3>3. Explicit(u)
      BY <2>7, <3>1, EffectsExplicit
    <3>4. calls'[c] = u
      BY <1>2, <2>4, <2>10
    <3> HIDE DEF u, f
    <3>5. Moves(calls[c], calls'[c])
      BY <2>3, <3>2, <3>4 DEF Moves
    <3>6. Lifecycle!Step(c)
      BY <1>1, <1>2, <3>5, Walks DEF record
    <3> QED
      BY <2>6, <3>3, <3>4, <3>6 DEF AllWalk
  <2> QED
    BY <2>5, <2>9, <2>10
<1> QED
  BY <1>3, <1>4

LEMMA RunnerWalks ==
  ASSUME Typed, LoopInv, LifeInv, NEW i \in Invocations, RunnerStep(i) \/ FaultStep(i)
  PROVE  AllWalk
<1> DEFINE c == Current(i)
<1>t. CallsTyped /\ CallsSound /\ ExplicitSound /\ WorkSound /\ i # NoInvocation
  BY CallsAssumption DEF Typed, LoopInv, LifeInv
<1>c. c \in Calls => calls[c] \in Call /\ Sound(calls[c]) /\ Explicit(calls[c])
  BY <1>t DEF CallsTyped, CallsSound, ExplicitSound
<1>1. CASE \/ PublishDenial(i) \/ RefuseDisallowed(i) \/ Start(i) \/ Finalize(i) \/ Publish(i)
           \/ CancelTask(i) \/ \E reason \in {"success", "error"} : Finish(i, reason)
  BY <1>1, ToolsWalk
<1>2. CASE RecoverOrphan(i)
  BY <1>2, OrphanWalks
<1>3. CASE RunResumed(i)
  <2>1. /\ Working(i, {"orphaned"}, "resumed") /\ UNCHANGED <<calls, results>>
    BY <1>3 DEF RunResumed
  <2>2. \/ UNCHANGED executions
        \/ State(c) = "TC3" /\ executions' = [executions EXCEPT ![c] = @ + 1]
    BY <1>3 DEF RunResumed
  <2>3. c \in Calls /\ c \in Resumable
    BY <1>t, <2>1, AtWhere DEF WorkSound, AtWork
  <2>4. CASE UNCHANGED executions
    BY <1>t, <2>1, <2>4, NoneWalks DEF record
  <2>5. CASE State(c) = "TC3" /\ executions' = [executions EXCEPT ![c] = @ + 1]
    <3>1. /\ executions'[c] = executions[c] + 1
          /\ \A d \in Calls \ {c} : executions'[d] = executions[d]
      BY <2>3, <2>5 DEF Typed, RecordTyped
    <3>2. StageOf(calls[c]) = "running"
      BY <1>c, <2>3, <2>5, StageState DEF State
    <3>3. Lifecycle!Step(c)
      BY <2>1, <2>3, <3>1, <3>2, Walks
    <3>4. \A d \in Calls \ {c} : Lifecycle!Step(d)
      BY <2>1, <3>1, Walks DEF Moves
    <3> QED
      BY <1>t, <2>1, <3>3, <3>4 DEF AllWalk, ExplicitSound
  <2> QED
    BY <2>2, <2>4, <2>5
<1>4. CASE RecoverStranded(i)
  <2>1. Working(i, {"stranded"}, "next") /\ UNCHANGED record
    BY <1>4 DEF RecoverStranded
  <2>2. c \in Calls
    BY <2>1, AtWhere
  <2>3. UNCHANGED calls \/ (Stranded(c) /\ SetCall(c, Decided(calls[c], "whole", "automatic")))
    BY <1>4, Zenon DEF RecoverStranded
  <2>4. CASE UNCHANGED calls
    BY <1>t, <2>1, <2>4, NoneWalks
  <2>5. CASE Stranded(c) /\ SetCall(c, Decided(calls[c], "whole", "automatic"))
    <3>1. "whole" # "none" /\ State(c) = "TC4"
      BY <2>5 DEF Stranded
    <3>2. /\ Moves(calls[c], Decided(calls[c], "whole", "automatic"))
          /\ Explicit(Decided(calls[c], "whole", "automatic"))
      BY <1>c, <2>2, <3>1, EffectsMove, EffectsExplicit DEF State
    <3> QED
      BY <1>t, <2>1, <2>2, <2>5, <3>2, OneQuiet
  <2> QED
    BY <2>3, <2>4, <2>5
<1>5. CASE Acquire(i) \/ Close(i)
  <2>1. UNCHANGED record
    BY <1>5 DEF Acquire, Close
  <2>2. \/ UNCHANGED calls
        \/ \E j, recovery : j # NoInvocation /\ calls' = OwnerGone(j, recovery)
    BY <1>5, <1>t DEF Acquire, Close
  <2> QED
    BY <1>t, <2>1, <2>2, GoneWalks, NoneWalks
<1>6. CASE \/ Discover(i) \/ GiveWay(i) \/ PublishRecovered(i) \/ EndWork(i)
           \/ Release(i) \/ LoseLease(i) \/ Fail(i) \/ Crash(i)
  <2>1. UNCHANGED <<calls, record>>
    BY <1>6 DEF Discover, GiveWay, PublishRecovered, EndWork, Release, LoseLease, Fail, Crash
  <2> QED
    BY <1>t, <2>1, NoneWalks
<1> QED
  BY <1>1, <1>2, <1>3, <1>4, <1>5, <1>6 DEF RunnerStep, FaultStep

\* Users judge and decide; their interrupts lose what runs.
LEMMA OthersWalk ==
  ASSUME Typed, LoopInv, LifeInv,
         \/ UserStep \/ WebKeepInterrupted \/ Stall \/ Expire \/ Sweep
         \/ \E i \in Invocations : Recycle(i)
  PROVE  AllWalk
<1>t. CallsTyped /\ CallsSound /\ ExplicitSound
  BY DEF Typed, LoopInv, LifeInv
<1>c. ASSUME NEW c \in Calls PROVE calls[c] \in Call /\ Sound(calls[c]) /\ Explicit(calls[c])
  BY <1>t DEF CallsTyped, CallsSound, ExplicitSound
<1>d. ASSUME NEW c \in Calls, NEW d \in {"whole", "omit"}, NEW by, UserMayDecide(calls[c], by)
      PROVE  /\ Moves(calls[c], Decided(calls[c], d, by))
             /\ Explicit(Decided(calls[c], d, by))
  <2>1. d # "none" /\ StateOf(calls[c]) \in {"TC4", "TC5"}
    BY <1>d DEF UserMayDecide
  <2> QED
    BY <1>c, <2>1, EffectsMove, EffectsExplicit
<1>1. ASSUME NEW c \in Calls, KeepOutput(c) \/ OmitOutput(c) PROVE AllWalk
  <2>1. PICK d \in {"whole", "omit"}, by \in {"user", "explicit"} :
          UserMayDecide(calls[c], by) /\ SetCall(c, Decided(calls[c], d, by))
    BY <1>1 DEF KeepOutput, OmitOutput
  <2>2. UNCHANGED record
    BY <1>1 DEF KeepOutput, OmitOutput
  <2> QED
    BY <1>t, <1>d, <2>1, <2>2, OneQuiet
<1>2. ASSUME NEW c \in Calls, NEW answer \in {"granted", "denied"}, Approve(c, answer) PROVE AllWalk
  <2>1. StateOf(calls[c]) = "TC1" /\ SetCall(c, Approved(calls[c], answer)) /\ UNCHANGED record
    BY <1>2 DEF Approve, State
  <2>2. "x" # "none"
    OBVIOUS
  <2>3. Moves(calls[c], Approved(calls[c], answer)) /\ Explicit(Approved(calls[c], answer))
    BY <1>c, <2>1, <2>2, EffectsMove, EffectsExplicit
  <2> QED
    BY <1>t, <2>1, <2>3, OneQuiet
<1>3. CASE ApproveTurn
  <2>1. ASSUME NEW c \in Calls
        PROVE  Moves(calls[c], calls'[c]) /\ Explicit(calls'[c])
    <3> DEFINE t == calls[c]
               u == [t EXCEPT !.approval = IF @ = "none" THEN "granted" ELSE @]
    <3>1. calls'[c] = u
      BY <1>3 DEF ApproveTurn
    <3>2. t \in Call /\ Sound(t) /\ Explicit(t)
      BY <1>c
    <3> HIDE DEF t
    <3>3. /\ Made(u, IF t.approval = "none" THEN "granted" ELSE t.approval, t.started, t.by,
                  t.finished, t.durable, t.decision, t.published, t.version)
          /\ u.decider = t.decider
      BY <3>2 DEF Made, Call
    <3>4. t.approval \in {"none", "granted", "denied"}
      BY <3>2 DEF Call
    <3> HIDE DEF u
    <3>5. StateOf(u) = StateOf(t) \/ (StateOf(t) = "TC1" /\ StateOf(u) = "TC2.1")
      BY <3>3, <3>4 DEF Made, StateOf
    <3>6. StageOf(u) = StageOf(t) \/ (StageOf(t) = "asked" /\ StageOf(u) = "granted")
      BY <3>3, <3>5 DEF Made, StageOf
    <3>7. Moves(t, u)
      BY <3>6 DEF Moves
    <3>8. Explicit(u)
      BY <3>2, <3>3 DEF Made, Explicit
    <3> QED
      BY <3>1, <3>7, <3>8 DEF t
  <2>2. UNCHANGED record
    BY <1>3 DEF ApproveTurn
  <2> QED
    BY <2>1, <2>2, QuietWalk
<1>4. CASE WebInterrupt \/ CtrlC
  <2>1. UNCHANGED record
    BY <1>4 DEF WebInterrupt, CtrlC, CtrlCOver
  <2>2. \/ UNCHANGED calls
        \/ owner # NoInvocation /\ calls' = OwnerGone(owner, FALSE)
    BY <1>4 DEF WebInterrupt, CtrlC, CtrlCOver, Live
  <2> QED
    BY <1>t, <2>1, <2>2, GoneWalks, NoneWalks
<1>5. CASE WebKeepInterrupted
  <2>1. ASSUME NEW c \in Calls
        PROVE  Moves(calls[c], calls'[c]) /\ Explicit(calls'[c])
    <3>1. \/ calls'[c] = calls[c]
          \/ UserMayDecide(calls[c], "explicit") /\ calls'[c] = Decided(calls[c], "whole", "explicit")
      BY <1>5 DEF WebKeepInterrupted
    <3>2. CASE calls'[c] = calls[c]
      BY <1>c, <3>2 DEF Moves
    <3>3. CASE UserMayDecide(calls[c], "explicit") /\ calls'[c] = Decided(calls[c], "whole", "explicit")
      BY <1>d, <3>3
    <3> QED
      BY <3>1, <3>2, <3>3
  <2>2. UNCHANGED record
    BY <1>5 DEF WebKeepInterrupted
  <2> QED
    BY <2>1, <2>2, QuietWalk
<1>6. CASE Stall \/ Expire \/ Sweep
  BY <1>t, <1>6, NoneWalks DEF Stall, Expire, Sweep
<1>7. ASSUME NEW i \in Invocations, Recycle(i) PROVE AllWalk
  <2>1. ASSUME NEW c \in Calls
        PROVE  Moves(calls[c], calls'[c]) /\ Explicit(calls'[c])
    <3> DEFINE t == calls[c]
               u == [t EXCEPT !.by = IF @ = i THEN NoInvocation ELSE @]
    <3>1. calls'[c] = u
      BY <1>7 DEF Recycle
    <3>2. t \in Call /\ Explicit(t)
      BY <1>c
    <3> HIDE DEF t
    <3>3. /\ u.approval = t.approval /\ u.started = t.started /\ u.finished = t.finished
          /\ u.durable = t.durable /\ u.decision = t.decision /\ u.published = t.published
          /\ u.decider = t.decider
      BY <3>2 DEF Call
    <3> HIDE DEF u
    <3>4. StateOf(u) = StateOf(t)
      BY <3>3 DEF StateOf
    <3>5. Moves(t, u)
      BY <3>3, <3>4 DEF Moves, StageOf
    <3>6. Explicit(u)
      BY <3>2, <3>3 DEF Explicit
    <3> QED
      BY <3>1, <3>5, <3>6 DEF t
  <2>2. UNCHANGED record
    BY <1>7 DEF Recycle
  <2> QED
    BY <2>1, <2>2, QuietWalk
<1> QED
  BY <1>1, <1>2, <1>3, <1>4, <1>5, <1>6, <1>7 DEF UserStep

LEMMA CancelWalks ==
  ASSUME Typed, LoopInv, LifeInv, CancelCall \/ \E c \in Calls : AnswerCancelled(c)
  PROVE  AllWalk
<1>t. CallsTyped /\ CallsSound /\ ExplicitSound /\ CancelSound
  BY DEF Typed, LoopInv, LifeInv
<1>c. ASSUME NEW c \in Calls PROVE calls[c] \in Call /\ Sound(calls[c]) /\ Explicit(calls[c])
  BY <1>t DEF CallsTyped, CallsSound, ExplicitSound
<1>1. CASE CancelCall
  <2> DEFINE c == CancelNext
  <2>1. c \in Calls /\ c \in DOMAIN cancel.seen
    <3>1. DOMAIN cancel.seen \subseteq Calls /\ DOMAIN cancel.seen # {}
      BY <1>1 DEF CancelCall, Typed, CancelTyped, Seeing
    <3>2. DOMAIN cancel.seen \subseteq Nat
      BY <3>1, CallsAssumption
    <3> QED
      BY <3>1, <3>2, MinIn DEF CancelNext
  <2>2. UNCHANGED record
    BY <1>1 DEF CancelCall
  <2>3. cancel.seen[c].state = State(c) /\ State(c) # "TC2.2" /\ ~calls[c].published
    <3>1. cancel.seen[c] = Observe(calls[c]) /\ State(c) # "TC2.2"
      BY <1>t, <2>1 DEF CancelSound
    <3>2. Observe(calls[c]).state = State(c)
      BY DEF Observe, State
    <3>3. ~calls[c].published
      BY <2>1 DEF LoopInv, LoopSound
    <3> QED
      BY <3>1, <3>2, <3>3
  <2>4. \/ UNCHANGED calls
        \/ cancel.seen[c].state = "TC1" /\ SetCall(c, Approved(calls[c], "denied"))
        \/ cancel.seen[c].state # "TC1" /\ SetCall(c, Decided(calls[c], "omit", "explicit"))
    BY <1>1 DEF CancelCall
  <2>5. "omit" # "none" /\ "denied" \in {"granted", "denied"}
    OBVIOUS
  <2>6. CASE UNCHANGED calls
    BY <1>t, <2>2, <2>6, NoneWalks
  <2>7. CASE cancel.seen[c].state = "TC1" /\ SetCall(c, Approved(calls[c], "denied"))
    <3>1. Moves(calls[c], Approved(calls[c], "denied")) /\ Explicit(Approved(calls[c], "denied"))
      BY <1>c, <2>1, <2>3, <2>5, <2>7, EffectsMove, EffectsExplicit DEF State
    <3> QED
      BY <1>t, <2>1, <2>2, <2>7, <3>1, OneQuiet
  <2>8. CASE cancel.seen[c].state # "TC1" /\ SetCall(c, Decided(calls[c], "omit", "explicit"))
    <3>1. StateOf(calls[c]) \in {"TC2.1", "TC3", "TC4", "TC5"}
      <4>1. StateOf(calls[c]) \in States /\ StateOf(calls[c]) # "TC6"
        BY <1>c, <2>1, <2>3, Undone, StateDecision
      <4> QED
        BY <2>3, <2>8, <4>1 DEF States, State
    <3>2. /\ Moves(calls[c], Decided(calls[c], "omit", "explicit"))
          /\ Explicit(Decided(calls[c], "omit", "explicit"))
      BY <1>c, <2>1, <2>5, <3>1, EffectsMove, EffectsExplicit
    <3> QED
      BY <1>t, <2>1, <2>2, <2>8, <3>2, OneQuiet
  <2> QED
    BY <2>4, <2>6, <2>7, <2>8
<1>2. ASSUME NEW c \in Calls, AnswerCancelled(c) PROVE AllWalk
  <2>1. /\ c \in cancel.owes /\ SetCall(c, Published(calls[c]))
        /\ results' = [results EXCEPT ![c] = Append(@, "cancelled")] /\ UNCHANGED executions
    BY <1>2 DEF AnswerCancelled
  <2>2. State(c) \in {"TC2.2", "TC5"}
    BY <1>t, <2>1 DEF CancelSound
  <2> QED
    BY <1>t, <2>1, <2>2, AnswerWalks
<1> QED
  BY <1>1, <1>2

\* The step of a runner that sets a tool running, or leaves no tool running.
LEMMA ActorRuns ==
  ASSUME Typed, LoopInv, LifeInv, NEW i \in Invocations, RunnerStep(i) \/ FaultStep(i),
         phase'[i] = "working", at'[i] = "running"
  PROVE  State(Current(i))' = "TC3" /\ calls'[Current(i)'].by = i
<1> DEFINE c == Current(i)
<1>t. /\ CallsTyped /\ WorkSound /\ CallsSound
      /\ phase = [j \in Invocations |-> phase[j]] /\ todo = [j \in Invocations |-> todo[j]]
      /\ at = [j \in Invocations |-> at[j]]
  BY DEF Typed, LoopInv, WorkTyped
<1>1. CASE Start(i)
  <2>1. /\ Working(i, {"tools"}, "next") /\ owner = i /\ Seen(i).state = "TC2.1"
        /\ SetCall(c, Started(calls[c], i)) /\ todo' = todo
    BY <1>1 DEF Start, Owns, Stay
  <2>2. c \in Calls /\ State(c) = "TC2.1" /\ calls[c] \in Call
    BY <1>t, <2>1, AtNext, AtWhere
  <2>3. c' = c /\ calls'[c] = Started(calls[c], i)
    BY <1>t, <2>1, <2>2 DEF SetCall, CallsTyped, Current
  <2>4. Made(Started(calls[c], i), calls[c].approval, TRUE, i, calls[c].finished,
             calls[c].durable, calls[c].decision, calls[c].published, calls[c].version + 1)
    BY <2>2, EffectsMake
  <2>5. ~calls[c].published /\ calls[c].decision = "none" /\ calls[c].finished = "none"
    BY <2>2 DEF State, StateOf
  <2>6. StateOf(Started(calls[c], i)) = "TC3" /\ Started(calls[c], i).by = i
    BY <2>4, <2>5 DEF Made, StateOf
  <2> QED
    BY <2>3, <2>6 DEF State
<1>2. CASE RunResumed(i)
  <2>1. Working(i, {"orphaned"}, "resumed") /\ UNCHANGED calls
    BY <1>2 DEF RunResumed
  <2>2. NextCall(i) \/ (State(c) = "TC3" /\ calls[c].by = i /\ Stay(i, "running"))
    BY <1>2 DEF RunResumed
  <2>3. ~NextCall(i)
    BY <1>t DEF NextCall
  <2>4. c' = c
    BY <2>2, <2>3 DEF Stay, Current
  <2> QED
    BY <2>1, <2>2, <2>3, <2>4 DEF State
<1>3. CASE \/ PublishDenial(i) \/ RefuseDisallowed(i) \/ Finalize(i) \/ Publish(i) \/ CancelTask(i)
           \/ \E reason \in {"success", "error"} : Finish(i, reason)
  BY <1>t, <1>3 DEF PublishDenial, RefuseDisallowed, Finalize, Publish, CancelTask, Finish,
     NextCall, GoTo
<1>4. CASE RecoverOrphan(i) \/ RecoverStranded(i)
  BY <1>t, <1>4 DEF RecoverOrphan, RecoverStranded, Working, NextCall, Stay
<1>5. CASE PublishRecovered(i)
  <2>1. todo[i] = {} /\ at' = at
    BY <1>5 DEF PublishRecovered
  <2> QED
    BY <2>1, Unmoved DEF Typed, WorkOf
<1>6. CASE Acquire(i)
  <2>1. phase[i] = "planned" /\ at' = at
    BY <1>6 DEF Acquire
  <2> QED
    BY <2>1 DEF LoopInv, LoopSound
<1>7. CASE \/ Discover(i) \/ GiveWay(i) \/ EndWork(i) \/ Close(i) \/ Release(i) \/ LoseLease(i)
           \/ Fail(i) \/ Crash(i)
  BY <1>t, <1>7 DEF Discover, GiveWay, EndWork, Close, Release, LoseLease, Fail, Crash, GoTo
<1> QED
  BY <1>1, <1>2, <1>3, <1>4, <1>5, <1>6, <1>7 DEF RunnerStep, FaultStep

\* Users leave a call that runs to its owner, unless they take the lease away.
LEMMA UsersLeaveRunning ==
  ASSUME Typed, UserStep \/ WebKeepInterrupted \/ Stall \/ Expire \/ Sweep,
         owner' # NoInvocation, NEW c \in Calls, State(c) = "TC3"
  PROVE  owner' = owner /\ State(c)' = "TC3" /\ calls'[c].by = calls[c].by
<1>t. CallsTyped /\ calls[c] \in Call
  BY DEF Typed, CallsTyped
<1>d. ASSUME NEW d \in Calls, NEW by, UserMayDecide(calls[d], by) \/ State(d) = "TC1"
      PROVE  d # c
  BY <1>d DEF UserMayDecide, State
<1>1. ASSUME NEW d \in Calls, KeepOutput(d) \/ OmitOutput(d) PROVE owner' = owner /\ calls'[c] = calls[c]
  <2>1. PICK u, by : UserMayDecide(calls[d], by) /\ SetCall(d, u)
    BY <1>1 DEF KeepOutput, OmitOutput
  <2>2. owner' = owner
    BY <1>1 DEF KeepOutput, OmitOutput, lease
  <2> QED
    BY <1>t, <1>d, <2>1, <2>2 DEF SetCall, CallsTyped
<1>2. ASSUME NEW d \in Calls, NEW answer, Approve(d, answer)
      PROVE  owner' = owner /\ calls'[c] = calls[c]
  <2>1. State(d) = "TC1" /\ SetCall(d, Approved(calls[d], answer)) /\ owner' = owner
    BY <1>2 DEF Approve, lease
  <2> QED
    BY <1>t, <1>d, <2>1 DEF SetCall, CallsTyped
<1>3. CASE ApproveTurn
  <2> DEFINE t == calls[c]
             u == [t EXCEPT !.approval = IF @ = "none" THEN "granted" ELSE @]
  <2>1. calls'[c] = u /\ owner' = owner
    BY <1>3 DEF ApproveTurn, lease
  <2>2. /\ u.started = t.started /\ u.finished = t.finished /\ u.decision = t.decision
        /\ u.published = t.published /\ u.by = t.by
    BY <1>t DEF Call
  <2>3. StateOf(t) = "TC3"
    BY DEF State
  <2> HIDE DEF u, t
  <2>4. StateOf(u) = "TC3"
    BY <2>2, <2>3 DEF StateOf
  <2> QED
    BY <2>1, <2>2, <2>4 DEF State, t
<1>4. CASE WebInterrupt \/ CtrlC
  BY <1>4 DEF WebInterrupt, CtrlC, CtrlCOver
<1>5. calls'[c] = calls[c] => State(c)' = "TC3" /\ calls'[c].by = calls[c].by
  BY DEF State
<1>6. CASE WebKeepInterrupted \/ Stall \/ Expire \/ Sweep
  <2>1. owner' = owner /\ calls'[c] = calls[c]
    <3>1. ASSUME WebKeepInterrupted PROVE owner' = owner /\ calls'[c] = calls[c]
      BY <1>d, <3>1 DEF WebKeepInterrupted, lease
    <3>2. ASSUME Stall \/ Expire \/ Sweep PROVE owner' = owner /\ calls'[c] = calls[c]
      BY <3>2 DEF Stall, Expire, Sweep, lease
    <3> QED
      BY <1>6, <3>1, <3>2
  <2> QED
    BY <1>5, <2>1
<1> QED
  BY <1>1, <1>2, <1>3, <1>4, <1>5, <1>6 DEF UserStep

LEMMA OwnersRunStep ==
  ASSUME Typed, Colocated, LoopInv, LifeInv, Next
  PROVE  OwnersRun'
<1> SUFFICES ASSUME NEW j \in Invocations,
                    phase'[j] = "working", at'[j] = "running", owner' = j
             PROVE  State(Current(j))' = "TC3" /\ calls'[Current(j)'].by = j
  BY DEF OwnersRun
<1>t. j # NoInvocation /\ OwnersRun /\ LoopSound
  BY CallsAssumption DEF LifeInv, LoopInv
<1>1. ASSUME phase[j] = "working", at[j] = "running", todo'[j] = todo[j], owner = j
      PROVE  /\ Current(j)' = Current(j) /\ Current(j) \in Calls
             /\ State(Current(j)) = "TC3" /\ calls[Current(j)].by = j
  <2>1. todo[j] # {}
    BY <1>1, Unmoved DEF Typed, WorkOf
  <2>2. Current(j) \in Calls
    BY <2>1, CurrentTyped DEF Typed
  <2> QED
    BY <1>1, <1>t, <2>2 DEF OwnersRun, Current
<1>2. ASSUME NEW i \in Invocations, RunnerStep(i) \/ FaultStep(i)
      PROVE  State(Current(j))' = "TC3" /\ calls'[Current(j)'].by = j
  <2>1. CASE j = i
    BY <1>2, <2>1, ActorRuns
  <2>2. CASE j # i
    <3>1. /\ phase'[j] = phase[j] /\ todo'[j] = todo[j] /\ at'[j] = at[j]
      BY <1>2, <2>2, RunnerAlone
    <3>2. owner = j /\ UNCHANGED calls
      BY <1>2, <1>t, <2>2, Fenced
    <3> QED
      BY <1>1, <3>1, <3>2 DEF State
  <2> QED
    BY <2>1, <2>2
<1>3. ASSUME NEW i \in Invocations, Recycle(i)
      PROVE  State(Current(j))' = "TC3" /\ calls'[Current(j)'].by = j
  <2>1. /\ phase = [k \in Invocations |-> phase[k]] /\ todo = [k \in Invocations |-> todo[k]]
        /\ at = [k \in Invocations |-> at[k]]
    BY DEF Typed, WorkTyped
  <2>2. /\ i # j /\ phase'[j] = phase[j] /\ todo'[j] = todo[j] /\ at'[j] = at[j] /\ owner = j
    BY <1>3, <2>1 DEF Recycle, GoTo, lease
  <2> DEFINE c == Current(j)
             t == calls[c]
             u == [t EXCEPT !.by = IF @ = i THEN NoInvocation ELSE @]
  <2>3. c' = c /\ c \in Calls /\ State(c) = "TC3" /\ t.by = j /\ t \in Call
    BY <1>1, <2>2 DEF Typed, CallsTyped
  <2>4. calls'[c] = u
    BY <1>3, <2>3 DEF Recycle
  <2> HIDE DEF c
  <2>5. /\ u.started = t.started /\ u.finished = t.finished /\ u.decision = t.decision
        /\ u.published = t.published /\ u.by = j
    BY <2>2, <2>3 DEF Call
  <2> HIDE DEF u
  <2>6. StateOf(u) = "TC3"
    BY <2>3, <2>5 DEF State, StateOf
  <2> QED
    BY <2>3, <2>4, <2>5, <2>6 DEF State, c
<1>4. CASE UserStep \/ WebKeepInterrupted \/ Stall \/ Expire \/ Sweep
  <2>1. UNCHANGED work /\ (owner' = owner \/ owner' = NoInvocation)
    BY <1>4 DEF UserStep, KeepOutput, OmitOutput, Approve, ApproveTurn, WebInterrupt, CtrlC,
       CtrlCOver, WebKeepInterrupted, Stall, Expire, Sweep, lease
  <2>2. /\ Current(j)' = Current(j) /\ Current(j) \in Calls
        /\ State(Current(j)) = "TC3" /\ calls[Current(j)].by = j
    BY <1>1, <1>t, <2>1 DEF work
  <2> DEFINE c == Current(j)
  <2> HIDE DEF c
  <2>3. State(c)' = "TC3" /\ calls'[c].by = calls[c].by
    <3>1. c \in Calls /\ State(c) = "TC3" /\ owner' # NoInvocation /\ c' = c
      BY <1>t, <2>2 DEF c
    <3>2. State(c)' = StateOf(calls'[c])
      BY <3>1 DEF State
    <3>3. \A d \in Calls : State(d) = "TC3" =>
            StateOf(calls'[d]) = "TC3" /\ calls'[d].by = calls[d].by
      BY <1>4, <3>1, UsersLeaveRunning DEF State
    <3> QED
      BY <3>1, <3>2, <3>3
  <2> QED
    BY <2>2, <2>3 DEF State, c
<1>5. CASE CancelCall \/ \E c \in Calls : AnswerCancelled(c)
  <2>1. owner' = owner /\ Cancelling
    BY <1>5 DEF CancelCall, AnswerCancelled, Cancelling, lease
  <2> QED
    BY <1>t, <2>1 DEF LoopSound
<1> QED
  BY <1>2, <1>3, <1>4, <1>5 DEF Next, CancelStep

LEMMA CancelSoundStep ==
  ASSUME Typed, Colocated, LoopInv, LifeInv, Next
  PROVE  CancelSound'
<1>t. /\ CallsTyped /\ CancelSound /\ ExplicitSound /\ LoopSound /\ CallsSound
  BY DEF Typed, LoopInv, LifeInv
<1>n. ASSUME ~Cancelling, UNCHANGED <<cancel>> PROVE CancelSound'
  BY <1>n DEF CancelSound, Cancelling
<1>s. ASSUME UNCHANGED <<calls, cancel>> PROVE CancelSound'
  BY <1>s, <1>t DEF CancelSound, State
<1>1. ASSUME NEW i \in Invocations, RunnerStep(i) \/ FaultStep(i) PROVE CancelSound'
  BY <1>1, <1>n, <1>s, RunnerAlone
<1>2. ASSUME NEW i \in Invocations, Recycle(i) PROVE CancelSound'
  <2>1. UNCHANGED cancel
    BY <1>2 DEF Recycle
  <2>2. ASSUME NEW c \in Calls
        PROVE  Observe(calls'[c]) = Observe(calls[c]) /\ StateOf(calls'[c]) = StateOf(calls[c])
    <3> DEFINE t == calls[c]
               u == [t EXCEPT !.by = IF @ = i THEN NoInvocation ELSE @]
    <3>1. calls'[c] = u /\ t \in Call
      BY <1>2, <1>t DEF Recycle, CallsTyped
    <3> HIDE DEF t
    <3>2. /\ u.approval = t.approval /\ u.started = t.started /\ u.finished = t.finished
          /\ u.decision = t.decision /\ u.published = t.published /\ u.version = t.version
      BY <3>1 DEF Call
    <3> HIDE DEF u
    <3>3. StateOf(u) = StateOf(t)
      BY <3>2 DEF StateOf
    <3> QED
      BY <3>1, <3>2, <3>3 DEF Observe, t
  <2>3. DOMAIN cancel.seen \subseteq Calls /\ cancel.owes \subseteq Calls
    BY DEF Typed, CancelTyped, Seeing
  <2> QED
    BY <1>t, <2>1, <2>2, <2>3 DEF CancelSound, State
<1>3. CASE Stall \/ Expire \/ Sweep
  BY <1>3, <1>s DEF Stall, Expire, Sweep
<1>4. CASE CtrlC
  <2> DEFINE met == {d \in Calls : StateOf(calls'[d]) \in {"TC1", "TC2.1", "TC3", "TC4", "TC5"}}
  <2>1. /\ ~Cancelling
        /\ cancel' = [cancel EXCEPT !.seen = [c \in met |-> Observe(calls'[c])]]
    BY <1>4 DEF CtrlC, CtrlCOver
  <2>2. cancel = [seen |-> cancel.seen, owes |-> cancel.owes, keeps |-> cancel.keeps]
    BY DEF Typed, CancelTyped
  <2>3. cancel'.seen = [c \in met |-> Observe(calls'[c])] /\ cancel'.owes = {}
    BY <2>1, <2>2 DEF Cancelling
  <2> QED
    BY <2>3 DEF CancelSound, State
<1>5. CASE WebInterrupt \/ WebKeepInterrupted
  <2>1. ~Cancelling
    BY <1>5 DEF WebInterrupt, WebKeepInterrupted, MayHandle
  <2>2. cancel'.seen = cancel.seen /\ cancel'.owes = cancel.owes
    <3>1. \E k : cancel' = [cancel EXCEPT !.keeps = k]
      BY <1>5 DEF WebInterrupt, WebKeepInterrupted
    <3>2. cancel = [seen |-> cancel.seen, owes |-> cancel.owes, keeps |-> cancel.keeps]
      BY DEF Typed, CancelTyped
    <3> QED
      BY <3>1, <3>2
  <2> QED
    BY <2>1, <2>2 DEF CancelSound, Cancelling
<1>6. CASE \/ \E c \in Calls : KeepOutput(c) \/ OmitOutput(c)
                               \/ \E answer \in {"granted", "denied"} : Approve(c, answer)
           \/ ApproveTurn
  <2>1. ~Cancelling /\ UNCHANGED cancel
    BY <1>6 DEF KeepOutput, OmitOutput, Approve, ApproveTurn, MayHandle
  <2> QED
    BY <1>n, <2>1
<1>7. CASE CancelCall
  <2> DEFINE c == CancelNext
  <2>1. c \in Calls /\ c \in DOMAIN cancel.seen
    <3>1. DOMAIN cancel.seen \subseteq Calls /\ DOMAIN cancel.seen # {}
      BY <1>7 DEF CancelCall, Typed, CancelTyped, Seeing
    <3>2. DOMAIN cancel.seen \subseteq Nat
      BY <3>1, CallsAssumption
    <3> QED
      BY <3>1, <3>2, MinIn DEF CancelNext
  <2> DEFINE t == calls[c]
             rest == [d \in DOMAIN cancel.seen \ {c} |-> cancel.seen[d]]
             committed == \/ cancel.seen[c].state = "TC1"
                          \/ /\ cancel.seen[c].version = t.version /\ t.named
                             /\ ~t.published
                          \/ t.decision # "none"
             owed == IF committed THEN {c} \ UserCalls ELSE {}
  <2>2. cancel' = [cancel EXCEPT !.seen = rest, !.owes = owed]
    BY <1>7 DEF CancelCall
  <2>3. cancel'.seen = rest /\ cancel'.owes = owed
    <3>1. cancel = [seen |-> cancel.seen, owes |-> cancel.owes, keeps |-> cancel.keeps]
      BY DEF Typed, CancelTyped
    <3> HIDE DEF rest, owed
    <3> QED
      BY <2>2, <3>1
  <2>4. \/ cancel.seen[c].state = "TC1" /\ SetCall(c, Approved(t, "denied"))
        \/ /\ cancel.seen[c].state # "TC1" /\ committed /\ t.decider # "explicit"
           /\ SetCall(c, Decided(t, "omit", "explicit"))
        \/ /\ cancel.seen[c].state # "TC1" /\ UNCHANGED calls
           /\ ~committed \/ t.published \/ t.decider = "explicit"
    BY <1>7 DEF CancelCall
  <2>5. ~t.published /\ cancel.seen[c] = Observe(t) /\ t \in Call /\ Sound(t) /\ Explicit(t)
    BY <1>t, <2>1 DEF CancelSound, LoopSound, CallsTyped, CallsSound, ExplicitSound
  <2>6. cancel.seen[c].state = StateOf(t)
    BY <2>5 DEF Observe
  <2>7. \A d \in Calls \ {c} : calls'[d] = calls[d]
    BY <1>t, <2>1, <2>4 DEF SetCall, CallsTyped
  <2>8. committed => StateOf(calls'[c]) \in {"TC2.2", "TC5"}
    <3>1. "omit" # "none"
      OBVIOUS
    <3>2. CASE cancel.seen[c].state = "TC1" /\ SetCall(c, Approved(t, "denied"))
      <4>1. Made(Approved(t, "denied"), "denied", t.started, t.by, t.finished, t.durable,
                 t.decision, t.published, t.version + 1)
        BY <2>5, EffectsMake
      <4>2. StateOf(Approved(t, "denied")) = "TC2.2"
        BY <2>6, <3>2, <4>1 DEF Made, StateOf
      <4> QED
        BY <1>t, <2>1, <3>2, <4>2 DEF SetCall, CallsTyped
    <3>3. CASE SetCall(c, Decided(t, "omit", "explicit"))
      <4>1. Made(Decided(t, "omit", "explicit"), t.approval, t.started, t.by,
                 IF t.finished = "none" THEN "interrupted" ELSE t.finished, t.durable, "omit",
                 t.published, t.version + 1)
        BY <2>5, EffectsMake
      <4>2. StateOf(Decided(t, "omit", "explicit")) = "TC5"
        BY <2>5, <3>1, <4>1 DEF Made, StateOf
      <4> QED
        BY <1>t, <2>1, <3>3, <4>2 DEF SetCall, CallsTyped
    <3>4. CASE UNCHANGED calls /\ (~committed \/ t.published \/ t.decider = "explicit")
      <4>1. committed => t.decision # "none"
        BY <2>5, <3>4 DEF Explicit
      <4> QED
        BY <2>5, <3>4, <4>1, StateDecision
    <3> QED
      BY <2>4, <3>2, <3>3, <3>4
  <2>9. DOMAIN cancel.seen \subseteq Calls
    BY DEF Typed, CancelTyped, Seeing
  <2>10. \A d \in cancel'.owes : d = c /\ committed
    BY <2>3
  <2>11. \A d \in DOMAIN cancel'.seen : d \in DOMAIN cancel.seen \ {c} /\ cancel'.seen[d] = cancel.seen[d]
    BY <2>3
  <2> HIDE DEF committed, c
  <2> QED
    BY <1>t, <2>7, <2>8, <2>9, <2>10, <2>11 DEF CancelSound, State
<1>8. ASSUME NEW c \in Calls, AnswerCancelled(c) PROVE CancelSound'
  <2>1. /\ c \in cancel.owes /\ SetCall(c, Published(calls[c]))
        /\ cancel' = [cancel EXCEPT !.owes = {}]
    BY <1>8 DEF AnswerCancelled
  <2>2. /\ cancel = [seen |-> cancel.seen, owes |-> cancel.owes, keeps |-> cancel.keeps]
        /\ DOMAIN cancel.seen \subseteq Calls
    BY DEF Typed, CancelTyped, Seeing
  <2>3. cancel'.seen = cancel.seen /\ cancel'.owes = {}
    BY <2>1, <2>2
  <2>4. c \notin DOMAIN cancel.seen
    BY <1>t, <2>1 DEF LoopSound
  <2>5. \A d \in DOMAIN cancel.seen : calls'[d] = calls[d]
    BY <1>t, <2>1, <2>2, <2>4 DEF SetCall, CallsTyped
  <2> QED
    BY <1>t, <2>3, <2>5 DEF CancelSound, State
<1> QED
  BY <1>1, <1>2, <1>3, <1>4, <1>5, <1>6, <1>7, <1>8 DEF Next, UserStep, CancelStep

LEMMA NextWalks ==
  ASSUME Typed, Colocated, LoopInv, LifeInv, Next
  PROVE  AllWalk
BY RunnerWalks, OthersWalk, CancelWalks DEF Next, CancelStep

LEMMA LifeInvStep == Colocated /\ IInv /\ LoopInv /\ LifeInv /\ [Next]_vars => LifeInv'
<1> SUFFICES ASSUME Colocated, Typed, LoopInv, LifeInv, [Next]_vars PROVE LifeInv'
  BY Parts DEF Typed
<1>1. CASE Next
  <2>1. ExplicitSound'
    BY <1>1, NextWalks DEF AllWalk, ExplicitSound
  <2> QED
    BY <1>1, <2>1, OwnersRunStep, CancelSoundStep DEF LifeInv
<1>2. CASE UNCHANGED vars
  <2>1. UNCHANGED <<calls, owner, phase, todo, at, cancel>>
    BY <1>2 DEF vars, lease, work
  <2>2. \A i \in Invocations : Current(i)' = Current(i)
    BY <2>1 DEF Current
  <2>3. OwnersRun'
    BY <2>1, <2>2 DEF LifeInv, OwnersRun, State
  <2>4. CancelSound' /\ ExplicitSound'
    BY <2>1 DEF LifeInv, CancelSound, ExplicitSound, State
  <2> QED
    BY <2>3, <2>4 DEF LifeInv
<1> QED
  BY <1>1, <1>2

LEMMA LifeInvInit == Init => LifeInv
<1> SUFFICES ASSUME Init PROVE LifeInv
  OBVIOUS
<1>1. OwnersRun
  BY DEF Init, OwnersRun
<1>2. CancelSound
  <2>1. DOMAIN ObserveAll({}) = {}
    BY DEF ObserveAll
  <2> QED
    BY <2>1 DEF Init, CancelSound
<1>3. ExplicitSound
  BY DEF Init, ExplicitSound, Explicit
<1> QED
  BY <1>1, <1>2, <1>3 DEF LifeInv

\* In one event loop the detailed calls implement the abstract ones: none is run,
\* returned, decided on or answered out of turn, whatever happens to the
\* invocations that work on them.
THEOREM LoopImplementsLifecycle == ASSUME Colocated PROVE Spec => ImplementsLifecycle
<1>1. Init => Lifecycle!Init
  <2> SUFFICES ASSUME Init PROVE Lifecycle!Init
    OBVIOUS
  <2>1. ASSUME NEW c \in Calls PROVE StageOf(calls[c]) \in {"asked", "granted"}
    <3>1. /\ ~calls[c].published /\ calls[c].decision = "none" /\ calls[c].finished = "none"
          /\ ~calls[c].started /\ calls[c].approval \in {"none", "granted"}
      BY DEF Init
    <3>2. StateOf(calls[c]) \in {"TC1", "TC2.1"}
      BY <3>1 DEF StateOf
    <3> QED
      BY <3>2 DEF StageOf
  <2> QED
    BY <2>1 DEF Init, Lifecycle!Init
<1>2. IInv /\ LoopInv /\ LifeInv /\ [Next]_vars => [Lifecycle!Next]_(Lifecycle!vars)
  <2> SUFFICES ASSUME Typed, LoopInv, LifeInv, [Next]_vars
               PROVE  Lifecycle!Next \/ UNCHANGED Lifecycle!vars
    BY Parts DEF Typed
  <2>1. CASE Next
    BY <2>1, NextWalks DEF AllWalk, Lifecycle!Next
  <2>2. CASE UNCHANGED vars
    BY <2>2 DEF vars, record, Lifecycle!vars
  <2> QED
    BY <2>1, <2>2
<1> QED
  BY <1>1, <1>2, LoopInvInit, LoopInvStep, LifeInvInit, LifeInvStep, InvariantInit, InvariantStep,
     PTL DEF Spec, ImplementsLifecycle, Lifecycle!Spec
=============================================================================
