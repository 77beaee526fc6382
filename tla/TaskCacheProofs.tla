--------------------------- MODULE TaskCacheProofs ---------------------------
(***************************************************************************)
(* What the task cache guarantees for every script, however often it is    *)
(* started, fails and dies.  The table itself is not locked: two attempts  *)
(* at one task keep out of each other's way only because the script has    *)
(* two calls of a task in two different steps of some task above both, and *)
(* because a task never goes on to its next step while anything it called  *)
(* in this one is busy.  Scripts of that kind are the hypothesis           *)
(* NeverListedTwice of the theorems that need it.                          *)
(***************************************************************************)
EXTENDS TaskCache, TLAPS

-----------------------------------------------------------------------------
(* The inductive invariant. *)

Busy(s) == frame[s].pc # "idle"

\* What was called is busy only in the step that called it.
CallsNested ==
  \A c \in Sites \ {Root} : Busy(c) =>
    frame[Parent[c]].pc = "running" /\ frame[Parent[c]].at = Step[c]

\* The table holds values and terminal failures only under their own status, and
\* nothing is left by a failed attempt at a task that never had one.
RowsSound ==
  \A k \in Keys :
    /\ rows[k].result = "terminal" => rows[k].status = "FAILED"
    /\ rows[k].result = "value" => rows[k].status = "COMPLETED"
    /\ debris[k] = "failed" => rows[k].status \notin {"none", "PENDING"}

\* s may rest on c, which it called.
Rests(s, c) ==
  Completed(c) \/ (Row(c).result = "terminal" /\ c \in Listed)

\* The callees whose failure s must not lose.
Minded(s) == Callees(s) \ (Wrapped \union Uncached)

\* What the process is about agrees with the table.
RunningSound(s) ==
  frame[s].pc = "running" =>
    /\ Row(s).status \in {"PENDING", "RUNNING"} /\ frame[s].at # 0
    /\ s \notin Catching => \A c \in Minded(s) : Step[c] < frame[s].at => Rests(s, c)

ReturnedSound(s) ==
  frame[s].pc = "returned" =>
    /\ Row(s).status \in {"PENDING", "RUNNING"}
    /\ s \notin Catching => \A c \in Minded(s) : Rests(s, c)

RecoveringSound(s) ==
  frame[s].pc = "recovering" =>
    /\ Row(s).status \in {"RUNNING", "FAILED"} /\ Row(s).result \notin {"terminal", "value"}
    /\ frame[s].saw = Row(s).result

GivenSound(s) ==
  frame[s].pc = "done" =>
    /\ frame[s].result \in Results
    /\ frame[s].result = "value" => Completed(s)
    /\ frame[s].result = "terminal" => Completed(s) \/ Row(s).result = "terminal"

SiteSound(s) == RunningSound(s) /\ ReturnedSound(s) /\ RecoveringSound(s) /\ GivenSound(s)

FramesSound ==
  /\ \A s \in Cached : SiteSound(s)
  /\ \A s \in Uncached : frame[s].pc \notin {"recovering", "returned"}

IInv == TypeOK /\ CallsNested /\ RowsSound /\ FramesSound /\ RestsOnCompleted

-----------------------------------------------------------------------------
(* Types. *)

Frames == [pc : {"idle", "called", "recovering", "running", "returned", "done"}, at : Nat,
           saw : Results \union {"none"}, result : Results \union {"none"}]

Budgets == [failures : 0..MaxFailures, crashes : 0..MaxCrashes, runs : 0..MaxRuns]

LEMMA SitesTyped ==
  ASSUME NEW s \in Sites
  PROVE  /\ Parent[s] \in Sites /\ Step[s] \in Nat /\ Step[s] # 0
         /\ s \in Cached \/ s \in Uncached
         /\ s \in Cached => Key[s] \in Keys
         /\ \A n : CalledIn(s, n) \subseteq Callees(s) /\ Callees(s) \subseteq Sites
BY ScriptAssumption DEF Keys, Cached, CalledIn, Callees

LEMMA RowTyped ==
  ASSUME TypeOK, NEW s \in Cached
  PROVE  /\ Key[s] \in Keys /\ Row(s) \in Rows
         /\ Row(s).status \in {"none", "PENDING", "RUNNING", "COMPLETED", "FAILED"}
         /\ Row(s).result \in Results \union {"none"}
         /\ Row(s).status \in {"none", "PENDING"} => Row(s).result = "none"
         /\ Row(s) = [status |-> Row(s).status, result |-> Row(s).result]
<1>1. Key[s] \in Keys
  BY DEF Keys
<1>2. Row(s) \in Rows
  BY <1>1 DEF TypeOK, Row
<1> QED
  BY <1>1, <1>2 DEF Rows, Results, Failures

\* Writing a row writes that row.
LEMMA StoreMakes ==
  ASSUME TypeOK, NEW s \in Cached, NEW status, NEW result, Store(s, status, result)
  PROVE  /\ rows' = [rows EXCEPT ![Key[s]] = [status |-> status, result |-> result]]
         /\ Row(s)'.status = status /\ Row(s)'.result = result
         /\ \A k \in Keys \ {Key[s]} : rows'[k] = rows[k]
BY RowTyped DEF Store, TypeOK, Row

LEMMA MarkMakes ==
  ASSUME TypeOK, NEW s \in Cached, NEW status, Mark(s, status)
  PROVE  /\ rows' = [rows EXCEPT ![Key[s]] = [status |-> status, result |-> Row(s).result]]
         /\ Row(s)'.status = status /\ Row(s)'.result = Row(s).result
         /\ \A k \in Keys \ {Key[s]} : rows'[k] = rows[k]
<1>1. Key[s] \in Keys /\ Row(s) = [status |-> Row(s).status, result |-> Row(s).result]
  BY RowTyped
<1>2. rows' = [rows EXCEPT ![Key[s]] = [rows[Key[s]] EXCEPT !.status = status]]
  BY DEF Mark
<1>3. [rows[Key[s]] EXCEPT !.status = status] = [status |-> status, result |-> Row(s).result]
  BY <1>1 DEF Row
<1> QED
  BY <1>1, <1>2, <1>3 DEF TypeOK, Row

LEMMA GoToTyped ==
  ASSUME TypeOK, NEW s \in Sites, NEW n \in Nat, GoTo(s, n)
  PROVE  /\ frame' \in [Sites -> Frames]
         /\ frame'[s].pc = "running" /\ frame'[s].at = n
         /\ \A c \in Sites \ {s} :
              frame'[c] = IF c \in CalledIn(s, n) THEN [Idle EXCEPT !.pc = "called"]
                          ELSE IF c \in Callees(s) THEN Idle ELSE frame[c]
<1>1. frame \in [Sites -> Frames]
  BY DEF TypeOK, Frames
<1>2. /\ [frame[s] EXCEPT !.pc = "running", !.at = n] \in Frames
      /\ [frame[s] EXCEPT !.pc = "running", !.at = n].pc = "running"
      /\ [frame[s] EXCEPT !.pc = "running", !.at = n].at = n
  BY <1>1 DEF Frames
<1>3. [Idle EXCEPT !.pc = "called"] \in Frames /\ Idle \in Frames
  BY DEF Idle, Frames
<1> QED
  BY <1>1, <1>2, <1>3 DEF GoTo

LEMMA LeaveTyped ==
  ASSUME TypeOK, NEW s \in Sites, NEW left \in Frames, Leave(s, left)
  PROVE  /\ frame' \in [Sites -> Frames]
         /\ frame'[s] = left
         /\ \A c \in Sites \ {s} : frame'[c] = IF c \in Callees(s) THEN Idle ELSE frame[c]
<1>1. frame \in [Sites -> Frames]
  BY DEF TypeOK, Frames
<1>2. Idle \in Frames
  BY DEF Idle, Frames
<1> QED
  BY <1>1, <1>2 DEF Leave

LEMMA GiveTyped ==
  ASSUME TypeOK, NEW s \in Sites, NEW result \in Results, Give(s, result)
  PROVE  /\ frame' \in [Sites -> Frames]
         /\ frame'[s].pc = "done" /\ frame'[s].result = result
         /\ \A c \in Sites \ {s} : frame'[c] = IF c \in Callees(s) THEN Idle ELSE frame[c]
<1> DEFINE left == [Idle EXCEPT !.pc = "done", !.result = result]
<1>1. left \in Frames /\ left.pc = "done" /\ left.result = result
  BY DEF Idle, Frames
<1> QED
  BY <1>1, LeaveTyped DEF Give

\* A cached task has returned, and its value is not stored yet.
Returns(s) == Leave(s, [Idle EXCEPT !.pc = "returned"])

LEMMA ReturnsTyped ==
  ASSUME TypeOK, NEW s \in Sites, Returns(s)
  PROVE  /\ frame' \in [Sites -> Frames]
         /\ frame'[s].pc = "returned"
         /\ \A c \in Sites \ {s} : frame'[c] = IF c \in Callees(s) THEN Idle ELSE frame[c]
<1> DEFINE left == [Idle EXCEPT !.pc = "returned"]
<1>1. left \in Frames /\ left.pc = "returned"
  BY DEF Idle, Frames
<1> QED
  BY <1>1, LeaveTyped DEF Returns

LEMMA BudgetTyped ==
  ASSUME TypeOK, NEW r, MayBe(r)
  PROVE  budget' \in Budgets
BY BoundsAssumption DEF TypeOK, Budgets, MayBe

\* A task that fails stores what it gives.
LEMMA FailMakes ==
  ASSUME TypeOK, NEW s \in Sites, NEW f \in Failures, Fail(s, f)
  PROVE  /\ Give(s, f) /\ f \in Results /\ f # "value" /\ UNCHANGED returned
         /\ s \in Uncached => UNCHANGED <<rows, debris>>
         /\ s \in Cached =>
              /\ Store(s, "FAILED", f)
              /\ debris' = [debris EXCEPT ![Key[s]] = "failed"]
BY DEF Fail, Cached, Results, Failures

LEMMA ThrownMakes ==
  ASSUME NEW batch
  PROVE  /\ Thrown(batch) \in {"none"} \union Failures
         /\ Thrown(batch) = "none" => \A c \in batch \ Wrapped : frame[c].result # "error"
         /\ Thrown(batch) = "none" /\ (\E c \in batch : frame[c].result = "terminal") =>
              batch \cap Listed # {}
BY DEF Thrown, Failures

\* Of the calls of one step all are listed, or there is one.
LEMMA ListedTogether ==
  ASSUME NEW s \in Sites, NEW n, NEW c \in CalledIn(s, n), CalledIn(s, n) \cap Listed # {}
  PROVE  c \in Listed
<1>1. PICK d \in CalledIn(s, n) : d \in Listed
  OBVIOUS
<1>2. c \in Callees(s) /\ d \in Callees(s) /\ Step[c] = Step[d]
  BY DEF CalledIn
<1> QED
  BY <1>1, <1>2, ScriptAssumption

-----------------------------------------------------------------------------
(* What the steps of a task do to the process. *)

Suspects(s) == frame' = [frame EXCEPT ![s].pc = "recovering", ![s].saw = Row(s).result]

LEMMA StepsOfRun ==
  ASSUME TypeOK, NEW s \in Sites, Run(s)
  PROVE  /\ frame[s].pc \in {"called", "recovering", "running", "returned"}
         /\ \/ \E n \in Nat : n # 0 /\ GoTo(s, n)
            \/ \E r \in Results : Give(s, r)
            \/ Returns(s) /\ s \in Cached
            \/ Suspects(s) /\ Asked(s) /\ s \in Cached
<1>n. frame[s].at \in Nat /\ frame[s].saw \in Results \union {"none"}
  BY DEF TypeOK
<1>1. CASE Bypass(s) \/ Create(s) \/ RunAgain(s)
  BY <1>1 DEF Bypass, Create, RunAgain, Asked
<1>2. CASE Reuse(s) \/ Refuse(s) \/ Suspect(s)
  BY <1>2 DEF Reuse, Refuse, Suspect, Suspects, Asked, Results, Failures
<1>3. CASE Retry(s)
  BY <1>3 DEF Retry
<1>4. CASE GiveUp(s) \/ Break(s)
  BY <1>n, <1>4 DEF GiveUp, Break, Results, Failures
<1>5. CASE Return(s)
  BY <1>5 DEF Return, Returns, Computing, Cached, Results
<1>6. CASE Raise(s) \/ Spoil(s)
  BY <1>6, FailMakes DEF Raise, Spoil, Computing
<1>7. CASE Commit(s)
  BY <1>7 DEF Commit, Results
<1>8. CASE Resume(s)
  <2>1. Thrown(CalledIn(s, frame[s].at)) \in {"none"} \union Failures
    BY ThrownMakes
  <2>2. frame[s].at + 1 \in Nat /\ frame[s].at + 1 # 0
    BY <1>n
  <2> QED
    BY <1>8, <2>1, <2>2, FailMakes DEF Resume
<1> QED
  BY <1>1, <1>2, <1>3, <1>4, <1>5, <1>6, <1>7, <1>8 DEF Run

LEMMA SuspectsTyped ==
  ASSUME TypeOK, NEW s \in Sites, Suspects(s), Row(s).result \in Results \union {"none"}
  PROVE  /\ frame' \in [Sites -> Frames]
         /\ frame'[s].pc = "recovering" /\ frame'[s].saw = Row(s).result
         /\ \A c \in Sites \ {s} : frame'[c] = frame[c]
BY DEF TypeOK, Frames, Suspects

\* A task makes its next step when nothing it called is at work.
LEMMA CalleesQuiet ==
  ASSUME TypeOK, CallsNested, NEW s \in Sites, Run(s), NEW c \in Callees(s)
  PROVE  frame[c].pc \in {"idle", "called", "done"} /\ c # s
<1>1. c \in Sites \ {Root} /\ Parent[c] = s
  BY DEF Callees
<1>b. Busy(s)
  BY StepsOfRun DEF Busy
<1>2. CASE frame[s].pc # "running"
  BY <1>1, <1>b, <1>2 DEF CallsNested, Busy
<1>3. CASE frame[s].pc = "running"
  <2>1. Busy(c) => c \in CalledIn(s, frame[s].at)
    BY <1>1 DEF CallsNested, CalledIn
  <2>2. Return(s) \/ Raise(s) \/ Resume(s)
    BY <1>3 DEF Run, Bypass, Create, RunAgain, Reuse, Refuse, Suspect, Retry, GiveUp, Break, Asked,
       Commit, Spoil
  <2>3. CASE Return(s) \/ Raise(s)
    BY <1>b, <1>3, <2>1, <2>3 DEF Return, Raise, Computing, Busy
  <2>4. CASE Resume(s)
    BY <1>b, <1>3, <2>1, <2>4 DEF Resume, Busy
  <2> QED
    BY <2>2, <2>3, <2>4
<1> QED
  BY <1>2, <1>3

\* Two calls of one task are never busy at once.
LEMMA Exclusive ==
  ASSUME NeverListedTwice, CallsNested, NEW s \in Cached, NEW t \in Cached,
         s # t, Key[s] = Key[t], Busy(s), Busy(t)
  PROVE  FALSE
<1>1. PICK a \in Above(s) \ {Root}, b \in Above(t) \ {Root} :
        Parent[a] = Parent[b] /\ Step[a] # Step[b]
  BY DEF NeverListedTwice
<1> DEFINE A == {c \in Sites : Busy(c)}
<1>2. A \in SUBSET Sites /\ \A c \in A \ {Root} : Parent[c] \in A
  BY ScriptAssumption DEF CallsNested, Busy
<1>3. s \in A /\ t \in A
  BY DEF Cached
<1> HIDE DEF A
<1>4. a \in A /\ b \in A
  BY <1>1, <1>2, <1>3 DEF Above
<1>5. frame[Parent[a]].at = Step[a] /\ frame[Parent[b]].at = Step[b]
  BY <1>1, <1>4 DEF CallsNested, A
<1> QED
  BY <1>1, <1>5

LEMMA CallsNestedStep ==
  ASSUME TypeOK, CallsNested, [Next]_vars
  PROVE  CallsNested'
<1>1. CASE UNCHANGED vars
  BY <1>1 DEF vars, CallsNested, Busy
<1>2. CASE Die
  BY <1>2 DEF Die, CallsNested, Busy, Idle
<1>3. CASE Launch
  <2>1. /\ frame' = [frame EXCEPT ![Root] = [Idle EXCEPT !.pc = "called"]]
        /\ frame[Root].pc \in {"idle", "done"}
    BY <1>3 DEF Launch
  <2>2. \A c \in Sites \ {Root} : frame'[c] = frame[c]
    BY <2>1 DEF TypeOK
  <2>3. \A c \in Sites \ {Root} : Busy(c) => Parent[c] # Root /\ Parent[c] \in Sites
    BY <2>1, SitesTyped DEF CallsNested
  <2> QED
    BY <2>2, <2>3 DEF CallsNested, Busy
<1>4. ASSUME NEW s \in Sites, Run(s) PROVE CallsNested'
  <2> SUFFICES ASSUME NEW c \in Sites \ {Root}, frame'[c].pc # "idle"
               PROVE  frame'[Parent[c]].pc = "running" /\ frame'[Parent[c]].at = Step[c]
    BY DEF CallsNested, Busy
  <2>t. Parent[c] \in Sites
    BY SitesTyped
  <2>b. Busy(s)
    BY <1>4, StepsOfRun DEF Busy
  <2>q. \A d \in Callees(s) : frame[d].pc \in {"idle", "called", "done"} /\ d # s
    BY <1>4, CalleesQuiet
  \* Who called c keeps running, if it is not s itself.
  <2>o. Busy(c) /\ Parent[c] # s =>
          /\ frame[Parent[c]].pc = "running" /\ frame[Parent[c]].at = Step[c]
          /\ Parent[c] \notin Callees(s)
    BY <2>q DEF CallsNested
  <2>c. c \in Callees(s) <=> Parent[c] = s
    BY DEF Callees
  <2>1. ASSUME NEW n \in Nat, GoTo(s, n)
        PROVE  frame'[Parent[c]].pc = "running" /\ frame'[Parent[c]].at = Step[c]
    <3>1. /\ frame'[s].pc = "running" /\ frame'[s].at = n
          /\ \A d \in Sites \ {s} :
               frame'[d] = IF d \in CalledIn(s, n) THEN [Idle EXCEPT !.pc = "called"]
                           ELSE IF d \in Callees(s) THEN Idle ELSE frame[d]
      BY <2>1, GoToTyped
    <3>2. CalledIn(s, n) = {d \in Callees(s) : Step[d] = n}
      BY DEF CalledIn
    <3>3. CASE c \in Callees(s)
      <4>1. c # s
        BY <2>b, <2>q, <3>3
      <4>2. c \in CalledIn(s, n)
        BY <3>1, <3>3, <4>1 DEF Idle
      <4> QED
        BY <2>c, <3>1, <3>2, <3>3, <4>2
    <3>4. CASE c \notin Callees(s)
      <4>1. Busy(c)
        BY <2>b, <3>1, <3>2, <3>4 DEF Busy
      <4>2. frame'[Parent[c]] = frame[Parent[c]]
        BY <2>t, <2>c, <2>o, <3>1, <3>2, <3>4, <4>1
      <4> QED
        BY <2>c, <2>o, <3>4, <4>1, <4>2
    <3> QED
      BY <3>3, <3>4
  <2>2. ASSUME \/ \E r \in Results : Give(s, r)
               \/ Returns(s)
        PROVE  frame'[Parent[c]].pc = "running" /\ frame'[Parent[c]].at = Step[c]
    <3>1. \A d \in Sites \ {s} : frame'[d] = IF d \in Callees(s) THEN Idle ELSE frame[d]
      BY <2>2, GiveTyped, ReturnsTyped
    <3>2. c \notin Callees(s)
      BY <2>b, <2>q, <3>1 DEF Idle
    <3>3. Busy(c)
      BY <2>b, <3>1, <3>2 DEF Busy
    <3>4. frame'[Parent[c]] = frame[Parent[c]]
      BY <2>t, <2>c, <2>o, <3>1, <3>2, <3>3
    <3> QED
      BY <2>c, <2>o, <3>2, <3>3, <3>4
  <2>3. CASE Suspects(s) /\ Asked(s)
    <3>1. \A d \in Sites \ {s} : frame'[d] = frame[d]
      BY <2>3 DEF Suspects, TypeOK
    <3>2. Busy(c)
      BY <2>b, <3>1 DEF Busy
    <3>3. Parent[c] # s
      BY <2>3, <3>2 DEF CallsNested, Asked
    <3> QED
      BY <2>t, <2>o, <3>1, <3>2, <3>3
  <2> QED
    BY <1>4, <2>1, <2>2, <2>3, StepsOfRun
<1> QED
  BY <1>1, <1>2, <1>3, <1>4 DEF Next

\* A task at work on its row leaves a row there.
LEMMA RowsTyped ==
  ASSUME TypeOK, NEW s \in Sites, Run(s)
  PROVE  rows' \in [Keys -> Rows]
<1>0. rows \in [Keys -> Rows] /\ frame[s].saw \in Results \union {"none"}
  BY DEF TypeOK
<1>1. ASSUME s \in Cached, NEW status, NEW result, Store(s, status, result),
             [status |-> status, result |-> result] \in Rows
      PROVE  rows' \in [Keys -> Rows]
  BY <1>0, <1>1 DEF Store
<1>2. CASE UNCHANGED rows
  BY <1>0, <1>2
<1>3. CASE Bypass(s) \/ Reuse(s) \/ Refuse(s) \/ Suspect(s)
  BY <1>2, <1>3 DEF Bypass, Reuse, Refuse, Suspect
<1>4. CASE Create(s)
  <2>1. [status |-> "PENDING", result |-> "none"] \in Rows
    BY DEF Rows
  <2> QED
    BY <1>1, <1>4, <2>1 DEF Create
<1>5. CASE RunAgain(s) \/ Retry(s)
  <2>1. Mark(s, "RUNNING")
    BY <1>5 DEF RunAgain, Retry
  <2>2. CASE Key[s] \in Keys
    <3>1. rows[Key[s]] \in Rows
      BY <1>0, <2>2
    <3>2. [rows[Key[s]] EXCEPT !.status = "RUNNING"] \in Rows
      BY <3>1 DEF Rows, Results, Failures
    <3> QED
      BY <1>0, <2>1, <3>2 DEF Mark
  <2>3. CASE Key[s] \notin Keys
    BY <1>0, <2>1, <2>3 DEF Mark
  <2> QED
    BY <2>2, <2>3
<1>6. ASSUME NEW f \in Results PROVE [status |-> "FAILED", result |-> f] \in Rows
  BY DEF Rows
<1>7. CASE GiveUp(s) \/ Break(s)
  <2>1. \E f \in Results : Store(s, "FAILED", f)
    BY <1>0, <1>7 DEF GiveUp, Break, Results, Failures
  <2> QED
    BY <1>0, <1>6, <2>1 DEF Store
<1>8. ASSUME NEW f \in Failures, Fail(s, f) PROVE rows' \in [Keys -> Rows]
  BY <1>1, <1>2, <1>6, <1>8, FailMakes, SitesTyped
<1>9. CASE Return(s)
  BY <1>2, <1>9 DEF Return
<1>10. CASE Raise(s) \/ Spoil(s)
  BY <1>8, <1>10 DEF Raise, Spoil
<1>11. CASE Commit(s)
  <2>1. [status |-> "COMPLETED", result |-> "value"] \in Rows
    BY DEF Rows
  <2> QED
    BY <1>0, <1>11, <2>1 DEF Commit, Store
<1>12. CASE Resume(s)
  BY <1>2, <1>8, <1>12, ThrownMakes DEF Resume
<1> QED
  BY <1>3, <1>4, <1>5, <1>7, <1>9, <1>10, <1>11, <1>12 DEF Run

LEMMA TypeStep ==
  ASSUME TypeOK, [Next]_vars
  PROVE  TypeOK'
<1> USE DEF TypeOK
<1>f. TypeOK <=> /\ rows \in [Keys -> Rows] /\ frame \in [Sites -> Frames] /\ budget \in Budgets
                 /\ debris \in [Keys -> {"none", "failed", "died"}] /\ returned \in [Keys -> Nat]
  BY DEF Frames, Budgets
<1>g. SUFFICES /\ rows' \in [Keys -> Rows] /\ frame' \in [Sites -> Frames] /\ budget' \in Budgets
               /\ debris' \in [Keys -> {"none", "failed", "died"}] /\ returned' \in [Keys -> Nat]
  BY DEF Frames, Budgets
<1> HIDE DEF TypeOK
<1>1. CASE UNCHANGED vars
  BY <1>1, <1>f DEF vars
<1>2. CASE Launch
  <2>1. [Idle EXCEPT !.pc = "called"] \in Frames
    BY DEF Idle, Frames
  <2>2. budget' \in Budgets
    BY <1>2, <1>f, BoundsAssumption DEF Launch, Budgets
  <2> QED
    BY <1>2, <1>f, <2>1, <2>2 DEF Launch, history
<1>3. CASE Die
  <2>1. Idle \in Frames
    BY DEF Idle, Frames
  <2>2. budget' \in Budgets
    BY <1>3, <1>f, BoundsAssumption DEF Die, Budgets
  <2> QED
    BY <1>3, <1>f, <2>1, <2>2 DEF Die
<1>4. ASSUME NEW s \in Sites, Run(s)
      PROVE  /\ rows' \in [Keys -> Rows] /\ frame' \in [Sites -> Frames] /\ budget' \in Budgets
             /\ debris' \in [Keys -> {"none", "failed", "died"}] /\ returned' \in [Keys -> Nat]
  <2>1. frame' \in [Sites -> Frames]
    BY <1>4, StepsOfRun, GoToTyped, GiveTyped, ReturnsTyped, SuspectsTyped, RowTyped
  <2>2. budget' \in Budgets
    BY <1>4, <1>f, BudgetTyped DEF Run, Bypass, Create, RunAgain, Reuse, Refuse, Suspect, Retry,
       GiveUp, Break, Return, Raise, Commit, Spoil, Resume
  <2>3. /\ debris' \in [Keys -> {"none", "failed", "died"}]
        /\ returned' \in [Keys -> Nat]
    <3>1. ASSUME NEW f \in Failures, Fail(s, f)
          PROVE  /\ debris' \in [Keys -> {"none", "failed", "died"}]
                 /\ returned' \in [Keys -> Nat]
      BY <1>f, <3>1, FailMakes, SitesTyped
    <3>2. Thrown(CalledIn(s, frame[s].at)) \in {"none"} \union Failures
      BY ThrownMakes
    <3>3. CASE Return(s)
      BY <1>f, <3>3, SitesTyped DEF Return
    <3> QED
      BY <1>4, <1>f, <3>1, <3>2, <3>3 DEF Run, Bypass, Create, RunAgain, Reuse, Refuse, Suspect,
         Retry, GiveUp, Break, Raise, Commit, Spoil, Resume, history
  <2>4. rows' \in [Keys -> Rows]
    BY <1>4, <1>f, RowsTyped
  <2> QED
    BY <2>1, <2>2, <2>3, <2>4
<1> QED
  BY <1>1, <1>2, <1>3, <1>4 DEF Next


-----------------------------------------------------------------------------
(* What the steps of a task do to the table. *)

\* A task that writes is at work on its own row, which was not settled.
Settled(row) == row.status = "COMPLETED" \/ row.result = "terminal"

LEMMA WritesOwnRow ==
  ASSUME TypeOK, RowsSound, FramesSound, NEW s \in Sites, Run(s), NEW k \in Keys
  PROVE  rows'[k] = rows[k] \/ (s \in Cached /\ k = Key[s] /\ ~Settled(rows[k]))
<1> USE DEF Settled
<1>1. CASE UNCHANGED rows
  BY <1>1
<1>2. ASSUME s \in Cached, NEW status, NEW result, Store(s, status, result), ~Settled(Row(s))
      PROVE  rows'[k] = rows[k] \/ (k = Key[s] /\ ~Settled(rows[k]))
  BY <1>2, StoreMakes DEF Row
<1>3. CASE Bypass(s) \/ Reuse(s) \/ Refuse(s) \/ Suspect(s)
  BY <1>1, <1>3 DEF Bypass, Reuse, Refuse, Suspect
<1>4. CASE Create(s)
  BY <1>2, <1>4, RowTyped DEF Create
<1>5. CASE RunAgain(s) \/ Retry(s)
  <2>1. s \in Cached /\ ~Settled(Row(s))
    BY <1>5, SitesTyped, RowTyped DEF RunAgain, Retry, FramesSound, SiteSound, RecoveringSound
  <2> QED
    BY <1>5, <2>1, MarkMakes DEF RunAgain, Retry, Row
<1>6. CASE GiveUp(s) \/ Break(s)
  <2>1. s \in Cached /\ ~Settled(Row(s))
    BY <1>6, SitesTyped, RowTyped DEF GiveUp, Break, FramesSound, SiteSound,
       RecoveringSound
  <2> QED
    BY <1>2, <1>6, <2>1 DEF GiveUp, Break
<1>7. frame[s].pc \in {"running", "returned"} /\ s \in Cached => ~Settled(Row(s))
  BY RowTyped DEF FramesSound, SiteSound, RunningSound, ReturnedSound, RowsSound, Row
<1>8. ASSUME NEW f \in Failures, Fail(s, f), frame[s].pc \in {"running", "returned"}
      PROVE  rows'[k] = rows[k] \/ (s \in Cached /\ k = Key[s] /\ ~Settled(rows[k]))
  BY <1>1, <1>2, <1>7, <1>8, FailMakes, SitesTyped
<1>9. CASE Return(s)
  BY <1>1, <1>9 DEF Return
<1>10. CASE Raise(s) \/ Spoil(s)
  BY <1>8, <1>10 DEF Raise, Spoil, Computing
<1>11. CASE Commit(s)
  <2>1. s \in Cached
    BY <1>11, SitesTyped DEF Commit, FramesSound
  <2> QED
    BY <1>2, <1>7, <1>11, <2>1 DEF Commit
<1>12. CASE Resume(s)
  BY <1>1, <1>8, <1>12, ThrownMakes DEF Resume
<1> QED
  BY <1>3, <1>4, <1>5, <1>6, <1>9, <1>10, <1>11, <1>12 DEF Run

\* What is settled stays, whoever moves.
LEMMA SettledStays ==
  ASSUME IInv, [Next]_vars, NEW k \in Keys, Settled(rows[k])
  PROVE  rows'[k] = rows[k]
BY WritesOwnRow DEF IInv, Next, Launch, Die, vars

LEMMA RowsSoundStep ==
  ASSUME IInv, [Next]_vars
  PROVE  RowsSound'
<1> USE DEF IInv
<1>t. rows \in [Keys -> Rows] /\ debris \in [Keys -> {"none", "failed", "died"}]
  BY DEF TypeOK
<1>1. CASE UNCHANGED <<rows, debris>>
  BY <1>1 DEF RowsSound
<1>2. CASE UNCHANGED vars \/ Launch
  BY <1>1, <1>2 DEF vars, Launch, history
<1>3. CASE Die
  BY <1>3 DEF Die, RowsSound
<1>4. ASSUME NEW s \in Sites, Run(s) PROVE RowsSound'
  <2>1. CASE Bypass(s) \/ Reuse(s) \/ Refuse(s) \/ Suspect(s) \/ Return(s)
    BY <1>1, <2>1 DEF Bypass, Reuse, Refuse, Suspect, Return, history
  \* What is to be shown of the row that was written.
  <2>s. ASSUME s \in Cached, \A k \in Keys \ {Key[s]} :
                 rows'[k] = rows[k] /\ debris'[k] = debris[k],
               Row(s)'.result = "terminal" => Row(s)'.status = "FAILED",
               Row(s)'.result = "value" => Row(s)'.status = "COMPLETED",
               debris'[Key[s]] = "failed" => Row(s)'.status \notin {"none", "PENDING"}
        PROVE  RowsSound'
    BY <2>s DEF RowsSound, Row
  <2>2. CASE Create(s) \/ RunAgain(s) \/ Retry(s) \/ GiveUp(s) \/ Break(s)
    <3>1. s \in Cached
      BY <2>2, SitesTyped DEF Create, RunAgain, Retry, GiveUp, Break, FramesSound
    <3>2. Key[s] \in Keys
      BY <3>1, RowTyped
    <3>4. \A k \in Keys \ {Key[s]} : debris'[k] = debris[k]
      BY <1>t, <2>2 DEF Create, RunAgain, Retry, GiveUp, Break, history
    <3>5. \A k \in Keys \ {Key[s]} : rows'[k] = rows[k]
      BY <1>4, WritesOwnRow
    <3>6. CASE Create(s)
      <4>1. debris'[Key[s]] # "failed"
        BY <3>2, <3>6 DEF Create, history, RowsSound, Row
      <4>2. Row(s)'.status = "PENDING" /\ Row(s)'.result = "none"
        BY <3>1, <3>6, StoreMakes DEF Create
      <4> QED
        BY <2>s, <3>1, <3>4, <3>5, <4>1, <4>2
    <3>7. CASE RunAgain(s)
      <4>1. Row(s).result = "none"
        BY <3>1, <3>7, RowTyped DEF RunAgain
      <4>2. Row(s)'.status = "RUNNING" /\ Row(s)'.result = "none"
        BY <3>1, <3>7, <4>1, MarkMakes DEF RunAgain
      <4> QED
        BY <2>s, <3>1, <3>4, <3>5, <4>2
    <3>8. CASE Retry(s)
      <4>1. Row(s).result \notin {"terminal", "value"}
        BY <3>1, <3>8 DEF Retry, FramesSound, SiteSound, RecoveringSound
      <4>2. Row(s)'.status = "RUNNING" /\ Row(s)'.result = Row(s).result
        BY <3>1, <3>8, MarkMakes DEF Retry
      <4> QED
        BY <2>s, <3>1, <3>4, <3>5, <4>1, <4>2
    <3>9. CASE GiveUp(s) \/ Break(s)
      <4>1. \E f \in Failures : Store(s, "FAILED", f)
        <5>1. frame[s].saw \in Results \union {"none"}
          BY DEF TypeOK
        <5>2. frame[s].pc = "recovering" => frame[s].saw # "value"
          BY <3>1 DEF FramesSound, SiteSound, RecoveringSound
        <5> QED
          BY <3>9, <5>1, <5>2 DEF GiveUp, Break, Results, Failures
      <4>2. Row(s)'.status = "FAILED" /\ Row(s)'.result \in Failures
        BY <3>1, <4>1, StoreMakes
      <4> QED
        BY <2>s, <3>1, <3>4, <3>5, <4>2 DEF Failures
    <3> QED
      BY <2>2, <3>6, <3>7, <3>8, <3>9
  <2>3. ASSUME NEW f \in Failures, Fail(s, f) PROVE RowsSound'
    <3>1. CASE s \in Uncached
      BY <1>1, <2>3, <3>1, FailMakes
    <3>2. CASE s \in Cached
      <4>1. Store(s, "FAILED", f) /\ debris' = [debris EXCEPT ![Key[s]] = "failed"] /\ f # "value"
        BY <2>3, <3>2, FailMakes
      <4>2. Row(s)'.status = "FAILED" /\ Row(s)'.result = f
        BY <3>2, <4>1, StoreMakes
      <4>3. \A k \in Keys \ {Key[s]} : rows'[k] = rows[k] /\ debris'[k] = debris[k]
        BY <1>t, <1>4, <4>1, WritesOwnRow
      <4> QED
        BY <2>s, <3>2, <4>1, <4>2, <4>3
    <3> QED
      BY <3>1, <3>2, SitesTyped
  <2>4. CASE Commit(s)
    <3>1. s \in Cached
      BY <2>4, SitesTyped DEF Commit, FramesSound
    <3>2. Row(s)'.status = "COMPLETED" /\ Row(s)'.result = "value" /\ debris' = debris
      BY <2>4, <3>1, StoreMakes DEF Commit, history
    <3> QED
      BY <1>4, <2>s, <3>1, <3>2, WritesOwnRow
  <2>5. CASE Raise(s) \/ Spoil(s)
    BY <2>3, <2>5 DEF Raise, Spoil
  <2>6. CASE Resume(s)
    BY <1>1, <2>3, <2>6, ThrownMakes DEF Resume, history
  <2> QED
    BY <1>4, <2>1, <2>2, <2>4, <2>5, <2>6 DEF Run
<1> QED
  BY <1>2, <1>3, <1>4 DEF Next


LEMMA MindedTyped ==
  ASSUME NEW s \in Sites, NEW c \in Minded(s)
  PROVE  /\ c \in Callees(s) /\ c \in Cached /\ c \in Sites \ {Root} /\ Parent[c] = s
         /\ c \notin Wrapped /\ Key[c] \in Keys /\ Step[c] \in Nat /\ Step[c] # 0
         /\ c \in CalledIn(s, Step[c])
BY ScriptAssumption DEF Minded, Callees, CalledIn, Cached, Keys

LEMMA RestsStays ==
  ASSUME IInv, [Next]_vars, NEW s \in Sites, NEW c \in Minded(s), Rests(s, c)
  PROVE  Rests(s, c)'
<1>1. Key[c] \in Keys
  BY MindedTyped
<1>2. Settled(rows[Key[c]])
  BY DEF Rests, Settled, Completed, Row
<1>3. rows'[Key[c]] = rows[Key[c]]
  BY <1>1, <1>2, SettledStays
<1> QED
  BY <1>3 DEF Rests, Completed, Row

\* A task that goes on may rest on what it called in the step that is over.
LEMMA GoesOnSoundly ==
  ASSUME IInv, NEW s \in Sites, Resume(s), Thrown(CalledIn(s, frame[s].at)) = "none",
         NEW c \in Minded(s), Step[c] = frame[s].at
  PROVE  Rests(s, c)
<1> DEFINE batch == CalledIn(s, frame[s].at)
<1>1. c \in batch /\ c \in Cached /\ c \notin Wrapped
  BY MindedTyped
<1>3. frame[c].pc = "done"
  BY <1>1 DEF Resume
<1>4. frame[c].result \in Results /\ GivenSound(c)
  BY <1>1, <1>3 DEF IInv, FramesSound, SiteSound, GivenSound
<1>5. Thrown(batch) = "none"
  OBVIOUS
<1>7. frame[c].result = "terminal" => c \in Listed
  BY <1>1, <1>5, ThrownMakes, ListedTogether
<1> HIDE DEF batch
<1>6. frame[c].result # "error"
  BY <1>1, <1>5, ThrownMakes
<1>8. frame[c].result \in {"value", "terminal"}
  BY <1>4, <1>6 DEF Results, Failures
<1> QED
  BY <1>3, <1>4, <1>7, <1>8 DEF GivenSound, Rests

\* The task that moves knows what it wrote.
LEMMA MoverSound ==
  ASSUME IInv, NEW s \in Cached, Run(s)
  PROVE  SiteSound(s)'
<1> USE DEF IInv
<1>s. s \in Sites /\ s \notin Uncached /\ Key[s] \in Keys
  BY SitesTyped DEF Cached, Keys
<1>n. [Next]_vars
  BY <1>s DEF Next
<1>1. ASSUME GoTo(s, 1), Row(s)'.status \in {"PENDING", "RUNNING"}
      PROVE  SiteSound(s)'
  <2>1. frame'[s].pc = "running" /\ frame'[s].at = 1
    BY <1>1, <1>s, GoToTyped
  <2>2. \A c \in Minded(s) : ~(Step[c] < 1)
    BY <1>s, MindedTyped
  <2> QED
    BY <1>1, <2>1, <2>2 DEF SiteSound, RunningSound, ReturnedSound, RecoveringSound, GivenSound
<1>2. ASSUME NEW r \in Results, Give(s, r),
             r = "value" => Row(s)'.status = "COMPLETED",
             r = "terminal" => Settled(Row(s)')
      PROVE  SiteSound(s)'
  <2>1. frame'[s].pc = "done" /\ frame'[s].result = r
    BY <1>2, <1>s, GiveTyped
  <2> QED
    BY <1>2, <2>1 DEF SiteSound, RunningSound, ReturnedSound, RecoveringSound, GivenSound,
       Completed, Settled
<1>3. ASSUME rows' = rows PROVE Row(s)' = Row(s)
  BY <1>3 DEF Row
<1>4. CASE Create(s) \/ RunAgain(s) \/ Retry(s)
  <2>1. GoTo(s, 1)
    BY <1>4 DEF Create, RunAgain, Retry
  <2>2. Row(s)'.status \in {"PENDING", "RUNNING"}
    BY <1>4, StoreMakes, MarkMakes DEF Create, RunAgain, Retry
  <2> QED
    BY <1>1, <2>1, <2>2
<1>5. CASE Reuse(s)
  BY <1>2, <1>3, <1>5 DEF Reuse, Settled
<1>6. CASE Refuse(s)
  <2>1. "terminal" \in Results
    BY DEF Results, Failures
  <2> QED
    BY <1>2, <1>3, <1>6, <2>1 DEF Refuse, Settled
<1>7. CASE Suspect(s)
  <2>1. Suspects(s) /\ Row(s)' = Row(s) /\ Row(s).result \in Results \union {"none"}
    BY <1>3, <1>7, RowTyped DEF Suspect, Suspects
  <2>2. frame'[s].pc = "recovering" /\ frame'[s].saw = Row(s).result
    BY <1>s, <2>1, SuspectsTyped
  <2>3. /\ Row(s).status \in {"RUNNING", "FAILED"}
        /\ Row(s).result \notin {"terminal", "value"}
    BY <1>s, <1>7 DEF Suspect, RowsSound, Row
  <2> QED
    BY <2>1, <2>2, <2>3 DEF SiteSound, RunningSound, ReturnedSound, RecoveringSound, GivenSound
<1>8. CASE GiveUp(s) \/ Break(s)
  <2>1. frame[s].saw \in Results \union {"none"}
    BY <1>s DEF TypeOK
  <2>2. frame[s].pc = "recovering" => frame[s].saw # "value"
    BY DEF FramesSound, SiteSound, RecoveringSound
  <2>3. \E f \in Failures : Store(s, "FAILED", f) /\ Give(s, f)
    BY <1>8, <2>1, <2>2 DEF GiveUp, Break, Results, Failures
  <2>4. \A f \in Failures : f \in Results /\ f # "value"
    BY DEF Results, Failures
  <2> QED
    BY <1>2, <2>3, <2>4, StoreMakes DEF Settled
<1>9. ASSUME NEW f \in Failures, Fail(s, f)
      PROVE  SiteSound(s)'
  <2>1. Give(s, f) /\ f \in Results /\ f # "value" /\ Row(s)'.result = f
    BY <1>9, <1>s, FailMakes, StoreMakes
  <2> QED
    BY <1>2, <2>1 DEF Settled
<1>c. CASE Commit(s)
  BY <1>2, <1>c, StoreMakes DEF Commit, Results
\* A task returns that has made all its steps, or may catch what they threw.
<1>r. CASE Return(s)
  <2>1. /\ frame[s].pc = "running" /\ frame[s].at \in Nat /\ frame[s].at # 0 /\ RunningSound(s)
        /\ CalledIn(s, frame[s].at) = {} \/ s \in Catching
    BY <1>s, <1>r DEF Return, Computing, TypeOK, FramesSound, SiteSound, RunningSound
  <2>2. Returns(s) /\ rows' = rows
    BY <1>s, <1>r DEF Return, Returns
  <2>3. frame'[s].pc = "returned"
    BY <1>s, <2>2, ReturnsTyped
  <2>4. ASSUME s \notin Catching, NEW c \in Minded(s) PROVE Rests(s, c)'
    <3>1. Step[c] \in Nat /\ c \in Callees(s)
      BY <1>s, MindedTyped
    <3>2. \A n \in 1..Step[c] : CalledIn(s, n) # {}
      BY <1>s, <3>1, ScriptAssumption
    <3>3. Step[c] < frame[s].at
      BY <2>1, <2>4, <3>1, <3>2
    <3>4. Rests(s, c)
      BY <2>1, <2>4, <3>3 DEF RunningSound
    <3> QED
      BY <1>n, <1>s, <3>4, RestsStays
  <2> QED
    BY <1>3, <2>1, <2>2, <2>3, <2>4 DEF SiteSound, RunningSound, ReturnedSound, RecoveringSound,
       GivenSound, Minded, Callees
<1>10. CASE Resume(s) /\ GoTo(s, frame[s].at + 1) /\ UNCHANGED rows
            /\ (Thrown(CalledIn(s, frame[s].at)) = "none" \/ s \in Catching)
  <2>1. /\ frame[s].pc = "running" /\ frame[s].at \in Nat /\ RunningSound(s)
        /\ frame[s].at + 1 \in Nat
    BY <1>s, <1>10 DEF Resume, TypeOK, FramesSound, SiteSound
  <2>2. frame'[s].pc = "running" /\ frame'[s].at = frame[s].at + 1
    BY <1>s, <1>10, <2>1, GoToTyped
  <2>3. ASSUME s \notin Catching, NEW c \in Minded(s), Step[c] < frame[s].at + 1
        PROVE  Rests(s, c)'
    <3>1. Step[c] \in Nat
      BY <1>s, MindedTyped
    <3>2. Step[c] < frame[s].at \/ Step[c] = frame[s].at
      BY <2>1, <2>3, <3>1
    <3>3. Rests(s, c)
      BY <1>s, <1>10, <2>1, <2>3, <3>2, GoesOnSoundly DEF RunningSound
    <3> QED
      BY <1>n, <1>s, <3>3, RestsStays
  <2> QED
    BY <1>3, <1>10, <2>1, <2>2, <2>3 DEF SiteSound, RunningSound, ReturnedSound, RecoveringSound,
       GivenSound, Minded, Callees
<1>11. Thrown(CalledIn(s, frame[s].at)) \in {"none"} \union Failures
  BY ThrownMakes
<1> QED
  BY <1>s, <1>4, <1>5, <1>6, <1>7, <1>8, <1>9, <1>c, <1>r, <1>10, <1>11 DEF Run, Bypass, Raise,
     Spoil, Resume

\* A task that moves touches neither the frame nor the row of another busy one.
LEMMA OthersFrame ==
  ASSUME TypeOK, NEW s \in Sites, Run(s), NEW u \in Sites \ {s}
  PROVE  frame'[u] = frame[u] \/ frame'[u].pc \in {"idle", "called"}
<1>1. Idle.pc = "idle" /\ [Idle EXCEPT !.pc = "called"].pc = "called"
  BY DEF Idle
<1>2. ASSUME NEW n \in Nat, GoTo(s, n) PROVE frame'[u] = frame[u] \/ frame'[u].pc \in {"idle", "called"}
  BY <1>1, <1>2, GoToTyped
<1>3. ASSUME NEW r \in Results, Give(s, r) PROVE frame'[u] = frame[u] \/ frame'[u].pc \in {"idle", "called"}
  BY <1>1, <1>3, GiveTyped
<1>4. CASE Suspects(s)
  BY <1>4 DEF Suspects, TypeOK
<1>5. CASE Returns(s)
  BY <1>1, <1>5, ReturnsTyped
<1> QED
  BY <1>2, <1>3, <1>4, <1>5, StepsOfRun

LEMMA FramesSoundStep ==
  ASSUME NeverListedTwice, IInv, [Next]_vars
  PROVE  FramesSound'
<1> USE DEF IInv
<1>s. ASSUME NEW u \in Cached, frame'[u] = frame[u], Busy(u) => Row(u)' = Row(u)
      PROVE  SiteSound(u)'
  <2>1. u \in Sites /\ SiteSound(u)
    BY DEF FramesSound, Cached
  <2>2. \A c \in Minded(u) : Rests(u, c) => Rests(u, c)'
    BY <2>1, RestsStays
  <2>3. RunningSound(u)' /\ ReturnedSound(u)'
    BY <1>s, <2>1, <2>2 DEF SiteSound, RunningSound, ReturnedSound, Busy, Minded, Callees
  <2> QED
    BY <1>s, <2>1, <2>3 DEF SiteSound, RecoveringSound, GivenSound, Busy, Completed
<1>q. ASSUME NEW u \in Cached, frame'[u].pc \in {"idle", "called"}
      PROVE  SiteSound(u)'
  BY <1>q DEF SiteSound, RunningSound, ReturnedSound, RecoveringSound, GivenSound
<1>1. CASE UNCHANGED vars
  BY <1>1, <1>s DEF vars, FramesSound, Row
<1>2. CASE Launch
  <2>1. /\ rows' = rows
        /\ \A u \in Sites : frame'[u] = frame[u] \/ frame'[u].pc = "called"
    BY <1>2 DEF Launch, TypeOK, Idle
  <2>2. \A u \in Cached : u \in Sites
    BY DEF Cached
  <2>3. \A u \in Uncached : u \in Sites
    BY ScriptAssumption
  <2> QED
    BY <1>s, <1>q, <2>1, <2>2, <2>3 DEF FramesSound, Row
<1>3. CASE Die
  <2>1. \A u \in Sites : frame'[u].pc = "idle"
    BY <1>3 DEF Die, Idle
  <2> QED
    BY <1>q, <2>1, ScriptAssumption DEF FramesSound, Cached
<1>4. ASSUME NEW s \in Sites, Run(s) PROVE FramesSound'
  <2>1. ASSUME NEW u \in Uncached PROVE frame'[u].pc \notin {"recovering", "returned"}
    <3>1. u \in Sites /\ frame[u].pc \notin {"recovering", "returned"} /\ u \notin Cached
      BY ScriptAssumption DEF FramesSound, Cached
    <3>2. CASE u # s
      BY <1>4, <3>1, <3>2, OthersFrame
    <3>3. CASE u = s
      BY <1>4, <3>1, <3>3, StepsOfRun, GoToTyped, GiveTyped
    <3> QED
      BY <3>2, <3>3
  <2>2. ASSUME NEW u \in Cached PROVE SiteSound(u)'
    <3>1. u \in Sites /\ Key[u] \in Keys
      BY DEF Cached, Keys
    <3>2. CASE u = s
      BY <1>4, <3>2, MoverSound
    <3>3. CASE u # s /\ frame'[u].pc \in {"idle", "called"}
      BY <1>q, <3>3
    <3>4. CASE u # s /\ frame'[u] = frame[u]
      <4>1. Busy(s)
        BY <1>4, StepsOfRun DEF Busy
      <4>2. Busy(u) => ~(s \in Cached /\ Key[s] = Key[u])
        BY <3>4, <4>1, Exclusive
      <4>3. Busy(u) => Row(u)' = Row(u)
        BY <1>4, <3>1, <4>2, WritesOwnRow DEF Row
      <4> QED
        BY <1>s, <3>4, <4>3
    <3> QED
      BY <1>4, <3>1, <3>2, <3>3, <3>4, OthersFrame
  <2> QED
    BY <2>1, <2>2 DEF FramesSound
<1> QED
  BY <1>1, <1>2, <1>3, <1>4 DEF Next


\* A task completes when everything it called is over; another call of the task
\* called the same.
LEMMA RestsOnCompletedStep ==
  ASSUME IInv, [Next]_vars
  PROVE  RestsOnCompleted'
<1> USE DEF IInv
<1> SUFFICES ASSUME NEW u \in Cached \ Catching, Completed(u)', NEW c \in Minded(u)
             PROVE  Rests(u, c)'
  BY DEF RestsOnCompleted, Rests, Minded, Completed, Row, Callees
<1>u. u \in Sites /\ Key[u] \in Keys /\ c \in Cached /\ Key[c] \in Keys
  BY MindedTyped DEF Cached, Keys
<1>1. CASE Completed(u)
  <2>1. Rests(u, c)
    BY <1>1 DEF RestsOnCompleted, Rests, Minded
  <2> QED
    BY <1>u, <2>1, RestsStays
<1>2. CASE ~Completed(u)
  <2>1. PICK s \in Sites : Run(s)
    BY <1>2 DEF Next, Launch, Die, vars, Completed, Row
  <2>2. s \in Cached /\ Key[s] = Key[u]
    BY <1>2, <1>u, <2>1, WritesOwnRow DEF Completed, Row
  <2>3. Row(s)'.status = "COMPLETED" /\ Row(s).status # "COMPLETED"
    BY <1>2, <2>2 DEF Completed, Row
  <2>4. Commit(s)
    <3>1. rows' # rows /\ s \notin Uncached
      BY <2>2, <2>3 DEF Row, Cached
    <3>2. ASSUME NEW status, NEW result, Store(s, status, result) PROVE status = "COMPLETED"
      BY <2>2, <2>3, <3>2, StoreMakes
    <3>6. ASSUME NEW status, Mark(s, status) PROVE status = "COMPLETED"
      BY <2>2, <2>3, <3>6, MarkMakes
    <3>7. ~Create(s) /\ ~RunAgain(s) /\ ~Retry(s) /\ ~GiveUp(s) /\ ~Break(s)
      BY <3>2, <3>6 DEF Create, RunAgain, Retry, GiveUp, Break
    <3>3. \A f \in Failures : ~Fail(s, f)
      BY <2>2, <3>2, FailMakes
    <3>4. ~Return(s) /\ ~Raise(s) /\ ~Spoil(s)
      BY <3>1, <3>3 DEF Return, Raise, Spoil
    <3>5. ~Resume(s)
      BY <3>1, <3>3, ThrownMakes DEF Resume
    <3> QED
      BY <2>1, <3>1, <3>4, <3>5, <3>7 DEF Run, Bypass, Reuse, Refuse, Suspect
  <2>5. PICK d \in Callees(s) :
          /\ Key[d] = Key[c] /\ Step[d] = Step[c]
          /\ d \in Wrapped <=> c \in Wrapped
          /\ d \in Uncached <=> c \in Uncached
          /\ d \in Listed <=> c \in Listed
    <3>1. c \in Callees(u)
      BY <1>u, MindedTyped
    <3> QED
      BY <2>2, <3>1, KeyAssumption
  <2>6. d \in Minded(s) /\ s \notin Catching
    <3>1. c \notin Wrapped /\ c \notin Uncached
      BY DEF Minded
    <3>2. s \notin Catching
      BY <2>2, KeyAssumption
    <3> QED
      BY <2>5, <3>1, <3>2 DEF Minded
  <2>8. Rests(s, d)
    BY <2>2, <2>4, <2>6 DEF Commit, FramesSound, SiteSound, ReturnedSound
  <2>9. Rests(s, d)'
    BY <2>6, <2>8, RestsStays
  <2> QED
    BY <2>5, <2>9 DEF Rests, Completed, Row
<1> QED
  BY <1>1, <1>2

-----------------------------------------------------------------------------
(* The invariant, and what follows from it. *)

LEMMA InitSound == Init => IInv
<1> SUFFICES ASSUME Init PROVE IInv
  OBVIOUS
<1>1. TypeOK
  BY BoundsAssumption DEF Init, TypeOK, Rows, Idle
<1>2. CallsNested
  BY DEF Init, CallsNested, Busy, Idle
<1>3. RowsSound
  BY DEF Init, RowsSound
<1>4. FramesSound
  BY ScriptAssumption DEF Init, FramesSound, SiteSound, RunningSound, ReturnedSound, RecoveringSound,
     GivenSound, Idle, Cached
<1>5. RestsOnCompleted
  BY DEF Init, RestsOnCompleted, Completed, Row, Keys
<1> QED
  BY <1>1, <1>2, <1>3, <1>4, <1>5 DEF IInv

LEMMA StepSound == ASSUME NeverListedTwice PROVE IInv /\ [Next]_vars => IInv'
<1> SUFFICES ASSUME IInv, [Next]_vars PROVE IInv'
  OBVIOUS
<1>1. TypeOK' /\ CallsNested'
  BY TypeStep, CallsNestedStep DEF IInv
<1>2. RowsSound' /\ FramesSound' /\ RestsOnCompleted'
  BY RowsSoundStep, FramesSoundStep, RestsOnCompletedStep
<1> QED
  BY <1>1, <1>2 DEF IInv

\* The table and the process keep their types, for every script.
THEOREM CacheTyped == Spec => []TypeOK
<1>1. Init => TypeOK
  BY InitSound DEF IInv
<1>2. TypeOK /\ [Next]_vars => TypeOK'
  BY TypeStep
<1> QED
  BY <1>1, <1>2, PTL DEF Spec

\* Starts, failures, recoveries and deaths keep the invariant, for every script
\* that never lists a task twice.
THEOREM CacheInvariant == ASSUME NeverListedTwice PROVE Spec => []IInv
<1>1. IInv /\ [Next]_vars => IInv'
  BY StepSound
<1> QED
  BY <1>1, InitSound, PTL DEF Spec

\* Two attempts at one task are never under way at once, though nothing locks
\* the row: they would stand in two steps of one task.
THEOREM AttemptsApart == ASSUME NeverListedTwice PROVE Spec => []OneAtATime
<1>1. IInv => OneAtATime
  <2> SUFFICES ASSUME IInv, NEW s \in Cached, NEW t \in Cached, s # t, Key[s] = Key[t],
                      Active(s), Active(t)
               PROVE  FALSE
    BY DEF OneAtATime
  <2> QED
    BY Exclusive DEF IInv, Active, Busy
<1> QED
  BY <1>1, CacheInvariant, PTL

\* A value that was stored stays, and its task does not run again.
THEOREM ValueIsKept == ASSUME NeverListedTwice PROVE Spec => KeptOnceStored
<1>1. ASSUME IInv, [Next]_vars
      PROVE  [\A k \in Keys : rows[k].status = "COMPLETED"
                                => rows'[k] = rows[k] /\ returned'[k] = returned[k]]_vars
  <2> USE <1>1 DEF IInv
  <2> SUFFICES ASSUME NEW k \in Keys, rows[k].status = "COMPLETED"
               PROVE  rows'[k] = rows[k] /\ returned'[k] = returned[k]
    OBVIOUS
  <2>1. rows'[k] = rows[k]
    BY SettledStays DEF Settled
  <2>2. ASSUME NEW s \in Sites, Run(s) PROVE returned'[k] = returned[k]
    <3>1. CASE Return(s)
      <4>1. s \in Cached => Key[s] # k
        BY <3>1 DEF Return, Computing, FramesSound, SiteSound, RunningSound, Row
      <4> QED
        BY <3>1, <4>1, SitesTyped DEF Return, TypeOK
    <3>2. CASE Raise(s) \/ Spoil(s) \/ Resume(s)
      BY <3>2 DEF Raise, Spoil, Resume, Fail, history
    <3> QED
      BY <2>2, <3>1, <3>2 DEF Run, Bypass, Create, RunAgain, Reuse, Refuse, Suspect, Retry, GiveUp,
         Break, Commit, history
  <2> QED
    BY <2>1, <2>2 DEF Next, Launch, Die, vars, history
<1> QED
  BY <1>1, CacheInvariant, PTL DEF Spec, KeptOnceStored

\* No failure of a task it called is lost under a task that completed.
THEOREM CompletedIsFounded == ASSUME NeverListedTwice PROVE Spec => []RestsOnCompleted
<1>1. IInv => RestsOnCompleted
  BY DEF IInv
<1> QED
  BY <1>1, CacheInvariant, PTL

\* A terminal failure stays as it is stored.
THEOREM TerminalStays == ASSUME NeverListedTwice PROVE Spec => TerminalIsFinal
<1>1. ASSUME IInv, [Next]_vars
      PROVE  [\A k \in Keys : rows[k] = [status |-> "FAILED", result |-> "terminal"]
                                => rows'[k] = rows[k]]_vars
  BY <1>1, SettledStays DEF Settled
<1> QED
  BY <1>1, CacheInvariant, PTL DEF Spec, TerminalIsFinal

\* No attempt starts on what one left whose failure is stored, before its task
\* cleaned up.
THEOREM CleanupComesFirst == ASSUME NeverListedTwice PROVE Spec => CleanedBeforeRetry
<1>1. ASSUME IInv, [Next]_vars
      PROVE  [\A s \in Cached : Starts(s) => debris'[Key[s]] # "failed"]_vars
  <2> USE <1>1 DEF IInv
  <2> SUFFICES ASSUME NEW s \in Cached, Starts(s) PROVE debris'[Key[s]] # "failed"
    OBVIOUS
  <2>s. s \in Sites /\ Key[s] \in Keys /\ s \notin Uncached
    BY DEF Cached, Keys
  <2>1. ~Launch /\ ~Die /\ ~UNCHANGED vars
    <3>1. Idle.pc = "idle" /\ [Idle EXCEPT !.pc = "called"].pc = "called"
      BY DEF Idle
    <3> QED
      BY <2>s, <3>1 DEF Launch, Die, vars, Starts, TypeOK
  <2>2. Run(s)
    <3>1. PICK t \in Sites : Run(t)
      BY <1>1, <2>1 DEF Next
    <3>2. t = s
      BY <2>s, <3>1, OthersFrame DEF Starts
    <3> QED
      BY <3>1, <3>2
  <2>3. CASE Create(s) \/ RunAgain(s)
    BY <2>s, <2>3 DEF Create, RunAgain, history, RowsSound, Row
  <2>4. CASE Retry(s)
    BY <2>s, <2>4 DEF Retry, TypeOK
  <2>5. ASSUME NEW r \in Results, Give(s, r) PROVE FALSE
    BY <2>s, <2>5, GiveTyped DEF Starts
  <2>6. CASE Suspect(s)
    BY <2>s, <2>6 DEF Suspect, Starts, TypeOK
  <2>7. CASE Reuse(s) \/ Refuse(s) \/ GiveUp(s) \/ Break(s)
    <3>1. frame[s].saw \in Results \union {"none"}
      BY <2>s DEF TypeOK
    <3> QED
      BY <2>5, <2>7, <3>1 DEF Reuse, Refuse, GiveUp, Break, Results, Failures
  <2>8. ~Bypass(s) /\ ~Raise(s) /\ ~Resume(s)
    BY <2>s DEF Bypass, Raise, Computing, Resume, Starts
  <2>9. CASE Return(s)
    BY <2>s, <2>9 DEF Return, Computing, Starts
  <2>10. CASE Commit(s) \/ Spoil(s)
    BY <2>s, <2>5, <2>10, FailMakes DEF Commit, Spoil, Results
  <2> QED
    BY <2>2, <2>3, <2>4, <2>6, <2>7, <2>8, <2>9, <2>10 DEF Run
<1> QED
  BY <1>1, CacheInvariant, PTL DEF Spec, CleanedBeforeRetry

=============================================================================
