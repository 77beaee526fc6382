------------------------------ MODULE TaskCache ------------------------------
(* eggflow/core.py: tasks call tasks and keep what they return in a table, *)
(* under a key, so that a script that is run again repeats only what did   *)
(* not complete.  The script is given by its call sites: a site runs a     *)
(* task for its parent, in one of the parent's steps; the sites of one     *)
(* step are one yielded list and run concurrently.  One process runs the   *)
(* script, may die and be started again.                                   *)
EXTENDS Naturals, FiniteSets

CONSTANTS Sites,        \* the call sites of the script
          Root,         \* the site of the script's own task
          Parent,       \* Parent[s]: the site whose task calls s
          Step,         \* Step[s]: the step of its parent that calls it, from 1
          Key,          \* Key[s]: the cache key of the task called
          Wrapped,      \* sites called through wrapped()
          Uncached,     \* sites called through nocache(), or uncacheable tasks
          Listed,       \* sites called in a yielded list, be it of one task
          Catching,     \* sites whose task may catch a TaskError: it goes on or
                        \* returns before its last step
          MaxFailures,  \* bound: runs, recoveries and restorations that raise
          MaxCrashes,   \* bound: deaths of the process
          MaxRuns       \* bound: starts of the script

Callees(s) == {c \in Sites \ {Root} : Parent[c] = s}
CalledIn(s, n) == {c \in Callees(s) : Step[c] = n}
Cached == Sites \ Uncached
Keys == {Key[s] : s \in Cached}

ASSUME ScriptAssumption ==
  /\ IsFiniteSet(Sites) /\ Root \in Cached
  /\ Parent \in [Sites -> Sites] /\ Step \in [Sites -> Nat \ {0}]
  /\ DOMAIN Key = Sites
  /\ Wrapped \subseteq Sites /\ Uncached \subseteq Sites
  /\ Listed \subseteq Sites /\ Catching \subseteq Sites
  /\ \A s \in Sites : \A c, d \in Callees(s) : c # d /\ Step[c] = Step[d] => c \in Listed
  /\ \A s \in Sites : \A c \in Callees(s) : \A n \in 1..Step[c] : CalledIn(s, n) # {}

\* A key stands for one task, which calls the same tasks wherever it is called.
ASSUME KeyAssumption ==
  \A s, t \in Cached : Key[s] = Key[t] =>
    /\ s \in Catching <=> t \in Catching
    /\ \A c \in Callees(s) : \E d \in Callees(t) :
         /\ Key[d] = Key[c] /\ Step[d] = Step[c]
         /\ c \in Wrapped <=> d \in Wrapped
         /\ c \in Uncached <=> d \in Uncached
         /\ c \in Listed <=> d \in Listed

ASSUME BoundsAssumption == MaxFailures \in Nat /\ MaxCrashes \in Nat /\ MaxRuns \in Nat

\* The sites through which s is called, and s.
Above(s) ==
  {a \in Sites : \A A \in SUBSET Sites :
     s \in A /\ (\A c \in A \ {Root} : Parent[c] \in A) => a \in A}

\* Two calls of one task are made in two different steps of some task, never in
\* one list, one in the other or in tasks of one list.
NeverListedTwice ==
  \A s, t \in Cached : s # t /\ Key[s] = Key[t] =>
    \E a \in Above(s) \ {Root}, b \in Above(t) \ {Root} :
      Parent[a] = Parent[b] /\ Step[a] # Step[b]

VARIABLES rows,     \* the table tasks: a status and the result stored last
          frame,    \* what the process does at each site
          budget,   \* failures, deaths and starts so far
          debris,   \* history: how the last attempt at a key ended, until cleaned up
          returned  \* history: how often a task returned a value, stored or not, per key

vars == <<rows, frame, budget, debris, returned>>
history == <<debris, returned>>

Failures == {"error", "terminal"}
Results == {"value"} \cup Failures

\* What the table may hold for a key; a row marked RUNNING keeps an old result.
Rows ==
  [status : {"none", "PENDING"}, result : {"none"}]
  \cup [status : {"RUNNING"}, result : Results \cup {"none"}]
  \cup [status : {"COMPLETED"}, result : {"value"}]
  \cup [status : {"FAILED"}, result : Results]

Idle == [pc |-> "idle", at |-> 0, saw |-> "none", result |-> "none"]

TypeOK ==
  /\ rows \in [Keys -> Rows]
  /\ frame \in [Sites -> [pc : {"idle", "called", "recovering", "running", "returned", "done"},
                          at : Nat, saw : Results \cup {"none"},
                          result : Results \cup {"none"}]]
  /\ budget \in [failures : 0..MaxFailures, crashes : 0..MaxCrashes, runs : 0..MaxRuns]
  /\ debris \in [Keys -> {"none", "failed", "died"}]
  /\ returned \in [Keys -> Nat]

Init ==
  /\ rows = [k \in Keys |-> [status |-> "none", result |-> "none"]]
  /\ frame = [s \in Sites |-> Idle]
  /\ budget = [failures |-> 0, crashes |-> 0, runs |-> 0]
  /\ debris = [k \in Keys |-> "none"]
  /\ returned = [k \in Keys |-> 0]

-----------------------------------------------------------------------------
(* The helpers of a step.                                                  *)

Row(s) == rows[Key[s]]

\* TaskStore.create and .update: without a result the stored one stays.
Store(s, status, result) == rows' = [rows EXCEPT ![Key[s]] = [status |-> status, result |-> result]]
Mark(s, status) == rows' = [rows EXCEPT ![Key[s]].status = status]

\* The task at s goes to its step n: what it calls there starts, all at once.
GoTo(s, n) ==
  frame' = [c \in Sites |->
    IF c = s THEN [frame[s] EXCEPT !.pc = "running", !.at = n]
    ELSE IF c \in CalledIn(s, n) THEN [Idle EXCEPT !.pc = "called"]
    ELSE IF c \in Callees(s) THEN Idle ELSE frame[c]]

\* The task at s is over, and so is what it called.
Leave(s, left) ==
  frame' = [c \in Sites |->
    IF c = s THEN left ELSE IF c \in Callees(s) THEN Idle ELSE frame[c]]

\* The caller of s gets a result.
Give(s, result) == Leave(s, [Idle EXCEPT !.pc = "done", !.result = result])

\* Only so many things go wrong.
MayBe(result) ==
  IF result = "value" THEN UNCHANGED budget
  ELSE /\ budget.failures < MaxFailures
       /\ budget' = [budget EXCEPT !.failures = @ + 1]

\* The handlers around the task: its failure is stored and given.
Fail(s, failure) ==
  /\ Give(s, failure)
  /\ IF s \in Uncached THEN UNCHANGED <<rows, debris>>
     ELSE Store(s, "FAILED", failure) /\ debris' = [debris EXCEPT ![Key[s]] = "failed"]
  /\ UNCHANGED returned

\* What a step throws into the task that waits for it.  One task: its failure,
\* unless it is wrapped and not terminal.  A list: a failure that is neither
\* wrapped nor terminal; a terminal one is None among the results.
Thrown(batch) ==
  LET failed(kind) == {c \in batch : frame[c].result = kind}
  IN  IF failed("error") \ Wrapped # {} THEN "error"
      ELSE IF failed("terminal") # {} /\ batch \cap Listed = {} THEN "terminal"
      ELSE "none"

-----------------------------------------------------------------------------
(* _execute_task.                                                          *)

Asked(s) == frame[s].pc = "called"

\* No look at the table.
Bypass(s) ==
  /\ Asked(s) /\ s \in Uncached
  /\ GoTo(s, 1)
  /\ UNCHANGED <<rows, budget, history>>

\* No row yet: the first attempt is PENDING from beginning to end.
Create(s) ==
  /\ Asked(s) /\ s \in Cached
  /\ Row(s).status = "none"
  /\ Store(s, "PENDING", "none")
  /\ GoTo(s, 1)
  /\ UNCHANGED <<budget, history>>

\* Bug: a row with nothing stored is left to whoever created it.
RunAgainIfStored(s) ==
  /\ Asked(s) /\ s \in Cached
  /\ Row(s).status = "PENDING" /\ Row(s).result # "none"
  /\ Mark(s, "RUNNING")
  /\ GoTo(s, 1)
  /\ UNCHANGED <<budget, history>>

\* A row left PENDING is run once more, without a recovery.
RunAgain(s) ==
  /\ Asked(s) /\ s \in Cached
  /\ Row(s).status = "PENDING"
  /\ Mark(s, "RUNNING")
  /\ GoTo(s, 1)
  /\ UNCHANGED <<budget, history>>

\* Bug: a value that cannot be restored is computed again.
ReuseOrRepeat(s) ==
  /\ Asked(s) /\ s \in Cached
  /\ Row(s).status = "COMPLETED"
  /\ \E r \in Results :
       /\ MayBe(r)
       /\ IF r = "value" THEN Give(s, r) /\ UNCHANGED rows
          ELSE Mark(s, "RUNNING") /\ GoTo(s, 1)
  /\ UNCHANGED history

\* A completed row: its value, or what restoring the value raised.
Reuse(s) ==
  /\ Asked(s) /\ s \in Cached
  /\ Row(s).status = "COMPLETED"
  /\ \E r \in Results : MayBe(r) /\ Give(s, r)
  /\ UNCHANGED <<rows, history>>

\* A terminal failure is the answer for ever.
Refuse(s) ==
  /\ Asked(s) /\ s \in Cached
  /\ Row(s).status = "FAILED" /\ Row(s).result = "terminal"
  /\ Give(s, "terminal")
  /\ UNCHANGED <<rows, budget, history>>

\* Bug: what failed is tried again, terminal or not.
SuspectAny(s) ==
  /\ Asked(s) /\ s \in Cached
  /\ Row(s).status \in {"FAILED", "RUNNING"}
  /\ frame' = [frame EXCEPT ![s].pc = "recovering", ![s].saw = Row(s).result]
  /\ UNCHANGED <<rows, budget, history>>

\* Any other failure, and a row somebody left RUNNING, goes to the task's
\* recover() first; what is stored is remembered.
Suspect(s) ==
  /\ Asked(s) /\ s \in Cached
  /\ \/ Row(s).status = "FAILED" /\ Row(s).result # "terminal"
     \/ Row(s).status = "RUNNING"
  /\ frame' = [frame EXCEPT ![s].pc = "recovering", ![s].saw = Row(s).result]
  /\ UNCHANGED <<rows, budget, history>>

\* recover() returned: run again.
Retry(s) ==
  /\ frame[s].pc = "recovering"
  /\ Mark(s, "RUNNING")
  /\ GoTo(s, 1)
  /\ debris' = [debris EXCEPT ![Key[s]] = "none"]
  /\ UNCHANGED <<budget, returned>>

\* Bug: there is always a failure to give again.
GiveUpAsStored(s) ==
  /\ frame[s].pc = "recovering"
  /\ Store(s, "FAILED", frame[s].saw)
  /\ Give(s, frame[s].saw)
  /\ UNCHANGED <<budget, history>>

\* recover() returned False: the failure stands.
GiveUp(s) ==
  LET failure == IF frame[s].saw = "none" THEN "error" ELSE frame[s].saw IN
  /\ frame[s].pc = "recovering"
  /\ Store(s, "FAILED", failure)
  /\ Give(s, failure)
  /\ UNCHANGED <<budget, history>>

\* Bug: a recovery that raises is as good as one that returns.
BreakAndRun(s) ==
  /\ frame[s].pc = "recovering"
  /\ \E f \in Failures : MayBe(f)
  /\ Mark(s, "RUNNING")
  /\ GoTo(s, 1)
  /\ UNCHANGED history

\* recover() raised: that is the failure now, and nothing runs.
Break(s) ==
  /\ frame[s].pc = "recovering"
  /\ \E f \in Failures : MayBe(f) /\ Store(s, "FAILED", f) /\ Give(s, f)
  /\ UNCHANGED history

-----------------------------------------------------------------------------
(* _handle_task: the task itself.                                          *)

\* Between two steps: nothing that the task calls next has begun.
Computing(s) ==
  /\ frame[s].pc = "running"
  /\ \A c \in CalledIn(s, frame[s].at) : frame[c].pc = "called"

\* The task returns; nothing is stored yet.
Return(s) ==
  /\ Computing(s)
  /\ CalledIn(s, frame[s].at) = {} \/ s \in Catching
  /\ IF s \in Uncached THEN Give(s, "value") /\ UNCHANGED returned
     ELSE /\ Leave(s, [Idle EXCEPT !.pc = "returned"])
          /\ returned' = [returned EXCEPT ![Key[s]] = @ + 1]
  /\ UNCHANGED <<rows, budget, debris>>

\* The task raises, at any point of its own code.
Raise(s) ==
  /\ Computing(s)
  /\ \E f \in Failures : MayBe(f) /\ Fail(s, f)

\* The value is stored.
Commit(s) ==
  /\ frame[s].pc = "returned"
  /\ Store(s, "COMPLETED", "value")
  /\ Give(s, "value")
  /\ UNCHANGED <<budget, history>>

\* The value cannot be stored: that is a failure like one of the task.
Spoil(s) ==
  /\ frame[s].pc = "returned"
  /\ \E f \in Failures : MayBe(f) /\ Fail(s, f)

\* Bug: the first failure of a list ends the wait for the others.
ResumeEarly(s) ==
  LET batch == CalledIn(s, frame[s].at)
      thrown == Thrown(batch) IN
  /\ frame[s].pc = "running" /\ batch # {}
  /\ (\A c \in batch : frame[c].pc = "done") \/ thrown # "none"
  /\ \/ /\ thrown = "none" \/ s \in Catching
        /\ frame' = [c \in Sites |->
             IF c = s THEN [frame[s] EXCEPT !.at = @ + 1]
             ELSE IF c \in CalledIn(s, frame[s].at + 1) THEN [Idle EXCEPT !.pc = "called"]
             ELSE frame[c]]
        /\ UNCHANGED <<rows, history>>
     \/ thrown # "none" /\ Fail(s, thrown)
  /\ UNCHANGED budget

\* Bug: a terminal failure is None for a single task too.
ResumeDeaf(s) ==
  LET batch == CalledIn(s, frame[s].at)
      thrown == IF Thrown(batch) = "terminal" THEN "none" ELSE Thrown(batch) IN
  /\ frame[s].pc = "running" /\ batch # {}
  /\ \A c \in batch : frame[c].pc = "done"
  /\ \/ (thrown = "none" \/ s \in Catching) /\ GoTo(s, frame[s].at + 1)
        /\ UNCHANGED <<rows, history>>
     \/ thrown # "none" /\ Fail(s, thrown)
  /\ UNCHANGED budget

\* All it called is over: the task goes on, or a failure ends it.
Resume(s) ==
  LET batch == CalledIn(s, frame[s].at)
      thrown == Thrown(batch) IN
  /\ frame[s].pc = "running" /\ batch # {}
  /\ \A c \in batch : frame[c].pc = "done"
  /\ \/ (thrown = "none" \/ s \in Catching) /\ GoTo(s, frame[s].at + 1)
        /\ UNCHANGED <<rows, history>>
     \/ thrown # "none" /\ Fail(s, thrown)
  /\ UNCHANGED budget

-----------------------------------------------------------------------------
(* The process.                                                            *)

Launch ==
  /\ frame[Root].pc \in {"idle", "done"}
  /\ budget.runs < MaxRuns
  /\ budget' = [budget EXCEPT !.runs = @ + 1]
  /\ frame' = [frame EXCEPT ![Root] = [Idle EXCEPT !.pc = "called"]]
  /\ UNCHANGED <<rows, history>>

\* The process dies, or the script is cancelled: no handler catches that.
Die ==
  /\ frame[Root].pc \notin {"idle", "done"}
  /\ budget.crashes < MaxCrashes
  /\ budget' = [budget EXCEPT !.crashes = @ + 1]
  /\ frame' = [s \in Sites |-> Idle]
  /\ debris' = [k \in Keys |->
       IF \E s \in Cached : Key[s] = k /\ frame[s].pc \in {"running", "returned"}
       THEN "died" ELSE debris[k]]
  /\ UNCHANGED <<rows, returned>>

\* Nothing is awaited between the return of a task and the commit of its value.
Run(s) ==
  /\ \A c \in Sites \ {s} : frame[c].pc # "returned"
  /\ \/ Bypass(s) \/ Create(s) \/ RunAgain(s) \/ Reuse(s) \/ Refuse(s) \/ Suspect(s)
     \/ Retry(s) \/ GiveUp(s) \/ Break(s)
     \/ Return(s) \/ Raise(s) \/ Commit(s) \/ Spoil(s) \/ Resume(s)

Next == Launch \/ Die \/ \E s \in Sites : Run(s)

Spec == Init /\ [][Next]_vars

\* The event loop goes on with whatever can go on; tasks return.
FairSpec == Spec /\ \A s \in Sites : WF_vars(Run(s))

-----------------------------------------------------------------------------
(* Properties.                                                             *)

Active(s) == frame[s].pc \in {"recovering", "running", "returned"}
Starts(s) == frame[s].pc # "running" /\ frame'[s].pc = "running"
Completed(s) == Row(s).status = "COMPLETED"

\* A script that never lists a task twice runs it once at a time: when a task
\* of a list fails, what runs beside it is not left behind to meet the next
\* attempt ("so we don't lose progress on other tasks", _run_internal).
OneAtATime ==
  \A s, t \in Cached : s # t /\ Key[s] = Key[t] => ~(Active(s) /\ Active(t))

\* What a task returned is not computed again once it is stored, whatever fails
\* or dies after that ("completed values survive process restarts"), and even
\* if it cannot be restored; the stored value is what it was.
KeptOnceStored ==
  [][\A k \in Keys : rows[k].status = "COMPLETED"
                       => rows'[k] = rows[k] /\ returned'[k] = returned[k]]_vars

\* Not before it is stored: a death between the return and the commit, or a
\* value that cannot be pickled, has the task compute it again.
ReturnsOnce == \A k \in Keys : returned[k] <= 1

\* A completed task rests on completed tasks: no failure of a task it called
\* was lost on the way, except one it caught or had wrapped, and terminal ones
\* in a list.
RestsOnCompleted ==
  \A s \in Cached \ Catching : Completed(s) =>
    \A c \in Callees(s) \ (Wrapped \cup Uncached) :
      \/ Completed(c)
      \/ Row(c).result = "terminal" /\ c \in Listed

\* A terminal failure is never tried again, in this run of the script or the
\* next ("Terminal errors skip recover() and are never retried").
TerminalIsFinal ==
  [][\A k \in Keys : rows[k] = [status |-> "FAILED", result |-> "terminal"]
                       => rows'[k] = rows[k]]_vars

\* Nothing runs on what a failed attempt left before its task cleaned up ("A
\* failed cleanup cannot safely fall through into task execution").
CleanedBeforeRetry ==
  [][\A s \in Cached : Starts(s) => debris'[Key[s]] # "failed"]_vars

\* The same for an attempt that did not end ("A stale RUNNING row means the
\* prior process stopped before it could persist a result. Recover it through
\* the same task-owned hook").
CleanedAfterDeath ==
  [][\A s \in Cached : Starts(s) => debris'[Key[s]] # "died"]_vars

\* A script that was started ends, or its process does.
ScriptEnds == frame[Root].pc = "called" ~> frame[Root].pc \in {"done", "idle"}

=============================================================================
