---------------------------- MODULE CallLifecycle ----------------------------
(***************************************************************************)
(* What a thread promises about its tool calls, whatever becomes of the    *)
(* processes that work on them.  A call goes one way: asked for, granted,  *)
(* run, returned, decided on and answered.  It may be refused, or decided  *)
(* on at any time before; it is answered once, from a refusal or from a    *)
(* decision only.  The one way back is for a tool that can be resumed, and *)
(* only while nothing it returned is on record.                            *)
(*                                                                         *)
(* eggthreads/README.md draws this line as TC1 to TC6 (tool_state.py).     *)
(***************************************************************************)
EXTENDS Naturals, Sequences

CONSTANTS Calls,      \* the tool calls of a thread
          Resumable   \* those of tools that may be run again

VARIABLES stage,    \* how far each call has come
          runs,     \* how often its tool was set running
          answers   \* what the transcript says of it

vars == <<stage, runs, answers>>

Stages == {"asked", "granted", "refused", "running", "lost", "returned", "decided", "answered"}

Init == /\ stage \in [Calls -> {"asked", "granted"}]
        /\ runs = [c \in Calls |-> 0]
        /\ answers = [c \in Calls |-> <<>>]

Goes(c, from, to) == stage[c] \in from /\ stage'[c] \in to

SameRuns(c) == runs'[c] = runs[c]
SameAnswers(c) == answers'[c] = answers[c]

Judge(c) == Goes(c, {"asked"}, {"granted", "refused"}) /\ SameRuns(c) /\ SameAnswers(c)

Run(c) == Goes(c, {"granted"}, {"running"}) /\ runs'[c] = runs[c] + 1 /\ SameAnswers(c)

\* A granted call may return an error without being run.
Return(c) == Goes(c, {"granted", "running"}, {"returned"}) /\ SameRuns(c) /\ SameAnswers(c)

\* Whoever ran it is gone, and nothing was recorded.
Lose(c) == Goes(c, {"running"}, {"lost"}) /\ SameRuns(c) /\ SameAnswers(c)

Resume(c) ==
  /\ c \in Resumable
  /\ Goes(c, {"running", "lost"}, {"running"})
  /\ runs'[c] \in {runs[c], runs[c] + 1}
  /\ SameAnswers(c)

\* By whoever owns the call, or over the heads of those who run it.
Decide(c) ==
  /\ Goes(c, {"granted", "running", "lost", "returned"}, {"decided"})
  /\ SameRuns(c) /\ SameAnswers(c)

Answer(c) ==
  /\ Goes(c, {"refused", "decided"}, {"answered"})
  /\ \E said \in {"cancelled"} \cup (IF stage[c] = "refused" THEN {"denied"} ELSE {"whole", "omit"}) :
       answers'[c] = Append(answers[c], said)
  /\ SameRuns(c)

Rest(c) == stage'[c] = stage[c] /\ SameRuns(c) /\ SameAnswers(c)

Step(c) ==
  \/ Rest(c)
  \/ Judge(c) \/ Run(c) \/ Return(c) \/ Lose(c) \/ Resume(c) \/ Decide(c) \/ Answer(c)

\* Calls move each for itself, and some together: a turn is granted, an owner of
\* several dies.
Next == \A c \in Calls : Step(c)

Spec == Init /\ [][Next]_vars
=============================================================================
