------------------------------- MODULE MCSteps -------------------------------
(***************************************************************************)
(* What is done in several steps that others come between: a request under *)
(* a key, a write to a row that a sync pass goes over, a day's plan and    *)
(* rollover, the two writes that keep a series, a chain of writes to a     *)
(* task's steps, and the start and stop of a daemon.  `part` says which    *)
(* one runs, and the others stay where they started.                       *)
(***************************************************************************)
EXTENDS Idempotency, SyncPass, MyDay, Series, ChildWrite, Session

CONSTANTS k1, r1, r2, r3, p1, p2, t1
VARIABLE part

DayRow(due, day, flag) == [due |-> due, day |-> day, flag |-> flag, done |-> FALSE, recurs |-> FALSE]
DayRows == {DayRow(0, 0, FALSE), DayRow(1, 1, TRUE), DayRow(1, 1, FALSE), DayRow(3, 1, TRUE),
            [DayRow(1, 1, TRUE) EXCEPT !.recurs = TRUE]}
NoDateYet == {DayRow(0, 0, FALSE)}

\* Every day, and every second day.
EveryDay == 1..40
EveryOther == {d \in 1..40 : d % 2 = 1}
TwoPatterns == {EveryDay, EveryOther}
FewDays == 1..3
TwoTexts == {"a", "b"}
TwoBuilds == {[c \in Clients |-> 2], [c \in Clients |-> IF c = "a" THEN 1 ELSE 2]}

\* A bound: no trouble and no midnight goes with a second My Day command.
SecondInPeace == daySpent'.asks = 2 => daySpent'.trouble = 0 /\ clock' = 2

MCInit ==
  /\ part \in {"keys", "pass", "day", "series", "steps", "session"}
  /\ Init /\ SyncInit /\ DayInit /\ SeriesInit /\ ChildInit /\ SessionInit
  /\ part # "day" => dayGraph = [t \in DayTasks |-> DayRow(0, 0, FALSE)]
  /\ part # "series" => sg.due = 1 /\ sg.rec.pattern = EveryDay
  /\ part # "steps" => kg.steps[1].text = "a" /\ kg.steps[2].text = "a"
  /\ part # "session" => \A c \in Clients : clients[c].build = 2

MCNext ==
  /\ UNCHANGED part
  /\ \/ /\ part = "keys" /\ Next
        /\ UNCHANGED <<syncVars, dayVars, seriesVars, stepVars, sessionVars>>
     \/ /\ part = "pass" /\ SyncNext
        /\ UNCHANGED <<vars, dayVars, seriesVars, stepVars, sessionVars>>
     \/ /\ part = "day" /\ DayNext /\ SecondInPeace
        /\ UNCHANGED <<vars, syncVars, seriesVars, stepVars, sessionVars>>
     \/ /\ part = "series" /\ SeriesNext
        /\ UNCHANGED <<vars, syncVars, dayVars, stepVars, sessionVars>>
     \/ /\ part = "steps" /\ ChildNext
        /\ UNCHANGED <<vars, syncVars, dayVars, seriesVars, sessionVars>>
     \/ /\ part = "session" /\ SessionNext
        /\ UNCHANGED <<vars, syncVars, dayVars, seriesVars, stepVars>>

MCSpec == MCInit /\ [][MCNext]_<<part, vars, syncVars, dayVars, seriesVars, stepVars, sessionVars>>
=============================================================================
