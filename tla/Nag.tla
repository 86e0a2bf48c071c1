-------------------------------- MODULE Nag --------------------------------
(***************************************************************************)
(* Nag reminders: the daemon's loop that shows a notification for every    *)
(* open task set to nag once its reminder has passed, the times it keeps   *)
(* so that a restart is no burst, and the clients' edits that set or stop  *)
(* a nag while the loop runs (daemon/src/nag, store/src/nag.rs).           *)
(*                                                                         *)
(* Time counts the loop's half minutes.  The loop's wait, its lock on the  *)
(* saved times and each notification are separate steps: a client's edit,  *)
(* a change from another device, a stop of the daemon and the clock all    *)
(* come between them.                                                      *)
(***************************************************************************)
EXTENDS Integers, FiniteSets

CONSTANTS
    Setups,         \* what config.toml says, and whether there is a notifier
    NagTasks,       \* local IDs, numbered in the order they were created
    Minutes,        \* intervals a client may ask for
    NagMin, NagMax, \* NAG_MIN_MINUTES, NAG_MAX_MINUTES
    Reminders,      \* reminder times tasks may have
    DayLength, QuietFrom, QuietUntil,   \* the default quiet hours of a day
    NagEnd,         \* bound: the last moment of the clock
    MaxEvents       \* bound: edits, outside changes and faults together

Never == -1

VARIABLES
    clock,      \* Utc::now() and Local::now()
    setup,      \* config.toml's [nag] and the system's notifier
    up,         \* the daemon runs
    nrow,       \* the tasks table: open, nag (0: none), rem, hidden
    savedNags,      \* the setting LAST_NAGGED: when each task last nagged
    tk,         \* the loop: pc, rows read, now, last (the working copy)
    ed,         \* one client's edit of nags
    failure,    \* Nagger.failure: the last notification failed
    nagLeft,       \* what the bounds still allow
    lastSeen, fresh, stopped    \* history, for the properties

nagVars == <<clock, setup, up, nrow, savedNags, tk, ed, failure, nagLeft,
             lastSeen, fresh, stopped>>

-----------------------------------------------------------------------------
\* Config::parse and from_file: a bad file keeps the defaults and says why.
Config(file) ==
    [enabled |-> file # "off",
     quiet   |-> file # "noquiet",
     problem |-> file = "bad"]

\* Notifier::for_this_system and unavailable.
Unavailable(system) == system = "neither"

\* QuietHours::contains: from included, until not, past midnight too.
Contains(now) ==
    LET t == now % DayLength
    IN  IF QuietFrom < QuietUntil THEN QuietFrom <= t /\ t < QuietUntil
                                  ELSE t >= QuietFrom \/ t < QuietUntil

QuietNow(now) == Config(setup.file).quiet /\ Contains(now)

\* schedule::due, and the interval and reminder nag::due takes from the row.
NagDue(now, row, at) ==
    /\ row.nag # 0 /\ row.rem # Never
    /\ now >= row.rem
    /\ at >= row.rem => now - at >= row.nag

\* Store::nagging_tasks: open, with a nag in our extension.
Nagging(rows) == {t \in NagTasks : rows[t].open /\ rows[t].nag # 0}

Idle == [pc |-> "off", rows |-> [t \in {} |-> 0], now |-> 0, last |-> savedNags]
NoEdit == [pc |-> "no", ids |-> {}, nag |-> 0, rem |-> "keep"]

NagInit ==
    /\ clock = 0
    /\ setup \in Setups
    /\ up = TRUE
    /\ nrow \in [NagTasks -> [open : {TRUE}, nag : {0} \cup (Minutes \cap NagMin..NagMax),
                              rem : Reminders, hidden : {FALSE}]]
    /\ \A t \in NagTasks : nrow[t].nag # 0 /\ nrow[t].rem # Never
    /\ savedNags = [t \in NagTasks |-> Never]
    /\ tk = Idle
    /\ ed = NoEdit
    /\ failure = FALSE
    /\ nagLeft = MaxEvents
    /\ lastSeen = savedNags
    /\ fresh = {}
    /\ stopped = {}

-----------------------------------------------------------------------------
(* The loop. *)

Loops == Config(setup.file).enabled /\ ~Unavailable(setup.system)

\* run: the loop starts with the daemon, unless nothing can be shown here.
Start ==
    /\ up /\ tk.pc = "off" /\ Loops
    /\ tk' = [tk EXCEPT !.pc = "sleep"]
    /\ UNCHANGED <<clock, setup, up, nrow, savedNags, ed, failure, nagLeft, lastSeen, fresh, stopped>>

\* tick, up to the lock: in quiet hours the tick ends before it reads.
\* (Sleeping and waking in quiet hours changes nothing, so it is no step.)
NextWake ==
    /\ up /\ tk.pc = "sleep" /\ ~QuietNow(clock)
    /\ tk' = [tk EXCEPT !.pc = "lock"]
    /\ UNCHANGED <<clock, setup, up, nrow, savedNags, ed, failure, nagLeft, lastSeen, fresh, stopped>>

\* tick: takes `saving` and reads the nagging tasks and the saved times.
ReadRows ==
    /\ up /\ tk.pc = "lock"
    /\ tk' = [pc |-> "show", rows |-> [t \in Nagging(nrow) |-> nrow[t]],
              now |-> clock, last |-> savedNags]
    /\ UNCHANGED <<clock, setup, up, nrow, savedNags, ed, failure, nagLeft, lastSeen, fresh, stopped>>

Wanted == {t \in DOMAIN tk.rows : /\ ~tk.rows[t].hidden
                                  /\ NagDue(tk.now, tk.rows[t], tk.last[t])}

\* tick: even a notification that failed waits an interval.
Mark(last, t, ok) == [last EXCEPT ![t] = tk.now]

\* tick: one notification, which the system shows or fails to show.
Show(t, ok) ==
    /\ up /\ tk.pc = "show"
    /\ t \in Wanted /\ \A u \in Wanted : t <= u
    /\ ok \/ nagLeft > 0
    /\ nagLeft' = IF ok THEN nagLeft ELSE nagLeft - 1
    /\ failure' = ~ok
    /\ tk' = [tk EXCEPT !.last = Mark(@, t, ok)]
    /\ lastSeen' = [lastSeen EXCEPT ![t] = tk.now]
    /\ fresh' = fresh \ {t}
    /\ UNCHANGED <<clock, setup, up, nrow, savedNags, ed, stopped>>

\* tick: forgets the tasks that stopped nagging, and saves.
Pruned(last) == [t \in NagTasks |-> IF t \in DOMAIN tk.rows THEN last[t] ELSE Never]

SaveNags ==
    /\ up /\ tk.pc = "show" /\ Wanted = {}
    /\ savedNags' = Pruned(tk.last)
    /\ tk' = [Idle EXCEPT !.pc = "sleep", !.last = savedNags']
    /\ lastSeen' = [t \in NagTasks |-> IF t \in DOMAIN tk.rows THEN lastSeen[t] ELSE Never]
    /\ UNCHANGED <<clock, setup, up, nrow, ed, failure, nagLeft, fresh, stopped>>

AfterErrorLeave == "dead" \* mutant
\* run: a tick's error is logged, and the loop goes on.
AfterError == "sleep"

\* tick: a read or the save fails, which ends the tick with nothing saved.
TickFails ==
    /\ up /\ nagLeft > 0
    /\ tk.pc = "lock" \/ (tk.pc = "show" /\ Wanted = {})
    /\ nagLeft' = nagLeft - 1
    /\ tk' = [Idle EXCEPT !.pc = AfterError]
    /\ lastSeen' = [t \in NagTasks |-> IF tk.last[t] = savedNags[t] THEN lastSeen[t] ELSE Never]
    /\ UNCHANGED <<clock, setup, up, nrow, savedNags, ed, failure, fresh, stopped>>

SavingFree == tk.pc # "show"

-----------------------------------------------------------------------------
(* A client's edit: checked, queued, then the last times forgotten. *)

\* Change::of and check_reminders: a nag starts at a reminder.
EditAllowed(ids, nag, rem) ==
    \/ nag = 0
    \/ /\ nag \in NagMin..NagMax
       /\ \/ rem = "set"
          \/ rem = "keep" /\ \A t \in ids : nrow[t].rem # Never

\* change_tasks: the edit is refused, or goes on to be queued.
EditCheck ==
    /\ up /\ ed.pc = "no" /\ nagLeft > 0
    /\ \E ids \in {S \in SUBSET NagTasks : S # {}}, nag \in Minutes \cup {0},
          rem \in {"keep", "set", "clear"} :
        /\ nagLeft' = nagLeft - 1
        /\ IF EditAllowed(ids, nag, rem)
             THEN ed' = [pc |-> "queue", ids |-> ids, nag |-> nag, rem |-> rem]
             ELSE UNCHANGED ed
    /\ UNCHANGED <<clock, setup, up, nrow, savedNags, tk, failure, lastSeen, fresh, stopped>>

Edited(row, at) ==
    [row EXCEPT !.nag = ed.nag,
                !.rem = CASE ed.rem = "keep" -> @ [] ed.rem = "clear" -> Never
                          [] ed.rem = "set" -> at]

\* change_tasks: the operations are queued, and the rows show them at once.
EditQueue ==
    /\ up /\ ed.pc = "queue"
    /\ \E at \in Reminders \ {Never} :
        nrow' = [t \in NagTasks |-> IF t \in ed.ids THEN Edited(nrow[t], at) ELSE nrow[t]]
    /\ lastSeen' = [t \in NagTasks |-> IF t \in ed.ids THEN Never ELSE lastSeen[t]]
    /\ ed' = [ed EXCEPT !.pc = "forget"]
    /\ stopped' = IF ed.nag # 0 THEN stopped \ ed.ids ELSE stopped
    /\ UNCHANGED <<clock, setup, up, savedNags, tk, failure, nagLeft, fresh>>

\* forget takes `saving`, so it waits for the tick that is showing.
ForgetMay == SavingFree

\* change_tasks: a nag set or stopped starts afresh.
Forgotten == ed.ids

\* forget: the edited tasks start afresh, and the client has its answer.
Forget ==
    /\ up /\ ed.pc = "forget" /\ ForgetMay
    /\ savedNags' = [t \in NagTasks |-> IF t \in Forgotten THEN Never ELSE savedNags[t]]
    /\ lastSeen' = [t \in NagTasks |-> IF t \in ed.ids THEN Never ELSE lastSeen[t]]
    /\ ed' = NoEdit
    /\ IF ed.nag # 0 THEN fresh' = fresh \cup ed.ids /\ UNCHANGED stopped
                     ELSE stopped' = stopped \cup (ed.ids \ Nagging(nrow)) /\ fresh' = fresh \ ed.ids
    /\ UNCHANGED <<clock, setup, up, nrow, tk, failure, nagLeft>>

-----------------------------------------------------------------------------
(* Everything else. *)

\* Another device, an undo or another command: completed, reopened or deleted,
\* deferred, given a nag or a reminder.  None of them forgets the last time.
Outside(t) ==
    /\ nagLeft > 0
    /\ nagLeft' = nagLeft - 1
    /\ \E row \in {[nrow[t] EXCEPT !.open = ~@], [nrow[t] EXCEPT !.hidden = ~@]}
               \cup {[nrow[t] EXCEPT !.nag = n] : n \in {0} \cup (Minutes \cap NagMin..NagMax)}
               \cup {[nrow[t] EXCEPT !.rem = r] : r \in Reminders} :
        /\ row # nrow[t]
        /\ nrow' = [nrow EXCEPT ![t] = row]
        /\ lastSeen' = IF row.rem # nrow[t].rem THEN [lastSeen EXCEPT ![t] = Never] ELSE lastSeen
        /\ stopped' = IF row.nag # nrow[t].nag THEN stopped \ {t} ELSE stopped
    /\ UNCHANGED <<clock, setup, up, savedNags, tk, ed, failure, fresh>>

\* The daemon stops, wherever it is; an edit being answered is lost with it.
Stop ==
    /\ up /\ nagLeft > 0
    /\ up' = FALSE
    /\ nagLeft' = nagLeft - 1
    /\ lastSeen' = [t \in NagTasks |-> IF tk.last[t] = savedNags[t] THEN lastSeen[t] ELSE Never]
    /\ tk' = Idle
    /\ ed' = NoEdit
    /\ failure' = FALSE
    /\ UNCHANGED <<clock, setup, nrow, savedNags, fresh, stopped>>

NagRestart ==
    /\ ~up
    /\ up' = TRUE
    /\ UNCHANGED <<clock, setup, nrow, savedNags, tk, ed, failure, nagLeft, lastSeen, fresh, stopped>>

\* notify_test: one notification through the same path.
NotifyTest(ok) ==
    /\ up /\ ~Unavailable(setup.system)
    /\ ok \/ nagLeft > 0
    /\ failure' = ~ok
    /\ nagLeft' = IF ok THEN nagLeft ELSE nagLeft - 1
    /\ UNCHANGED <<clock, setup, up, nrow, savedNags, tk, ed, lastSeen, fresh, stopped>>

TimePasses ==
    /\ clock < NagEnd
    /\ clock' = clock + 1
    /\ UNCHANGED <<setup, up, nrow, savedNags, tk, ed, failure, nagLeft, lastSeen, fresh, stopped>>

NextLoop == Start \/ NextWake \/ ReadRows \/ SaveNags \/ \E t \in NagTasks : Show(t, TRUE)

NagNext ==
    \/ NextLoop
    \/ \E t \in NagTasks : Show(t, FALSE)
    \/ TickFails
    \/ EditCheck \/ EditQueue \/ Forget
    \/ \E t \in NagTasks : Outside(t)
    \/ Stop \/ NagRestart
    \/ \E ok \in BOOLEAN : NotifyTest(ok)
    \/ TimePasses

\* The loop's task is run by the daemon's executor for as long as it is up.
NagFair == WF_nagVars(NextLoop)

NagSpec == NagInit /\ [][NagNext]_nagVars /\ NagFair

-----------------------------------------------------------------------------
(* status, which `doctor` shows. *)

-----------------------------------------------------------------------------
(* What nagging promises. *)

Owed(t) ==
    /\ up /\ Loops /\ ~QuietNow(clock)
    /\ t \in Nagging(nrow) /\ ~nrow[t].hidden
    /\ NagDue(clock, nrow[t], savedNags[t])

\* While the daemon runs outside quiet hours, a task past its reminder and its
\* interval does not stay owed, whatever reads and saves failed before (run's
\* loop): it is shown, or tried, or its reminder moves or quiet begins.
OwedGetsShown == \A t \in NagTasks : Owed(t) ~> ~Owed(t)

=============================================================================
