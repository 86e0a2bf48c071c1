------------------------------ MODULE QuickAdd ------------------------------
(***************************************************************************)
(* Quick add: a typed line read into a task (crates/nlp), then joined with *)
(* the CLI's flags (cli/src/quick_add.rs) or with what the view on screen  *)
(* adds (tui/src/app/quick_add.rs).                                        *)
(*                                                                         *)
(* A line is a sequence of words separated by spaces.  A word is a mark    *)
(* (#, @, !, ^, + or *, "lit" for quoted or escaped, "" for none) and what *)
(* follows it.  The reader is a sequence of passes, each of which claims   *)
(* words, so that a later pass can't read them again: one action a pass.   *)
(* A day is a number, today is 0 and a Monday is 0 modulo 7; a time is an  *)
(* hour.                                                                   *)
(***************************************************************************)
EXTENDS Integers, Sequences, FiniteSets

CONSTANTS Lines,       \* bound: the lines typed
          NameOf,      \* the lists: id |-> name
          NameStarts,    \* pairs <<name, what it starts with>>
          Categories,  \* the user's Outlook categories
          CliFlags,    \* the flags a command may be given
          Views        \* what the terminal interface may show

VARIABLES line,
          span,        \* word |-> the kind of span it is in, "free" or "literal"
          parsed,      \* the ParsedTask so far
          warned,      \* words left in the title with a warning
          pass,        \* the next pass
          sent         \* the front end, its flags or view, and the NewTask or why there is none

quickVars == <<line, span, parsed, warned, pass, sent>>

Unset == -1
Now == 12
Today == 0
Positions == 1..Len(line)
First(S) == CHOOSE i \in S : \A j \in S : i <= j
EmptyTask == [list |-> "", due |-> Unset, start |-> Unset, reminder |-> <<>>, series |-> <<>>, priority |-> "",
              categories |-> {}, myDay |-> FALSE, defer |-> Unset, someday |-> FALSE, nag |-> Unset, steps |-> FALSE, noted |-> FALSE,
              repeats |-> <<>>, bang |-> <<>>, begins |-> <<>>, dates |-> <<>>]

QuickInit ==
  /\ line \in Lines
  /\ span = [i \in Positions |-> "free"]
  /\ parsed = EmptyTask /\ warned = {} /\ pass = "steps" /\ sent = <<>>

-----------------------------------------------------------------------------
(* Phrases: one rule table, and the two readers that use it.               *)

\* The day a word names.  A weekday is the next one, never today; "iso" names
\* an hour as well.
DateRule(w) == CASE w \in {"mon", "Mon"} -> 7 [] w = "fri" -> 4 [] w \in {"tom", "Tom"} -> 1 [] w = "iso" -> 3 [] OTHER -> Unset
StampHour(w) == IF w = "iso" THEN 10 ELSE Unset
TimeRule(w) == CASE w \in {"9am", "morning"} -> 9 [] w = "5pm" -> 17 [] OTHER -> Unset
IsDay(w) == DateRule(w) # Unset /\ StampHour(w) = Unset
IsTime(w) == TimeRule(w) # Unset

\* mutant: what an earlier pass has claimed is read again
MutantPlain == {i \in Positions : span[i] # "literal" /\ line[i].mark = ""}
Plain == {i \in Positions : span[i] = "free" /\ line[i].mark = ""}
Marked(m) == {i \in Positions : span[i] = "free" /\ line[i].mark = m}

NoPhrase == [date |-> Unset, time |-> Unset, next |-> 0]
Phrase(date, time, next) == [date |-> date, time |-> time, next |-> next]
Says(j, w) == j \in Plain /\ line[j].w = w
SaysDay(j) == j \in Plain /\ IsDay(line[j].w)
SaysTime(j) == j \in Plain /\ IsTime(line[j].w)

\* What starts with a day at word j, or with a time; `w` is word j, less its mark.
date_first(j, w) ==
  LET day == DateRule(w) IN
  CASE day = Unset -> NoPhrase
    [] StampHour(w) # Unset -> Phrase(day, StampHour(w), j + 1)
    [] Says(j + 1, "at") /\ SaysTime(j + 2) -> Phrase(day, TimeRule(line[j + 2].w), j + 3)
    [] SaysTime(j + 1) -> Phrase(day, TimeRule(line[j + 1].w), j + 2)
    [] OTHER -> Phrase(day, Unset, j + 1)
time_first(j, w) ==
  LET time == TimeRule(w) IN
  CASE time = Unset -> NoPhrase
    [] Says(j + 1, "on") /\ SaysDay(j + 2) -> Phrase(DateRule(line[j + 2].w), time, j + 3)
    [] SaysDay(j + 1) -> Phrase(DateRule(line[j + 1].w), time, j + 2)
    [] OTHER -> Phrase(Unset, time, j + 1)

\* In a line: the phrase that starts at word i, as far as it goes.
phrase_at(i) ==
  LET w == line[i].w
      inner == IF i + 1 \in Plain THEN line[i + 1].w ELSE ""
      led == CASE w = "on" -> date_first(i + 1, inner) [] w = "at" -> time_first(i + 1, inner) [] OTHER -> NoPhrase
  IN CASE led # NoPhrase -> led
       [] DateRule(w) # Unset -> date_first(i, w)
       [] OTHER -> time_first(i, w)

\* A time alone is the next one: exactly now has passed.
next_at(time) == <<IF time > Now THEN Today ELSE Today + 1, time>>

\* In a date field, --due or --reminder: all of the text, as a day and an
\* hour, or nothing.  An empty text, or -, clears the field.
Cleared == <<Unset, Unset>>
NotUnderstood == <<>>
whole_string(text) ==
  LET strip_word(t, w) == IF Len(t) > 1 /\ t[1] = w THEN Tail(t) ELSE t
      whole(t, Rule(_)) == Len(t) = 1 /\ Rule(t[1])
      dated == strip_word(text, "on")
      timed == strip_word(text, "at")
      then_time == strip_word(Tail(dated), "at")
      then_day == strip_word(Tail(timed), "on")
  IN CASE text \in {<<>>, <<"-">>} -> Cleared
       [] DateRule(dated[1]) # Unset ->
            ( CASE Len(dated) = 1 -> <<DateRule(dated[1]), StampHour(dated[1])>>
                [] IsDay(dated[1]) /\ whole(then_time, IsTime) -> <<DateRule(dated[1]), TimeRule(then_time[1])>>
                [] OTHER -> NotUnderstood )
       [] IsTime(timed[1]) ->
            ( CASE Len(timed) = 1 -> next_at(TimeRule(timed[1]))
                [] whole(then_day, IsDay) -> <<DateRule(then_day[1]), TimeRule(timed[1])>>
                [] OTHER -> NotUnderstood )
       [] OTHER -> NotUnderstood

-----------------------------------------------------------------------------
(* The passes.                                                             *)

ClaimWords(at, kind) == span' = [i \in Positions |-> IF i \in at THEN kind ELSE span[i]]
Warn(at) == warned' = warned \cup at
Set(f) == parsed' = [k \in DOMAIN parsed |-> IF k \in DOMAIN f THEN f[k] ELSE parsed[k]]
OnlyFirst(S) == IF S = {} THEN {} ELSE {First(S)}
Pass(this, next) == pass = this /\ pass' = next /\ UNCHANGED <<line, sent>>

\* Everything after the first " :: " that has text after it.
StepsPass ==
  /\ Pass("steps", "quotes")
  /\ LET at == {i \in Positions \ {1, Len(line)} : line[i] = [mark |-> "", w |-> "::"]}
     IN /\ ClaimWords(IF at = {} THEN {} ELSE First(at)..Len(line), "steps")
        /\ Set([steps |-> at # {}])
  /\ UNCHANGED warned

\* What is quoted or escaped: its marks go, the rest no pass reads.
QuotesPass ==
  /\ Pass("quotes", "list")
  /\ ClaimWords(Marked("lit"), "literal") /\ UNCHANGED <<parsed, warned>>

\* The list that is called so, else the only one whose name starts so.
find_list(w) ==
  LET exact == {l \in DOMAIN NameOf : NameOf[l] = w}
  IN IF exact # {} THEN exact ELSE {l \in DOMAIN NameOf : <<NameOf[l], w>> \in NameStarts}

ListPass ==
  /\ Pass("list", "labels")
  /\ LET names == {i \in Marked("#") : Cardinality(find_list(line[i].w)) = 1}
         at == OnlyFirst(names)
     IN /\ ClaimWords(at, "list") /\ Warn(Marked("#") \ at)
        /\ Set([list |-> IF at = {} THEN "" ELSE CHOOSE l \in find_list(line[First(at)].w) : TRUE])

LabelsPass ==
  /\ Pass("labels", "priority")
  /\ ClaimWords(Marked("@"), "label")
  /\ Warn({i \in Marked("@") : line[i].w \notin Categories})
  /\ Set([categories |-> {line[i].w : i \in Marked("@")}])

PriorityPass ==
  /\ Pass("priority", "marks")
  /\ LET levels == {i \in Plain : line[i].w \in {"p1", "p2"}}
         at == OnlyFirst(levels)
     IN /\ ClaimWords(at, "priority") /\ Warn(levels \ at)
        /\ Set([priority |-> IF at = {} THEN "" ELSE line[First(at)].w])

\* +myday or *, and +someday.
MarksPass ==
  /\ Pass("marks", "nag")
  /\ LET day == {i \in Plain : line[i].w = "*"}
         later == {i \in Plain : line[i].w = "+someday"}
     IN /\ span' = [i \in Positions |-> CASE i \in day -> "my_day" [] i \in later -> "someday" [] OTHER -> span[i]]
        /\ Set([myDay |-> day # {}, someday |-> later # {}])
  /\ UNCHANGED warned

\* The first readable interval.  Another stays in the title, with no warning.
NagPass ==
  /\ Pass("nag", "recurrence")
  /\ LET read == {i \in Plain : line[i].w \in {"+nag15m", "+nag1h"}}
         at == OnlyFirst(read)
     IN /\ ClaimWords(at, "nag") /\ Warn({i \in Plain : line[i].w = "+nagx"})
        /\ Set([nag |-> IF at = {} THEN Unset ELSE IF line[First(at)].w = "+nag1h" THEN 60 ELSE 15])

\* every day, or every and its weekdays; until a day and a time, in either order.
Daily(i) == i \in Plain /\ line[i].w = "day"
Weekday(i) == i \in Plain /\ line[i].w \in {"mon", "fri", "Mon"}
DaysEnd(i) == First({j \in i..(Len(line) + 1) : ~Weekday(j)})
Until(j) == Says(j, "until") /\ SaysDay(j + 1)
\* The word after a time of day at word j, or after an end; j when there is none.
PastTime(j) == CASE SaysTime(j) -> j + 1 [] Says(j, "at") /\ SaysTime(j + 1) -> j + 2 [] OTHER -> j
PastEnd(j) == IF Until(j) THEN j + 2 ELSE j
read_at(i) ==
  LET daily == Daily(i + 1)
      p == IF daily THEN i + 2 ELSE DaysEnd(i + 1)
      endAt == IF Until(p) THEN p ELSE PastTime(p)
      timeAt == PastEnd(p)
      next == IF Until(p) THEN PastTime(timeAt) ELSE PastEnd(endAt)
  IN [days |-> IF daily THEN 0..6 ELSE {DateRule(line[j].w) % 7 : j \in (i + 1)..(p - 1)},
      end |-> IF Until(endAt) THEN DateRule(line[endAt + 1].w) ELSE Unset,
      time |-> IF PastTime(timeAt) = timeAt THEN Unset ELSE TimeRule(line[PastTime(timeAt) - 1].w),
      next |-> next]

RecurrencePass ==
  /\ Pass("recurrence", "defer")
  /\ LET at == OnlyFirst({i \in Plain : line[i].w = "every" /\ (Weekday(i + 1) \/ Daily(i + 1))})
         read == read_at(First(at))
     IN IF at = {} THEN UNCHANGED <<span, parsed>>
        ELSE ClaimWords(First(at)..(read.next - 1), "recurrence") /\ Set([repeats |-> read])
  /\ UNCHANGED warned

\* ^date: a day, so a time with it is dropped.
DeferPass ==
  /\ Pass("defer", "reminder")
  /\ LET dated == {i \in Marked("^") : phrase_at(i).date # Unset}
         at == OnlyFirst(dated)
         p == phrase_at(First(at))
     IN /\ Warn((Marked("^") \ at) \cup {i \in at : p.time # Unset})
        /\ IF at = {} THEN UNCHANGED <<span, parsed>>
           ELSE ClaimWords(First(at)..(p.next - 1), "defer") /\ Set([defer |-> p.date])

\* !time or !date: the first readable one.  Those after it aren't looked at.
ReminderPass ==
  /\ Pass("reminder", "start")
  /\ LET read == {i \in Marked("!") : phrase_at(i) # NoPhrase}
         at == OnlyFirst(read)
         p == phrase_at(First(at))
     IN /\ Warn({i \in Marked("!") \ read : at = {} \/ i < First(at)})
        /\ IF at = {} THEN UNCHANGED <<span, parsed>>
           ELSE ClaimWords(First(at)..(p.next - 1), "reminder") /\ Set([bang |-> p])

StartPass ==
  /\ Pass("start", "dates")
  /\ LET at == OnlyFirst({i \in Plain : line[i].w = "start" /\ i + 1 \in Plain /\ phrase_at(i + 1).date # Unset})
         p == phrase_at(First(at) + 1)
     IN IF at = {} THEN UNCHANGED <<span, parsed>>
        ELSE ClaimWords(First(at)..(p.next - 1), "start") /\ Set([begins |-> p])
  /\ UNCHANGED warned

\* A phrase that is the title's own: Tom, Mon Addams, the 9am standup, Morning pages.
Capital(i) == i \in Positions /\ line[i].w \in {"Tom", "Mon", "Addams"} /\ line[i].mark = ""
guarded(i, next) ==
  \/ \E j \in i..(next - 1) : line[j].w = "Tom"
  \/ next = i + 1 /\ Capital(i) /\ Capital(next)
  \/ i > 1 /\ i - 1 \in Plain /\ line[i - 1].w = "the"
  \/ line[next - 1].w = "morning" /\ \A j \in i..(next - 2) : line[j].w = "at"

\* The phrase at word i, with the word due before it, or none.
Unguarded(p, i) == IF p # NoPhrase /\ ~guarded(i, p.next) THEN p ELSE NoPhrase
due_phrase(i) ==
  LET at == IF Says(i, "due") /\ i + 1 \in Plain THEN i + 1 ELSE i
  IN IF i \in Plain THEN Unguarded(phrase_at(at), at) ELSE NoPhrase

\* Every phrase left, from left to right, none inside another.
FoundDates ==
  LET f[i \in 1..(Len(line) + 1)] ==
        IF i > Len(line) THEN <<>>
        ELSE LET p == due_phrase(i) IN
             IF p = NoPhrase THEN f[i + 1] ELSE <<[p |-> p, at |-> i..(p.next - 1)]>> \o f[p.next]
  IN f[1]

LeftDates(found, used) == {First(found[k].at) : k \in DOMAIN found \ used}

\* The first with a date is the due date; a time alone may join it.
ClaimDates(found) ==
  LET dated == OnlyFirst({k \in DOMAIN found : found[k].p.date # Unset})
      timed == IF \E k \in dated : found[k].p.time # Unset THEN {}
               ELSE OnlyFirst({k \in DOMAIN found : found[k].p.date = Unset})
      used == dated \cup timed
  IN /\ ClaimWords(UNION {found[k].at : k \in used}, "date")
     /\ Warn(LeftDates(found, used))
     /\ Set([dates |-> [date |-> IF dated = {} THEN Unset ELSE found[First(dated)].p.date,
                        time |-> IF used = {} THEN Unset
                                 ELSE IF timed # {} THEN found[First(timed)].p.time ELSE found[First(dated)].p.time,
                        next |-> 0]])
DatesPass == Pass("dates", "settle") /\ ClaimDates(FoundDates)

-----------------------------------------------------------------------------
(* The passes' findings put together.                                      *)

first_on_or_after(days, from) == First({d \in from..(from + 6) : d % 7 \in days})
Or(x, y) == IF x # Unset THEN x ELSE y

reminder_at(bang, due) ==
  CASE bang.date # Unset -> <<bang.date, Or(bang.time, 9)>>
    [] due # Unset -> <<due, bang.time>>
    [] OTHER -> next_at(bang.time)

\* The reading, given a due date from outside the text, which wins.
settle(p, flagDue) ==
  LET stated == Or(flagDue, p.dates.date)
      repeats == p.repeats # <<>>
      early == Or(p.dates.time, IF repeats THEN p.repeats.time ELSE Unset)
      from == IF early = Unset THEN Today ELSE next_at(early)[1]
      first == CASE stated # Unset -> stated
                 [] repeats -> first_on_or_after(p.repeats.days, from)
                 [] early # Unset -> from
                 [] OTHER -> Unset
      starts == p.begins # <<>>
      due == IF starts THEN Or(first, p.begins.date) ELSE first
      time == IF starts THEN Or(early, p.begins.time) ELSE early
  IN [p EXCEPT !.due = due,
               !.start = IF starts THEN p.begins.date ELSE Unset,
               !.noted = \/ starts /\ first = Unset
                         \/ repeats /\ p.repeats.end # Unset /\ p.repeats.end < due
                         \/ p.bang # <<>> /\ time # Unset,
               !.series = IF ~repeats THEN <<>>
                          ELSE [start |-> due, days |-> p.repeats.days,
                                end |-> IF p.repeats.end < due THEN Unset ELSE p.repeats.end],
               !.reminder = CASE p.bang # <<>> -> reminder_at(p.bang, due)
                              [] time # Unset -> <<due, time>>
                              [] OTHER -> <<>>]

Title == {i \in Positions : span[i] \in {"free", "literal"}}

\* read_recurrence: --recur's first time is on or after the due date.
WithRecur(f, due) == [start |-> first_on_or_after(f.recur, Or(due, Today)), days |-> f.recur, end |-> Unset]

\* The NewTask of a command: the flags, else what the text says.
merge(p, f) ==
  LET due == IF f.due = "clear" THEN Unset ELSE p.due
      series == IF f.recur # {} THEN WithRecur(f, due) ELSE p.series
      dated == IF f.recur # {} THEN series.start ELSE due
  IN [p EXCEPT !.due = IF f.start # Unset THEN Or(dated, f.start) ELSE dated,
               !.series = series,
               !.start = Or(f.start, p.start),
               !.reminder = CASE f.reminder = "clear" -> <<>> [] f.reminder = "set" -> <<3, 10>> [] OTHER -> p.reminder]

Refused(p, f) ==
  \/ Title = {}
  \/ f.strict /\ (warned # {} \/ p.noted)
  \/ f.due = "clear" /\ (f.recur # {} \/ p.series # <<>> \/ p.start # Unset)

\* `tasks add`: --due is part of what the text is read against.
NewTask(f) ==
  LET p == settle(parsed, IF f.due = "set" THEN 3 ELSE Unset)
  IN /\ pass = "settle" /\ pass' = "sent"
     /\ sent' = [by |-> "cli", how |-> f, previewed |-> p, task |-> IF Refused(p, f) THEN <<>> ELSE <<merge(p, f)>>]
     /\ UNCHANGED <<line, span, parsed, warned>>

\* The terminal interface's NewTask: the text, over what the view adds.  The nag isn't passed on.
ViewTask(p, v) ==
  [p EXCEPT !.list = IF @ = "" /\ v = "list" THEN "shown" ELSE @,
            !.due = IF v = "planned" THEN Or(@, Today) ELSE @,
            !.priority = IF @ = "" /\ v = "important" THEN "p1" ELSE @,
            !.myDay = @ \/ v = "my_day",
            !.someday = @ \/ v = "someday",
            !.nag = Unset]

submit_add(v) ==
  LET p == settle(parsed, Unset)
  IN /\ pass = "settle" /\ pass' = "sent"
     /\ sent' = [by |-> "tui", how |-> v, previewed |-> p, task |-> IF Title = {} THEN <<>> ELSE <<ViewTask(p, v)>>]
     /\ UNCHANGED <<line, span, parsed, warned>>

\* Ctrl-r: the line is the title, the view adds the rest.
SubmitLiterally(v) ==
  /\ pass = "steps" /\ pass' = "sent"
  /\ sent' = [by |-> "literal", how |-> v, previewed |-> EmptyTask, task |-> <<ViewTask(EmptyTask, v)>>]
  /\ UNCHANGED <<line, span, parsed, warned>>

QuickNext ==
  \/ StepsPass \/ QuotesPass \/ ListPass \/ LabelsPass \/ PriorityPass \/ MarksPass \/ NagPass
  \/ RecurrencePass \/ DeferPass \/ ReminderPass \/ StartPass \/ DatesPass
  \/ \E f \in CliFlags : NewTask(f)
  \/ \E v \in Views : submit_add(v) \/ SubmitLiterally(v)

-----------------------------------------------------------------------------

Sent == pass = "sent" /\ sent.task # <<>>
Task == sent.task[1]

Tally(k) == IF k THEN 1 ELSE 0
DaySaid(d) == Cardinality({i \in Positions : span[i] # "literal" /\ DateRule(line[i].w) = d})
DayRead(d) ==
  Tally(parsed.defer = d) + Tally(parsed.bang # <<>> /\ parsed.bang.date = d)
  + Tally(parsed.begins # <<>> /\ parsed.begins.date = d) + Tally(parsed.dates # <<>> /\ parsed.dates.date = d)
  + Tally(parsed.repeats # <<>> /\ parsed.repeats.end = d)
  + Tally(parsed.repeats # <<>> /\ parsed.repeats.days # 0..6 /\ d % 7 \in parsed.repeats.days)
HourSaid(h) == Cardinality({i \in Positions : span[i] # "literal" /\ h \in {TimeRule(line[i].w), StampHour(line[i].w)}})
HourRead(h) ==
  LET of(found) == Tally(found # <<>> /\ found.time = h)
  IN of(parsed.bang) + of(parsed.begins) + of(parsed.dates) + of(parsed.repeats)

\* No word is read twice: "that order is what stops `every mon` or `!9am`
\* from also being the due date".
ReadOnce == ( \A d \in {1, 3, 4, 7} : DayRead(d) <= DaySaid(d) ) /\ ( \A h \in {9, 10, 17} : HourRead(h) <= HourSaid(h) )

\* The reader of lines and the reader of date fields agree: `!phrase` with no
\* due date sets the reminder that `--reminder phrase` sets (D-026), and the
\* line's reader stops no sooner than a field that held the words after it.
ReadAlike ==
  ( Sent /\ sent.by = "tui" /\ parsed.bang # <<>> ) =>
    LET at == {i \in Positions : span[i] = "reminder"}
        from == First(at)
        field(last) == whole_string([k \in 1..(last - from + 1) |-> line[from + k - 1].w])
        read == field(from + Cardinality(at) - 1)
        Unread(j) == line[j].mark = "" /\ span[j] \in {"free", "start", "date"}
    IN /\ read # NotUnderstood
       /\ Task.due = Unset => Task.reminder = <<read[1], Or(read[2], 9)>>
       /\ \A last \in Positions :
            last \notin at /\ from < last /\ (\A j \in (from..last) \ at : Unread(j)) => field(last) = NotUnderstood

\* Whatever the text and the flags said, and whichever won: a series starts
\* on its task's due date and doesn't end before it.
Settled ==
  ( Sent /\ Task.series # <<>> ) =>
    Task.series.start = Task.due /\ (Task.series.end = Unset \/ Task.series.end >= Task.due)

\* The passes over a line read each word once, as a date field would read it,
\* and what they found is settled into one date, one series and one reminder.
OneReading == ReadOnce /\ ReadAlike /\ Settled

=============================================================================
