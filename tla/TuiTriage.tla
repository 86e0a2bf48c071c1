------------------------------ MODULE TuiTriage ------------------------------
(***************************************************************************)
(* Two conversations about which list a task belongs in: "Suggest lists    *)
(* for inbox" (crates/tui/src/app/triage.rs) and the hint under quick add  *)
(* (list_hint.rs, quick_add.rs).  The daemon answers `SuggestList` when    *)
(* its provider does, so answers come in any order (server.rs, send_late); *)
(* a suggestion is <<title, list>>, where the title is the one it was      *)
(* asked about, which the answer itself doesn't say.                       *)
(***************************************************************************)
EXTENDS Naturals, Sequences, FiniteSets

CONSTANTS InboxTasks,     \* the open tasks of the inbox, in some order: 1..n
          Typed,          \* the titles quick add's text may read as
          QuietTicks,     \* QUIET_TICKS
          MaxSessions,    \* times triage is started
          MaxTyping,      \* keys typed in quick add
          MaxLostAnswers  \* answers lost with the connection

ASSUME QuietTicksAssumption == QuietTicks \in Nat \ {0}

VARIABLES triage, triageRequests, hint, adding, asked, moves, triageSpent

triageVars == <<triage, triageRequests, hint, adding, asked, moves, triageSpent>>

NoTriage == [open |-> FALSE]
Answers == {"list", "inbox", "nothing", "off"}
NoTitle == "no title"

Ask(tag, n, about) == asked' = asked \cup {[tag |-> tag, n |-> n, about |-> about]}

-----------------------------------------------------------------------------
(* Triage.                                                                 *)

StartTriage ==
  /\ ~triage.open /\ adding = NoTitle
  /\ triageSpent.sessions < MaxSessions
  /\ triageSpent' = [triageSpent EXCEPT !.sessions = @ + 1]
  /\ triageRequests' = triageRequests + 1
  /\ triage' = [open |-> TRUE, tasks |-> <<>>, at |-> 1, suggestion |-> <<"loading">>, session |-> triageRequests + 1,
                waiting |-> {}, moved |-> 0, skipped |-> 0]
  /\ Ask("inbox", triageRequests + 1, 0)
  /\ UNCHANGED <<hint, adding, moves>>

EndTriage == triage' = NoTriage /\ UNCHANGED triageRequests

NothingWaited(t) == t.waiting = {}

AskTriage(t, others) ==
  IF NothingWaited(t)
  THEN /\ triageRequests' = triageRequests + 1
       /\ triage' = [t EXCEPT !.suggestion = <<"asking">>, !.waiting = {[n |-> triageRequests + 1, task |-> t.tasks[t.at]]}]
       /\ asked' = others \cup {[tag |-> "suggest", n |-> triageRequests + 1, about |-> t.tasks[t.at]]}
  ELSE /\ triage' = [t EXCEPT !.suggestion = <<"asking">>]
       /\ asked' = others
       /\ UNCHANGED triageRequests

\* The inbox's open tasks come: those it had when it was read.
TriageInbox(q, tasks) ==
  /\ IF ~triage.open \/ triage.session # q.n THEN UNCHANGED <<triage, triageRequests>> /\ asked' = asked \ {q}
     ELSE IF tasks = <<>> THEN EndTriage /\ asked' = asked \ {q}
     ELSE AskTriage([triage EXCEPT !.tasks = tasks], asked \ {q})
  /\ UNCHANGED <<hint, adding, moves>>

\* An answer for a task already skipped is dropped, and the one on screen asked.
\* mutant: whichever answer comes is taken for the task on screen
TakenAnyway(t, q) == t.waiting # {}
Awaited(t, q) == \E w \in t.waiting : w.n = q.n

TriageSuggested(q, answer) ==
  /\ IF ~triage.open \/ ~Awaited(triage, q) THEN UNCHANGED <<triage, triageRequests>> /\ asked' = asked \ {q}
     ELSE LET w == CHOOSE w \in triage.waiting : TRUE
              t == [triage EXCEPT !.waiting = {}]
          IN  IF w.task # t.tasks[t.at] THEN AskTriage(t, asked \ {q})
              ELSE /\ triage' = [t EXCEPT !.suggestion = CASE answer = "list" -> <<"found", q.about>>
                                                           [] answer \in {"inbox", "nothing"} -> <<"nothing">>
                                                           [] OTHER -> <<"failed">>]
                   /\ asked' = asked \ {q}
                   /\ UNCHANGED triageRequests
  /\ UNCHANGED <<hint, adding, moves>>

NextTriage(t) ==
  IF t.at < Len(t.tasks) THEN AskTriage([t EXCEPT !.at = @ + 1], asked)
  ELSE EndTriage /\ UNCHANGED asked

TriageMove ==
  /\ triage.open /\ triage.tasks # <<>> /\ triage.suggestion[1] = "found"
  /\ moves' = Append(moves, [task |-> triage.tasks[triage.at], about |-> triage.suggestion[2], session |-> triage.session])
  /\ NextTriage([triage EXCEPT !.moved = @ + 1])
  /\ UNCHANGED <<hint, adding, triageSpent>>

TriageSkip ==
  /\ triage.open /\ triage.tasks # <<>>
  /\ NextTriage([triage EXCEPT !.skipped = @ + 1])
  /\ UNCHANGED <<hint, adding, moves, triageSpent>>

StopTriage ==
  /\ triage.open /\ EndTriage
  /\ UNCHANGED <<hint, adding, asked, moves, triageSpent>>

-----------------------------------------------------------------------------
(* Quick add's hint: one request at a time, asked once typing has paused.  *)

Since(n) == {n}
NotWaiting == {}

Type ==
  /\ ~triage.open
  /\ triageSpent.typing < MaxTyping
  /\ triageSpent' = [triageSpent EXCEPT !.typing = @ + 1]
  /\ \E title \in Typed \ {adding} : adding' = title
  /\ hint' = [hint EXCEPT !.quiet = Since(0)]
  /\ UNCHANGED <<triage, triageRequests, asked, moves>>

\* Enter or Esc: the modal closes, and what was asked stays asked.
CloseAdd ==
  /\ adding # NoTitle
  /\ adding' = NoTitle
  /\ UNCHANGED <<triage, triageRequests, hint, asked, moves, triageSpent>>

TickHint ==
  /\ hint.quiet # NotWaiting
  /\ LET quiet == (CHOOSE n \in hint.quiet : TRUE) + 1
         held == hint.off \/ hint.asking # NoTitle \/ quiet < QuietTicks
         known == \E a \in hint.answer : a.title = adding
     IN  /\ held => quiet <= QuietTicks   \* counted no further: all that is read is whether it is enough
         /\ CASE held -> hint' = [hint EXCEPT !.quiet = Since(quiet)] /\ UNCHANGED asked
              [] ~held /\ (adding = NoTitle \/ known) -> hint' = [hint EXCEPT !.quiet = NotWaiting] /\ UNCHANGED asked
              [] OTHER -> /\ hint' = [hint EXCEPT !.quiet = NotWaiting, !.asking = adding]
                          /\ Ask("hint", 0, adding)
  /\ UNCHANGED <<triage, triageRequests, adding, moves, triageSpent>>

HintTitle(q) == hint.asking

AskNext == Since(QuietTicks)

HintAnswered(q, answer) ==
  /\ asked' = asked \ {q}
  /\ hint' = IF hint.asking = NoTitle THEN hint
             ELSE [hint EXCEPT !.asking = NoTitle, !.quiet = AskNext,
                               !.answer = IF answer \in {"list", "inbox", "nothing"}
                                          THEN {[title |-> HintTitle(q), about |-> q.about, found |-> answer # "nothing"]} ELSE @,
                               !.off = @ \/ answer = "off"]
  /\ UNCHANGED <<triage, triageRequests, adding, moves>>

-----------------------------------------------------------------------------
(* Answers, in whatever order they come; a lost one is an error.           *)

InboxReads == {<<>>, [i \in 1..InboxTasks |-> i], <<InboxTasks>>}

AnswerArrives ==
  \E q \in asked :
    /\ \/ q.tag = "inbox" /\ \E tasks \in InboxReads : TriageInbox(q, tasks)
       \/ q.tag = "suggest" /\ \E answer \in Answers : TriageSuggested(q, answer)
       \/ q.tag = "hint" /\ \E answer \in Answers : HintAnswered(q, answer)
    /\ UNCHANGED triageSpent

AnswerLost ==
  /\ triageSpent.lost < MaxLostAnswers
  /\ triageSpent' = [triageSpent EXCEPT !.lost = @ + 1]
  /\ \E q \in asked :
       \/ q.tag = "inbox" /\ TriageInbox(q, <<>>)
       \/ q.tag = "suggest" /\ TriageSuggested(q, "lost")
       \/ q.tag = "hint" /\ HintAnswered(q, "lost")

TriageInit ==
  /\ triage = NoTriage /\ triageRequests = 0
  /\ hint = [off |-> FALSE, quiet |-> NotWaiting, asking |-> NoTitle, answer |-> {}]
  /\ adding = NoTitle
  /\ asked = {} /\ moves = <<>>
  /\ triageSpent = [sessions |-> 0, typing |-> 0, lost |-> 0]

TriageNext ==
  \/ StartTriage \/ TriageMove \/ TriageSkip \/ StopTriage
  \/ Type \/ CloseAdd \/ TickHint
  \/ AnswerArrives \/ AnswerLost

TriageSpec == TriageInit /\ [][TriageNext]_triageVars

-----------------------------------------------------------------------------
(* Properties.                                                             *)

\* The list suggested for the task on screen, and the one a key moves it to, was
\* suggested for that task: not for one skipped since, nor by a session that
\* was stopped (triage_suggested).
SuggestionFits ==
  /\ triage.open /\ triage.suggestion[1] = "found" => triage.suggestion[2] = triage.tasks[triage.at]
  /\ \A i \in DOMAIN moves : moves[i].about = moves[i].task

=============================================================================
