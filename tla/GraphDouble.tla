---------------------------- MODULE GraphDouble -----------------------------
(***************************************************************************)
(* The double of Microsoft Graph that the integration tests and the demo   *)
(* run ms-todo against: what it holds, what each request does to it, and   *)
(* two clients of it.  One reads a scope, the lists or the tasks of one    *)
(* list, round after round by delta; the other reads a task and later      *)
(* writes to it on condition that it is still as it was read.              *)
(*                                                                         *)
(* A value is the number of the write that set it, and so is an etag.  A   *)
(* request that is refused changes nothing, so its refusal is only the     *)
(* guard that keeps the change from being made.  Requests are answered one *)
(* at a time, under the double's lock.                                     *)
(***************************************************************************)
EXTENDS Integers, FiniteSets

CONSTANTS
  TestLists,   \* the lists a test starts with
  TestTasks,   \* the tasks in them
  Recurring,   \* those that recur
  FirstNew,    \* what IDs made later start at
  Names,       \* names of categories
  PageSize,    \* items on a page of delta
  MaxRequests, \* bound: requests that change something
  MaxRounds,   \* bound: delta rounds begun
  MaxFaults    \* bound: tokens forgotten, requests made to fail, rounds given up

ASSUME DoubleAssumption ==
  /\ IsFiniteSet(TestLists) /\ IsFiniteSet(TestTasks)
  /\ FirstNew \in Nat
  /\ TestLists \cup TestTasks \subseteq 1 .. FirstNew - 1
  /\ Recurring \subseteq TestTasks
  /\ PageSize \in Nat \ {0}
  /\ MaxRequests \in Nat /\ MaxRounds \in Nat /\ MaxFaults \in Nat

TheLists == 0    \* the scope of `lists/delta`; a list's own scope is its ID
Never    == -1   \* no token, no round, no etag, no extension, nothing read

VARIABLES
  lists,       \* each list's name and etag
  tasks,       \* each task as its JSON has it
  notes,       \* our extension on a task: the write that stored it
  listNotes,   \* the lists that have our extension
  named,       \* the tasks and lists that have another one
  attachments, \* the attachments, each with its task
  sessions,    \* the upload sessions open
  categories,  \* each category's name and color
  requests,    \* the number of the last write

  tokens,      \* delta tokens: the scope, and what it held
  rounds,      \* rounds being paged: what differs, and what is gone
  issued,      \* tokens issued
  failing,     \* scopes whose next delta request fails
  faults,

  scope,       \* the client that reads by delta: what it reads,
  mirror,      \* its copy,
  token,       \* the token it would send next,
  walking,     \* the round it is in,
  anew,        \* whether that began without a token,
  told,        \* the items it was told in it,
  toldGone,    \* those it was told are gone,
  reached,     \* and where in the round it is
  lastRead     \* what the other client read of a task

taskSide   == <<tasks, notes, attachments>>
listSide   == <<lists, listNotes, named, categories>>
graphHolds == <<taskSide, listSide, sessions>>
deltaHolds == <<tokens, rounds, issued, failing, faults>>
walkVars   == <<walking, anew, told, toldGone, reached>>
reader     == <<scope, mirror, token, walkVars>>
readers    == <<deltaHolds, reader, lastRead>>
doubleVars == <<graphHolds, requests, readers>>

NothingThere == [x \in {} |-> x]

DoubleInit ==
  /\ lists = [l \in TestLists |-> [name |-> 0, etag |-> 0]]
  /\ \E home \in [TestTasks -> TestLists] :
       tasks = [t \in TestTasks |->
                 [in |-> home[t], etag |-> 0, steps |-> {}, link |-> Never, files |-> FALSE,
                  fields |-> 0, recurs |-> t \in Recurring, due |-> Never]]
  /\ notes = NothingThere /\ listNotes = {} /\ named = {} /\ attachments = {}
  /\ sessions = NothingThere /\ categories = NothingThere /\ requests = 0
  /\ tokens = NothingThere /\ rounds = NothingThere /\ issued = 0 /\ failing = {} /\ faults = 0
  /\ scope \in TestLists \cup {TheLists}
  /\ mirror = NothingThere /\ token = Never
  /\ walking = Never /\ anew = FALSE /\ told = NothingThere /\ toldGone = {} /\ reached = 0
  /\ lastRead = [id |-> Never]

NewWrite == requests + 1

\* An ID no task, list, attachment or category has had.
NewId == FirstNew + requests

With(f, i, v)  == [x \in DOMAIN f \cup {i} |-> IF x = i THEN v ELSE f[x]]
Without(f, S)  == [x \in DOMAIN f \ S |-> f[x]]

Lands == requests < MaxRequests /\ requests' = NewWrite

-----------------------------------------------------------------------------
(* Tasks, their children and their extensions.                             *)

\* The request's If-Match, if it has one, is the task's etag.
IfMatch(t, etag) == etag \in {Never, tasks[t].etag}

\* Every write to a task moves its etag.
Bump(task) == [task EXCEPT !.etag = NewWrite]

Store(t, task) == tasks' = With(tasks, t, task)

OnlyTasks == UNCHANGED <<notes, attachments, listSide, sessions, readers>>

\* A task is created with its steps, its one link and our extension inline.
\* What a lossy create doesn't keep (lossy_create) might as well not be sent.
CreateTask(l, steps, linked, withNote) ==
  /\ Lands
  /\ l \in DOMAIN lists
  /\ Store(NewId, [in |-> l, etag |-> NewWrite, steps |-> steps, link |-> IF linked THEN NewWrite ELSE Never,
                   files |-> FALSE, fields |-> NewWrite, recurs |-> FALSE, due |-> Never])
  /\ notes' = IF withNote THEN With(notes, NewId, NewWrite) ELSE notes
  /\ UNCHANGED <<attachments, listSide, sessions, readers>>

\* A due date written alone to a recurring task goes to a new open task,
\* and the series keeps its own.  If-Match is looked at only where the test
\* asks for that (refuse_stale_task_patches); elsewhere it is as none sent.
PatchTask(t, etag, due) ==
  LET task   == tasks[t]
      splits == task.recurs /\ due = "set"
      merged == [Bump(task) EXCEPT !.fields = NewWrite,
                                   !.due = IF due = "as it is" \/ splits THEN task.due
                                           ELSE IF due = "set" THEN NewWrite ELSE Never]
      split  == [task EXCEPT !.fields = NewWrite, !.due = NewWrite]
  IN  /\ Lands
      /\ t \in DOMAIN tasks
      /\ IfMatch(t, etag)
      /\ tasks' = With(IF splits THEN With(tasks, NewId, split) ELSE tasks, t, merged)
      /\ OnlyTasks

\* With its attachments and our extension.
DropTask(t) ==
  /\ tasks'    = Without(tasks, {t})
  /\ attachments' = {a \in attachments : a.task # t}
  /\ notes'    = Without(notes, {t})

DeleteTask(t) ==
  /\ Lands
  /\ t \in DOMAIN tasks
  /\ DropTask(t)
  /\ UNCHANGED <<listSide, sessions, readers>>

\* A batch of an empty PATCH that checks the etag and a DELETE: if the first
\* fails the second isn't run, and answered 424.
ConditionalDelete(t, etag) ==
  /\ Lands
  /\ t \in DOMAIN tasks
  /\ etag = tasks[t].etag
  /\ DropTask(t)
  /\ UNCHANGED <<listSide, sessions, readers>>

\* Children are created unconditionally; a task takes one link.
CreateStep(t) ==
  /\ Lands
  /\ t \in DOMAIN tasks
  /\ Store(t, [Bump(tasks[t]) EXCEPT !.steps = tasks[t].steps \cup {NewWrite}])
  /\ OnlyTasks

CreateLink(t) ==
  /\ Lands
  /\ t \in DOMAIN tasks
  /\ tasks[t].link = Never
  /\ Store(t, [Bump(tasks[t]) EXCEPT !.link = NewWrite])
  /\ OnlyTasks

\* A step changed is another step for who reads it.
UpdateStep(t, etag, s) ==
  /\ Lands
  /\ t \in DOMAIN tasks
  /\ IfMatch(t, etag)
  /\ s \in tasks[t].steps
  /\ Store(t, [Bump(tasks[t]) EXCEPT !.steps = (tasks[t].steps \ {s}) \cup {NewWrite}])
  /\ OnlyTasks

DeleteStep(t, etag, s) ==
  /\ Lands
  /\ t \in DOMAIN tasks
  /\ IfMatch(t, etag)
  /\ s \in tasks[t].steps
  /\ Store(t, [Bump(tasks[t]) EXCEPT !.steps = tasks[t].steps \ {s}])
  /\ OnlyTasks

\* A null or empty value of a link is ignored, but moves the etag.
UpdateLink(t, etag, empty) ==
  /\ Lands
  /\ t \in DOMAIN tasks
  /\ IfMatch(t, etag)
  /\ tasks[t].link # Never
  /\ Store(t, [Bump(tasks[t]) EXCEPT !.link = IF empty THEN tasks[t].link ELSE NewWrite])
  /\ OnlyTasks

DeleteLink(t, etag) ==
  /\ Lands
  /\ t \in DOMAIN tasks
  /\ IfMatch(t, etag)
  /\ tasks[t].link # Never
  /\ Store(t, [Bump(tasks[t]) EXCEPT !.link = Never])
  /\ OnlyTasks

\* Our extension is kept by the task's ID, and written whether or not there
\* is such a task: only its If-Match and its etag are looked up there.
NoteWritten(t, etag) ==
  /\ t \in DOMAIN tasks => IfMatch(t, etag)
  /\ IF t \in DOMAIN tasks THEN Store(t, Bump(tasks[t])) ELSE UNCHANGED tasks

\* POST upserts the extension; PATCH replaces it, and is a 404 without one.
WriteNote(t, etag, upsert) ==
  /\ Lands
  /\ NoteWritten(t, etag)
  /\ upsert \/ t \in DOMAIN notes
  /\ notes' = With(notes, t, NewWrite)
  /\ UNCHANGED <<attachments, listSide, sessions, readers>>

\* DELETE is a 204 whether or not there was one, and moves the etag if so.
DeleteNote(t, etag) ==
  /\ Lands
  /\ t \in DOMAIN notes
  /\ NoteWritten(t, etag)
  /\ notes' = Without(notes, {t})
  /\ UNCHANGED <<attachments, listSide, sessions, readers>>

-----------------------------------------------------------------------------
(* Attachments.                                                            *)

PutFile(t) ==
  /\ attachments' = attachments \cup {[task |-> t, id |-> NewWrite]}
  /\ Store(t, [Bump(tasks[t]) EXCEPT !.files = TRUE])

PostAttachment(t) ==
  /\ Lands
  /\ t \in DOMAIN tasks
  /\ PutFile(t)
  /\ UNCHANGED <<notes, listSide, sessions, readers>>

\* No If-Match is looked at.
DropFile(a) ==
  /\ Lands
  /\ a \in attachments
  /\ attachments' = attachments \ {a}
  /\ IF a.task \in DOMAIN tasks
     THEN Store(a.task, [Bump(tasks[a.task]) EXCEPT !.files = \E b \in attachments \ {a} : b.task = a.task])
     ELSE UNCHANGED tasks
  /\ UNCHANGED <<notes, listSide, sessions, readers>>

OpenSession(t, size) ==
  /\ Lands
  /\ t \in DOMAIN tasks
  /\ sessions' = With(sessions, NewId, [task |-> t, size |-> size, got |-> 0])
  /\ UNCHANGED <<taskSide, listSide, readers>>

\* A PUT must start where the session has got to; the last one attaches the
\* file, if its task is still there, and ends the session.
PutChunk(s, from) ==
  /\ Lands
  /\ s \in DOMAIN sessions
  /\ from = sessions[s].got
  /\ IF from + 1 < sessions[s].size
     THEN /\ sessions' = With(sessions, s, [sessions[s] EXCEPT !.got = from + 1])
          /\ UNCHANGED <<tasks, attachments>>
     ELSE /\ sessions' = Without(sessions, {s})
          /\ IF sessions[s].task \in DOMAIN tasks THEN PutFile(sessions[s].task) ELSE UNCHANGED <<tasks, attachments>>
  /\ UNCHANGED <<notes, listSide, readers>>

ExpireSessions ==
  /\ Lands
  /\ sessions' = NothingThere
  /\ UNCHANGED <<taskSide, listSide, readers>>

-----------------------------------------------------------------------------
(* Lists, categories and other extensions.                                 *)

CreateList ==
  /\ Lands
  /\ lists' = With(lists, NewId, [name |-> NewWrite, etag |-> NewWrite])
  /\ UNCHANGED <<taskSide, listNotes, named, categories, sessions, readers>>

\* A list's PATCH ignores If-Match.
UpdateList(l) ==
  /\ Lands
  /\ l \in DOMAIN lists
  /\ lists' = With(lists, l, [name |-> NewWrite, etag |-> NewWrite])
  /\ UNCHANGED <<taskSide, listNotes, named, categories, sessions, readers>>

\* The list's tasks go with it, but not what is kept apart by their IDs.
DeleteList(l) ==
  /\ Lands
  /\ l \in DOMAIN lists
  /\ lists'     = Without(lists, {l})
  /\ tasks'     = Without(tasks, {t \in DOMAIN tasks : tasks[t].in = l})
  /\ listNotes' = listNotes \ {l}
  /\ named'     = named \ {l}
  /\ UNCHANGED <<notes, attachments, sessions, categories, readers>>

\* Our extension on a list: written, or deleted, whether or not the list is there.
ListBumped(l) == IF l \in DOMAIN lists THEN With(lists, l, [lists[l] EXCEPT !.etag = NewWrite]) ELSE lists

WriteListNote(l, upsert) ==
  /\ Lands
  /\ upsert \/ l \in listNotes
  /\ listNotes' = listNotes \cup {l}
  /\ lists' = ListBumped(l)
  /\ UNCHANGED <<taskSide, named, categories, sessions, readers>>

DeleteListNote(l) ==
  /\ Lands
  /\ l \in listNotes
  /\ listNotes' = listNotes \ {l}
  /\ lists' = ListBumped(l)
  /\ UNCHANGED <<taskSide, named, categories, sessions, readers>>

\* An extension of another name moves no etag.
WriteNamed(owner) ==
  /\ Lands
  /\ owner \in DOMAIN tasks \cup DOMAIN lists
  /\ named' \in {named \cup {owner}, named \ {owner}}
  /\ UNCHANGED <<taskSide, lists, listNotes, categories, sessions, readers>>

CreateCategory(name) ==
  /\ Lands
  /\ \A c \in DOMAIN categories : categories[c].name # name
  /\ categories' = With(categories, NewId, [name |-> name, color |-> NewWrite])
  /\ UNCHANGED <<taskSide, lists, listNotes, named, sessions, readers>>

\* A new name is ignored.
UpdateCategory(c) ==
  /\ Lands
  /\ c \in DOMAIN categories
  /\ categories' = With(categories, c, [categories[c] EXCEPT !.color = NewWrite])
  /\ UNCHANGED <<taskSide, lists, listNotes, named, sessions, readers>>

DeleteCategory(c) ==
  /\ Lands
  /\ c \in DOMAIN categories
  /\ categories' = Without(categories, {c})
  /\ UNCHANGED <<taskSide, lists, listNotes, named, sessions, readers>>

-----------------------------------------------------------------------------
(* Delta, and the client that reads by it.                                 *)

\* What a scope holds; a deleted list, nothing.
Scope(s) == IF s = TheLists THEN lists ELSE [t \in {u \in DOMAIN tasks : tasks[u].in = s} |-> tasks[t]]

\* Variants like ChangedOnly are what a mistake in the code would make of the
\* definition that follows; no action uses it.
ChangedOnly(past, present) == [changed |-> [i \in {j \in DOMAIN present : j \notin DOMAIN past \/ past[j] # present[j]} |-> present[i]],
                           removed |-> {}]

\* Every item that differs, whole, and what is gone.
Since(past, present) == [changed |-> [i \in {j \in DOMAIN present : j \notin DOMAIN past \/ past[j] # present[j]} |-> present[i]],
                     removed |-> DOMAIN past \ DOMAIN present]

Items(round) == DOMAIN round.changed \cup round.removed

\* The place of item i in a round, whose items are in the order of their IDs.
Rank(round, i) == Cardinality({j \in Items(round) : j < i})

\* The page at an offset.
ItemsAt(round, offset) == {i \in Items(round) : Rank(round, i) \in offset .. offset + PageSize - 1}

\* A copy with the items told of put in, and those that are gone left out.
BroughtUp(past, items, dropped) ==
  [i \in DOMAIN items \cup (DOMAIN past \ dropped) |-> IF i \in DOMAIN items THEN items[i] ELSE past[i]]

\* The reader, told so much of round n, takes the page at an offset: its
\* items, or the empty page with the link.  Then it applies what it was told
\* to its copy, or to nothing if the round began without a token.
TakePage(n, round, past, items, dropped, offset) ==
  LET page == ItemsAt(round, offset)
  IN  IF offset < Cardinality(Items(round))
      THEN /\ walking'  = n
           /\ told'     = [i \in DOMAIN items \cup (page \cap DOMAIN round.changed) |-> round.changed[i]]
           /\ toldGone' = dropped \cup (page \cap round.removed)
           /\ reached'  = offset + PageSize
           /\ UNCHANGED <<mirror, token>>
      ELSE /\ mirror'  = BroughtUp(past, items, dropped)
           /\ token'   = n
           /\ walking' = Never /\ told' = NothingThere /\ toldGone' = {} /\ reached' = 0

\* The token of another scope, or one that was forgotten, is refused.
Known(k, s) == k \in DOMAIN tokens /\ tokens[k].scope = s

\* The round and its token are kept, and its first page answered.
BeginRound ==
  LET past  == IF token = Never THEN NothingThere ELSE tokens[token].held
      round == Since(past, Scope(scope))
  IN  /\ issued < MaxRounds
      /\ walking = Never
      /\ scope \notin failing
      /\ token = Never \/ Known(token, scope)
      /\ tokens' = With(tokens, issued, [scope |-> scope, held |-> Scope(scope)])
      /\ rounds' = With(rounds, issued, round)
      /\ issued' = issued + 1
      /\ anew'   = (token = Never)
      /\ TakePage(issued, round, IF token = Never THEN NothingThere ELSE mirror, NothingThere, {}, 0)
      /\ UNCHANGED <<graphHolds, requests, failing, faults, scope, lastRead>>

NextPage ==
  /\ walking # Never
  /\ TakePage(walking, rounds[walking], IF anew THEN NothingThere ELSE mirror, told, toldGone, reached)
  /\ UNCHANGED <<graphHolds, requests, deltaHolds, scope, anew, lastRead>>

\* The reader stops in the middle of a round, as a daemon that is stopped.
GiveUpRound ==
  /\ walking # Never
  /\ faults < MaxFaults
  /\ faults' = faults + 1
  /\ walking' = Never /\ told' = NothingThere /\ toldGone' = {} /\ reached' = 0
  /\ UNCHANGED <<graphHolds, requests, tokens, rounds, issued, failing, scope, mirror, token, anew, lastRead>>

\* A refused token is dropped, and the scope read whole.
TokenRefused ==
  /\ walking = Never
  /\ token # Never
  /\ scope \in failing \/ ~Known(token, scope)
  /\ failing' = failing \ {scope}
  /\ token'   = Never
  /\ UNCHANGED <<graphHolds, requests, tokens, rounds, issued, faults, scope, mirror, walkVars, lastRead>>

\* Any other failure is the pass's, which keeps the token.
RoundFails ==
  /\ walking = Never
  /\ scope \in failing
  /\ failing' = failing \ {scope}
  /\ UNCHANGED <<graphHolds, requests, tokens, rounds, issued, faults, reader, lastRead>>

FailDelta(s) ==
  /\ faults < MaxFaults
  /\ faults'  = faults + 1
  /\ failing' = failing \cup {s}
  /\ UNCHANGED <<graphHolds, requests, tokens, rounds, issued, reader, lastRead>>

ForgetTokens ==
  /\ faults < MaxFaults
  /\ faults' = faults + 1
  /\ tokens' = NothingThere
  /\ UNCHANGED <<graphHolds, requests, rounds, issued, failing, reader, lastRead>>

-----------------------------------------------------------------------------
(* The client that reads a task and writes to it if it is as it was.       *)

FilesOf(t) == {a \in attachments : a.task = t}
NoteOn(t)  == IF t \in DOMAIN notes THEN notes[t] ELSE Never

\* A task with its extension, and its attachments' metadata.
GetTask(t) ==
  /\ t \in DOMAIN tasks
  /\ lastRead' = [id |-> t, task |-> tasks[t], note |-> NoteOn(t), files |-> FilesOf(t)]
  /\ UNCHANGED <<graphHolds, requests, deltaHolds, reader>>

-----------------------------------------------------------------------------

\* The etags a client can send.
Etags == {Never} \cup (IF lastRead.id = Never THEN {} ELSE {lastRead.task.etag})

TaskRequest ==
  \/ \E l \in DOMAIN lists, steps \in {{}, {NewWrite}}, linked, withNote \in BOOLEAN :
       CreateTask(l, steps, linked, withNote)
  \/ \E t \in DOMAIN tasks, etag \in Etags :
       \/ \E due \in {"as it is", "set", "cleared"} : PatchTask(t, etag, due)
       \/ ConditionalDelete(t, etag) \/ DeleteLink(t, etag)
       \/ \E s \in tasks[t].steps : UpdateStep(t, etag, s) \/ DeleteStep(t, etag, s)
       \/ \E empty \in BOOLEAN : UpdateLink(t, etag, empty)
  \/ \E t \in DOMAIN tasks \cup TestTasks, etag \in Etags :
       DeleteNote(t, etag) \/ \E upsert \in BOOLEAN : WriteNote(t, etag, upsert)
  \/ \E t \in DOMAIN tasks : \/ DeleteTask(t) \/ CreateStep(t) \/ CreateLink(t) \/ PostAttachment(t)
                             \/ \E size \in 0 .. 2 : OpenSession(t, size)
  \/ \E a \in attachments : DropFile(a)
  \/ \E s \in DOMAIN sessions, from \in 0 .. 1 : PutChunk(s, from)
  \/ ExpireSessions

CatalogRequest ==
  \/ CreateList
  \/ \E l \in DOMAIN lists : UpdateList(l) \/ DeleteList(l)
  \/ \E l \in DOMAIN lists \cup TestLists, upsert \in BOOLEAN : WriteListNote(l, upsert)
  \/ \E l \in listNotes : DeleteListNote(l)
  \/ \E owner \in DOMAIN tasks \cup DOMAIN lists : WriteNamed(owner)
  \/ \E name \in Names : CreateCategory(name)
  \/ \E c \in DOMAIN categories : UpdateCategory(c) \/ DeleteCategory(c)

Reading ==
  \/ BeginRound \/ NextPage \/ GiveUpRound \/ TokenRefused \/ RoundFails \/ FailDelta(scope) \/ ForgetTokens
  \/ \E t \in DOMAIN tasks : GetTask(t)

DoubleNext == TaskRequest \/ CatalogRequest \/ Reading

DoubleSpec == DoubleInit /\ [][DoubleNext]_doubleVars

-----------------------------------------------------------------------------
(* What must hold.                                                         *)

\* The reader's copy is what the scope held when the token was issued that
\* the reader would send next: no change and no deletion falls between two
\* rounds or two pages, or is told twice over.
ToldAll == token \in DOMAIN tokens => tokens[token] = [scope |-> scope, held |-> mirror]

\* An etag names one version of a task, its extension and attachments
\* included: a write on condition of it lands only on what was read.
EtagNames ==
  LET t == lastRead.id
  IN  t \in DOMAIN tasks /\ tasks[t].etag = lastRead.task.etag =>
        tasks[t] = lastRead.task /\ NoteOn(t) = lastRead.note /\ FilesOf(t) = lastRead.files

\* Both: what a client of the double holds is what the double held.
DoubleTrue == ToldAll /\ EtagNames
=============================================================================
