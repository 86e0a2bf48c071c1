# A TLA+ model of ms-todo

ms-todo is a local-first client for Microsoft To Do: a daemon keeps lists and
tasks in a SQLite cache, applies every change to the cache at once, and sends
it to Microsoft Graph from a queue (the outbox), while sync passes bring what
other devices changed. The command line, a terminal interface and a Raycast
extension talk to the daemon over a socket.

What can go wrong here is seldom in one function. It is in the order in which
the worker, the sync loop, the requests of several clients, a phone and a
crash get their turns between two SQLite transactions or on either side of an
exchange with Graph. The modules in this directory model those steps, TLC
explores them on small instances, and TLAPS proves the central safety
properties for instances of any size.

Paths below are under `src/crates/` unless they begin with `src/`.

## 1. Inventory

Every part of the repository is listed in `PROJECT.json` ("components") with
what is modelled of it. These are the parts with state or logic of their own.

| Part | State | Operations | Talks to |
|---|---|---|---|
| Outbox queue, `store/src/outbox/` | rows: state, kind, entity, `depends_on`, `rollback_json`, `next_attempt_at`; the cached rows the writes change | enqueue, mark_inflight, defer, mark_unknown, record_*, adopt, mark_done, fail_op, discard_op, requeue, fail_ops_in_list, prune_outbox, recover_inflight | called by handlers, worker, sync, undo |
| Outbox worker, `daemon/src/outbox/` | the operations of its round, the creates not confirmed yet | send_ready, confirm_list, resolve (unknown creates), reject, retry, discard | queue, Graph, events |
| Move job, `outbox/move_job/`, `store/src/moves.rs` | `progress_json`: the steps of a copy, its check and the delete | resume, settle_move, attribute_move | worker, Graph |
| Series, child and extension writes, `outbox/series.rs`, `child_write.rs`, `extension_write.rs` | the operation's payload, the etags read | read, write conditionally, take a 412 | worker, Graph |
| Sync pass, `daemon/src/sync/pass.rs`, `store/src/tasks.rs` | a scope's delta link, the rows' `local_rev`, the page in hand | round, hydrate, apply_tasks, checkpoint, reset_scope | Graph, cache, queue |
| Sync scheduler, `daemon/src/sync/scheduler.rs` | pass counters, one stored wake-up, activity, focus | request, settle, wait_for, focus, the loop | handlers, pass |
| Graph client, `graph/src/` | attempts of a request, the token, upload sessions, batches | send with retries, refresh, batch, pages, put_chunks, device code | worker, pass |
| Idempotency keys | a row per key: holder, fingerprint, result | claim, finish, release, settle_unfinished | handlers, queue |
| Server, protocol, events | lock, socket and PID file; connections, subscriptions, a backlog | serve, mutate, subscribe, stop | clients |
| Task, list and child commands, undo | the plan of a command, its operations | plan and queue, undo, merge | cache, queue |
| My Day, nag, contexts, folders | extensions of tasks and lists, the reminders said | rollover, claim, notify, reorder | queue, clock |
| CLI client, terminal, Raycast extension | requests under way, what is on screen | start the daemon, apply answers, send what was named | server |
| Quick add and dates | the line and the words claimed | the passes of the reader | CLI, terminal |
| Attachments, `daemon/src/attachments/`, `outbox/attachment_write.rs` | queued adds and deletes, the copies kept for undo, `.part` files | queue, send, keep, sweep, save into a directory | queue, Graph, the user's files |
| Semantic search, `daemon/src/semantic/`, `store/src/embeddings.rs` | a vector per task, the model and its lock | index, load, search | cache, events |
| Test double of Graph, `fake-graph/` | lists, tasks, extensions, attachments, sessions, delta tokens | what each request does | the integration tests and the demo |

What is hard about it, and for each part what makes it correct:

- **Unreliable delivery.** An answer may be lost after Graph ran the request.
  Updates and deletes are sent again; a create must not be, so its outcome
  stays *unknown* until sync finds the task or the user decides. Correct
  means: never run more often than the user asked for, never reported done
  without having been run.
- **Deleted lists.** Graph answers 201 to a POST into a list deleted a moment
  ago. Correct means: no such create is ever done.
- **Order and dependencies.** Writes on one entity are chained by
  `depends_on`, deletes pass child writes, and failure, discard and pruning
  act on chains. Correct means: Graph sees the queue's order, nothing is run on
  top of a change that didn't happen, nothing waits for ever.
- **Reading, then acting.** The worker, handlers, retry, discard, attribution
  and passes all read in one transaction and write in a later one, and so does
  every screen between a key and its answer. Correct means: what moved in
  between is noticed, and what is sent is what was named.
- **Crashes and failing stores** between an exchange and its record; writes that
  take two exchanges (a series' date, an upload's chunks, a move).
- **Sync against local writes.** A page fetched before a write is applied
  after it. Correct means: a local change stays until settled, a row never goes
  back, the link never runs ahead of the rows, and the cache catches up.
- **Things kept beside the cache.** An index of vectors, copies of deleted
  attachments, files saved for the user. Correct means: each agrees with what
  it was made from, and nothing of the user's is overwritten.
- **Waiting.** Requests wait for the right pass over one stored wake-up, commands
  for a daemon that starts, stops or is replaced.
- **At most once per key**, with connections that break and keys that expire.

The full list, each at its line and with the properties that would catch it,
is "hazards" in `PROJECT.json`.

## 2. The modules and the code

`MCxxx` modules declare model values and say which components a run holds; each
`.cfg` gives the constants their values. Definitions marked as mutants say what
a plausible mistake in the code would make of the definition that follows them.
No action uses them; they show that the properties notice.

Two modules are composed only where the components really share state. Where a
component's view of another is narrow, its module has the narrow view as an
action: a move is one step of `Lists`, a pass one of `Undo`, the queue of
`MyDay` a sequence. The runs that put several components together let one of
them move and the others rest (the variable `part`).

### Outbox: queue, worker, retry and discard

A step is one SQLite transaction, one statement outside any, or one exchange
with Graph. An operation is a number, in queue order. `st` is its state, with
`free` (not queued yet), `dropped` (discarded) and `pruned` besides the states of
the code; `kind`, `ent`, `dep`, `back` are its columns, `held` those whose
`next_attempt_at` is ahead. `row`, `listed`, `copy` and `dups` are the cache;
`applied`, `ghost` and `dead` are Graph. `pc`, `todo`, `cur`, `answer`, `seen`,
`made` are the worker's local variables across its awaits; `planned` and `asked`
are handlers between their reads and their transaction.

| Code | Actions |
|---|---|
| the checks of `task_writes.rs`, `list_lifecycle.rs`, then `enqueue` | `Plan`, `Enqueue` (with `DependsOn`, `LocalChange`) |
| `commands.rs` retry and discard | `Ask`, then `Retry`, `Discard` |
| `send_ready`, `mark_inflight` | `ReadReady`, `Claim`, `EndRound`, `NextRound`, `NothingReady` |
| `attempt`, `classify` | `Exchange`: `Accepted`, `Refused`, `Deferred`, `Lost`, `LeftAlone` |
| `outcomes.rs`, `rollback.rs` | `Settle`: `RecordCreated`, `RecordChanged`, `RecordSent`, `RecordList`, `RecordSkipped`, `Defer`, `Reject`, `MarkUnknown`, `NotRecorded` |
| `confirm_list` | `GetList`, `Confirm` |
| `unknown.rs` resolve | `Look`, `LookAt`, `Attribute`, `Looked` |
| `recover_inflight`, `prune_outbox`, `fail_ops_in_list` | `Start`, `Prune`, `RemoveList` |

Abstractions: a command is one operation; the content of a write is left out,
only whether the entity's row is live or tombstoned is kept; Graph may refuse
anything; copies of a create's task are numbered by the run that made them;
whether an unknown create is still within its lookup time is a free choice in
`Look`; for a request that may be repeated, `applied` only says whether it was
run. Writes of more than one exchange have modules of their own.

### Writes of several steps

- `MoveJob` is the saga of a move, with the saved steps (`saved`) apart from the
  running attempt's (`p`) and one action per request or save: `Prepare`,
  `CreateIntent`, `CreatePost`, `CreateRecord`, `AttachIntent`, `AttachPost`,
  `AttachRecord`, `VerifyCopy`, `VerifySource`, `DeleteIntent`, `DeleteRead`,
  `DeleteSend`, `DeleteAnswer`, `RecoverSource`, `RecoverCopy`, `Recheck`, `Finish`,
  `RollBack`, `Settle`. Graph's batch compares (`GraphCompares`) and deletes
  (`GraphDeletes`) in two steps, for it has no compare-and-delete. Contents are the
  number of the edit they were made from. `MoveTask` is what a move promises, in
  nine short actions; `MoveJob!Refines` is its specification under
  `said <- Said`.
- `Series` has the two PATCHes that keep a series when its date moves, and the
  completion of one occurrence; `ChildWrite` the chain of writes to a task's steps,
  each with the etag its row has when it is sent, its 412s and its read back;
  `MyDay` the plan and the conditional writes of My Day, its rollover and another
  machine's; `Undo` task commands, the operations they become and the inverse that
  is planned from these; `Lists` commands on lists with their merges, the pass over the
  lists and their undo; `Upload` an attachment in one POST or in chunks.
- `Attached` has a task's queued adds and deletes of files: the check that the user's file is
  still the one that was queued (`CheckSource`, `CheckFirst`), its bytes read and read again, the POST (`PostFile`),
  and for a delete the copy kept (`KeepBytes`, `KeepCopy`) before the DELETE (`RemoveAttachment`), with the
  sweep of older copies (`SweepCopies`). `Downloads` is saving attachments into a directory: one action per
  file operation (`WritePart`, `PlaceFile` by link, by an exclusive create or by force, `CopyBytes`,
  `RemovePart`), while the user puts and removes files there.

### Sync

- `SyncPass` is a pass over one list's tasks. Every change in Graph gets the next number;
  a task's content is the number of its last change, a delta link the number of the
  last change it has told. `shows`, `live`, `hydrated`, `wrote` (`local_rev`) are the rows;
  `link` the scope's saved link; the pass's local variables are `since` to `replayed`. The
  actions follow `sync_list` and `round`: `Begin`, `ReadLink`, `Replay` or `ReadWhole`,
  `LinkRejected`, `FetchFails`, `Advance`, `Compare`, `Fetched`, `HydrationFails`, `Apply`.
  Between any two of them the queue (`QueueWrite`, `Run`, `Lose`, `RecordSent`, `MarkDone`,
  `Reject`, `Reconcile`, `DiscardWrite`), the phone and a crash may act. A task has one
  unresolved write at most: chains are `Outbox`'s matter.
- `Scheduler` is the loop (`PassEnds`, `LooksAgain`, `Elapsed`, `Woken`, `Starts`) and one
  handler per connection (`Arrives`, `Settle`, `Request`, `Wake`, `Answer`, `Focus`,
  `Connect`, `Leave`). `Request` and `Wake` are two steps because the code reads the counter
  and calls `notify_one` one after the other. Only differences of pass numbers matter, so
  `left` is a request's number less the passes finished. Time is the age of the last pass
  in steps (10 s, 20 s, 5 min).

### Calls to Microsoft

- `GraphClient`: one call (`BeginRequest`, `SendCall` with its classes of answers) and the
  credential file several processes share (`TakeLock`, `CompareTokens`, `Spend`,
  `SaveToken`, `SignIn`, `SignOut`, `Killed`). A request is what running it does and the flag
  it is sent with; `GraphRequests` are the client's own.
- `GraphReads`: batches (a failed step fails the rest with 424, and they are queued again) and
  the walk over a collection's pages. `DeviceCode`: the polling of a sign-in.

### Daemon and clients

- `Idempotency`: a request is one sending. `Claim` is `claim_key` with the expiry in it; the
  operation under the key is `Queue` (a local transaction), `Change` (categories and extensions,
  straight to Graph) or `Fail`; then `FinishKey` or `ReleaseKey`. `Drop` is the connection
  breaking at an await, `Crash` and `Start` the daemon's end and `settle_unfinished`.
- `Session`: processes that share a lock, a socket and a PID file; `DaemonStep` follows
  `server.rs` serve from the lock to the removal of the files, `ClientStep` a command from its
  probe to its end, `KeepAlive` the service manager, and processes are killed, hang, or have
  their PID used again.
- `Connection`: frames both ways, answers in and out of order, a subscription's backlog that
  overflows.
- `Nag`: the loop, its lock on the saved times and each notification as steps, with edits,
  restarts, failing saves and the clock between them.
- `Folders`: the sidebar, which moves a row at once and sends the order after it.
- `TuiScreen` (rows, seeds and re-reads over one connection), `TuiDetail` (the pane's cursor and
  prompts), `TuiTriage` (suggestions that arrive late), `TuiModes` (what a key means, on which
  tasks a prompt was opened, what is sent). A handler is an operator that gives the app after
  it and its requests, as `App::update` does.
- `QuickAdd`: one action per pass of the reader, then what the CLI or the terminal sends. The code has two readers
  of a date phrase and so has the module: `phrase_at` (`span.rs`) takes the words at a place of a line as far as they
  read, `whole_string` (`whole_string.rs`) a field's words, all or none. A word is what the rules make of it
  (`DateRule`, `TimeRule`, `StampHour`).
- `Raycast`: the setup screen and the lists, React components whose effects run after a draw, with CLI
  commands that answer in any order or time out after they ran (under `src/raycast`).

### Beside them

- `Semantic`: the indexer and the searches that may load the model before it. A pass prunes
  (`PruneIndex`), reads its jobs (`ReadJobs`) and saves one batch after another (`SaveBatch`); a change
  and its event are two steps (`WriteTask`, `TellChange`).
- `GraphDouble`: the server the integration tests run against, request by request (`CreateList` to
  `DeleteCategory`, uploads, extensions), with its delta tokens and pages, read by one client by delta
  (`BeginRound`, `NextPage`, `RoundFails`) and by another on condition of etags. The modules
  above take their Graph from the tests that use it, so what it promises a client is worth a property.

## 3. Runs

| Run | Instance | Properties | Distinct states |
|---|---|---|---|
| `outbox_child` | one task; updates, child writes and deletes, 3 operations, discards | `WaitersAlive`, `BuiltOnDone`, `InQueueOrder` | 2.0 M |
| `outbox_list` | a list made, renamed, extended, deleted, with a create in it; 3 operations, a crash, discards | `OncePerChoice`, `QueueDrains` | 0.4 M |
| `outbox_ghost` | one task's create and delete; 2 operations, 2 clients at once, a phone, pruning, retries, a crash, a failing store | `DoneIsMade` | 0.8 M |
| `background` | a pass over two tasks with a phone, failing fetches, a rejected link and a crash; the loop with two clients and one list | `PassesConverge`; `OwnPass`, `WaitsEnd` | 0.1 M |
| `steps` | three requests under one key; a row written twice during passes; two My Day commands, a rollover, a phone's date and one failure; a series with 5 events; two step commands and two phone writes; two clients over three processes | `OneChangePerKey`, `AnswersTrue`; `RowsTrue`; `TheirDateKept`; `SeriesRecoverable`; `NothingOverwritten`; `Findable` | 2.8 M |
| `exchanges` | two commands with no restarts by themselves; a terminal and a command on connections with a backlog of one; three reads in batches of two; an upload of none or two chunks; three writes to a task's files with one trouble; a sign-in; two changes and two delta rounds of the test double | `ExchangesEnd`; `NothingMissed`; `AttachedOncePerChoice`; `BytesTrue`; `PatientSignIn`; `DoubleTrue` | 0.6 M |
| `unattended` | a move with one attachment, two faults, an edit, a delete on the phone, one choice of the user; two nags over three half minutes of loops; an index of two tasks with a search, two models and a failure | `NeverLost`, `Refines`; `OwedGetsShown`; `IndexedAtRest` | 0.7 M |
| `undo` | every task and step command on two tasks, its undo, and the undo's undo, with a fault and a phone | `UndoRestores`, `UndoKeepsLater` | 1.2 M |
| `desk` | list commands in four orders, with a phone and a fault; a sidebar of five lists, two folders, two contexts; two requests that save three attachments under three names; on screen two keys, one change by others and one trouble; three detail keys and two refreshes | `ShownAsAsked`; `NoJumpBack`; `SavedTrue`; `ScreenTrue`; `CursorAnchored` | 2.0 M |
| `fronts` | lines of up to six words; six ways of using the keys; two inbox tasks and two sessions of triage; three presses in Raycast with one fault; two callers, three credentials, two troubles | `OneReading`; `NamedIsSent`; `SuggestionFits`; `FreshAfterOwn`, `NeverStuck`; `RunAtMostOnce`, `UserSignsInAndOut` | 1.5 M |
| `sync_lost` | one task, one local update, one edit on a phone | `Converges` is violated: section 5 | |
| `my_day_taken` | `steps`, with a task that has no date and no failures | `TheirDateNeverTaken` is violated: section 5 | |

What each of the properties says stands above its definition.

Why the bounds are enough for what they ask. A chain of three operations is the
shortest in which something waits through another, so cascades, passing of child
writes and "else the list's create" all happen; two operations suffice where the
question is about one create and what is queued behind it. One crash can fall
between any two steps, two faults let a recovery fail too. `MaxChosen = 2` is one
retry. Two clients at once make two decisions about one operation race. Two
tasks, one of them not in Graph at first, let one page hold a change, an addition
and a deletion. Three daemons are one that serves, one that starts and one left
over. Two chunks are a first and a last. Three writes to a task's files are an add, its delete and
the undo of that, and with room for one copy the second delete sweeps the first one's. Two requests for
three names let one find its name taken by the other and then by the user. A page of one item and two
changes put a change between the pages of a round. Two models are the one a vector was made with
and the one that replaced it. Where a theorem of section 4 states the
property, it does not depend on these bounds.

Two My Day commands let one be queued behind the other, which is where a clear meets a date it didn't set.
The longest phrase has four words (`on fri at 9am`), and is tried at the place of each mark; a task's name and a series
with its end and a time are six.

Deadlock is checked in the `outbox_*` runs and in `sync_lost`. The others hold at
least one component whose users, phone or commands are finitely many and which
stops when all have had their turn.

### Fairness

- `Outbox!Fairness`: the worker's loop runs as long as the daemon does
  (`outbox/mod.rs` run); a stopped daemon is started by the next command; a backoff
  ends, as its time is written down; and Graph does not answer the same write with a
  temporary failure for ever (strong fairness of an exchange with another answer).
  Without the last one nothing could be said of an endless outage. No fairness is
  assumed of users, the phone or sync.
- `SyncPass`, in `background`: passes follow one another by the clock, the worker goes
  on, and no request of a pass fails for ever.
- `Scheduler`: a pass ends, as its requests have timeouts and limited retries; the loop
  and every handler take their next step. Time itself is not fair: a request is
  answered though the clock stands still.
- `Session`, `Connection`, `GraphReads`, `Nag`: a process, a task of the executor or a loop
  that can take its next step takes it in the end; requests end in their time limits. A
  process that hangs has no such promise: clients give it up by their own limits.

## 4. Proofs

All for any number of tasks, lists, operations, clients, keys, callers, chunks,
crashes and retries (of `Lists`, which has four rows and two tasks, for any number of commands,
operations, passes and faults), from the named assumptions on the constants only
(`ConstantsAssumption`, `ListsAssumption`, `ListsConstants`, `KeysAssumption`, `SyncAssumption`, `MoveAssumption`,
`ClientAssumption`, `UploadAssumption`, `DeviceAssumption`, `ConnectionAssumption`, `SeriesAssumption`, `SessionAssumption`,
`AttachedAssumption`, `DownloadsAssumption`, `SemanticAssumption`, `DoubleAssumption`, `QuietTicksAssumption`: types of the constants,
disjointness, and that a list a task is in exists if the task does). One theorem
has a hypothesis more, `QueueOrderKept`.

| Module | Theorem | Shows |
|---|---|---|
| `OutboxProofs` | `TypeCorrect`, `QueueInvariant`, `NoneLeftBehind`, `OnlyOnDone` | `TypeOK`, `Inductive`, `WaitersAlive`, `BuiltOnDone` |
| | `AtMostOncePerChoice`, `GhostsSeen`, `DoneMeansMade`, `DoneKept`, `OutcomesStand`, `QueueOrderKept` | `OncePerChoice`, `NoGhostDone`, `DoneWasApplied`, `DoneIsMade`, `OutcomesFinal`, `InQueueOrder` |
| `SyncPassProofs` | `SyncTypes`, `SyncUnsentKept`, `SyncLinkCovered`, `SyncRowsTrue`; `DoubleKept` | `SyncTypeOK`, `UnsentKept`, `LinkCovered`, `RowsTrue`; `DoubleTrue` |
| `SchedulerProofs` | `SchedulerTypes`, `RightPass`, `WakesKept`, `CadenceKept`; `IndexKept`, `OnePassKept` | `TypeOK`, `OwnPass`, `NoLostWake`, `ActiveCadence`; `IndexedAtRest`, `OnePass` |
| `StepProofs` | `KeyTypes`, `OneHandler`, `TrueAnswers`, `OneChange`; `SeriesHeld`; `ServingFound`; `FilesTrue`; `DownloadsKept` | `TypeOK`, `KeyHeldByOne`, `AnswersTrue`, `OneChangePerKey`; `SeriesRecoverable`; `Findable`; `BytesTrue`; `SavedTrue` |
| `MoveJobProofs` | `MoveTypes`, `MoveRefines`, `MoveNeverLost`, `MoveMadeOnce` | `TypeOK`, `Refines`, `NeverLost`, `MadeOncePerChoice` |
| `CallProofs` | `ClientTypes`, `AddsRunOnce`, `SignInAndOutStay`; `UploadTypes`, `AttachedOnce`; `Patience`; `SubscribersUpToDate` | `ClientTypeOK`, `RunAtMostOnce`, `UserSignsInAndOut`; `UploadTypeOK`, `AttachedOncePerChoice`; `PatientSignIn`; `NothingMissed` |
| `FrontProofs` | `OwnWritesShown`; `SetupGoesOn`; `SuggestedForIt`; `CursorHolds`; `SentAsNamed` | `FreshAfterOwn`; `NeverStuck`; `SuggestionFits`; `CursorAnchored`; `NamedIsSent` |
| `ListProofs` | `NameHolds` | `ShownAsAsked` |

With these every safety property of the runs `outbox_child`, `outbox_list` and
`outbox_ghost` holds at any size, and so do those about passes, keys, series, daemons, moves,
calls, uploads, files, downloads, connections, the index, the test double, Raycast, triage, the detail
pane's cursor, what a key sends and the names of lists in the other runs.

**The queue.** `WaitersAlive` and `BuiltOnDone` speak of states of the queue, but what
preserves them is what the worker and the clients hold from earlier reads. So the
inductive invariant has three parts. `DepOK`: dependencies point back in the queue,
an operation being sent or unknown rests on a done one, a pending one on a live or
done one. `WorkerOK`: an operation the worker still has in `todo` may have been
discarded or failed by others since, but if it is pending then its dependency
is still done; the creates awaiting confirmation are inflight. `AskedOK`: a retry
that was decided stays harmless until its transaction. The step that needs most care
is failure: what waits is defined as the least closed set, the lemma `WaitingClosed`
says that it is closed, and `Sinking` that failing it with its roots leaves nothing
pending behind.

**At most once.** `OncePerChoice` needs `SentOK`: whatever *may still be run* (pending, on
the wire, or answered with a temporary failure and not recorded yet) was run less
often than it was chosen. `NoGhostDone` needs `GhostOK`: a list once deleted stays so,
so a list seen live after the 201 was live when Graph answered.

**Outcomes.** `OutcomesFinal` and `DoneWasApplied` (with `NoGhostDone` it is `DoneIsMade`) need to know what the worker has in hand
when it records an answer. `TurnOK` says what it holds at each `pc` (the operation it
claimed is inflight, one awaiting confirmation was answered); `RanOK` that an answer in
hand, a saved 201 or an adopted copy is of a write that Graph ran; `BirthOK` how rows
come about, so that a record of a create finds what it expects.

**The order.** `InQueueOrder` is proved from `Orderly`: of two unsettled writes that concern
each other the later one rests, directly or through others, on the earlier one, or
passes it as a delete passes child writes (`OrderOK`, `ChildOK`), and choosing again is
the only way to come later (`ChosenOK`). The hypothesis is `StoreFaults = FALSE`: SQLite
takes every answer. It is needed. If the answer to a child write can't be recorded, the
write stays inflight while the worker goes on; a delete looks past it, and an update
planned before the delete and queued behind it is sent although the child write is
unsettled. TLC finds this with two clients when `MCOutboxChild.cfg` has
`StoreFaults = TRUE`.

**A pass.** `UnsentKept` and `LinkCovered` are about rows and the link; a page in hand is
older than both. `RowsOK` says of every row what a page in hand may still do to it (its
`local_rev` is past the pass's `since`, or nothing unsettled is in it), and `LinkOK` that
all that Graph changed between the saved link and the page's is in the rows, on the page,
or written locally since; saving the link makes the first the only case. `RowsTrue` is the two together.

**A move.** `ShapeOK` relates the attempt to its saved steps, place by place. `PromiseOK` is
the refinement's own invariant: a version that is about to be deleted was found in a
copy, and what an attempt has read stays good until it is used. Every step of `MoveJob`
is then a step or a stutter of `MoveTask` (`StepsAllowed`). `SafeOK` adds what holds while the
phone leaves the copy be: from the moment the delete may be sent the copy holds what
the steps say, and nothing undoes it; `NeverLost` follows. `CreateOK` and `UploadsOK` say what may still be posted
in this choice of the user: the copy if none was made in it, an attachment if it is saved as
`pending`, or as `sent` by an attempt whose answer could not be saved; `FilesOK` that only one
is `sent`, and in doubt, so that a restart asks the user.

**The test double.** `DoubleInv` joins what it holds (`HoldsOK`: no etag is used twice, none is newer
than the last write), what its tokens hold (`TokensOK`) and where a client in a round stands (`WalkOK`:
what it has plus what the pages not yet read tell of is what the token it will get holds). A client that has
finished a round therefore has what the double had when the round began, though writes went on
between its pages, and an etag that still matches names the same task, extension and files.

**Files.** `BytesTrue` needs to know what an attempt holds at each place: the bytes it read are the ones
queued once the second look at the file agreed, and a delete is sent only when its copy was kept, or needs none. What a
copy's rank says is never reused, so a sweep can only take the oldest. For `Downloads`, `DownInv` says
of each request what it may still do to a name (`SaveOK`) and of each name who put what it is
(`FileOK`); the user's own files are never a candidate's target, because both a link and an
exclusive create fail on a name that is taken.

**The index.** A vector is missing or old only for a reason that will bring a pass: its change is not
told yet, the event waits, a pass that began after it still has the task among its jobs, or the last pass failed. The
proof keeps that reason through each step of a pass; `OnePassKept` shows that two passes never
run at once, as whoever runs one holds the model or is loading it.

**Lists.** A row is written by commands, by answers, by passes and by whatever takes a failed write
back, so what it shows is right only if the queue behind it is in order. `ListsInv` says of the cache
(`CacheOK`) that an unresolved write of a list rests, through others, on every earlier one of it
(`Chained`, with `WaitsOK`), that what undoing it would put back is the name asked for before it
(`GoesBack`), and that the row has the name asked for last (`NamedAsAsked`); and that the
worker has in hand a write that is being sent (`NetOK`). `ShownAsAsked` alone is not inductive: a rejected rename
puts back what it remembers, and only `GoesBack` says that this is what the earlier one asked for, only
`Chained` that everything queued after it falls with it, as `cascade` takes what waits directly or through
others. The lemma most proofs rest on is `AnswersKeepQueue`: whatever an answer settles, what stays unresolved
on a list is either the part before some write, or all but the first. The proof also showed where the claim stops. When a row
takes over another's queue (`merge_duplicate_list`), or its queue is failed around a write being sent, the
two parts don't wait on one another, and taking back a write of one puts an older name over a later one of the other:
a list is created, a pass brings Graph's copy as a second row, that is renamed while the first one's
rename waits, the create's answer joins the rows, and the first rename is discarded. `ShownAsAsked`
therefore leaves out the rows in `db.parted`, and section 5 names the three cases.

**The scheduler.** `RequestOK(c)` says what a request's number means in terms of what the
loop is doing (finished: 0; a pass that will do is running: 1; none begun: 2 during
a pass, 1 between passes) and that whoever waits for a pass the loop won't get to by
itself has left a wake-up. `ArmedOK`: the loop sleeps by the idle interval only while
nobody is active or until it looks again.

**Keys.** `KeysOK` ties the two directions: a key in use names the request that claimed
it, with its fingerprint, and has the result `ok` only if that request's change was
made (`KeyOK`); a handler that hasn't ended, and a request whose operations are open,
hold their key (`HandlerOK`, `OpenOK`). The second half is what deletion by age alone
would break.

**Series.** Between the two PATCHes the recurrence is in no place of Graph. `OpOK` says that the
operation then holds it and that the task has the date it asked for; `AttemptOK` that an
attempt which is about to send the first or second PATCH has the series to set, and that a
date is sent alone only if there was no series, or others let it go (`LetGo`).

**Daemons.** `HoldingsOK` says what a process has at each place of its life: the lock from taking
it to its exit, the PID file from claiming the files to removing them, the socket from binding
it. As the lock has one holder, no other daemon can remove or replace either file.

**Screens.** `ListOK`: unless Raycast's list is about to be read again, neither it nor a load
under way is older than our last write. `PathOK`: unless the setup screen is about to be checked
again, what was started last is about the path that is set, so its end is drawn. `AwaitedOK`: the
request triage waits for was asked about the task it is kept for, as numbers aren't used twice.
For the detail pane `PaneOK` is what the keys and refreshes keep (lists, a row that can be, one
anchor); `FollowAnchors` then shows that following the cursor anchors it whatever came before,
so that a key or a refresh that forgot to follow is all that could break `CursorAnchored`.
What a key sends is followed through every handler: `OnlyOn(a, S)` says that the tasks a prompt of the app `a`
was opened on, and those of the changes it sends, are in `S`, and while a field is being chosen its selection is too.
Each handler keeps it for any `S` that holds what it may name; while browsing or in the palette that
is what is selected, under the cursor or overdue now (`Named`), in a prompt what `aimed` was when it
opened, so that a re-read in between changes neither.

**Calls.** `CallOK` says what a call may rely on where it is: a request that adds has not
run before its call is over, and between the comparison and the save the caller holds
the lock, so that nobody signs out there. `AddsOnce` goes through the client's requests:
none that adds carries the flag that lets it be resent. For the upload `StageOK` says
that the saved state names the final PUT exactly while that one may have gone, and
`AttachOK` that whatever may still be sent in this choice has not been attached in it.

**Connections.** A subscriber may be behind at any moment, so `ConnOK` says of each part of the
cache why it won't stay so: its view is the cache's, the part is marked to be read, it will
still be told (`Told`: the Ack, an event in the backlog or on the wire, or the mark that some
were dropped), or a read that waits will show it (`WillShow`: nothing the daemon
has already read for that request is older). That needs `ReadsInOrder`: reads are answered in
the order they were asked, so a later answer never shows less than the screen does; only
suggestions overtake. `OneRequest` says that an ID is one request's on its whole way, and
`LastWord` the same as `Told` for the syncer's activity.

The invariants were checked with TLC on the runs' instances before they were proved.

### Only model-checked

Liveness (`QueueDrains`, `PassesConverge`, `WaitsEnd`, `ExchangesEnd`, `OwedGetsShown`) is out of the prover's
reach, as are fairness and ENABLED. The safety properties of `MyDay`, `ChildWrite`, `Undo`, `Folders`, `QuickAdd` and
`TuiScreen` have no proof:

- `NothingOverwritten` (`ChildWrite`) needs that taking back the later changes in turn (`FoldLeft` over
  the operations, `SelectSeq` over the steps) gives the steps of before; `UndoRestores` and `UndoKeepsLater` (`Undo`)
  that running a command's operations and then their inverses is the identity (`FoldLeft`, `FoldRight`). Both are
  inductions over data.
- `OneReading` (`QuickAdd`) says that two readers of a phrase, each taking one word after another, agree, and that no
  word is counted twice over a line: inductions over the words.
- `ScreenTrue` (`TuiScreen`) and `NoJumpBack` (`Folders`) speak of the order rows are shown in after any sequence
  of moves and re-reads, which recursive functions over the items and `SelectSeq` compute.
- `TheirDateKept` (`MyDay`) follows a command's operations by a recursive function over the tasks. It says less
  than the code's comments: of a command planned from rows no earlier write was waiting on, that it takes no date
  ms-todo didn't set; of any other, that the date it takes is one the cache showed when it was planned or queued.
  What the comments say of every command is `TheirDateNeverTaken`, which is false (section 5).

## 5. Where code and words differ

Two divergences have a run of their own:

- `sync_lost` (`Converges`). A row written since a pass began is skipped by it, but the page's
  link is saved. A phone's edit that was on the page is not told again, and the row stays
  behind until the task changes once more; the docs promise a cache a few seconds old
  (`src/docs/blueprint/04-sync-cache.md:3`).
- `my_day_taken` (`TheirDateNeverTaken`). `myday add` sets a date of today and, while its writes are queued,
  `myday remove` is queued behind them. The clear is planned from the row as the cache shows it, so it expects today's
  date. The phone sets that very date before the set is sent; the set is skipped, as the date is theirs
  (`daemon/src/outbox/send.rs:517`), and so is the mark of whose date it is; but the clear finds the date it
  expects and takes it away. The module's words are that a date is taken away "unless … someone has changed it since"
  (`daemon/src/my_day/mod.rs:4`), those of the skip that a later clear must not.

Others were met while modelling and are kept in the modules as the code has them:

- A delete that goes through between a pass's page and its transaction doesn't move
  `local_rev`, so that page brings the task back until the next pass
  (`daemon/src/sync/pass.rs:20`).
- A category or extension write goes straight to Graph and may have been made when it fails;
  its key is freed as though nothing had changed (`daemon/src/idempotency.rs:153`, against
  the comment at line 6).
- A step is added to a task and the task deleted before Graph has answered: if the task can't
  be read back, its tombstone is cleared until the delete is synced
  (`store/src/outbox/outcomes.rs:230`, against `rollback.rs:266`).
- A move whose list is gone puts its task where it no longer is
  (`store/src/outbox/rollback.rs:136`).
- The terminal's first screen drops a re-read that arrives before its seed
  (`tui/src/app/answers.rs`).
- A due date ms-todo gave a task is taken for its own after another machine's My Day wrote it
  (`daemon/src/my_day/mod.rs:5`).
- A client may end a daemon that is not the one it found (`cli/src/daemon_client.rs:229`, `:315`).
- A client that looks whether the lock is held takes it for a moment (`cli/src/daemon_client.rs:634`); a daemon that
  starts just then takes the client for another daemon and goes away (`daemon/src/server.rs:66`). `Looked` is that
  moment.
- The terminal's quick add drops `+nag15m` that its preview shows (`tui/src/app/quick_add.rs`).
- Three ways for a list to show an older name while a later rename is queued: a queue joined to another row's
  (`merge_duplicate_list`, `store/src/list_lifecycle.rs:454`), a list found gone with a write being sent and brought back
  later (`store/src/lists.rs:298`), and a re-creation discarded while an earlier write is unresolved
  (`store/src/outbox/rollback.rs`). They end with the rename's answer.
- A list's create is taken back by an undo while its writes are out (`store/src/list_lifecycle.rs:288`).
- A child write queued behind another takes the etag the first one's read back brings, and with
  it loses its guard (`daemon/src/outbox/child_write.rs:9`).
- Child writes that are taken back together each go back to what they were planned from, so until
  the next sync the steps shown may be neither Graph's nor the user's, and what is queued on them
  has the etag's guard only (`store/src/outbox/rollback.rs:188`).
- A search's index that could not be brought up to date is not tried again until something
  changes (`daemon/src/semantic/mod.rs`), and the batches saved before one that fails are not announced.
- A search asked while the model is locked by a pass that has just ended may be told once more that it
  is being prepared (`ready_embedder` uses `try_lock`).
- The week a deleted attachment's copy is kept counts from the copy, not from the delete
  (`daemon/src/attachments/kept.rs`).
- Two attachments of one name saved with `--force` replace each other while the answer lists both;
  a save that fails half way through its last way of naming leaves part of the file under its final name; and one
  that fails in a later attachment has saved the earlier ones but answers an error
  (`daemon/src/attachments/files.rs`).
- The test double leaves a deleted list's attachments and extensions behind, and the copy it splits off a
  series keeps the original's `hasAttachments` (`fake-graph/src/catalog.rs`, `fake-graph/src/graph.rs`).

## 6. What is not modelled

Listed in `PROJECT.json` with reasons. Left out for good: drawing, output formats, argument
parsing and message layout (no state of their own), and the ranking of semantic search and of suggestions (numeric). Left
out of the modules there are: undo of category and extension writes, and of an undo's plan the copy a recurring completion
made, the inverse of a link between tasks and two of its refusals (a move's source list gone, a merge's delete being
sent: `daemon/src/undo.rs:89`, `:152`, `:215`, `:236`); the unconditional delete of a moved task to which Graph gave no
etag (`outbox/move_job/mod.rs:735`); attachments given as URLs
(`attachments/staged.rs`: downloads and redirects), calendar arithmetic of dates, the round that runs `SyncPass`
over every list, of which `Lists` has the part about lists, and of the test double the reminders it derives
and its batches of reads, which are `GraphReads`'.

Some behaviour the models have is covered by no property: a delete held behind an update that
is itself behind an unknown child write (`store/src/outbox/enqueue.rs:325`), a reset of a scope's
link lost to a running pass or to a crash (`sync_state.rs:158`, `rollback.rs:86`), a discard of a
pending write that Graph ran (`commands.rs:119`).

## 7. Running

```sh
tlc -workers 2 -config MCOutboxChild.cfg MCOutbox
tlapm OutboxProofs.tla
```

The other runs are in `PROJECT.json` with their module and configuration.
