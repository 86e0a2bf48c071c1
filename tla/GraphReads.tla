----------------------------- MODULE GraphReads -----------------------------
(***************************************************************************)
(* Reads of many things: get_each sends GETs in chained batches, pages     *)
(* follows a collection's links.  A batch's steps fail one by one: after a *)
(* failed step every later one is a 424 that never ran and goes back on    *)
(* the queue.  A collection is answered whole or not at all.               *)
(***************************************************************************)
EXTENDS Integers, Sequences, FiniteSets, SequencesExt

CONSTANTS
  Urls,        \* how many GETs
  BatchLimit,  \* BATCH_LIMIT
  StepRetries, \* MAX_RETRIES, of a batch's step
  MaxPages,    \* max_pages
  PageCounts   \* the pages Graph's collections have

ASSUME ReadsAssumption ==
  /\ {Urls, StepRetries} \subseteq Nat /\ {BatchLimit, MaxPages} \subseteq Nat \ {0}
  /\ PageCounts \subseteq Nat \ {0}

Indexes == 1..Urls

VARIABLES
  queue,     \* the requests still to send, in order
  batch,     \* the chunk that was sent, empty between batches
  retries,   \* how often each was tried again
  results,   \* what each was answered
  whole,     \* how get_each ended: "no" while it runs, "yes", or "error"
  asked, walk, pageCount  \* pages: the page it's at, how it ended, how many there are

batchVars == <<queue, batch, retries, results, whole>>
readsVars == <<batchVars, asked, walk, pageCount>>

ReadsInit ==
  /\ queue = [i \in Indexes |-> i] /\ batch = <<>>
  /\ retries = [i \in Indexes |-> 0] /\ results = [i \in Indexes |-> "none"]
  /\ whole = "no"
  /\ asked = 0 /\ walk = "no" /\ pageCount \in PageCounts

Least(a, b) == IF a < b THEN a ELSE b

SendBatch ==
  /\ whole = "no" /\ batch = <<>> /\ queue # <<>>
  /\ LET n == Least(Len(queue), BatchLimit) IN
       batch' = SubSeq(queue, 1, n) /\ queue' = SubSeq(queue, n + 1, Len(queue))
  /\ UNCHANGED <<retries, results, whole, asked, walk, pageCount>>

\* What may be tried again; the queue takes them back in order.
RetriesUncounted(i) == retries[i] \* mutant
RetriesCounted(i) == retries[i] + 1

PutBack(again) == SetToSortSeq(again, <) \o queue

Dependents(at) == {batch[k] : k \in at + 1..Len(batch)}

\* The steps before `at` succeed, `at` ends as `how`, the rest never ran.
AnswerBatch ==
  /\ batch # <<>>
  /\ \E at \in 1..Len(batch) + 1, how \in {"again", "failed", "missing"} :
       LET Good == {batch[k] : k \in 1..at - 1}
           Bad  == IF at > Len(batch) THEN {} ELSE {batch[at]}
           TryAgain == {i \in Bad : how = "again" /\ retries[i] < StepRetries}
       IN /\ results' = [i \in Indexes |->
               IF i \in Good THEN "ok" ELSE IF i \in Bad \ TryAgain THEN "failed" ELSE results[i]]
          /\ retries' = [i \in Indexes |-> IF i \in TryAgain THEN RetriesCounted(i) ELSE retries[i]]
          /\ queue' = PutBack(TryAgain \cup Dependents(at))
  /\ batch' = <<>>
  /\ UNCHANGED <<whole, asked, walk, pageCount>>

\* The batch as a whole failed: get_each's own error.
BatchFails ==
  /\ batch # <<>> /\ whole' = "error" /\ batch' = <<>>
  /\ UNCHANGED <<queue, retries, results, asked, walk, pageCount>>

FinishEach ==
  /\ whole = "no" /\ queue = <<>> /\ batch = <<>>
  /\ whole' = "yes"
  /\ UNCHANGED <<queue, batch, retries, results, asked, walk, pageCount>>

PageLimit == "error"

GetPage ==
  /\ walk = "no"
  /\ \/ asked = MaxPages /\ walk' = PageLimit /\ UNCHANGED asked
     \/ asked < MaxPages /\ walk' = "error" /\ UNCHANGED asked   \* a page failed, or its link leaves Graph
     \/ asked < MaxPages /\ asked' = asked + 1
        /\ walk' = IF asked + 1 = pageCount THEN "whole" ELSE "no"
  /\ UNCHANGED <<batchVars, pageCount>>

ReadsNext == SendBatch \/ AnswerBatch \/ BatchFails \/ FinishEach \/ GetPage

\* A request ends in its time limit, and the loops go on at once.
ReadsFairness == WF_readsVars(SendBatch \/ AnswerBatch \/ FinishEach) /\ WF_readsVars(GetPage)
ReadsSpec == ReadsInit /\ [][ReadsNext]_readsVars /\ ReadsFairness

-----------------------------------------------------------------------------

\* However the steps fail, get_each ends: each batch answers its first step or counts a retry
\* of it, and a step has three.
EachEnds == batch # <<>> ~> whole # "no"

=============================================================================
