------------------------------ MODULE Uploads -------------------------------
(***************************************************************************)
(* Uploading files from one browser tab: the queue and its pump            *)
(* (frontend: stores/uploads.ts, hooks/useUploadPump.ts), the way through  *)
(* the hub (hub/src/main.py) and what the worker does with the file        *)
(* (worker_shared/files/browser.py).  The files uploaded here all have one *)
(* name, in one directory: others do not meet.                             *)
(*                                                                         *)
(* A request may outlive the answer the tab got: the hub gives up after a  *)
(* minute, or the tab loses its connection, and the worker writes the file *)
(* all the same.                                                           *)
(***************************************************************************)
EXTENDS Naturals, Sequences, FiniteSets

CONSTANTS Items, None

VARIABLES
  queue,     \* items not yet sent
  flight,    \* the item in flight and its policy
  asked,     \* the item in conflict, for the user to decide on
  batch,     \* the counters of this batch
  summary,   \* lastCompleted
  wire,      \* requests the worker has yet to handle
  answer,    \* what it answered to the one in flight
  exists,    \* a file of that name is there
  added      \* the items of this batch and what became of each

front == <<queue, flight, asked, batch, summary, added>>
back  == <<wire, answer, exists>>
vars  == <<front, back>>

Outcomes == {"uploaded", "skipped", "failed"}
Empty == [o \in Outcomes |-> 0]

Init ==
  /\ queue = <<>> /\ flight = None /\ asked = None
  /\ batch = Empty /\ summary = None /\ added = <<>>
  /\ wire = {} /\ answer = None /\ exists \in BOOLEAN

Idle == flight = None /\ asked = None /\ queue = <<>>
Of(o) == {i \in DOMAIN added : added[i] = o}
-----------------------------------------------------------------------------
(* The store.                                                              *)

\* A new batch begins when nothing is under way.
Starts(i) ==
  /\ ~ \E r \in wire : r.i = i
  /\ Idle \/ i \notin DOMAIN added
  /\ queue' = Append(queue, i)
  /\ summary' = (IF Idle THEN None ELSE summary)
  /\ added' = [j \in {i} \cup (IF Idle THEN {} ELSE DOMAIN added) |->
                 IF j = i THEN "queued" ELSE added[j]]
  /\ UNCHANGED <<flight, asked, back>>

\* Variant: the counters of a batch that was given up stay.
EnqueueOn(i) == Starts(i) /\ UNCHANGED batch

Enqueue(i) == Starts(i) /\ batch' = (IF Idle THEN Empty ELSE batch)

Send(i, p) ==
  /\ flight' = [i |-> i, p |-> p] /\ wire' = wire \cup {[i |-> i, p |-> p]}
  /\ answer' = None /\ UNCHANGED exists

\* The pump: the head of the queue is sent, with no leave to replace a file.
TakeNext ==
  /\ flight = None /\ asked = None /\ queue # <<>>
  /\ queue' = Tail(queue) /\ Send(Head(queue), "error")
  /\ UNCHANGED <<asked, batch, summary, added>>

\* An item is counted; with the last one the batch is summed up.
Counts(i, o) ==
  LET b == [batch EXCEPT ![o] = @ + 1] IN
  /\ IF queue = <<>> THEN batch' = Empty /\ summary' = b
     ELSE batch' = b /\ UNCHANGED summary
  /\ added' = [added EXCEPT ![i] = o] /\ UNCHANGED queue

MarkUploaded ==
  /\ flight # None /\ answer = "stored" /\ flight' = None /\ answer' = None
  /\ Counts(flight.i, "uploaded") /\ UNCHANGED <<asked, wire, exists>>

MarkConflict ==
  /\ flight # None /\ answer = "exists" /\ flight' = None /\ answer' = None
  /\ asked' = flight.i /\ UNCHANGED <<queue, batch, summary, added, wire, exists>>

\* An error of the worker, or none at all: the hub or the connection gave up.
MarkFailed ==
  /\ flight # None /\ answer \in {"error", None} /\ flight' = None /\ answer' = None
  /\ Counts(flight.i, "failed") /\ UNCHANGED <<asked, wire, exists>>

ResumeConflict(p) ==
  /\ asked # None /\ asked' = None /\ Send(asked, p)
  /\ UNCHANGED <<queue, batch, summary, added>>

SkipConflict ==
  /\ asked # None /\ asked' = None /\ Counts(asked, "skipped")
  /\ UNCHANGED <<flight, back>>

\* Offered while something is queued.  What is in flight goes on; the item in
\* conflict is dropped with the rest.
CancelQueued ==
  /\ queue # <<>> /\ queue' = <<>> /\ asked' = None
  /\ added' = [i \in {j \in DOMAIN added : added[j] # "queued"}
                     \cup (IF flight = None THEN {} ELSE {flight.i}) |-> added[i]]
  /\ UNCHANGED <<flight, batch, summary, back>>

ClearLastCompleted ==
  /\ summary # None /\ summary' = None
  /\ UNCHANGED <<queue, flight, asked, batch, added, back>>
-----------------------------------------------------------------------------
(* The worker.                                                             *)

\* To the tab that still waits for it.
Answers(r, a) == answer' = IF flight = r THEN a ELSE answer

\* upload_file runs without an await: it looks and writes in one step.
UploadFile(r) ==
  /\ r \in wire /\ wire' = wire \ {r} /\ UNCHANGED front
  /\ \/ Answers(r, "error") /\ UNCHANGED exists
     \/ exists /\ r.p = "error" /\ Answers(r, "exists") /\ UNCHANGED exists
     \/ (exists => r.p # "error") /\ exists' = TRUE /\ Answers(r, "stored")

Next ==
  \/ \E i \in Items : Enqueue(i)
  \/ TakeNext \/ MarkUploaded \/ MarkConflict \/ MarkFailed
  \/ \E p \in {"overwrite", "rename"} : ResumeConflict(p)
  \/ SkipConflict \/ CancelQueued \/ ClearLastCompleted
  \/ \E r \in wire : UploadFile(r)

Spec == Init /\ [][Next]_vars
-----------------------------------------------------------------------------
\* A summary that comes up holds how many files came to each outcome.
Sums == summary' \notin {None, summary} => \A o \in Outcomes : summary'[o] = Cardinality(Of(o)')

\* The summary counts every file of its batch that was not cancelled, once and
\* as what became of it, however files were added, cancelled, put off by a
\* conflict and answered late ("Aggregated counters for the current batch",
\* uploads.ts).
SummaryIsExact == [][Sums]_vars
=============================================================================
