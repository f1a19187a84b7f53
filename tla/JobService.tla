----------------------------- MODULE JobService -----------------------------
(***************************************************************************)
(* The job manager of the API (api/service.py), the endpoints that read    *)
(* its jobs and the event stream (api/main.py).                            *)
(*                                                                         *)
(* Uploads are queued on a thread pool; a pool thread runs the pipeline    *)
(* and writes the fields of the Job one by one, without a lock, while      *)
(* GET /jobs/{id} reads them one by one on a request thread and            *)
(* GET /jobs/{id}/stream polls them on the event loop.  Every field access *)
(* is a step.  All jobs share the theorem file <Name>_gen.v and the proof  *)
(* server; the file is told apart by the job that wrote it, as for uploads *)
(* of one function name.  The events of a job are append-only, so their    *)
(* number stands for the list.                                             *)
(***************************************************************************)
EXTENDS Integers, FiniteSets, Sequences, SequencesExt

CONSTANTS
  Jobs, NoJob,
  Watched,      \* bound: the jobs clients ask about, and so whose events anyone reads
  Streams,      \* the connections of GET /jobs/{id}/stream
  Polls,        \* the calls of GET /jobs/{id}
  MaxWorkers,   \* JobManager(max_workers=...), one by default
  MaxStages     \* bound: the stage transitions of one run

ASSUME JobServiceConstants ==
  /\ NoJob \notin Jobs /\ Watched \subseteq Jobs
  /\ IsFiniteSet(Jobs)
  /\ MaxWorkers \in Nat \ {0} /\ MaxStages \in Nat

VARIABLES
  phase,     \* [Jobs -> Phases]: where each job stands in submit, queue and _run
  queue,     \* the pool's work queue
  down,      \* the pool was shut down
  status, events, report, error, finished,   \* the fields of each Job
  file,      \* the job whose theorem the shared file holds
  opened,    \* [Jobs -> the job whose theorem its session opened]
  stream,    \* [Streams -> the generator _sse]
  poll       \* [Polls -> the dictionary being built by public()]

fields == <<status, events, report, error, finished>>
vars == <<phase, queue, down, status, events, report, error, finished,
          file, opened, stream, poll>>

Phases == {"absent", "refused", "queued", "cancelled", "lifting", "written", "proving",
           "returned", "raised", "published", "ended"}
Working == {"lifting", "written", "proving", "returned", "raised", "published"}

\* What a client can be told of a job: None or the thing itself.
Statuses == {"queued", "running", "done", "error"}
Reports == {"None", "report"}
Errors == {"None", "exception"}

Closed == [at |-> "idle", job |-> NoJob, sent |-> 0,
           status |-> "queued", report |-> "None", error |-> "None"]
Unasked == [at |-> "idle", job |-> NoJob, status |-> "queued", stages |-> 0,
            report |-> "None", error |-> "None"]

Init ==
  /\ phase = [j \in Jobs |-> "absent"]
  /\ queue = <<>> /\ down = FALSE
  /\ status = [j \in Jobs |-> "queued"]
  /\ events = [j \in Jobs |-> 0]
  /\ report = [j \in Jobs |-> "None"]
  /\ error = [j \in Jobs |-> "None"]
  /\ finished = [j \in Jobs |-> FALSE]
  /\ file = NoJob /\ opened = [j \in Jobs |-> NoJob]
  /\ stream = [c \in Streams |-> Closed]
  /\ poll = [c \in Polls |-> Unasked]

-----------------------------------------------------------------------------
(* submit, the pool and shutdown.                                          *)

\* POST /jobs: the handler does not await between registering and queueing.
\* After shutdown the pool raises and the registered job is never run.
Submit(j) ==
  /\ phase[j] = "absent"
  /\ IF down THEN phase' = [phase EXCEPT ![j] = "refused"] /\ UNCHANGED queue
             ELSE phase' = [phase EXCEPT ![j] = "queued"] /\ queue' = Append(queue, j)
  /\ UNCHANGED <<down, fields, file, opened, stream, poll>>

Busy == {j \in Jobs : phase[j] \in Working}

IdleWorkerLate == Cardinality(Busy) <= MaxWorkers   \* slip: a worker too many
IdleWorker == Cardinality(Busy) < MaxWorkers

\* A pool thread takes the oldest job: job.status = "running".
StartJob(j) ==
  /\ queue # <<>> /\ j = Head(queue) /\ IdleWorker
  /\ queue' = Tail(queue)
  /\ phase' = [phase EXCEPT ![j] = "lifting"]
  /\ status' = [status EXCEPT ![j] = "running"]
  /\ UNCHANGED <<down, events, report, error, finished, file, opened, stream, poll>>

\* shutdown(wait=False, cancel_futures=True): what is queued never runs, what
\* runs goes on.
Shutdown ==
  /\ ~down
  /\ down' = TRUE
  /\ queue' = <<>>
  /\ phase' = [j \in Jobs |-> IF phase[j] = "queued" THEN "cancelled" ELSE phase[j]]
  /\ UNCHANGED <<fields, file, opened, stream, poll>>

-----------------------------------------------------------------------------
(* _run, on a pool thread.                                                 *)

\* on_stage appends to job.events.
OnStage(j) ==
  /\ j \in Watched
  /\ phase[j] \in {"lifting", "written", "proving"} /\ events[j] < MaxStages
  /\ events' = [events EXCEPT ![j] = @ + 1]
  /\ UNCHANGED <<phase, queue, down, status, report, error, finished, file, opened, stream, poll>>

\* The pipeline writes the theorem of this job, then opens what the file holds.
WriteTheorem(j) ==
  /\ phase[j] = "lifting"
  /\ phase' = [phase EXCEPT ![j] = "written"]
  /\ file' = j
  /\ UNCHANGED <<queue, down, fields, opened, stream, poll>>

OpenTheorem(j) ==
  /\ phase[j] = "written"
  /\ phase' = [phase EXCEPT ![j] = "proving"]
  /\ opened' = [opened EXCEPT ![j] = file]
  /\ UNCHANGED <<queue, down, fields, file, stream, poll>>

\* job.report = run_prove_...(...), or an exception from anywhere inside it.
Return(j) ==
  /\ phase[j] \in {"lifting", "written", "proving"}
  /\ phase' = [phase EXCEPT ![j] = "returned"]
  /\ report' = [report EXCEPT ![j] = "report"]
  /\ UNCHANGED <<queue, down, status, events, error, finished, file, opened, stream, poll>>

Raise(j) ==
  /\ phase[j] \in {"lifting", "written", "proving"}
  /\ phase' = [phase EXCEPT ![j] = "raised"]
  /\ error' = [error EXCEPT ![j] = "exception"]
  /\ UNCHANGED <<queue, down, status, events, report, finished, file, opened, stream, poll>>

MayPublishEarly(j) == phase[j] \in {"proving", "returned", "raised"}  \* slip: status first
MayPublish(j) == phase[j] \in {"returned", "raised"}

OutcomeAsText(j) ==                  \* slip: status takes what error should hold
  IF error[j] = "None" THEN "done" ELSE "exception"
Outcome(j) == IF error[j] = "None" THEN "done" ELSE "error"

\* job.status = "done" or "error".
Publish(j) ==
  /\ MayPublish(j)
  /\ phase' = [phase EXCEPT ![j] = "published"]
  /\ status' = [status EXCEPT ![j] = Outcome(j)]
  /\ UNCHANGED <<queue, down, events, report, error, finished, file, opened, stream, poll>>

Finally(j) == finished' = [finished EXCEPT ![j] = TRUE]

Finish(j) ==
  /\ phase[j] = "published"
  /\ phase' = [phase EXCEPT ![j] = "ended"]
  /\ Finally(j)
  /\ UNCHANGED <<queue, down, status, events, report, error, file, opened, stream, poll>>

-----------------------------------------------------------------------------
(* GET /jobs/{id}/stream: the generator _sse.                              *)

\* A client knows the id once POST /jobs answered.
Known(j) == j \in Watched /\ phase[j] \notin {"absent", "refused"}

Connect(c, j) ==
  /\ stream[c].at = "idle" /\ Known(j)
  /\ stream' = [stream EXCEPT ![c].at = "drain", ![c].job = j]
  /\ UNCHANGED <<phase, queue, down, fields, file, opened, poll>>

\* `while sent < len(job.events)`, in the loop and in the flush.
SendEvent(c) ==
  /\ stream[c].at \in {"drain", "flush"}
  /\ stream[c].sent < events[stream[c].job]
  /\ stream' = [stream EXCEPT ![c].sent = @ + 1]
  /\ UNCHANGED <<phase, queue, down, fields, file, opened, poll>>

Drained(c) ==
  /\ stream[c].at = "drain" /\ stream[c].sent >= events[stream[c].job]
  /\ stream' = [stream EXCEPT ![c].at = "check"]
  /\ UNCHANGED <<phase, queue, down, fields, file, opened, poll>>

DoneOnly(j) == status[j] = "done"    \* slip: an error never ends the stream
IsFinished(j) == finished[j]

\* job.finished.is_set(), else sleep and drain again.
CheckFinished(c) ==
  /\ stream[c].at = "check"
  /\ stream' = [stream EXCEPT ![c].at = IF IsFinished(stream[c].job) THEN "flush" ELSE "drain"]
  /\ UNCHANGED <<phase, queue, down, fields, file, opened, poll>>

FlushedAlways(c) == TRUE             \* slip: no flush before the final event
Flushed(c) == stream[c].sent >= events[stream[c].job]

\* The final event's dictionary: status, error, report, one after the other.
ReadFinalStatus(c) ==
  /\ stream[c].at = "flush" /\ Flushed(c)
  /\ stream' = [stream EXCEPT ![c].at = "error", ![c].status = status[stream[c].job]]
  /\ UNCHANGED <<phase, queue, down, fields, file, opened, poll>>

ReadFinalError(c) ==
  /\ stream[c].at = "error"
  /\ stream' = [stream EXCEPT ![c].at = "report", ![c].error = error[stream[c].job]]
  /\ UNCHANGED <<phase, queue, down, fields, file, opened, poll>>

SendFinal(c) ==
  /\ stream[c].at = "report"
  /\ stream' = [stream EXCEPT ![c].at = "closed", ![c].report = report[stream[c].job]]
  /\ UNCHANGED <<phase, queue, down, fields, file, opened, poll>>

Disconnect(c) ==
  /\ stream[c].at \in {"drain", "check", "flush"}
  /\ stream' = [stream EXCEPT ![c].at = "gone"]
  /\ UNCHANGED <<phase, queue, down, fields, file, opened, poll>>

-----------------------------------------------------------------------------
(* GET /jobs/{id}: public() reads the fields in the order of its dict.     *)

ReadStatus(c, j) ==
  /\ poll[c].at = "idle" /\ Known(j)
  /\ poll' = [poll EXCEPT ![c].at = "stages", ![c].job = j, ![c].status = status[j]]
  /\ UNCHANGED <<phase, queue, down, fields, file, opened, stream>>

ReadStages(c) ==
  /\ poll[c].at = "stages"
  /\ poll' = [poll EXCEPT ![c].at = "report", ![c].stages = events[poll[c].job]]
  /\ UNCHANGED <<phase, queue, down, fields, file, opened, stream>>

ReadReport(c) ==
  /\ poll[c].at = "report"
  /\ poll' = [poll EXCEPT ![c].at = "error", ![c].report = report[poll[c].job]]
  /\ UNCHANGED <<phase, queue, down, fields, file, opened, stream>>

ReadError(c) ==
  /\ poll[c].at = "error"
  /\ poll' = [poll EXCEPT ![c].at = "answered", ![c].error = error[poll[c].job]]
  /\ UNCHANGED <<phase, queue, down, fields, file, opened, stream>>

-----------------------------------------------------------------------------
WorkerStep(j) ==
  \/ WriteTheorem(j) \/ OpenTheorem(j) \/ Return(j) \/ Raise(j) \/ Publish(j) \/ Finish(j)

StreamStep(c) ==
  \/ SendEvent(c) \/ Drained(c) \/ CheckFinished(c)
  \/ ReadFinalStatus(c) \/ ReadFinalError(c) \/ SendFinal(c)

PollStep(c) == ReadStages(c) \/ ReadReport(c) \/ ReadError(c)

Next ==
  \/ \E j \in Jobs : Submit(j) \/ StartJob(j) \/ OnStage(j) \/ WorkerStep(j)
  \/ Shutdown
  \/ \E c \in Streams : StreamStep(c) \/ Disconnect(c) \/ \E j \in Jobs : Connect(c, j)
  \/ \E c \in Polls : PollStep(c) \/ \E j \in Jobs : ReadStatus(c, j)

Spec == Init /\ [][Next]_vars

\* Pool threads and the event loop are scheduled, and the pipeline returns or
\* raises; uploads, connections and shutdown come as they please.
FairSpec ==
  /\ Spec
  /\ \A j \in Jobs : WF_vars(StartJob(j)) /\ WF_vars(WorkerStep(j))
  /\ \A c \in Streams : WF_vars(StreamStep(c))

-----------------------------------------------------------------------------
(* Properties.                                                             *)

JobsOK ==
  /\ phase \in [Jobs -> Phases] /\ status \in [Jobs -> Statuses]
  /\ events \in [Jobs -> 0..MaxStages]
  /\ report \in [Jobs -> Reports] /\ error \in [Jobs -> Errors]
  /\ finished \in [Jobs -> BOOLEAN] /\ down \in BOOLEAN
  /\ file \in Jobs \cup {NoJob} /\ opened \in [Jobs -> Jobs \cup {NoJob}]

QueueOK ==
  /\ queue \in Seq(Jobs) /\ IsInjective(queue)
  /\ ToSet(queue) = {j \in Jobs : phase[j] = "queued"}

StreamRecord ==
  [at : {"idle", "drain", "check", "flush", "error", "report", "closed", "gone"}, job : Jobs \cup {NoJob},
   sent : 0..MaxStages, status : Statuses, report : Reports, error : Errors]

PollRecord ==
  [at : {"idle", "stages", "report", "error", "answered"}, job : Jobs \cup {NoJob},
   status : Statuses, stages : 0..MaxStages, report : Reports, error : Errors]

ClientsOK ==
  /\ stream \in [Streams -> StreamRecord] /\ poll \in [Polls -> PollRecord]
  /\ \A c \in Streams : stream[c].at # "idle" => stream[c].job \in Jobs
  /\ \A c \in Polls : poll[c].at # "idle" => poll[c].job \in Jobs

\* Every variable stays within its range; the pool's queue holds exactly the
\* queued jobs, each once.
TypeOK == JobsOK /\ QueueOK /\ ClientsOK

\* "jobs serialise": a job's proof session never opens the theorem another
\* job's pipeline wrote to the shared file.
OpensOwnTheorem == \A j \in Jobs : opened[j] \in {NoJob, j}

\* GET /jobs/{id} builds its answer without a lock, yet an answer that says
\* "done" has the report, no error and every stage, and one that says "error"
\* has the error and no report.
SnapshotConsistent ==
  \A c \in Polls : poll[c].at = "answered" =>
    /\ poll[c].status = "done" =>
         /\ poll[c].report = "report" /\ poll[c].error = "None"
         /\ poll[c].stages = events[poll[c].job]
    /\ poll[c].status = "error" => poll[c].report = "None" /\ poll[c].error = "exception"

\* A stream that ended with the final event delivered every stage transition of
\* its job (none can follow), and its final event carries a settled outcome.
StreamComplete ==
  \A c \in Streams : stream[c].at = "closed" =>
    /\ phase[stream[c].job] = "ended"
    /\ stream[c].sent = events[stream[c].job]
    /\ <<stream[c].status, stream[c].report, stream[c].error>> \in
         {<<"done", "report", "None">>, <<"error", "None", "exception">>}

\* A queued job ends, with a report or an error, unless a shutdown cancels it
\* first: neither an exception nor a busy pool wedges it, and what has begun
\* is finished through a shutdown.  And a connected client gets its final event,
\* unless it leaves or a shutdown cancels its job.
JobsFinish == \A j \in Jobs : phase[j] = "queued" ~> finished[j] \/ phase[j] = "cancelled"

StreamsEnd ==
  \A c \in Streams : stream[c].at = "drain" ~>
    \/ stream[c].at \in {"closed", "gone"}
    \/ \E j \in Jobs : j = stream[c].job /\ phase[j] = "cancelled"

EveryoneServed == JobsFinish /\ StreamsEnd
=============================================================================
