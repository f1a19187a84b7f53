-------------------------- MODULE JobServiceProofs --------------------------
(***************************************************************************)
(* Proofs about JobService, for any jobs, clients and size of the pool     *)
(* (the ownership of the theorem file: for the pool of one worker).        *)
(***************************************************************************)
EXTENDS JobService, TLAPS, FiniteSetTheorems

Settled == {<<"done", "report", "None">>, <<"error", "None", "exception">>}
Final == {"published", "ended"}

\* The fields of a job, by how far its run got.
Lifecycle ==
  \A j \in Jobs :
    /\ phase[j] \notin Final => status[j] \in {"queued", "running"}
    /\ phase[j] \notin Final \cup {"returned", "raised"} =>
         report[j] = "None" /\ error[j] = "None"
    /\ phase[j] = "returned" => report[j] = "report" /\ error[j] = "None"
    /\ phase[j] = "raised" => report[j] = "None" /\ error[j] = "exception"
    /\ phase[j] \in Final => <<status[j], report[j], error[j]>> \in Settled
    /\ finished[j] = TRUE => phase[j] = "ended"

\* What a stream has established of its job at each point of the generator.
StreamFact(c) ==
  /\ stream[c].at = "idle" => stream[c].sent = 0
  /\ stream[c].at # "idle" =>
       /\ stream[c].sent <= events[stream[c].job]
       /\ stream[c].at \in {"flush", "error", "report", "closed"} =>
            phase[stream[c].job] = "ended"
       /\ stream[c].at \in {"error", "report", "closed"} =>
            /\ stream[c].sent = events[stream[c].job]
            /\ stream[c].status = status[stream[c].job]
       /\ stream[c].at \in {"report", "closed"} => stream[c].error = error[stream[c].job]
       /\ stream[c].at = "closed" => stream[c].report = report[stream[c].job]

StreamFacts == \A c \in Streams : StreamFact(c)

\* What an answer under construction says of a job that was already settled.
PollFact(c) ==
  poll[c].at # "idle" /\ poll[c].status \in {"done", "error"} =>
    /\ phase[poll[c].job] \in Final
    /\ poll[c].status = status[poll[c].job]
    /\ poll[c].at \in {"report", "error", "answered"} => poll[c].stages = events[poll[c].job]
    /\ poll[c].at \in {"error", "answered"} => poll[c].report = report[poll[c].job]
    /\ poll[c].at = "answered" => poll[c].error = error[poll[c].job]

PollFacts == \A c \in Polls : PollFact(c)

-----------------------------------------------------------------------------
\* Queueing an absent job and taking the head keep the queue exact.
LEMMA Enqueued ==
  ASSUME NEW q \in Seq(Jobs), IsInjective(q), NEW j \in Jobs, j \notin ToSet(q)
  PROVE  /\ Append(q, j) \in Seq(Jobs) /\ IsInjective(Append(q, j))
         /\ ToSet(Append(q, j)) = ToSet(q) \cup {j}
  <1> DEFINE r == Append(q, j)
  <1>1. /\ r \in Seq(Jobs) /\ DOMAIN r = 1..(Len(q) + 1) /\ DOMAIN q = 1..Len(q)
        /\ r[Len(q) + 1] = j /\ \A i \in 1..Len(q) : r[i] = q[i]
    OBVIOUS
  <1>2. \A i \in 1..Len(q) : q[i] # j
    BY <1>1 DEF ToSet
  <1>3. Len(q) \in Nat
    OBVIOUS
  <1> HIDE DEF r
  <1>4. IsInjective(r)
    <2>1. SUFFICES ASSUME NEW a \in DOMAIN r, NEW b \in DOMAIN r, r[a] = r[b] PROVE a = b
      BY DEF IsInjective
    <2>2. CASE a \in 1..Len(q) /\ b \in 1..Len(q)
      BY <1>1, <2>1, <2>2 DEF IsInjective
    <2>3. CASE ~(a \in 1..Len(q) /\ b \in 1..Len(q))
      BY <1>1, <1>2, <1>3, <2>1, <2>3
    <2>4. QED
      BY <2>2, <2>3
  <1>5. ToSet(r) = ToSet(q) \cup {j}
    <2>1. ASSUME NEW x \in ToSet(r) PROVE x \in ToSet(q) \cup {j}
      BY <1>1, <1>3, <2>1 DEF ToSet
    <2>2. ASSUME NEW x \in ToSet(q) \cup {j} PROVE x \in ToSet(r)
      BY <1>1, <1>3, <2>2 DEF ToSet
    <2>3. QED
      BY <2>1, <2>2
  <1>6. QED
    BY <1>1, <1>4, <1>5 DEF r

LEMMA Dequeued ==
  ASSUME NEW q \in Seq(Jobs), IsInjective(q), q # <<>>
  PROVE  /\ Head(q) \in ToSet(q)
         /\ Tail(q) \in Seq(Jobs) /\ IsInjective(Tail(q))
         /\ ToSet(Tail(q)) = ToSet(q) \ {Head(q)}
  <1> DEFINE r == Tail(q)
  <1>1. /\ r \in Seq(Jobs) /\ Len(q) \in Nat \ {0}
        /\ DOMAIN r = 1..(Len(q) - 1) /\ DOMAIN q = 1..Len(q)
        /\ Head(q) = q[1] /\ \A i \in 1..(Len(q) - 1) : r[i] = q[i + 1]
    OBVIOUS
  <1> HIDE DEF r
  <1>2. \A i, k \in 1..Len(q) : q[i] = q[k] => i = k
    BY <1>1 DEF IsInjective
  <1>3. IsInjective(r)
    <2>1. SUFFICES ASSUME NEW a \in DOMAIN r, NEW b \in DOMAIN r, r[a] = r[b] PROVE a = b
      BY DEF IsInjective
    <2>2. a + 1 \in 1..Len(q) /\ b + 1 \in 1..Len(q) /\ q[a + 1] = q[b + 1]
      BY <1>1, <2>1
    <2>3. QED
      BY <1>1, <1>2, <2>2
  <1>4. ToSet(r) = ToSet(q) \ {Head(q)}
    <2>1. ASSUME NEW x \in ToSet(r) PROVE x \in ToSet(q) \ {Head(q)}
      <3>1. PICK i \in 1..(Len(q) - 1) : x = q[i + 1]
        BY <1>1, <2>1 DEF ToSet
      <3>2. i + 1 \in 1..Len(q) /\ 1 \in 1..Len(q) /\ i + 1 # 1
        BY <1>1
      <3>3. QED
        BY <1>1, <1>2, <3>1, <3>2 DEF ToSet
    <2>2. ASSUME NEW x \in ToSet(q) \ {Head(q)} PROVE x \in ToSet(r)
      <3>1. PICK i \in 1..Len(q) : x = q[i] /\ i # 1
        BY <1>1, <2>2 DEF ToSet
      <3>2. i - 1 \in 1..(Len(q) - 1) /\ r[i - 1] = q[(i - 1) + 1] /\ (i - 1) + 1 = i
        BY <1>1, <3>1
      <3>3. QED
        BY <1>1, <3>1, <3>2 DEF ToSet
    <2>3. QED
      BY <2>1, <2>2
  <1>5. Head(q) \in ToSet(q)
    BY <1>1 DEF ToSet
  <1>6. QED
    BY <1>1, <1>3, <1>4, <1>5 DEF r

-----------------------------------------------------------------------------
\* A step is one of the pool's, of a job's thread, of a client's, or a stutter.
ClientStep ==
  \/ \E c \in Streams : StreamStep(c) \/ Disconnect(c) \/ \E j \in Jobs : Connect(c, j)
  \/ \E c \in Polls : PollStep(c) \/ \E j \in Jobs : ReadStatus(c, j)

\* Clients only read.
LEMMA ClientsRead ==
  ClientStep => UNCHANGED <<phase, queue, down, fields, file, opened>>
  BY DEF ClientStep, StreamStep, PollStep, SendEvent, Drained, CheckFinished,
         ReadFinalStatus, ReadFinalError, SendFinal, Disconnect, Connect,
         ReadStatus, ReadStages, ReadReport, ReadError

\* Jobs never write a client's state.
LEMMA JobsDoNotTouchClients ==
  ASSUME NEW j \in Jobs,
         Submit(j) \/ StartJob(j) \/ OnStage(j) \/ WorkerStep(j) \/ Shutdown
  PROVE  UNCHANGED <<stream, poll>>
  BY DEF Submit, StartJob, OnStage, WorkerStep, WriteTheorem, OpenTheorem, Return, Raise,
         Publish, Finish, Shutdown

\* Every field of every job stays within its range.
LEMMA JobsStep ==
  ASSUME JobsOK, QueueOK, [Next]_vars
  PROVE  JobsOK'
  <1> USE JobServiceConstants DEF JobsOK, fields
  <1>1. ASSUME NEW j \in Jobs, Submit(j) PROVE JobsOK'
    BY <1>1 DEF Submit, Phases
  <1>2. ASSUME NEW j \in Jobs, StartJob(j) PROVE JobsOK'
    BY <1>2 DEF StartJob, Phases, Statuses
  <1>3. ASSUME NEW j \in Jobs, OnStage(j) PROVE JobsOK'
    BY <1>3 DEF OnStage
  <1>4. ASSUME NEW j \in Jobs, WriteTheorem(j) PROVE JobsOK'
    BY <1>4 DEF WriteTheorem, Phases
  <1>5. ASSUME NEW j \in Jobs, OpenTheorem(j) PROVE JobsOK'
    BY <1>5 DEF OpenTheorem, Phases
  <1>6. ASSUME NEW j \in Jobs, Return(j) PROVE JobsOK'
    BY <1>6 DEF Return, Phases, Reports
  <1>7. ASSUME NEW j \in Jobs, Raise(j) PROVE JobsOK'
    BY <1>7 DEF Raise, Phases, Errors
  <1>8. ASSUME NEW j \in Jobs, Publish(j) PROVE JobsOK'
    BY <1>8 DEF Publish, Outcome, Phases, Statuses
  <1>9. ASSUME NEW j \in Jobs, Finish(j) PROVE JobsOK'
    BY <1>9 DEF Finish, Finally, Phases
  <1>10. ASSUME Shutdown PROVE JobsOK'
    BY <1>10 DEF Shutdown, Phases
  <1>11. ASSUME ClientStep PROVE JobsOK'
    BY <1>11, ClientsRead
  <1>12. ASSUME UNCHANGED vars PROVE JobsOK'
    BY <1>12 DEF vars
  <1>13. QED
    BY <1>1, <1>2, <1>3, <1>4, <1>5, <1>6, <1>7, <1>8, <1>9, <1>10, <1>11, <1>12
       DEF Next, WorkerStep, ClientStep

\* The queue stays exact.
LEMMA QueueStep ==
  ASSUME JobsOK, QueueOK, [Next]_vars
  PROVE  QueueOK'
  <1> USE DEF QueueOK, JobsOK
  <1>1. ASSUME NEW j \in Jobs, Submit(j) PROVE QueueOK'
    <2>1. CASE down
      BY <1>1, <2>1 DEF Submit
    <2>2. CASE ~down
      <3>1. queue' = Append(queue, j) /\ phase' = [phase EXCEPT ![j] = "queued"]
        BY <1>1, <2>2 DEF Submit
      <3>2. j \notin ToSet(queue)
        BY <1>1 DEF Submit
      <3>3. queue' \in Seq(Jobs) /\ IsInjective(queue') /\ ToSet(queue') = ToSet(queue) \cup {j}
        BY <3>1, <3>2, Enqueued
      <3>4. {k \in Jobs : phase'[k] = "queued"} = ToSet(queue) \cup {j}
        BY <3>1
      <3>5. QED
        BY <3>3, <3>4
    <2>3. QED
      BY <2>1, <2>2
  <1>2. ASSUME NEW j \in Jobs, StartJob(j) PROVE QueueOK'
    <2>1. /\ queue # <<>> /\ j = Head(queue) /\ queue' = Tail(queue)
          /\ phase' = [phase EXCEPT ![j] = "lifting"]
      BY <1>2 DEF StartJob
    <2>2. queue' \in Seq(Jobs) /\ IsInjective(queue') /\ ToSet(queue') = ToSet(queue) \ {j}
      BY <2>1, Dequeued
    <2>3. {k \in Jobs : phase'[k] = "queued"} = ToSet(queue) \ {j}
      BY <2>1
    <2>4. QED
      BY <2>2, <2>3
  <1>3. ASSUME NEW j \in Jobs, OnStage(j) \/ WorkerStep(j) PROVE QueueOK'
    <2>1. queue' = queue
      BY <1>3 DEF OnStage, WorkerStep, WriteTheorem, OpenTheorem, Return, Raise, Publish, Finish
    <2>2. \/ phase' = phase
          \/ phase[j] # "queued" /\ \E ph \in Phases \ {"queued"} : phase' = [phase EXCEPT ![j] = ph]
      BY <1>3 DEF OnStage, WorkerStep, WriteTheorem, OpenTheorem, Return, Raise, Publish, MayPublish,
                  Finish, Phases
    <2>3. {k \in Jobs : phase'[k] = "queued"} = {k \in Jobs : phase[k] = "queued"}
      BY <2>2
    <2>4. QED
      BY <2>1, <2>3
  <1>4. ASSUME Shutdown PROVE QueueOK'
    <2>1. queue' = <<>> /\ \A k \in Jobs : phase'[k] # "queued"
      BY <1>4 DEF Shutdown
    <2>2. ToSet(<<>>) = {} /\ IsInjective(<<>>) /\ <<>> \in Seq(Jobs)
      BY DEF ToSet, IsInjective
    <2>3. QED
      BY <2>1, <2>2
  <1>5. ASSUME ClientStep PROVE QueueOK'
    BY <1>5, ClientsRead
  <1>6. ASSUME UNCHANGED vars PROVE QueueOK'
    BY <1>6 DEF vars
  <1>7. QED
    BY <1>1, <1>2, <1>3, <1>4, <1>5, <1>6 DEF Next, ClientStep

\* One client's record changes.
LEMMA StreamUpdate ==
  ASSUME ClientsOK, NEW c \in Streams, NEW r \in StreamRecord, r.at # "idle" => r.job \in Jobs,
         stream' = [stream EXCEPT ![c] = r], poll' = poll
  PROVE  ClientsOK'
  BY DEF ClientsOK

LEMMA PollUpdate ==
  ASSUME ClientsOK, NEW c \in Polls, NEW r \in PollRecord, r.at # "idle" => r.job \in Jobs,
         poll' = [poll EXCEPT ![c] = r], stream' = stream
  PROVE  ClientsOK'
  BY DEF ClientsOK

\* Streams and answers stay within their ranges.
LEMMA ClientsStep ==
  ASSUME JobsOK, ClientsOK, [Next]_vars
  PROVE  ClientsOK'
  <1>1. ASSUME NEW c \in Streams, NEW j \in Jobs, Connect(c, j) PROVE ClientsOK'
    <2> DEFINE r == [stream[c] EXCEPT !.at = "drain", !.job = j]
    <2>1. stream' = [stream EXCEPT ![c] = r] /\ UNCHANGED poll
      BY <1>1 DEF Connect
    <2>2. stream[c] \in StreamRecord /\ (stream[c].at # "idle" => stream[c].job \in Jobs)
      BY DEF ClientsOK
    <2>3. status[j] \in Statuses
      BY DEF JobsOK
    <2>4. r \in StreamRecord /\ r.at # "idle" /\ r.job \in Jobs
      BY <2>2, <2>3 DEF StreamRecord
    <2>5. QED
      BY <2>1, <2>4, StreamUpdate
  <1>2. ASSUME NEW c \in Streams, SendEvent(c) PROVE ClientsOK'
    <2> DEFINE r == [stream[c] EXCEPT !.sent = @ + 1]
    <2>1. stream' = [stream EXCEPT ![c] = r] /\ UNCHANGED poll
      BY <1>2 DEF SendEvent
    <2>2. stream[c] \in StreamRecord /\ (stream[c].at # "idle" => stream[c].job \in Jobs)
      BY DEF ClientsOK
    <2>3. stream[c].job \in Jobs /\ stream[c].sent + 1 \in 0..MaxStages
      BY <1>2, <2>2, JobServiceConstants DEF SendEvent, JobsOK, StreamRecord
    <2>4. r \in StreamRecord /\ r.at # "idle" /\ r.job \in Jobs
      BY <2>2, <2>3, <1>2 DEF StreamRecord, SendEvent
    <2>5. QED
      BY <2>1, <2>4, StreamUpdate
  <1>3. ASSUME NEW c \in Streams, Drained(c) PROVE ClientsOK'
    <2> DEFINE r == [stream[c] EXCEPT !.at = "check"]
    <2>1. stream' = [stream EXCEPT ![c] = r] /\ UNCHANGED poll
      BY <1>3 DEF Drained
    <2>2. stream[c] \in StreamRecord /\ (stream[c].at # "idle" => stream[c].job \in Jobs)
      BY DEF ClientsOK
    <2>3. /\ stream[c].job \in Jobs /\ status[stream[c].job] \in Statuses
          /\ report[stream[c].job] \in Reports /\ error[stream[c].job] \in Errors
          /\ events[stream[c].job] \in 0..MaxStages
      BY <1>3, <2>2 DEF Drained, JobsOK
    <2>4. r \in StreamRecord /\ r.at # "idle" /\ r.job \in Jobs
      BY <2>2, <2>3 DEF StreamRecord
    <2>5. QED
      BY <2>1, <2>4, StreamUpdate
  <1>4. ASSUME NEW c \in Streams, CheckFinished(c) PROVE ClientsOK'
    <2> DEFINE r == [stream[c] EXCEPT !.at = IF IsFinished(stream[c].job) THEN "flush" ELSE "drain"]
    <2>1. stream' = [stream EXCEPT ![c] = r] /\ UNCHANGED poll
      BY <1>4 DEF CheckFinished
    <2>2. stream[c] \in StreamRecord /\ (stream[c].at # "idle" => stream[c].job \in Jobs)
      BY DEF ClientsOK
    <2>3. /\ stream[c].job \in Jobs /\ status[stream[c].job] \in Statuses
          /\ report[stream[c].job] \in Reports /\ error[stream[c].job] \in Errors
          /\ events[stream[c].job] \in 0..MaxStages
      BY <1>4, <2>2 DEF CheckFinished, JobsOK
    <2>4. r \in StreamRecord /\ r.at # "idle" /\ r.job \in Jobs
      BY <2>2, <2>3 DEF StreamRecord
    <2>5. QED
      BY <2>1, <2>4, StreamUpdate
  <1>5. ASSUME NEW c \in Streams, ReadFinalStatus(c) PROVE ClientsOK'
    <2> DEFINE r == [stream[c] EXCEPT !.at = "error", !.status = status[stream[c].job]]
    <2>1. stream' = [stream EXCEPT ![c] = r] /\ UNCHANGED poll
      BY <1>5 DEF ReadFinalStatus
    <2>2. stream[c] \in StreamRecord /\ (stream[c].at # "idle" => stream[c].job \in Jobs)
      BY DEF ClientsOK
    <2>3. /\ stream[c].job \in Jobs /\ status[stream[c].job] \in Statuses
          /\ report[stream[c].job] \in Reports /\ error[stream[c].job] \in Errors
      BY <1>5, <2>2 DEF ReadFinalStatus, JobsOK
    <2>4. r \in StreamRecord /\ r.at # "idle" /\ r.job \in Jobs
      BY <2>2, <2>3 DEF StreamRecord
    <2>5. QED
      BY <2>1, <2>4, StreamUpdate
  <1>5a. ASSUME NEW c \in Streams, ReadFinalError(c) PROVE ClientsOK'
    <2> DEFINE r == [stream[c] EXCEPT !.at = "report", !.error = error[stream[c].job]]
    <2>1. stream' = [stream EXCEPT ![c] = r] /\ UNCHANGED poll
      BY <1>5a DEF ReadFinalError
    <2>2. stream[c] \in StreamRecord /\ (stream[c].at # "idle" => stream[c].job \in Jobs)
      BY DEF ClientsOK
    <2>3. /\ stream[c].job \in Jobs /\ status[stream[c].job] \in Statuses
          /\ report[stream[c].job] \in Reports /\ error[stream[c].job] \in Errors
      BY <1>5a, <2>2 DEF ReadFinalError, JobsOK
    <2>4. r \in StreamRecord /\ r.at # "idle" /\ r.job \in Jobs
      BY <2>2, <2>3 DEF StreamRecord
    <2>5. QED
      BY <2>1, <2>4, StreamUpdate
  <1>5b. ASSUME NEW c \in Streams, SendFinal(c) PROVE ClientsOK'
    <2> DEFINE r == [stream[c] EXCEPT !.at = "closed", !.report = report[stream[c].job]]
    <2>1. stream' = [stream EXCEPT ![c] = r] /\ UNCHANGED poll
      BY <1>5b DEF SendFinal
    <2>2. stream[c] \in StreamRecord /\ (stream[c].at # "idle" => stream[c].job \in Jobs)
      BY DEF ClientsOK
    <2>3. /\ stream[c].job \in Jobs /\ status[stream[c].job] \in Statuses
          /\ report[stream[c].job] \in Reports /\ error[stream[c].job] \in Errors
      BY <1>5b, <2>2 DEF SendFinal, JobsOK
    <2>4. r \in StreamRecord /\ r.at # "idle" /\ r.job \in Jobs
      BY <2>2, <2>3 DEF StreamRecord
    <2>5. QED
      BY <2>1, <2>4, StreamUpdate
  <1>6. ASSUME NEW c \in Streams, Disconnect(c) PROVE ClientsOK'
    <2> DEFINE r == [stream[c] EXCEPT !.at = "gone"]
    <2>1. stream' = [stream EXCEPT ![c] = r] /\ UNCHANGED poll
      BY <1>6 DEF Disconnect
    <2>2. stream[c] \in StreamRecord /\ (stream[c].at # "idle" => stream[c].job \in Jobs)
      BY DEF ClientsOK
    <2>3. /\ stream[c].job \in Jobs /\ status[stream[c].job] \in Statuses
          /\ report[stream[c].job] \in Reports /\ error[stream[c].job] \in Errors
          /\ events[stream[c].job] \in 0..MaxStages
      BY <1>6, <2>2 DEF Disconnect, JobsOK
    <2>4. r \in StreamRecord /\ r.at # "idle" /\ r.job \in Jobs
      BY <2>2, <2>3 DEF StreamRecord
    <2>5. QED
      BY <2>1, <2>4, StreamUpdate
  <1>7. ASSUME NEW c \in Polls, NEW j \in Jobs, ReadStatus(c, j) PROVE ClientsOK'
    <2> DEFINE r == [poll[c] EXCEPT !.at = "stages", !.job = j, !.status = status[j]]
    <2>1. poll' = [poll EXCEPT ![c] = r] /\ UNCHANGED stream
      BY <1>7 DEF ReadStatus
    <2>2. poll[c] \in PollRecord /\ (poll[c].at # "idle" => poll[c].job \in Jobs)
      BY DEF ClientsOK
    <2>3. status[j] \in Statuses
      BY DEF JobsOK
    <2>4. r \in PollRecord /\ r.at # "idle" /\ r.job \in Jobs
      BY <2>2, <2>3 DEF PollRecord
    <2>5. QED
      BY <2>1, <2>4, PollUpdate
  <1>8. ASSUME NEW c \in Polls, ReadStages(c) PROVE ClientsOK'
    <2> DEFINE r == [poll[c] EXCEPT !.at = "report", !.stages = events[poll[c].job]]
    <2>1. poll' = [poll EXCEPT ![c] = r] /\ UNCHANGED stream
      BY <1>8 DEF ReadStages
    <2>2. poll[c] \in PollRecord /\ (poll[c].at # "idle" => poll[c].job \in Jobs)
      BY DEF ClientsOK
    <2>3. /\ poll[c].job \in Jobs /\ status[poll[c].job] \in Statuses
          /\ report[poll[c].job] \in Reports /\ error[poll[c].job] \in Errors
          /\ events[poll[c].job] \in 0..MaxStages
      BY <1>8, <2>2 DEF ReadStages, JobsOK
    <2>4. r \in PollRecord /\ r.at # "idle" /\ r.job \in Jobs
      BY <2>2, <2>3 DEF PollRecord
    <2>5. QED
      BY <2>1, <2>4, PollUpdate
  <1>9. ASSUME NEW c \in Polls, ReadReport(c) PROVE ClientsOK'
    <2> DEFINE r == [poll[c] EXCEPT !.at = "error", !.report = report[poll[c].job]]
    <2>1. poll' = [poll EXCEPT ![c] = r] /\ UNCHANGED stream
      BY <1>9 DEF ReadReport
    <2>2. poll[c] \in PollRecord /\ (poll[c].at # "idle" => poll[c].job \in Jobs)
      BY DEF ClientsOK
    <2>3. /\ poll[c].job \in Jobs /\ status[poll[c].job] \in Statuses
          /\ report[poll[c].job] \in Reports /\ error[poll[c].job] \in Errors
          /\ events[poll[c].job] \in 0..MaxStages
      BY <1>9, <2>2 DEF ReadReport, JobsOK
    <2>4. r \in PollRecord /\ r.at # "idle" /\ r.job \in Jobs
      BY <2>2, <2>3 DEF PollRecord
    <2>5. QED
      BY <2>1, <2>4, PollUpdate
  <1>10. ASSUME NEW c \in Polls, ReadError(c) PROVE ClientsOK'
    <2> DEFINE r == [poll[c] EXCEPT !.at = "answered", !.error = error[poll[c].job]]
    <2>1. poll' = [poll EXCEPT ![c] = r] /\ UNCHANGED stream
      BY <1>10 DEF ReadError
    <2>2. poll[c] \in PollRecord /\ (poll[c].at # "idle" => poll[c].job \in Jobs)
      BY DEF ClientsOK
    <2>3. /\ poll[c].job \in Jobs /\ status[poll[c].job] \in Statuses
          /\ report[poll[c].job] \in Reports /\ error[poll[c].job] \in Errors
          /\ events[poll[c].job] \in 0..MaxStages
      BY <1>10, <2>2 DEF ReadError, JobsOK
    <2>4. r \in PollRecord /\ r.at # "idle" /\ r.job \in Jobs
      BY <2>2, <2>3 DEF PollRecord
    <2>5. QED
      BY <2>1, <2>4, PollUpdate
  <1>11. ASSUME UNCHANGED <<stream, poll>> PROVE ClientsOK'
    BY <1>11 DEF ClientsOK
  <1>12. Shutdown => UNCHANGED <<stream, poll>>
    BY DEF Shutdown
  <1>13. QED
    BY <1>1, <1>2, <1>3, <1>4, <1>5, <1>5a, <1>5b, <1>6, <1>7, <1>8, <1>9, <1>10,
       <1>11, <1>12, JobsDoNotTouchClients DEF Next, StreamStep, PollStep, vars

-----------------------------------------------------------------------------
\* The fields of a job follow its run.
LEMMA LifecycleStep ==
  ASSUME JobsOK, QueueOK, Lifecycle, [Next]_vars
  PROVE  Lifecycle'
  <1> USE DEF JobsOK, fields, Final, Settled
  <1>1. ASSUME NEW j \in Jobs, Submit(j) PROVE Lifecycle'
    BY <1>1 DEF Submit, Lifecycle
  <1>2. ASSUME NEW j \in Jobs, StartJob(j) PROVE Lifecycle'
    <2>1. j \in ToSet(queue)
      BY <1>2, Dequeued DEF QueueOK, StartJob
    <2>2. phase[j] = "queued"
      BY <2>1 DEF QueueOK
    <2>3. QED
      BY <1>2, <2>2 DEF StartJob, Lifecycle
  <1>3. ASSUME NEW j \in Jobs, OnStage(j) PROVE Lifecycle'
    BY <1>3 DEF OnStage, Lifecycle
  <1>4. ASSUME NEW j \in Jobs, WriteTheorem(j) PROVE Lifecycle'
    BY <1>4 DEF WriteTheorem, Lifecycle
  <1>5. ASSUME NEW j \in Jobs, OpenTheorem(j) PROVE Lifecycle'
    BY <1>5 DEF OpenTheorem, Lifecycle
  <1>6. ASSUME NEW j \in Jobs, Return(j) PROVE Lifecycle'
    BY <1>6 DEF Return, Lifecycle
  <1>7. ASSUME NEW j \in Jobs, Raise(j) PROVE Lifecycle'
    BY <1>7 DEF Raise, Lifecycle
  <1>8. ASSUME NEW j \in Jobs, Publish(j) PROVE Lifecycle'
    BY <1>8 DEF Publish, Outcome, MayPublish, Lifecycle
  <1>9. ASSUME NEW j \in Jobs, Finish(j) PROVE Lifecycle'
    BY <1>9 DEF Finish, Finally, Lifecycle
  <1>10. ASSUME Shutdown PROVE Lifecycle'
    BY <1>10 DEF Shutdown, Lifecycle
  <1>11. ASSUME ClientStep PROVE Lifecycle'
    BY <1>11, ClientsRead DEF Lifecycle
  <1>12. ASSUME UNCHANGED vars PROVE Lifecycle'
    BY <1>12 DEF vars, Lifecycle
  <1>13. QED
    BY <1>1, <1>2, <1>3, <1>4, <1>5, <1>6, <1>7, <1>8, <1>9, <1>10, <1>11, <1>12
       DEF Next, WorkerStep, ClientStep

\* A job only ever gains events, and once its outcome is published it is frozen.
Frozen(k) ==
  /\ events[k] <= events'[k]
  /\ phase[k] = "ended" => phase'[k] = "ended"
  /\ phase[k] \in Final =>
       /\ phase'[k] \in Final /\ events'[k] = events[k]
       /\ status'[k] = status[k] /\ report'[k] = report[k] /\ error'[k] = error[k]

LEMMA JobsFreeze ==
  ASSUME JobsOK, QueueOK, [Next]_vars, NEW k \in Jobs
  PROVE  Frozen(k)
  <1> USE DEF JobsOK, fields, Final, Frozen
  <1>0. events[k] \in Nat
    BY JobServiceConstants
  <1>1. ASSUME NEW j \in Jobs, Submit(j) PROVE Frozen(k)
    BY <1>0, <1>1 DEF Submit
  <1>2. ASSUME NEW j \in Jobs, StartJob(j) PROVE Frozen(k)
    <2>1. j \in ToSet(queue)
      BY <1>2, Dequeued DEF QueueOK, StartJob
    <2>2. phase[j] = "queued"
      BY <2>1 DEF QueueOK
    <2>3. QED
      BY <1>0, <1>2, <2>2 DEF StartJob
  <1>3. ASSUME NEW j \in Jobs, OnStage(j) PROVE Frozen(k)
    BY <1>0, <1>3 DEF OnStage
  <1>4. ASSUME NEW j \in Jobs, WriteTheorem(j) \/ OpenTheorem(j) PROVE Frozen(k)
    BY <1>0, <1>4 DEF WriteTheorem, OpenTheorem
  <1>5. ASSUME NEW j \in Jobs, Return(j) \/ Raise(j) PROVE Frozen(k)
    BY <1>0, <1>5 DEF Return, Raise
  <1>6. ASSUME NEW j \in Jobs, Publish(j) PROVE Frozen(k)
    BY <1>0, <1>6 DEF Publish, MayPublish
  <1>7. ASSUME NEW j \in Jobs, Finish(j) PROVE Frozen(k)
    BY <1>0, <1>7 DEF Finish
  <1>8. ASSUME Shutdown PROVE Frozen(k)
    BY <1>0, <1>8 DEF Shutdown
  <1>9. ASSUME ClientStep PROVE Frozen(k)
    BY <1>0, <1>9, ClientsRead
  <1>10. ASSUME UNCHANGED vars PROVE Frozen(k)
    BY <1>0, <1>10 DEF vars
  <1>11. QED
    BY <1>1, <1>2, <1>3, <1>4, <1>5, <1>6, <1>7, <1>8, <1>9, <1>10
       DEF Next, WorkerStep, ClientStep

\* A stream's facts survive its own steps and everyone else's.
LEMMA StreamStepKeeps ==
  ASSUME JobsOK, QueueOK, ClientsOK, Lifecycle, StreamFacts, [Next]_vars, NEW c \in Streams
  PROVE  StreamFact(c)'
  <1>1. StreamFact(c) /\ stream[c] \in StreamRecord
    BY DEF StreamFacts, StreamFact, ClientsOK
  <1>2. CASE stream'[c] = stream[c]
    <2>1. CASE stream[c].at = "idle"
      BY <1>1, <1>2, <2>1 DEF StreamFact
    <2>2. CASE stream[c].at # "idle"
      <3>1. stream[c].job \in Jobs
        BY <2>2 DEF ClientsOK
      <3>2. Frozen(stream[c].job)
        BY <3>1, JobsFreeze
      <3>3. /\ stream[c].sent \in Nat /\ events[stream[c].job] \in Nat
            /\ events'[stream[c].job] \in Nat
        <4>1. JobsOK'
          BY JobsStep
        <4>2. QED
          BY <1>1, <3>1, <4>1, JobServiceConstants DEF JobsOK, StreamRecord
      <3>4. QED
        BY <1>1, <1>2, <2>2, <3>2, <3>3 DEF StreamFact, Frozen, Final
    <2>3. QED
      BY <2>1, <2>2
  <1>3. CASE stream'[c] # stream[c]
    <2>1. /\ UNCHANGED <<phase, fields>>
          /\ stream \in [Streams -> StreamRecord]
          /\ \/ StreamStep(c) \/ Disconnect(c)
             \/ \E j \in Jobs : Connect(c, j)
      <3>1. PICK d \in Streams :
              StreamStep(d) \/ Disconnect(d) \/ \E j \in Jobs : Connect(d, j)
        BY <1>3, JobsDoNotTouchClients DEF Next, Shutdown, PollStep, ReadStatus, ReadStages, ReadReport,
                                          ReadError, vars
      <3>2. d = c
        BY <1>3, <3>1 DEF ClientsOK, StreamStep, SendEvent, Drained, CheckFinished,
                         ReadFinalStatus, ReadFinalError, SendFinal, Disconnect, Connect
      <3>3. UNCHANGED <<phase, fields>>
        BY <3>1 DEF StreamStep, SendEvent, Drained, CheckFinished, ReadFinalStatus,
                    ReadFinalError, SendFinal, Disconnect, Connect
      <3>4. QED
        BY <3>1, <3>2, <3>3 DEF ClientsOK
    <2>2. ASSUME stream[c].at # "idle"
          PROVE  /\ stream[c].job \in Jobs /\ events[stream[c].job] \in Nat
                 /\ stream[c].sent \in Nat
      BY <1>1, <2>2, JobServiceConstants DEF ClientsOK, JobsOK, StreamRecord
    <2>3. ASSUME NEW j \in Jobs, Connect(c, j) PROVE StreamFact(c)'
      <3>1. /\ stream'[c].at = "drain" /\ stream'[c].job = j /\ stream'[c].sent = stream[c].sent
            /\ stream[c].at = "idle"
        BY <1>1, <2>1, <2>3 DEF Connect, StreamRecord
      <3>2. stream[c].sent = 0 /\ events[j] \in Nat
        BY <1>1, <3>1, JobServiceConstants DEF StreamFact, JobsOK
      <3>3. QED
        BY <2>1, <3>1, <3>2 DEF StreamFact, fields
    <2>4. CASE SendEvent(c)
      <3>1. /\ stream'[c] = [stream[c] EXCEPT !.sent = @ + 1]
            /\ stream[c].at \in {"drain", "flush"} /\ stream[c].sent < events[stream[c].job]
        BY <2>1, <2>4 DEF SendEvent
      <3>2. QED
        BY <1>1, <2>1, <2>2, <3>1 DEF StreamFact, fields, StreamRecord
    <2>5. CASE Drained(c)
      <3>1. stream'[c] = [stream[c] EXCEPT !.at = "check"] /\ stream[c].at = "drain"
        BY <2>1, <2>5 DEF Drained
      <3>2. QED
        BY <1>1, <2>1, <3>1 DEF StreamFact, fields, StreamRecord
    <2>6. CASE CheckFinished(c)
      <3>1. /\ stream'[c] = [stream[c] EXCEPT !.at =
                 IF IsFinished(stream[c].job) THEN "flush" ELSE "drain"]
            /\ stream[c].at = "check"
        BY <2>1, <2>6 DEF CheckFinished
      <3>2. IsFinished(stream[c].job) => phase[stream[c].job] = "ended"
        BY <2>2, <3>1 DEF IsFinished, Lifecycle, JobsOK
      <3>3. QED
        BY <1>1, <2>1, <3>1, <3>2 DEF StreamFact, fields, StreamRecord
    <2>7. CASE ReadFinalStatus(c) \/ ReadFinalError(c) \/ SendFinal(c)
      <3>1. CASE ReadFinalStatus(c)
        <4>1. /\ stream'[c] = [stream[c] EXCEPT !.at = "error", !.status = status[stream[c].job]]
              /\ stream[c].at = "flush" /\ stream[c].sent >= events[stream[c].job]
          BY <2>1, <3>1 DEF ReadFinalStatus, Flushed
        <4>2. stream[c].sent = events[stream[c].job] /\ phase[stream[c].job] = "ended"
          BY <1>1, <2>2, <4>1 DEF StreamFact
        <4>3. QED
          BY <1>1, <2>1, <2>2, <4>1, <4>2 DEF StreamFact, fields, StreamRecord
      <3>2. CASE ReadFinalError(c)
        <4>1. /\ stream'[c] = [stream[c] EXCEPT !.at = "report", !.error = error[stream[c].job]]
              /\ stream[c].at = "error"
          BY <2>1, <3>2 DEF ReadFinalError
        <4>2. QED
          BY <1>1, <2>1, <2>2, <4>1 DEF StreamFact, fields, StreamRecord
      <3>3. CASE SendFinal(c)
        <4>1. /\ stream'[c] = [stream[c] EXCEPT !.at = "closed", !.report = report[stream[c].job]]
              /\ stream[c].at = "report"
          BY <2>1, <3>3 DEF SendFinal
        <4>2. QED
          BY <1>1, <2>1, <2>2, <4>1 DEF StreamFact, fields, StreamRecord
      <3>4. QED
        BY <2>7, <3>1, <3>2, <3>3
    <2>8. CASE Disconnect(c)
      <3>1. stream'[c] = [stream[c] EXCEPT !.at = "gone"] /\ stream[c].at # "idle"
        BY <2>1, <2>8 DEF Disconnect
      <3>2. QED
        BY <1>1, <2>1, <3>1 DEF StreamFact, fields, StreamRecord
    <2>9. QED
      BY <2>1, <2>3, <2>4, <2>5, <2>6, <2>7, <2>8 DEF StreamStep
  <1>4. QED
    BY <1>2, <1>3

\* An answer's facts survive its own reads and everyone else's steps.
LEMMA PollStepKeeps ==
  ASSUME JobsOK, QueueOK, ClientsOK, Lifecycle, PollFacts, [Next]_vars, NEW c \in Polls
  PROVE  PollFact(c)'
  <1>1. PollFact(c) /\ poll[c] \in PollRecord
    BY DEF PollFacts, ClientsOK
  <1>2. CASE poll'[c] = poll[c]
    <2>1. CASE poll[c].at = "idle"
      BY <1>2, <2>1 DEF PollFact
    <2>2. CASE poll[c].at # "idle"
      <3>1. poll[c].job \in Jobs
        BY <2>2 DEF ClientsOK
      <3>2. Frozen(poll[c].job)
        BY <3>1, JobsFreeze
      <3>3. QED
        BY <1>1, <1>2, <2>2, <3>2 DEF PollFact, Frozen
    <2>3. QED
      BY <2>1, <2>2
  <1>3. CASE poll'[c] # poll[c]
    <2>1. /\ UNCHANGED <<phase, fields>>
          /\ poll \in [Polls -> PollRecord]
          /\ PollStep(c) \/ \E j \in Jobs : ReadStatus(c, j)
      <3>1. PICK d \in Polls : PollStep(d) \/ \E j \in Jobs : ReadStatus(d, j)
        BY <1>3, JobsDoNotTouchClients DEF Next, Shutdown, StreamStep, SendEvent, Drained,
                       CheckFinished, ReadFinalStatus, ReadFinalError, SendFinal, Disconnect, Connect, vars
      <3>2. d = c
        BY <1>3, <3>1 DEF ClientsOK, PollStep, ReadStatus, ReadStages, ReadReport, ReadError
      <3>3. UNCHANGED <<phase, fields>>
        BY <3>1 DEF PollStep, ReadStatus, ReadStages, ReadReport, ReadError
      <3>4. QED
        BY <3>1, <3>2, <3>3 DEF ClientsOK
    <2>2. ASSUME NEW j \in Jobs, ReadStatus(c, j) PROVE PollFact(c)'
      <3>1. poll'[c] = [poll[c] EXCEPT !.at = "stages", !.job = j, !.status = status[j]]
        BY <2>1, <2>2 DEF ReadStatus
      <3>2. status[j] \in {"done", "error"} => phase[j] \in Final
        BY DEF Lifecycle
      <3>3. QED
        BY <1>1, <2>1, <3>1, <3>2 DEF PollFact, fields, PollRecord
    <2>3. CASE ReadStages(c)
      <3>1. /\ poll'[c] = [poll[c] EXCEPT !.at = "report", !.stages = events[poll[c].job]]
            /\ poll[c].at = "stages"
        BY <2>1, <2>3 DEF ReadStages
      <3>2. QED
        BY <1>1, <2>1, <3>1 DEF PollFact, fields, PollRecord
    <2>4. CASE ReadReport(c)
      <3>1. /\ poll'[c] = [poll[c] EXCEPT !.at = "error", !.report = report[poll[c].job]]
            /\ poll[c].at = "report"
        BY <2>1, <2>4 DEF ReadReport
      <3>2. QED
        BY <1>1, <2>1, <3>1 DEF PollFact, fields, PollRecord
    <2>5. CASE ReadError(c)
      <3>1. /\ poll'[c] = [poll[c] EXCEPT !.at = "answered", !.error = error[poll[c].job]]
            /\ poll[c].at = "error"
        BY <2>1, <2>5 DEF ReadError
      <3>2. QED
        BY <1>1, <2>1, <3>1 DEF PollFact, fields, PollRecord
    <2>6. QED
      BY <2>1, <2>2, <2>3, <2>4, <2>5 DEF PollStep
  <1>4. QED
    BY <1>2, <1>3

-----------------------------------------------------------------------------
IInv == TypeOK /\ Lifecycle /\ StreamFacts /\ PollFacts

LEMMA Inductive == IInv /\ [Next]_vars => IInv'
  <1> SUFFICES ASSUME IInv, [Next]_vars PROVE IInv'
    OBVIOUS
  <1>1. JobsOK' /\ QueueOK' /\ ClientsOK' /\ Lifecycle'
    BY JobsStep, QueueStep, ClientsStep, LifecycleStep DEF IInv, TypeOK
  <1>2. \A c \in Streams : StreamFact(c)'
    BY StreamStepKeeps DEF IInv, TypeOK
  <1>3. \A c \in Polls : PollFact(c)'
    BY PollStepKeeps DEF IInv, TypeOK
  <1>4. QED
    BY <1>1, <1>2, <1>3 DEF IInv, TypeOK, StreamFacts, PollFacts

LEMMA Initially == Init => IInv
  <1> SUFFICES ASSUME Init PROVE IInv
    OBVIOUS
  <1>1. JobsOK
    <2>1. finished \in [Jobs -> BOOLEAN] /\ down \in BOOLEAN
      BY Zenon DEF Init
    <2>2. events \in [Jobs -> 0..MaxStages]
      BY JobServiceConstants DEF Init
    <2>3. QED
      BY <2>1, <2>2 DEF Init, JobsOK, Phases, Statuses, Reports, Errors
  <1>2. QueueOK
    <2>1. ToSet(<<>>) = {} /\ IsInjective(<<>>) /\ <<>> \in Seq(Jobs)
      BY DEF ToSet, IsInjective
    <2>2. QED
      BY <2>1 DEF Init, QueueOK
  <1>3. ClientsOK
    <2>1. Closed \in StreamRecord /\ Closed.at = "idle"
      BY JobServiceConstants DEF Closed, StreamRecord, Statuses, Reports, Errors
    <2>2. Unasked \in PollRecord /\ Unasked.at = "idle"
      BY JobServiceConstants DEF Unasked, PollRecord, Statuses, Reports, Errors
    <2>3. QED
      BY <2>1, <2>2 DEF Init, ClientsOK
  <1>4. Lifecycle
    BY DEF Init, Lifecycle, Final
  <1>5. StreamFacts /\ PollFacts
    BY DEF Init, StreamFacts, StreamFact, PollFacts, PollFact, Closed, Unasked
  <1>6. QED
    BY <1>1, <1>2, <1>3, <1>4, <1>5 DEF IInv, TypeOK

LEMMA Invariance == Spec => []IInv
  BY Initially, Inductive, PTL DEF Spec

\* The fields, the queue and the clients stay in their ranges, and the queue
\* holds exactly the queued jobs.
THEOREM TypeCorrect == Spec => []TypeOK
  BY Invariance, PTL DEF IInv

\* Lock-free answers of GET /jobs/{id} are consistent, for any number of jobs,
\* readers and workers.
THEOREM SnapshotConsistentCorrect == Spec => []SnapshotConsistent
  <1>1. IInv => SnapshotConsistent
    <2> SUFFICES ASSUME IInv, NEW c \in Polls, poll[c].at = "answered"
                 PROVE /\ poll[c].status = "done" =>
                            /\ poll[c].report = "report" /\ poll[c].error = "None"
                            /\ poll[c].stages = events[poll[c].job]
                       /\ poll[c].status = "error" =>
                            poll[c].report = "None" /\ poll[c].error = "exception"
      BY DEF SnapshotConsistent
    <2>1. PollFact(c) /\ poll[c].job \in Jobs
      BY DEF IInv, PollFacts, TypeOK, ClientsOK
    <2>2. phase[poll[c].job] \in Final =>
            <<status[poll[c].job], report[poll[c].job], error[poll[c].job]>> \in Settled
      BY <2>1 DEF IInv, Lifecycle
    <2>3. QED
      BY <2>1, <2>2 DEF PollFact, Settled
  <1>2. QED
    BY <1>1, Invariance, PTL

\* A stream's final event comes after every stage transition, with a settled
\* outcome, for any number of jobs, streams and workers.
THEOREM StreamCompleteCorrect == Spec => []StreamComplete
  <1>1. IInv => StreamComplete
    <2> SUFFICES ASSUME IInv, NEW c \in Streams, stream[c].at = "closed"
                 PROVE /\ phase[stream[c].job] = "ended"
                       /\ stream[c].sent = events[stream[c].job]
                       /\ <<stream[c].status, stream[c].report, stream[c].error>> \in Settled
      BY DEF StreamComplete, Settled
    <2>1. StreamFact(c) /\ stream[c].job \in Jobs
      BY DEF IInv, StreamFacts, TypeOK, ClientsOK
    <2>2. phase[stream[c].job] = "ended"
      BY <2>1 DEF StreamFact
    <2>3. <<status[stream[c].job], report[stream[c].job], error[stream[c].job]>> \in Settled
      BY <2>1, <2>2 DEF IInv, Lifecycle, Final
    <2>4. QED
      BY <2>1, <2>2, <2>3 DEF StreamFact
  <1>2. QED
    BY <1>1, Invariance, PTL

-----------------------------------------------------------------------------
(* The shared theorem file, with a pool of one worker.                     *)

Ownership ==
  /\ \A i, j \in Jobs : phase[i] \in Working /\ phase[j] \in Working => i = j
  /\ \A j \in Jobs : phase[j] = "written" => file = j
  /\ OpensOwnTheorem

\* No worker is idle unless no job is under way.
LEMMA IdleMeansNoneBusy ==
  ASSUME MaxWorkers = 1, IdleWorker
  PROVE  \A j \in Jobs : phase[j] \notin Working
  <1>1. IsFiniteSet(Busy) /\ Cardinality(Busy) \in Nat
    BY JobServiceConstants, FS_Subset, FS_CardinalityType DEF Busy
  <1>2. Cardinality(Busy) = 0
    BY <1>1 DEF IdleWorker
  <1>3. Busy = {}
    BY <1>1, <1>2, FS_EmptySet
  <1>4. QED
    BY <1>3 DEF Busy

LEMMA OwnershipStep ==
  ASSUME MaxWorkers = 1, JobsOK, QueueOK, Ownership, [Next]_vars
  PROVE  Ownership'
  <1> USE DEF JobsOK, Ownership, OpensOwnTheorem, Working
  <1>1. ASSUME NEW j \in Jobs, Submit(j) PROVE Ownership'
    <2>1. PICK ph \in {"refused", "queued"} : phase' = [phase EXCEPT ![j] = ph]
      BY <1>1 DEF Submit
    <2>2. UNCHANGED <<file, opened>>
      BY <1>1 DEF Submit
    <2>3. QED
      BY <2>1, <2>2
  <1>2. ASSUME NEW j \in Jobs, StartJob(j) PROVE Ownership'
    BY <1>2, IdleMeansNoneBusy DEF StartJob
  <1>3. ASSUME NEW j \in Jobs, OnStage(j) PROVE Ownership'
    BY <1>3 DEF OnStage
  <1>4. ASSUME NEW j \in Jobs, WriteTheorem(j) PROVE Ownership'
    BY <1>4 DEF WriteTheorem
  <1>5. ASSUME NEW j \in Jobs, OpenTheorem(j) PROVE Ownership'
    BY <1>5 DEF OpenTheorem
  <1>6. ASSUME NEW j \in Jobs, Return(j) \/ Raise(j) PROVE Ownership'
    BY <1>6 DEF Return, Raise
  <1>7. ASSUME NEW j \in Jobs, Publish(j) \/ Finish(j) PROVE Ownership'
    BY <1>7 DEF Publish, MayPublish, Finish
  <1>8. ASSUME Shutdown PROVE Ownership'
    BY <1>8 DEF Shutdown
  <1>9. ASSUME ClientStep PROVE Ownership'
    BY <1>9, ClientsRead
  <1>10. ASSUME UNCHANGED vars PROVE Ownership'
    BY <1>10 DEF vars
  <1>11. QED
    BY <1>1, <1>2, <1>3, <1>4, <1>5, <1>6, <1>7, <1>8, <1>9, <1>10
       DEF Next, WorkerStep, ClientStep

\* With the default pool of one worker, jobs never open each other's theorem.
THEOREM OpensOwnTheoremCorrect == MaxWorkers = 1 => (Spec => []OpensOwnTheorem)
  <1> SUFFICES ASSUME MaxWorkers = 1 PROVE Spec => []OpensOwnTheorem
    OBVIOUS
  <1>1. Init => Ownership
    BY DEF Init, Ownership, OpensOwnTheorem, Working
  <1>2. IInv /\ Ownership /\ [Next]_vars => Ownership'
    BY OwnershipStep DEF IInv, TypeOK
  <1>3. Ownership => OpensOwnTheorem
    BY DEF Ownership
  <1>4. QED
    BY <1>1, <1>2, <1>3, Invariance, PTL DEF Spec
=============================================================================
