# cloq-agent: a TLA+ model

cloq-agent proves cycle-count bounds of RISC-V machine code: it compiles or
disassembles a function, lifts it to Rocq, states a timing theorem with an
invariant (derived from the control-flow graph, or proposed by a language
model), lets a proof server search for a proof, and keeps what it proved in a
corpus for later retrieval.  This directory models the parts of that system that
have state and control worth checking, checks small instances with TLC, and
proves the main invariants for every value of the constants with TLAPS.

Paths are relative to the repository root; in `PROJECT.json` they carry the
prefix `src/`.  `PROJECT.json` lists the components, the runs, a mutant of the
code for every property, the source lines of every definition, the findings, the
hazards and the theorems.

## 1. The system

| component | source | state | operations |
|---|---|---|---|
| job service | `api/service.py`, `api/main.py` | `_jobs`, the thread pool's queue, the fields of each `Job` | submit, run, stage callback, snapshot, SSE stream, shutdown |
| pipeline | `src/cloq_agent/pipeline.py`, `report.py` | the report and its stage list | intake, lift, classify and gate, scaffold, preflight, prove, map the outcome |
| orchestrator | `agent/orchestrator.py` (`prove`) | attempt counter, last error, call ledger, generated file | premise gate, synthesis, lint, open, gold script, search, oracle, write-back |
| proof search | `agent/orchestrator.py` (`_discharge`), `proof/hammer.py`, `agent/tactic_repair.py` | frontier, visited hashes, failures, budgets | ladder, scripts, repair proposals, backtracking |
| petanque driver | `proof/petanque_driver.py` | the connection, one thread per tactic | start, run with a guard, goals, replay, reconnect |
| corpus | `rag/store.py`, `index.py`, `retriever.py` | `records.jsonl`, `vecs.npy`, in-memory store | load, query, add, save, reindex |
| FPGA oracle | `fpga/host/measure.py`, `fpga/firmware/*` | six shared registers | sweep, run_once; the firmware's loop |
| lifter | `lift/cfg.py`, `intake.py`, `compile.py`, `search_template.py` | none (pure functions, subprocesses) | parse, build the graph, classify, derive invariant and bound |
| synthesis and skeletons | `agent/invariant_synth.py`, `lift/cfg.py` | none | free-form completion; plan, acceptance and splice of a skeleton |
| model and configuration | `models.py`, `config.py` | none | completion, health check, profiles |
| evaluation | `eval/*.py` | score tables | harness, replay, mutation, regression gate |
| web interface, command line, Rocq proofs, packaging | `gui/`, `cli.py`, `proofs/`, `docker/` | the page's job | follow a job; print a report |

How they interact.  An upload becomes a job on a thread pool; the pool thread
runs the pipeline, which calls `prove()` once; `prove()` calls `_discharge` once
per attempt; `_discharge` calls the driver for every tactic, and the driver keeps
one connection to the proof server for all of them.  Stages flow back through the
`on_stage` callback into the job, whose fields request threads and the event loop
read without a lock.  All runs share a workspace with one generated theorem file
per target, one proof server and one corpus directory.

What makes it hard, with the property that would notice (the full list is under
`hazards`):

- fields read one by one while another thread writes them (`SnapshotConsistent`,
  `StreamComplete`);
- a shared theorem file and attempts that reuse it (`OpensOwnTheorem`, `Verified`);
- a budgeted search over an unreliable engine, with stale handles and timeouts
  (`Sound`, `RunsBounded`, `GoalsExploredOnce`, `ExhaustiveWhenBudgetLeft`);
- a request that is given up while its answer may still come, on a connection that
  the next request uses (`InSync`, `Contract`, `CallsReturn`);
- counters and feedback carried across attempts (`CallsAccounted`, `FeedbackFresh`);
- a report derived from an outcome, with a tool missing or a failure possible at
  each stage (`ReportTellsOutcome`, `CorpusMatchesReport`, `CeilingPolicy`);
- two files rewritten in place by several processes that may crash
  (`SoundUntilFault`, `CorpusGrows`, `IndexRepairs`);
- two processors with nothing between them but six registers
  (`MeasurementsRight`, `NoRunUnasked`, `TimeoutMeansNoDone`);
- invariant points, classes and closed forms read off a control-flow graph, which
  have to agree with what the processor does, and a model's text spliced into an
  invariant whose claim must stay fixed (`ArmsCut`, `ClaimsPinned`,
  `ClassTellsRepetition`, `StraightLineBound`, `CounterExact`, `SearchExact`).

## 2. The modules

```
JobService            ProofSearch            CorpusStore       Mailbox       Driver
                      (contract of Discharge) (contract of Driver in ProofSearch)
Pipeline --INSTANCE--> Orchestrator --INSTANCE ... WITH--> GenerateAndCheck

Lifter --EXTENDS--> ClosedForms, InvariantArms --EXTENDS--> FlowGraph
```

`MC<name>` modules give the constants values (JobService needs none),
`<name>Proofs` modules hold the theorems.  Operators commented "slip" are
plausible errors in the code: the mutants of `PROJECT.json` put one in the place
of the definition after it.

**ProofSearch** is `_discharge` with `try_ladder` and `run_script`.  Its
variables are the locals of that function (`frontier`, `visited`, `failures`,
`deepest`, `residual`, `repairCalls`, the run counter) and a program counter;
every engine call is one step.  Petanque is a constant set of functions from
state and tactic to state or failure; a call may also time out, or its stored
handle be rejected, up to `MaxFaults` times.  The model may propose any list of
at most `MaxProposals` tactics.  States are compared by goal hash as in the code.

**Driver** is the layer under it: the search's thread, the daemon thread that
`_run_tactic` starts for each tactic with a budget, the connection (`wire`,
`answers`) and the server.  `start`, `goals` and a tactic with a zero budget wait
on the caller's own thread; a tactic with a budget is joined for the budget and
`_TIMEOUT_GRACE_S`, and its thread abandoned when it is still alive then.  The
server may answer within its own timeout, abort, be late, or hang.  A reader that
gets the answer to another request may refuse it or take it for its own, which is
the client library's affair.  Time is counted in half seconds, since the server is
handed the budget rounded to whole ones.  A proof state is the sequence of tactics
that leads to it, so an answer says which request it belongs to.

**Orchestrator** is one `prove()` call.  `call` holds its arguments; the other
variables are its locals, the theorem file (`gen`), what the driver has open
(`opened`) and the corpus.  `Discharge` is the search in one step, with the
outcomes ProofSearch shows it to have: a proof only of a provable theorem, at
most `MaxIterations` repairs, or an exception.  An invariant is a model value,
known by which gates let it through.  `synths` and `repairs` are
history.

**GenerateAndCheck** is what the agent promises: admissible candidates are opened
one after the other, only an open candidate whose theorem holds is accepted, at
most the accepted one is kept, a verdict comes and is final.  Orchestrator
implements it under `opened <- opened`, `kept <- corpus` and `verdict` from the
control point and the result.  The render, the write and the opening of a theorem may
raise at any point; whether the record of a proof is in the corpus is what the
write-back did, and `result.stored` what it says it did, the one bounding the other
through `Kept`.

**Pipeline** is `run_prove_c` and `run_prove_machine_code` up to the report and its
headline.  `host` says which kind of upload it is and which tools the machine has;
the entry stages differ accordingly.  It instantiates Orchestrator over the same
variables: its `Prove` step is any step of `prove()`, and every outcome of it, an
exception included, is mapped onto stages.  The ceiling clamp replaces the attempts and
the engine calls of the call to come.  Closing the connection may raise after `prove()`
has returned, and loses its result (`ProverUnreachable`).

**JobService** is the `JobManager`, the two read endpoints and the shutdown.
Every access to a field of a job is a step of its own, in the stream's final event as
in a snapshot.  The pipeline is reduced
to what matters to other jobs: its stage callbacks, the write of the theorem file
and the opening of it.  Events are append-only, so their number stands for the
list.

**CorpusStore** is the pair of files and the processes that read and rewrite
them.  A record and its vector are the same value, so the files fit when they
hold the same sequence.  Opening a file for writing truncates it and lets some
prefix reach the disk, perhaps cut inside a line; closing completes it.  `Serial`
says whether the environment lets runs overlap.

**Mailbox** is the host's `sweep` and the firmware's loop, register access by
register access, at any speeds.  The history variable `early` remembers that the
host raised GO before the core had cleared the DONE of the run before, which no
code prevents; `answer` what the core has done about the GO the host is polling for, so
that a timeout can be compared with what was signalled by then, and not later.

**FlowGraph** is `build_cfg`, what is read off the graph (back edges, loops, exits,
the invariant points) and `classify`.  **ClosedForms** are the derived counts: the
straight-line sum and the range printed for it, the counter-loop invariant, the
search tested at the top and the rotated one tested at the bottom.
**InvariantArms** are the invariants as sets of arms: those the lifter derives,
the skeleton with its holes, what a model may write into it, the acceptance of
that text and the splice of its bodies.  **Lifter** lifts a listing, lets the
model complete the skeleton where the caller asks for it, and then executes the
listing, counting cycles by the table of `report.py`.  The execution is the
reference: it models the processor (external), not the code.  A listing is a
sequence of instructions of a leaf function, addresses are positions, and only
the registers the analysis asks about are told apart (`i`, `p`, `v`, `len`; `x`
is any other).  A branch on data goes either way.  A form that may not exist is a
set of at most one element.

## 3. The runs

All bounds are in the `.cfg` files and the MC modules.

| run | instance | shows |
|---|---|---|
| `proof_search` | 36 engines over 7 states, 2-rung ladder, two scripts, depth 3, 13 runs, 2 repairs, 2 faults; fair | soundness, bounded overshoot, no goal revisited, exhaustive unless out of budget, paths and residual belong together; the search returns |
| `driver` | 3 calls of any kind, paths of up to 2 tactics, budgets of 0, a half and one and a half seconds, a default of one and a grace of two; fair | a server that keeps its timeout leaves nothing on the connection, calls return what they were asked for, a tactic with a budget always comes back |
| `orchestrator` | 6 invariants, 1 or 3 attempts, every combination of gold invariant, script, oracle and premises; fair | only what passed the gates is proved, ledger and feedback are right; implements GenerateAndCheck, liveness included |
| `pipeline` | 5 invariants, 3 attempts clamped to 1, forced or not, both uploads, any tool missing, failure or exception at every stage | report, headline and corpus agree; the ceiling gate and its clamp of attempts and engine calls hold |
| `job_service` | 2 jobs of which one is watched, 1 stream, 1 poll, 1 worker, 2 stages; fair | snapshots and streams are consistent, jobs do not mix, jobs finish and streams end |
| `corpus` | 3 runs in turn over an index of 2, runs that die before they write, a reindex, 2 saves that fail or crash half-way | no damage before a fault, what was stored stays until a reindex, a reindex repairs |
| `lifter` | every function of 2 to 4 instructions (`addi`, `divu`, `lw`, `sw`, `beq`, `jal`, `ret`), some 160 loops after addloop, find_in_array and se_find_eq with varied prologue, body, step, access, way back and tail, and jumps back to a shared return; start 0..3, limit 0..2, match at 0..2; derived, completed and rejected invariants | arms cut every cycle, the model cannot reach the claim, classes tell what repeats, the forms are what the execution takes |
| `mailbox` | 3 inputs, 8-value counter, any speeds | no run unasked for, counts are the input's own while no GO was early |

Why the bounds are enough.  In ProofSearch the engines cover a prelude that
fails, a twin state with the same goals, a state without goals that is not
finished, and circles; two faults allow a stale handle and a timeout on its
replay; the run budget ends searches both at a loop head and inside a ladder.  In
Driver three calls are one that is abandoned, one that meets its late answer, and
one that meets what that call left behind; the budgets lie on both sides of the
rounding and below the server's least timeout, and zero is the unguarded one.  In
Orchestrator one invariant is turned down by each gate, so three attempts meet
every pair of successive failures.  In Pipeline the clamp differs from the full
budget.  Two jobs are all that can meet on one file; one stream and one poll do
not influence each other, and nobody reads the events of a job that is not watched.
Three runs of the corpus are a writer, a writer after it, and a reader of both.
Three inputs are needed for a stale measurement of a stale measurement; the
counter's eight values force a wrap in some runs.  Four instructions are enough for
a loop with a body, a loop entered past its header, a self-loop, a join and code
that is never reached; the longer loops have the shapes the derivations were
written for, and a limit of two has a first, a middle and a last iteration.  `fuel`
ends executions that do not return: 20 or 40 instructions, more than any loop needs
that is not endless, and two rounds of a short one.

Deadlock checking is off in every run: a returned call, an idle pool, a finished
sweep, a function that returned have no next step.

The runs that expect a violation state what a text of the repository says, and
TLC finds the code doing otherwise; `findings` quotes both sides.

| run | text | what the code does |
|---|---|---|
| `proof_search_paths` | a node keeps the path that produced its state | a stalled script is recorded whole, its failing tactic included |
| `corpus_shared` | a stored proof can be retrieved by the next run | an overlapping run's save drops it |
| `lifter_bound` | the straight-line sum bounds any single path | a taken branch costs more than the sum charges |
| `mailbox_timeout` | a timeout means DONE was not signalled | the core takes this GO, sets DONE and clears it while the host polls; the deadline comes after |

Read in the code while modelling, and visible in the guards, but without a run of
their own:

- Search and agent.  `search_max_depth` counts expansions, not tactics;
  `max_iterations` restarts with every attempt; the result of exhausted attempts has
  no residual goal (`agent/orchestrator.py:216`, against `README.md:181`).
- Driver.  The guard covers the tactic only: `_goals`, `start` and a call with a zero
  budget wait without one, so that a server that hangs stalls the search at the
  next node although `petanque_driver.py:112` says of a server that ignores its own
  timeout that the search is still not stalled by it (the reason for `stuck` in `CallsReturn`).  A
  late answer is read by the abandoned thread or by the next request, whichever is
  first; that can only happen after the server overran its own limit (the reason
  for `overran` in `InSync` and `Contract`).
- Corpus.  `cloq index` drops the solved proofs that were added (the reason for the
  last conjunct of `CorpusGrows`' premise); a save that failed half-way makes later
  runs fail to load.
- Pipeline.  A target with a derived invariant reaches the model without the
  preflight once that invariant's theorem does not open; the pipeline never hands a
  skeleton on, only the command line's `verify` and the evaluation targets do.
  Spec-lint is recorded as ok for a run no candidate of which passed it, unless the
  last error says so (`pipeline.py:223`).  A connection that fails to close turns a
  returned proof into "prover unreachable", stored or not (`pipeline.py:202`; the reason
  for the last conjunct of `CorpusMatchesReport`).  The headline calls any failure of a forced
  ceiling run expected, since the classify record is the first limitation
  (`report.py:144`; the reason for `~force` in `ReportTellsOutcome`).  `compile_c`
  reports errors "instead of raising", but a missing objdump and a subprocess that
  times out raise.
- Oracle.  A host faster than the firmware's loop sees the DONE of the run before
  (the reason for `early`).
- Closed forms.  The postcondition of a derived counter loop multiplies the body by
  the counter's entry value, right for a loop that counts down to zero by one
  (`intake.py:270`; the reason for `args.limit = 0` in `CounterExact`), and what
  follows the loop is not charged; the arms are exact for loops with one test, at the
  header, one way back and one counting instruction (`LikeAddloop`); when its header is the entry the prefix is empty
  and the printed sum starts with a `+`, and an entry that is a header or an exit
  gets two arms (`intake.py:269`).  An instruction without a timing constant is
  charged nothing (the reason for `excess`); "exact" is also printed for
  functions with forward branches (`report.py:88`).  A bottom-test form is derived
  also for rotated loops of more blocks than body and latch, and a top-test form
  without shutdown for loops whose exits differ, and neither is then what the loop
  takes; a form also takes for granted that every round loads the next element and
  counts it once, that the match is a comparison with what was loaded, that the index
  starts at zero and the bound fits in it, and that every instruction has a timing
  constant.  `TestedFirst`, `Rotated` and `Walks` in Lifter say so; they are the
  premises of `SearchExact`.
- Graph and classes.  `ALIASING` is never given, since the condition before its own
  holds whenever it does (`intake.py:382`); every `jalr` is a leader, so that exits
  are blocks of one instruction and a jump back to a shared return counts as a loop:
  the class then is of a loop though nothing repeats, which `ClassTellsRepetition`
  allows, being about what does repeat.

## 4. Fairness

- ProofSearch, Orchestrator: `WF` of the whole next-state relation.
  Each is one sequential call; the driver bounds every tactic by a timeout, so a call
  goes on.  Model requests are assumed
  to answer or to raise (the client's own timeout), and the server to answer
  `start` and `goals`, which Driver shows to be an assumption.
- Driver: `WF` of the caller's thread, of the daemon threads, of the server's answer
  and of the clock.  A server that has hung is not assumed to come back, and the
  search need not make another call.
- JobService: `WF` of starting a queued job, of a worker's steps and of the
  stream generator's steps (pool threads and the event loop).  None for
  submitting, polling, disconnecting or shutting down: clients need not act.
- Pipeline, CorpusStore, Mailbox and Lifter are checked for safety only.  A pipeline run
  is a straight line through calls that return or raise: that it ends says nothing that
  its calls do not.

## 5. What is proved

The proofs assume only the named `ASSUME` of each component, except where a
theorem names a further assumption (`Serial`, `MaxWorkers = 1`); TLC evaluates
each `ASSUME` in the runs.

**ProofSearchProofs.**  `TypeCorrect` by preservation, action by action.
`RunsBoundedCorrect`: `runs <= MaxRuns - 1 + Burst` is strengthened with what
may still be spent where control stands: a ladder or script begins below the
budget, and no more than `Burst` calls are made before the next test.
`SoundCorrect`: wherever the search is about to claim a proof, the engine
returned a finished state (or a node on the stack is one).
`GoalsExploredOnceCorrect` and `ExhaustiveCorrect` come from one invariant,
`OnceInv`: while the search goes on, `visited` is what was taken off the stack
together with what waits, on the stack or among the children of the node being
expanded, and no goal stack is in two of these places or twice in one.  Neither
property is inductive alone, since it says nothing of the children that are about to
be pushed.  The lemmas `PopGoals`, `PushGoals` and `AppendGoals` are what the three
list operations do to the goals in a list.
`PathsExplainStatesCorrect` needs to know what a path leads to in terms of a path one
tactic shorter: `Subpaths` and `Replayed` are recursive functions on the length of the
path, and the lemmas on recursion (`Recursion`, `Unique`, proved from the first-order
`Induction` on sets of numbers) unfold them for any engine.  The invariant then says at
each control point how much of the current path or script explains the state at hand.

**DriverProofs.**  `NativeTimeout(b) < Guard(b)` for every budget, from a grace of
more than a second.  `OneRequest`: as long as the server has not overrun, one request
at a time is under way, and it is in exactly one place: not yet answered (`Asked`,
where the caller has waited exactly as long as the server has been busy), answered and
not yet read (`Told`), or read by the daemon thread (`Boxed`).  So the
guard cannot fire, which gives `GuardNeverFires` and `InSyncCorrect`; `Promise` ties
the tactics that a replay has left to the state the search asked for and gives
`ContractCorrect`.  This holds for every budget, grace and number of calls.

**OrchestratorProofs.**  The inductive invariant `IInv` adds `Established` to
`TypeOK` and `Verified`: which gates the candidate has passed by each control
point, and that file, session and candidate are one from `OpenTheorem` on.
Without it `Verified` is not inductive, since nothing relates `inv`, `gen` and
`opened` when the proof is reported.  `Quota` gives each control point the share
of the call budget that can be spent there and `Ledger` balances it; together they
yield `CallsAccountedCorrect`.  `FeedbackFreshCorrect`: every way back to the
top of the loop goes through `NextAttempt` and records the attempt.
`ImplementsSafety` maps each action to a step of GenerateAndCheck or a stutter.

**JobServiceProofs.**  `Lifecycle` ties the fields of a job to how far its run
got; `StreamFacts` and `PollFacts` say what a reader has established of a job at
each point, and settled jobs no longer change.  This gives
`SnapshotConsistentCorrect` and `StreamCompleteCorrect` for any number of jobs
and clients.  `OpensOwnTheoremCorrect` needs `MaxWorkers = 1`, the code's default;
it is false for two.

**PipelineProofs.**  `CeilingPolicyCorrect` and `CorpusMatchesReportCorrect`
instantiate OrchestratorProofs: a pipeline step either is a step of `prove()`, leaves
its variables alone, or clamps a call that has not begun (`Untouched`), and in all
three cases `IInv` and `Quota` survive; `Clamping` says that a call that has begun for a
ceiling class is clamped in both limits, and `Kept` that only a proof writes to the
corpus and that the flag is right when it says so.  `TypeCorrect` adds the pipeline's own variables.
`ReportTellsOutcomeCorrect`: `Recorded` says which records the list holds at each
control point, stage by stage, and `Equipped` which tools a run that got there has;
the report is a concatenation of parts whose lengths are known, so that the first
record that is not ok is found by counting.

**CorpusStoreProofs.**  With runs in turn whoever takes a step is the only one
under way (`Alone`, `OthersRest`).  As long as nobody writes, the files are equal, and
so are the texts and vectors in the store of whoever is under way; the records are closed before the vectors are opened (`RecordsClosed`), so that a
process that is at the vectors has left whole records.  `Fits` states the first;
`Kept`, that every record reported stored is in the rows, and in the store of
whoever is under way, until the index is rebuilt.  They give `SoundCorrect` and
`GrowsCorrect`.  `RepairCorrect` needs only that an indexer holds nothing but the
index and is alone: nothing of the state of the files before.

**LifterProofs.**  `ArmsCutCorrect`, for every set of listings: between two arms
execution only goes forward (`Forward`), because a jump backwards leads to a loop
header (`BackwardJump`, from the blocks of the graph) and every invariant, derived or
completed, has an arm at every header (`HeadersHeld`).  So an address cannot be met twice
without an arm in between.  `ClaimsPinnedCorrect`: the lemmas `FillArms` and
`SplicePins` say what the arms of an accepted and spliced text are, whatever the
text.

`ClassTellsRepetitionCorrect`: an address that is executed again was left and come back
to along edges of the graph, and the invariant `Repeats` says that on the way there is
a header that leads to it and that it leads to; `LoopHolds` puts it in that header's
natural loop, the least closed sets on both sides of it, and `AccessInLoop` gives the
class of a loop that holds a load or store.

`StraightLineBoundCorrect`: a sum is a recursive function over its terms (`Total`), and
`TotalPlus`, `TotalLess` and `TotalOne` say what sums of terms, of smaller terms and of
a single term are.  `Paid`, inductive where there is no loop header: what was charged is
the cost of the set of addresses executed, to which `Forward` lets each address be
added once.  `RangeAdds` splits the same sum into the report's numbers.

`CounterExactCorrect`, for every loop `LikeAddloop` describes: any prologue, any body,
any start and limit.  `LoopingLoop` computes the natural loop from the graph, what lies
from the test to the way back; `DerivedForm` reads the form off it; and `Counted` says
where execution is: before the loop, in its iteration m having charged m bodies and what
precedes `pc` in this one while the register has counted m or m + 1 times, or behind it.

`SearchExactCorrect`, for every search `TestedFirst` or `Rotated` describes: any prologue,
any body, any tail, a pointer that moves along or an address made of the index, any
limit below the word and the key anywhere or nowhere.  The loop has three blocks in one
layout and is entered past its header in the other, so the natural loop, its exits
and what leads to them are computed from the leaders first (`FirstLoop`, `FirstExits`,
`RotatedLoop`, `RotatedExits`); `FirstFormIs` and `RotatedFormIs` then show that the lifter
finds one form there, with its parts sums over runs of addresses.  `SearchExact` itself
says something of returned functions only; the invariant, `Searching`, says it on the
way: `FirstTracked` and `RotatedTracked` are one disjunct per phase (before the loop, in
round n, for the rotated one in the latch of round n, and leaving by the bound, by the
match, or by the guard), each with what was charged so far.  `Held` adds what the
registers hold in round n, given which addresses of the round are executed: without it
nothing would say that the test of the element succeeds in the very round the form
counts to.  `Leaving` follows the straight line behind the loop up to the first return.
The premises are stronger than the number of the branches: TLC agrees with the weaker form
on the loops it is given, but it is false of a match on other data, of a pointer that
moves twice in a round, and of an index that does not start at zero.

**MailboxProofs.**  `MeasurementsRightCorrect`: as long as no GO was early,
`Handshake` enumerates how far the core has got with the run the host waits for,
and the lemma `Difference` is the wrapping subtraction for any width.
`NoRunUnaskedCorrect`: `Owed` counts a GO that is up, and a run let through,
against the pulses.  Neither assumes anything of the speeds.

Every invariant and every action property of the passing runs has its theorem.
Only model-checked: every liveness property (`Terminates`, `CallsReturn`,
`EveryoneServed`) and the fair half of `Implements`, since the prover has no fairness
or ENABLED.  The induction theorems
of the library take an operator as a parameter, which no installed prover can
instantiate; the inductions here are over sets of numbers, and what a recursive function
computes is proved from its first-order unfolding.

## 6. What is not modelled

- The parse of the disassembly, the compiler's own work, which register holds which
  parameter (`_reaching_param`), helper constants in registers (`sub`/`add` as a
  step) and shifts, calls, which `build_cfg` takes for a return when they are
  `jalr`, and the printed scaffold and proof scripts.
- A free-form definition of the invariant stays arbitrary in Orchestrator: no
  code reads it but the lint and Rocq.
- Ranking of retrieved records, embeddings, the t-test of `dudect.py`: real
  numbers, no state.
- Rendering of theorems and reports (`theorem_builder.py`, most of `report.py`), the
  precedence of configuration sources, command line, evaluation harness, packaging:
  text and sequential drivers over the modelled parts.
- The page: it follows the stream that JobService models, replays it from the start on
  every connection and keeps the last status per stage name
  (`StageProgress.tsx:37`); nothing is decided there.
- Two processes over one workspace, other than over the corpus (`cli.py:134`), and
  the growth of `_jobs` (`service.py:64`), which the code does not bound and of
  which there is nothing to check.
- CorpusStore leaves out a mixture of two writers' bytes in one file: the later
  close decides.  The run that passes excludes overlapping writers.
- Driver leaves out the bytes of a message: a request and an answer are whole.
- Mailbox knows the retired-instruction count and the result by the input of
  their run, and takes what the bracket of counter reads adds to be part of
  `Cycles`.

## 7. Plan

Done, in this order: ProofSearch, Orchestrator with GenerateAndCheck, JobService,
Pipeline, Mailbox, CorpusStore, Lifter; then Driver, the skeletons and the ranges in
Lifter, the tools and the headline in Pipeline, and the proofs of CorpusStore, Driver,
Lifter and of the search's `visited` set, of its paths, of the report's outcome, and of
the class, the straight-line bound, the counter loop's form and the forms of the searches
in Lifter.

What would come next, in order of what a mistake would cost:

1. **Driver under ProofSearch**: a refinement of the contract that ProofSearch uses,
   in place of the same contract stated twice.
2. **Lifter**: `_reaching_param` and steps held in helper registers.
3. **Pipeline in JobService**: composition, so that a job's stages are the
   pipeline's, and the **page** over the stream, with reconnects.
