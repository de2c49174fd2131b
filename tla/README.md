# A TLA+ model of Dakota's evaluation engine

Dakota's iterators (optimizers, samplers, UQ methods) ask models for
function evaluations; models ask interfaces; an `ApplicationInterface` runs a
user's simulation for each evaluation, many at a time, on the local processor or
on MPI servers, looks up earlier results, and logs every result for a restart.
The numerics around it are floating point and out of reach of a model checker.
The evaluation engine is control: queues, iterators into queues, buffers,
counters, caches, files. This project models that part from the models' calls down
to the results files, checks it with TLC on small instances, and proves with TLAPS that the
local and the dedicated-master schedulers, the application interface and the restart files
keep their safety properties for every size.

Line numbers below refer to `src/src/`; "AI" is `ApplicationInterface.cpp`.

## 1. Inventory

| Component | State | Operations | Correct if |
|---|---|---|---|
| Application interface (AI 397-960) | `evalIdCntr`, `beforeSynchCorePRPQueue`, `beforeSynchAlgPRPQueue`, `beforeSynchDuplicateMap`, `historyDuplicateMap`, `cachedResponseMap`, `rawResponseMap` | `map`, `duplication_detect`, `synchronize`, `synchronize_nowait`, `cache_unmatched_responses` | each id mapped is returned once, with the data asked for, at the variables asked for |
| Evaluation cache (`PRPMultiIndex.hpp`) | `data_pairs` | insert, erase, lookup by value, by nearby value, by id | a hit is a result for the point asked for; ids of this run are unique |
| Restart file (`OutputManager.cpp`) | the records on disk, the stream before them | `read_write_restart`, `append_restart`, `RestartWriter` | a crash costs nothing that a caller has used; a restart repeats nothing |
| Local schedulers (AI 1239-1387, 1456-1508, 2016-2092) | `asynchLocalActivePRPQueue`, `localServerAssigned`, iterators | `asynchronous_local_evaluations`, its `_nowait` form | the concurrency is respected and used, each job runs once, none is forgotten |
| Dedicated-master scheduler (AI 974-1041, 1389-1453, 1524-1613) | `sendBuffers`, `recvBuffers`, `recvRequests`, `msgPassRunningMap` | `master_dynamic_schedule_evaluations`, its `_nowait` form, `send_evaluation`, `receive_evaluation`, `stop_evaluation_servers` | no buffer serves two jobs, servers are not overloaded, all stop |
| Evaluation servers (AI 2160-2400) | active jobs of each server | `serve_evaluations_synch`, `serve_evaluations_asynch` | each message is run and answered once |
| Peer schedulers (AI 1061-1235, 1660-2000) | as the master, and a local share | `peer_static_*`, `peer_dynamic_schedule_evaluations(_nowait)` | as the master |
| Failure capture (AI 2683-2902) | retry counts, `data_pairs` | `manage_failure`, `continuation`, `get_source_pair` | a repair ends at the target, never between, or the run ends; failures are limited |
| Process interfaces (`Fork`, `Spawn`, `SysCallApplicInterface.cpp`) | `evalProcessIdMap`, `failCountMap`, results files | `derived_map_asynch`, `wait_/test_local_evaluations` | an evaluation completes with a complete results file, and every run gets to an end |
| Model (`DakotaModel.cpp`, `SimulationModel.hpp`, `RecastModel.cpp`) | `rawEvalIdMap`, `simIdMap`, `recastIdMap`, `asvList`, `setList`, `deltaList`, `numFDEvalsMap`, `cachedResponseMap` | `evaluate`, `evaluate_nowait`, `synchronize`, derivative estimation, rekeying | raw responses are merged into the evaluation they were made for |
| Iterator scheduler (`IteratorScheduler.hpp`) | buffers and requests of concurrent iterators | `schedule_iterators`, `serve_iterators` | as the dedicated master, one level up |

The components call each other downwards: iterator → model → interface →
scheduler → process or MPI. Results come back only when the client calls
`synchronize()` (blocking) or `synchronize_nowait()`. Dakota's own code is single
threaded; the concurrency is between its MPI processes, and between Dakota and
the simulations it starts. What is hard in it:

* completions come in any order and in groups of any size;
* iterators into queues are kept while the queues change;
* buffers are reused without waiting for the sends that used them;
* blocking and nonblocking synchronization work on the same queues;
* response objects are shared (shallow copies) between four containers;
* the process may die at any moment, and is restarted from a file.

`PROJECT.json` lists the components, also those that are left out, and the hazards
with the line at which each one bites.

## 2. Modules

| Module | Models |
|---|---|
| `EvalScheduler` | abstract contract of an evaluation scheduler: what is queued is run once, within a capacity, and completed; nothing is dropped |
| `LocalScheduler` | the local schedulers, blocking and nonblocking, dynamic and static |
| `MasterScheduler` | the dedicated master, its servers, and the messages between them |
| `PeerScheduler` | the static and dynamic peer schedulers, blocking and nonblocking |
| `IdQueue` | a queue of evaluations as the set of their ids, walked in order; used by the two above and by `ModelEvaluations` |
| `ApplicationInterface` | `map()`, duplicates, both synchronizations, cache, restarted records |
| `ModelEvaluations` | models over the interface: derivative estimation, the id maps and response caches of three levels |
| `ProcessInterface` | system call and fork evaluations, results files, failure capture |
| `RestartFile` | the restart file: stream, flush, truncation, torn records |
| `DurableEvaluations` | `ProcessInterface` and `RestartFile` joined, over several runs of the program |
| `LocalSchedulerProofs`, `MasterSchedulerProofs`, `PeerSchedulerProofs`, `ApplicationInterfaceProofs`, `DurableEvaluationsProofs`, `ModelEvaluationsProofs`, `ModelResponsesProofs` | the theorems on these modules, the last two on `ModelEvaluations` |
| `IdQueueProofs` | the lemmas on queues, walks, round robins and message sequences that the master, the peers and the models share |
| `MC...` | instances for TLC |

`LocalScheduler`, `MasterScheduler` and `PeerScheduler` implement `EvalScheduler` (property
`ImplementsContract`). `ApplicationInterface` uses that contract in place of a
scheduler: between the start and the return of a synchronization queued jobs
complete one at a time (`CompleteJob`), a blocking one returns when all are back.
So one model of the interface stands for it over the schedulers. `ModelEvaluations`
in turn uses of the interface that each raw id is returned once (`NothingLost` and
`AllReturned` there).

A module that has several settings takes a set of `Configurations` (or `Settings`)
and chooses one of them in `Init`, so that one run covers them all.

### State and actions

*Queues.* A `PRPQueue` is ordered by evaluation id and holds each id once, so
it is a set of ids, and a walk goes through it in increasing order. An iterator is
the set of ids it has passed. What a loop "launch until a count is reached" takes
is `FirstOf(S, k)`; what it takes under static scheduling, one job for each free
local server, is `OnePerServer(S, busy)`.

*LocalScheduler.* `MapAsynch` is `map()` with `asynch_flag` (it does not queue
duplicates). `SynchronizeStart` is the first pass, `WaitAndBackfill(C)` one turn of
the loop with completion set `C`, `SynchronizeReturns` its end together with the
clearing of the queue in `synchronize()`. `SynchronizeAborts` is the abort in
`assign_asynch_local_queue()`. `SynchronizeNowait(C)` is one call of the
nonblocking scheduler: augmentation, test, backfill. `SimulationEnds` is external.
Which completions a call reports is a choice, but all that had ended before it are
among them.

*MasterScheduler.* A channel from the master to a server is a FIFO of tags (MPI
does not reorder messages between two processes, and the server receives any tag).
A response is received by the request posted for its tag, so `replies` is a set.
One index stands for the send buffer, the receive buffer and the request.
`WaitSome(b)` processes one completed request; a call of `MPI_Waitsome` that returns
several is a sequence of such steps, in any order. `FillGap` is one turn of the
gap-filling loop, `TestReceivesBackfill(R)` is one whole call, with its
late update of `msgPassRunningMap`. `ServerReturn` needs a posted receive: the
blocking send of an asynchronous server, and the wait of a synchronous server for
its previous send, can rely on nothing else.

*ApplicationInterface.* Four containers hold shallow copies of one
response, so `resp[id]` is the content and the containers are sets of ids. A cache
entry owns its content (stored by a blocking `map()`, or read from the restart
file) or shares it (stored by a scheduler). A content is abstracted to where it was
simulated, which data it has, and how many times an algebraic response was added.
`Restart(n)` kills the process at any point and starts it again from the first `n`
records of the file.

*PeerScheduler.* The first peer schedules and runs jobs itself. `StaticStart`,
`StaticLocal` and `StaticWaitAll` are the blocking static schedule; `DynamicStart`,
`DynamicTurn` (one call of `test_receives_backfill()` and of `test_local_backfill()`,
which share `assign_iter`) and `DynamicReturn` the dynamic one. The nonblocking forms
are a first pass (`StaticFirstPass`, `DynamicFirstPass`) or the gap filling
(`NowaitFill`, then `FillAssign` or `FillSkip` for each job, `FillDone`), and
`NowaitReturn`. Another peer is reduced to the jobs it was sent and returns them in any
order within its concurrency.

*ModelEvaluations.* Recast models (`client`) sit on simulation models (`model`), those
on one interface (`raw`, `pending`, `cached`). The value of a raw evaluation is its
identity: the model, the evaluation and the place in the difference formula it was made
for. `ManageAsv` splits a request; `Evaluations` and `Listed` are what
`estimate_derivatives()` issues and puts on its lists; `SynchronizeDerivatives` takes them
off again and pairs each place of the formula with what it got. `Synchronized` is
`Model::synchronize()`, with the walk of `rawEvalIdMap` and `numFDEvalsMap` in step.

*ProcessInterface.* A results file is absent, partial, says "fail", or is complete; then
it is labelled by the variables it was simulated at. `derived_map_asynch()` removes the file
that an earlier run left, unless `allow_existing_results` is set. A pass (`BeginPass` to
`EndPass`) goes over the evaluations in flight: by id for system calls, in any order among
exited processes for forks. A repair (`StartRetry`, `StartContinuation` and the steps after
them) is a loop inside `manage_failure()` and blocks the pass; each turn is a `derived_map()`
(`DerivedMap`) and what follows from its outcome, so that a kill can come in between and leave
the file. A continuation starts from the last pair of `data_pairs` (`SourcePair`), copies its
variables and sets only the continuous ones (AI 2835, 2852): at its target the response is
`own` if the source agrees with the evaluation in the other variables, `continued` if not. The
distance is measured in the smallest step, `2^MaxFailures` of them. The sum that should meet the
target may miss it by rounding; the relative test of AI 2892 puts that right unless the target is
zero or tiny (`snaps`). Without continuous variables the first step that succeeds is at the
target (2887). Only the two counters end the loops at failures (`MayRepeat`).

*RestartFile.* Two files, of which a run reads one and writes the other, or the
same; the stream holds what is not flushed. `Dies` is a kill: any prefix of the stream may
be on disk, with a part of the next record. `Exits` is `abort_handler()`. The user
restarts from the file of the last run, with `-stop_restart` if its last record is torn.

*DurableEvaluations.* One study of `NumEvals` evaluations, restarted until it is done.
An abort removes results files, a kill leaves them. Simulators are taken to die with the
program.

Names follow the code. History variables (`launches`, `runs`, `delivered`,
`consumed`, `executed`, `loaded`, `flushed`, `overwritten`, `left`, `asked`) record what happened and are never read by an
action's guard.

## 3. Runs

| Run | Instance | Shows |
|---|---|---|
| `local_dynamic` | 5 evaluations, concurrency 2, both synchronizations | limit kept and used, each job once, all delivered, contract |
| `local_static` | 6 evaluations, 2 × 2 static servers, both synchronizations | one job for each local server, bits exact, no relaunch, no wait with nothing running |
| `master` | 5 evaluations, 2 servers × 2, blocking or nonblocking | buffers exclusive, running map exact, load kept, no abort, all delivered, clean stop, contract |
| `peer` | 5 evaluations; 3 peers × 1 and 2 peers × 2, static and dynamic | buffers exclusive, load kept, each job to one peer, all delivered; contract |
| `iface` | 3 evaluations; cache, restart with tolerance, algebraic mappings | no id lost, right data at the right point, nothing repeated, returned means logged, all returned |
| `model` | 3 clients on 2 models, 3 evaluations, six responses specifications | each response from its own raw evaluations, complete sets, nothing lost between levels |
| `durable` | 2 evaluations, system call and fork, 4 failure actions, old results files kept or not, sources alike or not, 2 kills or aborts | flushed records kept and not rerun, records genuine, every run settles |
| `iface_alg_cache` | core and algebraic mappings, cache | **violation**: algebraic part twice |
| `iface_unmatched` | core and algebraic mappings, returned responses | **violation**: failed lookup dereferenced |
| `peer_hybrid` | 3 static peers × 2, nonblocking | **violation**: one buffer for two jobs |
| `model_quasi` | quasi-Newton Hessians requested alone | **violation**: `synchronize()` does not return them |
| `model_fixed` | Hessians by differences, a variable with equal bounds | **violation**: steps and responses out of step |

*Bounds.* `MaxEvals` bounds `evalIdCntr` (in `ModelEvaluations` the evaluations of all
clients), `MaxRestarts` and `MaxCrashes` the runs that end early, `MaxRaw` the raw
evaluations, `MaxArrivals` what one nonblocking call collects, `Furthest` how far past a
missed target a continuation is followed. With concurrency 2, five evaluations are more than two full loads: a first
pass, a backfill of one or two, a backfill that runs out of jobs, and a job mapped between
two synchronizations all occur; six are needed with 2 × 2 static servers so that ids share
a residue. With two servers of two jobs each, or three peers, five evaluations exceed
the remote capacity, so the second pass, the gap filling and the branch without replacement
are all taken. Three evaluations suffice in the interface: an original, a duplicate of it,
and a duplicate of the duplicate or of a promoted entry. The three points on a line are the
smallest case in which nearness is not transitive. Three clients on two models are the
smallest case with a shared model and a shared interface; eight raw evaluations hold two
estimations, so that the lists carry more than one. In `durable` the limits of the code
(100 reads, 10 halvings) are constants of 2 and 3: each counter reaches its limit, and one below it,
and nothing else bounds the failures. The unusual settings (existing files allowed, no continuous
variables, a target that can be missed) come one at a time.
Two early ends allow a restart of a restarted run, where the two files change roles twice.

*Deadlock* is checked except where the system may stop: the master once its servers
have been told to, the models when the bound is reached or the run aborted, a study that is
complete. `Terminated` marks the intended ends elsewhere.

*Fairness.* A simulation that was started ends some day, and creates its results file
(Dakota has no timeout: if one does not, Dakota waits for ever). The client calls for results
again while it has evaluations outstanding, as every nonblocking driver in the repository
does. MPI makes progress: weak fairness of each server, of the master and of each peer. A
response that has arrived is seen by one of the later tests: strong fairness on testing each
request, which is MPI's progress rule for repeated `MPI_Test`; local completions likewise. Of
the interface it is assumed that a scheduler reports every job in the end, which
`AllDelivered` shows of the schedulers. In `durable` only the program and the simulators are
fair: nobody has to restart, and kills need not stop. The outcomes of simulations are not fair:
they may all fail. `Settles` leaves out the state `Missed`, from which the code may go on
stepping as long as its simulations succeed; there the model stops at `Furthest`.

## 4. What disagrees with the code's own words

* **Algebraic part added twice** (`iface_alg_cache`). A duplicate is said to be
  found among "core evals already computed" (AI 469). A scheduler stores a shallow
  copy in `data_pairs` (AI 2938, 2962), `synchronize()` then adds the algebraic
  response in place (AI 784, `+=` at `DakotaInterface.cpp:758`), and a later duplicate
  copies the sum and gets the algebraic part again. A blocking `map()` is not
  affected: it stores a deep copy before the overlay. `iface` shows that without the
  cache the property holds.
* **Lookup of an erased algebraic job** (`iface_unmatched`). Responses that a model
  cannot match are put back to be "matched above (on a subsequent pass)"
  (`DakotaModel.hpp:3945-3947`). With core and algebraic mappings that pass, if it is
  nonblocking, looks up the algebraic job of every response (AI 909-911); the one of a
  response that was put back is gone, and the result of the lookup is used untested.
* **One buffer for two jobs** (`peer_hybrid`). The gap filling of the nonblocking static
  peers looks for an index "within this server's allocation" (AI 1763-1764), but the first
  pass (AI 1700-1708) numbers indices consecutively over all peers. Jobs 1 and 2 go to
  peers 1 and 2 with indices 0 and 1, job 3 runs locally and comes back, job 4 goes to peer 1
  with index 1, which belongs to job 2. With one other peer, or concurrency 1, the two numberings
  agree (`peer`).
* **A quasi-Newton Hessian alone never comes back** (`model_quasi`). `evaluate_nowait()` keys
  an evaluation by the raw id that comes next (`DakotaModel.cpp:1342`); this one issues no
  raw evaluation, and `synchronize()`, said "to collect the complete set of results"
  (`DakotaModel.hpp:563`), does not find it and leaves its key in `rawEvalIdMap`.
* **Fixed variables put the lists out of step** (`model_fixed`). For a variable with equal
  bounds `estimate_derivatives()` skips the Hessian differences too (`continue` at
  `DakotaModel.cpp:1831`), `synchronize_derivatives()` skips only the gradient (2443), and takes
  for the Hessian what belongs to the next variable. Gradients alone are right (`model`).

Five exposures are stated as exceptions, because nothing in the repository
promises otherwise: with equal read and write names (the default) a kill between the
truncation of the restart file and the flush loses all records (`overwritten`); and what a
system call pass has read, but not processed yet, is lost when a later evaluation of the same
pass aborts the run. A continuation records, for an evaluation, a response at the discrete and
inactive variables of its source when these differ (`Continued`; the code has TO DO comments at AI
2787 and 2827). A continuation towards a zero or tiny target may miss it by rounding and has then
no end while its steps succeed (`Missed`), in spite of the comment at AI 2893. With
`allow_existing_results` a results file that a killed run left, perhaps of an intermediate point, is
taken for the new one.

## 5. Proofs

Seven modules hold theorems, an eighth (`IdQueueProofs`) lemmas they share. None fixes a size: the constants are only what the
named `ASSUME` of the model says (naturals, Booleans, at least one server and one job
for each with messages, a point near itself), so a theorem covers every number of evaluations, servers,
restarts, points and retries. Four findings are hypotheses (`NoAlgebraicCache`, `NumberingsAgree`, `EstimatesEvaluate`, `FixedSeparate`), stated where they are used. Each has one inductive invariant, which TLC was made to
check on small instances first, one lemma for each action, and theorems that follow from the
invariant. Properties that runs check are stated by name.

### `LocalSchedulerProofs` (any mix of the two synchronizations)

| Theorem | Statement |
|---|---|
| `TypeCorrect` | `Spec => []TypeOK` |
| `ConcurrencyLimit` | `Spec => []ConcurrencyRespected` |
| `StaticScheduling` | `Spec => []StaticPlacement` |
| `ExactlyOnce` | `Spec => []LaunchedOnce` |
| `Refinement` | `Spec => ImplementsContract` |
| `WorkIsConserved` | `Spec => WorkConserving` |
| `NoIdleWait` | `Spec => []NeverWaitsIdle` |
| `OneFormNeverAborts` | `Spec => []NeverAborts` |

The first four rest on one inductive invariant,
`IInv == TypeOK /\ Bookkeeping /\ ConcurrencyRespected /\ StaticPlacement /\ LaunchedOnce`.
None of its parts is inductive alone: that the limit is kept needs that no
job is active and back at once (`Bookkeeping`), otherwise the backfill, which counts
completions, could launch more than left; that a job is launched once needs that the
iterator has passed everything that is active or back; that the bits are exact needs
that no two active jobs share a server, or freeing one would free the other's. The
lemmas say what each walk takes (`FirstOfBounded`, `OnePerServerPlacement`,
`BackfillLaunches`, `AugmentLaunches`, `TestLocalBackfillLaunches`), then there is one
lemma for each action (`...IInv`).

`Refinement` maps *waiting* to the queued jobs that are neither active nor back,
*running* to the active ones, *completed* to the delivered ones and those back in the
synchronization in progress; `IInv` makes the three disjoint.

`WorkIsConserved` and `NoIdleWait` need the opposite bound, that a walk takes *enough*:
`WaitInv` says that while the blocking scheduler waits, either the limit is reached, or
every pending job asks for a busy server, or nothing is pending, and that the dynamic
iterator has skipped nothing. It is proved from the same walks (`FirstOfFull`,
`OnePerServerCovers`, `WalkSaturates`), which need that a set of ids has a least element
(`Least`, from well-founded induction on the naturals).

`OneFormNeverAborts` needs that a client that only blocks has nothing running between two
synchronizations (`NothingLeftRunning`): when the loop ends the queue is cleared, and `IInv`
keeps active jobs within the queue. No run checks it, since the runs mix both forms.

### `MasterSchedulerProofs`

| Theorem | Statement |
|---|---|
| `MasterTypes` | `Spec => []TypeOK` |
| `BuffersNeverShared` | `Spec => []BuffersExclusive` |
| `RunningMapIsExact` | `Spec => []RunningMapExact` |
| `NeverOverloaded` | `Spec => []NotOverloaded` |
| `JobsSimulatedOnce` | `Spec => []SimulatedOnce` |
| `MasterNeverAborts` | `Spec => []NeverAborts` |
| `ServersStopCleanly` | `Spec => []StoppedCleanly` |
| `MasterRefinement` | `Spec => ImplementsContract` |

`MInv == TypeOK /\ Tags /\ OnePlace /\ BuffersExclusive /\ InLane /\ Bookkeeping /\
SimulatedOnce /\ NeverAborts`. That a server is never overloaded is not a matter of counting
messages: the code bounds indices, not jobs. So the argument is that each job on a server
holds an index of the server's *lane* (`InLane`), that indices are not shared
(`BuffersExclusive`), and that a lane has `Concurrency` indices. The lane depends on the form:
the blocking scheduler deals indices in turn, the nowait form gives each server an interval of them
(`Lane`). That the nowait form never aborts follows the same way: a server with room
has a free index in its interval. `Bookkeeping` relates the running map, `rawResponseMap`
and the queue; its clause that outside the blocking scheduler what is in `raw` was delivered is
not needed by any theorem, but without it a state with an undelivered id in `raw`
would be lost by the next first pass. `DealsFacts` says what all steps of the master have in common: some
indices are received from, some are given new jobs; each action is shown to be of this shape (`Deals`).

`MasterRefinement` maps *running* to the jobs in flight, *waiting* to the queued jobs
neither in flight nor back, *completed* to the rest (`Waiting`, `Returned`, `Mapped`).

### `PeerSchedulerProofs`

| Theorem | Statement |
|---|---|
| `PeerBuffersExclusive` | `NumberingsAgree` implies `Spec => []BuffersExclusive` |
| `PeersNotOverloaded` | `NumberingsAgree` implies `Spec => []NotOverloaded` |
| `PeerJobsOnce` | `NumberingsAgree` implies `Spec => []SimulatedOnce` |
| `PeerRefinement` | `NumberingsAgree` implies `Spec => ImplementsContract` |

`NumberingsAgree` says that a static configuration sends one job at a time to a peer or has
one other peer; dynamic ones are not restricted. It is the complement of the finding
`peer_hybrid`, so the finding and the theorem together settle every configuration. All
configurations of the run `peer` satisfy it.

`PInv == Typed /\ OnePlace /\ Requests /\ (pc # "local" => Described /\ Loads) /\ Books /\
SimulatedOnce`. The first peer's scheduler numbers the receive buffers in three ways: consecutively over all
peers (the first passes of both blocking schedulers and of the static nonblocking one), stratified by peer (the dynamic
nonblocking one), and by whatever the replaced job had (the backfill), while the gap filling
searches the interval of a peer for an index that *this peer* does not use. `Loads` reconciles them: no peer
holds more indices than it may run jobs, and outside the blocking dynamic loop every index is in
its peer's interval (`Lane`), so that an index free for the peer is free for all. Where the
consecutive numbering is in the intervals (`StaticLanes`) is exactly where `NumberingsAgree` is used. That the
capacity is enough for the round robin is an injection of its jobs into the intervals
(`TurnFacts`, `OthersFacts`), and the load of a peer is bounded by its indices, not by counting
messages. `Requests` and `OnePlace` say that the jobs in flight and the posted receives correspond one to one;
`SendsFacts` and `DescribedFacts` show that for every step that receives and sends at once, and each action is shown
to be such a step. `Books` keeps what is queued, in flight, local, back and delivered apart; its
clause on `localQueue` says that the gap filling has passed what it has set aside, without which it could take a job twice.

`PeerRefinement` maps *running* to the jobs that are in flight or active on the first peer, *waiting* to the
queued ones that are neither, nor back. `Books` makes the three sets a partition (`Mapped`), and a step that keeps what
was mapped, forgets no response and leaves in hand what it does not return is a step of the contract
(`Schedules`). The capacity is not part of the mapping (0): the blocking static scheduler sends
all jobs at once, and `NotOverloaded` says for each peer where a limit holds.

### `ApplicationInterfaceProofs`

| Theorem | Statement |
|---|---|
| `InterfaceTypes` | `IfaceSpec => []IfaceTypeOK` |
| `NoEvaluationLost` | `IfaceSpec => []NothingLost` |
| `DuplicatesStayAnchored` | `IfaceSpec => []DuplicatesAnchored` |
| `NoJobRedundant` | `IfaceSpec => []NoRedundantJob` |
| `IdsUnique` | `IfaceSpec => []CurrentIdsUnique` |
| `ResponsesMatch` | `IfaceSpec => []ResponseMatches` |
| `ReturnedOnDisk` | `IfaceSpec => []ReturnedIsLogged` |
| `RestartRepeatsNothing` | `IfaceSpec => []RestartAvoidsWork` |
| `AlgebraicAddedOnce` | `NoAlgebraicCache` implies `IfaceSpec => []AlgebraicOnce` |

`AInv == IfaceTypeOK /\ Mappings /\ Queues /\ DuplicatesAnchored /\ NoRedundantJob /\
Entries /\ Responses /\ OnDisk /\ Restarted`. `Queues` is the heart of it: the ids that `map()` has
handed out are split by the containers, and what each `pc` adds to that (a completed job is in
`rawResponseMap` *and* in the queue until the call returns). `Entries` says when an id may be
in `data_pairs`, which is what makes a promoted record's new id unique. `Responses` needs, beyond what is
returned, that a completed job still queued is exact: duplicates copy from it, and if it were itself only near,
nearness would have to be transitive, which it is not. `OnDisk` covers every
container a response can come from. `Restarted` keeps what was loaded in `data_pairs` under
one id or another; that is why no queued job asks for it.

`AlgebraicAddedOnce` has a second invariant, `Overlays`. Its hypothesis `NoAlgebraicCache`,
that no configuration has core mappings, algebraic mappings and the cache together,
is the complement of the finding `iface_alg_cache`, where it fails. The other theorems
hold with and without it.

### `DurableEvaluationsProofs`

| Theorem | Statement |
|---|---|
| `GenuineRecords` | `Spec => []RecordsGenuine` |
| `RecordsSurvive` | `Spec => []KeepsRecords` |
| `RecordedOnce` | `Spec => []RecordedNotRerun` |

`DInv == Typed /\ Evaluations /\ ResultsFiles /\ Phases /\ OneRecordEach /\ Kept`. `ResultsFiles` is what
`GenuineRecords` needs: where the complete files come from (`FileOrigins`), what point a repair is at
(`RepairPoint`), and that a file of an intermediate point is there for an evaluation in flight only
while its continuation reads it (`FreshFiles`), since a launch removes what a kill left. `GenuineRecords` says "own
variables" only as far as the code does: the exceptions of `RecordsGenuine` each name the setting that
opens them, and when all evaluations agree in the other variables `Continued` is false. `Kept` follows a flushed record
through a restart: it is in the file read, then in `data_pairs`, then, once the file written has
been flushed, in that file; `Phases` ties the stream and the file being written to `data_pairs` at
each stage, and `OneRecordEach` is what lets `data_pairs`, which is found by id, stand for the set of
records. `Evaluations` says that nothing tracked is in `data_pairs`; with `Kept` that is `RecordedNotRerun`.

### `ModelEvaluationsProofs` and `ModelResponsesProofs`

| Theorem | Statement |
|---|---|
| `ResponsesNotLost` | `EstimatesEvaluate` implies `Spec => []NothingLost` |
| `SynchronizationComplete` | `EstimatesEvaluate` implies `Spec => []CompleteSet` |
| `ResponsesOwn` | `EstimatesEvaluate` and `FixedSeparate` imply `Spec => []OwnResponse` |

`EstimatesEvaluate` says that every estimation that can be asked for makes at least one raw
evaluation, `FixedSeparate` that gradients and Hessians are not both differenced while a
variable has equal bounds. Where one of them fails, `model_quasi` and `model_fixed` show the
property violated. `MCModelEvaluations` has TLC evaluate both (`HypothesesAssumption`): the
specifications of the run `model` meet them, and those of the two findings each break
exactly one.

`MapsInv == TypeInv /\ MapsOf /\ WaitsOf /\ left = {}` is about which ids are in which map.
`SimOf`: `simIdMap` holds exactly the raw evaluations of the evaluations in `numFDEvalsMap`, increasing
on both sides, and the interface still holds each. `IdsOf`: `rawEvalIdMap` pairs raw ids with those
evaluations, increasing on both sides, so that walking `rawEvalIdMap` and `numFDEvalsMap` in step, as
`Model::synchronize` does, meets equal ids (`InStepFacts`). `PlainOf`: as long as nothing is estimated a
raw id stands for its evaluation, which is why `synchronize_nowait` may rekey with partial results.
`WaitsOf`: what a client waits for is its own and is cached or outstanding. `left = {}` follows when
everything outstanding has come back.

`OwnInv` adds what the maps and lists contain. The lists that carry an
estimation to its merge (active sets, initial maps, database captures and responses, steps) hold no ids;
that they fit the evaluation being merged is a matter of order alone. `PlanOf` states it with a sequence of suffixes `Q`:
the lists from the i-th outstanding evaluation on are what this evaluation put on them (`Entry`), if it
is an estimation, joined to the lists from the next one on; the last suffix is empty. `Block` says that its raw
evaluations have consecutive raw ids in the order of the difference formulas, so that the slice
that `synchronize` cuts at its first raw id is the one of its formulas (`SliceBlock`). `MergeOne` shows that one merge takes
exactly its entry from the front of each list, in whatever order the formulas for gradients, Hessians and fixed variables follow
each other (`MergeWalkFacts`); this is where `FixedSeparate` is used. `WalkOwn` carries that through all outstanding evaluations,
and `CacheOf` says the same of what is cached for other clients.

The loops over lists are recursive functions of the number of the turn (`EvalsFrom`, `DeltasFrom`,
`MergeWalk`, `PairsWalk`), never `RECURSIVE` operators: the definition of a function gives each value
from its neighbour, and what it computes is shown by induction over that number (`UpTo`, from well-founded
induction on the naturals, with the statement as a set instead of an operator).

### Only model-checked

* Liveness (`AllDelivered`, `AllReturned`, `ServersStop`, `Settles`): fairness is outside the prover.

`UNION {...}` is written in parentheses where an operator follows: the proof system and TLC
parse `UNION A \cup B` differently.

## 6. Not modelled

* MPI itself, and the simulations: external, modelled by what the code relies on.
* The split of processors into communicators; broadcasts inside a server
  (`multiProcEvalFlag`), batch interfaces; output.
* Unlimited local concurrency is not in a run of its own; the theorems cover it. With
  message passing the concurrency is at least 1 (AI 206-213).
* Mixing blocking and nonblocking synchronization over a dedicated master or peers, and a
  blocking `evaluate()` on a model with outstanding evaluations of its own: the code takes no
  care of either, and no iterator does it. Both are listed as hazards.
* Processes that outlive the program, several analysis drivers, filters, work directories,
  `file_save`, the formats of parameters and results files.
* Continuation from a source of another interface (TO DO at AI 2793), whose variables may be of
  another number; a source so near to its target that the relative test holds at an
  intermediate point; the exchange of a failing server with the master (AI 2746-2758).
* Mixed derivative types, the numbers in difference formulas and quasi-Newton updates.
* Nested, surrogate and ensemble models; the iterator scheduler; the analysis scheduler.
* Numerics: surrogates, optimizers, sampling, variable transformations, which are most of
  the repository's lines.
* Input parsing, results databases, tabular output.

## 7. Plan

1. Done: the schedulers, the interface, models, processes and failures, the restart file,
   their composition, and the proofs on `LocalScheduler`, `MasterScheduler`, `PeerScheduler`,
   `ApplicationInterface`, `DurableEvaluations` and `ModelEvaluations`: every invariant that a
   run checks is a theorem, and the three schedulers are proved to implement the contract.
2. `IteratorScheduler`: the dynamic master and the static peers of concurrent iterators;
   the analysis schedulers.
3. The id maps of `EnsembleSurrModel` and `NestedModel` over `ModelEvaluations`.
