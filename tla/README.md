# A TLA+ verification project for RowArmor's simulators

RowArmor's repository holds a performance simulator (McSimA+: a Pin front end, a
user-level pthread library and a discrete-event timing simulator with many RowHammer
mitigation schemes in its memory controller), a Monte Carlo reliability simulator, and
the machine descriptions and scripts that drive them.  This directory models the parts of
the performance simulator whose correctness depends on the order of events, checks them
with TLC on small instances and proves the main results with TLAPS for every instance.

Paths below are relative to `src/perf_simulation/` unless they say otherwise.

## 1. Inventory

| Part | Code | State | Operations | Interacts with |
|---|---|---|---|---|
| RowHammer trackers | `McSim/PTSMemoryController.{cc,h}`: Graphene 2658-2739, Hydra 3142-3295, RRS 3298-3395, ABACuS 3398-3549, BlockHammer 2741-3140, PRAC/RAMPART inline | counter tables per bank, rank or controller | `activate` on each ACT, `flush`, `reset`, `periodic_refresh`, `refresh_cycle` | called by the controller's ACT and auto-refresh; answer sets `rh_ref`, `rh_swap`, `rh_update` of the bank |
| Memory controller | same file, `process_event` 873-2508 | bank states, request lists, refresh rotation, RAA counters, flags | schedule one command per bank, auto-refresh, RFM, page policies, PAR-BS batches | directory above, trackers inside, event queue |
| Event queue | `McSim/PTSComponent.cc` 182-306 | map time -> components, `curr_time` | `add_event`, `process_event` | every component |
| Cores | `McSim/PTSO3Core.cc`, `PTSCore.cc` | o3queue, reorder buffer, branch predictor | `process_event`, `add_req_event`, `add_rep_event`; reads `McSim::wait_all/notify_all` | L1 caches, TLBs, front end (whose thread it returns) |
| Caches, directory | `McSim/PTSCache.cc`, `PTSDirectory.cc` | tags, states, sharers, pending requests, request and reply queues | `process_event`, `add_*_event`, `add_event_to_UL/LL` | each other through the network on chip |
| Network on chip | `McSim/PTSXbar.cc`: crossbar, mesh, ring | a queue for each port and class, token, number of messages | `add_*_event`, `process_event`, `process_qs` | L2s, directories, L3 slices, controllers |
| TLB, RBoL, hash | `McSim/PTSTLB.cc`, `PTSRBoL.cc`, `PTSHash.cc` | LRU maps | `process_event` | caches, directory, controller |
| Simulator top level | `McSim/McSim.cc`, `PTS.cc` | topology, threads, totals | `resume_simulation`, `add_instruction`, `set_active` | front end (through `main.cc`), cores |
| Channel | `Pthread/PTS.cpp`, `Pthread/PTS.h`, `McSim/main.cc` 184-638 | one shared message and two flags per program, `curr_pid`, piled instructions | each call of `PthreadTimingSimulator`; the loop of `main` | Pin processes and the simulator process |
| Pthread library | `Pthread/EEPthreadSim.cpp`, `EEPthreadScheduler.cpp`, `PthreadMutex/Cond/Barrier/Join/Cancel.cpp` | threads, activity, queues of mutexes, conditions and barriers, joinable states | every pthread call | channel (`resume_simulation`, `add_instruction`, `set_active`) |
| Other pthread managers | `PthreadOnce/Key/Cleanup/Attr/Malloc/Util.cpp` | tables by thread or key | look-ups | pthread library |
| Pin tool | `Pthread/mypthreadtool.cpp`, `mypthread.cpp`, `mcsim_snappy.cpp` | counters, trace files | instrumentation | pthread library |
| Reliability simulator | `src/reliability_eval/Fault_sim.cpp` | one code word per trial | inject errors, decode, classify | none |
| Parameters and scripts | `mdfiles/`, `runfiles/`, `simulation_scripts/`, `results/` | none | batch runs | simulator's command line |

What is hard here, and the properties that answer it:

* *Trackers.*  A table that is too small for all rows must never count a row too low
  over any sequence of replacements, evictions and resets; resets are at the pace of the
  auto-refresh, not of the row's own refresh, so counts are forgotten in the middle of a
  row's window.
* *Channel.*  Two processes share a message and flags without locks, and the simulator
  moves from one program to another between a request and its reply.
* *Pthread library.*  Calls block, hand over and wake in a program that is itself
  multithreaded; queues, activity, the count of active threads and the simulator's idea
  of them must agree.
* *Event queue.*  Components are taken off the queue before or after they run, and put
  themselves back; a message whose event is lost is never served.
* *Memory controller.*  One pass must respect a dozen timing constraints per command while
  auto-refreshes and mitigations close banks under the requests that were about to use
  them; the pass only comes again if it puts itself on the queue.
* *Coherence.*  Requests, commands, answers and evictions of one line cross between three
  levels, each of which asserts the state it finds the line in; a command that meets a line
  in transition is refused or kept; whoever is refused asks again.
* *Network.*  Ports are shared, messages of several flits hold them, the arbiter goes round:
  nothing may be lost, overtaken or starved.
* *Cores.*  Entries of a ring buffer wait for one another by index; cores meet at barriers
  through counters that all of them write; a core returns to the front end in the middle of
  its turn and goes on when instructions have come.

`PROJECT.json` lists each hazard with its line.

## 2. Modules

| Module | Models | Extends / instantiates |
|---|---|---|
| `RowHammerMitigation` | what any tracker promises: no row collects more than `Limit` activations without a mitigation | abstract |
| `Graphene` | one bank's table, its sort, mitigation at multiples of the threshold, flush by the auto-refresh | implements `RowHammerMitigation` |
| `Hydra` | group counters, row counter cache and table; one object for all ranks | implements `RowHammerMitigation` |
| `ABACuS` | one rank's table shared by the banks, spillover counter, flags served at the next pass | implements `RowHammerMitigation` |
| `MemoryController` | banks, request list, Bliss, auto-refresh, service of the trackers' flags, page policies | |
| `PtsTurn` | turn taking: one program computes at a time for the simulator, each request gets its own answer | abstract |
| `PtsChannel` | the buffer, the two flags, the calls of the front end step by step and the simulator's loop | implements `PtsTurn` |
| `PthreadData` | the managers of the pthread library that keep data for each thread: keys, cleanup handlers, once controls, malloc depth | |
| `PthreadSim` | one action per pthread call, with the whole effect of the call on all managers | extends `PthreadData` |
| `GlobalEventQueue` | the queue with cores and directory-like units | |
| `O3Core` | the out-of-order cores: instruction queue, reorder buffer, barriers, the turn they give to the front end | |
| `CoherenceNet` | messages and paths that the caches and the directory share | |
| `CacheL1`, `CacheL2`, `Directory` | one unit each, one action per class of message it serves | extend `CoherenceNet` |
| `Coherence` | the cache hierarchy at work | extends the three |
| `Routing` | where a router sends a message | |
| `NoC` | ports, queues, sending and arriving | extends `Routing` |
| `Crossbar`, `Router` | a pass of the crossbar, and of the mesh and ring | extend `NoC` |
| `Network` | components that send, and passes | extends the two |
| `GrapheneProofs`, `HydraProofs`, `ABACuSProofs`, `PtsChannelProofs`, `EventsAndNetworkProofs`, `MemoryControllerProofs`, `PthreadSimProofs`, `O3CoreProofs` | proofs | extend the module and TLAPS (`EventsAndNetworkProofs` extends `GlobalEventQueue` and `Network`) |
| `MC...` | instances for TLC | |

How actions correspond to code:

* `Graphene!Activate(r)` is `Graphene::activate` as the controller calls it on an ACT:
  find the entry or take over the last one, count, move the entry up (`StopsAt` is where
  the loop of lines 2697-2711 breaks), and mitigate when the count is a multiple of the
  threshold.  `AutoRefresh` is one auto-refresh command; at the groups of
  `graphene_flush_time` it flushes.
* `Hydra!Activate(r)` counts in the group or, once it is saturated, in the row
  (`query_rcc`, then `update_rct`); `AutoRefresh` rotates over ranks and page groups and
  resets at page 0 of *each* rank, as the code does.
* `ABACuS!Activate(b, r)` is `ABACuS::activate`; results 1 and 2 set `rh_swap` or
  `rh_update`, which `ServeFlags` serves at the next pass of the controller and before an
  auto-refresh (the code's order, lines 940-1011).  A mitigation resets the history at
  the activation that asks for it: the bank can not be activated in between.
* `MemoryController!Step` is one `process_event` at one time: the service of flags
  (`AfterFlags`), then an auto-refresh, which ends the pass (`Refresh`), or the choice of a
  request (`Candidates`) and its command (`Activate`, `Precharge`, `Access`), or else the
  time-out of open banks (`TimeOut`).  `Sleep` is a time at which the controller has no event.
  The code compares times with `curr_time`; the model keeps for each of them the number of
  process intervals since (`age`), up to `Old`, from where every constraint is met. `busy` is
  history: how long the rows a bank refreshes keep it, but for what is taken away (`Forfeits`:
  the auto-refresh of a rank assigns `action_time` whatever its banks still owe, and so does
  the RFM of a bank that is being refreshed).  `mode` says which of the code's three ways
  serves a flag, and `Service` how long that takes: `rh_ref` at the next precharge, `rh_swap`
  for the rank at the next pass, `todo_RFM_flag` for the bank at the next pass.  The tracker
  answers an activation as it likes, but not more often than every `AsksAfter` activations of a
  bank.
* `PtsChannel` has one action per step of either side: `Call`, `SendBatch`,
  `AddInstruction`, `Lower` (the request flag), `Receive` (spin, then raise the reply
  flag), `Read`; `Poll`, `Serve`, `CopyOut`, `Signal`.  A spin and the store after it are
  one step, and a copy of the message is atomic: the other side is not allowed to touch
  the buffer then, except in the start-up race, which `pts_channel_race` shows with this
  coarser grain already.
* `PthreadSim` has one action per pthread call.  A call that blocks ends with the choice
  of the next thread (`PickNext`: any hardware thread the timing simulator considers
  active).  The replay of a blocked call (`executed == false`) just returns, so it is not
  a step.  `held` and `rounds` record what the program believes; `program` is the set of
  calls the program of a behaviour makes, and never changes.  The actions on keys,
  handlers, once controls and malloc change `PthreadData` only, except that ending a thread
  takes its data and handlers away, and that popping a handler to run it ends the thread
  (`CleanupRun`, see section 5).
* `O3Core!Run(c)` is one `process_event` of a core: load a line of the queue, enter
  instructions into the buffer (`Issue`), start what can start (`Execute`), let go those that
  waited (`Resolve`), and commit.  `Fetch` is a turn that ends at once with the core as the
  thread to run, `Feed` and `Unblock` are the front end's `add_instruction`, `AnswerLine`,
  `AnswerData` and `AnswerPrefetch` the answers of the caches, in any order.  `wake` holds the
  events of the core on the event queue, as intervals from now.  `id`, `needs` and `reached`
  are history.
* `Access1`, `Reply1`, `Access2`, `Reply2`, `RequestD`, `ReplyD`, `FromMemory` in `Coherence`
  take one message each, as one turn of the loop of `process_event` does, and send what the
  code sends.  A unit takes its answers before its requests; the delays are left open, so a
  message arrives at any time after it was sent that its path allows (`Arrives`).  What a path
  allows depends on the network (`noc_type`).  Messages of one class keep their order on every
  network (`KeepsOrder`).  In a queue, and through the crossbar, no class overtakes a more
  urgent one (`KeepsRank`); on the ring and the mesh between an L2 and the directory it may.
  `mishaps` is history: it holds "overtaken" once a message has overtaken an answer of the
  directory or an eviction of the same line (`Overtakes`), and "replaced" once an L2 has
  replaced a line that its L1 is being asked to give up (`GivingUp`).  A core is what it has
  under way: `load.window` accesses at most, refused ones asked again.
* `Network!PassCrossbar` and `PassRouters` are one pass (`process_event`): the routers
  serve their queues in the code's order (`Visits`), as far as the ports have room, and no
  message moves twice.  `Send` is `add_req_event` and its like, with the dummies that follow
  a message of several flits.
* `GlobalEventQueue!Process(c, t)` takes the first component of the earliest time, in
  any order within a time (the code orders by address), and runs it as a core (`AfterCore`:
  erased before) or a unit (`AfterUnit`: erased after).  `FrontEnd` is `add_instruction`
  for the core that was returned.

## 3. Runs

All bounds are constants of the modules.

| Run | Instance | What it shows |
|---|---|---|
| `graphene` | 4 rows, 3 entries, threshold 3, 8 activations per flush (what the table is sized for), 4 groups, 2 flushes | order, no duplicates, never too low; no row gets a threshold of activations unmitigated, nor more than `(flushes+1) * (threshold-1)` between its refreshes; the abstract tracker is implemented |
| `hydra` | 3 rows in 2 ranks, 2 groups, cache of 1 | hand-over between levels, cache and table; bound over the resets of all ranks |
| `abacus` | 2 banks, 4 rows, 2 entries, `prt` 4, cycle threshold 2 | per-bank bound, no duplicate, no count lost when flags are served |
| `abacus_row_zero` | 1 bank, 7 rows, 6 entries | violated: row 0 reaches N_RH |
| `pts_channel` | 2 programs past their constructors, or 1 from its start; batch 2, 4 instructions each | instructions exactly once, replies match, turn taking, calls return, the constructor's handshake |
| `pts_channel_race` | 2 programs from their start | violated: the batch assertion |
| `pthread_sim` | 3 threads under five programs: recursive mutex of depth 2 with condition, join, detach, cancel; error-checking mutex with a barrier of two rounds and yields; cancellation and its state; keys; handlers, once, malloc and kill | ownership, hand-over, barrier and join keep their promises; the ASSERTs of the scheduler fire only in a deadlocked program; `nactive`, the simulator's activity flags and the keys agree with the threads |
| `events_and_network` | either the queue is at work: 2 cores, 2 units with intervals 1, 2, 2, 3, 2 messages, 2 hops, 1 fill per core, time 16; or a network: a crossbar of 2 ports, a mesh of 2 x 2, a ring of 4 nodes, a ring of 4 with an L3 and wider ports, each with 4 or 5 flows of which 2 messages are under way | no message, turn or core is lost, and every message is answered; no flit is lost or made up, messages of a class between two nodes keep their order, the crossbar keeps that of the classes too, and every message arrives |
| `memory_controller` | 2 ranks of 2 banks refreshed in turn, an auto-refresh of 5 intervals every 8 (every 16 for a rank), 3 requests of 2 threads, 2 rows in conflict; mitigations of 8 intervals for a bank, 17 for a rank, or 1 (RFM), so that auto-refreshes cut the first two short and RFMs cut auto-refreshes short | rows are opened for requests that wait, flags are served, the scan ends; no bank opens while a refresh of its rows should still go on, but for what its rank's auto-refresh or its RFM takes away; the controller never stops serving |
| `coherence` | 3 L2s, the first with 2 L1s, L1s of one way, L2s of 1 or 2; nine loads of 3 to 5 accesses to 1 to 3 lines, one with prefetches and one with a core of two accesses at once; 8 on a ring, 1 on a crossbar | unless an answer or an eviction has been overtaken or a line that is being given up replaced: no assertion of the caches fails, a line has one writer, nothing is left pending, the levels agree when all is quiet, and accesses are answered |
| `coherence_ring` | 2 L2s on a ring, 1 line, 3 accesses | violated: the assertions of the caches fail |
| `o3_core` | 2 cores, queue of 5, buffer of 6, width 2, 6 and 4 instructions with dependences, one barrier twice, one hand-over | nothing dropped, data flow, ring indices, barriers, everything commits |

Why the bounds are enough.  The trackers need one row more than the table has entries (to
evict), and enough activations for a counter to pass its threshold twice; two ranks and two
banks are what is shared.  The channel needs two programs to switch between, and four
instructions to fill a batch of two twice over.  Three threads are a holder, a waiter and one
that interferes.  In the event queue a message makes two trips, which covers request, reply and
alignment to both intervals; `MaxTime` lies beyond what two messages of two hops and one fill
per core can reach.  The controller needs two rows in conflict, a third request beyond the
window of two, a rank that is not concerned by a refresh, and a period in which a bank is
opened, closed and opened again.  Its timing constants are small but ordered as in the machine
descriptions (`tRCD < tRAS < tRFC`), and so are the lengths of mitigations: a swap takes longer
than `refresh_interval`, the mitigation of one bank longer than an auto-refresh, an RFM less.
Coherence needs two writers, or a writer and two readers, of one line; a second line that
evicts it; an L1 that is smaller than its L2; two L1s that share an L2, once with fewer ways
than lines, where what an L1 is giving up gets replaced; a core with two accesses to one line.
All of them are on the ring, which every machine description has and which allows every order
the mesh and the crossbar do; one is on the crossbar as well, where fairness has to reach
requests behind answers.  With these bounds an answer to an invalidation never finds the
directory without an entry.  A ring of four has nodes with two shortest ways, and ports that
three flows share.  The queue and the network share no variable and no code calls both in one
step, so that the run has one of them at work in each behaviour. The cores need a queue that
fills, a buffer that wraps around while entries wait, two reads of one instruction answered in
either order, and a barrier that is come to again before all have left it.  `SYMMETRY` in the
ABACuS runs permutes banks and rows that the constants treat alike; no run with symmetry checks
liveness.

`pthread_sim` sets `CHECK_DEADLOCK FALSE`: a program can deadlock itself or end; `coherence` does,
since its loads are finite.

Fairness.  `GlobalEventQueue` assumes `WF(Next)`: `process_event` is a loop of one thread.
`PtsChannel` assumes weak fairness of the simulator's loop and of each front end *within*
a call, since both spin on their flags; a program is never forced to make a call.
`MemoryController` assumes that time passes: the auto-refresh puts the controller on the
event queue for ever, and the queue goes from one time to the next.
`O3Core` assumes that time goes on, that each core takes its turns, that the memory answers,
and that a blocked thread is unblocked; the last is an assumption on the program.
`Network` assumes that a pass that is due takes place (`WF` of `Turn`, the part of a pass that
every one has): the network puts itself on the event queue while it holds messages.
`Coherence` assumes weak fairness of whatever only waits for its own unit, and strong fairness
of requests and commands that wait behind answers at their unit: a unit that is busy with
answers is so only for a time, and the network starves no class (`Arrives`).
The trackers and `PthreadSim` need no fairness.

Three runs end in a violation: disagreements between the code and what it says of
itself.  Row 0 of ABACuS is in reach of any simulation; the race needs a second program;
the caches fail on the network that every machine description has, for two cores that share one
line.
What else the models show and no run asks:

* The caches rely on more than the network keeps.  On the ring and the mesh
  (`PTSXbar.cc:1321-1557`) a full port holds up the first message of a class, and with it those
  behind, while less urgent classes go on, so that a directory read sent after a fill may
  arrive before it.  `coherence_ring` shows where that ends: the L2 takes the command for a line
  that it does not have, the directory takes it at its word, and `PTSCache.cc:1355` asserts.
  The crossbar keeps the order (`KeepsRank`), and there such a trace does not exist.  With
  "overtaken" left out of their condition `AssertsHold`, `OneWriter`, `NothingPending` and
  `LevelsAgree` are all violated on the ring.  What they say is that nothing else goes wrong:
  every other order on the ring is harmless.
* A core with several accesses to one line under way may be refused for ever, each answer
  invalidating the line for the next (`PTSCache.cc:959-965`, 1330-1343 and
  `PTSDirectory.cc:423-428`): with such cores `Answered` does not hold, which is why it asks
  `OneAtATime`.  The core asserts after `consecutive_nack_threshold` refusals
  (`PTSO3Core.cc:850-855`).  With several accesses, prefetches or two L1s the levels need not
  agree either, for the same reason.
* With an L2 larger than its L1, a write to a line that is exclusive in the L2 and gone from
  the L1 leaves two L2s with the line for a while (`PTSCache.cc:1596-1621`).
* An L2 chooses a way to replace without a look at what it has asked its L1s for
  (`PTSCache.cc:1013-1019`): when the answer comes, the line is gone and `PTSCache.cc:1218`
  asserts, on the crossbar too.  It takes two L1s with several lines over an L2 with one way for
  them, as in the last but one load of `coherence`, which goes there; its properties hold until
  the replacement (the mishap "replaced").
* With a directory cache (`has_directory_cache`, off in every machine description)
  `PTSDirectory.cc:311` and 338 use `req_lqe` where it may be null.  A write that hits
  in the L3 does not look at the state (`PTSCache.cc:2073`).
* A request of the controller may starve: Bliss stops a thread that is served
  several times in a row, so that threads whose requests take turns in hitting an open row
  overtake a row miss for ever; and a thread that was stopped for requests to one rank is
  stopped in the others.  `KeepsServing` says what does hold.
* A mitigation is cut short by the next auto-refresh of its rank: line 1030 assigns
  `action_time = curr_time + tRFC_t - tRP` whatever the bank still owes.  With
  `rrs_delay_row_swap = 8416` (`mdfiles/benign/srs/srs.1024.py:218`) a swap is 169,910 ticks,
  of the 62,400 between two auto-refreshes; the refresh cycle of ABACuS (`tRFC_t * 8192`, line
  971) and the RFM of PRAC (44,800 ticks after a `tRFC_t` of 13,120) are cut short as well; and
  an RFM flag raised just before an auto-refresh is served after it, where `tRFM_t` of RAMPART
  (4,160) replaces the longer `tRFC_t`.  The run has such lengths.  `StallsRunOut` says that
  these are all: whatever a bank or a rank owes is waited for, but for what an auto-refresh of
  the rank or an RFM of the bank takes away (`Forfeits`).
* Whether the controller serves at all depends on the phase of long swaps.  When every
  second activation of a bank asks for a swap and the next may begin just as the controller's
  next refresh does, each row that is opened is closed before it is read: with swaps of 8
  intervals for a rank, the time between two auto-refreshes, and `AsksAfter = 2`,
  `KeepsServing` is violated.  It holds with 7, 9 and 17 (the run's, since the swaps of the
  machine descriptions are longer than `refresh_interval`), and with 8 and `AsksAfter = 3`.
  `AsksAfter` is a bound of the model; no swap threshold in the machine descriptions asks as
  often.
* `StartThreadFunc` (`Pthread/PthreadUtil.cpp:210-221`) ignores its arguments, its call of
  the function is commented out, and it ends the thread.  So a cleanup handler never
  runs, and `pthread_cleanup_pop(1)` ends the thread that calls it (`PthreadCleanup.cpp:42`),
  where the comment says "also execute the handler if execute is not 0"
  (`EEPthreadSim.cpp:186-190`).
* A key is refused when there are more *threads* than `PTHREAD_KEYS_MAX`, while the message says that
  many keys "Are Already Allocated" (`PthreadKey.cpp:69-72`).
* A pthread call inside malloc that blocks would let another thread run where
  `PthreadMalloc.cpp:45` asserts the same one; the model takes malloc to make no such call.
* In the reorder buffer a read waits for an older incomplete writer of its word even when the
  latest one is complete, where the comment speaks of the latest
  (`PTSO3Core.cc:283-287`): a matter of timing only.
* Hydra's "rank-level periodic reset" (`PTSMemoryController.cc:1052`) resets the counters
  of every rank, since all ranks share the object; `HammerBound` has the factor.
* `periodic_refresh` of ABACuS leaves the spillover counter, so that the branch that
  prints "something wrong" (line 3505) is reached soon after every refresh window; it
  forces a refresh cycle, which keeps `NeverUndercounts`.
* `docontextswitch` blocks the yielding thread and puts it in no queue: nothing wakes it.
  `BlockedIsQueued` excuses programs that yield.
* The cancellation of a blocked asynchronous thread decrements `nactive` a second time
  (`EEPthreadScheduler.cpp:263`); the runs let programs cancel only threads that can run.
* A thread created after another ended gets the hardware thread of a live one
  (`EEPthreadScheduler.cpp:223`); the runs let programs create their threads first.
* With `RAAIMT = 1` (`mdfiles/benign/rampart/rampart.64.py:213`) every activation is followed
  by an RFM that closes the bank before the row is read: no request is ever served.  The
  scripts do not run that description.
* The minimalist open policy looks for open banks only when a pass begins without requests
  (lines 1147-1159): after its last request the controller goes to sleep with the bank open,
  and the time-out has to wait for the next refresh or request.
* The machine descriptions set `tM_OPEN_TO`, the constructor reads `M_OPEN_TO` (line 111).
* `rh_ref` of a bank survives an auto-refresh; a mitigation asked for in between coincides
  with it, and both are served by one.

## 4. Proofs

* `GrapheneProofs`.  Assumes the table has an entry, the threshold is positive and
  `NoRow` is no row.  `IInv` is the type invariant, `Sorted`, `NoDuplicate`,
  `NeverUndercounts` and `SinceBound`.  `NeverUndercounts` is not inductive alone: that
  the victim has the smallest count needs `Sorted`, and that its row is not counted
  elsewhere needs `NoDuplicate`.  `SinceBound` strengthens `MitigatedInTime`: a tracked
  row has at most `count % threshold` unmitigated activations.  One lemma per fact about
  the insertion move (it permutes, keeps the order, and puts the counted entry where it
  stopped).  Theorems: `TypeCorrect`, `CountersAreSafe`, `MitigatedBeforeThreshold`,
  `Implementation` (of `RowHammerMitigation`, for provisioned behaviours) and, for these too,
  `NeighboursRefreshedInTime`.  The last needs a count over a window: `HammerInv` says that the
  activations since a row's own auto-refresh are those since the last flush and at most
  `threshold - 1` for each flush since (`FlushesSince`, a set of groups, so that its size is
  bounded by that of `FlushTime`).
* `HydraProofs`.  `IInv` relates group count, row count and history on both levels; the
  cache is not part of it, it only decides what an access costs.  `HandOverIsSafe`,
  `MitigatedWithinLimit`, `Implementation`.  `HammerInv` adds how many of the resets of a
  window came after the row's own auto-refresh, one for each rank at most; from it
  `NeighboursRefreshedInTime`.
* `ABACuSProofs`.  `IInv` is the type invariant, `NeverUndercounts`, `CycleForgets` (a refresh
  cycle that is still to be served has left nothing in the counters, which is why serving it
  twice loses nothing) and `HammerIsSplit` (the activations since a row's auto-refresh are
  those of this window and at most `prt - 1` of the window before, until its own comes).  One
  lemma for an activation that finds its row in the table, one for one that does not.
  `SharedCountersAreSafe`, `NeighboursRefreshedInTime`, `SecondCycleIsIdle`, `Implementation`.
  All of them are about the rows but row 0, for which they are false (`abacus_row_zero`).
* `PtsChannelProofs`.  From the two orderly starts of `OrderlySpec`; nothing is assumed of the
  order of steps.  `IInv` says that every program but the one with the turn is parked in a
  request of its own or gone (`OneTurn`), that a message is of the type of the call in progress
  until its reply is read (`CallsMatch`), that a program that is gone can not be picked again
  (`OutOfTheWay`), and where the instructions of a batch are counted while it is under way
  (`Accounted`).  `OneTurn` is what the start-up race breaks.  `InstructionsArriveOnce`,
  `RepliesMatch` and `Implementation`: every step of either side is a step of `PtsTurn` or
  none.
* `EventsAndNetworkProofs`, the event queue.  `IInv` is `TypeOK`, `EventsAhead`, `UnitsOrderly` and
  `NoCoreForgotten`.  `UnitsOrderly` is the strengthening: the turns of a unit lie at
  multiples of its interval, and the one turn that no message explains is the next and at
  most one interval away, so nothing drains the queue before it.  `NoMessageIsStranded`,
  `TurnsHaveWork`, `CoresAreNotForgotten`, `TimeAdvances`.  `TypeOK` is proved here as
  part of `IInv` and is not repeated as an invariant of the run.
* `MemoryControllerProofs`.  No theorem needs more than the assumptions of the module: any
  mitigation times, any mode.  For `TypeCorrect`, every age that a constraint of the code looks
  at lies within the bounds, and Bliss blacklists before its count reaches the threshold.
  `StallsRunOut` is not inductive: it says nothing of a closed bank.  `IInv` (`Accounted`) says
  that what is left of a stall is at most what `action_time` still puts off the activation
  (`StallsHold`).  Two more facts are needed where the service of a flag closes a bank that may
  be refreshing already.  Where flags are served by rank, the banks of a rank stall together
  and flagged banks are of one rank and free (`WholeRanks`): that is why the service of a flag
  never shortens the stall of a neighbour.  With RFM, a flagged bank that is not free is being
  refreshed (`FlaggedAreFree`), so that an RFM takes nothing away but the rest of an
  auto-refresh. One lemma follows the service of the flags, which comes first in every pass,
  and one the passes that close or access open banks. For `BanksAreSound`, `BankInv` is
  `TypeOK`, `BanksSound` and `OneRankFlagged`: where flags are served by rank, one rank at most
  has any.  Without it a pass that serves one rank could leave the flag of another to a
  controller that goes to sleep.  That a row was opened for a request that still waits within
  the window holds since a request only moves up in the queue.
* `PthreadSimProofs`.  Any number of threads, mutexes of any kind, condition variables and
  barriers.  Assumed of the program (`Usual`): it creates its threads before one of them
  ends, since `pthread_create` names the hardware thread by the number of threads there are
  (`EEPthreadSim.cpp:361`) and would name one twice, and it cancels, asynchronously, no
  blocked thread, since the queue it stands in would go on to name it.  `IInv` is the type
  invariant and eight parts.  `Hardware` and `Scheduled`: a thread runs on the hardware thread
  of its own number, and who runs can run.  `Keyed`: the threads that have data.  `Joining`:
  who is waited for is alive.  `Queued`: nobody stands twice in a queue, or in two, and who
  stands in one cannot run.  `Sound`: a mutex with a queue is locked, and only a recursive one
  more than once.  `Balanced` is the strengthening that `HoldersOwn` needs, for every thread
  and not only those that can run: what a thread holds by its calls is what it owns, plus the
  place in the queue of the mutex, plus the lock it gave up to wait for a condition; each call
  moves one of these into another.  `Barriers`: after `r` rounds, who waits has begun one more
  and the others are at 0 or `r`; this takes that no more threads use a barrier than it has
  participants (`Shared`), with more of them the rounds overlap and only `WaitsAreOver` assumes
  it.  One lemma for each call.  A signal or a broadcast removes waiters one after another,
  each of which locks its mutex again: `RelocksTo` says what the first `k` have led to, and
  `RelockAll` is an induction over `k`.  Theorems: `TypeCorrect`, `HoldersAlwaysOwn`,
  `BlockedAlwaysQueued`, `AbortIsDeadlock`, `WaitsAreAlwaysOver`, `ManagersAlwaysAgree`: every
  property of the run.
* `O3CoreProofs`.  Any number of cores, any programs, and any sizes and widths that the
  module's assumptions allow.  `CoresInv` says of every core that its buffer is orderly
  (`Buffer`), its queue holds what was fetched last, without a gap (`Fetched`), what it
  has asked for it still waits for (`Asked`), and the front end never has more room than
  the queue (`Paced`, with the slack of four).  `DataFlow` is far from inductive: it says
  nothing of the indices an entry waits for.  `Buffer` adds that the ring is a ring and
  entries stand in program order (`Ordered`); that an entry waits only for older ones
  (`Older`), and for none that was done and told of (`Told`); that the second access of an
  instruction waits for its first (`Chained`); and, the heart of it, that an entry not
  started waits for each entry it needs that is not done, or for one that stands for it
  (`Covered`): the last writer of a register stands for the other parts of its
  instruction, since an instruction's own accesses are done in order.  Between resolve and
  commit the buffer waits for nothing that is done.  One lemma each for dispatch, issue, a
  pass of execute, resolve and commit; `Through`, by which the module runs a loop, is
  unrolled by an induction over its steps.  Theorems: `NothingIsDropped`,
  `WaitsForOlderOnes`, `DataFlows`.  `BarriersHoldAt` assumes that the barrier
  instructions of the programs are one barrier of all cores (`MeetAt`), as in the run;
  its invariant is `Met`, that every core is in the same round or just through it.
* `EventsAndNetworkProofs`, routing.  On a ring and a mesh of any size, each hop brings a
  message nearer to its node; on the ring it takes the shorter way and never turns back.
  With `Arrives`, which TLC checks, this is why no message circulates.
* `EventsAndNetworkProofs`, the network.  Any crossbar, mesh or ring, any flows and any number
  of messages.  Assumed of a machine (`WellBuilt`): a crossbar has one node, and a component
  leaves by the port it came in by; a ring is a row and a mesh a rectangle; components are not
  attached to the ports of the links.  `NetworkInv` says that each message that counts is
  under way at just one place, and the places hold the messages of the paths and no others
  (`Whole`); that it has come some number of hops along the way of its flow, and has not left
  by a port of a component (`Underway`); that of two messages of a flow and a class the
  later has come less far, or as far and stands behind (`Ordered`); and that the routers'
  count is the number of places.  `Ordered` is the strengthening: `KeepsOrder` is about what
  a step delivers, and holds since the way depends on the flow alone (`Ways`) and no pass
  takes a message of a flow before the earlier one in the same queue.  A pass is a function from the places after it to
  those before it (`Shifts`): every place comes from one, on the same queue no further
  back, or by one hop.  For the routers this is a fact about the log of a pass (`Log`): what it
  moves of a queue is the first messages of it, in order, each once.  For the crossbar `Fair`
  says that nothing that waits before a granted message at its port, by rank and then by place,
  leaves through the same exit, which gives `KeepsRank`.  Theorems: `NoMessageIsLost`, `NoneIsOvertaken`,
  `NoneIsOvertakenByLessUrgent`.

Assumptions on constants are named `ASSUME`s of the component modules, which TLC
evaluates in the runs.  Latencies are at least 1: a unit that sends itself a message with
latency 0 would lose it (`McSim/PTSComponent.cc:253`), and the machine descriptions have none.

Model-checked only: liveness (`CallsReturn`, `KeepsServing`, `Answered`, `EverythingCommits`,
`Arrives`), that Graphene's table is large enough for its flush period (`Provisioned`, which
the run has by its numbers), and all properties of `Coherence`.

## 5. What is left out

In the modelled parts.  Channel: the page remap file (`main.cc` 461-509), the stop at the
instruction limit (431-448) and signals; one hardware thread stands for a program.  Event
queue: the fallback search of `resume_simulation` (`McSim.cc` 716-790, `PTSComponent.cc`
265-281), which `NoCoreForgotten` shows to be unreachable, and components that do not align
their events (`CacheL1`, TLB, controller).  Pthread library: register contexts, trace playback,
attribute objects, the destructors of keys, `init` and `destroy` of objects that are not in
use.  Cores: branch prediction is a choice; spinning slowdown, migration statistics and
`skip_all_instrs` are left out; a barrier takes at least one interval, as in the machine
descriptions, and two requests for one line of instructions are one.  Caches: the
L3 slices, the directory cache, statistics.  Controller: PAR-BS (the machine descriptions
use Bliss), the predicting, tournament and adaptive policies, agile rows, restores apart from
precharges (`cont_*`), full duplex, attacker threads and the fixed-latency modes; the time at
which a bank performs a mitigation it owes is not in the tracker modules.

Not modelled.

* BlockHammer: its filters hash rows with random seeds and its windows are 64-bit times;
  two of the hazards in `PROJECT.json` are its own (`PTSMemoryController.cc:2577`, and 3008
  with 1083).
* RRS, SRS, PRAC, RAMPART and PARA as trackers: Graphene's table with another reaction,
  plain counters of a row, random draws.  The controller serves their flags
  (`MemoryController`).
* TLB, row buffer locality cache and address hashing: tables whose answer is a latency, and a
  bit permutation.
* Reliability simulator: random draws and Galois-field arithmetic on code words, sequential
  and without state between trials.
* Pin tool, trace compression, machine descriptions, scripts: no state that other
  parts depend on.

What a continuation would take up: the memory controller composed with the abstract tracker (a
mitigation owed is performed before the row collects another threshold); PAR-BS; the L3
slices; an abstract coherent memory that `Coherence` refines when one access is under way; and
proofs about `Coherence`.
