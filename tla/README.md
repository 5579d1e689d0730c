# A TLA+ model of PNMLibrary

PNMLibrary runs two kinds of operations near memory: SLS (sparse lengths sum
over embedding tables, on AxDIMM ranks or CXL channels) and IMDB (column scans).
A kernel driver hands out compute units and device memory; the library
generates instruction traces, writes them to a compute unit, starts it through
registers, polls for its end and reads the sums back. Where there is no
hardware, a functional simulator inside the library plays the compute unit with
a thread per unit.

All paths below are relative to `src/PNMLibrary/`.

## The parts of the system

| Part | Source | Concurrency and state | Here |
|---|---|---|---|
| Thread pool | `common/threads/` | mutex, condition variable, N consumers, destructor | `ActionQueue`, `TaskPool` |
| AxDIMM runner and compute unit | `core/operation_runner/reduction/axdimm_runner.h`, `sls/compute_unit/` | host threads, registers | `AxdimmSls`, `ReductionService` |
| AxDIMM simulator | `core/device/sls/simulator*`, `core/device/simulator/`, `core/device/sls/utils/nbuffer_memory.cpp` | a worker per unit and process, double buffers, dirty ranges | `AxdimmSls` |
| CXL runner, compute unit, simulator | `cxl_runner.h`, `cxl_compute_unit.h`, `cxl_core_sim.cpp` | the same handshake, one buffer | `CxlSls`, `ReductionService` |
| Reduction over packs, dispatcher | `core/operation_runner/reduction/core.h`, `include/pnmlib/core/dispatcher.h` | callers, tasks in the pool, futures, units | `ReductionRunner` |
| SLS operation, execution and trace generation | `sls/operation/` | algorithms; packs' threads share the result buffer | `ExecutionGenerator`, `SlsOperation` |
| Instruction codec, interleaving, tables, accessors, transfers | `core/device/sls/utils/`, `core/device/sls/memblockhandler/`, `core/memory/`, `sls/operation/api/embedding_tables.cpp` | address arithmetic over a shared memory | `SlsAddress`, `SlsMemory` |
| Allocators, buffers, sharing | `core/memory/ranked_allocator.cpp`, `include/pnmlib/core/buffer.h` | processes, forks and deaths, driver state | `DeviceMemory` |
| IMDB device and scan | `core/device/imdb/`, `imdb/operation/` | status registers, worker threads | `ImdbScan`, `ScanService` |
| Bit containers, software scan | `include/pnmlib/imdb/`, `imdb/software_scan/` | algorithms | `ImdbBits`, `SoftwareScan` |
| Secure SLS | `secure/` | algebra over machine integers; tasks beside the device | `SecureSls` |
| Test data | `tools/datagen/`, `tools/create_*.cpp` | generators; files that several processes write | `ImdbDataGen`, `SlsDataGen`, `TestDataFiles` |
| `pnm_ctl`, sysfs controls | `tools/pnm_ctl/`, `core/device/*/control.cpp` | a tool beside clients, driver state | `PnmControl` |
| Kernel drivers | `src/patches/linux/` | ioctls, wait queues, process tracking | `CunitScheduler`, parts of `PnmControl` and `DeviceMemory` |

`PROJECT.json` has the same list under `components` with the reason for
everything that is left out, and under `hazards` what can go wrong in this code
that a test would hardly reach, each at its line.

## Modules

### `ActionQueue` and `TaskPool`: the thread pool

`ActionQueue` has the queue, its flag, the mutex, the set of sleeping consumers,
a program counter per consumer, the futures and the owner's lifetime as
variables. `push` and the locked block of `close` are one step each, because no
other thread can see them half done. `pop` is four steps (lock, check of the
predicate, wait, take), because the order of check and wait is what the comment
in `close` is about. The condition variable may wake up spuriously.
`TaskPool` says what the callers are promised: first in, first out, each action
once, at most one per consumer at a time, each ends with a value or an
exception, and the pool is gone only when it is empty.

### `AxdimmSls` and `ReductionService`: one reduction on AxDIMM ranks

A host is a thread inside `AxdimmReductionRunner::run_on_pack`. Its program
counter follows the code from the acquisition of a unit to its release:

| Action | Code |
|---|---|
| `StartOp`, `Acquire` | the compute unit's constructor: `GET_CUNIT` until it succeeds |
| `ResetPoll`, `ResetExec`, `EnableThread` | `SimulatorComputeDevice::acquire_cunit_from_range`, three separate stores |
| `ClearBuffers` | `enable()`: the control switch clears all dirty buffers |
| `Generate`, `Throw`, `Wait`, `WriteInst` | `generate_instructions` (which may throw), `wait_and_start` |
| `ShiftBuffers`, `ArmPoll`, `StartExec` | `write_exec_sls_register(ENABLE)`: shift, reset the poll register, store |
| `CopyOut`, `CleanRead` | `read_output_buffers` of the previous execution, PSUM and then TAGS |
| `WaitDummy`, `StopThread`, `JoinThread`, `Release` | the end of `run_on_pack` and the destructor |
| `WorkerBegin` .. `WorkerComplete` | `BaseSlsSimulator::worker_job` and `exec_trace` |
| `Crash` | a process dies; the driver releases its units; it is started again |

Registers, the instruction buffer and the output buffers belong to the unit and
are shared by all processes. The simulator object, with its buffer indices,
dirty ranges and thread controls, exists once per process.

Abstractions. A row of output memory is the sequence of the traces that added to
it since it was zeroed; a result is right when each of its rows is exactly the
host's own trace. Table data and float arithmetic are left out. An execution is
the number of its output rows; how batches are split into executions is an
input. All output rows have the size of one PSUM row, and `Align` rows make up
one interleaving block. The driver's timeout shows only as the constructor
calling again.

`ReductionService` is the abstract specification of the same: a host submits an
operation, is granted an idle unit of its pack, is delivered the outputs of its
executions in order, and gives the unit back. `AxdimmSls` instantiates it with
the driver's owners as holders and phases computed from the program counters.

### `CxlSls`: one reduction on CXL channels

The same handshake without double buffering: the host zeroes the part of the
PSUM buffer it is going to read (`ResetOutput`), starts the execution, waits and
reads. The control switch is written and polled when a unit is taken
(`SwitchOn`, `PollSwitched`) and given back (`SwitchOff`, `PollEnable`);
`written_control` is what the simulated hardware leaves in its register. It
implements the same `ReductionService`, with untagged operations only. Since the
host writes everything it relies on, sums are right even after another process
died in the middle of an execution, which is not so on AxDIMM.

### `ExecutionGenerator` and `SlsOperation`: from a request to sums

`ExecutionGenerator` is `ExecutionGenerator::generate` as a state machine: one
step adds one batch to the current execution, or commits it and starts another
(`AddBatch`), and one ends a pack (`EndPack`). Inputs are the lengths of all
batches and the layout of the tables. `SlsOperation` computes from the generated
executions what the code computes: the offsets of each execution's indices and
lengths (`indices_offset`, `index_exec`, ...), the trace with one instruction
per column of a looked-up row (`object_trace`, `trace`), the sums the device
makes of it (`output`), and the places in the caller's buffer they are written
to (`written`). `RunExec` runs the executions of different packs in any order.
An entry of a table is its table and row, a sum is the sequence of the entries
added. The bits of an instruction are in `SlsAddress` and `SlsMemory`.

### `ImdbScan` and `ScanService`: column scans

A host is a thread in the IMDB `Runner::run_impl`.

| Action | Code |
|---|---|
| `Construct` | a process constructs its `SimulatorCore`, which writes the shared status register |
| `StartOp`, `LockThread`, `EnableThread` | `lock_thread`: the driver's ioctl, then the simulator's thread |
| `WriteColumn` .. `WriteResult`, `Throw` | `ScanOperation::write_registers`, which may throw |
| `SetBusy`, `SetStart`, `Spin` | `run_and_wait` |
| `ReadRegisters` | `ScanOperation::read_registers` |
| `StopThread`, `JoinThread`, `ReleaseThread` | `release_thread` |
| `WorkerBegin` .. `WorkerComplete` | `SimulatorCore::worker_job` |
| `Crash` | a process dies; the driver releases its engine threads |

What a scan finds is abstracted to the registers it was started with (its
`Outcome`) and a size that depends on the output type. `ScanService` is what the
caller is promised: an engine thread for itself alone, the outcome and the size
of its own scan, and the thread back unless an exception came in between.

### `ReductionRunner`: operations over packs

Threads of a process share a context. A call goes through the checks of
`SlsOperation` and `set_run_params`, the dispatcher (`invoke`) and
`run_operation`: `Submit` is one turn of its loop over the packs, which keeps the
first pack with executions for the caller and pushes the others to the pool,
`Submitted` leaves the loop, `Join` asks for one future. `Acquire`, `Execute`,
`ExecuteThrows` and `Release` are `run_on_pack`, in a caller or in a worker
(`Take`). One execution is one step here; its parts are in `AxdimmSls` and
`CxlSls`. `Spin` is the caller that asks for a unit of pack 0.

### `DeviceMemory`: buffers and allocations

A process constructs, shares, gets, moves and destroys `Buffer` objects; each
operation on a region of several ranks is one ioctl per rank (`AllocateStep`,
`ShareStep`, `GetStep`, `DeallocateStep`) with other processes in between, and an
allocation that fails gives back what it has (`Rollback`). The driver has pools,
allocation descriptors per open file and reference counts of shared entries. A
process may fork, and may die at any step. `tainted` marks behaviours in which
the program did what the code has no answer to, and the properties exclude them:
releasing or sharing through a view or through a buffer inherited by `fork`, a
sharing call that fails half way, the death of the process that shared a region,
and the read of a freed entry's counter.

### `SlsAddress` and `SlsMemory`: from tables to sums, by address

`SlsAddress` has the interleaving of two ranks and the encoding of instructions
with the field widths of the hardware; a word is the set of its bits.
`SlsMemory` lays out tables for each preference and bus (`init_buffers`), copies
them to device memory (`transfer_data`), overwrites rows through accessors
(`store`), writes traces to the instruction block (`WriteTrace`), lets the
simulated unit decode and run them (`RunTrace`) and copies tables back
(`ReadBack`). Addresses count granules of 64 bytes.

### `ImdbBits` and `SoftwareScan`: columns and scans on the host

`ImdbBits` has compressed columns and bit vectors over 32-bit cells as the code
shifts and masks them. `SoftwareScan` runs the AVX2 scan, which is also what the
simulated IMDB device executes, eight values at a time (`ScanBlock`), with the
shuffle masks, crops, shifts, comparisons on signed lanes and compressing stores
that the code builds; the scalar scan is the reference.

### `SecureSls`: sums over encrypted tables

Loading encrypts rows batch by batch and gives them tags (`LoadBatch`); a run
submits one task per table that sums the pads (`Submit`, `TakeTask`, `SumPads`,
`EndTask`) while the device sums encrypted rows (`RunDevice`, or `DeviceThrows`),
waits (`Wait`), checks and combines (`Decrypt`). Entries and tags are numbers
modulo a small power of two; the pads, AES in the code, are arbitrary functions
of the address. `EndTask` steps over rows as `variable_row_view`'s iterators do.

### `ImdbDataGen`, `SlsDataGen`, `TestDataFiles`: test data

The first two are the generators: the argument strings and what the factories
read back from them, columns, ranges, predicate vectors, tables, lengths,
indices and golden sums; a random draw is a choice. `TestDataFiles` is what
processes do with a directory: each file is absent, half written or full, data
carry the number of the generation they were made in, and a process may die
between two writes.

### `PnmControl`: pnm_ctl, the controls and the drivers behind them

Clients acquire units and end, with or without giving them back; one `pnm_ctl`
runs at a time, any of its system calls may fail and it may be killed between
two of them. Subcommands are actions, split where another process can see a part
of them. The driver's side (the list of leaked processes, cleanup, reset) follows
the patches.

### `CunitScheduler`: waiting for a compute unit in the kernel

`pnm_sched.c`, which both drivers use. Search and release of a unit are one step
each, under the mutex; the flag and the wait queue are outside of it, so clearing
the flag, checking it and sleeping are separate steps, and so are setting it and
waking. `has_timeout` says which driver it is: SLS gives up after 100 us and the
library asks again, IMDB waits without a timeout. `freed` records how each unit
became free. A dead process's unit is freed without a wake-up.

### Proof modules

`AxdimmSlsProofs`, `AxdimmSlsResults`, `CxlSlsProofs`, `ImdbScanProofs` and
`ReductionRunnerProofs` hold the invariants, lemmas and theorems about the modules
they are named after, `DeviceMemorySteps` and `DeviceMemoryProofs` those about
`DeviceMemory`, `WaitQueueProofs` those about `ActionQueue` and `CunitScheduler`;
see below. The `MC*` modules hold the constants of the runs.
`MCWaitQueues`, `MCRunners`, `MCLibrary` and `MCTools` run several components in
one state space: a behaviour is one of several programs, chosen in its initial
state, and the others take no step or their variables are unused.

## Runs

| Run | Instance | Checks |
|---|---|---|
| `wait_queues` | thread pool: 2 consumers, 3 actions; scheduler: 3 processes, 2 units, the third process needs unit 1, 1 death, with and without timeout | no lost wakeup in the pool, implements `TaskPool` (order, draining and the end of every action included); a free unit is taken where waits have a timeout, a sleeping process beside a free unit is explained |
| `axdimm_results` | 3 hosts in 2 processes, 1 unit, shapes 2, 1-3, 3-1-3, tagged and not | no race on buffers, sums, implements `ReductionService` |
| `axdimm_crash` | 3 hosts in 2 processes, 1 unit, 1 exception, 1 crash | workers only on held units, no left-over trace is run, every unit comes back |
| `axdimm_clear` | 2 hosts in 1 process | violated, see Findings |
| `cxl` | 2 processes, 2 channels, overlapping packs, 1 exception, 1 crash | sums, every channel comes back, implements `ReductionService` |
| `imdb_scan` | 2 processes, 1 engine thread, 2 and 1 scans, 1 exception, 1 crash | no register changed during a scan, results, every operation ends, implements `ScanService` |
| `imdb_stale_start` | 2 processes, 1 crash | violated, see Findings |
| `exec_gen_empty` | batches without lookups | violated, see Findings |
| `runners` | 2 callers, 2 workers, 2 units, up to 3 packs, 1 exception; secure: 2 tables of 3 and 1 rows, 2 batches, 2 runs, tagged or not, in the pool or not | a run is complete, tasks outlive it only after an exception, who finds no unit to try, calls end; secure sums and checks, no task behind a run |
| `secure_stale_rows` | the secure program of `runners` | violated, see Findings |
| `library` | 3 tables of 3 batches in 3 layouts; 3 processes (one forked), 2 ranks of 1 block, 1 death; tables at starts up to 2^28; columns of 8 and 11 values of 1 to 18 bits | executions fit, sums have their lookups, traces are as long as counted, no result is overwritten; no dangling, doubly owned or leaked memory; traces find the rows, tables are read back, accesses are mapped; scans agree |
| `tools` | data generators; 3 runs and 2 deaths over a directory; 3 clients, 2 units, 2 runs of `pnm_ctl` | range precision, golden sums, files that belong together, failures only after a death, owners of busy units, shared memory as reported |

The type invariants of `AxdimmSls`, `CxlSls`, `ImdbScan`, `ActionQueue`,
`ReductionRunner`, `CunitScheduler` and `DeviceMemory` are proved (below). Those
of the other modules document the state and are in no run.

Bounds. Two hosts, one or two units and one to three executions per operation
reach every way the two buffers can be reused: the third execution is the first
that adds to a buffer that was read and cleared before. With three hosts of
which two share a process, a simulator object is used again by its own process
and a unit is used by another process in between. Six rows in blocks of
two, with odd and even numbers of output rows, reach ranges that end inside a
block. One crash or one exception can hit every step; a second one would find
the state that the first one left, which the other hosts' operations already
explore. Two consumers and three actions let one consumer work while the other
sleeps and an action waits. For executions, capacities of a few instructions and
rows with batches of one and of several lookups reach cuts inside a table,
between tables and at the end of a pack, and an execution that is exactly full.
Two AxDIMM units and two IMDB engine threads share nothing but the driver's
table; the CXL run has two units, and the AxDIMM proofs have any number of them.
In `runners` a call has packs for one, the other and both units, so callers and
workers compete for units and a caller waits for tasks that wait for it; two
secure runs let the second meet what the first left. In `library` one block per
rank makes every second allocation fail, on its first or on its second rank.
Table starts are single address bits and pairs of them, because interleaving and
encoding move bits one by one; tables also cross the address at which the two
ranks of a pair change places. Column widths include one bit, values across two
cells and the limits of the shuffles; 11 values leave a block incomplete. In
`tools` two deaths let a process meet what is left by one that had itself
continued after a death. In the scheduler three processes and two units give a
waiter whose unit is free while another clears the flag.
Runs with finitely many operations end; `Finished` and `Destroyed` are
stuttering steps of the completed system, so deadlock is checked in all passing
runs but `tools`, whose programs simply end.

What is claimed under which conditions. On AxDIMM `ResultsCorrect` is claimed
without exceptions and crashes only: what a failed operation leaves in the
output buffers is known to the dirty ranges of its own process and to no other,
so the next process's sums may include it. On IMDB `QuietScans` and
`ResultsCorrect` claim nothing after a crash, because of the finding below. On
CXL the sums are right in all cases. `CallsEnd` is claimed for operations with
executions. `ScansAgree` excludes ranges that reach 2^31 and, for incomplete last
blocks, predicates that 0 satisfies; there the two scans differ. `AccessesMapped`
excludes buffers that end just behind the address where ranks change places.
`FreeUnitTaken` is claimed for the driver with a timeout. `UnitsAccounted` is
claimed for devices that were not reset.

Fairness. Host threads past the acquisition and worker threads (of SLS and of
IMDB) are weakly fair: the operating system runs them, and the loops they spin
in have no other condition. The acquisition itself is not fair, and nothing is
claimed about who gets a unit. Consumers are weakly fair, which includes that an
action ends. Callers of `ReductionRunner`, each with one call to make, and workers are weakly
fair, and so are
the tasks and the started run of `SecureSls` and the kernel's side of a running
ioctl. Nobody is obliged to submit work, to ask for or give back a unit outside a
call, to destroy the pool, to throw or to die.

## Findings

`axdimm_clear`: `clear_buf_common` (`axdimm_core_sim.cpp:305`) zeroes as many
bytes as the dirty range has, but from the start of the buffer, although the
comment at line 287 says that the modified part is zeroed. Ranges of executions
start at offset 0, so sums are right; the dummy instruction writes to output
index 2046, and its row is never zeroed after that. An execution with more than
2046 output rows of 64 bytes would read it. The passing runs keep the output
rows of executions below the dummy's row, and `ResultsCorrect` is claimed for
those only.

`exec_gen_empty`: `generate` commits what is left of a pack only if it has
lookups (`execution_generator.cpp:145`). Lengths of 0 pass the checks; when all
batches left at the end of a pack have length 0 their tables stay in the current
execution and are stored with the next pack, whose trace generation asserts that
every table belongs to it (`trace_generator_core.cpp:111`). A build with
assertions stops earlier, at `execution_generator.cpp:43`.

`imdb_stale_start`: after a process died between the start flag and the end of
its scan, `lock_thread_impl` (`imdb/simulator.cpp:42`) gives the engine thread's
registers to a new worker as they are, which scans while the new holder writes
them; `simulator_core.h:46` calls that undefined.

`secure_stale_rows`: iterators of `variable_row` compare positions only
(`variable_row_view.h:57`), so a loop ends before trailing rows of length 0. Their
part of `epsum` keeps the pads of the executor's previous run, and the caller
gets them as sums. `ResultsCorrect` is claimed for the rows that are visited.

### Observations without a run

`set_instr_buffer_size`
(`internal.h:198`) raises the limit to the longest batch even above the
instruction buffer, which the limit is documented to stand for
(`execution_generator.h:127`). The constructor of any process's IMDB simulator
(`simulator_core.cpp:44`) marks all engine threads done, also the ones in the
middle of a scan, against `libimdb.h:119`. The thread status is non-zero while a
scan runs and zero when it is done; `simulator_core.h:62` says the reverse.

SLS runner and operation. An operation without executions asks for a unit of pack
0 for ever (`SpinExplained` says that nothing else does). When `run_operation`
throws, tasks in the pool still refer to the operation that is destroyed.
`check_indices` looks at the wrong indices when lengths differ from 1;
`check_device_memory_limits` has no caller.

Memory. The mapping of `SlsAccessorCore` is one block short for a buffer that
ends just behind the switch of ranks. `get_phys_address` multiplies two 32-bit
numbers, which wraps from 4 GiB on. `ChannelTransferManager::copy_from` copies
the whole region. `decode_address` asserts a multiple of 4 and loses bits 0 to 2.

Scans. With a range that reaches 2^31 AVX2 finds nothing where the scalar scan
finds values. For a number of values that is not a multiple of 8 an AVX2 index
vector may include indices behind the column when 0 satisfies the predicate.

Secure SLS. The comment on `linear_checksum` has s^(j+1), the code squares s. The
check of an honest device's row fails when an entry of the sum overflows. After
an exception of the device tasks stay in the pool. With `SLS_OTP_NUM_THREADS=0`
no run ends.

Tools. `get_factory_str_arg` appends epsilon to the seed without a space, and a
minimum without seed or step is read as one. A selectivity of 1.0 makes
`RandomRangesGen` underflow; the generator of maximal values ignores its bounds;
index generators refuse a length equal to the number of rows. A death during a
write leaves an IMDB directory that cannot be used, and an SLS one that loads
truncated. Running `create_tables` again keeps old indices and golden sums. The
unit mapping of `pnm_ctl`'s timeout is inverted (`sls.cpp:265`, against the "[ns]"
of `sls.cpp:283`). `setup-shm --sls --imdb` uses the size of the first device for
the second; `README.md:119` shows a `setup-shm` without either. An empty file
left by a failed setup is skipped by the next. `write_file` does not see a store
that sysfs refuses. `setup-dax` ignores the return codes of ndctl.

Kernel. A release wakes waiters only for `ret > 0` (patch 0190, line 1119), so a
release of unit 0 is silent; each new waiter clears the flag that all share; the
release for a dead process wakes nobody. With its timeout the SLS driver recovers
from all three, the IMDB driver has none. A reset leaves the `leaked` counter and
idles units that are held.

## Proofs

All theorems hold for every value of the constants that satisfies the `ASSUME`s:
any number of hosts, processes, units, rows, consumers and actions, and at least
two buffers (what `NumOfPSumBuf` is on AxDIMM).

* `AxdimmSlsProofs`: `UnitExclusive`, `WorkerOwned`, `ThreadControlsMatch` and
  `NoRace`, with exceptions and crashes. None of them is inductive. The
  inductive invariant `IInv` adds that the driver's and the hosts' view of
  ownership agree, that a worker is on exactly between `enable_thread` and the
  end of `disable_thread`, and the register handshake: while no execution is in
  flight the exec register is disarmed and the worker is spinning, and while one
  is in flight the registers and the worker's position are in one of three
  combinations. The handshake is what makes `NoRace` true: a host past its wait
  has seen FINISH, and only the last combination has it. Most steps touch one
  unit; `LocalStep` shows once that such a step needs to be examined for its own
  unit only. The second part proves `TypeOK`, which needs that every trace fits
  into the buffers and that a running worker has a row of it left: the
  instruction buffer is not rewritten under it. The last part proves
  `OwnTraceOnly`: `AInv` extends the invariant by whose trace is in the
  instruction buffer.
* `AxdimmSlsResults`: the sums.
  `ResultsCorrect` rests on a second layer, about what the output buffers hold: a
  buffer that is not being written or read is zero outside the dirty range that
  its unit's process recorded, the buffer in use holds, row by row, the sums of
  the one execution in flight, and a dirty range covers what was added since it
  was last cleared, because `exec_trace` widens it with every row. With two or
  more buffers a buffer is cleared before it is used again. The assumptions are
  those of the run: `BelowDummy` says that no execution has an output in the row
  of the dummy instruction (finding `axdimm_clear`), `Calm` that there are no
  exceptions and crashes or only one process, since dirty ranges are known to
  their own process only. `SumsAreRight` needs no bound: in every behaviour the
  sums are right as long as it is `Undisturbed`. `AxdimmImplementsService` is the
  refinement of `ReductionService`, step by step; `AxdimmServes` is its form for
  behaviours with deaths.
* `CxlSlsProofs`: `TypeOK`, `ResultsCorrect` and `ImplementsService`, with
  exceptions and crashes and no further assumption. The invariant has the same
  handshake; a host zeroes the rows before it starts a unit, so what the worker
  has added to is exactly the rows below its position, and the sums do not depend
  on earlier owners.
* `ImdbScanProofs`: `TypeOK`, `QuietScans`, `ResultsCorrect` and
  `ImplementsScanService`. Ownership and types hold whoever dies; the rest of the
  invariant, that between the start flag and the end of a scan the registers are
  the holder's and the worker has read them or will, holds until a crash, which is
  what the properties claim.
* `WaitQueueProofs`, of `ActionQueue`: `TypeOK`, `NoLostWakeup`, `ActionsAccounted`,
  `DrainedWhenDestroyed`, and `PoolTakesItsSteps`: the queue, mutex and condition
  variable refine `TaskPool` up to its fairness. The invariant adds who holds the
  mutex, that the predicate's value is still true while the lock is held, and that
  a consumer leaves only an empty, closed queue. The refinement needs finitely many
  consumers, to count those that run actions.
* `ReductionRunnerProofs`: `TypeOK`, `RunComplete`, `OutlivedByThrow`,
  `UnitsHeld` and `SpinExplained`, for any number of callers, workers, units,
  calls and exceptions under `PackAssumption` and `CallAssumption`. The inductive
  invariant follows a pack of a call through its places: not visited yet, queued,
  with exactly one thread, ended. Executions are counted where the pack is, and
  every pack that was handed to the pool has a future until it is asked for; a
  call that has no futures left has therefore run everything.
* `WaitQueueProofs`, of `CunitScheduler`: `SchedulerTypeOK`, which includes that no two threads have the
  same unit, and `SleepExplained`, for any masks (`Masks`: units are numbered from
  0, as in the drivers). The invariant ties the flag to how a unit became free: a
  unit whose release was signalled has the flag set, and nobody sleeps beside a
  set flag unless a release is about to wake the queue.
* `DeviceMemorySteps`, `DeviceMemoryProofs`: `TypeOK`, `RegionsAllocated`,
  `ExclusiveOrShared` and `NoLeak`, for any number of processes, slots, ranks and
  blocks, finitely many of the processes opening the device themselves (`Config`),
  with forks, deaths and calls that fail on any rank. The three properties claim
  nothing once `tainted` is set, and so does the part of the invariant `MInv` they
  follow from. That part, `BlockOK`, is about one block: a holder is a slot or
  the call in progress of a process, and every holder is alive and its open file
  has a descriptor of the block; holders that use one file are one holder; a block
  with a shared entry has as many references as files with a descriptor, and
  its holders know that it is shared; a block without has at most one file; a
  file with a descriptor has a living process, and a holder unless one of its
  processes died. An ioctl changes one block and its holders. All else that a
  process does with a region (construct a buffer, begin to release it, move it)
  passes the holder from slot to call or back, and `RenamedBlock` shows once
  that this keeps `BlockOK`. Counting is used through `CountingHolds` only.

Each of these invariants was an invariant of a TLC run on a small instance before
it was proved.

Proved and in no run: `UnitExclusive`, `ThreadControlsMatch`, `UnitsHeld`,
`ActionsAccounted`, `DrainedWhenDestroyed`, `SumsAreRight`, `AxdimmServes`,
`PoolTakesItsSteps` and the `TypeOK`s.

Model-checked only: all liveness properties, the fairness of `TaskPool` included;
`ResultsCorrect` and `NoTaskBehindRun` of `SecureSls`, the accounting of
`PnmControl` and the files of `TestDataFiles`; and everything about
executions, addresses, bits and generated data. Liveness under fairness is out of
the prover's reach, and so is what a recursive definition computes for every
input, which is what most properties of the last group are about.

## Not modelled

* Arithmetic on table entries in the SLS simulators: a sum is the collection of
  rows that were added. AES: the pads are any function of the address.
* Logging, timers, error messages, formatting of output, command line parsing
  beyond the choice of a command and its options.
* Construction of contexts and device factories: wiring without state after it.
* Tagged operations on CXL, which the library refuses.
* IMDB transfer managers and the sequential allocator: one contiguous range and
  one region, cases of what `SlsMemory` and `DeviceMemory` have.
* In the kernel: discovery of devices, module parameters, mapping of memory. The
  process tracking and the allocator are modelled as far as the library uses them.
* Two processes that create the same test data directory at the same time.
* Tests, examples, benchmarks and build files.
