----------------------------- MODULE PnmControl -----------------------------
(***************************************************************************)
(* The control side of both devices: the tool pnm_ctl, the two Control     *)
(* classes that read and write the driver's sysfs files, and the part of   *)
(* the drivers they steer (which processes hold compute units, which ended *)
(* without giving them back, cleanup, reset and the acquisition timeout).  *)
(* One pnm_ctl runs at a time, next to client processes that acquire and   *)
(* release units and may end at any moment.  Any system call of the tool   *)
(* may fail, and the tool may be killed between two of them.               *)
(***************************************************************************)
EXTENDS Naturals, Sequences, FiniteSets, FiniteSetsExt, SequencesExt

CONSTANTS Units,     \* compute units of the SLS device, threads of the IMDB one
          Clients,   \* processes that use a device
          DevOf,     \* the device a client uses
          MemSize,   \* the memory size each driver reports
          RegArea,   \* REG_AREA_SIZE
          MemArgs,   \* values of --mem; 0: not given
          Timeouts,  \* numbers given to sls-timeout --set
          Loads,     \* the sets of driver modules that may be loaded
          MaxTools,  \* bound: runs of pnm_ctl
          MaxProcs,  \* bound: client processes started
          None

VARIABLES loaded,    \* devices whose driver module is loaded
          shm,       \* size of each shared memory file, None if there is none
          dax,       \* the SLS DAX device: namespace, device node, symbolic link
          timeout,   \* retry_timeout_ns of the SLS scheduler
          drv,       \* per device: busy units, cleanup flag, leaked processes
          client,    \* per client: what it is doing and the units it holds
          tool,      \* the pnm_ctl that runs
          said,      \* what the last pnm_ctl reported
          runs,      \* started so far: runs of pnm_ctl, client processes
          hist       \* history: the devices that were reset

vars == <<loaded, shm, dax, timeout, drv, client, tool, said, runs, hist>>

Devs == {"sls", "imdb"}
SLS_SHMEM == "/sls"
IMDB_CSR_DEVICE_SIM_NAME == "/imdb-control"
IMDB_DEVMEMORY_PATH_SIM_NAME == "/imdb-data"
Files == {SLS_SHMEM, IMDB_CSR_DEVICE_SIM_NAME, IMDB_DEVMEMORY_PATH_SIM_NAME}

NoTool == [op |-> "none", sls |-> FALSE, imdb |-> FALSE, mem |-> 0,
           at |-> "none", todo |-> <<>>, unsized |-> FALSE]

NothingSaid == [op |-> "none", sls |-> FALSE, imdb |-> FALSE, ok |-> TRUE, value |-> None]

Init ==
    /\ loaded \in Loads
    /\ shm = [f \in Files |-> None]
    /\ dax = [ns |-> FALSE, dev |-> FALSE, link |-> FALSE]
    /\ timeout = 0
    /\ drv = [d \in Devs |-> [busy |-> {}, cleanup |-> FALSE, leaked |-> 0, list |-> <<>>]]
    /\ client = [c \in Clients |-> [at |-> "off", units |-> {}]]
    /\ tool = NoTool
    /\ said = NothingSaid
    /\ runs = [tools |-> 0, procs |-> 0]
    /\ hist = {}

-----------------------------------------------------------------------------
(* Clients and the driver's scheduler and process manager.                 *)

\* BaseDevice's constructor opens the driver's file: the process is registered.
Open(c) ==
    /\ client[c].at = "off" /\ DevOf[c] \in loaded /\ runs.procs < MaxProcs
    /\ client' = [client EXCEPT ![c] = [at |-> "idle", units |-> {}]]
    /\ runs' = [runs EXCEPT !.procs = @ + 1]
    /\ UNCHANGED <<loaded, shm, dax, timeout, drv, tool, said, hist>>

\* GET_CUNIT, IMDB_IOCTL_GET_THREAD: the first free unit; with none free the
\* ioctl waits, and the process stays where it is.
pnm_sched_get_free_cunit(d) == {Min(Units \ drv[d].busy) : i \in IF Units \subseteq drv[d].busy THEN {} ELSE {1}}

acquire_cunit_from_range(c) ==
    /\ client[c].at = "idle" /\ client[c].units = {}
    /\ \E u \in pnm_sched_get_free_cunit(DevOf[c]) :
         /\ drv' = [drv EXCEPT ![DevOf[c]].busy = @ \union {u}]
         /\ client' = [client EXCEPT ![c].units = {u}]
    /\ UNCHANGED <<loaded, shm, dax, timeout, tool, said, runs, hist>>

\* RELEASE_CUNIT: the driver makes the unit idle whoever holds it.
release_cunit(c) ==
    /\ client[c].at = "idle" /\ client[c].units # {}
    /\ drv' = [drv EXCEPT ![DevOf[c]].busy = @ \ client[c].units]
    /\ client' = [client EXCEPT ![c].units = {}]
    /\ UNCHANGED <<loaded, shm, dax, timeout, tool, said, runs, hist>>

\* The last close: the flag is read here ...
release_sls_process(c) ==
    /\ client[c].at = "idle"
    /\ client' = [client EXCEPT ![c] =
         IF @.units = {} THEN [at |-> "off", units |-> {}]
         ELSE [@ EXCEPT !.at = IF drv[DevOf[c]].cleanup THEN "cleaning" ELSE "leaking"]]
    /\ UNCHANGED <<loaded, shm, dax, timeout, drv, tool, said, runs, hist>>

\* ... and what it decided is done later, under the list's lock.
release_process_resources(c) ==
    /\ client[c].at = "cleaning"
    /\ drv' = [drv EXCEPT ![DevOf[c]].busy = @ \ client[c].units]
    /\ client' = [client EXCEPT ![c] = [at |-> "off", units |-> {}]]
    /\ UNCHANGED <<loaded, shm, dax, timeout, tool, said, runs, hist>>

track_leaked_resources(c) ==
    /\ client[c].at = "leaking"
    /\ drv' = [drv EXCEPT ![DevOf[c]].leaked = @ + 1,
                          ![DevOf[c]].list = Append(@, client[c].units)]
    /\ client' = [client EXCEPT ![c] = [at |-> "off", units |-> {}]]
    /\ UNCHANGED <<loaded, shm, dax, timeout, tool, said, runs, hist>>

\* A slip, in no specification: the list is dropped, its units stay busy.
cleanup_on_keeps_units(d) ==
    [drv[d] EXCEPT !.cleanup = TRUE, !.leaked = 0, !.list = <<>>]

\* cleanup_store with 1 gives the units of every listed process back; the flag
\* alone is set before the list is locked.
cleanup_on(d) ==
    [drv[d] EXCEPT !.cleanup = TRUE, !.leaked = 0,
                   !.busy = @ \ UNION ToSet(drv[d].list), !.list = <<>>]
cleanup_off(d) == [drv[d] EXCEPT !.cleanup = FALSE]

\* reset_store: all units idle, the list of leaked processes dropped; neither
\* driver touches the counter, and the IMDB one answers with an error then,
\* which write_file does not see: the file is flushed in its destructor.
reset_store(d) == [drv[d] EXCEPT !.busy = {}, !.list = <<>>]

-----------------------------------------------------------------------------
(* The Control classes: sysfs files of the drivers, read and written.      *)

\* The number in a file of the driver of device d.
read_file(d, path) ==
    CASE path = "leaked"  -> drv[d].leaked
      [] path = "cleanup" -> IF drv[d].cleanup THEN 1 ELSE 0
      [] path \in {"size", "mem_size"} -> MemSize[d]
      [] path = "acq_timeout" -> timeout

\* What the driver makes of a 0 or 1 that is written to one of its files.
write_file(d, path, value) ==
    CASE path = "reset" -> reset_store(d)
      [] path = "cleanup" -> IF value = 1 THEN cleanup_on(d) ELSE cleanup_off(d)

sls_memory_size  == read_file("sls", "size")
imdb_memory_size == read_file("imdb", "mem_size")

sls_get_leaked  == read_file("sls", "leaked")
imdb_get_leaked == read_file("imdb", "leaked")

sls_get_resource_cleanup  == read_file("sls", "cleanup")
imdb_get_resource_cleanup == read_file("imdb", "cleanup")

sls_set_resource_cleanup(value)  == write_file("sls", "cleanup", value)
imdb_set_resource_cleanup(value) == write_file("imdb", "cleanup", value)

get_acquisition_timeout == read_file("sls", "acq_timeout")

sysfs_reset == write_file("sls", "reset", 1)
imdb_reset  == write_file("imdb", "reset", 1)

thread_state(u) == IF u \in drv["imdb"].busy THEN 1 ELSE 0

Regions == {"base", "inst", "cfgr", "tags", "psum"}
Attributes == {"size", "offset", "map_size", "map_offset"}

\* external: a file per unit and region attribute, written by the SLS driver.
sysfs(u, key) == <<u, key>>

\* Control::cunit_info_paths_: one file per key of ComputeUnitInfo.
cunit_info_paths_ == {<<"state", "">>, <<"acquisition_count", "">>, <<"free_size", "">>}
                     \union (Regions \X Attributes)
get_compute_unit_info(u, key) ==
    IF key[1] = "state" THEN IF u \in drv["sls"].busy THEN 1 ELSE 0
    ELSE sysfs(u, key)

\* PrintInfo::descriptions_: an option and a line for every key.
descriptions_ == cunit_info_paths_

-----------------------------------------------------------------------------
(* pnm_ctl.                                                                *)

Flags(op, mems) == {[op |-> op, sls |-> s, imdb |-> i, mem |-> m] :
                      s \in BOOLEAN, i \in BOOLEAN, m \in mems}
Sls(op)  == [op |-> op, sls |-> TRUE, imdb |-> FALSE, mem |-> 0]
Imdb(op) == [op |-> op, sls |-> FALSE, imdb |-> TRUE, mem |-> 0]

\* The commands of a device are there if its module is loaded.
Commands ==
    Flags("setup-shm", MemArgs) \union Flags("destroy-shm", {0})
    \union {Sls(o) : o \in {"setup-dax", "destroy-dax"}}
    \union (IF "sls" \in loaded
            THEN {Sls(o) : o \in {"info", "set-timeout", "get-timeout", "on", "off", "cleanup",
                                  "leaked", "reset"}}
            ELSE {})
    \union (IF "imdb" \in loaded
            THEN {Imdb(o) : o \in {"info", "on", "off", "cleanup", "leaked", "reset"}}
            ELSE {})

add_subcommands ==
    /\ tool = NoTool /\ runs.tools < MaxTools
    /\ \E c \in Commands :
         /\ c.sls \/ c.imdb
         /\ tool' = [op |-> c.op, sls |-> c.sls, imdb |-> c.imdb, mem |-> c.mem,
                     at |-> "start", todo |-> <<>>, unsized |-> FALSE]
    /\ runs' = [runs EXCEPT !.tools = @ + 1] /\ said' = NothingSaid
    /\ UNCHANGED <<loaded, shm, dax, timeout, drv, client, hist>>

\* The process ends with exit code 0 (ok) or, after an exception, 1.
Return(ok, value) ==
    /\ tool' = NoTool
    /\ said' = [op |-> tool.op, sls |-> tool.sls, imdb |-> tool.imdb, ok |-> ok, value |-> value]
Throw == Return(FALSE, None)
Continue(t) == tool' = t /\ UNCHANGED said

\* SetupSharedMemory::execute.
SetupSharedMemory ==
    /\ tool.op = "setup-shm" /\ tool.at = "start"
    /\ IF tool.sls /\ tool.imdb /\ tool.mem # 0
       THEN Throw
       ELSE Continue([tool EXCEPT !.at = "sls"])
    /\ UNCHANGED <<loaded, shm, dax, timeout, drv, client, runs, hist>>

\* mem_size_ as it is at a device's turn: given (or set at the other device's
\* turn), else the size the driver reports.
mem_size_(d) == IF tool.mem # 0 THEN tool.mem
                ELSE IF d = "sls" THEN sls_memory_size ELSE imdb_memory_size

SetupDevice(asked, d, next, files) ==
    IF ~asked THEN Continue([tool EXCEPT !.at = next])
    ELSE IF tool.mem = 0 /\ d \notin loaded THEN Throw
    ELSE Continue([tool EXCEPT !.at = next, !.mem = mem_size_(d), !.todo = files])

setup_sls ==
    /\ tool.op = "setup-shm" /\ tool.at = "sls"
    /\ SetupDevice(tool.sls, "sls", "imdb", <<[name |-> SLS_SHMEM, size |-> mem_size_("sls")]>>)
    /\ UNCHANGED <<loaded, shm, dax, timeout, drv, client, runs, hist>>

setup_imdb ==
    /\ tool.op = "setup-shm" /\ tool.at = "imdb" /\ tool.todo = <<>>
    /\ SetupDevice(tool.imdb, "imdb", "end",
         <<[name |-> IMDB_CSR_DEVICE_SIM_NAME, size |-> RegArea],
           [name |-> IMDB_DEVMEMORY_PATH_SIM_NAME, size |-> mem_size_("imdb")]>>)
    /\ UNCHANGED <<loaded, shm, dax, timeout, drv, client, runs, hist>>

\* A slip, in no specification: a file that exists ends the whole loop.
make_shm_returns(fails) ==
    /\ tool.op = "setup-shm" /\ tool.todo # <<>> /\ ~tool.unsized /\ ~fails
    /\ LET name == tool.todo[1].name
       IN IF shm[name] # None
          THEN Continue([tool EXCEPT !.todo = <<>>]) /\ UNCHANGED shm
          ELSE Continue([tool EXCEPT !.unsized = TRUE]) /\ shm' = [shm EXCEPT ![name] = 0]
    /\ UNCHANGED <<loaded, dax, timeout, drv, client, runs, hist>>

\* make_shm: a file that exists is skipped, whatever its size; a new one is
\* empty ...
make_shm(fails) ==
    /\ tool.op = "setup-shm" /\ tool.todo # <<>> /\ ~tool.unsized
    /\ LET name == tool.todo[1].name
       IN IF fails THEN Throw /\ UNCHANGED shm
          ELSE IF shm[name] # None
          THEN Continue([tool EXCEPT !.todo = Tail(@)]) /\ UNCHANGED shm
          ELSE Continue([tool EXCEPT !.unsized = TRUE]) /\ shm' = [shm EXCEPT ![name] = 0]
    /\ UNCHANGED <<loaded, dax, timeout, drv, client, runs, hist>>

\* ... until ftruncate; fchmod and close follow, and each of them may fail.
Truncate(failing) ==
    /\ tool.unsized
    /\ IF failing = "ftruncate" THEN UNCHANGED shm
       ELSE shm' = [shm EXCEPT ![tool.todo[1].name] = tool.todo[1].size]
    /\ IF failing = "none" THEN Continue([tool EXCEPT !.unsized = FALSE, !.todo = Tail(@)])
       ELSE Throw
    /\ UNCHANGED <<loaded, dax, timeout, drv, client, runs, hist>>

\* DestroySharedMemory::execute.
DestroySharedMemory ==
    /\ tool.op = "destroy-shm" /\ tool.at = "start"
    /\ Continue([tool EXCEPT !.at = "end", !.todo =
         (IF tool.sls THEN <<SLS_SHMEM>> ELSE <<>>)
         \o (IF tool.imdb THEN <<IMDB_CSR_DEVICE_SIM_NAME, IMDB_DEVMEMORY_PATH_SIM_NAME>> ELSE <<>>)])
    /\ UNCHANGED <<loaded, shm, dax, timeout, drv, client, runs, hist>>

\* destroy_shm: a missing file is skipped.
destroy_shm(fails) ==
    /\ tool.op = "destroy-shm" /\ tool.todo # <<>>
    /\ IF fails THEN Throw /\ UNCHANGED shm
       ELSE /\ Continue([tool EXCEPT !.todo = Tail(@)])
            /\ shm' = [shm EXCEPT ![tool.todo[1]] = None]
    /\ UNCHANGED <<loaded, dax, timeout, drv, client, runs, hist>>

EndShm ==
    /\ tool.op \in {"setup-shm", "destroy-shm"} /\ tool.at = "end" /\ tool.todo = <<>>
    /\ Return(TRUE, None)
    /\ UNCHANGED <<loaded, shm, dax, timeout, drv, client, runs, hist>>

\* external: what the calls of libndctl make of the namespace and the device
\* node; the tool does not look at what they return.
ndctl_enable  == {[ns |-> n, dev |-> d] : n \in BOOLEAN, d \in BOOLEAN} \ {[ns |-> FALSE, dev |-> TRUE]}
ndctl_delete  == {x \in ndctl_enable : x.dev => dax.dev}

\* SetupDaxDevice::execute: it succeeds if the device node is there afterwards.
SetupDaxDevice ==
    /\ tool.op = "setup-dax" /\ tool.at = "start"
    /\ \E x \in IF dax.dev THEN {[ns |-> dax.ns, dev |-> TRUE]} ELSE ndctl_enable :
         /\ dax' = [ns |-> x.ns, dev |-> x.dev, link |-> dax.link \/ x.dev]
         /\ IF x.dev THEN Return(TRUE, None) ELSE Throw
    /\ UNCHANGED <<loaded, shm, timeout, drv, client, runs, hist>>

\* DestroyDaxDevice::execute: without a namespace it stops before the link.
DestroyDaxDevice ==
    /\ tool.op = "destroy-dax" /\ tool.at = "start"
    /\ IF ~dax.ns THEN Return(TRUE, None) /\ UNCHANGED dax
       ELSE /\ \E x \in ndctl_delete : dax' = [dax EXCEPT !.ns = x.ns, !.dev = x.dev]
            /\ Continue([tool EXCEPT !.at = "unlink"])
    /\ UNCHANGED <<loaded, shm, timeout, drv, client, runs, hist>>

RemoveLink ==
    /\ tool.op = "destroy-dax" /\ tool.at = "unlink"
    /\ dax' = [dax EXCEPT !.link = FALSE]
    /\ Return(TRUE, None)
    /\ UNCHANGED <<loaded, shm, timeout, drv, client, runs, hist>>

\* AcquisitionTimeout: the number is multiplied by the factor of its unit.
mapping == [ns |-> 1000000000, us |-> 1000000, ms |-> 1000]
AcquisitionTimeout(n, unit) ==
    /\ \/ tool.op = "set-timeout" /\ timeout' = n * mapping[unit] /\ Return(TRUE, None)
       \/ tool.op = "get-timeout" /\ Return(TRUE, get_acquisition_timeout) /\ UNCHANGED timeout
    /\ UNCHANGED <<loaded, shm, dax, drv, client, runs, hist>>

\* PrintInfo::execute: the chosen lines of the chosen ranks, all if none is chosen.
SlsPrintInfo(options) ==
    /\ tool.op = "info" /\ tool.sls
    /\ Return(TRUE, [u \in Units |-> [k \in IF options = {} THEN descriptions_ ELSE options |->
                                        get_compute_unit_info(u, k)]])
    /\ UNCHANGED <<loaded, shm, dax, timeout, drv, client, runs, hist>>

ImdbPrintInfo ==
    /\ tool.op = "info" /\ tool.imdb
    /\ Return(TRUE, <<imdb_memory_size, [u \in Units |-> thread_state(u)]>>)
    /\ UNCHANGED <<loaded, shm, dax, timeout, drv, client, runs, hist>>

SlsLeakedInfo ==
    /\ tool.op = "leaked" /\ tool.sls /\ Return(TRUE, sls_get_leaked)
    /\ UNCHANGED <<loaded, shm, dax, timeout, drv, client, runs, hist>>

ImdbLeakedInfo ==
    /\ tool.op = "leaked" /\ tool.imdb /\ Return(TRUE, imdb_get_leaked)
    /\ UNCHANGED <<loaded, shm, dax, timeout, drv, client, runs, hist>>

SlsResourceCleanup ==
    /\ tool.sls
    /\ \/ /\ tool.op \in {"on", "off"} /\ Return(TRUE, None)
          /\ drv' = [drv EXCEPT !["sls"] = sls_set_resource_cleanup(IF tool.op = "on" THEN 1 ELSE 0)]
       \/ tool.op = "cleanup" /\ Return(TRUE, sls_get_resource_cleanup) /\ UNCHANGED drv
    /\ UNCHANGED <<loaded, shm, dax, timeout, client, runs, hist>>

ImdbResourceCleanup ==
    /\ tool.imdb
    /\ \/ /\ tool.op \in {"on", "off"} /\ Return(TRUE, None)
          /\ drv' = [drv EXCEPT !["imdb"] = imdb_set_resource_cleanup(IF tool.op = "on" THEN 1 ELSE 0)]
       \/ tool.op = "cleanup" /\ Return(TRUE, imdb_get_resource_cleanup) /\ UNCHANGED drv
    /\ UNCHANGED <<loaded, shm, dax, timeout, client, runs, hist>>

SlsReset ==
    /\ tool.op = "reset" /\ tool.sls /\ Return(TRUE, None)
    /\ drv' = [drv EXCEPT !["sls"] = sysfs_reset]
    /\ hist' = hist \union {"sls"}
    /\ UNCHANGED <<loaded, shm, dax, timeout, client, runs>>

ImdbReset ==
    /\ tool.op = "reset" /\ tool.imdb /\ Return(TRUE, None)
    /\ drv' = [drv EXCEPT !["imdb"] = imdb_reset]
    /\ hist' = hist \union {"imdb"}
    /\ UNCHANGED <<loaded, shm, dax, timeout, client, runs>>

\* The tool is killed.
Kill ==
    /\ tool # NoTool
    /\ Throw
    /\ UNCHANGED <<loaded, shm, dax, timeout, drv, client, runs, hist>>

Next ==
    \/ \E c \in Clients :
         \/ Open(c) \/ acquire_cunit_from_range(c) \/ release_cunit(c)
         \/ release_sls_process(c) \/ release_process_resources(c) \/ track_leaked_resources(c)
    \/ add_subcommands
    \/ SetupSharedMemory \/ setup_sls \/ setup_imdb \/ DestroySharedMemory \/ EndShm
    \/ \E fails \in BOOLEAN : make_shm(fails) \/ destroy_shm(fails)
    \/ \E failing \in {"none", "ftruncate", "fchmod"} : Truncate(failing)
    \/ SetupDaxDevice \/ DestroyDaxDevice \/ RemoveLink
    \/ \E n \in Timeouts, unit \in {"ns", "us", "ms"} : AcquisitionTimeout(n, unit)
    \/ \E options \in {{}, {<<"psum", "offset">>}} : SlsPrintInfo(options)
    \/ ImdbPrintInfo \/ SlsLeakedInfo \/ ImdbLeakedInfo \/ SlsResourceCleanup
    \/ ImdbResourceCleanup \/ SlsReset \/ ImdbReset \/ Kill

Spec == Init /\ [][Next]_vars

-----------------------------------------------------------------------------

\* The files, the flags and the units are of their kinds.
TypeOK ==
    /\ loaded \subseteq Devs
    /\ \A f \in Files : shm[f] = None \/ shm[f] \in Nat
    /\ dax \in [ns : BOOLEAN, dev : BOOLEAN, link : BOOLEAN]
    /\ timeout \in Nat /\ runs \in [tools : 0..MaxTools, procs : 0..MaxProcs]
    /\ \A d \in Devs : drv[d].busy \subseteq Units /\ drv[d].cleanup \in BOOLEAN /\ drv[d].leaked \in Nat
    /\ client \in [Clients -> [at : {"off", "idle", "cleaning", "leaking"}, units : SUBSET Units]]

Users(d) == {c \in Clients : DevOf[c] = d}

\* On a device that was never reset every busy unit has exactly one owner: a
\* process that holds it, one that is just ending, or one on the driver's list
\* of leaked processes, from which cleanup gets it back.
UnitsAccounted ==
    \A d \in Devs \ hist :
      /\ drv[d].busy = UNION ({client[c].units : c \in Users(d)} \union ToSet(drv[d].list))
      /\ Cardinality(drv[d].busy) = Cardinality({c \in Users(d) : client[c].units # {}})
                                    + Len(drv[d].list)

\* After a setup-shm that reported success every file it was asked for exists,
\* after such a destroy-shm none does, until the next command.
ShmAsReported ==
    tool = NoTool /\ said.ok =>
      \A f \in Files :
        (IF f = SLS_SHMEM THEN said.sls ELSE said.imdb) =>
          /\ said.op = "setup-shm" => shm[f] # None
          /\ said.op = "destroy-shm" => shm[f] = None

=============================================================================
