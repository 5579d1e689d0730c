--------------------------- MODULE CunitScheduler ---------------------------
(***************************************************************************)
(* The scheduler of compute units that both drivers use (pnm_sched.c):     *)
(* a thread that finds no free unit clears a flag that all waiters share   *)
(* and sleeps until a release sets it; the SLS driver gives up after a     *)
(* timeout, and the library asks again, the IMDB driver waits without one. *)
(*                                                                         *)
(* The scheduler's mutex makes the search and the release of a unit one    *)
(* step each; the flag and the wait queue are outside of it.  A process is *)
(* a thread with at most one unit.  Resets are part of PnmControl.         *)
(***************************************************************************)
EXTENDS Integers, FiniteSetsExt

CONSTANTS
  Units,       \* numbers of the compute units, from 0
  Request,     \* thread -> the units of its mask
  MaxDeaths

VARIABLES
  at,            \* thread -> where it is
  unit,          \* thread -> the unit it has, or the last one it had
  busy,          \* the units in BUSY_STATE
  wait_flag,
  has_timeout,   \* retry_timeout_ns is not PNM_SCHED_NO_TIMEOUT
  freed,         \* unit -> how it became free: what its release has told the waiters
  deaths

schedulerVars == <<at, unit, busy, wait_flag, has_timeout, freed, deaths>>

Threads == DOMAIN Request

Free(t) == Request[t] \ busy

Waiting(t) == at[t] \in {"find", "retry", "check", "asleep"}

SchedulerTypeOK ==
  /\ at \in [Threads -> {"out", "find", "retry", "check", "asleep", "held", "signal", "wake", "dead"}]
  /\ unit \in [Threads -> Units] /\ busy \subseteq Units
  /\ wait_flag \in 0..1 /\ has_timeout \in BOOLEAN /\ deaths \in 0..MaxDeaths
  /\ freed \in [Units -> {"silent", "signalled", "cleared"}]
  /\ \A t, s \in Threads : at[t] = "held" => unit[t] \in busy /\ (at[s] = "held" /\ s # t => unit[s] # unit[t])

\* pnm_sched_init of either driver.
SchedulerInit ==
  /\ at = [t \in Threads |-> "out"] /\ unit = [t \in Threads |-> 0] /\ busy = {}
  /\ wait_flag = 0 /\ has_timeout \in BOOLEAN
  /\ freed = [u \in Units |-> "silent"] /\ deaths = 0

\* The ioctl of a thread that has no unit.
Ask(t) ==
  /\ at[t] = "out" /\ at' = [at EXCEPT ![t] = "find"]
  /\ UNCHANGED <<unit, busy, wait_flag, has_timeout, freed, deaths>>

pnm_sched_find_acquire_free_cunit(t) ==
  /\ at[t] = "find"
  /\ IF Free(t) # {}
     THEN /\ unit' = [unit EXCEPT ![t] = Min(Free(t))] /\ busy' = busy \cup {Min(Free(t))}
          /\ at' = [at EXCEPT ![t] = "held"]
     ELSE at' = [at EXCEPT ![t] = "retry"] /\ UNCHANGED <<unit, busy>>
  /\ UNCHANGED <<wait_flag, has_timeout, freed, deaths>>

\* A waiter first clears the flag, whatever it says ...
pnm_sched_wait_for_cunit(t) ==
  /\ at[t] = "retry" /\ at' = [at EXCEPT ![t] = "check"]
  /\ wait_flag' = 0
  /\ freed' = [u \in Units |-> IF freed[u] = "signalled" THEN "cleared" ELSE freed[u]]
  /\ UNCHANGED <<unit, busy, has_timeout, deaths>>

\* A slip, in no specification: a waiter sleeps without a look at the flag.
wait_unchecked(t) ==
  /\ at[t] = "check" /\ at' = [at EXCEPT ![t] = "asleep"]
  /\ UNCHANGED <<unit, busy, wait_flag, has_timeout, freed, deaths>>

\* ... and sleeps while it is not set: it checks when it comes and when it is woken.
wait_event(t) ==
  /\ at[t] = "check" /\ at' = [at EXCEPT ![t] = IF wait_flag = 1 THEN "find" ELSE "asleep"]
  /\ UNCHANGED <<unit, busy, wait_flag, has_timeout, freed, deaths>>

\* A slip, in no specification: a wait that timed out goes on waiting.
hrtimeout_ignored(t) ==
  /\ at[t] = "asleep" /\ has_timeout /\ at' = [at EXCEPT ![t] = "check"]
  /\ UNCHANGED <<unit, busy, wait_flag, has_timeout, freed, deaths>>

\* The timer ends the wait, GET_CUNIT fails, and the constructor of the library's
\* compute unit calls it again.
hrtimeout(t) ==
  /\ at[t] = "asleep" /\ has_timeout /\ at' = [at EXCEPT ![t] = "find"]
  /\ UNCHANGED <<unit, busy, wait_flag, has_timeout, freed, deaths>>

\* pnm_sched_release_and_wakeup: the waiters of unit 0 are not told.
pnm_sched_release_cunit(t) ==
  /\ at[t] = "held" /\ at' = [at EXCEPT ![t] = IF unit[t] > 0 THEN "signal" ELSE "out"]
  /\ busy' = busy \ {unit[t]}
  /\ freed' = [freed EXCEPT ![unit[t]] = "silent"]
  /\ UNCHANGED <<unit, wait_flag, has_timeout, deaths>>

pnm_sched_set_flag(t) ==
  /\ at[t] = "signal" /\ at' = [at EXCEPT ![t] = "wake"]
  /\ wait_flag' = 1 /\ freed' = [freed EXCEPT ![unit[t]] = "signalled"]
  /\ UNCHANGED <<unit, busy, has_timeout, deaths>>

wake_up_interruptible(t) ==
  /\ at[t] = "wake"
  /\ at' = [s \in Threads |-> IF s = t THEN "out" ELSE IF at[s] = "asleep" THEN "check" ELSE at[s]]
  /\ UNCHANGED <<unit, busy, wait_flag, has_timeout, freed, deaths>>

\* A process ends: a sleeping ioctl is interrupted, one that is not asleep is finished
\* first; the process manager frees the unit without a word to the waiters.
release_process(t) ==
  /\ at[t] \in {"out", "held", "asleep"} /\ deaths < MaxDeaths
  /\ at' = [at EXCEPT ![t] = "dead"] /\ deaths' = deaths + 1
  /\ IF at[t] = "held"
     THEN busy' = busy \ {unit[t]} /\ freed' = [freed EXCEPT ![unit[t]] = "silent"]
     ELSE UNCHANGED <<busy, freed>>
  /\ UNCHANGED <<unit, wait_flag, has_timeout>>

\* What a thread does in the kernel once it has called it.
Ioctl(t) ==
  \/ pnm_sched_find_acquire_free_cunit(t) \/ pnm_sched_wait_for_cunit(t)
  \/ wait_event(t) \/ hrtimeout(t) \/ pnm_sched_set_flag(t) \/ wake_up_interruptible(t)

SchedulerNext == \E t \in Threads : Ioctl(t) \/ Ask(t) \/ pnm_sched_release_cunit(t) \/ release_process(t)

\* The kernel goes on with an ioctl; nobody is obliged to ask, to release or to end.
SchedulerSpec == SchedulerInit /\ [][SchedulerNext]_schedulerVars /\ \A t \in Threads : WF_schedulerVars(Ioctl(t))

-----------------------------------------------------------------------------

\* With a timeout no unit stays free for ever while a thread that asks for it waits,
\* although wake-ups are lost.
FreeUnitTaken ==
  \A t \in Threads :
    (has_timeout /\ Waiting(t) /\ Free(t) # {}) ~> (at[t] \in {"held", "dead"} \/ Free(t) = {})

\* Wake-ups are lost in no other way than these: a thread sleeps while a unit of its
\* mask is free, and no release is under way, only if the unit was freed without a
\* word (unit 0, or by the process manager), or if a waiter has cleared the flag
\* after the release had set it.
SleepExplained ==
  (\A s \in Threads : at[s] \notin {"signal", "wake"}) =>
    \A t \in Threads : at[t] = "asleep" => \A u \in Free(t) : freed[u] \in {"silent", "cleared"}

=============================================================================
