---------------------------- MODULE MCWaitQueues ----------------------------
(***************************************************************************)
(* Instances of the two places where threads sleep until others wake them, *)
(* for TLC.  A behaviour is one of two programs: a thread pool             *)
(* (ActionQueue), or processes that wait for compute units in the driver   *)
(* (CunitScheduler).  They have nothing in common but the run: the pool is *)
(* not constructed, or nobody calls the driver.                            *)
(***************************************************************************)
EXTENDS ActionQueue, CunitScheduler

VARIABLE program

\* Two processes that may get either unit, and one that needs the second.
EitherOrSecond == [t \in 1..3 |-> IF t = 3 THEN {1} ELSE Units]

WaitInit ==
  /\ Init /\ SchedulerInit
  /\ \/ program = "pool" /\ ~has_timeout
     \/ program = "driver"

PoolStep(A)   == program = "pool" /\ A /\ UNCHANGED <<program, schedulerVars>>
DriverStep(A) == program = "driver" /\ A /\ UNCHANGED <<program, vars>>

WaitNext == PoolStep(Next) \/ DriverStep(SchedulerNext)

waitVars == <<program, vars, schedulerVars>>

\* The fairness of each program.
WaitSpec ==
  /\ WaitInit /\ [][WaitNext]_waitVars
  /\ \A c \in Consumers : WF_waitVars(PoolStep(Create(c))) /\ WF_waitVars(PoolStep(ConsumerStep(c)))
  /\ WF_waitVars(PoolStep(CloseNotify)) /\ WF_waitVars(PoolStep(JoinWorkers))
  /\ \A t \in Threads : WF_waitVars(DriverStep(Ioctl(t)))

=============================================================================
