---------------------------- MODULE CommandQueue ----------------------------
(***************************************************************************)
(* What a compute queue of kfd/mod.rs promises its users: packets enter a  *)
(* FIFO, the GPU takes them out in that order and runs each once, and a    *)
(* call that returns Ok has seen everything it waits for run.  AqlQueue    *)
(* implements it with a ring, two pointers, a doorbell and signals.        *)
(***************************************************************************)
EXTENDS Naturals, Sequences

CONSTANTS Threads, Packets

VARIABLES pending,   \* issued and not yet run, oldest first
          done,      \* packets in the order they ran
          awaits,    \* per thread: 0, or 1 + the runs its call waits for
          verdict,   \* per thread: what its last call reported
          alive      \* the queue has not been dropped

vars == <<pending, done, awaits, verdict, alive>>

Init ==
  /\ pending = << >>
  /\ done = << >>
  /\ awaits = [t \in Threads |-> 0]
  /\ verdict = [t \in Threads |-> "none"]
  /\ alive = TRUE

Report(t, v) == verdict' = [verdict EXCEPT ![t] = v]

\* A call begins; wait_idle waits for everything issued so far.
Begin(t) ==
  /\ alive
  /\ Report(t, "none")
  /\ \/ UNCHANGED awaits
     \/ awaits' = [awaits EXCEPT ![t] = 1 + Len(done) + Len(pending)]
  /\ UNCHANGED <<pending, done, alive>>

\* A packet is issued; dispatch then waits for it, submit does not.
Issue(t, p) ==
  /\ alive
  /\ pending' = Append(pending, p)
  /\ \/ UNCHANGED awaits
     \/ awaits' = [awaits EXCEPT ![t] = 1 + Len(done) + Len(pending')]
  /\ UNCHANGED <<done, verdict, alive>>

\* Ok only when what the call waits for has run ...
WaitOk(t) ==
  /\ awaits[t] # 0
  /\ Len(done) + 1 >= awaits[t]
  /\ Report(t, "ok")
  /\ awaits' = [awaits EXCEPT ![t] = 0]
  /\ UNCHANGED <<pending, done, alive>>

\* ... and otherwise an error, which leaves the work in the queue.
WaitErr(t) ==
  /\ awaits[t] # 0
  /\ Report(t, "err")
  /\ awaits' = [awaits EXCEPT ![t] = 0]
  /\ UNCHANGED <<pending, done, alive>>

Run ==
  /\ alive
  /\ pending # << >>
  /\ done' = Append(done, Head(pending))
  /\ pending' = Tail(pending)
  /\ UNCHANGED <<awaits, verdict, alive>>

Drop ==
  /\ alive
  /\ alive' = FALSE
  /\ UNCHANGED <<pending, done, awaits, verdict>>

Next ==
  \/ \E t \in Threads :
       Begin(t) \/ WaitOk(t) \/ WaitErr(t) \/ \E p \in Packets : Issue(t, p)
  \/ Run
  \/ Drop

Spec == Init /\ [][Next]_vars
=============================================================================
