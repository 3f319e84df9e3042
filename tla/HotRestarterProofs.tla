------------------------- MODULE HotRestarterProofs -------------------------
(***************************************************************************)
(* Proofs about HotRestarter, for any number of hot restarts. What makes   *)
(* its properties inductive is the bookkeeping between the kernel and the  *)
(* list: a child that runs, or whose failure no poll has seen, is listed   *)
(* or still in the hands of main; and the flag of the SIGCHLD handler is   *)
(* raised for a failure only.                                              *)
(***************************************************************************)
EXTENDS HotRestarter, TLAPS

\* Pids that the restarter keeps belong to children the kernel has made.
KeptAreForked ==
  /\ \A p \in pid_list \cup pid_list_copy : child[p] # "none"
  /\ main = "append" => child_pid \in Pids /\ child[child_pid] # "none"

\* The restarter kills nothing before it exits.
KilledAtExit == Up => \A p \in Pids : child[p] # "killed"

\* No failure is lost: it is yet to be polled, or the handler knows.
FailureIsKnown ==
  Up => \A p \in Pids : child[p] = "failed" =>
           p \in pid_list \cup Unappended \/ (polling /\ kill_all_and_exit)

FlagHasCause ==
  kill_all_and_exit => \E p \in Pids : child[p] = "failed"

RestarterInv ==
  /\ TypeOK
  /\ KeptAreForked /\ KilledAtExit /\ FailureIsKnown /\ FlagHasCause
  /\ RunningIsTracked /\ NothingLeftBehind /\ ExitCodeTells

USE DEF Pids, Up, kernel, handler, reading, KeepsPid, NextEpoch, IsRunning, Abnormal,
        Left, NoneLeft

----------------------------------------------------------------------------
LEMMA InitInv == Init => RestarterInv
<1> SUFFICES ASSUME Init PROVE RestarterInv
  OBVIOUS
<1> USE DEF Init
<1>1. TypeOK
  BY DEF TypeOK, States, Signals
<1>2. KeptAreForked /\ KilledAtExit /\ FailureIsKnown /\ FlagHasCause
  BY DEF KeptAreForked, KilledAtExit, FailureIsKnown, FlagHasCause
<1>3. RunningIsTracked /\ NothingLeftBehind /\ ExitCodeTells
  BY DEF RunningIsTracked, NothingLeftBehind, ExitCodeTells, Running
<1>4. QED BY <1>1, <1>2, <1>3 DEF RestarterInv

----------------------------------------------------------------------------
\* Each action keeps the invariant.
\* main reads the epoch.
LEMMA LoadEpochInv ==
  ASSUME RestarterInv, LoadEpoch
  PROVE  RestarterInv'
<1> USE DEF RestarterInv, LoadEpoch, MainSteps
<1>1. TypeOK'
  BY DEF TypeOK, States, Signals
<1>2. KeptAreForked' /\ KilledAtExit'
  BY DEF TypeOK, KeptAreForked, KilledAtExit
<1>3. FailureIsKnown' /\ FlagHasCause'
  BY DEF TypeOK, KeptAreForked, KilledAtExit, FailureIsKnown, FlagHasCause,
         Unappended, States
<1>4. RunningIsTracked' /\ NothingLeftBehind'
  BY DEF TypeOK, KeptAreForked, RunningIsTracked, NothingLeftBehind, Running,
         Unappended
<1>5. ExitCodeTells'
  BY DEF TypeOK, KilledAtExit, FailureIsKnown, FlagHasCause, RunningIsTracked,
         ExitCodeTells, Running, Unappended, States
<1>6. QED BY <1>1, <1>2, <1>3, <1>4, <1>5

\* It puts what it has read into its environment.
LEMMA SetEpochInv ==
  ASSUME RestarterInv, SetEpoch
  PROVE  RestarterInv'
<1> USE DEF RestarterInv, SetEpoch, MainSteps
<1>1. TypeOK'
  BY DEF TypeOK, States, Signals
<1>2. KeptAreForked' /\ KilledAtExit'
  BY DEF TypeOK, KeptAreForked, KilledAtExit
<1>3. FailureIsKnown' /\ FlagHasCause'
  BY DEF TypeOK, KeptAreForked, KilledAtExit, FailureIsKnown, FlagHasCause,
         Unappended, States
<1>4. RunningIsTracked' /\ NothingLeftBehind'
  BY DEF TypeOK, KeptAreForked, RunningIsTracked, NothingLeftBehind, Running,
         Unappended
<1>5. ExitCodeTells'
  BY DEF TypeOK, KilledAtExit, FailureIsKnown, FlagHasCause, RunningIsTracked,
         ExitCodeTells, Running, Unappended, States
<1>6. QED BY <1>1, <1>2, <1>3, <1>4, <1>5

\* It counts the epoch it has read.
LEMMA StoreEpochInv ==
  ASSUME RestarterInv, StoreEpoch
  PROVE  RestarterInv'
<1> USE DEF RestarterInv, StoreEpoch, MainSteps
<1>1. TypeOK'
  BY DEF TypeOK, States, Signals
<1>2. KeptAreForked' /\ KilledAtExit'
  BY DEF TypeOK, KeptAreForked, KilledAtExit
<1>3. FailureIsKnown' /\ FlagHasCause'
  BY DEF TypeOK, KeptAreForked, KilledAtExit, FailureIsKnown, FlagHasCause,
         Unappended, States
<1>4. RunningIsTracked' /\ NothingLeftBehind'
  BY DEF TypeOK, KeptAreForked, RunningIsTracked, NothingLeftBehind, Running,
         Unappended
<1>5. ExitCodeTells'
  BY DEF TypeOK, KilledAtExit, FailureIsKnown, FlagHasCause, RunningIsTracked,
         ExitCodeTells, Running, Unappended, States
<1>6. QED BY <1>1, <1>2, <1>3, <1>4, <1>5

\* The new child is in the hands of main.
LEMMA ForkInv ==
  ASSUME RestarterInv, Fork
  PROVE  RestarterInv'
<1> USE DEF RestarterInv, Fork, MainSteps, NewPid
<1>1. TypeOK'
  BY DEF TypeOK, States, Signals
<1>2. KeptAreForked' /\ KilledAtExit'
  BY DEF TypeOK, KeptAreForked, KilledAtExit
<1>3. FailureIsKnown' /\ FlagHasCause'
  BY DEF TypeOK, KeptAreForked, KilledAtExit, FailureIsKnown, FlagHasCause,
         Unappended, States
<1>4. RunningIsTracked' /\ NothingLeftBehind'
  BY DEF TypeOK, KeptAreForked, RunningIsTracked, NothingLeftBehind, Running,
         Unappended
<1>5. ExitCodeTells'
  BY DEF TypeOK, KilledAtExit, FailureIsKnown, FlagHasCause, RunningIsTracked,
         ExitCodeTells, Running, Unappended, States
<1>6. QED BY <1>1, <1>2, <1>3, <1>4, <1>5

\* It goes from the hands of main to the list.
LEMMA AppendPidInv ==
  ASSUME RestarterInv, AppendPid
  PROVE  RestarterInv'
<1> USE DEF RestarterInv, AppendPid, MainSteps
<1>1. TypeOK'
  BY DEF TypeOK, KeptAreForked, States, Signals
<1>2. KeptAreForked' /\ KilledAtExit'
  BY DEF TypeOK, KeptAreForked, KilledAtExit
<1>3. FailureIsKnown' /\ FlagHasCause'
  BY DEF TypeOK, KeptAreForked, KilledAtExit, FailureIsKnown, FlagHasCause,
         Unappended, States
<1>4. RunningIsTracked' /\ NothingLeftBehind'
  BY DEF TypeOK, KeptAreForked, RunningIsTracked, NothingLeftBehind, Running,
         Unappended
<1>5. ExitCodeTells'
  BY DEF TypeOK, KilledAtExit, FailureIsKnown, FlagHasCause, RunningIsTracked,
         ExitCodeTells, Running, Unappended, States
<1>6. QED BY <1>1, <1>2, <1>3, <1>4, <1>5

\* Fork and append in one step: the new child is listed.
LEMMA SighupHandlerInv ==
  ASSUME RestarterInv, SighupHandler
  PROVE  RestarterInv'
<1> USE DEF RestarterInv, SighupHandler, Handles, ForkAndExec, NewPid
<1>1. TypeOK'
  BY DEF TypeOK, States, Signals
<1>2. KeptAreForked' /\ KilledAtExit'
  BY DEF TypeOK, KeptAreForked, KilledAtExit
<1>3. FailureIsKnown' /\ FlagHasCause'
  BY DEF TypeOK, KeptAreForked, KilledAtExit, FailureIsKnown, FlagHasCause,
         Unappended, States
<1>4. RunningIsTracked' /\ NothingLeftBehind'
  BY DEF TypeOK, KeptAreForked, RunningIsTracked, NothingLeftBehind, Running,
         Unappended
<1>5. ExitCodeTells'
  BY DEF TypeOK, KilledAtExit, FailureIsKnown, FlagHasCause, RunningIsTracked,
         ExitCodeTells, Running, Unappended, States
<1>6. QED BY <1>1, <1>2, <1>3, <1>4, <1>5

\* All the listed children are killed; once main sleeps they are all that run.
LEMMA SigtermHandlerInv ==
  ASSUME RestarterInv, SigtermHandler
  PROVE  RestarterInv'
<1> USE DEF RestarterInv, SigtermHandler, Handles, ForceKillAllChildren
<1>1. TypeOK'
  BY DEF TypeOK, States, Signals
<1>2. KeptAreForked' /\ KilledAtExit'
  BY DEF TypeOK, KeptAreForked, KilledAtExit
<1>3. FailureIsKnown' /\ FlagHasCause'
  BY DEF TypeOK, KeptAreForked, KilledAtExit, FailureIsKnown, FlagHasCause,
         Unappended, States
<1>4. RunningIsTracked' /\ NothingLeftBehind'
  BY DEF TypeOK, KeptAreForked, RunningIsTracked, NothingLeftBehind, Running,
         Unappended
<1>5. ExitCodeTells'
  BY DEF TypeOK, KilledAtExit, FailureIsKnown, FlagHasCause, RunningIsTracked,
         ExitCodeTells, Running, Unappended, States
<1>6. QED BY <1>1, <1>2, <1>3, <1>4, <1>5

\* The flag starts at FALSE, and the failures are still listed.
LEMMA SigchldHandlerInv ==
  ASSUME RestarterInv, SigchldHandler
  PROVE  RestarterInv'
<1> USE DEF RestarterInv, SigchldHandler, Handles
<1>1. TypeOK'
  BY DEF TypeOK, States, Signals
<1>2. KeptAreForked' /\ KilledAtExit'
  BY DEF TypeOK, KeptAreForked, KilledAtExit
<1>3. FailureIsKnown' /\ FlagHasCause'
  BY DEF TypeOK, KeptAreForked, KilledAtExit, FailureIsKnown, FlagHasCause,
         Unappended, States
<1>4. RunningIsTracked' /\ NothingLeftBehind'
  BY DEF TypeOK, KeptAreForked, RunningIsTracked, NothingLeftBehind, Running,
         Unappended
<1>5. ExitCodeTells'
  BY DEF TypeOK, KilledAtExit, FailureIsKnown, FlagHasCause, RunningIsTracked,
         ExitCodeTells, Running, Unappended, States
<1>6. QED BY <1>1, <1>2, <1>3, <1>4, <1>5

\* A child leaves the list only when it has ended, and the flag goes up if it failed.
LEMMA PollInv ==
  ASSUME RestarterInv, NEW pid \in Pids, Poll(pid)
  PROVE  RestarterInv'
<1> USE DEF RestarterInv, Poll
<1>1. TypeOK'
  BY DEF TypeOK, States, Signals
<1>2. KeptAreForked' /\ KilledAtExit'
  BY DEF TypeOK, KeptAreForked, KilledAtExit
<1>3. FailureIsKnown' /\ FlagHasCause'
  BY DEF TypeOK, KeptAreForked, KilledAtExit, FailureIsKnown, FlagHasCause,
         Unappended, States
<1>4. RunningIsTracked' /\ NothingLeftBehind'
  BY DEF TypeOK, KeptAreForked, RunningIsTracked, NothingLeftBehind, Running,
         Unappended
<1>5. ExitCodeTells'
  BY DEF TypeOK, KilledAtExit, FailureIsKnown, FlagHasCause, RunningIsTracked,
         ExitCodeTells, Running, Unappended, States
<1>6. QED BY <1>1, <1>2, <1>3, <1>4, <1>5

\* A failure that is known is listed or raised the flag.
LEMMA EndPollInv ==
  ASSUME RestarterInv, EndPoll
  PROVE  RestarterInv'
<1> USE DEF RestarterInv, EndPoll, ForceKillAllChildren
<1>1. TypeOK'
  BY DEF TypeOK, States, Signals
<1>2. KeptAreForked' /\ KilledAtExit'
  BY DEF TypeOK, KeptAreForked, KilledAtExit
<1>3. FailureIsKnown' /\ FlagHasCause'
  BY DEF TypeOK, KeptAreForked, KilledAtExit, FailureIsKnown, FlagHasCause,
         Unappended, States
<1>4. RunningIsTracked' /\ NothingLeftBehind'
  BY DEF TypeOK, KeptAreForked, RunningIsTracked, NothingLeftBehind, Running,
         Unappended
<1>5. ExitCodeTells'
  BY DEF TypeOK, KilledAtExit, FailureIsKnown, FlagHasCause, RunningIsTracked,
         ExitCodeTells, Running, Unappended, States
<1>6. QED BY <1>1, <1>2, <1>3, <1>4, <1>5

\* A signal changes no list.
LEMMA SendSignalInv ==
  ASSUME RestarterInv, NEW sig \in {"HUP", "TERM"}, SendSignal(sig)
  PROVE  RestarterInv'
<1> USE DEF RestarterInv, SendSignal
<1>1. TypeOK'
  BY DEF TypeOK, States, Signals
<1>2. KeptAreForked' /\ KilledAtExit'
  BY DEF TypeOK, KeptAreForked, KilledAtExit
<1>3. FailureIsKnown' /\ FlagHasCause'
  BY DEF TypeOK, KeptAreForked, KilledAtExit, FailureIsKnown, FlagHasCause,
         Unappended, States
<1>4. RunningIsTracked' /\ NothingLeftBehind'
  BY DEF TypeOK, KeptAreForked, RunningIsTracked, NothingLeftBehind, Running,
         Unappended
<1>5. ExitCodeTells'
  BY DEF TypeOK, KilledAtExit, FailureIsKnown, FlagHasCause, RunningIsTracked,
         ExitCodeTells, Running, Unappended, States
<1>6. QED BY <1>1, <1>2, <1>3, <1>4, <1>5

\* A child that ends was listed or in the hands of main.
LEMMA ChildEndsInv ==
  ASSUME RestarterInv, NEW q \in Pids,
         NEW how \in {"ok", "failed"}, ChildEnds(q, how)
  PROVE  RestarterInv'
<1> USE DEF RestarterInv, ChildEnds
<1>1. TypeOK'
  BY DEF TypeOK, States, Signals
<1>2. KeptAreForked' /\ KilledAtExit'
  BY DEF TypeOK, KeptAreForked, KilledAtExit
<1>3. FailureIsKnown' /\ FlagHasCause'
  BY DEF TypeOK, KeptAreForked, KilledAtExit, FailureIsKnown, FlagHasCause,
         RunningIsTracked, Running, Unappended, States
<1>4. RunningIsTracked' /\ NothingLeftBehind'
  BY DEF TypeOK, KeptAreForked, RunningIsTracked, NothingLeftBehind, Running,
         Unappended
<1>5. ExitCodeTells'
  BY DEF TypeOK, KilledAtExit, FailureIsKnown, FlagHasCause, RunningIsTracked,
         ExitCodeTells, Running, Unappended, States
<1>6. QED BY <1>1, <1>2, <1>3, <1>4, <1>5

----------------------------------------------------------------------------
LEMMA NextInv ==
  ASSUME RestarterInv, [Next]_vars
  PROVE  RestarterInv'
<1>1. CASE Next
  <2>1. CASE Restarter
    BY <2>1, LoadEpochInv, SetEpochInv, StoreEpochInv, ForkInv, AppendPidInv,
       SighupHandlerInv, SigtermHandlerInv, SigchldHandlerInv, PollInv,
       EndPollInv DEF Restarter
  <2>2. CASE \E sig \in {"HUP", "TERM"} : SendSignal(sig)
    BY <2>2, SendSignalInv
  <2>3. CASE \E p \in Pids, how \in {"ok", "failed"} : ChildEnds(p, how)
    BY <2>3, ChildEndsInv
  <2>4. QED BY <1>1, <2>1, <2>2, <2>3 DEF Next
<1>2. CASE UNCHANGED vars
  BY <1>2 DEF vars, RestarterInv, TypeOK, KeptAreForked, KilledAtExit,
     FailureIsKnown, FlagHasCause, RunningIsTracked, NothingLeftBehind,
     ExitCodeTells, Running, Unappended
<1>3. QED BY <1>1, <1>2

\* The bookkeeping of the restarter holds in every reachable state.
LEMMA RestarterInvHolds == Spec => []RestarterInv
  BY InitInv, NextInv, PTL DEF Spec

\* Every variable keeps its type.
THEOREM RestarterTypeCorrect == Spec => []TypeOK
<1>1. RestarterInv => TypeOK
  BY DEF RestarterInv
<1>2. QED BY <1>1, RestarterInvHolds, PTL

\* While it is up the restarter knows of every child that runs.
THEOREM RunningIsTrackedHolds == Spec => []RunningIsTracked
<1>1. RestarterInv => RunningIsTracked
  BY DEF RestarterInv
<1>2. QED BY <1>1, RestarterInvHolds, PTL

\* Once main sleeps, no way out of the script leaves a child running.
THEOREM NothingLeftBehindHolds == Spec => []NothingLeftBehind
<1>1. RestarterInv => NothingLeftBehind
  BY DEF RestarterInv
<1>2. QED BY <1>1, RestarterInvHolds, PTL

\* The exit code tells whether a child failed, once main sleeps.
THEOREM ExitCodeTellsHolds == Spec => []ExitCodeTells
<1>1. RestarterInv => ExitCodeTells
  BY DEF RestarterInv
<1>2. QED BY <1>1, RestarterInvHolds, PTL

----------------------------------------------------------------------------
\* Unless two SIGHUPs came inside main's +=, no child has the epoch that the
\* next fork_and_exec will read, and what main has read or put into its
\* environment is not above the counter; inside the += the counter is ahead
\* of what main has read by the SIGHUPs that came there.
EpochsBelow ==
  /\ main \in {"read", "environ", "load"} => inside = 0
  /\ main = "environ" => loaded <= restart_epoch
  /\ main = "load" => environ <= restart_epoch
  /\ main = "store" => /\ restart_epoch = loaded + inside
                       /\ environ <= loaded \/ environ < loaded + inside
  /\ main = "fork" /\ inside <= 1 => environ < restart_epoch
  /\ main \in {"read", "environ", "load", "store"} \/ inside <= 1 =>
        \A q \in Forked : epochOf[q] < restart_epoch

USE DEF EpochsBelow, Forked, TypeOK

LEMMA EpochsBelowNext ==
  ASSUME TypeOK, EpochsBelow, [Next]_vars
  PROVE  EpochsBelow'
<1>0. CASE LoadEpoch
  BY <1>0 DEF LoadEpoch, MainSteps
<1>1. CASE SetEpoch
  BY <1>1 DEF SetEpoch, MainSteps
<1>2. CASE StoreEpoch
  BY <1>2 DEF StoreEpoch, MainSteps
<1>3. CASE Fork
  BY <1>3 DEF Fork, MainSteps, NewPid
<1>4. CASE AppendPid
  BY <1>4 DEF AppendPid, MainSteps
<1>5. CASE SighupHandler
  BY <1>5 DEF SighupHandler, Handles, ForkAndExec, NewPid
<1>6. CASE SigtermHandler
  BY <1>6 DEF SigtermHandler, Handles, ForceKillAllChildren
<1>7. CASE SigchldHandler
  BY <1>7 DEF SigchldHandler, Handles
<1>8. ASSUME NEW pid \in Pids, Poll(pid) PROVE EpochsBelow'
  BY <1>8 DEF Poll
<1>9. CASE EndPoll
  BY <1>9 DEF EndPoll, ForceKillAllChildren
<1>10. ASSUME NEW sig \in {"HUP", "TERM"}, SendSignal(sig)
       PROVE  EpochsBelow'
  BY <1>10 DEF SendSignal
<1>11. ASSUME NEW p \in Pids, NEW how \in {"ok", "failed"}, ChildEnds(p, how)
       PROVE  EpochsBelow'
  BY <1>11 DEF ChildEnds
<1>12. CASE UNCHANGED vars
  BY <1>12 DEF vars
<1>13. QED
  BY <1>0, <1>1, <1>2, <1>3, <1>4, <1>5, <1>6, <1>7, <1>8, <1>9, <1>10,
     <1>11, <1>12 DEF Next, Restarter

\* A child forked once main sleeps has an epoch above all the earlier ones,
\* unless main lost the counts of two SIGHUPs: only the SIGHUP handler forks it, and it takes the counter itself.
LEMMA EpochGrowsStep ==
  ASSUME TypeOK, EpochsBelow, [Next]_vars, NEW p \in Pids, main = "asleep",
         inside <= 1, child[p] = "none", child'[p] # "none"
  PROVE  \A q \in Forked : epochOf[q] < epochOf'[p]
<1>1. SighupHandler
  <2>1. ~UNCHANGED vars /\ ~Fork
    BY DEF vars, Fork, MainSteps
  <2>2. ~(LoadEpoch \/ SetEpoch \/ StoreEpoch \/ AppendPid)
    BY DEF LoadEpoch, SetEpoch, StoreEpoch, AppendPid
  <2>3. ~(SigtermHandler \/ EndPoll)
    BY DEF SigtermHandler, EndPoll, ForceKillAllChildren
  <2>4. ~SigchldHandler /\ \A pid \in Pids : ~Poll(pid)
    BY DEF SigchldHandler, Poll
  <2>5. /\ \A sig \in {"HUP", "TERM"} : ~SendSignal(sig)
        /\ \A r \in Pids, how \in {"ok", "failed"} : ~ChildEnds(r, how)
    BY DEF SendSignal, ChildEnds
  <2>6. QED BY <2>1, <2>2, <2>3, <2>4, <2>5 DEF Next, Restarter
<1>2. epochOf'[p] = restart_epoch
  BY <1>1 DEF SighupHandler, ForkAndExec
<1>3. QED BY <1>2

\* Hot restarts have growing epochs, in every step of the restarter, though
\* main's own += may lose the count of one of them.
THEOREM EpochGrowsHolds == Spec => EpochGrows
<1>1. Init => EpochsBelow
  BY DEF Init
<1>2. TypeOK /\ EpochsBelow /\ [Next]_vars => EpochsBelow'
  BY EpochsBelowNext
<1>3. TypeOK /\ EpochsBelow /\ [Next]_vars =>
        [\A p \in Pids :
            /\ main = "asleep" /\ inside <= 1
            /\ child[p] = "none" /\ child'[p] # "none"
            => \A q \in Forked : epochOf[q] < epochOf'[p]]_vars
  BY EpochGrowsStep
<1>4. QED
  BY <1>1, <1>2, <1>3, RestarterTypeCorrect, PTL DEF Spec, EpochGrows

============================================================================
