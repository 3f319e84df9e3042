---------------------------- MODULE HotRestarter ----------------------------
(* hot-restarter.py, the first process of every Envoy container (six equal    *)
(* copies; the lines are those of beacon-envoy). It starts an Envoy, starts   *)
(* another next to it on SIGHUP, and ends when an Envoy fails, when the last  *)
(* one is gone or on SIGTERM.                                                 *)
(*                                                                            *)
(* Signals are flags: two of a kind that arrive before the handler runs are   *)
(* one. The interpreter (CPython 2.7: the script is Python 2) runs a handler  *)
(* in the main thread between two bytecodes of main, and never a handler      *)
(* inside a handler, since it does not recurse into pending calls. So main is *)
(* stepwise, the handlers of SIGHUP and SIGTERM are one step each, and that   *)
(* of SIGCHLD polls one child per step, because a child may end between two   *)
(* polls. To read restart_epoch and to write what was made of it are two      *)
(* steps of main: in between a handler may count on. The lists are sets: a    *)
(* pid is in them once, and the loops may take them in any order. After       *)
(* force_kill_all_children the script always exits, so the removal of the     *)
(* SIGCHLD handler (line 18) shows nowhere. SIGUSR1 is passed on to the       *)
(* children and changes nothing here.                                         *)
EXTENDS Integers, FiniteSets

CONSTANT MaxForks              \* children over the run: bounds the SIGHUPs

ASSUME MaxForksAssumption == MaxForks \in Nat \ {0}

Pids == 1..MaxForks
Signals == {"HUP", "CHLD", "TERM"}
States == {"none", "running", "ok", "failed", "killed"}

VARIABLES
    child,          \* what the kernel knows of each pid
    epochOf,        \* RESTART_EPOCH in the environment of each child
    pid_list,
    restart_epoch,
    environ,        \* os.environ['RESTART_EPOCH'] of the restarter
    loaded,         \* the restart_epoch that main has read and not yet used
    inside,         \* SIGHUPs handled inside main's += (kept for EpochGrows)
    main,           \* where main is: in its fork_and_exec, or asleep
    child_pid,      \* its local in main's fork_and_exec
    tripped,        \* the signals that have arrived and are not handled
    polling,        \* the SIGCHLD handler is running
    pid_list_copy,  \* what is left of its loop
    kill_all_and_exit,
    status          \* "up", or how the restarter ended

handler == <<polling, pid_list_copy, kill_all_and_exit>>
kernel == <<child, epochOf>>
reading == <<loaded, inside>>
vars == <<child, epochOf, pid_list, restart_epoch, environ, loaded, inside,
          main, child_pid, tripped, polling, pid_list_copy,
          kill_all_and_exit, status>>

Up == status = "up"
Running == {p \in Pids : child[p] = "running"}
Unappended == IF main = "append" THEN {child_pid} ELSE {}
NewPid(p) == /\ child[p] = "none"
             /\ \A q \in Pids : q < p => child[q] # "none"

Init ==
    /\ child = [p \in Pids |-> "none"]
    /\ epochOf = [p \in Pids |-> 0]
    /\ pid_list = {}
    /\ restart_epoch = 0
    /\ environ = 0
    /\ loaded = 0
    /\ inside = 0
    /\ main = "read"
    /\ child_pid = 0
    /\ tripped = {}
    /\ polling = FALSE
    /\ pid_list_copy = {}
    /\ kill_all_and_exit = FALSE
    /\ status = "up"

(* Variant with a fault: the epoch is not counted.                            *)
SameEpoch(epoch) == epoch

NextEpoch(epoch) == epoch + 1

(* fork_and_exec as main runs it: a handler may come between any two steps.   *)
MainSteps(at) == Up /\ ~polling /\ main = at

(* restart_epoch is read for the environment and, again, to be counted.       *)
LoadEpoch ==
    /\ \/ MainSteps("read") /\ main' = "environ"
       \/ MainSteps("load") /\ main' = "store"
    /\ loaded' = restart_epoch
    /\ UNCHANGED <<kernel, pid_list, restart_epoch, environ, inside, child_pid,
                   tripped, handler, status>>

SetEpoch ==
    /\ MainSteps("environ")
    /\ environ' = loaded
    /\ main' = "load"
    /\ UNCHANGED <<kernel, pid_list, restart_epoch, reading, child_pid,
                   tripped, handler, status>>

(* What the handlers have counted since the load is lost.                     *)
StoreEpoch ==
    /\ MainSteps("store")
    /\ restart_epoch' = NextEpoch(loaded)
    /\ main' = "fork"
    /\ UNCHANGED <<kernel, pid_list, environ, reading, child_pid, tripped,
                   handler, status>>

(* Variant with a fault: what os.fork() returns is not kept.                  *)
KeepsNoPid(p) == UNCHANGED child_pid

KeepsPid(p) == child_pid' = p

Fork ==
    /\ MainSteps("fork")
    /\ \E p \in Pids :
          /\ NewPid(p)
          /\ child' = [child EXCEPT ![p] = "running"]
          /\ epochOf' = [epochOf EXCEPT ![p] = environ]
          /\ KeepsPid(p)
    /\ main' = "append"
    /\ UNCHANGED <<pid_list, restart_epoch, environ, reading, tripped, handler,
                   status>>

AppendPid ==
    /\ MainSteps("append")
    /\ pid_list' = pid_list \cup {child_pid}
    /\ main' = "asleep"
    /\ UNCHANGED <<kernel, restart_epoch, environ, reading, child_pid, tripped,
                   handler, status>>

(* The handlers.                                                              *)
Handles(sig) == Up /\ ~polling /\ sig \in tripped

ForkAndExec ==
    \E p \in Pids :
        /\ NewPid(p)
        /\ child' = [child EXCEPT ![p] = "running"]
        /\ epochOf' = [epochOf EXCEPT ![p] = restart_epoch]
        /\ environ' = restart_epoch
        /\ restart_epoch' = NextEpoch(restart_epoch)
        /\ pid_list' = pid_list \cup {p}

SighupHandler ==
    /\ Handles("HUP")
    /\ tripped' = tripped \ {"HUP"}
    /\ ForkAndExec
    /\ inside' = IF main = "store" THEN inside + 1 ELSE inside
    /\ UNCHANGED <<loaded, main, child_pid, handler, status>>

(* Variant with a fault: the list is emptied before the loop over it.         *)
ForgetThenKill == UNCHANGED child /\ pid_list' = {}

ForceKillAllChildren ==
    /\ child' = [p \in Pids |-> IF p \in pid_list /\ child[p] = "running"
                                THEN "killed" ELSE child[p]]
    /\ pid_list' = {}

SigtermHandler ==
    /\ Handles("TERM")
    /\ tripped' = tripped \ {"TERM"}
    /\ ForceKillAllChildren
    /\ status' = "terminated"
    /\ UNCHANGED <<epochOf, restart_epoch, environ, reading, main, child_pid,
                   handler>>

SigchldHandler ==
    /\ Handles("CHLD")
    /\ tripped' = tripped \ {"CHLD"}
    /\ polling' = TRUE
    /\ pid_list_copy' = pid_list
    /\ kill_all_and_exit' = FALSE
    /\ UNCHANGED <<kernel, pid_list, restart_epoch, environ, reading, main,
                   child_pid, status>>

(* Variant with a fault: without the test at line 71.                         *)
NeverRunning(pid) == FALSE

IsRunning(pid) == child[pid] = "running"

(* Variant with a fault: the last child that ended decides.                   *)
LastAbnormal(pid) == child[pid] # "ok"

Abnormal(pid) == kill_all_and_exit \/ child[pid] # "ok"

(* Variant with a fault: the loop ends at the first child that has ended.     *)
LeftUntilFound(pid) ==
    IF child[pid] = "running" THEN pid_list_copy \ {pid} ELSE {}

Left(pid) == pid_list_copy \ {pid}

(* waitpid with WNOHANG, and what the exit status makes of the child.         *)
Poll(pid) ==
    /\ Up /\ polling
    /\ pid \in pid_list_copy
    /\ pid_list_copy' = Left(pid)
    /\ IF IsRunning(pid)
       THEN UNCHANGED <<pid_list, kill_all_and_exit>>
       ELSE pid_list' = pid_list \ {pid} /\ kill_all_and_exit' = Abnormal(pid)
    /\ UNCHANGED <<kernel, restart_epoch, environ, reading, main, child_pid,
                   tripped, polling, status>>

(* Variant with a fault: it does not look whether a child is left.            *)
NoneLeftIgnored == FALSE

NoneLeft == pid_list = {}

(* The end of the handler: tear down, leave, or back to main.                 *)
EndPoll ==
    /\ Up /\ polling
    /\ pid_list_copy = {}
    /\ polling' = FALSE
    /\ \/ /\ kill_all_and_exit
          /\ ForceKillAllChildren
          /\ status' = "exit1"
       \/ /\ ~kill_all_and_exit
          /\ UNCHANGED <<child, pid_list>>
          /\ status' = IF NoneLeft THEN "exit0" ELSE "up"
    /\ UNCHANGED <<epochOf, restart_epoch, environ, reading, main, child_pid,
                   tripped, pid_list_copy, kill_all_and_exit>>

(* The world: operators, the container runtime and the Envoys themselves.     *)
Forked == {p \in Pids : child[p] # "none"}
Owed == IF main \in {"append", "asleep"} THEN 0 ELSE 1

SendSignal(sig) ==
    /\ Up
    /\ sig = "HUP" => /\ sig \notin tripped
                      /\ Cardinality(Forked) + Owed < MaxForks
    /\ tripped' = tripped \cup {sig}
    /\ UNCHANGED <<kernel, pid_list, restart_epoch, environ, reading, main,
                   child_pid, handler, status>>

ChildEnds(p, how) ==
    /\ Up
    /\ child[p] = "running"
    /\ child' = [child EXCEPT ![p] = how]
    /\ tripped' = tripped \cup {"CHLD"}
    /\ UNCHANGED <<epochOf, pid_list, restart_epoch, environ, reading, main,
                   child_pid, handler, status>>

Restarter == \/ LoadEpoch \/ SetEpoch \/ StoreEpoch \/ Fork \/ AppendPid
             \/ SighupHandler \/ SigtermHandler
             \/ SigchldHandler \/ (\E pid \in Pids : Poll(pid)) \/ EndPoll

Next == \/ Restarter
        \/ \E sig \in {"HUP", "TERM"} : SendSignal(sig)
        \/ \E p \in Pids, how \in {"ok", "failed"} : ChildEnds(p, how)

Spec == Init /\ [][Next]_vars

(* Fairness: the interpreter goes on and comes to every signal that is        *)
(* pending. No child need end and no signal need be sent.                     *)
Fairness == /\ WF_vars(LoadEpoch \/ SetEpoch \/ StoreEpoch \/ Fork \/ AppendPid)
            /\ WF_vars(SighupHandler)
            /\ WF_vars(SigtermHandler)
            /\ WF_vars(SigchldHandler)
            /\ WF_vars((\E pid \in Pids : Poll(pid)) \/ EndPoll)
FairSpec == Spec /\ Fairness

(* Every variable has values of its kind.                                     *)
TypeOK ==
    /\ child \in [Pids -> States]
    /\ epochOf \in [Pids -> Nat]
    /\ pid_list \subseteq Pids
    /\ restart_epoch \in Nat /\ environ \in Nat
    /\ loaded \in Nat /\ inside \in Nat
    /\ main \in {"read", "environ", "load", "store", "fork", "append", "asleep"}
    /\ child_pid \in Pids \cup {0}
    /\ tripped \subseteq Signals
    /\ polling \in BOOLEAN /\ kill_all_and_exit \in BOOLEAN
    /\ pid_list_copy \subseteq Pids
    /\ status \in {"up", "exit0", "exit1", "terminated"}

(* While the restarter is up it knows of every child that runs, but for the   *)
(* one main has forked and not yet appended: the handler that polls and       *)
(* removes never drops a child that still runs (hot-restarter.py:68-75).      *)
RunningIsTracked ==
    Up => Running \subseteq pid_list \cup Unappended

(* A restarter that has come to sleep takes its Envoys with it: however it    *)
(* exits afterwards, no child is left running beside the next one the         *)
(* container starts (force_kill_all_children, and the exit at line 99).       *)
NothingLeftBehind == ~Up /\ main = "asleep" => Running = {}

(* The exit code, once main sleeps: 1 only for a child that failed, and 0     *)
(* for want of children only if none did, however the deaths and their        *)
(* coalesced signals fall between the polls (lines 77-101).                   *)
ExitCodeTells ==
    /\ status = "exit1" => \E p \in Pids : child[p] = "failed"
    /\ status = "exit0" /\ main = "asleep" =>
          \A p \in Pids : child[p] = "ok"  \/ child[p] = "none"

(* The Envoys of hot restarts after main sleeps get epochs above all the      *)
(* earlier ones, as start-envoy.sh hands RESTART_EPOCH to --restart-epoch and *)
(* two Envoys of one epoch cannot live side by side: one SIGHUP handled       *)
(* between the load and the store of main's own restart_epoch += 1, whose     *)
(* count is lost, does no harm. Two of them do: main then takes the counter   *)
(* back, and the next hot restart repeats an epoch (line 111).                *)
EpochGrows ==
    [][\A p \in Pids :
          /\ main = "asleep" /\ inside <= 1
          /\ child[p] = "none" /\ child'[p] # "none"
          => \A q \in Forked : epochOf[q] < epochOf'[p]]_vars

(* Something bad happened to one of the Envoys: the restarter comes down,     *)
(* though the SIGCHLD may come in the middle of the loop that has already     *)
(* polled that child, or be one with another child's (lines 82-96).           *)
FailureEndsIt ==
    \A p \in Pids :
       [](main = "asleep" /\ child[p] = "running" =>
            [](child[p] = "failed" => <>(~Up)))

(* "Our last child died, so we have no purpose": the restarter does not stay  *)
(* up without a running child, unless a SIGHUP gives it another (lines        *)
(* 98-101).                                                                   *)
LastEndsIt == (main = "asleep" /\ Running = {}) ~> (~Up \/ Running # {})

(* "so that whoever started the restarter can know about this situation":     *)
(* an exit for want of children says 0 only if none of them failed. A first   *)
(* Envoy that fails between fork and append is in no list, so the SIGCHLD     *)
(* handler finds nothing and exits with 0.                                    *)
FailureIsReported ==
    status = "exit0" => \A p \in Pids : child[p] # "failed"
=============================================================================
