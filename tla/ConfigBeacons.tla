--------------------------- MODULE ConfigBeacons ---------------------------
(***************************************************************************)
(* scripts/config-beacons.js: an Envoy configuration is copied into each   *)
(* beacon pod, installed, and loaded by a hot restart, pod after pod.      *)
(*                                                                         *)
(* configBeacon rejects its promise when a kubectl command fails, and goes *)
(* on: before the rejection ends the process the next command is spawned,  *)
(* and it works on as an orphan.  So the commands of a failed run may act  *)
(* while the operator's next run does, perhaps with another CONFIG_FILE:   *)
(* each run copies, and installs, the basename of its own.  When the last  *)
(* command fails nothing is rejected: the process ends with status 0 where *)
(* it is.                                                                  *)
(***************************************************************************)
EXTENDS Integers, Sequences

CONSTANTS Listings,     \* what kubectl get pods may say, in order
          FileNames,    \* the basenames of the CONFIG_FILEs that are used
          MaxRuns,      \* bound on runs of the script
          MaxKubectl    \* bound on failed commands and restarted containers

BeaconPods == UNION {{l[i] : i \in DOMAIN l} : l \in Listings}

ASSUME ConfigAssumption ==
  /\ \A l \in Listings : /\ l \in Seq(BeaconPods)
                         /\ l # <<>>
                         /\ \A i, j \in DOMAIN l : l[i] = l[j] => i = j
  /\ FileNames # {}
  /\ MaxRuns \in Nat /\ MaxKubectl \in Nat

VARIABLES runNo,    \* the number of the run, and of the configuration it has
          file,     \* path.basename(CONFIG_FILE) of the run
          listed,   \* beaconPodNames
          at,       \* index of the pod the loop of main is at
          outcome,  \* "idle", "running", or how the last run ended
          commands, \* the kubectl commands that have not ended
          disk,     \* the files of each pod's envoy container
          running,  \* the configuration of each pod's Envoy
          hup,      \* the pods whose hot restarter has a SIGHUP to handle
          wiped,    \* the pods whose container was restarted
          strays,   \* the pods on which an orphan that brings another file
                    \* than the run's was the last to install
          kfaults   \* faults so far

scriptVars == <<runNo, file, listed, at, outcome, commands>>
podVars    == <<disk, hup, strays>>
configVars == <<scriptVars, podVars, running, wiped, kfaults>>

None    == -1  \* there is no such file
Image   == 0   \* the configuration of the container's image
Configs == None .. MaxRuns

NoCopies == [f \in FileNames |-> None]

Ended == {"finish", "reject", "throw"}

ConfigTypeOK ==
  /\ runNo \in 0 .. MaxRuns /\ file \in FileNames /\ at \in Nat
  /\ listed \in Listings \cup {<<>>}
  /\ outcome \in {"idle", "running"} \cup Ended
  /\ commands \subseteq [pod : BeaconPods, what : {"cp", "install", "restart"},
                          run : Nat, file : FileNames]
  /\ disk \in [BeaconPods -> [envoy : Configs, old : Configs, copied : [FileNames -> Configs]]]
  /\ running \in [BeaconPods -> Configs]
  /\ hup \subseteq BeaconPods /\ wiped \subseteq BeaconPods /\ strays \subseteq BeaconPods

ConfigInit ==
  /\ runNo = 0 /\ at = 0 /\ listed = <<>> /\ outcome = "idle" /\ commands = {}
  /\ file = CHOOSE f \in FileNames : TRUE
  /\ disk = [p \in BeaconPods |-> [envoy |-> Image, old |-> None, copied |-> NoCopies]]
  /\ running = [p \in BeaconPods |-> Image]
  /\ hup = {} /\ wiped = {} /\ strays = {} /\ kfaults = 0

----------------------------------------------------------------------------
Command(p, what) == [pod |-> p, what |-> what, run |-> runNo, file |-> file]

\* The operator chooses a CONFIG_FILE.  getBeaconPodNames: kubectl fails or
\* shows no beacon, or main begins.
Main ==
  /\ outcome # "running" /\ runNo < MaxRuns
  /\ runNo' = runNo + 1
  /\ file' \in FileNames
  /\ at' = 1
  /\ \/ /\ outcome' = "reject" /\ listed' = <<>> /\ UNCHANGED commands
     \/ \E l \in Listings :
           /\ outcome' = "running" /\ listed' = l
           /\ commands' = commands \cup
                {[pod |-> l[1], what |-> "cp", run |-> runNo', file |-> file']}
  /\ UNCHANGED <<podVars, running, wiped, kfaults>>

\* The files after a command has done its work.  To install is
\* cp /envoy.json /envoy.old.json; cp /<file> /envoy.json.
Files(c, d) ==
  CASE c.what = "cp"      -> [d EXCEPT !.copied[c.file] = c.run]
    [] c.what = "install" -> [d EXCEPT !.old = d.envoy,
                               !.envoy = IF d.copied[c.file] = None THEN d.envoy
                                         ELSE d.copied[c.file]]
    [] c.what = "restart" -> d

IsAwaited(c) ==
  outcome = "running" /\ c.run = runNo

Strays(c) ==
  IF c.what # "install" THEN strays
  ELSE IF IsAwaited(c) THEN strays \ {c.pod}
  ELSE IF c.file # file THEN strays \cup {c.pod}
  ELSE strays

Works(c) ==
  /\ disk' = [disk EXCEPT ![c.pod] = Files(c, @)]
  /\ hup' = IF c.what = "restart" THEN hup \cup {c.pod} ELSE hup
  /\ strays' = Strays(c)

\* Variant with a fault: the Envoy is told before its file is installed.
NextOfHasty(what) ==
  CASE what = "cp" -> "restart" [] what = "restart" -> "install" [] OTHER -> "done"

NextOf(what) ==
  CASE what = "cp" -> "install" [] what = "install" -> "restart" [] OTHER -> "done"

\* The next command for the pod, the next pod, or the end of the loop.
Proceed(c) ==
  IF NextOf(c.what) # "done"
  THEN /\ commands' = (commands \ {c}) \cup {Command(c.pod, NextOf(c.what))}
       /\ UNCHANGED <<at, outcome>>
  ELSE IF at < Len(listed)
       THEN /\ at' = at + 1
            /\ commands' = (commands \ {c}) \cup {Command(listed[at + 1], "cp")}
            /\ UNCHANGED outcome
       ELSE /\ outcome' = "finish"
            /\ commands' = commands \ {c}
            /\ UNCHANGED at

\* Variants with a fault: the errors that are caught are only logged; there
\* is thought to be a next command after the last one.
GiveUpNever(c) == Proceed(c)

GiveUpPast(c) ==
  /\ outcome' = "reject"
  /\ commands' = (commands \ {c}) \cup {Command(c.pod, NextOf(c.what))}
  /\ UNCHANGED at

\* reject(), and on to the next command, before process.exit(1); or an error
\* thrown in the executor of the promise, which then is never settled.
GiveUp(c) ==
  /\ outcome' = IF NextOf(c.what) = "done" THEN "throw" ELSE "reject"
  /\ commands' = (commands \ {c}) \cup
       (IF NextOf(c.what) = "done" THEN {} ELSE {Command(c.pod, NextOf(c.what))})
  /\ UNCHANGED at

\* A command succeeds: installing needs the file that was copied.
Succeeds(c) ==
  /\ c \in commands
  /\ c.what = "install" => disk[c.pod].copied[c.file] # None
  /\ Works(c)
  /\ IF IsAwaited(c) THEN Proceed(c)
     ELSE commands' = commands \ {c} /\ UNCHANGED <<at, outcome>>
  /\ UNCHANGED <<runNo, file, listed, running, wiped, kfaults>>

\* It fails, with nothing done or, when the connection is lost, with all of
\* it done.  Without the copied file only the old configuration is saved.
CommandFails(c) ==
  /\ c \in commands
  /\ IF c.what = "install" /\ disk[c.pod].copied[c.file] = None
     THEN Works(c) /\ UNCHANGED kfaults
     ELSE /\ kfaults < MaxKubectl /\ kfaults' = kfaults + 1
          /\ Works(c) \/ UNCHANGED podVars
  /\ IF IsAwaited(c) THEN GiveUp(c)
     ELSE commands' = commands \ {c} /\ UNCHANGED <<at, outcome>>
  /\ UNCHANGED <<runNo, file, listed, running, wiped>>

\* The hot restarter starts an Envoy with what is installed.
EnvoyStarts(p) ==
  /\ p \in hup
  /\ hup' = hup \ {p}
  /\ running' = [running EXCEPT ![p] = disk[p].envoy]
  /\ UNCHANGED <<scriptVars, disk, wiped, strays, kfaults>>

\* The envoy container is restarted from its image.
ContainerRestarts(p) ==
  /\ kfaults < MaxKubectl /\ kfaults' = kfaults + 1
  /\ disk' = [disk EXCEPT ![p] = [envoy |-> Image, old |-> None, copied |-> NoCopies]]
  /\ running' = [running EXCEPT ![p] = Image]
  /\ hup' = hup \ {p}
  /\ wiped' = wiped \cup {p}
  /\ UNCHANGED <<scriptVars, strays>>

ConfigNext ==
  \/ Main
  \/ \E c \in commands : Succeeds(c) \/ CommandFails(c)
  \/ \E p \in BeaconPods : EnvoyStarts(p) \/ ContainerRestarts(p)

CommandEnds == \E c \in commands : Succeeds(c) \/ CommandFails(c)

ConfigFairness ==
  /\ WF_configVars(CommandEnds)
  /\ \A p \in BeaconPods : WF_configVars(EnvoyStarts(p))

ConfigSpec == ConfigInit /\ [][ConfigNext]_configVars /\ ConfigFairness

----------------------------------------------------------------------------
\* p has what this run brings, but for what others did to it.
Configured(p) ==
  \/ p \in wiped \cup strays
  \/ disk[p].envoy = runNo /\ (p \in hup \/ running[p] = runNo)

(***************************************************************************)
(* The pods are configured one at a time: those before the current one     *)
(* have the new configuration installed and their Envoy told, and those    *)
(* after it have nothing of it.  A run that finishes has configured them   *)
(* all.  The orphans of an earlier run change nothing of this when they    *)
(* bring the same file, and one that brings another spoils only the pod it *)
(* installs on after the run has been there (config-beacons.js:233-241).   *)
(***************************************************************************)
PodByPod ==
  \A i \in DOMAIN listed :
     /\ i < at \/ outcome = "finish" => Configured(listed[i])
     /\ i > at => /\ disk[listed[i]].envoy < runNo
                 /\ \A f \in FileNames : disk[listed[i]].copied[f] < runNo

(***************************************************************************)
(* A run that finishes reaches the Envoys of the pods it listed, except    *)
(* where an orphan has installed another file after it.                    *)
(***************************************************************************)
FinishedIsRunning ==
  \A n \in 1 .. MaxRuns, p \in BeaconPods :
     (outcome = "finish" /\ runNo = n /\ \E i \in DOMAIN listed : listed[i] = p)
        ~> (running[p] >= n \/ p \in wiped \cup strays)
=============================================================================
