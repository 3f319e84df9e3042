----------------------------- MODULE ToolsProofs -----------------------------
(***************************************************************************)
(* Proofs about ConfigBeacons, ResetLocpicks and Obus inside Tools, for    *)
(* any pods, listings, locpicks, zones, calls and bounds.                  *)
(*                                                                         *)
(* config-beacons: only the command that a run waits for copies a file, so *)
(* that what an orphan installs is of the run under way or of an earlier   *)
(* one.  It undoes what the run has done only when it brings another file, *)
(* and then the pod is one of the strays.                                  *)
(* reset-locpicks: each address that was reset has the zone of its place   *)
(* in the list, and no two places have the same zone.                      *)
(* obus: what is on its way to the client continues what it was given, and *)
(* says at its end that it was all.                                        *)
(***************************************************************************)
EXTENDS Tools, TLAPS

Commands ==
  [pod : BeaconPods, what : {"cp", "install", "restart"}, run : Nat, file : FileNames]

PodFiles == [envoy : Int, old : Int, copied : [FileNames -> Int]]

ConfigBase ==
  /\ runNo \in Nat /\ at \in Nat /\ file \in FileNames
  /\ listed \in Listings \cup {<<>>}
  /\ listed # <<>> => runNo > 0
  /\ outcome \in {"idle", "running"} \cup Ended
  /\ commands \subseteq Commands
  /\ disk \in [BeaconPods -> PodFiles]
  /\ running \in [BeaconPods -> Int]

\* Nothing is of a later run, and the commands of this one bring its file.
Bounded ==
  /\ \A c \in commands : c.run <= runNo /\ (c.run = runNo => c.file = file)
  /\ \A p \in BeaconPods :
       /\ \A f \in FileNames : disk[p].copied[f] <= runNo
       /\ disk[p].envoy <= runNo

\* The file and the configuration of p are of this run.
Holds(p) == disk[p].copied[file] = runNo /\ disk[p].envoy = runNo

\* Neither is, yet.
Lacks(p) ==
  /\ \A f \in FileNames : disk[p].copied[f] < runNo
  /\ disk[p].envoy < runNo

\* What has been done for the current pod before the command c.
Before(c) ==
  /\ c.what = "install" => c.pod \in wiped \/ disk[c.pod].copied[file] = runNo
  /\ c.what = "restart" => c.pod \in wiped \cup strays \/ Holds(c.pod)

\* A run that is under way waits for one command, for its current pod; and
\* only that command can be a copy.
Awaited ==
  /\ \A c \in commands : c.what = "cp" => IsAwaited(c)
  /\ outcome = "running" =>
       /\ at \in DOMAIN listed
       /\ \A c \in commands : IsAwaited(c) => c.pod = listed[at] /\ Before(c)
       /\ \A c, d \in commands : IsAwaited(c) /\ IsAwaited(d) => c = d

DoneWith(p) ==
  p \in wiped \cup strays \/ (Holds(p) /\ (p \in hup \/ running[p] = runNo))

Behind == \A i \in DOMAIN listed : i < at \/ outcome = "finish" => DoneWith(listed[i])

Ahead == \A i \in DOMAIN listed : i > at => Lacks(listed[i])

ConfigInv == ConfigBase /\ Bounded /\ Awaited /\ Behind /\ Ahead

----------------------------------------------------------------------------
\* The pods of a listing are pods.
LEMMA ListedPods ==
  ASSUME listed \in Listings \cup {<<>>}
  PROVE  /\ listed \in Seq(BeaconPods)
         /\ DOMAIN listed = 1 .. Len(listed) /\ Len(listed) \in Nat
         /\ \A i \in DOMAIN listed : listed[i] \in BeaconPods
         /\ \A i, j \in DOMAIN listed : listed[i] = listed[j] => i = j
<1>1. listed \in Seq(BeaconPods)
  <2>1. CASE listed = <<>>
    BY <2>1
  <2>2. CASE listed \in Listings
    BY <2>2, ConfigAssumption, Zenon
  <2>3. QED BY <2>1, <2>2
<1>2. \A i, j \in DOMAIN listed : listed[i] = listed[j] => i = j
  <2>1. CASE listed = <<>>
    <3>1. DOMAIN listed = {}
      BY <2>1
    <3>2. QED BY <3>1
  <2>2. CASE listed \in Listings
    BY <2>2, ConfigAssumption, Zenon
  <2>3. QED BY <2>1, <2>2
<1>3. QED BY <1>1, <1>2

\* What the work of a command does to the files of its pod.
LEMMA FilesOf ==
  ASSUME ConfigInv, NEW c \in commands
  PROVE  LET d == Files(c, disk[c.pod])
         IN  /\ d \in PodFiles
             /\ \A f \in FileNames :
                  d.copied[f] = IF c.what = "cp" /\ f = c.file THEN c.run
                                ELSE disk[c.pod].copied[f]
             /\ d.envoy = IF c.what = "install" /\ disk[c.pod].copied[c.file] # None
                          THEN disk[c.pod].copied[c.file] ELSE disk[c.pod].envoy
<1>1. /\ c.what \in {"cp", "install", "restart"} /\ c.run \in Int /\ c.pod \in BeaconPods
      /\ c.file \in FileNames
  BY DEF ConfigInv, ConfigBase, Commands
<1>2. disk[c.pod] \in PodFiles
  BY <1>1 DEF ConfigInv, ConfigBase
<1>3. CASE c.what = "cp"
  BY <1>1, <1>2, <1>3 DEF Files, PodFiles
<1>4. CASE c.what = "install"
  BY <1>1, <1>2, <1>4 DEF Files, PodFiles
<1>5. CASE c.what = "restart"
  BY <1>2, <1>5 DEF Files, PodFiles
<1>6. QED BY <1>1, <1>3, <1>4, <1>5

\* The work of a command, or nothing, for its pod.
Touch(c) == Works(c) \/ UNCHANGED podVars

\* A command leaves the pods to come where they are, and makes none of the
\* pods of the run fall back, but for the current one and its own command.
LEMMA TouchKeeps ==
  ASSUME ConfigInv, NEW c \in commands, Touch(c),
         UNCHANGED <<runNo, file, running, wiped>>
  PROVE  /\ disk' \in [BeaconPods -> PodFiles]
         /\ \A p \in BeaconPods :
              /\ \A f \in FileNames : disk'[p].copied[f] <= runNo
              /\ disk'[p].envoy <= runNo
              /\ disk[p].copied[file] = runNo => disk'[p].copied[file] = runNo
              /\ ~(IsAwaited(c) /\ c.pod = p) =>
                   /\ DoneWith(p) => DoneWith(p)'
                   /\ p \in wiped \cup strays \/ Holds(p) =>
                        p \in wiped' \cup strays' \/ Holds(p)'
                   /\ Lacks(p) => Lacks(p)'
<1> USE DEF ConfigInv, ConfigBase
<1>1. /\ c.pod \in BeaconPods /\ c.run \in Nat /\ runNo \in Nat /\ c.run <= runNo
      /\ c.file \in FileNames /\ file \in FileNames
      /\ c.run = runNo => c.file = file
  BY DEF Commands, Bounded
<1>2. CASE UNCHANGED podVars
  BY <1>2 DEF podVars, Bounded, DoneWith, Holds, Lacks
<1>3. CASE Works(c)
  <2>0. PICK d : d = Files(c, disk[c.pod])
    OBVIOUS
  <2>1. /\ d \in PodFiles
        /\ \A f \in FileNames :
             d.copied[f] = IF c.what = "cp" /\ f = c.file THEN c.run
                           ELSE disk[c.pod].copied[f]
        /\ d.envoy = IF c.what = "install" /\ disk[c.pod].copied[c.file] # None
                     THEN disk[c.pod].copied[c.file] ELSE disk[c.pod].envoy
    BY <2>0, FilesOf
  <2>2. disk' = [disk EXCEPT ![c.pod] = d] /\ hup \subseteq hup'
    BY <1>3, <2>0 DEF Works
  <2>3. c.what = "cp" => c.run = runNo /\ IsAwaited(c)
    BY DEF Awaited, IsAwaited
  <2>4. disk' \in [BeaconPods -> PodFiles]
    BY <1>1, <2>1, <2>2
  <2>5. ASSUME NEW p \in BeaconPods, p # c.pod
        PROVE  /\ disk'[p] = disk[p] /\ (p \in strays => p \in strays')
               /\ \A f \in FileNames : disk'[p].copied[f] <= runNo
               /\ disk'[p].envoy <= runNo
    BY <1>3, <2>2, <2>5 DEF Works, Strays, Bounded
  <2>6. /\ \A f \in FileNames : d.copied[f] \in Int /\ d.copied[f] <= runNo
        /\ d.envoy \in Int /\ d.envoy <= runNo
        /\ disk[c.pod].copied[file] = runNo => d.copied[file] = runNo
    <3>1. /\ \A f \in FileNames : /\ disk[c.pod].copied[f] \in Int
                                   /\ disk[c.pod].copied[f] <= runNo
          /\ disk[c.pod].envoy \in Int /\ disk[c.pod].envoy <= runNo
      BY <1>1 DEF Bounded, PodFiles
    <3>2. QED BY <1>1, <2>1, <2>3, <3>1
  <2>7. ASSUME ~IsAwaited(c)
        PROVE  /\ \A f \in FileNames : d.copied[f] = disk[c.pod].copied[f]
               /\ c.pod \in strays => c.pod \in strays'
               /\ Holds(c.pod) => c.pod \in strays' \/ d.envoy = runNo
               /\ Lacks(c.pod) => d.envoy < runNo
    <3>1. \A f \in FileNames : d.copied[f] = disk[c.pod].copied[f]
      BY <2>1, <2>3, <2>7
    <3>2. strays \subseteq strays'
      BY <1>3, <2>7 DEF Works, Strays
    <3>3. c.what = "install" /\ c.file # file => c.pod \in strays'
      BY <1>3, <2>7, <3>2 DEF Works, Strays
    <3>4. d.envoy = disk[c.pod].envoy
          \/ (c.what = "install" /\ d.envoy = disk[c.pod].copied[c.file])
      BY <2>1
    <3>5. QED BY <1>1, <3>1, <3>2, <3>3, <3>4 DEF Holds, Lacks
  <2>8. disk'[c.pod] = d
    BY <1>1, <2>2
  <2>9. ASSUME ~IsAwaited(c)
        PROVE  /\ DoneWith(c.pod) => DoneWith(c.pod)'
               /\ c.pod \in wiped \cup strays \/ Holds(c.pod) =>
                    c.pod \in wiped' \cup strays' \/ Holds(c.pod)'
               /\ Lacks(c.pod) => Lacks(c.pod)'
    <3>1. c.pod \in wiped \cup strays \/ Holds(c.pod) =>
            c.pod \in wiped' \cup strays' \/ Holds(c.pod)'
      BY <1>1, <2>7, <2>8, <2>9 DEF Holds
    <3>2. Lacks(c.pod) => Lacks(c.pod)'
      BY <1>1, <2>7, <2>8, <2>9 DEF Lacks
    <3>3. ASSUME DoneWith(c.pod) PROVE DoneWith(c.pod)'
      <4>1. CASE c.pod \in wiped \cup strays
        BY <2>7, <2>9, <4>1 DEF DoneWith
      <4>2. CASE c.pod \notin wiped \cup strays
        BY <2>2, <3>1, <3>3, <4>2 DEF DoneWith
      <4>3. QED BY <4>1, <4>2
    <3>4. QED BY <3>1, <3>2, <3>3
  <2>10. ASSUME NEW p \in BeaconPods, p # c.pod
         PROVE  /\ DoneWith(p) => DoneWith(p)'
                /\ p \in wiped \cup strays \/ Holds(p) =>
                     p \in wiped' \cup strays' \/ Holds(p)'
                /\ Lacks(p) => Lacks(p)'
    BY <2>2, <2>5, <2>10 DEF DoneWith, Holds, Lacks
  <2>11. QED BY <2>4, <2>5, <2>6, <2>8, <2>9, <2>10
<1>4. QED BY <1>2, <1>3 DEF Touch

\* A command goes on, by itself or as a step of the run under way.
Goes(c) ==
  \/ ~IsAwaited(c) /\ commands' = commands \ {c} /\ UNCHANGED <<at, outcome>>
  \/ IsAwaited(c) /\ GiveUp(c)
  \/ IsAwaited(c) /\ Proceed(c) /\ Works(c)
     /\ (c.what = "install" => disk[c.pod].copied[c.file] # None)

LEMMA CommandsNext ==
  ASSUME ConfigInv, NEW c \in commands, Goes(c), UNCHANGED <<runNo, file, listed>>
  PROVE  /\ at' \in Nat /\ outcome' \in {"idle", "running"} \cup Ended
         /\ commands' \subseteq Commands
         /\ \A d \in commands' : d.run <= runNo /\ (d.run = runNo => d.file = file)
<1> USE DEF ConfigInv, ConfigBase
<1>1. /\ c \in Commands /\ c.run <= runNo /\ runNo \in Nat /\ at \in Nat
  BY DEF Bounded
<1>2. ASSUME NEW p \in BeaconPods, NEW what \in {"cp", "install", "restart"}
      PROVE  /\ Command(p, what) \in Commands /\ Command(p, what).run = runNo
             /\ Command(p, what).file = file
  BY DEF Command, Commands
<1>3. CASE ~IsAwaited(c) /\ commands' = commands \ {c} /\ UNCHANGED <<at, outcome>>
  BY <1>3 DEF Bounded
<1>4. c.pod \in BeaconPods /\ c.what \in {"cp", "install", "restart"}
  BY <1>1 DEF Commands
<1>5. CASE IsAwaited(c) /\ GiveUp(c)
  <2>1. at' = at /\ outcome' \in Ended
    BY <1>5 DEF GiveUp, Ended
  <2>2. CASE c.what = "restart"
    BY <1>5, <2>1, <2>2 DEF GiveUp, NextOf, Bounded
  <2>3. CASE c.what # "restart"
    <3>1. commands' = (commands \ {c}) \cup {Command(c.pod, NextOf(c.what))}
      BY <1>4, <1>5, <2>3 DEF GiveUp, NextOf
    <3>2. NextOf(c.what) \in {"cp", "install", "restart"}
      BY <1>4, <2>3 DEF NextOf
    <3>3. QED BY <1>1, <1>2, <1>4, <2>1, <3>1, <3>2 DEF Bounded
  <2>4. QED BY <2>2, <2>3
<1>6. CASE IsAwaited(c) /\ Proceed(c)
  <2>1. CASE NextOf(c.what) # "done"
    <3>1. NextOf(c.what) \in {"cp", "install", "restart"}
      BY <1>4, <2>1 DEF NextOf
    <3>2. QED BY <1>1, <1>2, <1>4, <1>6, <2>1, <3>1 DEF Proceed, Bounded
  <2>2. CASE NextOf(c.what) = "done" /\ at < Len(listed)
    <3>1. at + 1 \in DOMAIN listed
      BY <1>1, <2>2, ListedPods
    <3>2. listed[at + 1] \in BeaconPods
      BY <3>1, ListedPods
    <3>3. QED BY <1>1, <1>2, <1>6, <2>2, <3>2 DEF Proceed, Bounded
  <2>3. CASE NextOf(c.what) = "done" /\ ~(at < Len(listed))
    BY <1>6, <2>3 DEF Proceed, Bounded, Ended
  <2>4. QED BY <2>1, <2>2, <2>3
<1>7. QED BY <1>3, <1>5, <1>6 DEF Goes

\* A command that ends keeps the invariant.
LEMMA CommandInv ==
  ASSUME ConfigInv, NEW c \in commands, Touch(c), Goes(c),
         UNCHANGED <<runNo, file, listed, running, wiped>>
  PROVE  ConfigInv'
<1> USE DEF ConfigInv, ConfigBase
<1>1. /\ c \in Commands /\ c.pod \in BeaconPods /\ c.what \in {"cp", "install", "restart"}
      /\ runNo \in Nat /\ at \in Nat
  BY DEF Commands
<1>2. /\ DOMAIN listed = 1 .. Len(listed) /\ Len(listed) \in Nat
      /\ \A i \in DOMAIN listed : listed[i] \in BeaconPods
      /\ \A i, j \in DOMAIN listed : listed[i] = listed[j] => i = j
  BY ListedPods
<1>3. /\ disk' \in [BeaconPods -> PodFiles]
      /\ \A p \in BeaconPods :
           /\ \A f \in FileNames : disk'[p].copied[f] <= runNo
           /\ disk'[p].envoy <= runNo
           /\ disk[p].copied[file] = runNo => disk'[p].copied[file] = runNo
           /\ ~(IsAwaited(c) /\ c.pod = p) =>
                /\ DoneWith(p) => DoneWith(p)'
                /\ p \in wiped \cup strays \/ Holds(p) =>
                     p \in wiped' \cup strays' \/ Holds(p)'
                /\ Lacks(p) => Lacks(p)'
  BY TouchKeeps
<1>4. /\ at' \in Nat /\ outcome' \in {"idle", "running"} \cup Ended
      /\ commands' \subseteq Commands
      /\ \A d \in commands' : d.run <= runNo /\ (d.run = runNo => d.file = file)
  BY CommandsNext
<1>5. ConfigBase' /\ Bounded'
  BY <1>3, <1>4 DEF Bounded
<1>6. ASSUME ~IsAwaited(c), NEW d \in commands, Before(d)
      PROVE  Before(d)'
  <2>1. d.pod \in BeaconPods
    BY DEF Commands
  <2>2. QED BY <1>3, <1>6, <2>1 DEF Before
<1>7. IsAwaited(c) => /\ outcome = "running" /\ at \in DOMAIN listed /\ c.pod = listed[at]
                      /\ c.run = runNo /\ c.file = file /\ Before(c)
                      /\ \A d \in commands : d.run = runNo => d = c
  BY DEF Awaited, IsAwaited, Bounded
<1>7a. ASSUME NEW i \in DOMAIN listed, i < at \/ outcome = "finish"
       PROVE  DoneWith(listed[i])'
  <2>1. ~(IsAwaited(c) /\ c.pod = listed[i])
    BY <1>1, <1>2, <1>7, <1>7a
  <2>2. DoneWith(listed[i])
    BY <1>7a DEF Behind
  <2>3. QED BY <1>2, <1>3, <2>1, <2>2
<1>8. ASSUME NEW i \in DOMAIN listed,
             i > at' \/ (i > at /\ at' = at)
      PROVE  Lacks(listed[i])'
  <2>1. at' = at \/ at' = at + 1
    BY DEF Goes, GiveUp, Proceed
  <2>2. i > at
    BY <1>1, <1>2, <1>8, <2>1
  <2>3. ASSUME IsAwaited(c), c.pod = listed[i]
        PROVE  FALSE
    <3>1. at = i
      BY <1>2, <1>7, <2>3
    <3>2. QED BY <1>1, <2>2, <3>1
  <2>4. QED BY <1>2, <1>3, <2>2, <2>3 DEF Ahead
<1>9. Ahead'
  BY <1>8 DEF Ahead
<1>10. CASE ~IsAwaited(c) /\ commands' = commands \ {c} /\ UNCHANGED <<at, outcome>>
  <2>1. Behind'
    BY <1>10, <1>7a DEF Behind
  <2>2. \A d \in commands' : IsAwaited(d)' = IsAwaited(d)
    BY <1>10 DEF IsAwaited
  <2>3. Awaited'
    BY <1>6, <1>10, <2>2 DEF Awaited
  <2>4. QED BY <1>5, <1>9, <2>1, <2>3
<1>11. CASE IsAwaited(c) /\ GiveUp(c)
  <2>1. at' = at /\ outcome' \in {"reject", "throw"}
    BY <1>11 DEF GiveUp
  <2>2. Behind'
    BY <1>7a, <2>1 DEF Behind
  <2>3. ASSUME NEW d \in commands'
        PROVE  d.what # "cp"
    <3>1. CASE d \in commands \ {c}
      BY <1>7, <1>11, <3>1 DEF Awaited, IsAwaited
    <3>2. CASE d \notin commands \ {c}
      <4>1. c.what # "restart" /\ d = Command(c.pod, NextOf(c.what))
        BY <1>1, <1>11, <2>3, <3>2 DEF GiveUp, NextOf
      <4>2. QED BY <1>1, <4>1 DEF Command, NextOf
    <3>3. QED BY <3>1, <3>2
  <2>4. Awaited'
    BY <2>1, <2>3 DEF Awaited
  <2>5. QED BY <1>5, <1>9, <2>2, <2>4
<1>12. CASE IsAwaited(c) /\ Proceed(c) /\ Works(c)
     /\ (c.what = "install" => disk[c.pod].copied[c.file] # None)
  <2>0. PICK d : d = Files(c, disk[c.pod])
    OBVIOUS
  <2>1. /\ d.copied[file] = IF c.what = "cp" THEN runNo ELSE disk[c.pod].copied[file]
        /\ c.what = "install" => d.envoy = disk[c.pod].copied[file]
        /\ c.what = "restart" => d.envoy = disk[c.pod].envoy
    <3>1. c.run = runNo /\ c.file = file
      BY <1>7, <1>12
    <3>2. QED BY <1>12, <2>0, <3>1, FilesOf
  <2>2. disk'[c.pod] = d
    BY <1>1, <1>12, <2>0 DEF Works
  <2>3. CASE c.what \in {"cp", "install"}
    <3>0. PICK e : e = Command(c.pod, NextOf(c.what))
      OBVIOUS
    <3>1. /\ commands' = (commands \ {c}) \cup {e} /\ UNCHANGED <<at, outcome>>
      BY <1>12, <2>3, <3>0 DEF Proceed, NextOf
    <3>2. e.pod = c.pod /\ e.run = runNo /\ e.what = IF c.what = "cp" THEN "install" ELSE "restart"
      BY <2>3, <3>0 DEF Command, NextOf
    <3>3. Behind'
      BY <1>7a, <3>1 DEF Behind
    <3>4. Before(e)'
      BY <1>7, <1>12, <2>1, <2>2, <2>3, <3>2 DEF Before, Holds
    <3>5. \A f \in commands' : f.run = runNo => f = e
      BY <1>7, <1>12, <3>1
    <3>6. \A f \in commands' : f.what # "cp"
      BY <1>7, <1>12, <2>3, <3>1, <3>2 DEF Awaited, IsAwaited
    <3>7. Awaited'
      BY <1>7, <1>12, <3>1, <3>2, <3>4, <3>5, <3>6 DEF Awaited, IsAwaited
    <3>8. QED BY <1>5, <1>9, <3>3, <3>7
  <2>4. CASE c.what = "restart"
    <3>1. DoneWith(c.pod)'
      <4>1. c.pod \in hup'
        BY <1>12, <2>4 DEF Works
      <4>2. c.pod \in wiped' \cup strays' \/ Holds(c.pod)'
        <5>1. c.pod \in wiped \cup strays \/ Holds(c.pod)
          BY <1>7, <1>12, <2>4 DEF Before
        <5>2. strays' = strays
          BY <1>12, <2>4 DEF Works, Strays
        <5>3. QED BY <2>1, <2>2, <2>4, <5>1, <5>2 DEF Holds
      <4>3. QED BY <4>1, <4>2 DEF DoneWith
    <3>2. \A f \in commands \ {c} : f.run # runNo /\ f.what # "cp"
      BY <1>7, <1>12 DEF Awaited, IsAwaited
    <3>3. ASSUME NEW i \in DOMAIN listed, i <= at
          PROVE  DoneWith(listed[i])'
      <4>1. CASE i = at
        BY <1>7, <1>12, <3>1, <4>1
      <4>2. CASE i < at
        BY <1>7a, <4>2
      <4>3. QED BY <1>1, <1>2, <3>3, <4>1, <4>2
    <3>4. CASE at < Len(listed)
      <4>0. PICK e : e = Command(listed[at + 1], "cp")
        OBVIOUS
      <4>1. /\ at' = at + 1 /\ commands' = (commands \ {c}) \cup {e} /\ outcome' = outcome
        BY <1>12, <2>4, <3>4, <4>0 DEF Proceed, NextOf
      <4>2. e.pod = listed[at + 1] /\ e.run = runNo /\ e.what = "cp"
        BY <4>0 DEF Command
      <4>3. at + 1 \in DOMAIN listed /\ outcome = "running"
        BY <1>1, <1>2, <1>7, <1>12, <3>4
      <4>4. Behind'
        BY <1>1, <1>2, <3>3, <4>1, <4>3 DEF Behind
      <4>5. Before(e)'
        BY <4>2 DEF Before
      <4>6. \A f \in commands' : f = e \/ (f.run # runNo /\ f.what # "cp")
        BY <3>2, <4>1
      <4>7. Awaited'
        BY <4>1, <4>2, <4>3, <4>5, <4>6 DEF Awaited, IsAwaited
      <4>8. QED BY <1>5, <1>9, <4>4, <4>7
    <3>5. CASE ~(at < Len(listed))
      <4>1. /\ at' = at /\ commands' = commands \ {c} /\ outcome' = "finish"
        BY <1>12, <2>4, <3>5 DEF Proceed, NextOf
      <4>2. Behind'
        BY <1>1, <1>2, <3>3, <3>5 DEF Behind
      <4>3. Awaited'
        BY <3>2, <4>1 DEF Awaited
      <4>4. QED BY <1>5, <1>9, <4>2, <4>3
    <3>6. QED BY <3>4, <3>5
  <2>5. QED BY <1>1, <2>3, <2>4
<1>13. QED BY <1>10, <1>11, <1>12 DEF Goes

\* The next run, whose commands are later than any other.
LEMMA MainInv ==
  ASSUME ConfigInv, Main
  PROVE  ConfigInv'
<1> USE DEF ConfigInv, ConfigBase
<1>1. /\ outcome # "running" /\ runNo' = runNo + 1 /\ at' = 1 /\ runNo \in Nat
      /\ file' \in FileNames /\ UNCHANGED <<disk, hup, strays, running, wiped>>
  BY DEF Main, podVars
<1>2. \A c \in commands : c.run # runNo' /\ c.run <= runNo' /\ c.what # "cp"
  BY <1>1 DEF Bounded, Awaited, IsAwaited, Commands
<1>3. \A p \in BeaconPods : /\ \A f \in FileNames : disk[p].copied[f] < runNo'
                             /\ disk[p].envoy < runNo'
  <2>1. \A p \in BeaconPods : /\ \A f \in FileNames : disk[p].copied[f] \in Int
                               /\ disk[p].envoy \in Int
    BY DEF PodFiles
  <2>2. QED BY <1>1, <2>1 DEF Bounded
<1>3a. \A p \in BeaconPods : /\ \A f \in FileNames : disk'[p].copied[f] <= runNo'
                             /\ disk'[p].envoy <= runNo'
  <2>1. \A p \in BeaconPods : /\ \A f \in FileNames : disk[p].copied[f] \in Int
                               /\ disk[p].envoy \in Int
    BY DEF PodFiles
  <2>2. QED BY <1>1, <1>3, <2>1
<1>4. CASE outcome' = "reject" /\ listed' = <<>> /\ UNCHANGED commands
  <2>1. DOMAIN listed' = {}
    BY <1>4
  <2>2. Behind' /\ Ahead'
    BY <2>1 DEF Behind, Ahead
  <2>3. Awaited'
    BY <1>2, <1>4 DEF Awaited
  <2>4. Bounded'
    BY <1>1, <1>2, <1>4, <1>3a DEF Bounded
  <2>5. ConfigBase'
    BY <1>1, <1>4 DEF Ended
  <2>6. QED BY <2>2, <2>3, <2>4, <2>5
<1>5. ASSUME NEW l \in Listings, outcome' = "running", listed' = l,
             commands' = commands \cup
               {[pod |-> l[1], what |-> "cp", run |-> runNo', file |-> file']}
      PROVE  ConfigInv'
  <2>1. PICK e : e = [pod |-> l[1], what |-> "cp", run |-> runNo', file |-> file']
    OBVIOUS
  <2>2. l \in Seq(BeaconPods) /\ l # <<>>
    BY ConfigAssumption, Zenon
  <2>3. 1 \in DOMAIN l /\ l[1] \in BeaconPods
    BY <2>2
  <2>4. /\ e \in Commands /\ e.run = runNo' /\ e.pod = l[1] /\ e.what = "cp"
        /\ e.file = file'
    BY <1>1, <2>1, <2>3 DEF Commands
  <2>5. commands' = commands \cup {e}
    BY <1>5, <2>1
  <2>6. ConfigBase'
    BY <1>1, <1>5, <2>4, <2>5
  <2>7. Bounded'
    BY <1>1, <1>2, <1>3a, <2>4, <2>5 DEF Bounded
  <2>8. Before(e)'
    BY <2>4 DEF Before
  <2>9. Awaited'
    BY <1>1, <1>2, <1>5, <2>3, <2>4, <2>5, <2>8 DEF Awaited, IsAwaited
  <2>10. \A i \in DOMAIN l : i \in Nat /\ i >= 1 /\ l[i] \in BeaconPods
    BY <2>2
  <2>11. Behind' /\ Ahead'
    BY <1>1, <1>3, <1>5, <2>10 DEF Behind, Ahead, Lacks
  <2>12. QED BY <2>6, <2>7, <2>9, <2>11
<1>6. QED BY <1>4, <1>5 DEF Main

\* The files of a container that was restarted.
Fresh == [envoy |-> Image, old |-> None, copied |-> NoCopies]

LEMMA FreshFiles ==
  /\ Fresh \in PodFiles /\ Fresh.envoy = 0
  /\ \A f \in FileNames : Fresh.copied[f] = -1
<1>1. -1 \in Int /\ 0 \in Int
  OBVIOUS
<1>2. NoCopies \in [FileNames -> Int]
  BY <1>1 DEF NoCopies, None
<1>3. QED BY <1>1, <1>2 DEF Fresh, PodFiles, NoCopies, None, Image

\* An Envoy starts with what is installed, or a container from its image.
LEMMA PodInvariance ==
  ASSUME ConfigInv, NEW p \in BeaconPods, EnvoyStarts(p) \/ ContainerRestarts(p)
  PROVE  ConfigInv'
<1> USE DEF ConfigInv, ConfigBase
<1>0. runNo \in Nat /\ disk \in [BeaconPods -> PodFiles]
      /\ running \in [BeaconPods -> Int]
  OBVIOUS
<1>1. UNCHANGED scriptVars /\ UNCHANGED strays /\ wiped \subseteq wiped'
  BY DEF EnvoyStarts, ContainerRestarts
<1>2. /\ running' \in [BeaconPods -> Int]
      /\ disk' \in [BeaconPods -> PodFiles]
      /\ \A q \in BeaconPods :
           /\ disk'[q] = disk[q] \/ (q \in wiped' /\ disk'[q] = Fresh)
           /\ DoneWith(q) => DoneWith(q)'
  <2>1. CASE EnvoyStarts(p)
    <3>1. /\ disk' = disk /\ wiped' = wiped /\ runNo' = runNo /\ file' = file
          /\ running' = [running EXCEPT ![p] = disk[p].envoy] /\ hup' = hup \ {p}
      BY <2>1 DEF EnvoyStarts, scriptVars
    <3>2. disk[p].envoy \in Int
      BY <1>0 DEF PodFiles
    <3>3. running' \in [BeaconPods -> Int]
      BY <1>0, <3>1, <3>2
    <3>4. ASSUME NEW q \in BeaconPods, DoneWith(q)
          PROVE  DoneWith(q)'
      <4>1. q \in wiped' \cup strays' \/ Holds(q)'
        BY <1>1, <3>1, <3>4 DEF DoneWith, Holds
      <4>2. running'[q] = IF q = p THEN disk[p].envoy ELSE running[q]
        BY <1>0, <3>1
      <4>3. CASE q = p
        BY <3>1, <4>1, <4>2, <4>3 DEF DoneWith, Holds
      <4>4. CASE q # p
        BY <1>1, <3>1, <3>4, <4>2, <4>4 DEF DoneWith, Holds
      <4>5. QED BY <4>3, <4>4
    <3>5. \A q \in BeaconPods : DoneWith(q) => DoneWith(q)'
      BY <3>4
    <3>6. QED BY <1>0, <3>1, <3>3, <3>5
  <2>2. CASE ContainerRestarts(p)
    <3>1. /\ disk' = [disk EXCEPT ![p] = Fresh] /\ wiped' = wiped \cup {p}
          /\ runNo' = runNo /\ file' = file
          /\ running' = [running EXCEPT ![p] = 0] /\ hup' = hup \ {p}
      BY <2>2 DEF ContainerRestarts, scriptVars, Fresh, Image
    <3>2. /\ running' \in [BeaconPods -> Int]
          /\ disk' \in [BeaconPods -> PodFiles]
      BY <1>0, <3>1, FreshFiles
    <3>3. ASSUME NEW q \in BeaconPods
          PROVE  /\ disk'[q] = disk[q] \/ (q \in wiped' /\ disk'[q] = Fresh)
                 /\ DoneWith(q) => DoneWith(q)'
      <4>1. CASE q = p
        <5>1. q \in wiped' /\ disk'[q] = Fresh
          BY <1>0, <3>1, <4>1
        <5>2. QED BY <5>1 DEF DoneWith
      <4>2. CASE q # p
        <5>1. disk'[q] = disk[q] /\ running'[q] = running[q]
          BY <1>0, <3>1, <4>2
        <5>2. QED BY <1>1, <3>1, <4>2, <5>1 DEF DoneWith, Holds
      <4>3. QED BY <4>1, <4>2
    <3>4. QED BY <3>2, <3>3
  <2>3. QED BY <2>1, <2>2
<1>5. ASSUME NEW c \in commands, Before(c)
      PROVE  Before(c)'
  <2>1. c.pod \in BeaconPods
    BY DEF Commands
  <2>2. disk'[c.pod] = disk[c.pod] \/ c.pod \in wiped'
    BY <1>2, <2>1
  <2>3. QED BY <1>1, <1>5, <2>2 DEF Before, Holds, scriptVars
<1>6. ConfigBase'
  BY <1>1, <1>2 DEF scriptVars
<1>7. Bounded'
  <2>1. \A c \in commands' : c.run <= runNo' /\ (c.run = runNo' => c.file = file')
    BY <1>1 DEF Bounded, scriptVars
  <2>2. ASSUME NEW q \in BeaconPods
        PROVE  (\A f \in FileNames : disk'[q].copied[f] <= runNo) /\ disk'[q].envoy <= runNo
    <3>1. (\A f \in FileNames : disk[q].copied[f] <= runNo) /\ disk[q].envoy <= runNo
      BY DEF Bounded
    <3>2. -1 <= runNo /\ 0 <= runNo
      BY <1>0
    <3>3. QED BY <1>2, <3>1, <3>2, FreshFiles
  <2>3. runNo' = runNo
    BY <1>1 DEF scriptVars
  <2>4. QED BY <2>1, <2>2, <2>3 DEF Bounded
<1>8. Awaited'
  BY <1>1, <1>5 DEF Awaited, IsAwaited, scriptVars
<1>9. \A i \in DOMAIN listed : listed[i] \in BeaconPods
  BY ListedPods
<1>10. Behind'
  BY <1>1, <1>2, <1>9 DEF Behind, scriptVars
<1>11. Ahead'
  <2>1. ASSUME NEW i \in DOMAIN listed
        PROVE  runNo > 0
    <3>1. listed # <<>>
      BY <2>1
    <3>2. QED BY <3>1
  <2>2. ASSUME NEW i \in DOMAIN listed, i > at
        PROVE  Lacks(listed[i])'
    <3>1. Lacks(listed[i]) /\ runNo' = runNo
      BY <1>1, <2>2 DEF Ahead, scriptVars
    <3>2. -1 < runNo /\ 0 < runNo
      BY <1>0, <2>1
    <3>3. listed[i] \in BeaconPods
      BY <1>9
    <3>4. CASE disk'[listed[i]] = disk[listed[i]]
      BY <1>1, <3>1, <3>4 DEF Lacks, scriptVars
    <3>5. CASE disk'[listed[i]] = Fresh
      BY <1>1, <3>1, <3>2, <3>5, FreshFiles DEF Lacks, scriptVars
    <3>6. QED BY <1>2, <3>3, <3>4, <3>5
  <2>3. listed' = listed /\ at' = at /\ runNo' = runNo
    BY <1>1 DEF scriptVars
  <2>4. QED BY <2>2, <2>3 DEF Ahead
<1>12. QED BY <1>6, <1>7, <1>8, <1>10, <1>11

LEMMA ConfigNextInv ==
  ASSUME ConfigInv, [ConfigNext]_configVars
  PROVE  ConfigInv'
<1>1. ASSUME NEW c \in commands, Succeeds(c)
      PROVE  ConfigInv'
  <2>1. Touch(c) /\ Goes(c) /\ UNCHANGED <<runNo, file, listed, running, wiped>>
    BY <1>1 DEF Succeeds, Touch, Goes
  <2>2. QED BY <2>1, CommandInv
<1>2. ASSUME NEW c \in commands, CommandFails(c)
      PROVE  ConfigInv'
  <2>1. Touch(c) /\ Goes(c) /\ UNCHANGED <<runNo, file, listed, running, wiped>>
    BY <1>2 DEF CommandFails, Touch, Goes
  <2>2. QED BY <2>1, CommandInv
<1>3. CASE UNCHANGED configVars
  BY <1>3 DEF configVars, scriptVars, podVars, ConfigInv, ConfigBase, Bounded, Awaited,
              IsAwaited, Before, Holds, Lacks, Behind, DoneWith, Ahead
<1>4. QED BY <1>1, <1>2, <1>3, MainInv, PodInvariance DEF ConfigNext

(***************************************************************************)
(* What the runs of config-beacons.js have done and will do, with the      *)
(* orphans of the runs before at work beside them.                         *)
(***************************************************************************)
THEOREM ConfigInvariant == ToolsSpec => []ConfigInv
<1>1. ToolsInit => ConfigInv
  <2> SUFFICES ASSUME ConfigInit PROVE ConfigInv
    BY DEF ToolsInit
  <2> USE DEF ConfigInit
  <2>0. disk = [p \in BeaconPods |-> Fresh]
    BY DEF Fresh
  <2>1. ConfigBase
    <3>1. file \in FileNames
      BY ConfigAssumption
    <3>2. QED BY <2>0, <3>1, FreshFiles DEF ConfigBase, Image, Ended
  <2>2. Bounded /\ Awaited
    BY <2>0, FreshFiles DEF Bounded, Awaited
  <2>3. DOMAIN listed = {}
    OBVIOUS
  <2>4. Behind /\ Ahead
    BY <2>3 DEF Behind, Ahead
  <2>5. QED BY <2>1, <2>2, <2>4 DEF ConfigInv
<1>2. ASSUME ConfigInv, [ToolsNext]_toolVars
      PROVE  ConfigInv'
  <2>1. [ConfigNext]_configVars
    BY <1>2 DEF ToolsNext, toolVars
  <2>2. QED BY <1>2, <2>1, ConfigNextInv
<1>3. QED BY <1>1, <1>2, PTL DEF ToolsSpec

(***************************************************************************)
(* The pods before the current one are configured, those after it are not, *)
(* and a run that finishes has configured them all, but for the pods an    *)
(* orphan with another file has since installed on (config-beacons.js,     *)
(* main and configBeacon), for any pods, files, runs and failures.         *)
(***************************************************************************)
THEOREM PodByPodHolds == ToolsSpec => []PodByPod
<1>1. ConfigInv => PodByPod
  BY DEF ConfigInv, Behind, Ahead, DoneWith, Holds, Lacks, PodByPod, Configured
<1>2. QED BY <1>1, ConfigInvariant, PTL

OneFile == \A f, g \in FileNames : f = g

(***************************************************************************)
(* While every run is given a CONFIG_FILE of the same basename no orphan   *)
(* undoes anything: PodByPod then has no exception but the pods whose      *)
(* container was restarted (config-beacons.js:231-241).                    *)
(***************************************************************************)
THEOREM NoStraysOfOneFile == ToolsSpec => [](OneFile => strays = {})
<1>1. ToolsInit => (OneFile => strays = {})
  BY DEF ToolsInit, ConfigInit
<1>2. ASSUME ConfigInv, OneFile => strays = {}, [ToolsNext]_toolVars
      PROVE  (OneFile => strays = {})'
  <2>1. [ConfigNext]_configVars
    BY <1>2 DEF ToolsNext, toolVars
  <2>2. ASSUME OneFile, NEW c \in commands, Works(c) \/ UNCHANGED podVars
        PROVE  strays' = {}
    <3>1. c.file = file /\ strays = {}
      BY <1>2, <2>2 DEF OneFile, ConfigInv, ConfigBase, Commands
    <3>2. QED BY <2>2, <3>1 DEF Works, Strays, podVars
  <2>3. (\E c \in commands : Works(c)) \/ UNCHANGED strays
    BY <2>1 DEF ConfigNext, Main, Succeeds, CommandFails, EnvoyStarts, ContainerRestarts,
                podVars, configVars
  <2>4. QED BY <1>2, <2>2, <2>3 DEF OneFile
<1>3. QED BY <1>1, <1>2, ConfigInvariant, PTL DEF ToolsSpec

----------------------------------------------------------------------------
\* The place i of the list has been reset, or locpick does not have its zone.
Settled(i) == ips[i] \in accepted \/ glZones[i] \notin ZonesOf[ips[i]]

\* An address that was reset has the zone of its place in the list.
ResetInv ==
  /\ ips \in Seq(Locpicks) /\ accepted \subseteq Locpicks
  /\ zoneIndex \in Nat /\ zoneIndex <= Len(ips) /\ zoneIndex <= Len(glZones)
  /\ current \in [Locpicks -> {"za", "zb", NoZone}]
  /\ script = "dns" => ips = <<>> /\ accepted = {} /\ request = "none"
  /\ script = "finish" => zoneIndex = Len(ips) /\ request = "none"
  /\ request # "none" => zoneIndex > 0
  /\ \A l \in accepted \ fresh :
        \E i \in 1 .. zoneIndex : ips[i] = l /\ current[l] = glZones[i]
  /\ request = "200" => ips[zoneIndex] \in fresh \/ current[ips[zoneIndex]] = Zone
  /\ request = "400" => Zone \notin ZonesOf[ips[zoneIndex]]
  /\ script \in {"loop", "finish"} =>
        \A i \in 1 .. zoneIndex : Settled(i) \/ (i = zoneIndex /\ request # "none")

LEMMA ResetNextInv ==
  ASSUME ResetInv, [ResetNext]_resetVars
  PROVE  ResetInv'
<1> USE DEF ResetInv
<1>0. /\ ips \in Seq(Locpicks) /\ zoneIndex \in Nat /\ zoneIndex <= Len(ips)
      /\ Len(glZones) = 2 /\ glZones[1] = "za" /\ glZones[2] = "zb"
      /\ \A i \in 1 .. zoneIndex : ips[i] \in Locpicks
  BY DEF glZones
<1>1. CASE UNCHANGED resetVars
  BY <1>1 DEF resetVars, Settled, Zone
<1>2. CASE StartReset
  <2>1. /\ ips' = <<>> /\ zoneIndex' = 0 /\ request' = "none" /\ accepted' = {}
        /\ script' \in {"dns", "throw"} /\ current' = current
    BY <1>2 DEF StartReset
  <2>2. QED BY <1>0, <2>1
<1>3. CASE Resolve
  <2>1. ips = <<>> /\ zoneIndex = 0
    BY <1>0, <1>3 DEF Resolve
  <2>2. ips' \in Seq(Locpicks)
    BY <1>3, ResetAssumption DEF Resolve
  <2>3. /\ zoneIndex' = 0 /\ request' = "none" /\ accepted' = {} /\ current' = current
        /\ script' = "loop"
    BY <1>3, <2>1 DEF Resolve
  <2>4. QED BY <1>0, <2>2, <2>3
<1>4. CASE Loop
  <2>1. /\ script = "loop" /\ request = "none"
        /\ UNCHANGED <<ips, current, accepted, fresh>>
    BY <1>4 DEF Loop
  <2>2. CASE UNCHANGED <<zoneIndex, request>>
    <3>1. script' = "finish" => zoneIndex = Len(ips)
      BY <1>0, <1>4, <2>1, <2>2 DEF Loop, IsDone, NextZone
    <3>2. script' \in {"finish", "throw"}
      BY <1>4, <2>1, <2>2 DEF Loop, NextZone
    <3>3. QED BY <2>1, <2>2, <3>1, <3>2 DEF Settled, Zone
  <2>3. CASE /\ ~IsDone /\ zoneIndex + 1 <= Len(glZones)
             /\ zoneIndex' = zoneIndex + 1 /\ request' = "sent" /\ script' = script
    <3>1. zoneIndex + 1 <= Len(ips)
      BY <1>0, <2>3 DEF IsDone
    <3>2. \A i \in 1 .. zoneIndex' : i \in 1 .. zoneIndex \/ i = zoneIndex'
      BY <1>0, <2>3
    <3>3. 1 .. zoneIndex \subseteq 1 .. zoneIndex'
      BY <1>0, <2>3
    <3>4. \A l \in accepted' \ fresh' :
             \E i \in 1 .. zoneIndex' : ips'[i] = l /\ current'[l] = glZones[i]
      BY <2>1, <3>3
    <3>5. \A i \in 1 .. zoneIndex' : Settled(i)' \/ (i = zoneIndex' /\ request' # "none")
      BY <2>1, <2>3, <3>2 DEF Settled
    <3>6. QED BY <1>0, <2>1, <2>3, <3>1, <3>4, <3>5
  <2>4. QED
    BY <1>0, <1>4, <2>1, <2>2, <2>3 DEF Loop, NextZone
<1>5. CASE Serve
  <2> DEFINE l == ips[zoneIndex]
  <2>1. /\ request = "sent" /\ zoneIndex \in 1 .. zoneIndex /\ l \in Locpicks
        /\ UNCHANGED <<script, ips, zoneIndex, accepted, fresh>>
    BY <1>0, <1>5 DEF Serve
  <2>2. script # "dns" /\ script # "finish"
    BY <2>1
  <2>3. Zone \in {"za", "zb"} /\ Zone = glZones[zoneIndex]
    BY <1>0, <2>1 DEF Zone
  <2>4. CASE Zone \in ZonesOf[l]
    <3>1. current' = [current EXCEPT ![l] = Zone] /\ request' = "200"
      BY <1>5, <2>4 DEF Serve, LocpickResets
    <3>2. current' \in [Locpicks -> {"za", "zb", NoZone}] /\ current'[l] = Zone
      BY <2>1, <2>3, <3>1
    <3>3. ASSUME NEW m \in accepted \ fresh
          PROVE  \E i \in 1 .. zoneIndex : ips[i] = m /\ current'[m] = glZones[i]
      <4>1. CASE m = l
        BY <2>1, <2>3, <3>2, <4>1
      <4>2. CASE m # l
        BY <3>1, <4>2
      <4>3. QED BY <4>1, <4>2
    <3>4. QED BY <2>1, <2>2, <3>1, <3>2, <3>3 DEF Settled, Zone
  <2>5. CASE Zone \notin ZonesOf[l]
    <3>1. current' = current /\ request' = "400"
      BY <1>5, <2>5 DEF Serve, LocpickResets
    <3>2. QED BY <2>1, <2>2, <2>5, <3>1 DEF Settled, Zone
  <2>6. QED BY <2>4, <2>5
<1>6. CASE ResetAnswered
  <2> DEFINE l == ips[zoneIndex]
  <2>1. /\ request \in {"200", "400"} /\ request' = "none"
        /\ accepted' = IF request = "200" THEN accepted \cup {l} ELSE accepted
        /\ UNCHANGED <<script, ips, zoneIndex, current, fresh>>
    BY <1>6 DEF ResetAnswered
  <2>2. zoneIndex \in 1 .. zoneIndex /\ l \in Locpicks /\ script # "dns" /\ script # "finish"
    BY <1>0, <2>1
  <2>3. ASSUME NEW m \in accepted' \ fresh
        PROVE  \E i \in 1 .. zoneIndex : ips[i] = m /\ current[m] = glZones[i]
    BY <2>1, <2>2 DEF Zone
  <2>4. ASSUME NEW i \in 1 .. zoneIndex, script = "loop"
        PROVE  Settled(i)'
    <3>1. CASE i = zoneIndex
      BY <2>1, <3>1 DEF Settled, Zone
    <3>2. CASE i # zoneIndex
      BY <2>1, <2>4, <3>2 DEF Settled
    <3>3. QED BY <3>1, <3>2
  <2>5. QED BY <2>1, <2>2, <2>3, <2>4
<1>7. CASE Unanswered
  <2>1. /\ script' = "silent" /\ request' = "none"
        /\ UNCHANGED <<ips, zoneIndex, current, accepted, fresh>>
    BY <1>7 DEF Unanswered
  <2>2. QED BY <2>1
<1>8. ASSUME NEW l \in Locpicks, LocpickAnew(l)
      PROVE  ResetInv'
  <2>1. /\ current' = [current EXCEPT ![l] = NoZone] /\ fresh' = fresh \cup {l}
        /\ UNCHANGED <<script, ips, zoneIndex, request, accepted>>
    BY <1>8 DEF LocpickAnew
  <2>2. \A m \in Locpicks \ {l} : current'[m] = current[m]
    BY <2>1
  <2>3. current' \in [Locpicks -> {"za", "zb", NoZone}]
    BY <2>1
  <2>4. ASSUME NEW m \in accepted' \ fresh'
        PROVE  \E i \in 1 .. zoneIndex : ips[i] = m /\ current'[m] = glZones[i]
    BY <2>1, <2>2
  <2>5. request = "200" => ips[zoneIndex] \in fresh' \/ current'[ips[zoneIndex]] = Zone
    <3>1. request # "none" => ips[zoneIndex] \in Locpicks
      BY <1>0
    <3>2. QED BY <2>1, <2>2, <3>1
  <2>6. QED BY <2>1, <2>3, <2>4, <2>5 DEF Settled, Zone
<1>9. QED BY <1>1, <1>2, <1>3, <1>4, <1>5, <1>6, <1>7, <1>8 DEF ResetNext, ResetStep

(***************************************************************************)
(* What reset-locpicks.js has reset, at every moment of its loop.          *)
(***************************************************************************)
THEOREM ResetInvariant == ToolsSpec => []ResetInv
<1>1. ToolsInit => ResetInv
  BY DEF ToolsInit, ResetInit, ResetInv
<1>2. ASSUME ResetInv, [ToolsNext]_toolVars
      PROVE  ResetInv'
  <2>1. [ResetNext]_resetVars
    BY <1>2 DEF ToolsNext, toolVars
  <2>2. QED BY <1>2, <2>1, ResetNextInv
<1>3. QED BY <1>1, <1>2, PTL DEF ToolsSpec

(***************************************************************************)
(* Locpicks that a run has reset give out different zones                  *)
(* (reset-locpicks.js:155-165), for any locpicks and answers.              *)
(***************************************************************************)
THEOREM ZonesApartHolds == ToolsSpec => []ZonesApart
<1>1. ASSUME ResetInv, NEW k \in accepted \ fresh, NEW l \in accepted \ fresh, k # l
      PROVE  current[k] # current[l]
  <2>1. PICK i \in 1 .. zoneIndex : ips[i] = k /\ current[k] = glZones[i]
    BY <1>1 DEF ResetInv
  <2>2. PICK j \in 1 .. zoneIndex : ips[j] = l /\ current[l] = glZones[j]
    BY <1>1 DEF ResetInv
  <2>3. i # j /\ i \in {1, 2} /\ j \in {1, 2}
    BY <1>1, <2>1, <2>2 DEF ResetInv, glZones
  <2>4. QED BY <2>1, <2>2, <2>3 DEF glZones
<1>2. ResetInv => ZonesApart
  BY <1>1 DEF ZonesApart
<1>3. QED BY <1>2, ResetInvariant, PTL

(***************************************************************************)
(* A run that comes to its end has left out no locpick that has the zone   *)
(* it was to be given.                                                     *)
(***************************************************************************)
THEOREM NoneForgottenHolds == ToolsSpec => []NoneForgotten
<1>1. ResetInv => NoneForgotten
  BY DEF ResetInv, Settled, NoneForgotten
<1>2. QED BY <1>1, ResetInvariant, PTL

----------------------------------------------------------------------------
\* Where a call of obus is: g messages given and d on their way down, which
\* come in the order of Whole; the last one on its way ends the call as soon
\* as nothing more goes up.
CallRecord ==
  [kind : Kinds, up : Seq(Nat), down : Seq(Int), count : Nat, got : Seq(Int),
   told : {0, 1}]

\* What is still to be written to the server, and what was answered to it.
Upward(k) ==
  /\ k.told = 0
  /\ k.kind \in {"ping", "info", "server", "client"} =>
       Len(k.got) = 0 /\ Len(k.down) = 0
  /\ k.kind = "client" => k.count + Len(k.up) = 4
  /\ k.kind = "both" => k.count + Len(k.up) = 3
                        /\ Len(k.got) + Len(k.down) = k.count
  /\ k.kind \in {"client", "both"} =>
       \A i \in 1 .. Len(k.up) : k.up[i] = End <=> i = Len(k.up)

\* The messages on their way down come next.
Downward(k) ==
  \A j \in 1 .. Len(k.down) :
     j < Len(k.down) \/ k.up # <<>> =>
        /\ Len(k.got) + j <= Len(Whole(k.kind))
        /\ k.down[j] = Whole(k.kind)[Len(k.got) + j]

\* The last of them says that it was all, or that the call has failed.
Ends(k) ==
  /\ Len(k.down) > 0
  /\ \/ k.down[Len(k.down)] = Error
     \/ /\ k.down[Len(k.down)] = End
        /\ Len(k.got) + Len(k.down) = Len(Whole(k.kind)) + 1

GivenInOrder(k) ==
  \A i \in 1 .. Len(k.got) :
     k.got[i] # Error => i <= Len(Whole(k.kind)) /\ k.got[i] = Whole(k.kind)[i]

NoError(k) == \A i \in 1 .. Len(k.got) : k.got[i] # Error

CallInv(k) ==
  /\ k \in CallRecord
  /\ k.kind = "none" => k.up = <<>> /\ k.down = <<>> /\ k.told = 0
  /\ k.kind # "none" =>
       /\ GivenInOrder(k)
       /\ k.told = 0 => NoError(k) /\ Downward(k)
       /\ k.told = 0 /\ k.up = <<>> => Ends(k)
       /\ k.up # <<>> => Upward(k)
       /\ k.told = 1 => /\ k.up = <<>> /\ k.down = <<>>
                        /\ NoError(k) => Len(k.got) = Len(Whole(k.kind))

\* The first turn is counted.
TurnsInv == (client = "init" => turns = 0) /\ turns \in 0 .. MaxTurns

ObusInv ==
  /\ ObusTypeOK /\ TurnsInv
  /\ call = [c \in Calls |-> call[c]]
  /\ \A c \in Calls : CallInv(call[c])

\* The labels from 1 on, and the end of the stream.
LEMMA LabelsAre ==
  ASSUME NEW n \in Nat, NEW q, q = [i \in 1 .. n |-> i] \o <<End>>
  PROVE  /\ q \in Seq(Nat) /\ Len(q) = n + 1
         /\ \A i \in 1 .. n + 1 : q[i] = IF i = n + 1 THEN 0 ELSE i
<1>1. PICK s : s = [i \in 1 .. n |-> i]
  OBVIOUS
<1>2. s \in Seq(Nat) /\ Len(s) = n /\ \A i \in 1 .. n : s[i] = i
  BY <1>1
<1>3. q = s \o <<0>> /\ <<0>> \in Seq(Nat)
  BY <1>1 DEF End
<1> HIDE <1>1
<1>4. QED BY <1>2, <1>3

\* What a call is to give.
LEMMA WholeIs ==
  ASSUME NEW kind \in Kinds \ {"none"}
  PROVE  /\ Whole(kind) \in Seq(Nat)
         /\ \A i \in 1 .. Len(Whole(kind)) : Whole(kind)[i] > 0
         /\ kind \in {"ping", "info"} =>
              Len(Whole(kind)) = 1 /\ Whole(kind)[1] = 1
         /\ kind = "client" => Len(Whole(kind)) = 1 /\ Whole(kind)[1] = 3
         /\ kind = "server" => Len(Whole(kind)) = 3
         /\ kind = "both" => Len(Whole(kind)) = 2
         /\ kind \in {"server", "both"} =>
              \A i \in 1 .. Len(Whole(kind)) : Whole(kind)[i] = i
<1>1. CASE kind \in {"ping", "info"}
  <2>1. Whole(kind) = <<1>>
    BY <1>1 DEF Whole
  <2>2. QED BY <1>1, <2>1
<1>2. CASE kind = "client"
  <2>1. PICK s : s = <<3>>
    OBVIOUS
  <2>2. s \in Seq(Nat) /\ Len(s) = 1 /\ s[1] = 3
    BY <2>1
  <2>3. Whole(kind) = s
    BY <1>2, <2>1 DEF Whole, ClientLabels
  <2>4. QED BY <1>2, <2>2, <2>3
<1>3. CASE kind = "server"
  <2>1. PICK s : s = [i \in 1 .. 3 |-> i]
    OBVIOUS
  <2>2. /\ s \in Seq(Nat) /\ Len(s) = 3
        /\ \A i \in 1 .. Len(s) : s[i] = i /\ s[i] > 0
    BY <2>1
  <2>3. Whole(kind) = s
    BY <1>3, <2>1 DEF Whole, UpTo, ServerLabels
  <2>4. QED BY <1>3, <2>2, <2>3
<1>4. CASE kind = "both"
  <2>1. PICK s : s = [i \in 1 .. 2 |-> i]
    OBVIOUS
  <2>2. /\ s \in Seq(Nat) /\ Len(s) = 2
        /\ \A i \in 1 .. Len(s) : s[i] = i /\ s[i] > 0
    BY <2>1
  <2>3. Whole(kind) = s
    BY <1>4, <2>1 DEF Whole, UpTo, ClientLabels
  <2>4. QED BY <1>4, <2>2, <2>3
<1>5. QED BY <1>1, <1>2, <1>3, <1>4 DEF Kinds, StreamKinds

\* A call that was just made.
LEMMA NewCallInv ==
  ASSUME NEW kind \in Kinds \ {"none"}
  PROVE  CallInv(NewCall(kind))
<1>1. PICK w : w = Written(kind)
  OBVIOUS
<1>2. /\ w \in Seq(Nat) /\ w # <<>>
      /\ kind = "client" => Len(w) = 4
      /\ kind = "both" => Len(w) = 3
      /\ kind \in {"client", "both"} =>
           \A i \in 1 .. Len(w) : w[i] = End <=> i = Len(w)
  <2>1. CASE kind = "client"
    <3>1. w = [i \in 1 .. 3 |-> i] \o <<End>>
      BY <1>1, <2>1 DEF Written, ClientLabels
    <3>2. QED BY <2>1, <3>1, LabelsAre DEF End
  <2>2. CASE kind = "both"
    <3>1. w = [i \in 1 .. 2 |-> i] \o <<End>>
      BY <1>1, <2>2 DEF Written, ClientLabels
    <3>2. QED BY <2>2, <3>1, LabelsAre DEF End
  <2>3. CASE kind \notin {"client", "both"}
    <3>1. w = <<1>>
      BY <1>1, <2>3 DEF Written
    <3>2. QED BY <2>3, <3>1
  <2>4. QED BY <2>1, <2>2, <2>3
<1>3. PICK k : k = NewCall(kind)
  OBVIOUS
<1>4. /\ k.kind = kind /\ k.count = 0 /\ k.got = <<>> /\ k.told = 0
      /\ \/ k.up = w /\ k.down = <<>>
         \/ k.up = <<>> /\ k.down = <<Error>>
      /\ k \in CallRecord
  <2>0. PICK x \in Int : x = Error
    BY DEF Error
  <2>1. <<x>> \in Seq(Int)
    OBVIOUS
  <2>2. CASE serving
    <3>1. k = [kind |-> kind, up |-> w, down |-> <<>>, count |-> 0,
               got |-> <<>>, told |-> 0]
      BY <1>1, <1>3, <2>2 DEF NewCall, NoCall
    <3>2. QED BY <1>2, <3>1 DEF CallRecord
  <2>3. CASE ~serving
    <3>1. k = [kind |-> kind, up |-> <<>>, down |-> <<x>>, count |-> 0,
               got |-> <<>>, told |-> 0]
      BY <1>3, <2>0, <2>3 DEF NewCall, NoCall
    <3>2. PICK e \in Seq(Int) : e = <<x>>
      BY <2>1
    <3>3. k \in CallRecord /\ k.down = e
      BY <3>1, <3>2 DEF CallRecord
    <3>4. QED BY <2>0, <3>1, <3>2, <3>3
  <2>4. QED BY <2>2, <2>3
<1> HIDE <1>1, <1>3
<1>5. /\ Len(k.got) = 0
      /\ \/ k.up = w /\ Len(k.down) = 0
         \/ k.up = <<>> /\ Len(k.down) = 1 /\ k.down[1] = Error
  <2>1. PICK e : e = <<Error>>
    OBVIOUS
  <2>2. Len(e) = 1 /\ e[1] = Error
    BY <2>1
  <2>3. Len(<<>>) = 0
    OBVIOUS
  <2>4. QED BY <1>4, <2>1, <2>2, <2>3
<1>6. k.up # <<>> => Upward(k)
  BY <1>2, <1>4, <1>5 DEF Upward
<1>7. k.up = <<>> => Ends(k)
  BY <1>2, <1>5 DEF Ends
<1>8. GivenInOrder(k) /\ NoError(k) /\ Downward(k)
  <2>1. GivenInOrder(k) /\ NoError(k)
    BY <1>5 DEF GivenInOrder, NoError
  <2>2. ASSUME Len(k.down) = 0 PROVE Downward(k)
    BY <2>2 DEF Downward
  <2>3. ASSUME Len(k.down) = 1, k.up = <<>> PROVE Downward(k)
    BY <2>3 DEF Downward
  <2>4. QED BY <1>5, <2>1, <2>2, <2>3
<1>9. CallInv(k)
  BY <1>4, <1>5, <1>6, <1>7, <1>8 DEF CallInv
<1>10. QED BY <1>3, <1>9

\* A call as a record.
LEMMA CallFields ==
  ASSUME NEW k \in CallRecord
  PROVE  /\ k.kind \in Kinds /\ k.told \in {0, 1} /\ k.count \in Nat
         /\ k.up \in Seq(Nat) /\ k.down \in Seq(Int) /\ k.got \in Seq(Int)
         /\ Len(k.up) \in Nat /\ Len(k.got) \in Nat /\ Len(k.down) \in Nat
         /\ k.up # <<>> => Len(k.up) > 0
<1>1. /\ k.kind \in Kinds /\ k.told \in {0, 1} /\ k.count \in Nat
      /\ k.up \in Seq(Nat) /\ k.down \in Seq(Int) /\ k.got \in Seq(Int)
  BY DEF CallRecord
<1>2. QED BY <1>1

\* All that is known of a call with something on its way to the server.
LEMMA Writes ==
  ASSUME NEW k, CallInv(k), k.up # <<>>
  PROVE  /\ k \in CallRecord /\ k.kind \in Kinds \ {"none"} /\ k.told = 0
         /\ Upward(k) /\ Downward(k) /\ GivenInOrder(k) /\ NoError(k)
<1>1. k \in CallRecord /\ k.kind \in Kinds \ {"none"} /\ Upward(k)
  BY CallFields DEF CallInv
<1>2. k.told = 0
  BY <1>1 DEF Upward
<1>3. QED BY <1>1, <1>2 DEF CallInv

\* The call with nothing left to go up.
Shut(k, d) == [k EXCEPT !.up = <<>>, !.down = d]

LEMMA ShutFields ==
  ASSUME NEW k \in CallRecord, NEW d \in Seq(Int)
  PROVE  /\ Shut(k, d) \in CallRecord
         /\ Shut(k, d).kind = k.kind /\ Shut(k, d).up = <<>>
         /\ Shut(k, d).down = d /\ Shut(k, d).got = k.got
         /\ Shut(k, d).told = k.told
<1>0. <<>> \in Seq(Nat)
  OBVIOUS
<1>1. PICK e \in Seq(Nat) : e = <<>>
  BY <1>0, Zenon
<1>2. [k EXCEPT !.up = e, !.down = d] \in CallRecord
  BY DEF CallRecord
<1>3. /\ Shut(k, d).kind = k.kind /\ Shut(k, d).up = <<>>
      /\ Shut(k, d).down = d /\ Shut(k, d).got = k.got
      /\ Shut(k, d).told = k.told
  BY DEF CallRecord, Shut
<1>4. QED BY <1>1, <1>2, <1>3 DEF Shut

\* When nothing goes up any more, what is on its way down must end the call.
LEMMA Closed ==
  ASSUME NEW k, CallInv(k), k.kind # "none", k.told = 0,
         NEW d \in Seq(Int), Len(d) > 0,
         \A j \in 1 .. Len(d) : j < Len(d) =>
            /\ Len(k.got) + j <= Len(Whole(k.kind))
            /\ d[j] = Whole(k.kind)[Len(k.got) + j],
         \/ d[Len(d)] = Error
         \/ d[Len(d)] = End /\ Len(k.got) + Len(d) = Len(Whole(k.kind)) + 1
  PROVE  CallInv(Shut(k, d))
<1>1. k \in CallRecord /\ GivenInOrder(k) /\ NoError(k)
  BY DEF CallInv
<1>2. PICK m : m = Shut(k, d)
  OBVIOUS
<1>3. /\ m.kind = k.kind /\ m.up = <<>> /\ m.down = d /\ m.got = k.got
      /\ m.told = 0 /\ m \in CallRecord
  BY <1>1, <1>2, ShutFields
<1>4. GivenInOrder(m) /\ NoError(m)
  BY <1>1, <1>3 DEF GivenInOrder, NoError
<1>5. Downward(m)
  BY <1>3 DEF Downward
<1>6. Ends(m)
  BY <1>3 DEF Ends
<1>7. CallInv(m)
  BY <1>3, <1>4, <1>5, <1>6 DEF CallInv
<1>8. QED BY <1>2, <1>7

\* The server answers a whole call at once.
LEMMA AnswersAll ==
  ASSUME NEW k, CallInv(k), k.up # <<>>, k.kind \in {"ping", "info", "server"},
         NEW d \in Seq(Int), Len(d) = Len(Whole(k.kind)) + 1,
         \A j \in 1 .. Len(Whole(k.kind)) : d[j] = Whole(k.kind)[j],
         d[Len(d)] = End
  PROVE  CallInv(Shut(k, d))
<1>1. Upward(k) /\ k.kind \in Kinds \ {"none"} /\ k.told = 0
  BY Writes
<1>2. Len(k.got) = 0
  BY <1>1 DEF Upward
<1>3. Whole(k.kind) \in Seq(Nat)
  BY <1>1, WholeIs
<1>4. Len(Whole(k.kind)) \in Nat
  BY <1>3
<1>5. /\ Len(d) > 0
      /\ \A j \in 1 .. Len(d) : j < Len(d) =>
            /\ Len(k.got) + j <= Len(Whole(k.kind))
            /\ d[j] = Whole(k.kind)[Len(k.got) + j]
      /\ Len(k.got) + Len(d) = Len(Whole(k.kind)) + 1
  BY <1>2, <1>4
<1>6. QED BY <1>1, <1>5, Closed

\* The "end" handlers: everything the client wrote is counted.
LEMMA AnswersEnd ==
  ASSUME NEW k, CallInv(k), k.up # <<>>, k.kind \in {"client", "both"},
         Head(k.up) = End
  PROVE  CallInv(Shut(k, k.down \o AfterEnd(k)))
<1>1. /\ k \in CallRecord /\ k.kind \in Kinds \ {"none"} /\ k.told = 0
      /\ Upward(k) /\ Downward(k)
  BY Writes
<1>2. /\ k.count \in Nat /\ k.up \in Seq(Nat) /\ k.down \in Seq(Int)
      /\ Len(k.got) \in Nat /\ Len(k.down) \in Nat /\ Len(k.up) > 0
  BY <1>1, CallFields
<1>3. \A i \in 1 .. Len(k.up) : k.up[i] = End <=> i = Len(k.up)
  BY <1>1 DEF Upward
<1>4. Len(k.up) = 1
  <2>1. k.up[1] = End
    BY <1>2
  <2>2. 1 \in 1 .. Len(k.up)
    BY <1>2
  <2>3. QED BY <1>3, <2>1, <2>2
<1>5. CASE k.kind = "client"
  <2>0. k.count + Len(k.up) = 4 /\ Len(k.got) = 0 /\ Len(k.down) = 0
    BY <1>1, <1>5 DEF Upward
  <2>1. k.count = 3 /\ Len(k.got) = 0 /\ Len(k.down) = 0
    BY <1>2, <1>4, <2>0
  <2>2. PICK d : d = <<3, End>>
    OBVIOUS
  <2>3. d \in Seq(Int) /\ Len(d) = 2 /\ d[1] = 3 /\ d[2] = End
    BY <2>2 DEF End
  <2>4. k.down = <<>>
    BY <1>2, <2>1
  <2>5. k.down \o AfterEnd(k) = d
    BY <1>5, <2>1, <2>2, <2>3, <2>4 DEF AfterEnd
  <2>6. Len(Whole(k.kind)) = 1 /\ Whole(k.kind)[1] = 3
    BY <1>1, <1>5, WholeIs
  <2>7. /\ \A j \in 1 .. Len(d) : j < Len(d) =>
            /\ Len(k.got) + j <= Len(Whole(k.kind))
            /\ d[j] = Whole(k.kind)[Len(k.got) + j]
        /\ d[Len(d)] = End /\ Len(d) > 0
        /\ Len(k.got) + Len(d) = Len(Whole(k.kind)) + 1
    BY <2>1, <2>3, <2>6
  <2>8. CallInv(Shut(k, d))
    BY <1>1, <2>3, <2>7, Closed
  <2>9. QED BY <2>5, <2>8
<1>6. CASE k.kind = "both"
  <2>1. k.count + Len(k.up) = 3 /\ Len(k.got) + Len(k.down) = k.count
    BY <1>1, <1>6 DEF Upward
  <2>2. PICK g \in Nat, e \in Nat : g = Len(k.got) /\ e = Len(k.down)
    BY <1>2
  <2>3. k.count = 2
    BY <1>2, <1>4, <2>1
  <2>4. g + e = 2
    BY <2>1, <2>2, <2>3
  <2>5. PICK d : d = k.down \o <<End>>
    OBVIOUS
  <2>6. /\ d \in Seq(Int) /\ Len(d) = e + 1 /\ d[e + 1] = End
        /\ \A j \in 1 .. e : d[j] = k.down[j]
    BY <1>2, <2>2, <2>5 DEF End
  <2>7. PICK w : w = Whole(k.kind)
    OBVIOUS
  <2>8. Len(w) = 2
    BY <1>1, <1>6, <2>7, WholeIs
  <2>9. \A j \in 1 .. e : g + j <= Len(w) /\ k.down[j] = w[g + j]
    BY <1>1, <2>2, <2>7 DEF Downward
  <2>10. /\ \A j \in 1 .. Len(d) : j < Len(d) =>
              g + j <= Len(w) /\ d[j] = w[g + j]
         /\ Len(d) > 0 /\ g + Len(d) = Len(w) + 1 /\ d[Len(d)] = End
    BY <2>4, <2>6, <2>8, <2>9
  <2>11. CallInv(Shut(k, d))
    BY <1>1, <2>2, <2>6, <2>7, <2>10, Closed
  <2>12. k.down \o AfterEnd(k) = d
    BY <1>6, <2>5 DEF AfterEnd
  <2>13. QED BY <2>11, <2>12
<1>7. QED BY <1>5, <1>6

\* The call with one message less to go up.
Counts(k, u, d) == [k EXCEPT !.up = u, !.count = k.count + 1, !.down = d]

LEMMA CountsFields ==
  ASSUME NEW k \in CallRecord, NEW u \in Seq(Nat), NEW d \in Seq(Int)
  PROVE  /\ Counts(k, u, d) \in CallRecord
         /\ Counts(k, u, d).kind = k.kind /\ Counts(k, u, d).up = u
         /\ Counts(k, u, d).down = d /\ Counts(k, u, d).got = k.got
         /\ Counts(k, u, d).told = k.told
         /\ Counts(k, u, d).count = k.count + 1
<1>1. k.count \in Nat
  BY CallFields
<1>2. PICK c \in Nat : c = k.count + 1
  BY <1>1
<1>3. [k EXCEPT !.up = u, !.count = c, !.down = d] \in CallRecord
  BY DEF CallRecord
<1>4. /\ Counts(k, u, d).kind = k.kind /\ Counts(k, u, d).up = u
      /\ Counts(k, u, d).down = d /\ Counts(k, u, d).got = k.got
      /\ Counts(k, u, d).told = k.told
      /\ Counts(k, u, d).count = k.count + 1
  BY DEF CallRecord, Counts
<1>5. QED BY <1>2, <1>3, <1>4 DEF Counts

\* A message of a stream: it is counted, and answered in "both".
LEMMA AnswersMessage ==
  ASSUME NEW k, CallInv(k), k.up # <<>>, k.kind \in {"client", "both"},
         Head(k.up) # End
  PROVE  CallInv(Counts(k, Tail(k.up),
                        IF k.kind = "both" THEN Append(k.down, k.count + 1)
                                           ELSE k.down))
<1>1. /\ k \in CallRecord /\ k.kind \in Kinds \ {"none"} /\ k.told = 0
      /\ Upward(k) /\ Downward(k) /\ GivenInOrder(k) /\ NoError(k)
  BY Writes
<1>2. PICK u \in Seq(Nat), n \in Nat, g \in Nat, e \in Nat :
         u = k.up /\ n = k.count /\ g = Len(k.got) /\ e = Len(k.down)
  BY <1>1, CallFields
<1>3. k.down \in Seq(Int)
  BY <1>1, CallFields
<1>4. Len(u) > 1 /\ \A i \in 1 .. Len(u) : u[i] = End <=> i = Len(u)
  <2>1. \A i \in 1 .. Len(u) : u[i] = End <=> i = Len(u)
    BY <1>1, <1>2 DEF Upward
  <2>2. Len(u) > 0 /\ u[1] # End
    BY <1>2
  <2>3. QED BY <2>1, <2>2
<1>5. PICK t : t = Tail(u)
  OBVIOUS
<1>6. /\ t \in Seq(Nat) /\ Len(t) = Len(u) - 1 /\ t # <<>>
      /\ Len(t) \in Nat /\ \A i \in 1 .. Len(t) : t[i] = End <=> i = Len(t)
  <2>1. t \in Seq(Nat) /\ Len(t) = Len(u) - 1 /\ Len(t) \in Nat
    BY <1>4, <1>5
  <2>2. \A i \in 1 .. Len(t) : t[i] = u[i + 1] /\ i + 1 \in 1 .. Len(u)
    BY <1>4, <1>5
  <2>3. t # <<>>
    BY <1>4, <2>1
  <2>4. ASSUME NEW i \in 1 .. Len(t) PROVE t[i] = End <=> i = Len(t)
    <3>1. t[i] = u[i + 1] /\ i + 1 \in 1 .. Len(u)
      BY <2>2
    <3>2. u[i + 1] = End <=> i + 1 = Len(u)
      BY <1>4, <3>1
    <3>3. i + 1 = Len(u) <=> i = Len(t)
      <4>1. i \in Int /\ Len(u) \in Nat
        OBVIOUS
      <4>2. QED BY <2>1, <4>1
    <3>4. QED BY <3>1, <3>2, <3>3
  <2>5. QED BY <2>1, <2>3, <2>4
<1>7. PICK d : d = IF k.kind = "both" THEN Append(k.down, k.count + 1)
                                      ELSE k.down
  OBVIOUS
<1>8. /\ d \in Seq(Int)
      /\ k.kind = "client" => d = k.down
      /\ k.kind = "both" => /\ Len(d) = e + 1 /\ d[e + 1] = n + 1
                            /\ \A j \in 1 .. e : d[j] = k.down[j]
  BY SMTT(20), <1>2, <1>3, <1>7
<1>9. PICK m : m = Counts(k, t, d)
  OBVIOUS
<1>10. /\ m.kind = k.kind /\ m.up = t /\ m.down = d /\ m.got = k.got
       /\ m.told = 0 /\ m.count = n + 1 /\ m \in CallRecord
  <2>1. /\ m.kind = k.kind /\ m.up = t /\ m.down = d /\ m.got = k.got
        /\ m.told = k.told /\ m.count = k.count + 1 /\ m \in CallRecord
    <3>1. k \in CallRecord /\ t \in Seq(Nat) /\ d \in Seq(Int)
      BY <1>1, <1>6, <1>8
    <3>2. QED BY <3>1, <1>9, CountsFields
  <2>2. QED BY <1>1, <1>2, <2>1
<1> HIDE <1>7, <1>9
<1>11. GivenInOrder(m) /\ NoError(m)
  BY <1>1, <1>10 DEF GivenInOrder, NoError
<1>12. ASSUME k.kind = "client" PROVE CallInv(m)
  <2>1. g = 0 /\ e = 0 /\ n + Len(u) = 4
    BY <1>1, <1>2, <1>12 DEF Upward
  <2>2. Len(d) = 0 /\ n + 1 + Len(t) = 4
    <3>1. Len(d) = 0
      BY <1>2, <1>8, <1>12, <2>1
    <3>2. QED BY <1>6, <2>1, <3>1
  <2>3. Upward(m)
    BY <1>2, <1>6, <1>10, <1>12, <2>1, <2>2 DEF Upward
  <2>4. Downward(m)
    BY <1>10, <2>2 DEF Downward
  <2>5. QED BY <1>1, <1>6, <1>10, <1>11, <2>3, <2>4 DEF CallInv
<1>13. ASSUME k.kind = "both" PROVE CallInv(m)
  <2>1. g + e = n /\ n + Len(u) = 3
    BY <1>1, <1>2, <1>13 DEF Upward
  <2>2. n < 2 /\ n + 1 + Len(t) = 3 /\ Len(d) = e + 1 /\ g + Len(d) = n + 1
    BY SMTT(20), <1>4, <1>6, <1>8, <1>13, <2>1
  <2>3. Upward(m)
    BY <1>2, <1>6, <1>10, <1>13, <2>2 DEF Upward
  <2>4. PICK w : w = Whole(k.kind)
    OBVIOUS
  <2>5. Len(w) = 2 /\ \A i \in 1 .. Len(w) : w[i] = i
    BY <1>1, <1>13, <2>4, WholeIs
  <2>6. \A j \in 1 .. e : g + j <= Len(w) /\ k.down[j] = w[g + j]
    BY <1>1, <1>2, <2>4 DEF Downward
  <2>7. ASSUME NEW j \in 1 .. Len(d)
        PROVE  g + j <= Len(w) /\ d[j] = w[g + j]
    <3>1. CASE j <= e
      BY <1>8, <1>13, <2>6, <3>1
    <3>2. CASE j = e + 1
      BY <1>8, <1>13, <2>1, <2>2, <2>5, <3>2
    <3>3. QED BY <2>2, <3>1, <3>2
  <2>8. Downward(m)
    BY <1>2, <1>10, <2>4, <2>7 DEF Downward
  <2>9. QED BY <1>1, <1>6, <1>10, <1>11, <2>3, <2>8 DEF CallInv
<1>14. CallInv(m)
  BY <1>12, <1>13
<1>15. QED BY <1>2, <1>5, <1>7, <1>9, <1>14

\* The call after an event at the client.
Gives(k, d, g, t) == [k EXCEPT !.down = d, !.got = g, !.told = t]

Once == {0, 1}

LEMMA GivesFields ==
  ASSUME NEW k \in CallRecord, NEW d \in Seq(Int), NEW g \in Seq(Int),
         NEW t \in Once
  PROVE  /\ Gives(k, d, g, t) \in CallRecord
         /\ Gives(k, d, g, t).kind = k.kind /\ Gives(k, d, g, t).up = k.up
         /\ Gives(k, d, g, t).down = d /\ Gives(k, d, g, t).got = g
         /\ Gives(k, d, g, t).told = t /\ Gives(k, d, g, t).count = k.count
<1>1. Gives(k, d, g, t) \in CallRecord
  BY DEF CallRecord, Gives, Once
<1>2. /\ Gives(k, d, g, t).kind = k.kind /\ Gives(k, d, g, t).up = k.up
      /\ Gives(k, d, g, t).down = d /\ Gives(k, d, g, t).got = g
      /\ Gives(k, d, g, t).told = t /\ Gives(k, d, g, t).count = k.count
  BY DEF CallRecord, Gives
<1>3. QED BY <1>1, <1>2

\* The first of what is on its way is next in order, and not an end, when
\* something comes after it.
LEMMA GivesMore ==
  ASSUME NEW k, CallInv(k), k.kind # "none", k.told = 0, Len(k.down) > 0,
         Len(k.down) > 1 \/ k.up # <<>>,
         NEW t \in Seq(Int), Len(t) = Len(k.down) - 1,
         \A i \in 1 .. Len(t) : t[i] = k.down[i + 1]
  PROVE  /\ k.down[1] \notin {End, Error}
         /\ CallInv(Gives(k, t, Append(k.got, k.down[1]), 0))
<1>1. /\ k \in CallRecord /\ k.kind \in Kinds \ {"none"}
      /\ Downward(k) /\ GivenInOrder(k) /\ NoError(k)
      /\ k.up = <<>> => Ends(k)
      /\ k.up # <<>> => Upward(k)
  BY CallFields DEF CallInv
<1>2. PICK g \in Seq(Int), d \in Seq(Int), m \in Nat, e \in Nat :
         g = k.got /\ d = k.down /\ m = Len(g) /\ e = Len(d)
  BY <1>1, CallFields
<1>3. PICK w \in Seq(Nat) :
         w = Whole(k.kind) /\ \A i \in 1 .. Len(w) : w[i] > 0
  BY <1>1, WholeIs
<1>4. e > 0 /\ Len(t) = e - 1 /\ \A i \in 1 .. e - 1 : t[i] = d[i + 1]
  BY <1>2
<1>5. \A j \in 1 .. e : j < e \/ k.up # <<>> =>
         m + j <= Len(w) /\ d[j] = w[m + j]
  BY <1>1, <1>2, <1>3 DEF Downward
<1>6. m + 1 <= Len(w) /\ d[1] = w[m + 1]
  BY <1>2, <1>4, <1>5
<1>7. d[1] \notin {End, Error} /\ d[1] \in Int
  <2>1. m + 1 \in 1 .. Len(w)
    BY SMTT(20), <1>6
  <2>2. PICK h \in Nat : h = d[1] /\ h > 0
    BY <1>3, <1>6, <2>1
  <2>3. QED BY <2>2 DEF End, Error
<1>8. PICK f : f = Append(g, d[1])
  OBVIOUS
<1>9. /\ f \in Seq(Int) /\ Len(f) = m + 1 /\ f[m + 1] = d[1]
      /\ \A i \in 1 .. m : f[i] = g[i]
  BY <1>2, <1>7, <1>8
<1>10. PICK n : n = Gives(k, t, f, 0)
  OBVIOUS
<1>11. /\ n.kind = k.kind /\ n.up = k.up /\ n.down = t /\ n.got = f
       /\ n.told = 0 /\ n.count = k.count /\ n \in CallRecord
  <2>1. f \in Seq(Int) /\ k \in CallRecord
    BY <1>1, <1>9
  <2>2. PICK z \in Once : z = 0
    BY DEF Once
  <2>3. n = Gives(k, t, f, z)
    BY <1>10, <2>2
  <2>4. /\ n.kind = k.kind /\ n.up = k.up /\ n.down = t /\ n.got = f
        /\ n.told = z /\ n.count = k.count /\ n \in CallRecord
    <3>1. /\ Gives(k, t, f, z) \in CallRecord
          /\ Gives(k, t, f, z).kind = k.kind /\ Gives(k, t, f, z).up = k.up
          /\ Gives(k, t, f, z).down = t /\ Gives(k, t, f, z).got = f
          /\ Gives(k, t, f, z).told = z /\ Gives(k, t, f, z).count = k.count
      BY <2>1, GivesFields
    <3>2. QED BY <2>3, <3>1
  <2>5. QED BY <2>2, <2>4
<1>12. /\ \A i \in 1 .. m : g[i] # Error
       /\ \A i \in 1 .. m : i <= Len(w) /\ g[i] = w[i]
  BY <1>1, <1>2, <1>3 DEF GivenInOrder, NoError
<1>13. \A i \in 1 .. m + 1 : f[i] # Error /\ i <= Len(w) /\ f[i] = w[i]
  <2>1. ASSUME NEW i \in 1 .. m
        PROVE  f[i] # Error /\ i <= Len(w) /\ f[i] = w[i]
    BY <1>9, <1>12
  <2>2. f[m + 1] # Error /\ m + 1 <= Len(w) /\ f[m + 1] = w[m + 1]
    BY <1>6, <1>7, <1>9
  <2>3. \A i \in 1 .. m + 1 : i \in 1 .. m \/ i = m + 1
    OBVIOUS
  <2>4. QED BY <2>1, <2>2, <2>3
<1>14. GivenInOrder(n) /\ NoError(n)
  BY <1>3, <1>9, <1>11, <1>13 DEF GivenInOrder, NoError
<1>15. Downward(n)
  <2>1. ASSUME NEW j \in 1 .. Len(t), j < Len(t) \/ k.up # <<>>
        PROVE  m + 1 + j <= Len(w) /\ t[j] = w[m + 1 + j]
    <3>1. j + 1 \in 1 .. e /\ (j + 1 < e \/ k.up # <<>>) /\ t[j] = d[j + 1]
      <4>0. PICK a \in Nat : a = e - 1
        BY <1>4
      <4>1. a = Len(t) /\ a = e - 1
        BY <1>4, <4>0
      <4>2. j \in 1 .. a /\ (j < a \/ k.up # <<>>)
        BY <2>1, <4>1
      <4>3. j + 1 \in 1 .. e /\ (j < a => j + 1 < e)
        BY <4>1, <4>2
      <4>4. QED BY <1>4, <4>1, <4>2, <4>3
    <3>2. m + (j + 1) <= Len(w) /\ d[j + 1] = w[m + (j + 1)]
      BY <1>5, <3>1
    <3>3. m + (j + 1) = m + 1 + j
      OBVIOUS
    <3>4. QED BY <3>1, <3>2, <3>3
  <2>2. QED BY <1>3, <1>9, <1>11, <2>1 DEF Downward
<1>16. k.up = <<>> => Ends(n)
  <2> SUFFICES ASSUME k.up = <<>> PROVE Ends(n)
    OBVIOUS
  <2>1. d[e] = Error \/ (d[e] = End /\ m + e = Len(w) + 1)
    BY <1>1, <1>2, <1>3 DEF Ends
  <2>2. Len(t) > 0 /\ t[Len(t)] = d[e] /\ m + 1 + Len(t) = m + e
    <3>1. e > 1
      BY <1>2
    <3>2. e - 1 \in 1 .. e - 1 /\ (e - 1) + 1 = e
      BY <3>1
    <3>3. t[e - 1] = d[e]
      BY <1>4, <3>2
    <3>4. m + 1 + (e - 1) = m + e /\ e - 1 > 0
      BY <3>1
    <3>5. QED BY <1>4, <3>3, <3>4
  <2>3. QED BY <1>3, <1>9, <1>11, <2>1, <2>2 DEF Ends
<1>17. k.up # <<>> => Upward(n)
  <2> SUFFICES ASSUME k.up # <<>> PROVE Upward(n)
    OBVIOUS
  <2>1. Upward(k)
    BY <1>1
  <2>2. k.kind = "both" /\ m + e = k.count
    <3>1. Len(k.down) # 0
      OBVIOUS
    <3>2. k.kind \notin {"ping", "info", "server", "client"}
      BY <2>1, <3>1 DEF Upward
    <3>3. k.kind = "both"
      BY <1>1, <3>2 DEF Kinds, StreamKinds
    <3>4. QED BY <1>2, <2>1, <3>3 DEF Upward
  <2>3. Len(f) + Len(t) = m + e
    <3>1. m + 1 + (e - 1) = m + e
      OBVIOUS
    <3>2. QED BY <1>4, <1>9, <3>1
  <2>4. QED BY <1>11, <2>1, <2>2, <2>3 DEF Upward
<1>18. CallInv(n)
  BY <1>1, <1>11, <1>14, <1>15, <1>16, <1>17 DEF CallInv
<1>19. QED BY <1>2, <1>7, <1>8, <1>10, <1>18

\* The last event of a call: all was given, or there was an error.
LEMMA GivesLast ==
  ASSUME NEW k, CallInv(k), k.kind # "none", k.told = 0, Len(k.down) = 1,
         k.up = <<>>
  PROVE  /\ k.down[1] \in {End, Error}
         /\ CallInv(Gives(k, <<>>, IF k.down[1] = End THEN k.got
                                   ELSE Append(k.got, k.down[1]), 1))
<1>1. /\ k \in CallRecord /\ k.kind \in Kinds \ {"none"}
      /\ GivenInOrder(k) /\ Ends(k)
  BY CallFields DEF CallInv
<1>2. PICK g \in Seq(Int), m \in Nat : g = k.got /\ m = Len(g)
  BY <1>1, CallFields
<1>3. PICK w : w = Whole(k.kind)
  OBVIOUS
<1>4. PICK h : h = k.down[1]
  OBVIOUS
<1>5. h = Error \/ (h = End /\ m + 1 = Len(w) + 1)
  BY <1>1, <1>2, <1>3, <1>4 DEF Ends
<1>6. h \in Int /\ End # Error
  BY <1>5 DEF End, Error
<1>7. PICK f : f = IF h = End THEN g ELSE Append(g, h)
  OBVIOUS
<1>8. /\ f \in Seq(Int)
      /\ h = End => f = g
      /\ h # End => /\ Len(f) = m + 1 /\ f[m + 1] = h
                    /\ \A i \in 1 .. m : f[i] = g[i]
  BY <1>2, <1>6, <1>7
<1>9. PICK n : n = Gives(k, <<>>, f, 1)
  OBVIOUS
<1>10. /\ n.kind = k.kind /\ n.up = <<>> /\ n.down = <<>> /\ n.got = f
       /\ n.told = 1 /\ n \in CallRecord
  <2>1. 1 \in Once /\ <<>> \in Seq(Int)
    BY DEF Once
  <2>2. PICK z \in Once, d \in Seq(Int) : z = 1 /\ d = <<>>
    BY <2>1, Zenon
  <2>3. /\ Gives(k, d, f, z) \in CallRecord
        /\ Gives(k, d, f, z).kind = k.kind /\ Gives(k, d, f, z).up = k.up
        /\ Gives(k, d, f, z).down = d /\ Gives(k, d, f, z).got = f
        /\ Gives(k, d, f, z).told = z
    BY <1>1, <1>8, GivesFields
  <2>4. n = Gives(k, d, f, z)
    BY <1>9, <2>2
  <2>5. QED BY <2>2, <2>3, <2>4
<1>11. GivenInOrder(n)
  <2>1. \A i \in 1 .. m : g[i] # Error => i <= Len(w) /\ g[i] = w[i]
    BY <1>1, <1>2, <1>3 DEF GivenInOrder
  <2>2. CASE h = End
    BY <1>2, <1>3, <1>8, <1>10, <2>1, <2>2 DEF GivenInOrder
  <2>3. CASE h # End
    <3>1. Len(f) = m + 1 /\ f[m + 1] = Error /\ \A i \in 1 .. m : f[i] = g[i]
      BY <1>5, <1>8, <2>3
    <3>2. \A i \in 1 .. m + 1 : i \in 1 .. m \/ i = m + 1
      OBVIOUS
    <3>3. QED BY <1>3, <1>10, <2>1, <3>1, <3>2 DEF GivenInOrder
  <2>4. QED BY <2>2, <2>3
<1>12. NoError(n) => Len(n.got) = Len(Whole(n.kind))
  <2>1. CASE h = End
    <3>1. Len(f) = Len(w)
      <4>1. m + 1 = Len(w) + 1 /\ f = g
        BY <1>5, <1>6, <1>8, <2>1
      <4>2. Len(w) \in Nat
        BY <1>1, <1>3, WholeIs
      <4>3. QED BY <1>2, <4>1, <4>2
    <3>2. QED BY <1>3, <1>10, <3>1
  <2>2. CASE h # End
    <3>1. m + 1 \in 1 .. Len(f) /\ f[m + 1] = Error
      BY <1>5, <1>8, <2>2
    <3>2. ~NoError(n)
      BY <1>10, <3>1 DEF NoError
    <3>3. QED BY <3>2
  <2>3. QED BY <2>1, <2>2
<1>13. CallInv(n)
  BY <1>1, <1>10, <1>11, <1>12 DEF CallInv
<1>14. QED BY <1>2, <1>4, <1>5, <1>7, <1>9, <1>13

----------------------------------------------------------------------------
\* The handlers of the server keep what is known of a call.
LEMMA HandleInv ==
  ASSUME ObusInv, NEW c \in Calls, Handle(c)
  PROVE  CallInv(call'[c]) /\ \A d \in Calls \ {c} : call'[d] = call[d]
<1>1. PICK k : k = call[c]
  OBVIOUS
<1>2. CallInv(k) /\ k.up # <<>> /\ call = [d \in Calls |-> call[d]]
  BY <1>1 DEF ObusInv, Handle
<1>3. /\ k \in CallRecord /\ k.kind \in Kinds \ {"none"}
      /\ k.up \in Seq(Nat) /\ k.count \in Nat
  BY <1>2, Writes, CallFields
<1>4. PICK n : call' = [call EXCEPT ![c] = n] /\
         n = IF k.kind \in {"ping", "info"}
             THEN [k EXCEPT !.up = <<>>, !.down = <<1, End>>]
             ELSE IF k.kind = "server"
             THEN [k EXCEPT !.up = <<>>,
                            !.down = [i \in 1 .. ServerLabels |-> i] \o <<End>>]
             ELSE IF Head(k.up) = End
             THEN [k EXCEPT !.up = <<>>, !.down = @ \o AfterEnd(k)]
             ELSE [k EXCEPT !.up = Tail(@), !.count = k.count + 1,
                            !.down = IF k.kind = "both"
                                     THEN Append(@, k.count + 1) ELSE @]
  BY <1>1 DEF Handle, Counted
<1>5. CASE k.kind \in {"ping", "info"}
  <2>1. PICK d : d = <<1, End>>
    OBVIOUS
  <2>2. d \in Seq(Int) /\ Len(d) = 2 /\ d[1] = 1 /\ d[2] = End
    BY <2>1 DEF End
  <2>3. Len(Whole(k.kind)) = 1 /\ Whole(k.kind)[1] = 1
    BY <1>3, <1>5, WholeIs
  <2>4. \A j \in 1 .. Len(Whole(k.kind)) : d[j] = Whole(k.kind)[j]
    BY <2>2, <2>3
  <2>5. Len(d) = Len(Whole(k.kind)) + 1 /\ d[Len(d)] = End
    BY <2>2, <2>3
  <2>6. CallInv(Shut(k, d))
    BY <1>2, <1>5, <2>2, <2>4, <2>5, AnswersAll
  <2>7. n = Shut(k, d)
    BY <1>4, <1>5, <2>1 DEF Shut
  <2>8. CallInv(n)
    BY <2>6, <2>7
  <2>9. QED BY <1>2, <1>4, <2>8
<1>6. CASE k.kind = "server"
  <2>1. PICK d : d = [i \in 1 .. 3 |-> i] \o <<End>>
    OBVIOUS
  <2>2. /\ d \in Seq(Int) /\ Len(d) = 4
        /\ \A i \in 1 .. 4 : d[i] = IF i = 4 THEN End ELSE i
    <3>1. d \in Seq(Nat) /\ Len(d) = 4
      BY <2>1, LabelsAre DEF End
    <3>2. \A i \in 1 .. 4 : d[i] = IF i = 4 THEN 0 ELSE i
      BY <2>1, LabelsAre DEF End
    <3>3. d \in Seq(Int)
      BY <3>1
    <3>4. QED BY <3>1, <3>2, <3>3 DEF End
  <2>3. /\ Len(Whole(k.kind)) = 3
        /\ \A i \in 1 .. Len(Whole(k.kind)) : Whole(k.kind)[i] = i
    BY <1>3, <1>6, WholeIs
  <2>4. \A j \in 1 .. Len(Whole(k.kind)) : d[j] = Whole(k.kind)[j]
    BY <2>2, <2>3
  <2>5. Len(d) = Len(Whole(k.kind)) + 1 /\ d[Len(d)] = End
    BY <2>2, <2>3
  <2>6. CallInv(Shut(k, d))
    BY <1>2, <1>6, <2>2, <2>4, <2>5, AnswersAll
  <2>7. n = Shut(k, d)
    BY <1>4, <1>6, <2>1 DEF Shut, ServerLabels
  <2>8. CallInv(n)
    BY <2>6, <2>7
  <2>9. QED BY <1>2, <1>4, <2>8
<1>7. CASE k.kind \in {"client", "both"}
  <2>1. CASE Head(k.up) = End
    <3>1. n = Shut(k, k.down \o AfterEnd(k))
      BY <1>4, <1>7, <2>1 DEF Shut
    <3>2. CallInv(n)
      BY <1>2, <1>7, <2>1, <3>1, AnswersEnd
    <3>3. QED BY <1>2, <1>4, <3>2
  <2>2. CASE Head(k.up) # End
    <3>1. n = Counts(k, Tail(k.up), IF k.kind = "both"
                                    THEN Append(k.down, k.count + 1)
                                    ELSE k.down)
      BY <1>4, <1>7, <2>2 DEF Counts
    <3>2. CallInv(n)
      BY <1>2, <1>7, <2>2, <3>1, AnswersMessage
    <3>3. QED BY <1>2, <1>4, <3>2
  <2>3. QED BY <2>1, <2>2
<1>8. QED BY <1>3, <1>5, <1>6, <1>7 DEF Kinds, StreamKinds

\* An event at the client is the next message, or the last of the call.
LEMMA ToldInv ==
  ASSUME ObusInv, NEW c \in Calls, Told(c)
  PROVE  CallInv(call'[c]) /\ \A d \in Calls \ {c} : call'[d] = call[d]
<1>1. PICK k : k = call[c]
  OBVIOUS
<1>2. CallInv(k) /\ k.down # <<>> /\ call = [d \in Calls |-> call[d]]
  BY <1>1 DEF ObusInv, Told
<1>3. k.kind # "none" /\ k.told = 0 /\ k.down \in Seq(Int) /\ Len(k.down) > 0
  <2>1. k \in CallRecord /\ k.kind # "none" /\ k.told # 1
    BY <1>2 DEF CallInv
  <2>2. QED BY <1>2, <2>1, CallFields
<1>4. PICK n : call' = [call EXCEPT ![c] = n] /\
         n = [k EXCEPT !.down = Tail(@),
                !.got = IF Head(k.down) = End THEN @ ELSE Append(@, Head(k.down)),
                !.told = IF Head(k.down) \in {End, Error} THEN @ + 1 ELSE @]
  BY <1>1 DEF Told
<1>5. Head(k.down) = k.down[1]
  BY <1>3
<1>6. CallInv(n)
  <2>1. CASE Len(k.down) = 1 /\ k.up = <<>>
    <3>1. /\ k.down[1] \in {End, Error}
          /\ CallInv(Gives(k, <<>>, IF k.down[1] = End THEN k.got
                                    ELSE Append(k.got, k.down[1]), 1))
      BY <1>2, <1>3, <2>1, GivesLast
    <3>2. PICK t : t = Tail(k.down)
      OBVIOUS
    <3>3. t \in Seq(Int) /\ Len(t) = 0
      <4>1. PICK v \in Seq(Int) : v = k.down
        BY <1>3
      <4>2. Len(v) = 1 /\ t = Tail(v) /\ v # <<>>
        BY <1>2, <2>1, <3>2, <4>1
      <4>3. t \in Seq(Int)
        BY <4>2
      <4>4. Len(t) = Len(v) - 1
        BY <4>2
      <4>5. QED BY <4>2, <4>3, <4>4
    <3>4. t = <<>>
      BY <3>3
    <3>5. PICK f : f = IF k.down[1] = End THEN k.got
                       ELSE Append(k.got, k.down[1])
      OBVIOUS
    <3>6. k.told + 1 = 1
      BY <1>3
    <3>7. n = [k EXCEPT !.down = t, !.got = f, !.told = 1]
      BY <1>4, <1>5, <3>1, <3>2, <3>5, <3>6
    <3>8. n = Gives(k, <<>>, f, 1)
      BY <3>4, <3>7 DEF Gives
    <3>9. QED BY <3>1, <3>5, <3>8
  <2>2. CASE Len(k.down) > 1 \/ k.up # <<>>
    <3>1. PICK t : t = Tail(k.down)
      OBVIOUS
    <3>2. /\ t \in Seq(Int) /\ Len(t) = Len(k.down) - 1
          /\ \A i \in 1 .. Len(t) : t[i] = k.down[i + 1]
      BY <1>3, <3>1
    <3>3. /\ k.down[1] \notin {End, Error}
          /\ CallInv(Gives(k, t, Append(k.got, k.down[1]), 0))
      BY <1>2, <1>3, <2>2, <3>2, GivesMore
    <3>4. n = Gives(k, t, Append(k.got, k.down[1]), 0)
      BY <1>3, <1>4, <1>5, <3>1, <3>3 DEF Gives
    <3>5. QED BY <3>3, <3>4
  <2>3. Len(k.down) = 1 \/ Len(k.down) > 1
    <3>1. PICK e \in Nat : e = Len(k.down)
      BY <1>3
    <3>2. e > 0
      BY <1>3, <3>1
    <3>3. e = 1 \/ e > 1
      BY <3>2
    <3>4. QED BY <3>1, <3>3
  <2>4. QED BY <2>1, <2>2, <2>3
<1>7. QED BY <1>2, <1>4, <1>6

\* The server dies: every call that has not ended is ended with an error,
\* and what was on its way to the client may be lost.
LEMMA DiesInv ==
  ASSUME ObusInv, NEW c \in Calls, ServerDies
  PROVE  CallInv(call'[c])
<1>1. PICK k : k = call[c]
  OBVIOUS
<1>2. CallInv(k) /\ k \in CallRecord /\ k.down \in Seq(Int)
  BY <1>1, CallFields DEF ObusInv, CallInv
<1>3. \/ k.down # <<>> /\ call'[c] = Shut(k, <<Error>>)
      \/ call'[c] = k
      \/ ~HasEnded(k) /\ call'[c] = Shut(k, Append(k.down, Error))
  BY <1>1 DEF ServerDies, Shut
<1>4. ASSUME k.kind # "none", k.told = 0
      PROVE  CallInv(Shut(k, <<Error>>))
  <2>1. PICK x \in Int : x = Error
    BY DEF Error
  <2>2. <<x>> \in Seq(Int)
    OBVIOUS
  <2>3. PICK d \in Seq(Int) : d = <<x>> /\ Len(d) = 1 /\ d[1] = Error
    BY <2>1, <2>2
  <2>4. /\ Len(d) > 0 /\ d[Len(d)] = Error
        /\ \A j \in 1 .. Len(d) : ~(j < Len(d))
    BY <2>3
  <2>5. CallInv(Shut(k, d))
    BY <1>2, <1>4, <2>4, Closed
  <2>6. QED BY <2>1, <2>3, <2>5
<1>5. CASE k.down # <<>> /\ call'[c] = Shut(k, <<Error>>)
  <2>1. k.kind # "none" /\ k.told = 0
    BY <1>2, <1>5, CallFields DEF CallInv
  <2>2. QED BY <1>4, <1>5, <2>1
<1>6. CASE ~HasEnded(k) /\ call'[c] = Shut(k, Append(k.down, Error))
  <2>1. k.kind # "none" /\ k.told = 0
    BY <1>2, <1>6, CallFields DEF HasEnded
  <2>2. ~(k.down # <<>> /\ k.down[Len(k.down)] \in {End, Error})
    BY <1>6 DEF HasEnded
  <2>3. Downward(k) /\ (k.up = <<>> => Ends(k))
    BY <1>2, <2>1 DEF CallInv
  <2>4. k.up # <<>>
    <3>1. Ends(k) => /\ Len(k.down) > 0
                     /\ k.down[Len(k.down)] \in {End, Error}
      BY DEF Ends
    <3>2. k.down = <<>> => ~(Len(k.down) > 0)
      OBVIOUS
    <3>3. QED BY <2>2, <2>3, <3>1, <3>2
  <2>5. PICK e \in Nat, x \in Int : e = Len(k.down) /\ x = Error
    BY <1>2 DEF Error
  <2>6. PICK d : d = Append(k.down, x)
    OBVIOUS
  <2>7. /\ d \in Seq(Int) /\ Len(d) = e + 1 /\ d[e + 1] = Error
        /\ \A j \in 1 .. e : d[j] = k.down[j]
    BY <1>2, <2>5, <2>6
  <2>8. \A j \in 1 .. e : /\ Len(k.got) + j <= Len(Whole(k.kind))
                          /\ k.down[j] = Whole(k.kind)[Len(k.got) + j]
    BY <2>3, <2>4, <2>5 DEF Downward
  <2>9. /\ Len(d) > 0 /\ d[Len(d)] = Error
        /\ \A j \in 1 .. Len(d) : j < Len(d) => j \in 1 .. e
    BY <2>7
  <2>10. CallInv(Shut(k, d))
    BY <1>2, <2>1, <2>7, <2>8, <2>9, Closed
  <2>11. QED BY <1>6, <2>5, <2>6, <2>10
<1>7. QED BY <1>2, <1>3, <1>5, <1>6

\* The calls of one turn of the client are new ones, in free records.
LEMMA MakeCallsInv ==
  ASSUME ObusInv, NEW methods, methods \subseteq Kinds \ {"none"},
         MakeCalls(methods)
  PROVE  /\ call' = [c \in Calls |-> call'[c]]
         /\ \A c \in Calls : CallInv(call'[c])
<1> DEFINE slots == {f \in [methods -> Free] :
                       \A j, k \in methods : f[j] = f[k] => j = k}
           by == CHOOSE f \in slots : TRUE
<1>1. call' = [c \in Calls |->
           IF \E m \in methods : by[m] = c
           THEN NewCall(CHOOSE m \in methods : by[m] = c) ELSE call[c]]
  BY DEF MakeCalls
<1> HIDE DEF by
<1>2. ASSUME NEW c \in Calls
      PROVE  CallInv(call'[c])
  <2>1. CASE \E m \in methods : by[m] = c
    <3>1. PICK m \in methods : m = CHOOSE n \in methods : by[n] = c
      BY <2>1
    <3>2. call'[c] = NewCall(m)
      BY <1>1, <2>1, <3>1
    <3>3. CallInv(NewCall(m))
      BY NewCallInv
    <3>4. QED BY <3>2, <3>3
  <2>2. CASE ~ \E m \in methods : by[m] = c
    BY <1>1, <2>2 DEF ObusInv
  <2>3. QED BY <2>1, <2>2
<1>3. call' = [c \in Calls |-> call'[c]]
  BY <1>1
<1>4. QED BY <1>2, <1>3

\* Calls that keep the invariant, and the client's and server's own state.
LEMMA ObusFrame ==
  ASSUME ObusInv, UNCHANGED <<opts, lines>>,
         client' \in {"init", "loop", "once", "thrown", "over"},
         turns' \in 0 .. MaxTurns, client' = "init" => turns' = 0,
         serving' \in BOOLEAN,
         call' = [c \in Calls |-> call'[c]],
         \A c \in Calls : CallInv(call'[c])
  PROVE  ObusInv'
<1>1. \A c \in Calls : call'[c].kind \in Kinds /\ call'[c].told \in {0, 1}
  BY CallFields DEF CallInv
<1>2. ObusTypeOK' /\ TurnsInv'
  BY <1>1 DEF ObusInv, ObusTypeOK, TurnsInv
<1>3. \A c \in Calls : CallInv(call[c])'
  BY DEF CallInv, CallRecord, GivenInOrder, NoError, Downward, Ends, Upward
<1>4. QED BY <1>2, <1>3 DEF ObusInv

LEMMA ObusNextInv ==
  ASSUME ObusInv, [ObusNext]_obusVars
  PROVE  ObusInv'
<1>1. /\ client \in {"init", "loop", "once", "thrown", "over"}
      /\ turns \in 0 .. MaxTurns /\ (client = "init" => turns = 0)
      /\ serving \in BOOLEAN /\ lines \subseteq StreamKinds
      /\ call = [c \in Calls |-> call[c]]
      /\ \A c \in Calls : CallInv(call[c])
  BY DEF ObusInv, ObusTypeOK, TurnsInv
<1>2. Methods \subseteq Kinds \ {"none"}
  BY <1>1 DEF Methods, Meth, Kinds, StreamKinds
<1>3. CASE Talk
  <2>1. turns' \in 0 .. MaxTurns
    BY <1>1, <1>3, ObusAssumption DEF Talk
  <2>2. /\ client' \in {"loop", "once", "thrown"}
        /\ UNCHANGED <<opts, lines, serving>>
        /\ MakeCalls(Methods) \/ UNCHANGED call
    BY <1>3 DEF Talk
  <2>3. /\ call' = [c \in Calls |-> call'[c]]
        /\ \A c \in Calls : CallInv(call'[c])
    BY <1>1, <1>2, <2>2, MakeCallsInv
  <2>4. QED BY <1>1, <2>1, <2>2, <2>3, ObusFrame
<1>4. CASE Turn
  <2>1. /\ turns' \in 0 .. MaxTurns /\ client' = "loop"
        /\ UNCHANGED <<opts, lines, serving>>
    BY <1>1, <1>4, ObusAssumption DEF Turn
  <2>2. /\ call' = [c \in Calls |-> call'[c]]
        /\ \A c \in Calls : CallInv(call'[c])
    BY <1>2, <1>4, MakeCallsInv DEF Turn
  <2>3. QED BY <1>1, <2>1, <2>2, ObusFrame
<1>5. CASE ClientOver
  BY <1>1, <1>5, ObusFrame DEF ClientOver
<1>6. CASE ServerDies
  <2>1. /\ serving' \in BOOLEAN /\ UNCHANGED <<opts, lines, client, turns>>
        /\ call' = [c \in Calls |-> call'[c]]
    BY <1>6 DEF ServerDies
  <2>2. \A c \in Calls : CallInv(call'[c])
    BY <1>6, DiesInv
  <2>3. QED BY <1>1, <2>1, <2>2, ObusFrame
<1>7. CASE ServerStarts
  <2>1. /\ serving' \in BOOLEAN
        /\ UNCHANGED <<opts, lines, client, turns, call>>
    BY <1>7 DEF ServerStarts
  <2>2. QED BY <1>1, <2>1, ObusFrame
<1>8. ASSUME NEW c \in Calls, Handle(c) \/ Told(c)
      PROVE  ObusInv'
  <2>1. /\ CallInv(call'[c])
        /\ \A d \in Calls \ {c} : call'[d] = call[d]
    BY <1>8, HandleInv, ToldInv
  <2>2. \A d \in Calls : CallInv(call'[d])
    BY <1>1, <2>1
  <2>3. /\ UNCHANGED <<opts, lines, client, turns, serving>>
        /\ call' = [d \in Calls |-> call'[d]]
    <3>1. CASE Handle(c)
      BY <1>1, <3>1 DEF Handle
    <3>2. CASE Told(c)
      BY <1>1, <3>2 DEF Told
    <3>3. QED BY <1>8, <3>1, <3>2
  <2>4. QED BY <1>1, <2>2, <2>3, ObusFrame
<1>9. CASE UNCHANGED obusVars
  BY <1>1, <1>9, ObusFrame DEF obusVars
<1>10. QED
  BY <1>3, <1>4, <1>5, <1>6, <1>7, <1>8, <1>9 DEF ObusNext

(***************************************************************************)
(* What the client has been given of each call, and what is on its way,    *)
(* are the answer in order, up to an error that ends it (obus.js and the   *)
(* handlers of obus-server.js).                                            *)
(***************************************************************************)
THEOREM ObusInvariant == ToolsSpec => []ObusInv
<1>1. ToolsInit => ObusInv
  <2> SUFFICES ASSUME ToolsInit PROVE ObusInv
    OBVIOUS
  <2>0. ObusInit
    BY DEF ToolsInit
  <2>1. \A c \in Calls : call[c] = NoCall
    BY <2>0 DEF ObusInit
  <2>2. CallInv(NoCall)
    <3>1. <<>> \in Seq(Nat) /\ <<>> \in Seq(Int)
      OBVIOUS
    <3>2. NoCall \in CallRecord
      BY <3>1 DEF NoCall, CallRecord, Kinds
    <3>3. QED BY <3>2 DEF NoCall, CallInv
  <2>3. lines \subseteq StreamKinds
    BY <2>0, ObusAssumption DEF ObusInit, StreamKinds
  <2>4. ObusTypeOK
    BY <2>0, <2>1, <2>3, ObusAssumption DEF ObusInit, ObusTypeOK, NoCall, Kinds
  <2>5. TurnsInv /\ call = [c \in Calls |-> call[c]]
    BY <2>0, ObusAssumption DEF ObusInit, TurnsInv
  <2>6. QED BY <2>1, <2>2, <2>4, <2>5 DEF ObusInv
<1>2. ASSUME ObusInv, [ToolsNext]_toolVars
      PROVE  ObusInv'
  <2>1. [ObusNext]_obusVars
    BY <1>2 DEF ToolsNext, toolVars
  <2>2. QED BY <1>2, <2>1, ObusNextInv
<1>3. QED BY <1>1, <1>2, PTL DEF ToolsSpec

(***************************************************************************)
(* A call that ends without an error has given all of the answer, in       *)
(* order, whatever calls are open beside it and whenever the server dies.  *)
(***************************************************************************)
THEOREM AnsweredWholeHolds == ToolsSpec => []AnsweredWhole
<1>1. ASSUME ObusInv, NEW c \in Calls, call[c].kind # "none"
      PROVE  /\ \A i \in DOMAIN call[c].got :
                   call[c].got[i] # Error =>
                      /\ i <= Len(Whole(call[c].kind))
                      /\ call[c].got[i] = Whole(call[c].kind)[i]
             /\ call[c].told = 1 /\ ~Failed(c) =>
                   call[c].got = Whole(call[c].kind)
  <2>1. PICK k : k = call[c]
    OBVIOUS
  <2>2. CallInv(k) /\ k \in CallRecord /\ k.kind \in Kinds \ {"none"}
    BY <1>1, <2>1, CallFields DEF ObusInv, CallInv
  <2>3. PICK g \in Seq(Int), w \in Seq(Nat) : g = k.got /\ w = Whole(k.kind)
    BY <2>2, CallFields, WholeIs
  <2>4. \A i \in 1 .. Len(g) : g[i] # Error => i <= Len(w) /\ g[i] = w[i]
    BY <2>2, <2>3 DEF CallInv, GivenInOrder
  <2>5. DOMAIN g = 1 .. Len(g)
    OBVIOUS
  <2>6. ASSUME k.told = 1, \A i \in 1 .. Len(g) : g[i] # Error
        PROVE  g = w
    <3>1. Len(g) = Len(w)
      BY <2>2, <2>3, <2>6 DEF CallInv, NoError
    <3>2. \A i \in 1 .. Len(g) : g[i] = w[i]
      BY <2>4, <2>6
    <3>3. QED BY <3>1, <3>2
  <2>7. ~Failed(c) => \A i \in 1 .. Len(g) : g[i] # Error
    BY <2>1, <2>3, <2>5 DEF Failed
  <2>8. QED BY <2>1, <2>3, <2>4, <2>5, <2>6, <2>7
<1>2. ObusInv => AnsweredWhole
  BY <1>1 DEF AnsweredWhole
<1>3. QED BY <1>2, ObusInvariant, PTL

----------------------------------------------------------------------------
\* What the commands of config-beacons install is the image's configuration
\* or that of a run.
PodConfigs == [envoy : Configs, old : Configs, copied : [FileNames -> Configs]]

Ranges ==
  /\ runNo \in 0 .. MaxRuns
  /\ disk \in [BeaconPods -> PodConfigs]
  /\ running \in [BeaconPods -> Configs]
  /\ hup \subseteq BeaconPods /\ wiped \subseteq BeaconPods /\ strays \subseteq BeaconPods

LEMMA WorksRanges ==
  ASSUME ConfigInv, Ranges, NEW c \in commands, Works(c)
  PROVE  /\ disk' \in [BeaconPods -> PodConfigs]
         /\ hup' \subseteq BeaconPods /\ strays' \subseteq BeaconPods
<1>1. /\ c.file \in FileNames /\ c.pod \in BeaconPods /\ c.what \in {"cp", "install", "restart"}
      /\ c.run \in Nat /\ c.run <= runNo
  BY DEF ConfigInv, ConfigBase, Bounded, Commands
<1>2. c.run \in Configs
  BY <1>1, ConfigAssumption DEF Ranges, Configs, None
<1>3. PICK d : d = disk[c.pod]
  OBVIOUS
<1>4. d \in PodConfigs
  BY <1>1, <1>3 DEF Ranges
<1> HIDE <1>3
<1>5. Files(c, d) \in PodConfigs
  <2>1. CASE c.what = "cp"
    BY <1>2, <1>4, <2>1 DEF Files, PodConfigs
  <2>2. CASE c.what = "install"
    BY <1>1, <1>4, <2>2 DEF Files, PodConfigs
  <2>3. CASE c.what = "restart"
    BY <1>4, <2>3 DEF Files
  <2>4. QED BY <1>1, <2>1, <2>2, <2>3
<1>6. PICK f : f = Files(c, d)
  OBVIOUS
<1>7. disk' = [disk EXCEPT ![c.pod] = f]
  BY <1>3, <1>6 DEF Works
<1>8. disk' \in [BeaconPods -> PodConfigs]
  BY <1>5, <1>6, <1>7 DEF Ranges
<1>9. hup' \subseteq BeaconPods /\ strays' \subseteq BeaconPods
  BY <1>1 DEF Works, Strays, Ranges
<1>10. QED BY <1>8, <1>9

LEMMA RangesNext ==
  ASSUME ConfigInv, Ranges, [ConfigNext]_configVars
  PROVE  Ranges'
<1>1. CASE UNCHANGED configVars
  BY <1>1 DEF configVars, scriptVars, podVars, Ranges
<1>2. CASE Main
  BY <1>2, ConfigAssumption DEF Main, podVars, Ranges
<1>3. ASSUME NEW c \in commands, Succeeds(c) \/ CommandFails(c)
      PROVE  Ranges'
  <2>1. UNCHANGED <<runNo, running, wiped>> /\ (Works(c) \/ UNCHANGED <<disk, hup, strays>>)
    BY <1>3 DEF Succeeds, CommandFails, podVars
  <2>2. /\ disk' \in [BeaconPods -> PodConfigs]
        /\ hup' \subseteq BeaconPods /\ strays' \subseteq BeaconPods
    BY <2>1, WorksRanges DEF Ranges
  <2>3. QED BY <2>1, <2>2 DEF Ranges
<1>4. ASSUME NEW p \in BeaconPods, EnvoyStarts(p)
      PROVE  Ranges'
  <2>1. disk[p].envoy \in Configs
    BY DEF Ranges, PodConfigs
  <2>2. QED BY <1>4, <2>1 DEF EnvoyStarts, scriptVars, Ranges
<1>5. ASSUME NEW p \in BeaconPods, ContainerRestarts(p)
      PROVE  Ranges'
  <2>1. None \in Configs /\ Image \in Configs
    BY ConfigAssumption DEF Configs, None, Image
  <2>2. Fresh \in PodConfigs
    BY <2>1 DEF Fresh, PodConfigs, NoCopies
  <2>3. /\ disk' = [disk EXCEPT ![p] = Fresh] /\ running' = [running EXCEPT ![p] = Image]
        /\ hup' = hup \ {p} /\ wiped' = wiped \cup {p} /\ runNo' = runNo
        /\ strays' = strays
    BY <1>5 DEF ContainerRestarts, scriptVars, Fresh
  <2>4. QED BY <2>1, <2>2, <2>3 DEF Ranges
<1>6. QED BY <1>1, <1>2, <1>3, <1>4, <1>5 DEF ConfigNext

LEMMA ConfigTypes == ConfigInv /\ Ranges => ConfigTypeOK
  BY DEF ConfigInv, ConfigBase, Commands, Ranges, PodConfigs, ConfigTypeOK

LEMMA ResetTypeNext ==
  ASSUME ResetInv, ResetTypeOK, [ResetNext]_resetVars
  PROVE  ResetTypeOK'
<1> USE DEF ResetTypeOK, Status
<1>0. Len(glZones) = 2
  BY DEF glZones
<1>1. CASE UNCHANGED resetVars
  BY <1>1 DEF resetVars
<1>2. CASE StartReset
  BY <1>0, <1>2 DEF StartReset
<1>3. CASE Resolve
  BY <1>3 DEF Resolve
<1>4. CASE Loop
  <2>1. UNCHANGED <<ips, current, accepted, fresh>>
    BY <1>4 DEF Loop
  <2>2. /\ script' \in {"idle", "dns", "loop", "finish", "throw", "silent"}
        /\ request' \in Status /\ zoneIndex' \in 0 .. Len(glZones)
    BY <1>0, <1>4 DEF Loop, NextZone
  <2>3. QED BY <2>1, <2>2
<1>5. CASE Serve
  <2>1. ips[zoneIndex] \in Locpicks
    BY <1>5 DEF ResetInv, Serve
  <2>2. UNCHANGED <<script, ips, zoneIndex, accepted, fresh>> /\ request' \in Status
    BY <1>5 DEF Serve, LocpickResets
  <2>3. \A l \in Locpicks : current'[l] \in ZonesOf[l] \cup {NoZone}
    BY <1>5, <2>1 DEF Serve, LocpickResets, ResetInv
  <2>4. QED BY <2>2, <2>3
<1>6. CASE ResetAnswered
  <2>1. zoneIndex \in 1 .. Len(ips) /\ ips \in Seq(Locpicks)
    BY <1>6 DEF ResetAnswered, ResetInv
  <2>2. QED BY <1>6, <2>1 DEF ResetAnswered
<1>7. CASE Unanswered
  BY <1>7 DEF Unanswered
<1>8. ASSUME NEW l \in Locpicks, LocpickAnew(l)
      PROVE  ResetTypeOK'
  BY <1>8 DEF LocpickAnew, ResetInv
<1>9. QED BY <1>1, <1>2, <1>3, <1>4, <1>5, <1>6, <1>7, <1>8 DEF ResetNext, ResetStep

(***************************************************************************)
(* The state of each of the three programs keeps its type: no pod ever has *)
(* a configuration beyond that of the last run (config-beacons.js:200-245) *)
(* and no locpick a zone that is not in its list (locpick.js:446-470).     *)
(***************************************************************************)
THEOREM ToolsTypeCorrect == ToolsSpec => []ToolsTypeOK
<1>1. ToolsInit => Ranges /\ ResetTypeOK
  <2>1. ToolsInit => Ranges
    <3> SUFFICES ASSUME ConfigInit PROVE Ranges
      BY DEF ToolsInit
    <3>1. None \in Configs /\ Image \in Configs
      BY ConfigAssumption DEF Configs, None, Image
    <3>2. QED BY <3>1, ConfigAssumption DEF ConfigInit, Ranges, PodConfigs, NoCopies
  <2>2. ToolsInit => ResetTypeOK
    BY DEF ToolsInit, ResetInit, ResetTypeOK, Status, glZones
  <2>3. QED BY <2>1, <2>2
<1>2. ASSUME ConfigInv, Ranges, ResetInv, ResetTypeOK, [ToolsNext]_toolVars
      PROVE  Ranges' /\ ResetTypeOK'
  <2>1. [ConfigNext]_configVars /\ [ResetNext]_resetVars
    BY <1>2 DEF ToolsNext, toolVars
  <2>2. QED BY <1>2, <2>1, RangesNext, ResetTypeNext
<1>3. ConfigInv /\ Ranges /\ ResetTypeOK /\ ObusInv => ToolsTypeOK
  BY ConfigTypes DEF ToolsTypeOK, ObusInv
<1>4. QED
  BY <1>1, <1>2, <1>3, ConfigInvariant, ResetInvariant, ObusInvariant, PTL
  DEF ToolsSpec
=============================================================================
