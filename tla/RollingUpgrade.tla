--------------------------- MODULE RollingUpgrade ---------------------------
(***************************************************************************)
(* A rolling upgrade of the pgbattery binary: the command that bounces     *)
(* followers one at a time, moves the leader and bounces it last, the      *)
(* handler that downloads, verifies and installs a release on a node, and  *)
(* the health gate ("doctor") in front of it.  A command that gives up on  *)
(* a time-out leaves its last request running; the operator runs it again. *)
(***************************************************************************)
EXTENDS Integers, FiniteSets

CONSTANTS
  RollNodes,    \* the voters
  Impatient,    \* BOOLEAN: the command is run again while an install still goes on
  MaxRolls,     \* bound: commands
  MaxUpsets     \* bound: crashes, lagging standbys, elections nobody asked for

NoNode == "nobody"

ASSUME RollingUpgradeAssumption ==
  /\ IsFiniteSet(RollNodes) /\ Cardinality(RollNodes) >= 3 /\ NoNode \notin RollNodes
  /\ Impatient \in BOOLEAN
  /\ {MaxRolls, MaxUpsets} \subseteq Nat

VARIABLES
  chief,     \* the Raft leader, or NoNode
  alive,     \* the process runs
  replication,     \* the standby's replication: "off", "streams" (within the threshold), "synced"
  version,   \* the release the process runs
  exe,       \* the executable on disk, and below the copy moved aside
  aside,     \*   (<exe>.old); "none": no file
  install,   \* the self-upgrade handler: [at, got]
  command,   \* the roll: [pc, cur, left, boss, via, seen, insecure]
  rolls, upsets

rollVars == <<chief, alive, replication, version, exe, aside, install, command, rolls, upsets>>

NoInstall == [at |-> "none", got |-> "none", verify |-> TRUE]
NoCommand == [pc |-> "none", cur |-> NoNode, left |-> {}, boss |-> NoNode, via |-> NoNode,
              seen |-> [n \in RollNodes |-> "v1"], insecure |-> FALSE]
files == <<exe, aside>>
counts == <<rolls, upsets>>

Majority(S) == 2 * Cardinality(S) > Cardinality(RollNodes)
Up == {n \in RollNodes : alive[n]}
Synced == {n \in RollNodes \ {chief} : replication[n] = "synced"}
Required == (Cardinality(RollNodes) - 1) \div 2   \* synchronous standbys the plan asks for

-----------------------------------------------------------------------------
(* A release and what vouches for it. *)

\* What a server may hand out: the target, an older release, another file.
Releases == {"v1", "v2", "foreign"}
Target == "v2"    \* the identity a signature is checked for has its tag

\* A signature: the file it is over, the tag in its certificate, and whether
\* certificate and issuer are the expected ones, which only ever sign a tag's
\* own build.
Signatures ==
  {s \in [over : Releases, tag : Releases, trusted : BOOLEAN] : s.trusted => s.tag = s.over}

\* A bundle adds an entry of the transparency log: the file it names, and
\* whether it is in the log for this signature.
Bundles == [sig : Signatures, entry : Releases, logged : BOOLEAN]

BlobVerifies(file, s) == s.over = file /\ s.trusted /\ s.tag = Target

BundleVerifies(file, b) == b.logged /\ b.entry = file /\ BlobVerifies(file, b.sig)

\* A missing bundle falls back to the detached pair; one that does not
\* verify refuses the release.
ReleaseVerifies(file, bundles, sigs) ==
  IF bundles # {} THEN \E b \in bundles : BundleVerifies(file, b)
                  ELSE \E s \in sigs : BlobVerifies(file, s)

ChecksumMatches(file, sum) == file = sum

\* The files some answer of the server gets past the checks.
Accepted ==
  [verify \in BOOLEAN |->
     {file \in Releases : \E sum \in Releases :
        /\ ChecksumMatches(file, sum)
        /\ verify => \/ \E b \in Bundles : ReleaseVerifies(file, {b}, {})
                     \/ \E s \in Signatures : ReleaseVerifies(file, {}, {s})}]

-----------------------------------------------------------------------------
(* The handler: POST /admin/upgrade. *)

\* Skipping the check needs this node's own configured consent; none of
\* these nodes gives it.
UnverifiedWithoutConsent(insecure) == insecure

RefusedOnLeader(n) == chief = n

\* perform_self_upgrade refuses the release it runs, and an older one.
NotAnUpgrade(n) == version[n] = Target

Admits(n, insecure) ==
  /\ ~UnverifiedWithoutConsent(insecure)
  /\ install[n].at = "none"
  /\ ~RefusedOnLeader(n)
  /\ ~NotAnUpgrade(n)

Put(n, at, got) == install' = [install EXCEPT ![n].at = at, ![n].got = got]

\* The download is refused, or passes the checks and is written beside the
\* executable.
Download(n) ==
  /\ install[n].at = "asked"
  /\ \/ \E file \in Accepted[install[n].verify] : Put(n, "staged", file)
     \/ Put(n, "failed", "none")
  /\ UNCHANGED <<chief, alive, replication, version, files, command, counts>>

\* Faulty variant: the old copy is dropped before the new one is in place.
MoveAsideDropping(n) ==
  /\ install[n].at = "staged"
  /\ aside' = [aside EXCEPT ![n] = "none"]
  /\ exe' = [exe EXCEPT ![n] = "none"]
  /\ Put(n, "moved", install[n].got)
  /\ UNCHANGED <<chief, alive, replication, version, command, counts>>

\* The running executable is renamed out of the way, when there is one.
MoveAside(n) ==
  /\ install[n].at = "staged"
  /\ \/ /\ IF exe[n] = "none" THEN UNCHANGED files
           ELSE aside' = [aside EXCEPT ![n] = exe[n]] /\ exe' = [exe EXCEPT ![n] = "none"]
        /\ Put(n, "moved", install[n].got)
     \/ exe[n] # "none" /\ Put(n, "failed", "none") /\ UNCHANGED files
  /\ UNCHANGED <<chief, alive, replication, version, command, counts>>

\* The new one takes its place; on a failure the old one is put back, which
\* may fail too.
Place(n) ==
  /\ install[n].at = "moved"
  /\ \/ exe' = [exe EXCEPT ![n] = install[n].got] /\ Put(n, "placed", "none") /\ UNCHANGED aside
     \/ /\ aside[n] # "none"
        /\ exe' = [exe EXCEPT ![n] = aside[n]] /\ aside' = [aside EXCEPT ![n] = "none"]
        /\ Put(n, "failed", "none")
     \/ Put(n, "failed", "none") /\ UNCHANGED files
  /\ UNCHANGED <<chief, alive, replication, version, command, counts>>

\* The answer leaves, and the process stops to be started again.
StopForRestart(n) ==
  /\ install[n].at = "placed"
  /\ alive' = [alive EXCEPT ![n] = FALSE]
  /\ replication' = IF chief = n THEN [m \in RollNodes |-> "off"] ELSE [replication EXCEPT ![n] = "off"]
  /\ chief' = IF chief = n THEN NoNode ELSE chief
  /\ install' = [install EXCEPT ![n] = NoInstall]
  /\ command' = IF command.pc = "answer" /\ command.cur = n
                THEN [command EXCEPT !.pc = "version back"] ELSE command
  /\ UNCHANGED <<version, files, counts>>

\* A refused or failed install answers an error, and the command ends.
AnswerFailure(n) ==
  /\ install[n].at = "failed"
  /\ install' = [install EXCEPT ![n] = NoInstall]
  /\ command' = IF command.pc = "answer" /\ command.cur = n THEN NoCommand ELSE command
  /\ UNCHANGED <<chief, alive, replication, version, files, counts>>

-----------------------------------------------------------------------------
(* The cluster around the roll. *)

\* The service manager starts whatever the path holds.
Restart(n) ==
  /\ ~alive[n] /\ exe[n] # "none"
  /\ alive' = [alive EXCEPT ![n] = TRUE]
  /\ version' = [version EXCEPT ![n] = exe[n]]
  /\ UNCHANGED <<chief, replication, files, install, command, counts>>

Follow(n) ==
  /\ alive[n] /\ chief \notin {n, NoNode}
  /\ \/ replication[n] = "off" /\ replication' = [replication EXCEPT ![n] = "streams"]
     \/ replication[n] = "streams" /\ replication' = [replication EXCEPT ![n] = "synced"]
  /\ UNCHANGED <<chief, alive, version, files, install, command, counts>>

Lead(n) ==
  /\ alive[n] /\ Majority(Up)
  /\ chief' = n
  /\ replication' = [m \in RollNodes |-> "off"]

Upset == upsets < MaxUpsets /\ upsets' = upsets + 1

\* An election: after the leader went, or one nobody asked for.
Elect(n) ==
  /\ n # chief /\ Lead(n)
  /\ IF chief = NoNode THEN UNCHANGED upsets ELSE Upset
  /\ UNCHANGED <<alive, version, files, install, command, rolls>>

FallBehind(n) ==
  /\ replication[n] = "synced" /\ Upset
  /\ replication' = [replication EXCEPT ![n] = "streams"]
  /\ UNCHANGED <<chief, alive, version, files, install, command, rolls>>

\* A power loss takes a renamed file back only with its directory: the
\* renames are in order, so one state of the two steps is on disk.
Crash(n) ==
  /\ alive[n] /\ Upset
  /\ alive' = [alive EXCEPT ![n] = FALSE]
  /\ replication' = IF chief = n THEN [m \in RollNodes |-> "off"] ELSE [replication EXCEPT ![n] = "off"]
  /\ chief' = IF chief = n THEN NoNode ELSE chief
  /\ install' = [install EXCEPT ![n] = NoInstall]
  /\ UNCHANGED <<version, files, command, rolls>>

-----------------------------------------------------------------------------
(* The health gate. *)

NodesConnect == Up = RollNodes

OneLeader == chief # NoNode

QuorumReported == Majority(Up)

\* Enough synchronous standbys, and none of them far behind.
ReplicationHealthy ==
  /\ Cardinality(Synced) >= Required
  /\ \A n \in RollNodes \ {chief} : replication[n] # "off"

DoctorStrict == NodesConnect /\ OneLeader /\ QuorumReported /\ ReplicationHealthy

-----------------------------------------------------------------------------
(* The command. *)

At(pc) == command' = [command EXCEPT !.pc = pc]

GiveUp == command' = NoCommand

NodesNeedingUpgrade(seen) == {n \in RollNodes : seen[n] # Target}

\* The nodes not on the target run one version, the major before it at most.
OneStartingVersion(seen) ==
  \A m, n \in NodesNeedingUpgrade(seen) : seen[m] = seen[n]

\* Preflight: one starting version, the health gate, a fresh backup; the
\* leader is read once.
Begin(insecure) ==
  /\ command.pc = "none" /\ rolls < MaxRolls
  /\ Impatient \/ \A n \in RollNodes : install[n].at = "none"
  /\ DoctorStrict /\ OneStartingVersion(version)
  /\ NodesNeedingUpgrade(version) # {}
  /\ rolls' = rolls + 1
  /\ command' = [pc |-> "next", cur |-> NoNode, boss |-> chief, via |-> chief, seen |-> version,
                 left |-> NodesNeedingUpgrade(version) \ {chief}, insecure |-> insecure]
  /\ UNCHANGED <<chief, alive, replication, version, files, install, upsets>>

\* The most lagged first: any order, as far as these steps can tell.
NextFollower ==
  /\ command.pc = "next"
  /\ IF command.left = {} THEN At("transfer")
     ELSE \E n \in command.left :
            command' = [command EXCEPT !.pc = "safe", !.cur = n, !.left = @ \ {n}]
  /\ UNCHANGED <<chief, alive, replication, version, files, install, counts>>

\* Faulty variant: one in sync is enough, be it the one that goes.
SafeWithAny(n) == chief # NoNode /\ Synced # {}

\* A standby must be in sync, and not only the one about to go.
SafeToBounce(n) ==
  /\ chief # NoNode
  /\ Synced # {}
  /\ Synced # {n}

WaitUntilSafe ==
  /\ command.pc = "safe" /\ alive[command.via]
  /\ SafeToBounce(command.cur)
  /\ At("version")
  /\ UNCHANGED <<chief, alive, replication, version, files, install, counts>>

\* Another roll may have been here since the preflight.
ExpectUnchanged ==
  /\ command.pc = "version"
  /\ IF alive[command.cur] /\ version[command.cur] = command.seen[command.cur]
     THEN At("post") ELSE GiveUp
  /\ UNCHANGED <<chief, alive, replication, version, files, install, counts>>

PostSelfUpgrade ==
  /\ command.pc = "post"
  /\ IF alive[command.cur] /\ Admits(command.cur, command.insecure)
     THEN /\ install' = [install EXCEPT ![command.cur] =
                           [at |-> "asked", got |-> "none", verify |-> ~command.insecure]]
          /\ At("answer")
     ELSE GiveUp /\ UNCHANGED install
  /\ UNCHANGED <<chief, alive, replication, version, files, counts>>

WaitForNodeVersion ==
  /\ command.pc = "version back"
  /\ alive[command.cur] /\ version[command.cur] = Target
  /\ At("streaming")
  /\ UNCHANGED <<chief, alive, replication, version, files, install, counts>>

\* In sync, or within the lag threshold.
WaitForStreaming ==
  /\ command.pc = "streaming" /\ alive[command.via]
  /\ replication[command.cur] # "off"
  /\ At(IF command.cur = command.boss THEN "postflight" ELSE "next")
  /\ UNCHANGED <<chief, alive, replication, version, files, install, counts>>

\* Leadership goes to one of the upgraded followers; all may refuse.  The
\* handler of the node that led at the start serves it only while it leads.
TransferLeadership ==
  /\ command.pc = "transfer"
  /\ \/ \E n \in RollNodes \ {command.boss} :
          /\ version[n] = Target /\ chief = command.boss /\ replication[n] = "synced"
          /\ Lead(n)
          /\ At(IF command.seen[command.boss] = Target THEN "postflight" ELSE "new leader")
     \/ GiveUp /\ UNCHANGED <<chief, replication>>
  /\ UNCHANGED <<alive, version, files, install, counts>>

\* Any leader but the former one; its bounce is checked with that one.
WaitForNewLeader ==
  /\ command.pc = "new leader" /\ chief \notin {NoNode, command.boss}
  /\ command' = [command EXCEPT !.pc = "safe", !.cur = command.boss, !.via = chief]
  /\ UNCHANGED <<chief, alive, replication, version, files, install, counts>>

Postflight ==
  /\ command.pc = "postflight"
  /\ DoctorStrict
  /\ GiveUp
  /\ UNCHANGED <<chief, alive, replication, version, files, install, counts>>

\* Every wait has a deadline, and every request may fail or time out.
TimeOut ==
  /\ command.pc # "none" /\ GiveUp
  /\ UNCHANGED <<chief, alive, replication, version, files, install, counts>>

-----------------------------------------------------------------------------
RollInit ==
  /\ chief \in RollNodes
  /\ alive = [n \in RollNodes |-> TRUE]
  /\ replication = [n \in RollNodes |-> IF n = chief THEN "off" ELSE "synced"]
  /\ version = [n \in RollNodes |-> "v1"]
  /\ exe = [n \in RollNodes |-> "v1"]
  /\ aside = [n \in RollNodes |-> "none"]
  /\ install = [n \in RollNodes |-> NoInstall]
  /\ command = NoCommand
  /\ rolls = 0 /\ upsets = 0

RollNext ==
  \/ \E insecure \in BOOLEAN : Begin(insecure)
  \/ NextFollower \/ WaitUntilSafe \/ ExpectUnchanged \/ PostSelfUpgrade
  \/ WaitForNodeVersion \/ WaitForStreaming
  \/ TransferLeadership \/ WaitForNewLeader \/ Postflight \/ TimeOut
  \/ \E n \in RollNodes :
       \/ Download(n) \/ MoveAside(n) \/ Place(n) \/ StopForRestart(n) \/ AnswerFailure(n)
       \/ Restart(n) \/ Follow(n) \/ Elect(n) \/ FallBehind(n) \/ Crash(n)

RollSpec == RollInit /\ [][RollNext]_rollVars

-----------------------------------------------------------------------------
\* At every moment, through crashes between two renames and installs that
\* fail half way, a node holds a whole release at the executable's path or
\* moved aside, and nothing it can start is other than the release it ran
\* and the one asked for, whatever the server hands out
\* (download_verify_replace, CosignVerifier).
OneReleaseAtHand ==
  \A n \in RollNodes :
    /\ {exe[n], aside[n]} \cap {"v1", "v2"} # {}
    /\ "foreign" \notin {exe[n], aside[n], version[n]}
    /\ install[n].got \in {"none", Target}

\* Unless something else upsets the cluster, a roll costs it neither its
\* majority nor its last standby in sync: the leader still has one that
\* holds every acknowledged write, after the transfer too and over commands
\* that give up and are run again (safe_to_bounce, run_cluster_upgrade,
\* require_doctor_strict).
RollKeepsStandby ==
  upsets = 0 /\ (\E n \in RollNodes : ~alive[n]) =>
    Majority(Up) /\ (chief # NoNode => Synced # {})
=============================================================================
