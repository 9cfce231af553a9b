------------------------------ MODULE Cutover -------------------------------
(***************************************************************************)
(* A Track C cutover: client write authority moves between clusters whose  *)
(* Raft groups share no log.                                               *)
(*                                                                         *)
(* Each cluster commits its own authority record (CutoverAuthorityState).  *)
(* Its nodes apply that record one by one, the leader at once; its         *)
(* reconciler levels the client-write fence (REVOKE) on the primary with   *)
(* the record one of its passes read; the HTTP handlers that drive the     *)
(* cutover read, wait and only then commit, so a call may commit what it   *)
(* read in a phase that has come and gone.                                 *)
(*                                                                         *)
(* Below the record: client sessions and transactions on each primary, the *)
(* transactions counted as WAL, and the part of that WAL each other        *)
(* cluster's subscription has confirmed.                                   *)
(*                                                                         *)
(* Within one cluster, that an old primary has stopped taking writes when  *)
(* another node's has opened is LeaseFencing's subject and is taken here.  *)
(***************************************************************************)
EXTENDS Integers, FiniteSets

CONSTANTS
  Clusters,       \* cluster ids
  Origin,         \* the cluster that serves; the others await its authority
  Replicas,       \* the nodes of one cluster
  Majorities,     \* the majorities of Replicas
  NoCluster,      \* no cluster id
  MaxEpoch,       \* bound: epochs
  MaxWrites,      \* bound: client transactions per cluster
  MaxFailovers,   \* bound: changes of leader
  SerialOperator  \* a step is started only when no earlier call is pending

NoLsn == -1

ASSUME CutoverAssumption ==
  /\ Origin \in Clusters
  /\ NoCluster \notin Clusters
  /\ Majorities \subseteq SUBSET Replicas
  /\ \A Q \in Majorities : Q # {}
  /\ MaxEpoch \in Nat /\ MaxWrites \in Nat /\ MaxFailovers \in Nat
  /\ SerialOperator \in BOOLEAN

VARIABLES
  rec,       \* committed record: epoch, authority, phase, sealed_final_lsn, forced
  applied,   \* applied[c][i]: the record node i of c has applied
  leader,    \* the leader of c, whose PostgreSQL is the primary
  failovers, \* changes of leader so far
  routes,    \* the nodes of c that have applied that this leader is open
  fenced,    \* the client roles' grants are revoked on c's primary
  pass,      \* what the reconciler pass in progress read that it wants
  calls,     \* handler calls of c that have started and not yet committed
  client,    \* a client of c: no session, an idle session, or in a transaction
  wal,       \* client transactions committed on c's primary
  confirmed  \* confirmed[c][d]: how much of c's WAL cluster d has confirmed

recVars  == <<rec, applied>>
nodeVars == <<leader, failovers, routes>>
dataVars == <<client, wal, confirmed>>
vars == <<recVars, nodeVars, fenced, pass, calls, dataVars>>

Phases == {"Idle", "Armed", "Sealing", "Sealed", "Draining", "Transferred", "Aborted"}
Lsns == 0..MaxWrites \cup {NoLsn}
Records ==
  [epoch : 0..MaxEpoch, authority : Clusters \cup {NoCluster}, phase : Phases,
   final : Lsns, forced : BOOLEAN]

\* A handler's call and what it has read: the LSN a seal will record, the drain
\* it proved, the donor's nodes that confirmed a handoff.
SealCalls    == [kind : {"seal"}, node : Replicas, lsn : Lsns]
DrainCalls   == [kind : {"drain"}, node : Replicas]
ReceiveCalls == [kind : {"receive"}, node : Replicas, epoch : 0..MaxEpoch,
                 from : Clusters, heard : SUBSET Replicas]

-----------------------------------------------------------------------------
(***************************************************************************)
(* Who holds authority, by a record r of cluster c.                        *)
(***************************************************************************)

\* Config::awaits_write_authority_from is set.
Awaits(c) == c # Origin

InTransit(r) == r.phase \in {"Sealing", "Sealed", "Draining"}

\* CutoverAuthorityState::holds_client_write_authority
HoldsClientWriteAuthority(c, r) == ~InTransit(r) /\ r.authority \in {c, NoCluster}

\* cutover_authority_projection: until the log says something, config does.
Holds(c, r) ==
  /\ ~(Awaits(c) /\ r.authority = NoCluster)
  /\ HoldsClientWriteAuthority(c, r)

\* The gateway of node i lets clients of c through to its primary: it has
\* applied that the leader is open, and that its cluster holds authority.
GatewayAdmits(c, i) == i \in routes[c] /\ Holds(c, applied[c][i])

-----------------------------------------------------------------------------
(***************************************************************************)
(* The cutover handlers.  A commit moves the record, and the leader has    *)
(* applied it, and all before it, when the call returns.                   *)
(***************************************************************************)
Commit(c, r) ==
  /\ rec' = [rec EXCEPT ![c] = r]
  /\ applied' = [applied EXCEPT ![c][leader[c]] = r]

\* The call ends and its command is committed if its node leads and the apply
\* guard takes it.
CommitCall(c, call, guard, r) ==
  /\ calls' = [calls EXCEPT ![c] = @ \ {call}]
  /\ IF call.node = leader[c] /\ guard THEN Commit(c, r) ELSE UNCHANGED recVars

MayStart(c) == SerialOperator => calls[c] = {}

\* NameCluster: a recipient's boot fence names its donor.
NameCluster(c) ==
  /\ Awaits(c) /\ rec[c].phase = "Idle" /\ rec[c].authority = NoCluster
  /\ Commit(c, [rec[c] EXCEPT !.authority = Origin])
  /\ UNCHANGED <<nodeVars, fenced, pass, calls, dataVars>>

\* cutover_arm: the handler's config-aware read, then the apply's own guard.
Arm(c) ==
  /\ MayStart(c)
  /\ Holds(c, applied[c][leader[c]])
  /\ rec[c].phase \in {"Idle", "Aborted", "Transferred"}
  /\ HoldsClientWriteAuthority(c, rec[c])
  /\ Commit(c, [rec[c] EXCEPT !.phase = "Armed", !.authority = c, !.forced = FALSE])
  /\ UNCHANGED <<nodeVars, fenced, pass, calls, dataVars>>

\* cutover_seal as far as its wait for the fence: from ARMED it commits SEALING,
\* which withdraws authority; from SEALING it resumes.
StartSeal(c) ==
  /\ MayStart(c)
  /\ \/ /\ rec[c].phase = "Armed"
        /\ Commit(c, [rec[c] EXCEPT !.phase = "Sealing"])
     \/ /\ applied[c][leader[c]].phase = "Sealing"
        /\ UNCHANGED recVars
  /\ calls' = [calls EXCEPT ![c] = @ \cup
       {[kind |-> "seal", node |-> leader[c], lsn |-> NoLsn]}]
  /\ UNCHANGED <<nodeVars, fenced, pass, dataVars>>

\* Faulty variant: sessions that predate the fence are left alive.
ReadSealedUndrained(c, call) ==
  /\ call \in calls[c] /\ call.kind = "seal" /\ call.lsn = NoLsn
  /\ call.node = leader[c] /\ pass[c] = "none" /\ fenced[c]
  /\ calls' = [calls EXCEPT ![c] = (@ \ {call}) \cup {[call EXCEPT !.lsn = wal[c]]}]
  /\ UNCHANGED <<recVars, nodeVars, fenced, pass, dataVars>>

\* sealed_position_once_fenced, under the supervisor lock and so never inside a
\* pass: the fence is observed, the sessions that predate it are ended, and the
\* insert position is read.  The phase is not read again.
ReadSealed(c, call) ==
  /\ call \in calls[c] /\ call.kind = "seal" /\ call.lsn = NoLsn
  /\ call.node = leader[c]
  /\ pass[c] = "none"
  /\ fenced[c]
  /\ client' = [client EXCEPT ![c] = "none"]
  /\ calls' = [calls EXCEPT ![c] = (@ \ {call}) \cup {[call EXCEPT !.lsn = wal[c]]}]
  /\ UNCHANGED <<recVars, nodeVars, fenced, pass, wal, confirmed>>

\* cutover_seal, second commit: only SEALING takes it.
Seal(c, call) ==
  /\ call \in calls[c] /\ call.kind = "seal" /\ call.lsn # NoLsn
  /\ CommitCall(c, call, rec[c].phase = "Sealing",
                [rec[c] EXCEPT !.phase = "Sealed", !.final = call.lsn])
  /\ UNCHANGED <<nodeVars, fenced, pass, dataVars>>

\* Faulty variant: the slots may be one short.
DrainAlmost(c, final) ==
  final # NoLsn /\ \A d \in Clusters \ {c} : confirmed[c][d] + 1 >= final

\* drain_proven, from the donor's own slots.
DrainProven(c, final) ==
  final # NoLsn /\ \A d \in Clusters \ {c} : confirmed[c][d] >= final

\* cutover_drain_observed up to its commit; it does not read the phase.
ReadDrain(c) ==
  /\ MayStart(c)
  /\ DrainProven(c, applied[c][leader[c]].final)
  /\ calls' = [calls EXCEPT ![c] = @ \cup {[kind |-> "drain", node |-> leader[c]]}]
  /\ UNCHANGED <<recVars, nodeVars, fenced, pass, dataVars>>

DrainObserved(c, call) ==
  /\ call \in calls[c] /\ call.kind = "drain"
  /\ CommitCall(c, call, rec[c].phase = "Sealed", [rec[c] EXCEPT !.phase = "Draining"])
  /\ UNCHANGED <<nodeVars, fenced, pass, dataVars>>

\* cutover_transfer and cutover_force_transfer.  The target is the caller's, not
\* the armed one.
Transfer(c, d, forced) ==
  /\ MayStart(c) /\ d # c
  /\ rec[c].epoch < MaxEpoch
  /\ rec[c].phase \in IF forced THEN {"Sealed", "Draining"} ELSE {"Draining"}
  /\ Commit(c, [rec[c] EXCEPT !.epoch = @ + 1, !.phase = "Transferred",
                              !.authority = d, !.forced = forced])
  /\ UNCHANGED <<nodeVars, fenced, pass, calls, dataVars>>

\* Faulty variant: the aborted attempt's epoch goes on.
AbortInEpoch(c) ==
  /\ MayStart(c)
  /\ rec[c].phase \in {"Armed", "Sealing", "Sealed", "Draining"}
  /\ Commit(c, [epoch |-> rec[c].epoch, authority |-> c, phase |-> "Aborted",
                final |-> NoLsn, forced |-> FALSE])
  /\ UNCHANGED <<nodeVars, fenced, pass, calls, dataVars>>

\* cutover_abort: authority comes home in a new epoch.
AbortUnseal(c) ==
  /\ MayStart(c)
  /\ rec[c].epoch < MaxEpoch
  /\ rec[c].phase \in {"Armed", "Sealing", "Sealed", "Draining"}
  /\ Commit(c, [epoch |-> rec[c].epoch + 1, authority |-> c, phase |-> "Aborted",
                final |-> NoLsn, forced |-> FALSE])
  /\ UNCHANGED <<nodeVars, fenced, pass, calls, dataVars>>

\* donor_claim: what node i of donor d says of the handoff to c at epoch e.
DonorConfirms(d, i, c, e) ==
  LET r == applied[d][i] IN
  /\ r.phase = "Transferred" /\ r.epoch = e /\ r.authority = c
  /\ ~Holds(d, r)

\* cutover_receive_authority: the caller names the donor and the epoch, and the
\* donor's nodes answer one by one.  A call exists from its first confirmation.
ReceiveCall(c, d, e, i) ==
  /\ MayStart(c) /\ d # c
  /\ DonorConfirms(d, i, c, e)
  /\ calls' = [calls EXCEPT ![c] = @ \cup
       {[kind |-> "receive", node |-> leader[c], epoch |-> e, from |-> d, heard |-> {i}]}]
  /\ UNCHANGED <<recVars, nodeVars, fenced, pass, dataVars>>

HearDonor(c, call, i) ==
  /\ call \in calls[c] /\ call.kind = "receive" /\ i \notin call.heard
  /\ DonorConfirms(call.from, i, c, call.epoch)
  /\ calls' = [calls EXCEPT ![c] = (@ \ {call}) \cup {[call EXCEPT !.heard = @ \cup {i}]}]
  /\ UNCHANGED <<recVars, nodeVars, fenced, pass, dataVars>>

\* donor_quorum_confirms
DonorQuorumConfirms(heard) == heard \in Majorities

\* Faulty variant: the apply takes any epoch.
AuthorityReplayed(c, call) ==
  /\ call \in calls[c] /\ call.kind = "receive"
  /\ DonorQuorumConfirms(call.heard)
  /\ CommitCall(c, call, TRUE,
                [epoch |-> call.epoch, authority |-> c, phase |-> "Transferred",
                 final |-> NoLsn, forced |-> FALSE])
  /\ UNCHANGED <<nodeVars, fenced, pass, dataVars>>

\* Once a majority has confirmed; the apply takes only a later epoch.
AuthorityReceived(c, call) ==
  /\ call \in calls[c] /\ call.kind = "receive"
  /\ DonorQuorumConfirms(call.heard)
  /\ CommitCall(c, call, call.epoch > rec[c].epoch,
                [epoch |-> call.epoch, authority |-> c, phase |-> "Transferred",
                 final |-> NoLsn, forced |-> FALSE])
  /\ UNCHANGED <<nodeVars, fenced, pass, dataVars>>

\* A call fails, runs out of its budget, or its caller goes away.
CallFails(c, call) ==
  /\ call \in calls[c]
  /\ calls' = [calls EXCEPT ![c] = @ \ {call}]
  /\ UNCHANGED <<recVars, nodeVars, fenced, pass, dataVars>>

-----------------------------------------------------------------------------
(***************************************************************************)
(* Nodes, the reconciler and the data.                                     *)
(***************************************************************************)

\* Node i applies what its cluster has committed, PrimaryOpened included.
Apply(c, i) ==
  /\ applied[c][i] # rec[c] \/ (routes[c] # {} /\ i \notin routes[c])
  /\ applied' = [applied EXCEPT ![c][i] = rec[c]]
  /\ routes' = [routes EXCEPT ![c] = IF @ = {} THEN {} ELSE @ \cup {i}]
  /\ UNCHANGED <<rec, leader, failovers, fenced, pass, calls, dataVars>>

\* Another node leads, with what it had applied; the sessions of the old primary
\* end.  The grants are in the replicated catalog.
Failover(c, i) ==
  /\ i # leader[c] /\ failovers < MaxFailovers
  /\ leader' = [leader EXCEPT ![c] = i]
  /\ failovers' = failovers + 1
  /\ routes' = [routes EXCEPT ![c] = {}]
  /\ pass' = [pass EXCEPT ![c] = "none"]
  /\ client' = [client EXCEPT ![c] = "none"]
  /\ UNCHANGED <<recVars, fenced, calls, wal, confirmed>>

\* The leader's pass found its primary open and commits that; an entry of its
\* term, so it has applied all that was committed before.
PrimaryOpened(c) ==
  /\ routes[c] = {}
  /\ applied' = [applied EXCEPT ![c][leader[c]] = rec[c]]
  /\ routes' = [routes EXCEPT ![c] = {leader[c]}]
  /\ UNCHANGED <<rec, leader, failovers, fenced, pass, calls, dataVars>>

\* WantedClientFence::derive
Wanted(c, r) == IF Holds(c, r) THEN "lift" ELSE "fence"

\* A pass takes the supervisor lock and reads its view.
BeginPass(c) ==
  /\ pass[c] = "none"
  /\ pass' = [pass EXCEPT ![c] = Wanted(c, applied[c][leader[c]])]
  /\ UNCHANGED <<recVars, nodeVars, fenced, calls, dataVars>>

\* level_client_fence: revoke or restore the grants, as that view wants.
LevelClientFence(c) ==
  /\ pass[c] # "none"
  /\ fenced' = [fenced EXCEPT ![c] = pass[c] = "fence"]
  /\ pass' = [pass EXCEPT ![c] = "none"]
  /\ UNCHANGED <<recVars, nodeVars, calls, dataVars>>

\* A client gets a session through the gateway of node i.
Connect(c, i) ==
  /\ GatewayAdmits(c, i) /\ client[c] = "none" /\ wal[c] < MaxWrites
  /\ client' = [client EXCEPT ![c] = "idle"]
  /\ UNCHANGED <<recVars, nodeVars, fenced, pass, calls, wal, confirmed>>

\* Its next statement writes and passes the privilege check.
BeginTx(c) ==
  /\ client[c] = "idle" /\ ~fenced[c] /\ wal[c] < MaxWrites
  /\ client' = [client EXCEPT ![c] = "tx"]
  /\ UNCHANGED <<recVars, nodeVars, fenced, pass, calls, wal, confirmed>>

\* It commits and is acknowledged, whatever was revoked since.
CommitTx(c) ==
  /\ client[c] = "tx" /\ wal[c] < MaxWrites
  /\ client' = [client EXCEPT ![c] = "idle"]
  /\ wal' = [wal EXCEPT ![c] = @ + 1]
  /\ UNCHANGED <<recVars, nodeVars, fenced, pass, calls, confirmed>>

\* Cluster d's subscription confirms more of c's WAL.
Replicate(c, d) ==
  /\ d # c /\ confirmed[c][d] < wal[c]
  /\ confirmed' = [confirmed EXCEPT ![c][d] = @ + 1]
  /\ UNCHANGED <<recVars, nodeVars, fenced, pass, calls, client, wal>>

-----------------------------------------------------------------------------
FirstRecord == [epoch |-> 0, authority |-> NoCluster, phase |-> "Idle",
                final |-> NoLsn, forced |-> FALSE]

Init ==
  /\ rec = [c \in Clusters |-> FirstRecord]
  /\ applied = [c \in Clusters |-> [i \in Replicas |-> FirstRecord]]
  /\ leader \in [Clusters -> Replicas]
  /\ failovers = 0
  /\ routes \in [Clusters -> Majorities]
  /\ \A c \in Clusters : leader[c] \in routes[c]
  /\ fenced = [c \in Clusters |-> FALSE]
  /\ pass = [c \in Clusters |-> "none"]
  /\ calls = [c \in Clusters |-> {}]
  /\ client = [c \in Clusters |-> "none"]
  /\ wal = [c \in Clusters |-> 0]
  /\ confirmed = [c \in Clusters |-> [d \in Clusters |-> 0]]

Next ==
  \E c \in Clusters :
    \/ NameCluster(c) \/ Arm(c) \/ StartSeal(c) \/ ReadDrain(c) \/ AbortUnseal(c)
    \/ PrimaryOpened(c) \/ BeginPass(c) \/ LevelClientFence(c)
    \/ BeginTx(c) \/ CommitTx(c)
    \/ \E d \in Clusters : Replicate(c, d)
    \/ \E d \in Clusters, forced \in BOOLEAN : Transfer(c, d, forced)
    \/ \E d \in Clusters, e \in 1..MaxEpoch, i \in Replicas : ReceiveCall(c, d, e, i)
    \/ \E i \in Replicas : Apply(c, i) \/ Failover(c, i) \/ Connect(c, i)
    \/ \E call \in calls[c] :
         \/ ReadSealed(c, call) \/ Seal(c, call) \/ DrainObserved(c, call)
         \/ AuthorityReceived(c, call) \/ CallFails(c, call)
         \/ \E i \in Replicas : HearDonor(c, call, i)

Spec == Init /\ [][Next]_vars

-----------------------------------------------------------------------------
\* Every variable has its type: no handler commits an epoch or a position that
\* its record cannot hold.
TypeOK ==
  /\ rec \in [Clusters -> Records]
  /\ applied \in [Clusters -> [Replicas -> Records]]
  /\ leader \in [Clusters -> Replicas]
  /\ failovers \in 0..MaxFailovers
  /\ routes \in [Clusters -> SUBSET Replicas]
  /\ fenced \in [Clusters -> BOOLEAN]
  /\ pass \in [Clusters -> {"none", "fence", "lift"}]
  /\ calls \in [Clusters -> SUBSET (SealCalls \cup DrainCalls \cup ReceiveCalls)]
  /\ client \in [Clusters -> {"none", "idle", "tx"}]
  /\ wal \in [Clusters -> 0..MaxWrites]
  /\ confirmed \in [Clusters -> [Clusters -> 0..MaxWrites]]

\* A client of c has written, or can write now, past everything revoked.
Serves(c) ==
  \/ client[c] = "tx"
  \/ ~fenced[c] /\ (client[c] = "idle" \/ \E i \in Replicas : GatewayAdmits(c, i))

(***************************************************************************)
(* Contract U1 at the clients: two clusters never take client writes at    *)
(* once.  Gateways that lag, sessions and transactions that outlive the    *)
(* withdrawal, and a fence a lagging new leader lifts again are included.  *)
(***************************************************************************)
OneClusterServes ==
  \A c, d \in Clusters : Serves(c) /\ Serves(d) => c = d

(***************************************************************************)
(* Contract U1 in the records: at most one cluster's committed record says *)
(* that it holds client write authority.                                   *)
(***************************************************************************)
AuthorityUnique ==
  \A c, d \in Clusters : Holds(c, rec[c]) /\ Holds(d, rec[d]) => c = d

(***************************************************************************)
(* Contract U2: authority given away without force leaves nothing behind,  *)
(* every acknowledged client write of the donor is confirmed by the        *)
(* recipient.                                                              *)
(***************************************************************************)
DrainComplete ==
  \A c, d \in Clusters :
    /\ d # c /\ rec[c].phase = "Transferred" /\ rec[c].authority = d /\ ~rec[c].forced
    => confirmed[c][d] >= wal[c] /\ client[c] # "tx"

\* U1 at the clients and U2 together, whatever lags, fails over or is retried
\* (the cutover handlers, the gateways' admission and the client fence).
CutoverSafe == OneClusterServes /\ DrainComplete

-----------------------------------------------------------------------------
(***************************************************************************)
(* The records as a token: a cluster has it while it holds authority or    *)
(* has withdrawn it for a seal; it flies from a donor that has given it    *)
(* away until the recipient's record has the donor's epoch.                *)
(***************************************************************************)
HasToken(c) == Holds(c, rec[c]) \/ InTransit(rec[c])

Flying(c) ==
  /\ rec[c].phase = "Transferred" /\ rec[c].authority \in Clusters \ {c}
  /\ rec[c].epoch > rec[rec[c].authority].epoch

Keeps(c) == HasToken(c) \/ Flying(c)
Keeper == CHOOSE c \in Clusters : Keeps(c)

Holder == IF Holds(Keeper, rec[Keeper]) THEN Keeper ELSE NoCluster
Era == IF HasToken(Keeper) THEN rec[Keeper].epoch ELSE rec[Keeper].epoch - 1

Authority == INSTANCE WriteAuthority WITH holder <- Holder, era <- Era, Nobody <- NoCluster

(***************************************************************************)
(* The records of all clusters together implement one token of authority:  *)
(* every move of it withdraws it first, and every grant is of an era later *)
(* than any before, so no confirmation, however late, grants it again.     *)
(***************************************************************************)
AuthorityMovesAsToken == Authority!Spec

=============================================================================
