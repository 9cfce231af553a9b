--------------------------- MODULE CutoverProofs ----------------------------
(***************************************************************************)
(* Contract U1 for every set of clusters, every number of nodes, every     *)
(* number of epochs, and callers that overlap or not: the committed        *)
(* records never give two clusters client write authority.  Then what it   *)
(* means for the clients, and contract U2, under the operator's and the    *)
(* leaders' discipline that each of them needs.                            *)
(*                                                                         *)
(* AuthorityUnique is not inductive.  What makes it so is the token: one   *)
(* cluster at most has authority, has withdrawn it for a seal, or has      *)
(* given it away without it having arrived; its epoch is the highest; and  *)
(* every old confirmation, in a node's record or in a call, is of an epoch *)
(* its recipient has reached, unless it is of the handoff under way.       *)
(***************************************************************************)
EXTENDS Cutover, TLAPS

\* The handoff from d to c at epoch e has arrived, or is d's current one.
Settled(d, c, e) ==
  \/ rec[c].epoch >= e
  \/ rec[d].phase = "Transferred" /\ rec[d].authority = c /\ rec[d].epoch = e

OneKeeper == \A c, d \in Clusters : Keeps(c) /\ Keeps(d) => c = d

KeeperIsLatest ==
  \A c, d \in Clusters :
    /\ HasToken(c) => rec[d].epoch <= rec[c].epoch
    /\ Flying(c) /\ d # c => rec[d].epoch < rec[c].epoch

ArmedIsLocal == \A c \in Clusters : rec[c].phase = "Armed" => rec[c].authority = c

\* A record without an authority is the first one everywhere.
UnnamedIsFirst ==
  \A c \in Clusters : rec[c].authority = NoCluster =>
    /\ rec[c].phase \in {"Idle"}
    /\ \A i \in Replicas : applied[c][i].authority = NoCluster

CopiesSettled ==
  \A d, c \in Clusters : \A i \in Replicas :
    /\ d # c /\ applied[d][i].phase = "Transferred" /\ applied[d][i].authority = c
    => Settled(d, c, applied[d][i].epoch)

CallsSettled ==
  \A c \in Clusters : \A call \in calls[c] :
    call.kind = "receive" => call.from # c /\ Settled(call.from, c, call.epoch)

AuthorityInv ==
  /\ OneKeeper /\ KeeperIsLatest /\ ArmedIsLocal /\ UnnamedIsFirst
  /\ CopiesSettled /\ CallsSettled

-----------------------------------------------------------------------------
(***************************************************************************)
(* Types.                                                                  *)
(***************************************************************************)

(***************************************************************************)
(* Committing a record of the type keeps the two record variables typed.   *)
(***************************************************************************)
LEMMA CommitType ==
  ASSUME TypeOK, NEW c \in Clusters, NEW r \in Records, Commit(c, r)
  PROVE  /\ rec' \in [Clusters -> Records]
         /\ applied' \in [Clusters -> [Replicas -> Records]]
BY DEF TypeOK, Commit

(***************************************************************************)
(* Every step keeps every variable of the cutover in its type.             *)
(***************************************************************************)
LEMMA TypeStep == TypeOK /\ [Next]_vars => TypeOK'
<1> SUFFICES ASSUME TypeOK, [Next]_vars PROVE TypeOK'
  OBVIOUS
<1> USE CutoverAssumption
<1>1. ASSUME NEW c \in Clusters, NameCluster(c) PROVE TypeOK'
  <2>1. [rec[c] EXCEPT !.authority = Origin] \in Records
    <3>1. rec[c] \in Records
      BY DEF TypeOK
    <3> QED BY <3>1 DEF Records
  <2> QED BY <1>1, <2>1, CommitType DEF TypeOK, NameCluster, nodeVars, dataVars
<1>2. ASSUME NEW c \in Clusters, Arm(c) PROVE TypeOK'
  <2>1. [rec[c] EXCEPT !.phase = "Armed", !.authority = c, !.forced = FALSE] \in Records
    <3>1. rec[c] \in Records
      BY DEF TypeOK
    <3> QED BY <3>1 DEF Records, Phases
  <2> QED BY <1>2, <2>1, CommitType DEF TypeOK, Arm, nodeVars, dataVars
<1>3. ASSUME NEW c \in Clusters, StartSeal(c) PROVE TypeOK'
  <2>1. [rec[c] EXCEPT !.phase = "Sealing"] \in Records
    <3>1. rec[c] \in Records
      BY DEF TypeOK
    <3> QED BY <3>1 DEF Records, Phases
  <2>2. [kind |-> "seal", node |-> leader[c], lsn |-> NoLsn] \in SealCalls
    BY DEF TypeOK, SealCalls, Lsns
  <2>3. calls' \in [Clusters -> SUBSET (SealCalls \cup DrainCalls \cup ReceiveCalls)]
    BY <1>3, <2>2 DEF TypeOK, StartSeal
  <2>4. rec' \in [Clusters -> Records] /\ applied' \in [Clusters -> [Replicas -> Records]]
    BY <1>3, <2>1, CommitType DEF TypeOK, StartSeal, recVars
  <2> QED BY <1>3, <2>3, <2>4 DEF TypeOK, StartSeal, nodeVars, dataVars
<1>4. ASSUME NEW c \in Clusters, NEW call \in calls[c], ReadSealed(c, call) PROVE TypeOK'
  <2>1. call \in SealCalls
    BY <1>4 DEF TypeOK, ReadSealed, SealCalls, DrainCalls, ReceiveCalls
  <2>2. [call EXCEPT !.lsn = wal[c]] \in SealCalls
    BY <2>1 DEF TypeOK, SealCalls, Lsns
  <2>3. calls' \in [Clusters -> SUBSET (SealCalls \cup DrainCalls \cup ReceiveCalls)]
    BY <1>4, <2>2 DEF TypeOK, ReadSealed
  <2> QED BY <1>4, <2>3 DEF TypeOK, ReadSealed, recVars, nodeVars
<1>5. ASSUME NEW c \in Clusters, NEW call \in calls[c], Seal(c, call) PROVE TypeOK'
  <2>1. call \in SealCalls
    BY <1>5 DEF TypeOK, Seal, SealCalls, DrainCalls, ReceiveCalls
  <2>2. [rec[c] EXCEPT !.phase = "Sealed", !.final = call.lsn] \in Records
    <3>1. rec[c] \in Records /\ call.lsn \in Lsns
      BY <2>1 DEF TypeOK, SealCalls
    <3> QED BY <3>1 DEF Records, Phases
  <2>3. rec' \in [Clusters -> Records] /\ applied' \in [Clusters -> [Replicas -> Records]]
    BY <1>5, <2>2, CommitType DEF TypeOK, Seal, CommitCall, recVars
  <2> QED BY <1>5, <2>3 DEF TypeOK, Seal, CommitCall, nodeVars, dataVars
<1>6. ASSUME NEW c \in Clusters, ReadDrain(c) PROVE TypeOK'
  <2>1. [kind |-> "drain", node |-> leader[c]] \in DrainCalls
    BY DEF TypeOK, DrainCalls
  <2>2. calls' \in [Clusters -> SUBSET (SealCalls \cup DrainCalls \cup ReceiveCalls)]
    BY <1>6, <2>1 DEF TypeOK, ReadDrain
  <2> QED BY <1>6, <2>2 DEF TypeOK, ReadDrain, recVars, nodeVars, dataVars
<1>7. ASSUME NEW c \in Clusters, NEW call \in calls[c], DrainObserved(c, call) PROVE TypeOK'
  <2>1. [rec[c] EXCEPT !.phase = "Draining"] \in Records
    <3>1. rec[c] \in Records
      BY DEF TypeOK
    <3> QED BY <3>1 DEF Records, Phases
  <2>2. rec' \in [Clusters -> Records] /\ applied' \in [Clusters -> [Replicas -> Records]]
    BY <1>7, <2>1, CommitType DEF TypeOK, DrainObserved, CommitCall, recVars
  <2> QED BY <1>7, <2>2 DEF TypeOK, DrainObserved, CommitCall, nodeVars, dataVars
<1>8. ASSUME NEW c \in Clusters, NEW d \in Clusters, NEW f \in BOOLEAN, Transfer(c, d, f)
      PROVE  TypeOK'
  <2>1. [rec[c] EXCEPT !.epoch = @ + 1, !.phase = "Transferred",
                       !.authority = d, !.forced = f] \in Records
    <3>1. rec[c] \in Records /\ rec[c].epoch + 1 \in 0..MaxEpoch
      BY <1>8 DEF TypeOK, Records, Transfer
    <3> QED BY <3>1 DEF Records, Phases
  <2> QED BY <1>8, <2>1, CommitType DEF TypeOK, Transfer, nodeVars, dataVars
<1>9. ASSUME NEW c \in Clusters, AbortUnseal(c) PROVE TypeOK'
  <2>1. [epoch |-> rec[c].epoch + 1, authority |-> c, phase |-> "Aborted",
         final |-> NoLsn, forced |-> FALSE] \in Records
    BY <1>9 DEF TypeOK, Records, Phases, Lsns, AbortUnseal
  <2> QED BY <1>9, <2>1, CommitType DEF TypeOK, AbortUnseal, nodeVars, dataVars
<1>10. ASSUME NEW c \in Clusters, NEW d \in Clusters, NEW e \in 1..MaxEpoch,
              NEW i \in Replicas, ReceiveCall(c, d, e, i)
       PROVE  TypeOK'
  <2>1. [kind |-> "receive", node |-> leader[c], epoch |-> e, from |-> d, heard |-> {i}]
          \in ReceiveCalls
    BY DEF TypeOK, ReceiveCalls
  <2>2. calls' \in [Clusters -> SUBSET (SealCalls \cup DrainCalls \cup ReceiveCalls)]
    BY <1>10, <2>1 DEF TypeOK, ReceiveCall
  <2> QED BY <1>10, <2>2 DEF TypeOK, ReceiveCall, recVars, nodeVars, dataVars
<1>11. ASSUME NEW c \in Clusters, NEW call \in calls[c], NEW i \in Replicas,
              HearDonor(c, call, i)
       PROVE  TypeOK'
  <2>1. call \in ReceiveCalls
    BY <1>11 DEF TypeOK, HearDonor, SealCalls, DrainCalls, ReceiveCalls
  <2>2. [call EXCEPT !.heard = @ \cup {i}] \in ReceiveCalls
    BY <2>1 DEF ReceiveCalls
  <2>3. calls' \in [Clusters -> SUBSET (SealCalls \cup DrainCalls \cup ReceiveCalls)]
    BY <1>11, <2>2 DEF TypeOK, HearDonor
  <2> QED BY <1>11, <2>3 DEF TypeOK, HearDonor, recVars, nodeVars, dataVars
<1>12. ASSUME NEW c \in Clusters, NEW call \in calls[c], AuthorityReceived(c, call)
       PROVE  TypeOK'
  <2>1. call \in ReceiveCalls
    BY <1>12 DEF TypeOK, AuthorityReceived, SealCalls, DrainCalls, ReceiveCalls
  <2>2. [epoch |-> call.epoch, authority |-> c, phase |-> "Transferred",
         final |-> NoLsn, forced |-> FALSE] \in Records
    BY <2>1 DEF Records, Phases, Lsns, ReceiveCalls
  <2>3. rec' \in [Clusters -> Records] /\ applied' \in [Clusters -> [Replicas -> Records]]
    BY <1>12, <2>2, CommitType DEF TypeOK, AuthorityReceived, CommitCall, recVars
  <2> QED BY <1>12, <2>3 DEF TypeOK, AuthorityReceived, CommitCall, nodeVars, dataVars
<1>13. ASSUME NEW c \in Clusters, NEW call \in calls[c], CallFails(c, call) PROVE TypeOK'
  BY <1>13 DEF TypeOK, CallFails, recVars, nodeVars, dataVars
<1>14. ASSUME NEW c \in Clusters, NEW i \in Replicas, Apply(c, i) PROVE TypeOK'
  BY <1>14 DEF TypeOK, Apply, dataVars
<1>15. ASSUME NEW c \in Clusters, NEW i \in Replicas, Failover(c, i) PROVE TypeOK'
  BY <1>15 DEF TypeOK, Failover, recVars
<1>16. ASSUME NEW c \in Clusters, PrimaryOpened(c) PROVE TypeOK'
  BY <1>16 DEF TypeOK, PrimaryOpened, dataVars
<1>17. ASSUME NEW c \in Clusters, BeginPass(c) \/ LevelClientFence(c) PROVE TypeOK'
  BY <1>17 DEF TypeOK, BeginPass, LevelClientFence, Wanted, recVars, nodeVars, dataVars
<1>18. ASSUME NEW c \in Clusters, NEW i \in Replicas, Connect(c, i) PROVE TypeOK'
  BY <1>18 DEF TypeOK, Connect, recVars, nodeVars
<1>19. ASSUME NEW c \in Clusters, BeginTx(c) \/ CommitTx(c) PROVE TypeOK'
  <2>1. wal' \in [Clusters -> 0..MaxWrites]
    <3>1. CASE BeginTx(c)
      BY <3>1 DEF TypeOK, BeginTx
    <3>2. CASE CommitTx(c)
      <4>1. wal[c] + 1 \in 0..MaxWrites
        BY <3>2 DEF TypeOK, CommitTx
      <4> QED BY <3>2, <4>1 DEF TypeOK, CommitTx
    <3> QED BY <1>19, <3>1, <3>2
  <2> QED BY <1>19, <2>1 DEF TypeOK, BeginTx, CommitTx, recVars, nodeVars
<1>20. ASSUME NEW c \in Clusters, NEW d \in Clusters, Replicate(c, d) PROVE TypeOK'
  BY <1>20 DEF TypeOK, Replicate, recVars, nodeVars
<1>21. CASE UNCHANGED vars
  BY <1>21 DEF TypeOK, vars, recVars, nodeVars, dataVars
<1> QED
  BY <1>1, <1>2, <1>3, <1>4, <1>5, <1>6, <1>7, <1>8, <1>9, <1>10, <1>11, <1>12, <1>13,
     <1>14, <1>15, <1>16, <1>17, <1>18, <1>19, <1>20, <1>21 DEF Next

-----------------------------------------------------------------------------
(***************************************************************************)
(* The token.  Steps that commit fall into four kinds; the other steps     *)
(* change no record, and only copy records that are settled.               *)
(***************************************************************************)

(***************************************************************************)
(* Of the steps that commit no record: nodes copy their cluster's record   *)
(* or keep theirs, and a call that is added confirms a settled handoff.    *)
(***************************************************************************)
LEMMA NoCommit ==
  ASSUME TypeOK, AuthorityInv, rec' = rec,
         \A x \in Clusters : \A i \in Replicas : applied'[x][i] \in {applied[x][i], rec[x]},
         \A x \in Clusters : \A call \in calls'[x] :
           call.kind = "receive" =>
             \/ call \in calls[x]
             \/ call.from # x /\ Settled(call.from, x, call.epoch)
  PROVE  AuthorityInv'
<1>1. (OneKeeper /\ KeeperIsLatest /\ ArmedIsLocal)'
  BY DEF AuthorityInv, OneKeeper, KeeperIsLatest, ArmedIsLocal, Keeps, HasToken, Flying,
         Holds, HoldsClientWriteAuthority, InTransit
<1>2. UnnamedIsFirst'
  BY DEF AuthorityInv, UnnamedIsFirst
<1>3. CopiesSettled'
  <2> SUFFICES ASSUME NEW d \in Clusters, NEW c \in Clusters, NEW i \in Replicas, d # c,
                      applied'[d][i].phase = "Transferred", applied'[d][i].authority = c
               PROVE  Settled(d, c, applied[d][i].epoch)'
    BY DEF CopiesSettled
  <2>1. CASE applied'[d][i] = applied[d][i]
    BY <2>1 DEF AuthorityInv, CopiesSettled, Settled
  <2>2. CASE applied'[d][i] = rec[d]
    BY <2>2 DEF Settled
  <2> QED BY <2>1, <2>2
<1>4. CallsSettled'
  BY DEF AuthorityInv, CallsSettled, Settled
<1> QED BY <1>1, <1>2, <1>3, <1>4 DEF AuthorityInv

(***************************************************************************)
(* What a commit changes, field access by field access.                    *)
(***************************************************************************)
LEMMA CommitEffect ==
  ASSUME TypeOK, NEW c \in Clusters, NEW r \in Records, Commit(c, r)
  PROVE  /\ \A x \in Clusters : rec'[x] = IF x = c THEN r ELSE rec[x]
         /\ \A x \in Clusters : \A i \in Replicas :
              applied'[x][i] = applied[x][i] \/ (x = c /\ applied'[x][i] = r)
BY DEF TypeOK, Commit

(***************************************************************************)
(* A pending receive call names a cluster and an epoch.                    *)
(***************************************************************************)
LEMMA ReceiveCallType ==
  ASSUME TypeOK, NEW x \in Clusters, NEW call \in calls[x], call.kind = "receive"
  PROVE  call \in ReceiveCalls /\ call.from \in Clusters /\ call.epoch \in Nat
<1>1. call \in SealCalls \cup DrainCalls \cup ReceiveCalls
  BY DEF TypeOK
<1>2. call \notin SealCalls /\ call \notin DrainCalls
  BY DEF SealCalls, DrainCalls
<1>3. call \in ReceiveCalls
  BY <1>1, <1>2
<1> QED BY <1>3, CutoverAssumption DEF ReceiveCalls

(***************************************************************************)
(* A commit by the cluster that has the token and keeps it: arming,        *)
(* sealing, the observed drain and the abort.                              *)
(***************************************************************************)
LEMMA KeepToken ==
  ASSUME TypeOK, AuthorityInv, NEW c \in Clusters, NEW r \in Records, Commit(c, r),
         HasToken(c), Holds(c, r) \/ InTransit(r),
         r.epoch >= rec[c].epoch,
         r.authority = c \/ (r.phase # "Transferred" /\ r.phase # "Armed"),
         r.authority # NoCluster,
         \A x \in Clusters : \A call \in calls'[x] : call.kind = "receive" => call \in calls[x]
  PROVE  AuthorityInv'
<1> USE CutoverAssumption
<1>0. /\ \A x \in Clusters : rec'[x] = IF x = c THEN r ELSE rec[x]
      /\ \A x \in Clusters : \A i \in Replicas :
           applied'[x][i] = applied[x][i] \/ (x = c /\ applied'[x][i] = r)
  BY CommitEffect
<1>1. /\ rec \in [Clusters -> Records] /\ applied \in [Clusters -> [Replicas -> Records]]
      /\ \A x \in Clusters : rec[x].epoch \in Nat /\ rec'[x].epoch \in Nat
      /\ r.epoch \in Nat
  <2>1. rec' \in [Clusters -> Records]
    BY CommitType
  <2> QED BY <2>1 DEF TypeOK, Records
<1>2. \A x \in Clusters \ {c} : ~Keeps(x)
  BY DEF AuthorityInv, OneKeeper, Keeps
<1>3. \A x \in Clusters \ {c} : ~Keeps(x)'
  <2> SUFFICES ASSUME NEW x \in Clusters, x # c PROVE ~Keeps(x)'
    OBVIOUS
  <2>1. ~HasToken(x)'
    BY <1>0, <1>2 DEF Keeps, HasToken, Holds, HoldsClientWriteAuthority, InTransit
  <2>2. ~Flying(x)'
    BY <1>0, <1>1, <1>2 DEF Keeps, Flying
  <2> QED BY <2>1, <2>2 DEF Keeps
<1>4. HasToken(c)' /\ ~Flying(c)'
  BY <1>0 DEF HasToken, Flying, Holds, HoldsClientWriteAuthority, InTransit
<1>5. OneKeeper'
  BY <1>3 DEF OneKeeper
<1>6. KeeperIsLatest'
  <2>1. \A d \in Clusters : rec[d].epoch <= rec[c].epoch
    BY DEF AuthorityInv, KeeperIsLatest
  <2>2. \A d \in Clusters : rec'[d].epoch <= rec'[c].epoch
    BY <1>0, <1>1, <2>1
  <2> QED BY <1>3, <1>4, <2>2 DEF KeeperIsLatest, Keeps
<1>7. ArmedIsLocal' /\ UnnamedIsFirst'
  BY <1>0 DEF AuthorityInv, ArmedIsLocal, UnnamedIsFirst
<1>8. \A d, x \in Clusters, e \in Nat : d # x /\ Settled(d, x, e) => Settled(d, x, e)'
  <2> SUFFICES ASSUME NEW d \in Clusters, NEW x \in Clusters, NEW e \in Nat,
                      d # x, Settled(d, x, e)
               PROVE  Settled(d, x, e)'
    OBVIOUS
  <2>1. CASE rec[x].epoch >= e
    BY <1>0, <1>1, <2>1 DEF Settled
  <2>2. CASE ~(rec[x].epoch >= e) /\ d # c
    BY <1>0, <2>2 DEF Settled
  <2>3. CASE ~(rec[x].epoch >= e) /\ d = c
    \* Then c would have given the token away.
    <3>1. rec[c].phase = "Transferred" /\ rec[c].authority = x
      BY <2>3 DEF Settled
    <3>2. ~HasToken(c)
      BY <2>3, <3>1 DEF HasToken, Holds, HoldsClientWriteAuthority, InTransit
    <3> QED BY <3>2
  <2> QED BY <2>1, <2>2, <2>3
<1>9. CopiesSettled'
  <2> SUFFICES ASSUME NEW d \in Clusters, NEW x \in Clusters, NEW i \in Replicas, d # x,
                      applied'[d][i].phase = "Transferred", applied'[d][i].authority = x
               PROVE  Settled(d, x, applied[d][i].epoch)'
    BY DEF CopiesSettled
  <2>1. applied'[d][i] = applied[d][i]
    BY <1>0
  <2>2. applied[d][i].epoch \in Nat
    BY <1>1 DEF Records
  <2> QED BY <1>8, <2>1, <2>2 DEF AuthorityInv, CopiesSettled
<1>10. CallsSettled'
  <2> SUFFICES ASSUME NEW x \in Clusters, NEW call \in calls'[x], call.kind = "receive"
               PROVE  call.from # x /\ Settled(call.from, x, call.epoch)'
    BY DEF CallsSettled
  <2>1. call \in calls[x]
    OBVIOUS
  <2>2. call.from \in Clusters /\ call.epoch \in Nat
    BY <2>1, ReceiveCallType
  <2> QED BY <1>8, <2>1, <2>2 DEF AuthorityInv, CallsSettled
<1> QED BY <1>5, <1>6, <1>7, <1>9, <1>10 DEF AuthorityInv

(***************************************************************************)
(* A commit by which the cluster that has withdrawn authority gives it     *)
(* away: the token flies at an epoch above all others.                     *)
(***************************************************************************)
LEMMA GiveToken ==
  ASSUME TypeOK, AuthorityInv, NEW c \in Clusters, NEW r \in Records, Commit(c, r),
         InTransit(rec[c]),
         r.phase = "Transferred", r.authority \in Clusters \ {c},
         r.epoch = rec[c].epoch + 1,
         \A x \in Clusters : \A call \in calls'[x] : call.kind = "receive" => call \in calls[x]
  PROVE  AuthorityInv'
<1> USE CutoverAssumption
<1>0. /\ \A x \in Clusters : rec'[x] = IF x = c THEN r ELSE rec[x]
      /\ \A x \in Clusters : \A i \in Replicas :
           applied'[x][i] = applied[x][i] \/ (x = c /\ applied'[x][i] = r)
  BY CommitEffect
<1>1. /\ rec \in [Clusters -> Records] /\ applied \in [Clusters -> [Replicas -> Records]]
      /\ \A x \in Clusters : rec[x].epoch \in Nat /\ rec'[x].epoch \in Nat
      /\ r.epoch \in Nat
  <2>1. rec' \in [Clusters -> Records]
    BY CommitType
  <2> QED BY <2>1 DEF TypeOK, Records
<1>2. HasToken(c)
  BY DEF HasToken
<1>3. \A x \in Clusters \ {c} : ~Keeps(x)'
  <2> SUFFICES ASSUME NEW x \in Clusters, x # c PROVE ~Keeps(x)'
    OBVIOUS
  <2>0. ~Keeps(x)
    BY <1>2 DEF AuthorityInv, OneKeeper, Keeps
  <2>1. ~HasToken(x)'
    BY <1>0, <2>0 DEF Keeps, HasToken, Holds, HoldsClientWriteAuthority, InTransit
  <2>2. ~Flying(x)'
    BY <1>0, <1>1, <2>0 DEF Keeps, Flying
  <2> QED BY <2>1, <2>2 DEF Keeps
<1>4. ~HasToken(c)'
  BY <1>0 DEF HasToken, Holds, HoldsClientWriteAuthority, InTransit
<1>5. OneKeeper'
  BY <1>3 DEF OneKeeper
<1>6. KeeperIsLatest'
  <2>1. \A d \in Clusters : rec[d].epoch <= rec[c].epoch
    BY <1>2 DEF AuthorityInv, KeeperIsLatest
  <2>2. \A d \in Clusters \ {c} : rec'[d].epoch < rec'[c].epoch
    BY <1>0, <1>1, <2>1
  <2> QED BY <1>3, <1>4, <2>2 DEF KeeperIsLatest, Keeps
<1>7. ArmedIsLocal' /\ UnnamedIsFirst'
  BY <1>0 DEF AuthorityInv, ArmedIsLocal, UnnamedIsFirst
<1>8. \A d, x \in Clusters, e \in Nat : d # x /\ Settled(d, x, e) => Settled(d, x, e)'
  BY <1>0, <1>1 DEF Settled, InTransit
<1>9. CopiesSettled'
  <2> SUFFICES ASSUME NEW d \in Clusters, NEW x \in Clusters, NEW i \in Replicas, d # x,
                      applied'[d][i].phase = "Transferred", applied'[d][i].authority = x
               PROVE  Settled(d, x, applied[d][i].epoch)'
    BY DEF CopiesSettled
  <2>1. CASE applied'[d][i] = applied[d][i]
    <3>1. applied[d][i].epoch \in Nat
      BY <1>1 DEF Records
    <3> QED BY <1>8, <2>1, <3>1 DEF AuthorityInv, CopiesSettled
  <2>2. CASE d = c /\ applied'[d][i] = r
    BY <1>0, <2>2 DEF Settled
  <2> QED BY <1>0, <2>1, <2>2
<1>10. CallsSettled'
  <2> SUFFICES ASSUME NEW x \in Clusters, NEW call \in calls'[x], call.kind = "receive"
               PROVE  call.from # x /\ Settled(call.from, x, call.epoch)'
    BY DEF CallsSettled
  <2>1. call \in calls[x]
    OBVIOUS
  <2>2. call.from \in Clusters /\ call.epoch \in Nat
    BY <2>1, ReceiveCallType
  <2> QED BY <1>8, <2>1, <2>2 DEF AuthorityInv, CallsSettled
<1> QED BY <1>5, <1>6, <1>7, <1>9, <1>10 DEF AuthorityInv

(***************************************************************************)
(* A commit by which a recipient takes authority a donor has given it, at  *)
(* an epoch it had not reached: the donor's token was flying, and lands.   *)
(***************************************************************************)
LEMMA TakeToken ==
  ASSUME TypeOK, AuthorityInv, NEW c \in Clusters, NEW r \in Records, Commit(c, r),
         NEW donor \in Clusters \ {c}, Settled(donor, c, r.epoch),
         r.phase = "Transferred", r.authority = c,
         r.epoch > rec[c].epoch,
         \A x \in Clusters : \A call \in calls'[x] : call.kind = "receive" => call \in calls[x]
  PROVE  AuthorityInv'
<1> USE CutoverAssumption
<1>0. /\ \A x \in Clusters : rec'[x] = IF x = c THEN r ELSE rec[x]
      /\ \A x \in Clusters : \A i \in Replicas :
           applied'[x][i] = applied[x][i] \/ (x = c /\ applied'[x][i] = r)
  BY CommitEffect
<1>1. /\ rec \in [Clusters -> Records] /\ applied \in [Clusters -> [Replicas -> Records]]
      /\ \A x \in Clusters : rec[x].epoch \in Nat /\ rec'[x].epoch \in Nat
      /\ r.epoch \in Nat
  <2>1. rec' \in [Clusters -> Records]
    BY CommitType
  <2> QED BY <2>1 DEF TypeOK, Records
<1>2. /\ rec[donor].phase = "Transferred" /\ rec[donor].authority = c
      /\ rec[donor].epoch = r.epoch
      /\ Flying(donor)
  BY <1>1 DEF Settled, Flying
<1>3. \A x \in Clusters \ {c} : ~Keeps(x)'
  <2> SUFFICES ASSUME NEW x \in Clusters, x # c PROVE ~Keeps(x)'
    OBVIOUS
  <2>1. CASE x = donor
    BY <1>0, <1>1, <1>2, <2>1
       DEF Keeps, Flying, HasToken, Holds, HoldsClientWriteAuthority, InTransit
  <2>2. CASE x # donor
    <3>0. ~Keeps(x)
      BY <1>2, <2>2 DEF AuthorityInv, OneKeeper, Keeps
    <3>1. ~HasToken(x)'
      BY <1>0, <3>0 DEF Keeps, HasToken, Holds, HoldsClientWriteAuthority, InTransit
    <3>2. ~Flying(x)'
      BY <1>0, <1>1, <3>0 DEF Keeps, Flying
    <3> QED BY <3>1, <3>2 DEF Keeps
  <2> QED BY <2>1, <2>2
<1>4. ~Flying(c)'
  BY <1>0 DEF Flying
<1>5. OneKeeper'
  BY <1>3 DEF OneKeeper
<1>6. KeeperIsLatest'
  <2>1. \A d \in Clusters \ {donor} : rec[d].epoch < r.epoch
    BY <1>2 DEF AuthorityInv, KeeperIsLatest
  <2>2. \A d \in Clusters : rec'[d].epoch <= rec'[c].epoch
    BY <1>0, <1>1, <1>2, <2>1
  <2> QED BY <1>3, <1>4, <2>2 DEF KeeperIsLatest, Keeps
<1>7. ArmedIsLocal' /\ UnnamedIsFirst'
  BY <1>0 DEF AuthorityInv, ArmedIsLocal, UnnamedIsFirst
<1>8. \A d, x \in Clusters, e \in Nat : d # x /\ Settled(d, x, e) => Settled(d, x, e)'
  <2> SUFFICES ASSUME NEW d \in Clusters, NEW x \in Clusters, NEW e \in Nat,
                      d # x, Settled(d, x, e)
               PROVE  Settled(d, x, e)'
    OBVIOUS
  <2>1. CASE rec[x].epoch >= e
    BY <1>0, <1>1, <2>1 DEF Settled
  <2>2. CASE ~(rec[x].epoch >= e) /\ d # c
    BY <1>0, <2>2 DEF Settled
  <2>3. CASE ~(rec[x].epoch >= e) /\ d = c
    \* Then the token would be flying from c too.
    <3>1. Flying(c)
      BY <1>1, <2>3 DEF Settled, Flying
    <3> QED BY <1>2, <3>1 DEF AuthorityInv, OneKeeper, Keeps
  <2> QED BY <2>1, <2>2, <2>3
<1>9. CopiesSettled'
  <2> SUFFICES ASSUME NEW d \in Clusters, NEW x \in Clusters, NEW i \in Replicas, d # x,
                      applied'[d][i].phase = "Transferred", applied'[d][i].authority = x
               PROVE  Settled(d, x, applied[d][i].epoch)'
    BY DEF CopiesSettled
  <2>1. CASE applied'[d][i] = applied[d][i]
    <3>1. applied[d][i].epoch \in Nat
      BY <1>1 DEF Records
    <3> QED BY <1>8, <2>1, <3>1 DEF AuthorityInv, CopiesSettled
  <2> QED BY <1>0, <2>1
<1>10. CallsSettled'
  <2> SUFFICES ASSUME NEW x \in Clusters, NEW call \in calls'[x], call.kind = "receive"
               PROVE  call.from # x /\ Settled(call.from, x, call.epoch)'
    BY DEF CallsSettled
  <2>1. call \in calls[x]
    OBVIOUS
  <2>2. call.from \in Clusters /\ call.epoch \in Nat
    BY <2>1, ReceiveCallType
  <2> QED BY <1>8, <2>1, <2>2 DEF AuthorityInv, CallsSettled
<1> QED BY <1>5, <1>6, <1>7, <1>9, <1>10 DEF AuthorityInv

(***************************************************************************)
(* A recipient's boot fence: a cluster without the token names its donor.  *)
(***************************************************************************)
LEMMA NameDonor ==
  ASSUME TypeOK, AuthorityInv, NEW c \in Clusters, NameCluster(c)
  PROVE  AuthorityInv'
<1> DEFINE r == [rec[c] EXCEPT !.authority = Origin]
<1>a. r \in Records /\ Commit(c, r) /\ calls' = calls
  <2>1. rec[c] \in Records
    BY DEF TypeOK
  <2>2. r \in Records
    BY <2>1, CutoverAssumption DEF Records
  <2> QED BY <2>2 DEF NameCluster
<1>b. r.phase = "Idle" /\ r.authority = Origin /\ r.epoch = rec[c].epoch /\ Origin # c
  BY DEF TypeOK, Records, NameCluster, Awaits
<1> HIDE DEF r
<1> USE CutoverAssumption
<1>0. /\ \A x \in Clusters : rec'[x] = IF x = c THEN r ELSE rec[x]
      /\ \A x \in Clusters : \A i \in Replicas :
           applied'[x][i] = applied[x][i] \/ (x = c /\ applied'[x][i] = r)
  BY <1>a, CommitEffect
<1>1. /\ rec \in [Clusters -> Records] /\ applied \in [Clusters -> [Replicas -> Records]]
      /\ \A x \in Clusters : rec[x].epoch \in Nat /\ rec'[x].epoch \in Nat
      /\ r.epoch \in Nat
  <2>1. rec' \in [Clusters -> Records]
    BY <1>a, CommitType
  <2> QED BY <1>a, <2>1 DEF TypeOK, Records
<1>2. \A x \in Clusters : Keeps(x)' => Keeps(x)
  <2> SUFFICES ASSUME NEW x \in Clusters, Keeps(x)' PROVE Keeps(x)
    OBVIOUS
  <2>1. x # c
    BY <1>0, <1>b DEF Keeps, HasToken, Flying, Holds, HoldsClientWriteAuthority, InTransit
  <2>2. HasToken(x)' => HasToken(x)
    BY <1>0, <2>1 DEF HasToken, Holds, HoldsClientWriteAuthority, InTransit
  <2>3. Flying(x)' => Flying(x)
    BY <1>0, <1>b, <2>1 DEF Flying
  <2> QED BY <2>2, <2>3 DEF Keeps
<1>3. \A x \in Clusters : rec'[x].epoch = rec[x].epoch
  BY <1>0, <1>b
<1>4. OneKeeper' /\ KeeperIsLatest'
  <2>1. OneKeeper'
    BY <1>2 DEF AuthorityInv, OneKeeper
  <2>2. \A x \in Clusters : HasToken(x)' => HasToken(x)
    BY <1>0, <1>b DEF HasToken, Holds, HoldsClientWriteAuthority, InTransit
  <2>3. \A x \in Clusters : Flying(x)' => Flying(x)
    BY <1>0, <1>b, <1>3 DEF Flying
  <2> QED BY <1>1, <1>3, <2>1, <2>2, <2>3 DEF AuthorityInv, KeeperIsLatest
<1>7. ArmedIsLocal' /\ UnnamedIsFirst'
  BY <1>0, <1>b, CutoverAssumption DEF AuthorityInv, ArmedIsLocal, UnnamedIsFirst
<1>8. \A d, x \in Clusters, e \in Nat : d # x /\ Settled(d, x, e) => Settled(d, x, e)'
  BY <1>0, <1>1, <1>3 DEF Settled, NameCluster
<1>9. CopiesSettled'
  <2> SUFFICES ASSUME NEW d \in Clusters, NEW x \in Clusters, NEW i \in Replicas, d # x,
                      applied'[d][i].phase = "Transferred", applied'[d][i].authority = x
               PROVE  Settled(d, x, applied[d][i].epoch)'
    BY DEF CopiesSettled
  <2>1. CASE applied'[d][i] = applied[d][i]
    <3>1. applied[d][i].epoch \in Nat
      BY <1>1 DEF Records
    <3> QED BY <1>8, <2>1, <3>1 DEF AuthorityInv, CopiesSettled
  <2> QED BY <1>0, <1>b, <2>1
<1>10. CallsSettled'
  <2> SUFFICES ASSUME NEW x \in Clusters, NEW call \in calls'[x], call.kind = "receive"
               PROVE  call.from # x /\ Settled(call.from, x, call.epoch)'
    BY DEF CallsSettled
  <2>1. call \in calls[x]
    BY <1>a
  <2>2. call.from \in Clusters /\ call.epoch \in Nat
    BY <2>1, ReceiveCallType
  <2> QED BY <1>8, <2>1, <2>2 DEF AuthorityInv, CallsSettled
<1> QED BY <1>4, <1>7, <1>9, <1>10 DEF AuthorityInv

-----------------------------------------------------------------------------
(***************************************************************************)
(* The first records: only the origin has the token.                       *)
(***************************************************************************)
LEMMA InvInit == Init => TypeOK /\ AuthorityInv
<1> SUFFICES ASSUME Init PROVE TypeOK /\ AuthorityInv
  OBVIOUS
<1> USE CutoverAssumption
<1>1. FirstRecord \in Records
  BY DEF FirstRecord, Records, Phases, Lsns
<1>2. TypeOK
  <2>1. routes \in [Clusters -> SUBSET Replicas]
    BY DEF Init
  <2> QED BY <1>1, <2>1 DEF TypeOK, Init
<1>3. /\ \A c \in Clusters : rec[c] = FirstRecord /\ calls[c] = {}
      /\ \A c \in Clusters : \A i \in Replicas : applied[c][i] = FirstRecord
  BY DEF Init
<1>4. \A c \in Clusters : Keeps(c) => c = Origin
  BY <1>3 DEF Keeps, HasToken, Flying, Holds, HoldsClientWriteAuthority, InTransit, Awaits,
              FirstRecord
<1>5. OneKeeper
  BY <1>4 DEF OneKeeper
<1>6. KeeperIsLatest
  BY <1>3 DEF KeeperIsLatest, Flying, FirstRecord
<1>7. ArmedIsLocal /\ UnnamedIsFirst /\ CopiesSettled /\ CallsSettled
  BY <1>3 DEF ArmedIsLocal, UnnamedIsFirst, CopiesSettled, CallsSettled, FirstRecord
<1> QED BY <1>2, <1>5, <1>6, <1>7 DEF AuthorityInv

(***************************************************************************)
(* Every step keeps the token one: one step per action.                    *)
(***************************************************************************)
LEMMA InvStep == TypeOK /\ AuthorityInv /\ [Next]_vars => AuthorityInv'
<1> SUFFICES ASSUME TypeOK, AuthorityInv, [Next]_vars PROVE AuthorityInv'
  OBVIOUS
<1> USE CutoverAssumption
<1>r. \A c \in Clusters : rec[c] \in Records
  BY DEF TypeOK
<1>1. ASSUME NEW c \in Clusters, NameCluster(c) PROVE AuthorityInv'
  BY <1>1, NameDonor
<1>2. ASSUME NEW c \in Clusters, Arm(c) PROVE AuthorityInv'
  <2> DEFINE r == [rec[c] EXCEPT !.phase = "Armed", !.authority = c, !.forced = FALSE]
  <2>1. /\ r \in Records /\ r.phase = "Armed" /\ r.authority = c /\ r.epoch = rec[c].epoch
        /\ rec[c].epoch \in Nat
    <3>1. rec[c] \in Records
      BY <1>r
    <3>2. r \in Records
      BY <3>1 DEF Records, Phases
    <3> QED BY <3>1, <3>2 DEF Records
  <2>2. HasToken(c)
    <3>1. CASE rec[c].authority = NoCluster
      <4>1. leader[c] \in Replicas
        BY DEF TypeOK
      <4>2. applied[c][leader[c]].authority = NoCluster
        BY <3>1, <4>1 DEF AuthorityInv, UnnamedIsFirst
      <4> QED BY <1>2, <3>1, <4>2 DEF Arm, HasToken, Holds
    <3>2. CASE rec[c].authority # NoCluster
      BY <1>2, <3>2 DEF Arm, HasToken, Holds
    <3> QED BY <3>1, <3>2
  <2>3. Commit(c, r) /\ calls' = calls
    BY <1>2 DEF Arm
  <2> HIDE DEF r
  <2>4. Holds(c, r)
    BY <2>1 DEF Holds, HoldsClientWriteAuthority, InTransit
  <2> QED BY <2>1, <2>2, <2>3, <2>4, KeepToken
<1>3. ASSUME NEW c \in Clusters, StartSeal(c) PROVE AuthorityInv'
  <2>1. \A x \in Clusters : \A call \in calls'[x] : call.kind = "receive" => call \in calls[x]
    BY <1>3 DEF StartSeal, TypeOK
  <2>2. CASE rec' = rec /\ applied' = applied
    BY <2>1, <2>2, NoCommit
  <2>3. CASE rec[c].phase = "Armed" /\ Commit(c, [rec[c] EXCEPT !.phase = "Sealing"])
    <3> DEFINE r == [rec[c] EXCEPT !.phase = "Sealing"]
    <3>1. /\ r \in Records /\ r.phase = "Sealing" /\ r.authority = rec[c].authority
          /\ r.epoch = rec[c].epoch /\ rec[c].epoch \in Nat
      <4>1. rec[c] \in Records
        BY <1>r
      <4> QED BY <4>1 DEF Records, Phases
    <3>2. rec[c].authority = c
      BY <2>3 DEF AuthorityInv, ArmedIsLocal
    <3>3. HasToken(c)
      BY <2>3, <3>2 DEF HasToken, Holds, HoldsClientWriteAuthority, InTransit
    <3>4. Commit(c, r)
      BY <2>3
    <3> HIDE DEF r
    <3>5. InTransit(r)
      BY <3>1 DEF InTransit
    <3> QED BY <2>1, <3>1, <3>2, <3>3, <3>4, <3>5, KeepToken
  <2> QED BY <1>3, <2>2, <2>3 DEF StartSeal, recVars
<1>4. ASSUME NEW c \in Clusters, NEW call \in calls[c], ReadSealed(c, call) PROVE AuthorityInv'
  <2>1. call \in SealCalls
    BY <1>4 DEF TypeOK, ReadSealed, SealCalls, DrainCalls, ReceiveCalls
  <2>2. [call EXCEPT !.lsn = wal[c]].kind = "seal"
    BY <2>1 DEF SealCalls
  <2>3. \A x \in Clusters : \A k \in calls'[x] : k.kind = "receive" => k \in calls[x]
    BY <1>4, <2>2 DEF ReadSealed, TypeOK
  <2> QED BY <1>4, <2>3, NoCommit DEF ReadSealed, recVars
<1>5. ASSUME NEW c \in Clusters, NEW call \in calls[c], Seal(c, call) PROVE AuthorityInv'
  <2>1. \A x \in Clusters : \A k \in calls'[x] : k \in calls[x]
    BY <1>5 DEF Seal, CommitCall, TypeOK
  <2>2. CASE rec' = rec /\ applied' = applied
    BY <2>1, <2>2, NoCommit
  <2>3. CASE /\ rec[c].phase = "Sealing"
             /\ Commit(c, [rec[c] EXCEPT !.phase = "Sealed", !.final = call.lsn])
    <3> DEFINE r == [rec[c] EXCEPT !.phase = "Sealed", !.final = call.lsn]
    <3>0. call.lsn \in Lsns
      <4>1. call \in SealCalls \cup DrainCalls \cup ReceiveCalls
        BY DEF TypeOK
      <4>2. call \notin DrainCalls /\ call \notin ReceiveCalls
        BY <1>5 DEF Seal, DrainCalls, ReceiveCalls
      <4> QED BY <4>1, <4>2 DEF SealCalls
    <3>1. /\ r \in Records /\ r.phase = "Sealed" /\ r.authority = rec[c].authority
          /\ r.epoch = rec[c].epoch /\ rec[c].epoch \in Nat
      <4>1. rec[c] \in Records
        BY <1>r
      <4>2. r \in Records
        BY <3>0, <4>1 DEF Records, Phases
      <4> QED BY <4>1, <4>2 DEF Records
    <3>2. rec[c].authority # NoCluster
      BY <2>3 DEF AuthorityInv, UnnamedIsFirst
    <3>3. HasToken(c)
      BY <2>3 DEF HasToken, InTransit
    <3>4. Commit(c, r)
      BY <2>3
    <3> HIDE DEF r
    <3>5. InTransit(r)
      BY <3>1 DEF InTransit
    <3> QED BY <2>1, <3>1, <3>2, <3>3, <3>4, <3>5, KeepToken
  <2> QED BY <1>5, <2>2, <2>3 DEF Seal, CommitCall, recVars
<1>6. ASSUME NEW c \in Clusters, ReadDrain(c) PROVE AuthorityInv'
  <2>1. \A x \in Clusters : \A k \in calls'[x] : k.kind = "receive" => k \in calls[x]
    BY <1>6 DEF ReadDrain, TypeOK
  <2> QED BY <1>6, <2>1, NoCommit DEF ReadDrain, recVars
<1>7. ASSUME NEW c \in Clusters, NEW call \in calls[c], DrainObserved(c, call)
      PROVE  AuthorityInv'
  <2>1. \A x \in Clusters : \A k \in calls'[x] : k \in calls[x]
    BY <1>7 DEF DrainObserved, CommitCall, TypeOK
  <2>2. CASE rec' = rec /\ applied' = applied
    BY <2>1, <2>2, NoCommit
  <2>3. CASE rec[c].phase = "Sealed" /\ Commit(c, [rec[c] EXCEPT !.phase = "Draining"])
    <3> DEFINE r == [rec[c] EXCEPT !.phase = "Draining"]
    <3>1. /\ r \in Records /\ r.phase = "Draining" /\ r.authority = rec[c].authority
          /\ r.epoch = rec[c].epoch /\ rec[c].epoch \in Nat
      <4>1. rec[c] \in Records
        BY <1>r
      <4> QED BY <4>1 DEF Records, Phases
    <3>2. rec[c].authority # NoCluster
      BY <2>3 DEF AuthorityInv, UnnamedIsFirst
    <3>3. HasToken(c)
      BY <2>3 DEF HasToken, InTransit
    <3>4. Commit(c, r)
      BY <2>3
    <3> HIDE DEF r
    <3>5. InTransit(r)
      BY <3>1 DEF InTransit
    <3> QED BY <2>1, <3>1, <3>2, <3>3, <3>4, <3>5, KeepToken
  <2> QED BY <1>7, <2>2, <2>3 DEF DrainObserved, CommitCall, recVars
<1>8. ASSUME NEW c \in Clusters, NEW d \in Clusters, NEW f \in BOOLEAN, Transfer(c, d, f)
      PROVE  AuthorityInv'
  <2> DEFINE r == [rec[c] EXCEPT !.epoch = @ + 1, !.phase = "Transferred",
                                 !.authority = d, !.forced = f]
  <2>1. rec[c] \in Records /\ rec[c].epoch + 1 \in 0..MaxEpoch /\ d # c
    BY <1>8, <1>r DEF Transfer, Records
  <2>2. /\ r \in Records /\ r.phase = "Transferred" /\ r.authority = d
        /\ r.epoch = rec[c].epoch + 1
    BY <2>1 DEF Records, Phases
  <2>3. Commit(c, r) /\ calls' = calls
    BY <1>8 DEF Transfer
  <2>4. InTransit(rec[c])
    BY <1>8 DEF Transfer, InTransit
  <2> HIDE DEF r
  <2> QED BY <2>1, <2>2, <2>3, <2>4, GiveToken
<1>9. ASSUME NEW c \in Clusters, AbortUnseal(c) PROVE AuthorityInv'
  <2> DEFINE r == [epoch |-> rec[c].epoch + 1, authority |-> c, phase |-> "Aborted",
                   final |-> NoLsn, forced |-> FALSE]
  <2>1. rec[c].epoch \in Nat /\ rec[c].epoch + 1 \in 0..MaxEpoch
    BY <1>9, <1>r DEF AbortUnseal, Records
  <2>2. /\ r \in Records /\ r.phase = "Aborted" /\ r.authority = c
        /\ r.epoch = rec[c].epoch + 1
    BY <2>1 DEF Records, Phases, Lsns
  <2>3. Commit(c, r) /\ calls' = calls
    BY <1>9 DEF AbortUnseal
  <2>4. HasToken(c)
    BY <1>9 DEF AbortUnseal, AuthorityInv, ArmedIsLocal, HasToken, Holds,
                HoldsClientWriteAuthority, InTransit
  <2> HIDE DEF r
  <2>5. Holds(c, r)
    BY <2>2 DEF Holds, HoldsClientWriteAuthority, InTransit
  <2> QED BY <2>1, <2>2, <2>3, <2>4, <2>5, KeepToken
<1>10. ASSUME NEW c \in Clusters, NEW d \in Clusters, NEW e \in 1..MaxEpoch,
              NEW i \in Replicas, ReceiveCall(c, d, e, i)
       PROVE  AuthorityInv'
  <2>1. d # c /\ Settled(d, c, e)
    BY <1>10 DEF ReceiveCall, DonorConfirms, AuthorityInv, CopiesSettled
  <2>2. \A x \in Clusters : \A k \in calls'[x] : k.kind = "receive" =>
          k \in calls[x] \/ (k.from # x /\ Settled(k.from, x, k.epoch))
    BY <1>10, <2>1 DEF ReceiveCall, TypeOK
  <2> QED BY <1>10, <2>2, NoCommit DEF ReceiveCall, recVars
<1>11. ASSUME NEW c \in Clusters, NEW call \in calls[c], NEW i \in Replicas,
              HearDonor(c, call, i)
       PROVE  AuthorityInv'
  <2> DEFINE more == [call EXCEPT !.heard = @ \cup {i}]
  <2>1. call.kind = "receive" /\ call \in ReceiveCalls
    BY <1>11, ReceiveCallType DEF HearDonor
  <2>2. more.from = call.from /\ more.epoch = call.epoch
    BY <2>1 DEF ReceiveCalls
  <2>3. call.from # c /\ Settled(call.from, c, call.epoch)
    BY <2>1 DEF AuthorityInv, CallsSettled
  <2>4. calls' = [calls EXCEPT ![c] = (@ \ {call}) \cup {more}]
    BY <1>11 DEF HearDonor
  <2> HIDE DEF more
  <2>5. \A x \in Clusters : \A k \in calls'[x] : k.kind = "receive" =>
          k \in calls[x] \/ (k.from # x /\ Settled(k.from, x, k.epoch))
    BY <2>2, <2>3, <2>4 DEF TypeOK
  <2> QED BY <1>11, <2>5, NoCommit DEF HearDonor, recVars
<1>12. ASSUME NEW c \in Clusters, NEW call \in calls[c], AuthorityReceived(c, call)
       PROVE  AuthorityInv'
  <2> DEFINE r == [epoch |-> call.epoch, authority |-> c, phase |-> "Transferred",
                   final |-> NoLsn, forced |-> FALSE]
  <2>1. call.kind = "receive" /\ call \in ReceiveCalls /\ call.from \in Clusters
    BY <1>12, ReceiveCallType DEF AuthorityReceived
  <2>2. \A x \in Clusters : \A k \in calls'[x] : k \in calls[x]
    BY <1>12 DEF AuthorityReceived, CommitCall, TypeOK
  <2>3. call.from # c /\ Settled(call.from, c, call.epoch)
    BY <2>1 DEF AuthorityInv, CallsSettled
  <2>4. /\ r \in Records /\ r.phase = "Transferred" /\ r.authority = c
        /\ r.epoch = call.epoch
    BY <2>1 DEF Records, Phases, Lsns, ReceiveCalls
  <2>5. \/ rec' = rec /\ applied' = applied
        \/ call.epoch > rec[c].epoch /\ Commit(c, r)
    BY <1>12 DEF AuthorityReceived, CommitCall, recVars
  <2> HIDE DEF r
  <2>6. CASE rec' = rec /\ applied' = applied
    BY <2>2, <2>6, NoCommit
  <2>7. CASE call.epoch > rec[c].epoch /\ Commit(c, r)
    BY <2>1, <2>2, <2>3, <2>4, <2>7, TakeToken
  <2> QED BY <2>5, <2>6, <2>7
<1>13. ASSUME NEW c \in Clusters, NEW call \in calls[c], CallFails(c, call) PROVE AuthorityInv'
  <2>1. \A x \in Clusters : \A k \in calls'[x] : k \in calls[x]
    BY <1>13 DEF CallFails, TypeOK
  <2> QED BY <1>13, <2>1, NoCommit DEF CallFails, recVars
<1>14. ASSUME NEW c \in Clusters, NEW i \in Replicas, Apply(c, i) PROVE AuthorityInv'
  <2>1. \A x \in Clusters : \A j \in Replicas : applied'[x][j] \in {applied[x][j], rec[x]}
    BY <1>14 DEF Apply, TypeOK
  <2> QED BY <1>14, <2>1, NoCommit DEF Apply
<1>15. ASSUME NEW c \in Clusters, PrimaryOpened(c) PROVE AuthorityInv'
  <2>1. \A x \in Clusters : \A j \in Replicas : applied'[x][j] \in {applied[x][j], rec[x]}
    BY <1>15 DEF PrimaryOpened, TypeOK
  <2> QED BY <1>15, <2>1, NoCommit DEF PrimaryOpened
<1>16. CASE rec' = rec /\ applied' = applied /\ calls' = calls
  BY <1>16, NoCommit
<1>17. CASE \E c \in Clusters :
              \/ BeginPass(c) \/ LevelClientFence(c) \/ BeginTx(c) \/ CommitTx(c)
              \/ \E i \in Replicas : Failover(c, i) \/ Connect(c, i)
              \/ \E d \in Clusters : Replicate(c, d)
  BY <1>16, <1>17 DEF BeginPass, LevelClientFence, BeginTx, CommitTx, Failover, Connect,
                      Replicate, recVars
<1>18. CASE UNCHANGED vars
  BY <1>16, <1>18 DEF vars, recVars
<1> QED
  BY <1>1, <1>2, <1>3, <1>4, <1>5, <1>6, <1>7, <1>8, <1>9, <1>10, <1>11, <1>12, <1>13,
     <1>14, <1>15, <1>17, <1>18 DEF Next

(***************************************************************************)
(* Every reachable state of the cutover is typed.                          *)
(***************************************************************************)
THEOREM CutoverTypeCorrect == Spec => []TypeOK
<1>1. Init => TypeOK
  BY InvInit
<1> QED BY <1>1, TypeStep, PTL DEF Spec

(***************************************************************************)
(* Contract U1: however many clusters, nodes and epochs, however calls     *)
(* overlap, are delayed, are replayed or fail, and however leaders change, *)
(* at most one cluster's committed record holds client write authority     *)
(* (CutoverAuthorityState and the cutover handlers).                       *)
(***************************************************************************)
THEOREM AuthorityIsUnique == Spec => []AuthorityUnique
<1>1. Init => TypeOK /\ AuthorityInv
  BY InvInit
<1>2. TypeOK /\ AuthorityInv /\ [Next]_vars => (TypeOK /\ AuthorityInv)'
  BY TypeStep, InvStep
<1>3. AuthorityInv => AuthorityUnique
  BY DEF AuthorityInv, OneKeeper, AuthorityUnique, Keeps, HasToken
<1> QED BY <1>1, <1>2, <1>3, PTL DEF Spec

-----------------------------------------------------------------------------
(***************************************************************************)
(* Contract U1 at the clients, for callers that drive one step at a time.  *)
(*                                                                         *)
(* A cluster whose record neither holds authority nor is being sealed is   *)
(* quiet: no transaction of a client is open, and either its primary is    *)
(* fenced and will stay so, or no session exists and no gateway makes one. *)
(* The first is what a seal leaves behind; the second is what a change of  *)
(* leader makes of it, whose new leader may lag and lift the fence again,  *)
(* but whose gateways have applied the withdrawal with the leader's        *)
(* opening.                                                                *)
(***************************************************************************)
Open(c) == Holds(c, rec[c]) \/ rec[c].phase = "Sealing"

Closed(c) == fenced[c] /\ pass[c] # "lift" /\ ~Holds(c, applied[c][leader[c]])

Shut(c) == client[c] = "none" /\ \A i \in routes[c] : ~Holds(c, applied[c][i])

Quiet(c) == client[c] # "tx" /\ (Closed(c) \/ Shut(c))

\* One call at a time.  A seal that has read its position has found its cluster
\* quiet, and so is every cluster without authority.
ServeOf(c) ==
  /\ \A k, l \in calls[c] : k = l
  /\ \A call \in calls[c] : call.kind = "seal" /\ rec[c].phase = "Sealing" =>
       /\ applied[c][call.node].phase = "Sealing"
       /\ call.lsn # NoLsn => Quiet(c)
  /\ ~Open(c) => Quiet(c)

ServeInv == \A c \in Clusters : ServeOf(c)

\* A record in transit, or of a cluster that awaits authority, holds none.
LEMMA InTransitHoldsNot ==
  ASSUME NEW c, NEW r, r.phase \in {"Sealing", "Sealed", "Draining"}
  PROVE  ~Holds(c, r)
  BY DEF Holds, HoldsClientWriteAuthority, InTransit

\* A step of one cluster leaves the others as they are.
Untouched(x) ==
  /\ rec'[x] = rec[x] /\ applied'[x] = applied[x] /\ leader'[x] = leader[x]
  /\ routes'[x] = routes[x] /\ fenced'[x] = fenced[x] /\ pass'[x] = pass[x]
  /\ calls'[x] = calls[x] /\ client'[x] = client[x] /\ wal'[x] = wal[x]
  /\ confirmed'[x] = confirmed[x]

LEMMA ServeElsewhere ==
  ASSUME NEW x \in Clusters, ServeOf(x), Untouched(x)
  PROVE  ServeOf(x)'
<1>1. Quiet(x)' <=> Quiet(x)
  BY DEF Untouched, Quiet, Closed, Shut
<1>2. Open(x)' <=> Open(x)
  BY DEF Untouched, Open
<1> QED
  BY <1>1, <1>2 DEF Untouched, ServeOf

\* The steps of cluster c.
Acts(c) ==
  \/ NameCluster(c) \/ Arm(c) \/ StartSeal(c) \/ ReadDrain(c) \/ AbortUnseal(c)
  \/ PrimaryOpened(c) \/ BeginPass(c) \/ LevelClientFence(c)
  \/ BeginTx(c) \/ CommitTx(c)
  \/ \E d \in Clusters : Replicate(c, d)
  \/ \E d \in Clusters, forced \in BOOLEAN : Transfer(c, d, forced)
  \/ \E d \in Clusters, e \in 1..MaxEpoch, i \in Replicas : ReceiveCall(c, d, e, i)
  \/ \E i \in Replicas : Apply(c, i) \/ Failover(c, i) \/ Connect(c, i)
  \/ \E call \in calls[c] :
       \/ ReadSealed(c, call) \/ Seal(c, call) \/ DrainObserved(c, call)
       \/ AuthorityReceived(c, call) \/ CallFails(c, call)
       \/ \E i \in Replicas : HearDonor(c, call, i)

\* Whoever acts, the other clusters are untouched.
LEMMA OneClusterActs ==
  ASSUME TypeOK, NEW c \in Clusters, Acts(c), NEW x \in Clusters \ {c}
  PROVE  Untouched(x)
<1>1. CASE \/ NameCluster(c) \/ Arm(c) \/ StartSeal(c) \/ ReadDrain(c) \/ AbortUnseal(c)
           \/ PrimaryOpened(c) \/ BeginPass(c) \/ LevelClientFence(c)
           \/ BeginTx(c) \/ CommitTx(c)
  BY <1>1 DEF NameCluster, Arm, StartSeal, ReadDrain, AbortUnseal, PrimaryOpened, BeginPass,
              LevelClientFence, BeginTx, CommitTx, Commit, recVars, nodeVars, dataVars,
              TypeOK, Untouched
<1>2. CASE \/ \E d \in Clusters : Replicate(c, d)
           \/ \E d \in Clusters, forced \in BOOLEAN : Transfer(c, d, forced)
           \/ \E d \in Clusters, e \in 1..MaxEpoch, i \in Replicas : ReceiveCall(c, d, e, i)
           \/ \E i \in Replicas : Apply(c, i) \/ Failover(c, i) \/ Connect(c, i)
  BY <1>2 DEF Replicate, Transfer, ReceiveCall, Apply, Failover, Connect,
              Commit, recVars, nodeVars, dataVars, TypeOK, Untouched
<1>3. CASE \E call \in calls[c] :
             \/ ReadSealed(c, call) \/ Seal(c, call) \/ DrainObserved(c, call)
             \/ AuthorityReceived(c, call) \/ CallFails(c, call)
             \/ \E i \in Replicas : HearDonor(c, call, i)
  BY <1>3 DEF ReadSealed, Seal, DrainObserved, AuthorityReceived, CallFails, HearDonor,
              CommitCall, Commit, recVars, nodeVars, dataVars, TypeOK, Untouched
<1> QED
  BY <1>1, <1>2, <1>3 DEF Acts

\* What the copies and gateways of c may do while its record holds nothing.
FollowsRecord(c) ==
  /\ ~Holds(c, rec'[c]) /\ leader'[c] = leader[c]
  /\ \A i \in Replicas : applied'[c][i] = applied[c][i] \/ applied'[c][i] = rec'[c]
  /\ \A i \in routes'[c] : i \in routes[c] \/ applied'[c][i] = rec'[c]

\* Copies that follow such a record leave a quiet cluster quiet.
LEMMA QuietKept ==
  ASSUME TypeOK, TypeOK', NEW c \in Clusters, Quiet(c), FollowsRecord(c),
         fenced'[c] = fenced[c], pass'[c] = pass[c], client'[c] \in {client[c], "none"}
  PROVE  Quiet(c)'
<1>1. leader[c] \in Replicas /\ routes[c] \subseteq Replicas /\ routes'[c] \subseteq Replicas
  BY DEF TypeOK
<1>2. CASE Closed(c)
  BY <1>1, <1>2 DEF Quiet, Closed, FollowsRecord
<1>3. CASE Shut(c)
  BY <1>1, <1>3 DEF Quiet, Shut, FollowsRecord
<1> QED
  BY <1>2, <1>3 DEF Quiet

\* The steps of c that neither commit nor touch a call.
DataStep(c) ==
  \/ PrimaryOpened(c) \/ BeginPass(c) \/ LevelClientFence(c)
  \/ BeginTx(c) \/ CommitTx(c)
  \/ \E d \in Clusters : Replicate(c, d)
  \/ \E i \in Replicas : Apply(c, i) \/ Failover(c, i) \/ Connect(c, i)

\* They keep a cluster that holds nothing quiet: a fenced primary's next pass
\* reads a record that holds nothing, and a new leader starts without sessions.
LEMMA QuietData ==
  ASSUME TypeOK, TypeOK', NEW c \in Clusters, Quiet(c), ~Holds(c, rec[c]), DataStep(c)
  PROVE  Quiet(c)'
<1>0. leader[c] \in Replicas
  BY DEF TypeOK
<1>1. CASE PrimaryOpened(c)
  <2>1. /\ applied' = [applied EXCEPT ![c][leader[c]] = rec[c]]
        /\ routes' = [routes EXCEPT ![c] = {leader[c]}]
        /\ UNCHANGED <<rec, leader, fenced, pass, client>>
    BY <1>1 DEF PrimaryOpened, dataVars
  <2>2. /\ routes'[c] = {leader[c]} /\ applied'[c][leader[c]] = rec[c]
        /\ \A i \in Replicas : applied'[c][i] = applied[c][i] \/ applied'[c][i] = rec[c]
    BY <1>0, <2>1 DEF TypeOK
  <2>3. FollowsRecord(c)
    BY <2>1, <2>2 DEF FollowsRecord
  <2> QED
    BY <2>1, <2>3, QuietKept
<1>2. CASE BeginPass(c)
  BY <1>2 DEF BeginPass, Quiet, Closed, Shut, Wanted, recVars, nodeVars, dataVars, TypeOK
<1>3. CASE LevelClientFence(c)
  BY <1>3 DEF LevelClientFence, Quiet, Closed, Shut, recVars, nodeVars, dataVars, TypeOK
<1>4. CASE BeginTx(c)
  BY <1>4 DEF BeginTx, Quiet, Closed, Shut
<1>5. CASE CommitTx(c)
  BY <1>5 DEF CommitTx, Quiet
<1>6. CASE \E d \in Clusters : Replicate(c, d)
  BY <1>6 DEF Replicate, Quiet, Closed, Shut, recVars, nodeVars
<1>7. ASSUME NEW i \in Replicas, Apply(c, i) PROVE Quiet(c)'
  <2>1. /\ applied' = [applied EXCEPT ![c][i] = rec[c]]
        /\ routes' = [routes EXCEPT ![c] = IF @ = {} THEN {} ELSE @ \cup {i}]
        /\ UNCHANGED <<rec, leader, fenced, pass, client>>
    BY <1>7 DEF Apply, dataVars
  <2>2. /\ routes'[c] \subseteq routes[c] \cup {i} /\ applied'[c][i] = rec[c]
        /\ \A j \in Replicas : applied'[c][j] = applied[c][j] \/ applied'[c][j] = rec[c]
    BY <2>1 DEF TypeOK
  <2>3. FollowsRecord(c)
    BY <2>1, <2>2 DEF FollowsRecord
  <2> QED
    BY <2>1, <2>3, QuietKept
<1>8. ASSUME NEW i \in Replicas, Failover(c, i) PROVE Quiet(c)'
  BY <1>8 DEF Failover, Quiet, Shut, TypeOK
<1>9. ASSUME NEW i \in Replicas, Connect(c, i) PROVE Quiet(c)'
  BY <1>9 DEF Connect, GatewayAdmits, Quiet, Closed, Shut, recVars, nodeVars, TypeOK
<1> QED
  BY <1>1, <1>2, <1>3, <1>4, <1>5, <1>6, <1>7, <1>8, <1>9 DEF DataStep

\* They leave records and calls alone, and copy only the record.
LEMMA DataEffect ==
  ASSUME TypeOK, NEW c \in Clusters, DataStep(c)
  PROVE  /\ rec'[c] = rec[c] /\ calls'[c] = calls[c]
         /\ \A i \in Replicas : applied'[c][i] = applied[c][i] \/ applied'[c][i] = rec[c]
<1>1. rec' = rec /\ calls' = calls
  BY DEF DataStep, PrimaryOpened, BeginPass, LevelClientFence, BeginTx, CommitTx, Replicate,
         Apply, Failover, Connect, recVars
<1>2. \/ applied' = applied
      \/ \E i \in Replicas : applied' = [applied EXCEPT ![c][i] = rec[c]]
  <2>1. leader[c] \in Replicas
    BY DEF TypeOK
  <2> QED
    BY <2>1 DEF DataStep, PrimaryOpened, BeginPass, LevelClientFence, BeginTx, CommitTx,
           Replicate, Apply, Failover, Connect, recVars
<1> QED
  BY <1>1, <1>2 DEF TypeOK

\* A commit by c with nothing else changed: its leader's copy is the new record.
LEMMA CommitAt ==
  ASSUME TypeOK, NEW c \in Clusters, NEW r, Commit(c, r), UNCHANGED <<nodeVars, fenced, pass>>
  PROVE  /\ rec'[c] = r /\ applied'[c][leader[c]] = r
         /\ leader'[c] = leader[c] /\ routes'[c] = routes[c]
         /\ fenced'[c] = fenced[c] /\ pass'[c] = pass[c]
         /\ \A i \in Replicas : applied'[c][i] = applied[c][i] \/ applied'[c][i] = r
         /\ ~Holds(c, r) => FollowsRecord(c)
  BY DEF TypeOK, Commit, nodeVars, FollowsRecord

\* A record that holds, or will be withdrawn, asks nothing of its cluster once no
\* call is pending.
LEMMA OpenServes ==
  ASSUME NEW c \in Clusters, calls'[c] = {}, Open(c)' \/ Quiet(c)'
  PROVE  ServeOf(c)'
  BY DEF ServeOf

\* Every step of a cluster keeps it quiet unless it holds authority or is being
\* sealed.
LEMMA ServeOwn ==
  ASSUME TypeOK, TypeOK', AuthorityInv, SerialOperator,
         NEW c \in Clusters, ServeOf(c), Acts(c)
  PROVE  ServeOf(c)'
<1> USE DEF NoLsn
<1>0. leader[c] \in Replicas /\ rec[c] \in Records
  BY DEF TypeOK
<1>1. CASE NameCluster(c)
  <2> DEFINE r == [rec[c] EXCEPT !.authority = Origin]
  <2>1. /\ Commit(c, r) /\ UNCHANGED <<nodeVars, fenced, pass, calls, client>>
        /\ Awaits(c) /\ rec[c].phase = "Idle" /\ rec[c].authority = NoCluster
    BY <1>1 DEF NameCluster, dataVars
  <2>2. r.phase = "Idle" /\ ~Holds(c, r)
    BY <1>0, <2>1, CutoverAssumption
       DEF Records, Holds, HoldsClientWriteAuthority, Awaits, CutoverAssumption
  <2> HIDE DEF r
  <2>3. Quiet(c)
    BY <2>1 DEF ServeOf, Open, Holds
  <2>4. rec'[c] = r /\ Quiet(c)'
    BY <2>1, <2>2, <2>3, CommitAt, QuietKept
  <2> QED
    BY <2>1, <2>2, <2>4 DEF ServeOf
<1>2. CASE Arm(c)
  <2> DEFINE r == [rec[c] EXCEPT !.phase = "Armed", !.authority = c, !.forced = FALSE]
  <2>1. /\ Commit(c, r) /\ UNCHANGED <<nodeVars, fenced, pass, calls>> /\ calls[c] = {}
    BY <1>2 DEF Arm, MayStart
  <2>2. Holds(c, r)
    BY <1>0, CutoverAssumption
       DEF Records, Holds, HoldsClientWriteAuthority, InTransit, CutoverAssumption
  <2> HIDE DEF r
  <2>3. rec'[c] = r
    BY <2>1, CommitAt
  <2> QED
    BY <2>1, <2>2, <2>3, OpenServes DEF Open
<1>3. CASE StartSeal(c)
  <2> DEFINE call == [kind |-> "seal", node |-> leader[c], lsn |-> NoLsn]
             r == [rec[c] EXCEPT !.phase = "Sealing"]
  <2>1. /\ calls[c] = {} /\ calls' = [calls EXCEPT ![c] = @ \cup {call}]
        /\ UNCHANGED <<nodeVars, fenced, pass, client>>
        /\ \/ Commit(c, r)
           \/ applied[c][leader[c]].phase = "Sealing" /\ UNCHANGED recVars
    BY <1>3 DEF StartSeal, MayStart, dataVars
  <2>2. calls'[c] = {call} /\ call.node = leader[c] /\ call.lsn = NoLsn
    BY <2>1 DEF TypeOK
  <2>3. r.phase = "Sealing"
    BY <1>0 DEF Records
  <2> HIDE DEF r, call
  <2>4. CASE Commit(c, r)
    <3>1. rec'[c] = r /\ applied'[c][leader[c]] = r
      BY <2>1, <2>4, CommitAt
    <3> QED
      BY <2>2, <2>3, <3>1 DEF ServeOf, Open
  <2>5. CASE applied[c][leader[c]].phase = "Sealing" /\ UNCHANGED recVars
    <3>1. (Quiet(c)' <=> Quiet(c)) /\ (Open(c)' <=> Open(c))
      BY <2>1, <2>5 DEF Quiet, Closed, Shut, Open, recVars, nodeVars
    <3> QED
      BY <2>2, <2>5, <3>1 DEF ServeOf, recVars
  <2> QED
    BY <2>1, <2>4, <2>5
<1>4. ASSUME NEW k, k.kind # "seal", calls[c] = {} \/ \E call \in calls[c] : calls[c] = {call},
             calls'[c] = {k}, UNCHANGED <<recVars, nodeVars, fenced, pass, client>>
      PROVE  ServeOf(c)'
  <2>1. (Quiet(c)' <=> Quiet(c)) /\ (Open(c)' <=> Open(c))
    BY <1>4 DEF Quiet, Closed, Shut, Open, recVars, nodeVars
  <2> QED
    BY <1>4, <2>1 DEF ServeOf
<1>5. CASE ReadDrain(c)
  <2>1. /\ calls[c] = {} /\ UNCHANGED <<recVars, nodeVars, fenced, pass, client>>
        /\ calls'[c] = {[kind |-> "drain", node |-> leader[c]]}
    BY <1>5 DEF ReadDrain, MayStart, dataVars, TypeOK
  <2> QED
    BY <1>4, <2>1
<1>6. ASSUME NEW d \in Clusters, NEW e \in 1..MaxEpoch, NEW i \in Replicas,
             ReceiveCall(c, d, e, i)
      PROVE  ServeOf(c)'
  <2>1. /\ calls[c] = {} /\ UNCHANGED <<recVars, nodeVars, fenced, pass, client>>
        /\ calls'[c] = {[kind |-> "receive", node |-> leader[c], epoch |-> e, from |-> d,
                         heard |-> {i}]}
    BY <1>6 DEF ReceiveCall, MayStart, dataVars, TypeOK
  <2> QED
    BY <1>4, <2>1
<1>7. CASE AbortUnseal(c)
  <2> DEFINE r == [epoch |-> rec[c].epoch + 1, authority |-> c, phase |-> "Aborted",
                   final |-> NoLsn, forced |-> FALSE]
  <2>1. /\ Commit(c, r) /\ UNCHANGED <<nodeVars, fenced, pass, calls>> /\ calls[c] = {}
    BY <1>7 DEF AbortUnseal, MayStart
  <2>2. Holds(c, r)
    BY CutoverAssumption DEF Holds, HoldsClientWriteAuthority, InTransit, CutoverAssumption
  <2> HIDE DEF r
  <2>3. rec'[c] = r
    BY <2>1, CommitAt
  <2> QED
    BY <2>1, <2>2, <2>3, OpenServes DEF Open
<1>8. ASSUME NEW d \in Clusters, NEW f \in BOOLEAN, Transfer(c, d, f) PROVE ServeOf(c)'
  <2> DEFINE r == [rec[c] EXCEPT !.epoch = @ + 1, !.phase = "Transferred",
                                 !.authority = d, !.forced = f]
  <2>1. /\ Commit(c, r) /\ UNCHANGED <<nodeVars, fenced, pass, calls, client>>
        /\ calls[c] = {} /\ d # c /\ rec[c].phase \in {"Sealed", "Draining"}
    BY <1>8 DEF Transfer, MayStart, dataVars
  <2>2. ~Holds(c, r)
    BY <1>0, <2>1, CutoverAssumption
       DEF Records, Holds, HoldsClientWriteAuthority, CutoverAssumption
  <2> HIDE DEF r
  <2>3. Quiet(c)
    BY <2>1, InTransitHoldsNot DEF ServeOf, Open
  <2>4. Quiet(c)'
    BY <2>1, <2>2, <2>3, CommitAt, QuietKept
  <2> QED
    BY <2>1, <2>4, OpenServes
<1>9. CASE DataStep(c)
  <2>1. /\ rec'[c] = rec[c] /\ calls'[c] = calls[c]
        /\ \A i \in Replicas : applied'[c][i] = applied[c][i] \/ applied'[c][i] = rec[c]
    BY <1>9, DataEffect
  <2>2. Quiet(c) /\ ~Holds(c, rec[c]) => Quiet(c)'
    BY <1>9, QuietData
  <2>3. \A call \in calls[c] : call.kind = "seal" => call.node \in Replicas
    BY DEF TypeOK, SealCalls, DrainCalls, ReceiveCalls
  <2>4. rec[c].phase = "Sealing" => ~Holds(c, rec[c])
    BY InTransitHoldsNot
  <2>5. ~Open(c)' => Quiet(c)'
    BY <2>1, <2>2 DEF Open, ServeOf
  <2> QED
    BY <2>1, <2>2, <2>3, <2>4, <2>5 DEF ServeOf
<1>10. ASSUME NEW call \in calls[c], ReadSealed(c, call) PROVE ServeOf(c)'
  <2> DEFINE k == [call EXCEPT !.lsn = wal[c]]
  <2>1. /\ call.kind = "seal" /\ call.node = leader[c] /\ pass[c] = "none" /\ fenced[c]
        /\ client' = [client EXCEPT ![c] = "none"]
        /\ calls' = [calls EXCEPT ![c] = (@ \ {call}) \cup {k}]
        /\ UNCHANGED <<recVars, nodeVars, fenced, pass>>
    BY <1>10 DEF ReadSealed
  <2>2. call \in SealCalls
    BY <2>1 DEF TypeOK, SealCalls, DrainCalls, ReceiveCalls
  <2>3. k.kind = "seal" /\ k.node = leader[c]
    BY <2>1, <2>2 DEF SealCalls
  <2> HIDE DEF k
  <2>4. calls'[c] = {k} /\ client'[c] = "none"
    BY <2>1 DEF ServeOf, TypeOK
  <2>5. Quiet(c) => Quiet(c)'
    BY <2>1, <2>4 DEF Quiet, Closed, Shut, recVars, nodeVars
  <2>6. rec[c].phase = "Sealing" => applied[c][leader[c]].phase = "Sealing" /\ Quiet(c)'
    <3>1. rec[c].phase = "Sealing" => applied[c][leader[c]].phase = "Sealing"
      BY <2>1 DEF ServeOf
    <3>2. applied[c][leader[c]].phase = "Sealing" => Quiet(c)'
      BY <2>1, <2>4, InTransitHoldsNot DEF Quiet, Closed, recVars, nodeVars
    <3> QED
      BY <3>1, <3>2
  <2>7. ~Open(c)' => Quiet(c)'
    BY <2>1, <2>5 DEF Open, ServeOf, recVars
  <2> QED
    BY <2>1, <2>3, <2>4, <2>6, <2>7 DEF ServeOf, recVars
<1>11. ASSUME NEW call \in calls[c], calls'[c] = {},
              UNCHANGED <<recVars, nodeVars, fenced, pass, client>>
       PROVE  ServeOf(c)'
  <2>1. (Quiet(c)' <=> Quiet(c)) /\ (Open(c)' <=> Open(c))
    BY <1>11 DEF Quiet, Closed, Shut, Open, recVars, nodeVars
  <2> QED
    BY <1>11, <2>1 DEF ServeOf
<1>12. \A call \in calls[c] : calls' = [calls EXCEPT ![c] = @ \ {call}] => calls'[c] = {}
  BY DEF ServeOf, TypeOK
<1>13. ASSUME NEW call \in calls[c], Seal(c, call) PROVE ServeOf(c)'
  <2> DEFINE r == [rec[c] EXCEPT !.phase = "Sealed", !.final = call.lsn]
  <2>1. /\ call.kind = "seal" /\ call.lsn # NoLsn
        /\ calls'[c] = {} /\ UNCHANGED <<nodeVars, fenced, pass, client>>
        /\ \/ UNCHANGED recVars
           \/ rec[c].phase = "Sealing" /\ Commit(c, r)
    BY <1>12, <1>13 DEF Seal, CommitCall, dataVars
  <2>2. r.phase = "Sealed"
    BY <1>0 DEF Records
  <2> HIDE DEF r
  <2>3. CASE rec[c].phase = "Sealing" /\ Commit(c, r)
    <3>1. Quiet(c)
      BY <2>1, <2>3 DEF ServeOf
    <3>2. Quiet(c)'
      BY <2>1, <2>2, <2>3, <3>1, CommitAt, QuietKept, InTransitHoldsNot
    <3> QED
      BY <2>1, <3>2, OpenServes
  <2> QED
    BY <1>11, <2>1, <2>3
<1>14. ASSUME NEW call \in calls[c], DrainObserved(c, call) PROVE ServeOf(c)'
  <2> DEFINE r == [rec[c] EXCEPT !.phase = "Draining"]
  <2>1. /\ calls'[c] = {} /\ UNCHANGED <<nodeVars, fenced, pass, client>>
        /\ \/ UNCHANGED recVars
           \/ rec[c].phase = "Sealed" /\ Commit(c, r)
    BY <1>12, <1>14 DEF DrainObserved, CommitCall, dataVars
  <2>2. r.phase = "Draining"
    BY <1>0 DEF Records
  <2> HIDE DEF r
  <2>3. CASE rec[c].phase = "Sealed" /\ Commit(c, r)
    <3>1. Quiet(c)
      BY <2>3, InTransitHoldsNot DEF ServeOf, Open
    <3>2. Quiet(c)'
      BY <2>1, <2>2, <2>3, <3>1, CommitAt, QuietKept, InTransitHoldsNot
    <3> QED
      BY <2>1, <3>2, OpenServes
  <2> QED
    BY <1>11, <2>1, <2>3
<1>15. ASSUME NEW call \in calls[c], AuthorityReceived(c, call) PROVE ServeOf(c)'
  <2> DEFINE r == [epoch |-> call.epoch, authority |-> c, phase |-> "Transferred",
                   final |-> NoLsn, forced |-> FALSE]
  <2>1. /\ calls'[c] = {} /\ UNCHANGED <<nodeVars, fenced, pass, client>>
        /\ UNCHANGED recVars \/ Commit(c, r)
    BY <1>12, <1>15 DEF AuthorityReceived, CommitCall, dataVars
  <2>2. Holds(c, r)
    BY CutoverAssumption DEF Holds, HoldsClientWriteAuthority, InTransit, CutoverAssumption
  <2> HIDE DEF r
  <2>3. CASE Commit(c, r)
    <3>1. rec'[c] = r
      BY <2>1, <2>3, CommitAt
    <3> QED
      BY <2>1, <2>2, <3>1, OpenServes DEF Open
  <2> QED
    BY <1>11, <2>1, <2>3
<1>16. ASSUME NEW call \in calls[c], CallFails(c, call) PROVE ServeOf(c)'
  BY <1>11, <1>12, <1>16 DEF CallFails, dataVars
<1>17. ASSUME NEW call \in calls[c], NEW i \in Replicas, HearDonor(c, call, i)
       PROVE  ServeOf(c)'
  <2> DEFINE k == [call EXCEPT !.heard = @ \cup {i}]
  <2>1. call.kind = "receive" /\ call \in ReceiveCalls
    BY <1>17, ReceiveCallType DEF HearDonor
  <2>2. k.kind = "receive"
    BY <2>1 DEF ReceiveCalls
  <2>3. /\ calls' = [calls EXCEPT ![c] = (@ \ {call}) \cup {k}]
        /\ UNCHANGED <<recVars, nodeVars, fenced, pass, client>>
    BY <1>17 DEF HearDonor, dataVars
  <2> HIDE DEF k
  <2>4. calls'[c] = {k} /\ calls[c] = {call}
    BY <2>3 DEF ServeOf, TypeOK
  <2> QED
    BY <1>4, <2>2, <2>3, <2>4
<1> QED
  BY <1>1, <1>2, <1>3, <1>5, <1>6, <1>7, <1>8, <1>9, <1>10, <1>13, <1>14, <1>15, <1>16,
     <1>17 DEF Acts, DataStep

\* Every step keeps every cluster's service in order.
LEMMA ServeStep ==
  ASSUME TypeOK, AuthorityInv, ServeInv, SerialOperator, [Next]_vars
  PROVE  ServeInv'
<1>1. TypeOK'
  BY TypeStep
<1>2. CASE UNCHANGED vars
  <2>1. \A x \in Clusters : Untouched(x)
    BY <1>2 DEF vars, recVars, nodeVars, dataVars, Untouched
  <2> QED
    BY <2>1, ServeElsewhere DEF ServeInv
<1>3. ASSUME NEW c \in Clusters, Acts(c) PROVE ServeInv'
  <2>1. ServeOf(c)'
    BY <1>1, <1>3, ServeOwn DEF ServeInv
  <2>2. ASSUME NEW x \in Clusters \ {c} PROVE ServeOf(x)'
    BY <1>3, OneClusterActs, ServeElsewhere DEF ServeInv
  <2> QED
    BY <2>1, <2>2 DEF ServeInv
<1> QED
  BY <1>2, <1>3 DEF Next, Acts

\* At the start only the origin holds authority, and the others' gateways, which
\* await it, admit nobody.
LEMMA ServeInit == Init => ServeInv
<1> SUFFICES ASSUME Init, NEW c \in Clusters PROVE ServeOf(c)
  BY DEF ServeInv
<1>1. /\ rec[c] = FirstRecord /\ calls[c] = {} /\ client[c] = "none"
      /\ routes[c] \subseteq Replicas
      /\ \A i \in Replicas : applied[c][i] = FirstRecord
  BY CutoverAssumption DEF Init, CutoverAssumption
<1>2. ~Open(c) => Quiet(c)
  BY <1>1 DEF Open, Quiet, Shut
<1> QED
  BY <1>1, <1>2 DEF ServeOf

(***************************************************************************)
(* Contract U1 at the clients: while an operator drives one step of the    *)
(* cutover at a time, the clients of two clusters never write at once,     *)
(* however gateways lag, sessions outlive the withdrawal, calls fail, and  *)
(* leaders change (the client-write fence, the gateways' admission and the *)
(* seal handler).                                                          *)
(***************************************************************************)
THEOREM ClientsOfOneCluster ==
  ASSUME SerialOperator PROVE Spec => []OneClusterServes
<1>1. Init => TypeOK /\ AuthorityInv /\ ServeInv
  BY InvInit, ServeInit
<1>2. TypeOK /\ AuthorityInv /\ ServeInv /\ [Next]_vars
      => (TypeOK /\ AuthorityInv /\ ServeInv)'
  BY TypeStep, InvStep, ServeStep
<1>3. AuthorityInv /\ ServeInv => OneClusterServes
  <2> SUFFICES ASSUME AuthorityInv, ServeInv, NEW c \in Clusters, NEW d \in Clusters,
                      Serves(c), Serves(d)
               PROVE  c = d
    BY DEF OneClusterServes
  <2>1. ASSUME NEW x \in Clusters, Serves(x) PROVE Keeps(x)
    <3>1. ~Quiet(x)
      BY <2>1 DEF Serves, GatewayAdmits, Quiet, Closed, Shut
    <3> QED
      BY <3>1 DEF ServeInv, ServeOf, Open, Keeps, HasToken, InTransit
  <2> QED
    BY <2>1 DEF AuthorityInv, OneKeeper
<1> QED
  BY <1>1, <1>2, <1>3, PTL DEF Spec

-----------------------------------------------------------------------------
(***************************************************************************)
(* Contract U2, for callers that drive one step at a time and leaders that *)
(* stay.  The leader's copy is the record, a seal's position is the end of *)
(* the log, which nobody moves any more, and a drain that was read is a    *)
(* drain of that position.                                                 *)
(***************************************************************************)
Drained(c, d) == confirmed[c][d] >= wal[c]

DrainOf(c) ==
  /\ applied[c][leader[c]] = rec[c]
  /\ \A call \in calls[c] :
       /\ call.kind = "seal" /\ call.lsn # NoLsn /\ rec[c].phase = "Sealing" =>
            call.lsn = wal[c]
       /\ call.kind = "drain" => DrainProven(c, rec[c].final)
  /\ rec[c].phase \in {"Sealed", "Draining"} => rec[c].final = wal[c]
  /\ rec[c].phase = "Draining" => \A d \in Clusters \ {c} : Drained(c, d)
  /\ rec[c].phase = "Transferred" /\ ~rec[c].forced =>
       \A d \in Clusters \ {c} : rec[c].authority = d => Drained(c, d)

DrainInv == \A c \in Clusters : DrainOf(c)

\* A step of another cluster drains nothing here.
LEMMA DrainElsewhere ==
  ASSUME NEW x \in Clusters, DrainOf(x), Untouched(x)
  PROVE  DrainOf(x)'
  BY DEF Untouched, DrainOf, DrainProven, Drained

\* A commit with no call left: the record's own clauses are what is to be shown.
LEMMA DrainCommit ==
  ASSUME TypeOK, NEW c \in Clusters, NEW r, Commit(c, r), UNCHANGED <<nodeVars, dataVars>>,
         \A call \in calls'[c] : call.kind # "drain" /\ (call.kind = "seal" => call.lsn = NoLsn),
         r.phase \in {"Sealed", "Draining"} => r.final = wal[c],
         r.phase = "Draining" => \A d \in Clusters \ {c} : Drained(c, d),
         r.phase = "Transferred" /\ ~r.forced =>
           \A d \in Clusters \ {c} : r.authority = d => Drained(c, d)
  PROVE  DrainOf(c)'
<1>1. rec'[c] = r /\ applied'[c][leader[c]] = r /\ leader'[c] = leader[c]
  BY DEF TypeOK, Commit, nodeVars
<1>2. \A d \in Clusters : Drained(c, d)' <=> Drained(c, d)
  BY DEF Drained, dataVars
<1> QED
  BY <1>1, <1>2 DEF DrainOf, dataVars

\* With no commit, no client transaction and fewer or drained calls.
LEMMA DrainKept ==
  ASSUME NEW c \in Clusters, DrainOf(c), rec'[c] = rec[c],
         applied'[c][leader[c]] \in {applied[c][leader[c]], rec[c]},
         leader'[c] = leader[c], wal'[c] = wal[c], confirmed'[c] = confirmed[c],
         \A call \in calls'[c] :
           \/ call \in calls[c]
           \/ /\ call.kind = "seal" => call.lsn \in {NoLsn, wal[c]}
              /\ call.kind = "drain" => DrainProven(c, rec[c].final)
  PROVE  DrainOf(c)'
<1>1. \A d \in Clusters : Drained(c, d)' <=> Drained(c, d)
  BY DEF Drained
<1>2. DrainProven(c, rec[c].final)' <=> DrainProven(c, rec[c].final)
  BY DEF DrainProven
<1>3. applied'[c][leader'[c]] = rec'[c]
  BY DEF DrainOf
<1>4. \A call \in calls'[c] :
        /\ call.kind = "seal" /\ call.lsn # NoLsn /\ rec[c].phase = "Sealing" =>
             call.lsn = wal[c]
        /\ call.kind = "drain" => DrainProven(c, rec[c].final)
  BY DEF DrainOf
<1> QED
  BY <1>1, <1>2, <1>3, <1>4 DEF DrainOf

\* Every step of a cluster whose leader stays keeps its drain in order: only a
\* client's commit moves the end of its log, and none is open once a seal has
\* read it.
LEMMA DrainOwn ==
  ASSUME TypeOK, AuthorityInv, SerialOperator, MaxFailovers = 0,
         NEW c \in Clusters, ServeOf(c), DrainOf(c), Acts(c)
  PROVE  DrainOf(c)'
<1>0. leader[c] \in Replicas /\ rec[c] \in Records /\ wal[c] \in Nat
  BY CutoverAssumption DEF TypeOK, CutoverAssumption
<1>1. CASE NameCluster(c)
  <2> DEFINE r == [rec[c] EXCEPT !.authority = Origin]
  <2>1. /\ Commit(c, r) /\ UNCHANGED <<nodeVars, calls, dataVars>> /\ rec[c].phase = "Idle"
    BY <1>1 DEF NameCluster
  <2>2. r.phase = "Idle" /\ r.final = rec[c].final
    BY <1>0, <2>1 DEF Records
  <2> HIDE DEF r
  <2>3. rec'[c] = r /\ applied'[c][leader'[c]] = r
    BY <1>0, <2>1 DEF Commit, TypeOK, nodeVars
  <2>4. DrainProven(c, rec[c].final)' <=> DrainProven(c, rec[c].final)
    BY <2>1, <2>2, <2>3 DEF DrainProven, dataVars
  <2> QED
    BY <2>1, <2>2, <2>3, <2>4 DEF DrainOf
<1>2. CASE Arm(c)
  <2> DEFINE r == [rec[c] EXCEPT !.phase = "Armed", !.authority = c, !.forced = FALSE]
  <2>1. /\ Commit(c, r) /\ UNCHANGED <<nodeVars, calls, dataVars>> /\ calls[c] = {}
    BY <1>2 DEF Arm, MayStart
  <2>2. r.phase = "Armed"
    BY <1>0 DEF Records
  <2> HIDE DEF r
  <2> QED
    BY <2>1, <2>2, DrainCommit
<1>3. CASE StartSeal(c)
  <2> DEFINE call == [kind |-> "seal", node |-> leader[c], lsn |-> NoLsn]
             r == [rec[c] EXCEPT !.phase = "Sealing"]
  <2>1. /\ calls[c] = {} /\ calls' = [calls EXCEPT ![c] = @ \cup {call}]
        /\ UNCHANGED <<nodeVars, dataVars>>
        /\ Commit(c, r) \/ UNCHANGED recVars
    BY <1>3 DEF StartSeal, MayStart
  <2>2. calls'[c] = {call} /\ call.kind = "seal" /\ call.lsn = NoLsn
    BY <2>1 DEF TypeOK
  <2>3. r.phase = "Sealing"
    BY <1>0 DEF Records
  <2> HIDE DEF r, call
  <2>4. CASE Commit(c, r)
    BY <2>1, <2>2, <2>3, <2>4, DrainCommit
  <2>5. CASE UNCHANGED recVars
    BY <2>1, <2>2, <2>5, DrainKept DEF recVars, nodeVars, dataVars
  <2> QED
    BY <2>1, <2>4, <2>5
<1>4. CASE ReadDrain(c)
  <2>1. /\ UNCHANGED <<recVars, nodeVars, dataVars>>
        /\ calls'[c] = calls[c] \cup {[kind |-> "drain", node |-> leader[c]]}
        /\ DrainProven(c, rec[c].final)
    BY <1>4 DEF ReadDrain, DrainOf, TypeOK
  <2> QED
    BY <2>1, DrainKept DEF recVars, nodeVars, dataVars
<1>5. ASSUME NEW d \in Clusters, NEW e \in 1..MaxEpoch, NEW i \in Replicas,
             ReceiveCall(c, d, e, i)
      PROVE  DrainOf(c)'
  <2>1. /\ UNCHANGED <<recVars, nodeVars, dataVars>>
        /\ calls'[c] = calls[c] \cup
             {[kind |-> "receive", node |-> leader[c], epoch |-> e, from |-> d, heard |-> {i}]}
    BY <1>5 DEF ReceiveCall, TypeOK
  <2> QED
    BY <2>1, DrainKept DEF recVars, nodeVars, dataVars
<1>6. CASE AbortUnseal(c)
  <2> DEFINE r == [epoch |-> rec[c].epoch + 1, authority |-> c, phase |-> "Aborted",
                   final |-> NoLsn, forced |-> FALSE]
  <2>1. /\ Commit(c, r) /\ UNCHANGED <<nodeVars, calls, dataVars>> /\ calls[c] = {}
    BY <1>6 DEF AbortUnseal, MayStart
  <2>2. r.phase = "Aborted"
    OBVIOUS
  <2> HIDE DEF r
  <2> QED
    BY <2>1, <2>2, DrainCommit
<1>7. ASSUME NEW d \in Clusters, NEW f \in BOOLEAN, Transfer(c, d, f) PROVE DrainOf(c)'
  <2> DEFINE r == [rec[c] EXCEPT !.epoch = @ + 1, !.phase = "Transferred",
                                 !.authority = d, !.forced = f]
  <2>1. /\ Commit(c, r) /\ UNCHANGED <<nodeVars, calls, dataVars>>
        /\ calls[c] = {} /\ (~f => rec[c].phase = "Draining")
    BY <1>7 DEF Transfer, MayStart
  <2>2. r.phase = "Transferred" /\ r.forced = f
    BY <1>0 DEF Records
  <2> HIDE DEF r
  <2>3. ~f => \A x \in Clusters \ {c} : Drained(c, x)
    BY <2>1 DEF DrainOf
  <2> QED
    BY <2>1, <2>2, <2>3, DrainCommit
<1>8. CASE PrimaryOpened(c) \/ \E i \in Replicas : Apply(c, i)
  <2>1. rec' = rec /\ leader' = leader /\ calls' = calls /\ UNCHANGED dataVars
    BY <1>8 DEF PrimaryOpened, Apply
  <2>2. applied'[c][leader[c]] \in {applied[c][leader[c]], rec[c]}
    BY <1>0, <1>8, DataEffect DEF DataStep
  <2> QED
    BY <2>1, <2>2, DrainKept DEF dataVars
<1>9. CASE \/ BeginPass(c) \/ LevelClientFence(c) \/ BeginTx(c)
           \/ \E i \in Replicas : Connect(c, i)
  <2>1. UNCHANGED <<rec, applied, leader, calls, wal, confirmed>>
    BY <1>9 DEF BeginPass, LevelClientFence, BeginTx, Connect, recVars, nodeVars, dataVars
  <2> QED
    BY <2>1, DrainKept
<1>10. CASE CommitTx(c)
  <2>1. ~Quiet(c) /\ UNCHANGED <<rec, applied, leader, calls>>
    BY <1>10 DEF CommitTx, Quiet, recVars, nodeVars
  <2>2. Open(c)
    BY <2>1 DEF ServeOf
  <2>3. /\ rec[c].phase \notin {"Sealed", "Draining"}
        /\ rec[c].phase = "Transferred" => rec[c].authority \in {c, NoCluster}
    BY <2>2, InTransitHoldsNot DEF Open, Holds, HoldsClientWriteAuthority
  <2>4. \A call \in calls[c] :
          call.kind = "seal" /\ rec[c].phase = "Sealing" => call.lsn = NoLsn
    BY <2>1 DEF ServeOf
  <2>5. DrainProven(c, rec[c].final)' <=> DrainProven(c, rec[c].final)
    BY <1>10 DEF DrainProven, CommitTx, recVars
  <2>6. \A d \in Clusters \ {c} : ~(rec[c].phase = "Transferred" /\ rec[c].authority = d)
    BY <2>3, CutoverAssumption DEF CutoverAssumption
  <2> QED
    BY <2>1, <2>3, <2>4, <2>5, <2>6 DEF DrainOf
<1>11. ASSUME NEW d \in Clusters, Replicate(c, d) PROVE DrainOf(c)'
  <2>1. /\ UNCHANGED <<rec, applied, leader, calls, wal>>
        /\ confirmed' = [confirmed EXCEPT ![c][d] = @ + 1]
    BY <1>11 DEF Replicate, recVars, nodeVars
  <2>2. \A x \in Clusters : /\ confirmed[c][x] \in Nat
                            /\ confirmed'[c][x] \in {confirmed[c][x], confirmed[c][x] + 1}
    BY <2>1, CutoverAssumption DEF TypeOK, CutoverAssumption
  <2>3. \A x \in Clusters : Drained(c, x) => Drained(c, x)'
    BY <1>0, <2>1, <2>2 DEF Drained
  <2>4. rec[c].final \in Int
    BY <1>0, CutoverAssumption DEF Records, Lsns, NoLsn, CutoverAssumption
  <2>5. DrainProven(c, rec[c].final) => DrainProven(c, rec[c].final)'
    BY <2>1, <2>2, <2>4 DEF DrainProven
  <2> QED
    BY <2>1, <2>3, <2>5 DEF DrainOf
<1>12. ASSUME NEW i \in Replicas, Failover(c, i) PROVE FALSE
  BY <1>12, CutoverAssumption DEF Failover, TypeOK, CutoverAssumption
<1>13. ASSUME NEW call \in calls[c], ReadSealed(c, call) PROVE DrainOf(c)'
  <2> DEFINE k == [call EXCEPT !.lsn = wal[c]]
  <2>1. /\ call.kind = "seal" /\ UNCHANGED <<recVars, nodeVars, wal, confirmed>>
        /\ calls' = [calls EXCEPT ![c] = (@ \ {call}) \cup {k}]
    BY <1>13 DEF ReadSealed
  <2>2. call \in SealCalls
    BY <2>1 DEF TypeOK, SealCalls, DrainCalls, ReceiveCalls
  <2>3. k.kind = "seal" /\ k.lsn = wal[c]
    BY <2>1, <2>2 DEF SealCalls
  <2> HIDE DEF k
  <2>4. \A x \in calls'[c] : x \in calls[c] \/ x = k
    BY <2>1 DEF TypeOK
  <2> QED
    BY <2>1, <2>3, <2>4, DrainKept DEF recVars, nodeVars
<1>14. ASSUME NEW call \in calls[c], calls' = [calls EXCEPT ![c] = @ \ {call}]
       PROVE  calls'[c] = {} /\ calls'[c] \subseteq calls[c]
  BY <1>14 DEF ServeOf, TypeOK
<1>15. ASSUME NEW call \in calls[c], Seal(c, call) PROVE DrainOf(c)'
  <2> DEFINE r == [rec[c] EXCEPT !.phase = "Sealed", !.final = call.lsn]
  <2>1. /\ call.kind = "seal" /\ call.lsn # NoLsn
        /\ calls'[c] = {} /\ UNCHANGED <<nodeVars, dataVars>>
        /\ \/ UNCHANGED recVars
           \/ rec[c].phase = "Sealing" /\ Commit(c, r)
    BY <1>14, <1>15 DEF Seal, CommitCall
  <2>2. r.phase = "Sealed" /\ r.final = call.lsn
    BY <1>0 DEF Records
  <2> HIDE DEF r
  <2>3. CASE rec[c].phase = "Sealing" /\ Commit(c, r)
    <3>1. call.lsn = wal[c]
      BY <2>1, <2>3 DEF DrainOf
    <3> QED
      BY <2>1, <2>2, <2>3, <3>1, DrainCommit
  <2>4. CASE UNCHANGED recVars
    BY <2>1, <2>4, DrainKept DEF recVars, nodeVars, dataVars
  <2> QED
    BY <2>1, <2>3, <2>4
<1>16. ASSUME NEW call \in calls[c], DrainObserved(c, call) PROVE DrainOf(c)'
  <2> DEFINE r == [rec[c] EXCEPT !.phase = "Draining"]
  <2>1. /\ call.kind = "drain" /\ calls'[c] = {} /\ UNCHANGED <<nodeVars, dataVars>>
        /\ \/ UNCHANGED recVars
           \/ rec[c].phase = "Sealed" /\ Commit(c, r)
    BY <1>14, <1>16 DEF DrainObserved, CommitCall
  <2>2. r.phase = "Draining" /\ r.final = rec[c].final
    BY <1>0 DEF Records
  <2> HIDE DEF r
  <2>3. CASE rec[c].phase = "Sealed" /\ Commit(c, r)
    <3>1. rec[c].final = wal[c] /\ DrainProven(c, rec[c].final)
      BY <2>1, <2>3 DEF DrainOf
    <3>2. \A d \in Clusters \ {c} : Drained(c, d)
      BY <3>1 DEF DrainProven, Drained
    <3> QED
      BY <2>1, <2>2, <2>3, <3>1, <3>2, DrainCommit
  <2>4. CASE UNCHANGED recVars
    BY <2>1, <2>4, DrainKept DEF recVars, nodeVars, dataVars
  <2> QED
    BY <2>1, <2>3, <2>4
<1>17. ASSUME NEW call \in calls[c], AuthorityReceived(c, call) PROVE DrainOf(c)'
  <2> DEFINE r == [epoch |-> call.epoch, authority |-> c, phase |-> "Transferred",
                   final |-> NoLsn, forced |-> FALSE]
  <2>1. /\ calls'[c] = {} /\ UNCHANGED <<nodeVars, dataVars>>
        /\ UNCHANGED recVars \/ Commit(c, r)
    BY <1>14, <1>17 DEF AuthorityReceived, CommitCall
  <2>2. r.phase = "Transferred" /\ r.authority = c
    OBVIOUS
  <2> HIDE DEF r
  <2>3. CASE Commit(c, r)
    BY <2>1, <2>2, <2>3, DrainCommit
  <2>4. CASE UNCHANGED recVars
    BY <2>1, <2>4, DrainKept DEF recVars, nodeVars, dataVars
  <2> QED
    BY <2>1, <2>3, <2>4
<1>18. ASSUME NEW call \in calls[c], CallFails(c, call) PROVE DrainOf(c)'
  BY <1>14, <1>18, DrainKept DEF CallFails, recVars, nodeVars, dataVars
<1>19. ASSUME NEW call \in calls[c], NEW i \in Replicas, HearDonor(c, call, i)
       PROVE  DrainOf(c)'
  <2> DEFINE k == [call EXCEPT !.heard = @ \cup {i}]
  <2>1. call.kind = "receive" /\ call \in ReceiveCalls
    BY <1>19, ReceiveCallType DEF HearDonor
  <2>2. k.kind = "receive"
    BY <2>1 DEF ReceiveCalls
  <2>3. /\ calls' = [calls EXCEPT ![c] = (@ \ {call}) \cup {k}]
        /\ UNCHANGED <<recVars, nodeVars, dataVars>>
    BY <1>19 DEF HearDonor
  <2> HIDE DEF k
  <2>4. \A x \in calls'[c] : x \in calls[c] \/ x = k
    BY <2>3 DEF TypeOK
  <2> QED
    BY <2>2, <2>3, <2>4, DrainKept DEF recVars, nodeVars, dataVars
<1> QED
  BY <1>1, <1>2, <1>3, <1>4, <1>5, <1>6, <1>7, <1>8, <1>9, <1>10, <1>11, <1>12, <1>13,
     <1>15, <1>16, <1>17, <1>18, <1>19 DEF Acts

\* Every step keeps every cluster's drain in order.
LEMMA DrainStep ==
  ASSUME TypeOK, AuthorityInv, ServeInv, DrainInv, SerialOperator, MaxFailovers = 0,
         [Next]_vars
  PROVE  DrainInv'
<1>1. CASE UNCHANGED vars
  <2>1. \A x \in Clusters : Untouched(x)
    BY <1>1 DEF vars, recVars, nodeVars, dataVars, Untouched
  <2> QED
    BY <2>1, DrainElsewhere DEF DrainInv
<1>2. ASSUME NEW c \in Clusters, Acts(c) PROVE DrainInv'
  <2>1. DrainOf(c)'
    BY <1>2, DrainOwn DEF ServeInv, DrainInv
  <2>2. ASSUME NEW x \in Clusters \ {c} PROVE DrainOf(x)'
    BY <1>2, OneClusterActs, DrainElsewhere DEF DrainInv
  <2> QED
    BY <2>1, <2>2 DEF DrainInv
<1> QED
  BY <1>1, <1>2 DEF Next, Acts

(***************************************************************************)
(* Contracts U1 and U2 together: while an operator drives one step of the  *)
(* cutover at a time and no leader changes, two clusters never take client *)
(* writes at once, and a handoff without force leaves no acknowledged      *)
(* write of the donor behind, whatever retries, aborts, failed calls,      *)
(* lagging nodes and epochs come between (the cutover handlers, the fence, *)
(* the gateways and the subscription's slots).                             *)
(***************************************************************************)
THEOREM CutoverIsSafe ==
  ASSUME SerialOperator, MaxFailovers = 0 PROVE Spec => []CutoverSafe
<1> DEFINE Inv == TypeOK /\ AuthorityInv /\ ServeInv /\ DrainInv
<1>1. Init => Inv
  <2>1. Init => DrainInv
    <3> SUFFICES ASSUME Init, NEW c \in Clusters PROVE DrainOf(c)
      BY DEF DrainInv
    <3>1. /\ rec[c] = FirstRecord /\ calls[c] = {} /\ leader[c] \in Replicas
          /\ \A i \in Replicas : applied[c][i] = FirstRecord
      BY DEF Init
    <3>2. FirstRecord.phase = "Idle"
      BY DEF FirstRecord
    <3> QED
      BY <3>1, <3>2 DEF DrainOf
  <2> QED
    BY <2>1, InvInit, ServeInit
<1>2. Inv /\ [Next]_vars => Inv'
  BY TypeStep, InvStep, ServeStep, DrainStep
<1>3. ServeInv /\ DrainInv => DrainComplete
  <2> SUFFICES ASSUME ServeInv, DrainInv, NEW c \in Clusters, NEW d \in Clusters, d # c,
                      rec[c].phase = "Transferred", rec[c].authority = d, ~rec[c].forced
               PROVE  confirmed[c][d] >= wal[c] /\ client[c] # "tx"
    BY DEF DrainComplete
  <2>1. ~Open(c)
    BY CutoverAssumption DEF Open, Holds, HoldsClientWriteAuthority, CutoverAssumption
  <2> QED
    BY <2>1 DEF ServeInv, ServeOf, Quiet, DrainInv, DrainOf, Drained
<1>4. Spec => []DrainComplete
  BY <1>1, <1>2, <1>3, PTL DEF Spec
<1>5. Spec => []OneClusterServes
  BY ClientsOfOneCluster
<1> QED
  BY <1>4, <1>5, PTL DEF CutoverSafe

-----------------------------------------------------------------------------
(***************************************************************************)
(* The records of all clusters implement one token of authority, for every *)
(* set of clusters, nodes and epochs.  The keeper of the token is unique   *)
(* by AuthorityInv; here it is shown that there always is one, and that    *)
(* every step moves holder and era as WriteAuthority allows.               *)
(***************************************************************************)

SomeKeeper == \E c \in Clusters : Keeps(c)

RefInv == TypeOK /\ AuthorityInv /\ SomeKeeper

\* Holder and Era, seen from the cluster that keeps the token.
HolderAt(c) == IF Holds(c, rec[c]) THEN c ELSE NoCluster
EraAt(c) == IF HasToken(c) THEN rec[c].epoch ELSE rec[c].epoch - 1

(***************************************************************************)
(* The one cluster that keeps the token is the one the mapping chooses.    *)
(***************************************************************************)
LEMMA KeeperIs ==
  ASSUME OneKeeper, NEW c \in Clusters, Keeps(c)
  PROVE  Holder = HolderAt(c) /\ Era = EraAt(c)
<1>1. Keeper = c
  BY DEF Keeper, OneKeeper
<1> QED BY <1>1 DEF Holder, Era, HolderAt, EraAt

(***************************************************************************)
(* The same of the state after a step.                                     *)
(***************************************************************************)
LEMMA KeeperIsNext ==
  ASSUME OneKeeper', NEW c \in Clusters, Keeps(c)'
  PROVE  Holder' = HolderAt(c)' /\ Era' = EraAt(c)'
<1>1. Keeper' = c
  BY DEF Keeper, OneKeeper
<1> QED BY <1>1 DEF Holder, Era, HolderAt, EraAt

(***************************************************************************)
(* A step after which the same cluster keeps the token moves it as that    *)
(* cluster's record does.                                                  *)
(***************************************************************************)
LEMMA SameKeeper ==
  ASSUME RefInv, AuthorityInv', NEW c \in Clusters, Keeps(c), Keeps(c)',
         \/ HolderAt(c)' = HolderAt(c) /\ EraAt(c)' = EraAt(c)
         \/ HolderAt(c) = c /\ HolderAt(c)' = NoCluster /\ EraAt(c)' = EraAt(c)
         \/ /\ HolderAt(c)' = c
            /\ EraAt(c)' \in Nat /\ EraAt(c)' > EraAt(c)
  PROVE  SomeKeeper' /\ [Authority!Next]_<<Holder, Era>>
<1>1. Holder = HolderAt(c) /\ Era = EraAt(c)
  BY KeeperIs DEF RefInv, AuthorityInv
<1>2. Holder' = HolderAt(c)' /\ Era' = EraAt(c)'
  BY KeeperIsNext DEF AuthorityInv
<1>3. c # NoCluster /\ HolderAt(c) \in {c, NoCluster}
  BY CutoverAssumption DEF HolderAt
<1>4. SomeKeeper'
  BY DEF SomeKeeper
<1>5. CASE HolderAt(c)' = HolderAt(c) /\ EraAt(c)' = EraAt(c)
  BY <1>1, <1>2, <1>4, <1>5
<1>6. CASE HolderAt(c) = c /\ HolderAt(c)' = NoCluster /\ EraAt(c)' = EraAt(c)
  BY <1>1, <1>2, <1>3, <1>4, <1>6 DEF Authority!Next, Authority!Withdraw
<1>7. CASE HolderAt(c)' = c /\ EraAt(c)' \in Nat /\ EraAt(c)' > EraAt(c)
  BY <1>1, <1>2, <1>3, <1>4, <1>7
     DEF Authority!Next, Authority!Renew, Authority!Grant, Authority!LaterEra
<1> QED BY <1>5, <1>6, <1>7

(***************************************************************************)
(* A step that changes no record changes neither holder nor era.           *)
(***************************************************************************)
LEMMA SameRecords ==
  ASSUME RefInv, rec' = rec
  PROVE  SomeKeeper' /\ [Authority!Next]_<<Holder, Era>>
<1>1. \A c \in Clusters : Keeps(c)' <=> Keeps(c)
  BY DEF Keeps, HasToken, Flying, Holds, HoldsClientWriteAuthority, InTransit
<1>2. SomeKeeper'
  BY <1>1 DEF RefInv, SomeKeeper
<1>3. Holder' = Holder /\ Era' = Era
  BY DEF Holder, Era, Keeper, Keeps, HasToken, Flying, Holds, HoldsClientWriteAuthority,
         InTransit
<1> QED BY <1>2, <1>3

(***************************************************************************)
(* A commit by the cluster that has the token and keeps having it: arming, *)
(* sealing, the drain, the abort.                                          *)
(***************************************************************************)
LEMMA CommitByHolder ==
  ASSUME RefInv, AuthorityInv', NEW c \in Clusters, NEW r \in Records, Commit(c, r),
         HasToken(c), Holds(c, r) \/ InTransit(r),
         \/ r.epoch = rec[c].epoch /\ (Holds(c, r) => Holds(c, rec[c]))
         \/ r.epoch > rec[c].epoch /\ Holds(c, r)
  PROVE  SomeKeeper' /\ [Authority!Next]_<<Holder, Era>>
<1> USE CutoverAssumption
<1>1. rec'[c] = r
  BY DEF Commit, RefInv, TypeOK
<1>2. rec[c] \in Records /\ r.epoch \in Nat /\ rec[c].epoch \in Nat
  BY DEF RefInv, TypeOK, Records
<1>3. HasToken(c)' /\ (HolderAt(c)' = IF Holds(c, r) THEN c ELSE NoCluster)
      /\ EraAt(c)' = r.epoch
  BY <1>1 DEF HasToken, HolderAt, EraAt, Holds, HoldsClientWriteAuthority, InTransit
<1>4. EraAt(c) = rec[c].epoch /\ HolderAt(c) = IF Holds(c, rec[c]) THEN c ELSE NoCluster
  BY DEF EraAt, HolderAt
<1>5. Keeps(c) /\ Keeps(c)'
  BY <1>3 DEF Keeps
<1> QED BY <1>2, <1>3, <1>4, <1>5, SameKeeper

(***************************************************************************)
(* A commit that gives the token away leaves it with nobody, in its era.   *)
(***************************************************************************)
LEMMA CommitAway ==
  ASSUME RefInv, AuthorityInv', NEW c \in Clusters, NEW r \in Records, Commit(c, r),
         InTransit(rec[c]), r.phase = "Transferred", r.authority \in Clusters \ {c},
         r.epoch = rec[c].epoch + 1
  PROVE  SomeKeeper' /\ [Authority!Next]_<<Holder, Era>>
<1> USE CutoverAssumption
<1>1. \A x \in Clusters : rec'[x] = IF x = c THEN r ELSE rec[x]
  BY CommitEffect DEF RefInv
<1>2. /\ \A x \in Clusters : rec[x].epoch \in Nat
      /\ r.epoch \in Nat
  BY DEF RefInv, TypeOK, Records
<1>3. HasToken(c) /\ ~Holds(c, rec[c])
  BY DEF HasToken, Holds, HoldsClientWriteAuthority
<1>4. ~HasToken(c)' /\ ~Holds(c, r)
  BY <1>1 DEF HasToken, Holds, HoldsClientWriteAuthority, InTransit
<1>5. rec[r.authority].epoch <= rec[c].epoch
  BY <1>3 DEF RefInv, AuthorityInv, KeeperIsLatest
<1>6. Flying(c)'
  BY <1>1, <1>2, <1>5 DEF Flying
<1>7. HolderAt(c) = NoCluster /\ EraAt(c) = rec[c].epoch
  BY <1>3 DEF HolderAt, EraAt
<1>8. HolderAt(c)' = NoCluster /\ EraAt(c)' = r.epoch - 1
  BY <1>1, <1>4 DEF HolderAt, EraAt, Holds, HoldsClientWriteAuthority, InTransit
<1>9. Keeps(c) /\ Keeps(c)'
  BY <1>3, <1>6 DEF Keeps
<1>10. EraAt(c)' = EraAt(c)
  BY <1>2, <1>7, <1>8
<1> QED BY <1>7, <1>8, <1>9, <1>10, SameKeeper

(***************************************************************************)
(* A commit by which a recipient takes the token grants it in a new era.   *)
(***************************************************************************)
LEMMA CommitArrived ==
  ASSUME RefInv, AuthorityInv', NEW c \in Clusters, NEW r \in Records, Commit(c, r),
         NEW donor \in Clusters \ {c}, Settled(donor, c, r.epoch),
         r.phase = "Transferred", r.authority = c, r.epoch > rec[c].epoch
  PROVE  SomeKeeper' /\ [Authority!Next]_<<Holder, Era>>
<1> USE CutoverAssumption
<1>1. rec'[c] = r
  BY DEF Commit, RefInv, TypeOK
<1>2. /\ \A x \in Clusters : rec[x].epoch \in Nat
      /\ r.epoch \in Nat
  BY DEF RefInv, TypeOK, Records
<1>3. /\ rec[donor].phase = "Transferred" /\ rec[donor].authority = c
      /\ rec[donor].epoch = r.epoch
  BY <1>2 DEF Settled
<1>4. Flying(donor) /\ ~HasToken(donor) /\ ~Holds(donor, rec[donor])
  BY <1>2, <1>3 DEF Flying, HasToken, Holds, HoldsClientWriteAuthority, InTransit
<1>5. Holder = NoCluster /\ Era = r.epoch - 1
  <2>1. Holder = HolderAt(donor) /\ Era = EraAt(donor)
    BY <1>4, KeeperIs DEF RefInv, AuthorityInv, Keeps
  <2> QED BY <1>3, <1>4, <2>1 DEF HolderAt, EraAt
<1>6. HasToken(c)' /\ HolderAt(c)' = c /\ EraAt(c)' = r.epoch
  BY <1>1 DEF HasToken, HolderAt, EraAt, Holds, HoldsClientWriteAuthority, InTransit
<1>7. Keeps(c)'
  BY <1>6 DEF Keeps
<1>8. Holder' = c /\ Era' = r.epoch
  BY <1>6, <1>7, KeeperIsNext DEF AuthorityInv
<1>9. SomeKeeper'
  BY <1>7 DEF SomeKeeper
<1> QED BY <1>2, <1>5, <1>8, <1>9 DEF Authority!Next, Authority!Grant, Authority!LaterEra

(***************************************************************************)
(* A recipient that names its donor is not the keeper, before or after.    *)
(***************************************************************************)
LEMMA CommitName ==
  ASSUME RefInv, AuthorityInv', NEW c \in Clusters, NameCluster(c)
  PROVE  SomeKeeper' /\ [Authority!Next]_<<Holder, Era>>
<1> USE CutoverAssumption
<1>0. PICK k \in Clusters : Keeps(k)
  BY DEF RefInv, SomeKeeper
<1>1. \A x \in Clusters : /\ rec'[x].epoch = rec[x].epoch /\ rec'[x].phase = rec[x].phase
                          /\ x # c => rec'[x] = rec[x]
  <2>1. rec[c] \in Records
    BY DEF RefInv, TypeOK
  <2>2. rec' = [rec EXCEPT ![c] = [rec[c] EXCEPT !.authority = Origin]]
    BY DEF NameCluster, Commit
  <2> QED BY <2>1, <2>2 DEF Records, RefInv, TypeOK
<1>2. k # c
  BY <1>0 DEF NameCluster, Keeps, HasToken, Flying, Holds, InTransit
<1>3. /\ Keeps(k)' /\ HolderAt(k)' = HolderAt(k) /\ EraAt(k)' = EraAt(k)
  <2>1. rec'[k] = rec[k]
    BY <1>1, <1>2
  <2>2. HasToken(k)' <=> HasToken(k)
    BY <2>1 DEF HasToken, Holds, HoldsClientWriteAuthority, InTransit
  <2>3. Flying(k) => Flying(k)'
    BY <1>1, <2>1 DEF Flying
  <2>4. HolderAt(k)' = HolderAt(k)
    BY <2>1 DEF HolderAt, Holds, HoldsClientWriteAuthority, InTransit
  <2>5. EraAt(k)' = EraAt(k)
    BY <2>1, <2>2 DEF EraAt
  <2> QED BY <1>0, <2>2, <2>3, <2>4, <2>5 DEF Keeps
<1> QED BY <1>0, <1>3, SameKeeper

(***************************************************************************)
(* Every step keeps a keeper and is a step of the token or a stutter.      *)
(***************************************************************************)
LEMMA RefStep ==
  RefInv /\ AuthorityInv' /\ [Next]_vars => SomeKeeper' /\ [Authority!Next]_<<Holder, Era>>
<1> DEFINE Moves == SomeKeeper' /\ [Authority!Next]_<<Holder, Era>>
<1> SUFFICES ASSUME RefInv, AuthorityInv', [Next]_vars PROVE Moves
  OBVIOUS
<1> USE CutoverAssumption
<1>t. TypeOK /\ AuthorityInv /\ \A c \in Clusters : rec[c] \in Records
  BY DEF RefInv, TypeOK
<1>s. CASE rec' = rec
  BY <1>s, SameRecords
<1> HIDE DEF Moves
<1>1. ASSUME NEW c \in Clusters, NameCluster(c) PROVE Moves
  BY <1>1, CommitName DEF Moves
<1>2. ASSUME NEW c \in Clusters, Arm(c) PROVE Moves
  <2> DEFINE r == [rec[c] EXCEPT !.phase = "Armed", !.authority = c, !.forced = FALSE]
  <2>1. /\ r \in Records /\ r.phase = "Armed" /\ r.authority = c /\ r.epoch = rec[c].epoch
    <3>1. rec[c] \in Records
      BY <1>t
    <3>2. r \in Records
      BY <3>1 DEF Records, Phases
    <3> QED BY <3>1, <3>2 DEF Records
  <2>2. Holds(c, rec[c])
    <3>1. CASE rec[c].authority = NoCluster
      <4>1. leader[c] \in Replicas
        BY <1>t DEF TypeOK
      <4>2. applied[c][leader[c]].authority = NoCluster
        BY <1>t, <3>1, <4>1 DEF AuthorityInv, UnnamedIsFirst
      <4> QED BY <1>2, <3>1, <4>2 DEF Arm, Holds
    <3>2. CASE rec[c].authority # NoCluster
      BY <1>2, <3>2 DEF Arm, Holds
    <3> QED BY <3>1, <3>2
  <2>3. Commit(c, r)
    BY <1>2 DEF Arm
  <2> HIDE DEF r
  <2>4. Holds(c, r) /\ HasToken(c)
    BY <2>1, <2>2 DEF Holds, HoldsClientWriteAuthority, InTransit, HasToken
  <2> QED BY <2>1, <2>2, <2>3, <2>4, CommitByHolder DEF Moves
<1>3. ASSUME NEW c \in Clusters, StartSeal(c) PROVE Moves
  <2>1. CASE rec[c].phase = "Armed" /\ Commit(c, [rec[c] EXCEPT !.phase = "Sealing"])
    <3> DEFINE r == [rec[c] EXCEPT !.phase = "Sealing"]
    <3>1. r \in Records /\ r.phase = "Sealing" /\ r.epoch = rec[c].epoch
      <4>1. rec[c] \in Records
        BY <1>t
      <4> QED BY <4>1 DEF Records, Phases
    <3>2. HasToken(c)
      BY <1>t, <2>1 DEF AuthorityInv, ArmedIsLocal, HasToken, Holds,
                        HoldsClientWriteAuthority, InTransit
    <3>3. Commit(c, r)
      BY <2>1
    <3> HIDE DEF r
    <3>4. InTransit(r) /\ ~Holds(c, r)
      BY <3>1 DEF InTransit, Holds, HoldsClientWriteAuthority
    <3> QED BY <3>1, <3>2, <3>3, <3>4, CommitByHolder DEF Moves
  <2> QED BY <1>3, <1>s, <2>1 DEF StartSeal, recVars
<1>4. ASSUME NEW c \in Clusters, NEW call \in calls[c], Seal(c, call) PROVE Moves
  <2>1. CASE /\ rec[c].phase = "Sealing"
             /\ Commit(c, [rec[c] EXCEPT !.phase = "Sealed", !.final = call.lsn])
    <3> DEFINE r == [rec[c] EXCEPT !.phase = "Sealed", !.final = call.lsn]
    <3>0. call.lsn \in Lsns
      <4>1. call \in SealCalls \cup DrainCalls \cup ReceiveCalls
        BY <1>t DEF TypeOK
      <4>2. call \notin DrainCalls /\ call \notin ReceiveCalls
        BY <1>4 DEF Seal, DrainCalls, ReceiveCalls
      <4> QED BY <4>1, <4>2 DEF SealCalls
    <3>1. r \in Records /\ r.phase = "Sealed" /\ r.epoch = rec[c].epoch
      <4>1. rec[c] \in Records
        BY <1>t
      <4>2. r \in Records
        BY <3>0, <4>1 DEF Records, Phases
      <4> QED BY <4>1, <4>2 DEF Records
    <3>2. HasToken(c)
      BY <2>1 DEF HasToken, InTransit
    <3>3. Commit(c, r)
      BY <2>1
    <3> HIDE DEF r
    <3>4. InTransit(r) /\ ~Holds(c, r)
      BY <3>1 DEF InTransit, Holds, HoldsClientWriteAuthority
    <3> QED BY <3>1, <3>2, <3>3, <3>4, CommitByHolder DEF Moves
  <2> QED BY <1>4, <1>s, <2>1 DEF Seal, CommitCall, recVars
<1>5. ASSUME NEW c \in Clusters, NEW call \in calls[c], DrainObserved(c, call) PROVE Moves
  <2>1. CASE rec[c].phase = "Sealed" /\ Commit(c, [rec[c] EXCEPT !.phase = "Draining"])
    <3> DEFINE r == [rec[c] EXCEPT !.phase = "Draining"]
    <3>1. r \in Records /\ r.phase = "Draining" /\ r.epoch = rec[c].epoch
      <4>1. rec[c] \in Records
        BY <1>t
      <4> QED BY <4>1 DEF Records, Phases
    <3>2. HasToken(c)
      BY <2>1 DEF HasToken, InTransit
    <3>3. Commit(c, r)
      BY <2>1
    <3> HIDE DEF r
    <3>4. InTransit(r) /\ ~Holds(c, r)
      BY <3>1 DEF InTransit, Holds, HoldsClientWriteAuthority
    <3> QED BY <3>1, <3>2, <3>3, <3>4, CommitByHolder DEF Moves
  <2> QED BY <1>5, <1>s, <2>1 DEF DrainObserved, CommitCall, recVars
<1>6. ASSUME NEW c \in Clusters, NEW d \in Clusters, NEW f \in BOOLEAN, Transfer(c, d, f)
      PROVE  Moves
  <2> DEFINE r == [rec[c] EXCEPT !.epoch = @ + 1, !.phase = "Transferred",
                                 !.authority = d, !.forced = f]
  <2>1. rec[c] \in Records /\ rec[c].epoch + 1 \in 0..MaxEpoch /\ d # c
    BY <1>6, <1>t DEF Transfer, Records
  <2>2. /\ r \in Records /\ r.phase = "Transferred" /\ r.authority = d
        /\ r.epoch = rec[c].epoch + 1
    BY <2>1 DEF Records, Phases
  <2>3. Commit(c, r) /\ InTransit(rec[c])
    BY <1>6 DEF Transfer, InTransit
  <2> HIDE DEF r
  <2> QED BY <2>1, <2>2, <2>3, CommitAway DEF Moves
<1>7. ASSUME NEW c \in Clusters, AbortUnseal(c) PROVE Moves
  <2> DEFINE r == [epoch |-> rec[c].epoch + 1, authority |-> c, phase |-> "Aborted",
                   final |-> NoLsn, forced |-> FALSE]
  <2>1. rec[c].epoch \in Nat /\ rec[c].epoch + 1 \in 0..MaxEpoch
    BY <1>7, <1>t DEF AbortUnseal, Records
  <2>2. /\ r \in Records /\ r.phase = "Aborted" /\ r.authority = c
        /\ r.epoch = rec[c].epoch + 1
    BY <2>1 DEF Records, Phases, Lsns
  <2>3. Commit(c, r)
    BY <1>7 DEF AbortUnseal
  <2>4. HasToken(c)
    BY <1>7, <1>t DEF AbortUnseal, AuthorityInv, ArmedIsLocal, HasToken, Holds,
                      HoldsClientWriteAuthority, InTransit
  <2> HIDE DEF r
  <2>5. Holds(c, r)
    BY <2>2 DEF Holds, HoldsClientWriteAuthority, InTransit
  <2>6. r.epoch > rec[c].epoch
    BY <2>1, <2>2
  <2> QED BY <2>2, <2>3, <2>4, <2>5, <2>6, CommitByHolder DEF Moves
<1>8. ASSUME NEW c \in Clusters, NEW call \in calls[c], AuthorityReceived(c, call) PROVE Moves
  <2> DEFINE r == [epoch |-> call.epoch, authority |-> c, phase |-> "Transferred",
                   final |-> NoLsn, forced |-> FALSE]
  <2>1. call.kind = "receive" /\ call \in ReceiveCalls /\ call.from \in Clusters
    BY <1>8, <1>t, ReceiveCallType DEF AuthorityReceived
  <2>2. call.from # c /\ Settled(call.from, c, call.epoch)
    BY <1>t, <2>1 DEF AuthorityInv, CallsSettled
  <2>3. /\ r \in Records /\ r.phase = "Transferred" /\ r.authority = c
        /\ r.epoch = call.epoch
    BY <2>1 DEF Records, Phases, Lsns, ReceiveCalls
  <2>4. \/ rec' = rec
        \/ call.epoch > rec[c].epoch /\ Commit(c, r)
    BY <1>8 DEF AuthorityReceived, CommitCall, recVars
  <2> HIDE DEF r
  <2>5. CASE call.epoch > rec[c].epoch /\ Commit(c, r)
    BY <2>1, <2>2, <2>3, <2>5, CommitArrived DEF Moves
  <2> QED BY <1>s, <2>4, <2>5
<1>9. CASE \E c \in Clusters :
             \/ ReadDrain(c) \/ PrimaryOpened(c) \/ BeginPass(c) \/ LevelClientFence(c)
             \/ BeginTx(c) \/ CommitTx(c)
             \/ \E d \in Clusters : Replicate(c, d)
             \/ \E d \in Clusters, e \in 1..MaxEpoch, i \in Replicas : ReceiveCall(c, d, e, i)
             \/ \E i \in Replicas : Apply(c, i) \/ Failover(c, i) \/ Connect(c, i)
             \/ \E call \in calls[c] : \/ ReadSealed(c, call) \/ CallFails(c, call)
                                       \/ \E i \in Replicas : HearDonor(c, call, i)
  BY <1>9, <1>s DEF ReadDrain, PrimaryOpened, BeginPass, LevelClientFence, BeginTx, CommitTx,
     Replicate, ReceiveCall, Apply, Failover, Connect, ReadSealed, CallFails, HearDonor, recVars
<1>10. CASE UNCHANGED vars
  BY <1>10, <1>s DEF vars, recVars
<1> QED
  BY <1>1, <1>2, <1>3, <1>4, <1>5, <1>6, <1>7, <1>8, <1>9, <1>10 DEF Next, Moves

(***************************************************************************)
(* The first records: the origin holds authority, in era 0.                *)
(***************************************************************************)
LEMMA RefInit == Init => RefInv /\ Authority!Init
<1> SUFFICES ASSUME Init PROVE RefInv /\ Authority!Init
  OBVIOUS
<1> USE CutoverAssumption
<1>1. TypeOK /\ AuthorityInv
  BY InvInit
<1>2. rec[Origin] = FirstRecord
  BY DEF Init
<1>3. Holds(Origin, rec[Origin])
  BY <1>2 DEF Holds, HoldsClientWriteAuthority, InTransit, Awaits, FirstRecord
<1>4. Keeps(Origin) /\ HolderAt(Origin) = Origin /\ EraAt(Origin) = 0
  BY <1>2, <1>3 DEF Keeps, HasToken, HolderAt, EraAt, FirstRecord
<1>5. Holder = Origin /\ Era = 0
  BY <1>1, <1>4, KeeperIs DEF AuthorityInv
<1>6. SomeKeeper
  BY <1>4 DEF SomeKeeper
<1> QED BY <1>1, <1>5, <1>6 DEF RefInv, Authority!Init

(***************************************************************************)
(* The cutover implements the token: however many clusters, nodes and      *)
(* epochs, and however calls overlap or are delayed, authority is          *)
(* withdrawn before it is granted elsewhere, and each grant is of a later  *)
(* epoch than all before (apply_cutover and the handlers that feed it).    *)
(***************************************************************************)
THEOREM CutoverImplementsToken == Spec => AuthorityMovesAsToken
<1>1. Init => RefInv /\ Authority!Init
  BY RefInit
<1>2. RefInv /\ [Next]_vars => RefInv'
  BY TypeStep, InvStep, RefStep DEF RefInv
<1>3. RefInv /\ [Next]_vars => [Authority!Next]_<<Holder, Era>>
  BY InvStep, RefStep DEF RefInv
<1> QED BY <1>1, <1>2, <1>3, PTL DEF Spec, AuthorityMovesAsToken, Authority!Spec

=============================================================================
