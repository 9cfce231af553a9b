--------------------------- MODULE WriteAuthority ---------------------------
(***************************************************************************)
(* What a cutover promises (contract U1): client write authority is one    *)
(* token.  It is held by one cluster or by nobody, it never moves from one *)
(* cluster to another directly, and every grant is of a later era than the *)
(* one before it, so an old handoff can never be replayed into authority.  *)
(***************************************************************************)
EXTENDS Naturals

CONSTANTS
  Clusters,   \* the clusters, by cluster_id
  Origin,     \* the cluster that serves before any cutover
  Nobody      \* stands for authority in transit

VARIABLES
  holder,     \* the cluster that holds authority, or Nobody
  era         \* the epoch of the latest grant

Init == holder = Origin /\ era = 0

LaterEra == era' \in Nat /\ era' > era

\* The holder's own abort of an armed cutover starts a new era in place.
Renew == holder # Nobody /\ LaterEra /\ UNCHANGED holder

Withdraw == holder # Nobody /\ holder' = Nobody /\ UNCHANGED era

Grant(c) == holder = Nobody /\ holder' = c /\ LaterEra

Next == Renew \/ Withdraw \/ \E c \in Clusters : Grant(c)

Spec == Init /\ [][Next]_<<holder, era>>

=============================================================================
