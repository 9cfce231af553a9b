---------------------------- MODULE MCStateStore ----------------------------
(***************************************************************************)
(* StateStore for TLC: the entries a cluster may commit.                   *)
(***************************************************************************)
EXTENDS StateStore

Entry(type, nodes) == [type |-> type, nodes |-> nodes]

\* One of each kind of entry the apply path tells apart.
MCKinds ==
  {Entry("Membership", Nodes), Entry("Command", {}), Entry("Blank", {})}

=============================================================================
