----------------------------- MODULE BlueGreen -----------------------------
(***************************************************************************)
(* Two clusters joined by logical replication and the driver that moves    *)
(* clients from blue to green: seeding green from blue's schema, the       *)
(* subscription that copies and then streams, the driver's steps in their  *)
(* order, and the gates of each step.  The authority record itself is      *)
(* module Cutover, the seal is module ClientFence: here a seal is one      *)
(* step that stops blue's clients and reads the end of blue's log.         *)
(***************************************************************************)
EXTENDS Integers, Sequences, FiniteSetsExt

CONSTANTS
  Margin,     \* SEQUENCE_ADVANCE_MARGIN
  CutoverLapses,     \* what the gates do not notice and an operator may do
  MaxRows,    \* bound: rows clients write, on each cluster
  MaxDrives   \* bound: runs of the driver

LapseKinds == {"ddl on both", "new schema", "other slot", "unchecked", "drain by hand", "stale list"}

ASSUME BlueGreenAssumption ==
  /\ Margin \in Nat \ {0} /\ CutoverLapses \subseteq LapseKinds /\ {MaxRows, MaxDrives} \subseteq Nat

VARIABLES
  log,       \* blue's log: the table of each row, committed in this order
  blue,      \* [schema, stray, phase, sealed, issued: last sequence value]; stray:
             \* where it has rows that logical replication does not carry
  green,     \* [schema, rows: positions of log, issued, holds, first: first value of its own]
  sub,       \* green's subscription: [on, rel: table |-> state, applied]
  slot,      \* confirmed_flush_lsn of its slot on blue
  reverse,   \* green has its reverse slot
  seeding,   \* the step of seed_from_donor
  driver,    \* the step the driver makes next
  checked,   \* a preflight of blue passed
  noted,     \* the donor's sequence values as the driver read them
  drives

blueGreenVars == <<log, blue, green, sub, slot, reverse, seeding, driver, checked, noted,
                  drives>>

UserTables == {"t", "u"}
Strays == {"unlogged", "large objects", "other database"}
None == -1                 \* no slot, no value
NoRel == [x \in {} |-> ""]

-----------------------------------------------------------------------------
(* Seeding: the recipient's primary restores the donor's schema, then      *)
(* subscribes with a copy.                                                 *)

\* An empty digest is an empty schema; anything else is not seeded over.
RecipientIsSeedable == green.schema = {}

SeedDump ==
  /\ seeding = [step |-> "none"] /\ RecipientIsSeedable /\ blue.schema # {}
  /\ seeding' = [step |-> "dumped", schema |-> blue.schema]
  /\ UNCHANGED <<log, blue, green, sub, slot, reverse, driver, checked, noted, drives>>

\* One transaction; sequences arrive at their start, for the dump has no data.
SeedRestore ==
  /\ seeding.step = "dumped"
  /\ green' = [green EXCEPT !.schema = seeding.schema, !.issued = 0]
  /\ seeding' = [step |-> "restored"]
  /\ UNCHANGED <<log, blue, sub, slot, reverse, driver, checked, noted, drives>>

\* PostgreSQL refuses a subscription to a published table it does not have.
SeedSubscribe ==
  /\ seeding.step = "restored" /\ blue.schema \subseteq green.schema
  /\ sub' = [on |-> TRUE, rel |-> [t \in blue.schema |-> "init"], applied |-> Len(log)]
  /\ slot' = Len(log)
  /\ seeding' = [step |-> "none"]
  /\ UNCHANGED <<log, blue, green, reverse, driver, checked, noted, drives>>

SeedFails ==
  /\ seeding.step # "none"
  /\ seeding' = [step |-> "none"]
  /\ UNCHANGED <<log, blue, green, sub, slot, reverse, driver, checked, noted, drives>>

\* An operator empties a recipient that cannot be seeded over, before a seal.
WipeRecipient ==
  /\ driver = "none" /\ seeding.step = "none" /\ green.schema # {} /\ ~green.holds
  /\ blue.phase \in {"Idle", "Armed", "Aborted"}
  /\ green' = [green EXCEPT !.schema = {}, !.rows = {}, !.issued = 0]
  /\ sub' = [on |-> FALSE, rel |-> NoRel, applied |-> 0] /\ slot' = None
  /\ UNCHANGED <<log, blue, reverse, seeding, driver, checked, noted, drives>>

-----------------------------------------------------------------------------
(* Logical replication. *)

Listed(t) == t \in DOMAIN sub.rel
SyncComplete(t) == Listed(t) /\ sub.rel[t] = "ready"

CopyTable(t) ==
  /\ sub.on /\ slot # None /\ Listed(t) /\ ~SyncComplete(t)
  /\ green' = [green EXCEPT !.rows = @ \cup {i \in DOMAIN log : log[i] = t}]
  /\ sub' = [sub EXCEPT !.rel[t] = "ready"]
  /\ UNCHANGED <<log, blue, slot, reverse, seeding, driver, checked, noted, drives>>

\* The publication names schemas: a table of a new one is not in it.
Unpublished == IF "new schema" \in CutoverLapses THEN {"u"} \ DOMAIN sub.rel ELSE {}

\* The apply worker stops at a published table green does not have, passes
\* over one that is still copying or that the subscription does not list, and
\* confirms what it is done with.
ApplyRow ==
  LET i == sub.applied + 1 IN
  /\ sub.on /\ slot # None /\ i \in DOMAIN log /\ log[i] \in green.schema \cup Strays \cup Unpublished
  /\ green' = IF SyncComplete(log[i]) THEN [green EXCEPT !.rows = @ \cup {i}] ELSE green
  /\ sub' = [sub EXCEPT !.applied = i] /\ slot' = i
  /\ UNCHANGED <<log, blue, reverse, seeding, driver, checked, noted, drives>>

ToggleSubscription ==
  /\ sub.rel # NoRel
  /\ sub' = [sub EXCEPT !.on = ~@]
  /\ UNCHANGED <<log, blue, green, slot, reverse, seeding, driver, checked, noted, drives>>

\* A logical slot does not survive the failover of the cluster that has it.
BlueFailsOver ==
  /\ slot # None
  /\ slot' = None
  /\ UNCHANGED <<log, blue, green, sub, reverse, seeding, driver, checked, noted, drives>>

-----------------------------------------------------------------------------
(* Clients and administrators. *)

BlueServes == blue.phase \in {"Idle", "Armed", "Aborted"}

BlueWrites(t) ==
  /\ BlueServes /\ t \in blue.schema \cup blue.stray /\ Len(log) < MaxRows
  /\ log' = Append(log, t)
  /\ blue' = [blue EXCEPT !.issued = @ + 1]
  /\ UNCHANGED <<green, sub, slot, reverse, seeding, driver, checked, noted, drives>>

GreenWrites ==
  /\ green.holds /\ green.first = None
  /\ green' = [green EXCEPT !.issued = @ + 1, !.first = green.issued + 1]
  /\ UNCHANGED <<log, blue, sub, slot, reverse, seeding, driver, checked, noted, drives>>

\* The freeze comes with the seal.  What an operator then repeats on green
\* makes the schemas agree again, not the subscription.
DbaAddsTable ==
  /\ BlueServes /\ "u" \notin blue.schema
  /\ blue' = [blue EXCEPT !.schema = @ \cup {"u"}]
  /\ green' = IF "ddl on both" \in CutoverLapses /\ green.schema # {}
              THEN [green EXCEPT !.schema = @ \cup {"u"}] ELSE green
  /\ UNCHANGED <<log, sub, slot, reverse, seeding, driver, checked, noted, drives>>

-----------------------------------------------------------------------------
(* The driver. *)

bystanders == <<log, sub, slot, seeding>>

\* The operator's check of what replication would leave behind.
Preflight ==
  /\ driver = "none" /\ ~checked /\ blue.stray = {}
  /\ checked' = TRUE
  /\ UNCHANGED <<bystanders, blue, green, reverse, driver, noted, drives>>

\* It starts against a recipient that does not hold authority, with equal
\* digests.
ResolvePlan ==
  /\ driver = "none" /\ drives < MaxDrives /\ (checked \/ "unchecked" \in CutoverLapses)
  /\ ~green.holds /\ green.schema = blue.schema /\ blue.schema # {}
  /\ driver' = "arm" /\ drives' = drives + 1 /\ noted' = None
  /\ UNCHANGED <<bystanders, blue, green, reverse, checked>>

DriverArms ==
  /\ driver = "arm" /\ blue.phase \in {"Idle", "Aborted"}
  /\ blue' = [blue EXCEPT !.phase = "Armed"]
  /\ driver' = "seal"
  /\ UNCHANGED <<bystanders, green, reverse, checked, noted, drives>>

DriverSeals ==
  /\ driver = "seal" /\ blue.phase = "Armed"
  /\ blue' = [blue EXCEPT !.phase = "Sealed", !.sealed = Len(log)]
  /\ driver' = "drain"
  /\ UNCHANGED <<bystanders, green, reverse, checked, noted, drives>>

\* An unrelated logical slot whose consumer keeps up.
OtherSlots == IF "other slot" \in CutoverLapses THEN {Len(log)} ELSE {}

\* Over every logical slot of blue's; no slot confirms nothing.
MinConfirmed ==
  LET confirmed == ({slot} \ {None}) \cup OtherSlots
  IN  IF confirmed = {} THEN None ELSE Min(confirmed)

\* Faulty variant: a table that is still copying does not hold the gate.
DrainGateUncopied == sub.on /\ sub.rel # NoRel /\ MinConfirmed >= blue.sealed

DrainGate ==
  /\ sub.on /\ sub.rel # NoRel
  /\ \A t \in DOMAIN sub.rel : SyncComplete(t)
  /\ MinConfirmed >= blue.sealed

\* The wait gives up on its budget, on retention, on three unreadable
\* answers: DriverStops.
AwaitRecipientDrain ==
  /\ driver = "drain" /\ blue.phase = "Sealed" /\ DrainGate
  /\ driver' = "observe"
  /\ UNCHANGED <<bystanders, blue, green, reverse, checked, noted, drives>>

\* The handler proves the drain from its own slots again.
DrainObserved ==
  /\ driver = "observe" /\ blue.phase = "Sealed" /\ MinConfirmed >= blue.sealed
  /\ blue' = [blue EXCEPT !.phase = "Draining"]
  /\ driver' = "sequences"
  /\ UNCHANGED <<bystanders, green, reverse, checked, noted, drives>>

SequenceAdvanceTarget(last) == Max({last + Margin, 1})

AdvanceRecipientSequences ==
  /\ driver = "sequences"
  /\ noted' = blue.issued
  /\ green' = [green EXCEPT !.issued = SequenceAdvanceTarget(blue.issued)]
  /\ driver' = "transfer"
  /\ UNCHANGED <<bystanders, blue, reverse, checked, drives>>

DriverTransfers ==
  /\ driver = "transfer" /\ blue.phase = "Draining"
  /\ blue' = [blue EXCEPT !.phase = "Transferred"]
  /\ driver' = "receive"
  /\ UNCHANGED <<bystanders, green, reverse, checked, noted, drives>>

\* Faulty variant: a sequence the donor did not report has no gap.
UnlistedIsNoGap(donor) == donor # None /\ green.issued <= donor

\* A sequence must be reported, and green's must be past it.
SequenceGaps(donor) == donor = None \/ green.issued <= donor

\* The donor's confirmation, then ready_to_accept_writes, then the commit; it
\* may be refused, or fail, on the way.
ReceiveAuthority ==
  /\ driver = "receive" /\ ~green.holds
  /\ \/ /\ blue.phase = "Transferred" /\ reverse' = TRUE
        /\ \/ /\ ~SequenceGaps(noted)
              /\ green' = [green EXCEPT !.holds = TRUE] /\ driver' = "verify"
           \/ UNCHANGED green /\ driver' = "none"
     \/ UNCHANGED <<green, reverse>> /\ driver' = "none"
  /\ UNCHANGED <<bystanders, blue, checked, noted, drives>>

VerifySingleAuthority ==
  /\ driver = "verify" /\ ~BlueServes /\ green.holds
  /\ driver' = "none"
  /\ UNCHANGED <<bystanders, blue, green, reverse, checked, noted, drives>>

\* It fails or is killed.  Blue stays as it is.
DriverStops ==
  /\ driver # "none"
  /\ driver' = "none"
  /\ UNCHANGED <<bystanders, blue, green, reverse, checked, noted, drives>>

AbortCutover ==
  /\ blue.phase \in {"Armed", "Sealed", "Draining"}
  /\ blue' = [blue EXCEPT !.phase = "Aborted"]
  /\ UNCHANGED <<bystanders, green, reverse, driver, checked, noted, drives>>

\* Anyone may call the endpoint: it looks at the slots, the tables' copies are
\* the caller's to look at.
DrainByHand ==
  /\ blue.phase = "Sealed" /\ MinConfirmed >= blue.sealed
  /\ DrainGate \/ "drain by hand" \in CutoverLapses
  /\ blue' = [blue EXCEPT !.phase = "Draining"]
  /\ UNCHANGED <<bystanders, green, reverse, driver, checked, noted, drives>>

\* An operator finishes what a driver left, one endpoint at a time: the
\* transfer of a drained donor, the sequences, and the receipt, with a list of
\* the donor's values, the final ones if it is not an old one, or without.
TransferByHand ==
  /\ driver = "none" /\ blue.phase = "Draining"
  /\ blue' = [blue EXCEPT !.phase = "Transferred"]
  /\ UNCHANGED <<bystanders, green, reverse, driver, checked, noted, drives>>

AdvanceByHand ==
  /\ driver = "none" /\ blue.phase = "Transferred" /\ ~green.holds
  /\ green' = [green EXCEPT !.issued = SequenceAdvanceTarget(blue.issued)]
  /\ UNCHANGED <<bystanders, blue, reverse, driver, checked, noted, drives>>

ReceiveByHand(listed) ==
  /\ driver = "none" /\ blue.phase = "Transferred" /\ ~green.holds
  /\ listed \in {None, blue.issued} \/ "stale list" \in CutoverLapses
  /\ noted' = listed
  /\ driver' = "receive"
  /\ UNCHANGED <<bystanders, blue, green, reverse, checked, drives>>

-----------------------------------------------------------------------------
BlueGreenInit ==
  /\ log = << >>
  /\ blue \in [schema : {{"t"}}, stray : {{}} \cup {{x} : x \in Strays}, phase : {"Idle"},
              sealed : {None}, issued : {0}]
  /\ green = [schema |-> {}, rows |-> {}, issued |-> 0, holds |-> FALSE, first |-> None]
  /\ sub = [on |-> FALSE, rel |-> NoRel, applied |-> 0]
  /\ slot = None /\ reverse = FALSE
  /\ seeding = [step |-> "none"]
  /\ driver = "none" /\ checked = FALSE /\ noted = None /\ drives = 0

BlueGreenNext ==
  \/ SeedDump \/ SeedRestore \/ SeedSubscribe \/ SeedFails \/ WipeRecipient
  \/ \E t \in UserTables : CopyTable(t)
  \/ \E t \in UserTables \cup Strays : BlueWrites(t)
  \/ ApplyRow \/ ToggleSubscription \/ BlueFailsOver
  \/ GreenWrites \/ DbaAddsTable
  \/ Preflight \/ ResolvePlan \/ DriverArms \/ DriverSeals \/ AwaitRecipientDrain \/ DrainObserved
  \/ AdvanceRecipientSequences \/ DriverTransfers \/ ReceiveAuthority
  \/ VerifySingleAuthority \/ DriverStops \/ AbortCutover
  \/ DrainByHand \/ TransferByHand \/ AdvanceByHand
  \/ \E listed \in {None} \cup 0..blue.issued : ReceiveByHand(listed)

BlueGreenSpec == BlueGreenInit /\ [][BlueGreenNext]_blueGreenVars

-----------------------------------------------------------------------------
\* Green serves clients only with every row blue acknowledged, across
\* seeds that fail and are repeated, tables still copying, a subscription
\* switched off, a slot lost to a failover, and drivers that stop at any
\* step (contract U2: drain_gate, cutover_drain_observed, cutover_transfer).
AckedReachesGreen == green.holds => DOMAIN log \subseteq green.rows

\* The first value green's sequence gives a client is one blue never gave,
\* whoever finishes the cutover, with the donor's final values at hand or
\* with none (contract U3: advance_sequences, sequence_gaps).
SequencesDisjoint == green.first # None => green.first > blue.issued /\ ~BlueServes
=============================================================================
