---------------------------- MODULE ClientFence ----------------------------
(***************************************************************************)
(* The client-write fence inside the donor's database: the privileges of   *)
(* the application's roles, the check that revoking them is enough, the    *)
(* snapshot that brings them back, the freeze of DDL, and the seal that    *)
(* drains sessions before it reads a final position.  Clients write on     *)
(* the database's own port, past any gateway.                              *)
(***************************************************************************)
EXTENDS Integers, FiniteSets

CONSTANTS
  Blind,     \* what the catalog may hold that the check does not see, or lets pass
  SerialSeals, \* the operator arms only once every SEAL call of before has returned
  MaxSeals,  \* bound: cutovers armed
  MaxDba     \* bound: GRANT and CREATE TABLE by an administrator

BlindSpots == {"superuser", "public view", "column grant", "open ddl", "late grant",
               "late prepare", "accepted definer"}

ASSUME ClientFenceAssumption ==
  Blind \subseteq BlindSpots /\ SerialSeals \in BOOLEAN /\ {MaxSeals, MaxDba} \subseteq Nat

VARIABLES
  shape,     \* the rest of the catalog: [member, super, owner, secdef]
  grants,    \* <<grantee, object>>: write privileges, "future": of pg_default_acl
  snapshot,  \* pgbattery.client_fence_revoked
  trigger,   \* the DDL freeze is installed
  cutover,   \* the committed phase
  asked,     \* fenced_app_roles
  tx,        \* the state of each role's session
  ddl,       \* the privileges an administrator's open CREATE TABLE will add
  waiting,   \* the roles of each SEAL call that waits for the fence
  seal,      \* the step of the SEAL call that holds the supervisor lock
  sealFor,   \* the roles of that call
  positions, \* positions read and not committed; TRUE: a client committed past it
  given,     \* history: what administrators granted
  late,      \* history: a client committed past a sealed position
  seals, dba

clientFenceVars == <<shape, grants, snapshot, trigger, cutover, asked, tx, ddl, waiting,
                     seal, sealFor, positions, given, late, seals, dba>>

Roles == {"app", "team"}           \* app may be a member of team
Tables == {"t", "made"}            \* ordinary tables; "made" may be created later
Grant(to, on) == <<to, on>>
InForce == {"Sealing", "Sealed", "Transferred"}  \* phases in which this cluster is fenced

sqlVars == <<shape, asked, given, seals, dba>>
sealVars == <<waiting, seal, sealFor, positions>>   \* the calls of cutover_seal

-----------------------------------------------------------------------------
(* Who can write. *)

Parents(r) == IF r = "app" /\ shape.member THEN {"team"} ELSE {}

\* The privilege check PostgreSQL makes as a statement starts.
MayWrite(r) ==
  \/ r \in shape.super
  \/ \E q \in {r, "public"} \cup Parents(r) : \E o \in Tables \cup {"view", "column"} :
       Grant(q, o) \in grants
  \/ shape.owner \in {r} \cup Parents(r)
  \/ r = "app" /\ shape.secdef

\* rolsuper::text, compared with "t": the cast spells it out.
BoolText(b) == IF b THEN "true" ELSE "false"
ReadsAsSuperuser(r) == BoolText(r \in shape.super) = "t"

\* A SECURITY DEFINER function counts unless the caller accepts it by name.
AppRoleFailures(roles, accepted) ==
  {r \in roles : \/ ReadsAsSuperuser(r) \/ shape.owner = r
                 \/ r = "app" /\ shape.secdef /\ ~accepted}

\* Faulty variant: what a role inherits is not looked at.
DirectGapsOnly(roles) == {g \in grants : g[1] = "public" /\ g[2] \in Tables}

\* Tables granted to everyone, and tables a role reaches through one that is
\* not in the list.
CoverageGaps(roles) ==
  {g \in grants : g[1] = "public" /\ g[2] \in Tables} \cup
  UNION {{Grant(p, o) : o \in {x \in Tables : Grant(p, x) \in grants \/ shape.owner = p}} :
           p \in (UNION {Parents(r) : r \in roles}) \ roles}

RequireFenceCoversRoles(roles, accepted) ==
  AppRoleFailures(roles, accepted) = {} /\ CoverageGaps(roles) = {}

-----------------------------------------------------------------------------
(* The reconciler's two moves. *)

\* The direct grants the snapshot and the REVOKE cover.
Direct(roles) == {g \in grants : g[1] \in roles /\ g[2] \in Tables \cup {"view", "future"}}

Revocable(roles) == Direct(roles) # {}

\* Revoking a privilege on a table revokes it on the table's columns.
Revoked(roles) == {g \in grants : g[1] \in roles}

Unlocked == seal = "none"   \* the supervisor lock is free

DdlShouldFreeze == cutover \in {"Sealing", "Sealed", "Draining"}

LevelFreeze ==
  /\ Unlocked
  /\ trigger # DdlShouldFreeze
  /\ trigger' = DdlShouldFreeze
  /\ UNCHANGED <<sqlVars, grants, snapshot, cutover, tx, ddl, sealVars, late>>

\* Faulty variant: what is left after the REVOKE is what gets recorded.
FenceRevokesFirst ==
  /\ Unlocked /\ cutover \in InForce /\ Revocable(asked)
  /\ grants' = grants \ Revoked(asked)
  /\ UNCHANGED <<sqlVars, snapshot, trigger, cutover, tx, ddl, sealVars, late>>

\* One transaction records what it is about to revoke.
ApplyFence ==
  /\ Unlocked /\ cutover \in InForce /\ Revocable(asked)
  /\ snapshot' = snapshot \cup Direct(asked)
  /\ grants' = grants \ Revoked(asked)
  /\ UNCHANGED <<sqlVars, trigger, cutover, tx, ddl, sealVars, late>>

LiftFence ==
  /\ Unlocked /\ cutover \notin InForce /\ snapshot # {}
  /\ grants' = grants \cup snapshot
  /\ snapshot' = {}
  /\ UNCHANGED <<sqlVars, trigger, cutover, tx, ddl, sealVars, late>>

-----------------------------------------------------------------------------
(* The SEAL handler. *)

NoCall == waiting = {} /\ seal = "none" /\ positions = {}

ArmCutover ==
  /\ cutover \in {"Idle", "Aborted"} /\ seals < MaxSeals
  /\ SerialSeals => NoCall
  /\ cutover' = "Armed" /\ seals' = seals + 1
  /\ UNCHANGED <<shape, asked, given, dba, grants, snapshot, trigger, tx, ddl, sealVars, late>>

\* Calls of an earlier attempt may still be under way.
BeginSealing(roles, accepted) ==
  /\ cutover = "Armed"
  /\ accepted => "accepted definer" \in Blind
  /\ RequireFenceCoversRoles(roles, accepted)
  /\ cutover' = "Sealing" /\ asked' = roles
  /\ waiting' = waiting \cup {roles}
  /\ UNCHANGED <<shape, given, seals, dba, grants, snapshot, trigger, tx, ddl, seal, sealFor,
                 positions, late>>

\* Re-issued with the committed roles, the call resumes.
ReissueSeal ==
  /\ cutover = "Sealing"
  /\ waiting' = waiting \cup {asked}
  /\ UNCHANGED <<sqlVars, grants, snapshot, trigger, cutover, tx, ddl, seal, sealFor, positions,
                 late>>

Sealable(roles) == trigger /\ ~Revocable(roles) /\ \A r \in Roles : tx[r] # "prepared"

\* From here to the position the call holds the supervisor lock.  Several may
\* wait for the same roles, and none reads the phase again.
ObserveFence(roles) ==
  /\ Unlocked /\ Sealable(roles)
  /\ seal' = "terminate" /\ sealFor' = roles
  /\ waiting' \in {waiting, waiting \ {roles}}
  /\ UNCHANGED <<sqlVars, grants, snapshot, trigger, cutover, tx, ddl, positions, late>>

\* Sessions of the fenced roles, and of their members, are told to end.
TerminateBackends ==
  /\ seal = "terminate"
  /\ seal' = "exits"
  /\ tx' = [r \in Roles |-> IF tx[r] = "writing" /\ ({r} \cup Parents(r)) \cap sealFor # {}
                            THEN "ending" ELSE tx[r]]
  /\ UNCHANGED <<sqlVars, grants, snapshot, trigger, cutover, ddl, waiting, sealFor, positions,
                 late>>

BackendsGone ==
  /\ seal = "exits"
  /\ \A r \in Roles : tx[r] # "ending"
  /\ seal' = "position"
  /\ UNCHANGED <<sqlVars, grants, snapshot, trigger, cutover, tx, ddl, waiting, sealFor,
                 positions, late>>

\* The statement that reads the insert position looks at the grants again; the
\* lock is free before the position is committed.
SealedPosition ==
  /\ seal = "position"
  /\ seal' = "none" /\ sealFor' = {}
  /\ positions' = IF Revocable(sealFor) THEN positions ELSE positions \cup {FALSE}
  /\ UNCHANGED <<sqlVars, grants, snapshot, trigger, cutover, tx, ddl, waiting, late>>

CommitSeal(passed) ==
  /\ positions' \in {positions, positions \ {passed}}
  /\ IF cutover = "Sealing" THEN cutover' = "Sealed" /\ late' = (late \/ passed)
                            ELSE UNCHANGED <<cutover, late>>
  /\ UNCHANGED <<sqlVars, grants, snapshot, trigger, tx, ddl, waiting, seal, sealFor>>

\* A step fails, a wait runs out, or the node goes: SEALING stays committed.
SealFails ==
  /\ \/ seal # "none" /\ seal' = "none" /\ sealFor' = {} /\ UNCHANGED <<waiting, positions>>
     \/ \E roles \in waiting : waiting' = waiting \ {roles}
                              /\ UNCHANGED <<seal, sealFor, positions>>
     \/ \E passed \in positions : positions' = positions \ {passed}
                                /\ UNCHANGED <<waiting, seal, sealFor>>
  /\ UNCHANGED <<sqlVars, grants, snapshot, trigger, cutover, tx, ddl, late>>

ResolveCutover ==
  /\ \/ cutover \in {"Sealing", "Sealed"} /\ cutover' = "Aborted"
     \/ cutover = "Sealed" /\ cutover' = "Transferred"
  /\ UNCHANGED <<sqlVars, grants, snapshot, trigger, tx, ddl, sealVars, late>>

-----------------------------------------------------------------------------
(* Clients and administrators. *)

ClientBegins(r) ==
  /\ tx[r] = "none" /\ MayWrite(r)
  /\ tx' = [tx EXCEPT ![r] = "writing"]
  /\ UNCHANGED <<sqlVars, grants, snapshot, trigger, cutover, ddl, sealVars, late>>

\* The commit of a role that is fenced is what the seal must not miss.
Lands(r) ==
  LET fenced == r \in asked IN
  /\ positions' = {passed \/ fenced : passed \in positions}
  /\ late' = (late \/ (fenced /\ cutover = "Sealed"))

\* A session told to end may still commit, or roll back.
ClientEnds(r) ==
  /\ tx[r] \in {"writing", "ending", "prepared"}
  /\ tx' = [tx EXCEPT ![r] = "none"]
  /\ \/ Lands(r)
     \/ UNCHANGED <<positions, late>>
  /\ UNCHANGED <<sqlVars, grants, snapshot, trigger, cutover, ddl, waiting, seal, sealFor>>

\* Nothing looks for one again once the handler has seen none.
ClientPrepares(r) ==
  /\ tx[r] = "writing"
  /\ seal = "terminate" => "late prepare" \in Blind
  /\ tx' = [tx EXCEPT ![r] = "prepared"]
  /\ UNCHANGED <<sqlVars, grants, snapshot, trigger, cutover, ddl, sealVars, late>>

DbaActs == dba < MaxDba /\ dba' = dba + 1

\* The trigger fires as a command starts.  What a role outside the list gets
\* between the check and the trigger is a blind spot.
DbaGrants(r) ==
  /\ ~trigger /\ DbaActs
  /\ cutover = "Sealing" /\ "late grant" \notin Blind => r \in asked
  /\ grants' = grants \cup {Grant(r, "t")} /\ given' = given \cup {Grant(r, "t")}
  /\ UNCHANGED <<shape, asked, seals, snapshot, trigger, cutover, tx, ddl, sealVars, late>>

\* A new table takes the default privileges of the moment it is made.
TableGrants == {Grant(r, "made") : r \in {q \in Roles : Grant(q, "future") \in grants}}

DbaCreates ==
  /\ ~trigger /\ ddl = {} /\ TableGrants # {} /\ DbaActs
  /\ ddl' = TableGrants
  /\ UNCHANGED <<shape, asked, seals, grants, given, snapshot, trigger, cutover, tx, sealVars,
                 late>>

\* The trigger does not stop a command that started before it.
DbaCommits ==
  /\ ddl # {} /\ ddl' = {}
  /\ trigger => "open ddl" \in Blind
  /\ grants' = grants \cup ddl /\ given' = given \cup ddl
  /\ UNCHANGED <<shape, asked, seals, dba, snapshot, trigger, cutover, tx, sealVars, late>>

-----------------------------------------------------------------------------
ClientFenceInit ==
  /\ shape \in [member : BOOLEAN, owner : {"dba"} \cup Roles, secdef : BOOLEAN,
                super : IF "superuser" \in Blind THEN {{}, {"app"}} ELSE {{}}]
  /\ grants \in SUBSET ({Grant("app", "t"), Grant("team", "t"), Grant("public", "t"),
                         Grant("app", "future")}
                        \cup (IF "public view" \in Blind THEN {Grant("public", "view")} ELSE {})
                        \cup (IF "column grant" \in Blind THEN {Grant("app", "column")} ELSE {}))
  /\ given = grants
  /\ snapshot = {} /\ trigger = FALSE /\ cutover = "Idle" /\ asked = {}
  /\ tx = [r \in Roles |-> "none"] /\ ddl = {}
  /\ NoCall /\ sealFor = {} /\ late = FALSE /\ seals = 0 /\ dba = 0

ClientFenceNext ==
  \/ LevelFreeze \/ ApplyFence \/ LiftFence
  \/ ArmCutover
  \/ \E roles \in {{"app"}, {"app", "team"}}, accepted \in BOOLEAN : BeginSealing(roles, accepted)
  \/ ReissueSeal \/ \E roles \in waiting : ObserveFence(roles)
  \/ TerminateBackends \/ BackendsGone \/ SealedPosition
  \/ \E passed \in positions : CommitSeal(passed)
  \/ SealFails \/ ResolveCutover
  \/ \E r \in Roles : ClientBegins(r) \/ ClientEnds(r) \/ ClientPrepares(r) \/ DbaGrants(r)
  \/ DbaCreates \/ DbaCommits

ClientFenceSpec == ClientFenceInit /\ [][ClientFenceNext]_clientFenceVars

-----------------------------------------------------------------------------
\* No client of a fenced role commits past the final position of a seal,
\* whatever its session was doing when the fence came down and whatever an
\* administrator granted meanwhile (cutover_seal, drain_fenced_sessions,
\* sealed_position): the drain gate compares with that position.
SealStopsClients == ~late

\* Every privilege the fence takes is on record until it is given back,
\* over repeated cutovers, grants in between and aborts at any step
\* (apply_client_write_fence, lift_client_write_fence).
GrantsConserved == grants \cup snapshot = given
=============================================================================
