---------------------------- MODULE UpgradeProofs ----------------------------
(***************************************************************************)
(* The operator's procedures, for any number of nodes, rows, commands and  *)
(* failures: the client fence of a cutover (ClientFence), the blue/green   *)
(* driver (BlueGreen), the rolling upgrade of the binary (RollingUpgrade)  *)
(* and the major upgrade in place (MajorUpgrade).  Each part states the    *)
(* invariant of its component and proves it step by step.                  *)
(***************************************************************************)
EXTENDS ClientFence, BlueGreen, RollingUpgrade, MajorUpgrade, FiniteSetTheorems, TLAPS

-----------------------------------------------------------------------------
(* The client fence. *)

\* The write privileges a catalog can hold without a grant on single columns.
Possible ==
  {Grant("app", "t"), Grant("team", "t"), Grant("public", "t"), Grant("app", "future"),
   Grant("app", "made"), Grant("public", "view")}

\* What every part of the fence's state may hold.
FenceType ==
  /\ grants \subseteq Possible /\ snapshot \subseteq Possible
  /\ ddl \subseteq {Grant("app", "made")}
  /\ tx \in [Roles -> {"none", "writing", "ending", "prepared"}]
  /\ cutover \in {"Idle", "Armed", "Sealing", "Sealed", "Transferred", "Aborted"}
  /\ seal \in {"none", "terminate", "exits", "position"} /\ positions \subseteq BOOLEAN

\* Nothing is in the catalog that the check of the roles does not see.
CatalogSeen ==
  shape.super = {} /\ Grant("public", "view") \notin grants \cup snapshot

\* The sealed roles are those the check passed for, and it still does.
Covered ==
  cutover \in {"Sealing", "Sealed"} =>
    asked \in {{"app"}, {"app", "team"}} /\ RequireFenceCoversRoles(asked, FALSE)

\* The calls under way are calls of the attempt under way.
OwnCalls ==
  /\ cutover \in {"Idle", "Armed"} => NoCall
  /\ cutover \in {"Sealing", "Sealed"} => waiting \subseteq {asked} /\ (seal # "none" => sealFor = asked)

\* A call works on the sealing it began with, or the cutover is sealed.
Held == (cutover = "Sealing" /\ (seal # "none" \/ positions # {})) \/ cutover = "Sealed"

\* From the fence on no privilege comes back, and sessions only drain.
Draining ==
  /\ Held => trigger /\ ~Revocable(asked)
  /\ cutover = "Sealing" /\ seal = "terminate" => \A r \in Roles : tx[r] # "prepared"
  /\ cutover = "Sealing" /\ seal = "exits" => \A r \in asked : tx[r] \in {"none", "ending"}
  /\ (cutover = "Sealing" /\ (seal = "position" \/ positions # {})) \/ cutover = "Sealed" =>
       \A r \in asked : tx[r] = "none"
  /\ cutover = "Sealing" => TRUE \notin positions
  /\ ~late

FenceInv == FenceType /\ CatalogSeen /\ Covered /\ OwnCalls /\ Draining

\* Two grants are the same when grantee and object are.
LEMMA GrantEquals ==
  ASSUME NEW a, NEW b, NEW c, NEW d
  PROVE  /\ Grant(a, b) = Grant(c, d) <=> a = c /\ b = d
         /\ Grant(a, b)[1] = a /\ Grant(a, b)[2] = b
BY DEF Grant

\* The state the fence starts in.
LEMMA FenceTypeInit ==
  ASSUME "column grant" \notin Blind, ClientFenceInit
  PROVE  FenceType
BY DEF ClientFenceInit, FenceType, Possible, Roles, NoCall

\* Every grant is to a role or to the public, and none is on a column.
LEMMA PossibleGrants ==
  ASSUME NEW g \in Possible
  PROVE  /\ g[2] \in Tables \cup {"view", "future"}
         /\ g[1] # "public" => g[1] \in Roles /\ g[2] \in Tables \cup {"future"}
         /\ g[1] = "team" => g = Grant("team", "t")
BY GrantEquals DEF Possible, Tables, Roles, Grant

\* Every step keeps the state within its types: no privilege appears that the
\* catalog queries could not name.
LEMMA FenceTypeStep ==
  ASSUME FenceType, [ClientFenceNext]_clientFenceVars
  PROVE  FenceType'
<1> USE DEF sqlVars, sealVars
<1>1. CASE LevelFreeze \/ LiftFence \/ ArmCutover \/ ApplyFence
  BY <1>1 DEF LevelFreeze, LiftFence, ArmCutover, ApplyFence, FenceType, Direct, Revoked
<1>2. ASSUME NEW roles, NEW accepted, BeginSealing(roles, accepted)
      PROVE  FenceType'
  BY <1>2 DEF BeginSealing, FenceType
<1>3. CASE TerminateBackends
  BY <1>3 DEF TerminateBackends, FenceType
<1>4. CASE ReissueSeal \/ BackendsGone \/ SealedPosition \/ SealFails \/ ResolveCutover
  BY <1>4 DEF ReissueSeal, BackendsGone, SealedPosition, SealFails, ResolveCutover, FenceType
<1>10. ASSUME NEW x, ObserveFence(x) \/ CommitSeal(x) PROVE FenceType'
  BY <1>10 DEF ObserveFence, CommitSeal, FenceType
<1>5. ASSUME NEW r \in Roles, ClientBegins(r) \/ ClientEnds(r) \/ ClientPrepares(r)
      PROVE  FenceType'
  BY <1>5 DEF ClientBegins, ClientEnds, Lands, ClientPrepares, FenceType
<1>6. ASSUME NEW r \in Roles, DbaGrants(r) PROVE FenceType'
  BY <1>6 DEF DbaGrants, DbaActs, FenceType, Possible, Roles
<1>7. CASE DbaCreates
  <2>1. ASSUME NEW q \in Roles, Grant(q, "future") \in grants PROVE q = "app"
    BY <2>1, GrantEquals DEF FenceType, Possible, Roles
  <2>2. TableGrants \subseteq {Grant("app", "made")}
    BY <2>1 DEF TableGrants
  <2> QED BY <1>7, <2>2 DEF DbaCreates, DbaActs, FenceType
<1>8. CASE DbaCommits
  BY <1>8 DEF DbaCommits, FenceType, Possible
<1>9. CASE UNCHANGED clientFenceVars
  BY <1>9 DEF clientFenceVars, FenceType
<1> QED BY <1>1, <1>2, <1>3, <1>4, <1>5, <1>6, <1>7, <1>8, <1>9, <1>10
    DEF ClientFenceNext

-----------------------------------------------------------------------------
(***************************************************************************)
(* The fence keeps clients out.                                            *)
(***************************************************************************)

\* A role the fence covers cannot write once nothing is left to revoke.
LEMMA Barred ==
  ASSUME FenceType, CatalogSeen, asked \in {{"app"}, {"app", "team"}},
         RequireFenceCoversRoles(asked, FALSE), ~Revocable(asked), NEW r \in asked
  PROVE  ~MayWrite(r)
<1>1. r \in Roles /\ "app" \in asked
  BY DEF Roles
<1>2. r \notin shape.super
  BY DEF CatalogSeen
<1>3. ASSUME NEW o \in Tables \cup {"view", "column"}, NEW q \in asked,
             Grant(q, o) \in grants
      PROVE  FALSE
  <2>1. Grant(q, o) \in Possible /\ q \in Roles
    BY <1>3 DEF FenceType, Roles
  <2>2. Grant(q, o)[1] = q /\ Grant(q, o)[2] = o
    BY GrantEquals
  <2>3. o \in Tables \cup {"view", "future"}
    BY <2>1, <2>2, PossibleGrants
  <2>4. Grant(q, o) \in Direct(asked)
    BY <1>3, <2>2, <2>3 DEF Direct
  <2> QED BY <2>4 DEF Revocable
<1>4. ASSUME NEW o \in Tables \cup {"view", "column"}, Grant("public", o) \in grants
      PROVE  FALSE
  <2>1. Grant("public", o) \in Possible /\ Grant("public", o) # Grant("public", "view")
    BY <1>4 DEF FenceType, CatalogSeen
  <2>2. Grant("public", o)[1] = "public" /\ Grant("public", o)[2] = o
    BY GrantEquals
  <2>3. o \in Tables
    BY <2>1, <2>2, PossibleGrants DEF Tables
  <2>4. Grant("public", o) \in CoverageGaps(asked)
    BY <1>4, <2>2, <2>3 DEF CoverageGaps
  <2> QED BY <2>4 DEF RequireFenceCoversRoles
<1>5. ASSUME NEW p \in Parents(r), p \notin asked
      PROVE  /\ shape.owner # p
             /\ \A o \in Tables \cup {"view", "column"} : Grant(p, o) \notin grants
  <2>1. p = "team" /\ p \in (UNION {Parents(q) : q \in asked}) \ asked
    BY <1>5 DEF Parents
  <2>2. ASSUME NEW x \in Tables, Grant(p, x) \in grants \/ shape.owner = p
        PROVE  FALSE
    <3>1. Grant(p, x) \in
            {Grant(p, o) : o \in {y \in Tables : Grant(p, y) \in grants \/ shape.owner = p}}
      BY <2>2
    <3>2. Grant(p, x) \in CoverageGaps(asked)
      BY <2>1, <3>1 DEF CoverageGaps
    <3> QED BY <3>2 DEF RequireFenceCoversRoles
  <2>3. ASSUME NEW o \in {"view", "column"}, Grant(p, o) \in grants PROVE FALSE
    <3>1. Grant(p, o) \in Possible /\ Grant(p, o)[1] = "team"
      BY <2>1, <2>3, GrantEquals DEF FenceType
    <3>2. Grant(p, o) = Grant("team", "t")
      BY <3>1, PossibleGrants
    <3>3. o = "t"
      BY <3>2, GrantEquals
    <3> QED BY <2>3, <3>3
  <2>4. "t" \in Tables
    BY DEF Tables
  <2> QED BY <2>2, <2>3, <2>4
<1>6. shape.owner \notin asked /\ ~shape.secdef
  BY <1>1 DEF RequireFenceCoversRoles, AppRoleFailures
<1>7. shape.owner \notin {r} \cup Parents(r)
  BY <1>5, <1>6
<1>8. ASSUME NEW q \in {r, "public"} \cup Parents(r),
             NEW o \in Tables \cup {"view", "column"}
      PROVE  Grant(q, o) \notin grants
  BY <1>3, <1>4, <1>5
<1> QED BY <1>2, <1>6, <1>7, <1>8 DEF MayWrite

\* The check goes on passing when privileges only go, or come to a role in
\* the list.
LEMMA StillCovered ==
  ASSUME RequireFenceCoversRoles(asked, FALSE), UNCHANGED <<shape, asked>>,
         \A g \in grants' : g \in grants \/ g[1] \in asked \ {"public"}
  PROVE  RequireFenceCoversRoles(asked, FALSE)'
<1>1. AppRoleFailures(asked, FALSE)' = {}
  BY DEF RequireFenceCoversRoles, AppRoleFailures, ReadsAsSuperuser
<1>2. ASSUME NEW g \in CoverageGaps(asked)' PROVE FALSE
  <2>1. CASE g \in grants' /\ g[1] = "public" /\ g[2] \in Tables
    <3>1. g \in CoverageGaps(asked)
      BY <2>1 DEF CoverageGaps
    <3> QED BY <3>1 DEF RequireFenceCoversRoles
  <2>2. CASE ~(g \in grants' /\ g[1] = "public" /\ g[2] \in Tables)
    <3>1. PICK p \in (UNION {Parents(r)' : r \in asked}) \ asked, o \in Tables :
            g = Grant(p, o) /\ (Grant(p, o) \in grants' \/ shape.owner = p)
      BY <1>2, <2>2 DEF CoverageGaps
    <3>2. p \in (UNION {Parents(r) : r \in asked}) \ asked
      BY <3>1 DEF Parents
    <3>3. Grant(p, o) \in grants \/ shape.owner = p
      <4>1. Grant(p, o)[1] = p /\ p \notin asked
        BY <3>1, GrantEquals
      <4> QED BY <3>1, <4>1
    <3>4. g \in CoverageGaps(asked)
      BY <3>1, <3>2, <3>3 DEF CoverageGaps
    <3> QED BY <3>4 DEF RequireFenceCoversRoles
  <2> QED BY <2>1, <2>2
<1> QED BY <1>1, <1>2 DEF RequireFenceCoversRoles

\* A step that leaves the catalog, the phase and the roles alone.
LEMMA CoveredSame ==
  ASSUME Covered, UNCHANGED <<shape, grants, cutover, asked>>
  PROVE  Covered'
BY DEF Covered, RequireFenceCoversRoles, AppRoleFailures, ReadsAsSuperuser,
       CoverageGaps, Parents

\* Once the check of the roles has passed, no step of an administrator undoes it.
LEMMA CoveredStep ==
  ASSUME Blind = {}, FenceType, Covered, Draining, [ClientFenceNext]_clientFenceVars
  PROVE  Covered'
<1> USE DEF sqlVars, sealVars
<1>1. CASE LevelFreeze \/ ReissueSeal \/ TerminateBackends \/ BackendsGone
           \/ SealedPosition \/ SealFails \/ DbaCreates \/ UNCHANGED clientFenceVars
  <2>1. UNCHANGED <<shape, grants, cutover, asked>>
    BY <1>1 DEF LevelFreeze, ReissueSeal, TerminateBackends, BackendsGone,
                SealedPosition, SealFails, DbaCreates, DbaActs, clientFenceVars
  <2> QED BY <2>1, CoveredSame
<1>2. ASSUME NEW r \in Roles, ClientBegins(r) \/ ClientEnds(r) \/ ClientPrepares(r)
      PROVE  Covered'
  <2>1. UNCHANGED <<shape, grants, cutover, asked>>
    BY <1>2 DEF ClientBegins, ClientEnds, ClientPrepares
  <2> QED BY <2>1, CoveredSame
<1>3. CASE ArmCutover \/ LiftFence \/ ResolveCutover
  BY <1>3 DEF ArmCutover, LiftFence, ResolveCutover, InForce, Covered
<1>4. CASE ApplyFence
  <2>1. UNCHANGED <<shape, asked, cutover>> /\ grants' \subseteq grants
    BY <1>4 DEF ApplyFence
  <2> QED BY <2>1, StillCovered DEF Covered
<1>5. ASSUME NEW roles \in {{"app"}, {"app", "team"}}, NEW accepted \in BOOLEAN,
             BeginSealing(roles, accepted)
      PROVE  Covered'
  <2>1. UNCHANGED <<shape, grants>> /\ asked' = roles /\ RequireFenceCoversRoles(roles, FALSE)
    BY <1>5 DEF BeginSealing
  <2>2. RequireFenceCoversRoles(asked, FALSE)'
    BY <2>1 DEF RequireFenceCoversRoles, AppRoleFailures, ReadsAsSuperuser,
                CoverageGaps, Parents
  <2> QED BY <2>1, <2>2 DEF Covered
<1>6. ASSUME NEW passed, CommitSeal(passed) PROVE Covered'
  <2>1. /\ UNCHANGED <<shape, grants, asked>>
        /\ cutover' \in {"Sealing", "Sealed"} => cutover \in {"Sealing", "Sealed"}
    BY <1>6 DEF CommitSeal
  <2> QED BY <2>1, StillCovered DEF Covered
<1>7. ASSUME NEW r \in Roles, DbaGrants(r) PROVE Covered'
  <2>1. /\ UNCHANGED <<shape, asked, cutover>> /\ grants' = grants \cup {Grant(r, "t")}
        /\ cutover = "Sealing" => r \in asked
        /\ cutover # "Sealed"
    BY <1>7 DEF DbaGrants, Draining, Held
  <2>2. Grant(r, "t")[1] = r /\ r # "public"
    BY GrantEquals DEF Roles
  <2> QED BY <2>1, <2>2, StillCovered DEF Covered
<1>8. CASE DbaCommits
  <2>1. /\ UNCHANGED <<shape, asked, cutover>> /\ grants' = grants \cup ddl
    BY <1>8 DEF DbaCommits
  <2>2. \A g \in ddl : g[1] = "app"
    BY GrantEquals DEF FenceType
  <2>3. cutover \in {"Sealing", "Sealed"} => "app" \in asked
    BY DEF Covered
  <2> QED BY <2>1, <2>2, <2>3, StillCovered DEF Covered
<1>9. ASSUME NEW roles, ObserveFence(roles) PROVE Covered'
  BY <1>9, CoveredSame DEF ObserveFence
<1> QED BY <1>1, <1>2, <1>3, <1>4, <1>5, <1>6, <1>7, <1>8, <1>9 DEF ClientFenceNext

\* While the handler works nothing gives a privilege back.
LEMMA NothingComesBack ==
  ASSUME Blind = {}, FenceType, Covered, Draining, Held, [ClientFenceNext]_clientFenceVars
  PROVE  Held' => /\ trigger' /\ asked' = asked /\ grants' \subseteq grants
                  /\ ~Revocable(asked)'
<1> USE DEF sqlVars, sealVars
<1>0. trigger /\ ~Revocable(asked)
  BY DEF Draining
<1>1. Held' => asked' = asked /\ trigger' /\ grants' \subseteq grants
  <2>1. CASE LevelFreeze
    BY <2>1 DEF LevelFreeze, DdlShouldFreeze, Held
  <2>2. CASE LiftFence \/ ArmCutover
    BY <2>2 DEF LiftFence, ArmCutover, Held, InForce
  <2>3. CASE ApplyFence \/ ReissueSeal \/ TerminateBackends \/ BackendsGone
             \/ SealedPosition \/ SealFails \/ ResolveCutover \/ UNCHANGED clientFenceVars
    BY <1>0, <2>3 DEF ApplyFence, ReissueSeal, TerminateBackends, BackendsGone,
       SealedPosition, SealFails, ResolveCutover, clientFenceVars
  <2>4. ASSUME NEW roles, NEW accepted, BeginSealing(roles, accepted) PROVE FALSE
    BY <2>4 DEF BeginSealing, Held
  <2>7. ASSUME NEW x, ObserveFence(x) \/ CommitSeal(x)
        PROVE  asked' = asked /\ trigger' /\ grants' \subseteq grants
    BY <1>0, <2>7 DEF ObserveFence, CommitSeal
  <2>5. ASSUME NEW r \in Roles,
               ClientBegins(r) \/ ClientEnds(r) \/ ClientPrepares(r) \/ DbaGrants(r)
        PROVE  asked' = asked /\ trigger' /\ grants' \subseteq grants
    BY <1>0, <2>5 DEF ClientBegins, ClientEnds, ClientPrepares, DbaGrants
  <2>6. CASE DbaCreates \/ DbaCommits
    BY <1>0, <2>6 DEF DbaCreates, DbaCommits
  <2> QED BY <2>1, <2>2, <2>3, <2>4, <2>5, <2>6, <2>7 DEF ClientFenceNext
<1>2. Held' => ~Revocable(asked)'
  BY <1>0, <1>1 DEF Revocable, Direct
<1> QED BY <1>1, <1>2

\* A privilege hidden from the check never appears.
LEMMA CatalogSeenStep ==
  ASSUME FenceType, CatalogSeen, [ClientFenceNext]_clientFenceVars
  PROVE  CatalogSeen'
<1> USE DEF sqlVars, sealVars
<1>1. UNCHANGED shape
  BY DEF ClientFenceNext, LevelFreeze, ApplyFence, LiftFence, ArmCutover, BeginSealing,
         ReissueSeal, ObserveFence, TerminateBackends, BackendsGone, SealedPosition, CommitSeal,
         SealFails, ResolveCutover, ClientBegins, ClientEnds, ClientPrepares,
         DbaGrants, DbaCreates, DbaCommits, clientFenceVars
<1>2. /\ Grant("public", "view") # Grant("app", "made")
      /\ \A r \in Roles : Grant("public", "view") # Grant(r, "t")
  BY GrantEquals
<1>3. /\ snapshot' \subseteq grants \cup snapshot
      /\ \/ grants' \subseteq grants \cup snapshot
         \/ grants' \subseteq grants \cup ddl
         \/ \E r \in Roles : grants' \subseteq grants \cup {Grant(r, "t")}
  BY DEF ClientFenceNext, LevelFreeze, ApplyFence, LiftFence, ArmCutover, BeginSealing,
         ReissueSeal, ObserveFence, TerminateBackends, BackendsGone, SealedPosition, CommitSeal,
         SealFails, ResolveCutover, ClientBegins, ClientEnds, ClientPrepares,
         DbaGrants, DbaCreates, DbaCommits, clientFenceVars, Direct
<1> QED BY <1>1, <1>2, <1>3 DEF CatalogSeen, FenceType

\* With the operator's cutovers one after another, no call outlives its attempt
\* into the next.
LEMMA OwnCallsStep ==
  ASSUME SerialSeals, OwnCalls, [ClientFenceNext]_clientFenceVars
  PROVE  OwnCalls'
<1> USE DEF sqlVars, sealVars, OwnCalls, NoCall
<1>1. CASE LevelFreeze \/ ApplyFence \/ LiftFence \/ DbaCreates \/ DbaCommits
           \/ UNCHANGED clientFenceVars \/ ArmCutover \/ ResolveCutover
  BY <1>1 DEF LevelFreeze, ApplyFence, LiftFence, DbaCreates, DbaCommits, clientFenceVars,
              ArmCutover, ResolveCutover
<1>2. ASSUME NEW roles, NEW accepted, BeginSealing(roles, accepted) PROVE OwnCalls'
  BY <1>2 DEF BeginSealing
<1>3. CASE ReissueSeal \/ TerminateBackends \/ BackendsGone \/ SealedPosition \/ SealFails
  BY <1>3 DEF ReissueSeal, TerminateBackends, BackendsGone, SealedPosition, SealFails
<1>4. ASSUME NEW roles \in waiting, ObserveFence(roles) PROVE OwnCalls'
  BY <1>4 DEF ObserveFence
<1>5. ASSUME NEW passed \in positions, CommitSeal(passed) PROVE OwnCalls'
  BY <1>5 DEF CommitSeal
<1>6. ASSUME NEW r \in Roles,
             ClientBegins(r) \/ ClientEnds(r) \/ ClientPrepares(r) \/ DbaGrants(r)
      PROVE  OwnCalls'
  BY <1>6 DEF ClientBegins, ClientEnds, Lands, ClientPrepares, DbaGrants
<1> QED BY <1>1, <1>2, <1>3, <1>4, <1>5, <1>6 DEF ClientFenceNext

\* What a step does to the sessions of the sealed roles.
LEMMA DrainingStep ==
  ASSUME Blind = {}, FenceInv, [ClientFenceNext]_clientFenceVars
  PROVE  Draining'
<1> USE DEF sqlVars, sealVars
<1>0. FenceType /\ Covered /\ OwnCalls /\ Draining
  BY DEF FenceInv
<1>a. cutover \in {"Sealing", "Sealed"} => asked \subseteq Roles
  BY <1>0 DEF Covered, Roles
<1>b. Held => \A r \in asked : ~MayWrite(r)
  BY <1>0, Barred DEF FenceInv, Held, Draining, Covered
<1>c. Held /\ Held' => /\ trigger' /\ asked' = asked /\ ~Revocable(asked)'
  BY <1>0, NothingComesBack
<1>1. CASE LevelFreeze \/ ApplyFence \/ LiftFence \/ DbaCreates \/ DbaCommits
           \/ UNCHANGED clientFenceVars
  <2>1. UNCHANGED <<cutover, seal, tx, positions, late, asked>>
    BY <1>1 DEF LevelFreeze, ApplyFence, LiftFence, DbaCreates, DbaCommits, clientFenceVars
  <2> QED BY <1>0, <1>c, <2>1 DEF Draining, Held
<1>2. CASE ArmCutover \/ ResolveCutover
  <2>1. cutover' \in {"Armed", "Aborted", "Transferred"} /\ late' = late
    BY <1>2 DEF ArmCutover, ResolveCutover
  <2>2. ~late'
    BY <1>0, <2>1 DEF Draining
  <2> QED BY <2>1, <2>2 DEF Draining, Held
<1>3. ASSUME NEW roles \in {{"app"}, {"app", "team"}}, NEW accepted,
             BeginSealing(roles, accepted)
      PROVE  Draining'
  BY <1>0, <1>3 DEF BeginSealing, Draining, Held, OwnCalls, NoCall
<1>4. ASSUME NEW roles \in waiting, ObserveFence(roles) PROVE Draining'
  <2>1. /\ trigger /\ ~Revocable(roles) /\ \A r \in Roles : tx[r] # "prepared"
        /\ UNCHANGED <<trigger, asked, grants, cutover, tx, positions, late>>
        /\ seal = "none" /\ seal' = "terminate"
        /\ cutover \in {"Sealing", "Sealed"} => roles = asked
    BY <1>0, <1>4 DEF ObserveFence, Sealable, Unlocked, OwnCalls
  <2>2. cutover \in {"Sealing", "Sealed"} => ~Revocable(asked)'
    BY <2>1 DEF Revocable, Direct
  <2> QED BY <1>0, <2>1, <2>2 DEF Draining, Held
<1>5. CASE TerminateBackends
  <2>1. /\ seal = "terminate" /\ seal' = "exits"
        /\ UNCHANGED <<asked, cutover, positions, late>>
    BY <1>5 DEF TerminateBackends
  <2>2. ASSUME cutover = "Sealing", NEW r \in asked PROVE tx'[r] \in {"none", "ending"}
    <3>1. r \in Roles /\ tx[r] \in {"none", "writing", "ending"}
      BY <1>0, <1>a, <2>1, <2>2 DEF Draining, FenceType
    <3>2. sealFor = asked
      BY <1>0, <2>1, <2>2 DEF OwnCalls
    <3> QED BY <1>5, <2>2, <3>1, <3>2 DEF TerminateBackends
  <2>3. \A r \in Roles : tx[r] = "none" => tx'[r] = "none"
    BY <1>5 DEF TerminateBackends
  <2> QED BY <1>0, <1>a, <1>c, <2>1, <2>2, <2>3 DEF Draining, Held
<1>6. CASE BackendsGone
  <2>1. /\ seal = "exits" /\ seal' = "position" /\ \A r \in Roles : tx[r] # "ending"
        /\ UNCHANGED <<asked, cutover, tx, positions, late>>
    BY <1>6 DEF BackendsGone
  <2> QED BY <1>0, <1>a, <1>c, <2>1 DEF Draining, Held
<1>7. CASE SealedPosition
  <2>1. /\ seal = "position" /\ seal' = "none" /\ positions' \subseteq positions \cup {FALSE}
        /\ UNCHANGED <<asked, cutover, tx, late>>
    BY <1>7 DEF SealedPosition
  <2> QED BY <1>0, <1>c, <2>1 DEF Draining, Held
<1>8. ASSUME NEW passed \in positions, CommitSeal(passed) PROVE Draining'
  <2>1. /\ positions' \subseteq positions /\ UNCHANGED <<asked, tx, seal>>
        /\ cutover = "Sealing" => cutover' = "Sealed" /\ late' = (late \/ passed)
        /\ cutover # "Sealing" => UNCHANGED <<cutover, late>>
    BY <1>8 DEF CommitSeal
  <2>2. ~late'
    BY <1>0, <1>8, <2>1 DEF Draining, FenceType
  <2> QED BY <1>0, <1>c, <2>1, <2>2 DEF Draining, Held
<1>9. CASE SealFails
  <2>1. /\ seal' \in {"none", seal} /\ positions' \subseteq positions
        /\ UNCHANGED <<asked, cutover, tx, late>>
    BY <1>9 DEF SealFails
  <2> QED BY <1>0, <1>c, <2>1 DEF Draining, Held
<1>10. ASSUME NEW r \in Roles, ClientBegins(r) PROVE Draining'
  <2>1. /\ MayWrite(r) /\ UNCHANGED <<asked, cutover, seal, positions, late>>
        /\ tx' = [tx EXCEPT ![r] = "writing"]
    BY <1>10 DEF ClientBegins
  <2>2. Held => \A q \in asked : tx'[q] = tx[q]
    BY <1>0, <1>a, <1>b, <2>1 DEF Held, FenceType
  <2>3. \A q \in Roles : tx'[q] \in {tx[q], "writing"}
    BY <1>0, <2>1 DEF FenceType
  <2> QED BY <1>0, <1>c, <2>1, <2>2, <2>3 DEF Draining, Held
<1>11. ASSUME NEW r \in Roles, ClientEnds(r) PROVE Draining'
  <2>1. /\ tx[r] # "none" /\ UNCHANGED <<asked, cutover, seal>>
        /\ tx' = [tx EXCEPT ![r] = "none"]
        /\ Lands(r) \/ UNCHANGED <<positions, late>>
    BY <1>11 DEF ClientEnds
  <2>2. \A q \in Roles : tx'[q] \in {tx[q], "none"}
    BY <1>0, <2>1 DEF FenceType
  <2>3. ~late'
    BY <1>0, <2>1 DEF Draining, Lands
  <2>4. cutover = "Sealing" => TRUE \notin positions'
    <3> SUFFICES ASSUME cutover = "Sealing" PROVE TRUE \notin positions'
      OBVIOUS
    <3>1. TRUE \notin positions /\ positions \subseteq BOOLEAN
          /\ (positions # {} => r \notin asked)
      BY <1>0, <2>1 DEF Draining, FenceType
    <3> QED BY <2>1, <3>1 DEF Lands
  <2>5. positions' # {} => positions # {}
    BY <2>1 DEF Lands
  <2>6. Held' => trigger' /\ ~Revocable(asked)'
    BY <1>c, <2>1, <2>5 DEF Held
  <2>7. /\ cutover' = "Sealing" /\ seal' = "terminate" => \A q \in Roles : tx'[q] # "prepared"
        /\ cutover' = "Sealing" /\ seal' = "exits" => \A q \in asked' : tx'[q] \in {"none", "ending"}
    BY <1>0, <1>a, <2>1, <2>2 DEF Draining
  <2>8. (cutover' = "Sealing" /\ (seal' = "position" \/ positions' # {})) \/ cutover' = "Sealed" =>
          \A q \in asked' : tx'[q] = "none"
    BY <1>0, <1>a, <2>1, <2>2, <2>5 DEF Draining
  <2> QED BY <2>1, <2>3, <2>4, <2>6, <2>7, <2>8 DEF Draining
<1>12. ASSUME NEW r \in Roles, ClientPrepares(r) PROVE Draining'
  <2>1. /\ tx[r] = "writing" /\ seal # "terminate"
        /\ UNCHANGED <<asked, cutover, seal, positions, late>>
        /\ tx' = [tx EXCEPT ![r] = "prepared"]
    BY <1>12 DEF ClientPrepares
  <2>2. \A q \in Roles : q # r => tx'[q] = tx[q]
    BY <1>0, <2>1 DEF FenceType
  <2> QED BY <1>0, <1>a, <1>c, <2>1, <2>2 DEF Draining, Held
<1>13. ASSUME NEW r \in Roles, DbaGrants(r) PROVE Draining'
  <2>1. UNCHANGED <<asked, cutover, seal, tx, positions, late>>
    BY <1>13 DEF DbaGrants
  <2> QED BY <1>0, <1>c, <2>1 DEF Draining, Held
<1>14. CASE ReissueSeal
  <2>1. UNCHANGED <<asked, cutover, seal, tx, positions, late>>
    BY <1>14 DEF ReissueSeal
  <2> QED BY <1>0, <1>c, <2>1 DEF Draining, Held
<1> QED BY <1>1, <1>2, <1>3, <1>4, <1>5, <1>6, <1>7, <1>8, <1>9, <1>10, <1>11, <1>12,
           <1>13, <1>14 DEF ClientFenceNext

(***************************************************************************)
(* No client of a fenced role commits past the final position of a seal:   *)
(* in any order of clients, administrators and SEAL calls, over any number *)
(* of cutovers, as long as the catalog holds nothing the check of the      *)
(* roles cannot see or lets pass, and no SEAL call of one cutover is still *)
(* under way when the next is armed (cutover_seal, drain_fenced_sessions,  *)
(* sealed_position).                                                       *)
(***************************************************************************)
THEOREM SealHolds ==
  ASSUME Blind = {}, SerialSeals
  PROVE  ClientFenceSpec => []SealStopsClients
<1>1. ClientFenceInit => FenceInv
  <2> SUFFICES ASSUME ClientFenceInit PROVE FenceInv
    OBVIOUS
  <2>1. FenceType
    BY FenceTypeInit
  <2>2. /\ shape.super = {} /\ snapshot = {} /\ cutover = "Idle" /\ late = FALSE
        /\ grants \subseteq {Grant("app", "t"), Grant("team", "t"), Grant("public", "t"),
                             Grant("app", "future")}
    BY DEF ClientFenceInit
  <2>3. CatalogSeen
    BY <2>2, GrantEquals DEF CatalogSeen
  <2>4. NoCall
    BY DEF ClientFenceInit
  <2> QED BY <2>1, <2>2, <2>3, <2>4 DEF FenceInv, Covered, OwnCalls, NoCall, Draining, Held
<1>2. FenceInv /\ [ClientFenceNext]_clientFenceVars => FenceInv'
  BY FenceTypeStep, CatalogSeenStep, CoveredStep, OwnCallsStep, DrainingStep DEF FenceInv
<1>3. FenceInv => SealStopsClients
  BY DEF FenceInv, Draining, SealStopsClients
<1> QED BY <1>1, <1>2, <1>3, PTL DEF ClientFenceSpec

(***************************************************************************)
(* Every privilege the fence takes is on record until it is given back, at *)
(* every step of any number of cutovers, if no privilege is on single      *)
(* columns: those the REVOKE takes and the snapshot does not list          *)
(* (apply_client_write_fence, lift_client_write_fence).                    *)
(***************************************************************************)
THEOREM GrantsAreConserved ==
  ASSUME "column grant" \notin Blind
  PROVE  ClientFenceSpec => []GrantsConserved
<1>1. ClientFenceInit => FenceType /\ GrantsConserved
  BY FenceTypeInit DEF ClientFenceInit, GrantsConserved
<1>2. FenceType /\ GrantsConserved /\ [ClientFenceNext]_clientFenceVars
        => FenceType' /\ GrantsConserved'
  <2> SUFFICES ASSUME FenceType, GrantsConserved, [ClientFenceNext]_clientFenceVars
               PROVE  FenceType' /\ GrantsConserved'
    OBVIOUS
  <2> USE DEF sqlVars, sealVars
  <2>1. Revoked(asked) = Direct(asked)
    BY PossibleGrants DEF Revoked, Direct, FenceType
  <2>2. CASE ApplyFence
    BY <2>1, <2>2, FenceTypeStep DEF ApplyFence, GrantsConserved, Direct
  <2>3. CASE LiftFence
    BY <2>3, FenceTypeStep DEF LiftFence, GrantsConserved
  <2>4. ASSUME NEW r \in Roles, DbaGrants(r) PROVE GrantsConserved'
    BY <2>4 DEF DbaGrants, GrantsConserved
  <2>5. CASE DbaCommits
    BY <2>5, FenceTypeStep DEF DbaCommits, GrantsConserved
  <2>6. CASE UNCHANGED <<grants, snapshot, given>>
    BY <2>6, FenceTypeStep DEF GrantsConserved
  <2>7. \/ ApplyFence \/ LiftFence \/ DbaCommits \/ (\E r \in Roles : DbaGrants(r))
        \/ UNCHANGED <<grants, snapshot, given>>
    BY DEF ClientFenceNext, LevelFreeze, ArmCutover, BeginSealing, ReissueSeal, ObserveFence,
           TerminateBackends, BackendsGone, SealedPosition, CommitSeal, SealFails,
           ResolveCutover, ClientBegins, ClientEnds, ClientPrepares, DbaCreates,
           clientFenceVars
  <2> QED BY <2>2, <2>3, <2>4, <2>5, <2>6, <2>7, FenceTypeStep
<1> QED BY <1>1, <1>2, PTL DEF ClientFenceSpec

-----------------------------------------------------------------------------
(* The blue/green cutover. *)

\* pg_subscription_rel, over the tables subscribed to.
Rels == UNION {[S -> {"init", "ready"}] : S \in SUBSET UserTables}

\* What every part of the two clusters' state may hold.
Blues ==
  [schema : SUBSET UserTables, stray : SUBSET Strays,
   phase : {"Idle", "Armed", "Sealed", "Draining", "Transferred", "Aborted"},
   sealed : Int, issued : Nat]
Greens ==
  [schema : SUBSET UserTables, rows : SUBSET Nat, issued : Nat, holds : BOOLEAN, first : Int]
Subs == [on : BOOLEAN, applied : Nat, rel : Rels]

CutoverType ==
  /\ log \in Seq(UserTables \cup Strays)
  /\ blue \in Blues /\ green \in Greens /\ sub \in Subs
  /\ slot \in Int /\ noted \in Int

\* The recipient is empty, being seeded, or subscribed to all that it was
\* seeded with, which the donor still has.
SeedInv ==
  /\ "t" \in blue.schema /\ green.schema \subseteq blue.schema
  /\ seeding.step = "dumped" => seeding.schema \subseteq blue.schema /\ green.schema = {}
  /\ seeding.step # "none" => sub.rel = NoRel
  /\ sub.rel = NoRel => slot = None
  /\ sub.rel # NoRel => DOMAIN sub.rel = green.schema /\ "t" \in green.schema

\* Up to where the apply worker is, green has every row of a copied table.
StreamInv ==
  /\ \A i \in DOMAIN log : log[i] \in blue.schema \cup blue.stray
  /\ checked => blue.stray = {}
  /\ slot # None => slot = sub.applied
  /\ sub.applied <= Len(log)
  /\ sub.rel # NoRel => \A i \in DOMAIN log : i <= sub.applied =>
       log[i] \in green.schema \cup Strays /\ (SyncComplete(log[i]) => i \in green.rows)

\* The drain was proved, and blue has been shut since.
Drained ==
  blue.phase \in {"Draining", "Transferred"} \/ (blue.phase = "Sealed" /\ driver = "observe")

DriveInv ==
  /\ driver \in {"arm", "seal"} => checked
  /\ ~BlueServes => checked /\ blue.sealed = Len(log)
  /\ driver \in {"sequences", "transfer"} => blue.phase # "Sealed"
  /\ Drained => sub.rel # NoRel /\ DOMAIN log \subseteq green.rows
  /\ driver = "transfer" /\ blue.phase = "Draining" => noted = blue.issued
  /\ driver = "receive" => blue.phase = "Transferred" /\ noted \in {None, blue.issued}
  /\ green.holds =>
       blue.phase = "Transferred" /\ driver \in {"verify", "none"} /\ green.issued > blue.issued
  /\ green.first # None => green.holds /\ green.first > blue.issued

BlueGreenInv == CutoverType /\ SeedInv /\ StreamInv /\ DriveInv

\* The steps of the driver, and of an operator in its place.
DriverStep ==
  \/ Preflight \/ ResolvePlan \/ DriverArms \/ DriverSeals \/ AwaitRecipientDrain
  \/ DrainObserved \/ AdvanceRecipientSequences \/ DriverTransfers \/ ReceiveAuthority
  \/ VerifySingleAuthority \/ DriverStops \/ AbortCutover \/ DrainByHand
  \/ TransferByHand \/ AdvanceByHand
  \/ \E listed \in {None} \cup 0..blue.issued : ReceiveByHand(listed)

\* The larger of two numbers, and the smallest of one.
LEMMA MaxOfTwo ==
  ASSUME NEW a \in Nat, NEW b \in Nat
  PROVE  Max({a, b}) \in Nat
<1>1. \E x \in {a, b} : \A y \in {a, b} : x >= y
  OBVIOUS
<1>2. Max({a, b}) \in {a, b}
  BY <1>1 DEF Max
<1> QED BY <1>2

\* The least element of a singleton.
LEMMA MinOfOne ==
  ASSUME NEW a \in Int
  PROVE  Min({a}) = a
<1>1. \E x \in {a} : \A y \in {a} : x <= y
  OBVIOUS
<1>2. Min({a}) \in {a}
  BY <1>1 DEF Min
<1> QED BY <1>2

\* The value a sequence is advanced to is a number.
LEMMA TargetType ==
  ASSUME NEW last \in Nat
  PROVE  SequenceAdvanceTarget(last) \in Nat
<1>1. last + Margin \in Nat
  BY BlueGreenAssumption
<1> QED BY <1>1, MaxOfTwo DEF SequenceAdvanceTarget

\* An absent subscription has no tables.
LEMMA NoRelType == NoRel \in Rels
<1>1. NoRel \in [{} -> {"init", "ready"}] /\ {} \in SUBSET UserTables
  BY DEF NoRel
<1> QED BY <1>1 DEF Rels

\* The driver touches neither the log, the subscription nor what green holds.
LEMMA DriverKeeps ==
  ASSUME CutoverType, DriverStep
  PROVE  /\ UNCHANGED <<log, sub, slot, seeding>>
         /\ UNCHANGED <<blue.schema, blue.stray, blue.issued>>
         /\ UNCHANGED <<green.schema, green.rows, green.first>>
<1>1. UNCHANGED <<log, sub, slot, seeding>>
  BY DEF DriverStep, Preflight, ResolvePlan, DriverArms, DriverSeals,
     AwaitRecipientDrain, DrainObserved, AdvanceRecipientSequences, DriverTransfers,
     ReceiveAuthority, VerifySingleAuthority, DriverStops, AbortCutover,
     DrainByHand, TransferByHand, AdvanceByHand, ReceiveByHand, bystanders
<1>2. UNCHANGED <<blue.schema, blue.stray, blue.issued>>
  BY DEF DriverStep, Preflight, ResolvePlan, DriverArms, DriverSeals,
     AwaitRecipientDrain, DrainObserved, AdvanceRecipientSequences, DriverTransfers,
     ReceiveAuthority, VerifySingleAuthority, DriverStops, AbortCutover,
     DrainByHand, TransferByHand, AdvanceByHand, ReceiveByHand, CutoverType, Blues
<1>3. UNCHANGED <<green.schema, green.rows, green.first>>
  BY DEF DriverStep, Preflight, ResolvePlan, DriverArms, DriverSeals,
     AwaitRecipientDrain, DrainObserved, AdvanceRecipientSequences, DriverTransfers,
     ReceiveAuthority, VerifySingleAuthority, DriverStops, AbortCutover,
     DrainByHand, TransferByHand, AdvanceByHand, ReceiveByHand, CutoverType, Greens
<1> QED BY <1>1, <1>2, <1>3

\* Every step of the driver and of the two clusters keeps the types.
LEMMA CutoverTypeStep ==
  ASSUME CutoverType, SeedInv, [BlueGreenNext]_blueGreenVars
  PROVE  CutoverType'
<1> USE DEF CutoverType
<1>1. CASE DriverStep
  <2>1. log' \in Seq(UserTables \cup Strays) /\ UNCHANGED <<sub, slot>>
    BY <1>1, DriverKeeps
  <2>2. Len(log) \in Int
    OBVIOUS
  <2>3. blue.issued \in Nat
    BY DEF Blues
  <2>4. SequenceAdvanceTarget(blue.issued) \in Nat
    BY <2>3, TargetType
  <2>5. blue' \in Blues
    BY <1>1, <2>2 DEF DriverStep, Preflight, ResolvePlan, DriverArms, DriverSeals,
       AwaitRecipientDrain, DrainObserved, AdvanceRecipientSequences, DriverTransfers,
       ReceiveAuthority, VerifySingleAuthority, DriverStops, AbortCutover,
       DrainByHand, TransferByHand, AdvanceByHand, ReceiveByHand, Blues
  <2>6. green' \in Greens
    BY <1>1, <2>4 DEF DriverStep, Preflight, ResolvePlan, DriverArms, DriverSeals,
       AwaitRecipientDrain, DrainObserved, AdvanceRecipientSequences, DriverTransfers,
       ReceiveAuthority, VerifySingleAuthority, DriverStops, AbortCutover,
       DrainByHand, TransferByHand, AdvanceByHand, ReceiveByHand, Greens
  <2>7. noted' \in Int
    <3>1. \A listed \in {None} \cup 0..blue.issued : listed \in Int
      BY <2>3 DEF None
    <3>2. ASSUME NEW listed \in {None} \cup 0..blue.issued, ReceiveByHand(listed)
          PROVE  noted' \in Int
      BY <3>1, <3>2 DEF ReceiveByHand
    <3>3. \/ noted' \in {noted, None, blue.issued}
          \/ \E listed \in {None} \cup 0..blue.issued : ReceiveByHand(listed)
      BY <1>1 DEF DriverStep, Preflight, ResolvePlan, DriverArms, DriverSeals,
         AwaitRecipientDrain, DrainObserved, AdvanceRecipientSequences, DriverTransfers,
         ReceiveAuthority, VerifySingleAuthority, DriverStops, AbortCutover,
         DrainByHand, TransferByHand, AdvanceByHand
    <3>4. None \in Int
      BY DEF None
    <3> QED BY <2>3, <3>2, <3>3, <3>4
  <2> QED BY <2>1, <2>5, <2>6, <2>7
<1>2. CASE SeedDump \/ SeedFails \/ UNCHANGED blueGreenVars
  BY <1>2 DEF SeedDump, SeedFails, blueGreenVars
<1>3. CASE SeedRestore
  <2>1. seeding.schema \in SUBSET UserTables
    BY <1>3 DEF SeedRestore, SeedInv, Blues
  <2>2. green' \in Greens
    BY <1>3, <2>1 DEF SeedRestore, Greens
  <2> QED BY <1>3, <2>2 DEF SeedRestore
<1>4. CASE SeedSubscribe
  <2>1. blue.schema \in SUBSET UserTables
    BY DEF Blues
  <2>2. [t \in blue.schema |-> "init"] \in Rels
    BY <2>1 DEF Rels
  <2>3. Len(log) \in Nat
    OBVIOUS
  <2>4. sub' \in Subs
    BY <1>4, <2>2, <2>3 DEF SeedSubscribe, Subs
  <2> QED BY <1>4, <2>3, <2>4 DEF SeedSubscribe
<1>5. CASE WipeRecipient
  <2>1. green' \in Greens
    BY <1>5 DEF WipeRecipient, Greens
  <2>2. sub' \in Subs
    BY <1>5, NoRelType DEF WipeRecipient, Subs
  <2> QED BY <1>5, <2>1, <2>2 DEF WipeRecipient, None
<1>6. ASSUME NEW t \in UserTables, CopyTable(t) PROVE CutoverType'
  <2>1. PICK S \in SUBSET UserTables : sub.rel \in [S -> {"init", "ready"}]
    BY DEF Rels, Subs
  <2>2. [sub.rel EXCEPT ![t] = "ready"] \in [S -> {"init", "ready"}]
    BY <2>1
  <2>3. [sub.rel EXCEPT ![t] = "ready"] \in Rels
    BY <2>2 DEF Rels
  <2>4. DOMAIN log \subseteq Nat
    OBVIOUS
  <2>5. sub' = [sub EXCEPT !.rel = [sub.rel EXCEPT ![t] = "ready"]]
    BY <1>6 DEF CopyTable
  <2>6. sub' \in Subs
    BY <2>3, <2>5 DEF Subs
  <2>7. green' \in Greens
    BY <1>6, <2>4 DEF CopyTable, Greens
  <2> QED BY <1>6, <2>6, <2>7 DEF CopyTable
<1>7. ASSUME NEW t \in UserTables \cup Strays, BlueWrites(t) PROVE CutoverType'
  <2>1. blue' \in Blues
    BY <1>7 DEF BlueWrites, Blues
  <2> QED BY <1>7, <2>1 DEF BlueWrites
<1>8. CASE ApplyRow
  <2>1. sub.applied + 1 \in Nat
    BY DEF Subs
  <2>2. green' \in Greens
    BY <1>8, <2>1 DEF ApplyRow, Greens
  <2>3. sub' \in Subs
    BY <1>8, <2>1 DEF ApplyRow, Subs
  <2> QED BY <1>8, <2>1, <2>2, <2>3 DEF ApplyRow
<1>9. CASE ToggleSubscription
  <2>1. sub' \in Subs
    BY <1>9 DEF ToggleSubscription, Subs
  <2> QED BY <1>9, <2>1 DEF ToggleSubscription
<1>10. CASE BlueFailsOver
  BY <1>10 DEF BlueFailsOver, None
<1>11. CASE GreenWrites
  <2>1. green.issued + 1 \in Nat /\ green.issued + 1 \in Int
    BY DEF Greens
  <2>2. green' \in Greens
    BY <1>11, <2>1 DEF GreenWrites, Greens
  <2> QED BY <1>11, <2>2 DEF GreenWrites
<1>12. CASE DbaAddsTable
  <2>1. [green EXCEPT !.schema = @ \cup {"u"}] \in Greens
    BY DEF Greens, UserTables
  <2>2. green' \in Greens
    BY <1>12, <2>1 DEF DbaAddsTable
  <2>3. blue' \in Blues
    BY <1>12 DEF DbaAddsTable, UserTables, Blues
  <2> QED BY <1>12, <2>2, <2>3 DEF DbaAddsTable
<1> QED BY <1>1, <1>2, <1>3, <1>4, <1>5, <1>6, <1>7, <1>8, <1>9, <1>10, <1>11, <1>12
        DEF BlueGreenNext, DriverStep

-----------------------------------------------------------------------------
(***************************************************************************)
(* Seeding.                                                                *)
(***************************************************************************)

\* A subscription lists its tables.
LEMMA RelDomain ==
  ASSUME CutoverType
  PROVE  /\ DOMAIN sub.rel \subseteq UserTables
         /\ sub.rel \in [DOMAIN sub.rel -> {"init", "ready"}]
         /\ sub.rel # NoRel <=> DOMAIN sub.rel # {}
<1>1. PICK S \in SUBSET UserTables : sub.rel \in [S -> {"init", "ready"}]
  BY DEF CutoverType, Subs, Rels
<1>2. DOMAIN sub.rel = S
  BY <1>1
<1>3. S = {} => sub.rel = NoRel
  BY <1>1 DEF NoRel
<1>4. DOMAIN NoRel = {}
  BY DEF NoRel
<1> QED BY <1>1, <1>2, <1>3, <1>4

\* A step that leaves both schemas and the subscribed tables alone keeps the seed.
LEMMA SeedSame ==
  ASSUME SeedInv, UNCHANGED <<blue.schema, green.schema, sub.rel>>,
         UNCHANGED seeding \/ seeding' = [step |-> "none"], slot' = slot \/ slot' = None
  PROVE  SeedInv'
BY DEF SeedInv

\* A seed is whole or not there, through every failure and repetition.
LEMMA SeedStep ==
  ASSUME CutoverLapses = {}, CutoverType, SeedInv, [BlueGreenNext]_blueGreenVars
  PROVE  SeedInv'
<1>1. CASE DriverStep
  BY <1>1, DriverKeeps, SeedSame
<1>2. CASE SeedFails \/ UNCHANGED blueGreenVars
  BY <1>2, SeedSame DEF SeedFails, blueGreenVars
<1>3. CASE SeedDump
  <2>1. /\ seeding'.step = "dumped" /\ seeding'.schema = blue.schema /\ green.schema = {}
        /\ UNCHANGED <<blue, green, sub, slot>>
    BY <1>3 DEF SeedDump, RecipientIsSeedable
  <2> QED BY <2>1 DEF SeedInv
<1>4. CASE SeedRestore
  <2>1. /\ green'.schema = seeding.schema /\ seeding'.step = "restored"
        /\ seeding.step = "dumped" /\ UNCHANGED <<blue, sub, slot>>
    BY <1>4 DEF SeedRestore, CutoverType, Greens
  <2> QED BY <2>1 DEF SeedInv
<1>5. CASE SeedSubscribe
  <2>1. /\ sub'.rel = [t \in blue.schema |-> "init"] /\ UNCHANGED <<blue, green>>
        /\ blue.schema \subseteq green.schema /\ seeding'.step = "none"
    BY <1>5 DEF SeedSubscribe
  <2>2. DOMAIN sub'.rel = blue.schema /\ "t" \in blue.schema
    BY <2>1 DEF SeedInv
  <2>3. DOMAIN NoRel = {}
    BY DEF NoRel
  <2>4. sub'.rel # NoRel
    BY <2>2, <2>3
  <2> QED BY <2>1, <2>2, <2>4 DEF SeedInv
<1>6. CASE WipeRecipient
  <2>1. /\ green'.schema = {} /\ sub'.rel = NoRel /\ slot' = None /\ seeding.step = "none"
        /\ UNCHANGED <<blue, seeding>>
    BY <1>6 DEF WipeRecipient, CutoverType, Greens
  <2> QED BY <2>1 DEF SeedInv
<1>7. ASSUME NEW t \in UserTables, CopyTable(t) PROVE SeedInv'
  <2>1. /\ UNCHANGED <<blue, slot, seeding>> /\ green'.schema = green.schema
        /\ sub'.rel = [sub.rel EXCEPT ![t] = "ready"] /\ t \in DOMAIN sub.rel
    BY <1>7 DEF CopyTable, Listed, CutoverType, Greens, Subs
  <2>2. DOMAIN sub'.rel = DOMAIN sub.rel /\ sub.rel # NoRel
    BY <2>1, RelDomain
  <2>3. DOMAIN NoRel = {}
    BY DEF NoRel
  <2>4. sub'.rel # NoRel
    BY <2>1, <2>2, <2>3
  <2> QED BY <2>1, <2>2, <2>4 DEF SeedInv
<1>8. ASSUME NEW t \in UserTables \cup Strays, BlueWrites(t) PROVE SeedInv'
  BY <1>8, SeedSame DEF BlueWrites, CutoverType, Blues
<1>9. CASE ApplyRow
  <2>1. /\ UNCHANGED <<blue.schema, green.schema, sub.rel>> /\ UNCHANGED seeding
        /\ slot # None
    BY <1>9 DEF ApplyRow, CutoverType, Greens, Subs
  <2> QED BY <2>1 DEF SeedInv
<1>10. CASE ToggleSubscription \/ BlueFailsOver \/ GreenWrites
  BY <1>10, SeedSame DEF ToggleSubscription, BlueFailsOver, GreenWrites, CutoverType, Subs,
                         Greens
<1>11. CASE DbaAddsTable
  <2>1. /\ blue'.schema = blue.schema \cup {"u"} /\ UNCHANGED <<green, sub, slot, seeding>>
    BY <1>11 DEF DbaAddsTable, CutoverType, Blues
  <2> QED BY <2>1 DEF SeedInv
<1> QED BY <1>1, <1>2, <1>3, <1>4, <1>5, <1>6, <1>7, <1>8, <1>9, <1>10, <1>11
        DEF BlueGreenNext, DriverStep

-----------------------------------------------------------------------------
(***************************************************************************)
(* Replication.                                                            *)
(***************************************************************************)
LEMMA StreamSame ==
  ASSUME StreamInv, UNCHANGED <<log, blue.stray, sub.applied, sub.rel>>,
         blue.schema \subseteq blue'.schema, green'.schema = green.schema,
         green.rows \subseteq green'.rows, slot' = slot \/ slot' = None,
         checked' = checked \/ blue.stray = {}
  PROVE  StreamInv'
BY DEF StreamInv, SyncComplete, Listed

\* The apply worker skips no row of a table that was copied.
LEMMA StreamStep ==
  ASSUME CutoverLapses = {}, CutoverType, SeedInv, StreamInv, [BlueGreenNext]_blueGreenVars
  PROVE  StreamInv'
<1>0. /\ Len(log) \in Nat /\ DOMAIN log = 1..Len(log) /\ sub.applied \in Nat
      /\ slot \in Int
  BY DEF CutoverType, Subs
<1>1. CASE DriverStep
  <2>1. checked' = checked \/ blue.stray = {}
    BY <1>1 DEF DriverStep, Preflight, ResolvePlan, DriverArms, DriverSeals,
       AwaitRecipientDrain, DrainObserved, AdvanceRecipientSequences, DriverTransfers,
       ReceiveAuthority, VerifySingleAuthority, DriverStops, AbortCutover,
       DrainByHand, TransferByHand, AdvanceByHand, ReceiveByHand
  <2> QED BY <1>1, <2>1, DriverKeeps, StreamSame
<1>2. CASE SeedDump \/ SeedFails \/ ToggleSubscription \/ BlueFailsOver \/ GreenWrites
           \/ UNCHANGED blueGreenVars
  <2>1. /\ UNCHANGED <<log, blue, checked>>
        /\ UNCHANGED <<sub.applied, sub.rel, green.schema, green.rows>>
        /\ slot' = slot \/ slot' = None
    BY <1>2 DEF SeedDump, SeedFails, ToggleSubscription, BlueFailsOver, GreenWrites,
                blueGreenVars, CutoverType, Subs, Greens
  <2> QED BY <2>1, StreamSame
<1>3. CASE SeedRestore
  <2>1. UNCHANGED <<log, blue, checked, sub, slot>> /\ sub.rel = NoRel
    BY <1>3 DEF SeedRestore, SeedInv
  <2> QED BY <2>1 DEF StreamInv
<1>4. CASE SeedSubscribe
  <2>1. /\ UNCHANGED <<log, blue, green, checked>> /\ blue.schema \subseteq green.schema
        /\ sub'.rel = [t \in blue.schema |-> "init"] /\ sub'.applied = Len(log)
        /\ slot' = Len(log)
    BY <1>4 DEF SeedSubscribe
  <2>2. \A t : ~SyncComplete(t)'
    BY <2>1 DEF SyncComplete, Listed
  <2>3. blue.stray \subseteq Strays
    BY DEF CutoverType, Blues
  <2> QED BY <1>0, <2>1, <2>2, <2>3 DEF StreamInv
<1>5. CASE WipeRecipient
  <2>1. UNCHANGED <<log, blue, checked>> /\ sub'.rel = NoRel /\ sub'.applied = 0
        /\ slot' = None
    BY <1>5 DEF WipeRecipient
  <2> QED BY <1>0, <2>1 DEF StreamInv
<1>6. ASSUME NEW t \in UserTables, CopyTable(t) PROVE StreamInv'
  <2>1. /\ UNCHANGED <<log, blue, slot, checked>> /\ green'.schema = green.schema
        /\ sub'.applied = sub.applied
        /\ sub'.rel = [sub.rel EXCEPT ![t] = "ready"] /\ t \in DOMAIN sub.rel
        /\ green'.rows = green.rows \cup {i \in DOMAIN log : log[i] = t}
    BY <1>6 DEF CopyTable, Listed, CutoverType, Greens, Subs
  <2>2. sub.rel # NoRel
    BY <2>1, RelDomain
  <2>3. ASSUME NEW x, SyncComplete(x)', x # t PROVE SyncComplete(x)
    BY <2>1, <2>3, RelDomain DEF SyncComplete, Listed
  <2>4. ASSUME NEW i \in DOMAIN log, i <= sub.applied
        PROVE  /\ log[i] \in green.schema \cup Strays
               /\ SyncComplete(log[i])' => i \in green'.rows
    <3>1. CASE log[i] = t
      BY <2>1, <2>2, <2>4, <3>1 DEF StreamInv
    <3>2. CASE log[i] # t
      <4>1. SyncComplete(log[i])' => SyncComplete(log[i])
        BY <2>1, <2>3, <3>2 DEF SyncComplete, Listed
      <4> QED BY <2>1, <2>2, <2>4, <4>1 DEF StreamInv
    <3> QED BY <3>1, <3>2
  <2> QED BY <1>0, <2>1, <2>4 DEF StreamInv
<1>7. ASSUME NEW t \in UserTables \cup Strays, BlueWrites(t) PROVE StreamInv'
  <2>1. /\ UNCHANGED <<green, sub, slot, checked>> /\ log' = Append(log, t)
        /\ blue'.schema = blue.schema /\ blue'.stray = blue.stray
        /\ t \in blue.schema \cup blue.stray
    BY <1>7 DEF BlueWrites, CutoverType, Blues
  <2>2. /\ Len(log') = Len(log) + 1 /\ DOMAIN log' = 1..(Len(log) + 1)
        /\ \A i \in DOMAIN log : log'[i] = log[i]
        /\ log'[Len(log) + 1] = t
    BY <2>1 DEF CutoverType
  <2>3. \A i \in DOMAIN log' : i \in DOMAIN log \/ i = Len(log) + 1
    BY <1>0, <2>2
  <2>4. \A i \in DOMAIN log' : i <= sub.applied => i \in DOMAIN log
    BY <1>0, <2>2 DEF StreamInv
  <2>5. \A i \in DOMAIN log' : log'[i] \in blue'.schema \cup blue'.stray
    BY <2>1, <2>2, <2>3 DEF StreamInv
  <2>6. \A x : SyncComplete(x)' <=> SyncComplete(x)
    BY <2>1 DEF SyncComplete, Listed
  <2>7. ASSUME NEW i \in DOMAIN log', i <= sub.applied, sub.rel # NoRel
        PROVE  /\ log'[i] \in green.schema \cup Strays
               /\ SyncComplete(log'[i]) => i \in green.rows
    BY <2>2, <2>4, <2>7 DEF StreamInv
  <2>8. ASSUME NEW i \in DOMAIN log', i <= sub.applied, sub.rel # NoRel
        PROVE  SyncComplete(log[i])' => i \in green.rows
    BY <2>1, <2>7, <2>8 DEF SyncComplete, Listed
  <2>9. sub.applied <= Len(log')
    BY <1>0, <2>2 DEF StreamInv
  <2> QED BY <2>1, <2>5, <2>7, <2>8, <2>9 DEF StreamInv
<1>8. CASE ApplyRow
  <2> DEFINE n == sub.applied + 1
  <2>1. /\ UNCHANGED <<log, blue, checked>> /\ sub'.rel = sub.rel /\ sub'.applied = n
        /\ slot' = n /\ slot # None /\ green'.schema = green.schema
        /\ n \in DOMAIN log /\ log[n] \in green.schema \cup Strays
        /\ green.rows \subseteq green'.rows
        /\ SyncComplete(log[n]) => n \in green'.rows
    BY <1>8 DEF ApplyRow, Unpublished, CutoverType, Greens, Subs
  <2>2. \A i \in DOMAIN log : i <= n => i <= sub.applied \/ i = n
    BY <1>0
  <2>3. ASSUME NEW i \in DOMAIN log, i <= n, sub.rel # NoRel
        PROVE  /\ log[i] \in green.schema \cup Strays
               /\ SyncComplete(log[i])' => i \in green'.rows
    <3>1. SyncComplete(log[i])' <=> SyncComplete(log[i])
      BY <2>1 DEF SyncComplete, Listed
    <3> HIDE DEF n
    <3> QED BY <2>1, <2>2, <2>3, <3>1 DEF StreamInv
  <2>4. n <= Len(log)
    BY <1>0, <2>1
  <2> HIDE DEF n
  <2> QED BY <2>1, <2>3, <2>4 DEF StreamInv
<1>9. CASE DbaAddsTable
  <2>1. /\ blue'.schema = blue.schema \cup {"u"} /\ blue'.stray = blue.stray
        /\ UNCHANGED <<log, green, sub, slot, checked>>
    BY <1>9 DEF DbaAddsTable, CutoverType, Blues
  <2> QED BY <2>1, StreamSame
<1> QED BY <1>1, <1>2, <1>3, <1>4, <1>5, <1>6, <1>7, <1>8, <1>9
        DEF BlueGreenNext, DriverStep

-----------------------------------------------------------------------------
(***************************************************************************)
(* The driver.                                                             *)
(***************************************************************************)
LEMMA DriveSame ==
  ASSUME DriveInv, UNCHANGED <<driver, noted, checked, log>>,
         UNCHANGED <<blue.phase, blue.sealed, blue.issued>>,
         UNCHANGED <<green.holds, green.issued, green.first>>,
         Drained => sub'.rel # NoRel /\ green.rows \subseteq green'.rows
  PROVE  DriveInv'
BY DEF DriveInv, Drained, BlueServes

\* What the clusters do by themselves keeps a drained recipient drained.
LEMMA DriveCluster ==
  ASSUME CutoverLapses = {}, CutoverType, SeedInv, SeedInv', StreamInv, DriveInv,
         [BlueGreenNext]_blueGreenVars, ~DriverStep
  PROVE  DriveInv'
<1>0. /\ blue.issued \in Nat /\ green.issued \in Nat /\ green.first \in Int
  BY DEF CutoverType, Blues, Greens
<1>a. BlueServes => ~Drained /\ ~green.holds /\ driver # "receive"
  BY DEF BlueServes, Drained, DriveInv
<1>1. CASE SeedDump \/ SeedFails \/ BlueFailsOver \/ ToggleSubscription
           \/ UNCHANGED blueGreenVars
  <2>1. /\ UNCHANGED <<driver, noted, checked, log, blue, green>> /\ sub'.rel = sub.rel
    BY <1>1 DEF SeedDump, SeedFails, BlueFailsOver, ToggleSubscription, blueGreenVars,
                CutoverType, Subs
  <2> QED BY <2>1, DriveSame DEF DriveInv
<1>2. CASE SeedRestore \/ SeedSubscribe
  <2>1. seeding.step # "none" /\ UNCHANGED <<driver, noted, checked, log, blue>>
        /\ UNCHANGED <<green.holds, green.first>>
    BY <1>2 DEF SeedRestore, SeedSubscribe, CutoverType, Greens
  <2>2. ~Drained /\ ~green.holds
    BY <2>1 DEF SeedInv, DriveInv, Drained
  <2> QED BY <2>1, <2>2 DEF DriveInv, Drained, BlueServes
<1>3. CASE WipeRecipient
  <2>1. UNCHANGED <<driver, noted, checked, log, blue>> /\ ~green.holds /\ BlueServes
        /\ UNCHANGED <<green.holds, green.first>>
    BY <1>3 DEF WipeRecipient, CutoverType, Greens, BlueServes
  <2> QED BY <1>a, <2>1 DEF DriveInv, Drained, BlueServes
<1>4. ASSUME NEW t \in UserTables, CopyTable(t) PROVE DriveInv'
  <2>1. /\ UNCHANGED <<driver, noted, checked, log, blue>>
        /\ UNCHANGED <<green.holds, green.issued, green.first, green.schema>>
        /\ green.rows \subseteq green'.rows
        /\ sub'.rel = [sub.rel EXCEPT ![t] = "ready"] /\ t \in DOMAIN sub.rel
    BY <1>4 DEF CopyTable, Listed, CutoverType, Greens, Subs
  <2>2. DOMAIN sub'.rel # {} /\ DOMAIN NoRel = {}
    BY <2>1 DEF NoRel
  <2>3. sub'.rel # NoRel
    BY <2>2
  <2> QED BY <2>1, <2>3, DriveSame
<1>5. CASE ApplyRow
  <2>1. /\ UNCHANGED <<driver, noted, checked, log, blue>>
        /\ UNCHANGED <<green.holds, green.issued, green.first, sub.rel>>
        /\ green.rows \subseteq green'.rows
    BY <1>5 DEF ApplyRow, CutoverType, Greens, Subs
  <2> QED BY <2>1, DriveSame DEF DriveInv
<1>6. ASSUME NEW t \in UserTables \cup Strays, BlueWrites(t) PROVE DriveInv'
  <2>1. /\ BlueServes /\ UNCHANGED <<driver, noted, checked, green, sub>>
        /\ blue'.phase = blue.phase
    BY <1>6 DEF BlueWrites, CutoverType, Blues
  <2> QED BY <1>a, <2>1 DEF DriveInv, Drained, BlueServes
<1>7. CASE GreenWrites
  <2>1. /\ green.holds /\ UNCHANGED <<driver, noted, checked, log, blue, sub>>
        /\ green'.issued = green.issued + 1 /\ green'.first = green.issued + 1
        /\ UNCHANGED <<green.rows, green.holds>>
    BY <1>7 DEF GreenWrites, CutoverType, Greens
  <2>2. green'.issued > blue.issued /\ green'.first > blue.issued
    BY <1>0, <2>1 DEF DriveInv
  <2> QED BY <2>1, <2>2 DEF DriveInv, Drained, BlueServes
<1>8. CASE DbaAddsTable
  <2>1. /\ UNCHANGED <<driver, noted, checked, log, green, sub>>
        /\ UNCHANGED <<blue.phase, blue.sealed, blue.issued>>
    BY <1>8 DEF DbaAddsTable, CutoverType, Blues
  <2> QED BY <2>1, DriveSame DEF DriveInv
<1> QED BY <1>1, <1>2, <1>3, <1>4, <1>5, <1>6, <1>7, <1>8 DEF BlueGreenNext, DriverStep

\* The drain gate opens once green has every row of blue's log.
LEMMA GateMeansDrained ==
  ASSUME CutoverLapses = {}, CutoverType, SeedInv, StreamInv, DriveInv,
         blue.phase = "Sealed", DrainGate
  PROVE  sub.rel # NoRel /\ DOMAIN log \subseteq green.rows
<1>1. /\ sub.rel # NoRel /\ \A t \in DOMAIN sub.rel : SyncComplete(t)
      /\ MinConfirmed >= blue.sealed
  BY DEF DrainGate
<1>2. /\ Len(log) \in Nat /\ DOMAIN log = 1..Len(log) /\ slot \in Int
      /\ blue.sealed = Len(log)
  BY DEF CutoverType, DriveInv, BlueServes
<1>3. slot # None /\ MinConfirmed = slot
  <2>1. MinConfirmed = IF {slot} \ {None} = {} THEN None ELSE Min({slot} \ {None})
    BY DEF MinConfirmed, OtherSlots
  <2>2. slot # None
    BY <1>1, <1>2, <2>1 DEF None
  <2>3. {slot} \ {None} = {slot}
    BY <2>2
  <2> QED BY <1>2, <2>1, <2>2, <2>3, MinOfOne
<1>4. Len(log) <= sub.applied
  BY <1>1, <1>2, <1>3 DEF StreamInv
<1>5. blue.stray = {} /\ DOMAIN sub.rel = green.schema
  BY <1>1 DEF DriveInv, BlueServes, StreamInv, SeedInv
<1>6. ASSUME NEW i \in DOMAIN log PROVE i \in green.rows
  <2>1. i <= sub.applied
    BY <1>2, <1>4 DEF CutoverType, Subs
  <2>2. log[i] \in blue.schema /\ log[i] \in UserTables
    BY <1>5 DEF StreamInv, CutoverType, Blues
  <2>3. log[i] \notin Strays
    BY <2>2 DEF UserTables, Strays
  <2>4. log[i] \in DOMAIN sub.rel
    BY <1>1, <1>5, <2>1, <2>3 DEF StreamInv
  <2> QED BY <1>1, <2>1, <2>4 DEF StreamInv
<1> QED BY <1>1, <1>6

\* Each step of the driver, one by one.
LEMMA DriveDriver ==
  ASSUME CutoverLapses = {}, CutoverType, SeedInv, StreamInv, DriveInv, DriverStep
  PROVE  DriveInv'
<1>0. /\ blue.issued \in Nat /\ green.issued \in Nat /\ Len(log) \in Nat /\ noted \in Int
  BY DEF CutoverType, Blues, Greens
<1>a. /\ UNCHANGED <<log, sub, blue.issued, green.rows, green.first>>
  BY DriverKeeps
<1>1. CASE Preflight
  BY <1>1 DEF Preflight, DriveInv, Drained, BlueServes, bystanders
<1>2. CASE ResolvePlan
  <2>1. /\ UNCHANGED <<blue, green, checked>> /\ checked /\ driver' = "arm" /\ ~green.holds
    BY <1>2 DEF ResolvePlan
  <2> QED BY <1>a, <2>1 DEF DriveInv, Drained, BlueServes
<1>3. CASE DriverArms
  <2>1. /\ UNCHANGED <<green, checked, noted>> /\ driver = "arm" /\ driver' = "seal"
        /\ blue'.phase = "Armed"
    BY <1>3 DEF DriverArms, CutoverType, Blues
  <2> QED BY <1>a, <2>1 DEF DriveInv, Drained, BlueServes
<1>4. CASE DriverSeals
  <2>1. /\ UNCHANGED <<green, checked, noted>> /\ driver = "seal" /\ driver' = "drain"
        /\ blue'.phase = "Sealed" /\ blue'.sealed = Len(log)
    BY <1>4 DEF DriverSeals, CutoverType, Blues
  <2> QED BY <1>a, <2>1 DEF DriveInv, Drained, BlueServes
<1>5. CASE AwaitRecipientDrain
  <2>1. /\ UNCHANGED <<blue, green, checked, noted>> /\ driver' = "observe"
        /\ blue.phase = "Sealed" /\ DrainGate
    BY <1>5 DEF AwaitRecipientDrain
  <2> QED BY <1>a, <2>1, GateMeansDrained DEF DriveInv, Drained, BlueServes
<1>6. CASE DrainObserved
  <2>1. /\ UNCHANGED <<green, checked, noted>> /\ driver = "observe"
        /\ driver' = "sequences" /\ blue.phase = "Sealed" /\ blue'.phase = "Draining"
        /\ blue'.sealed = blue.sealed
    BY <1>6 DEF DrainObserved, CutoverType, Blues
  <2> QED BY <1>a, <2>1 DEF DriveInv, Drained, BlueServes
<1>7. CASE AdvanceRecipientSequences
  <2>1. /\ UNCHANGED <<blue, checked>> /\ driver = "sequences" /\ driver' = "transfer"
        /\ noted' = blue.issued /\ green'.holds = green.holds
    BY <1>7 DEF AdvanceRecipientSequences, CutoverType, Greens
  <2> QED BY <1>a, <2>1 DEF DriveInv, Drained, BlueServes
<1>8. CASE DriverTransfers
  <2>1. /\ UNCHANGED <<green, checked, noted>> /\ driver = "transfer"
        /\ driver' = "receive" /\ blue.phase = "Draining" /\ blue'.phase = "Transferred"
        /\ blue'.sealed = blue.sealed
    BY <1>8 DEF DriverTransfers, CutoverType, Blues
  <2> QED BY <1>a, <2>1 DEF DriveInv, Drained, BlueServes
<1>9. CASE ReceiveAuthority
  <2>1. /\ UNCHANGED <<blue, checked, noted>> /\ driver = "receive" /\ ~green.holds
        /\ green'.issued = green.issued
        /\ \/ /\ ~SequenceGaps(noted) /\ blue.phase = "Transferred" /\ driver' = "verify"
           \/ green' = green /\ driver' = "none"
    BY <1>9 DEF ReceiveAuthority, CutoverType, Greens
  <2>2. ~SequenceGaps(noted) => green.issued > blue.issued
    BY <1>0, <2>1 DEF SequenceGaps, DriveInv
  <2> QED BY <1>a, <2>1, <2>2 DEF DriveInv, Drained, BlueServes
<1>10. CASE VerifySingleAuthority \/ DriverStops
  <2>1. UNCHANGED <<blue, green, checked, noted>> /\ driver' = "none"
    BY <1>10 DEF VerifySingleAuthority, DriverStops
  <2> QED BY <1>a, <2>1 DEF DriveInv, Drained, BlueServes
<1>11. CASE AbortCutover
  <2>1. /\ UNCHANGED <<green, driver, checked, noted>> /\ blue'.phase = "Aborted"
        /\ blue.phase # "Transferred"
    BY <1>11 DEF AbortCutover, CutoverType, Blues
  <2> QED BY <1>a, <2>1 DEF DriveInv, Drained, BlueServes
<1>12. CASE TransferByHand
  <2>1. /\ UNCHANGED <<green, driver, checked, noted>> /\ blue'.phase = "Transferred"
        /\ blue.phase = "Draining" /\ driver = "none" /\ blue'.sealed = blue.sealed
    BY <1>12 DEF TransferByHand, CutoverType, Blues
  <2> QED BY <1>a, <2>1 DEF DriveInv, Drained, BlueServes
<1>13. CASE AdvanceByHand
  <2>1. /\ UNCHANGED <<blue, driver, checked, noted>> /\ ~green.holds
        /\ green'.holds = green.holds
    BY <1>13 DEF AdvanceByHand, CutoverType, Greens
  <2> QED BY <1>a, <2>1 DEF DriveInv, Drained, BlueServes
<1>15. CASE DrainByHand
  <2>1. /\ UNCHANGED <<green, driver, checked, noted>> /\ blue'.phase = "Draining"
        /\ blue.phase = "Sealed" /\ DrainGate /\ blue'.sealed = blue.sealed
    BY <1>15 DEF DrainByHand, CutoverType, Blues
  <2> QED BY <1>a, <2>1, GateMeansDrained DEF DriveInv, Drained, BlueServes
<1>14. ASSUME NEW listed, ReceiveByHand(listed) PROVE DriveInv'
  <2>1. /\ UNCHANGED <<blue, green, checked>> /\ blue.phase = "Transferred"
        /\ driver' = "receive" /\ noted' \in {None, blue.issued} /\ ~green.holds
    BY <1>14 DEF ReceiveByHand
  <2> QED BY <1>a, <2>1 DEF DriveInv, Drained, BlueServes
<1> QED BY <1>1, <1>2, <1>3, <1>4, <1>5, <1>6, <1>7, <1>8, <1>9, <1>10, <1>11, <1>12,
           <1>13, <1>14, <1>15 DEF DriverStep

\* The inductive invariant of the blue/green cutover.
LEMMA BlueGreenInvariant ==
  ASSUME CutoverLapses = {}
  PROVE  BlueGreenSpec => []BlueGreenInv
<1>1. BlueGreenInit => BlueGreenInv
  <2> SUFFICES ASSUME BlueGreenInit PROVE BlueGreenInv
    OBVIOUS
  <2>1. /\ log = << >> /\ blue.schema = {"t"} /\ blue.phase = "Idle"
        /\ green.schema = {} /\ ~green.holds /\ green.first = None
        /\ sub.rel = NoRel /\ sub.applied = 0 /\ slot = None
        /\ seeding = [step |-> "none"] /\ driver = "none" /\ ~checked /\ noted = None
    BY DEF BlueGreenInit
  <2>2. blue \in Blues
    BY DEF BlueGreenInit, Blues, UserTables, None
  <2>3. green \in Greens
    BY DEF BlueGreenInit, Greens, None
  <2>4. sub \in Subs
    BY NoRelType DEF BlueGreenInit, Subs
  <2>5. CutoverType
    BY <2>1, <2>2, <2>3, <2>4 DEF CutoverType, None
  <2>6. SeedInv
    BY <2>1 DEF SeedInv
  <2>7. StreamInv
    BY <2>1 DEF StreamInv
  <2>8. DriveInv
    BY <2>1 DEF DriveInv, Drained, BlueServes
  <2> QED BY <2>5, <2>6, <2>7, <2>8 DEF BlueGreenInv
<1>2. BlueGreenInv /\ [BlueGreenNext]_blueGreenVars => BlueGreenInv'
  <2> SUFFICES ASSUME BlueGreenInv, [BlueGreenNext]_blueGreenVars PROVE BlueGreenInv'
    OBVIOUS
  <2>1. CutoverType' /\ SeedInv' /\ StreamInv'
    BY CutoverTypeStep, SeedStep, StreamStep DEF BlueGreenInv
  <2>2. DriveInv'
    BY <2>1, DriveCluster, DriveDriver DEF BlueGreenInv
  <2> QED BY <2>1, <2>2 DEF BlueGreenInv
<1> QED BY <1>1, <1>2, PTL DEF BlueGreenSpec

(***************************************************************************)
(* Green serves clients only with every row blue acknowledged, for a log   *)
(* of any length and any number of seeds, wipes, failovers of blue and     *)
(* drivers that stop at any step, as long as no operator does what the     *)
(* gates do not notice; an operator may report the drain by hand, after    *)
(* looking at the tables' copies as the driver does (contract U2:          *)
(* drain_gate, cutover_drain_observed).                                    *)
(***************************************************************************)
THEOREM GreenHasAllRows ==
  ASSUME CutoverLapses = {}
  PROVE  BlueGreenSpec => []AckedReachesGreen
<1>1. BlueGreenInv => AckedReachesGreen
  BY DEF BlueGreenInv, DriveInv, Drained, AckedReachesGreen
<1> QED BY <1>1, BlueGreenInvariant, PTL

(***************************************************************************)
(* The first value green's sequence gives a client is one blue never gave  *)
(* and never will, whatever the margin and whoever finishes the cutover,   *)
(* with the donor's final values at hand or with none (contract U3:        *)
(* advance_sequences, sequence_gaps).                                      *)
(***************************************************************************)
THEOREM SequencesStayDisjoint ==
  ASSUME CutoverLapses = {}
  PROVE  BlueGreenSpec => []SequencesDisjoint
<1>1. BlueGreenInv => SequencesDisjoint
  BY DEF BlueGreenInv, DriveInv, BlueServes, SequencesDisjoint
<1> QED BY <1>1, BlueGreenInvariant, PTL

-----------------------------------------------------------------------------
(* The rolling upgrade. *)

Files == {"v1", "v2"}

Installs ==
  [at : {"none", "asked", "staged", "moved", "placed", "failed"},
   got : {"none", Target}, verify : {TRUE}]

Commands ==
  [pc : {"none", "next", "safe", "version", "post", "answer", "version back", "streaming",
         "transfer", "new leader", "postflight"},
   cur : RollNodes \cup {NoNode}, left : SUBSET RollNodes, boss : RollNodes \cup {NoNode},
   via : RollNodes \cup {NoNode}, seen : [RollNodes -> Files], insecure : BOOLEAN]

\* What every part of the roll's state may hold.  No file but the release the
\* nodes ran and the target gets past the checks, and every install checks.
RollType ==
  /\ chief \in RollNodes \cup {NoNode}
  /\ alive \in [RollNodes -> BOOLEAN]
  /\ replication \in [RollNodes -> {"off", "streams", "synced"}]
  /\ version \in [RollNodes -> Files]
  /\ exe \in [RollNodes -> Files \cup {"none"}]
  /\ aside \in [RollNodes -> Files \cup {"none"}]
  /\ install \in [RollNodes -> Installs] /\ command \in Commands
  /\ upsets \in Nat

\* A node always has a file to start, and a new one before the old one goes.
FileInv ==
  \A n \in RollNodes :
    /\ exe[n] # "none" \/ aside[n] # "none"
    /\ install[n].at \in {"staged", "moved"} => install[n].got = Target

\* A node that is down or on its way down.
Busy(n) == ~alive[n] \/ install[n].at # "none"

\* A standby in sync that is not n.
OtherSynced(n) == \E m \in RollNodes \ {n, chief} : replication[m] = "synced"

\* One node at a time goes, never the leader, and another standby is in sync
\* from the check on until the node is back.
BounceInv ==
  /\ chief \in RollNodes
  /\ command.pc \in {"safe", "version", "post", "answer", "version back", "streaming"} =>
       command.cur \in RollNodes
  /\ command.pc # "none" => command.boss \in RollNodes
  /\ \A m, n \in RollNodes : Busy(m) /\ Busy(n) => m = n
  /\ \A n \in RollNodes : Busy(n) =>
       /\ n # chief /\ OtherSynced(n)
       /\ command.pc \in {"none", "answer", "version back"}
       /\ command.pc # "none" => n = command.cur
       /\ command.pc = "version back" => install[n].at = "none"
  /\ command.pc \in {"version", "post"} => OtherSynced(command.cur)

RollInv == RollType /\ FileInv /\ (upsets = 0 => BounceInv)

\* No answer of a server gets another file than the target past the checks: a
\* signature that chains and names the tag is over the tag's own build.
LEMMA OnlyTargetAccepted == Accepted[TRUE] \subseteq {Target}
<1> SUFFICES ASSUME NEW file \in Accepted[TRUE] PROVE file = Target
  OBVIOUS
<1>1. \/ \E b \in Bundles : ReleaseVerifies(file, {b}, {})
      \/ \E s \in Signatures : ReleaseVerifies(file, {}, {s})
  BY DEF Accepted
<1>2. ASSUME NEW s \in Signatures, BlobVerifies(file, s) PROVE file = Target
  BY <1>2 DEF BlobVerifies, Signatures
<1>3. ASSUME NEW b \in Bundles, ReleaseVerifies(file, {b}, {}) PROVE file = Target
  <2>1. BlobVerifies(file, b.sig) /\ b.sig \in Signatures
    BY <1>3 DEF ReleaseVerifies, BundleVerifies, Bundles
  <2> QED BY <1>2, <2>1
<1>4. ASSUME NEW s \in Signatures, ReleaseVerifies(file, {}, {s}) PROVE file = Target
  BY <1>2, <1>4 DEF ReleaseVerifies
<1> QED BY <1>1, <1>3, <1>4

\* No roll is going on.
LEMMA NoCommandType == NoCommand \in Commands /\ NoCommand.pc = "none"
BY DEF NoCommand, Commands, Files

\* No install is going on.
LEMMA NoInstallType == NoInstall \in Installs /\ NoInstall.at = "none"
BY DEF NoInstall, Installs

\* What an install writes of itself.
LEMMA PutType ==
  ASSUME RollType, NEW n \in RollNodes,
         NEW at \in {"none", "asked", "staged", "moved", "placed", "failed"},
         NEW got \in {"none", Target}, Put(n, at, got)
  PROVE  /\ install' \in [RollNodes -> Installs]
         /\ install'[n].at = at /\ install'[n].got = got
         /\ \A m \in RollNodes \ {n} : install'[m] = install[m]
<1>1. install[n] \in Installs
  BY DEF RollType
<1> DEFINE r == [install[n] EXCEPT !.at = at, !.got = got]
<1>2. r \in Installs /\ r.at = at /\ r.got = got
  BY <1>1 DEF Installs
<1>3. install' = [install EXCEPT ![n] = r]
  BY DEF Put
<1> HIDE DEF r
<1> QED BY <1>2, <1>3 DEF RollType

\* The command moves on, or ends.
LEMMA AtType ==
  ASSUME RollType,
         NEW pc \in {"none", "next", "safe", "version", "post", "answer", "version back",
                     "streaming", "transfer", "new leader", "postflight"},
         At(pc)
  PROVE  /\ command' \in Commands /\ command'.pc = pc /\ command'.cur = command.cur
         /\ command'.boss = command.boss
BY DEF RollType, Commands, At

-----------------------------------------------------------------------------
(***************************************************************************)
(* The steps of an install, of the cluster around it, and of the command.  *)
(***************************************************************************)
InstallStep(n) ==
  Download(n) \/ MoveAside(n) \/ Place(n) \/ StopForRestart(n) \/ AnswerFailure(n)

ClusterStep(n) == Restart(n) \/ Follow(n) \/ Elect(n) \/ FallBehind(n) \/ Crash(n)

CommandStep ==
  \/ \E insecure \in BOOLEAN : Begin(insecure)
  \/ NextFollower \/ WaitUntilSafe \/ ExpectUnchanged \/ PostSelfUpgrade
  \/ WaitForNodeVersion \/ WaitForStreaming
  \/ TransferLeadership \/ WaitForNewLeader \/ Postflight \/ TimeOut

\* The handler keeps a whole release on disk at each of its renames.
LEMMA InstallTypes ==
  ASSUME RollType, FileInv, NEW n \in RollNodes, InstallStep(n)
  PROVE  RollType' /\ FileInv'
<1> USE DEF files, counts
<1>0. /\ install[n] \in Installs /\ install[n].got \in {"none", Target}
      /\ install[n].verify = TRUE
  BY DEF RollType, Installs
<1>1. CASE Download(n)
  <2>1. \/ \E file \in Accepted[TRUE] : Put(n, "staged", file)
        \/ Put(n, "failed", "none")
    BY <1>0, <1>1 DEF Download
  <2>2. Put(n, "staged", Target) \/ Put(n, "failed", "none")
    BY <2>1, OnlyTargetAccepted
  <2>3. /\ install' \in [RollNodes -> Installs]
        /\ install'[n].at \in {"staged", "moved"} => install'[n].got = Target
        /\ \A m \in RollNodes \ {n} : install'[m] = install[m]
    BY <2>2, PutType
  <2>4. UNCHANGED <<chief, alive, replication, version, exe, aside, command, upsets>>
    BY <1>1 DEF Download
  <2> QED BY <2>3, <2>4 DEF RollType, FileInv
<1>2. CASE MoveAside(n)
  <2>1. \/ Put(n, "moved", install[n].got) \/ Put(n, "failed", "none")
    BY <1>2 DEF MoveAside
  <2>2. install[n].got = Target
    BY <1>2 DEF MoveAside, FileInv
  <2>3. /\ install' \in [RollNodes -> Installs]
        /\ install'[n].at \in {"staged", "moved"} => install'[n].got = Target
        /\ \A m \in RollNodes \ {n} : install'[m] = install[m]
    BY <2>1, <2>2, PutType
  <2>4. UNCHANGED <<chief, alive, replication, version, command, upsets>>
    BY <1>2 DEF MoveAside
  <2>5. \/ UNCHANGED <<exe, aside>>
        \/ /\ exe[n] # "none" /\ aside' = [aside EXCEPT ![n] = exe[n]]
           /\ exe' = [exe EXCEPT ![n] = "none"]
    BY <1>2 DEF MoveAside
  <2>6. /\ exe' \in [RollNodes -> Files \cup {"none"}]
        /\ aside' \in [RollNodes -> Files \cup {"none"}]
        /\ \A m \in RollNodes : exe'[m] # "none" \/ aside'[m] # "none"
    BY <2>5 DEF RollType, FileInv
  <2> QED BY <2>3, <2>4, <2>6 DEF RollType, FileInv
<1>3. CASE Place(n)
  <2>1. Put(n, "placed", "none") \/ Put(n, "failed", "none")
    BY <1>3 DEF Place
  <2>2. install[n].got = Target
    BY <1>3 DEF Place, FileInv
  <2>3. /\ install' \in [RollNodes -> Installs]
        /\ install'[n].at \in {"staged", "moved"} => install'[n].got = Target
        /\ \A m \in RollNodes \ {n} : install'[m] = install[m]
    BY <2>1, PutType
  <2>4. UNCHANGED <<chief, alive, replication, version, command, upsets>>
    BY <1>3 DEF Place
  <2>5. \/ UNCHANGED <<exe, aside>>
        \/ exe' = [exe EXCEPT ![n] = Target] /\ UNCHANGED aside
        \/ /\ aside[n] # "none" /\ exe' = [exe EXCEPT ![n] = aside[n]]
           /\ aside' = [aside EXCEPT ![n] = "none"]
    BY <1>3, <2>2 DEF Place
  <2>6. /\ exe' \in [RollNodes -> Files \cup {"none"}]
        /\ aside' \in [RollNodes -> Files \cup {"none"}]
        /\ \A m \in RollNodes : exe'[m] # "none" \/ aside'[m] # "none"
    BY <2>5 DEF RollType, FileInv, Files, Target
  <2> QED BY <2>3, <2>4, <2>6 DEF RollType, FileInv
<1>4. CASE StopForRestart(n) \/ AnswerFailure(n)
  <2>1. install' = [install EXCEPT ![n] = NoInstall] /\ UNCHANGED <<version, exe, aside, upsets>>
    BY <1>4 DEF StopForRestart, AnswerFailure
  <2>2. /\ install' \in [RollNodes -> Installs] /\ install'[n].at = "none"
        /\ \A m \in RollNodes \ {n} : install'[m] = install[m]
    BY <2>1, NoInstallType DEF RollType
  <2>3. command' \in Commands
    <3>1. command \in Commands /\ [command EXCEPT !.pc = "version back"] \in Commands
      BY DEF RollType, Commands
    <3>2. command' \in {command, NoCommand, [command EXCEPT !.pc = "version back"]}
      BY <1>4 DEF StopForRestart, AnswerFailure
    <3> QED BY <3>1, <3>2, NoCommandType
  <2>4. /\ chief' \in RollNodes \cup {NoNode} /\ alive' \in [RollNodes -> BOOLEAN]
        /\ replication' \in [RollNodes -> {"off", "streams", "synced"}]
    BY <1>4 DEF StopForRestart, AnswerFailure, RollType
  <2> QED BY <2>1, <2>2, <2>3, <2>4 DEF RollType, FileInv
<1> QED BY <1>1, <1>2, <1>3, <1>4 DEF InstallStep

\* Restarts, elections and crashes leave the files alone.
LEMMA ClusterTypes ==
  ASSUME RollType, FileInv, NEW n \in RollNodes, ClusterStep(n)
  PROVE  RollType' /\ FileInv'
<1> USE DEF files, counts
<1>1. CASE Restart(n)
  BY <1>1 DEF Restart, RollType, FileInv
<1>2. CASE Follow(n)
  BY <1>2 DEF Follow, RollType, FileInv
<1>3. CASE Elect(n)
  BY <1>3 DEF Elect, Lead, Upset, RollType, FileInv
<1>4. CASE FallBehind(n)
  BY <1>4 DEF FallBehind, Upset, RollType, FileInv
<1>5. CASE Crash(n)
  <2>1. install' = [install EXCEPT ![n] = NoInstall]
        /\ UNCHANGED <<version, exe, aside, command>> /\ upsets' \in Nat
    BY <1>5 DEF Crash, Upset, RollType
  <2>2. /\ install' \in [RollNodes -> Installs] /\ install'[n].at = "none"
        /\ \A m \in RollNodes \ {n} : install'[m] = install[m]
    BY <2>1, NoInstallType DEF RollType
  <2>3. /\ chief' \in RollNodes \cup {NoNode} /\ alive' \in [RollNodes -> BOOLEAN]
        /\ replication' \in [RollNodes -> {"off", "streams", "synced"}]
    BY <1>5 DEF Crash, RollType
  <2> QED BY <2>1, <2>2, <2>3 DEF RollType, FileInv
<1> QED BY <1>1, <1>2, <1>3, <1>4, <1>5 DEF ClusterStep

\* The roll touches no file.
LEMMA CommandTypes ==
  ASSUME RollType, FileInv, CommandStep
  PROVE  RollType' /\ FileInv'
<1> USE DEF files, counts
<1>0. /\ command \in Commands /\ NoCommand \in Commands
  BY NoCommandType DEF RollType
<1>1. UNCHANGED <<alive, version, exe, aside, upsets>>
  BY DEF CommandStep, Begin, NextFollower, WaitUntilSafe, ExpectUnchanged,
     PostSelfUpgrade, WaitForNodeVersion, WaitForStreaming, TransferLeadership,
     WaitForNewLeader, Postflight, TimeOut
<1>2. /\ chief' \in RollNodes \cup {NoNode}
      /\ replication' \in [RollNodes -> {"off", "streams", "synced"}]
  BY DEF CommandStep, Begin, NextFollower, WaitUntilSafe, ExpectUnchanged,
     PostSelfUpgrade, WaitForNodeVersion, WaitForStreaming, TransferLeadership, Lead,
     WaitForNewLeader, Postflight, TimeOut, RollType
<1>3. command' \in Commands
  <2>1. ASSUME NEW insecure \in BOOLEAN, Begin(insecure) PROVE command' \in Commands
    BY <2>1 DEF Begin, Commands, RollType, NodesNeedingUpgrade
  <2>2. CASE NextFollower
    <3>1. CASE At("transfer")
      BY <3>1, AtType
    <3>2. ASSUME NEW n \in command.left,
                 command' = [command EXCEPT !.pc = "safe", !.cur = n, !.left = @ \ {n}]
          PROVE  command' \in Commands
      <4>1. n \in RollNodes /\ command.left \ {n} \subseteq RollNodes
        BY <1>0 DEF Commands
      <4> QED BY <3>2, <4>1, <1>0 DEF Commands
    <3> QED BY <2>2, <3>1, <3>2 DEF NextFollower
  <2>3. CASE WaitUntilSafe \/ WaitForNodeVersion
    BY <2>3, <1>0 DEF WaitUntilSafe, WaitForNodeVersion, At, Commands
  <2>4. CASE ExpectUnchanged \/ PostSelfUpgrade
    BY <2>4, <1>0 DEF ExpectUnchanged, PostSelfUpgrade, GiveUp, At, Commands
  <2>5. CASE WaitForStreaming
    <3>1. At("postflight") \/ At("next")
      BY <2>5 DEF WaitForStreaming
    <3> QED BY <3>1, AtType
  <2>6. CASE TransferLeadership
    <3>1. At("postflight") \/ At("new leader") \/ command' = NoCommand
      BY <2>6 DEF TransferLeadership, GiveUp
    <3> QED BY <1>0, <3>1, AtType
  <2>7. CASE WaitForNewLeader
    <3>1. chief \in RollNodes \cup {NoNode}
      BY DEF RollType
    <3> QED BY <2>7, <1>0, <3>1 DEF WaitForNewLeader, Commands
  <2>8. CASE Postflight \/ TimeOut
    BY <2>8, <1>0 DEF Postflight, TimeOut, GiveUp
  <2> QED BY <2>1, <2>2, <2>3, <2>4, <2>5, <2>6, <2>7, <2>8 DEF CommandStep
<1>4. CASE PostSelfUpgrade /\ UNCHANGED install
  BY <1>1, <1>2, <1>3, <1>4 DEF RollType, FileInv
<1>5. CASE PostSelfUpgrade /\ ~UNCHANGED install
  <2>1. ~command.insecure
    BY <1>5 DEF PostSelfUpgrade, Admits, UnverifiedWithoutConsent
  <2> DEFINE r == [at |-> "asked", got |-> "none", verify |-> ~command.insecure]
  <2>2. r \in Installs /\ r.at = "asked"
    BY <2>1 DEF Installs
  <2>3. install' = [install EXCEPT ![command.cur] = r]
    BY <1>5 DEF PostSelfUpgrade
  <2> HIDE DEF r
  <2>4. /\ install' \in [RollNodes -> Installs]
        /\ \A m \in RollNodes : install'[m] = install[m] \/ install'[m].at = "asked"
    BY <2>2, <2>3 DEF RollType
  <2> QED BY <1>1, <1>2, <1>3, <2>4 DEF RollType, FileInv
<1>6. CASE ~PostSelfUpgrade
  <2>1. UNCHANGED install
    BY <1>6 DEF CommandStep, Begin, NextFollower, WaitUntilSafe, ExpectUnchanged,
       WaitForNodeVersion, WaitForStreaming, TransferLeadership,
       WaitForNewLeader, Postflight, TimeOut
  <2> QED BY <1>1, <1>2, <1>3, <2>1 DEF RollType, FileInv
<1> QED BY <1>4, <1>5, <1>6

-----------------------------------------------------------------------------
(***************************************************************************)
(* One node at a time.                                                     *)
(***************************************************************************)
LEMMA OtherSyncedSame ==
  ASSUME NEW n, chief' = chief, OtherSynced(n),
         \A m \in RollNodes \ {n} : replication[m] = "synced" => replication'[m] = "synced"
  PROVE  \E m \in RollNodes \ {n, chief'} : replication'[m] = "synced"
BY DEF OtherSynced

\* What an install does to the nodes that are on their way down.
LEMMA BounceInstall ==
  ASSUME RollType, BounceInv, NEW n \in RollNodes, InstallStep(n)
  PROVE  BounceInv'
<1> USE DEF files, counts
<1>0. install[n].at # "none" /\ Busy(n)
  BY DEF InstallStep, Download, MoveAside, Place, StopForRestart, AnswerFailure, Busy
<1>1. /\ n # chief /\ OtherSynced(n) /\ command.pc \in {"none", "answer", "version back"}
      /\ command.pc # "none" => n = command.cur
      /\ command.pc = "version back" => install[n].at = "none"
      /\ \A m \in RollNodes : Busy(m) => m = n
  BY <1>0 DEF BounceInv
<1>2. /\ chief' = chief /\ \A m \in RollNodes \ {n} : Busy(m)' <=> Busy(m)
      /\ \A m \in RollNodes \ {n} : replication'[m] = replication[m]
  <2>1. CASE Download(n) \/ MoveAside(n) \/ Place(n)
    <3>1. UNCHANGED <<chief, alive, replication>>
          /\ \E at, got : Put(n, at, got)
      BY <2>1 DEF Download, MoveAside, Place
    <3>2. \A m \in RollNodes \ {n} : install'[m] = install[m]
      BY <3>1 DEF Put, RollType
    <3> QED BY <3>1, <3>2 DEF Busy
  <2>2. CASE StopForRestart(n) \/ AnswerFailure(n)
    <3>1. /\ chief' = chief /\ install' = [install EXCEPT ![n] = NoInstall]
          /\ alive' = alive \/ alive' = [alive EXCEPT ![n] = FALSE]
          /\ replication' = replication \/ replication' = [replication EXCEPT ![n] = "off"]
      BY <1>1, <2>2 DEF StopForRestart, AnswerFailure
    <3> QED BY <3>1 DEF Busy, RollType
  <2> QED BY <2>1, <2>2 DEF InstallStep
<1>3. \A m \in RollNodes : Busy(m)' => m = n
  BY <1>1, <1>2
<1>4. OtherSynced(n)'
  BY <1>1, <1>2, OtherSyncedSame DEF OtherSynced
<1>5. \/ UNCHANGED command
      \/ command'.pc = "none" 
      \/ command'.pc = "version back" /\ command'.cur = command.cur /\ command.pc = "answer"
         /\ command'.boss = command.boss /\ install'[n].at = "none"
  <2>1. CASE Download(n) \/ MoveAside(n) \/ Place(n)
    BY <2>1 DEF Download, MoveAside, Place
  <2>2. CASE StopForRestart(n)
    <3>1. install'[n] = NoInstall
      BY <2>2 DEF StopForRestart, RollType
    <3>2. [command EXCEPT !.pc = "version back"].pc = "version back"
          /\ [command EXCEPT !.pc = "version back"].cur = command.cur
          /\ [command EXCEPT !.pc = "version back"].boss = command.boss
      BY DEF RollType, Commands
    <3> QED BY <2>2, <3>1, <3>2, NoInstallType DEF StopForRestart
  <2>3. CASE AnswerFailure(n)
    BY <2>3, NoCommandType DEF AnswerFailure
  <2> QED BY <2>1, <2>2, <2>3 DEF InstallStep
<1>6. /\ command'.pc \in {"none", "answer", "version back"}
      /\ command'.pc # "none" =>
           n = command'.cur /\ command'.cur \in RollNodes /\ command'.boss \in RollNodes
      /\ command'.pc = "version back" => install'[n].at = "none"
  <2>1. command.pc # "none" => command.boss \in RollNodes
    BY DEF BounceInv
  <2>2. CASE UNCHANGED command
    <3>1. command'.pc = command.pc /\ command'.cur = command.cur /\ command'.boss = command.boss
      BY <2>2
    <3> QED BY <3>1, <2>1, <1>0, <1>1
  <2>3. CASE command'.pc = "none"
    BY <2>3
  <2>4. CASE command'.pc = "version back" /\ command'.cur = command.cur /\ command.pc = "answer"
             /\ command'.boss = command.boss /\ install'[n].at = "none"
    BY <2>4, <2>1, <1>1
  <2> QED BY <1>5, <2>2, <2>3, <2>4
<1> QED BY <1>1, <1>2, <1>3, <1>4, <1>6 DEF BounceInv

\* While nothing upsets the cluster, a node comes back or a standby catches up.
LEMMA BounceCluster ==
  ASSUME RollType, BounceInv, upsets = 0, NEW n \in RollNodes, ClusterStep(n)
  PROVE  upsets' = 0 => BounceInv'
<1> USE DEF files, counts
<1>1. CASE Restart(n)
  <2>1. /\ UNCHANGED <<chief, replication, install, command>>
        /\ \A m \in RollNodes : Busy(m)' => Busy(m)
    BY <1>1 DEF Restart, Busy, RollType
  <2>2. \A m : OtherSynced(m) => OtherSynced(m)'
    BY <2>1 DEF OtherSynced
  <2>3. OtherSynced(command.cur) => OtherSynced(command.cur)'
    BY <2>1 DEF OtherSynced
  <2> QED BY <2>1, <2>2, <2>3 DEF BounceInv
<1>2. CASE Follow(n)
  <2>1. /\ UNCHANGED <<chief, alive, install, command>>
        /\ \A m \in RollNodes : replication[m] = "synced" => replication'[m] = "synced"
    BY <1>2 DEF Follow, RollType
  <2>2. \A m : OtherSynced(m) => OtherSynced(m)'
    BY <2>1 DEF OtherSynced
  <2>3. OtherSynced(command.cur) => OtherSynced(command.cur)'
    BY <2>1 DEF OtherSynced
  <2>4. \A m \in RollNodes : Busy(m)' <=> Busy(m)
    BY <2>1 DEF Busy
  <2> QED BY <2>1, <2>2, <2>3, <2>4 DEF BounceInv
<1>3. CASE Elect(n) \/ FallBehind(n) \/ Crash(n)
  <2>1. chief # NoNode
    BY RollingUpgradeAssumption DEF BounceInv
  <2>2. upsets' = upsets + 1
    BY <1>3, <2>1 DEF Elect, FallBehind, Crash, Upset
  <2> QED BY <2>2
<1> QED BY <1>1, <1>2, <1>3 DEF ClusterStep

\* A command moves on when no node is down, or only the one it waits for.
LEMMA BounceCommand ==
  ASSUME ~Impatient, RollType, BounceInv, CommandStep
  PROVE  BounceInv'
<1> USE DEF files, counts
<1>0. command \in Commands /\ chief \in RollNodes
  BY DEF RollType, BounceInv
\* The command alone changes.
<1>a. ASSUME UNCHANGED <<chief, alive, replication, install>>,
             \/ command'.pc = "none"
             \/ /\ \A n \in RollNodes : ~Busy(n)
                /\ command'.boss \in RollNodes
                /\ command'.pc \in {"safe", "version", "post", "answer", "version back", "streaming"}
                     => command'.cur \in RollNodes
                /\ command'.pc \in {"version", "post"} => OtherSynced(command'.cur)
      PROVE  BounceInv'
  <2>1. \A n \in RollNodes : Busy(n)' <=> Busy(n)
    BY <1>a DEF Busy
  <2>2. \A n : OtherSynced(n)' <=> OtherSynced(n)
    BY <1>a DEF OtherSynced
  <2>3. OtherSynced(command.cur)' <=> OtherSynced(command'.cur)
    BY <1>a DEF OtherSynced
  <2>4. CASE command'.pc = "none"
    BY <1>a, <2>1, <2>2, <2>4 DEF BounceInv
  <2>5. CASE command'.pc # "none"
    BY <1>a, <2>1, <2>2, <2>3, <2>5 DEF BounceInv
  <2> QED BY <2>4, <2>5
<1>b. command.pc \notin {"none", "answer", "version back"} => \A n \in RollNodes : ~Busy(n)
  BY DEF BounceInv
<1>1. ASSUME NEW insecure \in BOOLEAN, Begin(insecure) PROVE BounceInv'
  <2>1. /\ UNCHANGED <<chief, alive, replication, install>>
        /\ command'.pc = "next" /\ command'.boss = chief
        /\ \A n \in RollNodes : alive[n] /\ install[n].at = "none"
    BY <1>1 DEF Begin, DoctorStrict, NodesConnect, Up
  <2> QED BY <1>0, <1>a, <2>1 DEF Busy
<1>2. CASE NextFollower
  <2>1. /\ UNCHANGED <<chief, alive, replication, install>> /\ command.pc = "next"
    BY <1>2 DEF NextFollower
  <2>2. /\ command'.boss = command.boss
        /\ \/ command'.pc = "transfer"
           \/ command'.pc = "safe" /\ command'.cur \in RollNodes
    BY <1>0, <1>2 DEF NextFollower, At, Commands
  <2> QED BY <1>a, <1>b, <2>1, <2>2 DEF BounceInv
<1>3. CASE WaitUntilSafe
  <2>1. /\ UNCHANGED <<chief, alive, replication, install>> /\ command.pc = "safe"
        /\ At("version") /\ SafeToBounce(command.cur)
    BY <1>3 DEF WaitUntilSafe
  <2>2. OtherSynced(command.cur)
    BY <2>1 DEF SafeToBounce, Synced, OtherSynced
  <2>3. command'.pc = "version" /\ command'.cur = command.cur /\ command'.boss = command.boss
    BY <2>1, AtType
  <2> QED BY <1>a, <1>b, <2>1, <2>2, <2>3 DEF BounceInv
<1>4. CASE ExpectUnchanged
  <2>1. /\ UNCHANGED <<chief, alive, replication, install>> /\ command.pc = "version"
        /\ At("post") \/ command' = NoCommand
    BY <1>4 DEF ExpectUnchanged, GiveUp
  <2>2. CASE command' = NoCommand
    BY <1>a, <2>1, <2>2, NoCommandType
  <2>3. CASE At("post")
    <3>1. command'.pc = "post" /\ command'.cur = command.cur /\ command'.boss = command.boss
      BY <2>3, AtType
    <3> QED BY <1>a, <1>b, <2>1, <3>1 DEF BounceInv
  <2> QED BY <2>1, <2>2, <2>3
<1>5. CASE PostSelfUpgrade
  <2>1. UNCHANGED <<chief, alive, replication>> /\ command.pc = "post"
    BY <1>5 DEF PostSelfUpgrade
  <2>2. CASE UNCHANGED install /\ command' = NoCommand
    BY <1>a, <2>1, <2>2, NoCommandType
  <2>3. CASE /\ Admits(command.cur, command.insecure) /\ alive[command.cur] /\ At("answer")
             /\ install' = [install EXCEPT ![command.cur] =
                              [at |-> "asked", got |-> "none", verify |-> ~command.insecure]]
    <3>1. command'.pc = "answer" /\ command'.cur = command.cur /\ command'.boss = command.boss
      BY <2>3, AtType
    <3>2. command.cur \in RollNodes /\ command.boss \in RollNodes /\ OtherSynced(command.cur)
          /\ command.cur # chief
      BY <2>1, <2>3 DEF BounceInv, Admits, RefusedOnLeader
    <3>3. \A n \in RollNodes : Busy(n)' => n = command.cur
      BY <1>b, <2>1, <2>3 DEF Busy, RollType
    <3>4. OtherSynced(command.cur)'
      BY <2>1, <3>1, <3>2 DEF OtherSynced
    <3>5. \A n \in RollNodes : n = command.cur => OtherSynced(n)'
      BY <2>1, <3>2 DEF OtherSynced
    <3> QED BY <1>0, <2>1, <3>1, <3>2, <3>3, <3>5 DEF BounceInv
  <2> QED BY <1>5, <2>2, <2>3 DEF PostSelfUpgrade, GiveUp
<1>6. CASE WaitForNodeVersion
  <2>1. /\ UNCHANGED <<chief, alive, replication, install>> /\ command.pc = "version back"
        /\ alive[command.cur] /\ At("streaming")
    BY <1>6 DEF WaitForNodeVersion
  <2>2. \A n \in RollNodes : ~Busy(n)
    BY <2>1 DEF BounceInv, Busy
  <2>3. command'.pc = "streaming" /\ command'.cur = command.cur /\ command'.boss = command.boss
    BY <2>1, AtType
  <2> QED BY <1>a, <2>1, <2>2, <2>3 DEF BounceInv
<1>7. CASE WaitForStreaming
  <2>1. /\ UNCHANGED <<chief, alive, replication, install>> /\ command.pc = "streaming"
        /\ At("postflight") \/ At("next")
    BY <1>7 DEF WaitForStreaming
  <2>2. command'.pc \in {"postflight", "next"} /\ command'.boss = command.boss
    BY <2>1, AtType
  <2> QED BY <1>a, <1>b, <2>1, <2>2 DEF BounceInv
<1>8. CASE TransferLeadership
  <2>1. UNCHANGED <<alive, install>> /\ command.pc = "transfer"
    BY <1>8 DEF TransferLeadership
  <2>2. CASE command' = NoCommand /\ UNCHANGED <<chief, replication>>
    BY <1>a, <2>1, <2>2, NoCommandType
  <2>3. ASSUME NEW n \in RollNodes, Lead(n), At("postflight") \/ At("new leader")
        PROVE  BounceInv'
    <3>1. command'.pc \in {"postflight", "new leader"} /\ command'.boss = command.boss
      BY <2>3, AtType
    <3>2. chief' \in RollNodes
      BY <2>3 DEF Lead
    <3>3. \A m \in RollNodes : ~Busy(m)'
      BY <1>b, <2>1 DEF Busy
    <3> QED BY <2>1, <3>1, <3>2, <3>3 DEF BounceInv
  <2> QED BY <1>8, <2>2, <2>3 DEF TransferLeadership, GiveUp
<1>9. CASE WaitForNewLeader
  <2>1. /\ UNCHANGED <<chief, alive, replication, install>> /\ command.pc = "new leader"
        /\ command'.pc = "safe" /\ command'.cur = command.boss
        /\ command'.boss = command.boss
    BY <1>0, <1>9 DEF WaitForNewLeader, Commands
  <2> QED BY <1>a, <1>b, <2>1 DEF BounceInv
<1>10. CASE Postflight \/ TimeOut
  BY <1>10, <1>a, NoCommandType DEF Postflight, TimeOut, GiveUp
<1> QED BY <1>1, <1>2, <1>3, <1>4, <1>5, <1>6, <1>7, <1>8, <1>9, <1>10 DEF CommandStep

-----------------------------------------------------------------------------
\* The files and the types, from the start and through every step.
LEMMA RollTypes ==
  /\ RollInit => RollType /\ FileInv
  /\ RollType /\ FileInv /\ [RollNext]_rollVars => RollType' /\ FileInv'
<1>1. ASSUME RollInit PROVE RollType /\ FileInv
  <2>1. install \in [RollNodes -> Installs] /\ \A n \in RollNodes : install[n].at = "none"
    BY <1>1, NoInstallType DEF RollInit
  <2>2. command \in Commands
    BY <1>1, NoCommandType DEF RollInit
  <2> QED BY <1>1, <2>1, <2>2 DEF RollInit, RollType, FileInv, Files
<1>2. ASSUME RollType, FileInv, [RollNext]_rollVars PROVE RollType' /\ FileInv'
  <2>1. CASE UNCHANGED rollVars
    BY <1>2, <2>1 DEF rollVars, RollType, FileInv
  <2> QED BY <1>2, <2>1, InstallTypes, ClusterTypes, CommandTypes
          DEF RollNext, InstallStep, ClusterStep, CommandStep
<1> QED BY <1>1, <1>2

(***************************************************************************)
(* Every node always holds a whole release at the executable's path or     *)
(* moved aside, and nothing it can start is other than what it ran and     *)
(* what was asked for: for any server, any interleaving of renames,        *)
(* crashes and commands, the impatient ones too (download_verify_replace,  *)
(* CosignVerifier).                                                        *)
(***************************************************************************)
THEOREM ReleaseAlwaysAtHand == RollSpec => []OneReleaseAtHand
<1>1. RollType /\ FileInv => OneReleaseAtHand
  <2> SUFFICES ASSUME RollType, FileInv, NEW n \in RollNodes
               PROVE  /\ {exe[n], aside[n]} \cap {"v1", "v2"} # {}
                      /\ "foreign" \notin {exe[n], aside[n], version[n]}
                      /\ install[n].got \in {"none", Target}
    BY DEF OneReleaseAtHand
  <2>1. exe[n] \in {"v1", "v2", "none"} /\ aside[n] \in {"v1", "v2", "none"}
        /\ version[n] \in {"v1", "v2"} /\ (exe[n] # "none" \/ aside[n] # "none")
    BY DEF RollType, FileInv, Files
  <2>2. install[n].got \in {"none", Target}
    BY DEF RollType, Installs
  <2> QED BY <2>1, <2>2
<1> QED BY <1>1, RollTypes, PTL DEF RollSpec

(***************************************************************************)
(* Unless something else upsets the cluster, a roll of three nodes or more *)
(* costs it neither its majority nor its last standby in sync, over any    *)
(* number of commands that time out anywhere, provided no command starts   *)
(* while an install of an earlier one goes on (safe_to_bounce,             *)
(* run_cluster_upgrade, require_doctor_strict).                            *)
(***************************************************************************)
THEOREM RollKeepsAStandby ==
  ASSUME ~Impatient
  PROVE  RollSpec => []RollKeepsStandby
<1>1. RollInit => RollInv
  <2> SUFFICES ASSUME RollInit PROVE RollInv
    OBVIOUS
  <2>1. RollType /\ FileInv
    BY RollTypes
  <2>2. chief \in RollNodes /\ command.pc = "none" /\ \A n \in RollNodes : ~Busy(n)
    BY NoCommandType, NoInstallType DEF RollInit, Busy
  <2> QED BY <2>1, <2>2 DEF RollInv, BounceInv
<1>2. RollInv /\ [RollNext]_rollVars => RollInv'
  <2> SUFFICES ASSUME RollInv, [RollNext]_rollVars PROVE RollInv'
    OBVIOUS
  <2>1. RollType /\ FileInv /\ RollType' /\ FileInv'
    BY RollTypes DEF RollInv
  <2>2. ASSUME upsets' = 0 PROVE BounceInv'
    <3>1. upsets = 0 /\ BounceInv
      <4>1. upsets' = upsets \/ upsets' = upsets + 1
        BY DEF RollNext, Begin, NextFollower, WaitUntilSafe, ExpectUnchanged,
           PostSelfUpgrade, WaitForNodeVersion, WaitForStreaming, TransferLeadership,
           WaitForNewLeader, Postflight, TimeOut, Download, MoveAside, Place,
           StopForRestart, AnswerFailure, Restart, Follow, Elect, FallBehind, Crash,
           Upset, counts, rollVars
      <4>2. upsets \in Nat
        BY <2>1 DEF RollType
      <4> QED BY <2>2, <4>1, <4>2 DEF RollInv
    <3>2. CASE UNCHANGED rollVars
      BY <3>1, <3>2 DEF rollVars, BounceInv, Busy, OtherSynced
    <3> QED BY <2>1, <2>2, <3>1, <3>2, BounceInstall, BounceCluster, BounceCommand
            DEF RollNext, InstallStep, ClusterStep, CommandStep
  <2> QED BY <2>1, <2>2 DEF RollInv
<1>3. RollInv => RollKeepsStandby
  <2> SUFFICES ASSUME RollInv, upsets = 0, NEW n \in RollNodes, ~alive[n]
               PROVE  Majority(Up) /\ Synced # {}
    BY DEF RollKeepsStandby
  <2>1. BounceInv /\ Busy(n)
    BY DEF RollInv, Busy
  <2>2. Synced # {}
    BY <2>1 DEF BounceInv, OtherSynced, Synced
  <2>3. Up = RollNodes \ {n}
    BY <2>1 DEF BounceInv, Busy, Up
  <2>4. IsFiniteSet(RollNodes) /\ Cardinality(RollNodes) >= 3
        /\ Cardinality(RollNodes) \in Nat
    BY RollingUpgradeAssumption, FS_CardinalityType
  <2>5. Cardinality(Up) = Cardinality(RollNodes) - 1
    BY <2>3, <2>4, FS_RemoveElement
  <2>6. Majority(Up)
    BY <2>4, <2>5 DEF Majority
  <2> QED BY <2>2, <2>6
<1> QED BY <1>1, <1>2, <1>3, PTL DEF RollSpec

-----------------------------------------------------------------------------
(* The major upgrade in place. *)

Dir == {d \in [id : Int, has : SUBSET Nat, whole : BOOLEAN] : d.whole => d.id >= 1}
Places == {"base", "sib"}
Records == [frozen : BOOLEAN, awaiting : SUBSET Nodes]
Orchestrators ==
  [cmd : {"none", "apply", "rollback", "abort", "resume", "confirm"},
   pc : {"none", "stop", "call", "wait", "serve", "rejoin", "abort", "confirm"},
   on : Nodes, left : SUBSET Nodes, loss : BOOLEAN, mode : {"copy", "link"}]
OnPrimary == {"copying", "linking", "upgraded", "applied", "stopped", "rolled back"}
OnStandby == {"wiped", "cloned"}

\* What every part of the upgrade's state may hold; what runs can be opened.
UpgradeType ==
  /\ record \in Records /\ orch \in Orchestrators /\ head \in Nodes
  /\ dirs \in [Nodes -> [Places -> Dir]]
  /\ active \in [Nodes -> Places] /\ pgConfig \in [Nodes -> Places]
  /\ running \in [Nodes -> BOOLEAN] /\ marks \in [Nodes -> SUBSET (SUBSET Nat)]
  /\ work \in [Nodes -> {"none"} \union OnPrimary \union OnStandby]
  /\ acked \subseteq Nat /\ swaps \in Nat /\ writes \in Nat /\ lateAbort \in BOOLEAN
  /\ \A n \in Nodes : running[n] => Here(n).whole

\* A frozen record awaits everyone but the leader, which therefore stays the
\* leader; only the command that froze it calls its primary.
FreezeInv ==
  /\ head \notin record.awaiting
  /\ record.frozen => record.awaiting = Nodes \ {head}
  /\ orch.pc \in {"stop", "call", "wait", "serve"} => record.frozen /\ orch.on = head
  /\ orch.pc = "rejoin" => ~record.frozen

\* Whom a handler works for, even when its command is gone.
HandlerInv ==
  \A n \in Nodes :
    /\ work[n] \in OnPrimary => n = head /\ record.frozen
    /\ work[n] \in OnStandby => n \in record.awaiting /\ ~record.frozen
    /\ work[n] \notin {"applied", "rolled back"} => active[n] = pgConfig[n]

\* Only the node that swapped runs on the sibling directory, which is never of
\* the old major, and no other node leads on the old major meanwhile.
SwapInv ==
  /\ \A n \in Nodes : dirs[n]["sib"].id # 1
  /\ \A n \in Nodes, m \in Nodes :
       "sib" \in {active[n], pgConfig[n]} /\ "sib" \in {active[m], pgConfig[m]} => n = m
  /\ \A n \in Nodes : "sib" \in {active[n], pgConfig[n]} /\ n # head => Here(head).id # 1

\* The leader has every acknowledged write where it runs, and where a crash in
\* the middle of a swap would take it back to.
CurrentInv ==
  /\ acked \subseteq Here(head).has \/ (Here(head) = NoDir /\ record.frozen)
  /\ work[head] \in {"copying", "linking", "upgraded", "stopped", "applied"}
     \/ Here(head) = NoDir => acked \subseteq dirs[head]["base"].has
  /\ work[head] \in {"copying", "linking", "upgraded"} => active[head] = "base"
  /\ work[head] \in {"copying", "linking", "upgraded", "stopped"} => ~running[head]
  /\ work[head] \in {"upgraded", "applied"} =>
       /\ dirs[head]["sib"].has = dirs[head]["base"].has
       /\ dirs[head]["sib"].whole
  /\ work[head] \in OnPrimary => dirs[head]["base"].id = 1
  /\ work[head] = "stopped" => dirs[head]["base"].whole
  /\ work[head] = "applied" => active[head] = "sib" /\ pgConfig[head] = "base"
  /\ work[head] = "rolled back" => active[head] = "base" /\ dirs[head]["sib"] = NoDir

\* What is below the watermark is in the old cluster.
MarkInv ==
  \A n \in Nodes : active[n] = "sib" \/ pgConfig[n] = "sib" =>
    \A m \in marks[n] : m \subseteq dirs[n]["base"].has \/ dirs[n]["base"].id # 1

\* Who is not awaited is of the leader's major.
MajorInv ==
  ~lateAbort =>
    \A n \in Nodes \ record.awaiting : Major(Here(n)) \in {"none", Major(Here(head))}

UpgradeInv ==
  UpgradeType /\ FreezeInv /\ HandlerInv /\ SwapInv /\ CurrentInv /\ MarkInv /\ MajorInv

\* A command that has ended.
LEMMA NoOrchType == NoOrch \in Orchestrators /\ NoOrch.pc = "none"
<1>1. Nodes # {}
  <2>1. Nodes = {} => Cardinality(Nodes) = 0
    BY FS_EmptySet
  <2>2. Cardinality(Nodes) >= 2
    BY MajorUpgradeAssumption
  <2>3. ~(0 >= 2)
    OBVIOUS
  <2> QED BY <2>1, <2>2, <2>3
<1> QED BY <1>1 DEF NoOrch, Orchestrators

\* A directory that is not there, or was wiped.
LEMMA NoDirType ==
  /\ NoDir \in Dir /\ ~NoDir.whole /\ NoDir.id = 0
  /\ Wreck \in Dir /\ ~Wreck.whole /\ Wreck.id = -1
BY DEF NoDir, Wreck, Dir

\* A directory that is opened, or no longer.
LEMMA DirMarked ==
  ASSUME NEW d \in Dir, NEW w \in BOOLEAN, d.id >= 1
  PROVE  LET c == [d EXCEPT !.whole = w] IN
         c \in Dir /\ c.has = d.has /\ c.id = d.id /\ c.whole = w
BY DEF Dir

\* Where the servers run, when the disks and the leader stay.
LEMMA DisksStay ==
  ASSUME UpgradeInv, UNCHANGED <<diskVars, head, work, acked, swaps>>,
         record' \in Records, orch' \in Orchestrators, running' \in [Nodes -> BOOLEAN],
         writes' \in Nat, lateAbort' \in BOOLEAN, FreezeInv',
         \A n \in Nodes : running'[n] => Here(n).whole,
         work[head] # "none" /\ running'[head] => running[head],
         record.frozen /\ ~record'.frozen => work[head] = "none" /\ running[head],
         record'.frozen /\ ~record.frozen => \A n \in Nodes : work[n] \notin OnStandby,
         ~record.frozen => \A n \in Nodes : work[n] \in OnStandby => n \in record'.awaiting,
         MajorInv'
  PROVE  UpgradeInv'
<1>1. UNCHANGED <<dirs, active, pgConfig, marks>> /\ \A n \in Nodes : Here(n)' = Here(n)
  BY DEF diskVars, Here
<1>2. UpgradeType'
  BY <1>1 DEF UpgradeInv, UpgradeType
<1>3. HandlerInv'
  BY <1>1 DEF UpgradeInv, UpgradeType, HandlerInv, OnPrimary, OnStandby
<1>4. SwapInv' /\ MarkInv'
  BY <1>1 DEF UpgradeInv, UpgradeType, SwapInv, MarkInv
<1>5. CurrentInv'
  <2>1. Here(head) = NoDir => ~running[head]
    BY DEF UpgradeInv, UpgradeType, NoDir
  <2> QED BY <1>1, <2>1 DEF UpgradeInv, UpgradeType, CurrentInv, Records
<1> QED BY <1>2, <1>3, <1>4, <1>5 DEF UpgradeInv

\* The commands begin: what they freeze, the record allows.
LEMMA CommandsBegin ==
  ASSUME UpgradeInv, BeginApply \/ BeginRollback \/ BeginAbort \/ BeginResume \/ BeginConfirm
  PROVE  UpgradeInv'
<1>0. /\ UpgradeType /\ FreezeInv /\ HandlerInv /\ MajorInv /\ orch.pc = "none"
      /\ UNCHANGED <<head, diskVars, running, work, acked, swaps, writes, lateAbort>>
  BY DEF UpgradeInv, BeginApply, BeginRollback, BeginAbort, BeginResume, BeginConfirm, Command
<1>1. \A n \in Nodes : Here(n)' = Here(n)
  BY <1>0 DEF diskVars, Here
<1>2. CASE BeginApply \/ BeginRollback
  <2>1. /\ Freezable(Standbys) /\ record' = [frozen |-> TRUE, awaiting |-> Standbys]
        /\ orch' \in Orchestrators /\ orch'.pc = "stop" /\ orch'.on = head
    <3>1. CASE BeginApply
      <4>1. PICK mode \in Modes :
              orch' = [NoOrch EXCEPT !.cmd = "apply", !.pc = "stop", !.on = head,
                                     !.left = Standbys, !.mode = mode]
        BY <3>1 DEF BeginApply
      <4>2. mode \in {"copy", "link"} /\ head \in Nodes
        BY <1>0, MajorUpgradeAssumption DEF UpgradeType
      <4> QED BY <3>1, <4>1, <4>2, NoOrchType DEF BeginApply, Freeze, Orchestrators, Standbys
    <3>2. CASE BeginRollback
      <4>1. PICK loss \in BOOLEAN :
              orch' = [NoOrch EXCEPT !.cmd = "rollback", !.pc = "stop", !.on = head,
                                     !.left = Standbys, !.loss = loss]
        BY <3>2 DEF BeginRollback
      <4>2. head \in Nodes
        BY <1>0 DEF UpgradeType
      <4> QED BY <3>2, <4>1, <4>2, NoOrchType DEF BeginRollback, Freeze, Orchestrators, Standbys
    <3> QED BY <1>2, <3>1, <3>2
  <2>2. /\ record' \in Records /\ FreezeInv'
    BY <1>0, <2>1 DEF Records, FreezeInv, Standbys, UpgradeType
  <2>3. record.frozen \/ \A n \in Nodes : work[n] \notin OnStandby
    BY <1>0, <2>1 DEF Freezable, HandlerInv
  <2>4. MajorInv'
    BY <1>0, <1>1, <2>1 DEF MajorInv, Standbys, UpgradeType
  <2>5. /\ record'.frozen
        /\ ~record.frozen => \A n \in Nodes : work[n] \in OnStandby => n \in record'.awaiting
        /\ running' \in [Nodes -> BOOLEAN] /\ writes' \in Nat
        /\ lateAbort' \in BOOLEAN /\ \A n \in Nodes : running'[n] => Here(n).whole
    BY <1>0, <2>1, <2>3 DEF UpgradeType
  <2> QED BY <1>0, <2>1, <2>2, <2>3, <2>4, <2>5, DisksStay
<1>3. CASE BeginAbort \/ BeginResume \/ BeginConfirm
  <2>1. /\ UNCHANGED record /\ orch' \in Orchestrators
        /\ orch'.pc \in {"abort", "rejoin", "confirm"}
        /\ orch'.pc = "rejoin" => ~record.frozen
    <3>1. /\ BeginAbort => orch' = [NoOrch EXCEPT !.cmd = "abort", !.pc = "abort"]
          /\ BeginResume => ~record.frozen /\
               orch' = [NoOrch EXCEPT !.cmd = "resume", !.pc = "rejoin", !.on = head,
                                      !.left = record.awaiting]
          /\ BeginConfirm => orch' = [NoOrch EXCEPT !.cmd = "confirm", !.pc = "confirm", !.left = Nodes]
          /\ UNCHANGED record
      BY <1>3 DEF BeginAbort, BeginResume, BeginConfirm
    <3>2. head \in Nodes /\ record.awaiting \subseteq Nodes
      BY <1>0 DEF UpgradeType, Records
    <3> QED BY <1>3, <3>1, <3>2, NoOrchType DEF Orchestrators
  <2>2. FreezeInv' /\ MajorInv'
    <3>1. FreezeInv'
      BY <1>0, <2>1 DEF FreezeInv
    <3> QED BY <1>0, <1>1, <2>1, <3>1 DEF MajorInv, UpgradeType
  <2>3. /\ record' \in Records
        /\ ~record.frozen => \A n \in Nodes : work[n] \in OnStandby => n \in record'.awaiting
        /\ running' \in [Nodes -> BOOLEAN] /\ writes' \in Nat
        /\ lateAbort' \in BOOLEAN /\ \A n \in Nodes : running'[n] => Here(n).whole
    BY <1>0, <2>1 DEF UpgradeType, HandlerInv
  <2> QED BY <1>0, <2>1, <2>2, <2>3, DisksStay
<1> QED BY <1>2, <1>3

\* The orchestrator goes on, or ends; the record stays.
LEMMA OrchestratorSteps ==
  ASSUME UpgradeInv, StopStandby \/ CallFails \/ OrchestratorEnds \/ Call \/ LeaderStarts
  PROVE  UpgradeInv'
<1>0. /\ UpgradeType /\ FreezeInv /\ HandlerInv /\ MajorInv
      /\ UNCHANGED <<record, head, diskVars, work, acked, swaps, writes, lateAbort>>
  BY DEF UpgradeInv, StopStandby, CallFails, OrchestratorEnds, Call, LeaderStarts, bounds
<1>1. \A n \in Nodes : Here(n)' = Here(n)
  BY <1>0 DEF diskVars, Here
<1>2. /\ orch' \in Orchestrators
      /\ orch'.pc \in {"stop", "call", "wait", "serve"} =>
           orch.pc \in {"stop", "call", "wait", "serve"} /\ orch'.on = orch.on
      /\ orch'.pc = "rejoin" => orch.pc = "rejoin"
  <2>1. CASE StopStandby
    <3>1. orch' \in {[orch EXCEPT !.pc = "abort"]} \union
                    {[orch EXCEPT !.left = @ \ {n}] : n \in orch.left}
      BY <2>1 DEF StopStandby
    <3> QED BY <1>0, <2>1, <3>1 DEF StopStandby, UpgradeType, Orchestrators
  <2>2. CASE CallFails
    BY <1>0, <2>2 DEF CallFails, UpgradeType, Orchestrators
  <2>3. CASE OrchestratorEnds
    BY <2>3, NoOrchType DEF OrchestratorEnds
  <2>4. CASE Call
    BY <1>0, <2>4 DEF Call, UpgradeType, Orchestrators
  <2>5. CASE LeaderStarts
    BY <1>0, <2>5 DEF LeaderStarts, UpgradeType
  <2> QED BY <2>1, <2>2, <2>3, <2>4, <2>5
<1>3. /\ running' \in [Nodes -> BOOLEAN] /\ \A n \in Nodes : running'[n] => Here(n).whole
      /\ work[head] # "none" /\ running'[head] => running[head]
  <2>1. CASE StopStandby
    <3>1. PICK n \in orch.left : running' = [running EXCEPT ![n] = FALSE] \/ running' = running
      BY <2>1 DEF StopStandby
    <3> QED BY <1>0, <3>1 DEF UpgradeType
  <2>2. CASE LeaderStarts
    BY <1>0, <2>2 DEF LeaderStarts, UpgradeType
  <2>3. CASE CallFails \/ OrchestratorEnds \/ Call
    BY <1>0, <2>3 DEF CallFails, OrchestratorEnds, Call, UpgradeType
  <2> QED BY <2>1, <2>2, <2>3
<1>4. FreezeInv' /\ MajorInv'
  BY <1>0, <1>1, <1>2 DEF FreezeInv, MajorInv, UpgradeType
<1>5. /\ record' \in Records /\ writes' \in Nat /\ lateAbort' \in BOOLEAN
      /\ ~record.frozen => \A n \in Nodes : work[n] \in OnStandby => n \in record'.awaiting
  BY <1>0 DEF UpgradeType, HandlerInv
<1> QED BY <1>0, <1>2, <1>3, <1>4, <1>5, DisksStay

\* The record is released, shortened or aborted, over a primary that serves.
LEMMA CommitSteps ==
  ASSUME UpgradeInv, CommitServe \/ CommitRejoined \/ CommitAbort
  PROVE  UpgradeInv'
<1>0. /\ UpgradeType /\ FreezeInv /\ HandlerInv /\ MajorInv
      /\ UNCHANGED <<head, diskVars, running, work, acked, swaps, writes>>
  BY DEF UpgradeInv, CommitServe, CommitRejoined, CommitAbort, bounds
<1>1. \A n \in Nodes : Here(n)' = Here(n)
  BY <1>0 DEF diskVars, Here
<1>2. /\ running' \in [Nodes -> BOOLEAN] /\ writes' \in Nat
      /\ \A n \in Nodes : running'[n] => Here(n).whole
  BY <1>0 DEF UpgradeType
<1>3. CASE CommitServe
  <2>1. /\ record' = [record EXCEPT !.frozen = FALSE] /\ lateAbort' = lateAbort
        /\ orch' = [orch EXCEPT !.pc = "rejoin", !.left = Nodes \ {orch.on}]
        /\ running[head] /\ work[head] = "none"
    BY <1>3 DEF CommitServe, Serve, Serving
  <2>2. /\ record' \in Records /\ record'.frozen = FALSE /\ record'.awaiting = record.awaiting
        /\ orch' \in Orchestrators /\ orch'.pc = "rejoin" /\ lateAbort' \in BOOLEAN
    BY <1>0, <2>1 DEF UpgradeType, Records, Orchestrators
  <2>3. FreezeInv'
    BY <1>0, <2>2 DEF FreezeInv
  <2>4. MajorInv'
    BY <1>0, <1>1, <2>1, <2>2 DEF MajorInv, UpgradeType
  <2>5. /\ ~(record'.frozen /\ ~record.frozen)
        /\ ~record.frozen => \A n \in Nodes : work[n] \in OnStandby => n \in record'.awaiting
    BY <1>0, <2>2 DEF HandlerInv
  <2> QED BY <1>0, <1>2, <2>1, <2>2, <2>3, <2>4, <2>5, DisksStay
<1>4. CASE CommitRejoined
  <2>1. PICK n \in orch.left :
          /\ work[n] = "none" /\ Here(n).id = Here(head).id
          /\ record' = [record EXCEPT !.awaiting = @ \ {n}]
          /\ orch' \in {NoOrch, [orch EXCEPT !.left = @ \ {n}]}
    BY <1>4 DEF CommitRejoined, Rejoined
  <2>2. orch.pc = "rejoin" /\ lateAbort' = lateAbort
    BY <1>4 DEF CommitRejoined
  <2>3. /\ record' \in Records /\ record'.frozen = record.frozen
        /\ record'.awaiting = record.awaiting \ {n}
    BY <1>0, <2>1 DEF UpgradeType, Records
  <2>4. orch' \in Orchestrators /\ orch'.pc \in {"none", "rejoin"} /\ lateAbort' \in BOOLEAN
    BY <1>0, <2>1, <2>2, NoOrchType DEF UpgradeType, Orchestrators
  <2>5. FreezeInv' /\ ~record.frozen
    BY <1>0, <2>2, <2>3, <2>4 DEF FreezeInv
  <2>6. MajorInv'
    <3>1. Major(Here(n)) = Major(Here(head))
      BY <2>1 DEF Major
    <3> QED BY <1>0, <1>1, <2>2, <2>3, <3>1 DEF MajorInv, UpgradeType
  <2>7. /\ ~(record'.frozen /\ ~record.frozen)
        /\ \A m \in Nodes : work[m] \in OnStandby => m \in record'.awaiting
    BY <1>0, <2>1, <2>3 DEF HandlerInv, OnStandby
  <2> QED BY <1>0, <1>2, <2>3, <2>4, <2>5, <2>6, <2>7, DisksStay
<1>5. CASE CommitAbort
  <2>1. /\ running[head] /\ work[head] = "none" /\ orch' = NoOrch
        /\ record' = IF Abortable THEN [frozen |-> FALSE, awaiting |-> {}] ELSE record
        /\ lateAbort' = (lateAbort \/ (Abortable /\ \E n \in Nodes : ~AtRest(n)))
    BY <1>5 DEF CommitAbort, Serving
  <2>2. record' \in Records /\ orch' \in Orchestrators /\ orch'.pc = "none" /\ lateAbort' \in BOOLEAN
    BY <1>0, <2>1, NoOrchType DEF UpgradeType, Records
  <2>3. FreezeInv'
    BY <1>0, <2>1, <2>2 DEF FreezeInv
  <2>4. MajorInv'
    <3>1. CASE Abortable
      BY <1>0, <1>1, <2>1, <3>1 DEF MajorInv, AtRest, UpgradeType
    <3>2. CASE ~Abortable
      BY <1>0, <1>1, <2>1, <3>2 DEF MajorInv, UpgradeType, Records
    <3> QED BY <3>1, <3>2
  <2>5. /\ ~(record'.frozen /\ ~record.frozen)
        /\ ~record.frozen => \A n \in Nodes : work[n] \in OnStandby => n \in record'.awaiting
    BY <1>0, <2>1 DEF HandlerInv, Abortable
  <2> QED BY <1>0, <1>2, <2>1, <2>2, <2>3, <2>4, <2>5, DisksStay
<1> QED BY <1>3, <1>4, <1>5

\* A handler works on the frozen primary: the other nodes stay as they are, and
\* none of them is on a sibling directory.
LEMMA PrimaryWorks ==
  ASSUME UpgradeInv, NEW n \in Nodes, n = head, record.frozen, UNCHANGED <<record, head, lateAbort>>,
         "sib" \in {active[n], pgConfig[n]} \/ Here(n).id = 1,
         UpgradeType', FreezeInv', CurrentInv',
         \A m \in Nodes \ {n} :
           /\ dirs'[m] = dirs[m] /\ active'[m] = active[m] /\ pgConfig'[m] = pgConfig[m]
           /\ marks'[m] = marks[m] /\ work'[m] = work[m],
         work'[n] \in OnPrimary \union {"none"},
         work'[n] \notin {"applied", "rolled back"} => active'[n] = pgConfig'[n],
         dirs'[n]["sib"].id # 1,
         active'[n] = "sib" \/ pgConfig'[n] = "sib" =>
           \A m \in marks'[n] : m \subseteq dirs'[n]["base"].has \/ dirs'[n]["base"].id # 1
  PROVE  UpgradeInv'
<1>0. UpgradeType /\ FreezeInv /\ HandlerInv /\ SwapInv /\ MarkInv /\ head \in Nodes
  BY DEF UpgradeInv, UpgradeType
<1>1. \A m \in Nodes \ {head} : "sib" \notin {active[m], pgConfig[m]}
  BY <1>0 DEF SwapInv
<1>2. HandlerInv'
  BY <1>0 DEF HandlerInv, OnPrimary, OnStandby
<1>3. SwapInv'
  <2>1. \A m \in Nodes \ {head} : "sib" \notin {active'[m], pgConfig'[m]}
    BY <1>1
  <2>2. \A m \in Nodes : dirs'[m]["sib"].id # 1
    BY <1>0 DEF SwapInv
  <2> QED BY <2>1, <2>2 DEF SwapInv
<1>4. MarkInv'
  BY <1>0 DEF MarkInv
<1>5. MajorInv'
  <2>1. record'.awaiting = Nodes \ {head}
    BY <1>0 DEF FreezeInv
  <2> QED BY <2>1 DEF MajorInv
<1> QED BY <1>2, <1>3, <1>4, <1>5 DEF UpgradeInv

\* What a handler on the primary starts from.
LEMMA OnPrimaryFacts ==
  ASSUME UpgradeInv, NEW n \in Nodes, work[n] \in OnPrimary
  PROVE  /\ n = head /\ record.frozen
         /\ "sib" \in {active[head], pgConfig[head]} \/ Here(head).id = 1
BY DEF UpgradeInv, UpgradeType, HandlerInv, CurrentInv, Here, Places

\* The swap: initdb, pg_upgrade, the first start, or back to the old cluster.
LEMMA ApplySteps ==
  ASSUME UpgradeInv, UpgradeLapses = {}, NEW n \in Nodes,
         ApplyStops(n) \/ UpgradesFiles(n) \/ ApplyMarks(n) \/ ApplyFails(n)
  PROVE  UpgradeInv'
<1> DEFINE b == dirs[n]["base"]
           s == dirs[n]["sib"]
<1>0. /\ UpgradeType /\ FreezeInv /\ HandlerInv /\ SwapInv /\ CurrentInv /\ MarkInv
      /\ UNCHANGED <<record, head, pgConfig, acked, writes, lateAbort>>
      /\ b \in Dir /\ s \in Dir
  <2>1. UNCHANGED <<record, head, pgConfig, acked, writes, lateAbort>>
    BY DEF ApplyStops, UpgradesFiles, ApplyMarks, ApplyFails, bounds
  <2> QED BY <2>1 DEF UpgradeInv, UpgradeType, Places
<1>1. CASE ApplyStops(n)
  <2>1. /\ n = head /\ record.frozen /\ work[n] = "none" /\ orch.pc = "call"
        /\ active[n] = "base" /\ b.id = 1 /\ b = Here(n) /\ running[n]
    BY <1>0, <1>1 DEF ApplyStops, ApplyAdmitted, ApplyRefused, Major, Here
  <2>2. /\ dirs' = [dirs EXCEPT ![n]["sib"] = NoDir] /\ UNCHANGED <<active, marks>>
        /\ running' = [running EXCEPT ![n] = FALSE] /\ UNCHANGED swaps
        /\ orch' = [orch EXCEPT !.pc = "wait"]
        /\ \E w \in {"copying", "linking"} : work' = [work EXCEPT ![n] = w]
    BY <1>1 DEF ApplyStops, Step, bounds
  <2>3. NoDir \in Dir /\ ~NoDir.whole /\ NoDir.id = 0
    BY NoDirType
  <2>4. /\ dirs' \in [Nodes -> [Places -> Dir]] /\ dirs'[n]["sib"] = NoDir /\ dirs'[n]["base"] = b
        /\ \A m \in Nodes \ {n} : dirs'[m] = dirs[m]
    BY <1>0, <2>2, <2>3 DEF UpgradeType, Places
  <2>5. /\ orch' \in Orchestrators /\ orch'.pc = "wait" /\ orch'.on = orch.on
    BY <1>0, <2>2 DEF UpgradeType, Orchestrators
  <2>6. /\ work' \in [Nodes -> {"none"} \union OnPrimary \union OnStandby]
        /\ work'[n] \in {"copying", "linking"} /\ \A m \in Nodes \ {n} : work'[m] = work[m]
    BY <1>0, <2>2 DEF UpgradeType, OnPrimary
  <2>7. /\ running' \in [Nodes -> BOOLEAN] /\ ~running'[n] /\ Here(n)' = b
        /\ \A m \in Nodes \ {n} : running'[m] = running[m] /\ Here(m)' = Here(m)
    BY <1>0, <2>1, <2>2, <2>4 DEF UpgradeType, Here
  <2> HIDE DEF b, s
  <2>8. UpgradeType'
    <3>1. \A m \in Nodes : running'[m] => Here(m)'.whole
      BY <1>0, <2>7 DEF UpgradeType
    <3> QED BY <1>0, <2>2, <2>4, <2>5, <2>6, <2>7, <3>1 DEF UpgradeType
  <2>9. acked \subseteq b.has /\ b # NoDir
    BY <1>0, <2>1, <2>3 DEF CurrentInv
  <2>10. CurrentInv'
    BY <1>0, <2>1, <2>2, <2>3, <2>4, <2>6, <2>7, <2>9 DEF CurrentInv, UpgradeType
  <2>11. FreezeInv'
    BY <1>0, <2>1, <2>5 DEF FreezeInv
  <2>12. active'[n] = pgConfig'[n] /\ active'[n] = "base"
    BY <1>0, <2>1, <2>2 DEF HandlerInv
  <2>13. Here(n).id = 1 /\ dirs'[n]["sib"].id # 1 /\ work'[n] \in OnPrimary \union {"none"}
    <3>1. Here(n).id = 1
      BY <2>1
    <3>2. dirs'[n]["sib"].id # 1
      BY <2>3, <2>4
    <3>3. work'[n] \in OnPrimary
      BY <2>6 DEF OnPrimary
    <3> QED BY <3>1, <3>2, <3>3
  <2>14. \A m \in Nodes \ {n} :
           /\ dirs'[m] = dirs[m] /\ active'[m] = active[m] /\ pgConfig'[m] = pgConfig[m]
           /\ marks'[m] = marks[m] /\ work'[m] = work[m]
    BY <1>0, <2>2, <2>4, <2>6
  <2>15. active'[n] # "sib" /\ pgConfig'[n] # "sib"
    BY <2>12
  <2> QED BY <1>0, <2>1, <2>8, <2>10, <2>11, <2>12, <2>13, <2>14, <2>15, PrimaryWorks
<1>2. CASE UpgradesFiles(n)
  <2>1. /\ n = head /\ record.frozen /\ work[n] \in {"copying", "linking"}
    BY <1>2, OnPrimaryFacts DEF UpgradesFiles, OnPrimary
  <2>2. /\ active[n] = "base" /\ pgConfig[n] = "base" /\ Here(n) = b /\ b.id = 1
        /\ acked \subseteq b.has /\ ~running[n]
    BY <1>0, <2>1 DEF OnPrimary, CurrentInv, HandlerInv, Here
  <2>3. /\ dirs' = [dirs EXCEPT ![n]["sib"] = [id |-> swaps + 2, has |-> b.has, whole |-> TRUE],
                                ![n]["base"].whole = (work[n] = "copying")]
        /\ UNCHANGED <<active, marks, running, orch>> /\ swaps' = swaps + 1
        /\ work' = [work EXCEPT ![n] = "upgraded"]
    BY <1>2 DEF UpgradesFiles, Step
  <2> DEFINE d == [id |-> swaps + 2, has |-> b.has, whole |-> TRUE]
             c == [b EXCEPT !.whole = (work[n] = "copying")]
  <2>4. swaps \in Nat
    BY <1>0 DEF UpgradeType
  <2>5. /\ d.whole = TRUE /\ d.has = b.has /\ d.id = swaps + 2 /\ d \in Dir
    BY <1>0, <2>4 DEF Dir
  <2>6. c \in Dir /\ c.has = b.has /\ c.id = 1
    <3>1. b \in Dir /\ b.id >= 1 /\ (work[n] = "copying") \in BOOLEAN
      BY <1>0, <2>2
    <3> HIDE DEF b
    <3> QED BY <2>2, <3>1, DirMarked
  <2>7. /\ dirs' \in [Nodes -> [Places -> Dir]] /\ dirs'[n]["sib"] = d /\ dirs'[n]["base"] = c
        /\ \A m \in Nodes \ {n} : dirs'[m] = dirs[m]
    <3>1. dirs' = [dirs EXCEPT ![n]["sib"] = d, ![n]["base"] = c]
      <4>1. dirs \in [Nodes -> [Places -> Dir]]
        BY <1>0 DEF UpgradeType
      <4> QED BY <2>3, <4>1 DEF Places
    <3>2. dirs \in [Nodes -> [Places -> Dir]]
      BY <1>0 DEF UpgradeType
    <3> HIDE DEF c, d
    <3> QED BY <2>5, <2>6, <3>1, <3>2 DEF Places
  <2> HIDE DEF d, c, b, s
  <2>8. /\ work' \in [Nodes -> {"none"} \union OnPrimary \union OnStandby]
        /\ work'[n] = "upgraded" /\ \A m \in Nodes \ {n} : work'[m] = work[m]
    BY <1>0, <2>3 DEF UpgradeType, OnPrimary
  <2>9. Here(n)' = c /\ \A m \in Nodes \ {n} : Here(m)' = Here(m)
    BY <1>0, <2>1, <2>2, <2>3, <2>7 DEF UpgradeType, Here
  <2>10. UpgradeType'
    <3>1. \A m \in Nodes : running'[m] => Here(m)'.whole
      BY <1>0, <2>2, <2>3, <2>9 DEF UpgradeType
    <3>2. swaps' \in Nat
      BY <2>3, <2>4
    <3> QED BY <1>0, <2>3, <2>7, <2>8, <3>1, <3>2 DEF UpgradeType
  <2>11. c # NoDir /\ d.id # 1
    BY <2>2, <2>4, <2>5, <2>6, NoDirType
  <2>12. CurrentInv'
    <3>1. /\ acked' \subseteq c.has /\ acked' \subseteq dirs'[n]["base"].has /\ active'[n] = "base"
          /\ dirs'[n]["sib"].has = dirs'[n]["base"].has /\ dirs'[n]["sib"].whole
          /\ dirs'[n]["base"].id = 1 /\ ~running'[n] /\ head' = n
      BY <1>0, <2>1, <2>2, <2>3, <2>5, <2>6, <2>7
    <3> QED BY <2>8, <2>9, <3>1 DEF CurrentInv
  <2>13. FreezeInv'
    BY <1>0, <2>3 DEF FreezeInv
  <2>14. Here(n).id = 1 /\ dirs'[n]["sib"].id # 1 /\ work'[n] \in OnPrimary \union {"none"}
    BY <2>2, <2>7, <2>8, <2>11 DEF OnPrimary
  <2>15. \A m \in Nodes \ {n} :
           /\ dirs'[m] = dirs[m] /\ active'[m] = active[m] /\ pgConfig'[m] = pgConfig[m]
           /\ marks'[m] = marks[m] /\ work'[m] = work[m]
    BY <1>0, <2>3, <2>7, <2>8
  <2>16. active'[n] = pgConfig'[n] /\ active'[n] # "sib" /\ pgConfig'[n] # "sib"
    BY <1>0, <2>2, <2>3
  <2> QED BY <1>0, <2>1, <2>10, <2>12, <2>13, <2>14, <2>15, <2>16, PrimaryWorks
<1>3. CASE ApplyMarks(n)
  <2>1. /\ n = head /\ record.frozen /\ work[n] = "upgraded"
    BY <1>3, OnPrimaryFacts DEF ApplyMarks, OnPrimary
  <2>2. /\ active[n] = "base" /\ pgConfig[n] = "base" /\ Here(n) = b /\ b.id = 1
        /\ acked \subseteq b.has /\ s.has = b.has /\ s.whole
    BY <1>0, <2>1 DEF OnPrimary, CurrentInv, HandlerInv, Here
  <2>3. /\ active' = [active EXCEPT ![n] = "sib"] /\ running' = [running EXCEPT ![n] = TRUE]
        /\ marks' = [marks EXCEPT ![n] = {s.has}] /\ work' = [work EXCEPT ![n] = "applied"]
        /\ UNCHANGED <<dirs, orch, swaps>>
    BY <1>3 DEF ApplyMarks, WriteMarks, Step, bounds
  <2>4. /\ active' \in [Nodes -> Places] /\ active'[n] = "sib"
        /\ \A m \in Nodes \ {n} : active'[m] = active[m]
    BY <1>0, <2>3 DEF UpgradeType, Places
  <2>5. /\ running' \in [Nodes -> BOOLEAN] /\ \A m \in Nodes \ {n} : running'[m] = running[m]
    BY <1>0, <2>3 DEF UpgradeType
  <2>6. /\ marks' \in [Nodes -> SUBSET (SUBSET Nat)] /\ marks'[n] = {s.has}
        /\ \A m \in Nodes \ {n} : marks'[m] = marks[m]
    <3>1. s.has \subseteq Nat
      BY <1>0 DEF Dir
    <3> HIDE DEF s
    <3> QED BY <1>0, <2>3, <3>1 DEF UpgradeType
  <2>7. /\ work' \in [Nodes -> {"none"} \union OnPrimary \union OnStandby]
        /\ work'[n] = "applied" /\ \A m \in Nodes \ {n} : work'[m] = work[m]
    BY <1>0, <2>3 DEF UpgradeType, OnPrimary
  <2>8. Here(n)' = s /\ \A m \in Nodes \ {n} : Here(m)' = Here(m)
    BY <2>3, <2>4 DEF Here
  <2>9. UpgradeType'
    <3>1. \A m \in Nodes : running'[m] => Here(m)'.whole
      BY <1>0, <2>2, <2>5, <2>8 DEF UpgradeType
    <3> QED BY <1>0, <2>3, <2>4, <2>5, <2>6, <2>7, <3>1 DEF UpgradeType
  <2>10. CurrentInv'
    <3>1. /\ acked' \subseteq s.has /\ acked' \subseteq dirs'[n]["base"].has
          /\ dirs'[n]["sib"].has = dirs'[n]["base"].has /\ dirs'[n]["sib"].whole
          /\ dirs'[n]["base"].id = 1 /\ pgConfig'[n] = "base" /\ head' = n
      BY <1>0, <2>1, <2>2, <2>3
    <3> QED BY <2>4, <2>7, <2>8, <3>1 DEF CurrentInv
  <2>11. FreezeInv'
    BY <1>0, <2>3 DEF FreezeInv
  <2>12. Here(n).id = 1 /\ dirs'[n]["sib"].id # 1 /\ work'[n] \in OnPrimary \union {"none"}
         /\ work'[n] \in {"applied", "rolled back"}
    BY <1>0, <2>2, <2>3, <2>7 DEF OnPrimary, SwapInv
  <2>13. \A m \in Nodes \ {n} :
           /\ dirs'[m] = dirs[m] /\ active'[m] = active[m] /\ pgConfig'[m] = pgConfig[m]
           /\ marks'[m] = marks[m] /\ work'[m] = work[m]
    BY <1>0, <2>3, <2>4, <2>6, <2>7
  <2>14. \A m \in marks'[n] : m \subseteq dirs'[n]["base"].has
    BY <2>2, <2>3, <2>6
  <2> QED BY <1>0, <2>1, <2>9, <2>10, <2>11, <2>12, <2>13, <2>14, PrimaryWorks
<1>4. CASE ApplyFails(n)
  <2>1. /\ n = head /\ record.frozen /\ work[n] \in {"copying", "linking", "upgraded"}
    BY <1>4, OnPrimaryFacts DEF ApplyFails, OnPrimary
  <2>2. /\ active[n] = "base" /\ pgConfig[n] = "base" /\ Here(n) = b /\ b.id = 1
        /\ acked \subseteq b.has
    BY <1>0, <2>1 DEF OnPrimary, CurrentInv, HandlerInv, Here
  <2> DEFINE c == [b EXCEPT !.whole = (work[n] = "copying")]
             e == dirs'[n]["base"]
  <2>3. /\ \/ dirs' = dirs \/ dirs' = [dirs EXCEPT ![n]["sib"] = Wreck]
           \/ dirs' = [dirs EXCEPT ![n]["sib"] = Wreck, ![n]["base"].whole = (work[n] = "copying")]
        /\ active' = [active EXCEPT ![n] = "base"]
        /\ \E up \in BOOLEAN : (up => e.whole) /\ running' = [running EXCEPT ![n] = up]
        /\ work' = [work EXCEPT ![n] = "none"] /\ UNCHANGED <<marks, orch, swaps>>
    <3>1. work' = [work EXCEPT ![n] = "none"] /\ UNCHANGED <<marks, orch, swaps>>
      BY <1>4 DEF ApplyFails, Step, bounds
    <3>2. dirs' = dirs \/ dirs' \in Interrupted(n)
      BY <1>4 DEF ApplyFails
    <3>3. PICK up \in BOOLEAN :
            /\ running' = [running EXCEPT ![n] = up]
            /\ \/ /\ e.whole \/ (work[n] # "upgraded" /\ ~up)
                  /\ active' = [active EXCEPT ![n] = "base"]
               \/ "link apply fails late" \in UpgradeLapses
      BY <1>4 DEF ApplyFails
    <3> QED BY <3>1, <3>2, <3>3 DEF Interrupted
  <2>4. c \in Dir /\ c.has = b.has /\ c.id = 1
    <3>1. b \in Dir /\ b.id >= 1 /\ (work[n] = "copying") \in BOOLEAN
      BY <1>0, <2>2
    <3> HIDE DEF b
    <3> QED BY <2>2, <3>1, DirMarked
  <2>5. /\ dirs' \in [Nodes -> [Places -> Dir]] /\ dirs'[n]["sib"] \in {s, Wreck} /\ e \in {b, c}
        /\ \A m \in Nodes \ {n} : dirs'[m] = dirs[m]
    <3>1. dirs \in [Nodes -> [Places -> Dir]]
      BY <1>0 DEF UpgradeType
    <3>2. CASE dirs' = dirs
      BY <3>1, <3>2
    <3>3. CASE dirs' = [dirs EXCEPT ![n]["sib"] = Wreck]
      BY <3>1, <3>3, NoDirType DEF Places
    <3>4. CASE dirs' = [dirs EXCEPT ![n]["sib"] = Wreck, ![n]["base"].whole = (work[n] = "copying")]
      <4>1. dirs' = [dirs EXCEPT ![n]["sib"] = Wreck, ![n]["base"] = c]
        BY <3>1, <3>4 DEF Places
      <4> HIDE DEF c
      <4> QED BY <2>4, <3>1, <4>1, NoDirType DEF Places
    <3> QED BY <2>3, <3>2, <3>3, <3>4
  <2>6. e \in Dir /\ e.has = b.has /\ e.id = 1 /\ e # NoDir /\ e.whole \in BOOLEAN
    <3>1. e \in Dir /\ e.has = b.has /\ e.id = 1
      BY <1>0, <2>2, <2>4, <2>5
    <3>2. e.whole \in BOOLEAN
      BY <3>1 DEF Dir
    <3> QED BY <3>1, <3>2, NoDirType
  <2>7. dirs'[n]["sib"].id # 1
    BY <1>0, <2>5, NoDirType DEF SwapInv
  <2> HIDE DEF c, e, b, s
  <2>8. /\ active' \in [Nodes -> Places] /\ active'[n] = "base"
        /\ \A m \in Nodes \ {n} : active'[m] = active[m]
    BY <1>0, <2>3 DEF UpgradeType, Places
  <2>9. /\ running' \in [Nodes -> BOOLEAN] /\ (running'[n] => e.whole)
        /\ \A m \in Nodes \ {n} : running'[m] = running[m]
    BY <1>0, <2>3 DEF UpgradeType
  <2>10. /\ work' \in [Nodes -> {"none"} \union OnPrimary \union OnStandby]
         /\ work'[n] = "none" /\ \A m \in Nodes \ {n} : work'[m] = work[m]
    BY <1>0, <2>3 DEF UpgradeType
  <2>11. Here(n)' = e /\ \A m \in Nodes \ {n} : Here(m)' = Here(m)
    BY <2>5, <2>8 DEF Here, e
  <2>12. UpgradeType'
    <3>1. \A m \in Nodes : running'[m] => Here(m)'.whole
      BY <1>0, <2>9, <2>11 DEF UpgradeType
    <3> QED BY <1>0, <2>3, <2>5, <2>8, <2>9, <2>10, <3>1 DEF UpgradeType
  <2>13. CurrentInv'
    <3>1. acked' \subseteq e.has /\ head' = n
      BY <1>0, <2>1, <2>2, <2>6
    <3> QED BY <2>6, <2>10, <2>11, <3>1 DEF CurrentInv, OnPrimary
  <2>14. FreezeInv'
    BY <1>0, <2>3 DEF FreezeInv
  <2>15. Here(n).id = 1 /\ work'[n] \in OnPrimary \union {"none"}
    BY <2>2, <2>10
  <2>16. \A m \in Nodes \ {n} :
           /\ dirs'[m] = dirs[m] /\ active'[m] = active[m] /\ pgConfig'[m] = pgConfig[m]
           /\ marks'[m] = marks[m] /\ work'[m] = work[m]
    BY <1>0, <2>3, <2>5, <2>8, <2>10
  <2>17. active'[n] = pgConfig'[n] /\ active'[n] # "sib" /\ pgConfig'[n] # "sib"
    BY <1>0, <2>2, <2>8
  <2> QED BY <1>0, <2>1, <2>7, <2>12, <2>13, <2>14, <2>15, <2>16, <2>17, PrimaryWorks
<1> QED BY <1>1, <1>2, <1>3, <1>4

\* The rollback: the old cluster has what is acknowledged, and runs again.
LEMMA RollbackSteps ==
  ASSUME UpgradeInv, UpgradeLapses = {}, NEW n \in Nodes, RollbackStops(n) \/ RollsBack(n)
  PROVE  UpgradeInv'
<1> DEFINE b == dirs[n]["base"]
           s == dirs[n]["sib"]
<1>0. /\ UpgradeType /\ FreezeInv /\ HandlerInv /\ SwapInv /\ CurrentInv /\ MarkInv
      /\ UNCHANGED <<record, head, pgConfig, writes, swaps, lateAbort>>
      /\ b \in Dir /\ s \in Dir
  <2>1. UNCHANGED <<record, head, pgConfig, writes, swaps, lateAbort>>
    BY DEF RollbackStops, RollsBack, bounds, diskVars
  <2>2. UpgradeType /\ b \in Dir /\ s \in Dir
    BY DEF UpgradeInv, UpgradeType, Places
  <2> QED BY <2>1, <2>2 DEF UpgradeInv
<1>1. CASE RollbackStops(n)
  <2>1. /\ n = head /\ record.frozen /\ work[n] = "none" /\ orch.pc = "call"
        /\ b.id = 1 /\ b.whole /\ active[n] = pgConfig[n]
    BY <1>0, <1>1 DEF RollbackStops, RollbackAdmitted, FreezeInv, Older, HandlerInv
  <2>2. /\ UNCHANGED <<dirs, active, marks>> /\ running' = [running EXCEPT ![n] = FALSE]
        /\ work' = [work EXCEPT ![n] = "stopped"] /\ orch' = [orch EXCEPT !.pc = "wait"]
        /\ acked' = IF orch.loss THEN acked \intersect b.has ELSE acked
        /\ (running[n] /\ MayDiscard(n)) \/ orch.loss
    BY <1>1 DEF RollbackStops, Step, Older, diskVars
  <2>3. acked' \subseteq acked /\ acked' \subseteq b.has
    <3>1. CASE orch.loss
      BY <2>2, <3>1
    <3>2. CASE ~orch.loss
      <4>1. PICK m \in marks[n] : Here(n).id = 1 \/ Here(n).has \subseteq m
        BY <2>2, <3>2 DEF MayDiscard
      <4>2. acked \subseteq Here(n).has
        BY <1>0, <2>1, <2>2, <3>2, NoDirType DEF CurrentInv, UpgradeType
      <4>3. CASE active[n] = "base"
        BY <2>2, <3>2, <4>2, <4>3 DEF Here
      <4>4. CASE active[n] = "sib"
        <5>1. Here(n).id # 1
          BY <1>0, <4>4 DEF SwapInv, Here
        <5>2. m \subseteq b.has
          BY <1>0, <2>1, <4>4 DEF MarkInv
        <5> QED BY <2>2, <3>2, <4>1, <4>2, <5>1, <5>2
      <4> QED BY <1>0, <4>3, <4>4 DEF UpgradeType, Places
    <3> QED BY <3>1, <3>2
  <2>4. /\ orch' \in Orchestrators /\ orch'.pc = "wait" /\ orch'.on = orch.on
    BY <1>0, <2>2 DEF UpgradeType, Orchestrators
  <2>5. /\ work' \in [Nodes -> {"none"} \union OnPrimary \union OnStandby]
        /\ work'[n] = "stopped" /\ \A m \in Nodes \ {n} : work'[m] = work[m]
    BY <1>0, <2>2 DEF UpgradeType, OnPrimary
  <2>6. /\ running' \in [Nodes -> BOOLEAN] /\ ~running'[n]
        /\ \A m \in Nodes \ {n} : running'[m] = running[m]
    BY <1>0, <2>2 DEF UpgradeType
  <2>7. \A m \in Nodes : Here(m)' = Here(m)
    BY <2>2 DEF Here
  <2>8. UpgradeType'
    <3>1. \A m \in Nodes : running'[m] => Here(m)'.whole
      BY <1>0, <2>6, <2>7 DEF UpgradeType
    <3>2. acked' \subseteq Nat
      BY <1>0, <2>3 DEF UpgradeType
    <3> QED BY <1>0, <2>2, <2>4, <2>5, <2>6, <3>1, <3>2 DEF UpgradeType
  <2>9. CurrentInv'
    <3>1. acked' \subseteq Here(n)'.has \/ (Here(n)' = NoDir /\ record'.frozen)
      BY <1>0, <2>1, <2>3, <2>7 DEF CurrentInv
    <3>2. /\ acked' \subseteq dirs'[n]["base"].has /\ dirs'[n]["base"].id = 1
          /\ dirs'[n]["base"].whole /\ head' = n
      BY <1>0, <2>1, <2>2, <2>3
    <3> QED BY <2>5, <2>6, <3>1, <3>2 DEF CurrentInv
  <2>10. FreezeInv'
    BY <1>0, <2>1, <2>4 DEF FreezeInv
  <2>11. /\ "sib" \in {active[n], pgConfig[n]} \/ Here(n).id = 1
         /\ dirs'[n]["sib"].id # 1 /\ work'[n] \in OnPrimary \union {"none"}
         /\ active'[n] = pgConfig'[n]
    BY <1>0, <2>1, <2>2, <2>5 DEF OnPrimary, SwapInv, UpgradeType, Places, Here
  <2>12. \A m \in Nodes \ {n} :
           /\ dirs'[m] = dirs[m] /\ active'[m] = active[m] /\ pgConfig'[m] = pgConfig[m]
           /\ marks'[m] = marks[m] /\ work'[m] = work[m]
    BY <1>0, <2>2, <2>5
  <2>13. active'[n] = "sib" \/ pgConfig'[n] = "sib" =>
           \A m \in marks'[n] : m \subseteq dirs'[n]["base"].has \/ dirs'[n]["base"].id # 1
    BY <1>0, <2>2 DEF MarkInv
  <2> QED BY <1>0, <2>1, <2>8, <2>9, <2>10, <2>11, <2>12, <2>13, PrimaryWorks
<1>2. CASE RollsBack(n)
  <2>1. /\ n = head /\ record.frozen /\ work[n] = "stopped"
        /\ "sib" \in {active[n], pgConfig[n]} \/ Here(n).id = 1
    BY <1>2, OnPrimaryFacts DEF RollsBack, OnPrimary
  <2>2. b.id = 1 /\ b.whole /\ acked \subseteq b.has
    BY <1>0, <2>1 DEF OnPrimary, CurrentInv
  <2>3. /\ dirs' = [dirs EXCEPT ![n]["sib"] = NoDir] /\ active' = [active EXCEPT ![n] = "base"]
        /\ marks' = [marks EXCEPT ![n] = {}] /\ running' = [running EXCEPT ![n] = TRUE]
        /\ work' = [work EXCEPT ![n] = "rolled back"] /\ UNCHANGED <<orch, acked>>
    BY <1>2 DEF RollsBack, Step
  <2>4. /\ dirs' \in [Nodes -> [Places -> Dir]] /\ dirs'[n]["sib"] = NoDir /\ dirs'[n]["base"] = b
        /\ \A m \in Nodes \ {n} : dirs'[m] = dirs[m]
    BY <1>0, <2>3, NoDirType DEF UpgradeType, Places
  <2>5. /\ active' \in [Nodes -> Places] /\ active'[n] = "base"
        /\ \A m \in Nodes \ {n} : active'[m] = active[m]
    BY <1>0, <2>3 DEF UpgradeType, Places
  <2>6. /\ marks' \in [Nodes -> SUBSET (SUBSET Nat)] /\ marks'[n] = {}
        /\ \A m \in Nodes \ {n} : marks'[m] = marks[m]
    BY <1>0, <2>3 DEF UpgradeType
  <2>7. /\ running' \in [Nodes -> BOOLEAN] /\ \A m \in Nodes \ {n} : running'[m] = running[m]
    BY <1>0, <2>3 DEF UpgradeType
  <2>8. /\ work' \in [Nodes -> {"none"} \union OnPrimary \union OnStandby]
        /\ work'[n] = "rolled back" /\ \A m \in Nodes \ {n} : work'[m] = work[m]
    BY <1>0, <2>3 DEF UpgradeType, OnPrimary
  <2>9. Here(n)' = b /\ \A m \in Nodes \ {n} : Here(m)' = Here(m)
    BY <2>4, <2>5 DEF Here
  <2>10. UpgradeType'
    <3>1. \A m \in Nodes : running'[m] => Here(m)'.whole
      BY <1>0, <2>2, <2>7, <2>9 DEF UpgradeType
    <3> QED BY <1>0, <2>3, <2>4, <2>5, <2>6, <2>7, <2>8, <3>1 DEF UpgradeType
  <2>11. CurrentInv'
    <3>1. /\ acked' \subseteq b.has /\ b.id = 1 /\ head' = n /\ b # NoDir
      BY <1>0, <2>1, <2>2, <2>3, NoDirType
    <3> HIDE DEF b
    <3> QED BY <2>4, <2>5, <2>8, <2>9, <3>1 DEF CurrentInv
  <2>12. FreezeInv'
    BY <1>0, <2>3 DEF FreezeInv
  <2>13. dirs'[n]["sib"].id # 1
    BY <2>4, NoDirType
  <2>14. work'[n] \in OnPrimary \union {"none"} /\ work'[n] \in {"applied", "rolled back"}
    BY <2>8 DEF OnPrimary
  <2>15. \A m \in Nodes \ {n} :
           /\ dirs'[m] = dirs[m] /\ active'[m] = active[m] /\ pgConfig'[m] = pgConfig[m]
           /\ marks'[m] = marks[m] /\ work'[m] = work[m]
    BY <1>0, <2>4, <2>5, <2>6, <2>8
  <2> QED BY <1>0, <2>1, <2>6, <2>10, <2>11, <2>12, <2>13, <2>14, <2>15, PrimaryWorks
<1> QED BY <1>1, <1>2

\* The paths of the primary are persisted.
LEMMA PersistsPrimary ==
  ASSUME UpgradeInv, UpgradeLapses = {}, NEW n \in Nodes, Persist(n),
         work[n] \in {"applied", "rolled back"}
  PROVE  UpgradeInv'
<1>0. /\ UpgradeType /\ FreezeInv /\ HandlerInv /\ SwapInv /\ CurrentInv /\ MarkInv
      /\ UNCHANGED <<record, head, dirs, active, marks, running, acked, writes, swaps, lateAbort>>
  BY DEF UpgradeInv, Persist, bounds
<1>1. /\ n = head /\ record.frozen
      /\ "sib" \in {active[n], pgConfig[n]} \/ Here(n).id = 1
  BY OnPrimaryFacts DEF OnPrimary
<1>2. /\ pgConfig' = [pgConfig EXCEPT ![n] = active[n]] /\ work' = [work EXCEPT ![n] = "none"]
      /\ orch' = IF orch.pc = "wait" /\ orch.on = n THEN [orch EXCEPT !.pc = "serve"] ELSE orch
  BY DEF Persist, RewritePaths, Step
<1>3. /\ orch' \in Orchestrators /\ orch'.on = orch.on
      /\ orch'.pc # orch.pc => orch'.pc = "serve" /\ orch.pc = "wait"
  BY <1>0, <1>2 DEF UpgradeType, Orchestrators
<1>4. /\ pgConfig' \in [Nodes -> Places] /\ pgConfig'[n] = active[n]
      /\ \A m \in Nodes \ {n} : pgConfig'[m] = pgConfig[m]
  BY <1>0, <1>2 DEF UpgradeType
<1>5. /\ work' \in [Nodes -> {"none"} \union OnPrimary \union OnStandby]
      /\ work'[n] = "none" /\ \A m \in Nodes \ {n} : work'[m] = work[m]
  BY <1>0, <1>2 DEF UpgradeType
<1>6. \A m \in Nodes : Here(m)' = Here(m)
  BY <1>0 DEF Here
<1>7. UpgradeType'
  BY <1>0, <1>3, <1>4, <1>5, <1>6 DEF UpgradeType
<1>8. CurrentInv'
  <2>1. /\ acked' \subseteq Here(n)'.has \/ (Here(n)' = NoDir /\ record'.frozen)
        /\ Here(n)' = NoDir => acked' \subseteq dirs'[n]["base"].has
        /\ head' = n
    BY <1>0, <1>1, <1>6 DEF CurrentInv
  <2> QED BY <1>5, <2>1 DEF CurrentInv, OnPrimary
<1>9. FreezeInv'
  BY <1>0, <1>3 DEF FreezeInv
<1>10. /\ dirs'[n]["sib"].id # 1 /\ work'[n] \in OnPrimary \union {"none"}
       /\ active'[n] = pgConfig'[n]
  BY <1>0, <1>4, <1>5 DEF SwapInv
<1>11. \A m \in Nodes \ {n} :
         /\ dirs'[m] = dirs[m] /\ active'[m] = active[m] /\ pgConfig'[m] = pgConfig[m]
         /\ marks'[m] = marks[m] /\ work'[m] = work[m]
  BY <1>0, <1>4, <1>5
<1>12. active'[n] = "sib" \/ pgConfig'[n] = "sib" =>
         \A m \in marks'[n] : m \subseteq dirs'[n]["base"].has \/ dirs'[n]["base"].id # 1
  BY <1>0, <1>4 DEF MarkInv
<1> QED BY <1>0, <1>1, <1>7, <1>8, <1>9, <1>10, <1>11, <1>12, PrimaryWorks

\* A step on one standby: it is wiped, a copy of the leader, or as it was.
LEMMA StandbyWorks ==
  ASSUME UpgradeInv, NEW n \in Nodes, n # head,
         UNCHANGED <<record, head, active, pgConfig, marks, orch, acked, swaps, writes, lateAbort>>,
         NEW d \in Dir, d \in {Wreck, Here(head), Here(n)},
         dirs' = [dirs EXCEPT ![n][active[n]] = d],
         running' \in [Nodes -> BOOLEAN], \A m \in Nodes \ {n} : running'[m] = running[m],
         running'[n] => d.whole,
         NEW w \in {"none", "wiped", "cloned"}, work' = [work EXCEPT ![n] = w],
         w # "none" => n \in record.awaiting /\ ~record.frozen,
         active[n] = pgConfig[n]
  PROVE  UpgradeInv'
<1>0. /\ UpgradeType /\ FreezeInv /\ HandlerInv /\ SwapInv /\ CurrentInv /\ MarkInv /\ MajorInv
  BY DEF UpgradeInv
<1>1. /\ dirs' \in [Nodes -> [Places -> Dir]] /\ dirs'[n][active[n]] = d
      /\ \A x \in Places : x # active[n] => dirs'[n][x] = dirs[n][x]
      /\ \A m \in Nodes \ {n} : dirs'[m] = dirs[m]
  BY <1>0 DEF UpgradeType
<1>2. Here(n)' = d /\ \A m \in Nodes \ {n} : Here(m)' = Here(m)
  BY <1>1 DEF Here
<1>3. /\ work' \in [Nodes -> {"none"} \union OnPrimary \union OnStandby]
      /\ work'[n] = w /\ \A m \in Nodes \ {n} : work'[m] = work[m]
  BY <1>0 DEF UpgradeType, OnStandby
<1>4. UpgradeType'
  <2>1. \A m \in Nodes : running'[m] => Here(m)'.whole
    BY <1>0, <1>2 DEF UpgradeType
  <2> QED BY <1>0, <1>1, <1>3, <2>1 DEF UpgradeType
<1>5. FreezeInv'
  BY <1>0 DEF FreezeInv
<1>6. HandlerInv'
  <2>1. w \notin OnPrimary
    BY DEF OnPrimary
  <2> QED BY <1>0, <1>3, <2>1 DEF HandlerInv, OnStandby
<1>7. SwapInv'
  <2>1. head \in Nodes /\ active[n] \in Places
    BY <1>0 DEF UpgradeType
  <2>2. active[n] = "sib" => d.id # 1
    BY <1>0, NoDirType DEF SwapInv, Here
  <2>3. \A m \in Nodes : dirs'[m]["sib"].id # 1
    BY <1>0, <1>1, <2>1, <2>2 DEF SwapInv, Places
  <2>4. Here(head)' = Here(head)
    BY <1>2, <2>1
  <2> QED BY <1>0, <2>3, <2>4 DEF SwapInv
<1>8. CurrentInv'
  <2>1. head \in Nodes \ {n} /\ head' = head
    BY <1>0 DEF UpgradeType
  <2>2. /\ Here(head)' = Here(head) /\ dirs'[head] = dirs[head] /\ work'[head] = work[head]
        /\ running'[head] = running[head]
    BY <1>1, <1>2, <1>3, <2>1
  <2> QED BY <1>0, <2>1, <2>2 DEF CurrentInv
<1>9. MarkInv'
  <2>1. active[n] = "sib" => dirs'[n]["base"] = dirs[n]["base"]
    BY <1>1 DEF Places
  <2> QED BY <1>0, <1>1, <2>1 DEF MarkInv
<1>10. MajorInv'
  <2>1. head \in Nodes \ {n} /\ head' = head
    BY <1>0 DEF UpgradeType
  <2>2. Here(head)' = Here(head)
    BY <1>2, <2>1
  <2>3. Major(Wreck) = "none"
    BY NoDirType DEF Major
  <2> QED BY <1>0, <1>2, <2>1, <2>2, <2>3 DEF MajorInv
<1> QED BY <1>4, <1>5, <1>6, <1>7, <1>8, <1>9, <1>10 DEF UpgradeInv

\* A standby is wiped and cloned, or follows.
LEMMA StandbySteps ==
  ASSUME UpgradeInv, UpgradeLapses = {}, NEW n \in Nodes,
         \/ RejoinWipes(n) \/ RejoinClones(n) \/ StandbyFollows(n)
         \/ Persist(n) /\ work[n] \notin {"applied", "rolled back"}
  PROVE  UpgradeInv'
<1>0. UpgradeType /\ FreezeInv /\ HandlerInv /\ head \in Nodes /\ Here(n) \in Dir /\ Here(head) \in Dir
  BY DEF UpgradeInv, UpgradeType, Here
<1>1. CASE RejoinWipes(n)
  <2>1. /\ n \in record.awaiting /\ work[n] = "none" /\ orch.pc = "rejoin"
        /\ UNCHANGED <<record, head, active, pgConfig, marks, orch, acked, swaps, writes, lateAbort>>
        /\ dirs' = [dirs EXCEPT ![n][active[n]] = Wreck] /\ running' = [running EXCEPT ![n] = FALSE]
        /\ work' = [work EXCEPT ![n] = "wiped"]
    BY <1>1 DEF RejoinWipes, Step, bounds
  <2>2. n # head /\ ~record.frozen /\ active[n] = pgConfig[n]
    BY <1>0, <2>1 DEF FreezeInv, HandlerInv
  <2>3. /\ running' \in [Nodes -> BOOLEAN] /\ ~running'[n]
        /\ \A m \in Nodes \ {n} : running'[m] = running[m]
    BY <1>0, <2>1 DEF UpgradeType
  <2> QED BY <2>1, <2>2, <2>3, NoDirType, StandbyWorks
<1>2. CASE RejoinClones(n)
  <2>1. /\ work[n] = "wiped"
        /\ UNCHANGED <<record, head, active, pgConfig, marks, orch, acked, swaps, writes, lateAbort>>
        /\ \/ /\ Here(head).whole /\ dirs' = [dirs EXCEPT ![n][active[n]] = Here(head)]
              /\ running' = [running EXCEPT ![n] = TRUE] /\ work' = [work EXCEPT ![n] = "cloned"]
           \/ work' = [work EXCEPT ![n] = "none"] /\ UNCHANGED <<dirs, running>>
    BY <1>2 DEF RejoinClones, Step, bounds
  <2>2. n # head /\ n \in record.awaiting /\ ~record.frozen /\ active[n] = pgConfig[n]
    BY <1>0, <2>1 DEF FreezeInv, HandlerInv, OnStandby
  <2>3. CASE work' = [work EXCEPT ![n] = "none"] /\ UNCHANGED <<dirs, running>>
    <3>1. dirs' = [dirs EXCEPT ![n][active[n]] = Here(n)]
      BY <1>0, <2>3 DEF UpgradeType, Here
    <3>2. /\ running' \in [Nodes -> BOOLEAN] /\ (running'[n] => Here(n).whole)
          /\ \A m \in Nodes \ {n} : running'[m] = running[m]
      BY <1>0, <2>3 DEF UpgradeType
    <3> QED BY <1>0, <2>1, <2>2, <2>3, <3>1, <3>2, StandbyWorks
  <2>4. CASE /\ Here(head).whole /\ dirs' = [dirs EXCEPT ![n][active[n]] = Here(head)]
             /\ running' = [running EXCEPT ![n] = TRUE] /\ work' = [work EXCEPT ![n] = "cloned"]
    <3>1. /\ running' \in [Nodes -> BOOLEAN] /\ \A m \in Nodes \ {n} : running'[m] = running[m]
      BY <1>0, <2>4 DEF UpgradeType
    <3> QED BY <1>0, <2>1, <2>2, <2>4, <3>1, StandbyWorks
  <2> QED BY <2>1, <2>3, <2>4
<1>3. CASE StandbyFollows(n)
  <2>1. /\ n # head /\ work[n] = "none" /\ running[head]
        /\ UNCHANGED <<record, head, active, pgConfig, marks, orch, acked, swaps, writes, lateAbort>>
        /\ dirs' = [dirs EXCEPT ![n][active[n]] = Here(head)] /\ running' = [running EXCEPT ![n] = TRUE]
        /\ UNCHANGED work
    BY <1>3 DEF StandbyFollows, bounds
  <2>2. active[n] = pgConfig[n] /\ Here(head).whole
    BY <1>0, <2>1 DEF HandlerInv, UpgradeType
  <2>3. work' = [work EXCEPT ![n] = "none"]
    BY <1>0, <2>1 DEF UpgradeType
  <2>4. /\ running' \in [Nodes -> BOOLEAN] /\ \A m \in Nodes \ {n} : running'[m] = running[m]
    BY <1>0, <2>1 DEF UpgradeType
  <2> QED BY <1>0, <2>1, <2>2, <2>3, <2>4, StandbyWorks
<1>4. CASE Persist(n) /\ work[n] \notin {"applied", "rolled back"}
  <2>1. work[n] = "cloned"
    BY <1>4 DEF Persist
  <2>2. n # head /\ n \in record.awaiting /\ ~record.frozen /\ active[n] = pgConfig[n]
    BY <1>0, <2>1 DEF FreezeInv, HandlerInv, OnStandby
  <2>3. /\ UNCHANGED <<record, head, dirs, active, marks, running, acked, swaps, writes, lateAbort>>
        /\ pgConfig' = [pgConfig EXCEPT ![n] = active[n]] /\ work' = [work EXCEPT ![n] = "none"]
        /\ orch.pc # "wait" => orch' = orch
    BY <1>4 DEF Persist, RewritePaths, Step, bounds
  <2>4. UNCHANGED <<orch, pgConfig>> /\ dirs' = [dirs EXCEPT ![n][active[n]] = Here(n)]
    BY <1>0, <2>2, <2>3 DEF UpgradeType, FreezeInv, Here
  <2>5. /\ running' \in [Nodes -> BOOLEAN] /\ (running'[n] => Here(n).whole)
        /\ \A m \in Nodes \ {n} : running'[m] = running[m]
    BY <1>0, <2>3 DEF UpgradeType
  <2> QED BY <1>0, <2>2, <2>3, <2>4, <2>5, StandbyWorks
<1> QED BY <1>1, <1>2, <1>3, <1>4

\* The old cluster is deleted where the new one runs.
LEMMA ConfirmStep ==
  ASSUME UpgradeInv, NEW n \in Nodes, ConfirmLocal(n)
  PROVE  UpgradeInv'
<1> DEFINE y == Other(active[n])
<1>0. /\ UpgradeType /\ FreezeInv /\ HandlerInv /\ SwapInv /\ CurrentInv /\ MarkInv /\ MajorInv
      /\ UNCHANGED <<record, head, active, pgConfig, running, work, acked, swaps, writes, lateAbort>>
      /\ orch.pc = "confirm" /\ work[n] = "none" /\ Major(Here(n)) = "new"
  BY DEF UpgradeInv, ConfirmLocal, ConfirmAdmitted, bounds
<1>1. /\ y \in Places /\ y # active[n] /\ active[n] \in Places
  BY <1>0 DEF UpgradeType, Places, Other
<1>2. \/ UNCHANGED <<dirs, marks>>
      \/ dirs' = [dirs EXCEPT ![n][y] = NoDir] /\ marks' = [marks EXCEPT ![n] = {}]
  BY DEF ConfirmLocal
<1> HIDE DEF y
<1>3. /\ dirs' \in [Nodes -> [Places -> Dir]] /\ \A m \in Nodes \ {n} : dirs'[m] = dirs[m]
      /\ dirs'[n][active[n]] = dirs[n][active[n]] /\ dirs'[n]["sib"] \in {dirs[n]["sib"], NoDir}
      /\ marks' \in [Nodes -> SUBSET (SUBSET Nat)] /\ \A m \in Nodes \ {n} : marks'[m] = marks[m]
      /\ marks'[n] = {} \/ (dirs'[n] = dirs[n] /\ marks'[n] = marks[n])
  <2>1. dirs \in [Nodes -> [Places -> Dir]] /\ marks \in [Nodes -> SUBSET (SUBSET Nat)]
    BY <1>0 DEF UpgradeType
  <2>2. CASE UNCHANGED <<dirs, marks>>
    BY <2>1, <2>2
  <2>3. CASE dirs' = [dirs EXCEPT ![n][y] = NoDir] /\ marks' = [marks EXCEPT ![n] = {}]
    <3>1. /\ dirs' \in [Nodes -> [Places -> Dir]] /\ dirs'[n][y] = NoDir
          /\ \A m \in Nodes \ {n} : dirs'[m] = dirs[m]
          /\ \A x \in Places : x # y => dirs'[n][x] = dirs[n][x]
      BY <1>1, <2>1, <2>3, NoDirType
    <3>2. /\ marks' \in [Nodes -> SUBSET (SUBSET Nat)] /\ marks'[n] = {}
          /\ \A m \in Nodes \ {n} : marks'[m] = marks[m]
      BY <2>1, <2>3
    <3>3. dirs'[n][active[n]] = dirs[n][active[n]] /\ dirs'[n]["sib"] \in {dirs[n]["sib"], NoDir}
      BY <1>1, <3>1 DEF Places
    <3> QED BY <3>1, <3>2, <3>3
  <2> QED BY <1>2, <2>2, <2>3
<1>4. \A m \in Nodes : Here(m)' = Here(m)
  BY <1>0, <1>3 DEF Here
<1>5. orch' \in Orchestrators /\ orch'.pc \in {"none", "confirm"}
  <2>1. orch' = NoOrch \/ orch' = [orch EXCEPT !.left = @ \ {n}]
    BY DEF ConfirmLocal
  <2> QED BY <1>0, <2>1, NoOrchType DEF UpgradeType, Orchestrators
<1>6. UpgradeType'
  BY <1>0, <1>3, <1>4, <1>5 DEF UpgradeType
<1>7. FreezeInv' /\ HandlerInv'
  BY <1>0, <1>5 DEF FreezeInv, HandlerInv
<1>8. SwapInv'
  <2>1. \A m \in Nodes : dirs'[m]["sib"].id # 1
    BY <1>0, <1>3, NoDirType DEF SwapInv
  <2>2. head \in Nodes /\ Here(head)' = Here(head)
    BY <1>0, <1>4 DEF UpgradeType
  <2> QED BY <1>0, <2>1, <2>2 DEF SwapInv
<1>9. CurrentInv'
  <2>1. head \in Nodes /\ head' = head /\ Here(head)' = Here(head)
    BY <1>0, <1>4 DEF UpgradeType
  <2>2. CASE head # n
    <3>1. dirs'[head] = dirs[head]
      BY <1>3, <2>1, <2>2
    <3> QED BY <1>0, <2>1, <3>1 DEF CurrentInv
  <2>3. CASE head = n
    <3>1. Here(head) # NoDir
      BY <1>0, <2>3, NoDirType DEF Major
    <3> QED BY <1>0, <2>1, <2>3, <3>1 DEF CurrentInv, OnPrimary
  <2> QED BY <2>2, <2>3
<1>10. MarkInv'
  BY <1>0, <1>3 DEF MarkInv
<1>11. MajorInv'
  <2>1. head \in Nodes /\ Here(head)' = Here(head)
    BY <1>0, <1>4 DEF UpgradeType
  <2> QED BY <1>0, <1>4, <2>1 DEF MajorInv
<1> QED BY <1>6, <1>7, <1>8, <1>9, <1>10, <1>11 DEF UpgradeInv

\* A client's write, on the primary and on who streams from it.
LEMMA WriteStep ==
  ASSUME UpgradeInv, ClientWrite
  PROVE  UpgradeInv'
<1>0. /\ UpgradeType /\ FreezeInv /\ HandlerInv /\ SwapInv /\ CurrentInv /\ MarkInv /\ MajorInv
      /\ UNCHANGED <<record, head, active, pgConfig, marks, running, work, orch, swaps, lateAbort>>
      /\ running[head] /\ work[head] = "none" /\ ~record.frozen /\ head \in Nodes
      /\ writes' = writes + 1 /\ acked' = acked \union {writes + 1}
      /\ dirs' = [n \in Nodes |->
           IF Streams(n) THEN [dirs[n] EXCEPT ![active[n]].has = @ \union {writes + 1}] ELSE dirs[n]]
  BY DEF UpgradeInv, UpgradeType, ClientWrite, Open, Serving
<1>1. ASSUME NEW n \in Nodes, NEW x \in Places
      PROVE  /\ dirs'[n] \in [Places -> Dir]
             /\ dirs'[n][x].id = dirs[n][x].id /\ dirs'[n][x].whole = dirs[n][x].whole
             /\ dirs[n][x].has \subseteq dirs'[n][x].has
             /\ n = head => writes + 1 \in Here(n)'.has
  <2> DEFINE a == active[n]
             d == dirs[n][a]
             e == [d EXCEPT !.has = @ \union {writes + 1}]
  <2>1. a \in Places /\ dirs[n] \in [Places -> Dir] /\ d \in Dir /\ writes + 1 \in Nat
    BY <1>0 DEF UpgradeType
  <2> HIDE DEF a
  <2>2. e \in Dir /\ e.id = d.id /\ e.whole = d.whole /\ e.has = d.has \union {writes + 1}
    <3> HIDE DEF d
    <3> QED BY <2>1 DEF Dir
  <2>3. CASE Streams(n)
    <3>1. dirs'[n] = [dirs[n] EXCEPT ![a] = e]
      BY <1>0, <2>1, <2>3 DEF a
    <3> HIDE DEF e
    <3>2. /\ dirs'[n] \in [Places -> Dir] /\ dirs'[n][a] = e
          /\ x # a => dirs'[n][x] = dirs[n][x]
      BY <2>1, <2>2, <3>1
    <3>3. Here(n)' = e
      BY <1>0, <3>2 DEF Here, a
    <3> QED BY <2>2, <3>2, <3>3
  <2>4. CASE ~Streams(n)
    <3>1. dirs'[n] = dirs[n] /\ n # head
      BY <1>0, <2>4 DEF Streams
    <3> QED BY <2>1, <3>1
  <2> QED BY <2>3, <2>4
<1>2. \A n \in Nodes : /\ Here(n)'.id = Here(n).id /\ Here(n)'.whole = Here(n).whole
                       /\ Here(n).has \subseteq Here(n)'.has
  BY <1>0, <1>1 DEF Here, UpgradeType
<1>3. UpgradeType'
  <2>1. dirs' \in [Nodes -> [Places -> Dir]]
    <3>1. "base" \in Places
      BY DEF Places
    <3>2. \A n \in Nodes : dirs'[n] \in [Places -> Dir]
      BY <1>1, <3>1
    <3>3. dirs' = [n \in Nodes |-> dirs'[n]]
      BY <1>0
    <3> QED BY <3>2, <3>3
  <2>2. writes' \in Nat /\ acked' \subseteq Nat
    BY <1>0 DEF UpgradeType
  <2> QED BY <1>0, <1>2, <2>1, <2>2 DEF UpgradeType
<1>4. FreezeInv' /\ HandlerInv'
  BY <1>0 DEF FreezeInv, HandlerInv
<1>5. SwapInv'
  <2>1. \A n \in Nodes : dirs'[n]["sib"].id # 1
    BY <1>0, <1>1 DEF SwapInv, Places
  <2>2. Here(head)'.id = Here(head).id
    BY <1>0, <1>2
  <2> QED BY <1>0, <2>1, <2>2 DEF SwapInv
<1>6. CurrentInv'
  <2>1. Here(head) # NoDir /\ Here(head).whole
    BY <1>0, NoDirType DEF UpgradeType
  <2>2. acked \subseteq Here(head).has
    BY <1>0, <2>1 DEF CurrentInv
  <2>3. writes + 1 \in Here(head)'.has
    <3>1. "base" \in Places
      BY DEF Places
    <3> QED BY <1>0, <1>1, <3>1
  <2>4. acked' \subseteq Here(head)'.has /\ Here(head)'.whole
    BY <1>0, <1>2, <2>1, <2>2, <2>3
  <2>5. Here(head)' # NoDir
    BY <2>4, NoDirType
  <2> QED BY <1>0, <2>4, <2>5 DEF CurrentInv, OnPrimary
<1>7. MarkInv'
  <2>1. \A n \in Nodes : dirs'[n]["base"].id = dirs[n]["base"].id
                         /\ dirs[n]["base"].has \subseteq dirs'[n]["base"].has
    BY <1>1 DEF Places
  <2> QED BY <1>0, <2>1 DEF MarkInv
<1>8. MajorInv'
  <2>1. \A n \in Nodes : Major(Here(n)') = Major(Here(n))
    BY <1>2 DEF Major
  <2>2. head' = head
    BY <1>0
  <2> QED BY <1>0, <2>1, <2>2 DEF MajorInv, Major
<1> QED BY <1>3, <1>4, <1>5, <1>6, <1>7, <1>8 DEF UpgradeInv

\* A process starts again on what its configuration names, at any point of a swap.
LEMMA RestartStep ==
  ASSUME UpgradeInv, NEW n \in Nodes, ProcessRestarts(n)
  PROVE  UpgradeInv'
<1> DEFINE b == dirs[n]["base"]
           s == dirs[n]["sib"]
           e == dirs'[n][pgConfig[n]]
           c == [b EXCEPT !.whole = (work[n] = "copying")]
<1>0. /\ UpgradeType /\ FreezeInv /\ HandlerInv /\ SwapInv /\ CurrentInv /\ MarkInv /\ MajorInv
      /\ UNCHANGED <<record, head, pgConfig, marks, orch, acked, swaps, writes, lateAbort>>
      /\ active' = [active EXCEPT ![n] = pgConfig[n]] /\ work' = [work EXCEPT ![n] = "none"]
      /\ \E up \in {FALSE, e.whole} : running' = [running EXCEPT ![n] = up]
  <2>1. /\ UNCHANGED <<record, head, pgConfig, marks, orch, acked, swaps, writes, lateAbort>>
        /\ active' = [active EXCEPT ![n] = pgConfig[n]] /\ work' = [work EXCEPT ![n] = "none"]
    BY DEF ProcessRestarts, Step
  <2>2. \E up \in {FALSE, e.whole} : running' = [running EXCEPT ![n] = up]
    BY DEF ProcessRestarts
  <2> QED BY <2>1, <2>2 DEF UpgradeInv
<1>1. /\ dirs' \in [Nodes -> [Places -> Dir]] /\ \A m \in Nodes \ {n} : dirs'[m] = dirs[m]
      /\ dirs'[n]["base"].has = b.has /\ dirs'[n]["base"].id = b.id
      /\ dirs'[n]["sib"] = IF work[n] \in {"copying", "linking"} THEN Wreck ELSE s
      /\ work[n] \notin {"copying", "linking"} => dirs' = dirs
  <2>1. dirs \in [Nodes -> [Places -> Dir]] /\ b \in Dir
    BY <1>0 DEF UpgradeType, Places
  <2>2. CASE work[n] \notin {"copying", "linking"}
    BY <2>1, <2>2 DEF ProcessRestarts
  <2>3. CASE work[n] \in {"copying", "linking"}
    <3>1. b.id = 1
      BY <1>0, <2>3, OnPrimaryFacts DEF CurrentInv, OnPrimary
    <3>2. c \in Dir /\ c.has = b.has /\ c.id = 1
      <4>1. b.id >= 1 /\ (work[n] = "copying") \in BOOLEAN
        BY <3>1
      <4> HIDE DEF b
      <4> QED BY <2>1, <3>1, <4>1, DirMarked
    <3>3. dirs' \in Interrupted(n)
      BY <2>3 DEF ProcessRestarts
    <3>4. CASE dirs' = [dirs EXCEPT ![n]["sib"] = Wreck]
      BY <2>1, <2>3, <3>4, NoDirType DEF Places
    <3>5. CASE dirs' = [dirs EXCEPT ![n]["sib"] = Wreck, ![n]["base"].whole = (work[n] = "copying")]
      <4>1. dirs' = [dirs EXCEPT ![n]["sib"] = Wreck, ![n]["base"] = c]
        BY <2>1, <3>5 DEF Places
      <4> HIDE DEF c
      <4>2. /\ dirs' \in [Nodes -> [Places -> Dir]] /\ dirs'[n]["base"] = c
            /\ dirs'[n]["sib"] = Wreck /\ \A m \in Nodes \ {n} : dirs'[m] = dirs[m]
        BY <2>1, <3>2, <4>1, NoDirType DEF Places
      <4> QED BY <2>3, <3>1, <3>2, <4>2
    <3> QED BY <3>3, <3>4, <3>5 DEF Interrupted
  <2> QED BY <2>2, <2>3
<1>2. pgConfig[n] \in Places /\ e \in Dir /\ e.whole \in BOOLEAN
  <2>1. pgConfig[n] \in Places
    BY <1>0 DEF UpgradeType
  <2>2. e \in Dir
    BY <1>1, <2>1
  <2> QED BY <2>1, <2>2 DEF Dir
<1>3. /\ active' \in [Nodes -> Places] /\ active'[n] = pgConfig[n]
      /\ \A m \in Nodes \ {n} : active'[m] = active[m]
  BY <1>0 DEF UpgradeType
<1>4. /\ work' \in [Nodes -> {"none"} \union OnPrimary \union OnStandby]
      /\ work'[n] = "none" /\ \A m \in Nodes \ {n} : work'[m] = work[m]
  BY <1>0 DEF UpgradeType
<1>5. Here(n)' = e /\ \A m \in Nodes \ {n} : Here(m)' = Here(m)
  BY <1>0, <1>1, <1>3 DEF Here
<1> HIDE DEF e
<1>6. /\ running' \in [Nodes -> BOOLEAN] /\ (running'[n] => e.whole)
      /\ \A m \in Nodes \ {n} : running'[m] = running[m]
  <2>1. PICK up \in {FALSE, e.whole} : running' = [running EXCEPT ![n] = up]
    BY <1>0
  <2>2. running \in [Nodes -> BOOLEAN] /\ up \in BOOLEAN
    BY <1>0, <1>2 DEF UpgradeType
  <2> QED BY <2>1, <2>2
<1>7. UpgradeType'
  <2>1. \A m \in Nodes : running'[m] => Here(m)'.whole
    BY <1>0, <1>5, <1>6 DEF UpgradeType
  <2> QED BY <1>0, <1>1, <1>3, <1>4, <1>6, <2>1 DEF UpgradeType
<1>8. FreezeInv'
  BY <1>0 DEF FreezeInv
<1>9. CASE work[n] \in OnPrimary
  <2>1. /\ n = head /\ record.frozen
        /\ "sib" \in {active[n], pgConfig[n]} \/ Here(n).id = 1
    BY <1>9, OnPrimaryFacts
  <2>2. b.id = 1
    BY <1>0, <1>9, <2>1 DEF CurrentInv
  <2>3. acked \subseteq b.has
    <3>1. CASE work[n] \in {"copying", "linking", "upgraded", "stopped", "applied"}
      BY <1>0, <2>1, <3>1 DEF CurrentInv
    <3>2. CASE work[n] = "rolled back"
      <4>1. Here(n) = b
        BY <1>0, <2>1, <3>2 DEF CurrentInv, Here
      <4> QED BY <1>0, <2>1, <2>2, <4>1, NoDirType DEF CurrentInv
    <3> QED BY <1>9, <3>1, <3>2 DEF OnPrimary
  <2>4. acked \subseteq e.has \/ e = NoDir
    <3>1. CASE pgConfig[n] = "base"
      BY <1>1, <2>3, <3>1 DEF e
    <3>2. CASE pgConfig[n] = "sib" /\ work[n] = "rolled back"
      BY <1>0, <1>1, <2>1, <3>2 DEF e, CurrentInv
    <3>3. CASE pgConfig[n] = "sib" /\ work[n] # "rolled back"
      <4>1. work[n] = "stopped" /\ active[n] = "sib"
        BY <1>0, <1>9, <2>1, <3>3 DEF CurrentInv, HandlerInv, OnPrimary
      <4>2. e = Here(n)
        BY <1>1, <3>3, <4>1 DEF e, Here
      <4> QED BY <1>0, <2>1, <4>2 DEF CurrentInv
    <3> QED BY <1>2, <3>1, <3>2, <3>3 DEF Places
  <2>5. CurrentInv'
    <3>1. /\ acked' \subseteq Here(n)'.has \/ (Here(n)' = NoDir /\ record'.frozen)
          /\ acked' \subseteq dirs'[n]["base"].has /\ head' = n
      BY <1>0, <1>1, <1>5, <2>1, <2>3, <2>4
    <3> QED BY <1>4, <3>1 DEF CurrentInv, OnPrimary
  <2>6. dirs'[n]["sib"].id # 1
    BY <1>0, <1>1, NoDirType DEF SwapInv
  <2>7. active'[n] = pgConfig'[n] /\ work'[n] \in OnPrimary \union {"none"}
    BY <1>0, <1>3, <1>4
  <2>8. \A m \in Nodes \ {n} :
          /\ dirs'[m] = dirs[m] /\ active'[m] = active[m] /\ pgConfig'[m] = pgConfig[m]
          /\ marks'[m] = marks[m] /\ work'[m] = work[m]
    BY <1>0, <1>1, <1>3, <1>4
  <2>9. active'[n] = "sib" \/ pgConfig'[n] = "sib" =>
          \A m \in marks'[n] : m \subseteq dirs'[n]["base"].has \/ dirs'[n]["base"].id # 1
    BY <1>0, <1>1, <1>3 DEF MarkInv
  <2> QED BY <1>0, <1>7, <1>8, <2>1, <2>5, <2>6, <2>7, <2>8, <2>9, PrimaryWorks
<1>10. CASE work[n] \notin OnPrimary
  <2>1. active[n] = pgConfig[n] /\ work[n] \notin {"copying", "linking"}
    BY <1>0, <1>10 DEF HandlerInv, OnPrimary
  <2>2. UNCHANGED <<dirs, active>>
    <3>1. dirs' = dirs
      BY <1>1, <2>1
    <3> QED BY <1>0, <2>1, <3>1 DEF UpgradeType
  <2>3. \A m \in Nodes : Here(m)' = Here(m)
    BY <2>2 DEF Here
  <2>4. HandlerInv'
    <3>1. work'[n] \notin OnPrimary /\ work'[n] \notin OnStandby
      BY <1>4 DEF OnPrimary, OnStandby
    <3>2. active'[n] = pgConfig'[n]
      BY <1>0, <2>1, <2>2
    <3> QED BY <1>0, <1>4, <2>2, <3>1, <3>2 DEF HandlerInv
  <2>5. SwapInv' /\ MarkInv' /\ MajorInv'
    <3>1. head \in Nodes /\ Here(head)' = Here(head) /\ head' = head
      BY <1>0, <2>3 DEF UpgradeType
    <3>2. SwapInv' /\ MarkInv'
      BY <1>0, <2>2, <3>1 DEF SwapInv, MarkInv
    <3>3. MajorInv'
      BY <1>0, <2>3, <3>1 DEF MajorInv
    <3> QED BY <3>2, <3>3
  <2>6. CurrentInv'
    <3>1. head \in Nodes /\ Here(head)' = Here(head) /\ head' = head
      BY <1>0, <2>3 DEF UpgradeType
    <3>2. CASE head = n
      BY <1>0, <1>4, <2>2, <3>1, <3>2 DEF CurrentInv, OnPrimary
    <3>3. CASE head # n
      <4>1. work'[head] = work[head] /\ running'[head] = running[head]
        BY <1>4, <1>6, <3>1, <3>3
      <4> QED BY <1>0, <2>2, <3>1, <4>1 DEF CurrentInv
    <3> QED BY <3>2, <3>3
  <2> QED BY <1>7, <1>8, <2>4, <2>5, <2>6 DEF UpgradeInv
<1> QED BY <1>9, <1>10

\* The leadership moves to a node that is not awaited and has the leader's files.
LEMMA MoveStep ==
  ASSUME UpgradeInv, UpgradeLapses = {}, NEW n \in Nodes, LeadershipMoves(n)
  PROVE  UpgradeInv'
<1>0. /\ UpgradeType /\ FreezeInv /\ HandlerInv /\ SwapInv /\ CurrentInv /\ MarkInv /\ MajorInv
      /\ UNCHANGED <<record, diskVars, running, work, orch, acked, swaps, writes, lateAbort>>
      /\ n # head /\ ~record.frozen /\ n \notin record.awaiting /\ head' = n /\ head \in Nodes
      /\ Here(n).id = Here(head).id /\ Here(head).has \subseteq Here(n).has
  BY DEF UpgradeInv, UpgradeType, LeadershipMoves
<1>1. UNCHANGED <<dirs, active, pgConfig, marks>> /\ \A m \in Nodes : Here(m)' = Here(m)
  BY <1>0 DEF diskVars, Here
<1>2. ~record.frozen /\ \A m \in Nodes : work[m] \notin OnPrimary
  BY <1>0 DEF FreezeInv, HandlerInv
<1>3. UpgradeType'
  BY <1>0, <1>1 DEF UpgradeType
<1>4. FreezeInv' /\ HandlerInv'
  BY <1>0, <1>1, <1>2 DEF FreezeInv, HandlerInv
<1>5. SwapInv'
  <2>1. "sib" \in {active[head], pgConfig[head]} => Here(head).id # 1
    BY <1>0, <1>2 DEF SwapInv, HandlerInv, OnPrimary, Here
  <2>2. Here(n)' = Here(n)
    BY <1>1
  <2> QED BY <1>0, <1>1, <2>1, <2>2 DEF SwapInv
<1>6. CurrentInv'
  <2>1. acked' \subseteq Here(n)'.has
    BY <1>0, <1>1, <1>2 DEF CurrentInv
  <2>2. Here(n)' = NoDir => acked' = {}
    BY <2>1 DEF NoDir
  <2>3. work'[n] \notin OnPrimary
    BY <1>0, <1>2
  <2> QED BY <1>0, <2>1, <2>2, <2>3 DEF CurrentInv, OnPrimary
<1>7. MarkInv'
  BY <1>0, <1>1 DEF MarkInv
<1>8. MajorInv'
  <2>1. Major(Here(n)) = Major(Here(head))
    BY <1>0 DEF Major
  <2> QED BY <1>0, <1>1, <2>1 DEF MajorInv
<1> QED BY <1>3, <1>4, <1>5, <1>6, <1>7, <1>8 DEF UpgradeInv

\* The state of the upgrade, from the start and through every step.
LEMMA UpgradeInvariant == ASSUME UpgradeLapses = {} PROVE UpgradeSpec => []UpgradeInv
<1>1. UpgradeInit => UpgradeInv
  <2> SUFFICES ASSUME UpgradeInit PROVE UpgradeInv
    OBVIOUS
  <2>1. Original \in Dir /\ Original.id = 1 /\ Original.whole /\ Original # NoDir
    BY DEF Original, Dir, NoDir
  <2>2. /\ dirs \in [Nodes -> [Places -> Dir]]
        /\ \A n \in Nodes : dirs[n]["base"] = Original /\ dirs[n]["sib"] = NoDir /\ Here(n) = Original
    BY <2>1, NoDirType DEF UpgradeInit, Places, Here
  <2>3. UpgradeType
    <3>1. record \in Records /\ orch \in Orchestrators
      BY NoOrchType DEF UpgradeInit, Records
    <3>2. /\ active \in [Nodes -> Places] /\ pgConfig \in [Nodes -> Places]
          /\ running \in [Nodes -> BOOLEAN] /\ marks \in [Nodes -> SUBSET (SUBSET Nat)]
          /\ work \in [Nodes -> {"none"} \union OnPrimary \union OnStandby]
      BY DEF UpgradeInit, Places
    <3>3. head \in Nodes /\ acked \subseteq Nat /\ swaps \in Nat /\ writes \in Nat /\ lateAbort \in BOOLEAN
      BY DEF UpgradeInit
    <3>4. \A n \in Nodes : running[n] => Here(n).whole
      BY <2>1, <2>2
    <3> QED BY <2>2, <3>1, <3>2, <3>3, <3>4 DEF UpgradeType
  <2>4. FreezeInv /\ HandlerInv
    BY NoOrchType DEF UpgradeInit, FreezeInv, HandlerInv, OnPrimary, OnStandby
  <2>5. SwapInv /\ MarkInv
    BY <2>2, NoDirType DEF UpgradeInit, SwapInv, MarkInv
  <2>6. CurrentInv
    BY <2>1, <2>2 DEF UpgradeInit, CurrentInv, OnPrimary
  <2>7. MajorInv
    BY <2>2 DEF UpgradeInit, MajorInv
  <2> QED BY <2>3, <2>4, <2>5, <2>6, <2>7 DEF UpgradeInv
<1>2. UpgradeInv /\ [UpgradeNext]_upgradeVars => UpgradeInv'
  <2> SUFFICES ASSUME UpgradeInv, [UpgradeNext]_upgradeVars PROVE UpgradeInv'
    OBVIOUS
  <2>1. CASE UNCHANGED upgradeVars
    <3>1. UNCHANGED <<record, head, dirs, active, pgConfig, running, marks, work, orch, acked,
                      swaps, writes, lateAbort>> /\ \A n \in Nodes : Here(n)' = Here(n)
      BY <2>1 DEF upgradeVars, Here
    <3>2. UpgradeType' /\ FreezeInv' /\ HandlerInv' /\ MarkInv'
      <4>1. UpgradeType'
        BY <3>1 DEF UpgradeInv, UpgradeType
      <4>2. FreezeInv' /\ MarkInv'
        BY <3>1 DEF UpgradeInv, FreezeInv, MarkInv
      <4>3. HandlerInv'
        BY <3>1 DEF UpgradeInv, HandlerInv
      <4> QED BY <4>1, <4>2, <4>3
    <3>3. Here(head)' = Here(head)
      BY <3>1 DEF Here
    <3>4. SwapInv' /\ CurrentInv'
      BY <3>1, <3>3 DEF UpgradeInv, SwapInv, CurrentInv
    <3>5. MajorInv'
      BY <3>1, <3>3 DEF UpgradeInv, MajorInv
    <3> QED BY <3>2, <3>4, <3>5 DEF UpgradeInv
  <2>2. ASSUME NEW n \in Nodes, Handler(n) PROVE UpgradeInv'
    BY <2>2, ApplySteps, RollbackSteps, PersistsPrimary, StandbySteps, ConfirmStep DEF Handler
  <2> QED BY <2>1, <2>2, CommandsBegin, OrchestratorSteps, CommitSteps, StandbySteps, RestartStep,
             MoveStep, WriteStep DEF UpgradeNext
<1> QED BY <1>1, <1>2, PTL DEF UpgradeSpec

(***************************************************************************)
(* Through any swap, rollback, crash of a node or of the orchestrator, and *)
(* change of leader outside a freeze, clients are released only to a       *)
(* primary that holds every acknowledged write, unless an operator gave it *)
(* up (apply, rollback_local, CommitServe, abort_after_serving_primary),   *)
(* as long as none of UpgradeLapses happens: the paths are persisted, an   *)
(* apply with --link and a rollback do not fail after their cluster        *)
(* started, no election while the record is frozen or of a node it awaits, *)
(* and none of a standby the upgrade left behind.                          *)
(***************************************************************************)
THEOREM PrimaryStaysCurrent ==
  ASSUME UpgradeLapses = {} PROVE UpgradeSpec => []ReleasedPrimaryIsCurrent
<1>1. UpgradeInv => ReleasedPrimaryIsCurrent
  <2> SUFFICES ASSUME UpgradeInv, NEW n \in Nodes, Open(n) PROVE acked \subseteq Here(n).has
    BY DEF ReleasedPrimaryIsCurrent
  <2>1. n = head /\ running[n] /\ ~record.frozen
    BY DEF Open, Serving
  <2> QED BY <2>1 DEF UpgradeInv, CurrentInv
<1> QED BY <1>1, UpgradeInvariant, PTL

(***************************************************************************)
(* A record at rest means one major: a standby leaves awaiting_rejoin only *)
(* as a copy of the primary (PgUpgradeState::apply,                        *)
(* run_standby_rebasebackup), wherever no abort was committed over a swap, *)
(* done or in progress, and none of UpgradeLapses happens.                 *)
(***************************************************************************)
THEOREM OneMajorAtRest ==
  ASSUME UpgradeLapses = {} PROVE UpgradeSpec => []OneMajorUnlessAborted
<1>1. UpgradeInv => OneMajorUnlessAborted
  BY DEF UpgradeInv, MajorInv, OneMajorUnlessAborted, OneMajor
<1> QED BY <1>1, UpgradeInvariant, PTL
=============================================================================
