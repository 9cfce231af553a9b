---------------------------- MODULE GatewayProofs ----------------------------
(***************************************************************************)
(* A client session through the gateway, for any number of messages,       *)
(* migrations, lost backends and changes of the view: its cancel requests  *)
(* reach no other session, and a migration leaves nothing behind.          *)
(***************************************************************************)
EXTENDS Gateway, SequenceTheorems, FiniteSetTheorems, WellFoundedInduction, TLAPS

-----------------------------------------------------------------------------
(* The cancel route of a gateway session. *)

\* The cancel route leads to the backend session in use.  It is withdrawn before
\* that one is replaced, and stays so until the next one's key.
RouteInv ==
  /\ "phase" \in DOMAIN gw /\ "id" \in DOMAIN sess
  /\ cancel # 0 => cancel = sess.id
  /\ gw.phase \in {"startup", "route", "connect", "moving", "greet", "ended"} => cancel = 0

\* An answer is of the session that gives it, whatever the statements did.
LEMMA AnswerKeepsId ==
  ASSUME NEW s, "id" \in DOMAIN s, NEW q, NEW a
  PROVE  "id" \in DOMAIN Answer(s, q, a) /\ Answer(s, q, a).id = s.id
  BY DEF Answer

\* So is every other outcome of a message.
LEMMA OutcomesKeepId ==
  ASSUME NEW s, "id" \in DOMAIN s, NEW m, NEW r \in Outcomes(s, m)
  PROVE  "id" \in DOMAIN r /\ r.id = s.id
<1> DEFINE Same(t) == "id" \in DOMAIN t /\ t.id = s.id
<1>1. Same(s)
  OBVIOUS
<1>2. ASSUME NEW q, NEW a PROVE Same(Answer(s, q, a))
  BY AnswerKeepsId
<1>3. ASSUME NEW q, NEW a, NEW b
      PROVE  /\ Same(InCopy(Answer(s, q, a), b))
             /\ Same(Skipping(Answer(s, q, a), b))
  <2> DEFINE t == Answer(s, q, a)
  <2>1. Same(t)
    BY <1>2
  <2> HIDE DEF t
  <2>2. Same(InCopy(t, b)) /\ Same(Skipping(t, b))
    BY <2>1 DEF InCopy, Skipping
  <2> QED BY <2>2 DEF t
<1>4. Same(Refuse(s))
  BY <1>3 DEF Refuse
<1>5. Same(Breaks(s))
  <2> DEFINE t == Answer(s, s.sql, Kind("Error"))
  <2>1. Same(t)
    BY <1>2
  <2> HIDE DEF t
  <2>2. Same([t EXCEPT !.alive = FALSE])
    BY <2>1
  <2> QED BY <2>2 DEF t, Breaks
<1> HIDE DEF Same
<1>6. Same(r)
  <2>1. CASE Ignores(s, m)
    BY <1>1, <2>1 DEF Outcomes
  <2>2. CASE ~Ignores(s, m) /\ s.copy /\ m.kind # "CopyDone"
    BY <1>5, <2>2 DEF Outcomes
  <2>3. CASE ~Ignores(s, m) /\ ~(s.copy /\ m.kind # "CopyDone")
    <3>1. CASE BeginsCopy(s, m)
      <4>1. \/ r = InCopy(Answer(s, s.sql, Kind("Copy")), TRUE)
            \/ r = Answer(s, Failed(s.sql), Kind("Error") \o Ready(Failed(s.sql)))
        BY <2>3, <3>1 DEF Outcomes, BeginsCopy
      <4> QED BY <1>2, <1>3, <4>1
    <3>2. CASE m.kind = "Query" /\ ~BeginsCopy(s, m)
      <4>1. r \in {LET q == Ran(s.sql, m.text, n) IN
                   Answer(s, q, (IF n < Len(m.text) THEN Kind("Error") ELSE <<>>) \o Ready(q))
                     : n \in {k \in 0..Len(m.text) : ~MustFail(s.sql, m.text, k)}}
        BY <2>3, <3>2 DEF Outcomes
      <4>2. PICK n \in {k \in 0..Len(m.text) : ~MustFail(s.sql, m.text, k)} :
              r = Answer(s, Ran(s.sql, m.text, n),
                         (IF n < Len(m.text) THEN Kind("Error") ELSE <<>>)
                           \o Ready(Ran(s.sql, m.text, n)))
        BY <4>1
      <4> QED BY <1>2, <4>2
    <3>3. CASE m.kind = "CopyDone" \/ m.kind = "Sync" \/ m.kind = "Close"
      <4>1. \/ r = InCopy(Answer(s, s.sql, Ready(s.sql)), FALSE)
            \/ r = Skipping(Answer(s, s.sql, Ready(s.sql)), FALSE)
            \/ r = Answer(s, [s.sql EXCEPT !.prepared = 0], Kind("CloseComplete"))
        BY <2>3, <3>3 DEF Outcomes, BeginsCopy
      <4> QED BY <1>2, <1>3, <4>1
    <3>4. CASE m.kind = "Parse"
      <4>1. \/ r = Refuse(s)
            \/ r = Answer(s, [s.sql EXCEPT !.prepared = m.version], Kind("ParseComplete"))
        BY <2>3, <3>4 DEF Outcomes, BeginsCopy
      <4> QED BY <1>2, <1>4, <4>1
    <3>5. CASE m.kind \notin {"Query", "CopyDone", "Sync", "Close", "Parse"}
      BY <1>1, <1>4, <2>3, <3>5 DEF Outcomes, BeginsCopy
    <3> QED BY <3>1, <3>2, <3>3, <3>4, <3>5
  <2> QED BY <2>1, <2>2, <2>3
<1> QED BY <1>6 DEF Same

\* Settling an answer moves neither the handler nor its keys.
LEMMA AcknowledgeKeepsPhase ==
  ASSUME NEW g, "phase" \in DOMAIN g, NEW a
  PROVE  "phase" \in DOMAIN StatusSeen(Acknowledge(g, a), a)
<1> DEFINE Is(h) == "phase" \in DOMAIN h
<1>1. ASSUME NEW h, Is(h), NEW v
      PROVE  /\ Is([h EXCEPT !.awaiting = v]) /\ Is([h EXCEPT !.pinned = v])
             /\ Is([h EXCEPT !.replay = v]) /\ Is([h EXCEPT !.copy = v])
             /\ Is([h EXCEPT !.tx = v])
  BY <1>1
<1>2. ASSUME NEW h, Is(h) PROVE Is(Pinned(h)) /\ Is(OutOfStep(h))
  BY <1>2 DEF Pinned, OutOfStep
<1>3. ASSUME NEW h, Is(h), NEW o, NEW tx PROVE Is(Settled(h, o, tx))
  BY <1>3 DEF Settled, ApplyChanges, Pinned
<1>4. Is(Errored(g))
  BY DEF Errored, Pinned
<1>5. Is(Acknowledge(g, a))
  BY <1>2, <1>3, <1>4 DEF Acknowledge
<1>6. ASSUME NEW h, Is(h) PROVE Is(StatusSeen(h, a))
  BY <1>6 DEF StatusSeen
<1> QED BY <1>5, <1>6

\* The end of a session.
LEMMA EndKeepsRoute ==
  ASSUME Ends PROVE RouteInv'
<1>1. cancel' = 0
  BY DEF Ends, RegisterKey
<1>2. "phase" \in DOMAIN gw'
  BY DEF Ends, NewConnection
<1>3. "id" \in DOMAIN sess'
  BY DEF Ends, NoSession, NewSession
<1> QED BY <1>1, <1>2, <1>3 DEF RouteInv

\* The handler moves on, in the phases between which the route stays.
LEMMA StaysKeepsRoute ==
  ASSUME RouteInv, NEW phase, StaysIn(phase),
         phase \notin {"startup", "moving", "greet", "ended"},
         phase \in {"route", "connect"} => cancel = 0
  PROVE  RouteInv'
  BY DEF StaysIn, Goto, RouteInv

\* The backend is left, its route withdrawn, or the session ends.
LEMMA MoveKeepsRoute ==
  ASSUME RouteInv, Move PROVE RouteInv'
<1>1. CASE LeaveBackend
  BY <1>1 DEF LeaveBackend, RegisterKey, Goto, RouteInv
<1> QED BY <1>1, EndKeepsRoute DEF Move, End

\* Connecting, waiting, following a route and recovering.
LEMMA HandlerKeepsRoute ==
  ASSUME RouteInv,
         \/ ReadStartup \/ AwaitRoute \/ NoRouteInTime
         \/ EnterHold \/ LeaveHold \/ HoldExpires \/ EnterFence \/ LeaveFence
         \/ FollowRoute \/ RouteArrives \/ RetryLost \/ Thaw \/ RecoveryExpires
         \/ MoveFails \/ MoveRefused \/ Wake \/ ForwardFails \/ BackendGone \/ ClientGone
  PROVE  RouteInv'
<1>1. CASE ReadStartup
  BY <1>1, EndKeepsRoute, StaysKeepsRoute DEF ReadStartup, End, RouteInv
<1>2. CASE AwaitRoute
  BY <1>2, StaysKeepsRoute DEF AwaitRoute, RouteInv
<1>3. CASE \/ NoRouteInTime \/ HoldExpires \/ RecoveryExpires
           \/ MoveRefused \/ ForwardFails \/ ClientGone
  BY <1>3, EndKeepsRoute
     DEF NoRouteInTime, HoldExpires, RecoveryExpires, MoveRefused, ForwardFails, ClientGone, End
<1>4. CASE EnterHold \/ LeaveHold \/ EnterFence \/ LeaveFence
  BY <1>4, EndKeepsRoute, StaysKeepsRoute DEF EnterHold, LeaveHold, EnterFence, LeaveFence, End
<1>5. CASE FollowRoute
  <2>1. StaysIn("select") \/ StaysIn("awaitRoute") \/ Move
    BY <1>5 DEF FollowRoute
  <2> QED BY <2>1, StaysKeepsRoute, MoveKeepsRoute
<1>6. CASE RouteArrives \/ RetryLost
  BY <1>6, StaysKeepsRoute, MoveKeepsRoute DEF RouteArrives, RetryLost
<1>7. CASE Thaw \/ MoveFails \/ Wake \/ BackendGone
  BY <1>7, EndKeepsRoute, StaysKeepsRoute DEF Thaw, MoveFails, Wake, BackendGone, End
<1> QED BY <1>1, <1>2, <1>3, <1>4, <1>5, <1>6, <1>7

\* A backend session is opened, greeted and filled.
LEMMA BackendKeepsRoute ==
  ASSUME RouteInv, ConnectFirst \/ Reconnect \/ Greeted \/ ReplayListen \/ ReplayPrepared
  PROVE  RouteInv'
<1>1. CASE ConnectFirst
  <2>1. cancel = 0 /\ cancel' = 0
    BY <1>1 DEF ConnectFirst, RouteInv
  <2>2. "id" \in DOMAIN sess'
    BY <1>1 DEF ConnectFirst, NewSession
  <2>3. "phase" \in DOMAIN gw'
    BY <1>1 DEF ConnectFirst, RouteInv
  <2> QED BY <2>1, <2>2, <2>3 DEF RouteInv
<1>2. CASE Reconnect
  <2>1. cancel = 0 /\ cancel' = 0
    BY <1>2 DEF Reconnect, RouteInv
  <2>2. "id" \in DOMAIN sess' /\ "phase" \in DOMAIN gw'
    BY <1>2 DEF Reconnect, Opened, NewSession, RouteInv
  <2> QED BY <2>1, <2>2 DEF RouteInv
<1>3. CASE Greeted
  BY <1>3 DEF Greeted, RegisterKey, Goto, RouteInv
<1>4. CASE ReplayListen
  BY <1>4 DEF ReplayListen, Goto, RouteInv
<1>5. CASE ReplayPrepared
  BY <1>5 DEF ReplayPrepared, Goto, RouteInv
<1> QED BY <1>1, <1>2, <1>3, <1>4, <1>5

\* Messages and answers, and what happens to the backend meanwhile.
LEMMA DataKeepsRoute ==
  ASSUME RouteInv,
         Deliver \/ (\E m \in Messages : Forward(m)) \/ Backend \/ SessionDies \/ ViewChanges
  PROVE  RouteInv'
<1>1. CASE Deliver
  <2> DEFINE a == Head(sess.out)
             g == StatusSeen(Acknowledge(gw, a), a)
  <2>1. /\ gw.phase = "select" /\ cancel' = IF a.kind = "Key" THEN sess.id ELSE cancel
        /\ gw' = [g EXCEPT !.phase = "top", !.key = @ \/ a.kind = "Key",
                           !.started = @ \/ a.kind = "Greeting"]
        /\ sess' = [sess EXCEPT !.out = Tail(@)]
    BY <1>1 DEF Deliver, RegisterKey
  <2>2. "phase" \in DOMAIN g
    BY AcknowledgeKeepsPhase DEF RouteInv
  <2> HIDE DEF g
  <2>3. "phase" \in DOMAIN gw' /\ gw'.phase = "top"
    BY <2>1, <2>2
  <2>4. "id" \in DOMAIN sess' /\ sess'.id = sess.id
    BY <2>1 DEF RouteInv
  <2> QED BY <2>1, <2>3, <2>4 DEF RouteInv
<1>2. ASSUME NEW m \in Messages, Forward(m) PROVE RouteInv'
  <2>1. CASE Ends
    BY <2>1, EndKeepsRoute
  <2>2. CASE /\ gw' = [Accounted(gw, m) EXCEPT !.phase = "top"]
             /\ sess' = [sess EXCEPT !.in = Append(@, m)] /\ UNCHANGED cancel
    <3>1. "phase" \in DOMAIN Accounted(gw, m)
      BY DEF Accounted, RouteInv
    <3>2. "phase" \in DOMAIN gw' /\ gw'.phase = "top"
      BY <2>2, <3>1
    <3>3. "id" \in DOMAIN sess' /\ sess'.id = sess.id
      BY <2>2 DEF RouteInv
    <3> QED BY <2>2, <3>2, <3>3 DEF RouteInv
  <2> QED BY <1>2, <2>1, <2>2 DEF Forward
<1>3. CASE Backend
  <2> DEFINE s == [sess EXCEPT !.in = Tail(@)]
  <2>1. UNCHANGED <<gw, cancel>> /\ sess' \in Outcomes(s, Head(sess.in))
    BY <1>3 DEF Backend
  <2>2. "id" \in DOMAIN s /\ s.id = sess.id
    BY DEF RouteInv
  <2> HIDE DEF s
  <2>3. "id" \in DOMAIN sess' /\ sess'.id = sess.id
    BY <2>1, <2>2, OutcomesKeepId
  <2> QED BY <2>1, <2>3 DEF RouteInv
<1>4. CASE SessionDies
  <2>1. UNCHANGED <<gw, cancel>> /\ "id" \in DOMAIN sess' /\ sess'.id = sess.id
    BY <1>4 DEF SessionDies, RouteInv
  <2> QED BY <2>1 DEF RouteInv
<1>5. CASE ViewChanges
  BY <1>5 DEF ViewChanges, RouteInv
<1> QED BY <1>1, <1>2, <1>3, <1>4, <1>5

(***************************************************************************)
(* The client's cancel key leads to the backend session that runs its      *)
(* session, or nowhere, for any number of messages, migrations, lost       *)
(* backends and changes of the view, races with the startup included       *)
(* (register_backend_key, unregister_backend_key).                         *)
(***************************************************************************)
THEOREM CancelStaysOwn == GatewaySpec => []CancelReachesOwnSession
<1>1. GatewayInit => RouteInv
  BY DEF GatewayInit, RouteInv, NewConnection, NoSession, NewSession
<1>2. RouteInv /\ [GatewayNext]_gatewayVars => RouteInv'
  <2> SUFFICES ASSUME RouteInv, [GatewayNext]_gatewayVars PROVE RouteInv'
    OBVIOUS
  <2>1. CASE GatewayNext
    BY <2>1, HandlerKeepsRoute, BackendKeepsRoute, DataKeepsRoute DEF GatewayNext
  <2>2. CASE UNCHANGED gatewayVars
    BY <2>2 DEF gatewayVars, RouteInv
  <2> QED BY <2>1, <2>2
<1>3. RouteInv => CancelReachesOwnSession
  BY DEF RouteInv, CancelReachesOwnSession, CancelTarget
<1> QED BY <1>1, <1>2, <1>3, PTL DEF GatewaySpec

-----------------------------------------------------------------------------
(* Requests and answers through a migration. *)

\* How many elements of a sequence are of some kinds.
Count(s, kinds) == Cardinality({i \in 1..Len(s) : s[i].kind \in kinds})

\* Answers that end an exchange: the handler waits for so many, the backend session
\* has given or will give so many.
Awaited(g) == Count(g.awaiting, {"Ready"})
OnTheWay(s) ==
  Count(s.out, {"Ready"}) + Count(s.in, {"Query", "Sync"}) + (IF s.copy THEN 1 ELSE 0)

\* Every message of a pipeline has its Sync behind it.
SyncBehind(s) ==
  \A i \in 1..Len(s.in) :
    s.in[i].kind \in {"Parse", "Close", "Bind"}
      => \E j \in i + 1..Len(s.in) : s.in[j].kind = "Sync"

\* Every answer has the end of its exchange behind it, or that end is still to come.
ReadyBehind(s) ==
  \A i \in 1..Len(s.out) :
    \/ \E j \in i..Len(s.out) : s.out[j].kind = "Ready"
    \/ s.copy
    \/ \E j \in 1..Len(s.in) : s.in[j].kind = "Sync"

\* A sequence, whatever its elements are.
IsSeq(s) == \E X : s \in Seq(X)

Kinds == {"Query", "Parse", "Close", "Bind", "Sync", "CopyDone"}

SessionShape(s) ==
  /\ {"alive", "sql", "skip", "copy", "in", "out", "cut"} \subseteq DOMAIN s
  /\ s.copy \in BOOLEAN /\ IsSeq(s.in) /\ IsSeq(s.out)
  /\ \A i \in 1..Len(s.in) : s.in[i].kind \in Kinds

HandlerShape(g) ==
  /\ {"phase", "backend", "tx", "copy", "awaiting", "unsynced", "pinned", "replay", "key",
      "started"} \subseteq DOMAIN g
  /\ g.pinned \in BOOLEAN /\ g.unsynced \in BOOLEAN /\ g.started \in BOOLEAN

\* The handler waits for every exchange that is open, as long as it is in step.
InStep(g, s) ==
  /\ IsSeq(g.awaiting)
  /\ OnTheWay(s) <= Awaited(g)
  /\ g.unsynced \/ ~g.started \/ (SyncBehind(s) /\ ReadyBehind(s))
  /\ s.cut => s.out = <<>> /\ ~s.alive /\ (g.unsynced \/ Awaited(g) > 0)

\* The greeting is the last of the answers of a startup.
Greets(s) == Len(s) > 0 /\ \A i \in 1..Len(s) : s[i].kind = "Greeting" <=> i = Len(s)

\* Until the client is greeted neither the view nor the backend changes.
StartupInv ==
  /\ gw.phase \in {"startup", "route", "connect"} => ~gw.started
  /\ ~gw.started /\ gw.phase # "ended" =>
       /\ Route # NoServer /\ ~HoldReason /\ ~view.fenced
       /\ gw.phase \in {"startup", "route", "connect", "top", "follow", "select"}
       /\ gw.phase \in {"top", "follow", "select"} =>
            gw.backend = Route /\ sess.in = <<>> /\ Greets(sess.out)

PipelineInv ==
  /\ dropped = FALSE
  /\ HandlerShape(gw) /\ SessionShape(sess)
  /\ StartupInv
  /\ gw.pinned \/ InStep(gw, sess)

\* What appending does, whatever the elements are.
LEMMA AppendShape ==
  ASSUME NEW s, IsSeq(s), NEW e
  PROVE  /\ IsSeq(Append(s, e)) /\ Len(Append(s, e)) = Len(s) + 1 /\ Len(s) \in Nat
         /\ \A i \in 1..Len(s) : Append(s, e)[i] = s[i]
         /\ Append(s, e)[Len(s) + 1] = e
<1>1. PICK X : s \in Seq(X)
  BY DEF IsSeq
<1> DEFINE Y == X \cup {e}
<1>2. s \in Seq(Y) /\ e \in Y
  BY <1>1
<1> HIDE DEF Y
<1>3. Append(s, e) \in Seq(Y) /\ Len(Append(s, e)) = Len(s) + 1 /\ Len(s) \in Nat
      /\ (\A i \in 1..Len(s) : Append(s, e)[i] = s[i]) /\ Append(s, e)[Len(s) + 1] = e
  BY <1>2
<1> QED BY <1>3 DEF IsSeq

\* What taking the tail does.
LEMMA TailShape ==
  ASSUME NEW s, IsSeq(s), s # <<>>
  PROVE  /\ IsSeq(Tail(s)) /\ Len(s) \in Nat /\ Len(s) > 0 /\ Len(Tail(s)) = Len(s) - 1
         /\ \A i \in 1..Len(s) - 1 : Tail(s)[i] = s[i + 1]
         /\ Head(s) = s[1]
<1>1. PICK X : s \in Seq(X)
  BY DEF IsSeq
<1>2. Tail(s) \in Seq(X) /\ Len(s) \in Nat /\ Len(s) > 0 /\ Len(Tail(s)) = Len(s) - 1
      /\ (\A i \in 1..Len(s) - 1 : Tail(s)[i] = s[i + 1]) /\ Head(s) = s[1]
  BY <1>1
<1> QED BY <1>2 DEF IsSeq

\* What dropping a prefix does.
LEMMA RestShape ==
  ASSUME NEW s, IsSeq(s), NEW n \in 0..Len(s)
  PROVE  LET r == SubSeq(s, n + 1, Len(s)) IN
         /\ IsSeq(r) /\ Len(s) \in Nat /\ Len(r) = Len(s) - n
         /\ \A i \in 1..Len(s) - n : r[i] = s[i + n]
<1>1. PICK X : s \in Seq(X)
  BY DEF IsSeq
<1>2. Len(s) \in Nat /\ n \in Nat /\ n <= Len(s)
  BY <1>1
<1> DEFINE r == SubSeq(s, n + 1, Len(s))
<1>3. r \in Seq(X) /\ Len(r) = Len(s) - n
  BY <1>1, <1>2
<1>4. \A i \in 1..Len(s) - n : r[i] = s[i + n]
  BY <1>1, <1>2
<1> QED BY <1>2, <1>3, <1>4 DEF IsSeq

\* A count is a number, and zero when there is nothing to count.
LEMMA CountType ==
  ASSUME NEW s, IsSeq(s), NEW K
  PROVE  /\ IsFiniteSet({i \in 1..Len(s) : s[i].kind \in K})
         /\ Count(s, K) \in Nat
         /\ Count(s, K) = 0 <=> \A i \in 1..Len(s) : s[i].kind \notin K
<1> DEFINE I == {i \in 1..Len(s) : s[i].kind \in K}
<1>1. Len(s) \in Nat
  BY DEF IsSeq
<1>2. IsFiniteSet(I)
  <2>1. IsFiniteSet(1..Len(s))
    BY <1>1, FS_Interval
  <2>2. I \in SUBSET (1..Len(s))
    OBVIOUS
  <2> HIDE DEF I
  <2> QED BY <2>1, <2>2, FS_Subset
<1>3. Cardinality(I) = 0 <=> I = {}
  BY <1>2, FS_EmptySet
<1>4. Cardinality(I) \in Nat
  BY <1>2, FS_CardinalityType
<1> QED BY <1>2, <1>3, <1>4 DEF Count

\* Dropping a prefix in which nothing counts leaves the count.
LEMMA CountRest ==
  ASSUME NEW s, IsSeq(s), NEW K, NEW n \in 0..Len(s),
         \A i \in 1..n : s[i].kind \notin K
  PROVE  Count(SubSeq(s, n + 1, Len(s)), K) = Count(s, K)
<1> DEFINE r == SubSeq(s, n + 1, Len(s))
           I == {i \in 1..Len(s) : s[i].kind \in K}
           J == {i \in 1..Len(r) : r[i].kind \in K}
           f == [i \in I |-> i - n]
<1>1. /\ Len(s) \in Nat /\ Len(r) = Len(s) - n /\ n \in Nat /\ n <= Len(s)
      /\ \A i \in 1..Len(s) - n : r[i] = s[i + n]
  BY RestShape
<1> HIDE DEF r
<1>2. \A i \in I : i \in Int /\ i > n /\ i <= Len(s)
  BY <1>1
<1>3. \A i \in I : i - n \in J
  <2> TAKE i \in I
  <2>1. i - n \in 1..Len(r)
    BY <1>1, <1>2
  <2>2. r[i - n] = s[i]
    <3>1. (i - n) + n = i
      BY <1>1, <1>2
    <3> QED BY <1>1, <2>1, <3>1
  <2> QED BY <2>1, <2>2
<1>4. f \in Injection(I, J)
  <2>1. f \in [I -> J]
    BY <1>3
  <2>2. \A a, b \in I : f[a] = f[b] => a = b
    BY <1>1, <1>2
  <2> HIDE DEF f, I, J
  <2> QED BY <2>1, <2>2 DEF Injection, IsInjective
<1>5. f \in Surjection(I, J)
  <2>1. ASSUME NEW j \in J PROVE \E i \in I : f[i] = j
    <3>1. j \in Int /\ j >= 1 /\ j <= Len(s) - n
      BY <1>1
    <3>2. j + n \in 1..Len(s) /\ s[j + n] = r[j]
      BY <1>1, <3>1
    <3>3. j + n \in I
      BY <3>2
    <3>4. f[j + n] = j
      BY <1>1, <3>1, <3>3
    <3> QED BY <3>3, <3>4
  <2>2. f \in [I -> J]
    BY <1>3
  <2> HIDE DEF f, I, J
  <2> QED BY <2>1, <2>2 DEF Surjection
<1>6. ExistsBijection(I, J)
  <2> HIDE DEF f, I, J
  <2> QED BY <1>4, <1>5 DEF ExistsBijection, Bijection
<1>7. IsFiniteSet(I)
  BY CountType
<1>8. Cardinality(J) = Cardinality(I)
  <2> HIDE DEF I, J
  <2> QED BY <1>6, <1>7, FS_Bijection
<1> QED BY <1>8 DEF Count, r

\* What an element more or less at one end does to a count.
LEMMA CountAppend ==
  ASSUME NEW s, IsSeq(s), NEW K, NEW e
  PROVE  Count(Append(s, e), K) = Count(s, K) + (IF e.kind \in K THEN 1 ELSE 0)
<1> DEFINE t == Append(s, e)
           I == {i \in 1..Len(s) : s[i].kind \in K}
           J == {i \in 1..Len(t) : t[i].kind \in K}
<1>1. /\ Len(s) \in Nat /\ Len(t) = Len(s) + 1
      /\ \A i \in 1..Len(s) : t[i] = s[i]
      /\ t[Len(s) + 1] = e
  BY AppendShape
<1> HIDE DEF t
<1>2. IsFiniteSet(I) /\ Cardinality(I) \in Nat
  BY CountType DEF Count
<1>3. CASE e.kind \in K
  <2>1. J = I \cup {Len(s) + 1}
    BY <1>1, <1>3
  <2>2. Len(s) + 1 \notin I
    BY <1>1
  <2>3. Cardinality(J) = Cardinality(I) + 1
    <3> HIDE DEF I, J
    <3> QED BY <1>2, <2>1, <2>2, FS_AddElement
  <2> QED BY <1>3, <2>3 DEF Count, t
<1>4. CASE e.kind \notin K
  <2>1. J = I
    BY <1>1, <1>4
  <2>2. Cardinality(J) = Cardinality(I)
    BY <2>1
  <2>3. Count(t, K) = Cardinality(J) /\ Count(s, K) = Cardinality(I)
    BY DEF Count
  <2> HIDE DEF I, J
  <2> QED BY <1>2, <1>4, <2>2, <2>3 DEF t
<1> QED BY <1>3, <1>4

\* The same for the element at the head.
LEMMA CountTail ==
  ASSUME NEW s, IsSeq(s), s # <<>>, NEW K
  PROVE  Count(s, K) = Count(Tail(s), K) + (IF Head(s).kind \in K THEN 1 ELSE 0)
<1>1. Head(s) = s[1] /\ Len(s) \in Nat /\ Len(s) > 0 /\ IsSeq(Tail(s))
  BY TailShape
<1>2. Tail(s) = SubSeq(s, 1 + 1, Len(s))
  BY DEF IsSeq
<1>3. CASE Head(s).kind \notin K
  <2>1. Count(SubSeq(s, 1 + 1, Len(s)), K) = Count(s, K)
    <3>1. 1 \in 0..Len(s) /\ \A i \in 1..1 : s[i].kind \notin K
      BY <1>1, <1>3
    <3> QED BY <3>1, CountRest
  <2>2. Count(Tail(s), K) = Count(s, K)
    BY <1>2, <2>1
  <2>3. Count(s, K) \in Nat
    BY CountType
  <2> QED BY <1>3, <2>2, <2>3
<1>4. CASE Head(s).kind \in K
  <2> DEFINE I == {i \in 1..Len(s) : s[i].kind \in K}
             J == {i \in 1..Len(Tail(s)) : Tail(s)[i].kind \in K}
             f == [i \in I \ {1} |-> i - 1]
  <2>1. Len(Tail(s)) = Len(s) - 1 /\ \A i \in 1..Len(s) - 1 : Tail(s)[i] = s[i + 1]
    BY TailShape
  <2>2. \A i \in I \ {1} : i \in Int /\ i > 1 /\ i <= Len(s) /\ i - 1 \in J
    <3> TAKE i \in I \ {1}
    <3>1. i \in Int /\ i > 1 /\ i <= Len(s)
      BY <1>1
    <3>2. i - 1 \in 1..Len(s) - 1 /\ (i - 1) + 1 = i
      BY <1>1, <3>1
    <3>3. Tail(s)[i - 1] = s[i]
      BY <2>1, <3>2
    <3> QED BY <2>1, <3>1, <3>2, <3>3
  <2>3. f \in [I \ {1} -> J]
    BY <2>2
  <2>4. \A a, b \in I \ {1} : f[a] = f[b] => a = b
    BY <2>2
  <2>5. ASSUME NEW j \in J PROVE \E i \in I \ {1} : f[i] = j
    <3>1. j \in Int /\ j >= 1 /\ j <= Len(s) - 1
      BY <1>1, <2>1
    <3>2. j + 1 \in 1..Len(s) /\ s[j + 1] = Tail(s)[j] /\ j + 1 # 1
      BY <1>1, <2>1, <3>1
    <3>3. j + 1 \in I \ {1}
      BY <3>2
    <3>4. f[j + 1] = j
      BY <3>1, <3>3
    <3> QED BY <3>3, <3>4
  <2>6. ExistsBijection(I \ {1}, J)
    <3> HIDE DEF f, I, J
    <3> QED BY <2>3, <2>4, <2>5
            DEF ExistsBijection, Bijection, Injection, IsInjective, Surjection
  <2>7. IsFiniteSet(I) /\ Cardinality(I) \in Nat
    BY CountType DEF Count
  <2>8. 1 \in I
    BY <1>1, <1>4
  <2>9. Cardinality(J) = Cardinality(I) - 1
    <3> HIDE DEF f, I, J
    <3>1. IsFiniteSet(I \ {1}) /\ Cardinality(I \ {1}) = Cardinality(I) - 1
      BY <2>7, <2>8, FS_RemoveElement
    <3> QED BY <2>6, <3>1, FS_Bijection
  <2>10. Count(s, K) = Cardinality(I) /\ Count(Tail(s), K) = Cardinality(J)
    BY DEF Count
  <2> HIDE DEF I, J
  <2> QED BY <1>4, <2>7, <2>9, <2>10
<1> QED BY <1>3, <1>4

\* Answers of one and of two messages.
LEMMA ConcatShape ==
  ASSUME NEW s, IsSeq(s), NEW e, NEW f
  PROVE  /\ s \o <<e>> = Append(s, e)
         /\ s \o (<<e>> \o <<f>>) = Append(Append(s, e), f)
         /\ s \o (<<>> \o <<f>>) = Append(s, f)
<1>1. PICK X : s \in Seq(X)
  BY DEF IsSeq
<1> DEFINE Y == X \cup {e, f}
<1>2. s \in Seq(Y) /\ e \in Y /\ f \in Y
  BY <1>1
<1> HIDE DEF Y
<1>3. s \o <<e>> = Append(s, e) /\ s \o <<f>> = Append(s, f)
  BY <1>2, AppendIsConcat
<1>4. <<e>> \in Seq(Y) /\ <<f>> \in Seq(Y) /\ Append(s, e) \in Seq(Y)
  BY <1>2
<1>5. <<>> \o <<f>> = <<f>>
  BY <1>4, ConcatEmptySeq
<1>6. Append(s, e) \o <<f>> = Append(Append(s, e), f)
  BY <1>2, <1>4, AppendIsConcat
<1>7. (s \o <<e>>) \o <<f>> = s \o (<<e>> \o <<f>>)
  BY <1>2, <1>4, ConcatAssociative
<1> QED BY <1>3, <1>5, <1>6, <1>7

\* What a message does to a session: nothing, one answer within a pipeline, the
\* beginning of a COPY or an error in one, or the end of an exchange.
Quiet(s, m, r) ==
  r.out = s.out /\ r.copy = s.copy /\ (m.kind = "Sync" => s.copy)
Partial(s, m, r) ==
  /\ m.kind \in {"Parse", "Close", "Bind"} /\ r.copy = FALSE /\ s.copy = FALSE
  /\ \E e : r.out = Append(s.out, e) /\ e.kind # "Ready"
Copying(s, m, r) ==
  /\ r.copy = TRUE /\ (s.copy = TRUE \/ m.kind = "Query")
  /\ \E e : r.out = Append(s.out, e) /\ e.kind # "Ready"
Completed(s, m, r) ==
  /\ r.copy = FALSE /\ (IF s.copy THEN m.kind = "CopyDone" ELSE m.kind \in {"Query", "Sync"})
  /\ \E e : /\ e.kind = "Ready"
            /\ \/ r.out = Append(s.out, e)
               \/ \E f : f.kind # "Ready" /\ r.out = Append(Append(s.out, f), e)
Effect(s, m, r) ==
  Quiet(s, m, r) \/ Partial(s, m, r) \/ Copying(s, m, r) \/ Completed(s, m, r)

\* The fields an answer leaves alone.
Fields(s) == {"alive", "sql", "skip", "copy", "in", "out", "cut"} \subseteq DOMAIN s
Framed(s, r) == Fields(r) /\ r.in = s.in /\ r.cut = s.cut

\* An answer is appended, and changes the SQL state alone.
LEMMA AnswerFields ==
  ASSUME NEW s, Fields(s), NEW q, NEW a
  PROVE  /\ Framed(s, Answer(s, q, a)) /\ Answer(s, q, a).copy = s.copy
         /\ Answer(s, q, a).out = s.out \o a
  BY DEF Answer, Fields, Framed

\* Two kinds of answer: a note, and the end of an exchange.
Note(k) == [kind |-> k]
Done(q) == [kind |-> "Ready", tx |-> q.tx]

\* An answer of one note.
LEMMA NoteAnswer ==
  ASSUME NEW s, Fields(s), IsSeq(s.out), NEW q, NEW k
  PROVE  /\ Framed(s, Answer(s, q, Kind(k))) /\ Answer(s, q, Kind(k)).copy = s.copy
         /\ Answer(s, q, Kind(k)).out = Append(s.out, Note(k))
<1>1. Kind(k) = <<Note(k)>>
  BY DEF Kind, Note
<1>2. s.out \o <<Note(k)>> = Append(s.out, Note(k))
  BY ConcatShape
<1> QED BY <1>1, <1>2, AnswerFields

\* An answer that ends the exchange.
LEMMA DoneAnswer ==
  ASSUME NEW s, Fields(s), IsSeq(s.out), NEW q
  PROVE  /\ Framed(s, Answer(s, q, Ready(q))) /\ Answer(s, q, Ready(q)).copy = s.copy
         /\ Answer(s, q, Ready(q)).out = Append(s.out, Done(q))
         /\ Framed(s, Answer(s, q, <<>> \o Ready(q)))
         /\ Answer(s, q, <<>> \o Ready(q)).copy = s.copy
         /\ Answer(s, q, <<>> \o Ready(q)).out = Append(s.out, Done(q))
<1>1. Ready(q) = <<Done(q)>>
  BY DEF Ready, Done
<1>2. /\ s.out \o <<Done(q)>> = Append(s.out, Done(q))
      /\ s.out \o (<<>> \o <<Done(q)>>) = Append(s.out, Done(q))
  BY ConcatShape
<1> QED BY <1>1, <1>2, AnswerFields

\* An error that ends the exchange.
LEMMA NoteDoneAnswer ==
  ASSUME NEW s, Fields(s), IsSeq(s.out), NEW q, NEW k
  PROVE  LET t == Answer(s, q, Kind(k) \o Ready(q)) IN
         Framed(s, t) /\ t.copy = s.copy /\ t.out = Append(Append(s.out, Note(k)), Done(q))
<1>1. Kind(k) = <<Note(k)>> /\ Ready(q) = <<Done(q)>>
  BY DEF Kind, Ready, Note, Done
<1>2. s.out \o (<<Note(k)>> \o <<Done(q)>>) = Append(Append(s.out, Note(k)), Done(q))
  BY ConcatShape
<1> DEFINE a == Kind(k) \o Ready(q)
<1>3. s.out \o a = Append(Append(s.out, Note(k)), Done(q))
  BY <1>1, <1>2
<1> HIDE DEF a
<1>4. LET t == Answer(s, q, a) IN Framed(s, t) /\ t.copy = s.copy /\ t.out = s.out \o a
  BY AnswerFields
<1> QED BY <1>3, <1>4 DEF a

\* A COPY begins or ends.
LEMMA CopySwitch ==
  ASSUME NEW s, NEW r, Framed(s, r)
  PROVE  /\ Framed(s, InCopy(r, TRUE)) /\ InCopy(r, TRUE).copy = TRUE
         /\ InCopy(r, TRUE).out = r.out
         /\ Framed(s, InCopy(r, FALSE)) /\ InCopy(r, FALSE).copy = FALSE
         /\ InCopy(r, FALSE).out = r.out
  BY DEF InCopy, Fields, Framed

\* The backend begins or stops to skip.
LEMMA SkipSwitch ==
  ASSUME NEW s, NEW r, Framed(s, r)
  PROVE  /\ Framed(s, Skipping(r, TRUE)) /\ Skipping(r, TRUE).copy = r.copy
         /\ Skipping(r, TRUE).out = r.out
         /\ Framed(s, Skipping(r, FALSE)) /\ Skipping(r, FALSE).copy = r.copy
         /\ Skipping(r, FALSE).out = r.out
  BY DEF Skipping, Fields, Framed

\* Every outcome of a message is of one of the four kinds.
LEMMA OutcomesEffect ==
  ASSUME NEW s, Fields(s), s.copy \in BOOLEAN, IsSeq(s.out),
         NEW m, m.kind \in Kinds, NEW r \in Outcomes(s, m)
  PROVE  Framed(s, r) /\ Effect(s, m, r)
<1> DEFINE Good(t) == Framed(s, t) /\ Effect(s, m, t)
<1>1. CASE Ignores(s, m)
  <2>1. r = s
    BY <1>1 DEF Outcomes
  <2>2. m.kind = "Sync" => s.copy
    BY <1>1 DEF Ignores
  <2> QED BY <2>1, <2>2 DEF Framed, Effect, Quiet
<1>2. CASE ~Ignores(s, m) /\ s.copy /\ m.kind # "CopyDone"
  <2> DEFINE t == Answer(s, s.sql, Kind("Error"))
             e == Note("Error")
  <2>1. r = [t EXCEPT !.alive = FALSE]
    BY <1>2 DEF Outcomes, Breaks
  <2>2. Framed(s, t) /\ t.copy = s.copy /\ t.out = Append(s.out, e)
    BY NoteAnswer, DoneAnswer, NoteDoneAnswer
  <2> HIDE DEF t
  <2>3. Framed(s, r) /\ r.copy = s.copy /\ r.out = Append(s.out, e)
    BY <2>1, <2>2 DEF Framed, Fields
  <2>4. e.kind # "Ready"
    BY DEF Note
  <2> HIDE DEF e
  <2> QED BY <1>2, <2>3, <2>4 DEF Effect, Copying
<1>3. CASE ~Ignores(s, m) /\ ~(s.copy /\ m.kind # "CopyDone")
  <2>0. IF s.copy THEN m.kind = "CopyDone" ELSE m.kind # "CopyDone"
    BY <1>3 DEF Ignores
  <2>1. CASE BeginsCopy(s, m)
    <3>0. m.kind = "Query" /\ s.copy = FALSE
      BY <2>0, <2>1 DEF BeginsCopy
    <3>1. \/ r = InCopy(Answer(s, s.sql, Kind("Copy")), TRUE)
          \/ r = Answer(s, Failed(s.sql), Kind("Error") \o Ready(Failed(s.sql)))
      BY <1>3, <2>1 DEF Outcomes, BeginsCopy
    <3>2. CASE r = InCopy(Answer(s, s.sql, Kind("Copy")), TRUE)
      <4> DEFINE t == Answer(s, s.sql, Kind("Copy"))
                 e == Note("Copy")
      <4>1. Framed(s, t) /\ t.out = Append(s.out, e)
        BY NoteAnswer, DoneAnswer, NoteDoneAnswer
      <4> HIDE DEF t
      <4>2. Framed(s, r) /\ r.copy = TRUE /\ r.out = Append(s.out, e)
        BY <3>2, <4>1, CopySwitch DEF t
      <4>3. e.kind # "Ready"
        BY DEF Note, Done
      <4> HIDE DEF e
      <4> QED BY <3>0, <4>2, <4>3 DEF Effect, Copying
    <3>3. CASE r = Answer(s, Failed(s.sql), Kind("Error") \o Ready(Failed(s.sql)))
      <4> DEFINE f == Note("Error")
                 e == Done(Failed(s.sql))
      <4>1. Framed(s, r) /\ r.copy = FALSE /\ r.out = Append(Append(s.out, f), e)
        BY <3>0, <3>3, NoteAnswer, DoneAnswer, NoteDoneAnswer
      <4>2. e.kind = "Ready" /\ f.kind # "Ready"
        BY DEF Note, Done
      <4> HIDE DEF e, f
      <4> QED BY <3>0, <4>1, <4>2 DEF Effect, Completed
    <3> QED BY <3>1, <3>2, <3>3
  <2>2. CASE m.kind = "Query" /\ ~BeginsCopy(s, m)
    <3>0. s.copy = FALSE
      BY <2>0, <2>2
    <3>1. r \in {LET q == Ran(s.sql, m.text, n) IN
                 Answer(s, q, (IF n < Len(m.text) THEN Kind("Error") ELSE <<>>) \o Ready(q))
                   : n \in {k \in 0..Len(m.text) : ~MustFail(s.sql, m.text, k)}}
      BY <1>3, <2>2 DEF Outcomes
    <3>2. PICK n \in {k \in 0..Len(m.text) : ~MustFail(s.sql, m.text, k)} :
            r = Answer(s, Ran(s.sql, m.text, n),
                       (IF n < Len(m.text) THEN Kind("Error") ELSE <<>>)
                         \o Ready(Ran(s.sql, m.text, n)))
      BY <3>1
    <3> DEFINE f == Note("Error")
               e == Done(Ran(s.sql, m.text, n))
    <3>3. Framed(s, r) /\ r.copy = FALSE
          /\ (r.out = Append(s.out, e) \/ r.out = Append(Append(s.out, f), e))
      <4>1. CASE n < Len(m.text)
        BY <3>0, <3>2, <4>1, NoteAnswer, DoneAnswer, NoteDoneAnswer
      <4>2. CASE ~(n < Len(m.text))
        BY <3>0, <3>2, <4>2, NoteAnswer, DoneAnswer, NoteDoneAnswer
      <4> QED BY <4>1, <4>2
    <3>4. e.kind = "Ready" /\ f.kind # "Ready"
      BY DEF Note, Done
    <3> HIDE DEF e, f
    <3> QED BY <2>2, <3>0, <3>3, <3>4 DEF Effect, Completed
  <2>3. CASE m.kind = "CopyDone" \/ m.kind = "Sync"
    <3> DEFINE t == Answer(s, s.sql, Ready(s.sql))
               e == Done(s.sql)
    <3>1. Framed(s, t) /\ t.copy = s.copy /\ t.out = Append(s.out, e)
      BY NoteAnswer, DoneAnswer, NoteDoneAnswer
    <3>2. \/ m.kind = "CopyDone" /\ r = InCopy(t, FALSE)
          \/ m.kind = "Sync" /\ r = Skipping(t, FALSE)
      BY <1>3, <2>3 DEF Outcomes, BeginsCopy
    <3> HIDE DEF t
    <3>3. Framed(s, r) /\ r.copy = FALSE /\ r.out = Append(s.out, e)
      <4>1. CASE m.kind = "CopyDone"
        BY <3>1, <3>2, <4>1, CopySwitch
      <4>2. CASE m.kind = "Sync"
        <5>1. s.copy = FALSE
          BY <2>0, <4>2
        <5> QED BY <3>1, <3>2, <4>2, <5>1, SkipSwitch
      <4> QED BY <2>3, <4>1, <4>2
    <3>4. e.kind = "Ready"
      BY DEF Note, Done
    <3> HIDE DEF e
    <3> QED BY <2>0, <2>3, <3>3, <3>4 DEF Effect, Completed
  <2>4. CASE m.kind \in {"Parse", "Close", "Bind"}
    <3>0. s.copy = FALSE
      BY <2>0, <2>4
    <3> DEFINE t == Answer(s, Failed(s.sql), Kind("Error"))
    <3>1. \/ r = s
          \/ r = Skipping(t, TRUE)
          \/ r = Answer(s, [s.sql EXCEPT !.prepared = 0], Kind("CloseComplete"))
          \/ r = Answer(s, [s.sql EXCEPT !.prepared = m.version], Kind("ParseComplete"))
      BY <1>3, <2>4 DEF Outcomes, BeginsCopy, Refuse
    <3>2. Framed(s, t) /\ t.copy = FALSE /\ t.out = Append(s.out, Note("Error"))
      BY <3>0, NoteAnswer, DoneAnswer, NoteDoneAnswer
    <3> HIDE DEF t
    <3>3. CASE r = s
      BY <2>4, <3>3 DEF Framed, Effect, Quiet
    <3>4. CASE r # s
      <4>1. \E k \in {"Error", "CloseComplete", "ParseComplete"} :
              Framed(s, r) /\ r.copy = FALSE /\ r.out = Append(s.out, Note(k))
        <5>1. CASE r = Skipping(t, TRUE)
          BY <3>2, <5>1, SkipSwitch
        <5>2. CASE r = Answer(s, [s.sql EXCEPT !.prepared = 0], Kind("CloseComplete"))
          BY <3>0, <5>2, NoteAnswer, DoneAnswer, NoteDoneAnswer
        <5>3. CASE r = Answer(s, [s.sql EXCEPT !.prepared = m.version], Kind("ParseComplete"))
          BY <3>0, <5>3, NoteAnswer, DoneAnswer, NoteDoneAnswer
        <5> QED BY <3>1, <3>4, <5>1, <5>2, <5>3
      <4>2. PICK k \in {"Error", "CloseComplete", "ParseComplete"} :
              Framed(s, r) /\ r.copy = FALSE /\ r.out = Append(s.out, Note(k))
        BY <4>1
      <4> DEFINE e == Note(k)
      <4>3. e.kind # "Ready" /\ r.out = Append(s.out, e)
        BY <4>2 DEF Note
      <4> HIDE DEF e
      <4> QED BY <2>4, <3>0, <4>2, <4>3 DEF Effect, Partial
    <3> QED BY <3>3, <3>4
  <2> QED BY <2>1, <2>2, <2>3, <2>4 DEF Kinds
<1> QED BY <1>1, <1>2, <1>3

\* A message is taken from the queue: it may be the one that ends an exchange.
LEMMA BackendKeepsStep ==
  ASSUME NEW g, NEW s, SessionShape(s), s.in # <<>>, s.alive,
         NEW r \in Outcomes([s EXCEPT !.in = Tail(@)], Head(s.in))
  PROVE  SessionShape(r) /\ (InStep(g, s) => InStep(g, r))
<1> DEFINE t == [s EXCEPT !.in = Tail(@)]
           m == Head(s.in)
           K == {"Query", "Sync"}
<1>1. /\ Fields(t) /\ t.in = Tail(s.in) /\ t.out = s.out /\ t.copy = s.copy /\ t.cut = s.cut
  BY DEF SessionShape, Fields
<1>2. IsSeq(s.in) /\ IsSeq(s.out) /\ s.copy \in BOOLEAN
  BY DEF SessionShape
<1>3. /\ IsSeq(Tail(s.in)) /\ Len(s.in) \in Nat /\ Len(s.in) > 0
      /\ Len(Tail(s.in)) = Len(s.in) - 1
      /\ \A i \in 1..Len(s.in) - 1 : Tail(s.in)[i] = s.in[i + 1]
      /\ m = s.in[1]
  BY <1>2, TailShape
<1>4. m.kind \in Kinds
  BY <1>3 DEF SessionShape
<1>5. Framed(t, r) /\ Effect(t, m, r)
  <2> HIDE DEF t, m
  <2>1. t.copy \in BOOLEAN /\ IsSeq(t.out)
    BY <1>1, <1>2
  <2>2. r \in Outcomes(t, m)
    BY DEF t, m
  <2> QED BY <1>1, <1>4, <2>1, <2>2, OutcomesEffect
<1>6. Fields(r) /\ r.in = Tail(s.in) /\ r.cut = s.cut
  BY <1>1, <1>5 DEF Framed
<1>7. /\ Count(s.in, K) = Count(Tail(s.in), K) + (IF m.kind \in K THEN 1 ELSE 0)
      /\ Count(Tail(s.in), K) \in Nat /\ Count(s.out, {"Ready"}) \in Nat
  BY <1>2, <1>3, CountTail, CountType
<1>8. \A e : /\ IsSeq(Append(s.out, e)) /\ Len(Append(s.out, e)) = Len(s.out) + 1
             /\ Len(s.out) \in Nat
             /\ \A i \in 1..Len(s.out) : Append(s.out, e)[i] = s.out[i]
             /\ Append(s.out, e)[Len(s.out) + 1] = e
             /\ Count(Append(s.out, e), {"Ready"})
                  = Count(s.out, {"Ready"}) + (IF e.kind = "Ready" THEN 1 ELSE 0)
  <2> TAKE e
  <2>1. e.kind \in {"Ready"} <=> e.kind = "Ready"
    OBVIOUS
  <2> QED BY <1>2, <2>1, AppendShape, CountAppend
<1>9. \A i \in 1..Len(r.in) : r.in[i].kind \in Kinds
  <2> TAKE i \in 1..Len(r.in)
  <2>1. i + 1 \in 1..Len(s.in) /\ r.in[i] = s.in[i + 1]
    BY <1>3, <1>6
  <2> QED BY <2>1 DEF SessionShape
<1>10. SyncBehind(s) => SyncBehind(r)
  <2> SUFFICES ASSUME SyncBehind(s), NEW i \in 1..Len(r.in),
                      r.in[i].kind \in {"Parse", "Close", "Bind"}
               PROVE  \E j \in i + 1..Len(r.in) : r.in[j].kind = "Sync"
    BY DEF SyncBehind
  <2>1. i + 1 \in 1..Len(s.in) /\ r.in[i] = s.in[i + 1]
    BY <1>3, <1>6
  <2>2. PICK j \in (i + 1) + 1..Len(s.in) : s.in[j].kind = "Sync"
    BY <2>1 DEF SyncBehind
  <2>3. j - 1 \in i + 1..Len(r.in) /\ (j - 1) + 1 = j /\ j - 1 \in 1..Len(s.in) - 1
    BY <1>3, <1>6
  <2>4. r.in[j - 1] = s.in[j]
    BY <1>3, <1>6, <2>3
  <2> QED BY <2>2, <2>3, <2>4
<1>11. ASSUME NEW j \in 1..Len(s.in), s.in[j].kind = "Sync", m.kind # "Sync" \/ j > 1
       PROVE  \E k \in 1..Len(r.in) : r.in[k].kind = "Sync"
  <2>1. j > 1
    BY <1>3, <1>11
  <2>2. j - 1 \in 1..Len(r.in) /\ (j - 1) + 1 = j /\ j - 1 \in 1..Len(s.in) - 1
    BY <1>3, <1>6, <2>1
  <2>3. r.in[j - 1] = s.in[j]
    BY <1>3, <1>6, <2>2
  <2> QED BY <1>11, <2>2, <2>3
<1> HIDE DEF t, m
<1>12. SessionShape(r) /\ OnTheWay(r) <= OnTheWay(s)
       /\ (SyncBehind(s) /\ ReadyBehind(s) => ReadyBehind(r))
  <2>1. CASE Quiet(t, m, r)
    <3>1. r.out = s.out /\ r.copy = s.copy /\ (m.kind = "Sync" => s.copy)
      BY <1>1, <2>1 DEF Quiet
    <3>2. SessionShape(r)
      BY <1>2, <1>3, <1>6, <1>9, <3>1 DEF SessionShape, Fields
    <3>3. OnTheWay(r) <= OnTheWay(s)
      BY <1>6, <1>7, <3>1 DEF OnTheWay
    <3>4. ASSUME ReadyBehind(s) PROVE ReadyBehind(r)
      BY <1>11, <3>1, <3>4 DEF ReadyBehind
    <3> QED BY <3>2, <3>3, <3>4
  <2>2. CASE Partial(t, m, r)
    <3>1. PICK e : r.out = Append(s.out, e) /\ e.kind # "Ready"
      BY <1>1, <2>2 DEF Partial
    <3>2. m.kind \in {"Parse", "Close", "Bind"} /\ r.copy = FALSE /\ s.copy = FALSE
      BY <1>1, <2>2 DEF Partial
    <3>3. SessionShape(r)
      BY <1>3, <1>6, <1>8, <1>9, <3>1, <3>2 DEF SessionShape, Fields
    <3>4. OnTheWay(r) <= OnTheWay(s)
      BY <1>6, <1>7, <1>8, <3>1, <3>2 DEF OnTheWay
    <3>5. ASSUME SyncBehind(s), ReadyBehind(s) PROVE ReadyBehind(r)
      <4>1. \E k \in 1..Len(r.in) : r.in[k].kind = "Sync"
        <5>1. PICK j \in 1 + 1..Len(s.in) : s.in[j].kind = "Sync"
          BY <1>3, <3>2, <3>5 DEF SyncBehind
        <5>2. j \in 1..Len(s.in) /\ j > 1
          BY <1>3
        <5> QED BY <1>11, <5>1, <5>2
      <4> QED BY <4>1 DEF ReadyBehind
    <3> QED BY <3>3, <3>4, <3>5
  <2>3. CASE Copying(t, m, r)
    <3>1. PICK e : r.out = Append(s.out, e) /\ e.kind # "Ready"
      BY <1>1, <2>3 DEF Copying
    <3>2. r.copy = TRUE /\ (s.copy = TRUE \/ m.kind = "Query")
      BY <1>1, <2>3 DEF Copying
    <3>3. SessionShape(r)
      BY <1>3, <1>6, <1>8, <1>9, <3>1, <3>2 DEF SessionShape, Fields
    <3>4. OnTheWay(r) <= OnTheWay(s)
      BY <1>6, <1>7, <1>8, <3>1, <3>2 DEF OnTheWay
    <3>5. ReadyBehind(r)
      BY <3>2 DEF ReadyBehind
    <3> QED BY <3>3, <3>4, <3>5
  <2>4. CASE Completed(t, m, r)
    <3>1. r.copy = FALSE /\ (s.copy = TRUE \/ (s.copy = FALSE /\ m.kind \in K))
      BY <1>1, <1>2, <2>4 DEF Completed
    <3>2. PICK e : /\ e.kind = "Ready"
                   /\ \/ r.out = Append(s.out, e)
                      \/ \E f : f.kind # "Ready" /\ r.out = Append(Append(s.out, f), e)
      BY <1>1, <2>4 DEF Completed
    <3>3. /\ IsSeq(r.out) /\ Len(r.out) \in Nat /\ Len(r.out) > 0 /\ r.out[Len(r.out)] = e
          /\ Count(r.out, {"Ready"}) = Count(s.out, {"Ready"}) + 1
      <4>1. CASE r.out = Append(s.out, e)
        BY <1>8, <3>2, <4>1
      <4>2. ASSUME NEW f, f.kind # "Ready", r.out = Append(Append(s.out, f), e)
            PROVE  /\ IsSeq(r.out) /\ Len(r.out) \in Nat /\ Len(r.out) > 0
                   /\ r.out[Len(r.out)] = e
                   /\ Count(r.out, {"Ready"}) = Count(s.out, {"Ready"}) + 1
        <5> DEFINE o == Append(s.out, f)
        <5>1. /\ IsSeq(o) /\ Len(o) \in Nat
              /\ Count(o, {"Ready"}) = Count(s.out, {"Ready"})
          BY <1>7, <1>8, <4>2
        <5> HIDE DEF o
        <5>2. /\ IsSeq(Append(o, e)) /\ Len(Append(o, e)) = Len(o) + 1
              /\ Append(o, e)[Len(o) + 1] = e
          BY <5>1, AppendShape
        <5>3. Count(Append(o, e), {"Ready"}) = Count(o, {"Ready"}) + 1
          BY <3>2, <5>1, CountAppend
        <5> QED BY <4>2, <5>1, <5>2, <5>3 DEF o
      <4>3. CASE \E f : f.kind # "Ready" /\ r.out = Append(Append(s.out, f), e)
        BY <4>2, <4>3
      <4> QED BY <3>2, <4>1, <4>3
    <3>4. SessionShape(r)
      BY <1>3, <1>6, <1>9, <3>1, <3>3 DEF SessionShape, Fields
    <3>5. OnTheWay(r) <= OnTheWay(s)
      BY <1>6, <1>7, <3>1, <3>3 DEF OnTheWay
    <3>6. ReadyBehind(r)
      BY <3>2, <3>3 DEF ReadyBehind
    <3> QED BY <3>4, <3>5, <3>6
  <2> QED BY <1>5, <2>1, <2>2, <2>3, <2>4 DEF Effect
<1>13. ASSUME InStep(g, s) PROVE InStep(g, r)
  <2>1. ~r.cut
    BY <1>6, <1>13 DEF InStep
  <2>2. OnTheWay(r) \in Int /\ OnTheWay(s) \in Int /\ Awaited(g) \in Int
    <3>1. Count(r.out, {"Ready"}) \in Nat /\ Count(r.in, K) \in Nat
      BY <1>12, CountType DEF SessionShape
    <3>2. Count(s.out, {"Ready"}) \in Nat /\ Count(s.in, K) \in Nat
      BY <1>2, CountType
    <3>3. Awaited(g) \in Nat
      BY <1>13, CountType DEF InStep, Awaited
    <3> QED BY <3>1, <3>2, <3>3 DEF OnTheWay
  <2>3. OnTheWay(r) <= Awaited(g)
    BY <1>12, <1>13, <2>2 DEF InStep
  <2> QED BY <1>10, <1>12, <1>13, <2>1, <2>3 DEF InStep
<1> QED BY <1>12, <1>13

\* A sequence has a longest prefix of awaited answers that an error makes void.
LEMMA VoidPrefix ==
  ASSUME NEW s, IsSeq(s)
  PROVE  \E k \in 0..Len(s) : /\ \A i \in 1..k : IsExtended(s[i])
                              /\ k < Len(s) => ~IsExtended(s[k + 1])
<1>1. Len(s) \in Nat
  BY DEF IsSeq
<1> DEFINE T == {i \in 1..Len(s) : ~IsExtended(s[i])}
           R == OpToRel(<, Nat)
<1>2. CASE T = {}
  <2>1. Len(s) \in 0..Len(s) /\ ~(Len(s) < Len(s)) /\ \A i \in 1..Len(s) : IsExtended(s[i])
    BY <1>1, <1>2
  <2> QED BY <2>1
<1>3. CASE T # {}
  <2>0. IsWellFoundedOn(R, Nat)
    BY NatLessThanWellFounded
  <2>1. T \subseteq Nat
    BY <1>1
  <2>2. PICK x \in T : \A y \in T : ~(<<y, x>> \in R)
    <3> HIDE DEF R, T
    <3> QED BY <1>3, <2>0, <2>1, WFMin
  <2>3. \A y \in T : ~(y < x)
    BY <2>1, <2>2 DEF OpToRel
  <2>4. x \in 1..Len(s) /\ ~IsExtended(s[x])
    OBVIOUS
  <2>5. x - 1 \in 0..Len(s) /\ (x - 1) + 1 = x
    BY <1>1, <2>4
  <2>6. ASSUME NEW i \in 1..x - 1 PROVE IsExtended(s[i])
    <3>1. i \in 1..Len(s) /\ i < x
      BY <1>1, <2>4
    <3> QED BY <2>3, <3>1
  <2> QED BY <2>4, <2>5, <2>6
<1> QED BY <1>2, <1>3

\* What settling an answer leaves of the handler.
SameHandler(g, h) ==
  /\ HandlerShape(h) /\ h.unsynced = g.unsynced /\ h.started = g.started
  /\ h.phase = g.phase /\ h.backend = g.backend
  /\ g.pinned => h.pinned

\* And of what it waits for: one exchange less at most, unless it fell out of step.
Settles(g, a, h) ==
  \/ h.pinned
  \/ /\ IsSeq(h.awaiting)
     /\ Awaited(g) <= Awaited(h) + (IF a.kind = "Ready" THEN 1 ELSE 0)

\* A pinned handler is the same otherwise.
LEMMA PinnedFields ==
  ASSUME NEW g, NEW h, SameHandler(g, h)
  PROVE  SameHandler(g, Pinned(h)) /\ Pinned(h).pinned
         /\ SameHandler(g, OutOfStep(h)) /\ OutOfStep(h).pinned
  BY DEF SameHandler, HandlerShape, Pinned, OutOfStep

\* An error makes no exchange void, only what precedes its end.
LEMMA ErroredSettles ==
  ASSUME NEW g, HandlerShape(g), g.pinned \/ IsSeq(g.awaiting)
  PROVE  /\ SameHandler(g, Errored(g))
         /\ Errored(g).pinned \/ (IsSeq(Errored(g).awaiting) /\ Awaited(Errored(g)) = Awaited(g))
<1> DEFINE P(k) == /\ \A i \in 1..k : IsExtended(g.awaiting[i])
                   /\ k < Len(g.awaiting) => ~IsExtended(g.awaiting[k + 1])
           n == CHOOSE k \in 0..Len(g.awaiting) : P(k)
           rest == SubSeq(g.awaiting, n + 1, Len(g.awaiting))
           h == [g EXCEPT !.awaiting = rest]
           v == [h EXCEPT !.awaiting[1].changes = <<>>]
<1>1. Errored(g) = IF rest = <<>> \/ rest[1].changes = <<>> THEN h ELSE Pinned(v)
  BY DEF Errored
<1> HIDE DEF rest
<1>2. SameHandler(g, g)
  BY DEF SameHandler
<1>3. SameHandler(g, h) /\ h.awaiting = rest /\ h.pinned = g.pinned
  BY <1>2 DEF SameHandler, HandlerShape
<1> HIDE DEF h
<1>4. SameHandler(g, v)
  BY <1>3 DEF SameHandler, HandlerShape
<1> HIDE DEF v
<1>5. SameHandler(g, Pinned(v)) /\ Pinned(v).pinned
  BY <1>4, PinnedFields
<1>6. CASE g.pinned
  BY <1>1, <1>3, <1>5, <1>6
<1>7. CASE IsSeq(g.awaiting)
  <2>1. n \in 0..Len(g.awaiting) /\ P(n)
    BY <1>7, VoidPrefix
  <2> HIDE DEF n
  <2>2. IsSeq(rest)
    BY <1>7, <2>1, RestShape DEF rest
  <2>3. Count(rest, {"Ready"}) = Count(g.awaiting, {"Ready"})
    <3>1. \A i \in 1..n : g.awaiting[i].kind \notin {"Ready"}
      BY <2>1 DEF IsExtended
    <3> QED BY <1>7, <2>1, <3>1, CountRest DEF rest
  <2> QED BY <1>1, <1>3, <1>5, <2>2, <2>3 DEF Awaited
<1> QED BY <1>6, <1>7

\* One answer settles one exchange at most.
LEMMA AcknowledgeSettles ==
  ASSUME NEW g, HandlerShape(g), g.pinned \/ IsSeq(g.awaiting), NEW a
  PROVE  SameHandler(g, Acknowledge(g, a)) /\ Settles(g, a, Acknowledge(g, a))
<1> DEFINE h == Acknowledge(g, a)
           Ok(k) == SameHandler(g, k) /\ Settles(g, a, k)
           front == IF g.awaiting = <<>> THEN Owed("none", <<>>, FALSE, 0) ELSE Head(g.awaiting)
           left == IF g.awaiting = <<>> THEN g.awaiting ELSE Tail(g.awaiting)
           popped == [g EXCEPT !.awaiting = left]
<1>0. Owed("none", <<>>, FALSE, 0).kind = "none"
  BY DEF Owed
<1>1. SameHandler(g, g)
  BY DEF SameHandler
<1>2. Ok(g)
  <2>1. g.pinned \/ Awaited(g) \in Nat
    BY CountType DEF Awaited
  <2> QED BY <1>1, <2>1 DEF Settles
<1>3. SameHandler(g, popped) /\ popped.awaiting = left /\ popped.pinned = g.pinned
  BY <1>1 DEF SameHandler, HandlerShape
<1>4. Ok(OutOfStep(g))
  BY <1>1, PinnedFields DEF Settles
<1>5. ASSUME front.kind # "none", ~g.pinned
      PROVE  /\ IsSeq(left) /\ Count(left, {"Ready"}) \in Nat
             /\ Count(g.awaiting, {"Ready"})
                  = Count(left, {"Ready"}) + (IF front.kind = "Ready" THEN 1 ELSE 0)
  <2>1. g.awaiting # <<>> /\ IsSeq(g.awaiting)
    BY <1>0, <1>5
  <2>2. left = Tail(g.awaiting) /\ front = Head(g.awaiting)
    BY <2>1
  <2>3. IsSeq(left)
    BY <2>1, <2>2, TailShape
  <2>4. Count(left, {"Ready"}) \in Nat
    BY <2>3, CountType
  <2>5. front.kind \in {"Ready"} <=> front.kind = "Ready"
    OBVIOUS
  <2> HIDE DEF left, front
  <2> QED BY <2>1, <2>2, <2>3, <2>4, <2>5, CountTail
<1> HIDE DEF left, front
<1>6. ASSUME NEW k, SameHandler(g, k), k.awaiting = left, k.pinned = g.pinned,
             front.kind # "none", front.kind = "Ready" => a.kind = "Ready"
      PROVE  Ok(k)
  <2>1. CASE g.pinned
    BY <1>6, <2>1 DEF Settles
  <2>2. CASE ~g.pinned
    BY <1>5, <1>6, <2>2 DEF Settles, Awaited
  <2> QED BY <2>1, <2>2
<1> HIDE DEF popped
<1>7. CASE a.kind = "ParseComplete"
  <2>1. h = IF front.kind # "Parse" THEN OutOfStep(g)
            ELSE IF front.version = 0 THEN popped
            ELSE [popped EXCEPT !.replay.prepared = front.version]
    BY <1>7 DEF Acknowledge, front, popped, left
  <2> DEFINE k == [popped EXCEPT !.replay.prepared = front.version]
  <2>2. SameHandler(g, k) /\ k.awaiting = left /\ k.pinned = g.pinned
    BY <1>3 DEF SameHandler, HandlerShape
  <2> HIDE DEF k, h
  <2> QED BY <1>3, <1>4, <1>6, <1>7, <2>1, <2>2 DEF k, h
<1>8. CASE a.kind = "CloseComplete"
  <2>1. h = IF front.kind # "Close" THEN OutOfStep(g) ELSE [popped EXCEPT !.replay.prepared = 0]
    BY <1>8 DEF Acknowledge, front, popped, left
  <2> DEFINE k == [popped EXCEPT !.replay.prepared = 0]
  <2>2. SameHandler(g, k) /\ k.awaiting = left /\ k.pinned = g.pinned
    BY <1>3 DEF SameHandler, HandlerShape
  <2> HIDE DEF k, h
  <2> QED BY <1>3, <1>4, <1>6, <1>8, <2>1, <2>2 DEF k, h
<1>9. CASE a.kind = "Error"
  <2>1. h = Errored(g)
    BY <1>9 DEF Acknowledge
  <2>2. g.pinned \/ Awaited(g) \in Nat
    BY CountType DEF Awaited
  <2>3. SameHandler(g, Errored(g))
        /\ (Errored(g).pinned \/ (IsSeq(Errored(g).awaiting) /\ Awaited(Errored(g)) = Awaited(g)))
    BY ErroredSettles
  <2>4. g.pinned => Errored(g).pinned
    BY <2>3 DEF SameHandler
  <2> HIDE DEF h
  <2> QED BY <1>9, <2>1, <2>2, <2>3, <2>4 DEF Settles, h
<1>10. CASE a.kind = "Ready"
  <2>1. h = IF front.kind = "none" THEN g
            ELSE IF front.kind # "Ready" THEN OutOfStep(g)
            ELSE Settled(popped, front, a.tx)
    BY <1>10 DEF Acknowledge, front, popped, left
  <2>2. CASE front.kind = "none"
    BY <1>2, <2>1, <2>2
  <2>3. CASE front.kind # "none" /\ front.kind # "Ready"
    BY <1>4, <2>1, <2>3
  <2>4. CASE front.kind = "Ready"
    <3> DEFINE k == ApplyChanges(popped, front.changes)
    <3>1. h = popped \/ h = k \/ h = Pinned(popped)
      BY <2>1, <2>4 DEF Settled
    <3>2. SameHandler(g, k) /\ k.awaiting = left /\ k.pinned = g.pinned
      BY <1>3 DEF ApplyChanges, SameHandler, HandlerShape
    <3>3. SameHandler(g, Pinned(popped)) /\ Pinned(popped).pinned
      BY <1>3, PinnedFields
    <3> HIDE DEF k, h
    <3>4. Ok(popped) /\ Ok(k)
      BY <1>3, <1>6, <1>10, <2>4, <3>2
    <3>5. Ok(Pinned(popped))
      BY <3>3 DEF Settles
    <3> QED BY <3>1, <3>4, <3>5 DEF h
  <2> QED BY <2>2, <2>3, <2>4
<1>11. CASE a.kind \notin {"ParseComplete", "CloseComplete", "Error", "Ready"}
  <2>1. h = g
    BY <1>11 DEF Acknowledge
  <2> QED BY <1>2, <2>1
<1> QED BY <1>7, <1>8, <1>9, <1>10, <1>11

\* Nothing is on its way in a session that is new, left or gone.
LEMMA EmptyInStep ==
  ASSUME NEW g, IsSeq(g.awaiting),
         NEW s, s.in = <<>>, s.out = <<>>, s.copy = FALSE, s.cut = FALSE
  PROVE  InStep(g, s)
<1>1. IsSeq(s.in) /\ IsSeq(s.out) /\ Len(s.in) = 0 /\ Len(s.out) = 0
  BY DEF IsSeq
<1>2. \A i \in 1..0 : FALSE
  OBVIOUS
<1>3. Count(s.in, {"Query", "Sync"}) = 0 /\ Count(s.out, {"Ready"}) = 0
  BY <1>1, <1>2, CountType
<1>4. Awaited(g) \in Nat
  BY CountType DEF Awaited
<1>5. OnTheWay(s) = 0
  BY <1>3 DEF OnTheWay
<1>6. SyncBehind(s) /\ ReadyBehind(s)
  BY <1>1, <1>2 DEF SyncBehind, ReadyBehind
<1> QED BY <1>4, <1>5, <1>6 DEF InStep

\* A handler in step that may migrate has nothing to leave behind.
LEMMA NothingLeft ==
  ASSUME NEW g, HandlerShape(g), g.started, ~g.unsynced, g.awaiting = <<>>,
         NEW s, SessionShape(s), InStep(g, s)
  PROVE  /\ \A i \in 1..Len(s.in) : s.in[i].kind = "CopyDone"
         /\ s.out = <<>> /\ ~s.copy /\ ~s.cut
<1>1. IsSeq(s.in) /\ IsSeq(s.out)
  BY DEF SessionShape
<1>2. Awaited(g) = 0
  <2>1. IsSeq(g.awaiting) /\ Len(g.awaiting) = 0
    BY DEF InStep
  <2>2. \A i \in 1..0 : FALSE
    OBVIOUS
  <2> QED BY <2>1, <2>2, CountType DEF Awaited
<1>3. Count(s.in, {"Query", "Sync"}) \in Nat /\ Count(s.out, {"Ready"}) \in Nat
  BY <1>1, CountType
<1>4. Count(s.in, {"Query", "Sync"}) = 0 /\ Count(s.out, {"Ready"}) = 0 /\ ~s.copy
  BY <1>2, <1>3 DEF InStep, OnTheWay
<1>5. \A i \in 1..Len(s.in) : s.in[i].kind \notin {"Query", "Sync"}
  BY <1>1, <1>4, CountType
<1>6. \A i \in 1..Len(s.out) : s.out[i].kind \notin {"Ready"}
  BY <1>1, <1>4, CountType
<1>7. Len(s.in) \in Nat /\ Len(s.out) \in Nat
  BY <1>1 DEF IsSeq
<1>8. SyncBehind(s) /\ ReadyBehind(s)
  BY DEF InStep
<1>9. ASSUME NEW i \in 1..Len(s.in) PROVE s.in[i].kind = "CopyDone"
  <2>1. \A j \in i + 1..Len(s.in) : j \in 1..Len(s.in)
    BY <1>7
  <2>2. s.in[i].kind \notin {"Parse", "Close", "Bind"}
    BY <1>5, <1>8, <2>1 DEF SyncBehind
  <2> QED BY <1>5, <2>2 DEF SessionShape, Kinds
<1>10. s.out = <<>>
  <2>1. ASSUME Len(s.out) > 0 PROVE FALSE
    <3>1. 1 \in 1..Len(s.out) /\ \A j \in 1..Len(s.out) : j \in 1..Len(s.out)
      BY <1>7, <2>1
    <3> QED BY <1>4, <1>5, <1>6, <1>8, <3>1 DEF ReadyBehind
  <2>2. Len(s.out) = 0
    BY <1>7, <2>1
  <2> QED BY <1>1, <2>2 DEF IsSeq
<1>11. ~s.cut
  BY <1>2 DEF InStep
<1> QED BY <1>4, <1>9, <1>10, <1>11

\* The end of a session leaves nothing to wait for.
LEMMA EndKeepsPipe ==
  ASSUME PipelineInv, Ends PROVE PipelineInv'
<1>1. /\ gw'.phase = "ended" /\ HandlerShape(gw') /\ gw'.awaiting = <<>>
  BY DEF Ends, NewConnection, HandlerShape
<1>2. /\ SessionShape(sess') /\ sess'.in = <<>> /\ sess'.out = <<>>
      /\ sess'.copy = FALSE /\ sess'.cut = FALSE
  <2>1. IsSeq(<<>>) /\ Len(<<>>) = 0
    BY DEF IsSeq
  <2> QED BY <2>1 DEF Ends, NoSession, NewSession, SessionShape
<1>3. IsSeq(gw'.awaiting)
  BY <1>1 DEF IsSeq
<1>4. InStep(gw', sess')
  BY <1>2, <1>3, EmptyInStep
<1>5. dropped' = FALSE
  BY DEF Ends, PipelineInv
<1> QED BY <1>1, <1>2, <1>4, <1>5 DEF PipelineInv, StartupInv

\* The handler moves on.
LEMMA StayKeepsPipe ==
  ASSUME PipelineInv, NEW phase, StaysIn(phase), gw.phase # "ended",
         \/ gw.started /\ phase \notin {"startup", "route", "connect"}
         \/ ~gw.started /\ phase \in {"route", "connect"}
         \/ (phase \in {"follow", "select"} /\ gw.phase \in {"top", "follow"})
  PROVE  PipelineInv'
<1>1. /\ gw' = [gw EXCEPT !.phase = phase] /\ UNCHANGED <<sess, view, dropped>>
  BY DEF StaysIn, Goto
<1>2. /\ HandlerShape(gw') /\ gw'.phase = phase /\ gw'.started = gw.started
      /\ gw'.awaiting = gw.awaiting /\ gw'.unsynced = gw.unsynced /\ gw'.pinned = gw.pinned
      /\ gw'.backend = gw.backend
  BY <1>1 DEF PipelineInv, HandlerShape
<1>3. InStep(gw, sess) => InStep(gw', sess')
  BY <1>1, <1>2 DEF InStep, Awaited, OnTheWay, SyncBehind, ReadyBehind
<1>4. Route' = Route /\ HoldReason' = HoldReason
  BY <1>1 DEF Route, HoldReason
<1>5. StartupInv'
  <2>1. CASE gw.started
    BY <1>2, <2>1 DEF StartupInv
  <2>2. CASE ~gw.started
    BY <1>1, <1>2, <1>4, <2>2 DEF StartupInv, PipelineInv, Greets
  <2> QED BY <2>1, <2>2
<1> QED BY <1>1, <1>2, <1>3, <1>5 DEF PipelineInv

\* A backend is left, with nothing behind.
LEMMA MoveKeepsPipe ==
  ASSUME PipelineInv, gw.started, gw.phase # "ended", Move PROVE PipelineInv'
<1>1. CASE End
  BY <1>1, EndKeepsPipe DEF End
<1>2. CASE IsMigratable /\ LeaveBackend
  <2>1. gw.awaiting = <<>> /\ ~gw.unsynced /\ ~gw.pinned
    BY <1>2 DEF IsMigratable, ResponsePending
  <2>2. HandlerShape(gw) /\ SessionShape(sess) /\ InStep(gw, sess)
    BY <2>1 DEF PipelineInv
  <2>3. /\ \A i \in 1..Len(sess.in) : sess.in[i].kind = "CopyDone"
        /\ sess.out = <<>> /\ ~sess.copy /\ ~sess.cut
    BY <2>1, <2>2, NothingLeft
  <2>4. dropped' = FALSE
    BY <1>2, <2>3 DEF LeaveBackend, LeftBehind, PipelineInv
  <2>5. /\ sess'.in = <<>> /\ sess'.out = <<>> /\ sess'.cut = FALSE
        /\ sess'.copy = sess.copy /\ SessionShape(sess')
    <3>1. IsSeq(<<>>) /\ Len(<<>>) = 0
      BY DEF IsSeq
    <3> QED BY <1>2, <2>2, <3>1 DEF LeaveBackend, SessionShape
  <2>6. /\ HandlerShape(gw') /\ gw'.awaiting = gw.awaiting /\ gw'.started
        /\ gw'.phase = "moving"
    BY <1>2, <2>2 DEF LeaveBackend, Goto, HandlerShape
  <2>7. InStep(gw', sess')
    <3>1. sess'.copy = FALSE
      BY <2>2, <2>3, <2>5 DEF SessionShape
    <3>2. IsSeq(gw'.awaiting)
      BY <2>2, <2>6 DEF InStep
    <3> QED BY <2>5, <3>1, <3>2, EmptyInStep
  <2> QED BY <2>4, <2>5, <2>6, <2>7 DEF PipelineInv, StartupInv
<1> QED BY <1>1, <1>2 DEF Move

\* Connecting, waiting, following a route and recovering.
LEMMA HandlerKeepsPipe ==
  ASSUME PipelineInv,
         \/ ReadStartup \/ AwaitRoute \/ NoRouteInTime
         \/ EnterHold \/ LeaveHold \/ HoldExpires \/ EnterFence \/ LeaveFence
         \/ FollowRoute \/ RouteArrives \/ RetryLost \/ Thaw \/ RecoveryExpires
         \/ MoveFails \/ MoveRefused \/ Wake \/ ForwardFails \/ BackendGone \/ ClientGone
  PROVE  PipelineInv'
<1>0. StartupInv
  BY DEF PipelineInv
<1>1. CASE ReadStartup
  BY <1>0, <1>1, EndKeepsPipe, StayKeepsPipe DEF ReadStartup, End, StartupInv
<1>2. CASE AwaitRoute
  BY <1>0, <1>2, StayKeepsPipe DEF AwaitRoute, StartupInv
<1>3. CASE \/ NoRouteInTime \/ HoldExpires \/ RecoveryExpires
           \/ MoveRefused \/ ForwardFails \/ ClientGone
  BY <1>3, EndKeepsPipe
     DEF NoRouteInTime, HoldExpires, RecoveryExpires, MoveRefused, ForwardFails, ClientGone, End
<1>4. CASE EnterHold
  <2>1. gw.phase = "top" /\ HoldReason /\ (End \/ StaysIn("held"))
    BY <1>4 DEF EnterHold
  <2>2. gw.started
    BY <1>0, <2>1 DEF StartupInv
  <2> QED BY <2>1, <2>2, EndKeepsPipe, StayKeepsPipe DEF End
<1>5. CASE LeaveHold \/ LeaveFence \/ Thaw \/ MoveFails
  <2>1. /\ gw.phase \in {"held", "fenced", "frozen", "moving", "greet", "replayListen",
                          "replayPrepared"}
        /\ (End \/ \E p \in {"fence", "follow", "lost"} : StaysIn(p))
    BY <1>5 DEF LeaveHold, LeaveFence, Thaw, MoveFails
  <2>2. gw.started /\ gw.phase # "ended"
    BY <1>0, <2>1 DEF StartupInv
  <2> QED BY <2>1, <2>2, EndKeepsPipe, StayKeepsPipe DEF End
<1>6. CASE EnterFence
  <2>1. gw.phase \in {"fence", "top"}
        /\ (StaysIn("follow") \/ (view.fenced /\ (End \/ StaysIn("fenced"))))
    BY <1>6 DEF EnterFence
  <2>2. CASE StaysIn("follow")
    <3>1. gw.started \/ gw.phase = "top"
      BY <1>0, <2>1 DEF StartupInv
    <3> QED BY <2>1, <2>2, <3>1, StayKeepsPipe
  <2>3. CASE view.fenced /\ (End \/ StaysIn("fenced"))
    <3>1. gw.started
      BY <1>0, <2>1, <2>3 DEF StartupInv
    <3> QED BY <2>1, <2>3, <3>1, EndKeepsPipe, StayKeepsPipe DEF End
  <2> QED BY <2>1, <2>2, <2>3
<1>7. CASE FollowRoute
  <2>1. gw.phase = "follow"
        /\ (StaysIn("select") \/ (Route # gw.backend /\ (StaysIn("awaitRoute") \/ Move)))
    BY <1>7 DEF FollowRoute
  <2>2. CASE StaysIn("select")
    BY <2>1, <2>2, StayKeepsPipe
  <2>3. CASE Route # gw.backend /\ (StaysIn("awaitRoute") \/ Move)
    <3>1. gw.started
      BY <1>0, <2>1, <2>3 DEF StartupInv
    <3> QED BY <2>1, <2>3, <3>1, StayKeepsPipe, MoveKeepsPipe
  <2> QED BY <2>1, <2>2, <2>3
<1>8. CASE RouteArrives \/ RetryLost
  <2>1. gw.phase \in {"awaitRoute", "lost"} /\ (StaysIn("select") \/ StaysIn("frozen") \/ Move)
    BY <1>8 DEF RouteArrives, RetryLost
  <2>2. gw.started
    BY <1>0, <2>1 DEF StartupInv
  <2> QED BY <2>1, <2>2, StayKeepsPipe, MoveKeepsPipe
<1>9. CASE Wake
  <2>1. gw.phase = "select" /\ (Route # gw.backend \/ HoldReason \/ view.fenced) /\ StaysIn("top")
    BY <1>9 DEF Wake
  <2>2. gw.started
    BY <1>0, <2>1 DEF StartupInv
  <2> QED BY <2>1, <2>2, StayKeepsPipe
<1>10. CASE BackendGone
  <2>1. gw.phase = "select" /\ sess.out = <<>> /\ (StaysIn("lost") \/ End)
    BY <1>10 DEF BackendGone
  <2>2. gw.started
    <3>1. ~Greets(sess.out)
      BY <2>1 DEF Greets
    <3> QED BY <1>0, <2>1, <3>1 DEF StartupInv
  <2> QED BY <2>1, <2>2, EndKeepsPipe, StayKeepsPipe DEF End
<1> QED BY <1>1, <1>2, <1>3, <1>4, <1>5, <1>6, <1>7, <1>8, <1>9, <1>10

\* A backend session is opened, greeted and filled.
LEMMA BackendKeepsPipe ==
  ASSUME StartupRaces = FALSE, PipelineInv,
         ConnectFirst \/ Reconnect \/ Greeted \/ ReplayListen \/ ReplayPrepared
  PROVE  PipelineInv'
<1>0. StartupInv /\ HandlerShape(gw) /\ SessionShape(sess) /\ (gw.pinned \/ InStep(gw, sess))
  BY DEF PipelineInv
<1>1. CASE ConnectFirst
  <2> DEFINE k == Note("Key")
             n == Note("Greeting")
             greeting == Kind("Key") \o Kind("Greeting")
  <2>1. gw.phase = "connect" /\ UNCHANGED <<view, dropped>>
    BY <1>1 DEF ConnectFirst
  <2>2. PICK server \in Servers \cup {Relay} :
          /\ Route = server \/ StartupRaces
          /\ sess' = [NewSession(sessions + 1, server) EXCEPT !.out = greeting]
          /\ gw' = [gw EXCEPT !.phase = "top", !.backend = server]
    BY <1>1 DEF ConnectFirst
  <2>3. /\ HandlerShape(gw') /\ gw'.phase = "top" /\ gw'.backend = server
        /\ gw'.started = gw.started /\ gw'.awaiting = gw.awaiting
        /\ gw'.unsynced = gw.unsynced /\ gw'.pinned = gw.pinned
    BY <1>0, <2>2 DEF HandlerShape
  <2>4. k.kind = "Key" /\ n.kind = "Greeting"
    BY DEF Note
  <2>5. Kind("Key") = <<k>> /\ Kind("Greeting") = <<n>>
    BY DEF Kind, Note
  <2> HIDE DEF k, n
  <2>6. IsSeq(<<k>>) /\ Len(<<k>>) = 1 /\ <<k>>[1] = k
    <3>1. <<k>> \in Seq({k})
      OBVIOUS
    <3>2. IsSeq(<<k>>)
      BY <3>1 DEF IsSeq
    <3> QED BY <3>2
  <2>7. <<k>> \o <<n>> = Append(<<k>>, n)
    BY <2>6, ConcatShape
  <2> DEFINE o == <<k>>
  <2>8. greeting = Append(o, n)
    BY <2>5, <2>7
  <2>9. IsSeq(o) /\ Len(o) = 1 /\ o[1] = k
    BY <2>6
  <2> HIDE DEF o, greeting
  <2>10. /\ IsSeq(greeting) /\ Len(greeting) = 2 /\ greeting[1] = k /\ greeting[2] = n
    <3>1. /\ IsSeq(Append(o, n)) /\ Len(Append(o, n)) = Len(o) + 1
          /\ \A i \in 1..Len(o) : Append(o, n)[i] = o[i]
          /\ Append(o, n)[Len(o) + 1] = n
      BY <2>9, AppendShape
    <3> QED BY <2>8, <2>9, <3>1
  <2>11. /\ sess'.in = <<>> /\ sess'.out = greeting /\ sess'.copy = FALSE /\ sess'.cut = FALSE
         /\ Fields(sess')
    BY <2>2 DEF NewSession, Fields
  <2>12. IsSeq(sess'.in) /\ Len(sess'.in) = 0 /\ \A i \in 1..0 : FALSE
    BY <2>11 DEF IsSeq
  <2>17. SessionShape(sess')
    BY <2>10, <2>11, <2>12 DEF SessionShape, Fields
  <2>13. Greets(sess'.out)
    <3>1. \A i \in 1..2 : i = 1 \/ i = 2
      OBVIOUS
    <3>2. greeting[1].kind # "Greeting" /\ greeting[2].kind = "Greeting"
      BY <2>4, <2>10
    <3>3. Greets(greeting)
      BY <2>10, <3>1, <3>2 DEF Greets
    <3> QED BY <2>11, <3>3
  <2>14. Route' = Route /\ HoldReason' = HoldReason /\ ~gw.started
    BY <1>0, <2>1 DEF Route, HoldReason, StartupInv
  <2>15. StartupInv'
    BY <1>0, <2>1, <2>2, <2>3, <2>11, <2>13, <2>14 DEF StartupInv
  <2>16. ASSUME InStep(gw, sess) PROVE InStep(gw', sess')
    <3>1. Count(sess'.out, {"Ready"}) = 0
      <4>1. \A i \in 1..2 : greeting[i].kind \notin {"Ready"}
        BY <2>4, <2>10
      <4> QED BY <2>10, <2>11, <4>1, CountType
    <3>2. Count(sess'.in, {"Query", "Sync"}) = 0
      BY <2>12, CountType
    <3>3. IsSeq(gw'.awaiting) /\ Awaited(gw') \in Nat
      BY <2>3, <2>16, CountType DEF InStep, Awaited
    <3>4. OnTheWay(sess') = 0
      BY <2>11, <3>1, <3>2 DEF OnTheWay
    <3> QED BY <2>3, <2>11, <2>14, <3>3, <3>4 DEF InStep
  <2> QED BY <1>0, <2>1, <2>3, <2>17, <2>15, <2>16 DEF PipelineInv
<1>2. CASE Reconnect
  <2>1. /\ gw' = [gw EXCEPT !.phase = "greet", !.backend = Route]
        /\ sess' = NewSession(sessions + 1, Route)
        /\ gw.phase = "moving" /\ UNCHANGED <<view, dropped>>
    BY <1>2 DEF Reconnect, Opened
  <2>2. gw.started
    BY <1>0, <2>1 DEF StartupInv
  <2>3. /\ HandlerShape(gw') /\ gw'.phase = "greet" /\ gw'.started
        /\ gw'.awaiting = gw.awaiting /\ gw'.pinned = gw.pinned
    BY <1>0, <2>1, <2>2 DEF HandlerShape
  <2>4. /\ sess'.in = <<>> /\ sess'.out = <<>> /\ sess'.copy = FALSE /\ sess'.cut = FALSE
        /\ SessionShape(sess')
    <3>1. IsSeq(<<>>) /\ Len(<<>>) = 0
      BY DEF IsSeq
    <3> QED BY <2>1, <3>1 DEF NewSession, SessionShape
  <2>5. ASSUME InStep(gw, sess) PROVE InStep(gw', sess')
    <3>1. IsSeq(gw'.awaiting)
      BY <2>3, <2>5 DEF InStep
    <3> QED BY <2>4, <3>1, EmptyInStep
  <2> QED BY <1>0, <2>1, <2>3, <2>4, <2>5 DEF PipelineInv, StartupInv
<1>3. CASE Greeted \/ ReplayListen \/ ReplayPrepared
  <2>1. /\ \E p \in {"replayListen", "replayPrepared", "select"} : gw' = [gw EXCEPT !.phase = p]
        /\ gw.phase \in {"greet", "replayListen", "replayPrepared"} /\ UNCHANGED dropped
    BY <1>3 DEF Greeted, ReplayListen, ReplayPrepared, Goto
  <2>2. gw.started
    BY <1>0, <2>1 DEF StartupInv
  <2>3. /\ HandlerShape(gw') /\ gw'.started /\ gw.started = gw'.started
        /\ gw'.phase \in {"replayListen", "replayPrepared", "select"}
        /\ gw'.awaiting = gw.awaiting /\ gw'.pinned = gw.pinned /\ gw'.unsynced = gw.unsynced
    BY <1>0, <2>1, <2>2 DEF HandlerShape
  <2>4. /\ Fields(sess') /\ sess'.in = sess.in /\ sess'.out = sess.out
        /\ sess'.copy = sess.copy /\ sess'.cut = sess.cut /\ sess'.alive = sess.alive
    BY <1>0, <1>3 DEF Greeted, ReplayListen, ReplayPrepared, SessionShape, Fields
  <2>5. SessionShape(sess')
    BY <1>0, <2>4 DEF SessionShape, Fields
  <2>6. InStep(gw, sess) => InStep(gw', sess')
    BY <2>3, <2>4 DEF InStep, Awaited, OnTheWay, SyncBehind, ReadyBehind
  <2> QED BY <1>0, <2>1, <2>3, <2>5, <2>6 DEF PipelineInv, StartupInv
<1> QED BY <1>1, <1>2, <1>3

\* The client is given an answer.
LEMMA DeliverKeepsPipe ==
  ASSUME PipelineInv, Deliver PROVE PipelineInv'
<1> DEFINE a == Head(sess.out)
           u == Acknowledge(gw, a)
           g == StatusSeen(u, a)
           R == {"Ready"}
<1>0. StartupInv /\ HandlerShape(gw) /\ SessionShape(sess) /\ (gw.pinned \/ InStep(gw, sess))
  BY DEF PipelineInv
<1>1. /\ gw.phase = "select" /\ sess.out # <<>>
      /\ gw' = [g EXCEPT !.phase = "top", !.key = @ \/ a.kind = "Key",
                         !.started = @ \/ a.kind = "Greeting"]
      /\ sess' = [sess EXCEPT !.out = Tail(@)] /\ UNCHANGED <<view, dropped>>
  BY DEF Deliver
<1>2. SameHandler(gw, u) /\ Settles(gw, a, u)
  <2>1. gw.pinned \/ IsSeq(gw.awaiting)
    BY <1>0 DEF InStep
  <2> QED BY <1>0, <2>1, AcknowledgeSettles
<1> HIDE DEF u, a
<1>3. SameHandler(gw, g) /\ g.awaiting = u.awaiting /\ g.pinned = u.pinned
  <2>1. CASE a.kind = "Copy"
    BY <1>2, <2>1 DEF StatusSeen, SameHandler, HandlerShape
  <2>2. CASE a.kind = "Ready"
    BY <1>2, <2>2 DEF StatusSeen, SameHandler, HandlerShape
  <2>3. CASE a.kind \notin {"Copy", "Ready"}
    BY <1>2, <2>3 DEF StatusSeen
  <2> QED BY <2>1, <2>2, <2>3
<1> HIDE DEF g
<1>4. /\ HandlerShape(gw') /\ gw'.awaiting = u.awaiting /\ gw'.pinned = u.pinned
      /\ gw'.unsynced = gw.unsynced /\ gw'.phase = "top" /\ gw'.backend = gw.backend
      /\ gw'.started = (gw.started \/ a.kind = "Greeting")
      /\ gw.pinned => gw'.pinned
  BY <1>1, <1>3 DEF SameHandler, HandlerShape
<1>5. /\ IsSeq(sess.out) /\ IsSeq(Tail(sess.out)) /\ Len(sess.out) \in Nat /\ Len(sess.out) > 0
      /\ Len(Tail(sess.out)) = Len(sess.out) - 1
      /\ \A i \in 1..Len(sess.out) - 1 : Tail(sess.out)[i] = sess.out[i + 1]
      /\ a = sess.out[1]
  <2>1. IsSeq(sess.out)
    BY <1>0 DEF SessionShape
  <2> QED BY <1>1, <2>1, TailShape DEF a
<1>6. /\ sess'.out = Tail(sess.out) /\ sess'.in = sess.in /\ sess'.copy = sess.copy
      /\ sess'.cut = sess.cut /\ sess'.alive = sess.alive /\ Fields(sess')
  BY <1>0, <1>1 DEF SessionShape, Fields
<1>7. SessionShape(sess')
  BY <1>0, <1>5, <1>6 DEF SessionShape, Fields
<1>8. Route' = Route /\ HoldReason' = HoldReason
  BY <1>1 DEF Route, HoldReason
<1>9. ASSUME ~gw.started
      PROVE  IF a.kind = "Greeting" THEN Len(sess'.out) = 0 ELSE Greets(sess'.out)
  <2>1. Greets(sess.out)
    BY <1>0, <1>1, <1>9 DEF StartupInv
  <2> DEFINE o == sess.out
             p == Tail(sess.out)
  <2>2. CASE a.kind = "Greeting"
    <3>1. 1 \in 1..Len(o) /\ o[1].kind = "Greeting"
      BY <1>5, <2>2
    <3>2. Len(o) = 1
      BY <2>1, <3>1 DEF Greets
    <3> QED BY <1>5, <1>6, <2>2, <3>2
  <2>3. CASE a.kind # "Greeting"
    <3>1. Len(o) # 1 /\ Len(p) > 0
      BY <1>5, <2>1, <2>3 DEF Greets
    <3>2. ASSUME NEW i \in 1..Len(p) PROVE p[i].kind = "Greeting" <=> i = Len(p)
      <4>1. i + 1 \in 1..Len(o) /\ p[i] = o[i + 1] /\ (i + 1 = Len(o) <=> i = Len(p))
        BY <1>5
      <4> QED BY <2>1, <4>1 DEF Greets
    <3>3. Greets(p)
      BY <3>1, <3>2 DEF Greets
    <3> QED BY <1>6, <2>3, <3>3
  <2> QED BY <2>2, <2>3
<1>10. StartupInv'
  <2>1. CASE gw'.started
    BY <1>4, <2>1 DEF StartupInv
  <2>2. CASE ~gw'.started
    <3>1. ~gw.started /\ a.kind # "Greeting"
      BY <1>4, <2>2
    <3> QED BY <1>0, <1>1, <1>4, <1>6, <1>8, <1>9, <2>2, <3>1 DEF StartupInv
  <2> QED BY <2>1, <2>2
<1>11. ASSUME ~gw'.pinned PROVE InStep(gw', sess')
  <2>1. InStep(gw, sess)
    BY <1>0, <1>4, <1>11
  <2>2. /\ IsSeq(gw'.awaiting)
        /\ Awaited(gw) <= Awaited(gw') + (IF a.kind = "Ready" THEN 1 ELSE 0)
    BY <1>2, <1>4, <1>11 DEF Settles, Awaited
  <2>3. ~sess.cut
    BY <1>1, <2>1 DEF InStep
  <2>4. /\ Count(sess.out, R) = Count(sess'.out, R) + (IF a.kind = "Ready" THEN 1 ELSE 0)
        /\ Count(sess'.out, R) \in Nat
    <3>1. Count(sess.out, R)
            = Count(Tail(sess.out), R) + (IF Head(sess.out).kind \in R THEN 1 ELSE 0)
      BY <1>1, <1>5, CountTail
    <3>2. Count(Tail(sess.out), R) \in Nat
      BY <1>5, CountType
    <3>3. Head(sess.out).kind \in R <=> a.kind = "Ready"
      BY DEF a
    <3> QED BY <1>6, <3>1, <3>2, <3>3
  <2>5. Count(sess.in, {"Query", "Sync"}) \in Nat
    BY <1>0, CountType DEF SessionShape
  <2>6. Awaited(gw) \in Nat /\ Awaited(gw') \in Nat
    BY <2>1, <2>2, CountType DEF Awaited, InStep
  <2>7. OnTheWay(sess') <= Awaited(gw')
    <3>1. OnTheWay(sess) = OnTheWay(sess') + (IF a.kind = "Ready" THEN 1 ELSE 0)
          /\ OnTheWay(sess') \in Nat
      BY <1>6, <2>4, <2>5 DEF OnTheWay
    <3>2. OnTheWay(sess) <= Awaited(gw)
      BY <2>1 DEF InStep
    <3> QED BY <2>2, <2>6, <3>1, <3>2
  <2>8. SyncBehind(sess) => SyncBehind(sess')
    BY <1>6 DEF SyncBehind
  <2>9. ASSUME ReadyBehind(sess) PROVE ReadyBehind(sess')
    <3> SUFFICES ASSUME NEW i \in 1..Len(sess'.out)
                 PROVE  \/ \E j \in i..Len(sess'.out) : sess'.out[j].kind = "Ready"
                        \/ sess'.copy
                        \/ \E j \in 1..Len(sess'.in) : sess'.in[j].kind = "Sync"
      BY DEF ReadyBehind
    <3>1. i + 1 \in 1..Len(sess.out)
      BY <1>5, <1>6
    <3>2. CASE \E j \in i + 1..Len(sess.out) : sess.out[j].kind = "Ready"
      <4>1. PICK j \in i + 1..Len(sess.out) : sess.out[j].kind = "Ready"
        BY <3>2
      <4>2. j - 1 \in i..Len(sess'.out) /\ j - 1 \in 1..Len(sess.out) - 1 /\ (j - 1) + 1 = j
        BY <1>5, <1>6
      <4>3. sess'.out[j - 1] = sess.out[j]
        BY <1>5, <1>6, <4>2
      <4> QED BY <4>1, <4>2, <4>3
    <3>3. CASE sess.copy \/ \E j \in 1..Len(sess.in) : sess.in[j].kind = "Sync"
      BY <1>6, <3>3
    <3> QED BY <2>9, <3>1, <3>2, <3>3 DEF ReadyBehind
  <2>10. gw'.unsynced \/ ~gw'.started \/ (SyncBehind(sess') /\ ReadyBehind(sess'))
    <3>1. CASE gw.unsynced \/ ~gw'.started
      BY <1>4, <3>1
    <3>2. CASE gw.started /\ ~gw.unsynced
      BY <2>1, <2>8, <2>9, <3>2 DEF InStep
    <3>3. CASE ~gw.started /\ a.kind = "Greeting"
      <4>1. sess'.in = <<>> /\ Len(sess'.out) = 0
        BY <1>0, <1>1, <1>6, <1>9, <3>3 DEF StartupInv
      <4>2. Len(sess'.in) = 0 /\ \A i \in 1..0 : FALSE
        BY <4>1
      <4> QED BY <4>1, <4>2 DEF SyncBehind, ReadyBehind
    <3> QED BY <1>4, <3>1, <3>2, <3>3
  <2> QED BY <1>6, <2>2, <2>3, <2>7, <2>10 DEF InStep
<1> QED BY <1>0, <1>1, <1>4, <1>7, <1>10, <1>11 DEF PipelineInv, HandlerShape

\* The client sends a message, and the handler accounts for it.
LEMMA ForwardKeepsPipe ==
  ASSUME PipelineInv, NEW m \in Messages, Forward(m) PROVE PipelineInv'
<1> DEFINE g == Accounted(gw, m)
           R == {"Ready"}
           K == {"Query", "Sync"}
<1>0. HandlerShape(gw) /\ SessionShape(sess) /\ (gw.pinned \/ InStep(gw, sess))
  BY DEF PipelineInv
<1>1. CASE Ends
  BY <1>1, EndKeepsPipe
<1>2. CASE ~Ends
  <2>1. /\ gw' = [g EXCEPT !.phase = "top"] /\ gw.started
        /\ sess' = [sess EXCEPT !.in = Append(@, m)] /\ UNCHANGED <<view, dropped>>
    BY <1>2 DEF Forward, ClientMay
  <2>2. m.kind \in Kinds
    BY GatewayAssumption DEF Messages, Kinds
  <2>3. /\ {"phase", "backend", "tx", "copy", "awaiting", "unsynced", "pinned", "replay", "key",
            "started"} \subseteq DOMAIN g
        /\ g.started = gw.started /\ g.pinned \in BOOLEAN
        /\ gw.pinned => g.pinned
        /\ g.unsynced = (IF m.kind \in {"Parse", "Close", "Bind"} THEN TRUE
                         ELSE IF m.kind = "Sync" THEN FALSE ELSE gw.unsynced)
        /\ \/ g.awaiting = gw.awaiting /\ m.kind \in {"Bind", "CopyDone"}
           \/ \E o : /\ g.awaiting = Append(gw.awaiting, o)
                     /\ m.kind \in K => o.kind = "Ready"
    <3>1. CASE m.kind = "Query"
      <4> DEFINE o == Owed("Ready", Observed(m.text).changes, Observed(m.text).controls, 0)
      <4>1. g = [gw EXCEPT !.pinned = @ \/ Observed(m.text).pins,
                           !.awaiting = Append(@, o)]
        BY <3>1 DEF Accounted
      <4>2. o.kind = "Ready"
        BY DEF Owed
      <4> HIDE DEF o, g
      <4> QED BY <1>0, <3>1, <4>1, <4>2 DEF HandlerShape
    <3>2. CASE m.kind = "Parse"
      BY <1>0, <3>2 DEF Accounted, HandlerShape
    <3>3. CASE m.kind = "Close"
      BY <1>0, <3>3 DEF Accounted, HandlerShape
    <3>4. CASE m.kind = "Sync"
      <4> DEFINE o == Owed("Ready", <<>>, FALSE, 0)
      <4>1. g = [gw EXCEPT !.unsynced = FALSE, !.awaiting = Append(@, o)]
        BY <3>4 DEF Accounted
      <4>2. o.kind = "Ready"
        BY DEF Owed
      <4> HIDE DEF o, g
      <4> QED BY <1>0, <3>4, <4>1, <4>2 DEF HandlerShape
    <3>5. CASE m.kind = "Bind" \/ m.kind = "CopyDone"
      BY <1>0, <3>5 DEF Accounted, HandlerShape
    <3> QED BY <2>2, <3>1, <3>2, <3>3, <3>4, <3>5 DEF Kinds
  <2> HIDE DEF g
  <2>4. /\ HandlerShape(gw') /\ gw'.phase = "top" /\ gw'.started
        /\ gw'.unsynced = g.unsynced /\ gw'.awaiting = g.awaiting /\ gw'.pinned = g.pinned
    BY <1>0, <2>1, <2>3 DEF HandlerShape
  <2>5. /\ sess'.in = Append(sess.in, m) /\ sess'.out = sess.out /\ sess'.copy = sess.copy
        /\ sess'.cut = sess.cut /\ sess'.alive = sess.alive /\ Fields(sess')
    BY <1>0, <2>1 DEF SessionShape, Fields
  <2>6. /\ IsSeq(sess'.in) /\ Len(sess'.in) = Len(sess.in) + 1 /\ Len(sess.in) \in Nat
        /\ \A i \in 1..Len(sess.in) : sess'.in[i] = sess.in[i]
        /\ sess'.in[Len(sess.in) + 1] = m
    BY <1>0, <2>5, AppendShape DEF SessionShape
  <2>7. SessionShape(sess')
    <3>1. ASSUME NEW i \in 1..Len(sess'.in) PROVE sess'.in[i].kind \in Kinds
      <4>1. i \in 1..Len(sess.in) \/ i = Len(sess.in) + 1
        BY <2>6
      <4> QED BY <1>0, <2>2, <2>6, <4>1 DEF SessionShape
    <3> QED BY <1>0, <2>5, <2>6, <3>1 DEF SessionShape, Fields
  <2>8. ASSUME ~gw'.pinned PROVE InStep(gw', sess')
    <3>1. InStep(gw, sess)
      BY <1>0, <2>3, <2>4, <2>8
    <3>2. IsSeq(gw.awaiting) /\ Awaited(gw) \in Nat
      BY <3>1, CountType DEF InStep, Awaited
    <3>3. /\ IsSeq(gw'.awaiting) /\ Awaited(gw') \in Nat
          /\ Awaited(gw') >= Awaited(gw) + (IF m.kind \in K THEN 1 ELSE 0)
      <4>1. CASE g.awaiting = gw.awaiting /\ m.kind \in {"Bind", "CopyDone"}
        BY <2>4, <3>2, <4>1 DEF Awaited
      <4>2. ASSUME NEW o, g.awaiting = Append(gw.awaiting, o), m.kind \in K => o.kind = "Ready"
            PROVE  /\ IsSeq(gw'.awaiting) /\ Awaited(gw') \in Nat
                   /\ Awaited(gw') >= Awaited(gw) + (IF m.kind \in K THEN 1 ELSE 0)
        <5>1. IsSeq(gw'.awaiting)
          BY <2>4, <3>2, <4>2, AppendShape
        <5>2. Count(gw'.awaiting, R) = Count(gw.awaiting, R) + (IF o.kind \in R THEN 1 ELSE 0)
          BY <2>4, <3>2, <4>2, CountAppend
        <5>3. Awaited(gw') = Awaited(gw) + (IF o.kind \in R THEN 1 ELSE 0)
          BY <5>2 DEF Awaited
        <5>4. m.kind \in K => o.kind \in R
          BY <4>2
        <5> HIDE DEF R, K
        <5> QED BY <3>2, <5>1, <5>3, <5>4
      <4> QED BY <2>3, <4>1, <4>2
    <3>4. Count(sess'.in, K) = Count(sess.in, K) + (IF m.kind \in K THEN 1 ELSE 0)
      BY <1>0, <2>5, CountAppend DEF SessionShape
    <3>5. Count(sess.in, K) \in Nat /\ Count(sess.out, R) \in Nat
      BY <1>0, CountType DEF SessionShape
    <3>6. OnTheWay(sess') <= Awaited(gw')
      <4>1. OnTheWay(sess') = OnTheWay(sess) + (IF m.kind \in K THEN 1 ELSE 0)
            /\ OnTheWay(sess) \in Nat
        BY <2>5, <3>4, <3>5 DEF OnTheWay
      <4>2. OnTheWay(sess) <= Awaited(gw)
        BY <3>1 DEF InStep
      <4> QED BY <3>2, <3>3, <4>1, <4>2
    <3>7. ASSUME ~gw'.unsynced PROVE SyncBehind(sess') /\ ReadyBehind(sess')
      <4>0. Len(sess'.in) \in Nat
        BY <2>6
      <4>1. CASE m.kind = "Sync"
        <5>1. Len(sess'.in) \in 1..Len(sess'.in) /\ sess'.in[Len(sess'.in)].kind = "Sync"
          BY <2>6, <4>1
        <5>2. ReadyBehind(sess')
          BY <5>1 DEF ReadyBehind
        <5>3. ASSUME NEW i \in 1..Len(sess'.in), sess'.in[i].kind \in {"Parse", "Close", "Bind"}
              PROVE  Len(sess'.in) \in i + 1..Len(sess'.in)
          <6>1. i # Len(sess'.in)
            BY <5>1, <5>3
          <6> QED BY <4>0, <6>1
        <5> QED BY <5>1, <5>2, <5>3 DEF SyncBehind
      <4>2. CASE m.kind # "Sync"
        <5>1. m.kind \notin {"Parse", "Close", "Bind"} /\ ~gw.unsynced
          BY <1>0, <2>3, <2>4, <3>7, <4>2 DEF HandlerShape
        <5>2. SyncBehind(sess) /\ ReadyBehind(sess)
          BY <2>1, <3>1, <5>1 DEF InStep
        <5>3. \A j \in 1..Len(sess.in) : j \in 1..Len(sess'.in) /\ sess'.in[j] = sess.in[j]
          BY <2>6
        <5>4. ReadyBehind(sess')
          BY <2>5, <5>2, <5>3 DEF ReadyBehind
        <5>5. ASSUME NEW i \in 1..Len(sess'.in), sess'.in[i].kind \in {"Parse", "Close", "Bind"}
              PROVE  \E j \in i + 1..Len(sess'.in) : sess'.in[j].kind = "Sync"
          <6>1. i \in 1..Len(sess.in) /\ sess.in[i].kind \in {"Parse", "Close", "Bind"}
            BY <2>6, <5>1, <5>5
          <6>2. PICK j \in i + 1..Len(sess.in) : sess.in[j].kind = "Sync"
            BY <5>2, <6>1 DEF SyncBehind
          <6>3. j \in 1..Len(sess.in) /\ j \in i + 1..Len(sess'.in)
            BY <2>6, <6>1
          <6> QED BY <5>3, <6>2, <6>3
        <5> QED BY <5>4, <5>5 DEF SyncBehind
      <4> QED BY <4>1, <4>2
    <3>8. sess'.cut => sess'.out = <<>> /\ ~sess'.alive /\ (gw'.unsynced \/ Awaited(gw') > 0)
      <4> SUFFICES ASSUME sess.cut
                   PROVE  sess.out = <<>> /\ ~sess.alive /\ (gw'.unsynced \/ Awaited(gw') > 0)
        BY <2>5
      <4>1. sess.out = <<>> /\ ~sess.alive /\ (gw.unsynced \/ Awaited(gw) > 0)
        BY <3>1 DEF InStep
      <4>2. CASE Awaited(gw) > 0 \/ m.kind = "Sync"
        BY <3>2, <3>3, <4>1, <4>2
      <4>3. CASE gw.unsynced /\ m.kind # "Sync"
        BY <2>3, <2>4, <4>1, <4>3
      <4> QED BY <4>1, <4>2, <4>3
    <3> QED BY <3>3, <3>6, <3>7, <3>8 DEF InStep
  <2> QED BY <2>1, <2>4, <2>7, <2>8 DEF PipelineInv, StartupInv, HandlerShape
<1> QED BY <1>1, <1>2

\* The backend takes a message, or stops; the view changes.
LEMMA OutsideKeepsPipe ==
  ASSUME StartupRaces = FALSE, PipelineInv, Backend \/ SessionDies \/ ViewChanges
  PROVE  PipelineInv'
<1>0. StartupInv /\ HandlerShape(gw) /\ SessionShape(sess) /\ (gw.pinned \/ InStep(gw, sess))
  BY DEF PipelineInv
<1>1. CASE Backend
  <2>1. /\ sess.alive /\ sess.in # <<>> /\ UNCHANGED <<gw, view, dropped>>
        /\ sess' \in Outcomes([sess EXCEPT !.in = Tail(@)], Head(sess.in))
    BY <1>1 DEF Backend
  <2>2. SessionShape(sess') /\ (InStep(gw, sess) => InStep(gw, sess'))
    BY <1>0, <2>1, BackendKeepsStep
  <2>3. Route' = Route /\ HoldReason' = HoldReason
    BY <2>1 DEF Route, HoldReason
  <2>4. StartupInv'
    BY <1>0, <2>1, <2>3 DEF StartupInv
  <2> QED BY <1>0, <2>1, <2>2, <2>4 DEF PipelineInv
<1>2. CASE SessionDies
  <2>1. /\ gw.phase # "ended" /\ gw.started /\ UNCHANGED <<gw, view, dropped>>
    BY <1>2 DEF SessionDies, Established
  <2>2. /\ IsSeq(sess.out) /\ Len(sess.out) \in Nat
        /\ SubSeq(sess.out, 1, Len(sess.out)) = sess.out /\ SubSeq(sess.out, 1, 0) = <<>>
        /\ (Len(sess.out) = 0 => sess.out = <<>>)
    BY <1>0 DEF SessionShape, IsSeq
  <2>3. PICK n \in {0, Len(sess.out)} :
          sess' = [sess EXCEPT !.alive = FALSE, !.cut = n < Len(sess.out),
                               !.out = SubSeq(@, 1, n)]
    BY <1>2 DEF SessionDies
  <2>4. /\ sess'.in = sess.in /\ sess'.copy = sess.copy /\ ~sess'.alive /\ Fields(sess')
        /\ \/ sess'.out = sess.out /\ ~sess'.cut
           \/ sess'.out = <<>> /\ sess'.cut /\ Len(sess.out) > 0
    <3> DEFINE o == SubSeq(sess.out, 1, n)
               c == n < Len(sess.out)
    <3>1. sess' = [sess EXCEPT !.alive = FALSE, !.cut = c, !.out = o]
      BY <2>3
    <3>2. \/ o = sess.out /\ ~c
          \/ o = <<>> /\ c /\ Len(sess.out) > 0
      BY <2>2
    <3> HIDE DEF o, c
    <3>3. /\ sess'.in = sess.in /\ sess'.copy = sess.copy /\ ~sess'.alive /\ Fields(sess')
          /\ sess'.out = o /\ sess'.cut = c
      BY <1>0, <3>1 DEF SessionShape, Fields
    <3> QED BY <3>2, <3>3
  <2>5. IsSeq(<<>>) /\ Len(<<>>) = 0 /\ \A i \in 1..0 : FALSE
    BY DEF IsSeq
  <2>6. SessionShape(sess')
    BY <1>0, <2>2, <2>4, <2>5 DEF SessionShape, Fields
  <2>7. ASSUME InStep(gw, sess) PROVE InStep(gw, sess')
    <3>1. CASE sess'.out = sess.out /\ ~sess'.cut
      BY <2>4, <2>7, <3>1 DEF InStep, OnTheWay, SyncBehind, ReadyBehind
    <3>2. CASE sess'.out = <<>> /\ sess'.cut /\ Len(sess.out) > 0
      <4>1. /\ Count(sess.out, {"Ready"}) \in Nat /\ Count(sess.in, {"Query", "Sync"}) \in Nat
            /\ Count(sess'.out, {"Ready"}) = 0 /\ Awaited(gw) \in Nat
        <5>1. Count(<<>>, {"Ready"}) = 0
          BY <2>5, CountType
        <5>2. Count(sess.out, {"Ready"}) \in Nat /\ Count(sess.in, {"Query", "Sync"}) \in Nat
          BY <1>0, CountType DEF SessionShape
        <5>3. Awaited(gw) \in Nat
          BY <2>7, CountType DEF InStep, Awaited
        <5> QED BY <3>2, <5>1, <5>2, <5>3
      <4>2. OnTheWay(sess) <= Awaited(gw)
        BY <2>7 DEF InStep
      <4>3. OnTheWay(sess') <= Awaited(gw)
        BY <2>4, <4>1, <4>2 DEF OnTheWay
      <4>4. ASSUME ~gw.unsynced PROVE Awaited(gw) > 0
        <5>1. SyncBehind(sess) /\ ReadyBehind(sess)
          BY <2>1, <2>7, <4>4 DEF InStep
        <5>2. 1 \in 1..Len(sess.out)
          BY <2>2, <3>2
        <5>3. \/ \E j \in 1..Len(sess.out) : sess.out[j].kind = "Ready"
              \/ sess.copy
              \/ \E j \in 1..Len(sess.in) : sess.in[j].kind = "Sync"
          BY <5>1, <5>2 DEF ReadyBehind
        <5>4. CASE \E j \in 1..Len(sess.out) : sess.out[j].kind = "Ready"
          <6>1. \E j \in 1..Len(sess.out) : sess.out[j].kind \in {"Ready"}
            BY <5>4
          <6>2. Count(sess.out, {"Ready"}) # 0
            BY <2>2, <6>1, CountType
          <6> QED BY <4>1, <4>2, <6>2 DEF OnTheWay
        <5>5. CASE sess.copy
          BY <4>1, <4>2, <5>5 DEF OnTheWay
        <5>6. CASE \E j \in 1..Len(sess.in) : sess.in[j].kind = "Sync"
          <6>1. IsSeq(sess.in) /\ \E j \in 1..Len(sess.in) : sess.in[j].kind \in {"Query", "Sync"}
            BY <1>0, <5>6 DEF SessionShape
          <6>2. Count(sess.in, {"Query", "Sync"}) # 0
            BY <6>1, CountType
          <6> QED BY <4>1, <4>2, <6>2 DEF OnTheWay
        <5> QED BY <5>3, <5>4, <5>5, <5>6
      <4>5. SyncBehind(sess) => SyncBehind(sess')
        BY <2>4 DEF SyncBehind
      <4>6. ReadyBehind(sess')
        BY <2>5, <3>2 DEF ReadyBehind
      <4> QED BY <2>1, <2>4, <2>7, <3>2, <4>3, <4>4, <4>5, <4>6 DEF InStep
    <3> QED BY <2>4, <3>1, <3>2
  <2> QED BY <1>0, <2>1, <2>6, <2>7 DEF PipelineInv, StartupInv
<1>3. CASE ViewChanges
  <2>1. gw.phase # "ended" /\ gw.started /\ UNCHANGED <<gw, sess, dropped>>
    BY <1>3 DEF ViewChanges, Established
  <2> QED BY <1>0, <2>1 DEF PipelineInv, StartupInv
<1> QED BY <1>1, <1>2, <1>3

(***************************************************************************)
(* A migration leaves no request of the client without its answer and no   *)
(* answer on its way, for any number of messages, pipelined or not, of     *)
(* migrations, lost backends and changes of the view, when neither view    *)
(* nor backend changes during the startup (response_pending, acknowledge). *)
(***************************************************************************)
THEOREM MigrationForgetsNothing ==
  ASSUME StartupRaces = FALSE PROVE GatewaySpec => []NothingForgotten
<1>1. GatewayInit => PipelineInv
  <2> SUFFICES ASSUME GatewayInit PROVE PipelineInv
    OBVIOUS
  <2>1. /\ HandlerShape(gw) /\ gw.awaiting = <<>> /\ gw.phase = "startup" /\ ~gw.started
    BY DEF GatewayInit, NewConnection, HandlerShape
  <2>2. IsSeq(<<>>) /\ Len(<<>>) = 0
    BY DEF IsSeq
  <2>3. /\ SessionShape(sess) /\ sess.in = <<>> /\ sess.out = <<>>
        /\ sess.copy = FALSE /\ sess.cut = FALSE
    BY <2>2 DEF GatewayInit, NoSession, NewSession, SessionShape
  <2>4. InStep(gw, sess)
    BY <2>1, <2>2, <2>3, EmptyInStep
  <2>5. Route # NoServer /\ ~HoldReason /\ ~view.fenced
    BY GatewayAssumption DEF GatewayInit, Views, Route, HoldReason
  <2>6. dropped = FALSE
    BY DEF GatewayInit
  <2> QED BY <2>1, <2>3, <2>4, <2>5, <2>6 DEF PipelineInv, StartupInv
<1>2. PipelineInv /\ [GatewayNext]_gatewayVars => PipelineInv'
  <2> SUFFICES ASSUME PipelineInv, [GatewayNext]_gatewayVars PROVE PipelineInv'
    OBVIOUS
  <2>1. CASE GatewayNext
    BY <2>1, HandlerKeepsPipe, BackendKeepsPipe, DeliverKeepsPipe, ForwardKeepsPipe,
       OutsideKeepsPipe DEF GatewayNext
  <2>2. CASE UNCHANGED gatewayVars
    BY <2>2 DEF gatewayVars, PipelineInv, HandlerShape, SessionShape, StartupInv, InStep,
                Awaited, OnTheWay, SyncBehind, ReadyBehind, Greets, Route, HoldReason
  <2> QED BY <2>1, <2>2
<1>3. PipelineInv => NothingForgotten
  BY DEF PipelineInv, NothingForgotten
<1> QED BY <1>1, <1>2, <1>3, PTL DEF GatewaySpec

=============================================================================
