------------------------------- MODULE Gateway -------------------------------
(***************************************************************************)
(* One client session through a node's gateway: ConnectionHandler, the     *)
(* replay state it keeps to rebuild the session on another backend, the    *)
(* route it follows, and cancel requests.  The PostgreSQL backends and the *)
(* watch channels of the governor are the environment.                     *)
(*                                                                         *)
(* SQL is abstracted to kinds of statement.  A session has one channel it  *)
(* may listen on and one named prepared statement with two possible texts; *)
(* everything else a statement leaves behind is "extra".  A frontend       *)
(* message is forwarded as a batch of its own.                             *)
(***************************************************************************)
EXTENDS Integers, Sequences, SequencesExt

CONSTANTS
  Servers,       \* addresses of PostgreSQL servers a session may be routed to
  Relay,         \* the other cluster's server, after a cutover
  NoServer,      \* no route, no backend
  Texts,         \* SQL texts of the client: sequences of statements
  Shapes,        \* frontend messages of the extended protocol that are sent
  MaxMessages,   \* bound: messages the client sends
  MaxChanges,    \* bound: changes of the governor's view
  MaxSessions,   \* bound: backend sessions opened
  StartupRaces   \* whether the view and the backend may change during startup

ASSUME GatewayAssumption ==
  /\ NoServer \notin Servers \cup {Relay}
  /\ Shapes \subseteq {"Parse", "Close", "Bind", "Sync", "CopyDone"}
  /\ MaxMessages \in Nat /\ MaxChanges \in Nat /\ MaxSessions \in Nat
  /\ StartupRaces \in BOOLEAN

Statements == {"select", "listen", "unlisten", "deallocate", "discard", "set",
               "setlocal", "createtemp", "setconfig", "do", "begin", "commit",
               "rollback", "explaintemp", "newer", "copy"}
Parsed == 1..2     \* texts of the named statement; 0: not prepared

VARIABLES
  gw,       \* the connection handler and its ConnectionState
  sess,     \* the backend session it is connected to
  view,     \* leader_rx and fence_rx
  sent,     \* messages the client has sent
  changes,  \* changes of the view so far
  sessions, \* backend sessions opened so far
  cancel,   \* registry: the session the client's key is routed to, 0 none
  truth,    \* history: the session state the client has established
  dropped   \* history: a migration left work or answers behind

gatewayVars == <<gw, sess, view, sent, changes, sessions, cancel, truth, dropped>>

-----------------------------------------------------------------------------
(***************************************************************************)
(* SQL analysis.                                                           *)
(***************************************************************************)
Has(text, kinds) == \E i \in 1..Len(text) : text[i] \in kinds

\* leading_statement_keyword_matches: the first statement leads with a gated
\* keyword, or a later one of several does.
SessionStateCommand(text) ==
  Has(text, {"set", "setlocal", "deallocate", "discard", "createtemp", "do", "newer"})

\* query_keyword_flags
KeywordFlags(text) ==
  [subscription |-> Has(text, {"listen", "unlisten"}),
   function_state |-> Has(text, {"setconfig"}),
   temp_object |-> Has(text, {"createtemp", "explaintemp"})]

\* classify_statement
ClassifyStatement(s) ==
  CASE s = "listen" -> <<"Listen">>
    [] s = "unlisten" -> <<"Unlisten">>
    [] s = "deallocate" -> <<"Deallocate">>
    [] s = "discard" -> <<"DiscardAll">>
    [] s \in {"set", "createtemp", "do"} -> <<"NonMigratable">>
    [] s = "explaintemp" -> <<"Unmodeled">>
    [] OTHER -> <<>>

\* analyze_query: an unparsable text fails closed, an unmodelled statement only
\* when the text names a temporary object.
AnalyzeQuery(text) ==
  LET found == FlattenSeq([i \in 1..Len(text) |-> ClassifyStatement(text[i])])
      kept == SelectSeq(found, LAMBDA c : c # "Unmodeled" \/ KeywordFlags(text).temp_object)
  IN [changes |-> kept \o (IF Has(text, {"newer"}) THEN <<"NonMigratable">> ELSE <<>>),
      controls |-> Has(text, {"begin", "commit", "rollback"})]

Analyzed(text) ==
  SessionStateCommand(text) \/ KeywordFlags(text).subscription \/ KeywordFlags(text).temp_object

IsReplayed(c) == c \in {"Listen", "Unlisten", "Deallocate", "DiscardAll"}

\* What the handler makes of a text before forwarding it: whether it pins the
\* session to its backend, and what its answer will commit.
Observed(text) ==
  LET a == AnalyzeQuery(text) IN
  [pins |-> \/ KeywordFlags(text).function_state
            \/ Analyzed(text) /\ \E i \in 1..Len(a.changes) : ~IsReplayed(a.changes[i]),
   changes |-> IF Analyzed(text) THEN SelectSeq(a.changes, IsReplayed) ELSE <<>>,
   controls |-> Analyzed(text) /\ a.controls]

-----------------------------------------------------------------------------
(***************************************************************************)
(* The backend session (PostgreSQL).                                       *)
(***************************************************************************)
\* What statements change: the transaction, what is committed, and what its block
\* would commit.
Fresh == [tx |-> "idle", listen |-> FALSE, prepared |-> 0, extra |-> FALSE,
          blockListen |-> FALSE, blockExtra |-> FALSE]

NewSession(id, server) ==
  [id |-> id, server |-> server, alive |-> TRUE, sql |-> Fresh, skip |-> FALSE,
   copy |-> FALSE, in |-> <<>>, out |-> <<>>, cut |-> FALSE]

NoSession == [NewSession(0, NoServer) EXCEPT !.alive = FALSE]

Committed(q) == [q EXCEPT !.tx = "idle", !.listen = q.blockListen, !.extra = q.blockExtra]
RolledBack(q) == [q EXCEPT !.tx = "idle", !.blockListen = q.listen, !.blockExtra = q.extra]
Failed(q) == IF q.tx = "idle" THEN RolledBack(q) ELSE [q EXCEPT !.tx = "failed"]

RunStatement(q, stmt) ==
  CASE stmt = "listen" -> [q EXCEPT !.blockListen = TRUE]
    [] stmt = "unlisten" -> [q EXCEPT !.blockListen = FALSE]
    [] stmt \in {"set", "createtemp", "setconfig", "do", "explaintemp", "newer"} ->
         [q EXCEPT !.blockExtra = TRUE]
    [] stmt = "deallocate" -> [q EXCEPT !.prepared = 0]
    [] stmt = "discard" -> [q EXCEPT !.prepared = 0, !.blockListen = FALSE, !.blockExtra = FALSE]
    [] stmt = "begin" -> [q EXCEPT !.tx = "block"]
    [] stmt = "commit" -> Committed(q)
    [] stmt = "rollback" -> RolledBack(q)
    [] OTHER -> q

\* The first n statements of a text took effect; with fewer than all of them the
\* next one failed.
Ran(q, text, n) ==
  LET r == FoldLeft(RunStatement, q, SubSeq(text, 1, n)) IN
  IF n = Len(text) THEN (IF r.tx = "idle" THEN Committed(r) ELSE r) ELSE Failed(r)

MustFail(q, text, n) ==
  \/ q.tx = "failed" /\ n > 0 /\ text[1] \notin {"commit", "rollback"}
  \/ Has(SubSeq(text, 1, n), {"discard"}) /\ (q.tx # "idle" \/ Len(text) > 1)

Ready(q) == <<[kind |-> "Ready", tx |-> q.tx]>>
Kind(k) == <<[kind |-> k]>>

\* The session answers, with q for its SQL state; a COPY begins or ends; after an
\* error in the extended protocol it skips to the next Sync.
Answer(s, q, a) == [s EXCEPT !.sql = q, !.out = @ \o a]
InCopy(s, on) == [s EXCEPT !.copy = on]
Skipping(s, on) == [s EXCEPT !.skip = on]
Refuse(s) == Skipping(Answer(s, Failed(s.sql), Kind("Error")), TRUE)

BeginsCopy(s, m) == m.kind = "Query" /\ m.text = <<"copy">> /\ s.sql.tx # "failed"

\* What the backend reads past: all but a Sync while it skips, a Sync within a COPY,
\* the end of a COPY outside one.
Ignores(s, m) ==
  \/ s.skip /\ m.kind # "Sync"
  \/ s.copy /\ m.kind = "Sync"
  \/ ~s.copy /\ m.kind = "CopyDone"

\* Within a COPY any other message than its end costs the session.
Breaks(s) == [Answer(s, s.sql, Kind("Error")) EXCEPT !.alive = FALSE]

\* What the backend may make of its next message.
Outcomes(s, m) ==
  IF Ignores(s, m) THEN {s}
  ELSE IF s.copy /\ m.kind # "CopyDone" THEN {Breaks(s)}
  ELSE CASE BeginsCopy(s, m) ->
              {InCopy(Answer(s, s.sql, Kind("Copy")), TRUE),
               Answer(s, Failed(s.sql), Kind("Error") \o Ready(Failed(s.sql)))}
         [] m.kind = "Query" /\ ~BeginsCopy(s, m) ->
              {LET q == Ran(s.sql, m.text, n) IN
               Answer(s, q, (IF n < Len(m.text) THEN Kind("Error") ELSE <<>>) \o Ready(q))
                 : n \in {k \in 0..Len(m.text) : ~MustFail(s.sql, m.text, k)}}
         [] m.kind = "CopyDone" ->
              {InCopy(Answer(s, s.sql, Ready(s.sql)), FALSE)}
         [] m.kind = "Sync" ->
              {Skipping(Answer(s, s.sql, Ready(s.sql)), FALSE)}
         [] m.kind = "Parse" ->
              {Refuse(s)}
              \cup (IF s.sql.prepared # 0 \/ s.sql.tx = "failed" THEN {}
                    ELSE {Answer(s, [s.sql EXCEPT !.prepared = m.version], Kind("ParseComplete"))})
         [] m.kind = "Close" ->
              {Answer(s, [s.sql EXCEPT !.prepared = 0], Kind("CloseComplete"))}
         [] OTHER ->
              {s, Refuse(s)}

State(s) == [listen |-> s.sql.listen, prepared |-> s.sql.prepared, extra |-> s.sql.extra]

Backend ==
  /\ sess.alive /\ sess.in # <<>>
  /\ \E s \in Outcomes([sess EXCEPT !.in = Tail(@)], Head(sess.in)) :
       sess' = s /\ truth' = State(s)
  /\ UNCHANGED <<gw, view, sent, changes, sessions, cancel, dropped>>

Established == gw.phase # "ended" /\ (gw.started \/ StartupRaces)

\* The server stops, or fences the session; answers on their way may be lost.
SessionDies ==
  /\ sess.alive /\ Established
  /\ \E n \in {0, Len(sess.out)} :
       sess' = [sess EXCEPT !.alive = FALSE, !.cut = n < Len(sess.out),
                            !.out = SubSeq(@, 1, n)]
  /\ UNCHANGED <<gw, view, sent, changes, sessions, cancel, truth, dropped>>

-----------------------------------------------------------------------------
(***************************************************************************)
(* Routing.                                                                *)
(***************************************************************************)
Views == [leader : Servers, open : BOOLEAN, fenced : BOOLEAN, frozen : BOOLEAN,
          authority : {"local", "transit", "remote"}]

\* route: the relay once another cluster holds authority, nothing in transit or
\* before the leader's primary is open.
Route == IF view.authority = "remote" THEN Relay
         ELSE IF view.authority = "transit" \/ ~view.open THEN NoServer
         ELSE view.leader

ViewChanges ==
  /\ changes < MaxChanges /\ Established
  /\ \E v \in Views :
       /\ \E f \in DOMAIN v : \A g \in DOMAIN v : g # f <=> v[g] = view[g]
       /\ view' = v
  /\ changes' = changes + 1
  /\ UNCHANGED <<gw, sess, sent, sessions, cancel, truth, dropped>>

HoldReason == view.frozen \/ view.authority = "transit"

-----------------------------------------------------------------------------
(***************************************************************************)
(* ConnectionState and its replay state (session_replay).                  *)
(***************************************************************************)

NewConnection ==
  [phase |-> "startup", backend |-> NoServer, tx |-> "idle", copy |-> FALSE,
   awaiting |-> <<>>, unsynced |-> FALSE, pinned |-> FALSE,
   replay |-> [listen |-> FALSE, prepared |-> 0], key |-> FALSE, started |-> FALSE]

\* Faulty variant: an open pipeline without Sync is nothing owed.
ResponsePendingAwaiting == gw.awaiting # <<>>

ResponsePending == gw.awaiting # <<>> \/ gw.unsynced

IsMigratable ==
  gw.tx = "idle" /\ ~gw.copy /\ ~ResponsePending /\ ~gw.pinned

Owed(kind, changed, controls, version) ==
  [kind |-> kind, changes |-> changed, controls |-> controls, version |-> version]

Pinned(g) == [g EXCEPT !.pinned = TRUE]
OutOfStep(g) == Pinned([g EXCEPT !.awaiting = <<>>])

ApplyChange(r, c) ==
  CASE c = "Listen" -> [r EXCEPT !.listen = TRUE]
    [] c = "Unlisten" -> [r EXCEPT !.listen = FALSE]
    [] c = "Deallocate" -> [r EXCEPT !.prepared = 0]
    [] OTHER -> [r EXCEPT !.prepared = 0, !.listen = FALSE]

\* apply_changes
ApplyChanges(g, changed) == [g EXCEPT !.replay = FoldLeft(ApplyChange, @, changed)]

\* Faulty variant: a query that ends idle commits its changes, whatever its own
\* text does with transactions.
SettledIdle(g, owed, tx) ==
  IF owed.changes = <<>> THEN g
  ELSE IF tx = "idle" THEN ApplyChanges(g, owed.changes)
  ELSE Pinned(g)

\* Ack::Ready of a query: its changes commit only when they must have happened.
Settled(g, owed, tx) ==
  IF owed.changes = <<>> THEN g
  ELSE IF tx = "idle" /\ ~owed.controls THEN ApplyChanges(g, owed.changes)
  ELSE Pinned(g)

IsExtended(o) == o.kind \in {"Parse", "Close"}

\* Ack::Error: drops what the backend skips, and pins a session whose failed
\* query had changes.
Errored(g) ==
  LET n == CHOOSE k \in 0..Len(g.awaiting) :
             /\ \A i \in 1..k : IsExtended(g.awaiting[i])
             /\ k < Len(g.awaiting) => ~IsExtended(g.awaiting[k + 1])
      rest == SubSeq(g.awaiting, n + 1, Len(g.awaiting))
      h == [g EXCEPT !.awaiting = rest]
  IN IF rest = <<>> \/ rest[1].changes = <<>> THEN h
     ELSE Pinned([h EXCEPT !.awaiting[1].changes = <<>>])

\* acknowledge
Acknowledge(g, a) ==
  LET front == IF g.awaiting = <<>> THEN Owed("none", <<>>, FALSE, 0) ELSE Head(g.awaiting)
      popped == [g EXCEPT !.awaiting = IF @ = <<>> THEN @ ELSE Tail(@)]
  IN CASE a.kind = "ParseComplete" ->
            IF front.kind # "Parse" THEN OutOfStep(g)
            ELSE IF front.version = 0 THEN popped
            ELSE [popped EXCEPT !.replay.prepared = front.version]
       [] a.kind = "CloseComplete" ->
            IF front.kind # "Close" THEN OutOfStep(g) ELSE [popped EXCEPT !.replay.prepared = 0]
       [] a.kind = "Error" -> Errored(g)
       [] a.kind = "Ready" ->
            IF front.kind = "none" THEN g
            ELSE IF front.kind # "Ready" THEN OutOfStep(g)
            ELSE Settled(popped, front, a.tx)
       [] OTHER -> g

-----------------------------------------------------------------------------
(***************************************************************************)
(* The connection handler.  Its loop runs the holds and follow_route       *)
(* ("top") before it waits for input ("select").                           *)
(***************************************************************************)
Goto(phase) == gw' = [gw EXCEPT !.phase = phase]

\* register_backend_key: the client's key leads to session id; with 0 it is
\* withdrawn (unregister_backend_key).
RegisterKey(id) == cancel' = id

\* The end of a session: send_fatal, once, and the cancel route withdrawn.
Ends == /\ gw' = [NewConnection EXCEPT !.phase = "ended"]
        /\ sess' = NoSession
        /\ RegisterKey(0)
        /\ UNCHANGED <<view, changes, sessions, truth, dropped>>
End == Ends /\ UNCHANGED sent

StaysIn(phase) == Goto(phase)
                  /\ UNCHANGED <<sess, view, sent, changes, sessions, cancel, truth, dropped>>

\* read_startup_or_cancel: a startup packet, or one that ends the connection
\* (malformed, or a cancel request, which is forwarded and answered by closing).
ReadStartup == gw.phase = "startup" /\ (StaysIn("route") \/ End)

\* await_route
AwaitRoute == gw.phase = "route" /\ Route # NoServer /\ StaysIn("connect")

Opened(id, server) == sess' = NewSession(id, server) /\ sessions' = id

\* connect_to_backend, to the route that await_route read, and the client's startup
\* packet; the greeting is on its way.
ConnectFirst ==
  /\ gw.phase = "connect" /\ sessions < MaxSessions
  /\ \E server \in Servers \cup {Relay} :
       /\ Route = server \/ StartupRaces
       /\ sess' = [NewSession(sessions + 1, server) EXCEPT !.out = Kind("Key") \o Kind("Greeting")]
       /\ gw' = [gw EXCEPT !.phase = "top", !.backend = server]
  /\ sessions' = sessions + 1
  /\ UNCHANGED <<view, sent, changes, cancel, truth, dropped>>

NoRouteInTime == gw.phase \in {"route", "connect", "awaitRoute"} /\ End

\* wait_for_upgrade_hold_if_needed
EnterHold ==
  /\ gw.phase = "top" /\ HoldReason
  /\ IF gw.tx # "idle" THEN End ELSE StaysIn("held")

LeaveHold ==
  /\ gw.phase = "held" /\ ~HoldReason
  /\ IF view.authority = "local" THEN StaysIn("fence") ELSE End

HoldExpires == gw.phase \in {"held", "fenced", "frozen"} /\ End

\* wait_for_fence_if_needed
EnterFence ==
  /\ \/ gw.phase = "fence"
     \/ gw.phase = "top" /\ ~HoldReason
  /\ IF ~view.fenced THEN StaysIn("follow")
     ELSE IF gw.tx # "idle" THEN End ELSE StaysIn("fenced")

LeaveFence == gw.phase = "fenced" /\ ~view.fenced /\ StaysIn("follow")

\* Requests without their answer, answers on their way; the end of a COPY that is
\* already over asks for nothing.
LeftBehind ==
  \/ \E i \in 1..Len(sess.in) : sess.in[i].kind # "CopyDone" \/ sess.copy
  \/ sess.out # <<>> \/ sess.cut

\* Faulty variant: the old cancel route stays until the new backend's key.
LeaveBackendRouted ==
  /\ dropped' = (dropped \/ LeftBehind)
  /\ sess' = [sess EXCEPT !.alive = FALSE, !.in = <<>>, !.out = <<>>, !.cut = FALSE]
  /\ Goto("moving")
  /\ UNCHANGED <<view, sent, changes, sessions, truth, cancel>>

\* The part of handle_leader_change before a connection is opened: the old
\* session is left and its cancel route withdrawn.
LeaveBackend ==
  /\ RegisterKey(0)
  /\ dropped' = (dropped \/ LeftBehind)
  /\ sess' = [sess EXCEPT !.alive = FALSE, !.in = <<>>, !.out = <<>>, !.cut = FALSE]
  /\ Goto("moving")
  /\ UNCHANGED <<view, sent, changes, sessions, truth>>

Move == IF IsMigratable THEN LeaveBackend ELSE End

\* follow_route
FollowRoute ==
  /\ gw.phase = "follow"
  /\ IF Route = gw.backend \/ (Route = NoServer /\ (gw.tx # "idle" \/ ResponsePending))
     THEN StaysIn("select")
     ELSE IF Route = NoServer THEN StaysIn("awaitRoute") ELSE Move

RouteArrives ==
  /\ gw.phase = "awaitRoute" /\ Route # NoServer
  /\ IF Route = gw.backend THEN StaysIn("select") ELSE Move

\* recover_lost_backend: an attempt needs a route, and holds under a freeze.
RetryLost ==
  /\ gw.phase = "lost"
  /\ IF view.frozen THEN StaysIn("frozen")
     ELSE Route # NoServer /\ Move

Thaw == gw.phase = "frozen" /\ ~view.frozen /\ StaysIn("lost")

RecoveryExpires == gw.phase = "lost" /\ End

Reconnect ==
  /\ gw.phase = "moving" /\ Route # NoServer /\ sessions < MaxSessions
  /\ Opened(sessions + 1, Route)
  /\ gw' = [gw EXCEPT !.phase = "greet", !.backend = Route]
  /\ UNCHANGED <<view, sent, changes, cancel, truth, dropped>>

\* A connection refused or timed out, a session refused as not ready or lost.
MoveFails == gw.phase \in {"moving", "greet", "replayListen", "replayPrepared"} /\ StaysIn("lost")

\* A refusal that is not transient, or an authentication challenge.
MoveRefused == gw.phase \in {"greet", "replayListen", "replayPrepared"} /\ End

\* wait_for_ready: the greeting is read and not forwarded; its key re-points the
\* cancel route when the client has a key.
Greeted ==
  /\ gw.phase = "greet" /\ sess.alive
  /\ RegisterKey(IF gw.key THEN sess.id ELSE 0)
  /\ Goto("replayListen")
  /\ UNCHANGED <<sess, view, sent, changes, sessions, truth, dropped>>

ReplayListen ==
  /\ gw.phase = "replayListen" /\ sess.alive
  /\ sess' = [sess EXCEPT !.sql.listen = gw.replay.listen, !.sql.blockListen = gw.replay.listen]
  /\ Goto("replayPrepared")
  /\ UNCHANGED <<view, sent, changes, sessions, cancel, truth, dropped>>

ReplayPrepared ==
  /\ gw.phase = "replayPrepared" /\ sess.alive
  /\ sess' = [sess EXCEPT !.sql.prepared = gw.replay.prepared]
  /\ Goto("select")
  /\ UNCHANGED <<view, sent, changes, sessions, cancel, truth, dropped>>

\* forward_cancel_request: the session a cancel request with this client's key
\* goes to; 0 when the key is unknown and the request is dropped.
CancelTarget == cancel

\* leader_rx or fence_rx changed.
Wake == gw.phase = "select" /\ (Route # gw.backend \/ HoldReason \/ view.fenced) /\ StaysIn("top")

-----------------------------------------------------------------------------
(***************************************************************************)
(* Data: process_client_data and process_backend_data.                     *)
(***************************************************************************)
Messages ==
  {[kind |-> "Query", text |-> t] : t \in Texts}
  \cup {m \in [kind : {"Parse"}, version : Parsed, text : {<<"select">>, <<"listen">>}] :
          "Parse" \in Shapes /\ (m.text = <<"listen">> => m.version = 1)}
  \cup {[kind |-> k] : k \in Shapes \ {"Parse"}}

\* handle_query_message, capture_parse_for_replay, account_forwarded_message
Accounted(g, m) ==
  CASE m.kind = "Query" ->
         LET o == Observed(m.text) IN
         [g EXCEPT !.pinned = @ \/ o.pins,
                   !.awaiting = Append(@, Owed("Ready", o.changes, o.controls, 0))]
    [] m.kind = "Parse" ->
         LET pins == Observed(m.text).pins \/ Observed(m.text).changes # <<>>
             h == [g EXCEPT !.pinned = @ \/ pins, !.unsynced = TRUE]
         IN [h EXCEPT !.awaiting =
               Append(@, Owed("Parse", <<>>, FALSE, IF h.pinned THEN 0 ELSE m.version))]
    [] m.kind = "Close" ->
         [g EXCEPT !.unsynced = TRUE, !.awaiting = Append(@, Owed("Close", <<>>, FALSE, 0))]
    [] m.kind = "Sync" ->
         [g EXCEPT !.unsynced = FALSE, !.awaiting = Append(@, Owed("Ready", <<>>, FALSE, 0))]
    [] m.kind = "Bind" -> [g EXCEPT !.unsynced = TRUE]
    [] OTHER -> g

\* The client sends a message when it may: after its startup, and only the end
\* of a COPY during one.
ClientMay(m) ==
  gw.started /\ sent < MaxMessages /\ (gw.copy <=> m.kind = "CopyDone")

\* A message is forwarded to the backend that is the route, or the session is
\* severed (sever_stale_backend, an expired lease).
Forward(m) ==
  /\ gw.phase = "select" /\ ClientMay(m)
  /\ sent' = sent + 1
  /\ \/ Route # gw.backend /\ Ends
     \/ /\ Route = gw.backend
        /\ gw' = [Accounted(gw, m) EXCEPT !.phase = "top"]
        /\ sess' = [sess EXCEPT !.in = Append(@, m)]
        /\ UNCHANGED <<view, changes, sessions, cancel, truth, dropped>>

\* The lease runs out before or while a batch is written, or the write stalls.
ForwardFails ==
  /\ gw.phase = "select" /\ gw.started /\ sent < MaxMessages
  /\ sent' = sent + 1 /\ Ends

\* update_tx_status_on and update_proxy_mode_on: what a message says of the
\* transaction and of a COPY.
StatusSeen(g, a) ==
  CASE a.kind = "Copy" -> [g EXCEPT !.copy = TRUE]
    [] a.kind = "Ready" -> [g EXCEPT !.copy = FALSE, !.tx = a.tx]
    [] OTHER -> g

\* process_backend_data: one message to the client and into the state.
Deliver ==
  /\ gw.phase = "select" /\ sess.out # <<>>
  /\ LET a == Head(sess.out)
         g == StatusSeen(Acknowledge(gw, a), a)
     IN /\ gw' = [g EXCEPT !.phase = "top", !.key = @ \/ a.kind = "Key",
                            !.started = @ \/ a.kind = "Greeting"]
        /\ RegisterKey(IF a.kind = "Key" THEN sess.id ELSE cancel)
  /\ sess' = [sess EXCEPT !.out = Tail(@)]
  /\ UNCHANGED <<view, sent, changes, sessions, truth, dropped>>

\* handle_backend_disconnect
BackendGone ==
  /\ gw.phase = "select" /\ ~sess.alive /\ sess.out = <<>>
  /\ IF IsMigratable THEN StaysIn("lost") ELSE End

\* The client closes, the session idles out, a buffer overflows.
ClientGone == gw.phase = "select" /\ End

-----------------------------------------------------------------------------
GatewayInit ==
  /\ gw = NewConnection /\ sess = NoSession
  /\ view \in {v \in Views : v.open /\ ~v.fenced /\ ~v.frozen /\ v.authority # "transit"}
  /\ sent = 0 /\ changes = 0 /\ sessions = 0 /\ cancel = 0
  /\ truth = [listen |-> FALSE, prepared |-> 0, extra |-> FALSE]
  /\ dropped = FALSE

GatewayNext ==
  \/ ReadStartup \/ AwaitRoute \/ ConnectFirst \/ NoRouteInTime
  \/ EnterHold \/ LeaveHold \/ HoldExpires \/ EnterFence \/ LeaveFence
  \/ FollowRoute \/ RouteArrives \/ RetryLost \/ Thaw \/ RecoveryExpires
  \/ Reconnect \/ MoveFails \/ MoveRefused \/ Greeted \/ ReplayListen \/ ReplayPrepared
  \/ Wake \/ ForwardFails \/ Deliver \/ BackendGone \/ ClientGone
  \/ \E m \in Messages : Forward(m)
  \/ Backend \/ SessionDies \/ ViewChanges

GatewaySpec == GatewayInit /\ [][GatewayNext]_gatewayVars

-----------------------------------------------------------------------------
(***************************************************************************)
(* A session the gateway goes on serving is the session the client built:  *)
(* on whatever backend it runs now, its channel, its prepared statement    *)
(* and everything else its statements left behind are there, through       *)
(* transactions that rolled back, refused statements and half-done         *)
(* migrations (session_replay, is_migratable).                             *)
(***************************************************************************)
SessionKept == gw.phase = "select" /\ sess.alive => State(sess) = truth

(***************************************************************************)
(* A migration leaves nothing behind: no request of the client without its *)
(* answer, no answer on its way to it (response_pending).                  *)
(***************************************************************************)
NothingForgotten == ~dropped

(***************************************************************************)
(* The client's cancel key leads to the backend session that runs its      *)
(* session now, or nowhere, also half-way through a migration (CancelRoute *)
(* of the connection registry).                                            *)
(***************************************************************************)
CancelReachesOwnSession == CancelTarget # 0 => CancelTarget = sess.id /\ gw.phase # "moving"

=============================================================================
