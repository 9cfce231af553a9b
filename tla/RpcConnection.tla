---------------------------- MODULE RpcConnection ----------------------------
(***************************************************************************)
(* The Raft RPC transport between one node and one peer: the client's      *)
(* cached connection, its staging buffers, and the peer's connection       *)
(* tasks.  openraft drops the future of a call it no longer wants, so an   *)
(* exchange may end between any two bytes while its connection lives on.   *)
(*                                                                         *)
(* A frame travels as two pieces, "head" and "tail", which stand for any   *)
(* split of its bytes.  A frame carries its correlation id, its type and,  *)
(* as history, the call it was made for.                                   *)
(***************************************************************************)
EXTENDS Integers, Sequences

CONSTANTS
  Requests,  \* the types of request that are made
  MaxCalls,  \* bound: calls made
  MaxConns,  \* bound: connections opened
  MaxStale   \* MAX_STALE_FRAMES_PER_EXCHANGE

ASSUME RpcAssumption ==
  /\ Requests \subseteq {"AppendEntries", "Vote", "InstallSnapshot"}
  /\ MaxCalls \in Nat \ {0} /\ MaxConns \in Nat \ {0} /\ MaxStale \in Nat

VARIABLES
  call,    \* the call in progress, or NoCall
  result,  \* how each call ended
  conn,    \* the cached connection, 0 when there is none
  opened,  \* connections opened so far
  links,   \* both directions and both ends of each connection
  served   \* how often the peer has handled each call

rpcVars == <<call, result, conn, opened, links, served>>

Calls == 1..MaxCalls
Conns == 1..MaxConns
Response(t) == t \o "Response"
Responses == {Response(t) : t \in Requests} \cup {"VersionNotAccepted"}

Frames == [corr : 0..(2 * MaxCalls), type : Requests \cup Responses, for : Calls]
Pieces == [frame : Frames, part : {"head", "tail"}]
\* accepts: whether the peer's release accepts this node's frame version.
Links == [next : 0..(2 * MaxCalls), wbuf : Seq(Pieces), up : Seq(Pieces),
          sbuf : Seq(Pieces), down : Seq(Pieces), rbuf : Seq(Pieces),
          serving : BOOLEAN, accepts : BOOLEAN]

NoCall == [id |-> 0]
Result(kind, for) == [kind |-> kind, for |-> for]
NewLink(accepts) ==
  [next |-> 0, wbuf |-> <<>>, up |-> <<>>, sbuf |-> <<>>, down |-> <<>>,
   rbuf |-> <<>>, serving |-> TRUE, accepts |-> accepts]

Link == links[conn]
SetLink(l) == links' = [links EXCEPT ![conn] = l]

-----------------------------------------------------------------------------
(***************************************************************************)
(* Framing.                                                                *)
(***************************************************************************)

\* append_frame_serialize: a frame is put after what the buffer holds.
Framed(buf, f) ==
  buf \o <<[frame |-> f, part |-> "head"], [frame |-> f, part |-> "tail"]>>

\* take_frame: whole frames only; what is left stays in the buffer.
HasFrame(buf) == Len(buf) >= 2
TakeFrame(buf) == Head(buf).frame
AfterFrame(buf) == SubSeq(buf, 3, Len(buf))

-----------------------------------------------------------------------------
(***************************************************************************)
(* The client: RaftRpcClient::request, with its one retry on a fresh       *)
(* connection, and FramedIo::exchange_frames.                              *)
(***************************************************************************)
Ended(kind, for) == /\ result' = [result EXCEPT ![call.id] = Result(kind, for)]
                    /\ call' = NoCall

\* exchange: the next correlation id, and the request staged behind the rest of
\* a cancelled one.
Staged(l, f) == [l EXCEPT !.wbuf = Framed(@, f), !.next = @ + 1]

Exchange(c, k, fresh) ==
  /\ SetLink(Staged(Link, [corr |-> Link.next, type |-> k, for |-> c]))
  /\ call' = [id |-> c, type |-> k, corr |-> Link.next, phase |-> "write",
              fresh |-> fresh, skipped |-> 0]

\* append_entries, vote, install_snapshot: one call at a time on a connection.
Request(c, k) ==
  /\ call = NoCall /\ result[c].kind = "new"
  /\ \A d \in Calls : d < c => result[d].kind # "new"
  /\ IF conn = 0
     THEN call' = [id |-> c, type |-> k, phase |-> "connect"] /\ UNCHANGED links
     ELSE Exchange(c, k, FALSE)
  /\ UNCHANGED <<result, conn, opened, served>>

\* connect: TCP and TLS, and the exchange that follows it at once.
Connect ==
  /\ call # NoCall /\ call.phase = "connect" /\ opened < MaxConns
  /\ opened' = opened + 1 /\ conn' = opened + 1
  /\ \E accepts \in BOOLEAN :
       LET l == NewLink(accepts) IN
       links' = [links EXCEPT ![opened + 1] =
                   Staged(l, [corr |-> l.next, type |-> call.type, for |-> call.id])]
  /\ call' = [id |-> call.id, type |-> call.type, corr |-> 0, phase |-> "write",
              fresh |-> TRUE, skipped |-> 0]
  /\ UNCHANGED <<result, served>>

ConnectFails ==
  /\ call # NoCall /\ call.phase = "connect"
  /\ Ended("error", 0)
  /\ UNCHANGED <<conn, opened, links, served>>

\* An exchange that fails drops its connection; on a cached one the call goes
\* on with a fresh one.
ExchangeFails(r) ==
  /\ conn' = 0
  /\ IF call.fresh THEN Ended(r, 0)
     ELSE call' = [id |-> call.id, type |-> call.type, phase |-> "connect"]
          /\ UNCHANGED result
  /\ UNCHANGED <<opened, served>>

Exchanging(phase) == call # NoCall /\ call.phase = phase

WriteSome ==
  /\ Exchanging("write") /\ Link.wbuf # <<>>
  /\ SetLink([Link EXCEPT !.up = Append(@, Head(Link.wbuf)), !.wbuf = Tail(@)])
  /\ UNCHANGED <<call, result, conn, opened, served>>

Flushed ==
  /\ Exchanging("write") /\ Link.wbuf = <<>>
  /\ call' = [call EXCEPT !.phase = "read"]
  /\ UNCHANGED <<result, conn, opened, links, served>>

ReadSome ==
  /\ Exchanging("read") /\ ~HasFrame(Link.rbuf)
  /\ IF Link.down # <<>>
     THEN /\ SetLink([Link EXCEPT !.rbuf = Append(@, Head(Link.down)), !.down = Tail(@)])
          /\ UNCHANGED <<call, result, conn, opened, served>>
     ELSE ~Link.serving /\ ExchangeFails("error") /\ UNCHANGED links

\* Faulty variant: whatever comes back is the answer.
AnyIsStraggler(f) == FALSE

\* The answer to a call that was cancelled before.
Straggler(f) == f.corr < call.corr

\* One response frame, in the order of the checks.
TakeResponse ==
  /\ Exchanging("read") /\ HasFrame(Link.rbuf)
  /\ LET f == TakeFrame(Link.rbuf) IN
     /\ SetLink([Link EXCEPT !.rbuf = AfterFrame(@)])
     /\ \/ /\ Straggler(f)
           /\ IF call.skipped >= MaxStale THEN ExchangeFails("error")
              ELSE /\ call' = [call EXCEPT !.skipped = @ + 1]
                   /\ UNCHANGED <<result, conn, opened, served>>
        \/ /\ ~Straggler(f)
           /\ IF f.type = "VersionNotAccepted" THEN ExchangeFails("refused")
              ELSE IF f.corr > call.corr \/ f.type # Response(call.type)
              THEN ExchangeFails("mismatch")
              ELSE Ended("answer", f.for) /\ UNCHANGED <<conn, opened, served>>

\* RPC_IO_TIMEOUT, or an error of the socket.
IoFails ==
  /\ Exchanging("write") \/ Exchanging("read")
  /\ ExchangeFails("error") /\ UNCHANGED links

\* openraft drops the call's future: the connection stays as it is.
Cancelled ==
  /\ call # NoCall
  /\ Ended("cancelled", 0)
  /\ UNCHANGED <<conn, opened, links, served>>

-----------------------------------------------------------------------------
(***************************************************************************)
(* The peer: one task per connection (handle_connection_generic).  It goes *)
(* on with what it has received when the client has dropped the connection.*)
(***************************************************************************)
SetServed(n, l) == links' = [links EXCEPT ![n] = l]

ServerReads(n) ==
  /\ links[n].serving /\ ~HasFrame(links[n].sbuf) /\ links[n].up # <<>>
  /\ SetServed(n, [links[n] EXCEPT !.sbuf = Append(@, Head(links[n].up)), !.up = Tail(@)])
  /\ UNCHANGED <<call, result, conn, opened, served>>

\* process_request echoes the correlation id.  A frame of a version that is not
\* accepted is answered and the connection closed.
ProcessRequest(n) ==
  /\ links[n].serving /\ HasFrame(links[n].sbuf)
  /\ LET f == TakeFrame(links[n].sbuf)
         reply(t) == [corr |-> f.corr, type |-> t, for |-> f.for]
         l == [links[n] EXCEPT !.sbuf = AfterFrame(@)]
     IN IF links[n].accepts
        THEN /\ SetServed(n, [l EXCEPT !.down = Framed(@, reply(Response(f.type)))])
             /\ served' = [served EXCEPT ![f.for] = @ + 1]
        ELSE /\ SetServed(n, [l EXCEPT !.down = Framed(@, reply("VersionNotAccepted")),
                                       !.serving = FALSE])
             /\ UNCHANGED served
  /\ UNCHANGED <<call, result, conn, opened>>

\* An idle or stuck connection is reaped, the request failed, or the peer died;
\* what it has written may still arrive.
ServerCloses(n) ==
  /\ n <= opened /\ links[n].serving
  /\ SetServed(n, [links[n] EXCEPT !.serving = FALSE])
  /\ UNCHANGED <<call, result, conn, opened, served>>

-----------------------------------------------------------------------------
RpcInit ==
  /\ call = NoCall /\ result = [c \in Calls |-> Result("new", 0)]
  /\ conn = 0 /\ opened = 0
  /\ links = [n \in Conns |-> NewLink(TRUE)]
  /\ served = [c \in Calls |-> 0]

RpcNext ==
  \/ \E c \in Calls, k \in Requests : Request(c, k)
  \/ Connect \/ ConnectFails \/ WriteSome \/ Flushed \/ ReadSome
  \/ TakeResponse \/ IoFails \/ Cancelled
  \/ \E n \in Conns : ServerReads(n) \/ ProcessRequest(n) \/ ServerCloses(n)

RpcSpec == RpcInit /\ [][RpcNext]_rpcVars

-----------------------------------------------------------------------------
AnswersOwnCall ==
  \A c \in Calls :
    result[c].kind = "answer" => result[c].for = c /\ served[c] >= 1

InFrames(s) ==
  \A i \in 1..Len(s) :
    /\ s[i].part = IF i % 2 = 1 THEN "head" ELSE "tail"
    /\ i % 2 = 0 => s[i].frame = s[i - 1].frame
    /\ i > 2 => s[i - 2].frame.corr < s[i].frame.corr

StreamStaysFramed ==
  /\ \A n \in Conns : /\ InFrames(links[n].sbuf \o links[n].up \o links[n].wbuf)
                      /\ InFrames(links[n].rbuf \o links[n].down)
  /\ \A c \in Calls : result[c].kind # "mismatch"

(***************************************************************************)
(* A call that succeeds has the answer to its own request, and the peer    *)
(* handled that request: never the answer to a call that was cancelled on  *)
(* the same connection before (exchange_frames, the correlation ids).      *)
(* Cancelled calls never break the framing either: on every connection the *)
(* bytes on their way are whole frames in order of their correlation ids,  *)
(* and no exchange ends in a mismatch (FramedIo's staging buffers).        *)
(***************************************************************************)
CallsKeepApart == AnswersOwnCall /\ StreamStaysFramed

=============================================================================
