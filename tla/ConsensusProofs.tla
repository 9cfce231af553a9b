-------------------------- MODULE ConsensusProofs ---------------------------
(***************************************************************************)
(* What consensus rests on, for any number of calls, connections, members  *)
(* and handlers: a Raft call never takes the answer to another one         *)
(* (RpcConnection), membership stays sound under concurrent handlers       *)
(* (Membership), and a voter keeps its promises through deaths, damaged    *)
(* files and removals (VoteStore).                                         *)
(***************************************************************************)
EXTENDS RpcConnection, Membership, VoteStore, SequenceTheorems, TLAPS

-----------------------------------------------------------------------------
(* The transport of Raft calls. *)

\* Frames and their pieces, without the bounds of a run.
AnyFrame == [corr : Nat, type : Requests \cup Responses, for : Calls]
AnyPiece == [frame : AnyFrame, part : {"head", "tail"}]
AnyLink ==
  [next : Nat, wbuf : Seq(AnyPiece), up : Seq(AnyPiece), sbuf : Seq(AnyPiece),
   down : Seq(AnyPiece), rbuf : Seq(AnyPiece), serving : BOOLEAN, accepts : BOOLEAN]

FramesOf(s) == {s[i].frame : i \in 1..Len(s)}

\* Whole frames, each in two pieces, one after the other in the order of their ids.
Framing(s) ==
  /\ Len(s) % 2 = 0
  /\ \A i \in 1..Len(s) :
       /\ s[i].part = IF i % 2 = 1 THEN "head" ELSE "tail"
       /\ i % 2 = 0 => s[i].frame = s[i - 1].frame
  /\ \A i, j \in 1..Len(s) :
       i < j /\ ~(i % 2 = 1 /\ j = i + 1) => s[i].frame.corr < s[j].frame.corr

\* What is on its way to the peer, and back.
UpStream(l) == l.sbuf \o l.up \o l.wbuf
DownStream(l) == l.rbuf \o l.down
Asked(l) == FramesOf(UpStream(l))
Answered(l) == FramesOf(DownStream(l))

\* A connection carries whole frames, the answers behind the requests.
LinkOK(l) ==
  /\ Framing(UpStream(l)) /\ Framing(DownStream(l))
  /\ \A f \in Asked(l) \cup Answered(l) : f.corr < l.next
  /\ \A f \in Answered(l), g \in Asked(l) : f.corr < g.corr
  /\ \A f \in Asked(l) : f.type \in Requests

\* Only a request that was handled has an answer.
ServedInv ==
  \A n \in Conns : \A f \in Answered(links[n]) :
    f.type # "VersionNotAccepted" => served[f.for] >= 1

InExchange == call # NoCall /\ call.phase \in {"write", "read"}

\* The call in progress has the connection's last id to itself.
CallInv ==
  InExchange =>
    /\ conn \in Conns /\ call.corr \in Nat /\ links[conn].next = call.corr + 1
    /\ \A f \in Asked(links[conn]) :
         f.corr = call.corr => f.for = call.id /\ f.type = call.type
    /\ \A f \in Answered(links[conn]) :
         f.corr = call.corr =>
           f.for = call.id /\ f.type \in {Response(call.type), "VersionNotAccepted"}

RpcType ==
  /\ links \in [Conns -> AnyLink] /\ opened \in Nat /\ conn \in Conns \cup {0}
  /\ served \in [Calls -> Nat]
  /\ result \in [Calls -> [kind : {"new", "answer", "cancelled", "error", "refused"}, for : Int]]
  /\ call # NoCall => call.id \in Calls /\ call.type \in Requests

RpcInv ==
  /\ RpcType /\ CallInv /\ AnswersOwnCall
  /\ ServedInv /\ \A n \in Conns : LinkOK(links[n])

-----------------------------------------------------------------------------
(* Framed streams. *)

\* Moving the first piece of one buffer to the end of the one before it.
LEMMA PieceMoves ==
  ASSUME NEW P, NEW a \in Seq(P), NEW b \in Seq(P), b # <<>>
  PROVE  /\ Append(a, Head(b)) \in Seq(P) /\ Tail(b) \in Seq(P) /\ Head(b) \in P
         /\ Append(a, Head(b)) \o Tail(b) = a \o b
<1>1. Append(a, Head(b)) \in Seq(P) /\ Tail(b) \in Seq(P) /\ Head(b) \in P
  OBVIOUS
<1> DEFINE s == Append(a, Head(b)) \o Tail(b)
           t == a \o b
<1>2. s \in Seq(P) /\ t \in Seq(P) /\ Len(s) = Len(t)
  BY <1>1
<1>3. \A i \in 1..Len(s) : s[i] = t[i]
  BY <1>1
<1>4. s = t
  <2> HIDE DEF s, t
  <2> QED BY <1>2, <1>3
<1> QED BY <1>1, <1>4

\* Concatenation is associative.
LEMMA ThreeParts ==
  ASSUME NEW a \in Seq(AnyPiece), NEW b \in Seq(AnyPiece), NEW c \in Seq(AnyPiece)
  PROVE  (a \o b) \o c = a \o (b \o c) /\ a \o b \in Seq(AnyPiece) /\ (a \o b) \o c \in Seq(AnyPiece)
<1> DEFINE s == (a \o b) \o c
           t == a \o (b \o c)
<1>1. a \o b \in Seq(AnyPiece) /\ b \o c \in Seq(AnyPiece)
  OBVIOUS
<1>2. s \in Seq(AnyPiece) /\ t \in Seq(AnyPiece) /\ Len(s) = Len(t)
  BY <1>1
<1>3. \A i \in 1..Len(s) : s[i] = t[i]
  BY <1>1
<1>4. s = t
  <2> HIDE DEF s, t
  <2> QED BY <1>2, <1>3
<1> QED BY <1>1, <1>2, <1>4

\* All but the first two elements.
LEMMA WithoutTwo ==
  ASSUME NEW P, NEW s \in Seq(P), Len(s) >= 2
  PROVE  /\ SubSeq(s, 3, Len(s)) \in Seq(P) /\ Len(SubSeq(s, 3, Len(s))) = Len(s) - 2
         /\ \A i \in 1..(Len(s) - 2) : SubSeq(s, 3, Len(s))[i] = s[i + 2]
<1> DEFINE r == SubSeq(s, 3, Len(s))
<1>1. Len(s) \in Nat /\ Len(s) \in Int /\ 3 \in Int /\ \A i \in 3..Len(s) : s[i] \in P
  OBVIOUS
<1>2. /\ r \in Seq(P) /\ Len(r) = (IF 3 <= Len(s) THEN Len(s) - 3 + 1 ELSE 0)
      /\ \A i \in 1..(Len(s) - 3 + 1) : r[i] = s[3 + i - 1]
  <2> HIDE DEF r
  <2> QED BY <1>1, SubSeqProperties DEF r
<1> HIDE DEF r
<1>3. Len(r) = Len(s) - 2
  <2>1. CASE 3 <= Len(s)
    BY <1>1, <1>2, <2>1
  <2>2. CASE ~(3 <= Len(s))
    <3>0. \A n \in Int : n >= 2 /\ ~(3 <= n) => n = 2
      OBVIOUS
    <3>1. Len(s) = 2
      BY <1>1, <2>2, <3>0
    <3> QED BY <1>2, <2>2, <3>1
  <2> QED BY <2>1, <2>2
<1>4. \A i \in 1..(Len(s) - 2) : i \in 1..(Len(s) - 3 + 1) /\ 3 + i - 1 = i + 2
  BY <1>1
<1> QED BY <1>2, <1>3, <1>4 DEF r

\* A frame put behind a stream.
LEMMA FrameAdded ==
  ASSUME NEW s \in Seq(AnyPiece), NEW f \in AnyFrame, Framing(s),
         \A g \in FramesOf(s) : g.corr < f.corr
  PROVE  /\ Framed(s, f) \in Seq(AnyPiece) /\ Framing(Framed(s, f))
         /\ FramesOf(Framed(s, f)) = FramesOf(s) \cup {f}
<1> DEFINE h == [frame |-> f, part |-> "head"]
           t == [frame |-> f, part |-> "tail"]
           r == s \o <<h, t>>
<1>1. /\ h \in AnyPiece /\ t \in AnyPiece /\ h.frame = f /\ t.frame = f
      /\ h.part = "head" /\ t.part = "tail"
  BY DEF AnyPiece
<1>2. Framed(s, f) = r
  BY DEF Framed
<1> HIDE DEF h, t
<1>3. /\ r \in Seq(AnyPiece) /\ Len(r) = Len(s) + 2 /\ Len(s) \in Nat
      /\ \A i \in 1..Len(s) : r[i] = s[i]
      /\ r[Len(s) + 1] = h /\ r[Len(s) + 2] = t
  BY <1>1
<1> HIDE DEF r
<1>4. \A i \in 1..Len(r) : i \in 1..Len(s) \/ i = Len(s) + 1 \/ i = Len(s) + 2
  BY <1>3
<1>5. FramesOf(r) = FramesOf(s) \cup {f}
  <2>1. FramesOf(r) \subseteq FramesOf(s) \cup {f}
    BY <1>1, <1>3, <1>4 DEF FramesOf
  <2>2. FramesOf(s) \subseteq FramesOf(r)
    BY <1>3 DEF FramesOf
  <2>3. f \in FramesOf(r)
    <3>1. Len(s) + 1 \in 1..Len(r)
      BY <1>3
    <3> QED BY <1>1, <1>3, <3>1 DEF FramesOf
  <2> QED BY <2>1, <2>2, <2>3
<1>6. Framing(r)
  <2>1. Len(r) % 2 = 0 /\ Len(s) % 2 = 0 /\ (Len(s) + 1) % 2 = 1 /\ (Len(s) + 2) % 2 = 0
    <3>1. Len(s) % 2 = 0
      BY DEF Framing
    <3> QED BY <1>3, <3>1
  <2>2. ASSUME NEW i \in 1..Len(r)
        PROVE  /\ r[i].part = IF i % 2 = 1 THEN "head" ELSE "tail"
               /\ i % 2 = 0 => r[i].frame = r[i - 1].frame
    <3>1. CASE i \in 1..Len(s)
      <4>1. i % 2 = 0 => i - 1 \in 1..Len(s)
        BY <3>1, <1>3
      <4> QED BY <3>1, <4>1, <1>3 DEF Framing
    <3>2. CASE i = Len(s) + 1
      BY <3>2, <2>1, <1>1, <1>3
    <3>3. CASE i = Len(s) + 2
      <4>1. i - 1 = Len(s) + 1
        BY <3>3, <1>3
      <4> QED BY <3>3, <4>1, <2>1, <1>1, <1>3
    <3> QED BY <1>4, <3>1, <3>2, <3>3
  <2>3. ASSUME NEW i \in 1..Len(r), NEW j \in 1..Len(r), i < j, ~(i % 2 = 1 /\ j = i + 1)
        PROVE  r[i].frame.corr < r[j].frame.corr
    <3>1. CASE j \in 1..Len(s)
      <4>1. i \in 1..Len(s)
        BY <2>3, <3>1, <1>3
      <4> QED BY <2>3, <3>1, <4>1, <1>3 DEF Framing
    <3>2. CASE j \notin 1..Len(s)
      <4>1. r[j].frame = f
        BY <3>2, <1>1, <1>3, <1>4
      <4>2. i \in 1..Len(s)
        BY <2>1, <2>3, <3>2, <1>3, <1>4
      <4>3. s[i].frame \in FramesOf(s)
        BY <4>2 DEF FramesOf
      <4> QED BY <4>1, <4>2, <4>3, <1>3
    <3> QED BY <3>1, <3>2
  <2> QED BY <2>1, <2>2, <2>3 DEF Framing
<1> QED BY <1>2, <1>3, <1>5, <1>6

\* The first frame taken from a stream.
LEMMA FrameTaken ==
  ASSUME NEW s \in Seq(AnyPiece), Framing(s), Len(s) >= 2
  PROVE  /\ AfterFrame(s) \in Seq(AnyPiece) /\ Framing(AfterFrame(s))
         /\ TakeFrame(s) \in AnyFrame /\ TakeFrame(s) \in FramesOf(s)
         /\ FramesOf(AfterFrame(s)) \subseteq FramesOf(s)
         /\ \A g \in FramesOf(AfterFrame(s)) : TakeFrame(s).corr < g.corr
<1> DEFINE r == SubSeq(s, 3, Len(s))
<1>1. AfterFrame(s) = r /\ TakeFrame(s) = s[1].frame
  BY DEF AfterFrame, TakeFrame
<1>2. /\ r \in Seq(AnyPiece) /\ Len(r) = Len(s) - 2 /\ Len(s) \in Nat
      /\ \A i \in 1..(Len(s) - 2) : r[i] = s[i + 2]
  BY WithoutTwo
<1> HIDE DEF r
<1>3. \A i \in 1..Len(r) : i + 2 \in 1..Len(s) /\ r[i] = s[i + 2] /\ (i + 2) % 2 = i % 2
  BY <1>2
<1>4. Framing(r)
  <2>1. Len(r) % 2 = 0
    BY <1>2 DEF Framing
  <2>2. ASSUME NEW i \in 1..Len(r)
        PROVE  /\ r[i].part = IF i % 2 = 1 THEN "head" ELSE "tail"
               /\ i % 2 = 0 => r[i].frame = r[i - 1].frame
    <3>1. r[i].part = IF i % 2 = 1 THEN "head" ELSE "tail"
      BY <1>3 DEF Framing
    <3>2. ASSUME i % 2 = 0 PROVE r[i].frame = r[i - 1].frame
      <4>1. i - 1 \in 1..Len(r) /\ (i - 1) + 2 = i + 1 /\ (i + 2) - 1 = i + 1
        BY <3>2, <1>2
      <4>2. s[i + 2].frame = s[(i + 2) - 1].frame
        BY <1>3, <3>2 DEF Framing
      <4>3. r[i - 1] = s[(i - 1) + 2]
        BY <4>1, <1>3
      <4> QED BY <4>1, <4>2, <4>3, <1>3
    <3> QED BY <3>1, <3>2
  <2>3. ASSUME NEW i \in 1..Len(r), NEW j \in 1..Len(r), i < j, ~(i % 2 = 1 /\ j = i + 1)
        PROVE  r[i].frame.corr < r[j].frame.corr
    <3>1. i + 2 < j + 2 /\ ~((i + 2) % 2 = 1 /\ j + 2 = (i + 2) + 1)
      BY <2>3, <1>3
    <3> QED BY <3>1, <1>3 DEF Framing
  <2> QED BY <2>1, <2>2, <2>3 DEF Framing
<1>5. s[1].frame \in AnyFrame /\ s[1].frame \in FramesOf(s)
  <2>1. 1 \in 1..Len(s) /\ s[1] \in AnyPiece
    BY <1>2
  <2> QED BY <2>1 DEF FramesOf, AnyPiece
<1>6. FramesOf(r) \subseteq FramesOf(s)
  BY <1>3 DEF FramesOf
<1>7. \A g \in FramesOf(r) : s[1].frame.corr < g.corr
  <2> TAKE g \in FramesOf(r)
  <2>1. PICK i \in 1..Len(r) : g = s[i + 2].frame
    BY <1>3 DEF FramesOf
  <2>2. 1 \in 1..Len(s) /\ 1 < i + 2 /\ i + 2 # 1 + 1 /\ i + 2 \in 1..Len(s)
    BY <1>2, <1>3
  <2> QED BY <2>1, <2>2 DEF Framing
<1> QED BY <1>1, <1>2, <1>4, <1>5, <1>6, <1>7

\* A frame is taken from the first of two buffers as from both.
LEMMA TakenFromFirst ==
  ASSUME NEW a \in Seq(AnyPiece), NEW b \in Seq(AnyPiece), HasFrame(a)
  PROVE  /\ AfterFrame(a) \in Seq(AnyPiece) /\ AfterFrame(a) \o b = AfterFrame(a \o b)
         /\ TakeFrame(a) = TakeFrame(a \o b) /\ Len(a \o b) >= 2
<1>1. Len(a) >= 2 /\ Len(a) \in Nat /\ Len(b) \in Nat
  BY DEF HasFrame
<1> DEFINE t == SubSeq(a \o b, 3, Len(a \o b))
<1>2. a \o b \in Seq(AnyPiece) /\ Len(a \o b) = Len(a) + Len(b)
      /\ \A i \in 1..Len(a) : (a \o b)[i] = a[i]
  OBVIOUS
<1> DEFINE u == SubSeq(a, 3, Len(a))
<1>3. /\ u \in Seq(AnyPiece) /\ Len(u) = Len(a) - 2 /\ \A i \in 1..(Len(a) - 2) : u[i] = a[i + 2]
  BY <1>1, WithoutTwo
<1>8. /\ t \in Seq(AnyPiece) /\ Len(t) = Len(a) + Len(b) - 2
      /\ \A i \in 1..(Len(a) + Len(b) - 2) : t[i] = (a \o b)[i + 2]
  <2> DEFINE w == a \o b
  <2>1. w \in Seq(AnyPiece) /\ Len(w) = Len(a) + Len(b)
    BY <1>2
  <2> HIDE DEF w
  <2>2. Len(w) >= 2
    BY <1>1, <2>1
  <2>3. /\ SubSeq(w, 3, Len(w)) \in Seq(AnyPiece) /\ Len(SubSeq(w, 3, Len(w))) = Len(w) - 2
        /\ \A i \in 1..(Len(w) - 2) : SubSeq(w, 3, Len(w))[i] = w[i + 2]
    BY <2>1, <2>2, WithoutTwo
  <2> QED BY <1>1, <2>1, <2>3 DEF w
<1>9. AfterFrame(a) = u /\ AfterFrame(a \o b) = t
  BY DEF AfterFrame
<1>10. Head(a) = a[1] /\ Head(a \o b) = (a \o b)[1]
  BY <1>1, <1>2
<1>11. \A i \in 1..(Len(a) + Len(b)) :
         (a \o b)[i] = IF i <= Len(a) THEN a[i] ELSE b[i - Len(a)]
  BY <1>1
<1> HIDE DEF u, t
<1>4. u \o b \in Seq(AnyPiece) /\ Len(u \o b) = Len(t)
      /\ \A i \in 1..Len(t) : (u \o b)[i] = IF i <= Len(u) THEN u[i] ELSE b[i - Len(u)]
  BY <1>1, <1>3, <1>8 DEF u
<1>5. \A i \in 1..Len(t) : (u \o b)[i] = t[i]
  <2> TAKE i \in 1..Len(t)
  <2>1. CASE i <= Len(a) - 2
    BY <2>1, <1>1, <1>3, <1>4, <1>8, <1>11
  <2>2. CASE i > Len(a) - 2
    <3>1. (u \o b)[i] = b[i - (Len(a) - 2)] /\ t[i] = b[i + 2 - Len(a)]
      BY <2>2, <1>1, <1>3, <1>4, <1>8, <1>11
    <3>2. i - (Len(a) - 2) = i + 2 - Len(a)
      BY <1>1, <1>8
    <3> QED BY <3>1, <3>2
  <2>3. i \in Int /\ Len(a) - 2 \in Int
    BY <1>1, <1>8
  <2>4. \A x, y \in Int : x <= y \/ x > y
    OBVIOUS
  <2>5. i <= Len(a) - 2 \/ i > Len(a) - 2
    BY <2>3, <2>4
  <2> QED BY <2>1, <2>2, <2>5
<1>6. u \o b = t
  <2> DEFINE v == u \o b
  <2>1. v \in Seq(AnyPiece) /\ Len(v) = Len(t) /\ \A i \in 1..Len(v) : v[i] = t[i]
    BY <1>4, <1>5
  <2> HIDE DEF v
  <2>2. v = t
    BY <2>1, <1>8
  <2> QED BY <2>2 DEF v
<1>7. Head(a) = Head(a \o b)
  BY <1>1, <1>2, <1>10
<1> QED BY <1>1, <1>2, <1>3, <1>6, <1>7, <1>9 DEF TakeFrame

\* A frame is put behind the last of two buffers as behind both.
LEMMA AddedToLast ==
  ASSUME NEW a \in Seq(AnyPiece), NEW b \in Seq(AnyPiece), NEW f \in AnyFrame
  PROVE  Framed(b, f) \in Seq(AnyPiece) /\ a \o Framed(b, f) = Framed(a \o b, f)
<1> DEFINE e == <<[frame |-> f, part |-> "head"], [frame |-> f, part |-> "tail"]>>
<1>1. e \in Seq(AnyPiece)
  BY DEF AnyPiece
<1> HIDE DEF e
<1>2. b \o e \in Seq(AnyPiece) /\ (a \o b) \o e = a \o (b \o e)
  BY <1>1, ThreeParts
<1> QED BY <1>2 DEF Framed, e

-----------------------------------------------------------------------------
(* What each step makes of a connection. *)

\* The streams of a connection are sequences of pieces, of frames.
LEMMA StreamTypes ==
  ASSUME NEW l \in AnyLink
  PROVE  /\ UpStream(l) \in Seq(AnyPiece) /\ DownStream(l) \in Seq(AnyPiece)
         /\ Asked(l) \subseteq AnyFrame /\ Answered(l) \subseteq AnyFrame
         /\ l.sbuf \in Seq(AnyPiece) /\ l.up \in Seq(AnyPiece) /\ l.wbuf \in Seq(AnyPiece)
         /\ l.rbuf \in Seq(AnyPiece) /\ l.down \in Seq(AnyPiece) /\ l.next \in Nat
<1>1. /\ l.sbuf \in Seq(AnyPiece) /\ l.up \in Seq(AnyPiece) /\ l.wbuf \in Seq(AnyPiece)
      /\ l.rbuf \in Seq(AnyPiece) /\ l.down \in Seq(AnyPiece) /\ l.next \in Nat
  BY DEF AnyLink
<1>2. UpStream(l) \in Seq(AnyPiece) /\ DownStream(l) \in Seq(AnyPiece)
  BY <1>1, ThreeParts DEF UpStream, DownStream
<1>3. \A s \in Seq(AnyPiece) : FramesOf(s) \subseteq AnyFrame
  <2> TAKE s \in Seq(AnyPiece)
  <2>1. \A i \in 1..Len(s) : s[i] \in AnyPiece
    OBVIOUS
  <2>2. \A p \in AnyPiece : p.frame \in AnyFrame
    BY DEF AnyPiece
  <2> QED BY <2>1, <2>2 DEF FramesOf
<1> QED BY <1>1, <1>2, <1>3 DEF Asked, Answered

\* The same bytes, wherever they are.
LEMMA StreamsSame ==
  ASSUME NEW l, NEW k, LinkOK(l), UpStream(k) = UpStream(l), DownStream(k) = DownStream(l),
         k.next = l.next
  PROVE  LinkOK(k) /\ Asked(k) = Asked(l) /\ Answered(k) = Answered(l)
BY DEF LinkOK, Asked, Answered

\* A request is staged behind what the connection carries.
LEMMA StagedOK ==
  ASSUME NEW l \in AnyLink, LinkOK(l), NEW f \in AnyFrame, f.corr = l.next,
         f.type \in Requests
  PROVE  /\ Staged(l, f) \in AnyLink /\ LinkOK(Staged(l, f)) /\ Staged(l, f).next = l.next + 1
         /\ Asked(Staged(l, f)) = Asked(l) \cup {f} /\ Answered(Staged(l, f)) = Answered(l)
<1> DEFINE k == Staged(l, f)
<1>1. /\ l.sbuf \o l.up \in Seq(AnyPiece) /\ l.wbuf \in Seq(AnyPiece) /\ l.next \in Nat
      /\ UpStream(l) \in Seq(AnyPiece)
  BY StreamTypes, ThreeParts
<1>2. Framed(l.wbuf, f) \in Seq(AnyPiece)
      /\ (l.sbuf \o l.up) \o Framed(l.wbuf, f) = Framed(UpStream(l), f)
  BY <1>1, AddedToLast DEF UpStream
<1>3. /\ k \in AnyLink /\ k.wbuf = Framed(l.wbuf, f) /\ k.next = l.next + 1
      /\ k.sbuf = l.sbuf /\ k.up = l.up /\ k.rbuf = l.rbuf /\ k.down = l.down
  <2> DEFINE w == Framed(l.wbuf, f)
  <2>1. w \in Seq(AnyPiece) /\ l.next + 1 \in Nat
    BY <1>1, <1>2
  <2>2. k = [l EXCEPT !.wbuf = w, !.next = l.next + 1]
    BY DEF Staged
  <2> HIDE DEF w
  <2>3. /\ k \in AnyLink /\ k.wbuf = w /\ k.next = l.next + 1
        /\ k.sbuf = l.sbuf /\ k.up = l.up /\ k.rbuf = l.rbuf /\ k.down = l.down
    <3> HIDE DEF k
    <3> QED BY <2>1, <2>2 DEF AnyLink
  <2> QED BY <2>3 DEF w
<1> HIDE DEF k
<1>4. UpStream(k) = Framed(UpStream(l), f) /\ DownStream(k) = DownStream(l)
  BY <1>2, <1>3 DEF UpStream, DownStream
<1>5. Framing(Framed(UpStream(l), f)) /\ FramesOf(Framed(UpStream(l), f)) = FramesOf(UpStream(l)) \cup {f}
  BY <1>1, FrameAdded DEF LinkOK, Asked
<1>6. Asked(k) = Asked(l) \cup {f} /\ Answered(k) = Answered(l)
  BY <1>4, <1>5 DEF Asked, Answered
<1>7. \A g \in Asked(l) \cup Answered(l) : g.corr \in Nat /\ g.corr < l.next
  BY StreamTypes DEF AnyFrame, LinkOK
<1>8. LinkOK(k)
  BY <1>1, <1>3, <1>4, <1>5, <1>6, <1>7 DEF LinkOK
<1> QED BY <1>3, <1>6, <1>8 DEF k

\* A new connection carries nothing.
LEMMA NewOK ==
  ASSUME NEW accepts \in BOOLEAN
  PROVE  /\ NewLink(accepts) \in AnyLink /\ LinkOK(NewLink(accepts)) /\ NewLink(accepts).next = 0
         /\ Asked(NewLink(accepts)) = {} /\ Answered(NewLink(accepts)) = {}
<1> DEFINE k == NewLink(accepts)
<1>1. /\ k \in AnyLink /\ k.next = 0 /\ k.wbuf = <<>> /\ k.up = <<>> /\ k.sbuf = <<>>
      /\ k.down = <<>> /\ k.rbuf = <<>>
  BY DEF NewLink, AnyLink
<1> HIDE DEF k
<1>2. Len(UpStream(k)) = 0 /\ Len(DownStream(k)) = 0
  BY <1>1 DEF UpStream, DownStream
<1>3. Asked(k) = {} /\ Answered(k) = {}
  BY <1>2 DEF Asked, Answered, FramesOf
<1>4. Framing(UpStream(k)) /\ Framing(DownStream(k))
  BY <1>2 DEF Framing
<1> QED BY <1>1, <1>3, <1>4 DEF LinkOK, k

\* The client writes one piece.
LEMMA WrittenOK ==
  ASSUME NEW l \in AnyLink, LinkOK(l), l.wbuf # <<>>, NEW k,
         k = [l EXCEPT !.up = Append(@, Head(l.wbuf)), !.wbuf = Tail(@)]
  PROVE  /\ k \in AnyLink /\ LinkOK(k) /\ Asked(k) = Asked(l) /\ Answered(k) = Answered(l)
         /\ k.next = l.next
<1>1. /\ l.sbuf \in Seq(AnyPiece) /\ l.up \in Seq(AnyPiece) /\ l.wbuf \in Seq(AnyPiece)
  BY StreamTypes
<1>2. /\ Append(l.up, Head(l.wbuf)) \in Seq(AnyPiece) /\ Tail(l.wbuf) \in Seq(AnyPiece)
      /\ Append(l.up, Head(l.wbuf)) \o Tail(l.wbuf) = l.up \o l.wbuf
  BY <1>1, PieceMoves
<1>3. /\ k \in AnyLink /\ k.up = Append(l.up, Head(l.wbuf)) /\ k.wbuf = Tail(l.wbuf)
      /\ k.sbuf = l.sbuf /\ k.rbuf = l.rbuf /\ k.down = l.down /\ k.next = l.next
  BY <1>2 DEF AnyLink
<1>4. /\ UpStream(l) = l.sbuf \o (l.up \o l.wbuf)
      /\ UpStream(k) = l.sbuf \o (Append(l.up, Head(l.wbuf)) \o Tail(l.wbuf))
  <2>1. (l.sbuf \o l.up) \o l.wbuf = l.sbuf \o (l.up \o l.wbuf)
    BY <1>1, ThreeParts
  <2>2. (l.sbuf \o Append(l.up, Head(l.wbuf))) \o Tail(l.wbuf)
          = l.sbuf \o (Append(l.up, Head(l.wbuf)) \o Tail(l.wbuf))
    <3> DEFINE b == Append(l.up, Head(l.wbuf))
               c == Tail(l.wbuf)
    <3>1. l.sbuf \in Seq(AnyPiece) /\ b \in Seq(AnyPiece) /\ c \in Seq(AnyPiece)
      BY <1>1, <1>2
    <3> HIDE DEF b, c
    <3>2. (l.sbuf \o b) \o c = l.sbuf \o (b \o c)
      BY <3>1, ThreeParts
    <3> QED BY <3>2 DEF b, c
  <2> QED BY <1>3, <2>1, <2>2 DEF UpStream
<1>5. UpStream(k) = UpStream(l) /\ DownStream(k) = DownStream(l)
  BY <1>2, <1>3, <1>4 DEF DownStream
<1> QED BY <1>3, <1>5, StreamsSame

\* The peer reads one piece.
LEMMA PeerReadOK ==
  ASSUME NEW l \in AnyLink, LinkOK(l), l.up # <<>>, NEW k,
         k = [l EXCEPT !.sbuf = Append(@, Head(l.up)), !.up = Tail(@)]
  PROVE  /\ k \in AnyLink /\ LinkOK(k) /\ Asked(k) = Asked(l) /\ Answered(k) = Answered(l)
         /\ k.next = l.next
<1>1. l.sbuf \in Seq(AnyPiece) /\ l.up \in Seq(AnyPiece)
  BY StreamTypes
<1>2. /\ Append(l.sbuf, Head(l.up)) \in Seq(AnyPiece) /\ Tail(l.up) \in Seq(AnyPiece)
      /\ Append(l.sbuf, Head(l.up)) \o Tail(l.up) = l.sbuf \o l.up
  BY <1>1, PieceMoves
<1>3. /\ k \in AnyLink /\ k.sbuf = Append(l.sbuf, Head(l.up)) /\ k.up = Tail(l.up)
      /\ k.wbuf = l.wbuf /\ k.rbuf = l.rbuf /\ k.down = l.down /\ k.next = l.next
  BY <1>2 DEF AnyLink
<1>4. UpStream(k) = UpStream(l) /\ DownStream(k) = DownStream(l)
  BY <1>2, <1>3 DEF UpStream, DownStream
<1> QED BY <1>3, <1>4, StreamsSame

\* The client reads one piece.
LEMMA ReadOK ==
  ASSUME NEW l \in AnyLink, LinkOK(l), l.down # <<>>, NEW k,
         k = [l EXCEPT !.rbuf = Append(@, Head(l.down)), !.down = Tail(@)]
  PROVE  /\ k \in AnyLink /\ LinkOK(k) /\ Asked(k) = Asked(l) /\ Answered(k) = Answered(l)
         /\ k.next = l.next
<1>1. l.rbuf \in Seq(AnyPiece) /\ l.down \in Seq(AnyPiece)
  BY StreamTypes
<1>2. /\ Append(l.rbuf, Head(l.down)) \in Seq(AnyPiece) /\ Tail(l.down) \in Seq(AnyPiece)
      /\ Append(l.rbuf, Head(l.down)) \o Tail(l.down) = l.rbuf \o l.down
  BY <1>1, PieceMoves
<1>3. /\ k \in AnyLink /\ k.rbuf = Append(l.rbuf, Head(l.down)) /\ k.down = Tail(l.down)
      /\ k.wbuf = l.wbuf /\ k.up = l.up /\ k.sbuf = l.sbuf /\ k.next = l.next
  BY <1>2 DEF AnyLink
<1>4. UpStream(k) = UpStream(l) /\ DownStream(k) = DownStream(l)
  BY <1>2, <1>3 DEF UpStream, DownStream
<1> QED BY <1>3, <1>4, StreamsSame

\* The client takes a whole frame.
LEMMA TakenOK ==
  ASSUME NEW l \in AnyLink, LinkOK(l), HasFrame(l.rbuf), NEW k,
         k = [l EXCEPT !.rbuf = AfterFrame(@)]
  PROVE  /\ k \in AnyLink /\ LinkOK(k) /\ Asked(k) = Asked(l) /\ Answered(k) \subseteq Answered(l)
         /\ k.next = l.next /\ TakeFrame(l.rbuf) \in Answered(l)
<1>1. l.rbuf \in Seq(AnyPiece) /\ l.down \in Seq(AnyPiece) /\ DownStream(l) \in Seq(AnyPiece)
  BY StreamTypes
<1>2. /\ AfterFrame(l.rbuf) \in Seq(AnyPiece) /\ Len(DownStream(l)) >= 2
      /\ AfterFrame(l.rbuf) \o l.down = AfterFrame(DownStream(l))
      /\ TakeFrame(l.rbuf) = TakeFrame(DownStream(l))
  BY <1>1, TakenFromFirst DEF DownStream
<1>3. /\ k \in AnyLink /\ k.rbuf = AfterFrame(l.rbuf) /\ k.down = l.down
      /\ k.wbuf = l.wbuf /\ k.up = l.up /\ k.sbuf = l.sbuf /\ k.next = l.next
  BY <1>2 DEF AnyLink
<1>4. UpStream(k) = UpStream(l) /\ DownStream(k) = AfterFrame(DownStream(l))
  BY <1>2, <1>3 DEF UpStream, DownStream
<1>5. /\ Framing(DownStream(k)) /\ FramesOf(DownStream(k)) \subseteq FramesOf(DownStream(l))
      /\ TakeFrame(DownStream(l)) \in FramesOf(DownStream(l))
  BY <1>1, <1>2, <1>4, FrameTaken DEF LinkOK
<1>6. /\ Asked(k) = Asked(l) /\ Answered(k) \subseteq Answered(l)
      /\ TakeFrame(l.rbuf) \in Answered(l)
  BY <1>2, <1>4, <1>5 DEF Asked, Answered
<1>7. LinkOK(k)
  BY <1>3, <1>4, <1>5, <1>6 DEF LinkOK
<1> QED BY <1>3, <1>6, <1>7

\* The peer takes a request and puts the answer, with its id, behind the others.
LEMMA ProcessedOK ==
  ASSUME NEW l \in AnyLink, LinkOK(l), HasFrame(l.sbuf), NEW r \in AnyFrame,
         r.corr = TakeFrame(l.sbuf).corr, NEW k \in AnyLink,
         k.sbuf = AfterFrame(l.sbuf), k.down = Framed(l.down, r),
         k.wbuf = l.wbuf, k.up = l.up, k.rbuf = l.rbuf, k.next = l.next
  PROVE  /\ LinkOK(k) /\ Asked(k) \subseteq Asked(l)
         /\ Answered(k) = Answered(l) \cup {r}
<1>1. /\ l.sbuf \in Seq(AnyPiece) /\ l.up \in Seq(AnyPiece) /\ l.wbuf \in Seq(AnyPiece)
      /\ l.rbuf \in Seq(AnyPiece) /\ l.down \in Seq(AnyPiece) /\ l.next \in Nat
      /\ UpStream(l) \in Seq(AnyPiece) /\ DownStream(l) \in Seq(AnyPiece)
      /\ l.up \o l.wbuf \in Seq(AnyPiece) /\ UpStream(l) = l.sbuf \o (l.up \o l.wbuf)
      /\ Asked(l) \subseteq AnyFrame /\ Answered(l) \subseteq AnyFrame
  <2>1. /\ l.sbuf \in Seq(AnyPiece) /\ l.up \in Seq(AnyPiece) /\ l.wbuf \in Seq(AnyPiece)
        /\ l.rbuf \in Seq(AnyPiece) /\ l.down \in Seq(AnyPiece) /\ l.next \in Nat
        /\ UpStream(l) \in Seq(AnyPiece) /\ DownStream(l) \in Seq(AnyPiece)
        /\ Asked(l) \subseteq AnyFrame /\ Answered(l) \subseteq AnyFrame
    BY StreamTypes
  <2>2. (l.sbuf \o l.up) \o l.wbuf = l.sbuf \o (l.up \o l.wbuf)
    <3>1. l.sbuf \in Seq(AnyPiece) /\ l.up \in Seq(AnyPiece) /\ l.wbuf \in Seq(AnyPiece)
      BY <2>1
    <3> QED BY <3>1, ThreeParts
  <2>3. l.up \o l.wbuf \in Seq(AnyPiece)
    BY <2>1
  <2> QED BY <2>1, <2>2, <2>3 DEF UpStream
<1>2. /\ AfterFrame(l.sbuf) \in Seq(AnyPiece) /\ Len(UpStream(l)) >= 2
      /\ AfterFrame(l.sbuf) \o (l.up \o l.wbuf) = AfterFrame(UpStream(l))
      /\ TakeFrame(l.sbuf) = TakeFrame(UpStream(l))
  <2> DEFINE b == l.up \o l.wbuf
  <2>1. b \in Seq(AnyPiece) /\ UpStream(l) = l.sbuf \o b
    BY <1>1
  <2> HIDE DEF b
  <2>2. l.sbuf \in Seq(AnyPiece) /\ HasFrame(l.sbuf)
    BY <1>1
  <2>3. /\ AfterFrame(l.sbuf) \in Seq(AnyPiece) /\ Len(l.sbuf \o b) >= 2
        /\ AfterFrame(l.sbuf) \o b = AfterFrame(l.sbuf \o b)
        /\ TakeFrame(l.sbuf) = TakeFrame(l.sbuf \o b)
    BY <2>1, <2>2, TakenFromFirst
  <2> QED BY <2>1, <2>3 DEF b
<1>3. Framed(l.down, r) \in Seq(AnyPiece) /\ l.rbuf \o Framed(l.down, r) = Framed(DownStream(l), r)
  BY <1>1, AddedToLast DEF DownStream
<1>4. /\ k \in AnyLink /\ k.sbuf = AfterFrame(l.sbuf) /\ k.down = Framed(l.down, r)
      /\ k.wbuf = l.wbuf /\ k.up = l.up /\ k.rbuf = l.rbuf /\ k.next = l.next
  OBVIOUS
<1>5. UpStream(k) = AfterFrame(UpStream(l)) /\ DownStream(k) = Framed(DownStream(l), r)
  <2>1. UpStream(k) = AfterFrame(l.sbuf) \o (l.up \o l.wbuf)
    <3>1. (AfterFrame(l.sbuf) \o l.up) \o l.wbuf = AfterFrame(l.sbuf) \o (l.up \o l.wbuf)
      <4> DEFINE a == AfterFrame(l.sbuf)
      <4>1. a \in Seq(AnyPiece) /\ l.up \in Seq(AnyPiece) /\ l.wbuf \in Seq(AnyPiece)
        BY <1>1, <1>2
      <4> HIDE DEF a
      <4>2. (a \o l.up) \o l.wbuf = a \o (l.up \o l.wbuf)
        BY <4>1, ThreeParts
      <4> QED BY <4>2 DEF a
    <3> QED BY <1>4, <3>1 DEF UpStream
  <2> QED BY <2>1, <1>2, <1>3, <1>4 DEF DownStream
<1> DEFINE f == TakeFrame(l.sbuf)
<1>6. /\ Framing(UpStream(k)) /\ f \in AnyFrame /\ f \in Asked(l) /\ Asked(k) \subseteq Asked(l)
      /\ \A g \in Asked(k) : f.corr < g.corr
  BY <1>1, <1>2, <1>5, FrameTaken DEF LinkOK, Asked
<1> HIDE DEF f
<1>7. \A g \in Answered(l) : g.corr < f.corr
  BY <1>6 DEF LinkOK
<1>8. Framing(DownStream(k)) /\ Answered(k) = Answered(l) \cup {r}
  BY <1>1, <1>5, <1>7, FrameAdded DEF LinkOK, Answered, f
<1>9. LinkOK(k)
  <2>1. \A g \in Asked(k) \cup Answered(k) : g.corr < k.next
    BY <1>4, <1>6, <1>8 DEF LinkOK, f
  <2>2. \A g \in Answered(k), h \in Asked(k) : g.corr < h.corr
    BY <1>6, <1>8 DEF LinkOK, f
  <2> QED BY <1>5, <1>6, <1>8, <2>1, <2>2 DEF LinkOK
<1> QED BY <1>4, <1>6, <1>8, <1>9 DEF f

-----------------------------------------------------------------------------
(* The steps. *)

\* How a call ends or goes on leaves the answers given alone.
LEMMA EndedOK ==
  ASSUME RpcType, AnswersOwnCall, call # NoCall,
         NEW kind \in {"cancelled", "error", "refused"}, Ended(kind, 0), served' = served
  PROVE  /\ result' \in [Calls -> [kind : {"new", "answer", "cancelled", "error", "refused"},
                                   for : Int]]
         /\ call' = NoCall /\ AnswersOwnCall'
<1>1. /\ call.id \in Calls /\ call' = NoCall
      /\ result' = [result EXCEPT ![call.id] = [kind |-> kind, for |-> 0]]
  BY DEF RpcType, Ended, Result
<1> DEFINE e == [kind |-> kind, for |-> 0]
<1>2. /\ e \in [kind : {"new", "answer", "cancelled", "error", "refused"}, for : Int]
      /\ e.kind # "answer"
  OBVIOUS
<1> HIDE DEF e
<1>3. result' = [result EXCEPT ![call.id] = e]
  BY <1>1 DEF e
<1> QED BY <1>1, <1>2, <1>3 DEF RpcType, AnswersOwnCall

\* An exchange that fails ends the call, or has it connect again.
LEMMA FailsOK ==
  ASSUME RpcType, AnswersOwnCall, call # NoCall, NEW r \in {"error", "refused"}, ExchangeFails(r)
  PROVE  /\ result' \in [Calls -> [kind : {"new", "answer", "cancelled", "error", "refused"},
                                   for : Int]]
         /\ AnswersOwnCall' /\ ~InExchange' /\ conn' = 0 /\ UNCHANGED <<opened, served>>
         /\ call' # NoCall => call'.id \in Calls /\ call'.type \in Requests
<1>1. conn' = 0 /\ UNCHANGED <<opened, served>>
  BY DEF ExchangeFails
<1>2. CASE Ended(r, 0)
  BY <1>1, <1>2, EndedOK DEF InExchange
<1>3. CASE call' = [id |-> call.id, type |-> call.type, phase |-> "connect"] /\ UNCHANGED result
  <2>1. call'.id = call.id /\ call'.type = call.type /\ call'.phase = "connect"
    BY <1>3
  <2>2. ~InExchange'
    BY <2>1 DEF InExchange
  <2> QED BY <1>1, <1>3, <2>1, <2>2 DEF RpcType, AnswersOwnCall
<1> QED BY <1>2, <1>3 DEF ExchangeFails

\* One connection changes, and its frames with it.
LEMMA LinkChanges ==
  ASSUME RpcInv, NEW n \in Conns, NEW k \in AnyLink, LinkOK(k),
         links' = [links EXCEPT ![n] = k]
  PROVE  /\ links' \in [Conns -> AnyLink] /\ links'[n] = k
         /\ \A m \in Conns : LinkOK(links'[m]) /\ (m # n => links'[m] = links[m])
BY DEF RpcInv, RpcType

\* The frames of the call in progress stay its own.
LEMMA CallKeeps ==
  ASSUME CallInv, UNCHANGED conn,
         InExchange' => InExchange /\ call'.id = call.id /\ call'.type = call.type
                        /\ call'.corr = call.corr,
         conn \in Conns =>
           /\ links'[conn].next = links[conn].next
           /\ Asked(links'[conn]) \subseteq Asked(links[conn])
           /\ \A f \in Answered(links'[conn]) :
                f \in Answered(links[conn]) \/
                \E g \in Asked(links[conn]) :
                  /\ f.corr = g.corr /\ f.for = g.for
                  /\ f.type \in {Response(g.type), "VersionNotAccepted"}
  PROVE  CallInv'
<1> SUFFICES ASSUME InExchange' PROVE CallInv'
  BY DEF CallInv
<1>1. /\ InExchange /\ call'.id = call.id /\ call'.type = call.type /\ call'.corr = call.corr
      /\ conn \in Conns /\ call.corr \in Nat /\ links[conn].next = call.corr + 1 /\ conn' = conn
  BY DEF CallInv
<1>2. \A f \in Asked(links'[conn]) :
        f.corr = call.corr => f.for = call.id /\ f.type = call.type
  BY <1>1 DEF CallInv
<1>3. \A f \in Answered(links'[conn]) :
        f.corr = call.corr =>
          f.for = call.id /\ f.type \in {Response(call.type), "VersionNotAccepted"}
  BY <1>1 DEF CallInv
<1> QED BY <1>1, <1>2, <1>3 DEF CallInv

\* An exchange begins on a connection none of whose frames has its id.
LEMMA ExchangeOK ==
  ASSUME RpcInv, NEW n \in Conns, NEW l \in AnyLink, LinkOK(l), NEW c \in Calls,
         NEW t \in Requests, Answered(l) \subseteq Answered(links[n]),
         links' = [links EXCEPT ![n] = Staged(l, [corr |-> l.next, type |-> t, for |-> c])],
         conn' = n, call' # NoCall, call'.id = c, call'.type = t, call'.corr = l.next,
         opened' \in Nat, UNCHANGED <<result, served>>
  PROVE  RpcInv'
<1> DEFINE f == [corr |-> l.next, type |-> t, for |-> c]
           k == Staged(l, f)
<1>1. f \in AnyFrame /\ f.corr = l.next /\ f.type = t /\ f.for = c /\ l.next \in Nat
  BY StreamTypes DEF AnyFrame
<1> HIDE DEF f
<1>2. /\ k \in AnyLink /\ LinkOK(k) /\ k.next = l.next + 1
      /\ Asked(k) = Asked(l) \cup {f} /\ Answered(k) = Answered(l)
  BY <1>1, StagedOK
<1>3. links' = [links EXCEPT ![n] = k]
  BY DEF f
<1> HIDE DEF k
<1>4. /\ links' \in [Conns -> AnyLink] /\ links'[n] = k
      /\ \A m \in Conns : LinkOK(links'[m]) /\ (m # n => links'[m] = links[m])
  BY <1>2, <1>3, LinkChanges
<1>5. RpcType'
  BY <1>4 DEF RpcInv, RpcType
<1>6. ServedInv'
  BY <1>2, <1>4 DEF RpcInv, ServedInv
<1>7. \A g \in Asked(l) \cup Answered(l) : g.corr # l.next
  <2>1. \A g \in Asked(l) \cup Answered(l) : g.corr \in Nat /\ g.corr < l.next
    BY StreamTypes DEF AnyFrame, LinkOK
  <2> QED BY <1>1, <2>1
<1>8. CallInv'
  BY <1>1, <1>2, <1>4, <1>7 DEF CallInv
<1>9. AnswersOwnCall'
  BY DEF RpcInv, AnswersOwnCall
<1> QED BY <1>4, <1>5, <1>6, <1>8, <1>9 DEF RpcInv

\* The first request a peer has read is one that was asked.
LEMMA FirstAsked ==
  ASSUME NEW l \in AnyLink, LinkOK(l), HasFrame(l.sbuf)
  PROVE  /\ TakeFrame(l.sbuf) \in AnyFrame /\ TakeFrame(l.sbuf) \in Asked(l)
         /\ TakeFrame(l.sbuf).type \in Requests
<1>1. l.sbuf \in Seq(AnyPiece) /\ l.up \o l.wbuf \in Seq(AnyPiece) /\ UpStream(l) \in Seq(AnyPiece)
  <2>1. l.sbuf \in Seq(AnyPiece) /\ l.up \in Seq(AnyPiece) /\ l.wbuf \in Seq(AnyPiece)
        /\ UpStream(l) \in Seq(AnyPiece)
    BY StreamTypes
  <2> QED BY <2>1
<1>2. UpStream(l) = l.sbuf \o (l.up \o l.wbuf)
  <2>1. l.sbuf \in Seq(AnyPiece) /\ l.up \in Seq(AnyPiece) /\ l.wbuf \in Seq(AnyPiece)
    BY StreamTypes
  <2>2. (l.sbuf \o l.up) \o l.wbuf = l.sbuf \o (l.up \o l.wbuf)
    BY <2>1, ThreeParts
  <2> QED BY <2>2 DEF UpStream
<1> DEFINE b == l.up \o l.wbuf
<1>3. l.sbuf \in Seq(AnyPiece) /\ b \in Seq(AnyPiece) /\ UpStream(l) = l.sbuf \o b
  BY <1>1, <1>2
<1> HIDE DEF b
<1>4. TakeFrame(l.sbuf) = TakeFrame(l.sbuf \o b) /\ Len(l.sbuf \o b) >= 2
  BY <1>3, TakenFromFirst
<1> DEFINE s == l.sbuf \o b
<1>5. s \in Seq(AnyPiece) /\ Framing(s) /\ Len(s) >= 2 /\ UpStream(l) = s
      /\ TakeFrame(l.sbuf) = TakeFrame(s)
  BY <1>1, <1>3, <1>4 DEF LinkOK
<1> HIDE DEF s
<1>6. TakeFrame(s) \in AnyFrame /\ TakeFrame(s) \in FramesOf(s)
  BY <1>5, FrameTaken
<1> QED BY <1>5, <1>6 DEF Asked, LinkOK

\* The answer to a frame, with its id and its call.
LEMMA FrameAnswered ==
  ASSUME NEW f \in AnyFrame, f.type \in Requests, NEW accepts \in BOOLEAN
  PROVE  LET r == [corr |-> f.corr,
                   type |-> IF accepts THEN Response(f.type) ELSE "VersionNotAccepted",
                   for |-> f.for]
         IN /\ r \in AnyFrame /\ r.corr = f.corr /\ r.for = f.for
            /\ r.type = IF accepts THEN Response(f.type) ELSE "VersionNotAccepted"
<1>1. f.corr \in Nat /\ f.for \in Calls
  BY DEF AnyFrame
<1>2. Response(f.type) \in Responses /\ "VersionNotAccepted" \in Responses
  BY DEF Responses
<1> QED BY <1>1, <1>2 DEF AnyFrame

\* A step that leaves every connection alone.
LEMMA LinksStay ==
  ASSUME RpcInv, UNCHANGED <<links, served>>, RpcType', AnswersOwnCall',
         ~InExchange' \/ (conn' = conn /\ InExchange /\ call'.id = call.id
                          /\ call'.type = call.type /\ call'.corr = call.corr)
  PROVE  RpcInv'
<1>1. CallInv'
  BY DEF RpcInv, CallInv
<1>2. ServedInv' /\ \A n \in Conns : LinkOK(links'[n])
  BY DEF RpcInv, ServedInv
<1> QED BY <1>1, <1>2 DEF RpcInv

\* A call begins on the cached connection, or has to connect.
LEMMA RequestStep ==
  ASSUME RpcInv, NEW c \in Calls, NEW t \in Requests, Request(c, t)
  PROVE  RpcInv'
<1>0. RpcType /\ AnswersOwnCall /\ UNCHANGED <<result, conn, opened, served>>
  BY DEF RpcInv, Request
<1>1. CASE conn = 0
  <2>1. call' = [id |-> c, type |-> t, phase |-> "connect"] /\ UNCHANGED links
    BY <1>1 DEF Request
  <2>2. call'.id = c /\ call'.type = t /\ call'.phase = "connect"
    BY <2>1
  <2>3. RpcType' /\ AnswersOwnCall'
    BY <1>0, <2>1, <2>2 DEF RpcType, AnswersOwnCall
  <2> QED BY <1>0, <2>1, <2>2, <2>3, LinksStay DEF InExchange
<1>2. CASE conn # 0
  <2>1. /\ SetLink(Staged(Link, [corr |-> Link.next, type |-> t, for |-> c]))
        /\ call' = [id |-> c, type |-> t, corr |-> Link.next, phase |-> "write",
                    fresh |-> FALSE, skipped |-> 0]
    BY <1>2 DEF Request, Exchange
  <2>2. call'.id = c /\ call'.type = t /\ call'.corr = links[conn].next
    BY <2>1 DEF Link
  <2>3. call' # NoCall
    <3>1. call'.id # 0
      BY <2>2 DEF Calls
    <3> QED BY <3>1 DEF NoCall
  <2>4. conn \in Conns /\ links[conn] \in AnyLink /\ LinkOK(links[conn]) /\ opened \in Nat
    BY <1>0, <1>2 DEF RpcType, RpcInv
  <2>5. links' = [links EXCEPT ![conn] =
                    Staged(links[conn], [corr |-> links[conn].next, type |-> t, for |-> c])]
    BY <2>1 DEF SetLink, Link
  <2> QED BY <1>0, <2>2, <2>3, <2>4, <2>5, ExchangeOK
<1> QED BY <1>1, <1>2

\* A call goes on with a connection of its own.
LEMMA ConnectStep ==
  ASSUME RpcInv, Connect
  PROVE  RpcInv'
<1>0. RpcType /\ call # NoCall /\ call.id \in Calls /\ call.type \in Requests
      /\ opened \in Nat /\ opened' = opened + 1 /\ conn' = opened + 1 /\ UNCHANGED <<result, served>>
      /\ opened < MaxConns
  BY DEF RpcInv, RpcType, Connect
<1>1. PICK accepts \in BOOLEAN :
        links' = [links EXCEPT ![opened + 1] =
                    Staged(NewLink(accepts), [corr |-> NewLink(accepts).next, type |-> call.type,
                                              for |-> call.id])]
  BY DEF Connect
<1> DEFINE l == NewLink(accepts)
<1>2. l \in AnyLink /\ LinkOK(l) /\ l.next = 0 /\ Answered(l) = {}
  BY NewOK
<1>3. opened + 1 \in Conns /\ opened' \in Nat
  BY <1>0, RpcAssumption DEF Conns
<1>4. call'.id = call.id /\ call'.type = call.type /\ call'.corr = 0
  BY DEF Connect
<1>5. call' # NoCall
  <2>1. call'.id # 0
    BY <1>0, <1>4 DEF Calls
  <2> QED BY <2>1 DEF NoCall
<1> HIDE DEF l
<1>6. links' = [links EXCEPT ![opened + 1] =
                  Staged(l, [corr |-> l.next, type |-> call.type, for |-> call.id])]
  BY <1>1 DEF l
<1> QED BY <1>0, <1>2, <1>3, <1>4, <1>5, <1>6, ExchangeOK

\* Bytes move between the buffers of one connection.
LEMMA BytesMove ==
  ASSUME RpcInv, WriteSome \/ (\E n \in Conns : ServerReads(n) \/ ServerCloses(n))
                 \/ (ReadSome /\ Link.down # <<>>)
  PROVE  RpcInv'
<1>0. RpcType /\ AnswersOwnCall /\ CallInv /\ UNCHANGED <<call, result, conn, opened, served>>
  BY DEF RpcInv, WriteSome, ServerReads, ServerCloses, ReadSome
<1>a. Exchanging("write") \/ Exchanging("read") => conn \in Conns
  BY <1>0 DEF Exchanging, CallInv, InExchange
<1>1. PICK n \in Conns, k \in AnyLink :
        /\ links' = [links EXCEPT ![n] = k] /\ LinkOK(k) /\ k.next = links[n].next
        /\ Asked(k) = Asked(links[n]) /\ Answered(k) = Answered(links[n])
  <2>0. \A n \in Conns : links[n] \in AnyLink /\ LinkOK(links[n])
    BY <1>0 DEF RpcType, RpcInv
  <2>1. CASE WriteSome
    <3> DEFINE k == [links[conn] EXCEPT !.up = Append(@, Head(links[conn].wbuf)), !.wbuf = Tail(@)]
    <3>1. conn \in Conns /\ links[conn].wbuf # <<>> /\ links' = [links EXCEPT ![conn] = k]
      BY <1>a, <2>1 DEF WriteSome, Link, SetLink
    <3> HIDE DEF k
    <3>2. /\ k \in AnyLink /\ LinkOK(k) /\ Asked(k) = Asked(links[conn])
          /\ Answered(k) = Answered(links[conn]) /\ k.next = links[conn].next
      BY <2>0, <3>1, WrittenOK DEF k
    <3> QED BY <3>1, <3>2
  <2>2. CASE ReadSome /\ Link.down # <<>>
    <3> DEFINE k == [links[conn] EXCEPT !.rbuf = Append(@, Head(links[conn].down)), !.down = Tail(@)]
    <3>1. conn \in Conns /\ links[conn].down # <<>> /\ links' = [links EXCEPT ![conn] = k]
      BY <1>a, <2>2 DEF ReadSome, Link, SetLink
    <3> HIDE DEF k
    <3>2. /\ k \in AnyLink /\ LinkOK(k) /\ Asked(k) = Asked(links[conn])
          /\ Answered(k) = Answered(links[conn]) /\ k.next = links[conn].next
      BY <2>0, <3>1, ReadOK DEF k
    <3> QED BY <3>1, <3>2
  <2>3. ASSUME NEW n \in Conns, ServerReads(n)
        PROVE  \E m \in Conns, k \in AnyLink :
                 /\ links' = [links EXCEPT ![m] = k] /\ LinkOK(k) /\ k.next = links[m].next
                 /\ Asked(k) = Asked(links[m]) /\ Answered(k) = Answered(links[m])
    <3> DEFINE k == [links[n] EXCEPT !.sbuf = Append(@, Head(links[n].up)), !.up = Tail(@)]
    <3>1. links[n].up # <<>> /\ links' = [links EXCEPT ![n] = k]
      BY <2>3 DEF ServerReads, SetServed
    <3> HIDE DEF k
    <3>2. /\ k \in AnyLink /\ LinkOK(k) /\ Asked(k) = Asked(links[n])
          /\ Answered(k) = Answered(links[n]) /\ k.next = links[n].next
      BY <2>0, <3>1, PeerReadOK DEF k
    <3> QED BY <3>1, <3>2
  <2>4. ASSUME NEW n \in Conns, ServerCloses(n)
        PROVE  \E m \in Conns, k \in AnyLink :
                 /\ links' = [links EXCEPT ![m] = k] /\ LinkOK(k) /\ k.next = links[m].next
                 /\ Asked(k) = Asked(links[m]) /\ Answered(k) = Answered(links[m])
    <3> DEFINE k == [links[n] EXCEPT !.serving = FALSE]
    <3>1. links' = [links EXCEPT ![n] = k]
      BY <2>4 DEF ServerCloses, SetServed
    <3>2. /\ k \in AnyLink /\ k.next = links[n].next /\ k.sbuf = links[n].sbuf
          /\ k.up = links[n].up /\ k.wbuf = links[n].wbuf /\ k.rbuf = links[n].rbuf
          /\ k.down = links[n].down
      BY <2>0 DEF AnyLink
    <3> HIDE DEF k
    <3>3. UpStream(k) = UpStream(links[n]) /\ DownStream(k) = DownStream(links[n])
      BY <3>2 DEF UpStream, DownStream
    <3> QED BY <2>0, <3>1, <3>2, <3>3, StreamsSame
  <2> QED BY <2>1, <2>2, <2>3, <2>4
<1>2. /\ links' \in [Conns -> AnyLink] /\ links'[n] = k
      /\ \A m \in Conns : LinkOK(links'[m]) /\ (m # n => links'[m] = links[m])
  BY <1>1, LinkChanges
<1>3. RpcType' /\ AnswersOwnCall'
  BY <1>0, <1>2 DEF RpcType, AnswersOwnCall
<1>4. ServedInv'
  BY <1>0, <1>1, <1>2 DEF RpcInv, ServedInv
<1>5. \A m \in Conns : /\ links'[m].next = links[m].next /\ Asked(links'[m]) = Asked(links[m])
                       /\ Answered(links'[m]) = Answered(links[m])
  BY <1>1, <1>2
<1>6. CallInv'
  <2>1. InExchange' => InExchange
    BY <1>0 DEF InExchange
  <2> QED BY <1>0, <1>5, <2>1, CallKeeps
<1> QED BY <1>2, <1>3, <1>4, <1>6 DEF RpcInv

\* The client takes one frame: a straggler, a refusal or its answer.
LEMMA TakeStep ==
  ASSUME RpcInv, TakeResponse
  PROVE  RpcInv'
<1> DEFINE l == links[conn]
           f == TakeFrame(l.rbuf)
           k == [l EXCEPT !.rbuf = AfterFrame(@)]
<1>0. /\ RpcType /\ AnswersOwnCall /\ CallInv /\ ServedInv /\ call # NoCall /\ InExchange
      /\ conn \in Conns /\ call.id \in Calls /\ call.type \in Requests
      /\ call.corr \in Nat /\ l.next = call.corr + 1
      /\ l \in AnyLink /\ LinkOK(l) /\ HasFrame(l.rbuf)
  BY DEF RpcInv, RpcType, TakeResponse, Exchanging, InExchange, CallInv, Link
<1>1. links' = [links EXCEPT ![conn] = k]
  BY DEF TakeResponse, SetLink, Link
<1> HIDE DEF l, k
<1>2. /\ k \in AnyLink /\ LinkOK(k) /\ Asked(k) = Asked(l) /\ Answered(k) \subseteq Answered(l)
      /\ k.next = l.next /\ f \in Answered(l)
  BY <1>0, TakenOK DEF k
<1>3. /\ links' \in [Conns -> AnyLink] /\ links'[conn] = k
      /\ \A m \in Conns : LinkOK(links'[m]) /\ (m # conn => links'[m] = links[m])
  BY <1>0, <1>1, <1>2, LinkChanges
<1> HIDE DEF f
<1>4. /\ f.corr \in Nat /\ f.corr < l.next
      /\ f.corr = call.corr =>
           f.for = call.id /\ f.type \in {Response(call.type), "VersionNotAccepted"}
      /\ f.type # "VersionNotAccepted" => served[f.for] >= 1
  <2>1. f \in AnyFrame
    BY <1>0, <1>2, StreamTypes
  <2> QED BY <1>0, <1>2, <2>1 DEF AnyFrame, LinkOK, CallInv, ServedInv, l
<1>5. f.corr < call.corr \/ f.corr = call.corr
  BY <1>0, <1>4
<1>6. ASSUME served' = served PROVE ServedInv'
  BY <1>0, <1>2, <1>3, <1>6 DEF ServedInv, l
<1>7. CASE \E r \in {"error", "refused"} : ExchangeFails(r)
  <2>1. PICK r \in {"error", "refused"} : ExchangeFails(r)
    BY <1>7
  <2>2. /\ result' \in [Calls -> [kind : {"new", "answer", "cancelled", "error", "refused"},
                                  for : Int]]
        /\ AnswersOwnCall' /\ ~InExchange' /\ conn' = 0 /\ UNCHANGED <<opened, served>>
        /\ call' # NoCall => call'.id \in Calls /\ call'.type \in Requests
    BY <1>0, <2>1, FailsOK
  <2>3. RpcType'
    BY <1>0, <1>3, <2>2 DEF RpcType
  <2>4. CallInv'
    BY <2>2 DEF CallInv
  <2> QED BY <1>3, <1>6, <2>2, <2>3, <2>4 DEF RpcInv
<1>8. CASE call' = [call EXCEPT !.skipped = @ + 1] /\ UNCHANGED <<result, conn, opened, served>>
  <2>1. \/ call' # NoCall /\ call'.id = call.id /\ call'.type = call.type
           /\ call'.corr = call.corr
        \/ call' = NoCall
    BY <1>8
  <2>2. RpcType' /\ AnswersOwnCall'
    BY <1>0, <1>3, <1>8, <2>1 DEF RpcType, AnswersOwnCall
  <2>3. CallInv'
    <3>1. InExchange' => InExchange /\ call'.id = call.id /\ call'.type = call.type
                         /\ call'.corr = call.corr
      BY <1>0, <2>1 DEF InExchange
    <3> QED BY <1>0, <1>2, <1>3, <1>8, <3>1, CallKeeps DEF l
  <2> QED BY <1>3, <1>6, <1>8, <2>2, <2>3 DEF RpcInv
<1>9. CASE /\ f.corr = call.corr /\ f.type # "VersionNotAccepted"
           /\ Ended("answer", f.for) /\ UNCHANGED <<conn, opened, served>>
  <2> DEFINE e == [kind |-> "answer", for |-> call.id]
  <2>1. f.for = call.id /\ served[call.id] >= 1
    BY <1>4, <1>9
  <2>2. /\ e \in [kind : {"new", "answer", "cancelled", "error", "refused"}, for : Int]
        /\ e.for = call.id
    BY <1>0 DEF Calls
  <2>3. result' = [result EXCEPT ![call.id] = e] /\ call' = NoCall
    BY <1>9, <2>1 DEF Ended, Result
  <2> HIDE DEF e
  <2>4. RpcType'
    BY <1>0, <1>3, <1>9, <2>2, <2>3 DEF RpcType
  <2>5. AnswersOwnCall'
    BY <1>0, <1>9, <2>1, <2>2, <2>3 DEF RpcType, AnswersOwnCall
  <2>6. CallInv'
    BY <2>3 DEF CallInv, InExchange
  <2> QED BY <1>3, <1>6, <1>9, <2>4, <2>5, <2>6 DEF RpcInv
<1>10. \/ \E r \in {"error", "refused"} : ExchangeFails(r)
       \/ call' = [call EXCEPT !.skipped = @ + 1] /\ UNCHANGED <<result, conn, opened, served>>
       \/ /\ f.corr = call.corr /\ f.type # "VersionNotAccepted"
          /\ Ended("answer", f.for) /\ UNCHANGED <<conn, opened, served>>
  <2>1. TakeFrame(Link.rbuf) = f
    BY DEF Link, f, l
  <2>2. ~(f.corr > call.corr)
    BY <1>0, <1>4, <1>5
  <2>3. CASE Straggler(f)
    BY <2>1, <2>3 DEF TakeResponse
  <2>4. CASE ~Straggler(f)
    <3>1. f.corr = call.corr
      BY <1>5, <2>4 DEF Straggler
    <3>2. CASE f.type = "VersionNotAccepted"
      BY <2>1, <2>4, <3>2 DEF TakeResponse
    <3>3. CASE f.type # "VersionNotAccepted"
      <4>1. f.type = Response(call.type)
        BY <1>4, <3>1, <3>3
      <4> QED BY <2>1, <2>2, <2>4, <3>1, <3>3, <4>1 DEF TakeResponse
    <3> QED BY <3>2, <3>3
  <2> QED BY <2>3, <2>4
<1> QED BY <1>7, <1>8, <1>9, <1>10

\* The peer handles one request.
LEMMA ProcessStep ==
  ASSUME RpcInv, NEW n \in Conns, ProcessRequest(n)
  PROVE  RpcInv'
<1> DEFINE l == links[n]
           f == TakeFrame(l.sbuf)
           r == [corr |-> f.corr, type |-> IF l.accepts THEN Response(f.type)
                                           ELSE "VersionNotAccepted", for |-> f.for]
           k == [l EXCEPT !.sbuf = AfterFrame(@), !.down = Framed(@, r),
                          !.serving = l.accepts /\ l.serving]
<1>0. /\ RpcType /\ AnswersOwnCall /\ CallInv /\ ServedInv /\ l \in AnyLink /\ LinkOK(l)
      /\ HasFrame(l.sbuf) /\ l.serving = TRUE /\ l.accepts \in BOOLEAN
      /\ UNCHANGED <<call, result, conn, opened>>
  BY DEF RpcInv, RpcType, ProcessRequest, AnyLink

<1> HIDE DEF l, k, r, f
<1>1. f \in AnyFrame /\ f \in Asked(l) /\ f.type \in Requests
  BY <1>0, FirstAsked DEF f
<1>2. /\ r \in AnyFrame /\ r.corr = f.corr /\ r.for = f.for
      /\ r.type = IF l.accepts THEN Response(f.type) ELSE "VersionNotAccepted"
  BY <1>0, <1>1, FrameAnswered DEF r
<1>3. links' = [links EXCEPT ![n] = k]
  <2>1. CASE l.accepts
    <3>1. r = [corr |-> f.corr, type |-> Response(f.type), for |-> f.for]
      BY <2>1 DEF r
    <3>2. links' = [links EXCEPT ![n] =
                      [[l EXCEPT !.sbuf = AfterFrame(@)] EXCEPT !.down = Framed(@, r)]]
      BY <2>1, <3>1 DEF ProcessRequest, SetServed, f, l
    <3>3. k = [[l EXCEPT !.sbuf = AfterFrame(@)] EXCEPT !.down = Framed(@, r)]
      BY <1>0, <2>1 DEF AnyLink, k
    <3> QED BY <3>2, <3>3
  <2>2. CASE ~l.accepts
    <3>1. r = [corr |-> f.corr, type |-> "VersionNotAccepted", for |-> f.for]
      BY <2>2 DEF r
    <3>2. links' = [links EXCEPT ![n] =
                      [[l EXCEPT !.sbuf = AfterFrame(@)] EXCEPT !.down = Framed(@, r),
                                                                !.serving = FALSE]]
      BY <2>2, <3>1 DEF ProcessRequest, SetServed, f, l
    <3>3. k = [[l EXCEPT !.sbuf = AfterFrame(@)] EXCEPT !.down = Framed(@, r), !.serving = FALSE]
      BY <1>0, <2>2 DEF AnyLink, k
    <3> QED BY <3>2, <3>3
  <2> QED BY <2>1, <2>2
<1>4. /\ k \in AnyLink /\ LinkOK(k) /\ Asked(k) \subseteq Asked(l)
      /\ Answered(k) = Answered(l) \cup {r} /\ k.next = l.next
  <2>1. /\ l.sbuf \in Seq(AnyPiece) /\ l.down \in Seq(AnyPiece) /\ l.rbuf \in Seq(AnyPiece)
        /\ l.up \in Seq(AnyPiece)
    BY <1>0, StreamTypes
  <2>2. AfterFrame(l.sbuf) \in Seq(AnyPiece)
    BY <1>0, <2>1, TakenFromFirst
  <2>3. Framed(l.down, r) \in Seq(AnyPiece)
    BY <1>2, <2>1, AddedToLast
  <2>4. /\ k \in AnyLink /\ k.sbuf = AfterFrame(l.sbuf) /\ k.down = Framed(l.down, r)
        /\ k.wbuf = l.wbuf /\ k.up = l.up /\ k.rbuf = l.rbuf /\ k.next = l.next
    BY <1>0, <2>2, <2>3 DEF AnyLink, k
  <2>5. /\ l \in AnyLink /\ LinkOK(l) /\ HasFrame(l.sbuf) /\ r \in AnyFrame
        /\ r.corr = TakeFrame(l.sbuf).corr
    BY <1>0, <1>2 DEF f
  <2> QED BY <2>4, <2>5, ProcessedOK
<1>5. /\ links' \in [Conns -> AnyLink] /\ links'[n] = k
      /\ \A m \in Conns : LinkOK(links'[m]) /\ (m # n => links'[m] = links[m])
  BY <1>3, <1>4, LinkChanges
<1>6. /\ f.for \in Calls /\ served' \in [Calls -> Nat]
      /\ \A c \in Calls : served'[c] >= served[c] /\ (served[c] >= 1 => served'[c] >= 1)
      /\ r.type # "VersionNotAccepted" => served'[r.for] >= 1
  <2>1. f.for \in Calls
    BY <1>1 DEF AnyFrame
  <2>2. CASE l.accepts
    <3>1. served' = [served EXCEPT ![f.for] = @ + 1]
      BY <2>2 DEF ProcessRequest, f, l
    <3> QED BY <1>0, <1>2, <2>1, <3>1 DEF RpcType
  <2>3. CASE ~l.accepts
    <3>1. served' = served /\ r.type = "VersionNotAccepted"
      BY <1>2, <2>3 DEF ProcessRequest, l
    <3> QED BY <1>0, <2>1, <3>1 DEF RpcType
  <2> QED BY <2>2, <2>3
<1>7. RpcType' /\ AnswersOwnCall'
  BY <1>0, <1>5, <1>6 DEF RpcType, AnswersOwnCall
<1>8. ServedInv'
  <2>1. ASSUME NEW m \in Conns, NEW g \in Answered(links[m]) PROVE g.for \in Calls
    BY <1>0, <2>1, StreamTypes DEF RpcType, AnyFrame
  <2> QED BY <1>0, <1>4, <1>5, <1>6, <2>1 DEF ServedInv, l
<1>9. CallInv'
  <2>1. InExchange' => InExchange
    BY <1>0 DEF InExchange
  <2>2. ASSUME conn \in Conns, conn = n
        PROVE  /\ links'[conn].next = links[conn].next
               /\ Asked(links'[conn]) \subseteq Asked(links[conn])
               /\ \A h \in Answered(links'[conn]) :
                    h \in Answered(links[conn]) \/
                    \E g \in Asked(links[conn]) :
                      /\ h.corr = g.corr /\ h.for = g.for
                      /\ h.type \in {Response(g.type), "VersionNotAccepted"}
    BY <2>2, <1>1, <1>2, <1>4, <1>5 DEF l
  <2>3. ASSUME conn \in Conns, conn # n
        PROVE  links'[conn] = links[conn]
    BY <2>3, <1>5
  <2> QED BY <1>0, <2>1, <2>2, <2>3, CallKeeps
<1> QED BY <1>5, <1>7, <1>8, <1>9 DEF RpcInv

\* The frames of every connection, from the start and through every step.
LEMMA RpcInvariant == RpcSpec => []RpcInv
<1>1. RpcInit => RpcInv
  <2> SUFFICES ASSUME RpcInit PROVE RpcInv
    OBVIOUS
  <2>1. links = [n \in Conns |-> NewLink(TRUE)] /\ call = NoCall /\ conn = 0 /\ opened = 0
        /\ served = [c \in Calls |-> 0] /\ result = [c \in Calls |-> [kind |-> "new", for |-> 0]]
    BY DEF RpcInit, Result
  <2>2. \A n \in Conns : links[n] \in AnyLink /\ LinkOK(links[n]) /\ Answered(links[n]) = {}
    BY <2>1, NewOK
  <2>3. RpcType
    <3>1. links \in [Conns -> AnyLink] /\ opened \in Nat /\ conn \in Conns \cup {0}
          /\ served \in [Calls -> Nat] /\ call = NoCall
      BY <2>1, <2>2
    <3>2. [kind |-> "new", for |-> 0]
            \in [kind : {"new", "answer", "cancelled", "error", "refused"}, for : Int]
      OBVIOUS
    <3> QED BY <2>1, <3>1, <3>2 DEF RpcType
  <2>4. CallInv /\ ServedInv /\ AnswersOwnCall
    BY <2>1, <2>2 DEF CallInv, InExchange, ServedInv, AnswersOwnCall
  <2> QED BY <2>2, <2>3, <2>4 DEF RpcInv
<1>2. RpcInv /\ [RpcNext]_rpcVars => RpcInv'
  <2> SUFFICES ASSUME RpcInv, [RpcNext]_rpcVars PROVE RpcInv'
    OBVIOUS
  <2>0. RpcType /\ AnswersOwnCall
    BY DEF RpcInv
  <2>1. CASE ConnectFails \/ Cancelled
    <3>1. /\ call # NoCall /\ UNCHANGED <<conn, opened, links, served>>
          /\ \E kind \in {"cancelled", "error", "refused"} : Ended(kind, 0)
      BY <2>1 DEF ConnectFails, Cancelled
    <3>2. /\ result' \in [Calls -> [kind : {"new", "answer", "cancelled", "error", "refused"},
                                    for : Int]]
          /\ call' = NoCall /\ AnswersOwnCall'
      BY <2>0, <3>1, EndedOK
    <3>3. RpcType'
      BY <2>0, <3>1, <3>2 DEF RpcType
    <3> QED BY <3>1, <3>2, <3>3, LinksStay DEF InExchange
  <2>2. CASE IoFails \/ (ReadSome /\ ~(Link.down # <<>>))
    <3>1. call # NoCall /\ ExchangeFails("error") /\ UNCHANGED links
      BY <2>2 DEF IoFails, ReadSome, Exchanging
    <3>2. /\ result' \in [Calls -> [kind : {"new", "answer", "cancelled", "error", "refused"},
                                    for : Int]]
          /\ AnswersOwnCall' /\ ~InExchange' /\ conn' = 0 /\ UNCHANGED <<opened, served>>
          /\ call' # NoCall => call'.id \in Calls /\ call'.type \in Requests
      BY <2>0, <3>1, FailsOK
    <3>3. RpcType'
      BY <2>0, <3>1, <3>2 DEF RpcType
    <3> QED BY <3>1, <3>2, <3>3, LinksStay
  <2>3. CASE Flushed
    <3>1. /\ call # NoCall /\ call.phase = "write" /\ call' = [call EXCEPT !.phase = "read"]
          /\ UNCHANGED <<result, conn, opened, links, served>>
      BY <2>3 DEF Flushed, Exchanging
    <3>2. call'.id = call.id /\ call'.type = call.type /\ call'.corr = call.corr
      BY <3>1
    <3>3. RpcType' /\ AnswersOwnCall'
      BY <2>0, <3>1, <3>2 DEF RpcType, AnswersOwnCall
    <3> QED BY <3>1, <3>2, <3>3, LinksStay DEF InExchange
  <2>4. CASE UNCHANGED rpcVars
    <3>1. UNCHANGED <<call, result, conn, opened, links, served>>
      BY <2>4 DEF rpcVars
    <3>2. RpcType' /\ AnswersOwnCall'
      BY <2>0, <3>1 DEF RpcType, AnswersOwnCall
    <3> QED BY <3>1, <3>2, LinksStay DEF InExchange
  <2> QED BY <2>1, <2>2, <2>3, <2>4, RequestStep, ConnectStep, BytesMove, TakeStep, ProcessStep
          DEF RpcNext
<1> QED BY <1>1, <1>2, PTL DEF RpcSpec

(***************************************************************************)
(* However calls are cancelled between two bytes, connections fail and     *)
(* answers come late, a call has the answer to its own request or none,    *)
(* and every connection carries whole frames in order.                     *)
(***************************************************************************)
THEOREM CallsStayApart == RpcSpec => []CallsKeepApart
<1>1. ASSUME NEW s \in Seq(AnyPiece), Framing(s) PROVE InFrames(s)
  <2>1. ASSUME NEW i \in 1..Len(s), i > 2 PROVE s[i - 2].frame.corr < s[i].frame.corr
    <3>1. i - 2 \in 1..Len(s) /\ i - 2 < i /\ i # (i - 2) + 1
      BY <2>1
    <3> QED BY <1>1, <3>1 DEF Framing
  <2> QED BY <1>1, <2>1 DEF Framing, InFrames
<1>2. RpcInv => CallsKeepApart
  <2> SUFFICES ASSUME RpcInv PROVE CallsKeepApart
    OBVIOUS
  <2>1. ASSUME NEW n \in Conns
        PROVE  /\ InFrames(links[n].sbuf \o links[n].up \o links[n].wbuf)
               /\ InFrames(links[n].rbuf \o links[n].down)
    <3>1. links[n] \in AnyLink /\ LinkOK(links[n])
      BY DEF RpcInv, RpcType
    <3>2. InFrames(UpStream(links[n])) /\ InFrames(DownStream(links[n]))
      BY <1>1, <3>1, StreamTypes DEF LinkOK
    <3> QED BY <3>2 DEF UpStream, DownStream
  <2>2. \A c \in Calls : result[c].kind # "mismatch"
    BY DEF RpcInv, RpcType
  <2> QED BY <2>1, <2>2 DEF CallsKeepApart, StreamStaysFramed, RpcInv
<1> QED BY <1>2, RpcInvariant, PTL

-----------------------------------------------------------------------------
(* The change of membership. *)

(***************************************************************************)
(* Membership.  While no deposed node leads again over handlers it still   *)
(* runs (Returning = FALSE), the handlers that can commit are those of the *)
(* leader, of which one at most holds membership_lock; what that one read  *)
(* is still so when it commits.                                            *)
(***************************************************************************)

MemberSteps ==
  {"done", "lock", "record", "resume", "learn", "applied", "intend", "change", "flatten",
   "wait", "forget", "survey", "raise", "drain", "observe"}

MemberOps ==
  [kind : {"none", "join", "promote", "remove", "finalize", "transfer"},
   at : Members \union {{}}, node : Members \union {{}}, voter : BOOLEAN,
   step : MemberSteps, goal : SUBSET Members, level : 0 .. 2]

Configs == [voters : Seq(SUBSET Members), nodes : SUBSET Members]

\* The configuration has voters, and a node for each.
ConfigInv ==
  /\ config \in Configs /\ config.voters # <<>>
  /\ VoterIds # {} /\ VoterIds \subseteq config.nodes

MemberType ==
  /\ registry \subseteq Members /\ level \in Builds /\ lead \in Members
  /\ build \in [Members -> Builds]
  /\ ops \in [Handlers -> MemberOps]

\* The steps a handler takes under membership_lock.
Holding(i) == ops[i].step \notin {"done", "lock", "applied", "intend"}

LockInv ==
  \A i, j \in Handlers : Holding(i) /\ Holding(j) /\ ops[i].at = ops[j].at => i = j

\* What a handler knows of the membership between its read and its commit.
Knows(i) ==
  /\ ops[i].step = "raise" =>
       ops[i].level \in Builds /\ \A n \in config.nodes : build[n] >= ops[i].level
  /\ ops[i].step \in {"lock", "record", "resume", "learn"} => ops[i].node \in Members
  /\ ops[i].step \in {"record", "learn"} => build[ops[i].node] >= level
  /\ ops[i].step = "learn" => ops[i].node \in registry
  /\ ops[i].step = "forget" => ops[i].node \notin config.nodes
  /\ ops[i].step \in {"change", "flatten"} =>
       \/ ops[i].kind = "promote" /\ ops[i].goal # {} /\ VoterIds \subseteq ops[i].goal
       \/ ops[i].kind = "remove" /\ ops[i].goal = {}
       \/ ops[i].kind = "remove" /\ VoterIds \ {ops[i].node} \subseteq ops[i].goal

LeaderInv == \A i \in Handlers : ops[i].at = lead => Knows(i)

MemberInv ==
  /\ ConfigInv /\ MemberType /\ LockInv /\ LeaderInv
  /\ EveryMemberDecodes /\ MembersAreRecorded /\ NoLastingSilence

\* ToSet of the sequences of one and of two voter sets.
LEMMA ToSetShort ==
  ASSUME NEW a, NEW b
  PROVE  ToSet(<<a>>) = {a} /\ ToSet(<<a, b>>) = {a, b}
<1>1. DOMAIN <<a>> = {1} /\ <<a>>[1] = a
  OBVIOUS
<1>2. DOMAIN <<a, b>> = {1, 2} /\ <<a, b>>[1] = a /\ <<a, b>>[2] = b
  OBVIOUS
<1> QED BY <1>1, <1>2 DEF ToSet

\* The voters of a configuration are members, the last voter set among them.
LEMMA VotersAreMembers ==
  ASSUME ConfigInv
  PROVE  VoterIds \subseteq Members /\ Last(config.voters) \subseteq VoterIds
<1>1. /\ config.voters \in Seq(SUBSET Members) /\ Len(config.voters) \in DOMAIN config.voters
  BY DEF ConfigInv, Configs
<1>2. \A k \in DOMAIN config.voters : config.voters[k] \subseteq Members
  BY <1>1
<1> QED BY <1>1, <1>2 DEF VoterIds, ToSet, Last

\* The voter set asked for is among the new ones, with the last of the old ones
\* at most, and no node comes in.
LEMMA NextKeepsGoal ==
  ASSUME ConfigInv, NEW goal \in SUBSET Members
  PROVE  LET c == NextCoherent(goal) IN
         /\ c \in Configs /\ c.voters # <<>>
         /\ goal \subseteq UNION ToSet(c.voters)
         /\ UNION ToSet(c.voters) \subseteq VoterIds \union goal
         /\ c.nodes \subseteq config.nodes
<1> DEFINE sets == IF goal \in ToSet(config.voters) THEN <<goal>> ELSE <<Last(config.voters), goal>>
<1>1. Last(config.voters) \subseteq VoterIds /\ VoterIds \subseteq Members
  BY VotersAreMembers
<1> DEFINE last == Last(config.voters)
<1>2. UNION ToSet(sets) = goal \/ UNION ToSet(sets) = last \union goal
  <2>1. ToSet(<<goal>>) = {goal} /\ ToSet(<<last, goal>>) = {last, goal}
    BY ToSetShort
  <2>2. UNION {goal} = goal /\ UNION {last, goal} = last \union goal
    OBVIOUS
  <2> HIDE DEF last
  <2>3. sets = <<goal>> \/ sets = <<Last(config.voters), goal>>
    OBVIOUS
  <2> QED BY <2>1, <2>2, <2>3 DEF last
<1>3. sets \in Seq(SUBSET Members) /\ sets # <<>>
  <2>1. last \in SUBSET Members
    BY <1>1
  <2> HIDE DEF last
  <2>2. <<goal>> \in Seq(SUBSET Members) /\ <<goal>> # <<>>
    OBVIOUS
  <2>3. <<last, goal>> \in Seq(SUBSET Members) /\ <<last, goal>> # <<>>
    BY <2>1
  <2> QED BY <2>2, <2>3 DEF last
<1>4. NextCoherent(goal) = [voters |-> sets, nodes |-> config.nodes \ (VoterIds \ UNION ToSet(sets))]
  BY DEF NextCoherent
<1> HIDE DEF sets
<1>5. config.nodes \subseteq Members
  BY DEF ConfigInv, Configs
<1> QED BY <1>1, <1>2, <1>3, <1>4, <1>5 DEF Configs

\* A handler's own step: the cluster stays as it is.
LEMMA OpMoves ==
  ASSUME MemberInv, NEW i \in Handlers,
         UNCHANGED <<config, registry, level, lead, build>>,
         ops' \in [Handlers -> MemberOps], \A j \in Handlers \ {i} : ops'[j] = ops[j],
         Holding(i)' => \A j \in Handlers \ {i} : Holding(j) => ops[j].at # ops'[i].at,
         ops'[i].at = lead => Knows(i)', NoLastingSilence'
  PROVE  MemberInv'
<1>1. ConfigInv' /\ MemberType' /\ EveryMemberDecodes' /\ MembersAreRecorded'
  BY DEF MemberInv, ConfigInv, MemberType, EveryMemberDecodes, MembersAreRecorded, VoterIds
<1>2. LockInv'
  BY DEF MemberInv, LockInv, Holding
<1>3. \A j \in Handlers \ {i} : ops'[j].at = lead => Knows(j)'
  BY DEF MemberInv, LeaderInv, Knows, VoterIds
<1> QED BY <1>1, <1>2, <1>3 DEF MemberInv, LeaderInv

\* The leader's handler under the lock commits: no other handler of the leader
\* is between a read and a commit.
LEMMA OpCommits ==
  ASSUME MemberInv, NEW i \in Handlers, Holding(i), ops[i].at = lead, UNCHANGED <<lead, build>>,
         ConfigInv', registry' \subseteq Members, level' \in Builds,
         ops' \in [Handlers -> MemberOps], \A j \in Handlers \ {i} : ops'[j] = ops[j],
         Holding(i)' => ops'[i].at = ops[i].at, ops'[i].at = lead => Knows(i)',
         EveryMemberDecodes', MembersAreRecorded', NoLastingSilence'
  PROVE  MemberInv'
<1>1. MemberType'
  BY DEF MemberInv, MemberType
<1>2. LockInv'
  BY DEF MemberInv, LockInv, Holding
<1>3. \A j \in Handlers \ {i} : ops[j].at = lead => ~Holding(j)
  BY DEF MemberInv, LockInv
<1>4. \A j \in Handlers \ {i} : ops'[j].at = lead => Knows(j)'
  BY <1>3 DEF Holding, Knows, MemberInv, LeaderInv
<1> QED BY <1>1, <1>2, <1>4 DEF MemberInv, LeaderInv

\* A silenced process still has its transfer while handlers go on.
LEMMA SilenceGoesOn ==
  ASSUME MemberInv, NEW i \in Handlers, \A j \in Handlers \ {i} : ops'[j] = ops[j],
         ops'[i].at = ops[i].at, ops'[i].kind = ops[i].kind,
         silent' \subseteq silent \union IF ops[i].kind = "transfer" THEN {ops[i].at} ELSE {}
  PROVE  NoLastingSilence'
BY DEF MemberInv, NoLastingSilence, TransferLocked

\* A handler ends: its guards fall, and with a transfer the silence of its node.
LEMMA OpEnds ==
  ASSUME MemberInv, NEW i \in Handlers, Ends(i)
  PROVE  /\ ops' \in [Handlers -> MemberOps] /\ ops'[i] = NoOp
         /\ \A j \in Handlers \ {i} : ops'[j] = ops[j]
         /\ ~Holding(i)' /\ Knows(i)' /\ NoLastingSilence'
<1>1. NoOp \in MemberOps
  BY DEF NoOp, MemberOps, MemberSteps
<1>2. /\ ops' \in [Handlers -> MemberOps] /\ ops'[i] = NoOp
      /\ \A j \in Handlers \ {i} : ops'[j] = ops[j]
  BY <1>1 DEF Ends, MemberInv, MemberType
<1>3. ~Holding(i)' /\ Knows(i)'
  BY <1>2 DEF Holding, Knows, NoOp
<1>4. \A p \in silent' : p \in silent /\ ~(ops[i].kind = "transfer" /\ ops[i].at = p)
  BY DEF Ends, MemberInv, NoLastingSilence, TransferLocked
<1>5. NoLastingSilence'
  BY <1>2, <1>4 DEF MemberInv, NoLastingSilence, TransferLocked
<1> QED BY <1>2, <1>3, <1>5

\* A handler that returns, or is dropped, without a commit.
LEMMA OpGivesUp ==
  ASSUME MemberInv, NEW i \in Handlers, Ends(i), UNCHANGED <<config, registry, level, lead, build>>
  PROVE  MemberInv'
BY OpEnds, OpMoves

\* A handler that goes to its next step and keeps the cluster as it is.
LEMMA OpGoes ==
  ASSUME MemberInv, NEW i \in Handlers, NEW step \in MemberSteps, Goes(i, step)
  PROVE  /\ ops' \in [Handlers -> MemberOps] /\ ops'[i] = [ops[i] EXCEPT !.step = step]
         /\ ops'[i].step = step /\ ops'[i].at = ops[i].at /\ ops'[i].kind = ops[i].kind
         /\ ops'[i].node = ops[i].node /\ ops'[i].goal = ops[i].goal
         /\ \A j \in Handlers \ {i} : ops'[j] = ops[j]
         /\ UNCHANGED silent => NoLastingSilence'
<1>1. ops \in [Handlers -> MemberOps] /\ ops[i] \in MemberOps
  BY DEF MemberInv, MemberType
<1>2. [ops[i] EXCEPT !.step = step] \in MemberOps
  BY <1>1 DEF MemberOps
<1>3. /\ ops' \in [Handlers -> MemberOps] /\ ops'[i] = [ops[i] EXCEPT !.step = step]
      /\ \A j \in Handlers \ {i} : ops'[j] = ops[j]
  BY <1>1, <1>2 DEF Goes
<1>4. /\ ops'[i].step = step /\ ops'[i].at = ops[i].at /\ ops'[i].kind = ops[i].kind
      /\ ops'[i].node = ops[i].node /\ ops'[i].goal = ops[i].goal
  BY <1>1, <1>3 DEF MemberOps
<1> QED BY <1>3, <1>4, SilenceGoesOn

\* What an admitted handler has read under the lock.
LEMMA FirstStepKnows ==
  ASSUME MemberInv, NEW i \in Handlers, ops[i].step = "lock", Admitted(i)
  PROVE  LET f == FirstStep(i) IN
         /\ f \in MemberOps /\ f.at = ops[i].at /\ f.kind = ops[i].kind /\ f.node = ops[i].node
         /\ f.step \in {"record", "resume", "change", "survey", "drain"}
         /\ f.node \in Members
         /\ f.step = "record" => build[f.node] >= level
         /\ f.step = "change" =>
              \/ f.kind = "promote" /\ f.goal # {} /\ VoterIds \subseteq f.goal
              \/ f.kind = "remove" /\ f.goal = {}
              \/ f.kind = "remove" /\ VoterIds \ {f.node} \subseteq f.goal
<1> DEFINE o == ops[i]
<1>1. o \in MemberOps /\ build \in [Members -> Builds] /\ config.nodes \subseteq Members
  BY DEF MemberInv, MemberType, ConfigInv, Configs
<1>2. VoterIds \subseteq Members
  BY VotersAreMembers DEF MemberInv
<1>0. o.node \in Members
  BY DEF Admitted, MemberInv, LeaderInv, Knows
<1>3. CASE o.kind = "join"
  <2>1. FirstStep(i) = [o EXCEPT !.step = JoinStep(o.node)]
    BY <1>3 DEF FirstStep
  <2>2. JoinAllowed(o.node)
    BY <1>3 DEF Admitted
  <2>3. JoinStep(o.node) \in {"record", "resume"} 
    BY DEF JoinStep
  <2>4. build[o.node] >= level
    BY <2>2 DEF JoinAllowed
  <2> QED BY <1>0, <1>1, <1>3, <2>1, <2>3, <2>4 DEF MemberOps, MemberSteps
<1>4. CASE o.kind = "promote"
  <2> DEFINE goal == VoterIds \union {o.node}
  <2>1. FirstStep(i) = [o EXCEPT !.step = "change", !.goal = goal]
    BY <1>4 DEF FirstStep
  <2>2. goal \in SUBSET Members /\ goal # {} /\ VoterIds \subseteq goal
    BY <1>1, <1>2, <1>4 DEF Admitted, PromoteAllowed
  <2> HIDE DEF goal
  <2> QED BY <1>0, <1>1, <1>2, <1>4, <2>1, <2>2 DEF MemberOps, MemberSteps
<1>5. CASE o.kind = "remove"
  <2> DEFINE goal == IF o.node \in VoterIds THEN VoterIds \ {o.node} ELSE {}
  <2>1. FirstStep(i) = [o EXCEPT !.step = "change", !.goal = goal]
    BY <1>5 DEF FirstStep
  <2>2. goal \in SUBSET Members /\ (goal = {} \/ VoterIds \ {o.node} \subseteq goal)
    BY <1>2
  <2> HIDE DEF goal
  <2> QED BY <1>0, <1>1, <1>5, <2>1, <2>2 DEF MemberOps, MemberSteps
<1>6. CASE o.kind = "finalize"
  <2>1. FirstStep(i) = [o EXCEPT !.step = "survey"]
    BY <1>6 DEF FirstStep
  <2> QED BY <1>0, <1>1, <2>1 DEF MemberOps, MemberSteps
<1>7. CASE o.kind = "transfer"
  <2>1. FirstStep(i) = [o EXCEPT !.step = "drain"]
    BY <1>7 DEF FirstStep
  <2> QED BY <1>0, <1>1, <2>1 DEF MemberOps, MemberSteps
<1> QED BY <1>3, <1>4, <1>5, <1>6, <1>7 DEF Admitted

\* A handler takes the lock and reads, or is refused.
LEMMA LocksPreserves ==
  ASSUME MemberInv, NEW i \in Handlers, Locks(i)
  PROVE  MemberInv'
<1>1. /\ ops[i].step = "lock" /\ ~MembershipLocked(ops[i].at)
      /\ UNCHANGED <<config, registry, level, lead, build>>
  BY DEF Locks, Standing
<1>2. CASE Ends(i)
  BY <1>1, <1>2, OpGivesUp
<1>3. CASE /\ Admitted(i) /\ ops' = [ops EXCEPT ![i] = FirstStep(i)]
           /\ silent' = IF ops[i].kind = "transfer" THEN silent \union {ops[i].at} ELSE silent
  <2> DEFINE f == FirstStep(i)
  <2>1. /\ f \in MemberOps /\ f.at = ops[i].at /\ f.kind = ops[i].kind /\ f.node = ops[i].node
        /\ f.step \in {"record", "resume", "change", "survey", "drain"}
        /\ f.node \in Members
        /\ f.step = "record" => build[f.node] >= level
        /\ f.step = "change" =>
             \/ f.kind = "promote" /\ f.goal # {} /\ VoterIds \subseteq f.goal
             \/ f.kind = "remove" /\ f.goal = {}
             \/ f.kind = "remove" /\ VoterIds \ {f.node} \subseteq f.goal
    BY <1>1, <1>3, FirstStepKnows
  <2> HIDE DEF f
  <2>2. /\ ops' \in [Handlers -> MemberOps] /\ ops'[i] = f
        /\ \A j \in Handlers \ {i} : ops'[j] = ops[j]
    BY <1>3, <2>1 DEF f, MemberInv, MemberType
  <2>3. \A j \in Handlers \ {i} : Holding(j) => ops[j].at # ops'[i].at
    BY <1>1, <2>1, <2>2 DEF MembershipLocked, Holding
  <2>4. VoterIds' = VoterIds
    BY <1>1 DEF VoterIds
  <2>5. Knows(i)'
    BY <1>1, <2>1, <2>2, <2>4 DEF Knows
  <2>6. NoLastingSilence'
    BY <1>3, <2>1, <2>2, SilenceGoesOn
  <2> QED BY <1>1, <2>2, <2>3, <2>5, <2>6, OpMoves
<1> QED BY <1>2, <1>3 DEF Locks

\* A request starts a handler that waits for the lock.
LEMMA StartPreserves ==
  ASSUME MemberInv, NEW i \in Handlers, ops[i] = NoOp, NEW o \in MemberOps, o.step = "lock", o.node \in Members,
         ops' = [ops EXCEPT ![i] = o], UNCHANGED <<config, registry, level, lead, silent, build>>
  PROVE  MemberInv'
<1>1. /\ ops' \in [Handlers -> MemberOps] /\ ops'[i] = o
      /\ \A j \in Handlers \ {i} : ops'[j] = ops[j]
  BY DEF MemberInv, MemberType
<1>2. ~Holding(i)' /\ Knows(i)'
  BY <1>1 DEF Holding, Knows
<1>3. ops[i].kind = "none"
  BY DEF NoOp
<1>4. NoLastingSilence'
  BY <1>1, <1>3 DEF MemberInv, NoLastingSilence, TransferLocked
<1> QED BY <1>1, <1>2, <1>4, OpMoves

\* A new handler waits for the lock.
LEMMA OpIsTyped ==
  ASSUME NEW kind \in {"join", "promote", "remove", "finalize", "transfer"},
         NEW p \in Members, NEW n \in Members, NEW v \in BOOLEAN
  PROVE  LET o == Op(kind, p, n, v) IN o \in MemberOps /\ o.step = "lock" /\ o.node \in Members
<1>1. NoOp \in MemberOps /\ "lock" \in MemberSteps
  BY DEF NoOp, MemberOps, MemberSteps
<1>2. Op(kind, p, n, v) = [NoOp EXCEPT !.kind = kind, !.at = p, !.node = n, !.voter = v, !.step = "lock"]
  BY DEF Op
<1> QED BY <1>1, <1>2 DEF MemberOps

\* A request reaches the leader.
LEMMA RequestedPreserves ==
  ASSUME MemberInv, NEW i \in Handlers, Requested(i)
  PROVE  MemberInv'
<1>1. PICK n \in Members, kind \in {"join", "promote", "remove", "finalize", "transfer"}, v \in BOOLEAN :
        Asks(i, kind, lead, n, v)
  BY DEF Requested
<1>2. lead \in Members
  BY DEF MemberInv, MemberType
<1>3. /\ ops[i] = NoOp /\ ops' = [ops EXCEPT ![i] = Op(kind, lead, n, v)]
      /\ UNCHANGED <<config, registry, level, lead, silent, build>>
  BY <1>1 DEF Asks
<1>4. LET o == Op(kind, lead, n, v) IN o \in MemberOps /\ o.step = "lock" /\ o.node \in Members
  BY <1>2, OpIsTyped
<1> QED BY <1>3, <1>4, StartPreserves

\* The loop that promotes intended voters starts a promotion.
LEMMA IntentPassPreserves ==
  ASSUME MemberInv, NEW i \in Handlers, NEW p \in Members, IntentPass(i, p)
  PROVE  MemberInv'
<1>1. PICK n \in intent \cap LearnerIds : ops' = [ops EXCEPT ![i] = Op("promote", p, n, FALSE)]
  BY DEF IntentPass
<1>2. n \in Members
  BY <1>1 DEF LearnerIds, MemberInv, ConfigInv, Configs
<1>3. ops[i] = NoOp /\ UNCHANGED <<config, registry, level, lead, silent, build>>
  BY DEF IntentPass
<1> QED BY <1>1, <1>2, <1>3, OpIsTyped, StartPreserves

\* A join commits the record of its node.
LEMMA ReplicateNodeInfoPreserves ==
  ASSUME MemberInv, NEW i \in Handlers, ReplicateNodeInfo(i)
  PROVE  MemberInv'
<1>1. ops[i].step \in {"record", "resume"} /\ UNCHANGED <<lead, build>>
  BY DEF ReplicateNodeInfo, Standing
<1>2. CASE Refused(i)
  BY <1>1, <1>2, OpGivesUp DEF Refused
<1>3. CASE /\ Commits(i) /\ registry' = registry \union {ops[i].node}
           /\ Goes(i, IF ops[i].step = "record" THEN "learn" ELSE "applied")
           /\ UNCHANGED <<config, intent, level, silent>>
  <2> DEFINE step == IF ops[i].step = "record" THEN "learn" ELSE "applied"
  <2>1. step \in MemberSteps
    BY DEF MemberSteps
  <2>2. Goes(i, step) /\ ops[i].at = lead /\ Holding(i)
    BY <1>1, <1>3 DEF Commits, Holding
  <2>3. /\ ops' \in [Handlers -> MemberOps] /\ \A j \in Handlers \ {i} : ops'[j] = ops[j]
        /\ ops'[i].step = step /\ ops'[i].at = ops[i].at /\ ops'[i].node = ops[i].node
        /\ NoLastingSilence'
    BY <1>3, <2>1, <2>2, OpGoes
  <2>4. ops[i] \in MemberOps /\ registry \subseteq Members /\ level \in Builds
    BY DEF MemberInv, MemberType
  <2>5. Knows(i)
    BY <2>2 DEF MemberInv, LeaderInv
  <2>6. registry' \subseteq Members /\ level' \in Builds
    BY <1>1, <1>3, <2>4, <2>5 DEF Knows
  <2>7. Knows(i)'
    BY <1>1, <1>3, <2>3, <2>5 DEF Knows
  <2>8. ConfigInv' /\ EveryMemberDecodes' /\ MembersAreRecorded'
    BY <1>1, <1>3 DEF MemberInv, ConfigInv, VoterIds, EveryMemberDecodes, MembersAreRecorded
  <2> QED BY <1>1, <2>2, <2>3, <2>6, <2>7, <2>8, OpCommits
<1> QED BY <1>2, <1>3 DEF ReplicateNodeInfo

\* A join adds a node that has a record and decodes the level.
LEMMA AddLearnerPreserves ==
  ASSUME MemberInv, NEW i \in Handlers, AddLearner(i)
  PROVE  MemberInv'
<1>1. ops[i].step = "learn" /\ UNCHANGED <<lead, build>>
  BY DEF AddLearner, Standing
<1>2. CASE Refused(i)
  BY <1>1, <1>2, OpGivesUp DEF Refused
<1>3. CASE /\ Commits(i) /\ config' = [config EXCEPT !.nodes = @ \union {ops[i].node}]
           /\ Goes(i, "applied") /\ UNCHANGED <<registry, intent, level, silent>>
  <2>1. "applied" \in MemberSteps
    BY DEF MemberSteps
  <2>2. ops[i].at = lead /\ Holding(i)
    BY <1>1, <1>3 DEF Commits, Holding
  <2>3. /\ ops' \in [Handlers -> MemberOps] /\ \A j \in Handlers \ {i} : ops'[j] = ops[j]
        /\ ops'[i].step = "applied" /\ ops'[i].at = ops[i].at /\ NoLastingSilence'
    BY <1>3, <2>1, OpGoes
  <2>4. /\ ops[i].node \in Members /\ build[ops[i].node] >= level /\ ops[i].node \in registry
    BY <1>1, <2>2 DEF MemberInv, LeaderInv, Knows
  <2>5. /\ config \in Configs /\ config' \in Configs /\ config'.voters = config.voters
        /\ config'.nodes = config.nodes \union {ops[i].node}
    BY <1>3, <2>4 DEF MemberInv, ConfigInv, Configs
  <2>6. VoterIds' = VoterIds
    BY <2>5 DEF VoterIds
  <2>7. ConfigInv'
    BY <2>5, <2>6 DEF MemberInv, ConfigInv
  <2>8. EveryMemberDecodes' /\ MembersAreRecorded'
    BY <1>1, <1>3, <2>4, <2>5 DEF MemberInv, EveryMemberDecodes, MembersAreRecorded
  <2>9. Knows(i)' /\ registry' \subseteq Members /\ level' \in Builds
    BY <1>3, <2>3 DEF Knows, MemberInv, MemberType
  <2> QED BY <1>1, <2>2, <2>3, <2>7, <2>8, <2>9, OpCommits
<1> QED BY <1>2, <1>3 DEF AddLearner

\* Steps that read the cluster and change a handler only.
LEMMA ReadsPreserve ==
  ASSUME MemberInv, NEW i \in Handlers, JoinApplied(i) \/ ChangeApplied(i) \/ Drained(i)
  PROVE  MemberInv'
<1>1. UNCHANGED <<config, registry, level, lead, build>>
  BY DEF JoinApplied, ChangeApplied, Drained, Standing
<1>2. CASE Ends(i)
  BY <1>1, <1>2, OpGivesUp
<1>3. CASE /\ UNCHANGED silent
           /\ \/ Goes(i, "intend")
              \/ Goes(i, "observe") /\ ops[i].step = "drain"
              \/ Goes(i, "forget") /\ ops[i].step = "wait" /\ Role(ops[i].node) = "Removed"
  <2>1. PICK step \in {"intend", "observe", "forget"} :
          /\ Goes(i, step)
          /\ step # "intend" => ops[i].step \in {"drain", "wait"}
          /\ step = "forget" => Role(ops[i].node) = "Removed"
    BY <1>3
  <2>2. /\ ops' \in [Handlers -> MemberOps] /\ \A j \in Handlers \ {i} : ops'[j] = ops[j]
        /\ ops'[i].step = step /\ ops'[i].at = ops[i].at /\ ops'[i].node = ops[i].node
        /\ NoLastingSilence'
    BY <1>3, <2>1, OpGoes DEF MemberSteps
  <2>3. Role(ops[i].node) = "Removed" => ops[i].node \notin config.nodes
    BY DEF Role, LearnerIds
  <2>4. Knows(i)'
    BY <1>1, <2>1, <2>2, <2>3 DEF Knows
  <2>5. Holding(i)' => \A j \in Handlers \ {i} : Holding(j) => ops[j].at # ops'[i].at
    BY <2>1, <2>2 DEF Holding, MemberInv, LockInv
  <2> QED BY <1>1, <2>2, <2>4, <2>5, OpMoves
<1> QED BY <1>2, <1>3 DEF JoinApplied, ChangeApplied, Drained

\* A removal drops the record of a node that is no member.
LEMMA ForgetPreserves ==
  ASSUME MemberInv, NEW i \in Handlers, Forget(i)
  PROVE  MemberInv'
<1>1. ops[i].step = "forget" /\ UNCHANGED <<lead, build>>
  BY DEF Forget, Standing
<1>2. CASE Refused(i)
  BY <1>1, <1>2, OpGivesUp DEF Refused
<1>3. CASE /\ Commits(i) /\ registry' = registry \ {ops[i].node} /\ Ends(i)
           /\ UNCHANGED <<config, level>>
  <2>1. ops[i].at = lead /\ Holding(i)
    BY <1>1, <1>3 DEF Commits, Holding
  <2>2. ops[i].node \notin config.nodes
    BY <1>1, <2>1 DEF MemberInv, LeaderInv, Knows
  <2>3. ConfigInv' /\ EveryMemberDecodes' /\ MembersAreRecorded'
    BY <1>1, <1>3, <2>2 DEF MemberInv, ConfigInv, VoterIds, EveryMemberDecodes, MembersAreRecorded
  <2>4. registry' \subseteq Members /\ level' \in Builds
    BY <1>3 DEF MemberInv, MemberType
  <2>5. /\ ops' \in [Handlers -> MemberOps] /\ \A j \in Handlers \ {i} : ops'[j] = ops[j]
        /\ ~Holding(i)' /\ Knows(i)' /\ NoLastingSilence'
    BY <1>3, OpEnds
  <2> QED BY <1>1, <2>1, <2>3, <2>4, <2>5, OpCommits
<1> QED BY <1>2, <1>3 DEF Forget

\* IntendVoter, a dropped handler and the end of a transfer leave membership be.
LEMMA EndsPreserve ==
  ASSUME MemberInv, NEW i \in Handlers, IntendVoter(i) \/ Observed(i) \/ HangUp(i)
  PROVE  MemberInv'
<1>1. Ends(i) /\ UNCHANGED <<config, registry, level, lead, build>>
  BY DEF IntendVoter, Observed, HangUp, Refused, Standing
<1> QED BY <1>1, OpGivesUp

\* The configuration a leader's change leads to: of the voters, only the one
\* that is removed may have left, and no node came in.
LEMMA ChangedKeepsVoters ==
  ASSUME MemberInv, NEW i \in Handlers, ops[i].at = lead, ops[i].step \in {"change", "flatten"}
  PROVE  LET o == ops[i]
             ids == UNION ToSet(Changed(o).voters)
         IN  /\ Changed(o) \in Configs /\ Changed(o).voters # <<>> /\ ids # {}
             /\ Changed(o).nodes \subseteq config.nodes
             /\ \A n \in VoterIds \ ids : o.kind = "remove" /\ n = o.node
             /\ \/ o.kind = "promote" /\ o.goal # {} /\ ids \subseteq o.goal
                \/ o.kind = "remove" /\ o.goal = {}
                \/ o.kind = "remove" /\ ids \ {o.node} \subseteq o.goal
<1> DEFINE o == ops[i]
           ids == UNION ToSet(Changed(o).voters)
<1> SUFFICES /\ Changed(o) \in Configs /\ Changed(o).voters # <<>> /\ ids # {}
             /\ Changed(o).nodes \subseteq config.nodes
             /\ \A n \in VoterIds \ ids : o.kind = "remove" /\ n = o.node
             /\ \/ o.kind = "promote" /\ o.goal # {} /\ ids \subseteq o.goal
                \/ o.kind = "remove" /\ o.goal = {}
                \/ o.kind = "remove" /\ ids \ {o.node} \subseteq o.goal
  OBVIOUS
<1>1. /\ ConfigInv /\ o.goal \in SUBSET Members
      /\ \/ o.kind = "promote" /\ o.goal # {} /\ VoterIds \subseteq o.goal
         \/ o.kind = "remove" /\ o.goal = {}
         \/ o.kind = "remove" /\ VoterIds \ {o.node} \subseteq o.goal
  BY DEF MemberInv, MemberType, MemberOps, LeaderInv, Knows
<1>2. CASE o.kind = "remove" /\ o.goal = {}
  <2>1. Changed(o) = [config EXCEPT !.nodes = @ \ {o.node}]
    BY <1>2 DEF Changed
  <2>2. /\ Changed(o) \in Configs /\ Changed(o).voters = config.voters
        /\ Changed(o).nodes \subseteq config.nodes
    BY <1>1, <2>1 DEF ConfigInv, Configs
  <2>3. ids = VoterIds
    BY <2>2 DEF VoterIds
  <2> QED BY <1>1, <1>2, <2>2, <2>3 DEF ConfigInv
<1>3. CASE ~(o.kind = "remove" /\ o.goal = {})
  <2>1. Changed(o) = NextCoherent(o.goal)
    BY <1>3 DEF Changed
  <2>2. /\ Changed(o) \in Configs /\ Changed(o).voters # <<>> /\ o.goal \subseteq ids
        /\ ids \subseteq VoterIds \union o.goal /\ Changed(o).nodes \subseteq config.nodes
    BY <1>1, <2>1, NextKeepsGoal
  <2> HIDE DEF ids
  <2>3. o.goal # {}
    BY <1>1, <1>3
  <2>4. \A n \in VoterIds \ ids : o.kind = "remove" /\ n = o.node
    <3>1. CASE o.kind = "promote"
      BY <1>1, <2>2, <3>1
    <3>2. CASE o.kind = "remove"
      BY <1>1, <1>3, <2>2, <3>2
    <3> QED BY <1>1, <3>1, <3>2
  <2>5. \/ o.kind = "promote" /\ o.goal # {} /\ ids \subseteq o.goal
        \/ o.kind = "remove" /\ o.goal = {}
        \/ o.kind = "remove" /\ ids \ {o.node} \subseteq o.goal
    BY <1>1, <2>2
  <2>6. ids # {}
    BY <2>2, <2>3
  <2> QED BY <2>2, <2>4, <2>5, <2>6
<1> QED BY <1>2, <1>3

\* promote and remove_node change the configuration.
LEMMA ChangeMembershipPreserves ==
  ASSUME MemberInv, NEW i \in Handlers, ChangeMembership(i)
  PROVE  MemberInv'
<1>1. ops[i].step \in {"change", "flatten"} /\ UNCHANGED <<lead, build>>
  BY DEF ChangeMembership, Standing
<1>2. CASE Ends(i) /\ UNCHANGED <<config, registry, level>>
  BY <1>1, <1>2, OpGivesUp
<1>3. CASE /\ Commits(i) /\ config' = Changed(ops[i])
           /\ UNION ToSet(Changed(ops[i]).voters) \subseteq Changed(ops[i]).nodes
           /\ \E step \in {"flatten", "wait"} : Goes(i, step)
           /\ UNCHANGED <<registry, intent, level, silent>>
  <2>1. PICK step \in {"flatten", "wait"} : Goes(i, step)
    BY <1>3
  <2>2. ops[i].at = lead /\ Holding(i)
    BY <1>1, <1>3 DEF Commits, Holding
  <2>3. /\ ops' \in [Handlers -> MemberOps] /\ \A j \in Handlers \ {i} : ops'[j] = ops[j]
        /\ ops'[i].step = step /\ ops'[i].at = ops[i].at /\ ops'[i].kind = ops[i].kind
        /\ ops'[i].node = ops[i].node /\ ops'[i].goal = ops[i].goal /\ NoLastingSilence'
    BY <1>3, <2>1, OpGoes DEF MemberSteps
  <2>4. VoterIds' = UNION ToSet(Changed(ops[i]).voters)
    BY <1>3 DEF VoterIds
  <2>5. /\ config' \in Configs /\ config'.voters # <<>> /\ VoterIds' # {}
        /\ config'.nodes \subseteq config.nodes
        /\ \/ ops[i].kind = "promote" /\ ops[i].goal # {} /\ VoterIds' \subseteq ops[i].goal
           \/ ops[i].kind = "remove" /\ ops[i].goal = {}
           \/ ops[i].kind = "remove" /\ VoterIds' \ {ops[i].node} \subseteq ops[i].goal
    <3> DEFINE c == Changed(ops[i])
               ids == UNION ToSet(Changed(ops[i]).voters)
    <3>1. /\ c \in Configs /\ c.voters # <<>> /\ ids # {} /\ c.nodes \subseteq config.nodes
          /\ \/ ops[i].kind = "promote" /\ ops[i].goal # {} /\ ids \subseteq ops[i].goal
             \/ ops[i].kind = "remove" /\ ops[i].goal = {}
             \/ ops[i].kind = "remove" /\ ids \ {ops[i].node} \subseteq ops[i].goal
      BY <1>1, <2>2, ChangedKeepsVoters
    <3>2. config' = c /\ VoterIds' = ids
      BY <1>3, <2>4
    <3> HIDE DEF c, ids
    <3> QED BY <3>1, <3>2
  <2>6. ConfigInv'
    BY <1>3, <2>4, <2>5 DEF ConfigInv
  <2>7. Knows(i)'
    BY <2>1, <2>3, <2>5 DEF Knows
  <2>8. EveryMemberDecodes' /\ MembersAreRecorded'
    BY <1>1, <1>3, <2>5 DEF MemberInv, EveryMemberDecodes, MembersAreRecorded
  <2>9. registry' \subseteq Members /\ level' \in Builds
    BY <1>3 DEF MemberInv, MemberType
  <2> QED BY <1>1, <2>2, <2>3, <2>6, <2>7, <2>8, <2>9, OpCommits
<1> QED BY <1>2, <1>3 DEF ChangeMembership, Refused

\* The lowest of the levels the members decode.
LEMMA LowestBuild ==
  ASSUME MemberInv
  PROVE  LET target == Min({build[n] : n \in config.nodes}) IN
         target \in Builds /\ \A n \in config.nodes : build[n] >= target
<1> DEFINE S == {build[n] : n \in config.nodes}
<1>1. S \subseteq {1, 2} /\ S # {}
  BY DEF MemberInv, MemberType, ConfigInv, Configs, Builds
<1>2. \A n \in config.nodes : build[n] \in S
  OBVIOUS
<1> HIDE DEF S
<1>3. \E x \in S : \A y \in S : x =< y
  <2>1. CASE 1 \in S
    BY <1>1, <2>1
  <2>2. CASE 1 \notin S
    <3>1. S = {2}
      BY <1>1, <2>2
    <3> QED BY <3>1
  <2> QED BY <2>1, <2>2
<1>4. Min(S) \in S /\ \A y \in S : Min(S) =< y
  BY <1>3 DEF Min
<1>5. Min(S) \in Builds
  <2>1. Min(S) = 1 \/ Min(S) = 2
    BY <1>1, <1>4
  <2> QED BY <2>1 DEF Builds
<1>6. \A n \in config.nodes : build[n] >= Min(S)
  BY <1>1, <1>2, <1>4
<1> QED BY <1>5, <1>6 DEF S

\* finalize_upgrade learns the level every member decodes.
LEMMA SurveyPreserves ==
  ASSUME MemberInv, NEW i \in Handlers, Survey(i)
  PROVE  MemberInv'
<1> DEFINE target == Min({build[n] : n \in config.nodes})
<1>1. ops[i].step = "survey" /\ UNCHANGED <<config, registry, level, lead, build>>
  BY DEF Survey, Standing
<1>2. CASE Ends(i)
  BY <1>1, <1>2, OpGivesUp
<1>3. CASE ops' = [ops EXCEPT ![i].step = "raise", ![i].level = target] /\ UNCHANGED silent
  <2>1. target \in Builds /\ \A n \in config.nodes : build[n] >= target
    BY LowestBuild
  <2> HIDE DEF target
  <2>2. ops \in [Handlers -> MemberOps] /\ ops[i] \in MemberOps
    BY DEF MemberInv, MemberType
  <2>3. ops'[i] = [ops[i] EXCEPT !.step = "raise", !.level = target]
    BY <1>3, <2>2
  <2>4. /\ ops'[i] \in MemberOps /\ ops'[i].step = "raise" /\ ops'[i].level = target
        /\ ops'[i].at = ops[i].at /\ ops'[i].kind = ops[i].kind
    <3>1. target \in 0 .. 2 /\ "raise" \in MemberSteps
      BY <2>1 DEF MemberSteps, Builds
    <3> QED BY <2>2, <2>3, <3>1 DEF MemberOps
  <2>5. /\ ops' \in [Handlers -> MemberOps] /\ \A j \in Handlers \ {i} : ops'[j] = ops[j]
    BY <1>3, <2>2, <2>3, <2>4
  <2>6. Knows(i)'
    BY <1>1, <2>1, <2>4 DEF Knows
  <2>7. NoLastingSilence'
    BY <1>3, <2>4, <2>5, SilenceGoesOn
  <2>8. \A j \in Handlers \ {i} : Holding(j) => ops[j].at # ops'[i].at
    BY <1>1, <2>4 DEF Holding, MemberInv, LockInv
  <2> QED BY <1>1, <2>5, <2>6, <2>7, <2>8, OpMoves
<1> QED BY <1>2, <1>3 DEF Survey

\* finalize_upgrade commits that level.
LEMMA RaisePreserves ==
  ASSUME MemberInv, NEW i \in Handlers, Raise(i)
  PROVE  MemberInv'
<1>1. ops[i].step = "raise" /\ UNCHANGED <<lead, build>>
  BY DEF Raise, Standing
<1>2. CASE Refused(i)
  BY <1>1, <1>2, OpGivesUp DEF Refused
<1>3. CASE /\ Commits(i) /\ level' = Max({level, ops[i].level}) /\ Ends(i)
           /\ UNCHANGED <<config, registry>>
  <2>1. ops[i].at = lead /\ Holding(i)
    BY <1>1, <1>3 DEF Commits, Holding
  <2>2. /\ level \in Builds /\ ops[i].level \in Builds
        /\ \A n \in config.nodes : build[n] >= ops[i].level /\ build[n] >= level
    BY <1>1, <2>1 DEF MemberInv, MemberType, LeaderInv, Knows, EveryMemberDecodes
  <2>3. level' \in {level, ops[i].level}
    BY <1>3, <2>2 DEF Max, Builds
  <2>4. ConfigInv' /\ EveryMemberDecodes' /\ MembersAreRecorded'
    BY <1>1, <1>3, <2>2, <2>3
       DEF MemberInv, ConfigInv, VoterIds, EveryMemberDecodes, MembersAreRecorded
  <2>5. registry' \subseteq Members /\ level' \in Builds
    BY <1>3, <2>2, <2>3 DEF MemberInv, MemberType
  <2>6. /\ ops' \in [Handlers -> MemberOps] /\ \A j \in Handlers \ {i} : ops'[j] = ops[j]
        /\ ~Holding(i)' /\ Knows(i)' /\ NoLastingSilence'
    BY <1>3, OpEnds
  <2> QED BY <1>1, <2>1, <2>4, <2>5, <2>6, OpCommits
<1> QED BY <1>2, <1>3 DEF Raise

\* Leadership moves to a node that runs no handler; the old leader's handlers
\* run on, to be refused, or died with it.
LEMMA MovePreserves ==
  ASSUME MemberInv, lead' \in Members, \A j \in Handlers : ops[j].at # lead',
         UNCHANGED <<config, registry, level, build>>,
         ops' \in [Handlers -> MemberOps],
         \A j \in Handlers : ops'[j] = ops[j] \/ ops'[j] = NoOp,
         NoLastingSilence'
  PROVE  MemberInv'
<1>1. ConfigInv' /\ MemberType' /\ EveryMemberDecodes' /\ MembersAreRecorded'
  BY DEF MemberInv, ConfigInv, MemberType, EveryMemberDecodes, MembersAreRecorded, VoterIds
<1>2. NoOp.step = "done"
  BY DEF NoOp
<1>3. LockInv'
  BY <1>2 DEF MemberInv, LockInv, Holding
<1>4. LeaderInv'
  BY <1>2 DEF LeaderInv, Knows
<1> QED BY <1>1, <1>3, <1>4 DEF MemberInv

\* Leadership moves, by a transfer or otherwise.
LEMMA LeadershipPreserves ==
  ASSUME Returning = FALSE, MemberInv, LeaderMoves \/ \E i \in Handlers : Elected(i)
  PROVE  MemberInv'
<1>1. PICK n \in VoterIds : lead' = n /\ \A j \in Handlers : ops[j].at # n
  BY DEF LeaderMoves, Elected, MayLead
<1>2. n \in Members
  BY VotersAreMembers DEF MemberInv
<1>3. UNCHANGED <<config, registry, level, build>> /\ ops \in [Handlers -> MemberOps]
  BY DEF LeaderMoves, Elected, MemberInv, MemberType
<1>4. CASE UNCHANGED <<ops, silent>>
  <2>1. NoLastingSilence'
    BY <1>4 DEF MemberInv, NoLastingSilence, TransferLocked
  <2> QED BY <1>1, <1>2, <1>3, <1>4, <2>1, MovePreserves
<1>5. CASE /\ ops' = [i \in Handlers |-> IF ops[i].at = lead THEN NoOp ELSE ops[i]]
           /\ silent' = silent \ {lead}
  <2>1. NoOp \in MemberOps
    BY DEF NoOp, MemberOps, MemberSteps
  <2>2. /\ ops' \in [Handlers -> MemberOps]
        /\ \A j \in Handlers : ops'[j] = IF ops[j].at = lead THEN NoOp ELSE ops[j]
    BY <1>3, <1>5, <2>1
  <2>3. NoLastingSilence'
    BY <1>5, <2>2 DEF MemberInv, NoLastingSilence, TransferLocked
  <2> QED BY <1>1, <1>2, <1>3, <2>2, <2>3, MovePreserves
<1> QED BY <1>4, <1>5 DEF LeaderMoves, Elected

\* A node gets the next release, which decodes more.
LEMMA UpgradedPreserves ==
  ASSUME MemberInv, NEW n \in Members, Upgraded(n)
  PROVE  MemberInv'
<1>1. UNCHANGED <<config, registry, level, lead, silent, ops>>
  BY DEF Upgraded
<1>2. /\ build' \in [Members -> Builds] /\ \A m \in Members : build[m] \in Builds
      /\ \A m \in Members : build'[m] = build[m] \/ build'[m] = 2
  BY DEF Upgraded, MemberInv, MemberType, Builds
<1>3. \A m \in Members, l \in Builds : build[m] >= l => build'[m] >= l
  BY <1>2 DEF Builds
<1>4. ConfigInv' /\ MemberType' /\ LockInv' /\ MembersAreRecorded' /\ NoLastingSilence'
  BY <1>1, <1>2 DEF MemberInv, ConfigInv, MemberType, LockInv, Holding, VoterIds,
                    MembersAreRecorded, NoLastingSilence, TransferLocked
<1>5. config.nodes \subseteq Members /\ level \in Builds
  BY DEF MemberInv, ConfigInv, Configs, MemberType
<1>6. EveryMemberDecodes'
  BY <1>1, <1>3, <1>5 DEF MemberInv, EveryMemberDecodes
<1>7. VoterIds' = VoterIds
  BY <1>1 DEF VoterIds
<1>8. LeaderInv'
  BY <1>1, <1>3, <1>5, <1>7 DEF MemberInv, LeaderInv, Knows
<1> QED BY <1>4, <1>6, <1>8 DEF MemberInv

\* The cluster as it is formed.
LEMMA MemberInit ==
  ASSUME MembershipInit
  PROVE  MemberInv
<1>1. NoOp \in MemberOps /\ NoOp.step = "done" /\ \A i \in Handlers : ops[i] = NoOp
  BY DEF MembershipInit, NoOp, MemberOps, MemberSteps
<1>2. /\ config.voters = <<Seeds>> /\ config.nodes = Seeds /\ Seeds \subseteq Members /\ Seeds # {}
      /\ registry = Seeds /\ level = 1 /\ silent = {} /\ lead \in Members
      /\ build \in [Members -> Builds] /\ ops \in [Handlers -> MemberOps]
  BY <1>1, MembershipAssumption DEF MembershipInit
<1>3. VoterIds = Seeds
  <2>1. ToSet(<<Seeds>>) = {Seeds}
    BY ToSetShort
  <2> QED BY <1>2, <2>1 DEF VoterIds
<1>4. <<Seeds>> \in Seq(SUBSET Members) /\ <<Seeds>> # <<>>
  BY <1>2
<1>5. ConfigInv
  <2>1. config \in Configs
    BY <1>2, <1>4 DEF Configs, MembershipInit
  <2> QED BY <1>2, <1>3, <1>4, <2>1 DEF ConfigInv
<1>6. MemberType /\ LockInv /\ LeaderInv
  BY <1>1, <1>2 DEF MemberType, LockInv, Holding, LeaderInv, Knows, Builds
<1>7. EveryMemberDecodes /\ MembersAreRecorded /\ NoLastingSilence
  BY <1>2 DEF EveryMemberDecodes, MembersAreRecorded, NoLastingSilence, Builds
<1> QED BY <1>5, <1>6, <1>7 DEF MemberInv

\* Every step keeps the invariant of membership.
LEMMA MemberStep ==
  ASSUME Returning = FALSE, MemberInv, [MembershipNext]_memVars
  PROVE  MemberInv'
<1>1. CASE UNCHANGED memVars
  BY <1>1 DEF memVars, MemberInv, ConfigInv, MemberType, LockInv, Holding, LeaderInv, Knows, VoterIds,
              EveryMemberDecodes, MembersAreRecorded, NoLastingSilence, TransferLocked
<1>2. ASSUME NEW i \in Handlers, HandlerStep(i)
      PROVE  MemberInv'
  BY <1>2, LocksPreserves, ReplicateNodeInfoPreserves, AddLearnerPreserves, ReadsPreserve,
     EndsPreserve, ChangeMembershipPreserves, ForgetPreserves, SurveyPreserves, RaisePreserves,
     LeadershipPreserves DEF HandlerStep
<1> QED
  BY <1>1, <1>2, RequestedPreserves, IntentPassPreserves, LeadershipPreserves, UpgradedPreserves
     DEF MembershipNext

(***************************************************************************)
(* Whatever handlers interleave, are dropped or deposed, as long as no     *)
(* node leads again over handlers it began in an earlier term: every       *)
(* member decodes the committed feature level, every member has a record,  *)
(* and a silenced leader still has the transfer that will end its silence. *)
(***************************************************************************)
THEOREM MembershipStaysSound ==
  ASSUME Returning = FALSE
  PROVE  MembershipSpec => []MembershipSound
<1>1. MembershipInit => MemberInv
  BY MemberInit
<1>2. MemberInv /\ [MembershipNext]_memVars => MemberInv'
  BY MemberStep
<1>3. MemberInv => MembershipSound
  BY DEF MemberInv, MembershipSound
<1> QED BY <1>1, <1>2, <1>3, PTL DEF MembershipSpec

\* A step that takes a voter out is the commit of a handler that removes it.
LEMMA VotersStay ==
  ASSUME MemberInv, MembershipNext, NEW n \in VoterIds, n \notin VoterIds'
  PROVE  \E i \in Handlers : ops[i].kind = "remove" /\ ops[i].node = n
<1>1. config' # config
  BY DEF VoterIds
<1>2. CASE \E i \in Handlers : AddLearner(i)
  <2>1. config'.voters = config.voters
    BY <1>1, <1>2 DEF AddLearner, Refused, MemberInv, ConfigInv, Configs
  <2> QED BY <2>1 DEF VoterIds
<1>3. CASE \E i \in Handlers : ChangeMembership(i)
  <2>1. PICK i \in Handlers : ChangeMembership(i)
    BY <1>3
  <2>2. ops[i].at = lead /\ ops[i].step \in {"change", "flatten"} /\ config' = Changed(ops[i])
    BY <1>1, <2>1 DEF ChangeMembership, Refused, Commits
  <2>3. n \in VoterIds \ UNION ToSet(Changed(ops[i]).voters)
    BY <2>2 DEF VoterIds
  <2> QED BY <2>2, <2>3, ChangedKeepsVoters
<1>4. \E i \in Handlers : AddLearner(i) \/ ChangeMembership(i)
  <2>1. ASSUME NEW i \in Handlers, HandlerStep(i), ~AddLearner(i), ~ChangeMembership(i)
        PROVE  FALSE
    <3>1. CASE Locks(i) \/ ReplicateNodeInfo(i) \/ JoinApplied(i) \/ IntendVoter(i)
      BY <1>1, <3>1 DEF Locks, ReplicateNodeInfo, JoinApplied, IntendVoter, Refused
    <3>2. CASE ChangeApplied(i) \/ Forget(i) \/ Survey(i) \/ Raise(i)
      BY <1>1, <3>2 DEF ChangeApplied, Forget, Survey, Raise, Refused
    <3>3. CASE Drained(i) \/ Elected(i) \/ Observed(i) \/ HangUp(i)
      BY <1>1, <3>3 DEF Drained, Elected, Observed, HangUp
    <3> QED BY <2>1, <3>1, <3>2, <3>3 DEF HandlerStep
  <2>2. ASSUME NEW i \in Handlers, Requested(i) \/ \E p \in Members : IntentPass(i, p)
        PROVE  FALSE
    BY <1>1, <2>2 DEF Requested, Asks, IntentPass
  <2>3. ~LeaderMoves /\ ~\E m \in Members : Upgraded(m)
    BY <1>1 DEF LeaderMoves, Upgraded
  <2> QED BY <2>1, <2>2, <2>3 DEF MembershipNext
<1> QED BY <1>2, <1>3, <1>4

(***************************************************************************)
(* Under the same condition, a voter leaves only by the removal of that    *)
(* voter: the absolute voter set that promote or remove_node submits still *)
(* has every voter of the moment it is committed.                          *)
(***************************************************************************)
THEOREM VotersLeaveByRemoval ==
  ASSUME Returning = FALSE
  PROVE  MembershipSpec => VoterLeavesByRemoval
<1>1. MembershipInit => MemberInv
  BY MemberInit
<1>2. MemberInv /\ [MembershipNext]_memVars => MemberInv'
  BY MemberStep
<1>3. MemberInv /\ [MembershipNext]_memVars
      => [\A n \in VoterIds \ VoterIds' :
            \E i \in Handlers : ops[i].kind = "remove" /\ ops[i].node = n]_memVars
  BY VotersStay
<1> QED BY <1>1, <1>2, <1>3, PTL DEF MembershipSpec, VoterLeavesByRemoval

-----------------------------------------------------------------------------
(* The vote of one voter. *)

\* A running node holds a vote at or above what it has answered.
HeldInv == voteProc = "up" => ~Under(ballotHeld, promised)

\* So does its disk, unless the file was moved aside while it is a voter.
DurableInv == repair # "moved" => ~Under(store.vote, promised)

\* An answer is sent by a running member, of the vote on its disk.
AnswerInv ==
  /\ saving # "no" => voteProc = "up" /\ listed # "no"
  /\ saving = "answer" => store.vote = ballotHeld

\* The node stays down until the operator is done.
RepairInv == repair # "no" => voteProc = "down" /\ store = NoStore

\* Nobody counts on a node outside the membership; a missing file has no vote,
\* and a running node has one.
OutsideInv ==
  /\ voteProc = "up" => store.file # "absent"
  /\ listed = "no" => promised = NoBallot
  /\ store.file = "absent" => store.vote = NoBallot

\* The zero vote is the one a new store has.
ZeroInv ==
  /\ store.vote.term = 0 => store.vote = NoBallot
  /\ ballotHeld.term = 0 => ballotHeld = NoBallot

VoteInv ==
  HeldInv /\ DurableInv /\ AnswerInv /\ RepairInv /\ OutsideInv /\ ZeroInv

-----------------------------------------------------------------------------
\* The fields of a vote are numbers and a flag, so that votes can be compared.
LEMMA BallotFields ==
  ASSUME NEW v \in Ballots
  PROVE  v.term \in Nat /\ v.by \in Nat /\ v.committed \in BOOLEAN
<1>1. MaxVoteTerm \in Nat /\ VoteFor \subseteq Nat
  BY VoteStoreAssumption
<1>2. \A n \in 0..MaxVoteTerm : n \in Nat
  BY <1>1
<1>3. \A n \in VoteFor \cup {0} : n \in Nat
  BY <1>1
<1>4. /\ v.term \in 0..MaxVoteTerm /\ v.by \in VoteFor \cup {0}
      /\ v.committed \in BOOLEAN
  BY DEF Ballots
<1> QED BY <1>2, <1>3, <1>4, Zenon

\* Nothing is below the vote a new store has.
LEMMA ZeroIsLeast ==
  ASSUME NEW v \in Ballots
  PROVE  ~Under(v, NoBallot)
BY BallotFields DEF Under, NoBallot

\* A vote above one that is not below a third is not below that third either.
LEMMA AboveStaysAbove ==
  ASSUME NEW u \in Ballots, NEW v \in Ballots, NEW w \in Ballots,
         Under(u, v), ~Under(u, w)
  PROVE  ~Under(v, w)
BY BallotFields DEF Under

\* No vote is below itself.
LEMMA NotBelowItself ==
  ASSUME NEW v \in Ballots
  PROVE  ~Under(v, v)
BY BallotFields DEF Under

\* The vote of an empty store is a vote.
LEMMA NoBallotType == NoBallot \in Ballots
BY VoteStoreAssumption DEF NoBallot, Ballots

\* An empty store is a store.
LEMMA NoStoreType == NoStore \in RaftDbs
BY NoBallotType DEF NoStore, RaftDbs

\* What opening a store leaves is a store with the same vote.
LEMMA OpenKeepsVote ==
  ASSUME NEW d \in RaftDbs, NEW s \in OpenStore(d)
  PROVE  s \in RaftDbs /\ s.vote = d.vote /\ s.file = "whole"
<1>1. s = Stamped(d)
  BY DEF OpenStore
<1>2. ASSUME NEW format \in {"none", "v0", "v1"},
             s = [d EXCEPT !.file = "whole", !.schema = 1, !.snap = format]
      PROVE  s \in RaftDbs /\ s.vote = d.vote /\ s.file = "whole"
  <2> DEFINE usable == [d EXCEPT !.file = "whole"]
             stamped == [usable EXCEPT !.schema = 1]
             migrated == [stamped EXCEPT !.snap = format]
  <2>1. usable \in RaftDbs /\ usable.vote = d.vote /\ usable.file = "whole"
    BY DEF RaftDbs
  <2> HIDE DEF usable
  <2>2. stamped \in RaftDbs /\ stamped.vote = usable.vote /\ stamped.file = usable.file
    BY <2>1 DEF RaftDbs
  <2> HIDE DEF stamped
  <2>3. migrated \in RaftDbs /\ migrated.vote = stamped.vote /\ migrated.file = stamped.file
    BY <2>2 DEF RaftDbs
  <2> HIDE DEF migrated
  <2>4. s = migrated
    BY <1>2, Zenon DEF migrated, stamped, usable
  <2> QED BY <2>1, <2>2, <2>3, <2>4
<1>3. d.snap \in {"none", "v0", "v1"}
  BY DEF RaftDbs
<1>4. CASE d.schema < 1 /\ d.snap = "v0"
  BY <1>1, <1>2, <1>4, Zenon DEF Stamped, SchemaVersion
<1>5. CASE ~(d.schema < 1 /\ d.snap = "v0")
  BY <1>1, <1>2, <1>3, <1>5, Zenon DEF Stamped, SchemaVersion
<1> QED BY <1>4, <1>5

-----------------------------------------------------------------------------
LEMMA VoteTypeInit == VoteInit => VoteTypeOK
BY NoBallotType, VoteStoreAssumption DEF VoteInit, VoteTypeOK, RaftDbs

LEMMA VoteTypeStep == VoteTypeOK /\ [VoteNext]_voteVars => VoteTypeOK'
<1> SUFFICES ASSUME VoteTypeOK, [VoteNext]_voteVars PROVE VoteTypeOK'
  OBVIOUS
<1> USE DEF VoteTypeOK
<1>1. CASE UNCHANGED voteVars
  BY <1>1 DEF voteVars
<1>2. CASE StartNode
  <2>1. PICK answer \in Answers :
          LET fresh == store.file = "absent" \/ answer = "no" IN
          \E s \in OpenStore(IF fresh THEN NoStore ELSE store) :
            /\ store' = s
            /\ ballotHeld' = StoredVote(s)
            /\ listed' = IF fresh /\ listed = "no" THEN "learner" ELSE listed
    BY <1>2 DEF StartNode
  <2> DEFINE fresh == store.file = "absent" \/ answer = "no"
             db == IF fresh THEN NoStore ELSE store
  <2>2. db \in RaftDbs
    BY NoStoreType
  <2>3. store' \in OpenStore(db) /\ ballotHeld' = StoredVote(store')
    BY <2>1
  <2>4. store' \in RaftDbs
    BY <2>2, <2>3, OpenKeepsVote
  <2>5. ballotHeld' \in Ballots
    BY <2>3, <2>4, NoBallotType DEF StoredVote, RaftDbs
  <2>6. listed' \in {"voter", "learner", "no"}
    BY <2>1
  <2> QED BY <1>2, <2>4, <2>5, <2>6 DEF StartNode
<1>3. CASE MadeVoter
  BY <1>3 DEF MadeVoter
<1>4. ASSUME NEW v \in Ballots, HearVote(v) PROVE VoteTypeOK'
  BY <1>4 DEF HearVote
<1>5. CASE SaveVote
  <2>1. store' \in RaftDbs
    BY <1>5 DEF SaveVote, WithVote, RaftDbs
  <2> QED BY <1>5, <2>1 DEF SaveVote
<1>6. CASE SavePanics
  BY <1>6 DEF SavePanics
<1>7. CASE SendAnswer
  BY <1>7 DEF SendAnswer
<1>8. CASE Stops
  BY <1>8, NoBallotType, VoteStoreAssumption DEF Stops
<1>9. ASSUME NEW kind \in {"truncated", "corrupt"}, DiskDamages(kind) PROVE VoteTypeOK'
  <2>1. store' \in RaftDbs
    BY <1>9 DEF DiskDamages, RaftDbs
  <2> QED BY <1>9, <2>1, VoteStoreAssumption DEF DiskDamages
<1>10. CASE MoveStoreAside
  BY <1>10, NoStoreType DEF MoveStoreAside
<1>11. CASE RemovedForRepair
  BY <1>11, NoBallotType DEF RemovedForRepair
<1>12. CASE RepairDone
  BY <1>12 DEF RepairDone
<1>13. CASE RemovedFromCluster
  BY <1>13, NoBallotType, VoteStoreAssumption DEF RemovedFromCluster
<1> QED
  BY <1>1, <1>2, <1>3, <1>4, <1>5, <1>6, <1>7, <1>8, <1>9, <1>10, <1>11, <1>12, <1>13
  DEF VoteNext

\* Every variable of VoteStore keeps its type: a raft.db stays one of the
\* stores the code can open or refuse, whatever damages, wipes or migrates it.
THEOREM VoteTypeCorrect == VoteSpec => []VoteTypeOK
BY VoteTypeInit, VoteTypeStep, PTL DEF VoteSpec

-----------------------------------------------------------------------------
LEMMA VoteInvInit == VoteInit => VoteInv
BY ZeroIsLeast, NoBallotType
DEF VoteInit, VoteInv, HeldInv, DurableInv, AnswerInv, RepairInv, OutsideInv, ZeroInv

\* A start keeps every promise: it reads the vote back, or the node is one on
\* which nobody counts.
LEMMA StartKeeps ==
  ASSUME VoteSlips = {}, VoteTypeOK, VoteInv, StartNode
  PROVE  VoteInv'
<1>1. PICK answer \in Answers :
        LET fresh == store.file = "absent" \/ answer = "no" IN
        \E s \in OpenStore(IF fresh THEN NoStore ELSE store) :
          /\ store' = s
          /\ ballotHeld' = StoredVote(s)
          /\ listed' = IF fresh /\ listed = "no" THEN "learner" ELSE listed
  BY DEF StartNode
<1> DEFINE fresh == store.file = "absent" \/ answer = "no"
           db == IF fresh THEN NoStore ELSE store
<1>2. db \in RaftDbs
  BY NoStoreType DEF VoteTypeOK
<1>3. /\ store' \in RaftDbs /\ store'.vote = db.vote /\ store'.file = "whole"
      /\ ballotHeld' = StoredVote(store')
  BY <1>1, <1>2, OpenKeepsVote
<1>4. db.vote \in Ballots
  BY <1>2 DEF RaftDbs
<1>5. db.vote.term = 0 => db.vote = NoBallot
  BY DEF VoteInv, ZeroInv, NoStore, NoBallot
<1>6. ballotHeld' = db.vote
  BY <1>3, <1>5 DEF StoredVote, NoBallot
<1>7. answer = "no" => listed = "no"
  BY DEF Answers
<1>8. ~Under(db.vote, promised)
  <2>1. CASE ~fresh \/ store.file = "absent"
    <3>1. db.vote = store.vote
      BY <2>1 DEF VoteInv, OutsideInv, NoStore
    <3>2. repair = "no"
      BY DEF StartNode, StartAllowed
    <3> QED BY <3>1, <3>2 DEF VoteInv, DurableInv
  <2>2. CASE answer = "no"
    BY <1>4, <1>7, <2>2, ZeroIsLeast DEF VoteInv, OutsideInv
  <2> QED BY <2>1, <2>2
<1>9. listed' = "no" => promised = NoBallot
  BY <1>1 DEF VoteInv, OutsideInv
<1> QED
  BY <1>3, <1>5, <1>6, <1>8, <1>9
  DEF StartNode, StartAllowed, VoteInv, HeldInv, DurableInv, AnswerInv, RepairInv,
      OutsideInv, ZeroInv

\* The step of the invariant.
LEMMA VoteInvStep ==
  ASSUME VoteSlips = {}
  PROVE  VoteTypeOK /\ VoteInv /\ [VoteNext]_voteVars => VoteInv'
<1> SUFFICES ASSUME VoteTypeOK, VoteInv, [VoteNext]_voteVars PROVE VoteInv'
  OBVIOUS
<1> USE DEF VoteInv, HeldInv, DurableInv, AnswerInv, RepairInv, OutsideInv, ZeroInv
<1>a. store.vote \in Ballots /\ ballotHeld \in Ballots /\ promised \in Ballots
  BY DEF VoteTypeOK, RaftDbs
<1>1. CASE UNCHANGED voteVars
  BY <1>1 DEF voteVars
<1>2. CASE StartNode
  BY <1>2, StartKeeps
<1>3. CASE MadeVoter
  BY <1>3 DEF MadeVoter
<1>4. ASSUME NEW v \in Ballots, HearVote(v) PROVE VoteInv'
  <2>1. ~Under(v, promised)
    BY <1>4, <1>a, AboveStaysAbove DEF HearVote
  <2>2. v.term # 0
    BY <1>4, BallotFields DEF HearVote
  <2> QED BY <1>4, <2>1, <2>2 DEF HearVote
<1>5. CASE SaveVote
  <2>1. store'.vote = ballotHeld /\ store'.file = store.file
    BY <1>5 DEF SaveVote, WithVote, VoteTypeOK, RaftDbs
  <2>2. repair = "no" /\ store.file # "absent"
    <3>1. repair = "no"
      BY <1>5 DEF SaveVote
    <3>2. store.file = "absent" => FALSE
      BY <1>5 DEF SaveVote
    <3> QED BY <3>1, <3>2
  <2> QED BY <1>5, <2>1, <2>2 DEF SaveVote
<1>6. CASE SavePanics
  BY <1>6 DEF SavePanics
<1>7. CASE SendAnswer
  <2>1. promised' \in {ballotHeld, promised} /\ ~Under(ballotHeld, promised')
    BY <1>7, <1>a, NotBelowItself DEF SendAnswer
  <2> QED BY <1>7, <2>1 DEF SendAnswer
<1>8. CASE Stops
  BY <1>8 DEF Stops
<1>9. ASSUME NEW kind \in {"truncated", "corrupt"}, DiskDamages(kind) PROVE VoteInv'
  <2>1. store'.vote = store.vote /\ store'.file = kind
    BY <1>9 DEF DiskDamages, VoteTypeOK, RaftDbs
  <2> QED BY <1>9, <2>1 DEF DiskDamages, NoStore
<1>10. CASE MoveStoreAside
  BY <1>10 DEF MoveStoreAside, NoStore
<1>11. CASE RemovedForRepair
  BY <1>11, <1>a, ZeroIsLeast, NoBallotType DEF RemovedForRepair
<1>12. CASE RepairDone
  BY <1>12 DEF RepairDone
<1>13. CASE RemovedFromCluster
  BY <1>13, <1>a, ZeroIsLeast DEF RemovedFromCluster
<1> QED
  BY <1>1, <1>2, <1>3, <1>4, <1>5, <1>6, <1>7, <1>8, <1>9, <1>10, <1>11, <1>12, <1>13
  DEF VoteNext

\* PromiseKept for every number of terms, deaths, damages and removals, while a
\* peer's membership answer is current and nothing restarts the node between
\* the operator's steps: what save_vote made durable before an answer left is
\* what the next start reads back, or nobody counts on this node any more.
THEOREM PromiseIsKept ==
  ASSUME VoteSlips = {}
  PROVE  VoteSpec => []PromiseKept
<1>1. VoteInv => PromiseKept
  BY DEF VoteInv, HeldInv, PromiseKept
<1> QED BY <1>1, VoteInvInit, VoteInvStep, VoteTypeCorrect, PTL DEF VoteSpec

=============================================================================
