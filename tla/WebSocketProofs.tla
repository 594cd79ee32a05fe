--------------------------- MODULE WebSocketProofs ---------------------------
(***************************************************************************)
(* That the reader of a WebSocket hands over the payload of the data       *)
(* frames, in order, each byte once and unmasked, and that the halves that *)
(* write to the socket each send whole frames: for every sequence of       *)
(* frames, wherever reads end and the connection is cut, and whatever is   *)
(* written beside.                                                         *)
(***************************************************************************)
EXTENDS WebSocket, ProofLemmas

Frames == Seq([op : WsOps, len : Nat])
Cells == Nat \X Int

------------------------------------------------------------------------------
(* The wire.                                                               *)

\* w holds the first n frames; ends[i] is where frame i ends.
LaidOut(w, client, frames, ends, n) ==
  /\ ends \in [0 .. n -> Nat]
  /\ ends[0] = IF client THEN WsResponseLen ELSE 0
  /\ \A i \in 1 .. n : ends[i] = ends[i - 1] + WsHeaderLen(client) + frames[i].len
  /\ \A i \in 0 .. n : ends[i] <= ends[n]
  /\ w \in Seq(Cells) /\ Len(w) = ends[n]
  /\ \A k \in 1 .. ends[0] : w[k] = <<0, k>>
  /\ \A i \in 1 .. n : \A k \in 1 .. WsHeaderLen(client) + frames[i].len :
       w[ends[i - 1] + k] = <<i, k - WsHeaderLen(client)>>
  /\ \A k \in 1 .. Len(w) : w[k][1] <= n
  /\ \A k, l \in 1 .. Len(w) : k < l => WsBefore(w[k], w[l])

LEMMA CellsType ==
  ASSUME NEW client \in BOOLEAN, NEW i \in Nat, NEW len \in Nat
  PROVE  LET c == WsCells(client, i, len) IN
           /\ c \in Seq(Cells) /\ Len(c) = WsHeaderLen(client) + len
           /\ \A k \in 1 .. Len(c) : c[k] = <<i, k - WsHeaderLen(client)>>
           /\ WsHeaderLen(client) \in {1, 2}
<1>1. WsHeaderLen(client) \in {1, 2}
  BY DEF WsHeaderLen
<1>2. ASSUME NEW h \in {1, 2}
      PROVE  LET c == [k \in 1 .. h + len |-> <<i, k - h>>] IN
               /\ c \in Seq(Cells) /\ Len(c) = h + len
               /\ \A k \in 1 .. Len(c) : c[k] = <<i, k - h>>
  <2> DEFINE c == [k \in 1 .. h + len |-> <<i, k - h>>]
  <2>1. h + len \in Nat /\ \A k \in 1 .. h + len : <<i, k - h>> \in Cells
    BY DEF Cells
  <2>2. c \in [1 .. h + len -> Cells]
    BY <2>1
  <2>3. c \in Seq(Cells)
    BY <2>1, <2>2
  <2>4. Len(c) = h + len
    BY <2>1, <2>3
  <2> QED
    BY <2>3, <2>4
<1> QED
  BY <1>1, <1>2 DEF WsCells

LEMMA FrameTypes ==
  ASSUME NEW frames \in Frames
  PROVE  /\ Len(frames) \in Nat /\ DOMAIN frames = 1 .. Len(frames)
         /\ \A i \in 1 .. Len(frames) : frames[i].len \in Nat /\ frames[i].op \in WsOps
<1>1. /\ Len(frames) \in Nat /\ DOMAIN frames = 1 .. Len(frames)
      /\ \A i \in 1 .. Len(frames) : frames[i] \in [op : WsOps, len : Nat]
  BY Elements DEF Frames
<1> QED
  BY <1>1

\* One frame more.
LEMMA OneFrameMore ==
  ASSUME NEW client \in BOOLEAN, NEW frames \in Frames, NEW n \in Nat, n < Len(frames),
         NEW w, NEW ends, LaidOut(w, client, frames, ends, n)
  PROVE  \E e : LaidOut(w \o WsCells(client, n + 1, frames[n + 1].len), client, frames, e, n + 1)
<1> DEFINE m == n + 1
           c == WsCells(client, m, frames[m].len)
           v == w \o c
<1>0. /\ Len(frames) \in Nat
      /\ \A i \in 1 .. Len(frames) : frames[i].len \in Nat
  BY FrameTypes
<1>1. frames[m].len \in Nat /\ m \in 1 .. Len(frames) /\ m \in Nat
  BY <1>0
<1>2. PICK h \in {1, 2} : h = WsHeaderLen(client)
  BY DEF WsHeaderLen
<1>3. /\ c \in Seq(Cells) /\ Len(c) = h + frames[m].len
      /\ \A k \in 1 .. Len(c) : c[k] = <<m, k - h>>
  BY <1>1, <1>2, CellsType
<1>4. /\ w \in Seq(Cells) /\ Len(w) = ends[n] /\ ends \in [0 .. n -> Nat]
      /\ \A i \in 0 .. n : ends[i] <= ends[n]
      /\ \A k, l \in 1 .. Len(w) : k < l => WsBefore(w[k], w[l])
      /\ \A k \in 1 .. Len(w) : w[k][1] <= n
      /\ \A i \in 1 .. n : ends[i] = ends[i - 1] + h + frames[i].len
      /\ \A k \in 1 .. ends[0] : w[k] = <<0, k>>
      /\ ends[0] = IF client THEN WsResponseLen ELSE 0
      /\ \A i \in 1 .. n : \A k \in 1 .. h + frames[i].len : w[ends[i - 1] + k] = <<i, k - h>>
  BY <1>2 DEF LaidOut
<1> HIDE DEF c
<1>5. /\ v \in Seq(Cells) /\ Len(v) = Len(w) + Len(c)
      /\ \A k \in 1 .. Len(w) : v[k] = w[k]
      /\ \A k \in 1 .. Len(c) : v[Len(w) + k] = c[k]
      /\ Len(w) \in Nat /\ Len(c) \in Nat
  BY <1>3, <1>4, Joined
<1> HIDE DEF v
<1> DEFINE e == [i \in 0 .. m |-> IF i = m THEN ends[n] + h + frames[m].len ELSE ends[i]]
<1>6. /\ e \in [0 .. m -> Nat] /\ e[m] = ends[n] + h + frames[m].len
      /\ \A i \in 0 .. n : e[i] = ends[i]
      /\ ends[n] \in Nat /\ e[m] \in Nat
  BY <1>1, <1>4
<1> HIDE DEF e
<1>7. \A i \in 1 .. m : e[i] = e[i - 1] + h + frames[i].len
  <2> TAKE i \in 1 .. m
  <2>1. CASE i = m
    BY <1>6, <2>1
  <2>2. CASE i \in 1 .. n
    <3>1. i - 1 \in 0 .. n
      BY <2>2
    <3> QED
      BY <1>4, <1>6, <2>2, <3>1
  <2> QED
    BY <2>1, <2>2
<1>8. \A i \in 0 .. m : e[i] <= e[m]
  <2> TAKE i \in 0 .. m
  <2>1. CASE i = m
    BY <1>6, <2>1
  <2>2. CASE i \in 0 .. n
    <3>1. ends[i] <= ends[n] /\ ends[i] \in Nat
      BY <1>4, <2>2
    <3> QED
      BY <1>1, <1>2, <1>6, <2>2, <3>1
  <2> QED
    BY <2>1, <2>2
<1>9. Len(v) = e[m]
  <2>1. \A p, q, r \in Nat : p + (q + r) = p + q + r
    OBVIOUS
  <2>2. /\ Len(v) = Len(w) + Len(c) /\ Len(c) = h + frames[m].len /\ Len(w) = ends[n]
        /\ e[m] = ends[n] + h + frames[m].len
        /\ frames[m].len \in Nat /\ h \in Nat /\ ends[n] \in Nat
    BY <1>1, <1>3, <1>4, <1>5, <1>6
  <2> QED
    BY ONLY <2>1, <2>2
<1>10. \A i \in 1 .. m : \A k \in 1 .. h + frames[i].len : v[e[i - 1] + k] = <<i, k - h>>
  <2> TAKE i \in 1 .. m
  <2> TAKE k \in 1 .. h + frames[i].len
  <2>1. CASE i = m
    <3>0. i - 1 = n /\ n \in 0 .. n
      BY <2>1
    <3>1. e[i - 1] = Len(w)
      BY ONLY <1>4, <1>6, <3>0
    <3> QED
      BY <1>3, <1>5, <2>1, <3>1
  <2>2. CASE i \in 1 .. n
    <3>1. i \in 1 .. Len(frames) /\ frames[i].len \in Nat /\ i - 1 \in 0 .. n
      BY <1>0, <2>2
    <3>2. /\ ends[i] <= Len(w) /\ ends[i] = ends[i - 1] + h + frames[i].len
          /\ ends[i - 1] \in Nat /\ i \in 0 .. n
      <4>1. i \in 0 .. n
        BY <2>2
      <4> QED
        BY ONLY <1>4, <2>2, <3>1, <4>1
    <3>3. ends[i - 1] + k \in 1 .. Len(w)
      <4>1. \A p, q, r, x, y \in Nat : q = p + h + r /\ q <= x /\ y <= h + r /\ 1 <= y => p + y \in 1 .. x
        OBVIOUS
      <4>2. h + frames[i].len \in Nat /\ k \in Nat /\ k <= h + frames[i].len /\ 1 <= k
        BY <3>1
      <4>3. ends[i] \in Nat
        BY <1>4, <3>2
      <4> QED
        BY ONLY <1>5, <3>1, <3>2, <4>1, <4>2, <4>3
    <3>4. w[ends[i - 1] + k] = <<i, k - h>>
      BY <1>4, <2>2
    <3>5. e[i - 1] = ends[i - 1]
      BY <1>6, <3>1
    <3> QED
      BY ONLY <1>5, <3>3, <3>4, <3>5
  <2> QED
    BY <2>1, <2>2
<1>11. ASSUME NEW k \in 1 .. Len(v)
       PROVE  \/ k \in 1 .. Len(w) /\ v[k] = w[k] /\ v[k][1] <= n
              \/ k - Len(w) \in 1 .. Len(c) /\ v[k] = <<m, k - Len(w) - h>>
  <2>1. CASE k \in 1 .. Len(w)
    BY <1>4, <1>5, <2>1
  <2>2. CASE k > Len(w)
    <3>1. k - Len(w) \in 1 .. Len(c) /\ Len(w) + (k - Len(w)) = k
      BY <1>5, <2>2
    <3> QED
      BY <1>3, <1>5, <3>1
  <2> QED
    BY <1>5, <2>1, <2>2
<1>12. \A k \in 1 .. Len(v) : v[k][1] <= m
  <2> TAKE k \in 1 .. Len(v)
  <2>1. v[k] \in Cells
    BY <1>5
  <2>2. v[k][1] \in Nat
    BY <2>1 DEF Cells
  <2> QED
    BY <1>11, <2>2
<1>13. \A k, l \in 1 .. Len(v) : k < l => WsBefore(v[k], v[l])
  <2> TAKE k, l \in 1 .. Len(v)
  <2> HAVE k < l
  <2>1. v[k] \in Cells /\ v[l] \in Cells
    BY <1>5
  <2>2. v[k][1] \in Nat /\ v[l][1] \in Nat
    BY <2>1 DEF Cells
  <2>3. CASE l \in 1 .. Len(w)
    <3>1. k \in 1 .. Len(w)
      BY <2>3
    <3> QED
      BY <1>4, <1>5, <2>3, <3>1
  <2>4. CASE l \notin 1 .. Len(w)
    <3>1. v[l] = <<m, l - Len(w) - h>>
      BY <1>11, <2>4
    <3>2. CASE k \in 1 .. Len(w)
      <4>1. v[k][1] < v[l][1]
        BY <1>4, <1>5, <2>2, <3>1, <3>2
      <4> QED
        BY <4>1 DEF WsBefore
    <3>3. CASE k \notin 1 .. Len(w)
      <4>1. v[k] = <<m, k - Len(w) - h>>
        BY <1>11, <3>3
      <4>2. k - Len(w) - h < l - Len(w) - h
        BY <1>5
      <4> QED
        BY <3>1, <4>1, <4>2 DEF WsBefore
    <3> QED
      BY <3>2, <3>3
  <2> QED
    BY <2>3, <2>4
<1>14. \A k \in 1 .. e[0] : v[k] = <<0, k>>
  <2>1. e[0] = ends[0] /\ ends[0] <= Len(w) /\ ends[0] \in Nat
    BY <1>4, <1>6
  <2> QED
    BY <1>4, <1>5, <2>1
<1>15. LaidOut(v, client, frames, e, m)
  <2>1. v \in Seq(Cells) /\ e[0] = IF client THEN WsResponseLen ELSE 0
    BY <1>4, <1>5, <1>6
  <2> HIDE DEF m
  <2> QED
    BY ONLY <1>2, <1>6, <1>7, <1>8, <1>9, <1>10, <1>12, <1>13, <1>14, <2>1 DEF LaidOut
<1> QED
  BY <1>15 DEF v, c

\* The recursive function of WsWireOf exists, by induction over the frames.
LEMMA WireEquation ==
  ASSUME NEW client \in BOOLEAN, NEW frames \in Frames
  PROVE  \E u : /\ u = [i \in 0 .. Len(frames) |->
                          IF i = 0 THEN WsHandshake(client)
                          ELSE u[i - 1] \o WsCells(client, i, frames[i].len)]
                /\ WsWireOf(client, frames) = u[Len(frames)]
<1> DEFINE Defines(u, n) ==
             u = [i \in 0 .. n |-> IF i = 0 THEN WsHandshake(client)
                                   ELSE u[i - 1] \o WsCells(client, i, frames[i].len)]
           S == {n \in Nat : \E u : Defines(u, n)}
<1>1. 0 \in S
  <2>1. Defines([i \in 0 .. 0 |-> WsHandshake(client)], 0)
    OBVIOUS
  <2> QED
    BY <2>1
<1>2. ASSUME NEW n \in Nat, n \in S PROVE n + 1 \in S
  <2>1. PICK u : Defines(u, n)
    BY <1>2
  <2> DEFINE v == [i \in 0 .. n + 1 |->
                     IF i = n + 1 THEN u[n] \o WsCells(client, n + 1, frames[n + 1].len) ELSE u[i]]
  <2>2. Defines(v, n + 1)
    <3> SUFFICES ASSUME NEW i \in 0 .. n + 1
                 PROVE  v[i] = IF i = 0 THEN WsHandshake(client)
                               ELSE v[i - 1] \o WsCells(client, i, frames[i].len)
      OBVIOUS
    <3> QED
      BY <2>1
  <2> HIDE DEF Defines
  <2> QED
    BY <2>2
<1>3. \E u : Defines(u, Len(frames))
  <2>1. Len(frames) \in Nat
    BY DEF Frames
  <2>2. \A n \in Nat : n \in S
    <3> HIDE DEF S
    <3> QED
      BY <1>1, <1>2, SetInduction
  <2> HIDE DEF Defines
  <2> QED
    BY <2>1, <2>2
<1> QED
  BY <1>3 DEF WsWireOf

Laid(client, frames, ends) ==
  LaidOut(WsWireOf(client, frames), client, frames, ends, Len(frames))

LEMMA WireIsLaid ==
  ASSUME NEW client \in BOOLEAN, NEW frames \in Frames
  PROVE  \E ends : Laid(client, frames, ends)
<1>1. PICK u : /\ u = [i \in 0 .. Len(frames) |->
                         IF i = 0 THEN WsHandshake(client)
                         ELSE u[i - 1] \o WsCells(client, i, frames[i].len)]
               /\ WsWireOf(client, frames) = u[Len(frames)]
  BY WireEquation
<1> DEFINE S == {n \in Nat : n <= Len(frames) => \E e : LaidOut(u[n], client, frames, e, n)}
<1>2. Len(frames) \in Nat
  BY DEF Frames
<1>3. 0 \in S
  <2> DEFINE e == [i \in 0 .. 0 |-> IF client THEN WsResponseLen ELSE 0]
             w == WsHandshake(client)
  <2>1. u[0] = w
    BY <1>1, <1>2
  <2>2. /\ w \in Seq(Cells) /\ Len(w) = IF client THEN WsResponseLen ELSE 0
        /\ \A k \in 1 .. Len(w) : w[k] = <<0, k>>
    <3>1. CASE client
      <4>1. [k \in 1 .. 2 |-> <<0, k>>] \in Seq(Cells)
        BY DEF Cells
      <4> QED
        BY <3>1, <4>1 DEF WsHandshake, WsResponseLen
    <3>2. CASE ~client
      BY <3>2, EmptySequence DEF WsHandshake
    <3> QED
      BY <3>1, <3>2
  <2> HIDE DEF w
  <2>3. e[0] = (IF client THEN WsResponseLen ELSE 0) /\ e \in [0 .. 0 -> Nat] /\ e[0] \in Nat
    BY DEF WsResponseLen
  <2>4. \A k, l \in 1 .. Len(w) : k < l => WsBefore(w[k], w[l])
    BY <2>2 DEF WsBefore
  <2>5. \A k \in 1 .. Len(w) : w[k][1] <= 0
    BY <2>2
  <2> HIDE DEF e
  <2>6. LaidOut(w, client, frames, e, 0)
    BY <2>2, <2>3, <2>4, <2>5 DEF LaidOut
  <2> QED
    BY <2>1, <2>6
<1>4. ASSUME NEW n \in Nat, n \in S PROVE n + 1 \in S
  <2>1. CASE n + 1 <= Len(frames)
    <3>1. PICK e : LaidOut(u[n], client, frames, e, n)
      BY <1>2, <1>4, <2>1
    <3>2. u[n + 1] = u[n] \o WsCells(client, n + 1, frames[n + 1].len)
      BY <1>1, <1>2, <2>1
    <3>3. n < Len(frames)
      BY <1>2, <2>1
    <3>4. \E d : LaidOut(u[n] \o WsCells(client, n + 1, frames[n + 1].len), client, frames, d, n + 1)
      BY <3>1, <3>3, OneFrameMore
    <3>5. \E d : LaidOut(u[n + 1], client, frames, d, n + 1)
      BY ONLY <3>2, <3>4
    <3> QED
      BY <3>5
  <2>2. CASE ~(n + 1 <= Len(frames))
    BY <2>2
  <2> QED
    BY <2>1, <2>2
<1>5. \A n \in Nat : n \in S
  <2> HIDE DEF S
  <2> QED
    BY <1>3, <1>4, SetInduction
<1> QED
  BY <1>1, <1>2, <1>5 DEF Laid

------------------------------------------------------------------------------
(* The reader: the invariant.                                              *)

\* Cells that were read.
Read == wsCut - Len(wsIn)

\* The others that arrive are those of the wire from there on.
Arriving ==
  /\ wsClient \in BOOLEAN /\ wsFrames \in Frames
  /\ wsCut \in 0 .. Len(WsWire) /\ wsIn \in Seq(Cells) /\ Len(wsIn) <= wsCut
  /\ \A j \in 1 .. Len(wsIn) : wsIn[j] = WsWire[Read + j]

\* In the payload of frame i, of which wsNeed cells are left.
Inside(ends, i, op) ==
  /\ i \in 1 .. Len(wsFrames) /\ wsFrames[i].op = op
  /\ wsNeed \in 1 .. wsFrames[i].len /\ Read = ends[i] - wsNeed

PongCell(i, k) ==
  [frame |-> <<"pong", i>>, at |-> k, of |-> wsFrames[i].len + 1,
   byte |-> IF k = 1 THEN <<0, 0>> ELSE <<i, k - 1>>]

\* The answer to ping i but for its first m cells.
PongLeft(i, m) ==
  /\ i \in 1 .. Len(wsFrames) /\ wsFrames[i].op = "ping"
  /\ m \in 0 .. wsFrames[i].len /\ Len(wsPong) = wsFrames[i].len + 1 - m
  /\ \A k \in 1 .. Len(wsPong) : wsPong[k] = PongCell(i, m + k)

\* Where in the frames each state of the reader is.
Standing(ends) ==
  /\ wsState = "handshake" => wsClient /\ wsNeed \in 0 .. WsResponseLen - 1 /\ Read = wsNeed
  /\ wsState = "header" =>
       \E i \in 0 .. Len(wsFrames) :
         /\ wsNeed \in 0 .. WsHeaderLen(wsClient) - 1 /\ Read = ends[i] + wsNeed
         /\ i = Len(wsFrames) => wsNeed = 0
  /\ wsState = "payload" =>
       \E i \in 1 .. Len(wsFrames) :
         /\ Inside(ends, i, "data")
         /\ ~wsClient => wsMask = (wsFrames[i].len - wsNeed) % WsKeyLen
  /\ wsState = "ping" =>
       \E i \in 1 .. Len(wsFrames) :
         /\ Inside(ends, i, "ping")
         /\ wsPing = [k \in 1 .. wsFrames[i].len - wsNeed |-> <<i, k>>]
  /\ wsState = "ignore" => \E i \in 1 .. Len(wsFrames) : Inside(ends, i, "pong")
  /\ wsState = "pong" =>
       \E i \in 1 .. Len(wsFrames) : Read = ends[i] /\ \E m \in 0 .. wsFrames[i].len : PongLeft(i, m)

OutCells == [frame : {"data", "pong", "close"} \X Nat, at : Nat, of : Nat, byte : Cells]

ReaderTypes ==
  /\ wsState \in {"handshake", "header", "payload", "ping", "ignore", "pong", "closed"}
  /\ wsNeed \in Nat /\ wsMask \in Nat /\ wsPong \in Seq(OutCells)
  /\ wsEnd \in {"none", "end", "error", "refused"}
  /\ wsEnd # "none" <=> wsState = "closed"

\* The caller has the data cells that were read.
Given ==
  /\ wsGot \in Seq(Cells)
  /\ \A j \in 1 .. Len(wsGot) : \E k \in 1 .. Read : WsIsData(WsWire[k]) /\ wsGot[j] = WsWire[k]
  /\ \A k \in 1 .. Read : WsIsData(WsWire[k]) => \E j \in 1 .. Len(wsGot) : wsGot[j] = WsWire[k]
  /\ \A i, j \in 1 .. Len(wsGot) : i < j => WsBefore(wsGot[i], wsGot[j])

Ended ==
  wsEnd = "end" => wsIn = <<>> \/ (Read > 0 /\ wsFrames[WsWire[Read][1]].op = "close")

Reading(ends) ==
  Laid(wsClient, wsFrames, ends) /\ Arriving /\ ReaderTypes /\ Standing(ends) /\ Given /\ Ended

ReadInv == \E ends \in [0 .. Len(wsFrames) -> Nat] : Reading(ends)

------------------------------------------------------------------------------
(* The writers: the invariant.                                             *)

Kinds == {"data", "pong", "close"}
Pongs == {"pong"}               \* what WsRead writes
Written == {"data", "close"}    \* and WsWrite

\* Cell j of s is the last one of some kinds before place n.
LastOf(s, kinds, j, n) ==
  /\ s[j].frame[1] \in kinds
  /\ \A k \in 1 .. n - 1 : s[k].frame[1] \in kinds => k <= j

\* The cells of some kinds before place n end with cell `at` of a frame, or with a
\* whole one.
EndsBefore(s, kinds, n, frame, at) ==
  IF at = 0 THEN \A j \in 1 .. n - 1 : LastOf(s, kinds, j, n) => s[j].at = s[j].of
  ELSE \E j \in 1 .. n - 1 : LastOf(s, kinds, j, n) /\ s[j].frame = frame /\ s[j].at = at

EndsAt(s, kinds, frame, at) == EndsBefore(s, kinds, Len(s) + 1, frame, at)

\* The frames of some kinds are whole and one after the other, but for the last.
Follow(s, kinds) ==
  \A i \in 1 .. Len(s) :
    s[i].frame[1] \in kinds => EndsBefore(s, kinds, i, s[i].frame, s[i].at - 1)

OwnBytes(s) == \A i \in 1 .. Len(s) : WsOwnByte(s[i])

\* No frame can come inside another.
Alone == ~wsBusy \/ WsPings = {}

\* A pong is written in part.
MidPong == wsState = "pong" /\ wsPong # <<>> /\ wsPong[1].at > 1

\* The output ends where WsWrite left off, and where WsRead did.
WriterEnds(kinds) ==
  /\ wsWrite.st = "idle" => EndsAt(wsOut, kinds, <<"data", 0>>, 0)
  /\ wsWrite.st = "head" => EndsAt(wsOut, kinds, <<"data", wsWrite.of>>, wsWrite.done)
  /\ wsWrite.st = "body" => EndsAt(wsOut, kinds, <<"data", wsWrite.of>>, WsHeadLen + wsWrite.done)

PongEnds ==
  IF MidPong THEN EndsAt(wsOut, Pongs, wsPong[1].frame, wsPong[1].at - 1)
  ELSE EndsAt(wsOut, Pongs, <<"pong", 0>>, 0)

WriterTypes ==
  /\ wsBusy \in BOOLEAN /\ wsFull \in BOOLEAN /\ wsLock \in BOOLEAN /\ wsOut \in Seq(OutCells)
  /\ wsCall \in [n : Nat, size : Nat, st : {"idle", "poll", "shut", "broken"}]
  /\ wsWrite \in [st : {"idle", "head", "body"}, of : Nat, total : Nat, done : Nat]

Writing ==
  /\ wsLock => wsCall.st = "poll" /\ wsWrite.st # "idle"
  /\ wsWrite.st # "idle" =>
       wsWrite.of = wsCall.n /\ wsWrite.total = wsCall.size /\ wsCall.st \in {"poll", "broken"}
  /\ wsWrite.st = "head" => wsWrite.done < WsHeadLen
  /\ wsWrite.st = "body" => wsWrite.done < wsWrite.total
  /\ wsCall.st = "poll" => wsCall.size > 0
  /\ ~wsBusy => ~wsFull /\ (wsCall.st = "poll" /\ wsWrite.st # "idle" => wsLock)

\* Frames of some kinds that WsWrite adds to, and those of WsRead.
WriterSide(kinds) ==
  Follow(wsOut, kinds) /\ (wsCall.st \in WsNoSocket \/ WriterEnds(kinds))

PongSide ==
  Follow(wsOut, Pongs) /\ (wsCall.st \in WsNoSocket \/ wsState = "closed" \/ PongEnds)

WriterStands ==
  /\ WriterTypes /\ Writing /\ OwnBytes(wsOut)
  /\ PongSide /\ WriterSide(Written)
  /\ Alone => WriterSide(Kinds) /\ ~MidPong

WriteInv == wsDrops \in Nat /\ (wsDrops = 0 => WriterStands)

------------------------------------------------------------------------------
(* The reader: steps.                                                      *)

LEMMA WireFacts ==
  ASSUME Arriving, NEW ends, Laid(wsClient, wsFrames, ends)
  PROVE  /\ WsHeaderLen(wsClient) \in {1, 2}
         /\ Len(wsFrames) \in Nat
         /\ \A i \in 1 .. Len(wsFrames) : wsFrames[i].len \in Nat /\ wsFrames[i].op \in WsOps
         /\ ends \in [0 .. Len(wsFrames) -> Nat]
         /\ ends[0] = IF wsClient THEN WsResponseLen ELSE 0
         /\ \A i \in 1 .. Len(wsFrames) :
              /\ ends[i - 1] \in Nat /\ ends[i] \in Nat
              /\ ends[i] = ends[i - 1] + WsHeaderLen(wsClient) + wsFrames[i].len
         /\ WsWire \in Seq(Cells) /\ Len(WsWire) = ends[Len(wsFrames)]
         /\ \A k \in 1 .. ends[0] : WsWire[k] = <<0, k>>
         /\ \A i \in 1 .. Len(wsFrames) : \A k \in 1 .. WsHeaderLen(wsClient) + wsFrames[i].len :
              WsWire[ends[i - 1] + k] = <<i, k - WsHeaderLen(wsClient)>>
         /\ \A k, l \in 1 .. Len(WsWire) : k < l => WsBefore(WsWire[k], WsWire[l])
         /\ Read \in Nat /\ Read <= wsCut /\ wsCut <= Len(WsWire) /\ wsCut \in Nat
         /\ Len(wsIn) \in Nat /\ Read + Len(wsIn) = wsCut
<1>1. wsClient \in BOOLEAN /\ wsFrames \in Frames
  BY DEF Arriving
<1>2. WsHeaderLen(wsClient) \in {1, 2}
  BY DEF WsHeaderLen
<1>3. /\ Len(wsFrames) \in Nat
      /\ \A i \in 1 .. Len(wsFrames) : wsFrames[i].len \in Nat /\ wsFrames[i].op \in WsOps
  BY <1>1, FrameTypes
<1>4. LaidOut(WsWire, wsClient, wsFrames, ends, Len(wsFrames))
  BY DEF Laid, WsWire
<1>5. ends \in [0 .. Len(wsFrames) -> Nat]
  BY <1>4 DEF LaidOut
<1>6. \A i \in 1 .. Len(wsFrames) : ends[i - 1] \in Nat /\ ends[i] \in Nat
  <2> TAKE i \in 1 .. Len(wsFrames)
  <2>1. i - 1 \in 0 .. Len(wsFrames) /\ i \in 0 .. Len(wsFrames)
    BY <1>3
  <2> QED
    BY <1>5, <2>1
<1>7. WsWire \in Seq(Cells) /\ Len(WsWire) \in Nat
  BY <1>4 DEF LaidOut
<1>8. /\ Len(wsIn) \in Nat /\ Len(wsIn) <= wsCut /\ wsCut \in Nat /\ wsCut <= Len(WsWire)
  BY <1>7 DEF Arriving
<1>9. Read \in Nat /\ Read <= wsCut /\ Read + Len(wsIn) = wsCut
  BY <1>8 DEF Read
<1> QED
  BY <1>2, <1>3, <1>4, <1>5, <1>6, <1>7, <1>8, <1>9 DEF LaidOut

LEMMA Taken ==
  ASSUME Arriving, NEW n \in 1 .. Len(wsIn), WsTake(n), UNCHANGED wsFixed
  PROVE  /\ Arriving' /\ Read' = Read + n /\ WsWire' = WsWire
         /\ UNCHANGED <<wsClient, wsFrames>>
         /\ \A j \in 1 .. n : wsIn[j] = WsWire[Read + j]
<1>1. UNCHANGED <<wsClient, wsFrames, wsCut>> /\ WsWire' = WsWire
  BY DEF wsFixed, WsWire
<1>2. /\ wsIn \in Seq(Cells) /\ wsCut \in 0 .. Len(WsWire) /\ Len(wsIn) <= wsCut
      /\ \A j \in 1 .. Len(wsIn) : wsIn[j] = WsWire[Read + j]
      /\ Len(wsIn) \in Nat
  BY DEF Arriving
<1>3. /\ wsIn' \in Seq(Cells) /\ Len(wsIn') = Len(wsIn) - n
      /\ \A k \in 1 .. Len(wsIn) - n : wsIn'[k] = wsIn[n + k]
  BY <1>2, Parted DEF WsTake
<1>4. wsCut \in Int
  BY <1>2, Elements
<1>5. Read' = Read + n /\ Read \in Int
  BY <1>1, <1>2, <1>3, <1>4 DEF Read
<1>6. \A k \in 1 .. Len(wsIn') : wsIn'[k] = WsWire[Read' + k]
  <2> TAKE k \in 1 .. Len(wsIn')
  <2>1. n + k \in 1 .. Len(wsIn) /\ k \in 1 .. Len(wsIn) - n
    BY <1>2, <1>3
  <2>2. Read + (n + k) = Read' + k
    BY <1>5
  <2> QED
    BY <1>2, <1>3, <2>1, <2>2
<1>7. Len(wsIn') <= wsCut
  BY <1>2, <1>3, <1>4
<1>8. Arriving'
  BY <1>1, <1>2, <1>3, <1>6, <1>7 DEF Arriving
<1> QED
  BY <1>1, <1>2, <1>5, <1>8

LEMMA GivenNothing ==
  ASSUME Given, Read \in Nat, NEW n \in Nat, Read' = Read + n, UNCHANGED <<wsFrames, wsGot>>,
         WsWire' = WsWire,
         \A j \in 1 .. n : ~WsIsData(WsWire[Read + j])
  PROVE  Given'
<1>1. ASSUME NEW k \in 1 .. Read', WsIsData(WsWire[k]) PROVE k \in 1 .. Read
  <2>1. k > Read => k - Read \in 1 .. n /\ Read + (k - Read) = k
    OBVIOUS
  <2> QED
    BY <1>1, <2>1
<1>2. \A k \in 1 .. Read : k \in 1 .. Read'
  OBVIOUS
<1>3. \A c : WsIsData(c)' <=> WsIsData(c)
  BY DEF WsIsData
<1> QED
  BY <1>1, <1>2, <1>3 DEF Given, WsBefore, WsIsData

LEMMA GivenAll ==
  ASSUME Given, Read \in Nat, NEW n \in Nat, Read' = Read + n, Read + n <= Len(WsWire),
         UNCHANGED wsFrames, WsWire' = WsWire, WsWire \in Seq(Cells),
         \A k, l \in 1 .. Len(WsWire) : k < l => WsBefore(WsWire[k], WsWire[l]),
         NEW g \in Seq(Cells), wsGot' = wsGot \o g, Len(g) = n,
         \A j \in 1 .. n : g[j] = WsWire[Read + j] /\ WsIsData(WsWire[Read + j])
  PROVE  Given'
<1> DEFINE p == Len(wsGot)
<1>1. /\ wsGot \in Seq(Cells)
      /\ \A j \in 1 .. p : \E k \in 1 .. Read : WsIsData(WsWire[k]) /\ wsGot[j] = WsWire[k]
      /\ \A k \in 1 .. Read : WsIsData(WsWire[k]) => \E j \in 1 .. p : wsGot[j] = WsWire[k]
      /\ \A i, j \in 1 .. p : i < j => WsBefore(wsGot[i], wsGot[j])
  BY DEF Given
<1>2. /\ wsGot' \in Seq(Cells) /\ Len(wsGot') = p + n /\ p \in Nat
      /\ \A j \in 1 .. p : wsGot'[j] = wsGot[j]
      /\ \A j \in 1 .. n : wsGot'[p + j] = g[j]
  <2>1. LET v == wsGot \o g IN
          /\ v \in Seq(Cells) /\ Len(v) = Len(wsGot) + Len(g)
          /\ \A k \in 1 .. Len(wsGot) : v[k] = wsGot[k]
          /\ \A k \in 1 .. Len(g) : v[Len(wsGot) + k] = g[k]
          /\ Len(wsGot) \in Nat
    BY ONLY <1>1, g \in Seq(Cells), Joined
  <2> QED
    BY ONLY <2>1, wsGot' = wsGot \o g, Len(g) = n
<1>3. Len(WsWire) \in Nat
  BY Elements
<1> HIDE DEF p
<1>4. ASSUME NEW j \in 1 .. p + n
      PROVE  \/ j \in 1 .. p /\ wsGot'[j] = wsGot[j]
             \/ j - p \in 1 .. n /\ wsGot'[j] = WsWire[Read + (j - p)]
  <2>1. j \in 1 .. p \/ (j - p \in 1 .. n /\ p + (j - p) = j)
    BY <1>2
  <2> QED
    BY <1>2, <2>1
<1>5. ASSUME NEW j \in 1 .. p + n
      PROVE  \E k \in 1 .. Read + n : WsIsData(WsWire[k]) /\ wsGot'[j] = WsWire[k]
  <2>1. CASE j \in 1 .. p /\ wsGot'[j] = wsGot[j]
    <3>1. PICK k \in 1 .. Read : WsIsData(WsWire[k]) /\ wsGot[j] = WsWire[k]
      BY <1>1, <2>1
    <3>2. k \in 1 .. Read + n
      OBVIOUS
    <3> QED
      BY <2>1, <3>1, <3>2
  <2>2. CASE j - p \in 1 .. n /\ wsGot'[j] = WsWire[Read + (j - p)]
    <3>1. Read + (j - p) \in 1 .. Read + n
      BY <1>2, <2>2
    <3> QED
      BY <2>2, <3>1
  <2> QED
    BY <1>4, <2>1, <2>2
<1>6. ASSUME NEW k \in 1 .. Read + n, WsIsData(WsWire[k])
      PROVE  \E j \in 1 .. p + n : wsGot'[j] = WsWire[k]
  <2>1. CASE k \in 1 .. Read
    <3>1. PICK j \in 1 .. p : wsGot[j] = WsWire[k]
      BY <1>1, <1>6, <2>1
    <3>2. j \in 1 .. p + n
      BY <1>2
    <3> QED
      BY <1>2, <3>1, <3>2
  <2>2. CASE k \notin 1 .. Read
    <3>1. k - Read \in 1 .. n /\ Read + (k - Read) = k /\ p + (k - Read) \in 1 .. p + n
      BY <1>2, <2>2
    <3>2. wsGot'[p + (k - Read)] = WsWire[k]
      BY <1>2, <3>1
    <3> QED
      BY <3>1, <3>2
  <2> QED
    BY <2>1, <2>2
<1>7. ASSUME NEW i \in 1 .. p + n, NEW j \in 1 .. p + n, i < j
      PROVE  WsBefore(wsGot'[i], wsGot'[j])
  <2>1. CASE j \in 1 .. p
    <3>1. i \in 1 .. p
      BY <1>2, <1>7, <2>1
    <3> QED
      BY <1>1, <1>2, <1>7, <2>1, <3>1
  <2>2. CASE j \notin 1 .. p
    <3>1. j - p \in 1 .. n /\ wsGot'[j] = WsWire[Read + (j - p)]
      BY <1>4, <2>2
    <3>2. \E k \in 1 .. Len(WsWire) : k < Read + (j - p) /\ wsGot'[i] = WsWire[k]
      <4>1. CASE i \in 1 .. p
        <5>1. PICK k \in 1 .. Read : wsGot[i] = WsWire[k]
          BY <1>1, <4>1
        <5>2. k \in 1 .. Len(WsWire) /\ k < Read + (j - p)
          <6>1. PICK r \in Nat, l \in Nat, d \in 1 .. n : r = Read /\ l = Len(WsWire) /\ d = j - p
            BY <1>3, <3>1
          <6>2. k \in 1 .. r /\ r + n <= l
            BY <6>1
          <6>3. k \in 1 .. l /\ k < r + d
            BY ONLY <6>2, r \in Nat, l \in Nat, d \in 1 .. n, n \in Nat
          <6> QED
            BY <6>1, <6>3
        <5> QED
          BY <1>2, <4>1, <5>1, <5>2
      <4>2. CASE i \notin 1 .. p
        <5>1. i - p \in 1 .. n /\ wsGot'[i] = WsWire[Read + (i - p)]
          BY <1>4, <4>2
        <5>2. Read + (i - p) \in 1 .. Len(WsWire) /\ Read + (i - p) < Read + (j - p)
          BY <1>2, <1>3, <1>7, <5>1
        <5> QED
          BY <5>1, <5>2
      <4> QED
        BY <4>1, <4>2
    <3>3. Read + (j - p) \in 1 .. Len(WsWire)
      BY <1>2, <1>3, <3>1
    <3> QED
      BY <3>1, <3>2, <3>3
  <2> QED
    BY <2>1, <2>2
<1>8. \A k \in 1 .. Read' : WsIsData(WsWire[k])' <=> WsIsData(WsWire[k])
  BY DEF WsIsData
<1>9. /\ \A j \in 1 .. Len(wsGot') : \E k \in 1 .. Read' : WsIsData(WsWire[k])' /\ wsGot'[j] = WsWire'[k]
      /\ \A k \in 1 .. Read' :
           WsIsData(WsWire[k])' => \E j \in 1 .. Len(wsGot') : wsGot'[j] = WsWire'[k]
  <2>1. ASSUME NEW j \in 1 .. Len(wsGot')
        PROVE  \E k \in 1 .. Read' : WsIsData(WsWire[k])' /\ wsGot'[j] = WsWire'[k]
    BY <1>2, <1>5, <1>8
  <2>2. ASSUME NEW k \in 1 .. Read', WsIsData(WsWire[k])'
        PROVE  \E j \in 1 .. Len(wsGot') : wsGot'[j] = WsWire'[k]
    BY <1>2, <1>6, <1>8, <2>2
  <2> QED
    BY <2>1, <2>2
<1>10. \A i, j \in 1 .. Len(wsGot') : i < j => WsBefore(wsGot'[i], wsGot'[j])
  BY <1>2, <1>7
<1> QED
  BY ONLY <1>2, <1>9, <1>10 DEF Given, WsBefore

\* The payload cells to come.
LEMMA InsideCells ==
  ASSUME Arriving, NEW ends, Laid(wsClient, wsFrames, ends), NEW i, NEW op, Inside(ends, i, op),
         NEW j \in 1 .. wsNeed
  PROVE  WsWire[Read + j] = <<i, wsFrames[i].len - wsNeed + j>>
<1>1. /\ i \in 1 .. Len(wsFrames) /\ wsNeed \in 1 .. wsFrames[i].len
      /\ Read = ends[i] - wsNeed
  BY DEF Inside
<1>2. PICK h \in {1, 2} : h = WsHeaderLen(wsClient)
  BY WireFacts
<1>3. PICK len \in Nat : len = wsFrames[i].len
  BY <1>1, WireFacts
<1>4. PICK s \in Nat : s = ends[i - 1]
  BY <1>1, WireFacts
<1>5. ends[i] = s + h + len
  BY <1>1, <1>2, <1>3, <1>4, WireFacts
<1>6. wsNeed \in 1 .. len
  BY <1>1, <1>3
<1>7. /\ Read + j = s + (h + (len - wsNeed + j)) /\ h + (len - wsNeed + j) \in 1 .. h + len
      /\ (h + (len - wsNeed + j)) - h = len - wsNeed + j
  BY <1>1, <1>5, <1>6
<1>8. \A k \in 1 .. h + len : WsWire[s + k] = <<i, k - h>>
  BY <1>1, <1>2, <1>3, <1>4, WireFacts
<1> QED
  BY <1>3, <1>7, <1>8

\* The answer to a ping.
LEMMA PongOf ==
  ASSUME NEW i \in Nat, NEW len \in Nat, NEW payload \in [1 .. len -> Cells],
         \A k \in 1 .. len : payload[k] = <<i, k>>
  PROVE  LET p == WsPongCells(i, payload) IN
           /\ p \in Seq(OutCells) /\ Len(p) = len + 1
           /\ \A k \in 1 .. len + 1 :
                p[k] = [frame |-> <<"pong", i>>, at |-> k, of |-> len + 1,
                        byte |-> IF k = 1 THEN <<0, 0>> ELSE <<i, k - 1>>]
<1>2. payload \in Seq(Cells) /\ Len(payload) = len
  BY Listed
<1> DEFINE Cell(k) == [frame |-> <<"pong", i>>, at |-> k, of |-> len + 1,
                       byte |-> IF k = 1 THEN <<0, 0>> ELSE payload[k - 1]]
           p == WsPongCells(i, payload)
<1>3. p = [k \in 1 .. len + 1 |-> Cell(k)]
  BY <1>2 DEF WsPongCells
<1> HIDE DEF p
<1>4. ASSUME NEW k \in 1 .. len + 1
      PROVE  /\ Cell(k) \in OutCells
             /\ Cell(k) = [frame |-> <<"pong", i>>, at |-> k, of |-> len + 1,
                           byte |-> IF k = 1 THEN <<0, 0>> ELSE <<i, k - 1>>]
  <2>1. k # 1 => k - 1 \in 1 .. len
    BY <1>4
  <2>2. k # 1 => payload[k - 1] = <<i, k - 1>>
    BY <2>1
  <2>3. (IF k = 1 THEN <<0, 0>> ELSE payload[k - 1]) \in Cells
    BY <2>1, <2>2 DEF Cells
  <2>4. <<"pong", i>> \in {"data", "pong", "close"} \X Nat /\ k \in Nat /\ len + 1 \in Nat
    OBVIOUS
  <2>5. Cell(k) \in OutCells
    BY <2>3, <2>4 DEF OutCells
  <2> QED
    BY <2>2, <2>5
<1>5. \A k \in 1 .. len + 1 : p[k] = Cell(k)
  BY <1>3
<1>6. p \in Seq(OutCells) /\ Len(p) = len + 1
  <2> HIDE DEF Cell
  <2>1. p \in [1 .. len + 1 -> OutCells]
    BY <1>3, <1>4
  <2>2. len + 1 \in Nat
    OBVIOUS
  <2> QED
    BY ONLY <2>1, <2>2, Listed
<1>7. \A k \in 1 .. len + 1 :
        p[k] = [frame |-> <<"pong", i>>, at |-> k, of |-> len + 1,
                byte |-> IF k = 1 THEN <<0, 0>> ELSE <<i, k - 1>>]
  <2> HIDE DEF Cell
  <2> QED
    BY <1>4, <1>5
<1> QED
  BY <1>6, <1>7 DEF p

LEMMA AnswerOfPing ==
  ASSUME Len(wsFrames') \in Nat, NEW i \in 1 .. Len(wsFrames'), NEW len \in Nat,
         wsFrames'[i].op = "ping", wsFrames'[i].len = len,
         NEW payload, payload = [k \in 1 .. len |-> <<i, k>>],
         wsPong' = WsPongCells(i, payload)
  PROVE  PongLeft(i, 0)' /\ wsPong' \in Seq(OutCells)
<1>1. i \in Nat
  OBVIOUS
<1>2. PICK p : p = wsPong'
  OBVIOUS
<1>3. /\ p \in Seq(OutCells) /\ Len(p) = len + 1
      /\ \A k \in 1 .. len + 1 :
           p[k] = [frame |-> <<"pong", i>>, at |-> k, of |-> len + 1,
                   byte |-> IF k = 1 THEN <<0, 0>> ELSE <<i, k - 1>>]
  <2>1. \A k \in 1 .. len : <<i, k>> \in Cells
    BY DEF Cells
  <2>2. payload \in [1 .. len -> Cells] /\ \A k \in 1 .. len : payload[k] = <<i, k>>
    BY <2>1
  <2>3. p = WsPongCells(i, payload)
    BY <1>2
  <2> QED
    BY ONLY <1>1, <2>2, <2>3, PongOf, len \in Nat
<1>4. ASSUME NEW k \in 1 .. Len(p) PROVE p[k] = PongCell(i, 0 + k)'
  <2>1. 0 + k = k /\ k \in 1 .. len + 1
    BY <1>3
  <2>2. PongCell(i, k)' = [frame |-> <<"pong", i>>, at |-> k, of |-> len + 1,
                           byte |-> IF k = 1 THEN <<0, 0>> ELSE <<i, k - 1>>]
    BY DEF PongCell
  <2> QED
    BY <1>3, <2>1, <2>2
<1>5. len + 1 - 0 = len + 1 /\ 0 \in 0 .. len
  OBVIOUS
<1> QED
  BY ONLY <1>2, <1>3, <1>4, <1>5, i \in 1 .. Len(wsFrames'),
     wsFrames'[i].op = "ping", wsFrames'[i].len = len DEF PongLeft

LEMMA ReaderStays ==
  ASSUME NEW ends, Reading(ends), UNCHANGED <<wsFixed, wsIn, wsReader>>
  PROVE  Reading(ends)'
<1>1. /\ UNCHANGED <<wsClient, wsFrames, wsCut, wsIn>> /\ WsWire' = WsWire /\ Read' = Read
      /\ UNCHANGED <<wsState, wsNeed, wsMask, wsPing, wsPong, wsGot, wsEnd>>
  BY DEF wsFixed, wsReader, WsWire, Read
<1>2. Laid(wsClient, wsFrames, ends)' /\ Arriving' /\ ReaderTypes' /\ Ended'
  BY <1>1 DEF Reading, Arriving, ReaderTypes, Ended
<1>3. Given'
  BY <1>1 DEF Reading, Given, WsIsData, WsBefore
<1>4. Standing(ends)'
  BY <1>1 DEF Reading, Standing, Inside, PongLeft, PongCell
<1> QED
  BY <1>2, <1>3, <1>4 DEF Reading

\* Reading stops: only that it is the end of the stream takes showing.
LEMMA Stops ==
  ASSUME NEW ends, Laid(wsClient, wsFrames, ends)', Arriving', ReaderTypes, Given', NEW e, WsStop(e),
         e \in {"end", "error", "refused"}, Ended'
  PROVE  Reading(ends)'
<1>1. ReaderTypes'
  BY DEF ReaderTypes, WsStop
<1>2. Standing(ends)'
  BY DEF Standing, WsStop
<1> QED
  BY <1>1, <1>2 DEF Reading

LEMMA ShakeReads ==
  ASSUME NEW ends, Reading(ends), WsShake
  PROVE  Reading(ends)'
<1>1. /\ Arriving /\ Laid(wsClient, wsFrames, ends) /\ Given /\ ReaderTypes
      /\ UNCHANGED <<wsFixed, wsGot>> /\ wsIn # <<>>
      /\ wsClient = TRUE /\ wsNeed \in 0 .. 1 /\ Read = wsNeed /\ wsState = "handshake"
  BY DEF Reading, Standing, WsShake, WsResponseLen, Arriving
<1>2. PICK n \in WsReads(WsShakeBytes) :
        /\ WsTake(n)
        /\ \/ /\ wsNeed + n < WsResponseLen
              /\ wsNeed' = wsNeed + n
              /\ UNCHANGED <<wsState, wsMask, wsPing, wsPong, wsEnd>>
           \/ /\ wsNeed + n >= WsResponseLen
              /\ WsNextFrame
              /\ UNCHANGED <<wsMask, wsPing, wsPong, wsEnd>>
           \/ /\ wsNeed + n >= WsResponseLen
              /\ WsStop("refused")
  BY DEF WsShake
<1>3. Len(wsIn) \in Nat /\ Len(wsIn) > 0
  BY <1>1 DEF Arriving
<1>4. n = 1 /\ n \in 1 .. Len(wsIn)
  BY <1>2, <1>3 DEF WsReads, WsShakeBytes
<1>5. /\ Arriving' /\ Read' = Read + 1 /\ WsWire' = WsWire
      /\ UNCHANGED <<wsClient, wsFrames>>
  BY <1>1, <1>2, <1>4, Taken
<1>6. /\ ends[0] = 2 /\ Len(wsFrames) \in Nat /\ WsHeaderLen(wsClient) \in {1, 2} /\ Read \in Nat
      /\ \A k \in 1 .. 2 : WsWire[k] = <<0, k>>
  BY <1>1, WireFacts DEF WsResponseLen
<1>7. Laid(wsClient, wsFrames, ends)'
  BY <1>1, <1>5
<1>8. Given'
  <2>1. Read + 1 \in 1 .. 2
    BY <1>1
  <2>2. \A j \in 1 .. 1 : ~WsIsData(WsWire[Read + j])
    BY <1>6, <2>1 DEF WsIsData
  <2> QED
    BY <1>1, <1>5, <1>6, <2>2, GivenNothing
<1>9. CASE WsStop("refused")
  <2>1. Ended'
    BY <1>9 DEF WsStop, Ended
  <2> QED
    BY <1>1, <1>5, <1>7, <1>8, <1>9, <2>1, Stops
<1>10. CASE /\ wsNeed + n < WsResponseLen
            /\ wsNeed' = wsNeed + n
            /\ UNCHANGED <<wsState, wsMask, wsPing, wsPong, wsEnd>>
  <2>1. Standing(ends)'
    BY <1>1, <1>4, <1>5, <1>10 DEF Standing, WsResponseLen
  <2>2. ReaderTypes' /\ Ended'
    BY <1>1, <1>4, <1>10 DEF ReaderTypes, Ended
  <2> QED
    BY <1>5, <1>7, <1>8, <2>1, <2>2 DEF Reading
<1>11. CASE /\ wsNeed + n >= WsResponseLen
            /\ WsNextFrame
            /\ UNCHANGED <<wsMask, wsPing, wsPong, wsEnd>>
  <2>1. wsState' = "header" /\ wsNeed' = 0
    BY <1>11 DEF WsNextFrame
  <2>2. Read' = ends[0] + wsNeed'
    BY <1>1, <1>4, <1>5, <1>6, <1>11, <2>1 DEF WsResponseLen
  <2>3. 0 \in 0 .. Len(wsFrames) /\ 0 \in 0 .. WsHeaderLen(wsClient) - 1
    BY <1>6
  <2>4. Standing(ends)'
    BY <1>5, <2>1, <2>2, <2>3 DEF Standing
  <2>5. ReaderTypes' /\ Ended'
    BY <1>1, <1>11, <2>1 DEF ReaderTypes, Ended
  <2> QED
    BY <1>5, <1>7, <1>8, <2>4, <2>5 DEF Reading
<1> QED
  BY <1>2, <1>9, <1>10, <1>11

\* What a complete header leads to, opcode by opcode.
LEMMA ParsedCases ==
  ASSUME NEW i, wsFrames[i].len \in Nat, WsParsed(i)
  PROVE  /\ wsFrames[i].op \in {"data", "pong"} /\ wsFrames[i].len = 0 =>
              WsNextFrame /\ UNCHANGED <<wsMask, wsPing, wsPong, wsEnd>>
         /\ wsFrames[i].op = "data" /\ wsFrames[i].len # 0 =>
              /\ wsState' = "payload" /\ wsNeed' = wsFrames[i].len /\ wsMask' = 0
              /\ UNCHANGED <<wsPing, wsPong, wsEnd>>
         /\ wsFrames[i].op = "pong" /\ wsFrames[i].len # 0 =>
              /\ wsState' = "ignore" /\ wsNeed' = wsFrames[i].len
              /\ UNCHANGED <<wsMask, wsPing, wsPong, wsEnd>>
         /\ wsFrames[i].op = "ping" /\ wsFrames[i].len # 0 =>
              /\ wsState' = "ping" /\ wsNeed' = wsFrames[i].len /\ wsPing' = <<>>
              /\ UNCHANGED <<wsMask, wsPong, wsEnd>>
         /\ wsFrames[i].op = "ping" /\ wsFrames[i].len = 0 =>
              /\ wsState' = "pong" /\ wsPong' = WsPongCells(i, <<>>)
              /\ UNCHANGED <<wsNeed, wsMask, wsPing, wsEnd>>
         /\ wsFrames[i].op = "close" => WsStop("end")
         /\ wsFrames[i].op = "bad" => WsStop("error")
<1>1. PICK len \in Nat : len = wsFrames[i].len
  OBVIOUS
<1>2. (len > 0) <=> (len # 0)
  OBVIOUS
<1>3. PICK op : op = wsFrames[i].op
  OBVIOUS
<1>4. CASE op = "data"
  BY <1>1, <1>2, <1>3, <1>4 DEF WsParsed
<1>5. CASE op = "pong"
  BY <1>1, <1>2, <1>3, <1>5 DEF WsParsed
<1>6. CASE op = "ping"
  BY <1>1, <1>2, <1>3, <1>6 DEF WsParsed
<1>7. CASE op = "close"
  BY <1>1, <1>2, <1>3, <1>7 DEF WsParsed
<1>8. CASE op = "bad"
  BY <1>1, <1>2, <1>3, <1>8 DEF WsParsed
<1> QED
  BY <1>3, <1>4, <1>5, <1>6, <1>7, <1>8

\* The cell of a header that comes next.
LEMMA HeaderCell ==
  ASSUME NEW ends, Reading(ends), wsState = "header", wsIn # <<>>
  PROVE  \E i \in 1 .. Len(wsFrames) :
           /\ wsNeed \in 0 .. WsHeaderLen(wsClient) - 1 /\ Read = ends[i - 1] + wsNeed
           /\ wsIn[1] = WsWire[Read + 1]
           /\ WsWire[Read + 1] = <<i, wsNeed + 1 - WsHeaderLen(wsClient)>>
           /\ 1 \in 1 .. Len(wsIn)
<1>1. Arriving /\ Laid(wsClient, wsFrames, ends)
  BY DEF Reading
<1>2. PICK i \in 0 .. Len(wsFrames) :
        /\ wsNeed \in 0 .. WsHeaderLen(wsClient) - 1 /\ Read = ends[i] + wsNeed
        /\ i = Len(wsFrames) => wsNeed = 0
  BY DEF Reading, Standing
<1>3. /\ Len(wsFrames) \in Nat /\ WsHeaderLen(wsClient) \in {1, 2} /\ Len(wsIn) \in Nat
      /\ Read + Len(wsIn) = wsCut /\ wsCut <= Len(WsWire) /\ Read \in Nat /\ wsCut \in Nat
      /\ Len(WsWire) = ends[Len(wsFrames)] /\ ends \in [0 .. Len(wsFrames) -> Nat]
  BY <1>1, WireFacts
<1>4. Len(wsIn) > 0
  BY <1>1, <1>3 DEF Arriving
<1>5. i # Len(wsFrames)
  BY <1>2, <1>3, <1>4
<1>6. i + 1 \in 1 .. Len(wsFrames) /\ (i + 1) - 1 = i
  BY <1>3, <1>5
<1>7. 1 \in 1 .. Len(wsIn) /\ wsIn[1] = WsWire[Read + 1]
  BY <1>1, <1>3, <1>4 DEF Arriving
<1>8. WsWire[Read + 1] = <<i + 1, wsNeed + 1 - WsHeaderLen(wsClient)>>
  <2>1. PICK h \in {1, 2} : h = WsHeaderLen(wsClient)
    BY <1>3
  <2>2. PICK len \in Nat : len = wsFrames[i + 1].len
    BY <1>1, <1>6, WireFacts
  <2>3. \A k \in 1 .. h + len : WsWire[ends[i] + k] = <<i + 1, k - h>>
    <3>1. \A k \in 1 .. h + len : WsWire[ends[(i + 1) - 1] + k] = <<i + 1, k - h>>
      BY <1>1, <1>6, <2>1, <2>2, WireFacts
    <3> QED
      BY <1>6, <3>1
  <2>4. wsNeed + 1 \in 1 .. h + len /\ ends[i] + (wsNeed + 1) = Read + 1
    <3>1. wsNeed \in 0 .. h - 1 /\ Read = ends[i] + wsNeed /\ ends[i] \in Nat
      BY <1>2, <1>3, <2>1
    <3> QED
      BY ONLY <3>1, h \in {1, 2}, len \in Nat
  <2>5. (wsNeed + 1) - h = wsNeed + 1 - h
    BY <1>2, <2>1
  <2>6. WsWire[Read + 1] = <<i + 1, wsNeed + 1 - h>>
    BY ONLY <2>3, <2>4, <2>5
  <2> QED
    BY <2>1, <2>6
<1> QED
  BY <1>2, <1>6, <1>7, <1>8

LEMMA HeaderReads ==
  ASSUME NEW ends, Reading(ends), WsHeaderRead
  PROVE  Reading(ends)'
<1>1. /\ Arriving /\ Laid(wsClient, wsFrames, ends) /\ Given /\ ReaderTypes
      /\ UNCHANGED <<wsFixed, wsGot>> /\ wsIn # <<>> /\ wsState = "header" /\ wsEnd = "none"
      /\ WsTake(1)
  BY DEF Reading, WsHeaderRead, ReaderTypes
<1>2. PICK h \in {1, 2} : h = WsHeaderLen(wsClient)
  BY <1>1, WireFacts
<1>3. PICK i \in 1 .. Len(wsFrames) :
        /\ wsNeed \in 0 .. h - 1 /\ Read = ends[i - 1] + wsNeed
        /\ wsIn[1] = WsWire[Read + 1]
        /\ WsWire[Read + 1] = <<i, wsNeed + 1 - h>>
        /\ 1 \in 1 .. Len(wsIn)
  BY <1>1, <1>2, HeaderCell
<1>4. /\ Arriving' /\ Read' = Read + 1 /\ WsWire' = WsWire
      /\ UNCHANGED <<wsClient, wsFrames>>
  BY <1>1, <1>3, Taken
<1>5. /\ Len(wsFrames) \in Nat /\ Read \in Nat /\ ends[i - 1] \in Nat /\ ends[i] \in Nat
      /\ ends[i] = ends[i - 1] + h + wsFrames[i].len
      /\ wsFrames[i].len \in Nat /\ wsFrames[i].op \in WsOps
  BY <1>1, <1>2, WireFacts
<1>6. Laid(wsClient, wsFrames, ends)'
  BY <1>1, <1>4
<1>7. Given'
  <2>1. \A j \in 1 .. 1 : ~WsIsData(WsWire[Read + j])
    BY <1>3 DEF WsIsData
  <2> QED
    BY <1>1, <1>4, <1>5, <2>1, GivenNothing
<1>8. ASSUME Standing(ends)', ReaderTypes', wsEnd' # "end" PROVE Reading(ends)'
  BY <1>4, <1>6, <1>7, <1>8 DEF Reading, Ended
<1>9. CASE wsNeed + 1 < h
  <2>1. wsNeed' = wsNeed + 1 /\ UNCHANGED <<wsState, wsMask, wsPing, wsPong, wsEnd>>
    BY <1>2, <1>9 DEF WsHeaderRead
  <2>2. i - 1 \in 0 .. Len(wsFrames) /\ i - 1 # Len(wsFrames)
    BY <1>5
  <2>3. wsNeed' \in 0 .. h - 1 /\ Read' = ends[i - 1] + wsNeed'
    BY <1>3, <1>4, <1>5, <1>9, <2>1
  <2>4. Standing(ends)'
    BY <1>1, <1>2, <1>4, <2>1, <2>2, <2>3 DEF Standing
  <2>5. ReaderTypes'
    BY <1>1, <2>1, <2>3 DEF ReaderTypes
  <2> QED
    BY <1>1, <1>8, <2>1, <2>4, <2>5
<1>10. CASE ~(wsNeed + 1 < h)
  <2>1. wsIn[1][1] = i
    BY <1>3
  <2>2. WsParsed(i)
    BY <1>2, <1>10, <2>1 DEF WsHeaderRead
  <2>3. wsNeed = h - 1 /\ Read' = ends[i - 1] + h
    <3>1. /\ wsNeed \in 0 .. h - 1 /\ Read = ends[i - 1] + wsNeed /\ ends[i - 1] \in Nat
          /\ Read' = Read + 1 /\ ~(wsNeed + 1 < h)
      BY <1>3, <1>4, <1>5, <1>10
    <3> QED
      BY ONLY <3>1, h \in {1, 2}
  <2>4. PICK len \in Nat : len = wsFrames[i].len
    BY <1>5
  <2>5. Read' = ends[i] - len
    BY <1>5, <2>3, <2>4
  <2>6. ASSUME len # 0, NEW op, wsFrames[i].op = op, wsNeed' = len
        PROVE  Inside(ends, i, op)'
    BY <1>4, <2>4, <2>5, <2>6 DEF Inside
  <2>7. CASE wsFrames[i].op \in {"data", "pong"} /\ len = 0
    <3>1. wsState' = "header" /\ wsNeed' = 0 /\ UNCHANGED <<wsMask, wsPing, wsPong, wsEnd>>
      BY <2>2, <2>4, <2>7, ParsedCases DEF WsNextFrame
    <3>2. Read' = ends[i] + wsNeed' /\ i \in 0 .. Len(wsFrames) /\ 0 \in 0 .. h - 1
      BY <1>5, <2>5, <2>7, <3>1
    <3>3. Standing(ends)'
      BY <1>2, <1>4, <3>1, <3>2 DEF Standing
    <3>4. ReaderTypes'
      BY <1>1, <3>1 DEF ReaderTypes
    <3> QED
      BY <1>1, <1>8, <3>1, <3>3, <3>4
  <2>8. CASE wsFrames[i].op = "data" /\ len # 0
    <3>1. /\ wsState' = "payload" /\ wsNeed' = len /\ wsMask' = 0
          /\ UNCHANGED <<wsPing, wsPong, wsEnd>>
      BY <2>2, <2>4, <2>8, ParsedCases
    <3>2. Inside(ends, i, "data")'
      BY <2>6, <2>8, <3>1
    <3>3. wsMask' = (wsFrames[i].len - wsNeed') % WsKeyLen
      BY <2>4, <3>1 DEF WsKeyLen
    <3>4. Standing(ends)'
      BY <1>4, <3>1, <3>2, <3>3 DEF Standing
    <3>5. ReaderTypes'
      BY <1>1, <3>1 DEF ReaderTypes
    <3> QED
      BY <1>1, <1>8, <3>1, <3>4, <3>5
  <2>9. CASE wsFrames[i].op = "pong" /\ len # 0
    <3>1. /\ wsState' = "ignore" /\ wsNeed' = len
          /\ UNCHANGED <<wsMask, wsPing, wsPong, wsEnd>>
      BY <2>2, <2>4, <2>9, ParsedCases
    <3>2. Inside(ends, i, "pong")'
      BY <2>6, <2>9, <3>1
    <3>3. Standing(ends)'
      BY <1>4, <3>1, <3>2 DEF Standing
    <3>4. ReaderTypes'
      BY <1>1, <3>1 DEF ReaderTypes
    <3> QED
      BY <1>1, <1>8, <3>1, <3>3, <3>4
  <2>10. CASE wsFrames[i].op = "ping" /\ len # 0
    <3>1. /\ wsState' = "ping" /\ wsNeed' = len /\ wsPing' = <<>>
          /\ UNCHANGED <<wsMask, wsPong, wsEnd>>
      BY <2>2, <2>4, <2>10, ParsedCases
    <3>2. Inside(ends, i, "ping")'
      BY <2>6, <2>10, <3>1
    <3>3. wsPing' = [k \in 1 .. wsFrames[i].len - wsNeed' |-> <<i, k>>]
      <4>1. wsFrames[i].len - wsNeed' = 0
        BY <2>4, <3>1
      <4>2. [k \in 1 .. 0 |-> <<i, k>>] = <<>>
        OBVIOUS
      <4> QED
        BY <3>1, <4>1, <4>2
    <3>4. Standing(ends)'
      BY <1>4, <3>1, <3>2, <3>3 DEF Standing
    <3>5. ReaderTypes'
      BY <1>1, <3>1 DEF ReaderTypes
    <3> QED
      BY <1>1, <1>8, <3>1, <3>4, <3>5
  <2>11. CASE wsFrames[i].op = "ping" /\ len = 0
    <3>1. /\ wsState' = "pong" /\ wsPong' = WsPongCells(i, <<>>)
          /\ UNCHANGED <<wsNeed, wsMask, wsPing, wsEnd>>
      BY <2>2, <2>4, <2>11, ParsedCases
    <3>2. PongLeft(i, 0)' /\ wsPong' \in Seq(OutCells)
      <4>1. <<>> = [k \in 1 .. len |-> <<i, k>>]
        BY <2>11
      <4>2. /\ Len(wsFrames') \in Nat /\ i \in 1 .. Len(wsFrames')
            /\ wsFrames'[i].op = "ping" /\ wsFrames'[i].len = len
        BY <1>4, <1>5, <2>4, <2>11
      <4> QED
        BY <3>1, <4>1, <4>2, AnswerOfPing
    <3>3. Read' = ends[i]
      BY <1>5, <2>5, <2>11
    <3>4. Standing(ends)'
      <4>1. 0 \in 0 .. wsFrames'[i].len
        BY <1>4, <2>4
      <4> QED
        BY <1>4, <3>1, <3>2, <3>3, <4>1 DEF Standing
    <3>5. ReaderTypes'
      BY <1>1, <3>1, <3>2 DEF ReaderTypes
    <3> QED
      BY <1>1, <1>8, <3>1, <3>4, <3>5
  <2>12. CASE wsFrames[i].op = "close"
    <3>1. WsStop("end")
      BY <1>5, <2>2, <2>12, ParsedCases
    <3>2. Ended'
      <4>1. Read' > 0
        BY <1>4, <1>5
      <4>2. WsWire'[Read'][1] = i /\ wsFrames'[i].op = "close"
        BY <1>3, <1>4, <2>12
      <4> QED
        BY <4>1, <4>2 DEF Ended
    <3> QED
      BY <1>1, <1>4, <1>6, <1>7, <3>1, <3>2, Stops
  <2>13. CASE wsFrames[i].op = "bad"
    <3>1. WsStop("error")
      BY <1>5, <2>2, <2>13, ParsedCases
    <3>2. Ended'
      BY <3>1 DEF Ended, WsStop
    <3> QED
      BY <1>1, <1>4, <1>6, <1>7, <3>1, <3>2, Stops
  <2> QED
    BY <1>5, <2>7, <2>8, <2>9, <2>10, <2>11, <2>12, <2>13 DEF WsOps
<1> QED
  BY <1>9, <1>10

\* A position in the key counts from any earlier one.
LEMMA KeyPosition ==
  ASSUME NEW a \in Nat, NEW b \in Nat
  PROVE  ((a % 2) + b) % 2 = (a + b) % 2 /\ (a % 2) % 2 = a % 2 /\ a % 2 \in Nat
<1>1. PICK q \in Int, r \in 0 .. 1 : a = 2 * q + r /\ r = a % 2
  <2>1. a % 2 \in 0 .. 1 /\ a = 2 * (a \div 2) + (a % 2) /\ a \div 2 \in Int
    OBVIOUS
  <2> QED
    BY <2>1
<1>2. PICK s \in Int, t \in 0 .. 1 : r + b = 2 * s + t /\ t = (r + b) % 2
  <2>1. (r + b) % 2 \in 0 .. 1 /\ r + b = 2 * ((r + b) \div 2) + ((r + b) % 2) /\ (r + b) \div 2 \in Int
    OBVIOUS
  <2> QED
    BY <2>1
<1>3. (a + b) % 2 = t
  <2>1. PICK u \in Int, v \in 0 .. 1 : a + b = 2 * u + v /\ v = (a + b) % 2
    <3>1. (a + b) % 2 \in 0 .. 1 /\ a + b = 2 * ((a + b) \div 2) + ((a + b) % 2) /\ (a + b) \div 2 \in Int
      OBVIOUS
    <3> QED
      BY <3>1
  <2>2. 2 * (q + s) + t = 2 * u + v
    BY <1>1, <1>2, <2>1
  <2>3. u = q + s /\ v = t
    BY <2>2
  <2> QED
    BY <2>1, <2>3
<1>4. r % 2 = r
  OBVIOUS
<1> QED
  BY <1>1, <1>2, <1>3, <1>4

\* Two positions of one byte of the key, if there is a key.
SameKeyByte(p, q) == ~wsClient => p % 2 = q % 2

\* The next n cells are those of frame i after the first ones of its payload.
NextOf(n, i, first) == \A j \in 1 .. n : wsIn[j] = <<i, first + j>>

\* Cells that are unmasked from where they were masked read right.
LEMMA Unmasked ==
  ASSUME NEW n \in Nat, NEW p \in Nat, NEW i \in Nat, NEW first \in Nat,
         NextOf(n, i, first), SameKeyByte(p, first)
  PROVE  /\ WsUnmask(n, p) \in Seq(Cells) /\ Len(WsUnmask(n, p)) = n
         /\ \A j \in 1 .. n : WsUnmask(n, p)[j] = <<i, first + j>>
<1> DEFINE Cell(j) == LET k == wsIn[j][2] IN
                        IF wsClient \/ (k - 1) % WsKeyLen = (p + j - 1) % WsKeyLen
                        THEN wsIn[j] ELSE <<wsIn[j][1], -1>>
<1>1. ASSUME NEW j \in 1 .. n PROVE Cell(j) = <<i, first + j>> /\ Cell(j) \in Cells
  <2>1. wsIn[j][2] = first + j /\ wsIn[j] = <<i, first + j>>
    BY DEF NextOf
  <2>2. CASE wsClient
    BY <2>1, <2>2 DEF Cells
  <2>3. CASE ~wsClient
    <3>1. PICK b \in Nat : b = j - 1
      OBVIOUS
    <3>2. (p + b) % 2 = (first + b) % 2
      <4>1. ((p % 2) + b) % 2 = (p + b) % 2 /\ ((first % 2) + b) % 2 = (first + b) % 2
        BY KeyPosition
      <4> QED
        BY <2>3, <4>1 DEF SameKeyByte
    <3>3. (first + j) - 1 = first + b /\ p + j - 1 = p + b
      BY <3>1
    <3>4. (wsIn[j][2] - 1) % WsKeyLen = (p + j - 1) % WsKeyLen
      BY <2>1, <3>2, <3>3 DEF WsKeyLen
    <3> QED
      BY <2>1, <3>4 DEF Cells
  <2> QED
    BY <2>2, <2>3
<1>2. WsUnmask(n, p) = [j \in 1 .. n |-> Cell(j)]
  BY DEF WsUnmask
<1> HIDE DEF Cell
<1>3. WsUnmask(n, p) \in [1 .. n -> Cells]
  BY <1>1, <1>2
<1> QED
  BY <1>1, <1>2, <1>3, Listed

\* A read inside a payload.
LEMMA InsideReads ==
  ASSUME NEW ends, Reading(ends), NEW i, NEW op, Inside(ends, i, op), UNCHANGED wsFixed,
         NEW n \in WsReads(wsNeed), WsTake(n)
  PROVE  /\ Arriving' /\ Laid(wsClient, wsFrames, ends)' /\ WsWire' = WsWire
         /\ UNCHANGED <<wsClient, wsFrames>>
         /\ Read \in Nat /\ Read' = Read + n /\ Read + n <= Len(WsWire)
         /\ n \in 1 .. wsNeed
         /\ \A j \in 1 .. n : wsIn[j] = WsWire[Read + j]
         /\ \A j \in 1 .. n : WsWire[Read + j] = <<i, wsFrames[i].len - wsNeed + j>>
         /\ wsIn[1][1] = i
         /\ n = wsNeed => Read' = ends[i]
         /\ n # wsNeed /\ wsNeed' = wsNeed - n => Inside(ends, i, op)'
<1>1. Arriving /\ Laid(wsClient, wsFrames, ends)
  BY DEF Reading
<1>2. /\ i \in 1 .. Len(wsFrames) /\ wsFrames[i].op = op
      /\ wsNeed \in 1 .. wsFrames[i].len /\ Read = ends[i] - wsNeed
  BY DEF Inside
<1>3. /\ Len(wsFrames) \in Nat /\ Read \in Nat /\ ends[i] \in Nat /\ wsFrames[i].len \in Nat
      /\ Len(wsIn) \in Nat /\ Read + Len(wsIn) = wsCut /\ wsCut <= Len(WsWire)
      /\ wsCut \in Nat
  BY <1>1, <1>2, WireFacts
<1>4. Len(WsWire) \in Nat
  BY <1>1, WireFacts, Elements
<1>5. PICK need \in Nat : need = wsNeed
  BY <1>2, <1>3
<1>6. n \in 1 .. need /\ n \in 1 .. Len(wsIn)
  BY <1>3, <1>5 DEF WsReads
<1>7. /\ Arriving' /\ Read' = Read + n /\ WsWire' = WsWire
      /\ UNCHANGED <<wsClient, wsFrames>>
      /\ \A j \in 1 .. n : wsIn[j] = WsWire[Read + j]
  BY <1>1, <1>6, Taken
<1>8. Read + n <= Len(WsWire)
  BY ONLY <1>3, <1>4, <1>6
<1>9. \A j \in 1 .. n : WsWire[Read + j] = <<i, wsFrames[i].len - wsNeed + j>>
  <2> TAKE j \in 1 .. n
  <2>1. j \in 1 .. wsNeed
    BY <1>5, <1>6
  <2> QED
    BY <1>1, <2>1, InsideCells
<1>10. wsIn[1][1] = i
  <2>1. 1 \in 1 .. n
    BY <1>6
  <2>2. wsIn[1] = <<i, wsFrames[i].len - wsNeed + 1>>
    BY <1>7, <1>9, <2>1
  <2> QED
    BY <2>2
<1>11. n = wsNeed => Read' = ends[i]
  <2>1. PICK e \in Nat : e = ends[i]
    BY <1>3
  <2>2. Read = e - need /\ Read' = Read + n
    BY <1>2, <1>5, <1>7, <2>1
  <2>3. n = need => Read' = e
    BY ONLY <2>2, <1>6, need \in Nat, e \in Nat
  <2> QED
    BY ONLY <1>5, <2>1, <2>3
<1>12. ASSUME n # wsNeed, wsNeed' = wsNeed - n PROVE Inside(ends, i, op)'
  <2>1. PICK len \in Nat : len = wsFrames[i].len
    BY <1>3
  <2>2. wsNeed' \in 1 .. len /\ Read' = ends[i] - wsNeed'
    <3>1. PICK e \in Nat : e = ends[i]
      BY <1>3
    <3>2. /\ need \in 1 .. len /\ Read = e - need /\ n \in 1 .. need /\ n # need
          /\ wsNeed' = need - n /\ Read' = Read + n
      BY <1>2, <1>5, <1>6, <1>7, <1>12, <2>1, <3>1
    <3>3. wsNeed' \in 1 .. len /\ Read' = e - wsNeed'
      BY ONLY <3>2, len \in Nat, e \in Nat, need \in Nat
    <3> QED
      BY <3>1, <3>3
  <2> QED
    BY <1>2, <1>7, <2>1, <2>2 DEF Inside
<1>13. Laid(wsClient, wsFrames, ends)'
  BY <1>1, <1>7
<1> QED
  BY <1>3, <1>5, <1>6, <1>7, <1>8, <1>9, <1>10, <1>11, <1>12, <1>13

LEMMA PayloadReads ==
  ASSUME NEW ends, Reading(ends), WsPayloadRead
  PROVE  Reading(ends)'
<1>1. /\ Given /\ ReaderTypes /\ Arriving /\ Laid(wsClient, wsFrames, ends)
      /\ wsState = "payload" /\ wsEnd = "none"
      /\ UNCHANGED <<wsPing, wsPong, wsEnd>> /\ UNCHANGED wsFixed
  BY DEF Reading, WsPayloadRead, ReaderTypes
<1>2. PICK n \in WsReads(wsNeed) :
        /\ WsTake(n)
        /\ wsGot' = wsGot \o WsUnmask(n, wsMask)
        /\ wsMask' = WsMaskAfter(n)
        /\ IF n = wsNeed THEN WsNextFrame ELSE wsNeed' = wsNeed - n /\ UNCHANGED wsState
  BY DEF WsPayloadRead
<1>3. PICK i \in 1 .. Len(wsFrames) :
        /\ Inside(ends, i, "data")
        /\ ~wsClient => wsMask = (wsFrames[i].len - wsNeed) % WsKeyLen
  BY <1>1 DEF Reading, Standing
<1>4. /\ Arriving' /\ Laid(wsClient, wsFrames, ends)' /\ WsWire' = WsWire
      /\ UNCHANGED <<wsClient, wsFrames>>
      /\ Read \in Nat /\ Read' = Read + n /\ Read + n <= Len(WsWire)
      /\ n \in 1 .. wsNeed
      /\ \A j \in 1 .. n : wsIn[j] = WsWire[Read + j]
      /\ \A j \in 1 .. n : WsWire[Read + j] = <<i, wsFrames[i].len - wsNeed + j>>
      /\ n = wsNeed => Read' = ends[i]
      /\ n # wsNeed /\ wsNeed' = wsNeed - n => Inside(ends, i, "data")'
  BY <1>1, <1>2, <1>3, InsideReads
<1>5. /\ wsNeed \in 1 .. wsFrames[i].len /\ wsFrames[i].op = "data" /\ wsFrames[i].len \in Nat
      /\ Len(wsFrames) \in Nat /\ WsWire \in Seq(Cells) /\ WsHeaderLen(wsClient) \in {1, 2}
      /\ \A k, l \in 1 .. Len(WsWire) : k < l => WsBefore(WsWire[k], WsWire[l])
      /\ i \in Nat /\ i > 0
  BY <1>1, <1>3, WireFacts DEF Inside
<1>6. PICK first \in Nat : first = wsFrames[i].len - wsNeed
  BY <1>5
<1>7. n \in Nat /\ n > 0
  BY <1>4, <1>5
<1>8. \A j \in 1 .. n : wsIn[j] = <<i, first + j>> /\ WsWire[Read + j] = <<i, first + j>>
  BY <1>4, <1>6
<1>9. wsMask \in Nat
  BY <1>1 DEF ReaderTypes
<1>10. ~wsClient => wsMask = first % 2
  BY <1>3, <1>6 DEF WsKeyLen
<1> DEFINE g == WsUnmask(n, wsMask)
<1>11. g \in Seq(Cells) /\ Len(g) = n /\ \A j \in 1 .. n : g[j] = <<i, first + j>>
  <2>1. SameKeyByte(wsMask, first)
    BY <1>10, KeyPosition DEF SameKeyByte
  <2>2. NextOf(n, i, first)
    BY <1>8 DEF NextOf
  <2>3. n \in Nat /\ wsMask \in Nat /\ i \in Nat /\ first \in Nat
    BY <1>5, <1>7, <1>9
  <2>4. WsUnmask(n, wsMask) \in Seq(Cells)
    BY ONLY <2>1, <2>2, <2>3, Unmasked
  <2>5. Len(WsUnmask(n, wsMask)) = n
    BY ONLY <2>1, <2>2, <2>3, Unmasked
  <2>6. \A j \in 1 .. n : WsUnmask(n, wsMask)[j] = <<i, first + j>>
    BY ONLY <2>1, <2>2, <2>3, Unmasked
  <2> QED
    BY <2>4, <2>5, <2>6
<1>12. Given'
  <2>1. \A j \in 1 .. n : g[j] = WsWire[Read + j] /\ WsIsData(WsWire[Read + j])
    <3> TAKE j \in 1 .. n
    <3>1. WsWire[Read + j] = <<i, first + j>> /\ first + j > 0
      BY <1>8
    <3> QED
      BY <1>5, <1>11, <3>1 DEF WsIsData
  <2>2. wsGot' = wsGot \o g
    BY <1>2
  <2> HIDE DEF g
  <2>3. wsFrames' = wsFrames
    BY <1>4
  <2> QED
    BY ONLY <1>1, <1>4, <1>5, <1>7, <1>11, <2>1, <2>2, <2>3, GivenAll
<1>13. wsMask' \in Nat /\ (~wsClient => wsMask' = (first + n) % 2)
  <2>1. ~wsClient => wsMask' = (wsMask + n) % 2
    BY <1>2 DEF WsMaskAfter, WsKeyLen
  <2>2. wsClient => wsMask' = wsMask
    BY <1>2 DEF WsMaskAfter
  <2>3. ((first % 2) + n) % 2 = (first + n) % 2 /\ (first + n) % 2 \in Nat
    BY <1>7, KeyPosition
  <2> QED
    BY <1>9, <1>10, <2>1, <2>2, <2>3
<1>14. Ended'
  BY <1>1 DEF Ended
<1>15. CASE n = wsNeed
  <2>1. wsState' = "header" /\ wsNeed' = 0 /\ Read' = ends[i] + wsNeed'
    <3>1. wsState' = "header" /\ wsNeed' = 0 /\ Read' = ends[i]
      BY <1>2, <1>4, <1>15 DEF WsNextFrame
    <3>2. ends[i] \in Nat
      BY <1>1, WireFacts
    <3> QED
      BY <3>1, <3>2
  <2>2. i \in 0 .. Len(wsFrames) /\ 0 \in 0 .. WsHeaderLen(wsClient) - 1
    BY <1>5
  <2>3. Standing(ends)'
    BY <1>4, <2>1, <2>2 DEF Standing
  <2>4. ReaderTypes'
    BY <1>1, <1>13, <2>1 DEF ReaderTypes
  <2> QED
    BY <1>4, <1>12, <1>14, <2>3, <2>4 DEF Reading
<1>16. CASE n # wsNeed
  <2>1. wsState' = "payload" /\ wsNeed' = wsNeed - n /\ Inside(ends, i, "data")'
    BY <1>1, <1>2, <1>4, <1>16
  <2>2. wsFrames'[i].len - wsNeed' = first + n /\ wsNeed' \in Nat
    <3>1. PICK len \in Nat, need \in Nat : len = wsFrames[i].len /\ need = wsNeed
      BY <1>5
    <3>2. wsNeed' = need - n /\ first = len - need /\ wsFrames'[i].len = len /\ n \in 1 .. need
      BY <1>4, <1>6, <2>1, <3>1
    <3> QED
      BY ONLY <3>2, len \in Nat, need \in Nat, first \in Nat
  <2>3. ~wsClient' => wsMask' = (wsFrames'[i].len - wsNeed') % WsKeyLen
    BY <1>4, <1>13, <2>2 DEF WsKeyLen
  <2>4. Standing(ends)'
    BY <1>4, <2>1, <2>3 DEF Standing
  <2>5. ReaderTypes'
    BY <1>1, <1>13, <2>1, <2>2 DEF ReaderTypes
  <2> QED
    BY <1>4, <1>12, <1>14, <2>4, <2>5 DEF Reading
<1> QED
  BY <1>15, <1>16

LEMMA IgnoredReads ==
  ASSUME NEW ends, Reading(ends), WsIgnoredRead
  PROVE  Reading(ends)'
<1>1. /\ Given /\ ReaderTypes /\ Arriving /\ Laid(wsClient, wsFrames, ends)
      /\ wsState = "ignore" /\ wsEnd = "none"
      /\ UNCHANGED <<wsMask, wsPing, wsPong, wsGot, wsEnd>> /\ UNCHANGED wsFixed
  BY DEF Reading, WsIgnoredRead, ReaderTypes
<1>2. PICK n \in WsReads(wsNeed) :
        /\ WsTake(n)
        /\ IF n = wsNeed THEN WsNextFrame ELSE wsNeed' = wsNeed - n /\ UNCHANGED wsState
  BY DEF WsIgnoredRead
<1>3. PICK i \in 1 .. Len(wsFrames) : Inside(ends, i, "pong")
  BY <1>1 DEF Reading, Standing
<1>4. /\ Arriving' /\ Laid(wsClient, wsFrames, ends)' /\ WsWire' = WsWire
      /\ UNCHANGED <<wsClient, wsFrames>>
      /\ Read \in Nat /\ Read' = Read + n
      /\ n \in 1 .. wsNeed
      /\ \A j \in 1 .. n : WsWire[Read + j] = <<i, wsFrames[i].len - wsNeed + j>>
      /\ n = wsNeed => Read' = ends[i]
      /\ n # wsNeed /\ wsNeed' = wsNeed - n => Inside(ends, i, "pong")'
  BY <1>1, <1>2, <1>3, InsideReads
<1>5. /\ wsNeed \in 1 .. wsFrames[i].len /\ wsFrames[i].op = "pong" /\ wsFrames[i].len \in Nat
      /\ Len(wsFrames) \in Nat /\ WsHeaderLen(wsClient) \in {1, 2}
      /\ ends[i] \in Nat
  BY <1>1, <1>3, WireFacts DEF Inside
<1>6. n \in Nat /\ wsNeed \in Nat
  BY <1>4, <1>5
<1>7. Given'
  <2>1. \A j \in 1 .. n : ~WsIsData(WsWire[Read + j])
    <3> TAKE j \in 1 .. n
    <3>1. WsWire[Read + j] = <<i, wsFrames[i].len - wsNeed + j>>
      BY ONLY <1>4, j \in 1 .. n
    <3>2. WsWire[Read + j][1] = i
      BY ONLY <3>1
    <3> QED
      BY <1>5, <3>2 DEF WsIsData
  <2> QED
    BY <1>1, <1>4, <1>6, <2>1, GivenNothing
<1>8. Ended'
  BY <1>1 DEF Ended
<1>9. CASE n = wsNeed
  <2>1. wsState' = "header" /\ wsNeed' = 0 /\ Read' = ends[i] + wsNeed'
    BY <1>2, <1>4, <1>5, <1>9 DEF WsNextFrame
  <2>2. i \in 0 .. Len(wsFrames) /\ 0 \in 0 .. WsHeaderLen(wsClient) - 1
    BY <1>5
  <2>3. Standing(ends)'
    BY <1>4, <2>1, <2>2 DEF Standing
  <2>4. ReaderTypes'
    BY <1>1, <2>1 DEF ReaderTypes
  <2> QED
    BY <1>4, <1>7, <1>8, <2>3, <2>4 DEF Reading
<1>10. CASE n # wsNeed
  <2>1. wsState' = "ignore" /\ wsNeed' = wsNeed - n /\ Inside(ends, i, "pong")'
    BY <1>1, <1>2, <1>4, <1>10
  <2>2. wsNeed' \in Nat
    BY <1>4, <1>6, <2>1
  <2>3. Standing(ends)'
    BY <1>4, <2>1 DEF Standing
  <2>4. ReaderTypes'
    BY <1>1, <2>1, <2>2 DEF ReaderTypes
  <2> QED
    BY <1>4, <1>7, <1>8, <2>3, <2>4 DEF Reading
<1> QED
  BY <1>9, <1>10

\* The first a cells of the payload of frame i.
IsRun(s, i, a) == s = [k \in 1 .. a |-> <<i, k>>]

\* A payload and its next cells are a payload.
LEMMA LongerRun ==
  ASSUME NEW i \in Nat, NEW a \in Nat, NEW n \in Nat, NEW s, IsRun(s, i, a),
         NEW g \in Seq(Cells), Len(g) = n, \A j \in 1 .. n : g[j] = <<i, a + j>>
  PROVE  IsRun(s \o g, i, a + n)
<1>1. s \in [1 .. a -> Cells] /\ \A k \in 1 .. a : s[k] = <<i, k>>
  BY DEF Cells, IsRun
<1>2. s \in Seq(Cells) /\ Len(s) = a
  BY <1>1, Listed
<1> DEFINE t == s \o g
<1>3. /\ t \in Seq(Cells) /\ Len(t) = Len(s) + Len(g)
      /\ \A k \in 1 .. Len(s) : t[k] = s[k]
      /\ \A k \in 1 .. Len(g) : t[Len(s) + k] = g[k]
  <2>1. s \in Seq(Cells)
    BY <1>2
  <2>2. t \in Seq(Cells) /\ Len(t) = Len(s) + Len(g)
    BY ONLY <2>1, g \in Seq(Cells), Joined
  <2>3. \A k \in 1 .. Len(s) : t[k] = s[k]
    BY ONLY <2>1, g \in Seq(Cells), Joined
  <2>4. \A k \in 1 .. Len(g) : t[Len(s) + k] = g[k]
    BY ONLY <2>1, g \in Seq(Cells), Joined
  <2> QED
    BY <2>2, <2>3, <2>4
<1> HIDE DEF t
<1>4. Len(t) = a + n /\ (\A k \in 1 .. a : t[k] = s[k]) /\ \A k \in 1 .. n : t[a + k] = g[k]
  BY <1>2, <1>3
<1>5. ASSUME NEW k \in 1 .. a + n PROVE t[k] = <<i, k>>
  <2>1. CASE k \in 1 .. a
    BY <1>1, <1>4, <2>1
  <2>2. CASE k \notin 1 .. a
    <3>1. k - a \in 1 .. n /\ a + (k - a) = k
      BY <2>2
    <3> QED
      BY <1>4, <3>1
  <2> QED
    BY <2>1, <2>2
<1>6. t = [k \in 1 .. a + n |-> t[k]]
  <2>1. a + n \in Nat
    OBVIOUS
  <2> QED
    BY <1>3, <1>4, <2>1
<1>7. t = [k \in 1 .. a + n |-> <<i, k>>]
  BY <1>5, <1>6
<1> QED
  BY <1>7 DEF t, IsRun

LEMMA PingReads ==
  ASSUME NEW ends, Reading(ends), WsPingRead
  PROVE  Reading(ends)' /\ (wsState' = "pong" => \E i \in Nat : PongLeft(i, 0)')
<1>1. /\ Given /\ ReaderTypes /\ Arriving /\ Laid(wsClient, wsFrames, ends)
      /\ wsState = "ping" /\ wsEnd = "none"
      /\ UNCHANGED <<wsMask, wsGot, wsEnd>> /\ UNCHANGED wsFixed
  BY DEF Reading, WsPingRead, ReaderTypes
<1>2. PICK n \in WsReads(wsNeed) :
        /\ WsTake(n)
        /\ wsPing' = wsPing \o WsUnmask(n, Len(wsPing)) /\ wsNeed' = wsNeed - n
        /\ IF n = wsNeed
           THEN wsState' = "pong" /\ wsPong' = WsPongCells(wsIn[1][1], wsPing \o WsUnmask(n, Len(wsPing)))
           ELSE UNCHANGED <<wsState, wsPong>>
  BY DEF WsPingRead
<1>3. PICK i \in 1 .. Len(wsFrames) :
        /\ Inside(ends, i, "ping")
        /\ wsPing = [k \in 1 .. wsFrames[i].len - wsNeed |-> <<i, k>>]
  BY <1>1 DEF Reading, Standing
<1>4. /\ Arriving' /\ Laid(wsClient, wsFrames, ends)' /\ WsWire' = WsWire
      /\ UNCHANGED <<wsClient, wsFrames>>
      /\ Read \in Nat /\ Read' = Read + n
      /\ n \in 1 .. wsNeed
      /\ \A j \in 1 .. n : wsIn[j] = WsWire[Read + j]
      /\ \A j \in 1 .. n : WsWire[Read + j] = <<i, wsFrames[i].len - wsNeed + j>>
      /\ wsIn[1][1] = i
      /\ n = wsNeed => Read' = ends[i]
      /\ n # wsNeed /\ wsNeed' = wsNeed - n => Inside(ends, i, "ping")'
  BY <1>1, <1>2, <1>3, InsideReads
<1>5. /\ wsNeed \in 1 .. wsFrames[i].len /\ wsFrames[i].op = "ping" /\ wsFrames[i].len \in Nat
      /\ Len(wsFrames) \in Nat /\ i \in Nat
  BY <1>1, <1>3, WireFacts DEF Inside
<1>6. PICK len \in Nat, need \in Nat, first \in Nat :
        /\ len = wsFrames[i].len /\ need = wsNeed /\ first = len - need
  BY <1>5
<1>7. n \in 1 .. need /\ n \in Nat
  BY <1>4, <1>6
<1>8. \A j \in 1 .. n : wsIn[j] = <<i, first + j>> /\ WsWire[Read + j] = <<i, first + j>>
  BY <1>4, <1>6
<1>9. Given'
  <2>1. \A j \in 1 .. n : ~WsIsData(WsWire[Read + j])
    <3> TAKE j \in 1 .. n
    <3>1. WsWire[Read + j][1] = i
      BY <1>8
    <3> QED
      BY <1>5, <3>1 DEF WsIsData
  <2> QED
    BY <1>1, <1>4, <1>7, <2>1, GivenNothing
<1>10. Ended'
  BY <1>1 DEF Ended
<1>11. Len(wsPing) = first /\ wsPing = [k \in 1 .. first |-> <<i, k>>]
  <2>1. wsPing = [k \in 1 .. first |-> <<i, k>>]
    BY <1>3, <1>6
  <2>2. wsPing \in [1 .. first -> Cells]
    BY <1>5, <2>1 DEF Cells
  <2> QED
    BY <2>1, <2>2, Listed
<1>12. /\ WsUnmask(n, first) \in Seq(Cells) /\ Len(WsUnmask(n, first)) = n
       /\ \A j \in 1 .. n : WsUnmask(n, first)[j] = <<i, first + j>>
  <2>1. SameKeyByte(first, first) /\ NextOf(n, i, first)
    BY <1>8 DEF SameKeyByte, NextOf
  <2>2. n \in Nat /\ first \in Nat /\ i \in Nat
    BY <1>5, <1>7
  <2>3. WsUnmask(n, first) \in Seq(Cells)
    BY ONLY <2>1, <2>2, Unmasked
  <2>4. Len(WsUnmask(n, first)) = n
    BY ONLY <2>1, <2>2, Unmasked
  <2>5. \A j \in 1 .. n : WsUnmask(n, first)[j] = <<i, first + j>>
    BY ONLY <2>1, <2>2, Unmasked
  <2> QED
    BY <2>3, <2>4, <2>5
<1>13. PICK payload : /\ payload = wsPing \o WsUnmask(n, first)
                      /\ payload = [k \in 1 .. first + n |-> <<i, k>>]
  <2>1. IsRun(wsPing, i, first) /\ i \in Nat /\ n \in Nat
    BY <1>5, <1>7, <1>11 DEF IsRun
  <2>2. IsRun(wsPing \o WsUnmask(n, first), i, first + n)
    BY ONLY <1>12, <2>1, first \in Nat, LongerRun
  <2> QED
    BY <2>2 DEF IsRun
<1>14. wsPing' = payload /\ wsNeed' = need - n
  BY <1>2, <1>6, <1>11, <1>13
<1>15. CASE n = wsNeed
  <2>1. wsState' = "pong" /\ wsPong' = WsPongCells(i, payload) /\ wsNeed' = 0 /\ Read' = ends[i]
    BY <1>2, <1>4, <1>6, <1>11, <1>13, <1>14, <1>15
  <2>2. payload = [k \in 1 .. len |-> <<i, k>>]
    <3>1. first + n = len
      BY <1>6, <1>15
    <3> QED
      BY <1>13, <3>1
  <2>3. /\ Len(wsFrames') \in Nat /\ i \in 1 .. Len(wsFrames')
        /\ wsFrames'[i].op = "ping" /\ wsFrames'[i].len = len
    BY <1>4, <1>5, <1>6
  <2>4. PongLeft(i, 0)' /\ wsPong' \in Seq(OutCells)
    BY <2>1, <2>2, <2>3, AnswerOfPing
  <2>5. 0 \in 0 .. wsFrames'[i].len
    BY <2>3
  <2>6. Standing(ends)'
    BY <2>1, <2>3, <2>4, <2>5 DEF Standing
  <2>7. ReaderTypes'
    BY <1>1, <2>1, <2>4 DEF ReaderTypes
  <2> QED
    BY <1>4, <1>5, <1>9, <1>10, <2>4, <2>6, <2>7 DEF Reading
<1>16. CASE n # wsNeed
  <2>1. /\ wsState' = "ping" /\ wsNeed' = need - n /\ wsPong' = wsPong /\ Inside(ends, i, "ping")'
    BY <1>1, <1>2, <1>4, <1>6, <1>14, <1>16
  <2>2. wsFrames'[i].len - wsNeed' = first + n /\ wsNeed' \in Nat
    BY <1>4, <1>6, <1>7, <2>1
  <2>3. wsPing' = [k \in 1 .. wsFrames'[i].len - wsNeed' |-> <<i, k>>]
    BY <1>13, <1>14, <2>2
  <2>4. i \in 1 .. Len(wsFrames')
    BY <1>4
  <2>5. Standing(ends)'
    BY <2>1, <2>3, <2>4 DEF Standing
  <2>6. ReaderTypes'
    BY <1>1, <2>1, <2>2 DEF ReaderTypes
  <2> QED
    BY <1>4, <1>9, <1>10, <2>1, <2>5, <2>6 DEF Reading
<1> QED
  BY <1>15, <1>16

\* Steps that end reading and take nothing.
LEMMA StopsHere ==
  ASSUME NEW ends, Reading(ends), NEW e, WsStop(e), e \in {"end", "error", "refused"},
         UNCHANGED <<wsFixed, wsIn, wsGot>>, e = "end" => wsIn = <<>>
  PROVE  Reading(ends)'
<1>1. /\ UNCHANGED <<wsClient, wsFrames, wsCut, wsIn, wsGot>> /\ WsWire' = WsWire /\ Read' = Read
  BY DEF wsFixed, WsWire, Read
<1>2. Laid(wsClient, wsFrames, ends)' /\ Arriving'
  BY <1>1 DEF Reading, Arriving
<1>3. Given'
  BY <1>1 DEF Reading, Given, WsIsData, WsBefore
<1>4. Ended'
  BY <1>1 DEF Ended, WsStop
<1>5. ReaderTypes
  BY DEF Reading
<1> QED
  BY <1>2, <1>3, <1>4, <1>5, Stops

LEMMA StopSteps ==
  ASSUME NEW ends, Reading(ends), WsEof \/ WsReadErr \/ WsPongFails
  PROVE  Reading(ends)'
<1>1. CASE WsEof
  BY <1>1, StopsHere DEF WsEof
<1>2. CASE WsReadErr
  BY <1>2, StopsHere DEF WsReadErr
<1>3. CASE WsPongFails
  BY <1>3, StopsHere DEF WsPongFails
<1> QED
  BY <1>1, <1>2, <1>3

\* Writing a part of the pong leaves the rest of it.
LEMMA PongWrites ==
  ASSUME NEW ends, Reading(ends), WsPongWrite
  PROVE  Reading(ends)'
<1>1. /\ Given /\ ReaderTypes /\ Arriving /\ Laid(wsClient, wsFrames, ends)
      /\ wsState = "pong" /\ wsEnd = "none"
      /\ UNCHANGED <<wsMask, wsPing, wsGot, wsEnd, wsIn>> /\ UNCHANGED wsFixed
  BY DEF Reading, WsPongWrite, ReaderTypes
<1>2. PICK n \in WsTaken(Len(wsPong)) :
        /\ wsPong' = SubSeq(wsPong, n + 1, Len(wsPong))
        /\ IF n = Len(wsPong) THEN WsNextFrame ELSE UNCHANGED <<wsState, wsNeed>>
  BY DEF WsPongWrite
<1>3. PICK i \in 1 .. Len(wsFrames) :
        Read = ends[i] /\ \E m \in 0 .. wsFrames[i].len : PongLeft(i, m)
  BY <1>1 DEF Reading, Standing
<1> PICK m \in 0 .. wsFrames[i].len : PongLeft(i, m)
  BY <1>3
<1>4. /\ UNCHANGED <<wsClient, wsFrames, wsCut>> /\ WsWire' = WsWire /\ Read' = Read
  BY <1>1 DEF wsFixed, WsWire, Read
<1>5. Laid(wsClient, wsFrames, ends)' /\ Arriving' /\ Ended'
  BY <1>1, <1>4 DEF Arriving, Ended
<1>6. Given'
  BY <1>1, <1>4 DEF Given, WsIsData, WsBefore
<1>7. /\ wsFrames[i].len \in Nat /\ Len(wsFrames) \in Nat /\ ends[i] \in Nat
      /\ WsHeaderLen(wsClient) \in {1, 2}
  BY <1>1, <1>3, WireFacts
<1>8. /\ wsFrames[i].op = "ping" /\ Len(wsPong) = wsFrames[i].len + 1 - m
      /\ \A k \in 1 .. Len(wsPong) : wsPong[k] = PongCell(i, m + k)
      /\ wsPong \in Seq(OutCells)
  BY <1>1, <1>3 DEF PongLeft, ReaderTypes
<1>9. PICK len \in Nat : len = wsFrames[i].len
  BY <1>7
<1>10. m \in 0 .. len /\ Len(wsPong) = len + 1 - m /\ Len(wsPong) \in Nat
  BY <1>8, <1>9
<1>11. n \in 1 .. Len(wsPong)
  BY <1>2, <1>10 DEF WsTaken
<1>12. /\ wsPong' \in Seq(OutCells) /\ Len(wsPong') = Len(wsPong) - n
       /\ \A k \in 1 .. Len(wsPong) - n : wsPong'[k] = wsPong[n + k]
  <2>1. n \in 0 .. Len(wsPong) /\ wsPong \in Seq(OutCells)
    BY <1>8, <1>10, <1>11
  <2>2. PICK p : p = SubSeq(wsPong, n + 1, Len(wsPong))
    OBVIOUS
  <2>3. /\ p \in Seq(OutCells) /\ Len(p) = Len(wsPong) - n
        /\ \A k \in 1 .. Len(wsPong) - n : p[k] = wsPong[n + k]
    BY ONLY <2>1, <2>2, Parted
  <2> QED
    BY ONLY <1>2, <2>2, <2>3
<1>13. CASE n = Len(wsPong)
  <2>1. wsState' = "header" /\ wsNeed' = 0 /\ Read' = ends[i] + wsNeed'
    BY <1>2, <1>3, <1>4, <1>7, <1>13 DEF WsNextFrame
  <2>2. i \in 0 .. Len(wsFrames) /\ 0 \in 0 .. WsHeaderLen(wsClient) - 1
    BY <1>7
  <2>3. Standing(ends)'
    BY <1>4, <2>1, <2>2 DEF Standing
  <2>4. ReaderTypes'
    BY <1>1, <1>12, <2>1 DEF ReaderTypes
  <2> QED
    BY <1>5, <1>6, <2>3, <2>4 DEF Reading
<1>14. CASE n # Len(wsPong)
  <2>1. wsState' = "pong" /\ wsNeed' = wsNeed
    BY <1>1, <1>2, <1>14
  <2>2. m + n \in 0 .. len /\ Len(wsPong') = len + 1 - (m + n)
    BY <1>10, <1>11, <1>12, <1>14
  <2>3. \A k \in 1 .. Len(wsPong') : wsPong'[k] = PongCell(i, (m + n) + k)
    <3> TAKE k \in 1 .. Len(wsPong')
    <3>1. /\ n + k \in 1 .. Len(wsPong) /\ m + (n + k) = (m + n) + k
          /\ k \in 1 .. Len(wsPong) - n
      BY <1>10, <1>11, <1>12
    <3>2. wsPong'[k] = PongCell(i, m + (n + k))
      BY <1>8, <1>12, <3>1
    <3> QED
      BY <3>1, <3>2
  <2>4. \A k : PongCell(i, k)' = PongCell(i, k)
    BY <1>4 DEF PongCell
  <2>5. PongLeft(i, m + n)'
    <3>1. wsFrames'[i].len = len /\ i \in 1 .. Len(wsFrames') /\ wsFrames'[i].op = "ping"
      BY <1>4, <1>8, <1>9
    <3>2. \A k \in 1 .. Len(wsPong') : wsPong'[k] = PongCell(i, (m + n) + k)'
      BY <2>3, <2>4
    <3> QED
      BY <2>2, <3>1, <3>2 DEF PongLeft
  <2>6. Standing(ends)'
    <3>1. m + n \in 0 .. wsFrames'[i].len /\ i \in 1 .. Len(wsFrames') /\ Read' = ends[i]
      BY <1>3, <1>4, <1>9, <2>2
    <3> QED
      BY <2>1, <2>5, <3>1 DEF Standing
  <2>7. ReaderTypes'
    BY <1>1, <1>12, <2>1 DEF ReaderTypes
  <2> QED
    BY <1>5, <1>6, <2>6, <2>7 DEF Reading
<1> QED
  BY <1>13, <1>14

LEMMA ReadStarts ==
  ASSUME WsInit
  PROVE  ReadInv
<1>1. /\ wsClient \in BOOLEAN /\ wsFrames \in Frames /\ wsCut \in 0 .. Len(WsWire)
      /\ wsIn = SubSeq(WsWire, 1, wsCut)
      /\ wsState = IF wsClient THEN "handshake" ELSE "header"
      /\ wsNeed = 0 /\ wsMask = 0 /\ wsPong = <<>> /\ wsGot = <<>> /\ wsEnd = "none"
  BY WsAssumption DEF WsInit, Frames
<1>2. PICK ends : Laid(wsClient, wsFrames, ends)
  BY <1>1, WireIsLaid
<1>3. /\ WsWire \in Seq(Cells) /\ ends \in [0 .. Len(wsFrames) -> Nat]
      /\ ends[0] = IF wsClient THEN WsResponseLen ELSE 0
  BY <1>2 DEF Laid, LaidOut, WsWire
<1>4. /\ wsIn \in Seq(Cells) /\ Len(wsIn) = wsCut
      /\ \A k \in 1 .. wsCut : wsIn[k] = WsWire[k]
  <2>1. PICK p : p = SubSeq(WsWire, 1, wsCut)
    OBVIOUS
  <2>2. p \in Seq(Cells) /\ Len(p) = wsCut /\ \A k \in 1 .. wsCut : p[k] = WsWire[k]
    BY ONLY <1>1, <1>3, <2>1, Parted
  <2> QED
    BY ONLY <1>1, <2>1, <2>2
<1>5. wsCut \in Nat /\ Read = 0 /\ Len(wsFrames) \in Nat
  BY <1>1, <1>3, <1>4, Elements, FrameTypes DEF Read
<1>6. Arriving
  <2>1. \A j \in 1 .. Len(wsIn) : wsIn[j] = WsWire[Read + j]
    <3> TAKE j \in 1 .. Len(wsIn)
    <3>1. 0 + j = j /\ j \in 1 .. wsCut
      BY <1>4, <1>5
    <3> QED
      BY <1>4, <1>5, <3>1
  <2>2. Len(wsIn) <= wsCut
    BY <1>4, <1>5
  <2> QED
    BY <1>1, <1>4, <2>1, <2>2 DEF Arriving
<1>7. ReaderTypes
  BY <1>1, EmptySequence DEF ReaderTypes
<1>8. Standing(ends)
  <2>1. CASE wsClient
    BY <1>1, <1>5, <2>1 DEF Standing, WsResponseLen
  <2>2. CASE ~wsClient
    <3>1. wsState = "header" /\ Read = ends[0] + wsNeed /\ 0 \in 0 .. Len(wsFrames)
      BY <1>1, <1>3, <1>5, <2>2
    <3>2. wsNeed \in 0 .. WsHeaderLen(wsClient) - 1
      BY <1>1, <2>2 DEF WsHeaderLen
    <3> QED
      BY <1>1, <3>1, <3>2 DEF Standing
  <2> QED
    BY <2>1, <2>2
<1>9. Given
  BY <1>1, <1>5, EmptySequence DEF Given
<1>10. Ended
  BY <1>1 DEF Ended
<1> QED
  BY <1>2, <1>3, <1>6, <1>7, <1>8, <1>9, <1>10 DEF ReadInv, Reading

LEMMA ReadGoesOn ==
  ASSUME ReadInv, [WsNext]_wsvars
  PROVE  ReadInv'
<1>1. PICK ends \in [0 .. Len(wsFrames) -> Nat] : Reading(ends)
  BY DEF ReadInv
<1>2. UNCHANGED wsFrames
  BY DEF WsNext, wsvars, wsFixed, WsDrain, WsReadStep, WsShake, WsHeaderRead, WsPayloadRead,
         WsPingRead, WsIgnoredRead, WsEof, WsPongWrite, WsPongWaits, WsPongFails, WsReadErr,
         WsWriteErr, WsWriteStep, WsPollWrite, WsHeadWrite, WsBodyWrite, WsWriteWaits,
         WsCallWrite, WsDropWrite, WsShutdown
<1>3. SUFFICES Reading(ends)'
  BY <1>2 DEF ReadInv
<1>4. CASE UNCHANGED <<wsFixed, wsIn, wsReader>>
  BY <1>1, <1>4, ReaderStays
<1>5. CASE WsShake
  BY <1>1, <1>5, ShakeReads
<1>6. CASE WsHeaderRead
  BY <1>1, <1>6, HeaderReads
<1>7. CASE WsPayloadRead
  BY <1>1, <1>7, PayloadReads
<1>8. CASE WsPingRead
  BY <1>1, <1>8, PingReads
<1>9. CASE WsIgnoredRead
  BY <1>1, <1>9, IgnoredReads
<1>10. CASE WsEof \/ WsReadErr \/ WsPongFails
  BY <1>1, <1>10, StopSteps
<1>11. CASE WsPongWrite
  BY <1>1, <1>11, PongWrites
<1>12. CASE WsDrain \/ WsPongWaits \/ UNCHANGED wsvars
  BY <1>4, <1>12 DEF WsDrain, WsPongWaits, wsvars
<1>13. CASE WsWriteErr \/ WsWriteStep \/ WsCallWrite \/ WsDropWrite \/ WsShutdown
  BY <1>4, <1>13 DEF WsWriteErr, WsWriteStep, WsPollWrite, WsHeadWrite, WsBodyWrite, WsWriteWaits,
                     WsCallWrite, WsDropWrite, WsShutdown
<1> QED
  BY <1>5, <1>6, <1>7, <1>8, <1>9, <1>10, <1>11, <1>12, <1>13 DEF WsNext, WsReadStep

LEMMA ReadInvHolds == WsSpec => []ReadInv
<1>1. WsInit => ReadInv
  BY ReadStarts
<1>2. ReadInv /\ [WsNext]_wsvars => ReadInv'
  BY ReadGoesOn
<1> QED
  BY <1>1, <1>2, PTL DEF WsSpec

LEMMA GivenInOrder ==
  ASSUME ReadInv
  PROVE  WsDataInOrder
<1>1. PICK ends : Reading(ends)
  BY DEF ReadInv
<1>2. Arriving /\ Laid(wsClient, wsFrames, ends) /\ Given /\ Ended
  BY <1>1 DEF Reading
<1>3. WsWire \in Seq(Cells) /\ Read \in Nat /\ Read <= wsCut /\ wsCut <= Len(WsWire) /\ wsCut \in Nat
  BY <1>2, WireFacts
<1>4. Len(WsWire) \in Nat
  BY <1>3, Elements
<1>5. PICK c : c = WsConsumed
  OBVIOUS
<1>6. c \in Seq(Cells) /\ Len(c) = Read /\ \A k \in 1 .. Read : c[k] = WsWire[k]
  <2>1. c = SubSeq(WsWire, 1, Read) /\ Read \in 0 .. Len(WsWire)
    BY <1>3, <1>4, <1>5 DEF WsConsumed, Read
  <2> QED
    BY ONLY <1>3, <2>1, Parted
<1>7. DOMAIN c = 1 .. Read
  BY <1>6, Elements
<1>8. wsGot \in Seq(Cells) /\ DOMAIN wsGot = 1 .. Len(wsGot)
  BY <1>2, Elements DEF Given
<1>9. Range(wsGot) = {d \in Range(c) : WsIsData(d)}
  <2>1. ASSUME NEW d \in Range(wsGot) PROVE d \in Range(c) /\ WsIsData(d)
    <3>1. PICK j \in 1 .. Len(wsGot) : d = wsGot[j]
      BY <1>8 DEF Range
    <3>2. PICK k \in 1 .. Read : WsIsData(WsWire[k]) /\ wsGot[j] = WsWire[k]
      BY <1>2 DEF Given
    <3>3. d = c[k]
      BY <1>6, <3>1, <3>2
    <3> QED
      BY <1>7, <3>1, <3>2, <3>3 DEF Range
  <2>2. ASSUME NEW d \in Range(c), WsIsData(d) PROVE d \in Range(wsGot)
    <3>1. PICK k \in 1 .. Read : d = c[k]
      BY <1>7 DEF Range
    <3>2. d = WsWire[k]
      BY <1>6, <3>1
    <3>3. PICK j \in 1 .. Len(wsGot) : wsGot[j] = WsWire[k]
      BY <1>2, <2>2, <3>2 DEF Given
    <3> QED
      BY <1>8, <3>2, <3>3 DEF Range
  <2> QED
    BY <2>1, <2>2
<1>10. \A i, j \in DOMAIN wsGot : i < j => WsBefore(wsGot[i], wsGot[j])
  BY <1>2, <1>8 DEF Given
<1>11. wsEnd = "end" => wsIn = <<>> \/ wsFrames[c[Len(c)][1]].op = "close"
  <2> SUFFICES ASSUME wsEnd = "end", wsIn # <<>> PROVE wsFrames[c[Len(c)][1]].op = "close"
    OBVIOUS
  <2>1. Read > 0 /\ wsFrames[WsWire[Read][1]].op = "close"
    BY <1>2 DEF Ended
  <2>2. Read \in 1 .. Read
    BY <1>3, <2>1
  <2> QED
    BY <1>6, <2>1, <2>2
<1> QED
  BY <1>5, <1>9, <1>10, <1>11 DEF WsDataInOrder

\* Reading hands over the payload of the data frames as far as it was read: each
\* byte once, in order, under the right byte of the key, whatever the handshake
\* left in the socket, however reads split headers and payloads, and whatever
\* pings are answered in between; and a stream that ends was read to its end or
\* to a close frame (poll_read and poll_next of WsRead, client_handshake).
THEOREM DataInOrderHolds == WsSpec => []WsDataInOrder
<1>1. ReadInv => WsDataInOrder
  BY GivenInOrder
<1> QED
  BY <1>1, ReadInvHolds, PTL

------------------------------------------------------------------------------
(* The writers: steps.                                                     *)

\* Cells of one frame, from the one after `at` on.
PartOf(cells, frame, at, of) ==
  /\ cells \in Seq(OutCells) /\ Len(cells) > 0
  /\ \A k \in 1 .. Len(cells) :
       /\ cells[k].frame = frame /\ cells[k].at = at + k /\ cells[k].of = of
       /\ WsOwnByte(cells[k])

\* What comes later does not change what was before.
LEMMA SameStart ==
  ASSUME NEW s, NEW t, NEW n \in Nat, \A k \in 1 .. n - 1 : t[k] = s[k],
         NEW kinds, NEW frame, NEW at, EndsBefore(s, kinds, n, frame, at)
  PROVE  EndsBefore(t, kinds, n, frame, at)
<1>1. \A j \in 1 .. n - 1 : LastOf(t, kinds, j, n) <=> LastOf(s, kinds, j, n)
  BY DEF LastOf
<1> QED
  BY <1>1 DEF EndsBefore

\* Whether the output ends at no cell of a frame does not depend on the frame.
LEMMA EndsWhole ==
  \A s, kinds, f, g : EndsAt(s, kinds, f, 0) => EndsAt(s, kinds, g, 0)
BY DEF EndsAt, EndsBefore

\* Cells are put behind the others.
LEMMA Lengthened ==
  ASSUME NEW s \in Seq(OutCells), NEW cells, NEW frame, NEW at, NEW of,
         PartOf(cells, frame, at, of)
  PROVE  \E t \in Seq(OutCells), p \in Nat, n \in Nat \ {0} :
           /\ t = s \o cells /\ p = Len(s) /\ n = Len(cells) /\ Len(t) = p + n
           /\ \A k \in 1 .. p : t[k] = s[k]
           /\ \A k \in 1 .. n : t[p + k] = cells[k]
<1>1. cells \in Seq(OutCells) /\ Len(cells) > 0
  BY DEF PartOf
<1>2. PICK t : t = s \o cells
  OBVIOUS
<1>3. /\ t \in Seq(OutCells) /\ Len(t) = Len(s) + Len(cells)
      /\ \A k \in 1 .. Len(s) : t[k] = s[k]
      /\ \A k \in 1 .. Len(cells) : t[Len(s) + k] = cells[k]
  BY ONLY <1>1, <1>2, s \in Seq(OutCells), Joined
<1>4. Len(s) \in Nat /\ Len(cells) \in Nat
  BY <1>1, Elements
<1>5. /\ t = s \o cells /\ Len(s) = Len(s) /\ Len(cells) = Len(cells)
      /\ Len(cells) \in Nat \ {0}
  BY <1>1, <1>2, <1>4
<1> QED
  BY <1>3, <1>4, <1>5

LEMMA AppendedBytes ==
  ASSUME NEW s \in Seq(OutCells), NEW cells, NEW frame, NEW at, NEW of,
         PartOf(cells, frame, at, of), OwnBytes(s)
  PROVE  s \o cells \in Seq(OutCells) /\ OwnBytes(s \o cells)
<1>1. PICK t \in Seq(OutCells), p \in Nat, n \in Nat \ {0} :
           /\ t = s \o cells /\ p = Len(s) /\ n = Len(cells) /\ Len(t) = p + n
           /\ \A k \in 1 .. p : t[k] = s[k]
           /\ \A k \in 1 .. n : t[p + k] = cells[k]
  BY Lengthened
<1>2. ASSUME NEW i \in 1 .. Len(t) PROVE WsOwnByte(t[i])
  <2>1. CASE i \in 1 .. p
    BY <1>1, <2>1 DEF OwnBytes
  <2>2. CASE i \notin 1 .. p
    <3>1. i - p \in 1 .. n /\ p + (i - p) = i
      BY <1>1, <2>2
    <3>2. t[i] = cells[i - p]
      BY <1>1, <3>1
    <3> QED
      BY <1>1, <3>1, <3>2 DEF PartOf
  <2> QED
    BY <2>1, <2>2
<1> QED
  BY <1>1, <1>2 DEF OwnBytes

\* A frame goes on.
LEMMA Appended ==
  ASSUME NEW s \in Seq(OutCells), NEW cells, NEW frame, NEW at \in Nat, NEW of, NEW kinds,
         PartOf(cells, frame, at, of), frame[1] \in kinds,
         Follow(s, kinds), EndsAt(s, kinds, frame, at)
  PROVE  /\ Follow(s \o cells, kinds)
         /\ EndsAt(s \o cells, kinds, frame, at + Len(cells))
         /\ at + Len(cells) = of => \A f : EndsAt(s \o cells, kinds, f, 0)
<1>1. PICK t \in Seq(OutCells), p \in Nat, n \in Nat \ {0} :
           /\ t = s \o cells /\ p = Len(s) /\ n = Len(cells) /\ Len(t) = p + n
           /\ \A k \in 1 .. p : t[k] = s[k]
           /\ \A k \in 1 .. n : t[p + k] = cells[k]
  BY Lengthened
<1>2. ASSUME NEW k \in 1 .. n
      PROVE  t[p + k].frame = frame /\ t[p + k].at = at + k /\ t[p + k].of = of
  BY <1>1 DEF PartOf
<1>3. ASSUME NEW k \in 1 .. n PROVE LastOf(t, kinds, p + k, p + k + 1)
  <2>1. \A j \in 1 .. (p + k + 1) - 1 : j <= p + k
    OBVIOUS
  <2> QED
    BY <1>2, <2>1 DEF LastOf
<1>4. ASSUME NEW k \in 1 .. n PROVE EndsBefore(t, kinds, p + k, frame, at + k - 1)
  <2>1. CASE k = 1
    <3>1. \A j \in 1 .. (p + 1) - 1 : t[j] = s[j]
      BY <1>1
    <3>2. EndsBefore(s, kinds, p + 1, frame, at)
      BY <1>1 DEF EndsAt
    <3>3. EndsBefore(t, kinds, p + 1, frame, at)
      BY <3>1, <3>2, p + 1 \in Nat, SameStart
    <3>4. at + k - 1 = at /\ p + k = p + 1
      BY <2>1
    <3> QED
      BY <3>3, <3>4
  <2>2. CASE k # 1
    <3>1. PICK l \in 1 .. n : l = k - 1
      BY <2>2
    <3>2. /\ LastOf(t, kinds, p + l, p + k) /\ t[p + l].frame = frame /\ t[p + l].at = at + l
          /\ p + l \in 1 .. (p + k) - 1 /\ at + k - 1 = at + l /\ at + l # 0
      <4>1. p + l + 1 = p + k /\ p + l \in 1 .. (p + k) - 1 /\ at + k - 1 = at + l /\ at + l # 0
        BY <3>1
      <4>2. LastOf(t, kinds, p + l, p + l + 1)
        BY <1>3
      <4> QED
        BY <1>2, <4>1, <4>2
    <3> QED
      BY <3>2 DEF EndsBefore
  <2> QED
    BY <2>1, <2>2
<1>5. Follow(t, kinds)
  <2> SUFFICES ASSUME NEW i \in 1 .. Len(t), t[i].frame[1] \in kinds
               PROVE  EndsBefore(t, kinds, i, t[i].frame, t[i].at - 1)
    BY DEF Follow
  <2>1. CASE i \in 1 .. p
    <3>1. t[i] = s[i] /\ i \in 1 .. Len(s) /\ i \in Nat /\ \A j \in 1 .. i - 1 : t[j] = s[j]
      BY <1>1, <2>1
    <3>2. EndsBefore(s, kinds, i, s[i].frame, s[i].at - 1)
      BY <3>1 DEF Follow
    <3>3. EndsBefore(t, kinds, i, s[i].frame, s[i].at - 1)
      BY <3>1, <3>2, SameStart
    <3> QED
      BY <3>1, <3>3
  <2>2. CASE i \notin 1 .. p
    <3>1. PICK k \in 1 .. n : p + k = i
      <4>1. i - p \in 1 .. n /\ p + (i - p) = i
        BY <1>1, <2>2
      <4> QED
        BY <4>1
    <3>2. t[i].frame = frame /\ t[i].at = at + k
      BY <1>2, <3>1
    <3> QED
      BY <1>4, <3>1, <3>2
  <2> QED
    BY <2>1, <2>2
<1>6. /\ LastOf(t, kinds, p + n, Len(t) + 1) /\ t[p + n].frame = frame
      /\ t[p + n].at = at + n /\ t[p + n].of = of
      /\ p + n \in 1 .. (Len(t) + 1) - 1 /\ at + n # 0
  <2>1. n \in 1 .. n /\ p + n + 1 = Len(t) + 1 /\ p + n \in 1 .. (Len(t) + 1) - 1 /\ at + n # 0
    BY <1>1
  <2>2. LastOf(t, kinds, p + n, p + n + 1)
    BY <1>3, <2>1
  <2> QED
    BY <1>2, <2>1, <2>2
<1>7. EndsAt(t, kinds, frame, at + n)
  BY <1>6 DEF EndsAt, EndsBefore
<1>8. ASSUME at + n = of, NEW f PROVE EndsAt(t, kinds, f, 0)
  <2>1. ASSUME NEW j \in 1 .. (Len(t) + 1) - 1, LastOf(t, kinds, j, Len(t) + 1)
        PROVE  t[j].at = t[j].of
    <3>1. t[p + n].frame[1] \in kinds
      BY <1>6
    <3>2. p + n <= j
      BY <1>6, <2>1, <3>1 DEF LastOf
    <3>3. j = p + n
      BY <1>1, <3>2
    <3> QED
      BY <1>6, <1>8, <3>3
  <2> QED
    BY <2>1 DEF EndsAt, EndsBefore
<1> QED
  BY <1>1, <1>5, <1>7, <1>8

\* Cells of another kind make no difference.
LEMMA AppendedBeside ==
  ASSUME NEW s \in Seq(OutCells), NEW cells, NEW frame, NEW at, NEW of, NEW kinds,
         PartOf(cells, frame, at, of), frame[1] \notin kinds
  PROVE  /\ Follow(s, kinds) => Follow(s \o cells, kinds)
         /\ \A f, a : EndsAt(s, kinds, f, a) => EndsAt(s \o cells, kinds, f, a)
<1>1. PICK t \in Seq(OutCells), p \in Nat, n \in Nat \ {0} :
           /\ t = s \o cells /\ p = Len(s) /\ n = Len(cells) /\ Len(t) = p + n
           /\ \A k \in 1 .. p : t[k] = s[k]
           /\ \A k \in 1 .. n : t[p + k] = cells[k]
  BY Lengthened
<1>2. ASSUME NEW i \in 1 .. Len(t), i \notin 1 .. p PROVE t[i].frame[1] \notin kinds
  <2>1. i - p \in 1 .. n /\ p + (i - p) = i
    BY <1>1, <1>2
  <2>2. PICK k \in 1 .. n : k = i - p
    BY <2>1
  <2>3. t[i] = cells[k]
    BY <1>1, <2>1, <2>2
  <2>4. cells[k].frame = frame
    BY <1>1 DEF PartOf
  <2> QED
    BY <2>3, <2>4
<1>3. ASSUME Follow(s, kinds) PROVE Follow(t, kinds)
  <2> SUFFICES ASSUME NEW i \in 1 .. Len(t), t[i].frame[1] \in kinds
               PROVE  EndsBefore(t, kinds, i, t[i].frame, t[i].at - 1)
    BY DEF Follow
  <2>1. i \in 1 .. p
    BY <1>2
  <2>2. t[i] = s[i] /\ i \in 1 .. Len(s) /\ i \in Nat /\ \A j \in 1 .. i - 1 : t[j] = s[j]
    BY <1>1, <2>1
  <2>3. EndsBefore(s, kinds, i, s[i].frame, s[i].at - 1)
    BY <1>3, <2>2 DEF Follow
  <2>4. EndsBefore(t, kinds, i, s[i].frame, s[i].at - 1)
    BY <2>2, <2>3, SameStart
  <2> QED
    BY <2>2, <2>4
<1>4. ASSUME NEW j \in 1 .. p PROVE LastOf(t, kinds, j, Len(t) + 1) <=> LastOf(s, kinds, j, p + 1)
  <2>1. (p + 1) - 1 = p /\ (Len(t) + 1) - 1 = p + n /\ \A k \in 1 .. p : k \in 1 .. Len(t)
    BY <1>1
  <2>2. t[j] = s[j]
    BY <1>1
  <2>3. ASSUME LastOf(t, kinds, j, Len(t) + 1) PROVE LastOf(s, kinds, j, p + 1)
    BY <1>1, <2>1, <2>2, <2>3 DEF LastOf
  <2>4. ASSUME LastOf(s, kinds, j, p + 1) PROVE LastOf(t, kinds, j, Len(t) + 1)
    <3>1. ASSUME NEW k \in 1 .. (Len(t) + 1) - 1, t[k].frame[1] \in kinds PROVE k <= j
      <4>1. k \in 1 .. Len(t)
        BY <1>1
      <4>2. k \in 1 .. p
        BY <1>2, <3>1, <4>1
      <4> QED
        BY <1>1, <2>1, <2>4, <3>1, <4>2 DEF LastOf
    <3> QED
      BY <2>2, <2>4, <3>1 DEF LastOf
  <2> QED
    BY <2>3, <2>4
<1>5. ASSUME NEW f, NEW a, EndsAt(s, kinds, f, a) PROVE EndsAt(t, kinds, f, a)
  <2>0. EndsBefore(s, kinds, p + 1, f, a)
    BY <1>1, <1>5 DEF EndsAt
  <2>1. (p + 1) - 1 = p /\ \A k \in 1 .. p : k \in 1 .. (Len(t) + 1) - 1
    BY <1>1
  <2>2. CASE a = 0
    <3>1. ASSUME NEW j \in 1 .. (Len(t) + 1) - 1, LastOf(t, kinds, j, Len(t) + 1)
          PROVE  t[j].at = t[j].of
      <4>1. j \in 1 .. p
        <5>1. j \in 1 .. Len(t) /\ t[j].frame[1] \in kinds
          BY <1>1, <3>1 DEF LastOf
        <5> QED
          BY <1>2, <5>1
      <4>2. LastOf(s, kinds, j, p + 1) /\ t[j] = s[j]
        BY <1>1, <1>4, <3>1, <4>1
      <4> QED
        BY <2>0, <2>1, <2>2, <4>1, <4>2 DEF EndsBefore
    <3> QED
      BY <2>2, <3>1 DEF EndsAt, EndsBefore
  <2>3. CASE a # 0
    <3>1. PICK j \in 1 .. p : LastOf(s, kinds, j, p + 1) /\ s[j].frame = f /\ s[j].at = a
      BY <2>0, <2>1, <2>3 DEF EndsBefore
    <3>2. LastOf(t, kinds, j, Len(t) + 1) /\ t[j] = s[j] /\ j \in 1 .. (Len(t) + 1) - 1
      BY <1>1, <1>4, <2>1, <3>1
    <3> QED
      BY <2>3, <3>1, <3>2 DEF EndsAt, EndsBefore
  <2> QED
    BY <2>2, <2>3
<1> QED
  BY <1>1, <1>3, <1>5

LEMMA DataLen ==
  ASSUME NEW call, NEW total, NEW a \in Nat, NEW b \in Nat, NEW source, a <= b
  PROVE  Len(WsDataCells(call, total, a, b, source)) = b - a + 1
<1>1. b - a + 1 \in Nat
  OBVIOUS
<1> QED
  BY <1>1 DEF WsDataCells

\* Cells a + 1 .. a + n of a data frame that carries its own buffer.
LEMMA DataPart ==
  ASSUME NEW call \in Nat, NEW total \in Nat, NEW a \in Nat, NEW n \in Nat, n > 0,
         NEW source \in Nat, a + n > WsHeadLen => source = call
  PROVE  LET c == WsDataCells(call, total, a + 1, a + n, source) IN
           PartOf(c, <<"data", call>>, a, WsHeadLen + total) /\ Len(c) = n
<1> DEFINE Cell(k) == [frame |-> <<"data", call>>, at |-> a + 1 + k - 1, of |-> WsHeadLen + total,
                       byte |-> IF a + 1 + k - 1 <= WsHeadLen THEN <<0, 0>>
                                ELSE <<source, a + 1 + k - 1 - WsHeadLen>>]
           c == WsDataCells(call, total, a + 1, a + n, source)
<1>1. (a + n) - (a + 1) + 1 = n
  OBVIOUS
<1>2. c = [k \in 1 .. n |-> Cell(k)]
  BY <1>1 DEF WsDataCells
<1>3. ASSUME NEW k \in 1 .. n
      PROVE  /\ Cell(k) \in OutCells /\ Cell(k).frame = <<"data", call>> /\ Cell(k).at = a + k
             /\ Cell(k).of = WsHeadLen + total /\ WsOwnByte(Cell(k))
  <2>1. /\ a + 1 + k - 1 = a + k /\ a + k \in Nat /\ WsHeadLen + total \in Nat
        /\ a + 1 + k - 1 - WsHeadLen = (a + k) - WsHeadLen
    BY DEF WsHeadLen
  <2>2. <<"data", call>> \in {"data", "pong", "close"} \X Nat
    OBVIOUS
  <2>3. (IF a + k <= WsHeadLen THEN <<0, 0>> ELSE <<source, (a + k) - WsHeadLen>>) \in Cells
    BY DEF Cells, WsHeadLen
  <2>4. Cell(k) = [frame |-> <<"data", call>>, at |-> a + k, of |-> WsHeadLen + total,
                   byte |-> IF a + k <= WsHeadLen THEN <<0, 0>> ELSE <<source, (a + k) - WsHeadLen>>]
    BY <2>1
  <2> HIDE DEF Cell
  <2>5. Cell(k) \in OutCells
    BY <2>1, <2>2, <2>3, <2>4 DEF OutCells
  <2>6. /\ Cell(k).frame = <<"data", call>> /\ Cell(k).at = a + k
        /\ Cell(k).of = WsHeadLen + total
        /\ Cell(k).byte = IF a + k <= WsHeadLen THEN <<0, 0>> ELSE <<source, (a + k) - WsHeadLen>>
    BY <2>4
  <2>7. a + k > WsHeadLen => ~(a + k <= WsHeadLen) /\ source = call
    BY DEF WsHeadLen
  <2>8. a + k > WsHeadLen => Cell(k).byte = <<call, (a + k) - WsHeadLen>>
    BY <2>6, <2>7
  <2>9. WsOwnByte(Cell(k))
    BY <2>6, <2>8 DEF WsOwnByte
  <2> QED
    BY <2>5, <2>6, <2>9
<1> HIDE DEF Cell
<1>4. c \in [1 .. n -> OutCells] /\ \A k \in 1 .. n : c[k] = Cell(k)
  BY <1>2, <1>3
<1> HIDE DEF c
<1>5. c \in Seq(OutCells) /\ Len(c) = n
  BY <1>4, Listed
<1>6. PartOf(c, <<"data", call>>, a, WsHeadLen + total)
  BY <1>3, <1>4, <1>5 DEF PartOf
<1> QED
  BY <1>5, <1>6 DEF c

\* The first n cells of what is left of the answer to a ping.
LEMMA PongPart ==
  ASSUME NEW i \in Nat, NEW m \in Nat, PongLeft(i, m), wsPong \in Seq(OutCells),
         wsFrames[i].len \in Nat, NEW n \in 1 .. Len(wsPong)
  PROVE  /\ PartOf(SubSeq(wsPong, 1, n), <<"pong", i>>, m, wsFrames[i].len + 1)
         /\ Len(SubSeq(wsPong, 1, n)) = n
<1>1. PICK c : c = SubSeq(wsPong, 1, n)
  OBVIOUS
<1>2. Len(wsPong) \in Nat
  BY Elements
<1>3. n \in 0 .. Len(wsPong) /\ n \in Nat /\ n > 0
  BY <1>2
<1>4. c \in Seq(OutCells) /\ Len(c) = n /\ \A k \in 1 .. n : c[k] = wsPong[k]
  BY ONLY <1>1, <1>3, wsPong \in Seq(OutCells), Parted
<1>5. ASSUME NEW k \in 1 .. n
      PROVE  /\ c[k].frame = <<"pong", i>> /\ c[k].at = m + k /\ c[k].of = wsFrames[i].len + 1
             /\ WsOwnByte(c[k])
  <2>1. k \in 1 .. Len(wsPong)
    BY <1>2
  <2>2. c[k] = PongCell(i, m + k)
    BY <1>4, <2>1 DEF PongLeft
  <2>3. /\ c[k].frame = <<"pong", i>> /\ c[k].at = m + k /\ c[k].of = wsFrames[i].len + 1
        /\ c[k].byte = IF m + k = 1 THEN <<0, 0>> ELSE <<i, m + k - 1>>
    BY <2>2 DEF PongCell
  <2>4. m + k > 1 => c[k].byte = <<i, m + k - 1>>
    BY <2>3
  <2>5. WsOwnByte(c[k])
    BY <2>3, <2>4 DEF WsOwnByte
  <2> QED
    BY <2>3, <2>5
<1> QED
  BY <1>1, <1>3, <1>4, <1>5 DEF PartOf

\* The first n cells of a close frame.
LEMMA ClosePart ==
  ASSUME NEW n \in 1 .. 2
  PROVE  PartOf(SubSeq(WsCloseCells, 1, n), <<"close", 0>>, 0, 2)
<1> DEFINE Cell(k) == [frame |-> <<"close", 0>>, at |-> k, of |-> 2, byte |-> <<0, 0>>]
<1>1. \A k \in 1 .. 2 : Cell(k) \in OutCells
  BY DEF OutCells, Cells
<1>2. \A k \in 1 .. 2 : WsCloseCells[k] = Cell(k)
  BY DEF WsCloseCells
<1>3. WsCloseCells \in [1 .. 2 -> OutCells]
  BY <1>1 DEF WsCloseCells
<1>4. WsCloseCells \in Seq(OutCells) /\ Len(WsCloseCells) = 2
  BY <1>3, Listed
<1>5. PICK c : c = SubSeq(WsCloseCells, 1, n)
  OBVIOUS
<1>6. c \in Seq(OutCells) /\ Len(c) = n /\ \A k \in 1 .. n : c[k] = WsCloseCells[k]
  <2>1. n \in 0 .. Len(WsCloseCells)
    BY <1>4
  <2> QED
    BY ONLY <1>4, <1>5, <2>1, Parted
<1>7. ASSUME NEW k \in 1 .. n
      PROVE  /\ c[k].frame = <<"close", 0>> /\ c[k].at = 0 + k /\ c[k].of = 2 /\ WsOwnByte(c[k])
  <2>1. c[k] = Cell(k)
    BY <1>2, <1>6
  <2> QED
    BY <2>1 DEF WsOwnByte
<1> QED
  BY <1>5, <1>6, <1>7 DEF PartOf

LEMMA SameRoles ==
  ASSUME UNCHANGED wsFixed
  PROVE  Alone' <=> Alone
BY DEF Alone, wsFixed, WsPings

\* Steps that write nothing: the reader ends a pong only by ending reading.
LEMMA ReaderBeside ==
  ASSUME WriterStands, UNCHANGED <<wsFixed, wsWriter, wsOut>>, wsFull' \in BOOLEAN, wsFull' => wsFull,
         \/ UNCHANGED <<wsState, wsPong>>
         \/ wsState # "closed" /\ ~MidPong' /\ (MidPong => wsState' = "closed")
  PROVE  WriterStands'
<1>1. /\ UNCHANGED <<wsBusy, wsFrames, wsWrite, wsCall, wsLock, wsDrops, wsOut>>
      /\ Alone' <=> Alone
  BY SameRoles DEF wsFixed, wsWriter
<1>2. WriterTypes' /\ Writing' /\ OwnBytes(wsOut)'
  BY <1>1 DEF WriterStands, WriterTypes, Writing
<1>3. \A kinds : WriterSide(kinds) => WriterSide(kinds)'
  BY <1>1 DEF WriterSide, WriterEnds
<1>4. PongSide' /\ (~MidPong => ~MidPong')
  <2>1. Follow(wsOut, Pongs)'
    BY <1>1 DEF WriterStands, PongSide
  <2>2. CASE UNCHANGED <<wsState, wsPong>>
    <3>1. MidPong' <=> MidPong
      BY <2>2 DEF MidPong
    <3>2. PongEnds => PongEnds'
      BY <1>1, <2>2, <3>1 DEF PongEnds
    <3> QED
      BY <1>1, <2>1, <2>2, <3>1, <3>2 DEF WriterStands, PongSide
  <2>3. CASE wsState # "closed" /\ ~MidPong' /\ (MidPong => wsState' = "closed")
    <3>1. PongEnds /\ ~MidPong => PongEnds'
      BY <1>1, <2>3 DEF PongEnds
    <3> QED
      BY <1>1, <2>1, <2>3, <3>1 DEF WriterStands, PongSide
  <2> QED
    BY <2>2, <2>3
<1> QED
  BY <1>1, <1>2, <1>3, <1>4 DEF WriterStands

LEMMA ReadingBeside ==
  ASSUME WriterStands, ReadInv,
         \/ WsShake \/ WsHeaderRead \/ WsPayloadRead \/ WsPingRead \/ WsIgnoredRead
         \/ WsEof \/ WsReadErr \/ WsPongFails
  PROVE  WriterStands'
<1>1. PICK ends : Reading(ends)
  BY DEF ReadInv
<1>2. UNCHANGED <<wsFixed, wsWriter, wsOut, wsFull>> /\ wsState # "closed" /\ wsFull \in BOOLEAN
  BY DEF WsShake, WsHeaderRead, WsPayloadRead, WsPingRead, WsIgnoredRead, WsEof, WsReadErr, WsPongFails,
         wsSocket, WriterStands, WriterTypes
<1>3. SUFFICES UNCHANGED <<wsState, wsPong>> \/ (~MidPong' /\ (MidPong => wsState' = "closed"))
  BY <1>2, ReaderBeside
<1>4. CASE WsShake
  BY <1>4 DEF WsShake, WsNextFrame, WsStop, MidPong
<1>5. CASE WsHeaderRead
  <2>1. wsState = "header" /\ wsIn # <<>>
    BY <1>5 DEF WsHeaderRead
  <2>2. CASE wsNeed + 1 < WsHeaderLen(wsClient)
    BY <1>5, <2>1, <2>2 DEF WsHeaderRead, MidPong
  <2>3. CASE ~(wsNeed + 1 < WsHeaderLen(wsClient))
    <3>1. WsParsed(wsIn[1][1])
      BY <1>5, <2>3 DEF WsHeaderRead
    <3>2. PICK i \in 1 .. Len(wsFrames) : wsIn[1] = <<i, wsNeed + 1 - WsHeaderLen(wsClient)>>
      BY <1>1, <2>1, HeaderCell
    <3>3. wsFrames[i].len \in Nat /\ wsFrames[i].op \in WsOps /\ wsIn[1][1] = i
      BY <1>1, <3>2, WireFacts DEF Reading
    <3>4. wsState' = "pong" => wsPong' = WsPongCells(i, <<>>)
      BY <3>1, <3>3, ParsedCases DEF WsOps, WsNextFrame, WsStop
    <3>5. WsPongCells(i, <<>>)[1].at = 1
      BY DEF WsPongCells
    <3>6. ~MidPong'
      BY <3>4, <3>5 DEF MidPong
    <3>7. ~MidPong
      BY <2>1 DEF MidPong
    <3> QED
      BY <3>6, <3>7
  <2> QED
    BY <2>2, <2>3
<1>6. CASE WsPayloadRead
  BY <1>6 DEF WsPayloadRead, WsNextFrame, MidPong
<1>7. CASE WsPingRead
  <2>1. wsState = "ping"
    BY <1>7 DEF WsPingRead
  <2>2. wsState' = "pong" => \E i \in Nat : PongLeft(i, 0)'
    BY <1>1, <1>7, PingReads
  <2>3. wsState' = "pong" => wsPong'[1].at = 1
    <3> SUFFICES ASSUME wsState' = "pong" PROVE wsPong'[1].at = 1
      OBVIOUS
    <3>1. PICK i \in Nat : PongLeft(i, 0)'
      BY <2>2
    <3>2. Reading(ends)'
      BY <1>1, <1>7, PingReads
    <3>3. wsFrames'[i].len \in Nat
      <4>1. wsFrames' \in Frames
        BY <3>2 DEF Reading, Arriving
      <4> QED
        BY <3>1, <4>1, FrameTypes DEF PongLeft
    <3>4. /\ Len(wsPong') = wsFrames'[i].len + 1 - 0
          /\ \A k \in 1 .. Len(wsPong') : wsPong'[k] = PongCell(i, 0 + k)'
      BY <3>1 DEF PongLeft
    <3>5. 1 \in 1 .. Len(wsPong')
      BY <3>3, <3>4
    <3>6. wsPong'[1] = PongCell(i, 0 + 1)'
      BY <3>4, <3>5
    <3> QED
      BY <3>6 DEF PongCell
  <2> QED
    BY <2>1, <2>3 DEF MidPong
<1>8. CASE WsIgnoredRead
  BY <1>8 DEF WsIgnoredRead, WsNextFrame, MidPong
<1>9. CASE WsEof \/ WsReadErr \/ WsPongFails
  BY <1>9 DEF WsEof, WsReadErr, WsPongFails, WsStop, MidPong
<1> QED
  BY <1>4, <1>5, <1>6, <1>7, <1>8, <1>9

\* A pong begins between frames of its half or goes on with itself, and where no
\* frame can come inside another it is written whole while WsWrite is idle.
LEMMA PongFits ==
  ASSUME WriterStands, wsState = "pong", wsCall.st \notin WsNoSocket, ~wsLock,
         NEW i \in Nat, NEW m \in Nat, PongLeft(i, m), wsFrames[i].len \in Nat,
         Len(wsFrames) \in Nat, wsFrames \in Frames
  PROVE  /\ EndsAt(wsOut, Pongs, <<"pong", i>>, m)
         /\ Alone => /\ ~wsBusy /\ wsWrite.st = "idle"
                     /\ EndsAt(wsOut, Kinds, <<"pong", i>>, m)
<1>1. PongEnds
  BY DEF WriterStands, PongSide
<1>2. /\ i \in 1 .. Len(wsFrames) /\ wsFrames[i].op = "ping" /\ m \in 0 .. wsFrames[i].len
      /\ Len(wsPong) = wsFrames[i].len + 1 - m
      /\ \A k \in 1 .. Len(wsPong) : wsPong[k] = PongCell(i, m + k)
  BY DEF PongLeft
<1>3. i \in WsPings
  BY <1>2, FrameTypes DEF WsPings
<1>6. 1 \in 1 .. Len(wsPong) /\ Len(wsPong) \in Nat
  BY <1>2
<1>7. wsPong[1].frame = <<"pong", i>> /\ wsPong[1].at = m + 1
  BY <1>2, <1>6 DEF PongCell
<1>8. wsPong # <<>>
  BY <1>6
<1>9. EndsAt(wsOut, Pongs, <<"pong", i>>, m)
  <2>1. CASE MidPong
    <3>1. wsPong[1].at - 1 = m
      BY <1>7
    <3> QED
      BY <1>1, <1>7, <2>1, <3>1 DEF PongEnds
  <2>2. CASE ~MidPong
    <3>1. m = 0
      BY <1>7, <1>8, <2>2 DEF MidPong
    <3> QED
      BY <1>1, <2>2, <3>1, EndsWhole DEF PongEnds
  <2> QED
    BY <2>1, <2>2
<1>10. ASSUME Alone
       PROVE  /\ ~wsBusy /\ wsWrite.st = "idle"
              /\ EndsAt(wsOut, Kinds, <<"pong", i>>, m)
  <2>1. ~wsBusy
    BY <1>3, <1>10 DEF Alone
  <2>2. wsWrite.st = "idle"
    BY <2>1 DEF WriterStands, Writing, WsNoSocket
  <2>3. WriterEnds(Kinds) /\ ~MidPong
    BY <1>10 DEF WriterStands, WriterSide
  <2>4. m = 0
    BY <1>7, <1>8, <2>3 DEF MidPong
  <2> QED
    BY <2>1, <2>2, <2>3, <2>4, EndsWhole DEF WriterEnds
<1> QED
  BY <1>9, <1>10

LEMMA PongWritten ==
  ASSUME WriterStands, ReadInv, WsPongWrite
  PROVE  WriterStands'
<1>1. PICK ends : Reading(ends)
  BY DEF ReadInv
<1>2. /\ Arriving /\ Laid(wsClient, wsFrames, ends) /\ wsPong \in Seq(OutCells)
      /\ wsState = "pong" /\ ~wsLock /\ wsCall.st \notin WsNoSocket /\ ~wsFull
      /\ UNCHANGED <<wsFixed, wsWriter>>
  BY <1>1 DEF Reading, ReaderTypes, WsPongWrite
<1>3. PICK n \in WsTaken(Len(wsPong)) :
        /\ WsPut(SubSeq(wsPong, 1, n))
        /\ wsPong' = SubSeq(wsPong, n + 1, Len(wsPong))
        /\ IF n = Len(wsPong) THEN WsNextFrame ELSE UNCHANGED <<wsState, wsNeed>>
  BY DEF WsPongWrite
<1>4. PICK i \in 1 .. Len(wsFrames) : \E m \in 0 .. wsFrames[i].len : PongLeft(i, m)
  BY <1>1, <1>2 DEF Reading, Standing
<1>5. PICK m \in 0 .. wsFrames[i].len : PongLeft(i, m)
  BY <1>4
<1>6. /\ wsFrames[i].len \in Nat /\ Len(wsFrames) \in Nat /\ wsFrames \in Frames
      /\ i \in Nat /\ m \in Nat
  BY <1>2, WireFacts DEF Arriving
<1>7. /\ EndsAt(wsOut, Pongs, <<"pong", i>>, m)
      /\ Alone => /\ ~wsBusy /\ wsWrite.st = "idle"
                  /\ EndsAt(wsOut, Kinds, <<"pong", i>>, m)
  BY <1>2, <1>5, <1>6, PongFits
<1>8. /\ Len(wsPong) = wsFrames[i].len + 1 - m
      /\ \A k \in 1 .. Len(wsPong) : wsPong[k] = PongCell(i, m + k)
  BY <1>5 DEF PongLeft
<1>9. PICK len \in Nat : len = wsFrames[i].len
  BY <1>6
<1>10. Len(wsPong) = len + 1 - m /\ Len(wsPong) \in Nat /\ n \in 1 .. Len(wsPong)
  <2>1. Len(wsPong) = len + 1 - m /\ Len(wsPong) \in Nat /\ Len(wsPong) > 0
    BY <1>6, <1>8, <1>9
  <2> QED
    BY <1>3, <2>1 DEF WsTaken
<1>11. PICK s, c :
         /\ s \in Seq(OutCells) /\ s = wsOut /\ wsOut' = s \o c
         /\ PartOf(c, <<"pong", i>>, m, len + 1) /\ Len(c) = n
  <2>1. wsOut \in Seq(OutCells) /\ wsOut' = wsOut \o SubSeq(wsPong, 1, n)
    BY <1>3 DEF WriterStands, WriterTypes, WsPut
  <2>2. /\ PartOf(SubSeq(wsPong, 1, n), <<"pong", i>>, m, len + 1)
        /\ Len(SubSeq(wsPong, 1, n)) = n
    BY <1>2, <1>5, <1>6, <1>9, <1>10, PongPart
  <2> QED
    BY <2>1, <2>2
<1>12. wsOut' \in Seq(OutCells) /\ OwnBytes(wsOut')
  <2>1. OwnBytes(s)
    BY <1>11 DEF WriterStands
  <2>2. s \o c \in Seq(OutCells) /\ OwnBytes(s \o c)
    BY <1>11, <2>1, AppendedBytes
  <2> QED
    BY <1>11, <2>2
<1>13. ASSUME NEW kinds, "pong" \in kinds, Follow(wsOut, kinds),
              EndsAt(wsOut, kinds, <<"pong", i>>, m)
       PROVE  /\ Follow(wsOut', kinds) /\ EndsAt(wsOut', kinds, <<"pong", i>>, m + n)
              /\ m + n = len + 1 => \A f : EndsAt(wsOut', kinds, f, 0)
  <2>1. <<"pong", i>>[1] \in kinds /\ Follow(s, kinds) /\ EndsAt(s, kinds, <<"pong", i>>, m)
    BY <1>11, <1>13
  <2>2. /\ Follow(s \o c, kinds) /\ EndsAt(s \o c, kinds, <<"pong", i>>, m + Len(c))
        /\ m + Len(c) = len + 1 => \A f : EndsAt(s \o c, kinds, f, 0)
    BY <1>6, <1>11, <2>1, Appended
  <2> QED
    BY <1>11, <2>2
<1>14. /\ UNCHANGED <<wsBusy, wsFrames, wsWrite, wsCall, wsLock, wsDrops>>
       /\ Alone' <=> Alone
  BY <1>2, SameRoles DEF wsFixed, wsWriter
<1>15. wsFull' \in BOOLEAN /\ (~wsBusy => ~wsFull')
  BY <1>3 DEF WsPut
<1>16. WriterTypes' /\ Writing'
  BY <1>12, <1>14, <1>15 DEF WriterStands, WriterTypes, Writing
<1>17. WriterSide(Written)'
  <2>1. <<"pong", i>>[1] \notin Written
    BY DEF Written
  <2>2. /\ Follow(s, Written) => Follow(s \o c, Written)
        /\ \A f, a : EndsAt(s, Written, f, a) => EndsAt(s \o c, Written, f, a)
    BY <1>11, <2>1, AppendedBeside
  <2>3. /\ Follow(wsOut, Written) => Follow(wsOut', Written)
        /\ \A f, a : EndsAt(wsOut, Written, f, a) => EndsAt(wsOut', Written, f, a)
    BY <1>11, <2>2
  <2> QED
    BY <1>14, <2>3 DEF WriterStands, WriterSide, WriterEnds
<1>18. /\ Follow(wsOut', Pongs) /\ EndsAt(wsOut', Pongs, <<"pong", i>>, m + n)
       /\ m + n = len + 1 => \A f : EndsAt(wsOut', Pongs, f, 0)
  BY <1>7, <1>13 DEF WriterStands, PongSide, Pongs
<1>19. CASE n = Len(wsPong)
  <2>1. m + n = len + 1
    BY <1>6, <1>10, <1>19
  <2>2. ~MidPong'
    BY <1>3, <1>19 DEF WsNextFrame, MidPong
  <2>3. PongSide'
    BY <1>18, <2>1, <2>2 DEF PongSide, PongEnds
  <2>4. ASSUME Alone PROVE WriterSide(Kinds)'
    <3>1. Follow(wsOut, Kinds) /\ "pong" \in Kinds
      BY <2>4 DEF WriterStands, WriterSide, Kinds
    <3>2. Follow(wsOut', Kinds) /\ \A f : EndsAt(wsOut', Kinds, f, 0)
      BY <1>7, <1>13, <2>1, <2>4, <3>1
    <3>3. wsWrite'.st = "idle"
      BY <1>7, <1>14, <2>4
    <3> QED
      BY <3>2, <3>3 DEF WriterSide, WriterEnds
  <2> QED
    BY <1>12, <1>14, <1>16, <1>17, <2>2, <2>3, <2>4 DEF WriterStands
<1>20. CASE n # Len(wsPong)
  <2>1. wsBusy /\ ~Alone
    <3>1. wsBusy
      BY <1>3, <1>20 DEF WsTaken
    <3> QED
      BY <1>7, <3>1
  <2>2. n + 1 \in 1 .. Len(wsPong) /\ m + (n + 1) = m + n + 1 /\ 1 \in 1 .. Len(wsPong) - n
    BY <1>6, <1>10, <1>20
  <2>3. wsPong'[1] = wsPong[n + 1] /\ wsPong' # <<>>
    <3>1. PICK p : p = SubSeq(wsPong, n + 1, Len(wsPong))
      OBVIOUS
    <3>2. n \in 0 .. Len(wsPong)
      BY <1>10
    <3>3. /\ Len(p) = Len(wsPong) - n
          /\ \A k \in 1 .. Len(wsPong) - n : p[k] = wsPong[n + k]
      BY ONLY <1>2, <3>1, <3>2, Parted
    <3>4. p # <<>>
      BY <1>10, <1>20, <3>3
    <3> QED
      BY <1>3, <2>2, <3>1, <3>3, <3>4
  <2>4. wsPong'[1] = PongCell(i, m + n + 1)
    BY <1>8, <2>2, <2>3
  <2>5. /\ wsPong'[1].frame = <<"pong", i>> /\ wsPong'[1].at = m + n + 1
        /\ (m + n + 1) - 1 = m + n /\ m + n + 1 > 1
    BY <1>6, <1>10, <2>4 DEF PongCell
  <2>6. PongSide'
    <3>1. wsPong'[1].at - 1 = m + n
      BY <2>5
    <3>2. MidPong'
      BY <1>2, <1>3, <1>20, <2>3, <2>5 DEF MidPong
    <3>3. PongEnds'
      BY <1>18, <2>5, <3>1, <3>2 DEF PongEnds
    <3> QED
      BY <1>18, <3>3 DEF PongSide
  <2> QED
    BY <1>12, <1>14, <1>16, <1>17, <2>1, <2>6 DEF WriterStands
<1> QED
  BY <1>19, <1>20

\* What WsWrite does beside a pong does not change where the pong is.
LEMMA PongStays ==
  ASSUME WriterStands, UNCHANGED <<wsState, wsPong>>,
         wsCall.st \in WsNoSocket => wsCall'.st \in WsNoSocket,
         Follow(wsOut, Pongs) => Follow(wsOut', Pongs),
         \A f, a : EndsAt(wsOut, Pongs, f, a) => EndsAt(wsOut', Pongs, f, a)
  PROVE  PongSide' /\ (MidPong' <=> MidPong)
<1>1. MidPong' <=> MidPong
  BY DEF MidPong
<1>2. PongEnds => PongEnds'
  BY <1>1 DEF PongEnds
<1> QED
  BY <1>1, <1>2 DEF WriterStands, PongSide

\* Steps of the writer that write nothing.
LEMMA CallWritten ==
  ASSUME WriterStands, WsCallWrite
  PROVE  WriterStands'
<1>1. /\ wsCall.st = "idle"
      /\ UNCHANGED <<wsFixed, wsState, wsPong, wsWrite, wsLock, wsOut, wsFull>>
  BY DEF WsCallWrite, wsReader, wsSocket
<1>2. PICK s \in WsSizes : wsCall' = [n |-> wsCall.n + 1, size |-> s, st |-> "poll"]
  BY DEF WsCallWrite
<1>3. s \in Nat /\ s > 0 /\ wsCall.n \in Nat
  BY WsAssumption DEF WriterStands, WriterTypes
<1>4. wsWrite.st = "idle"
  BY <1>1 DEF WriterStands, Writing
<1>5. UNCHANGED <<wsBusy, wsFrames>> /\ (Alone' <=> Alone)
  BY <1>1, SameRoles DEF wsFixed
<1>6. WriterTypes'
  BY <1>1, <1>2, <1>3, <1>5 DEF WriterStands, WriterTypes
<1>7. Writing'
  BY <1>1, <1>2, <1>3, <1>4, <1>5 DEF WriterStands, Writing
<1>8. PongSide' /\ (MidPong' <=> MidPong)
  BY <1>1, PongStays DEF WsNoSocket
<1>9. \A kinds : WriterSide(kinds) => WriterSide(kinds)'
  BY <1>1 DEF WriterSide, WriterEnds, WsNoSocket
<1> QED
  BY <1>1, <1>5, <1>6, <1>7, <1>8, <1>9 DEF WriterStands

LEMMA PollBegins ==
  ASSUME WriterStands, WsPollWrite
  PROVE  WriterStands'
<1>1. /\ wsCall.st = "poll" /\ wsLock' = TRUE
      /\ wsWrite' = IF wsWrite.st # "idle" THEN wsWrite
                    ELSE [st |-> "head", of |-> wsCall.n, total |-> wsCall.size, done |-> 0]
      /\ UNCHANGED <<wsFixed, wsState, wsPong, wsCall, wsOut, wsFull>>
  BY DEF WsPollWrite, wsReader, wsSocket
<1>3. UNCHANGED <<wsBusy, wsFrames>> /\ (Alone' <=> Alone)
  BY <1>1, SameRoles DEF wsFixed
<1>4. wsCall.n \in Nat /\ wsCall.size \in Nat
  BY DEF WriterStands, WriterTypes
<1>5. WriterTypes'
  BY <1>1, <1>3, <1>4 DEF WriterStands, WriterTypes
<1>6. Writing'
  BY <1>1, <1>3, <1>4 DEF WriterStands, Writing, WsHeadLen
<1>7. PongSide' /\ (MidPong' <=> MidPong)
  BY <1>1, PongStays
<1>8. ASSUME NEW kinds, WriterSide(kinds) PROVE WriterSide(kinds)'
  <2>1. Follow(wsOut, kinds) /\ WriterEnds(kinds)
    BY <1>1, <1>8 DEF WriterSide, WsNoSocket
  <2>2. CASE wsWrite.st # "idle"
    BY <1>1, <2>1, <2>2 DEF WriterSide, WriterEnds
  <2>3. CASE wsWrite.st = "idle"
    <3>1. EndsAt(wsOut, kinds, <<"data", wsCall.n>>, 0)
      BY <2>1, <2>3, EndsWhole DEF WriterEnds
    <3>2. wsWrite'.st = "head" /\ wsWrite'.of = wsCall.n /\ wsWrite'.done = 0
      BY <1>1, <2>3
    <3> QED
      BY <1>1, <2>1, <3>1, <3>2 DEF WriterSide, WriterEnds
  <2> QED
    BY <2>2, <2>3
<1> QED
  BY <1>1, <1>3, <1>5, <1>6, <1>7, <1>8 DEF WriterStands

LEMMA PollEnds ==
  ASSUME WriterStands, WsWriteWaits \/ WsWriteErr
  PROVE  WriterStands'
<1>1. /\ wsLock /\ wsLock' = FALSE
      /\ UNCHANGED <<wsFixed, wsState, wsPong, wsWrite, wsOut, wsFull>>
      /\ \/ wsCall' = [wsCall EXCEPT !.st = "broken"]
         \/ wsFull /\ UNCHANGED wsCall
  BY DEF WsWriteWaits, WsWriteErr, WsWait, wsReader, wsSocket
<1>2. wsCall.st = "poll" /\ wsWrite.st # "idle"
  BY <1>1 DEF WriterStands, Writing
<1>3. UNCHANGED <<wsBusy, wsFrames>> /\ (Alone' <=> Alone)
  BY <1>1, SameRoles DEF wsFixed
<1>4. PongSide' /\ (MidPong' <=> MidPong)
  BY <1>1, <1>2, PongStays DEF WsNoSocket
<1>5. ASSUME NEW kinds, WriterSide(kinds) PROVE WriterSide(kinds)'
  <2>1. Follow(wsOut, kinds) /\ WriterEnds(kinds)
    BY <1>2, <1>5 DEF WriterSide, WsNoSocket
  <2> QED
    BY <1>1, <2>1 DEF WriterSide, WriterEnds
<1>6. WriterTypes'
  BY <1>1, <1>3 DEF WriterStands, WriterTypes
<1>7. Writing'
  <2>1. CASE wsFull /\ UNCHANGED wsCall
    BY <1>1, <1>2, <1>3, <2>1 DEF WriterStands, Writing
  <2>2. CASE wsCall' = [wsCall EXCEPT !.st = "broken"]
    <3>1. wsCall'.st = "broken" /\ wsCall'.n = wsCall.n /\ wsCall'.size = wsCall.size
      BY <2>2 DEF WriterStands, WriterTypes
    <3> QED
      BY <1>1, <1>2, <1>3, <3>1 DEF WriterStands, Writing
  <2> QED
    BY <1>1, <2>1, <2>2
<1> QED
  BY <1>1, <1>3, <1>4, <1>5, <1>6, <1>7 DEF WriterStands

\* Cells of WsWrite go on a frame in its half, and among all cells where no frame can
\* come inside another.
LEMMA WriterAppends ==
  ASSUME WriterStands, NEW cells, NEW frame, frame[1] \in Written, NEW at \in Nat, NEW of,
         PartOf(cells, frame, at, of), wsOut' = wsOut \o cells,
         UNCHANGED <<wsState, wsPong>>,
         wsCall.st \in WsNoSocket => wsCall'.st \in WsNoSocket
  PROVE  /\ wsOut' \in Seq(OutCells) /\ OwnBytes(wsOut')
         /\ PongSide' /\ (MidPong' <=> MidPong)
         /\ \A kinds \in {Written, Kinds} :
              Follow(wsOut, kinds) /\ EndsAt(wsOut, kinds, frame, at) =>
                /\ Follow(wsOut', kinds) /\ EndsAt(wsOut', kinds, frame, at + Len(cells))
                /\ at + Len(cells) = of => \A f : EndsAt(wsOut', kinds, f, 0)
<1>1. PICK s \in Seq(OutCells) : s = wsOut /\ wsOut' = s \o cells /\ OwnBytes(s)
  BY DEF WriterStands, WriterTypes
<1>2. wsOut' \in Seq(OutCells) /\ OwnBytes(wsOut')
  BY <1>1, AppendedBytes
<1>3. PongSide' /\ (MidPong' <=> MidPong)
  <2>1. frame[1] \notin Pongs
    BY DEF Written, Pongs
  <2>2. /\ Follow(s, Pongs) => Follow(s \o cells, Pongs)
        /\ \A f, a : EndsAt(s, Pongs, f, a) => EndsAt(s \o cells, Pongs, f, a)
    BY <2>1, AppendedBeside
  <2>3. /\ Follow(wsOut, Pongs) => Follow(wsOut', Pongs)
        /\ \A f, a : EndsAt(wsOut, Pongs, f, a) => EndsAt(wsOut', Pongs, f, a)
    BY <1>1, <2>2
  <2> QED
    BY <2>3, PongStays
<1>4. ASSUME NEW kinds \in {Written, Kinds}, Follow(wsOut, kinds), EndsAt(wsOut, kinds, frame, at)
      PROVE  /\ Follow(wsOut', kinds) /\ EndsAt(wsOut', kinds, frame, at + Len(cells))
             /\ at + Len(cells) = of => \A f : EndsAt(wsOut', kinds, f, 0)
  <2>1. frame[1] \in kinds /\ Follow(s, kinds) /\ EndsAt(s, kinds, frame, at)
    BY <1>1, <1>4 DEF Written, Kinds
  <2>2. /\ Follow(s \o cells, kinds) /\ EndsAt(s \o cells, kinds, frame, at + Len(cells))
        /\ at + Len(cells) = of => \A f : EndsAt(s \o cells, kinds, f, 0)
    BY <2>1, Appended
  <2> QED
    BY <1>1, <2>2
<1> QED
  BY <1>2, <1>3, <1>4

LEMMA HeadWritten ==
  ASSUME WriterStands, WsHeadWrite
  PROVE  WriterStands'
<1>1. /\ wsLock /\ wsWrite.st = "head" /\ ~wsFull /\ wsLock' = TRUE
      /\ UNCHANGED <<wsFixed, wsState, wsPong, wsCall>>
  BY DEF WsHeadWrite, WsLockWhole, wsReader
<1>2. /\ wsCall.st = "poll" /\ wsWrite.done < 2 /\ wsCall.size > 0
      /\ wsWrite.of = wsCall.n /\ wsWrite.total = wsCall.size
  BY <1>1 DEF WriterStands, Writing, WsHeadLen
<1>3. PICK n \in WsTaken(WsHeadLen - wsWrite.done) :
        /\ WsPut(WsDataCells(wsWrite.of, wsWrite.total, wsWrite.done + 1, wsWrite.done + n, 0))
        /\ wsWrite' = IF wsWrite.done + n < WsHeadLen THEN [wsWrite EXCEPT !.done = wsWrite.done + n]
                      ELSE [wsWrite EXCEPT !.st = "body", !.done = 0]
  BY DEF WsHeadWrite
<1>4. PICK of \in Nat, total \in Nat, done \in 0 .. 1 :
        of = wsWrite.of /\ total = wsWrite.total /\ done = wsWrite.done
  BY <1>2 DEF WriterStands, WriterTypes
<1>5. n \in Nat /\ n > 0 /\ done + n <= 2 /\ done + n \in Nat
  <2>1. n \in 1 .. 2 - done
    BY <1>3, <1>4 DEF WsTaken, WsHeadLen
  <2> QED
    BY <2>1
<1>6. UNCHANGED <<wsBusy, wsFrames>> /\ (Alone' <=> Alone)
  BY <1>1, SameRoles DEF wsFixed
<1>7. wsFull' \in BOOLEAN /\ (~wsBusy => ~wsFull')
  BY <1>3 DEF WsPut
<1>8. PICK c : /\ wsOut' = wsOut \o c /\ Len(c) = n
               /\ PartOf(c, <<"data", of>>, done, WsHeadLen + total)
  <2>1. PICK c : c = WsDataCells(of, total, done + 1, done + n, 0)
    OBVIOUS
  <2>2. wsOut' = wsOut \o c
    BY <1>3, <1>4, <2>1 DEF WsPut
  <2>3. ~(done + n > WsHeadLen) /\ done \in Nat /\ n \in Nat /\ n > 0
    BY <1>5 DEF WsHeadLen
  <2>4. PartOf(WsDataCells(of, total, done + 1, done + n, 0), <<"data", of>>, done, WsHeadLen + total)
    BY ONLY <2>3, of \in Nat, total \in Nat, DataPart
  <2>5. Len(WsDataCells(of, total, done + 1, done + n, 0)) = n
    <3>1. /\ done + 1 \in Nat /\ done + n \in Nat /\ done + 1 <= done + n
          /\ (done + n) - (done + 1) + 1 = n
      BY <2>3
    <3> QED
      BY <3>1, DataLen
  <2> QED
    BY <2>1, <2>2, <2>4, <2>5
<1>9. /\ wsOut' \in Seq(OutCells) /\ OwnBytes(wsOut')
      /\ PongSide' /\ (MidPong' <=> MidPong)
      /\ \A kinds \in {Written, Kinds} :
           Follow(wsOut, kinds) /\ EndsAt(wsOut, kinds, <<"data", of>>, done) =>
             Follow(wsOut', kinds) /\ EndsAt(wsOut', kinds, <<"data", of>>, done + n)
  <2>1. <<"data", of>>[1] \in Written /\ done \in Nat
    BY DEF Written
  <2>2. wsCall.st \in WsNoSocket => wsCall'.st \in WsNoSocket
    BY <1>1
  <2> QED
    BY <1>1, <1>8, <2>1, <2>2, WriterAppends
<1>11. /\ wsWrite'.of = of /\ wsWrite'.total = total
       /\ wsWrite' \in [st : {"idle", "head", "body"}, of : Nat, total : Nat, done : Nat]
       /\ \/ wsWrite'.st = "head" /\ wsWrite'.done = done + n /\ done + n < WsHeadLen
          \/ wsWrite'.st = "body" /\ wsWrite'.done = 0 /\ done + n = WsHeadLen
  <2>1. wsWrite = [st |-> "head", of |-> of, total |-> total, done |-> done]
    BY <1>1, <1>4 DEF WriterStands, WriterTypes
  <2>2. CASE done + n < WsHeadLen
    <3>1. wsWrite' = [wsWrite EXCEPT !.done = done + n]
      BY <1>3, <1>4, <2>2
    <3>2. wsWrite' = [st |-> "head", of |-> of, total |-> total, done |-> done + n]
      BY <2>1, <3>1
    <3> QED
      BY <1>5, <2>2, <3>2
  <2>3. CASE ~(done + n < WsHeadLen)
    <3>1. wsWrite' = [wsWrite EXCEPT !.st = "body", !.done = 0]
      BY <1>3, <1>4, <2>3
    <3>2. wsWrite' = [st |-> "body", of |-> of, total |-> total, done |-> 0]
      BY <2>1, <3>1
    <3>3. done + n = WsHeadLen
      BY <1>5, <2>3 DEF WsHeadLen
    <3> QED
      BY <3>2, <3>3
  <2> QED
    BY <2>2, <2>3
<1>12. WriterTypes'
  BY <1>1, <1>6, <1>7, <1>9, <1>11 DEF WriterStands, WriterTypes
<1>13. Writing'
  BY <1>1, <1>2, <1>4, <1>6, <1>7, <1>11 DEF WriterStands, Writing
<1>14. ASSUME NEW kinds \in {Written, Kinds}, WriterSide(kinds) PROVE WriterSide(kinds)'
  <2>1. Follow(wsOut, kinds) /\ EndsAt(wsOut, kinds, <<"data", of>>, done)
    BY <1>1, <1>2, <1>4, <1>14 DEF WriterSide, WriterEnds, WsNoSocket
  <2>2. Follow(wsOut', kinds) /\ EndsAt(wsOut', kinds, <<"data", of>>, done + n)
    BY <1>9, <2>1
  <2>3. CASE wsWrite'.st = "head" /\ wsWrite'.done = done + n
    BY <1>11, <2>2, <2>3 DEF WriterSide, WriterEnds
  <2>4. CASE wsWrite'.st = "body" /\ wsWrite'.done = 0 /\ done + n = WsHeadLen
    <3>1. WsHeadLen + wsWrite'.done = done + n
      BY <2>4 DEF WsHeadLen
    <3> QED
      BY <1>11, <2>2, <2>4, <3>1 DEF WriterSide, WriterEnds
  <2> QED
    BY <1>11, <2>3, <2>4
<1> QED
  BY <1>6, <1>9, <1>12, <1>13, <1>14 DEF WriterStands

LEMMA BodyWritten ==
  ASSUME WriterStands, WsBodyWrite
  PROVE  WriterStands'
<1>1. /\ wsLock /\ wsWrite.st = "body" /\ ~wsFull
      /\ UNCHANGED <<wsFixed, wsState, wsPong>>
  BY DEF WsBodyWrite, wsReader
<1>2. /\ wsCall.st = "poll" /\ wsWrite.done < wsWrite.total /\ wsCall.size > 0
      /\ wsWrite.of = wsCall.n /\ wsWrite.total = wsCall.size
  BY <1>1 DEF WriterStands, Writing
<1>3. PICK of \in Nat, total \in Nat, done \in Nat :
        of = wsWrite.of /\ total = wsWrite.total /\ done = wsWrite.done /\ done < total
  BY <1>2 DEF WriterStands, WriterTypes
<1>4. WsSource.n = of /\ WsLeft = total - done
  <2>1. WsSource.n = of /\ WsSource.len = total
    BY <1>2, <1>3 DEF WsSource
  <2> QED
    BY <1>3, <2>1 DEF WsLeft
<1>5. PICK n \in WsTaken(WsLeft) :
        /\ WsPut(WsDataCells(wsWrite.of, wsWrite.total, WsHeadLen + wsWrite.done + 1,
                             WsHeadLen + (wsWrite.done + n), WsSource.n))
        /\ IF wsWrite.done + n < wsWrite.total
           THEN /\ wsWrite' = [wsWrite EXCEPT !.done = wsWrite.done + n]
                /\ wsLock' = WsLockWhole /\ UNCHANGED wsCall
           ELSE /\ wsWrite' = [wsWrite EXCEPT !.st = "idle", !.done = 0]
                /\ wsLock' = FALSE
                /\ WsWritten(wsWrite.total)
  BY DEF WsBodyWrite
<1>6. n \in Nat /\ n > 0 /\ done + n <= total /\ done + n \in Nat
  <2>1. n \in 1 .. total - done
    BY <1>3, <1>4, <1>5 DEF WsTaken
  <2> QED
    BY <1>3, <2>1
<1>7. UNCHANGED <<wsBusy, wsFrames>> /\ (Alone' <=> Alone)
  BY <1>1, SameRoles DEF wsFixed
<1>8. wsFull' \in BOOLEAN /\ (~wsBusy => ~wsFull')
  BY <1>5 DEF WsPut
<1>9. PICK a \in Nat : a = WsHeadLen + done /\ WsHeadLen + (done + n) = a + n
  BY <1>6 DEF WsHeadLen
<1>10. PICK c : /\ wsOut' = wsOut \o c /\ Len(c) = n
                /\ PartOf(c, <<"data", of>>, a, WsHeadLen + total)
  <2>1. PICK c : c = WsDataCells(of, total, a + 1, a + n, of)
    OBVIOUS
  <2>2. WsHeadLen + done + 1 = a + 1
    BY <1>9
  <2>3. wsOut' = wsOut \o c
    BY <1>3, <1>4, <1>5, <1>9, <2>1, <2>2 DEF WsPut
  <2>4. n \in Nat /\ n > 0
    BY <1>6
  <2>5. PartOf(WsDataCells(of, total, a + 1, a + n, of), <<"data", of>>, a, WsHeadLen + total)
    BY ONLY <2>4, of \in Nat, total \in Nat, a \in Nat, DataPart
  <2>6. Len(WsDataCells(of, total, a + 1, a + n, of)) = n
    <3>1. /\ a + 1 \in Nat /\ a + n \in Nat /\ a + 1 <= a + n
          /\ (a + n) - (a + 1) + 1 = n
      BY <2>4
    <3> QED
      BY <3>1, DataLen
  <2> QED
    BY <2>1, <2>3, <2>5, <2>6
<1>11. wsCall.st \in WsNoSocket => wsCall'.st \in WsNoSocket
  BY <1>2 DEF WsNoSocket
<1>12. /\ wsOut' \in Seq(OutCells) /\ OwnBytes(wsOut')
       /\ PongSide' /\ (MidPong' <=> MidPong)
       /\ \A kinds \in {Written, Kinds} :
            Follow(wsOut, kinds) /\ EndsAt(wsOut, kinds, <<"data", of>>, a) =>
              /\ Follow(wsOut', kinds) /\ EndsAt(wsOut', kinds, <<"data", of>>, a + n)
              /\ a + n = WsHeadLen + total => \A f : EndsAt(wsOut', kinds, f, 0)
  <2>1. <<"data", of>>[1] \in Written
    BY DEF Written
  <2> QED
    BY <1>1, <1>10, <1>11, <2>1, WriterAppends
<1>13. ASSUME NEW kinds \in {Written, Kinds}, WriterSide(kinds)
       PROVE  /\ Follow(wsOut', kinds)
              /\ EndsAt(wsOut', kinds, <<"data", of>>, WsHeadLen + (done + n))
              /\ done + n = total => EndsAt(wsOut', kinds, <<"data", 0>>, 0)
  <2>1. Follow(wsOut, kinds) /\ EndsAt(wsOut, kinds, <<"data", of>>, a)
    BY <1>1, <1>2, <1>3, <1>9, <1>13 DEF WriterSide, WriterEnds, WsNoSocket
  <2> QED
    BY <1>9, <1>12, <2>1
<1>14. wsWrite = [st |-> "body", of |-> of, total |-> total, done |-> done]
  BY <1>1, <1>3 DEF WriterStands, WriterTypes
<1>15. CASE done + n < total
  <2>1. wsWrite' = [st |-> "body", of |-> of, total |-> total, done |-> done + n]
    <3>1. wsWrite' = [wsWrite EXCEPT !.done = done + n]
      BY <1>3, <1>5, <1>15
    <3> QED
      BY <1>14, <3>1
  <2>2. wsLock' = TRUE /\ wsCall' = wsCall
    BY <1>3, <1>5, <1>15 DEF WsLockWhole
  <2>3. WriterTypes'
    BY <1>6, <1>7, <1>8, <1>12, <2>1, <2>2 DEF WriterStands, WriterTypes
  <2>4. Writing'
    BY <1>2, <1>3, <1>7, <1>8, <1>15, <2>1, <2>2 DEF WriterStands, Writing
  <2>5. \A kinds \in {Written, Kinds} : WriterSide(kinds) => WriterSide(kinds)'
    BY <1>13, <2>1 DEF WriterSide, WriterEnds
  <2> QED
    BY <1>7, <1>12, <2>3, <2>4, <2>5 DEF WriterStands
<1>16. CASE ~(done + n < total)
  <2>1. wsWrite' = [st |-> "idle", of |-> of, total |-> total, done |-> 0]
    <3>1. wsWrite' = [wsWrite EXCEPT !.st = "idle", !.done = 0]
      BY <1>3, <1>5, <1>16
    <3> QED
      BY <1>14, <3>1
  <2>2. wsLock' = FALSE /\ wsCall' = [wsCall EXCEPT !.st = "idle"]
    <3>1. wsLock' = FALSE /\ WsWritten(total)
      BY <1>3, <1>5, <1>16
    <3>2. total = wsCall.size /\ ~(total < wsCall.size)
      BY <1>2, <1>3
    <3> QED
      BY <3>1, <3>2 DEF WsWritten
  <2>3. wsCall' \in [n : Nat, size : Nat, st : {"idle", "poll", "shut", "broken"}] /\ wsCall'.st = "idle"
    BY <2>2 DEF WriterStands, WriterTypes
  <2>4. WriterTypes'
    BY <1>6, <1>7, <1>8, <1>12, <2>1, <2>2, <2>3 DEF WriterStands, WriterTypes
  <2>5. Writing'
    BY <1>7, <1>8, <2>1, <2>2, <2>3 DEF WriterStands, Writing
  <2>6. done + n = total
    BY <1>6, <1>16
  <2>7. \A kinds \in {Written, Kinds} : WriterSide(kinds) => WriterSide(kinds)'
    BY <1>13, <2>1, <2>6 DEF WriterSide, WriterEnds
  <2> QED
    BY <1>7, <1>12, <2>4, <2>5, <2>7 DEF WriterStands
<1> QED
  BY <1>15, <1>16

LEMMA CloseWritten ==
  ASSUME WriterStands, WsShutdown
  PROVE  WriterStands'
<1>1. /\ wsCall.st = "idle" /\ wsCall' = [wsCall EXCEPT !.st = "shut"]
      /\ UNCHANGED <<wsFixed, wsState, wsPong, wsWrite, wsLock, wsFull>>
  BY DEF WsShutdown, wsReader
<1>2. PICK n \in IF wsFull THEN {0} ELSE WsTaken(Len(WsCloseCells)) :
        wsOut' = wsOut \o SubSeq(WsCloseCells, 1, n)
  BY DEF WsShutdown
<1>3. wsWrite.st = "idle" /\ wsOut \in Seq(OutCells)
  BY <1>1 DEF WriterStands, WriterTypes, Writing
<1>4. UNCHANGED <<wsBusy, wsFrames>> /\ (Alone' <=> Alone)
  BY <1>1, SameRoles DEF wsFixed
<1>5. /\ wsCall' \in [n : Nat, size : Nat, st : {"idle", "poll", "shut", "broken"}]
      /\ wsCall'.st = "shut" /\ wsCall'.st \in WsNoSocket
  BY <1>1 DEF WriterStands, WriterTypes, WsNoSocket
<1>6. ASSUME NEW kinds, WriterSide(kinds)
      PROVE  Follow(wsOut, kinds) /\ EndsAt(wsOut, kinds, <<"close", 0>>, 0)
  BY <1>1, <1>3, <1>6, EndsWhole DEF WriterSide, WriterEnds, WsNoSocket
<1>7. Len(WsCloseCells) = 2
  BY DEF WsCloseCells
<1>8. n = 0 \/ n \in 1 .. 2
  BY <1>2, <1>7 DEF WsTaken
<1>9. /\ wsOut' \in Seq(OutCells) /\ OwnBytes(wsOut')
      /\ PongSide' /\ (MidPong' <=> MidPong)
      /\ \A kinds \in {Written, Kinds} : WriterSide(kinds) => Follow(wsOut', kinds)
  <2>1. CASE n = 0
    <3>1. SubSeq(WsCloseCells, 1, 0) = <<>>
      BY DEF WsCloseCells
    <3>2. wsOut' = wsOut
      BY <1>2, <1>3, <2>1, <3>1
    <3>3. PongSide' /\ (MidPong' <=> MidPong)
      BY <1>1, <1>5, <3>2, PongStays
    <3>4. OwnBytes(wsOut')
      BY <3>2 DEF WriterStands
    <3>5. wsOut' \in Seq(OutCells)
      BY <1>3, <3>2
    <3>6. \A kinds \in {Written, Kinds} : WriterSide(kinds) => Follow(wsOut', kinds)
      BY <3>2 DEF WriterSide
    <3> QED
      BY <3>3, <3>4, <3>5, <3>6
  <2>2. CASE n \in 1 .. 2
    <3>1. PICK c : c = SubSeq(WsCloseCells, 1, n)
      OBVIOUS
    <3>2. PICK frame : frame = <<"close", 0>>
      OBVIOUS
    <3>3. PartOf(c, frame, 0, 2)
      BY <2>2, <3>1, <3>2, ClosePart
    <3>4. wsOut' = wsOut \o c /\ frame[1] \in Written
      BY <1>2, <3>1, <3>2 DEF Written
    <3>5. UNCHANGED <<wsState, wsPong>> /\ (wsCall.st \in WsNoSocket => wsCall'.st \in WsNoSocket)
      BY <1>1, <1>5
    <3>6. /\ wsOut' \in Seq(OutCells) /\ OwnBytes(wsOut')
          /\ PongSide' /\ (MidPong' <=> MidPong)
          /\ \A kinds \in {Written, Kinds} :
               Follow(wsOut, kinds) /\ EndsAt(wsOut, kinds, frame, 0) => Follow(wsOut', kinds)
      <4>1. 0 \in Nat
        OBVIOUS
      <4> QED
        BY <3>3, <3>4, <3>5, <4>1, WriterAppends
    <3> QED
      BY <1>6, <3>2, <3>6
  <2> QED
    BY <1>8, <2>1, <2>2
<1>11. WriterTypes'
  BY <1>1, <1>4, <1>5, <1>9 DEF WriterStands, WriterTypes
<1>12. Writing'
  BY <1>1, <1>3, <1>4, <1>5 DEF WriterStands, Writing
<1>13. \A kinds \in {Written, Kinds} : WriterSide(kinds) => WriterSide(kinds)'
  BY <1>5, <1>9 DEF WriterSide
<1> QED
  BY <1>4, <1>9, <1>11, <1>12, <1>13 DEF WriterStands

LEMMA WriteStarts ==
  ASSUME WsInit
  PROVE  WriteInv
<1>1. /\ wsBusy \in BOOLEAN /\ wsFull = FALSE /\ wsLock = FALSE /\ wsOut = <<>> /\ wsDrops = 0
      /\ wsCall = [n |-> 0, size |-> 0, st |-> "idle"]
      /\ wsWrite = [st |-> "idle", of |-> 0, total |-> 0, done |-> 0]
      /\ wsPong = <<>>
  BY DEF WsInit
<1>2. WriterTypes
  BY <1>1, EmptySequence DEF WriterTypes
<1>3. Writing
  BY <1>1 DEF Writing
<1>4. Len(wsOut) = 0 /\ OwnBytes(wsOut) /\ \A kinds : Follow(wsOut, kinds)
  BY <1>1 DEF OwnBytes, Follow
<1>5. \A kinds, f : EndsAt(wsOut, kinds, f, 0)
  BY <1>4 DEF EndsAt, EndsBefore
<1>6. ~MidPong /\ PongSide /\ \A kinds : WriterSide(kinds)
  BY <1>1, <1>4, <1>5 DEF MidPong, PongSide, PongEnds, WriterSide, WriterEnds
<1> QED
  BY <1>1, <1>2, <1>3, <1>4, <1>6 DEF WriteInv, WriterStands

LEMMA WriteGoesOn ==
  ASSUME ReadInv, WriteInv, [WsNext]_wsvars
  PROVE  WriteInv'
<1>1. wsDrops \in Nat
  BY DEF WriteInv
<1>2. CASE WsDropWrite
  BY <1>1, <1>2 DEF WsDropWrite, WriteInv
<1>3. CASE ~WsDropWrite
  <2>1. UNCHANGED wsDrops
    BY <1>3 DEF WsNext, wsvars, wsWriter, WsDrain, WsReadStep, WsShake, WsHeaderRead, WsPayloadRead,
         WsPingRead, WsIgnoredRead, WsEof, WsPongWrite, WsPongWaits, WsPongFails, WsReadErr,
         WsWriteErr, WsWriteStep, WsPollWrite, WsHeadWrite, WsBodyWrite, WsWriteWaits,
         WsCallWrite, WsShutdown
  <2>2. SUFFICES ASSUME WriterStands PROVE WriterStands'
    BY <1>1, <2>1 DEF WriteInv
  <2>3. CASE WsDrain \/ WsPongWaits \/ UNCHANGED wsvars
    <3>1. /\ UNCHANGED <<wsFixed, wsWriter, wsOut, wsState, wsPong>>
          /\ wsFull' \in BOOLEAN /\ (wsFull' => wsFull)
      <4>1. wsFull \in BOOLEAN
        BY <2>2 DEF WriterStands, WriterTypes
      <4>2. CASE WsDrain
        BY <4>2 DEF WsDrain, wsReader
      <4>3. CASE WsPongWaits
        BY <4>1, <4>3 DEF WsPongWaits, WsWait, wsReader
      <4>4. CASE UNCHANGED wsvars
        BY <4>1, <4>4 DEF wsvars, wsSocket, wsReader
      <4> QED
        BY <2>3, <4>2, <4>3, <4>4
    <3> QED
      BY <2>2, <3>1, ReaderBeside
  <2>4. CASE \/ WsShake \/ WsHeaderRead \/ WsPayloadRead \/ WsPingRead \/ WsIgnoredRead
             \/ WsEof \/ WsReadErr \/ WsPongFails
    BY <2>2, <2>4, ReadingBeside
  <2>5. CASE WsPongWrite
    BY <2>2, <2>5, PongWritten
  <2>6. CASE WsCallWrite
    BY <2>2, <2>6, CallWritten
  <2>7. CASE WsPollWrite
    BY <2>2, <2>7, PollBegins
  <2>8. CASE WsWriteWaits \/ WsWriteErr
    BY <2>2, <2>8, PollEnds
  <2>9. CASE WsHeadWrite
    BY <2>2, <2>9, HeadWritten
  <2>10. CASE WsBodyWrite
    BY <2>2, <2>10, BodyWritten
  <2>11. CASE WsShutdown
    BY <2>2, <2>11, CloseWritten
  <2> QED
    BY <1>3, <2>3, <2>4, <2>5, <2>6, <2>7, <2>8, <2>9, <2>10, <2>11 DEF WsNext, WsReadStep, WsWriteStep
<1> QED
  BY <1>2, <1>3

LEMMA WrittenWhole ==
  ASSUME WriteInv
  PROVE  WsHalvesWhole
<1>1. SUFFICES ASSUME wsDrops = 0, NEW i \in DOMAIN wsOut
               PROVE  /\ WsFollowsHalf(i) /\ WsOwnByte(wsOut[i])
                      /\ ~wsBusy \/ WsPings = {} => WsFollows(i)
  BY DEF WsHalvesWhole
<1>2. /\ wsOut \in Seq(OutCells) /\ OwnBytes(wsOut) /\ Follow(wsOut, Pongs)
      /\ Follow(wsOut, Written) /\ (Alone => Follow(wsOut, Kinds))
  BY <1>1 DEF WriteInv, WriterStands, WriterTypes, PongSide, WriterSide
<1>3. /\ Len(wsOut) \in Nat /\ DOMAIN wsOut = 1 .. Len(wsOut)
      /\ \A j \in 1 .. Len(wsOut) : wsOut[j] \in OutCells
  BY <1>2, Elements
<1>4. i \in 1 .. Len(wsOut) /\ i \in Nat /\ wsOut[i].at \in Nat
  BY <1>3 DEF OutCells
<1>5. \A j \in 1 .. Len(wsOut) : wsOut[j].frame[1] \in Kinds
  <2>1. ASSUME NEW j \in 1 .. Len(wsOut) PROVE wsOut[j].frame[1] \in Kinds
    <3>1. wsOut[j].frame \in {"data", "pong", "close"} \X Nat
      BY <1>3 DEF OutCells
    <3> QED
      BY <3>1 DEF Kinds
  <2> QED
    BY <2>1
<1>6. \A j \in 1 .. i - 1 : j \in 1 .. Len(wsOut)
  BY <1>3, <1>4
<1>7. WsOwnByte(wsOut[i])
  BY <1>2, <1>4 DEF OwnBytes
<1>8. PICK kinds \in {Pongs, Written} : wsOut[i].frame[1] \in kinds
  BY <1>4, <1>5 DEF Kinds, Pongs, Written
<1>9. \A j \in 1 .. i - 1 : WsSameHalf(wsOut[j], wsOut[i]) <=> wsOut[j].frame[1] \in kinds
  <2>1. ASSUME NEW j \in 1 .. i - 1
        PROVE  WsSameHalf(wsOut[j], wsOut[i]) <=> wsOut[j].frame[1] \in kinds
    <3>1. wsOut[j].frame[1] \in Kinds
      BY <1>5, <1>6
    <3> QED
      BY <1>8, <3>1 DEF WsSameHalf, Kinds, Pongs, Written
  <2> QED
    BY <2>1
<1>10. EndsBefore(wsOut, kinds, i, wsOut[i].frame, wsOut[i].at - 1)
  BY <1>2, <1>4, <1>8 DEF Follow
<1>11. WsFollowsHalf(i)
  <2>1. CASE wsOut[i].at = 1
    <3>1. ASSUME NEW j \in {l \in 1 .. i - 1 : WsSameHalf(wsOut[l], wsOut[i])},
                 \A k \in {l \in 1 .. i - 1 : WsSameHalf(wsOut[l], wsOut[i])} : k <= j
          PROVE  wsOut[j].at = wsOut[j].of
      <4>1. LastOf(wsOut, kinds, j, i) /\ j \in 1 .. i - 1
        BY <1>9, <3>1 DEF LastOf
      <4>2. wsOut[i].at - 1 = 0
        BY <2>1
      <4> QED
        BY <1>10, <4>1, <4>2 DEF EndsBefore
    <3> QED
      BY <2>1, <3>1 DEF WsFollowsHalf
  <2>2. CASE wsOut[i].at # 1
    <3>1. wsOut[i].at - 1 # 0
      BY <1>4, <2>2
    <3>2. PICK j \in 1 .. i - 1 :
            /\ LastOf(wsOut, kinds, j, i) /\ wsOut[j].frame = wsOut[i].frame
            /\ wsOut[j].at = wsOut[i].at - 1
      BY <1>10, <3>1 DEF EndsBefore
    <3>3. /\ j \in {l \in 1 .. i - 1 : WsSameHalf(wsOut[l], wsOut[i])}
          /\ \A k \in {l \in 1 .. i - 1 : WsSameHalf(wsOut[l], wsOut[i])} : k <= j
      BY <1>9, <3>2 DEF LastOf
    <3> QED
      BY <2>2, <3>2, <3>3 DEF WsFollowsHalf
  <2> QED
    BY <2>1, <2>2
<1>12. ASSUME Alone PROVE WsFollows(i)
  <2>1. EndsBefore(wsOut, Kinds, i, wsOut[i].frame, wsOut[i].at - 1)
    BY <1>2, <1>4, <1>5, <1>12 DEF Follow
  <2>2. ASSUME NEW j \in 1 .. i - 1 PROVE LastOf(wsOut, Kinds, j, i) <=> j = i - 1
    <3>1. /\ i - 1 \in 1 .. i - 1 /\ wsOut[i - 1].frame[1] \in Kinds
          /\ wsOut[j].frame[1] \in Kinds
      BY <1>4, <1>5, <1>6
    <3>2. \A k \in 1 .. i - 1 : k <= i - 1
      BY <1>4
    <3>3. LastOf(wsOut, Kinds, j, i) => j = i - 1
      BY <1>4, <3>1 DEF LastOf
    <3> QED
      BY <3>1, <3>2, <3>3 DEF LastOf
  <2>3. CASE wsOut[i].at = 1
    <3>1. CASE i = 1
      BY <2>3, <3>1 DEF WsFollows
    <3>2. CASE i # 1
      <4>1. i - 1 \in 1 .. i - 1 /\ wsOut[i].at - 1 = 0
        BY <1>4, <2>3, <3>2
      <4>2. wsOut[i - 1].at = wsOut[i - 1].of
        BY <2>1, <2>2, <4>1 DEF EndsBefore
      <4> QED
        BY <2>3, <4>2 DEF WsFollows
    <3> QED
      BY <3>1, <3>2
  <2>4. CASE wsOut[i].at # 1
    <3>1. wsOut[i].at - 1 # 0
      BY <1>4, <2>4
    <3>2. PICK j \in 1 .. i - 1 :
            /\ LastOf(wsOut, Kinds, j, i) /\ wsOut[j].frame = wsOut[i].frame
            /\ wsOut[j].at = wsOut[i].at - 1
      BY <2>1, <3>1 DEF EndsBefore
    <3>3. j = i - 1 /\ i > 1
      BY <1>4, <2>2, <3>2
    <3> QED
      BY <2>4, <3>2, <3>3 DEF WsFollows
  <2> QED
    BY <2>3, <2>4
<1> QED
  BY <1>7, <1>11, <1>12 DEF Alone

\* WsRead and WsWrite each put whole frames on the wire, one after the other and with
\* the bytes of their own buffer or of the ping they answer, and where the socket
\* takes every write whole or the peer sends no pings no frame comes inside another,
\* as long as no caller drops a write.  On a socket that can be full, beside a peer
\* that pings, a pong does come inside a data frame: poll_write of WsWrite gives the
\* mutex back when the socket is full, and SendingPong of WsRead takes it for each
\* part.
THEOREM HalvesWholeHolds == WsSpec => []WsHalvesWhole
<1>1. WsInit => WriteInv
  BY WriteStarts
<1>2. ReadInv /\ WriteInv /\ [WsNext]_wsvars => WriteInv'
  BY WriteGoesOn
<1>3. WriteInv => WsHalvesWhole
  BY WrittenWhole
<1> QED
  BY <1>1, <1>2, <1>3, ReadInvHolds, PTL DEF WsSpec
==============================================================================
