---------------------------- MODULE SinksProofs ----------------------------
(***************************************************************************)
(* That a sink writes the frames of what it accepted, whole, in order and  *)
(* once each, and that nothing is missing when a flush or a close returns  *)
(* Ok: for every sink, every size of frame and any number of items.        *)
(*                                                                         *)
(* The invariant says where an accepted frame is: the accepted frames are  *)
(* those that were written, then the one in frame_buf, then the queue.  So *)
(* the frame a write takes its bytes from is the one after those written.  *)
(***************************************************************************)
EXTENDS Sinks, ProofLemmas

Frame == Int \ {None}

SinkTypeOK ==
  /\ kind \in Kinds
  /\ frameBuf \in Int /\ framePos \in 0 .. FrameSize - 1
  /\ queue \in Seq(Frame) /\ accepted \in Seq(Frame)
  /\ dest \in Seq(Frame \X Nat)
  /\ opened \in BOOLEAN /\ finished \in BOOLEAN
  /\ op \in {"idle", "feed", "send", "flush", "close"}
  /\ items \in Nat /\ faults \in Nat

\* The frames that are written to the end.
Written == Len(accepted) - Len(queue) - (IF frameBuf = None THEN 0 ELSE 1)

\* Written, in frame_buf, queued: the accepted frames in this order.
Placed ==
  /\ Written \in Nat
  /\ Len(dest) = FrameSize * Written + framePos
  /\ frameBuf = None => framePos = 0
  /\ frameBuf # None => frameBuf = accepted[Written + 1]
  /\ \A k \in 1 .. Len(queue) : queue[k] = accepted[Len(accepted) - Len(queue) + k]

\* A Stream sink has no queue, and is closed with nothing in frame_buf.
StreamOK ==
  kind = "stream" => /\ queue = <<>>
                     /\ op = "close" => finished \/ frameBuf = None

\* A call has no result before it returns, and a flush or a close returns when
\* nothing is left to write.
ResultOK ==
  /\ op # "idle" => result = "none"
  /\ result \in {"flushed", "closed"} => Drained

SinkInv == /\ SinkTypeOK /\ StreamOK /\ ResultOK
           /\ faults = 0 => Placed
           /\ WireInOrder

\* The bytes d are those of the first frames of a.
Wire(a, d) ==
  \A i \in DOMAIN d :
    LET f == ((i - 1) \div FrameSize) + 1 IN
      f <= Len(a) /\ d[i] = <<a[f], ((i - 1) % FrameSize) + 1>>

\* The n units of frame f behind its first r.
UnitsOf(f, r, n) == [i \in 1 .. n |-> <<f, r + i>>]

\* What the proofs read and the steps change; the rest is polls and wakers.
data == <<kind, frameBuf, framePos, queue, opened, finished, dest, accepted, items, faults>>

------------------------------------------------------------------------------
(* Units and frames.                                                       *)

\* Frames that are accepted later do not change what has been written.
LEMMA AcceptedLater ==
  ASSUME NEW a \in Seq(Frame), NEW s \in Seq(Frame), NEW d \in Seq(Frame \X Nat), Wire(a, d)
  PROVE  Wire(a \o s, d)
<1>0. FrameSize \in Nat \ {0}
  BY SinksAssumption
<1> SUFFICES ASSUME NEW i \in DOMAIN d
             PROVE  LET f == ((i - 1) \div FrameSize) + 1 IN
                      f <= Len(a \o s) /\ d[i] = <<(a \o s)[f], ((i - 1) % FrameSize) + 1>>
  BY DEF Wire
<1>1. PICK f \in Nat : f = ((i - 1) \div FrameSize) + 1 /\ f >= 1
  <2>1. i - 1 \in Nat
    OBVIOUS
  <2>2. (i - 1) \div FrameSize \in Nat
    BY <2>1, <1>0, QuotientNat
  <2> QED BY <2>2
<1>2. f <= Len(a) /\ d[i] = <<a[f], ((i - 1) % FrameSize) + 1>>
  BY <1>1 DEF Wire
<1>3. (a \o s)[f] = a[f] /\ Len(a \o s) >= Len(a)
  BY <1>1, <1>2
<1> QED BY <1>1, <1>2, <1>3

\* The bytes e are d and n more, a part of frame w + 1 of a behind the first r.
Writes(a, d, w, m, r, n, e) ==
  /\ a \in Seq(Frame) /\ d \in Seq(Frame \X Nat) /\ Wire(a, d)
  /\ w \in Nat /\ w + 1 <= Len(a) /\ m \in Nat /\ m = FrameSize * w
  /\ r \in 0 .. FrameSize - 1 /\ Len(d) = m + r
  /\ n \in 1 .. FrameSize - r
  /\ e = d \o UnitsOf(a[w + 1], r, n)

\* The bytes of the frame that comes next are in their place.
LEMMA UnitsAdded ==
  ASSUME NEW a, NEW d, NEW w, NEW m, NEW r, NEW n, NEW e, Writes(a, d, w, m, r, n, e)
  PROVE  Wire(a, e) /\ e \in Seq(Frame \X Nat) /\ Len(e) = m + r + n
<1> USE DEF Writes
<1>0. FrameSize \in Nat \ {0}
  BY SinksAssumption
<1> DEFINE u == UnitsOf(a[w + 1], r, n)
<1>e. e = d \o u
  OBVIOUS
<1>1. u \in Seq(Frame \X Nat) /\ Len(u) = n
  <2>1. a[w + 1] \in Frame
    OBVIOUS
  <2>2. \A i \in 1 .. n : <<a[w + 1], r + i>> \in Frame \X Nat
    BY <2>1, <1>0
  <2> QED BY <2>2, <1>0 DEF UnitsOf
<1>f. \A k \in 1 .. n : u[k] = <<a[w + 1], r + k>>
  BY DEF UnitsOf
<1> HIDE DEF u
<1>2. e \in Seq(Frame \X Nat) /\ Len(e) = m + r + n
  <2>1. d \o u \in Seq(Frame \X Nat) /\ Len(d \o u) = Len(d) + Len(u)
    BY <1>1, Concatenated
  <2> QED BY <2>1, <1>1, <1>e
<1>3. ASSUME NEW i \in DOMAIN e
      PROVE  LET f == ((i - 1) \div FrameSize) + 1 IN
               f <= Len(a) /\ e[i] = <<a[f], ((i - 1) % FrameSize) + 1>>
  <2>1. CASE i <= Len(d)
    <3>1. i \in DOMAIN d /\ e[i] = d[i]
      BY <2>1, <1>1, <1>2, <1>e
    <3> QED BY <3>1 DEF Wire
  <2>2. CASE i > Len(d)
    <3>1. PICK k \in 1 .. n : i = m + r + k
      <4>1. i \in Nat /\ i <= m + r + n /\ Len(d) = m + r
        BY <1>2, <1>0
      <4>2. i - (m + r) \in 1 .. n
        BY <4>1, <2>2, <1>0
      <4>3. i = m + r + (i - (m + r))
        BY <4>1, <1>0
      <4> QED BY <4>2, <4>3
    <3>2. e[i] = u[k]
      <4>1. i = Len(d) + k /\ Len(d) \in Nat /\ k \in 1 .. Len(u)
        BY <3>1, <1>1
      <4>2. (d \o u)[Len(d) + k] = u[k]
        BY <4>1, <1>1, SecondPart
      <4> QED BY ONLY <4>1, <4>2, <1>e
    <3>3. u[k] = <<a[w + 1], r + k>>
      BY <1>f
    <3>4. i - 1 = FrameSize * w + (r + k - 1) /\ r + k - 1 \in 0 .. FrameSize - 1
      BY <3>1, <1>0
    <3>5. (i - 1) \div FrameSize = w /\ (i - 1) % FrameSize = r + k - 1
      <4>1. PICK z \in 0 .. FrameSize - 1 : z = r + k - 1
        BY <3>4
      <4>2. (FrameSize * w + z) \div FrameSize = w /\ (FrameSize * w + z) % FrameSize = z
        BY <1>0, DivisionOfUnits
      <4> QED BY <4>1, <4>2, <3>4
    <3>6. (r + k - 1) + 1 = r + k
      BY <1>0
    <3>7. e[i] = <<a[w + 1], ((i - 1) % FrameSize) + 1>>
      BY <3>2, <3>3, <3>5, <3>6
    <3>8. PICK f \in Int : f = ((i - 1) \div FrameSize) + 1
      BY <3>5
    <3>9. f = w + 1
      BY <3>5, <3>8
    <3>10. w + 1 <= Len(a)
      OBVIOUS
    <3> HIDE DEF Wire
    <3> QED BY ONLY <3>7, <3>8, <3>9, <3>10
  <2>3. i \in Int /\ Len(d) \in Int
    BY <1>2
  <2>4. i <= Len(d) \/ i > Len(d)
    BY <2>3
  <2> QED BY ONLY <2>1, <2>2, <2>4
<1> QED BY <1>2, <1>3 DEF Wire

------------------------------------------------------------------------------
(* The steps.                                                              *)

LEMMA SinkInvInit == SinkInit => SinkInv
<1> SUFFICES ASSUME SinkInit PROVE SinkInv
  OBVIOUS
<1>0. FrameSize \in Nat \ {0}
  BY SinksAssumption
<1>1. SinkTypeOK
  <2>1. <<>> \in Seq(Frame) /\ <<>> \in Seq(Frame \X Nat)
    BY EmptySequence
  <2>2. frameBuf \in Int /\ framePos \in 0 .. FrameSize - 1 /\ items \in Nat /\ faults \in Nat
    BY <1>0 DEF SinkInit, None
  <2>3. /\ kind \in Kinds /\ opened \in BOOLEAN /\ finished \in BOOLEAN
        /\ op \in {"idle", "feed", "send", "flush", "close"}
    BY DEF SinkInit
  <2>4. queue = <<>> /\ accepted = <<>> /\ dest = <<>>
    BY DEF SinkInit
  <2> QED BY <2>1, <2>2, <2>3, <2>4 DEF SinkTypeOK
<1>1a. StreamOK /\ ResultOK
  BY DEF SinkInit, StreamOK, ResultOK
<1>2. Placed
  BY <1>0 DEF SinkInit, Placed, Written, None
<1>3. WireInOrder
  BY DEF SinkInit, WireInOrder
<1> QED BY <1>1, <1>1a, <1>2, <1>3 DEF SinkInv

\* Steps that move no frame.
LEMMA DataKept ==
  ASSUME SinkInv, UNCHANGED data,
         op' \in {"idle", "feed", "send", "flush", "close"}, StreamOK', ResultOK'
  PROVE  SinkInv'
<1>1. SinkTypeOK'
  BY DEF SinkInv, SinkTypeOK, data
<1>2. (faults = 0 => Placed)'
  BY DEF SinkInv, Placed, Written, data
<1>3. WireInOrder'
  BY DEF SinkInv, WireInOrder, data
<1> QED BY <1>1, <1>2, <1>3 DEF SinkInv

LEMMA CallKeeps ==
  ASSUME ~CloseOverPending \/ "stream" \notin Kinds, SinkInv, SinkCall
  PROVE  SinkInv'
<1> USE DEF SinkInv, SinkCall, data
<1>1. StreamOK'
  BY DEF StreamOK, SinkTypeOK
<1>2. ResultOK'
  BY DEF ResultOK
<1> QED BY <1>1, <1>2, DataKept

\* The caller and the destination, and the polls that find nothing to do.
LEMMA WaitingKeeps ==
  ASSUME SinkInv, Cancel \/ Resume \/ Drain \/ PollFlush \/ AwaitDest
  PROVE  SinkInv'
<1> USE DEF SinkInv, data
<1>1. UNCHANGED data /\ UNCHANGED result /\ op' \in {op, "idle"}
  BY DEF Cancel, Resume, Drain, PollFlush, AwaitDest, Pending, KeepWaker
<1>2. StreamOK'
  BY <1>1 DEF StreamOK
<1>3. ResultOK'
  BY <1>1 DEF ResultOK, Drained
<1> QED BY <1>1, <1>2, <1>3, DataKept DEF SinkTypeOK

\* Frames that go to the end of the queue of a file or TLV sink.
LEMMA Queued ==
  ASSUME SinkTypeOK, Placed, NEW s \in Seq(Frame),
         queue' = queue \o s, accepted' = accepted \o s,
         UNCHANGED <<frameBuf, framePos, dest>>
  PROVE  Placed'
<1> DEFINE a == accepted \o s
           q == queue \o s
<1>1. /\ accepted \in Seq(Frame) /\ queue \in Seq(Frame)
      /\ Len(a) = Len(accepted) + Len(s) /\ Len(q) = Len(queue) + Len(s)
      /\ Len(accepted) \in Nat /\ Len(queue) \in Nat /\ Len(s) \in Nat
  BY DEF SinkTypeOK
<1>2. Written' = Written
  BY <1>1 DEF Written
<1>3. \/ Written + 1 <= Len(accepted) /\ a[Written + 1] = accepted[Written + 1]
      \/ frameBuf = None
  BY <1>1 DEF Placed, Written
<1>4. ASSUME NEW k \in 1 .. Len(q)
      PROVE  q[k] = a[Len(a) - Len(q) + k]
  <2>0. Len(queue) <= Len(accepted)
    BY <1>1 DEF Placed, Written
  <2>1. CASE k <= Len(queue)
    <3>1. q[k] = queue[k] /\ k \in 1 .. Len(queue)
      BY <2>1, <1>1
    <3>2. queue[k] = accepted[Len(accepted) - Len(queue) + k]
      BY <3>1 DEF Placed
    <3>3. Len(accepted) - Len(queue) + k \in 1 .. Len(accepted)
      BY <3>1, <2>0, <1>1
    <3> QED BY <3>1, <3>2, <3>3, <1>1
  <2>2. CASE k > Len(queue)
    <3>1. q[k] = s[k - Len(queue)]
      BY <2>2, <1>1
    <3>2. Len(a) - Len(q) + k = Len(accepted) + (k - Len(queue))
      BY <1>1
    <3>3. a[Len(accepted) + (k - Len(queue))] = s[k - Len(queue)]
      BY <2>2, <1>1
    <3> QED BY <3>1, <3>2, <3>3
  <2>3. k \in Int /\ Len(queue) \in Int
    BY <1>1
  <2> HIDE DEF a, q
  <2> QED BY <2>1, <2>2, <2>3
<1> QED BY <1>1, <1>2, <1>3, <1>4 DEF Placed

\* A frame that takes an empty frame_buf of a sink without a queue.
LEMMA Buffered ==
  ASSUME SinkTypeOK, Placed, NEW f \in Frame,
         queue = <<>>, frameBuf = None,
         frameBuf' = f, framePos' = 0, accepted' = Append(accepted, f),
         UNCHANGED <<queue, dest>>
  PROVE  Placed'
<1>1. accepted \in Seq(Frame) /\ Len(accepted) \in Nat /\ Len(queue) = 0
  BY DEF SinkTypeOK
<1>2. Written = Len(accepted) /\ Written' = Len(accepted)
  BY <1>1 DEF Written, Frame
<1>3. framePos = 0
  BY DEF Placed
<1> QED BY <1>1, <1>2, <1>3 DEF Placed, Frame

\* The wire does not change when frames are accepted.
LEMMA WireKept ==
  ASSUME SinkInv, NEW s \in Seq(Frame), accepted' = accepted \o s, UNCHANGED <<dest, faults>>
  PROVE  WireInOrder'
<1> SUFFICES ASSUME faults = 0 PROVE WireInOrder'
  BY DEF WireInOrder
<1>1. Wire(accepted, dest)
  BY DEF SinkInv, WireInOrder, Wire
<1>2. Wire(accepted \o s, dest)
  BY <1>1, AcceptedLater DEF SinkInv, SinkTypeOK
<1> QED BY <1>2 DEF WireInOrder, Wire

LEMMA FramesAreFrames ==
  ASSUME SinkInv
  PROVE  Frames(items + 1) \in Seq(Frame)
<1>1. items + 1 \in Frame /\ Schema \in Frame
  BY DEF SinkInv, SinkTypeOK, Schema, Frame, None
<1> QED BY <1>1, ShortSequences DEF Frames

LEMMA StartSendKeeps ==
  ASSUME SinkInv, op \in {"feed", "send"}, StartSend,
         kind = "stream" => frameBuf = None
  PROVE  SinkInv'
<1> USE DEF SinkInv
<1>0. FrameSize \in Nat \ {0}
  BY SinksAssumption
<1>1. accepted' = accepted \o Frames(items + 1) /\ UNCHANGED <<dest, faults, kind>>
  BY DEF StartSend
<1>2. WireInOrder'
  BY <1>1, WireKept, FramesAreFrames
<1>3. SinkTypeOK'
  <2>1. items + 1 \in Frame
    BY DEF SinkTypeOK, Frame, None
  <2>2. queue' \in Seq(Frame) /\ accepted' \in Seq(Frame)
    BY FramesAreFrames, Concatenated DEF StartSend, SinkTypeOK
  <2>3. frameBuf' \in Int /\ framePos' \in 0 .. FrameSize - 1 /\ items' \in Nat
    BY <1>0 DEF StartSend, SinkTypeOK
  <2>4. /\ opened' \in BOOLEAN /\ op' \in {"idle", "flush"}
        /\ UNCHANGED <<kind, dest, finished, faults>>
    BY DEF StartSend
  <2> QED BY <2>2, <2>3, <2>4 DEF SinkTypeOK
<1>4. StreamOK'
  BY DEF StreamOK, StartSend
<1>5. ResultOK'
  BY DEF ResultOK, StartSend
<1>6. ASSUME faults = 0 PROVE Placed'
  <2>1. CASE kind = "stream"
    <3>1. Frames(items + 1) = <<items + 1>>
      BY <2>1 DEF Frames
    <3>2. accepted' = Append(accepted, items + 1)
      <4>1. \A x : accepted \o <<x>> = Append(accepted, x)
        BY DEF SinkTypeOK
      <4> QED BY <1>1, <3>1, <4>1
    <3>3. items + 1 \in Frame
      BY DEF SinkTypeOK, Frame, None
    <3> QED BY <2>1, <3>2, <3>3, <1>6, Buffered DEF StreamOK, StartSend
  <2>2. CASE kind # "stream"
    BY <2>2, <1>1, <1>6, FramesAreFrames, Queued DEF StartSend
  <2> QED BY <2>1, <2>2
<1> QED BY <1>1, <1>2, <1>3, <1>4, <1>5, <1>6

LEMMA RefuseKeeps ==
  ASSUME SinkInv, op \in {"feed", "send"}, Refuse
  PROVE  SinkInv'
<1> USE DEF SinkInv
<1>1. PICK s \in {<<>>, <<Schema>>} :
         /\ queue' = queue \o s /\ accepted' = accepted \o s
         /\ kind = "stream" => s = <<>>
  BY DEF Refuse, SinkTypeOK
<1>2. s \in Seq(Frame)
  <2>1. Schema \in Frame
    BY DEF Schema, Frame, None
  <2> QED BY <2>1, <1>1, ShortSequences
<1>3. UNCHANGED <<kind, frameBuf, framePos, finished, dest, faults>>
  BY DEF Refuse
<1>4. WireInOrder'
  BY <1>1, <1>2, <1>3, WireKept
<1>5. SinkTypeOK'
  <2>1. queue' \in Seq(Frame) /\ accepted' \in Seq(Frame)
    BY <1>1, <1>2, Concatenated DEF SinkTypeOK
  <2>2. opened' \in BOOLEAN /\ op' = "idle" /\ items' = items + 1
    BY DEF Refuse, SinkTypeOK
  <2> QED BY <2>1, <2>2, <1>3 DEF SinkTypeOK
<1>6. StreamOK'
  BY <1>1, <1>3 DEF StreamOK, Refuse
<1>7. ResultOK'
  BY DEF ResultOK, Refuse
<1>8. faults = 0 => Placed'
  BY <1>1, <1>2, <1>3, Queued
<1> QED BY <1>3, <1>4, <1>5, <1>6, <1>7, <1>8

LEMMA PollReadyKeeps ==
  ASSUME SinkInv, PollReady
  PROVE  SinkInv'
<1>1. CASE IsReady
  <2>1. op \in {"feed", "send"} /\ (StartSend \/ Refuse)
    BY <1>1 DEF PollReady, Running, Admit
  <2>2. kind = "stream" => frameBuf = None
    BY <1>1 DEF IsReady
  <2> QED BY <2>1, <2>2, StartSendKeeps, RefuseKeeps
<1>2. CASE ~IsReady
  <2>1. UNCHANGED data /\ UNCHANGED <<result, op>>
    BY <1>2 DEF PollReady, data
  <2>2. StreamOK' /\ ResultOK'
    BY <2>1 DEF SinkInv, StreamOK, ResultOK, Drained, data
  <2> QED BY <2>1, <2>2, DataKept DEF SinkInv, SinkTypeOK
<1> QED BY <1>1, <1>2

LEMMA PollCloseKeeps ==
  ASSUME SinkInv, PollClose
  PROVE  SinkInv'
<1> USE DEF SinkInv
<1>0. FrameSize \in Nat \ {0} /\ Eos \in Frame /\ op = "close" /\ op' = "close"
  BY SinksAssumption DEF Eos, Frame, None, PollClose, Running
<1>1. PICK s \in {<<>>, <<Eos>>} : accepted' = accepted \o s
  BY DEF PollClose, SinkTypeOK
<1>2. WireInOrder'
  <2>1. s \in Seq(Frame)
    BY <1>0, <1>1, ShortSequences
  <2> QED BY <1>1, <2>1, WireKept DEF PollClose
<1>3. SinkTypeOK'
  BY <1>0 DEF PollClose, SinkTypeOK, Frame
<1>4. StreamOK'
  BY <1>0 DEF StreamOK, PollClose
<1>5. ResultOK'
  BY <1>0 DEF ResultOK, PollClose
<1>6. ASSUME faults = 0 PROVE Placed'
  <2>1. CASE finished \/ kind = "tlv"
    <3>1. UNCHANGED <<frameBuf, framePos, queue, dest, accepted>>
      BY <2>1 DEF PollClose
    <3> QED BY <3>1, <1>6 DEF Placed, Written
  <2>2. CASE ~finished /\ kind = "stream"
    <3>1. queue = <<>> /\ frameBuf = None
      BY <2>2, <1>0 DEF StreamOK
    <3> QED BY <2>2, <3>1, <1>0, <1>6, Buffered DEF PollClose
  <2>3. CASE ~finished /\ kind = "file"
    <3>1. queue' = queue \o <<Eos>> /\ accepted' = accepted \o <<Eos>>
      BY <2>3 DEF PollClose, SinkTypeOK
    <3>2. UNCHANGED <<frameBuf, framePos, dest>>
      BY <2>3 DEF PollClose
    <3>3. <<Eos>> \in Seq(Frame)
      BY <1>0, ShortSequences
    <3> QED BY <3>1, <3>2, <3>3, <1>6, Queued
  <2>4. kind \in {"stream", "file", "tlv"}
    BY SinksAssumption DEF SinkTypeOK
  <2> QED BY <2>1, <2>2, <2>3, <2>4
<1> QED BY <1>2, <1>3, <1>4, <1>5, <1>6 DEF PollClose

LEMMA NextFrameKeeps ==
  ASSUME SinkInv, NextFrame
  PROVE  SinkInv'
<1> USE DEF SinkInv, NextFrame
<1>0. FrameSize \in Nat \ {0}
  BY SinksAssumption
<1>1. /\ queue \in Seq(Frame) /\ queue # <<>> /\ Len(queue) \in Nat \ {0}
      /\ Head(queue) = queue[1] /\ Head(queue) \in Frame
      /\ Tail(queue) \in Seq(Frame) /\ Len(Tail(queue)) = Len(queue) - 1
      /\ \A k \in 1 .. Len(Tail(queue)) : Tail(queue)[k] = queue[k + 1]
  BY DEF SinkTypeOK
<1>2. SinkTypeOK'
  BY <1>0, <1>1 DEF SinkTypeOK, Frame
<1>3. StreamOK'
  BY <1>1 DEF StreamOK
<1>4. ResultOK'
  BY DEF ResultOK, Flushing
<1>5. WireInOrder'
  BY DEF WireInOrder
<1>6. ASSUME faults = 0 PROVE Placed'
  <2>0. Len(accepted) \in Nat
    BY DEF SinkTypeOK
  <2>1. Written = Len(accepted) - Len(queue) /\ Written' = Written
    BY <1>1, <2>0 DEF Written, Frame
  <2>2. frameBuf' = accepted[Written + 1]
    BY <1>1, <1>6, <2>1 DEF Placed
  <2>3. framePos = 0 /\ framePos' = 0
    BY <1>6 DEF Placed
  <2>4. \A k \in 1 .. Len(queue') : queue'[k] = accepted[Len(accepted) - Len(queue') + k]
    <3> SUFFICES ASSUME NEW k \in 1 .. Len(Tail(queue))
                 PROVE  Tail(queue)[k] = accepted[Len(accepted) - Len(Tail(queue)) + k]
      OBVIOUS
    <3>1. queue[k + 1] = accepted[Len(accepted) - Len(queue) + (k + 1)]
      BY <1>1, <1>6 DEF Placed
    <3>2. Len(accepted) - Len(queue) + (k + 1) = Len(accepted) - Len(Tail(queue)) + k
      BY <1>1, <2>0
    <3> QED BY <1>1, <3>1, <3>2
  <2>5. Written \in Nat /\ Len(dest) = FrameSize * Written + framePos
    BY <1>6 DEF Placed
  <2>6. UNCHANGED <<dest, accepted>>
    OBVIOUS
  <2> QED BY <2>1, <2>2, <2>3, <2>4, <2>5, <2>6, <1>1 DEF Placed, Frame
<1> QED BY <1>2, <1>3, <1>4, <1>5, <1>6

\* A write of n units of the pending frame, before a failure of the destination.
LEMMA UnitsOfFrame ==
  ASSUME SinkInv, faults = 0, frameBuf # None, NEW n \in 1 .. FrameSize - framePos,
         dest' = dest \o Units(n), UNCHANGED accepted
  PROVE  /\ Wire(accepted', dest')
         /\ dest' \in Seq(Frame \X Nat)
         /\ Len(dest') = FrameSize * Written + framePos + n
<1> USE DEF SinkInv
<1>1. Wire(accepted, dest)
  BY DEF WireInOrder, Wire
<1>2. PICK w \in Nat : w = Written
  BY DEF Placed
<1>3. w + 1 <= Len(accepted)
  BY <1>2 DEF Written, SinkTypeOK
<1>4. Units(n) = UnitsOf(accepted[w + 1], framePos, n)
  BY <1>2 DEF Units, UnitsOf, Placed
<1>5. Len(dest) = FrameSize * w + framePos
  BY <1>2 DEF Placed
<1>6. /\ Wire(accepted, dest \o Units(n)) /\ dest \o Units(n) \in Seq(Frame \X Nat)
      /\ Len(dest \o Units(n)) = FrameSize * w + framePos + n
  <2>1. PICK a, d, p : a = accepted /\ d = dest /\ p = framePos
    OBVIOUS
  <2>2. a \in Seq(Frame) /\ d \in Seq(Frame \X Nat) /\ p \in 0 .. FrameSize - 1
    BY <2>1 DEF SinkTypeOK
  <2>3. PICK e : e = d \o UnitsOf(a[w + 1], p, n)
    OBVIOUS
  <2>m. PICK m \in Nat : m = FrameSize * w
    BY SinksAssumption
  <2>4. Wire(a, d) /\ w + 1 <= Len(a) /\ Len(d) = m + p /\ n \in 1 .. FrameSize - p
    BY <2>1, <2>m, <1>1, <1>3, <1>5
  <2>5. Wire(a, e) /\ e \in Seq(Frame \X Nat) /\ Len(e) = m + p + n
    <3>1. Writes(a, d, w, m, p, n, e)
      BY <2>2, <2>3, <2>4, <2>m DEF Writes
    <3> QED BY <3>1, UnitsAdded
  <2>6. e = dest \o Units(n)
    BY <2>1, <2>3, <1>4
  <2> QED BY <2>1, <2>5, <2>6, <2>m
<1> QED BY <1>2, <1>6

\* After a failure of the destination only the types are left to say.
LEMMA UnitsTyped ==
  ASSUME SinkInv, frameBuf # None, NEW n \in Nat, dest' = dest \o Units(n)
  PROVE  dest' \in Seq(Frame \X Nat)
<1>1. \A i \in 1 .. n : <<frameBuf, framePos + i>> \in Frame \X Nat
  BY SinksAssumption DEF SinkInv, SinkTypeOK, Frame
<1>2. Units(n) \in Seq(Frame \X Nat)
  BY <1>1 DEF Units
<1> QED BY <1>2 DEF SinkInv, SinkTypeOK

LEMMA WritePartKeeps ==
  ASSUME SinkInv, WritePart
  PROVE  SinkInv'
<1>0. FrameSize \in Nat \ {0} /\ framePos \in 0 .. FrameSize - 1
  BY SinksAssumption DEF SinkInv, SinkTypeOK
<1>1. PICK n \in Parts : dest' = dest \o Units(n) /\ framePos' = framePos + n
  BY DEF WritePart
<1>2. n \in 1 .. FrameSize - framePos /\ framePos + n \in 0 .. FrameSize - 1
  BY <1>0, <1>1 DEF Parts
<1>3. /\ frameBuf # None /\ op # "idle"
      /\ UNCHANGED <<kind, frameBuf, queue, opened, finished, accepted, items, faults, op, result>>
  BY DEF WritePart, Flushing, Pending
<1>4. dest' \in Seq(Frame \X Nat)
  BY <1>1, <1>2, <1>3, <1>0, UnitsTyped
<1>5. SinkTypeOK'
  BY <1>1, <1>2, <1>3, <1>4 DEF SinkInv, SinkTypeOK
<1>6. StreamOK' /\ ResultOK'
  BY <1>3 DEF SinkInv, StreamOK, ResultOK, Drained
<1>7. ASSUME faults = 0 PROVE Placed' /\ WireInOrder'
  <2>1. /\ Wire(accepted', dest')
        /\ Len(dest') = FrameSize * Written + framePos + n
    BY <1>1, <1>2, <1>3, <1>7, UnitsOfFrame
  <2>2. WireInOrder'
    BY <2>1 DEF WireInOrder, Wire
  <2>3. Written' = Written /\ Written \in Nat
    BY <1>3, <1>7 DEF Written, SinkInv, Placed
  <2>4. Len(dest') = FrameSize * Written' + framePos'
    BY <2>1, <2>3, <1>0, <1>1, <1>2
  <2> QED BY <2>2, <2>3, <2>4, <1>3, <1>7 DEF Placed, SinkInv
<1>8. faults # 0 => WireInOrder'
  BY <1>3 DEF WireInOrder
<1> QED BY <1>3, <1>5, <1>6, <1>7, <1>8 DEF SinkInv

LEMMA WriteRestKeeps ==
  ASSUME SinkInv, WriteRest
  PROVE  SinkInv'
<1>0. FrameSize \in Nat \ {0} /\ framePos \in 0 .. FrameSize - 1
  BY SinksAssumption DEF SinkInv, SinkTypeOK
<1>1. PICK n \in Nat : n = FrameSize - framePos
  BY <1>0
<1>2. n \in 1 .. FrameSize - framePos
  BY <1>0, <1>1
<1>3. /\ frameBuf # None /\ op # "idle" /\ dest' = dest \o Units(n)
      /\ frameBuf' = None /\ framePos' = 0
      /\ UNCHANGED <<kind, queue, opened, finished, accepted, items, faults, op, result>>
  BY <1>1 DEF WriteRest, Flushing
<1>4. dest' \in Seq(Frame \X Nat)
  BY <1>1, <1>3, UnitsTyped
<1>5. SinkTypeOK'
  BY <1>0, <1>3, <1>4 DEF SinkInv, SinkTypeOK, None
<1>6. StreamOK' /\ ResultOK'
  BY <1>3 DEF SinkInv, StreamOK, ResultOK, Drained
<1>7. ASSUME faults = 0 PROVE Placed' /\ WireInOrder'
  <2>1. /\ Wire(accepted', dest')
        /\ Len(dest') = FrameSize * Written + framePos + n
    BY <1>2, <1>3, <1>7, UnitsOfFrame
  <2>2. WireInOrder'
    BY <2>1 DEF WireInOrder, Wire
  <2>3. Written \in Nat
    BY <1>7 DEF SinkInv, Placed
  <2>4. Written' = Written + 1
    BY <1>3 DEF Written, SinkInv, SinkTypeOK
  <2>5. Len(dest') = FrameSize * Written' + framePos'
    <3>1. PICK w \in Nat : w = Written
      BY <2>3
    <3>2. FrameSize * (w + 1) = FrameSize * w + FrameSize
      BY <1>0
    <3>3. FrameSize * w \in Nat
      BY <1>0
    <3> QED BY <3>1, <3>2, <3>3, <2>1, <2>4, <1>0, <1>1, <1>3
  <2> QED BY <2>2, <2>3, <2>4, <2>5, <1>3, <1>7 DEF Placed, SinkInv
<1>8. faults # 0 => WireInOrder'
  BY <1>3 DEF WireInOrder
<1> QED BY <1>3, <1>5, <1>6, <1>7, <1>8 DEF SinkInv

\* A failure ends the call, and what the properties promise.
LEMMA FailureKeeps ==
  ASSUME SinkInv, WriteErr \/ FlushErr
  PROVE  SinkInv'
<1>1. /\ faults' = faults + 1 /\ op' = "idle" /\ result' = "error"
      /\ UNCHANGED <<kind, framePos, queue, opened, finished, dest, accepted, items>>
      /\ frameBuf' \in {frameBuf, None}
  BY DEF WriteErr, FlushErr, Return, KeepWaker
<1>2. faults' # 0
  BY <1>1 DEF SinkInv, SinkTypeOK
<1>3. SinkTypeOK'
  BY <1>1 DEF SinkInv, SinkTypeOK, None
<1>4. StreamOK' /\ ResultOK'
  BY <1>1 DEF SinkInv, StreamOK, ResultOK
<1>5. WireInOrder'
  BY <1>2 DEF WireInOrder
<1> QED BY <1>2, <1>3, <1>4, <1>5 DEF SinkInv

LEMMA FlushedKeeps ==
  ASSUME SinkInv, Flushed
  PROVE  SinkInv'
<1>0. Drained /\ op \in {"feed", "send", "flush", "close"}
  BY DEF Flushed, Flushing, SinkInv, SinkTypeOK
<1>1. CASE op \in {"feed", "send"}
  <2>1. StartSend \/ Refuse
    BY <1>1 DEF Flushed, Admit
  <2> QED BY <1>0, <1>1, <2>1, StartSendKeeps, RefuseKeeps DEF Drained
<1>2. CASE op \in {"flush", "close"}
  <2>1. UNCHANGED data /\ op' = "idle"
    BY <1>2 DEF Flushed, Return, KeepWaker, data
  <2>2. StreamOK' /\ ResultOK'
    BY <1>0, <2>1 DEF SinkInv, StreamOK, ResultOK, Drained, data
  <2> QED BY <2>1, <2>2, DataKept
<1> QED BY <1>0, <1>1, <1>2

LEMMA SinkInvStep ==
  ASSUME ~CloseOverPending \/ "stream" \notin Kinds, SinkInv, [SinkNext]_sinkvars
  PROVE  SinkInv'
<1>1. CASE UNCHANGED sinkvars
  <2>1. UNCHANGED data /\ UNCHANGED <<op, result>>
    BY <1>1 DEF sinkvars, data
  <2>2. StreamOK' /\ ResultOK'
    BY <2>1 DEF SinkInv, StreamOK, ResultOK, Drained, data
  <2> QED BY <2>1, <2>2, DataKept DEF SinkInv, SinkTypeOK
<1>2. CASE SinkNext
  BY <1>2, CallKeeps, WaitingKeeps, PollReadyKeeps, PollCloseKeeps, NextFrameKeeps, WritePartKeeps,
     WriteRestKeeps, FailureKeeps, FlushedKeeps DEF SinkNext, SinkPoll
<1> QED BY <1>1, <1>2

LEMMA SinkInvHolds ==
  ASSUME ~CloseOverPending \/ "stream" \notin Kinds
  PROVE  SinkSpec => []SinkInv
<1>1. SinkInv /\ [SinkNext]_sinkvars => SinkInv'
  BY SinkInvStep
<1> QED BY SinkInvInit, <1>1, PTL DEF SinkSpec

------------------------------------------------------------------------------
\* Until the destination fails it holds a beginning of the frames of the
\* accepted items, whole, in order and once each, for every sink, frame size
\* and number of items, however writes are cut and whichever futures are
\* dropped; provided that no Stream sink is closed on a pending frame, which
\* poll_close would discard.
THEOREM WireInOrderHolds ==
  ASSUME ~CloseOverPending \/ "stream" \notin Kinds
  PROVE  SinkSpec => []WireInOrder
<1>1. SinkInv => WireInOrder
  BY DEF SinkInv
<1> QED BY <1>1, SinkInvHolds, PTL

\* Under the same condition, when a flush or a close has returned Ok, every
\* frame accepted so far is on the wire to its last unit.
THEOREM OkIsCompleteHolds ==
  ASSUME ~CloseOverPending \/ "stream" \notin Kinds
  PROVE  SinkSpec => []OkIsComplete
<1>1. SinkInv => OkIsComplete
  <2> SUFFICES ASSUME SinkInv, faults = 0, result \in {"flushed", "closed"}
               PROVE  Len(dest) = FrameSize * Len(accepted)
    BY DEF OkIsComplete
  <2>1. frameBuf = None /\ queue = <<>>
    BY DEF SinkInv, ResultOK, Drained
  <2>2. Written = Len(accepted) /\ framePos = 0 /\ Len(dest) = FrameSize * Written + framePos
    BY <2>1 DEF SinkInv, SinkTypeOK, Placed, Written
  <2>3. FrameSize * Len(accepted) \in Nat
    BY SinksAssumption DEF SinkInv, SinkTypeOK
  <2> QED BY <2>2, <2>3
<1> QED BY <1>1, SinkInvHolds, PTL
=============================================================================
