------------------------- MODULE ParallelTablesProofs -------------------------
(***************************************************************************)
(* That a parallel reader collects the tables in the promised order, and   *)
(* holds them all when it returns Ok: for every transport, any number of   *)
(* streams, tables, losses and dropped write_table calls, and any depth of *)
(* the channels.                                                           *)
(*                                                                         *)
(* sent[c] are the tables that were handed to the task of stream c, in     *)
(* order: all that were dealt to it but those whose write_table was        *)
(* dropped, until the stream is cut.  The invariant follows them along the *)
(* stream: the first got[c] are collected, those up to read[c] were read   *)
(* off the wire and wait in the slot of the stream, then come those on the *)
(* wire, the one in the hands of the writer task, and those in its         *)
(* channel, with no gap up to the last - as long as the stream is not cut. *)
(* A cut stream keeps a beginning of them, and the error behind it keeps   *)
(* its reader from returning Ok.                                           *)
(***************************************************************************)
EXTENDS ParallelTables, ProofLemmas

PtTypeOK ==
  /\ ptKind \in PtKinds /\ ptSort \in PtSorts
  /\ ptNext \in Nat /\ ptPending \in {0, ptNext} /\ ptAbandoned \in SUBSET Nat
  /\ ptSenders \in [PtC -> Seq(Nat)] /\ ptWork \in [PtC -> Nat]
  /\ ptTask \in [PtC -> {"run", "ok", "failed"}]
  /\ ptFinish \in {"open", "finishing", "ok", "err"}
  /\ ptNet \in [PtC -> Seq(Nat)] /\ ptEnd \in [PtC -> {"open", "eos", "cut"}]
  /\ ptSlots \in Seq(PtC)
  /\ ptHeld \in [PtC -> Int] /\ ptRead \in [PtC -> {"run", "done"}]
  /\ ptStreams \in [PtC -> Seq(Int)]
  /\ ptCursor \in Nat /\ ptOut \in Seq(Int)
  /\ ptResult \in {"none", "ok", "err"}

\* The tables that were handed over to the writer tasks, failed or were dropped.
Handed == IF ptPending = 0 THEN ptNext ELSE ptNext - 1

\* q are tables of stream c, ascending, and none is left out below the last.
SentTo(c, q) ==
  /\ \A i \in 1 .. Len(q) : q[i] \in 1 .. Handed /\ PtRoute(q[i]) = c /\ q[i] \notin ptAbandoned
  /\ \A i, j \in 1 .. Len(q) : i < j => q[i] < q[j]
  /\ \A j \in 1 .. Len(q) : \A t \in 1 .. q[j] :
       PtRoute(t) = c /\ t \notin ptAbandoned => \E i \in 1 .. j : q[i] = t

\* q are all tables of stream c.
WholeSent(c, q) ==
  \A t \in 1 .. Handed :
    PtRoute(t) = c /\ t \notin ptAbandoned => \E i \in 1 .. Len(q) : q[i] = t

\* s holds tables of q, those behind the first n.
TablesFrom(s, q, n) == \A i \in 1 .. Len(s) : n + i <= Len(q) /\ s[i] = q[n + i]

\* The writer task of a stream that is not cut, of whose tables n are written.
Writing(c, q, n) ==
  LET m == IF ptWork[c] = 0 THEN n ELSE n + 1 IN
    /\ ptWork[c] # 0 => n < Len(q) /\ ptWork[c] = q[n + 1]
    /\ TablesFrom(ptSenders[c], q, m) /\ m + Len(ptSenders[c]) = Len(q)
    /\ WholeSent(c, q)
    /\ ptTask[c] # "failed"
    /\ ptEnd[c] = "eos" =>
         ptWork[c] = 0 /\ ptSenders[c] = <<>> /\ ptFinish # "open" /\ ptPending = 0

\* A stream of whose tables n were read.
Carrying(c, q, n) ==
  /\ TablesFrom(ptNet[c], q, n) /\ n + Len(ptNet[c]) <= Len(q)
  /\ SentTo(c, q)
  /\ ptEnd[c] # "cut" => Writing(c, q, n + Len(ptNet[c]))

\* Slot s, with the tables a + 1 .. b of stream c, in each state of its task.
Idle(s, q, a, b) ==
  /\ ptRead[s] = "run" /\ ptHeld[s] = 0
  /\ TablesFrom(ptStreams[s], q, a) /\ b = a + Len(ptStreams[s])

Holding(s, q, a, b) ==
  /\ ptRead[s] = "run" /\ ptHeld[s] = q[b]
  /\ TablesFrom(ptStreams[s], q, a) /\ b = a + Len(ptStreams[s]) + 1

Failing(s, q, a, b) ==
  /\ ptRead[s] = "run" /\ ptHeld[s] = PtCut
  /\ TablesFrom(ptStreams[s], q, a) /\ b = a + Len(ptStreams[s])

Broken(s, q, a, b) ==
  /\ ptRead[s] = "done" /\ ptHeld[s] = 0
  /\ ptStreams[s] # <<>> /\ b = a + Len(ptStreams[s]) - 1
  /\ \A i \in 1 .. Len(ptStreams[s]) :
       ptStreams[s][i] = IF i = Len(ptStreams[s]) THEN PtCut ELSE q[a + i]

Ended(s, c, q, a, b) ==
  /\ ptRead[s] = "done" /\ ptHeld[s] = 0
  /\ TablesFrom(ptStreams[s], q, a) /\ b = a + Len(ptStreams[s])
  /\ ptFinish # "open" /\ ptPending = 0 /\ b = Len(q) /\ WholeSent(c, q)

Slot(s, c, q, a, b) ==
  Idle(s, q, a, b) \/ Holding(s, q, a, b) \/ Failing(s, q, a, b)
    \/ Broken(s, q, a, b) \/ Ended(s, c, q, a, b)

\* The reader, of each stream of which got[c] tables are collected.
Reading(got, read, sent) ==
  /\ Len(ptSlots) <= PtN
  /\ \A i \in 1 .. Len(ptSlots) :
       Slot(i - 1, ptSlots[i], sent[ptSlots[i]], got[ptSlots[i]], read[ptSlots[i]])
  /\ \A s \in PtC : s >= Len(ptSlots) =>
       ptRead[s] = "run" /\ ptHeld[s] = 0 /\ ptStreams[s] = <<>>
  /\ \A c \in PtC \ PtAccepted : got[c] = read[c]
  /\ \A i, j \in 1 .. Len(ptSlots) : ptSlots[i] = ptSlots[j] => i = j
  /\ ptKind # "tcp" \/ PtAcceptInOrder => \A i \in 1 .. Len(ptSlots) : ptSlots[i] = i - 1

\* What is collected are the first got[c] tables of each stream.
Collected(got, sent) ==
  /\ \A i \in 1 .. Len(ptOut) : \E c \in PtC : \E n \in 1 .. got[c] : ptOut[i] = sent[c][n]
  /\ \A c \in PtC : \A n \in 1 .. got[c] : \E i \in 1 .. Len(ptOut) : ptOut[i] = sent[c][n]

Flows(got, read, sent) ==
  /\ got \in [PtC -> Nat] /\ read \in [PtC -> Nat] /\ sent \in [PtC -> Seq(Nat)]
  /\ \A c \in PtC : Carrying(c, sent[c], read[c])
  /\ \A c \in PtC : got[c] <= read[c]
  /\ Reading(got, read, sent) /\ Collected(got, sent)
  /\ ptSort = "Ordered" => ptCursor = Len(ptOut)

Flowing == \E got, read \in [PtC -> Nat], sent \in [PtC -> Seq(Nat)] : Flows(got, read, sent)

PtInv ==
  /\ PtTypeOK
  /\ PtStreamOrder /\ PtInOrder
  /\ \A i \in DOMAIN ptOut : ptOut[i] <= Handed
  /\ \A t \in ptAbandoned : t <= Handed
  /\ ptFinish # "open" => ptPending = 0
  /\ \A c \in PtC : ptTask[c] = "failed" => ptEnd[c] = "cut"
  /\ ptResult = "none" => Flowing
  /\ ptResult = "ok" => ptFinish # "open" /\ PtOkIsComplete

------------------------------------------------------------------------------
(* The tables of a stream.                                                 *)

LEMMA StreamCount == PtN \in Nat \ {0} /\ PtC = 0 .. PtN - 1
BY PtAssumption DEF PtC

LEMMA TableAppended ==
  ASSUME NEW S, NEW s \in Seq(S), NEW q, NEW n \in Nat, TablesFrom(s, q, n),
         q[n + Len(s) + 1] \in S, n + Len(s) + 1 <= Len(q)
  PROVE  LET t == Append(s, q[n + Len(s) + 1]) IN
           t \in Seq(S) /\ Len(t) = Len(s) + 1 /\ TablesFrom(t, q, n)
<1>0. PICK x \in S : x = q[n + Len(s) + 1]
  OBVIOUS
<1> DEFINE t == Append(s, x)
<1>1. /\ t \in Seq(S) /\ Len(t) = Len(s) + 1 /\ t[Len(s) + 1] = x
      /\ \A i \in 1 .. Len(s) : t[i] = s[i]
  OBVIOUS
<1> HIDE DEF t
<1>2. ASSUME NEW i \in 1 .. Len(t) PROVE n + i <= Len(q) /\ t[i] = q[n + i]
  <2>1. CASE i = Len(s) + 1
    <3>1. n + i = n + Len(s) + 1
      BY <2>1
    <3> QED
      BY <1>0, <1>1, <2>1, <3>1
  <2>2. CASE i \in 1 .. Len(s)
    BY <1>1, <2>2 DEF TablesFrom
  <2> QED
    BY <1>1, <2>1, <2>2
<1> QED
  BY <1>0, <1>1, <1>2 DEF TablesFrom, t

LEMMA FirstTableOf ==
  ASSUME NEW S, NEW s \in Seq(S), s # <<>>, NEW q, NEW n \in Nat, TablesFrom(s, q, n)
  PROVE  /\ Head(s) \in S /\ Head(s) = q[n + 1] /\ n + 1 <= Len(q)
         /\ Tail(s) \in Seq(S) /\ Len(Tail(s)) = Len(s) - 1 /\ Len(s) \in Nat \ {0}
         /\ TablesFrom(Tail(s), q, n + 1)
<1>1. /\ Head(s) = s[1] /\ 1 \in 1 .. Len(s) /\ Tail(s) \in Seq(S) /\ Head(s) \in S
      /\ Len(Tail(s)) = Len(s) - 1 /\ Len(s) \in Nat \ {0}
      /\ \A i \in 1 .. Len(Tail(s)) : Tail(s)[i] = s[i + 1] /\ i + 1 \in 1 .. Len(s)
  OBVIOUS
<1>2. Head(s) = q[n + 1] /\ n + 1 <= Len(q)
  BY <1>1 DEF TablesFrom
<1>3. ASSUME NEW i \in 1 .. Len(Tail(s))
      PROVE  n + 1 + i <= Len(q) /\ Tail(s)[i] = q[n + 1 + i]
  <2>1. n + (i + 1) <= Len(q) /\ s[i + 1] = q[n + (i + 1)]
    BY <1>1 DEF TablesFrom
  <2>2. n + (i + 1) = n + 1 + i
    BY <1>1
  <2> QED
    BY <1>1, <2>1, <2>2
<1> QED
  BY <1>1, <1>2, <1>3 DEF TablesFrom

LEMMA NoTables == ASSUME NEW q, NEW n PROVE TablesFrom(<<>>, q, n) /\ Len(<<>>) = 0
BY DEF TablesFrom

\* What was sent keeps its numbers when another table is.
LEMMA LongerSent ==
  ASSUME NEW q \in Seq(Nat), NEW x \in Nat
  PROVE  /\ Append(q, x) \in Seq(Nat) /\ Len(Append(q, x)) = Len(q) + 1 /\ Len(q) \in Nat
         /\ Append(q, x)[Len(q) + 1] = x
         /\ \A i \in 1 .. Len(q) : Append(q, x)[i] = q[i]
         /\ \A S : \A s \in Seq(S) : \A n \in Nat :
              TablesFrom(s, q, n) => TablesFrom(s, Append(q, x), n)
<1> DEFINE u == Append(q, x)
<1>1. /\ u \in Seq(Nat) /\ Len(u) = Len(q) + 1 /\ Len(q) \in Nat
      /\ u[Len(q) + 1] = x /\ \A i \in 1 .. Len(q) : u[i] = q[i]
  OBVIOUS
<1> HIDE DEF u
<1>2. ASSUME NEW S, NEW s \in Seq(S), NEW n \in Nat, TablesFrom(s, q, n)
      PROVE  TablesFrom(s, u, n)
  <2>1. ASSUME NEW i \in 1 .. Len(s) PROVE n + i <= Len(u) /\ s[i] = u[n + i]
    <3>1. n + i <= Len(q) /\ s[i] = q[n + i] /\ n + i \in Nat \ {0}
      BY <1>2 DEF TablesFrom
    <3> QED
      BY <1>1, <3>1
  <2> QED
    BY <2>1 DEF TablesFrom
<1> QED
  BY <1>1, <1>2 DEF u

------------------------------------------------------------------------------
(* Types.                                                                  *)

LEMMA RouteType == ASSUME NEW t \in Nat PROVE PtRoute(t) \in PtC
BY StreamCount DEF PtRoute

LEMMA SeqFacts ==
  ASSUME NEW S, NEW s \in Seq(S)
  PROVE  /\ \A x \in S : Append(s, x) \in Seq(S)
         /\ s # <<>> => Tail(s) \in Seq(S) /\ Head(s) \in S
         /\ <<>> \in Seq(S)
         /\ \A i \in 1 .. Len(s) : s[i] \in S
OBVIOUS

LEMMA PtTypeInit == PtInit => PtTypeOK
<1>1. <<>> \in Seq(Nat) /\ <<>> \in Seq(Int) /\ <<>> \in Seq(PtC)
  BY EmptySequence
<1> QED
  BY <1>1 DEF PtInit, PtTypeOK

LEMMA PtTypeStep ==
  ASSUME PtTypeOK, PtNext
  PROVE  PtTypeOK'
<1> USE DEF PtTypeOK
<1>0. PtN \in Nat \ {0} /\ PtC = 0 .. PtN - 1
  BY StreamCount
<1>1. CASE PtWriteTable
  BY <1>1 DEF PtWriteTable, ptFixed, ptWire, ptTasks, ptMerge
<1>2. CASE PtQueued
  <2>1. ptPending \in Nat
    OBVIOUS
  <2>2. PICK c \in PtC : c = PtRoute(ptPending)
    BY <2>1, RouteType
  <2>3. Append(ptSenders[c], ptPending) \in Seq(Nat)
    BY <2>1, SeqFacts
  <2>4. ptSenders' \in [PtC -> Seq(Nat)]
    BY <1>2, <2>2, <2>3 DEF PtQueued
  <2> QED
    BY <1>2, <2>4 DEF PtQueued, ptFixed, ptWire, ptTasks, ptMerge
<1>20. CASE PtAbandon
  BY <1>20 DEF PtAbandon, ptFixed, ptWire, ptTasks, ptMerge
<1>3. CASE PtFinishCall
  BY <1>3 DEF PtFinishCall, ptFixed, ptWire, ptTasks, ptMerge
<1>4. CASE PtFinished
  BY <1>4 DEF PtFinished, ptFixed, ptWire, ptTasks, ptMerge
<1>5. ASSUME NEW lost, lost \subseteq PtC, PtLost(lost), ptLink' \in {ptLink, "lost"}
      PROVE  PtTypeOK'
  <2>1. ptNet' \in [PtC -> Seq(Nat)]
    <3>1. <<>> \in Seq(Nat)
      BY EmptySequence
    <3> QED
      BY <1>5, <3>1 DEF PtLost
  <2>2. ptEnd' \in [PtC -> {"open", "eos", "cut"}]
    BY <1>5 DEF PtLost
  <2> QED
    BY <1>5, <2>1, <2>2 DEF PtLost, ptFixed, ptWriter, ptTasks, ptMerge
<1>6. CASE PtStreamLost
  BY <1>5, <1>6 DEF PtStreamLost
<1>7. CASE PtConnectionLost
  BY <1>5, <1>7 DEF PtConnectionLost
<1>8. CASE PtAccept
  <2>1. PICK c \in PtC : ptSlots' = Append(ptSlots, c)
    BY <1>8 DEF PtAccept, PtAcceptable
  <2> QED
    BY <1>8, <2>1 DEF PtAccept, ptFixed, ptWriter, ptWire, ptTasks, ptMerge
<1>9. CASE PtAcceptFails
  <2>1. ptStreams' \in [PtC -> Seq(Int)]
    BY <1>9, EmptySequence DEF PtAcceptFails
  <2> QED
    BY <1>9, <2>1 DEF PtAcceptFails, ptFixed, ptWriter
<1>21. CASE PtListenerClosed
  <2>1. ptNet' \in [PtC -> Seq(Nat)] /\ ptEnd' \in [PtC -> {"open", "eos", "cut"}]
    BY <1>21, EmptySequence DEF PtListenerClosed
  <2> QED
    BY <1>21, <2>1 DEF PtListenerClosed, ptFixed, ptWriter, ptTasks, ptMerge
<1>10. ASSUME NEW s \in PtC, PtTake(s)
       PROVE  /\ ptStreams' \in [PtC -> Seq(Int)] /\ ptOut' \in Seq(Int)
              /\ ptResult' \in {"none", "ok", "err"}
  <2>1. Tail(ptStreams[s]) \in Seq(Int) /\ Head(ptStreams[s]) \in Int
    BY <1>10, SeqFacts DEF PtTake
  <2>2. Append(ptOut, Head(ptStreams[s])) \in Seq(Int)
    BY <2>1, SeqFacts
  <2> QED
    BY <1>10, <2>1, <2>2 DEF PtTake
<1>11. CASE PtPollOrdered
  <2>1. ptCursor % PtN \in PtC
    BY <1>0
  <2>2. /\ ptStreams' \in [PtC -> Seq(Int)] /\ ptOut' \in Seq(Int)
        /\ ptResult' \in {"none", "ok", "err"} /\ ptCursor' \in Nat
    BY <1>10, <1>11, <2>1 DEF PtPollOrdered
  <2> QED
    BY <1>11, <2>2 DEF PtPollOrdered, ptFixed, ptWriter, ptWire
<1>12. CASE PtPollArrival
  <2>1. /\ ptStreams' \in [PtC -> Seq(Int)] /\ ptOut' \in Seq(Int)
        /\ ptResult' \in {"none", "ok", "err"} /\ ptCursor' \in Nat
    <3>1. CASE \E o \in 0 .. PtN - 1 :
                 LET s == (ptCursor + o) % PtN IN PtTake(s) /\ ptCursor' = (s + 1) % PtN
      <4>1. PICK o \in 0 .. PtN - 1 :
              LET s == (ptCursor + o) % PtN IN PtTake(s) /\ ptCursor' = (s + 1) % PtN
        BY <3>1
      <4>2. PICK s \in PtC : PtTake(s) /\ ptCursor' = (s + 1) % PtN
        BY <1>0, <4>1
      <4>3. ptCursor' \in Nat
        BY <1>0, <4>2
      <4> QED
        BY <1>10, <4>2, <4>3
    <3>2. CASE ptResult' = "ok" /\ UNCHANGED <<ptStreams, ptCursor, ptOut>>
      BY <3>2
    <3> QED
      BY <1>12, <3>1, <3>2 DEF PtPollArrival
  <2> QED
    BY <1>12, <2>1 DEF PtPollArrival, ptFixed, ptWriter, ptWire
<1>13. CASE PtReaderDropped
  <2>1. ptNet' \in [PtC -> Seq(Nat)]
    BY <1>13, EmptySequence DEF PtReaderDropped
  <2> QED
    BY <1>13, <2>1 DEF PtReaderDropped, ptFixed, ptWriter, ptMerge
<1>14. ASSUME NEW c \in PtC, PtTaskTakes(c) PROVE PtTypeOK'
  <2>1. Tail(ptSenders[c]) \in Seq(Nat) /\ Head(ptSenders[c]) \in Nat
    BY <1>14, SeqFacts DEF PtTaskTakes
  <2>2. ptSenders' \in [PtC -> Seq(Nat)] /\ ptWork' \in [PtC -> Nat]
    BY <1>14, <2>1 DEF PtTaskTakes
  <2> QED
    BY <1>14, <2>2 DEF PtTaskTakes, ptFixed, ptWire, ptTasks, ptMerge
<1>15. ASSUME NEW c \in PtC, PtTaskWrites(c) PROVE PtTypeOK'
  <2>1. Append(ptNet[c], ptWork[c]) \in Seq(Nat)
    BY SeqFacts
  <2>2. ptNet' \in [PtC -> Seq(Nat)] /\ ptWork' \in [PtC -> Nat]
    BY <1>15, <2>1 DEF PtTaskWrites
  <2> QED
    BY <1>15, <2>2 DEF PtTaskWrites, ptFixed, ptTasks, ptMerge
<1>16. ASSUME NEW c \in PtC, PtTaskFinishes(c) PROVE PtTypeOK'
  BY <1>16 DEF PtTaskFinishes, ptFixed, ptTasks, ptMerge
<1>17. ASSUME NEW c \in PtC, PtTaskFails(c) PROVE PtTypeOK'
  <2>1. ptSenders' \in [PtC -> Seq(Nat)] /\ ptWork' \in [PtC -> Nat]
    BY <1>17, EmptySequence DEF PtTaskFails
  <2> QED
    BY <1>17, <2>1 DEF PtTaskFails, ptFixed, ptWire, ptTasks, ptMerge
<1>18. ASSUME NEW s \in PtC, PtTaskReads(s) PROVE PtTypeOK'
  <2>1. s < Len(ptSlots)
    BY <1>18 DEF PtTaskReads
  <2>2. s + 1 \in 1 .. Len(ptSlots)
    BY <1>0, <2>1
  <2>3. PICK c \in PtC : c = ptSlots[s + 1]
    BY <2>2, SeqFacts
  <2>4. /\ ptNet' \in [PtC -> Seq(Nat)]
        /\ ptHeld' \in [PtC -> Int] /\ ptRead' \in [PtC -> {"run", "done"}]
    <3>1. CASE /\ ptNet[c] # <<>>
               /\ ptHeld' = [ptHeld EXCEPT ![s] = Head(ptNet[c])]
               /\ ptNet' = [ptNet EXCEPT ![c] = Tail(@)]
               /\ UNCHANGED ptRead
      <4>1. Tail(ptNet[c]) \in Seq(Nat) /\ Head(ptNet[c]) \in Int
        BY <3>1, SeqFacts
      <4> QED
        BY <3>1, <4>1
    <3>2. CASE /\ ptHeld' = IF PtMarkerMissing(c) THEN [ptHeld EXCEPT ![s] = PtCut] ELSE ptHeld
               /\ ptRead' = IF PtMarkerMissing(c) THEN ptRead ELSE [ptRead EXCEPT ![s] = "done"]
               /\ UNCHANGED ptNet
      BY <3>2 DEF PtCut
    <3> QED
      BY <1>18, <2>3, <3>1, <3>2 DEF PtTaskReads
  <2> QED
    BY <1>18, <2>4 DEF PtTaskReads, ptFixed, ptWriter, ptMerge
<1>19. ASSUME NEW s \in PtC, PtTaskSends(s) PROVE PtTypeOK'
  <2>1. Append(ptStreams[s], ptHeld[s]) \in Seq(Int)
    BY SeqFacts
  <2>2. /\ ptStreams' \in [PtC -> Seq(Int)] /\ ptHeld' \in [PtC -> Int]
        /\ ptRead' \in [PtC -> {"run", "done"}]
    BY <1>19, <2>1 DEF PtTaskSends
  <2> QED
    BY <1>19, <2>2 DEF PtTaskSends, ptFixed, ptWriter, ptWire, ptMerge
<1>22. ASSUME NEW s \in PtC, PtTaskStops(s) PROVE PtTypeOK'
  <2>0. PICK c : c = ptSlots[s + 1]
    OBVIOUS
  <2>1. /\ ptNet' = [ptNet EXCEPT ![c] = <<>>] /\ ptEnd' = [ptEnd EXCEPT ![c] = "cut"]
        /\ ptHeld' = [ptHeld EXCEPT ![s] = 0] /\ ptRead' = [ptRead EXCEPT ![s] = "done"]
    BY <1>22, <2>0 DEF PtTaskStops
  <2>2. ptNet' \in [PtC -> Seq(Nat)]
    BY <2>1, EmptySequence
  <2>3. ptEnd' \in [PtC -> {"open", "eos", "cut"}]
    BY <2>1
  <2>4. ptHeld' \in [PtC -> Int] /\ ptRead' \in [PtC -> {"run", "done"}]
    BY <2>1
  <2> QED
    BY <1>22, <2>2, <2>3, <2>4 DEF PtTaskStops, ptFixed, ptWriter, ptMerge
<1> QED
  BY <1>20, <1>21, <1>22, <1>1, <1>2, <1>3, <1>4, <1>6, <1>7, <1>8, <1>9, <1>11, <1>12, <1>13, <1>14, <1>15, <1>16,
     <1>17, <1>18, <1>19
  DEF PtNext, PtPoll, PtWriterTask, PtReaderTask

------------------------------------------------------------------------------
(* What was sent, as more is.                                              *)

LEMMA HandedType == PtTypeOK => Handed \in Nat
BY DEF PtTypeOK, Handed

\* A step that hands tables over, or drops calls, does so in order.
HandedOn ==
  /\ Handed <= Handed' /\ ptAbandoned \subseteq ptAbandoned'
  /\ \A t \in ptAbandoned' \ ptAbandoned : t > Handed

LEMMA SentKept ==
  ASSUME PtTypeOK, PtTypeOK', HandedOn, NEW c, NEW q \in Seq(Nat), SentTo(c, q)
  PROVE  SentTo(c, q)'
<1>1. Handed \in Nat /\ Handed' \in Nat /\ Handed <= Handed'
  <2>1. Handed \in Nat
    BY HandedType
  <2>2. Handed' \in Nat
    <3>1. PICK n \in Nat : n = ptNext'
      BY DEF PtTypeOK
    <3>2. PICK p \in {0, n} : p = ptPending'
      BY <3>1 DEF PtTypeOK
    <3>3. Handed' = IF p = 0 THEN n ELSE n - 1
      BY <3>1, <3>2 DEF Handed
    <3> QED
      BY <3>2, <3>3
  <2> QED
    BY <2>1, <2>2 DEF HandedOn
<1>2. ASSUME NEW i \in 1 .. Len(q)
      PROVE  q[i] \in 1 .. Handed' /\ PtRoute(q[i]) = c /\ q[i] \notin ptAbandoned'
  <2>1. q[i] \in 1 .. Handed /\ PtRoute(q[i]) = c /\ q[i] \notin ptAbandoned
    BY DEF SentTo
  <2>2. q[i] \in Nat /\ q[i] <= Handed /\ 1 <= q[i]
    BY <1>1, <2>1
  <2>3. ASSUME q[i] \in ptAbandoned' PROVE FALSE
    <3>1. q[i] > Handed
      BY <2>1, <2>3 DEF HandedOn
    <3> QED
      BY <1>1, <2>2, <3>1
  <2> QED
    BY <1>1, <2>1, <2>2, <2>3
<1>3. \A i, j \in 1 .. Len(q) : i < j => q[i] < q[j]
  BY DEF SentTo
<1>4. ASSUME NEW j \in 1 .. Len(q), NEW t \in 1 .. q[j], PtRoute(t) = c, t \notin ptAbandoned'
      PROVE  \E i \in 1 .. j : q[i] = t
  <2>1. t \notin ptAbandoned
    BY <1>4 DEF HandedOn
  <2> QED
    BY <1>4, <2>1 DEF SentTo
<1> QED
  BY <1>2, <1>3, <1>4 DEF SentTo, PtRoute

LEMMA WholeKept ==
  ASSUME NEW c, NEW q, WholeSent(c, q), Handed' = Handed, ptAbandoned' = ptAbandoned
  PROVE  WholeSent(c, q)'
BY DEF WholeSent, PtRoute

\* One more table is handed over, to another stream or to nobody.
LEMMA WholeOn ==
  ASSUME PtTypeOK, NEW c, NEW q, WholeSent(c, q), NEW x, x = Handed + 1, Handed' = x,
         ptAbandoned \subseteq ptAbandoned', PtRoute(x) # c \/ x \in ptAbandoned'
  PROVE  WholeSent(c, q)'
<1>1. Handed \in Nat
  BY HandedType
<1>2. ASSUME NEW t \in 1 .. Handed', PtRoute(t) = c, t \notin ptAbandoned'
      PROVE  \E i \in 1 .. Len(q) : q[i] = t
  <2>1. t # x /\ t \notin ptAbandoned
    BY <1>2
  <2>2. t \in 1 .. Handed
    BY <1>1, <2>1
  <2> QED
    BY <1>2, <2>1, <2>2 DEF WholeSent
<1> QED
  BY <1>2 DEF WholeSent, PtRoute

\* The next table joins what was sent.
LEMMA SentAppended ==
  ASSUME PtTypeOK, NEW c, NEW q \in Seq(Nat), SentTo(c, q), WholeSent(c, q),
         NEW x \in Nat, x = Handed + 1, Handed' = x, ptAbandoned' = ptAbandoned,
         PtRoute(x) = c, x \notin ptAbandoned
  PROVE  SentTo(c, Append(q, x))' /\ WholeSent(c, Append(q, x))'
<1> DEFINE u == Append(q, x)
<1>1. /\ u \in Seq(Nat) /\ Len(u) = Len(q) + 1 /\ Len(q) \in Nat /\ u[Len(q) + 1] = x
      /\ \A i \in 1 .. Len(q) : u[i] = q[i]
  BY LongerSent
<1> HIDE DEF u
<1>2. Handed \in Nat
  BY HandedType
<1>3. ASSUME NEW i \in 1 .. Len(q) PROVE u[i] \in 1 .. Handed /\ PtRoute(u[i]) = c /\ u[i] \notin ptAbandoned
  BY <1>1 DEF SentTo
<1>4. ASSUME NEW i \in 1 .. Len(u)
      PROVE  u[i] \in 1 .. Handed' /\ PtRoute(u[i]) = c /\ u[i] \notin ptAbandoned'
  <2>1. CASE i = Len(q) + 1
    BY <1>1, <1>2, <2>1
  <2>2. CASE i \in 1 .. Len(q)
    BY <1>2, <1>3, <2>2
  <2> QED
    BY <1>1, <2>1, <2>2
<1>5. ASSUME NEW i \in 1 .. Len(u), NEW j \in 1 .. Len(u), i < j PROVE u[i] < u[j]
  <2>1. i \in 1 .. Len(q)
    BY <1>1, <1>5
  <2>2. CASE j = Len(q) + 1
    BY <1>1, <1>2, <1>3, <2>1, <2>2
  <2>3. CASE j \in 1 .. Len(q)
    <3>1. q[i] < q[j]
      BY <1>5, <2>1, <2>3 DEF SentTo
    <3> QED
      BY <1>1, <2>1, <2>3, <3>1
  <2> QED
    BY <1>1, <2>2, <2>3
<1>6. ASSUME NEW t \in 1 .. Handed, PtRoute(t) = c, t \notin ptAbandoned
      PROVE  \E i \in 1 .. Len(q) : u[i] = t
  BY <1>1, <1>6 DEF WholeSent
<1>7. ASSUME NEW j \in 1 .. Len(u), NEW t \in 1 .. u[j], PtRoute(t) = c, t \notin ptAbandoned
      PROVE  \E i \in 1 .. j : u[i] = t
  <2>1. CASE j = Len(q) + 1
    <3>1. CASE t = x
      <4>1. u[j] = t /\ j \in 1 .. j
        BY <1>1, <2>1, <3>1
      <4> QED
        BY ONLY <4>1
    <3>2. CASE t # x
      <4>1. t \in 1 .. Handed
        BY <1>1, <1>2, <2>1, <3>2
      <4>2. PICK i \in 1 .. Len(q) : u[i] = t
        BY <1>6, <1>7, <4>1
      <4> QED
        BY <1>1, <2>1, <4>2
    <3> QED
      BY <3>1, <3>2
  <2>2. CASE j \in 1 .. Len(q)
    <3>1. t \in 1 .. q[j]
      BY <1>1, <2>2
    <3>2. PICK i \in 1 .. j : q[i] = t
      BY <1>7, <2>2, <3>1 DEF SentTo
    <3>3. i \in 1 .. Len(q)
      BY <1>1, <2>2, <3>2
    <3>4. u[i] = t
      BY <1>1, <3>2, <3>3
    <3> QED
      BY <3>4
  <2> QED
    BY <1>1, <2>1, <2>2
<1>8. ASSUME NEW t \in 1 .. Handed', PtRoute(t) = c, t \notin ptAbandoned
      PROVE  \E i \in 1 .. Len(u) : u[i] = t
  <2>1. CASE t = x
    BY <1>1, <2>1
  <2>2. CASE t # x
    <3>1. t \in 1 .. Handed
      BY <1>2, <2>2
    <3>2. PICK i \in 1 .. Len(q) : u[i] = t
      BY <1>6, <1>8, <3>1
    <3> QED
      BY <1>1, <3>2
  <2> QED
    BY <2>1, <2>2
<1>9. SentTo(c, u)' /\ WholeSent(c, u)'
  BY <1>4, <1>5, <1>7, <1>8 DEF SentTo, WholeSent, PtRoute
<1> QED
  BY <1>9 DEF u

\* A reader that holds a beginning of what was sent, and has not seen its end.
LEMMA SlotLonger ==
  ASSUME NEW s, NEW c, NEW q \in Seq(Nat), NEW a \in Nat, NEW b \in Nat, NEW x \in Nat,
         Slot(s, c, q, a, b), ptStreams[s] \in Seq(Int), ptPending # 0,
         b <= Len(q), a <= b
  PROVE  Slot(s, c, Append(q, x), a, b)
<1> DEFINE u == Append(q, x)
<1>1. /\ \A i \in 1 .. Len(q) : u[i] = q[i]
      /\ TablesFrom(ptStreams[s], q, a) => TablesFrom(ptStreams[s], u, a)
      /\ Len(q) \in Nat
  BY LongerSent
<1> HIDE DEF u
<1>2. PICK l \in Nat : l = Len(ptStreams[s])
  OBVIOUS
<1>3. Idle(s, q, a, b) => Idle(s, u, a, b)
  BY <1>1 DEF Idle
<1>4. Holding(s, q, a, b) => Holding(s, u, a, b)
  BY <1>1, <1>2 DEF Holding
<1>5. Failing(s, q, a, b) => Failing(s, u, a, b)
  BY <1>1 DEF Failing
<1>6. ASSUME Broken(s, q, a, b) PROVE Broken(s, u, a, b)
  <2>1. b = a + l - 1
    BY <1>2, <1>6 DEF Broken
  <2>2. ASSUME NEW i \in 1 .. l
        PROVE  ptStreams[s][i] = IF i = l THEN PtCut ELSE u[a + i]
    <3>1. ptStreams[s][i] = IF i = l THEN PtCut ELSE q[a + i]
      BY <1>2, <1>6 DEF Broken
    <3>2. i # l => a + i \in 1 .. Len(q)
      BY <1>1, <2>1
    <3> QED
      BY <1>1, <3>1, <3>2
  <2> QED
    BY <1>2, <1>6, <2>2 DEF Broken
<1>7. ~Ended(s, c, q, a, b)
  BY DEF Ended
<1> QED
  BY <1>3, <1>4, <1>5, <1>6, <1>7 DEF Slot, u

------------------------------------------------------------------------------
(* The flows are inductive: the writer and the wire.                       *)

LEMMA FlowsInit == PtInit => Flowing
<1> SUFFICES ASSUME PtInit PROVE Flowing
  OBVIOUS
<1> DEFINE zero == [c \in PtC |-> 0]
           none == [c \in PtC |-> <<>>]
<1>1. zero \in [PtC -> Nat] /\ none \in [PtC -> Seq(Nat)]
  BY EmptySequence
<1>2. ASSUME NEW c \in PtC PROVE Carrying(c, none[c], zero[c])
  <2>1. /\ ptNet[c] = <<>> /\ ptSenders[c] = <<>> /\ ptWork[c] = 0 /\ Handed = 0
        /\ ptTask[c] = "run" /\ ptEnd[c] = "open" /\ none[c] = <<>> /\ zero[c] = 0
    BY DEF PtInit, Handed
  <2>2. SentTo(c, <<>>) /\ WholeSent(c, <<>>)
    BY <2>1 DEF SentTo, WholeSent
  <2>3. Writing(c, <<>>, 0)
    BY <2>1, <2>2, NoTables DEF Writing
  <2> QED
    BY <2>1, <2>2, <2>3, NoTables DEF Carrying
<1>3. Reading(zero, zero, none)
  <2>1. \A s \in PtC : ptRead[s] = "run" /\ ptHeld[s] = 0 /\ ptStreams[s] = <<>>
    BY DEF PtInit
  <2>2. ptSlots = <<>>
    BY DEF PtInit
  <2> QED
    BY <2>1, <2>2, StreamCount DEF Reading
<1>4. Collected(zero, none)
  <2>1. Len(ptOut) = 0 /\ \A c \in PtC : zero[c] = 0
    BY DEF PtInit
  <2> QED
    BY <2>1 DEF Collected
<1>5. ptCursor = Len(ptOut) /\ \A c \in PtC : zero[c] <= zero[c]
  BY DEF PtInit
<1> HIDE DEF zero, none
<1>6. Flows(zero, zero, none)
  BY <1>1, <1>2, <1>3, <1>4, <1>5 DEF Flows
<1> QED
  BY <1>1, <1>6 DEF Flowing

LEMMA SlotKept ==
  ASSUME NEW s, NEW c, NEW q, NEW a, NEW b, Slot(s, c, q, a, b),
         ptRead'[s] = ptRead[s], ptHeld'[s] = ptHeld[s], ptStreams'[s] = ptStreams[s],
         ptFinish # "open" /\ ptPending = 0 =>
           /\ ptFinish' # "open" /\ ptPending' = 0 /\ ptNext' = ptNext
           /\ ptAbandoned' = ptAbandoned
  PROVE  Slot(s, c, q, a, b)'
<1>1. Idle(s, q, a, b) => Idle(s, q, a, b)'
  BY DEF Idle, TablesFrom
<1>2. Holding(s, q, a, b) => Holding(s, q, a, b)'
  BY DEF Holding, TablesFrom
<1>3. Failing(s, q, a, b) => Failing(s, q, a, b)'
  BY DEF Failing, TablesFrom
<1>4. Broken(s, q, a, b) => Broken(s, q, a, b)'
  BY DEF Broken
<1>5. ASSUME Ended(s, c, q, a, b) PROVE Ended(s, c, q, a, b)'
  <2>1. /\ ptFinish' # "open" /\ ptPending' = 0 /\ Handed' = Handed
        /\ ptAbandoned' = ptAbandoned /\ WholeSent(c, q)
    BY <1>5 DEF Ended, Handed
  <2>2. WholeSent(c, q)'
    BY <2>1, WholeKept
  <2> QED
    BY <1>5, <2>1, <2>2 DEF Ended, TablesFrom
<1> QED
  BY <1>1, <1>2, <1>3, <1>4, <1>5 DEF Slot

\* Steps of the writer and of the wire leave the reader's side as it is.
LEMMA ReaderKept ==
  ASSUME NEW got, NEW read, NEW sent, Reading(got, read, sent), Collected(got, sent),
         ptSort = "Ordered" => ptCursor = Len(ptOut),
         UNCHANGED <<ptFixed, ptSlots, ptTasks, ptMerge>>,
         ptFinish # "open" /\ ptPending = 0 =>
           /\ ptFinish' # "open" /\ ptPending' = 0 /\ ptNext' = ptNext
           /\ ptAbandoned' = ptAbandoned
  PROVE  /\ Reading(got, read, sent)' /\ Collected(got, sent)'
         /\ (ptSort = "Ordered" => ptCursor = Len(ptOut))'
<1> USE DEF ptFixed, ptTasks, ptMerge
<1>1. \A s, c, q, a, b : Slot(s, c, q, a, b) => Slot(s, c, q, a, b)'
  BY SlotKept
<1>2. Reading(got, read, sent)'
  BY <1>1 DEF Reading, PtAccepted
<1>3. Collected(got, sent)'
  BY DEF Collected
<1> QED
  BY <1>2, <1>3

\* A stream that a step leaves alone, or cuts.
LEMMA CarryingKept ==
  ASSUME NEW c \in PtC, NEW q \in Seq(Nat), NEW n \in Nat, Carrying(c, q, n),
         PtTypeOK, PtTypeOK', HandedOn, ptNet'[c] = ptNet[c],
         ptEnd'[c] # "cut" =>
           /\ ptEnd'[c] = ptEnd[c] /\ ptWork'[c] = ptWork[c]
           /\ ptSenders'[c] = ptSenders[c] /\ ptTask'[c] = ptTask[c]
           /\ WholeSent(c, q) => WholeSent(c, q)'
           /\ ptFinish # "open" /\ ptPending = 0 => ptFinish' # "open" /\ ptPending' = 0
  PROVE  Carrying(c, q, n)'
<1>1. TablesFrom(ptNet[c], q, n)' /\ Len(ptNet[c])' = Len(ptNet[c])
  BY DEF Carrying, TablesFrom
<1>2. SentTo(c, q)'
  BY SentKept DEF Carrying
<1>3. ASSUME NEW m, ptEnd'[c] # "cut", Writing(c, q, m) PROVE Writing(c, q, m)'
  BY <1>3 DEF Writing, TablesFrom
<1> QED
  BY <1>1, <1>2, <1>3 DEF Carrying

LEMMA WriteTableFlows ==
  ASSUME PtTypeOK, PtTypeOK', NEW got, NEW read, NEW sent, Flows(got, read, sent), PtWriteTable
  PROVE  Flows(got, read, sent)'
<1>1. UNCHANGED <<ptFixed, ptSlots, ptTasks, ptMerge>>
  BY DEF PtWriteTable
<1>2. /\ ptNext \in Nat /\ ptNext' = ptNext + 1 /\ ptFinish = "open" /\ Handed' = Handed
      /\ UNCHANGED <<ptNet, ptEnd, ptWork, ptSenders, ptTask, ptAbandoned>>
  BY DEF PtWriteTable, PtTypeOK, ptWire, Handed
<1>3. HandedOn
  BY <1>2, HandedType DEF HandedOn
<1>4. ASSUME NEW c \in PtC PROVE Carrying(c, sent[c], read[c])'
  <2>1. sent[c] \in Seq(Nat) /\ read[c] \in Nat /\ Carrying(c, sent[c], read[c])
    BY DEF Flows
  <2>2. WholeSent(c, sent[c]) => WholeSent(c, sent[c])'
    BY <1>2, WholeKept
  <2> QED
    BY <1>2, <1>3, <2>1, <2>2, CarryingKept
<1> QED
  BY <1>1, <1>2, <1>4, ReaderKept DEF Flows

\* What the reader has of a stream, it has of the longer one.
LEMMA LongerFlow ==
  ASSUME PtTypeOK, NEW got, NEW read, NEW sent, Flows(got, read, sent), ptPending # 0,
         NEW e \in PtC, NEW x \in Nat, NEW w, w = [sent EXCEPT ![e] = Append(@, x)]
  PROVE  Reading(got, read, w) /\ Collected(got, w)
<1>1. /\ got \in [PtC -> Nat] /\ read \in [PtC -> Nat] /\ sent \in [PtC -> Seq(Nat)]
      /\ Reading(got, read, sent) /\ Collected(got, sent)
  BY DEF Flows
<1>2. ASSUME NEW c \in PtC PROVE got[c] <= read[c] /\ read[c] <= Len(sent[c]) /\ Len(sent[c]) \in Nat
  <2>1. read[c] + Len(ptNet[c]) <= Len(sent[c]) /\ got[c] <= read[c]
    BY DEF Flows, Carrying
  <2>2. ptNet[c] \in Seq(Nat) /\ sent[c] \in Seq(Nat) /\ read[c] \in Nat
    BY <1>1 DEF PtTypeOK
  <2> QED
    BY <2>1, <2>2
<1>3. ASSUME NEW c \in PtC PROVE w[c] = IF c = e THEN Append(sent[e], x) ELSE sent[c]
  BY <1>1
<1>4. ASSUME NEW c \in PtC, NEW n \in 1 .. got[c] PROVE w[c][n] = sent[c][n]
  <2>1. n \in 1 .. Len(sent[c])
    BY <1>1, <1>2
  <2>2. sent[c] \in Seq(Nat)
    BY <1>1
  <2> QED
    BY <1>3, <2>1, <2>2, LongerSent
<1>5. ASSUME NEW i \in 1 .. Len(ptSlots)
      PROVE  Slot(i - 1, ptSlots[i], w[ptSlots[i]], got[ptSlots[i]], read[ptSlots[i]])
  <2>1. PICK c \in PtC : c = ptSlots[i]
    BY SeqFacts DEF PtTypeOK
  <2>2. PICK s \in PtC : s = i - 1
    BY <1>1, StreamCount DEF Reading, PtTypeOK
  <2>3. Slot(s, c, sent[c], got[c], read[c])
    BY <1>1, <2>1, <2>2 DEF Reading
  <2>4. /\ got[c] \in Nat /\ read[c] \in Nat /\ sent[c] \in Seq(Nat)
        /\ ptStreams[s] \in Seq(Int) /\ got[c] <= read[c] /\ read[c] <= Len(sent[c])
    BY <1>1, <1>2 DEF PtTypeOK
  <2>5. Slot(s, c, Append(sent[c], x), got[c], read[c])
    BY ONLY <2>3, <2>4, ptPending # 0, x \in Nat, SlotLonger
  <2> QED
    BY <1>3, <2>1, <2>2, <2>3, <2>5
<1>6. Reading(got, read, w)
  BY <1>1, <1>5 DEF Reading
<1>7. Collected(got, w)
  <2>1. ASSUME NEW i \in 1 .. Len(ptOut) PROVE \E c \in PtC : \E n \in 1 .. got[c] : ptOut[i] = w[c][n]
    <3>1. PICK c \in PtC : \E n \in 1 .. got[c] : ptOut[i] = sent[c][n]
      BY <1>1 DEF Collected
    <3>2. PICK n \in 1 .. got[c] : ptOut[i] = sent[c][n]
      BY <3>1
    <3> QED
      BY <1>4, <3>2
  <2>2. ASSUME NEW c \in PtC, NEW n \in 1 .. got[c] PROVE \E i \in 1 .. Len(ptOut) : ptOut[i] = w[c][n]
    <3>1. PICK i \in 1 .. Len(ptOut) : ptOut[i] = sent[c][n]
      BY <1>1 DEF Collected
    <3> QED
      BY <1>4, <3>1
  <2> QED
    BY <2>1, <2>2 DEF Collected
<1> QED
  BY <1>6, <1>7

\* The channel of a stream takes the next table.
LEMMA TableQueued ==
  ASSUME PtTypeOK, PtTypeOK', NEW c \in PtC, NEW q \in Seq(Nat), NEW n \in Nat,
         Carrying(c, q, n), ptEnd[c] # "cut", NEW t \in Nat \ {0}, t = ptPending,
         t \notin ptAbandoned, PtRoute(t) = c, Handed' = t, ptAbandoned' = ptAbandoned,
         UNCHANGED <<ptNet, ptEnd, ptWork, ptTask>>,
         ptSenders'[c] = Append(ptSenders[c], t)
  PROVE  Carrying(c, Append(q, t), n)'
<1> DEFINE u == Append(q, t)
<1>1. /\ t \in Nat \ {0} /\ t = Handed + 1 /\ ptNet[c] \in Seq(Nat) /\ ptSenders[c] \in Seq(Nat)
      /\ Len(ptNet[c]) \in Nat /\ Len(ptSenders[c]) \in Nat
  <2>1. ptNet[c] \in Seq(Nat) /\ ptSenders[c] \in Seq(Nat)
    BY DEF PtTypeOK
  <2>2. t = Handed + 1
    BY DEF PtTypeOK, Handed
  <2> QED
    BY <2>1, <2>2
<1>2. PICK k \in Nat : k = n + Len(ptNet[c])
  BY <1>1
<1>3. Writing(c, q, k) /\ SentTo(c, q) /\ TablesFrom(ptNet[c], q, n) /\ k <= Len(q)
  BY <1>2 DEF Carrying
<1>4. PICK m \in Nat : m = IF ptWork[c] = 0 THEN k ELSE k + 1
  OBVIOUS
<1>5. /\ ptWork[c] # 0 => k < Len(q) /\ ptWork[c] = q[k + 1]
      /\ TablesFrom(ptSenders[c], q, m) /\ m + Len(ptSenders[c]) = Len(q)
      /\ WholeSent(c, q) /\ ptTask[c] # "failed" /\ ptEnd[c] # "eos"
  BY <1>3, <1>4 DEF Writing
<1>6. SentTo(c, u)' /\ WholeSent(c, u)'
  BY <1>1, <1>3, <1>5, SentAppended
<1>7. /\ Len(u) = Len(q) + 1 /\ Len(q) \in Nat /\ u[Len(q) + 1] = t
      /\ \A i \in 1 .. Len(q) : u[i] = q[i]
      /\ TablesFrom(ptNet[c], u, n) /\ TablesFrom(ptSenders[c], u, m)
  BY <1>1, <1>3, <1>5, LongerSent
<1> HIDE DEF u
<1>8. /\ Len(ptSenders'[c]) = Len(ptSenders[c]) + 1
      /\ TablesFrom(ptSenders'[c], u, m)
  <2>1. m + Len(ptSenders[c]) + 1 <= Len(u) /\ t = u[m + Len(ptSenders[c]) + 1]
    <3>1. \A l, z \in Nat : m + l = z => m + l + 1 = z + 1
      OBVIOUS
    <3>2. m + Len(ptSenders[c]) + 1 = Len(q) + 1
      BY <1>1, <1>5, <1>7, <3>1
    <3> QED
      BY <1>7, <3>2
  <2>2. ASSUME NEW z \in Seq(Nat), z = ptSenders[c]
        PROVE  Len(Append(z, t)) = Len(z) + 1 /\ TablesFrom(Append(z, t), u, m)
    <3>1. /\ TablesFrom(z, u, m) /\ u[m + Len(z) + 1] = t /\ t \in Nat
          /\ m + Len(z) + 1 <= Len(u)
      BY <1>1, <1>7, <2>1, <2>2
    <3>2. LET v == Append(z, u[m + Len(z) + 1]) IN Len(v) = Len(z) + 1 /\ TablesFrom(v, u, m)
      BY ONLY <3>1, z \in Seq(Nat), m \in Nat, TableAppended
    <3> QED
      BY <3>1, <3>2
  <2> QED
    BY <1>1, <2>2
<1>9. m + Len(ptSenders'[c]) = Len(u)
  <2>1. \A a, b, d \in Int : m + a = b /\ d = a + 1 => m + d = b + 1
    OBVIOUS
  <2>2. /\ Len(ptSenders[c]) \in Int /\ Len(q) \in Int /\ m + Len(ptSenders[c]) = Len(q)
        /\ Len(ptSenders'[c]) = Len(ptSenders[c]) + 1 /\ Len(ptSenders'[c]) \in Int
    BY <1>1, <1>5, <1>7, <1>8
  <2>3. m + Len(ptSenders'[c]) = Len(q) + 1
    BY ONLY <2>1, <2>2
  <2> QED
    BY <1>7, <2>3
<1>10. ptWork'[c] # 0 => k < Len(u) /\ ptWork'[c] = u[k + 1]
  <2>1. ptWork'[c] = ptWork[c]
    OBVIOUS
  <2>2. k < Len(q) => k + 1 \in 1 .. Len(q) /\ k < Len(u)
    BY <1>7
  <2> QED
    BY <1>5, <1>7, <2>1, <2>2
<1>11. Writing(c, u, k)'
  <2>1. TablesFrom(ptSenders[c], u, m)'
    BY <1>8 DEF TablesFrom
  <2> QED
    BY <1>4, <1>5, <1>6, <1>9, <1>10, <2>1 DEF Writing
<1>12. Carrying(c, u, n)'
  <2>1. TablesFrom(ptNet[c], u, n)'
    BY <1>7 DEF TablesFrom
  <2>2. (n + Len(ptNet[c]) <= Len(u))'
    BY <1>2, <1>3, <1>7
  <2> QED
    BY <1>2, <1>6, <1>11, <2>1, <2>2 DEF Carrying
<1> QED
  BY <1>12 DEF u

LEMMA QueuedFlows ==
  ASSUME PtTypeOK, PtTypeOK', NEW got, NEW read, NEW sent, Flows(got, read, sent), PtQueued,
         \A c \in PtC : ptTask[c] = "failed" => ptEnd[c] = "cut",
         \A t \in ptAbandoned : t <= Handed
  PROVE  Flowing'
<1>0. PICK t \in Nat : t = ptPending
  BY DEF PtTypeOK
<1>1. UNCHANGED <<ptFixed, ptSlots, ptTasks, ptMerge>>
  BY DEF PtQueued, ptFixed
<1>2. /\ t \in Nat \ {0} /\ t = ptNext /\ t = Handed + 1 /\ Handed' = t
      /\ UNCHANGED <<ptNext, ptAbandoned, ptNet, ptEnd, ptWork, ptTask, ptFinish>>
  BY <1>0 DEF PtQueued, PtTypeOK, ptWire, Handed
<1>3. HandedOn /\ t \notin ptAbandoned
  BY <1>2, HandedType DEF HandedOn
<1>4. PICK e \in PtC : e = PtRoute(t)
  BY <1>2, RouteType
<1>5. /\ got \in [PtC -> Nat] /\ read \in [PtC -> Nat] /\ sent \in [PtC -> Seq(Nat)]
      /\ \A c \in PtC : got[c] <= read[c] /\ Carrying(c, sent[c], read[c])
      /\ Reading(got, read, sent) /\ Collected(got, sent)
      /\ ptSort = "Ordered" => ptCursor = Len(ptOut)
  BY DEF Flows
<1>6. ASSUME NEW c \in PtC, c # e PROVE Carrying(c, sent[c], read[c])'
  <2>1. ptSenders'[c] = ptSenders[c]
    BY <1>0, <1>4, <1>6 DEF PtQueued, PtTypeOK
  <2>2. WholeSent(c, sent[c]) => WholeSent(c, sent[c])'
    BY <1>2, <1>4, <1>6, WholeOn
  <2>3. sent[c] \in Seq(Nat) /\ read[c] \in Nat
    BY <1>5
  <2>4. /\ ptNet'[c] = ptNet[c] /\ ptEnd'[c] = ptEnd[c] /\ ptWork'[c] = ptWork[c]
        /\ ptTask'[c] = ptTask[c] /\ ptPending # 0 /\ Carrying(c, sent[c], read[c])
    BY <1>0, <1>2, <1>5
  <2> QED
    BY <1>3, <2>1, <2>2, <2>3, <2>4, CarryingKept
<1>7. CASE ptEnd[e] = "cut"
  <2>1. Carrying(e, sent[e], read[e])'
    <3>1. sent[e] \in Seq(Nat) /\ read[e] \in Nat
      BY <1>5
    <3>2. ptEnd'[e] = "cut" /\ ptNet'[e] = ptNet[e] /\ Carrying(e, sent[e], read[e])
      BY <1>2, <1>5, <1>7
    <3> QED
      BY <1>3, <3>1, <3>2, CarryingKept
  <2>2. Reading(got, read, sent)' /\ Collected(got, sent)'
        /\ (ptSort = "Ordered" => ptCursor = Len(ptOut))'
    BY <1>0, <1>1, <1>2, <1>5, ReaderKept
  <2>3. Flows(got, read, sent)'
    BY <1>5, <1>6, <2>1, <2>2 DEF Flows
  <2> QED
    BY <1>5, <2>3 DEF Flowing
<1>8. CASE ptEnd[e] # "cut"
  <2> DEFINE w == [sent EXCEPT ![e] = Append(@, t)]
  <2>1. ptSenders'[e] = Append(ptSenders[e], t)
    BY <1>0, <1>4, <1>8 DEF PtQueued, PtTypeOK
  <2>2. /\ w \in [PtC -> Seq(Nat)] /\ w[e] = Append(sent[e], t)
        /\ \A c \in PtC : c # e => w[c] = sent[c]
    <3>1. Append(sent[e], t) \in Seq(Nat)
      BY <1>2, <1>5, SeqFacts
    <3> QED
      BY <1>5, <3>1
  <2>3. Reading(got, read, w) /\ Collected(got, w)
    BY <1>0, <1>2, LongerFlow
  <2> HIDE DEF w
  <2>4. Carrying(e, w[e], read[e])'
    <3>1. sent[e] \in Seq(Nat) /\ read[e] \in Nat
      BY <1>5
    <3> QED
      BY <1>0, <1>2, <1>3, <1>4, <1>5, <1>8, <2>1, <2>2, <3>1, TableQueued
  <2>5. Reading(got, read, w)' /\ Collected(got, w)'
        /\ (ptSort = "Ordered" => ptCursor = Len(ptOut))'
    BY <1>0, <1>1, <1>2, <1>5, <2>3, ReaderKept
  <2>6. \A c \in PtC : Carrying(c, w[c], read[c])'
    BY <1>6, <2>2, <2>4
  <2>7. Flows(got, read, w)'
    BY <1>5, <2>2, <2>5, <2>6 DEF Flows
  <2> QED
    BY <1>5, <2>2, <2>7 DEF Flowing
<1> QED
  BY <1>7, <1>8

\* A dropped call leaves its place in the rotation empty.
LEMMA AbandonFlows ==
  ASSUME PtTypeOK, PtTypeOK', NEW got, NEW read, NEW sent, Flows(got, read, sent), PtAbandon
  PROVE  Flows(got, read, sent)'
<1>1. UNCHANGED <<ptFixed, ptSlots, ptTasks, ptMerge>>
  BY DEF PtAbandon
<1>2. /\ ptPending \in Nat \ {0} /\ ptPending = Handed + 1 /\ Handed' = ptPending
      /\ ptAbandoned' = ptAbandoned \cup {ptPending}
      /\ UNCHANGED <<ptNet, ptEnd, ptWork, ptSenders, ptTask, ptFinish>>
  BY DEF PtAbandon, PtTypeOK, ptWire, Handed
<1>3. HandedOn
  BY <1>2, HandedType DEF HandedOn
<1>4. ASSUME NEW c \in PtC PROVE Carrying(c, sent[c], read[c])'
  <2>1. sent[c] \in Seq(Nat) /\ read[c] \in Nat /\ Carrying(c, sent[c], read[c])
    BY DEF Flows
  <2>2. WholeSent(c, sent[c]) => WholeSent(c, sent[c])'
    BY <1>2, WholeOn
  <2> QED
    BY <1>2, <1>3, <2>1, <2>2, CarryingKept
<1> QED
  BY <1>1, <1>2, <1>4, ReaderKept DEF Flows

LEMMA FinishFlows ==
  ASSUME PtTypeOK, PtTypeOK', NEW got, NEW read, NEW sent, Flows(got, read, sent),
         PtFinishCall \/ PtFinished
  PROVE  Flows(got, read, sent)'
<1>1. /\ UNCHANGED <<ptFixed, ptSlots, ptTasks, ptMerge>>
      /\ UNCHANGED <<ptNext, ptPending, ptAbandoned, ptNet, ptEnd, ptWork, ptSenders, ptTask>>
      /\ ptFinish' # "open"
  BY DEF PtFinishCall, PtFinished, ptFixed, ptWire
<1>2. ptNext \in Nat /\ Handed' = Handed
  BY <1>1 DEF PtTypeOK, Handed
<1>3. HandedOn
  BY <1>1, <1>2, HandedType DEF HandedOn
<1>4. ASSUME NEW c \in PtC PROVE Carrying(c, sent[c], read[c])'
  <2>1. sent[c] \in Seq(Nat) /\ read[c] \in Nat /\ Carrying(c, sent[c], read[c])
    BY DEF Flows
  <2>2. WholeSent(c, sent[c]) => WholeSent(c, sent[c])'
    BY <1>1, <1>2, WholeKept
  <2> QED
    BY <1>1, <1>3, <2>1, <2>2, CarryingKept
<1> QED
  BY <1>1, <1>4, ReaderKept DEF Flows

LEMMA LostFlows ==
  ASSUME PtTypeOK, PtTypeOK', NEW got, NEW read, NEW sent, Flows(got, read, sent),
         NEW lost, lost \subseteq PtC, PtLost(lost)
  PROVE  Flows(got, read, sent)'
<1>1. /\ UNCHANGED <<ptFixed, ptSlots, ptTasks, ptMerge>>
      /\ UNCHANGED <<ptNext, ptPending, ptAbandoned, ptWork, ptSenders, ptTask, ptFinish>>
  BY DEF PtLost, ptFixed, ptWriter
<1>2. ptNext \in Nat /\ Handed' = Handed
  BY <1>1 DEF PtTypeOK, Handed
<1>3. HandedOn
  BY <1>1, <1>2, HandedType DEF HandedOn
<1>4. ASSUME NEW c \in PtC PROVE Carrying(c, sent[c], read[c])'
  <2>1. Carrying(c, sent[c], read[c]) /\ read[c] \in Nat /\ sent[c] \in Seq(Nat) /\ ptNet[c] \in Seq(Nat)
    BY DEF Flows, PtTypeOK
  <2>2. /\ ptEnd'[c] = IF c \in lost THEN "cut" ELSE ptEnd[c]
        /\ ptNet'[c] = ptNet[c] \/ (c \in lost /\ ptNet'[c] = <<>>)
    BY DEF PtLost
  <2>3. CASE ptNet'[c] = ptNet[c]
    <3>1. WholeSent(c, sent[c]) => WholeSent(c, sent[c])'
      BY <1>1, <1>2, WholeKept
    <3>2. ptEnd'[c] # "cut" => ptEnd'[c] = ptEnd[c]
      BY <2>2
    <3> QED
      BY <1>1, <1>3, <2>1, <2>3, <3>1, <3>2, CarryingKept
  <2>4. CASE ptEnd'[c] = "cut" /\ ptNet'[c] = <<>>
    <3>1. SentTo(c, sent[c])'
      BY <1>3, <2>1, SentKept DEF Carrying
    <3>2. read[c] + Len(ptNet'[c]) <= Len(sent[c])
      <4>1. read[c] + Len(ptNet[c]) <= Len(sent[c]) /\ Len(ptNet[c]) \in Nat /\ Len(sent[c]) \in Nat
        BY <2>1 DEF Carrying
      <4> QED
        BY <2>1, <2>4, <4>1
    <3> QED
      BY <2>4, <3>1, <3>2 DEF Carrying, TablesFrom
  <2> QED
    BY <2>2, <2>3, <2>4
<1> QED
  BY <1>1, <1>4, ReaderKept DEF Flows

\* A step of the writer task of one stream is about that stream only.
LEMMA OneStream ==
  ASSUME PtTypeOK, PtTypeOK', NEW got, NEW read, NEW sent, Flows(got, read, sent), NEW c \in PtC,
         UNCHANGED <<ptFixed, ptSlots, ptTasks, ptMerge>>,
         UNCHANGED <<ptNext, ptPending, ptAbandoned, ptFinish>>,
         \A d \in PtC \ {c} : /\ ptNet'[d] = ptNet[d] /\ ptEnd'[d] = ptEnd[d]
                              /\ ptWork'[d] = ptWork[d] /\ ptSenders'[d] = ptSenders[d]
                              /\ ptTask'[d] = ptTask[d],
         Carrying(c, sent[c], read[c])'
  PROVE  Flows(got, read, sent)'
<1>1. Handed' = Handed
  BY DEF Handed
<1>2. HandedOn
  BY <1>1, HandedType DEF HandedOn
<1>3. ASSUME NEW d \in PtC \ {c} PROVE Carrying(d, sent[d], read[d])'
  <2>1. sent[d] \in Seq(Nat) /\ read[d] \in Nat /\ Carrying(d, sent[d], read[d])
    BY DEF Flows
  <2>2. WholeSent(d, sent[d]) => WholeSent(d, sent[d])'
    BY <1>1, WholeKept
  <2> QED
    BY <1>2, <2>1, <2>2, CarryingKept
<1>4. \A d \in PtC : Carrying(d, sent[d], read[d])'
  BY <1>3
<1> QED
  BY <1>4, ReaderKept DEF Flows

LEMMA TakesFlows ==
  ASSUME PtTypeOK, PtTypeOK', NEW got, NEW read, NEW sent, Flows(got, read, sent),
         NEW c \in PtC, PtTaskTakes(c)
  PROVE  Flows(got, read, sent)'
<1>1. /\ UNCHANGED <<ptFixed, ptSlots, ptTasks, ptMerge>>
      /\ UNCHANGED <<ptNext, ptPending, ptAbandoned, ptFinish, ptNet, ptEnd, ptTask>>
  BY DEF PtTaskTakes, ptFixed, ptWire
<1>2. \A d \in PtC \ {c} : ptWork'[d] = ptWork[d] /\ ptSenders'[d] = ptSenders[d]
  BY DEF PtTaskTakes, PtTypeOK
<1>3. PICK q \in Seq(Nat) : q = sent[c]
  BY DEF Flows
<1>4. PICK n \in Nat : n = read[c] + Len(ptNet[c])
  <2>1. read[c] \in Nat /\ ptNet[c] \in Seq(Nat)
    BY DEF Flows, PtTypeOK
  <2> QED
    BY <2>1
<1>5. Carrying(c, q, read[c]) /\ Handed' = Handed
  BY <1>1, <1>3 DEF Flows, Handed
<1>6. /\ ptSenders[c] \in Seq(Nat) /\ ptSenders[c] # <<>> /\ ptWork[c] = 0
      /\ ptWork'[c] = Head(ptSenders[c]) /\ ptSenders'[c] = Tail(ptSenders[c])
  BY DEF PtTaskTakes, PtTypeOK
<1>7. ASSUME ptEnd[c] # "cut", Writing(c, q, n) PROVE Writing(c, q, n)'
  <2>1. TablesFrom(ptSenders[c], q, n) /\ n + Len(ptSenders[c]) = Len(q) /\ WholeSent(c, q)
    BY <1>6, <1>7 DEF Writing
  <2>2. /\ ptWork'[c] = q[n + 1] /\ n + 1 <= Len(q) /\ TablesFrom(ptSenders'[c], q, n + 1)
        /\ Len(ptSenders'[c]) = Len(ptSenders[c]) - 1 /\ Len(ptSenders[c]) \in Nat
    BY <1>6, <2>1, FirstTableOf
  <2>3. ptWork'[c] # 0
    <3>1. n + 1 \in 1 .. Len(q)
      BY <2>2
    <3>2. q[n + 1] \in 1 .. Handed /\ Handed \in Nat
      BY <1>5, <3>1, HandedType DEF Carrying, SentTo
    <3> QED
      BY <2>2, <3>2
  <2>4. n + 1 + Len(ptSenders'[c]) = Len(q)
    <3>1. \A a, b \in Int : a = b - 1 => n + 1 + a = n + b
      OBVIOUS
    <3>2. Len(ptSenders'[c]) \in Int /\ Len(ptSenders[c]) \in Int
      BY <2>2
    <3> QED
      BY ONLY <2>1, <2>2, <3>1, <3>2
  <2>5. ptTask[c] # "failed" /\ ptEnd[c] # "eos"
    BY <1>6, <1>7 DEF Writing
  <2>6. WholeSent(c, q)'
    BY <1>1, <1>5, <2>1, WholeKept
  <2>7. TablesFrom(ptSenders[c], q, n + 1)'
    BY <2>2 DEF TablesFrom
  <2>8. n < Len(q)
    BY <2>2
  <2> QED
    BY <1>1, <2>2, <2>3, <2>4, <2>5, <2>6, <2>7, <2>8 DEF Writing
<1>8. HandedOn
  BY <1>1, <1>5, HandedType DEF HandedOn
<1>9. Carrying(c, q, read[c])'
  <2>1. SentTo(c, q)'
    BY <1>5, <1>8, SentKept DEF Carrying
  <2> QED
    BY <1>1, <1>4, <1>5, <1>7, <2>1 DEF Carrying, TablesFrom
<1> QED
  BY <1>1, <1>2, <1>3, <1>9, OneStream

LEMMA WritesFlows ==
  ASSUME PtTypeOK, PtTypeOK', NEW got, NEW read, NEW sent, Flows(got, read, sent),
         NEW c \in PtC, PtTaskWrites(c)
  PROVE  Flows(got, read, sent)'
<1>1. /\ UNCHANGED <<ptFixed, ptSlots, ptTasks, ptMerge>>
      /\ UNCHANGED <<ptNext, ptPending, ptAbandoned, ptFinish, ptSenders, ptEnd, ptTask>>
  BY DEF PtTaskWrites, ptFixed
<1>2. \A d \in PtC \ {c} : ptWork'[d] = ptWork[d] /\ ptNet'[d] = ptNet[d]
  BY DEF PtTaskWrites, PtTypeOK
<1>3. PICK q \in Seq(Nat) : q = sent[c]
  BY DEF Flows
<1>4. PICK r \in Nat : r = read[c]
  BY DEF Flows
<1>5. /\ ptNet[c] \in Seq(Nat) /\ ptWork[c] \in Nat \ {0}
      /\ ptSenders[c] \in Seq(Nat) /\ ptEnd[c] = "open" /\ ptNext \in Nat
      /\ ptNet'[c] = Append(ptNet[c], ptWork[c]) /\ ptWork'[c] = 0
  BY DEF PtTaskWrites, PtTypeOK
<1>6. PICK l \in Nat : l = Len(ptNet[c])
  BY <1>5
<1>7. Carrying(c, q, r) /\ Handed' = Handed
  BY <1>1, <1>3, <1>4 DEF Flows, Handed
<1>8. TablesFrom(ptNet[c], q, r) /\ r + l <= Len(q) /\ SentTo(c, q) /\ Writing(c, q, r + l)
  BY <1>5, <1>6, <1>7 DEF Carrying
<1>9. /\ r + l < Len(q) /\ ptWork[c] = q[r + l + 1]
      /\ TablesFrom(ptSenders[c], q, r + l + 1) /\ r + l + 1 + Len(ptSenders[c]) = Len(q)
      /\ WholeSent(c, q) /\ ptTask[c] # "failed"
  BY <1>5, <1>8 DEF Writing
<1>10. Len(ptNet'[c]) = l + 1 /\ TablesFrom(ptNet'[c], q, r)
  <2>1. r + l + 1 <= Len(q)
    <3>1. Len(q) \in Nat
      OBVIOUS
    <3> QED
      BY <1>9, <3>1
  <2>2. r + Len(ptNet[c]) + 1 <= Len(q) /\ ptWork[c] = q[r + Len(ptNet[c]) + 1]
    BY <1>6, <1>9, <2>1
  <2>3. LET u == Append(ptNet[c], q[r + Len(ptNet[c]) + 1]) IN
          Len(u) = Len(ptNet[c]) + 1 /\ TablesFrom(u, q, r)
    <3>1. /\ ptNet[c] \in Seq(Nat) /\ TablesFrom(ptNet[c], q, r)
          /\ q[r + Len(ptNet[c]) + 1] \in Nat
      BY <1>5, <1>8, <2>2
    <3> QED
      BY ONLY <2>2, <3>1, r \in Nat, TableAppended
  <2> QED
    BY <1>5, <1>6, <2>2, <2>3
<1>11. HandedOn /\ WholeSent(c, q)'
  BY <1>1, <1>7, <1>9, HandedType, WholeKept DEF HandedOn
<1>12. Writing(c, q, r + l + 1)'
  <2>1. TablesFrom(ptSenders[c], q, r + l + 1)'
    BY <1>1, <1>9 DEF TablesFrom
  <2> QED
    BY <1>1, <1>5, <1>9, <1>11, <2>1 DEF Writing
<1>13. Carrying(c, q, r)'
  <2>1. TablesFrom(ptNet[c], q, r)'
    BY <1>10 DEF TablesFrom
  <2>2. SentTo(c, q)'
    BY <1>8, <1>11, SentKept
  <2>3. (r + Len(ptNet[c]))' = r + l + 1
    BY <1>10
  <2>4. Len(q) \in Nat
    OBVIOUS
  <2>5. (r + Len(ptNet[c]) <= Len(q))'
    BY <1>9, <2>3, <2>4
  <2>6. Writing(c, q, r + Len(ptNet[c]))'
    BY ONLY <1>12, <2>3 DEF Writing
  <2> QED
    BY <2>1, <2>2, <2>5, <2>6 DEF Carrying
<1> QED
  BY <1>1, <1>2, <1>3, <1>4, <1>13, OneStream

LEMMA EndsFlows ==
  ASSUME PtTypeOK, PtTypeOK', NEW got, NEW read, NEW sent, Flows(got, read, sent), NEW c \in PtC,
         PtTaskFinishes(c) \/ PtTaskFails(c),
         ptFinish # "open" => ptPending = 0
  PROVE  Flows(got, read, sent)'
<1>1. /\ UNCHANGED <<ptFixed, ptSlots, ptTasks, ptMerge>>
      /\ UNCHANGED <<ptNext, ptPending, ptAbandoned, ptFinish, ptNet>>
  BY DEF PtTaskFinishes, PtTaskFails, ptFixed, ptWire
<1>2. \A d \in PtC \ {c} : /\ ptWork'[d] = ptWork[d] /\ ptSenders'[d] = ptSenders[d]
                           /\ ptEnd'[d] = ptEnd[d] /\ ptTask'[d] = ptTask[d]
  BY DEF PtTaskFinishes, PtTaskFails, PtTypeOK, ptWire
<1>3. PICK q \in Seq(Nat) : q = sent[c]
  BY DEF Flows
<1>4. /\ ptNet[c] \in Seq(Nat) /\ read[c] \in Nat /\ Carrying(c, q, read[c]) /\ Handed' = Handed
      /\ ptEnd[c] \in {"open", "eos", "cut"}
  BY <1>1, <1>3 DEF Flows, PtTypeOK, Handed
<1>5. PICK n \in Nat : n = read[c] + Len(ptNet[c])
  BY <1>4
<1>6. HandedOn
  BY <1>1, <1>4, HandedType DEF HandedOn
<1>7. SentTo(c, q)'
  BY <1>4, <1>6, SentKept DEF Carrying
<1>8. CASE PtTaskFinishes(c)
  <2>1. /\ ptWork[c] = 0 /\ ptSenders[c] = <<>> /\ ptFinish # "open" /\ ptEnd[c] = "open"
        /\ UNCHANGED <<ptWork, ptSenders>> /\ ptTask'[c] = "ok" /\ ptEnd'[c] = "eos"
    BY <1>8 DEF PtTaskFinishes, PtTypeOK, PtSendersDropped
  <2>2. Writing(c, q, n)
    BY <1>4, <1>5, <2>1 DEF Carrying
  <2>3. n + Len(ptSenders'[c]) = Len(q) /\ WholeSent(c, q)' /\ TablesFrom(ptSenders[c], q, n)'
    BY <1>1, <1>4, <2>1, <2>2, WholeKept DEF Writing, TablesFrom
  <2>4. Writing(c, q, n)'
    BY <1>1, <2>1, <2>3 DEF Writing
  <2>5. Carrying(c, q, read[c])'
    BY <1>1, <1>4, <1>5, <1>7, <2>4 DEF Carrying, TablesFrom
  <2> QED
    BY <1>1, <1>2, <1>3, <2>5, OneStream
<1>9. CASE PtTaskFails(c)
  <2>1. ptEnd'[c] = "cut"
    BY <1>9 DEF PtTaskFails, ptWire
  <2>2. Carrying(c, q, read[c])'
    BY <1>1, <1>4, <1>7, <2>1 DEF Carrying, TablesFrom
  <2> QED
    BY <1>1, <1>2, <1>3, <2>2, OneStream
<1> QED
  BY <1>8, <1>9

------------------------------------------------------------------------------
(* The flows are inductive: the reader.                                    *)

LEMMA AcceptFlows ==
  ASSUME PtTypeOK, PtTypeOK', NEW got, NEW read, NEW sent, Flows(got, read, sent), PtAccept
  PROVE  Flows(got, read, sent)'
<1>1. /\ UNCHANGED <<ptFixed, ptTasks, ptMerge>>
      /\ UNCHANGED <<ptNext, ptPending, ptAbandoned, ptFinish, ptNet, ptEnd, ptWork, ptSenders, ptTask>>
  BY DEF PtAccept, ptWriter, ptWire
<1>2. Handed' = Handed
  BY <1>1 DEF Handed
<1>3. ASSUME NEW c \in PtC PROVE Carrying(c, sent[c], read[c])'
  <2>1. sent[c] \in Seq(Nat) /\ read[c] \in Nat /\ Carrying(c, sent[c], read[c])
    BY DEF Flows
  <2>2. WholeSent(c, sent[c]) => WholeSent(c, sent[c])'
    BY <1>1, <1>2, WholeKept
  <2>3. HandedOn
    BY <1>1, <1>2, HandedType DEF HandedOn
  <2> QED
    BY <1>1, <2>1, <2>2, <2>3, CarryingKept
<1>4. Collected(got, sent)' /\ (ptSort = "Ordered" => ptCursor = Len(ptOut))'
  BY <1>1 DEF Flows, Collected, ptMerge, ptFixed
<1>5. PICK c \in PtAcceptable : ptSlots' = Append(ptSlots, c)
  BY DEF PtAccept
<1>6. PICK n \in Nat : n = Len(ptSlots)
  BY DEF PtTypeOK
<1>7. c \in PtC /\ (ptKind # "tcp" \/ PtAcceptInOrder => c = n)
  BY <1>5, <1>6 DEF PtAcceptable
<1>8. /\ ptSlots \in Seq(PtC) /\ n < PtN /\ PtN \in Nat /\ n \in PtC
      /\ Len(ptSlots') = n + 1 /\ ptSlots'[n + 1] = c
      /\ \A i \in 1 .. n : ptSlots'[i] = ptSlots[i]
  <2>1. ptSlots \in Seq(PtC) /\ n < PtN /\ PtN \in Nat /\ n \in PtC
    BY <1>6, StreamCount DEF PtTypeOK, PtAccept
  <2>2. \A S : \A t \in Seq(S), x \in S :
          /\ Len(Append(t, x)) = Len(t) + 1 /\ Append(t, x)[Len(t) + 1] = x
          /\ \A i \in 1 .. Len(t) : Append(t, x)[i] = t[i]
    OBVIOUS
  <2>3. c \in PtC
    BY <1>7
  <2> QED
    BY ONLY <1>5, <1>6, <2>1, <2>2, <2>3
<1>9. Reading(got, read, sent)
  BY DEF Flows
<1>10. \A i \in 1 .. n : ptSlots[i] # c
  <2>1. CASE ptKind = "tcp" /\ ~PtAcceptInOrder
    BY <1>5, <1>6, <2>1 DEF PtAcceptable, PtAccepted
  <2>2. CASE ptKind # "tcp" \/ PtAcceptInOrder
    BY <1>6, <1>7, <1>9, <2>2 DEF Reading
  <2> QED
    BY <2>1, <2>2
<1>11. \A i \in 1 .. n : ptSlots[i] \in PtC
  BY <1>6, <1>8, SeqFacts
<1>12. c \notin PtAccepted /\ PtAccepted' = PtAccepted \cup {c}
  <2>1. DOMAIN ptSlots = 1 .. n /\ DOMAIN ptSlots' = 1 .. n + 1
    BY <1>5, <1>6, <1>8 DEF PtTypeOK
  <2> QED
    BY <1>6, <1>8, <1>10, <2>1 DEF PtAccepted
<1>13. ASSUME NEW i \in 1 .. n + 1
       PROVE  Slot(i - 1, ptSlots[i], sent[ptSlots[i]], got[ptSlots[i]], read[ptSlots[i]])'
  <2>1. CASE i = n + 1
    <3>1. /\ ptRead'[n] = "run" /\ ptHeld'[n] = 0 /\ ptStreams'[n] = <<>> /\ got[c] = read[c]
      <4>1. ptRead[n] = "run" /\ ptHeld[n] = 0 /\ ptStreams[n] = <<>>
        BY <1>6, <1>8, <1>9 DEF Reading
      <4>2. got[c] = read[c]
        BY <1>7, <1>9, <1>12 DEF Reading
      <4> QED
        BY <1>1, <4>1, <4>2 DEF ptTasks
    <3>2. read[c] \in Nat
      BY <1>7 DEF Flows
    <3>3. Idle(n, sent[c], got[c], read[c])'
      BY <3>1, <3>2, NoTables DEF Idle, TablesFrom
    <3>4. i - 1 = n
      BY <2>1
    <3>5. Slot(n, c, sent[c], got[c], read[c])'
      BY <3>3 DEF Slot
    <3>6. ptSlots'[i] = c
      BY <1>8, <2>1
    <3> QED
      BY ONLY <3>4, <3>5, <3>6 DEF Slot, Idle, Holding, Failing, Broken, Ended, WholeSent
  <2>2. CASE i \in 1 .. n
    <3>1. Slot(i - 1, ptSlots[i], sent[ptSlots[i]], got[ptSlots[i]], read[ptSlots[i]])
      BY <1>6, <1>9, <2>2 DEF Reading
    <3>2. ptSlots'[i] = ptSlots[i]
      BY <1>8, <2>2
    <3>3. PICK d : d = ptSlots[i]
      OBVIOUS
    <3>4. Slot(i - 1, d, sent[d], got[d], read[d])'
      BY <1>1, <3>1, <3>3, SlotKept DEF ptTasks
    <3> QED
      BY ONLY <3>2, <3>3, <3>4 DEF Slot, Idle, Holding, Failing, Broken, Ended, WholeSent
  <2> QED
    BY <2>1, <2>2
<1>14. Reading(got, read, sent)'
  <2>1. \A s \in PtC : s >= n + 1 =>
          ptRead'[s] = "run" /\ ptHeld'[s] = 0 /\ ptStreams'[s] = <<>>
    BY <1>1, <1>6, <1>9, StreamCount DEF Reading, ptTasks
  <2>2. \A d \in PtC \ PtAccepted' : got[d] = read[d]
    BY <1>9, <1>12 DEF Reading
  <2>3. \A i, j \in 1 .. n + 1 : ptSlots'[i] = ptSlots'[j] => i = j
    BY <1>6, <1>8, <1>9, <1>10 DEF Reading
  <2>4. ptKind' # "tcp" \/ PtAcceptInOrder => \A i \in 1 .. n + 1 : ptSlots'[i] = i - 1
    BY <1>1, <1>6, <1>7, <1>8, <1>9 DEF Reading, ptFixed
  <2>5. Len(ptSlots') = n + 1 /\ n + 1 <= PtN
    BY <1>8
  <2> QED
    BY <1>13, <2>1, <2>2, <2>3, <2>4, <2>5 DEF Reading
<1> QED
  BY <1>3, <1>4, <1>14 DEF Flows

\* A step of slot s, which has stream c, is about that slot and stream only.
LEMMA OneSlot ==
  ASSUME PtTypeOK, PtTypeOK', NEW got, NEW read, NEW sent, Flows(got, read, sent),
         NEW s \in PtC, NEW c \in PtC, s < Len(ptSlots), c = ptSlots[s + 1],
         NEW a \in Nat, NEW b \in Nat,
         UNCHANGED <<ptFixed, ptNext, ptPending, ptAbandoned, ptFinish, ptSlots>>,
         UNCHANGED <<ptEnd, ptWork, ptSenders, ptTask>>,
         \A d \in PtC \ {c} : ptNet'[d] = ptNet[d],
         \A t \in PtC \ {s} :
           ptRead'[t] = ptRead[t] /\ ptHeld'[t] = ptHeld[t] /\ ptStreams'[t] = ptStreams[t],
         Carrying(c, sent[c], b)', Slot(s, c, sent[c], a, b)', a <= b
  PROVE  LET g == [got EXCEPT ![c] = a]
             r == [read EXCEPT ![c] = b] IN
           /\ g \in [PtC -> Nat] /\ r \in [PtC -> Nat]
           /\ \A d \in PtC : Carrying(d, sent[d], r[d])'
           /\ \A d \in PtC : g[d] <= r[d]
           /\ Reading(g, r, sent)'
<1> DEFINE g == [got EXCEPT ![c] = a]
           r == [read EXCEPT ![c] = b]
<1>1. /\ g \in [PtC -> Nat] /\ r \in [PtC -> Nat] /\ g[c] = a /\ r[c] = b
      /\ \A d \in PtC \ {c} : g[d] = got[d] /\ r[d] = read[d]
  BY DEF Flows
<1> HIDE DEF g, r
<1>2. Handed' = Handed
  BY DEF Handed
<1>3. ASSUME NEW d \in PtC PROVE Carrying(d, sent[d], r[d])'
  <2>1. CASE d = c
    BY <1>1, <2>1
  <2>2. CASE d # c
    <3>1. Carrying(d, sent[d], read[d]) /\ read[d] \in Nat /\ sent[d] \in Seq(Nat) /\ r[d] = read[d]
      BY <1>1, <2>2 DEF Flows
    <3>2. WholeSent(d, sent[d]) => WholeSent(d, sent[d])'
      BY <1>2, WholeKept
    <3>3. HandedOn
      BY <1>2, HandedType DEF HandedOn
    <3>4. Carrying(d, sent[d], read[d])'
      BY <2>2, <3>1, <3>2, <3>3, CarryingKept
    <3> QED
      BY <3>1, <3>4
  <2> QED
    BY <2>1, <2>2
<1>4. /\ Reading(got, read, sent) /\ Len(ptSlots) \in Nat /\ ptSlots \in Seq(PtC)
      /\ s + 1 \in 1 .. Len(ptSlots) /\ Len(ptSlots) <= PtN
  <2>1. Reading(got, read, sent) /\ ptSlots \in Seq(PtC)
    BY DEF Flows, PtTypeOK
  <2>2. Len(ptSlots) \in Nat /\ s \in Nat
    BY <2>1, StreamCount
  <2>3. Len(ptSlots) <= PtN
    BY <2>1 DEF Reading
  <2>4. s + 1 \in 1 .. Len(ptSlots)
    BY ONLY <2>2, s < Len(ptSlots)
  <2> QED
    BY ONLY <2>1, <2>2, <2>3, <2>4
<1>5. ASSUME NEW i \in 1 .. Len(ptSlots)
      PROVE  Slot(i - 1, ptSlots[i], sent[ptSlots[i]], g[ptSlots[i]], r[ptSlots[i]])'
  <2>1. CASE i = s + 1
    <3>1. i - 1 = s
      BY <2>1, StreamCount
    <3>2. Slot(s, c, sent[c], g[c], r[c])'
      BY ONLY <1>1, Slot(s, c, sent[c], a, b)'
      DEF Slot, Idle, Holding, Failing, Broken, Ended, WholeSent
    <3> QED
      BY <2>1, <3>1, <3>2
  <2>2. CASE i # s + 1
    <3>1. ptSlots[i] \in PtC /\ ptSlots[i] # c
      BY <1>4, <2>2, SeqFacts DEF Reading
    <3>2. Slot(i - 1, ptSlots[i], sent[ptSlots[i]], g[ptSlots[i]], r[ptSlots[i]])
      BY <1>1, <1>4, <3>1 DEF Reading
    <3>3. i - 1 \in PtC \ {s}
      BY <1>4, <2>2, StreamCount
    <3>4. PICK d : d = ptSlots[i]
      OBVIOUS
    <3>5. Slot(i - 1, d, sent[d], g[d], r[d])'
      BY <3>2, <3>3, <3>4, SlotKept
    <3> QED
      BY ONLY <3>4, <3>5, ptSlots' = ptSlots
      DEF Slot, Idle, Holding, Failing, Broken, Ended, WholeSent
  <2> QED
    BY <2>1, <2>2
<1>6. Reading(g, r, sent)'
  <2>1. \A t \in PtC : t >= Len(ptSlots) =>
          ptRead'[t] = "run" /\ ptHeld'[t] = 0 /\ ptStreams'[t] = <<>>
    <3>1. \A t \in PtC : t >= Len(ptSlots) => t # s
      BY <1>4, StreamCount
    <3> QED
      BY <1>4, <3>1 DEF Reading
  <2>2. c \in PtAccepted /\ PtAccepted' = PtAccepted
    BY <1>4 DEF PtAccepted
  <2>3. \A d \in PtC \ PtAccepted' : g[d] = r[d]
    BY <1>1, <1>4, <2>2 DEF Reading
  <2>4. /\ \A i, j \in 1 .. Len(ptSlots') : ptSlots'[i] = ptSlots'[j] => i = j
        /\ ptKind' # "tcp" \/ PtAcceptInOrder => \A i \in 1 .. Len(ptSlots') : ptSlots'[i] = i - 1
        /\ Len(ptSlots') <= PtN
    BY <1>4 DEF Reading, ptFixed
  <2> QED
    BY <1>5, <2>1, <2>3, <2>4 DEF Reading
<1>7. \A d \in PtC : g[d] <= r[d]
  BY <1>1 DEF Flows
<1> QED
  BY <1>1, <1>3, <1>6, <1>7 DEF g, r

LEMMA SlotOf ==
  ASSUME PtTypeOK, NEW got, NEW read, NEW sent, Flows(got, read, sent),
         NEW s \in PtC, s < Len(ptSlots)
  PROVE  \E c \in PtC :
           /\ c = ptSlots[s + 1] /\ c \in PtAccepted
           /\ got[c] \in Nat /\ read[c] \in Nat /\ sent[c] \in Seq(Nat) /\ got[c] <= read[c]
           /\ Slot(s, c, sent[c], got[c], read[c]) /\ Carrying(c, sent[c], read[c])
<1>1. ptSlots \in Seq(PtC) /\ Len(ptSlots) \in Nat /\ s \in Nat
  BY StreamCount DEF PtTypeOK
<1>2. s + 1 \in 1 .. Len(ptSlots) /\ (s + 1) - 1 = s
  BY <1>1
<1>3. PICK c \in PtC : c = ptSlots[s + 1]
  BY <1>1, <1>2, SeqFacts
<1>4. c \in PtAccepted
  BY <1>1, <1>2, <1>3 DEF PtAccepted
<1>5. Slot(s, c, sent[c], got[c], read[c])
  BY <1>2, <1>3 DEF Flows, Reading
<1>6. /\ got[c] \in Nat /\ read[c] \in Nat /\ sent[c] \in Seq(Nat) /\ got[c] <= read[c]
      /\ Carrying(c, sent[c], read[c])
  BY DEF Flows
<1> QED
  BY <1>3, <1>4, <1>5, <1>6

\* A table that was sent is none of the other items.
LEMMA SentTable ==
  ASSUME PtTypeOK, NEW c, NEW q \in Seq(Nat), SentTo(c, q), NEW i \in 1 .. Len(q)
  PROVE  /\ q[i] \in Nat /\ q[i] > 0 /\ q[i] # 0 /\ q[i] # PtCut
         /\ q[i] <= Handed /\ q[i] \in (1 .. ptNext) \ ptAbandoned /\ PtRoute(q[i]) = c
<1>1. q[i] \in 1 .. Handed /\ PtRoute(q[i]) = c /\ q[i] \notin ptAbandoned
  BY DEF SentTo
<1>2. Handed \in Nat
  BY HandedType
<1>3. Handed <= ptNext /\ ptNext \in Nat
  BY DEF PtTypeOK, Handed
<1> QED
  BY <1>1, <1>2, <1>3 DEF PtCut

\* The reader task takes the next table off the wire, or meets its end.
LEMMA ReadsFlows ==
  ASSUME PtTypeOK, PtTypeOK', NEW got, NEW read, NEW sent, Flows(got, read, sent),
         NEW s \in PtC, PtTaskReads(s)
  PROVE  Flowing'
<1>1. s < Len(ptSlots) /\ ptRead[s] = "run" /\ ptHeld[s] = 0
  BY DEF PtTaskReads
<1>2. PICK c \in PtC :
        /\ c = ptSlots[s + 1]
        /\ got[c] \in Nat /\ read[c] \in Nat /\ sent[c] \in Seq(Nat) /\ got[c] <= read[c]
        /\ Slot(s, c, sent[c], got[c], read[c]) /\ Carrying(c, sent[c], read[c])
  BY <1>1, SlotOf
<1>3. PICK a \in Nat, b \in Nat, q \in Seq(Nat) : a = got[c] /\ b = read[c] /\ q = sent[c]
  BY <1>2
<1>4. PICK x \in Nat : x = Len(ptNet[c])
  BY DEF PtTypeOK
<1>5. /\ ptNet[c] \in Seq(Nat) /\ TablesFrom(ptNet[c], q, b) /\ b + x <= Len(q) /\ SentTo(c, q)
      /\ ptEnd[c] # "cut" => Writing(c, q, b + x)
      /\ Len(q) \in Nat /\ a <= b
  <2>1. ptNet[c] \in Seq(Nat)
    BY DEF PtTypeOK
  <2>2. Len(q) \in Nat
    BY ONLY q \in Seq(Nat)
  <2>3. a <= b /\ Carrying(c, q, b)
    BY <1>2, <1>3
  <2> QED
    BY <1>4, <2>1, <2>2, <2>3 DEF Carrying
<1>6. TablesFrom(ptStreams[s], q, a) /\ b = a + Len(ptStreams[s]) /\ Len(ptStreams[s]) \in Nat
  <2>1. Slot(s, c, q, a, b) /\ ptStreams[s] \in Seq(Int)
    BY <1>2, <1>3 DEF PtTypeOK
  <2>2. ~Holding(s, q, a, b)
    <3>1. ASSUME Holding(s, q, a, b) PROVE b \in 1 .. Len(q) /\ q[b] = 0
      <4>1. b = a + Len(ptStreams[s]) + 1 /\ q[b] = 0 /\ Len(ptStreams[s]) \in Nat
        BY <1>1, <2>1, <3>1 DEF Holding
      <4> QED
        BY <1>5, <4>1
    <3> QED
      BY <1>5, <3>1, SentTable
  <2>3. PtCut # 0
    BY DEF PtCut
  <2>4. Idle(s, q, a, b)
    BY <1>1, <2>1, <2>2, <2>3 DEF Slot, Failing, Broken, Ended
  <2> QED
    BY <2>1, <2>4 DEF Idle
<1>7. /\ UNCHANGED <<ptFixed, ptNext, ptPending, ptAbandoned, ptFinish, ptSlots, ptMerge>>
      /\ UNCHANGED <<ptEnd, ptWork, ptSenders, ptTask, ptStreams>>
  BY DEF PtTaskReads, ptWriter
<1>8. /\ \A d \in PtC \ {c} : ptNet'[d] = ptNet[d]
      /\ \A t \in PtC \ {s} :
           ptRead'[t] = ptRead[t] /\ ptHeld'[t] = ptHeld[t] /\ ptStreams'[t] = ptStreams[t]
  <2>1. \A d \in PtC \ {c} : ptNet'[d] = ptNet[d]
    BY <1>2 DEF PtTaskReads, PtTypeOK
  <2>2. \A t \in PtC \ {s} : ptRead'[t] = ptRead[t] /\ ptHeld'[t] = ptHeld[t]
    BY DEF PtTaskReads, PtTypeOK
  <2> QED
    BY <1>7, <2>1, <2>2
<1>9. Collected([got EXCEPT ![c] = a], sent)' /\ (ptSort = "Ordered" => ptCursor = Len(ptOut))'
  <2>1. [got EXCEPT ![c] = a] = got
    BY <1>2, <1>3 DEF Flows
  <2>2. Collected(got, sent) /\ (ptSort = "Ordered" => ptCursor = Len(ptOut))
    BY DEF Flows
  <2>3. Collected(got, sent)' /\ (ptSort = "Ordered" => ptCursor = Len(ptOut))'
    BY <1>7, <2>2 DEF Collected, ptMerge, ptFixed
  <2> QED
    BY <2>1, <2>3
<1>10. ASSUME NEW e \in Nat, a <= e, Carrying(c, q, e)', Slot(s, c, q, a, e)' PROVE Flowing'
  <2> DEFINE g == [got EXCEPT ![c] = a]
             r == [read EXCEPT ![c] = e]
  <2>1. /\ g \in [PtC -> Nat] /\ r \in [PtC -> Nat]
        /\ \A d \in PtC : Carrying(d, sent[d], r[d])'
        /\ \A d \in PtC : g[d] <= r[d]
        /\ Reading(g, r, sent)'
    <3>1. c = ptSlots[s + 1] /\ Carrying(c, sent[c], e)' /\ Slot(s, c, sent[c], a, e)'
      BY <1>2, <1>3, <1>10
    <3>2. UNCHANGED <<ptFixed, ptNext, ptPending, ptAbandoned, ptFinish, ptSlots>>
      BY <1>7
    <3> QED
      BY <1>1, <1>7, <1>8, <1>10, <3>1, <3>2, OneSlot
  <2> HIDE DEF g, r
  <2>2. Collected(g, sent)' /\ (ptSort = "Ordered" => ptCursor = Len(ptOut))'
    BY <1>9 DEF g
  <2>3. sent \in [PtC -> Seq(Nat)]
    BY DEF Flows
  <2>4. Flows(g, r, sent)'
    BY <2>1, <2>2, <2>3 DEF Flows
  <2> QED
    BY <2>1, <2>3, <2>4 DEF Flowing
<1>11. Handed' = Handed /\ HandedOn
  BY <1>7, HandedType DEF Handed, HandedOn
<1>12. ASSUME NEW m, Writing(c, q, m) PROVE Writing(c, q, m)'
  <2>1. WholeSent(c, q) => WholeSent(c, q)'
    BY <1>7, <1>11, WholeKept
  <2> QED
    BY <1>7, <1>12, <2>1 DEF Writing, TablesFrom
<1>13. SentTo(c, q)'
  BY <1>5, <1>11, SentKept
<1>14. CASE /\ ptNet[c] # <<>>
            /\ ptHeld' = [ptHeld EXCEPT ![s] = Head(ptNet[c])]
            /\ ptNet' = [ptNet EXCEPT ![c] = Tail(@)]
            /\ UNCHANGED ptRead
  <2>1. /\ Head(ptNet[c]) = q[b + 1] /\ TablesFrom(Tail(ptNet[c]), q, b + 1)
        /\ Len(Tail(ptNet[c])) = Len(ptNet[c]) - 1
    BY <1>5, <1>14, FirstTableOf
  <2>2. ptHeld'[s] = q[b + 1] /\ ptNet'[c] = Tail(ptNet[c])
    BY <1>14, <2>1 DEF PtTypeOK
  <2>3. b + 1 + Len(ptNet'[c]) = b + x
    <3>1. \A y, z \in Int : y = z - 1 => b + 1 + y = b + z
      OBVIOUS
    <3>2. Len(ptNet'[c]) = x - 1 /\ x \in Int /\ x - 1 \in Int
      BY <1>4, <2>1, <2>2
    <3> QED
      BY ONLY <3>1, <3>2
  <2>4. Carrying(c, q, b + 1)'
    <3>1. TablesFrom(ptNet[c], q, b + 1)'
      BY <2>1, <2>2 DEF TablesFrom
    <3>2. (b + 1 + Len(ptNet[c]))' = b + x
      BY <2>3
    <3>3. ptEnd'[c] # "cut" => Writing(c, q, b + x)'
      BY <1>5, <1>7, <1>12
    <3>4. ptEnd'[c] # "cut" => Writing(c, q, b + 1 + Len(ptNet[c]))'
      BY ONLY <3>2, <3>3 DEF Writing
    <3>5. (b + 1 + Len(ptNet[c]) <= Len(q))'
      BY <1>5, <3>2
    <3> QED
      BY <1>13, <3>1, <3>4, <3>5 DEF Carrying
  <2>5. b + 1 = a + Len(ptStreams[s]) + 1 /\ a <= b + 1
    BY <1>5, <1>6
  <2>6. Holding(s, q, a, b + 1)'
    BY <1>1, <1>6, <1>7, <1>14, <2>2, <2>5 DEF Holding, TablesFrom
  <2> QED
    BY <1>10, <2>4, <2>5, <2>6 DEF Slot
<1>15. CASE /\ ptNet[c] = <<>> /\ ptEnd[c] # "open"
            /\ ptHeld' = IF PtMarkerMissing(c) THEN [ptHeld EXCEPT ![s] = PtCut] ELSE ptHeld
            /\ ptRead' = IF PtMarkerMissing(c) THEN ptRead ELSE [ptRead EXCEPT ![s] = "done"]
            /\ UNCHANGED ptNet
  <2>1. Carrying(c, q, b)'
    <3>1. WholeSent(c, q) => WholeSent(c, q)'
      BY <1>7, <1>11, WholeKept
    <3>2. Carrying(c, q, b)
      BY <1>2, <1>3
    <3> QED
      BY <1>7, <1>11, <1>15, <3>1, <3>2, CarryingKept
  <2>2. CASE ptEnd[c] = "cut"
    <3>1. ptHeld'[s] = PtCut /\ ptRead'[s] = "run"
      BY <1>1, <1>15, <2>2 DEF PtMarkerMissing, PtTypeOK
    <3>2. Failing(s, q, a, b)'
      BY <1>6, <1>7, <3>1 DEF Failing, TablesFrom
    <3> QED
      BY <1>5, <1>10, <2>1, <3>2 DEF Slot
  <2>3. CASE ptEnd[c] # "cut"
    <3>1. ptHeld'[s] = 0 /\ ptRead'[s] = "done" /\ ptEnd[c] = "eos"
      BY <1>1, <1>15, <2>3 DEF PtMarkerMissing, PtTypeOK
    <3>2. Writing(c, q, b)
      <4>1. b + x = b
        BY <1>4, <1>15
      <4> QED
        BY <1>5, <2>3, <4>1
    <3>3. /\ ptWork[c] = 0 /\ ptSenders[c] = <<>> /\ ptFinish # "open" /\ ptPending = 0
          /\ b + Len(ptSenders[c]) = Len(q) /\ WholeSent(c, q)
      BY <3>1, <3>2 DEF Writing
    <3>4. b = Len(q) /\ WholeSent(c, q)'
      BY <1>7, <1>11, <3>3, WholeKept
    <3>5. Ended(s, c, q, a, b)'
      BY <1>6, <1>7, <3>1, <3>3, <3>4 DEF Ended, TablesFrom
    <3> QED
      BY <1>5, <1>10, <2>1, <3>5 DEF Slot
  <2> QED
    BY <2>2, <2>3
<1> QED
  BY <1>2, <1>14, <1>15 DEF PtTaskReads

LEMMA SendsFlows ==
  ASSUME PtTypeOK, PtTypeOK', NEW got, NEW read, NEW sent, Flows(got, read, sent),
         NEW s \in PtC, PtTaskSends(s)
  PROVE  Flows(got, read, sent)'
<1>1. /\ UNCHANGED <<ptFixed, ptNext, ptPending, ptAbandoned, ptFinish, ptSlots, ptMerge>>
      /\ UNCHANGED <<ptEnd, ptWork, ptSenders, ptTask, ptNet>>
      /\ ptHeld[s] # 0 /\ ptStreams[s] \in Seq(Int) /\ ptHeld[s] \in Int
      /\ ptStreams'[s] = Append(ptStreams[s], ptHeld[s]) /\ ptHeld'[s] = 0
      /\ ptRead'[s] = IF ptHeld[s] = PtCut THEN "done" ELSE ptRead[s]
      /\ \A t \in PtC \ {s} :
           ptRead'[t] = ptRead[t] /\ ptHeld'[t] = ptHeld[t] /\ ptStreams'[t] = ptStreams[t]
  BY DEF PtTaskSends, ptWriter, ptWire, PtTypeOK
<1>2. s < Len(ptSlots)
  <2>1. s >= Len(ptSlots) => ptHeld[s] = 0
    BY DEF Flows, Reading
  <2>2. s \in Int /\ Len(ptSlots) \in Int
    BY StreamCount DEF PtTypeOK
  <2> QED
    BY <1>1, <2>1, <2>2
<1>3. PICK c \in PtC :
        /\ c = ptSlots[s + 1]
        /\ got[c] \in Nat /\ read[c] \in Nat /\ sent[c] \in Seq(Nat) /\ got[c] <= read[c]
        /\ Slot(s, c, sent[c], got[c], read[c]) /\ Carrying(c, sent[c], read[c])
  BY <1>2, SlotOf
<1>4. PICK a \in Nat, b \in Nat, q \in Seq(Nat) : a = got[c] /\ b = read[c] /\ q = sent[c]
  BY <1>3
<1>5. Handed' = Handed /\ HandedOn
  BY <1>1, HandedType DEF Handed, HandedOn
<1>6. Carrying(c, q, b)'
  <2>1. WholeSent(c, q) => WholeSent(c, q)'
    BY <1>1, <1>5, WholeKept
  <2>2. Carrying(c, q, b)
    BY <1>3, <1>4
  <2> QED
    BY <1>1, <1>5, <2>1, <2>2, CarryingKept
<1>7. /\ Slot(s, c, q, a, b) /\ a <= b /\ SentTo(c, q) /\ b <= Len(q) /\ Len(q) \in Nat
  <2>1. b + Len(ptNet[c]) <= Len(q) /\ Len(ptNet[c]) \in Nat /\ Len(q) \in Nat
    <3>1. ptNet[c] \in Seq(Nat) /\ Carrying(c, q, b)
      BY <1>3, <1>4 DEF PtTypeOK
    <3> QED
      BY <3>1 DEF Carrying
  <2> QED
    BY <1>3, <1>4, <2>1 DEF Carrying
<1>8. Slot(s, c, q, a, b)'
  <2>1. CASE Holding(s, q, a, b)
    <3>1. /\ ptRead[s] = "run" /\ ptHeld[s] = q[b]
          /\ TablesFrom(ptStreams[s], q, a) /\ b = a + Len(ptStreams[s]) + 1
          /\ Len(ptStreams[s]) \in Nat
      BY <1>1, <2>1 DEF Holding
    <3>2. b \in 1 .. Len(q) /\ q[b] # PtCut /\ q[b] \in Int
      <4>1. b \in 1 .. Len(q)
        BY <1>7, <3>1
      <4> QED
        BY <1>7, <4>1, SentTable
    <3>3. LET u == Append(ptStreams[s], q[a + Len(ptStreams[s]) + 1]) IN
            Len(u) = Len(ptStreams[s]) + 1 /\ TablesFrom(u, q, a)
      <4>1. /\ ptStreams[s] \in Seq(Int) /\ TablesFrom(ptStreams[s], q, a)
            /\ q[a + Len(ptStreams[s]) + 1] \in Int /\ a + Len(ptStreams[s]) + 1 <= Len(q)
        BY <1>1, <3>1, <3>2
      <4> QED
        BY ONLY <4>1, a \in Nat, TableAppended
    <3>4. Len(ptStreams'[s]) = Len(ptStreams[s]) + 1 /\ TablesFrom(ptStreams'[s], q, a)
      BY ONLY <1>1, <3>1, <3>3
    <3>5. b = a + Len(ptStreams'[s])
      BY <3>1, <3>4
    <3>6. Idle(s, q, a, b)'
      BY <1>1, <3>1, <3>2, <3>4, <3>5 DEF Idle, TablesFrom
    <3> QED
      BY <3>6 DEF Slot
  <2>2. CASE Failing(s, q, a, b)
    <3>1. /\ ptHeld[s] = PtCut /\ TablesFrom(ptStreams[s], q, a) /\ b = a + Len(ptStreams[s])
          /\ Len(ptStreams[s]) \in Nat /\ ptStreams[s] \in Seq(Int)
      BY <1>1, <2>2 DEF Failing
    <3>2. PICK n \in Nat : n = Len(ptStreams[s])
      BY <3>1
    <3>3. /\ Len(ptStreams'[s]) = n + 1 /\ ptStreams'[s][n + 1] = PtCut
          /\ \A i \in 1 .. n : ptStreams'[s][i] = ptStreams[s][i]
          /\ ptStreams'[s] # <<>>
      BY <1>1, <3>1, <3>2
    <3>4. \A i \in 1 .. n + 1 :
            ptStreams'[s][i] = IF i = n + 1 THEN PtCut ELSE q[a + i]
      <4>1. TAKE i \in 1 .. n + 1
      <4>2. CASE i = n + 1
        BY <3>3, <4>2
      <4>3. CASE i \in 1 .. n
        <5>1. i # n + 1
          BY ONLY <4>3, n \in Nat
        <5>2. ptStreams'[s][i] = ptStreams[s][i] /\ ptStreams[s][i] = q[a + i]
          BY <3>1, <3>2, <3>3, <4>3 DEF TablesFrom
        <5> QED
          BY <5>1, <5>2
      <4>4. i = n + 1 \/ i \in 1 .. n
        BY ONLY i \in 1 .. n + 1, n \in Nat
      <4> QED
        BY <4>2, <4>3, <4>4
    <3>5. b = a + (n + 1) - 1
      BY <3>1, <3>2
    <3>6. Broken(s, q, a, b)'
      BY <1>1, <3>1, <3>3, <3>4, <3>5 DEF Broken
    <3> QED
      BY <3>6 DEF Slot
  <2> QED
    BY <1>1, <1>7, <2>1, <2>2 DEF Slot, Idle, Broken, Ended
<1>9. [got EXCEPT ![c] = a] = got /\ [read EXCEPT ![c] = b] = read
  BY <1>4 DEF Flows
<1>10. (\A d \in PtC : Carrying(d, sent[d], read[d])') /\ Reading(got, read, sent)'
  <2> DEFINE g == [got EXCEPT ![c] = a]
             r == [read EXCEPT ![c] = b]
  <2>1. /\ g \in [PtC -> Nat] /\ r \in [PtC -> Nat]
        /\ \A d \in PtC : Carrying(d, sent[d], r[d])'
        /\ \A d \in PtC : g[d] <= r[d]
        /\ Reading(g, r, sent)'
    <3>1. /\ UNCHANGED <<ptFixed, ptNext, ptPending, ptAbandoned, ptFinish, ptSlots>>
          /\ UNCHANGED <<ptEnd, ptWork, ptSenders, ptTask>>
          /\ \A d \in PtC \ {c} : ptNet'[d] = ptNet[d]
          /\ \A t \in PtC \ {s} :
               ptRead'[t] = ptRead[t] /\ ptHeld'[t] = ptHeld[t] /\ ptStreams'[t] = ptStreams[t]
      BY <1>1
    <3>2. c = ptSlots[s + 1] /\ Carrying(c, sent[c], b)' /\ Slot(s, c, sent[c], a, b)'
      BY <1>3, <1>4, <1>6, <1>8
    <3>3. UNCHANGED <<ptFixed, ptNext, ptPending, ptAbandoned, ptFinish, ptSlots>>
      BY <1>1
    <3>4. a <= b /\ s < Len(ptSlots)
      BY <1>2, <1>7
    <3> QED
      BY <3>1, <3>2, <3>3, <3>4, OneSlot
  <2>2. g = got /\ r = read
    BY <1>9
  <2> HIDE DEF g, r
  <2> QED
    BY <2>1, <2>2
<1>11. Collected(got, sent)' /\ (ptSort = "Ordered" => ptCursor = Len(ptOut))'
  <2>1. Collected(got, sent) /\ (ptSort = "Ordered" => ptCursor = Len(ptOut))
    BY DEF Flows
  <2>2. UNCHANGED <<ptOut, ptCursor, ptSort>>
    BY <1>1 DEF ptMerge, ptFixed
  <2> QED
    BY <2>1, <2>2 DEF Collected
<1> QED
  BY <1>10, <1>11 DEF Flows

LEMMA SlotTakes ==
  ASSUME NEW s \in PtC, NEW c \in PtC, NEW q \in Seq(Nat), NEW a \in Nat, NEW b \in Nat,
         Slot(s, c, q, a, b),
         ptStreams[s] \in Seq(Int), ptStreams[s] # <<>>, ptStreams'[s] = Tail(ptStreams[s]),
         ptRead'[s] = ptRead[s], ptHeld'[s] = ptHeld[s],
         UNCHANGED <<ptFinish, ptPending, ptNext, ptAbandoned>>,
         Head(ptStreams[s]) # PtCut
  PROVE  Head(ptStreams[s]) = q[a + 1] /\ a < b /\ Slot(s, c, q, a + 1, b)'
<1>1. PICK n \in Nat \ {0} : n = Len(ptStreams[s]) /\ Len(ptStreams'[s]) = n - 1
  <2>1. Len(ptStreams[s]) \in Nat \ {0} /\ Len(Tail(ptStreams[s])) = Len(ptStreams[s]) - 1
    BY ONLY ptStreams[s] \in Seq(Int), ptStreams[s] # <<>>
  <2> QED
    BY <2>1
<1>2. ASSUME TablesFrom(ptStreams[s], q, a)
      PROVE  Head(ptStreams[s]) = q[a + 1] /\ TablesFrom(ptStreams[s], q, a + 1)'
  <2>1. Head(ptStreams[s]) = q[a + 1] /\ TablesFrom(Tail(ptStreams[s]), q, a + 1)
    BY <1>2, FirstTableOf
  <2> QED
    BY <2>1 DEF TablesFrom
<1>3. a + n = a + 1 + (n - 1) /\ a < a + n /\ a < a + n + 1 /\ a + n + 1 = a + 1 + (n - 1) + 1
  OBVIOUS
<1>4. CASE Idle(s, q, a, b)
  <2>1. b = a + n /\ b = a + 1 + (n - 1)
    BY <1>1, <1>3, <1>4 DEF Idle
  <2>2. Idle(s, q, a + 1, b)'
    BY <1>1, <1>2, <1>4, <2>1 DEF Idle
  <2> QED
    BY <1>2, <1>3, <1>4, <2>1, <2>2 DEF Idle, Slot
<1>5. CASE Holding(s, q, a, b)
  <2>1. b = a + n + 1 /\ b = a + 1 + (n - 1) + 1
    BY <1>1, <1>3, <1>5 DEF Holding
  <2>2. Holding(s, q, a + 1, b)'
    BY <1>1, <1>2, <1>5, <2>1 DEF Holding
  <2> QED
    BY <1>2, <1>3, <1>5, <2>1, <2>2 DEF Holding, Slot
<1>6. CASE Failing(s, q, a, b)
  <2>1. b = a + n /\ b = a + 1 + (n - 1)
    BY <1>1, <1>3, <1>6 DEF Failing
  <2>2. Failing(s, q, a + 1, b)'
    BY <1>1, <1>2, <1>6, <2>1 DEF Failing
  <2> QED
    BY <1>2, <1>3, <1>6, <2>1, <2>2 DEF Failing, Slot
<1>7. CASE Ended(s, c, q, a, b)
  <2>1. b = a + n /\ b = a + 1 + (n - 1)
    BY <1>1, <1>3, <1>7 DEF Ended
  <2>2. WholeSent(c, q)'
    BY <1>7, WholeKept DEF Ended, Handed
  <2>3. Ended(s, c, q, a + 1, b)'
    BY <1>1, <1>2, <1>7, <2>1, <2>2 DEF Ended
  <2> QED
    BY <1>2, <1>3, <1>7, <2>1, <2>3 DEF Ended, Slot
<1>8. CASE Broken(s, q, a, b)
  <2>1. /\ ptRead[s] = "done" /\ ptHeld[s] = 0 /\ b = a + n - 1
        /\ \A i \in 1 .. n : ptStreams[s][i] = IF i = n THEN PtCut ELSE q[a + i]
    BY <1>1, <1>8 DEF Broken
  <2>2. Head(ptStreams[s]) = ptStreams[s][1]
    OBVIOUS
  <2>3. n # 1
    BY <2>1, <2>2
  <2>4. Head(ptStreams[s]) = q[a + 1]
    BY <2>1, <2>2, <2>3
  <2>5. \A i \in 1 .. n - 1 : ptStreams'[s][i] = ptStreams[s][i + 1]
    BY <1>1
  <2>6. ASSUME NEW i \in 1 .. n - 1
        PROVE  ptStreams'[s][i] = IF i = n - 1 THEN PtCut ELSE q[a + 1 + i]
    <3>1. i + 1 \in 1 .. n /\ (i + 1 = n <=> i = n - 1) /\ a + (i + 1) = a + 1 + i
      OBVIOUS
    <3> QED
      BY <2>1, <2>5, <3>1
  <2>7. b = a + 1 + (n - 1) - 1 /\ a < b /\ ptStreams'[s] # <<>>
    <3>1. \A p \in Nat, z \in Nat \ {0, 1} :
            p + z - 1 = p + 1 + (z - 1) - 1 /\ p < p + z - 1 /\ z - 1 # 0
      OBVIOUS
    <3>2. n \in Nat \ {0, 1} /\ Len(<<>>) = 0
      BY <2>3
    <3>3. b = a + n - 1 /\ Len(ptStreams'[s]) = n - 1
      BY <1>1, <2>1
    <3> QED
      BY ONLY <3>1, <3>2, <3>3, a \in Nat
  <2>8. Broken(s, q, a + 1, b)'
    BY <1>1, <2>1, <2>6, <2>7 DEF Broken
  <2> QED
    BY <2>4, <2>7, <2>8 DEF Slot
<1> QED
  BY <1>4, <1>5, <1>6, <1>7, <1>8 DEF Slot

\* What read_all_tables collects next is the next table of some stream.
LEMMA TakenFlows ==
  ASSUME PtTypeOK, PtTypeOK', PtStreamOrder, NEW got, NEW read, NEW sent, Flows(got, read, sent),
         NEW s \in PtC, PtTake(s), Head(ptStreams[s]) # PtCut, PtPolling,
         UNCHANGED <<ptFixed, ptWriter, ptWire, ptSlots, ptHeld, ptRead>>
  PROVE  \E c \in PtC, x \in Nat :
           /\ c = ptSlots[s + 1] /\ PtRoute(x) = c /\ x <= Handed
           /\ ptOut' = Append(ptOut, x)
           /\ [got EXCEPT ![c] = got[c] + 1] \in [PtC -> Nat]
           /\ \A d \in PtC : Carrying(d, sent[d], read[d])'
           /\ \A d \in PtC : [got EXCEPT ![c] = got[c] + 1][d] <= read[d]
           /\ Reading([got EXCEPT ![c] = got[c] + 1], read, sent)'
           /\ Collected([got EXCEPT ![c] = got[c] + 1], sent)'
           /\ PtStreamOrder'
<1>1. s < Len(ptSlots)
  BY StreamCount DEF PtPolling
<1>2. PICK c \in PtC :
        /\ c = ptSlots[s + 1]
        /\ got[c] \in Nat /\ read[c] \in Nat /\ sent[c] \in Seq(Nat) /\ got[c] <= read[c]
        /\ Slot(s, c, sent[c], got[c], read[c]) /\ Carrying(c, sent[c], read[c])
  BY <1>1, SlotOf
<1>3. PICK a \in Nat, b \in Nat, q \in Seq(Nat) : a = got[c] /\ b = read[c] /\ q = sent[c]
  BY <1>2
<1>4. /\ UNCHANGED <<ptFixed, ptNext, ptPending, ptAbandoned, ptFinish, ptSlots>>
      /\ UNCHANGED <<ptEnd, ptWork, ptSenders, ptTask, ptNet>>
      /\ ptStreams[s] \in Seq(Int) /\ ptStreams[s] # <<>> /\ ptStreams'[s] = Tail(ptStreams[s])
      /\ ptOut' = Append(ptOut, Head(ptStreams[s]))
      /\ ptRead'[s] = ptRead[s] /\ ptHeld'[s] = ptHeld[s]
      /\ \A t \in PtC \ {s} :
           ptRead'[t] = ptRead[t] /\ ptHeld'[t] = ptHeld[t] /\ ptStreams'[t] = ptStreams[t]
  BY DEF PtTake, ptWriter, ptWire, PtTypeOK
<1>5. Head(ptStreams[s]) = q[a + 1] /\ a < b /\ Slot(s, c, q, a + 1, b)'
  <2>1. Slot(s, c, q, a, b)
    BY <1>2, <1>3
  <2>2. UNCHANGED <<ptFinish, ptPending, ptNext, ptAbandoned>>
    BY <1>4
  <2> QED
    BY <1>4, <2>1, <2>2, SlotTakes
<1>6. Handed' = Handed /\ HandedOn
  BY <1>4, HandedType DEF Handed, HandedOn
<1>7. Carrying(c, q, b) /\ SentTo(c, q) /\ b <= Len(q) /\ Len(q) \in Nat
  <2>1. ptNet[c] \in Seq(Nat) /\ Carrying(c, q, b)
    BY <1>2, <1>3 DEF PtTypeOK
  <2>2. b + Len(ptNet[c]) <= Len(q) /\ Len(ptNet[c]) \in Nat /\ Len(q) \in Nat
    BY <2>1 DEF Carrying
  <2> QED
    BY <2>1, <2>2 DEF Carrying
<1>8. Carrying(c, q, b)'
  <2>1. WholeSent(c, q) => WholeSent(c, q)'
    BY <1>4, <1>6, WholeKept
  <2> QED
    BY <1>4, <1>6, <1>7, <2>1, CarryingKept
<1>9. PICK x \in Nat : x = q[a + 1]
  BY <1>5, <1>7
<1>10. a + 1 \in 1 .. Len(q)
  BY <1>5, <1>7
<1>11. /\ x > 0 /\ x # PtCut /\ x <= Handed /\ x \in (1 .. ptNext) \ ptAbandoned
       /\ PtRoute(x) = c
  BY <1>7, <1>9, <1>10, SentTable
<1> DEFINE g == [got EXCEPT ![c] = a + 1]
<1>12. /\ g \in [PtC -> Nat]
       /\ \A d \in PtC : Carrying(d, sent[d], read[d])'
       /\ \A d \in PtC : g[d] <= read[d]
       /\ Reading(g, read, sent)'
  <2> DEFINE r == [read EXCEPT ![c] = b]
  <2>1. r = read
    BY <1>3 DEF Flows
  <2>2. a + 1 \in Nat /\ a + 1 <= b
    BY <1>5
  <2>3. c = ptSlots[s + 1] /\ Carrying(c, sent[c], b)' /\ Slot(s, c, sent[c], a + 1, b)'
    BY <1>2, <1>3, <1>5, <1>8
  <2>4. /\ g \in [PtC -> Nat] /\ r \in [PtC -> Nat]
        /\ \A d \in PtC : Carrying(d, sent[d], r[d])'
        /\ \A d \in PtC : g[d] <= r[d]
        /\ Reading(g, r, sent)'
    <3>1. /\ UNCHANGED <<ptFixed, ptNext, ptPending, ptAbandoned, ptFinish, ptSlots>>
          /\ UNCHANGED <<ptEnd, ptWork, ptSenders, ptTask>>
          /\ \A d \in PtC \ {c} : ptNet'[d] = ptNet[d]
          /\ \A t \in PtC \ {s} :
               ptRead'[t] = ptRead[t] /\ ptHeld'[t] = ptHeld[t] /\ ptStreams'[t] = ptStreams[t]
      BY <1>4
    <3> QED
      BY <1>1, <2>2, <2>3, <3>1, OneSlot
  <2> HIDE DEF g, r
  <2> QED
    BY <2>1, <2>4
<1>13. PICK n \in Nat : n = Len(ptOut)
  BY DEF PtTypeOK
<1>14. /\ Len(ptOut') = n + 1 /\ ptOut'[n + 1] = x
       /\ \A i \in 1 .. n : ptOut'[i] = ptOut[i]
       /\ DOMAIN ptOut = 1 .. n /\ DOMAIN ptOut' = 1 .. n + 1
  <2>0. ptOut \in Seq(Int)
    BY DEF PtTypeOK
  <2>1. ptOut \in Seq(Int) /\ ptOut' = Append(ptOut, x) /\ x \in Int
    BY <1>4, <1>5, <1>9, <2>0
  <2> QED
    BY ONLY <1>13, <2>1
<1>15. /\ \A i \in 1 .. n : \E d \in PtC : \E k \in 1 .. got[d] : ptOut[i] = sent[d][k]
       /\ \A d \in PtC : \A k \in 1 .. got[d] : \E i \in 1 .. n : ptOut[i] = sent[d][k]
       /\ got \in [PtC -> Nat]
  BY <1>13 DEF Flows, Collected
<1>16. g[c] = a + 1 /\ \A d \in PtC \ {c} : g[d] = got[d]
  BY <1>15
<1> HIDE DEF g
<1>17. Collected(g, sent)'
  <2>1. ASSUME NEW i \in 1 .. n + 1
        PROVE  \E d \in PtC : \E k \in 1 .. g[d] : ptOut'[i] = sent[d][k]
    <3>1. CASE i = n + 1
      <4>1. a + 1 \in 1 .. g[c] /\ ptOut'[i] = sent[c][a + 1]
        BY <1>3, <1>9, <1>14, <1>16, <3>1
      <4> QED
        BY <4>1
    <3>2. CASE i \in 1 .. n
      <4>1. PICK d \in PtC : \E k \in 1 .. got[d] : ptOut[i] = sent[d][k]
        BY <1>15, <3>2
      <4>2. PICK k \in 1 .. got[d] : ptOut[i] = sent[d][k]
        BY <4>1
      <4>3. got[d] \in Nat /\ (g[d] = got[d] \/ g[d] = got[d] + 1)
        BY <1>3, <1>15, <1>16
      <4>4. k \in 1 .. g[d]
        BY <4>3
      <4> QED
        BY <1>14, <3>2, <4>2, <4>4
    <3> QED
      BY <3>1, <3>2
  <2>2. ASSUME NEW d \in PtC, NEW k \in 1 .. g[d]
        PROVE  \E i \in 1 .. n + 1 : ptOut'[i] = sent[d][k]
    <3>1. CASE d = c /\ k = a + 1
      <4>1. n + 1 \in 1 .. n + 1 /\ ptOut'[n + 1] = sent[d][k]
        BY <1>3, <1>9, <1>14, <3>1
      <4> QED
        BY <4>1
    <3>2. CASE ~(d = c /\ k = a + 1)
      <4>1. k \in 1 .. got[d]
        BY <1>3, <1>15, <1>16, <3>2
      <4> QED
        BY <1>14, <1>15, <4>1
    <3> QED
      BY <3>1, <3>2
  <2>3. Len(ptOut') = n + 1
    BY <1>14
  <2> QED
    BY ONLY <2>1, <2>2, <2>3 DEF Collected
<1>18. PtStreamOrder'
  <2>1. ASSUME NEW i \in 1 .. n + 1
        PROVE  /\ ptOut'[i] \in (1 .. ptNext') \ ptAbandoned'
               /\ \A j \in 1 .. i - 1 : ptOut'[j] # ptOut'[i]
               /\ \A t \in (1 .. ptOut'[i] - 1) \ ptAbandoned' :
                    PtRoute(t) = PtRoute(ptOut'[i]) => \E j \in 1 .. i - 1 : ptOut'[j] = t
    <3>1. CASE i \in 1 .. n
      <4>1. \A j \in 1 .. i - 1 : j \in 1 .. n
        BY <3>1
      <4>2. /\ ptOut[i] \in (1 .. ptNext) \ ptAbandoned
            /\ \A j \in 1 .. i - 1 : ptOut[j] # ptOut[i]
            /\ \A t \in (1 .. ptOut[i] - 1) \ ptAbandoned :
                 PtRoute(t) = PtRoute(ptOut[i]) => \E j \in 1 .. i - 1 : ptOut[j] = t
        BY <1>14, <3>1 DEF PtStreamOrder
      <4>3. /\ ptNext' = ptNext /\ ptAbandoned' = ptAbandoned /\ ptOut'[i] = ptOut[i]
            /\ \A j \in 1 .. i - 1 : ptOut'[j] = ptOut[j]
        BY <1>4, <1>14, <3>1, <4>1
      <4> QED
        BY ONLY <4>2, <4>3
    <3>2. CASE i = n + 1
      <4>1. ASSUME NEW j \in 1 .. n, ptOut[j] = x PROVE FALSE
        <5>1. PICK d \in PtC : \E k \in 1 .. got[d] : ptOut[j] = sent[d][k]
          BY <1>15
        <5>2. PICK k \in 1 .. got[d] : ptOut[j] = sent[d][k]
          BY <5>1
        <5>3. /\ sent[d] \in Seq(Nat) /\ SentTo(d, sent[d]) /\ got[d] \in Nat
              /\ k \in 1 .. Len(sent[d])
          <6>1. /\ sent[d] \in Seq(Nat) /\ Carrying(d, sent[d], read[d]) /\ got[d] <= read[d]
                /\ got[d] \in Nat /\ read[d] \in Nat
            BY DEF Flows
          <6>2. ptNet[d] \in Seq(Nat)
            BY DEF PtTypeOK
          <6>3. /\ SentTo(d, sent[d]) /\ read[d] + Len(ptNet[d]) <= Len(sent[d])
                /\ Len(ptNet[d]) \in Nat /\ Len(sent[d]) \in Nat
            BY <6>1, <6>2 DEF Carrying
          <6> QED
            BY <6>1, <6>3
        <5>4. d = c
          BY <1>11, <4>1, <5>2, <5>3, SentTable
        <5>5. k \in 1 .. Len(q) /\ k < a + 1 /\ q[k] = x
          BY <1>3, <4>1, <5>2, <5>3, <5>4
        <5>6. q[k] < q[a + 1]
          BY <1>7, <1>10, <5>5 DEF SentTo
        <5> QED
          BY <1>9, <5>5, <5>6
      <4>2. ASSUME NEW t \in (1 .. x - 1) \ ptAbandoned, PtRoute(t) = PtRoute(x)
            PROVE  \E j \in 1 .. n : ptOut[j] = t
        <5>1. t \in 1 .. q[a + 1] /\ PtRoute(t) = c /\ t \notin ptAbandoned /\ t # x
          BY <1>9, <1>11, <4>2
        <5>2. PICK k \in 1 .. a + 1 : q[k] = t
          BY <1>7, <1>10, <5>1 DEF SentTo
        <5>3. k \in 1 .. got[c] /\ sent[c][k] = t
          BY <1>3, <1>9, <5>1, <5>2
        <5> QED
          BY <1>15, <5>3
      <4>3. i - 1 = n
        BY <3>2
      <4>4. \A j \in 1 .. n : ptOut'[j] = ptOut[j]
        BY <1>14
      <4>5. ptNext' = ptNext /\ ptAbandoned' = ptAbandoned /\ ptOut'[i] = x
        BY <1>4, <1>14, <3>2
      <4> QED
        BY ONLY <1>11, <4>1, <4>2, <4>3, <4>4, <4>5
    <3> QED
      BY <3>1, <3>2
  <2>2. DOMAIN ptOut' = 1 .. n + 1
    BY <1>14
  <2> QED
    BY <2>1, <2>2 DEF PtStreamOrder, PtRoute
<1>19. ptOut' = Append(ptOut, x)
  BY <1>4, <1>5, <1>9
<1>20. g = [got EXCEPT ![c] = got[c] + 1]
  BY <1>3 DEF g
<1> QED
  BY <1>2, <1>11, <1>12, <1>17, <1>18, <1>19, <1>20

\* Ordered, the streams are in their slots: nothing else tells them apart.
StreamsInPlace == PtAcceptInOrder \/ "tcp" \notin PtKinds \/ "Ordered" \notin PtSorts

\* What a poll leaves behind, whatever it finds.
Polled ==
  /\ PtStreamOrder' /\ PtInOrder'
  /\ \A i \in DOMAIN ptOut' : ptOut'[i] <= Handed'
  /\ ptResult' = "none" => Flowing'
  /\ ptResult' = "ok" => ptFinish' # "open" /\ PtOkIsComplete'

\* A slot that is drained has given all tables of its stream.
LEMMA DrainedSlot ==
  ASSUME PtTypeOK, NEW got, NEW read, NEW sent, Flows(got, read, sent), PtPolling,
         NEW s \in PtC, PtDrained(s)
  PROVE  \E c \in PtC :
           /\ c = ptSlots[s + 1] /\ ptFinish # "open"
           /\ \A t \in (1 .. ptNext) \ ptAbandoned : PtRoute(t) = c => PtCollected(t)
<1>1. s < Len(ptSlots)
  BY StreamCount DEF PtPolling
<1>2. PICK c \in PtC :
        /\ c = ptSlots[s + 1]
        /\ got[c] \in Nat /\ read[c] \in Nat
        /\ Slot(s, c, sent[c], got[c], read[c])
  BY <1>1, SlotOf
<1>3. ptRead[s] = "done" /\ ptStreams[s] = <<>> /\ Len(<<>>) = 0
  BY DEF PtDrained
<1>4. Ended(s, c, sent[c], got[c], read[c])
  BY <1>2, <1>3 DEF Slot, Idle, Holding, Failing, Broken
<1>5. /\ got[c] = Len(sent[c]) /\ WholeSent(c, sent[c]) /\ Handed = ptNext /\ ptFinish # "open"
  BY <1>2, <1>3, <1>4 DEF Ended, Handed
<1>6. ASSUME NEW t \in (1 .. ptNext) \ ptAbandoned, PtRoute(t) = c PROVE PtCollected(t)
  <2>1. PICK k \in 1 .. got[c] : sent[c][k] = t
    BY <1>5, <1>6 DEF WholeSent
  <2>2. PICK i \in 1 .. Len(ptOut) : ptOut[i] = t
    BY <2>1 DEF Flows, Collected
  <2>3. DOMAIN ptOut = 1 .. Len(ptOut)
    BY DEF PtTypeOK
  <2> QED
    BY <2>2, <2>3 DEF PtCollected
<1> QED
  BY <1>2, <1>5, <1>6

LEMMA OrderedPolled ==
  ASSUME PtTypeOK, PtTypeOK', PtStreamOrder, PtInOrder, \A i \in DOMAIN ptOut : ptOut[i] <= Handed,
         NEW got \in [PtC -> Nat], NEW read \in [PtC -> Nat], NEW sent \in [PtC -> Seq(Nat)],
         Flows(got, read, sent), PtPollOrdered, StreamsInPlace
  PROVE  Polled
<1>1. /\ PtPolling /\ ptSort = "Ordered" /\ Len(ptSlots) = PtN /\ ptResult = "none"
      /\ UNCHANGED <<ptFixed, ptWriter, ptWire, ptSlots, ptHeld, ptRead>>
      /\ UNCHANGED <<ptKind, ptSort, ptNext, ptPending, ptAbandoned, ptFinish>>
  BY DEF PtPollOrdered, PtPolling, ptFixed, ptWriter
<1>2. ptCursor \in Nat /\ ptCursor % PtN \in PtC
  <2>1. ptCursor \in Nat /\ PtN \in Nat \ {0} /\ PtC = 0 .. PtN - 1
    BY StreamCount DEF PtTypeOK
  <2> QED
    BY ONLY <2>1
<1>3. PICK s \in PtC : s = ptCursor % PtN
  BY <1>2
<1>4. ptSlots[s + 1] = s
  <2>1. ptKind # "tcp" \/ PtAcceptInOrder
    BY <1>1 DEF StreamsInPlace, PtTypeOK
  <2>2. s + 1 \in 1 .. Len(ptSlots) /\ (s + 1) - 1 = s
    BY <1>1, StreamCount
  <2> QED
    BY <2>1, <2>2 DEF Flows, Reading
<1>5. PICK n \in Nat : n = ptCursor /\ n = Len(ptOut) /\ DOMAIN ptOut = 1 .. n
  BY <1>1, <1>2 DEF Flows, PtTypeOK
<1>6. PtRoute(n + 1) = s
  <2>1. (n + 1) - 1 = n
    OBVIOUS
  <2> QED
    BY <1>3, <1>5, <2>1 DEF PtRoute
<1>7. \A i \in 1 .. n : PtUnbroken(i) => ptOut[i] = i
  BY <1>1, <1>5 DEF PtInOrder
<1>8. ptAbandoned \subseteq Nat /\ Handed' = Handed /\ ptNext \in Nat
  BY <1>1 DEF PtTypeOK, Handed
<1>9. \A k \in Nat : PtUnbroken(k) => \A j \in 1 .. k : PtUnbroken(j)
  BY <1>8 DEF PtUnbroken
<1>10. ASSUME UNCHANGED ptOut PROVE PtStreamOrder' /\ PtInOrder' /\ \A i \in DOMAIN ptOut' : ptOut'[i] <= Handed'
  <2>1. PtStreamOrder'
    BY <1>1, <1>10 DEF PtStreamOrder, PtRoute
  <2>2. PtInOrder'
    BY <1>1, <1>10, <2>1 DEF PtInOrder, PtUnbroken
  <2> QED
    BY <1>8, <1>10, <2>1, <2>2
<1>11. CASE PtTake(s) /\ Head(ptStreams[s]) = PtCut
  <2>1. UNCHANGED ptOut /\ ptResult' = "err"
    BY <1>11 DEF PtTake
  <2> QED
    BY <1>10, <2>1 DEF Polled
<1>12. CASE PtTake(s) /\ Head(ptStreams[s]) # PtCut /\ ptCursor' = ptCursor + 1
  <2>0. PICK c \in PtC, y \in Nat :
          /\ c = ptSlots[s + 1] /\ PtRoute(y) = c /\ y <= Handed
          /\ ptOut' = Append(ptOut, y)
          /\ [got EXCEPT ![c] = got[c] + 1] \in [PtC -> Nat]
          /\ \A d \in PtC : Carrying(d, sent[d], read[d])'
          /\ \A d \in PtC : [got EXCEPT ![c] = got[c] + 1][d] <= read[d]
          /\ Reading([got EXCEPT ![c] = got[c] + 1], read, sent)'
          /\ Collected([got EXCEPT ![c] = got[c] + 1], sent)'
          /\ PtStreamOrder'
    BY <1>1, <1>12, TakenFlows
  <2> DEFINE g == [got EXCEPT ![c] = got[c] + 1]
  <2>1. PICK x \in Nat :
          /\ PtRoute(x) = s /\ x <= Handed /\ ptOut' = Append(ptOut, x)
          /\ g \in [PtC -> Nat]
          /\ \A d \in PtC : Carrying(d, sent[d], read[d])'
          /\ \A d \in PtC : g[d] <= read[d]
          /\ Reading(g, read, sent)' /\ Collected(g, sent)' /\ PtStreamOrder'
    BY <1>4, <2>0
  <2>2. ptResult' = "none"
    BY <1>1, <1>12 DEF PtTake
  <2> HIDE DEF g
  <2>3. /\ Len(ptOut') = n + 1 /\ ptOut'[n + 1] = x
        /\ \A i \in 1 .. n : ptOut'[i] = ptOut[i]
        /\ DOMAIN ptOut' = 1 .. n + 1
    <3>1. ptOut \in Seq(Int)
      BY DEF PtTypeOK
    <3> QED
      BY ONLY <1>5, <2>1, <3>1, x \in Nat, n \in Nat
  <2>4. /\ \A j \in 1 .. n : ptOut'[j] # x
        /\ \A t \in (1 .. x - 1) \ ptAbandoned :
             PtRoute(t) = s => \E j \in 1 .. n : ptOut'[j] = t
        /\ x \in 1 .. ptNext
    <3>1. PICK m \in Nat : m = n + 1
      OBVIOUS
    <3>2. m \in DOMAIN ptOut' /\ m - 1 = n /\ ptOut'[m] = x
      BY <2>3, <3>1
    <3>3. /\ ptOut'[m] \in (1 .. ptNext) \ ptAbandoned
          /\ \A j \in 1 .. m - 1 : ptOut'[j] # ptOut'[m]
          /\ \A t \in (1 .. ptOut'[m] - 1) \ ptAbandoned :
               PtRoute(t) = PtRoute(ptOut'[m]) => \E j \in 1 .. m - 1 : ptOut'[j] = t
      BY <1>1, <2>1, <3>2 DEF PtStreamOrder
    <3> QED
      BY <2>1, <3>2, <3>3
  <2>5. ASSUME PtUnbroken(n + 1) PROVE x = n + 1
    <3>1. ASSUME NEW j \in 1 .. n PROVE PtUnbroken(j) /\ ptOut'[j] = j
      <4>1. n + 1 \in Nat /\ j \in 1 .. n + 1
        OBVIOUS
      <4>2. PtUnbroken(j)
        BY <1>9, <2>5, <4>1
      <4> QED
        BY <1>7, <2>3, <4>2
    <3>2. CASE x > n + 1
      <4>1. n + 1 \in (1 .. x - 1) \ ptAbandoned
        BY <1>8, <2>5, <3>2 DEF PtUnbroken
      <4>2. PICK j \in 1 .. n : ptOut'[j] = n + 1
        BY <1>6, <2>4, <4>1
      <4> QED
        BY <3>1, <4>2
    <3>3. CASE x < n + 1
      <4>1. x \in 1 .. n
        BY <2>4, <3>3
      <4> QED
        BY <2>4, <3>1, <4>1
    <3>4. x > n + 1 \/ x < n + 1 \/ x = n + 1
      BY <2>4
    <3> QED
      BY <3>2, <3>3, <3>4
  <2>6. PtInOrder'
    <3>1. ASSUME NEW i \in 1 .. n + 1, PtUnbroken(i) PROVE ptOut'[i] = i
      <4>1. CASE i = n + 1
        BY <2>3, <2>5, <3>1, <4>1
      <4>2. CASE i \in 1 .. n
        BY <1>7, <2>3, <3>1, <4>2
      <4> QED
        BY <4>1, <4>2
    <3> QED
      BY <1>1, <2>1, <2>3, <3>1 DEF PtInOrder, PtUnbroken
  <2>7. (ptSort = "Ordered" => ptCursor = Len(ptOut))'
    BY <1>5, <1>12, <2>3
  <2>8. Flowing'
    <3>1. Flows(g, read, sent)'
      BY <2>1, <2>7 DEF Flows
    <3> QED
      BY <2>1, <3>1 DEF Flowing
  <2>9. \A i \in DOMAIN ptOut' : ptOut'[i] <= Handed'
    <3>1. \A i \in 1 .. n : ptOut'[i] <= Handed
      BY <1>5, <2>3
    <3>2. ptOut'[n + 1] <= Handed
      BY <2>1, <2>3
    <3> QED
      BY <1>8, <2>3, <3>1, <3>2
  <2> QED
    BY <2>1, <2>2, <2>6, <2>8, <2>9 DEF Polled
<1>13. CASE PtDrained(s) /\ ptResult' = "ok" /\ UNCHANGED ptOut
  <2>1. /\ ptFinish # "open"
        /\ \A t \in (1 .. ptNext) \ ptAbandoned : PtRoute(t) = s => PtCollected(t)
    BY <1>1, <1>4, <1>13, DrainedSlot
  <2>2. ASSUME NEW t \in 1 .. ptNext, PtUnbroken(t) PROVE PtCollected(t)
    <3>1. CASE t <= n
      <4>1. t \in 1 .. n /\ ptOut[t] = t
        BY <1>7, <2>2, <3>1
      <4> QED
        BY <1>5, <4>1 DEF PtCollected
    <3>2. CASE ~(t <= n)
      <4>1. n + 1 \in 1 .. t /\ n + 1 \in 1 .. ptNext
        BY <1>8, <3>2
      <4>2. PtUnbroken(n + 1)
        BY <1>9, <2>2, <4>1
      <4>3. n + 1 \notin ptAbandoned
        BY <4>2 DEF PtUnbroken
      <4>4. PICK j \in 1 .. n : ptOut[j] = n + 1
        BY <1>5, <1>6, <2>1, <4>1, <4>3 DEF PtCollected
      <4>5. PtUnbroken(j)
        BY <1>9, <4>2
      <4> QED
        BY <1>7, <4>4, <4>5
    <3> QED
      BY <3>1, <3>2
  <2>3. PtOkIsComplete'
    BY <1>1, <1>13, <2>2 DEF PtOkIsComplete, PtUnbroken, PtCollected
  <2> QED
    BY <1>1, <1>10, <1>13, <2>1, <2>3 DEF Polled
<1> QED
  BY <1>3, <1>11, <1>12, <1>13 DEF PtPollOrdered

\* Slots that hold different streams hold them all.
LEMMA EveryStream ==
  ASSUME NEW f \in [1 .. PtN -> PtC], \A i, j \in 1 .. PtN : f[i] = f[j] => i = j
  PROVE  \A c \in PtC : \E i \in 1 .. PtN : f[i] = c
<1>1. PtN \in Nat /\ IsFiniteSet(PtC) /\ Cardinality(PtC) = PtN
  BY StreamCount, FS_Interval
<1> QED
  BY <1>1, AllElements

LEMMA ArrivalPolled ==
  ASSUME PtTypeOK, PtTypeOK', PtStreamOrder, \A i \in DOMAIN ptOut : ptOut[i] <= Handed,
         NEW got \in [PtC -> Nat], NEW read \in [PtC -> Nat], NEW sent \in [PtC -> Seq(Nat)],
         Flows(got, read, sent), PtPollArrival
  PROVE  Polled
<1>1. /\ PtPolling /\ ptSort # "Ordered" /\ Len(ptSlots) = PtN /\ ptResult = "none"
      /\ UNCHANGED <<ptFixed, ptWriter, ptWire, ptSlots, ptHeld, ptRead>>
      /\ UNCHANGED <<ptKind, ptSort, ptNext, ptPending, ptAbandoned, ptFinish>>
  BY DEF PtPollArrival, PtPolling, ptFixed, ptWriter, PtTypeOK
<1>2. PtStreamOrder' => PtInOrder'
  BY <1>1 DEF PtInOrder
<1>3. Handed' = Handed
  BY <1>1 DEF Handed
<1>4. ASSUME UNCHANGED ptOut PROVE PtStreamOrder' /\ \A i \in DOMAIN ptOut' : ptOut'[i] <= Handed'
  BY <1>1, <1>3, <1>4 DEF PtStreamOrder, PtRoute
<1>5. ASSUME NEW s \in PtC, PtTake(s) PROVE Polled
  <2>1. CASE Head(ptStreams[s]) = PtCut
    <3>1. UNCHANGED ptOut /\ ptResult' = "err"
      BY <1>5, <2>1 DEF PtTake
    <3> QED
      BY <1>2, <1>4, <3>1 DEF Polled
  <2>2. CASE Head(ptStreams[s]) # PtCut
    <3>1. PICK c \in PtC, x \in Nat :
            /\ x <= Handed /\ ptOut' = Append(ptOut, x)
            /\ [got EXCEPT ![c] = got[c] + 1] \in [PtC -> Nat]
            /\ \A d \in PtC : Carrying(d, sent[d], read[d])'
            /\ \A d \in PtC : [got EXCEPT ![c] = got[c] + 1][d] <= read[d]
            /\ Reading([got EXCEPT ![c] = got[c] + 1], read, sent)'
            /\ Collected([got EXCEPT ![c] = got[c] + 1], sent)'
            /\ PtStreamOrder'
      BY <1>1, <1>5, <2>2, TakenFlows
    <3> DEFINE g == [got EXCEPT ![c] = got[c] + 1]
    <3>2. /\ g \in [PtC -> Nat] /\ \A d \in PtC : Carrying(d, sent[d], read[d])'
          /\ \A d \in PtC : g[d] <= read[d]
          /\ Reading(g, read, sent)' /\ Collected(g, sent)'
      BY <3>1
    <3> HIDE DEF g
    <3>3. Flows(g, read, sent)'
      BY <1>1, <3>2 DEF Flows
    <3>4. Flowing'
      BY <3>2, <3>3 DEF Flowing
    <3>5. ptResult' = "none"
      BY <1>1, <1>5, <2>2 DEF PtTake
    <3>6. \A i \in DOMAIN ptOut' : ptOut'[i] <= Handed'
      <4>1. ptOut \in Seq(Int) /\ x \in Int
        BY DEF PtTypeOK
      <4>2. ASSUME NEW i \in DOMAIN ptOut' PROVE ptOut'[i] = x \/ (i \in DOMAIN ptOut /\ ptOut'[i] = ptOut[i])
        BY <3>1, <4>1
      <4> QED
        BY <1>3, <3>1, <4>2
    <3> QED
      BY <1>2, <3>1, <3>4, <3>5, <3>6 DEF Polled
  <2> QED
    BY <2>1, <2>2
<1>6. CASE (\A s \in PtC : PtDrained(s)) /\ ptResult' = "ok" /\ UNCHANGED ptOut
  <2>1. PtN \in Nat \ {0} /\ 0 \in PtC /\ ptNext \in Nat
    BY StreamCount DEF PtTypeOK
  <2>2. ptFinish # "open"
    BY <1>1, <1>6, <2>1, DrainedSlot
  <2>3. ASSUME NEW t \in (1 .. ptNext) \ ptAbandoned PROVE PtCollected(t)
    <3>0. PICK c \in PtC : c = PtRoute(t)
      BY RouteType
    <3>2. /\ ptSlots \in [1 .. PtN -> PtC]
          /\ \A i, j \in 1 .. PtN : ptSlots[i] = ptSlots[j] => i = j
      BY <1>1, SeqFacts DEF PtTypeOK, Flows, Reading
    <3>3. PICK i \in 1 .. PtN : ptSlots[i] = c
      BY <3>2, EveryStream
    <3>4. i - 1 \in PtC /\ (i - 1) + 1 = i
      BY <2>1, StreamCount
    <3>5. \A u \in (1 .. ptNext) \ ptAbandoned : PtRoute(u) = c => PtCollected(u)
      BY <1>1, <1>6, <3>3, <3>4, DrainedSlot
    <3> QED
      BY <3>0, <3>5
  <2>4. PtOkIsComplete'
    BY <1>1, <1>6, <2>3 DEF PtOkIsComplete, PtCollected
  <2> QED
    BY <1>1, <1>2, <1>4, <1>6, <2>2, <2>4 DEF Polled
<1>7. \A o \in 0 .. PtN - 1 : (ptCursor + o) % PtN \in PtC
  <2>1. ptCursor \in Nat /\ PtN \in Nat \ {0} /\ PtC = 0 .. PtN - 1
    BY StreamCount DEF PtTypeOK
  <2> QED
    BY ONLY <2>1
<1> QED
  BY <1>5, <1>6, <1>7 DEF PtPollArrival

------------------------------------------------------------------------------
(* The invariant is inductive.                                             *)

LEMMA PtInvInit == PtInit => PtInv
<1> SUFFICES ASSUME PtInit PROVE PtInv
  OBVIOUS
<1>1. ptOut = <<>> /\ DOMAIN ptOut = {} /\ ptAbandoned = {}
  BY DEF PtInit
<1>2. PtStreamOrder /\ PtInOrder
  BY <1>1 DEF PtStreamOrder, PtInOrder
<1>3. ptPending = 0 /\ ptResult = "none" /\ \A c \in PtC : ptTask[c] # "failed"
  BY DEF PtInit
<1> QED
  BY <1>1, <1>2, <1>3, PtTypeInit, FlowsInit DEF PtInv

\* What is collected stays as it should be while nothing is.
LEMMA OrderKept ==
  ASSUME PtTypeOK, PtTypeOK', PtStreamOrder, PtInOrder, HandedOn, ptNext <= ptNext',
         \A i \in DOMAIN ptOut : ptOut[i] <= Handed,
         UNCHANGED <<ptSort, ptOut>>
  PROVE  PtStreamOrder' /\ PtInOrder' /\ \A i \in DOMAIN ptOut' : ptOut'[i] <= Handed'
<1>1. ptNext \in Nat /\ ptNext' \in Nat /\ Handed \in Nat /\ Handed' \in Nat
  <2>1. ptNext \in Nat /\ ptNext' \in Nat /\ Handed \in Nat
    BY HandedType DEF PtTypeOK
  <2>2. ptPending' \in {0, ptNext'}
    BY DEF PtTypeOK
  <2>3. Handed' \in Int
    BY <2>1, <2>2 DEF Handed
  <2> QED
    BY <2>1, <2>3 DEF HandedOn
<1>2. ASSUME NEW i \in DOMAIN ptOut
      PROVE  /\ ptOut[i] \in (1 .. ptNext') \ ptAbandoned' /\ ptOut[i] <= Handed'
             /\ \A j \in 1 .. i - 1 : ptOut[j] # ptOut[i]
             /\ \A t \in (1 .. ptOut[i] - 1) \ ptAbandoned' :
                  PtRoute(t) = PtRoute(ptOut[i]) => \E j \in 1 .. i - 1 : ptOut[j] = t
  <2>1. /\ ptOut[i] \in (1 .. ptNext) \ ptAbandoned /\ ptOut[i] <= Handed
        /\ \A j \in 1 .. i - 1 : ptOut[j] # ptOut[i]
        /\ \A t \in (1 .. ptOut[i] - 1) \ ptAbandoned :
             PtRoute(t) = PtRoute(ptOut[i]) => \E j \in 1 .. i - 1 : ptOut[j] = t
    BY DEF PtStreamOrder
  <2>2. ptOut[i] \notin ptAbandoned'
    BY <1>1, <2>1 DEF HandedOn
  <2>3. ptOut[i] \in 1 .. ptNext' /\ ptOut[i] <= Handed'
    BY <1>1, <2>1 DEF HandedOn
  <2>4. ptAbandoned \subseteq ptAbandoned'
    BY DEF HandedOn
  <2> QED
    BY <2>1, <2>2, <2>3, <2>4
<1>3. PtStreamOrder'
  BY <1>2 DEF PtStreamOrder, PtRoute
<1>4. \A i : PtUnbroken(i)' => PtUnbroken(i)
  BY DEF PtUnbroken, HandedOn
<1>5. PtInOrder'
  BY <1>3, <1>4 DEF PtInOrder, PtUnbroken
<1> QED
  BY <1>2, <1>3, <1>5

\* Steps that neither collect nor return.
LEMMA OthersKeep ==
  ASSUME PtInv, PtTypeOK', HandedOn, ptNext <= ptNext', UNCHANGED <<ptSort, ptOut, ptResult>>,
         ptFinish # "open" =>
           ptFinish' # "open" /\ ptNext' = ptNext /\ ptAbandoned' = ptAbandoned,
         ptFinish' # "open" => ptPending' = 0,
         \A t \in ptAbandoned' : t <= Handed',
         \A c \in PtC : ptTask'[c] = "failed" => ptEnd'[c] = "cut",
         ptResult = "none" => Flowing'
  PROVE  PtInv'
<1>1. PtStreamOrder' /\ PtInOrder' /\ \A i \in DOMAIN ptOut' : ptOut'[i] <= Handed'
  BY OrderKept DEF PtInv
<1>2. ptResult' = "ok" => ptFinish' # "open" /\ PtOkIsComplete'
  <2>1. ASSUME ptResult = "ok" PROVE ptFinish' # "open" /\ PtOkIsComplete'
    <3>1. /\ UNCHANGED <<ptNext, ptAbandoned, ptSort, ptOut, ptResult>>
          /\ ptFinish' # "open" /\ PtOkIsComplete
      BY <2>1 DEF PtInv
    <3> QED
      BY <3>1 DEF PtOkIsComplete, PtUnbroken, PtCollected
  <2> QED
    BY <2>1
<1>3. ptResult' = "none" => Flowing'
  OBVIOUS
<1> QED
  BY <1>1, <1>2, <1>3 DEF PtInv

\* Steps that do not touch the writer either.
LEMMA ReaderKeeps ==
  ASSUME PtInv, PtTypeOK', UNCHANGED <<ptSort, ptOut, ptResult, ptNext, ptPending, ptAbandoned>>,
         ptFinish' = ptFinish \/ (ptFinish' # "open" /\ ptPending = 0),
         \A c \in PtC : ptTask'[c] = "failed" => ptEnd'[c] = "cut",
         ptResult = "none" => Flowing'
  PROVE  PtInv'
<1>1. Handed' = Handed /\ Handed \in Nat /\ ptNext \in Nat
  BY HandedType DEF Handed, PtInv, PtTypeOK
<1>2. HandedOn /\ ptNext <= ptNext'
  BY <1>1 DEF HandedOn
<1>3. \A t \in ptAbandoned' : t <= Handed'
  BY <1>1 DEF PtInv
<1>4. /\ ptFinish # "open" =>
           ptFinish' # "open" /\ ptNext' = ptNext /\ ptAbandoned' = ptAbandoned
      /\ ptFinish' # "open" => ptPending' = 0
  BY DEF PtInv
<1> QED
  BY <1>2, <1>3, <1>4, OthersKeep

\* A stopped reader task, and a closed listener, only cut streams.
LEMMA CutsKeep ==
  ASSUME PtInv, PtTypeOK', ptResult # "none",
         UNCHANGED <<ptSort, ptOut, ptResult, ptTask, ptNext, ptPending, ptAbandoned, ptFinish>>,
         \A c \in PtC : ptEnd[c] = "cut" => ptEnd'[c] = "cut"
  PROVE  PtInv'
<1>1. \A c \in PtC : ptTask'[c] = "failed" => ptEnd'[c] = "cut"
  BY DEF PtInv
<1> QED
  BY <1>1, ReaderKeeps

LEMMA PtInvStep ==
  ASSUME PtInv, [PtNext]_ptvars, StreamsInPlace
  PROVE  PtInv'
<1>1. CASE UNCHANGED ptvars
  <2>1. UNCHANGED <<ptKind, ptSort, ptNext, ptPending, ptAbandoned, ptSenders, ptWork, ptTask,
                    ptFinish, ptNet, ptEnd, ptSlots, ptHeld, ptRead, ptStreams, ptCursor, ptOut,
                    ptResult>>
    BY <1>1 DEF ptvars, ptFixed, ptWriter, ptWire, ptTasks, ptMerge
  <2>2. PtTypeOK /\ PtTypeOK'
    BY <2>1 DEF PtInv, PtTypeOK
  <2>3. ASSUME NEW got \in [PtC -> Nat], NEW read \in [PtC -> Nat], NEW sent \in [PtC -> Seq(Nat)],
               Flows(got, read, sent)
        PROVE  Flows(got, read, sent)'
    <3>1. Handed' = Handed /\ Handed \in Nat /\ HandedOn
      BY <2>1, <2>2, HandedType DEF Handed, HandedOn
    <3>2. ASSUME NEW c \in PtC PROVE Carrying(c, sent[c], read[c])'
      <4>1. sent[c] \in Seq(Nat) /\ read[c] \in Nat /\ Carrying(c, sent[c], read[c])
        BY <2>3 DEF Flows
      <4>2. WholeSent(c, sent[c]) => WholeSent(c, sent[c])'
        BY <2>1, <3>1, WholeKept
      <4> QED
        BY <2>1, <2>2, <3>1, <4>1, <4>2, CarryingKept
    <3>3. UNCHANGED <<ptFixed, ptSlots, ptTasks, ptMerge>>
      BY <1>1 DEF ptvars
    <3> QED
      BY <2>1, <2>3, <3>2, <3>3, ReaderKept DEF Flows
  <2>4. ptResult = "none" => Flowing'
    BY <2>3 DEF PtInv, Flowing
  <2>5. \A c \in PtC : ptTask'[c] = "failed" => ptEnd'[c] = "cut"
    BY <2>1 DEF PtInv
  <2> QED
    BY <2>1, <2>2, <2>4, <2>5, ReaderKeeps
<1>2. CASE PtNext
  <2>0. PtTypeOK /\ PtTypeOK' /\ PtInv
    BY <1>2, PtTypeStep DEF PtInv
  <2>1. ASSUME ptResult = "none"
        PROVE  \E got, read \in [PtC -> Nat], sent \in [PtC -> Seq(Nat)] : Flows(got, read, sent)
    BY <2>1 DEF PtInv, Flowing
  <2>2. \A c \in PtC : ptTask[c] = "failed" => ptEnd[c] = "cut"
    BY DEF PtInv
  <2>3. CASE PtWriteTable
    <3>1. ptResult = "none" => Flowing'
      BY <2>0, <2>1, <2>3, WriteTableFlows DEF Flowing
    <3>2. /\ UNCHANGED <<ptSort, ptOut, ptResult, ptTask, ptEnd, ptFinish, ptAbandoned>>
          /\ ptFinish = "open" /\ ptNext' = ptNext + 1 /\ Handed' = Handed
          /\ Handed \in Nat /\ ptNext \in Nat
      BY <2>0, <2>3, HandedType DEF PtWriteTable, PtTypeOK, ptFixed, ptMerge, ptWire, Handed
    <3>3. HandedOn /\ ptNext <= ptNext' /\ \A t \in ptAbandoned' : t <= Handed'
      BY <3>2 DEF HandedOn, PtInv
    <3> QED
      BY <2>0, <2>2, <3>1, <3>2, <3>3, OthersKeep
  <2>4. CASE PtQueued
    <3>0. \A t \in ptAbandoned : t <= Handed
      BY DEF PtInv
    <3>1. ptResult = "none" => Flowing'
      BY <2>0, <2>1, <2>2, <2>4, <3>0, QueuedFlows
    <3>2. /\ UNCHANGED <<ptSort, ptOut, ptResult, ptTask, ptEnd, ptFinish, ptNext, ptAbandoned>>
          /\ ptPending' = 0 /\ Handed' = Handed + 1 /\ Handed \in Nat /\ ptNext \in Nat
      BY <2>0, <2>4, HandedType DEF PtQueued, PtTypeOK, ptFixed, ptMerge, ptWire, Handed
    <3>3. HandedOn /\ ptNext <= ptNext'
      BY <3>2 DEF HandedOn
    <3>4. \A t \in ptAbandoned' : t <= Handed'
      <4>1. ptAbandoned \subseteq Nat
        BY <2>0 DEF PtTypeOK
      <4> QED
        BY <3>0, <3>2, <4>1
    <3> QED
      BY <2>0, <2>2, <3>1, <3>2, <3>3, <3>4, OthersKeep
  <2>5. CASE PtAbandon
    <3>0. \A t \in ptAbandoned : t <= Handed
      BY DEF PtInv
    <3>1. ptResult = "none" => Flowing'
      BY <2>0, <2>1, <2>5, AbandonFlows DEF Flowing
    <3>2. /\ UNCHANGED <<ptSort, ptOut, ptResult, ptTask, ptEnd, ptFinish, ptNext>>
          /\ ptPending \in Nat \ {0} /\ ptPending' = 0 /\ ptPending = Handed + 1
          /\ ptAbandoned' = ptAbandoned \cup {ptPending} /\ Handed' = ptPending
          /\ Handed \in Nat /\ ptNext \in Nat
      BY <2>0, <2>5, HandedType DEF PtAbandon, PtTypeOK, ptFixed, ptMerge, ptWire, Handed
    <3>3. HandedOn /\ ptNext <= ptNext'
      BY <3>2 DEF HandedOn
    <3>4. \A t \in ptAbandoned' : t <= Handed'
      <4>1. ptAbandoned \subseteq Nat
        BY <2>0 DEF PtTypeOK
      <4> QED
        BY <3>0, <3>2, <4>1
    <3>5. ptFinish = "open"
      BY <3>2 DEF PtInv
    <3> QED
      BY <2>0, <2>2, <3>1, <3>2, <3>3, <3>4, <3>5, OthersKeep
  <2>6. CASE PtFinishCall \/ PtFinished
    <3>1. ptResult = "none" => Flowing'
      BY <2>0, <2>1, <2>6, FinishFlows DEF Flowing
    <3>2. /\ UNCHANGED <<ptSort, ptOut, ptResult, ptTask, ptEnd, ptNext, ptPending, ptAbandoned>>
          /\ ptFinish' # "open"
      BY <2>6 DEF PtFinishCall, PtFinished, ptFixed, ptMerge, ptWire
    <3>3. ptPending = 0
      BY <2>6 DEF PtInv, PtFinishCall, PtFinished
    <3> QED
      BY <2>0, <2>2, <3>1, <3>2, <3>3, ReaderKeeps
  <2>7. ASSUME NEW lost, lost \subseteq PtC, PtLost(lost) PROVE PtInv'
    <3>1. ptResult = "none" => Flowing'
      BY <2>0, <2>1, <2>7, LostFlows DEF Flowing
    <3>2. UNCHANGED <<ptSort, ptOut, ptResult, ptTask, ptNext, ptPending, ptAbandoned, ptFinish>>
      BY <2>7 DEF PtLost, ptFixed, ptMerge, ptWriter
    <3>3. \A c \in PtC : ptTask'[c] = "failed" => ptEnd'[c] = "cut"
      BY <2>2, <2>7, <3>2 DEF PtLost
    <3> QED
      BY <2>0, <3>1, <3>2, <3>3, ReaderKeeps
  <2>8. CASE PtStreamLost \/ PtConnectionLost
    BY <2>7, <2>8 DEF PtStreamLost, PtConnectionLost
  <2>9. CASE PtAccept
    <3>1. ptResult = "none" => Flowing'
      BY <2>0, <2>1, <2>9, AcceptFlows DEF Flowing
    <3>2. UNCHANGED <<ptSort, ptOut, ptResult, ptTask, ptNext, ptPending, ptAbandoned, ptFinish,
                      ptEnd>>
      BY <2>9 DEF PtAccept, ptFixed, ptMerge, ptWriter, ptWire
    <3> QED
      BY <2>0, <2>2, <3>1, <3>2, ReaderKeeps
  <2>10. CASE PtAcceptFails
    <3>1. /\ UNCHANGED <<ptSort, ptOut, ptTask, ptNext, ptPending, ptAbandoned, ptFinish, ptEnd>>
          /\ ptResult' = "err"
      BY <2>10 DEF PtAcceptFails, ptFixed, ptWriter
    <3>2. PtStreamOrder' /\ PtInOrder' /\ Handed' = Handed
      BY <3>1 DEF PtInv, PtStreamOrder, PtInOrder, PtUnbroken, Handed
    <3> QED
      BY <2>0, <3>1, <3>2 DEF PtInv
  <2>11. ASSUME Polled, UNCHANGED <<ptFixed, ptWriter, ptWire>> PROVE PtInv'
    <3>1. UNCHANGED <<ptTask, ptNext, ptPending, ptAbandoned, ptFinish, ptEnd>>
      BY <2>11 DEF ptWriter, ptWire
    <3>2. Handed' = Handed
      BY <3>1 DEF Handed
    <3> QED
      BY <2>0, <2>11, <3>1, <3>2 DEF Polled, PtInv
  <2>12. PtStreamOrder /\ PtInOrder /\ \A i \in DOMAIN ptOut : ptOut[i] <= Handed
    BY DEF PtInv
  <2>13. CASE PtPollOrdered
    <3>1. ptResult = "none"
      BY <2>13 DEF PtPollOrdered, PtPolling
    <3>2. PICK got \in [PtC -> Nat], read \in [PtC -> Nat], sent \in [PtC -> Seq(Nat)] :
            Flows(got, read, sent)
      BY <2>1, <3>1
    <3>3. Polled
      BY <2>0, <2>12, <2>13, <3>2, OrderedPolled
    <3> QED
      BY <2>11, <2>13, <3>3 DEF PtPollOrdered
  <2>14. CASE PtPollArrival
    <3>1. ptResult = "none"
      BY <2>14 DEF PtPollArrival, PtPolling
    <3>2. PICK got \in [PtC -> Nat], read \in [PtC -> Nat], sent \in [PtC -> Seq(Nat)] :
            Flows(got, read, sent)
      BY <2>1, <3>1
    <3>3. Polled
      BY <2>0, <2>12, <2>14, <3>2, ArrivalPolled
    <3> QED
      BY <2>11, <2>14, <3>3 DEF PtPollArrival
  <2>15. CASE PtReaderDropped
    <3>1. /\ UNCHANGED <<ptSort, ptOut, ptResult, ptTask, ptNext, ptPending, ptAbandoned, ptFinish>>
          /\ ptResult # "none" /\ \A c \in PtC : ptEnd'[c] = "cut"
      BY <2>15 DEF PtReaderDropped, ptFixed, ptMerge, ptWriter
    <3> QED
      BY <2>0, <3>1, CutsKeep
  <2>16. CASE PtListenerClosed
    <3>1. /\ UNCHANGED <<ptSort, ptOut, ptResult, ptTask, ptNext, ptPending, ptAbandoned, ptFinish>>
          /\ ptResult # "none"
      BY <2>16 DEF PtListenerClosed, PtDetached, ptFixed, ptMerge, ptWriter
    <3>2. \A c \in PtC : ptEnd[c] = "cut" => ptEnd'[c] = "cut"
      BY <2>16 DEF PtListenerClosed
    <3> QED
      BY <2>0, <3>1, <3>2, CutsKeep
  <2>17. ASSUME NEW c \in PtC, PtWriterTask(c) PROVE PtInv'
    <3>1. ptFinish # "open" => ptPending = 0
      BY DEF PtInv
    <3>2. ptResult = "none" => Flowing'
      BY <2>0, <2>1, <2>17, <3>1, TakesFlows, WritesFlows, EndsFlows DEF PtWriterTask, Flowing
    <3>3. UNCHANGED <<ptSort, ptOut, ptResult, ptNext, ptPending, ptAbandoned, ptFinish>>
      BY <2>17
      DEF PtWriterTask, PtTaskTakes, PtTaskWrites, PtTaskFinishes, PtTaskFails, ptFixed, ptMerge
    <3>4. \A d \in PtC : ptTask'[d] = "failed" => ptEnd'[d] = "cut"
      <4>1. CASE PtTaskTakes(c) \/ PtTaskWrites(c)
        BY <2>2, <4>1 DEF PtTaskTakes, PtTaskWrites, ptWire
      <4>2. CASE PtTaskFinishes(c)
        BY <2>0, <2>2, <4>2 DEF PtTaskFinishes, PtTypeOK
      <4>3. CASE PtTaskFails(c)
        BY <2>0, <2>2, <4>3 DEF PtTaskFails, PtTypeOK, ptWire
      <4> QED
        BY <2>17, <4>1, <4>2, <4>3 DEF PtWriterTask
    <3> QED
      BY <2>0, <3>2, <3>3, <3>4, ReaderKeeps
  <2>18. ASSUME NEW s \in PtC, PtTaskReads(s) \/ PtTaskSends(s) PROVE PtInv'
    <3>1. ptResult = "none" => Flowing'
      BY <2>0, <2>1, <2>18, ReadsFlows, SendsFlows DEF Flowing
    <3>2. UNCHANGED <<ptSort, ptOut, ptResult, ptNext, ptPending, ptAbandoned, ptFinish, ptTask,
                      ptEnd>>
      BY <2>18 DEF PtTaskReads, PtTaskSends, ptFixed, ptMerge, ptWriter, ptWire
    <3> QED
      BY <2>0, <2>2, <3>1, <3>2, ReaderKeeps
  <2>19. ASSUME NEW s \in PtC, PtTaskStops(s) PROVE PtInv'
    <3>1. /\ UNCHANGED <<ptSort, ptOut, ptResult, ptTask, ptNext, ptPending, ptAbandoned, ptFinish>>
          /\ ptResult # "none"
      BY <2>19 DEF PtTaskStops, PtDetached, ptFixed, ptMerge, ptWriter
    <3>2. \A c \in PtC : ptEnd[c] = "cut" => ptEnd'[c] = "cut"
      BY <2>0, <2>19 DEF PtTaskStops, PtTypeOK
    <3> QED
      BY <2>0, <3>1, <3>2, CutsKeep
  <2> QED
    BY <1>2, <2>3, <2>4, <2>5, <2>6, <2>8, <2>9, <2>10, <2>13, <2>14, <2>15, <2>16, <2>17, <2>18,
       <2>19
    DEF PtNext, PtPoll, PtReaderTask
<1> QED
  BY <1>1, <1>2

\* The tables of a stream come out in the order of their write_table calls, none
\* left out but those whose call was dropped; an ordered reader collects the tables
\* in that order without a gap, up to the first dropped call: on every transport,
\* whatever is lost on the way, as long as the TCP connections are accepted in the
\* order they were made (accept numbers the streams, no header does).
THEOREM TablesInOrderHolds ==
  ASSUME StreamsInPlace
  PROVE  PtSpec => []PtInOrder
<1>1. PtInit => PtInv
  BY PtInvInit
<1>2. PtInv /\ [PtNext]_ptvars => PtInv'
  BY PtInvStep
<1>3. PtInv => PtInOrder
  BY DEF PtInv
<1> QED
  BY <1>1, <1>2, <1>3, PTL DEF PtSpec

\* An Ok of read_all_tables means that every table was collected whose write_table
\* was not dropped - for an ordered reader, every table before the first that was;
\* it loses some behind it.  A stream that is cut short puts an error behind its
\* tables, and the slots end only behind the writer's finish.
THEOREM TablesOkComplete ==
  ASSUME StreamsInPlace
  PROVE  PtSpec => []PtOkIsComplete
<1>1. PtInit => PtInv
  BY PtInvInit
<1>2. PtInv /\ [PtNext]_ptvars => PtInv'
  BY PtInvStep
<1>3. PtInv => PtOkIsComplete
  BY DEF PtInv, PtOkIsComplete
<1> QED
  BY <1>1, <1>2, <1>3, PTL DEF PtSpec

==============================================================================
