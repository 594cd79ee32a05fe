---------------------- MODULE ParallelLightstreamProofs ----------------------
(***************************************************************************)
(* The type invariant of ParallelLightstream, the global order of an       *)
(* Ordered reader, that it implements OrderedDelivery, and completeness,   *)
(* for every number of connections, channel depth, counter width and bound *)
(* on sends and failures, from the inductive invariant Structure and what  *)
(* it says of the frames on their way.                                     *)
(***************************************************************************)
EXTENDS ParallelLightstream, SequenceTheorems, TLAPS

------------------------------------------------------------------------------
(* The inductive invariant.                                                *)

\* How far connect and finish have come; what goes with each writer task.
WriterStages ==
  /\ phase = "connecting" => opened < N /\ next = 0 /\ pending = <<>>
  /\ phase = "finishing" => joined < N
  /\ phase \in {"connecting", "open", "dropped"} => joined = 0
  /\ pending # <<>> => pending[1] = next - 1
  /\ SendersDropped => pending = <<>>
  /\ \A c \in Conn :
       /\ c >= opened => tail[c] = "none"
       /\ tail[c] = "none" => senders[c] = <<>> /\ held[c] = <<>> /\ net[c] = <<>>
       /\ wtask[c] = "run" => tail[c] \in {"open", "rst"}
       /\ tail[c] = "open" => wtask[c] = "run"
       /\ tail[c] = "rst" => net[c] = <<>>
       /\ wtask[c] = "none" <=> tail[c] = "none"
       /\ wtask[c] \in {"ok", "err"} => held[c] = <<>> /\ senders[c] = <<>>
       /\ wtask[c] = "ok" => SendersDropped

\* A slot is fed by the connection of its own index, and what its task is
\* doing goes with the errors it has produced.
Slot(s) ==
  /\ from[s] \in {None, s}
  /\ rtask[s] = "none" => rheld[s] = <<>> /\ streams[s] = <<>>
  /\ rtask[s] # "none" <=> from[s] = s
  /\ rtask[s] = "run" => \A i \in DOMAIN rheld[s] : rheld[s][i] # Err
  /\ rtask[s] = "failing" => rheld[s] = <<Err>>
  /\ rtask[s] = "done" => rheld[s] = <<>>
  /\ rtask[s] # "done" => \A i \in DOMAIN streams[s] : streams[s][i] # Err

Slots ==
  /\ \A s \in Conn : Slot(s)
  /\ reader \in {"reading", "ended", "dropped"} => \A s \in Conn : from[s] # None

Structure == TypeOK /\ WriterStages /\ Slots
------------------------------------------------------------------------------
(* The rotation picks a connection.                                        *)

LEMMA RouteType ==
  \A k \in Nat : Route(k) \in Conn /\ Target(k) = Route(k)
BY ConstantsAssumption DEF Route, Target, Conn

(* Structure is inductive: types, writer stages, slots.                     *)

LEMMA StructureInit == Init => Structure
BY ConstantsAssumption
   DEF Init, Structure, TypeOK, WriterTypeOK, ConnTypeOK, ReaderTypeOK,
       WriterStages, SendersDropped, Slots, Slot, Conn, None, Err, Items

LEMMA Singleton ==
  ASSUME NEW S, NEW x \in S
  PROVE  <<x>> \in Seq(S) /\ Len(<<x>>) = 1
OBVIOUS

LEMMA NonEmpty ==
  ASSUME NEW S, NEW q \in Seq(S), q # <<>>
  PROVE  /\ Head(q) \in S /\ Tail(q) \in Seq(S)
         /\ q[1] = Head(q) /\ Len(q) > 0
OBVIOUS

LEMMA HoldOne ==
  ASSUME NEW S, NEW f \in [Conn -> Seq(S)], \A d \in Conn : Len(f[d]) <= 1,
         NEW c \in Conn, NEW x \in Seq(S), Len(x) <= 1
  PROVE  /\ [f EXCEPT ![c] = x] \in [Conn -> Seq(S)]
         /\ \A d \in Conn : Len([f EXCEPT ![c] = x][d]) <= 1
OBVIOUS

\* Every step keeps every variable in its type.
LEMMA TypeStep == Structure /\ [Next]_vars => TypeOK'
<1> SUFFICES ASSUME TypeOK, WriterStages, Slots, [Next]_vars PROVE TypeOK'
  BY DEF Structure
<1> USE ConstantsAssumption DEF TypeOK, Conn, None
<1>1. CASE Connect
  <2>1. (wtask \in [Conn -> {"none", "run", "ok", "err"}])'
    BY <1>1 DEF Connect, ConnTypeOK, WriterTypeOK, WriterStages
  <2>2. (tail \in [Conn -> {"none", "open", "fin", "cut", "rst"}])'
    BY <1>1 DEF Connect, ConnTypeOK, WriterTypeOK, WriterStages
  <2>3. (opened \in 0 .. N)'
    <3>1. opened < N
      BY <1>1 DEF Connect, WriterStages
    <3>2. QED
      BY <1>1, <3>1 DEF Connect, WriterTypeOK
  <2>4. (phase \in {"connecting", "open", "finishing", "finished", "dropped"})'
    BY <1>1 DEF Connect, WriterTypeOK
  <2>5. QED
    BY <1>1, <2>1, <2>2, <2>3, <2>4
    DEF Connect, writerVars, taskVars, netVars, rtaskVars, mergeVars, WriterTypeOK, ConnTypeOK, ReaderTypeOK
<1>2. CASE ConnectFails
  <2>1. (phase \in {"connecting", "open", "finishing", "finished", "dropped"})'
    BY <1>2 DEF ConnectFails, WriterTypeOK
  <2>2. (faults \in Nat)'
    BY <1>2 DEF ConnectFails
  <2>3. QED
    BY <1>2, <2>1, <2>2
    DEF ConnectFails, writerVars, taskVars, netVars, rtaskVars, mergeVars, WriterTypeOK, ConnTypeOK, ReaderTypeOK
<1>3. CASE RouteCall
  <2>1. (pending \in Seq(Nat) /\ Len(pending) <= 1)'
    BY <1>3 DEF RouteCall, WriterTypeOK
  <2>2. (next \in Nat)'
    BY <1>3 DEF RouteCall, WriterTypeOK
  <2>3. QED
    BY <1>3, <2>1, <2>2
    DEF RouteCall, writerVars, taskVars, netVars, rtaskVars, mergeVars, WriterTypeOK, ConnTypeOK, ReaderTypeOK
<1>4. CASE RouteDeliver
  <2>1. (senders \in [Conn -> Seq(Nat)])'
    <3>0. pending \in Seq(Nat) /\ pending # <<>>
      BY <1>4 DEF RouteDeliver, WriterTypeOK
    <3>1. pending[1] \in Nat
      BY <3>0, NonEmpty
    <3>2. Route(pending[1]) \in Conn
      BY <3>1, RouteType
    <3>3. Append(senders[Route(pending[1])], pending[1]) \in Seq(Nat)
      BY <3>1, <3>2 DEF ConnTypeOK
    <3>4. QED
      BY <1>4, <3>2, <3>3 DEF RouteDeliver, ConnTypeOK
  <2>2. (pending \in Seq(Nat) /\ Len(pending) <= 1)'
    BY <1>4, RouteType DEF RouteDeliver, WriterTypeOK
  <2>3. QED
    BY <1>4, <2>1, <2>2
    DEF RouteDeliver, writerVars, taskVars, netVars, rtaskVars, mergeVars, WriterTypeOK, ConnTypeOK, ReaderTypeOK
<1>5. CASE RouteBroken
  <2>1. (pending \in Seq(Nat) /\ Len(pending) <= 1)'
    BY <1>5 DEF RouteBroken, WriterTypeOK
  <2>2. QED
    BY <1>5, <2>1
    DEF RouteBroken, writerVars, taskVars, netVars, rtaskVars, mergeVars, WriterTypeOK, ConnTypeOK, ReaderTypeOK
<1>6. CASE Finish
  <2>1. (phase \in {"connecting", "open", "finishing", "finished", "dropped"})'
    BY <1>6 DEF Finish, WriterTypeOK
  <2>2. QED
    BY <1>6, <2>1
    DEF Finish, writerVars, taskVars, netVars, rtaskVars, mergeVars, WriterTypeOK, ConnTypeOK, ReaderTypeOK
<1>7. CASE JoinTask
  <2>1. (firstErr \in BOOLEAN)'
    BY <1>7 DEF JoinTask, WriterTypeOK
  <2>2. (joined \in 0 .. N)'
    BY <1>7 DEF JoinTask, WriterTypeOK, WriterStages
  <2>3. (phase \in {"connecting", "open", "finishing", "finished", "dropped"})'
    BY <1>7 DEF JoinTask, WriterTypeOK
  <2>4. QED
    BY <1>7, <2>1, <2>2, <2>3
    DEF JoinTask, writerVars, taskVars, netVars, rtaskVars, mergeVars, WriterTypeOK, ConnTypeOK, ReaderTypeOK
<1>8. ASSUME NEW c \in Conn, TaskRecv(c) PROVE TypeOK'
  <2>1. (held \in [Conn -> Seq(Nat)] /\ \A d \in Conn : Len(held[d]) <= 1)'
    <3>1. <<Head(senders[c])>> \in Seq(Nat) /\ Len(<<Head(senders[c])>>) = 1
      BY <1>8, NonEmpty, Singleton DEF TaskRecv, ConnTypeOK
    <3>2. held' = [held EXCEPT ![c] = <<Head(senders[c])>>]
      BY <1>8 DEF TaskRecv
    <3>3. QED
      BY <3>1, <3>2, HoldOne DEF ConnTypeOK
  <2>2. (senders \in [Conn -> Seq(Nat)])'
    BY <1>8 DEF TaskRecv, ConnTypeOK
  <2>3. QED
    BY <1>8, <2>1, <2>2
    DEF TaskRecv, writerVars, taskVars, netVars, rtaskVars, mergeVars, WriterTypeOK, ConnTypeOK, ReaderTypeOK
<1>9. ASSUME NEW c \in Conn, TaskWrite(c) PROVE TypeOK'
  <2>1. (net \in [Conn -> Seq(Nat)])'
    <3>0. held[c] \in Seq(Nat) /\ held[c] # <<>>
      BY <1>9 DEF TaskWrite, ConnTypeOK
    <3>1. held[c][1] \in Nat
      BY <3>0, NonEmpty
    <3>2. Append(net[c], held[c][1]) \in Seq(Nat)
      BY <3>1 DEF ConnTypeOK
    <3>3. QED
      BY <1>9, <3>2 DEF TaskWrite, ConnTypeOK
  <2>2. (held \in [Conn -> Seq(Nat)] /\ \A d \in Conn : Len(held[d]) <= 1)'
    BY <1>9, Singleton DEF TaskWrite, ConnTypeOK
  <2>3. QED
    BY <1>9, <2>1, <2>2
    DEF TaskWrite, writerVars, taskVars, netVars, rtaskVars, mergeVars, WriterTypeOK, ConnTypeOK, ReaderTypeOK
<1>10. ASSUME NEW c \in Conn, TaskClose(c) PROVE TypeOK'
  <2>1. (wtask \in [Conn -> {"none", "run", "ok", "err"}])'
    BY <1>10 DEF TaskClose, ConnTypeOK
  <2>2. (tail \in [Conn -> {"none", "open", "fin", "cut", "rst"}])'
    BY <1>10 DEF TaskClose, ConnTypeOK
  <2>3. QED
    BY <1>10, <2>1, <2>2
    DEF TaskClose, writerVars, taskVars, netVars, rtaskVars, mergeVars, WriterTypeOK, ConnTypeOK, ReaderTypeOK
<1>11. ASSUME NEW c \in Conn, TaskFails(c) PROVE TypeOK'
  <2>1. (tail \in [Conn -> {"none", "open", "fin", "cut", "rst"}])'
    BY <1>11 DEF TaskFails, ConnTypeOK
  <2>2. (faults \in Nat)'
    BY <1>11 DEF TaskFails
  <2>3. (wtask \in [Conn -> {"none", "run", "ok", "err"}])'
    BY <1>11 DEF TaskFails, ConnTypeOK
  <2>4. (senders \in [Conn -> Seq(Nat)])'
    BY <1>11 DEF TaskFails, ConnTypeOK
  <2>5. (held \in [Conn -> Seq(Nat)] /\ \A d \in Conn : Len(held[d]) <= 1)'
    <3>1. held' = [held EXCEPT ![c] = <<>>]
      BY <1>11 DEF TaskFails
    <3>2. QED
      BY <3>1 DEF ConnTypeOK
  <2>6. QED
    BY <1>11, <2>1, <2>2, <2>3, <2>4, <2>5
    DEF TaskFails, writerVars, taskVars, netVars, rtaskVars, mergeVars, WriterTypeOK, ConnTypeOK, ReaderTypeOK
<1>12. ASSUME NEW c \in Conn, Reset(c) PROVE TypeOK'
  <2>1. (tail \in [Conn -> {"none", "open", "fin", "cut", "rst"}])'
    BY <1>12 DEF Reset, ConnTypeOK
  <2>2. (net \in [Conn -> Seq(Nat)])'
    BY <1>12 DEF Reset, ConnTypeOK
  <2>3. (faults \in Nat)'
    BY <1>12 DEF Reset
  <2>4. QED
    BY <1>12, <2>1, <2>2, <2>3
    DEF Reset, writerVars, taskVars, netVars, rtaskVars, mergeVars, WriterTypeOK, ConnTypeOK, ReaderTypeOK
<1>13. CASE Accept
  <2>1. (from \in [Conn -> Conn \cup {None}])'
    BY <1>13 DEF Accept, ReaderTypeOK, WriterTypeOK, AnnouncedIndex
  <2>2. (rtask \in [Conn -> {"none", "run", "failing", "done"}])'
    BY <1>13 DEF Accept, ReaderTypeOK, WriterTypeOK, AnnouncedIndex
  <2>3. (reader \in {"accepting", "reading", "ended", "dropped", "failed"})'
    BY <1>13 DEF Accept, ReaderTypeOK, AnnouncedIndex
  <2>4. QED
    BY <1>13, <2>1, <2>2, <2>3
    DEF Accept, writerVars, taskVars, netVars, rtaskVars, mergeVars, WriterTypeOK, ConnTypeOK, ReaderTypeOK
<1>14. CASE AcceptFails
  <2>1. (reader \in {"accepting", "reading", "ended", "dropped", "failed"})'
    BY <1>14 DEF AcceptFails, ReaderTypeOK
  <2>2. (streams \in [Conn -> Seq(Items)])'
    BY <1>14 DEF AcceptFails, ReaderTypeOK, Items, Err
  <2>3. QED
    BY <1>14, <2>1, <2>2
    DEF AcceptFails, writerVars, taskVars, netVars, rtaskVars, mergeVars, WriterTypeOK, ConnTypeOK, ReaderTypeOK
<1>15. ASSUME NEW s \in Conn, ReadFrame(s) PROVE TypeOK'
  <2>1. (rheld \in [Conn -> Seq(Items)] /\ \A d \in Conn : Len(rheld[d]) <= 1)'
    <3>1. from[s] = s /\ net[s] \in Seq(Nat) /\ net[s] # <<>>
      BY <1>15 DEF ReadFrame, ConnTypeOK, Slots, Slot
    <3>2. Head(net[s]) \in Items
      BY <3>1, NonEmpty DEF Items
    <3>3. <<Head(net[s])>> \in Seq(Items) /\ Len(<<Head(net[s])>>) = 1
      BY <3>2, Singleton
    <3>4. PICK x \in Seq(Items) : Len(x) = 1 /\ rheld' = [rheld EXCEPT ![s] = x]
      BY <1>15, <3>1, <3>3 DEF ReadFrame
    <3>5. rheld \in [Conn -> Seq(Items)] /\ \A d \in Conn : Len(rheld[d]) <= 1
      BY DEF ReaderTypeOK
    <3>6. /\ [rheld EXCEPT ![s] = x] \in [Conn -> Seq(Items)]
          /\ \A d \in Conn : Len([rheld EXCEPT ![s] = x][d]) <= 1
      BY ONLY ConstantsAssumption, <1>15, <3>4, <3>5, HoldOne
    <3>7. QED
      BY <3>4, <3>6
  <2>2. (net \in [Conn -> Seq(Nat)])'
    <3>1. from[s] = s /\ net[s] \in Seq(Nat) /\ net[s] # <<>>
      BY <1>15 DEF ReadFrame, ConnTypeOK, Slots, Slot
    <3>2. net' = [net EXCEPT ![s] = Tail(@)] /\ Tail(net[s]) \in Seq(Nat)
      BY <1>15, <3>1, NonEmpty DEF ReadFrame
    <3>3. QED
      BY <3>2 DEF ConnTypeOK
  <2>3. QED
    BY <1>15, <2>1, <2>2
    DEF ReadFrame, writerVars, taskVars, netVars, rtaskVars, mergeVars, WriterTypeOK, ConnTypeOK, ReaderTypeOK
<1>16. ASSUME NEW s \in Conn, ReadEnd(s) PROVE TypeOK'
  <2>1. (rtask \in [Conn -> {"none", "run", "failing", "done"}])'
    BY <1>16 DEF ReadEnd, ReaderTypeOK
  <2>2. QED
    BY <1>16, <2>1
    DEF ReadEnd, writerVars, taskVars, netVars, rtaskVars, mergeVars, WriterTypeOK, ConnTypeOK, ReaderTypeOK
<1>17. ASSUME NEW s \in Conn, ReadError(s) PROVE TypeOK'
  <2>1. (faults \in Nat)'
    BY <1>17 DEF ReadError
  <2>2. (rheld \in [Conn -> Seq(Items)] /\ \A d \in Conn : Len(rheld[d]) <= 1)'
    <3>1. <<Err>> \in Seq(Items) /\ Len(<<Err>>) = 1
      BY Singleton DEF Items
    <3>2. rheld' = [rheld EXCEPT ![s] = <<Err>>]
      BY <1>17 DEF ReadError
    <3>3. QED
      BY <3>1, <3>2, HoldOne DEF ReaderTypeOK
  <2>3. (rtask \in [Conn -> {"none", "run", "failing", "done"}])'
    BY <1>17 DEF ReadError, ReaderTypeOK
  <2>4. QED
    BY <1>17, <2>1, <2>2, <2>3
    DEF ReadError, writerVars, taskVars, netVars, rtaskVars, mergeVars, WriterTypeOK, ConnTypeOK, ReaderTypeOK
<1>18. ASSUME NEW s \in Conn, TaskSend(s) PROVE TypeOK'
  <2>1. (streams \in [Conn -> Seq(Items)])'
    <3>1. rheld[s] \in Seq(Items) /\ rheld[s] # <<>> /\ streams[s] \in Seq(Items)
      BY <1>18 DEF TaskSend, ReaderTypeOK
    <3>2. rheld[s][1] \in Items
      BY <3>1, NonEmpty
    <3>3. Append(streams[s], rheld[s][1]) \in Seq(Items)
      BY <3>1, <3>2
    <3>4. QED
      BY <1>18, <3>3 DEF TaskSend, ReaderTypeOK
  <2>2. (rheld \in [Conn -> Seq(Items)] /\ \A d \in Conn : Len(rheld[d]) <= 1)'
    BY <1>18, Singleton DEF TaskSend, ReaderTypeOK, Items, Err
  <2>3. (rtask \in [Conn -> {"none", "run", "failing", "done"}])'
    BY <1>18 DEF TaskSend, ReaderTypeOK
  <2>4. QED
    BY <1>18, <2>1, <2>2, <2>3
    DEF TaskSend, writerVars, taskVars, netVars, rtaskVars, mergeVars, WriterTypeOK, ConnTypeOK, ReaderTypeOK
<1>19. CASE PollOrdered
  <2> DEFINE idx == Target(cursor)
  <2>1. idx \in Conn /\ streams[idx] \in Seq(Items)
    BY RouteType DEF ReaderTypeOK
  <2>2. CASE /\ streams[idx] # <<>> /\ Yield(idx)
             /\ cursor' = cursor + 1 /\ UNCHANGED reader
    <3>1. Head(streams[idx]) \in Items /\ Tail(streams[idx]) \in Seq(Items)
      BY <2>1, <2>2, NonEmpty
    <3>2. (emitted \in Seq(Items) /\ streams \in [Conn -> Seq(Items)])'
      BY <2>1, <2>2, <3>1 DEF Yield, ReaderTypeOK
    <3>3. (cursor \in Nat)'
      BY <2>2 DEF ReaderTypeOK
    <3>4. QED
      BY <1>19, <2>2, <3>2, <3>3
      DEF PollOrdered, writerVars, taskVars, netVars, rtaskVars, WriterTypeOK,
          ConnTypeOK, ReaderTypeOK
  <2>3. CASE /\ reader' = "ended" /\ UNCHANGED <<cursor, emitted, streams>>
    BY <1>19, <2>3
    DEF PollOrdered, writerVars, taskVars, netVars, rtaskVars, WriterTypeOK,
        ConnTypeOK, ReaderTypeOK
  <2>4. QED
    BY <1>19, <2>2, <2>3 DEF PollOrdered
<1>20. CASE PollArrival
  <2>1. (closed \in [Conn -> BOOLEAN])'
    BY <1>20 DEF PollArrival, ReaderTypeOK
  <2>2. (emitted \in Seq(Items) /\ streams \in [Conn -> Seq(Items)] /\ cursor \in Nat)'
    <3>1. CASE UNCHANGED <<cursor, emitted, streams>>
      BY <3>1 DEF ReaderTypeOK
    <3>2. CASE \E i \in Conn : streams[i] # <<>> /\ Yield(i) /\ cursor' = (i + 1) % N
      <4>1. PICK i \in Conn : streams[i] # <<>> /\ Yield(i) /\ cursor' = (i + 1) % N
        BY <3>2
      <4>2. Head(streams[i]) \in Items /\ Tail(streams[i]) \in Seq(Items)
        BY <4>1, NonEmpty DEF ReaderTypeOK
      <4>3. QED
        BY <4>1, <4>2 DEF Yield, ReaderTypeOK
    <3>3. \A off \in 0 .. N - 1 : (cursor + off) % N \in Conn
      BY DEF ReaderTypeOK
    <3>4. QED
      BY <1>20, <3>1, <3>2, <3>3 DEF PollArrival
  <2>3. QED
    BY <1>20, <2>1, <2>2
    DEF PollArrival, writerVars, taskVars, netVars, rtaskVars, WriterTypeOK,
        ConnTypeOK, ReaderTypeOK
<1>21. CASE ReaderDrop
  <2>1. (faults \in Nat)'
    BY <1>21 DEF ReaderDrop
  <2>2. (reader \in {"accepting", "reading", "ended", "dropped", "failed"})'
    BY <1>21 DEF ReaderDrop, ReaderTypeOK
  <2>3. (rtask \in [Conn -> {"none", "run", "failing", "done"}])'
    BY <1>21 DEF ReaderDrop, ReaderTypeOK
  <2>4. (rheld \in [Conn -> Seq(Items)] /\ \A d \in Conn : Len(rheld[d]) <= 1)'
    BY <1>21, Singleton DEF ReaderDrop, ReaderTypeOK, Items, Err
  <2>5. (streams \in [Conn -> Seq(Items)])'
    BY <1>21 DEF ReaderDrop, ReaderTypeOK, Items, Err
  <2>6. QED
    BY <1>21, <2>1, <2>2, <2>3, <2>4, <2>5
    DEF ReaderDrop, writerVars, taskVars, netVars, rtaskVars, mergeVars, WriterTypeOK, ConnTypeOK, ReaderTypeOK
<1>22. CASE Terminated \/ UNCHANGED vars
  BY <1>22 DEF Terminated, vars, writerVars, taskVars, netVars, rtaskVars, mergeVars, WriterTypeOK, ConnTypeOK, ReaderTypeOK
<1>23. QED
  BY <1>1, <1>2, <1>3, <1>4, <1>5, <1>6, <1>7, <1>8, <1>9, <1>10, <1>11, <1>12, <1>13, <1>14, <1>15, <1>16, <1>17, <1>18, <1>19, <1>20, <1>21, <1>22 DEF Next, WriterTask, ReaderTask, Poll

\* Every step keeps the writer's stages in line with its connections.
LEMMA StagesStep == Structure /\ [Next]_vars => WriterStages'
<1> SUFFICES ASSUME TypeOK, WriterStages, Slots, [Next]_vars PROVE WriterStages'
  BY DEF Structure
<1> USE ConstantsAssumption DEF TypeOK, Conn, None, SendersDropped
<1>1. CASE Connect
  <2>1. opened \in Conn /\ next = 0 /\ pending = <<>>
    <3>0. opened < N /\ next = 0
      BY <1>1 DEF Connect, WriterStages
    <3>1. opened \in 0 .. N - 1 /\ next = 0
      BY <3>0 DEF WriterTypeOK
    <3>2. pending # <<>> => pending[1] = -1
      BY <3>1 DEF WriterStages
    <3>3. pending # <<>> => pending[1] \in Nat
      BY NonEmpty DEF WriterTypeOK
    <3>4. QED
      BY <3>1, <3>2, <3>3
  <2>2. /\ \A d \in Conn : d # opened => wtask'[d] = wtask[d] /\ tail'[d] = tail[d]
        /\ wtask'[opened] = "run" /\ tail'[opened] = "open"
    BY <1>1, <2>1 DEF Connect, ConnTypeOK
  <2>3. UNCHANGED <<senders, held, net, next, pending, joined>>
    BY <1>1 DEF Connect
  <2>4. (phase = "connecting" => opened < N /\ next = 0 /\ pending = <<>>)'
    BY <1>1, <2>1 DEF Connect, WriterTypeOK
  <2>5. QED
    BY <1>1, <2>1, <2>2, <2>3, <2>4 DEF Connect, WriterStages
<1>2. CASE ConnectFails
  BY <1>2 DEF ConnectFails, writerVars, taskVars, netVars, rtaskVars, mergeVars, WriterStages, WriterTypeOK, ConnTypeOK
<1>3. CASE RouteCall
  BY <1>3 DEF RouteCall, writerVars, taskVars, netVars, rtaskVars, mergeVars, WriterStages, WriterTypeOK, ConnTypeOK
<1>4. CASE RouteDeliver
  BY <1>4 DEF RouteDeliver, writerVars, taskVars, netVars, rtaskVars, mergeVars, WriterStages, WriterTypeOK, ConnTypeOK
<1>5. CASE RouteBroken
  BY <1>5 DEF RouteBroken, writerVars, taskVars, netVars, rtaskVars, mergeVars, WriterStages, WriterTypeOK, ConnTypeOK
<1>6. CASE Finish
  BY <1>6 DEF Finish, writerVars, taskVars, netVars, rtaskVars, mergeVars, WriterStages, WriterTypeOK, ConnTypeOK
<1>7. CASE JoinTask
  BY <1>7 DEF JoinTask, writerVars, taskVars, netVars, rtaskVars, mergeVars, WriterStages, WriterTypeOK, ConnTypeOK
<1>8. ASSUME NEW c \in Conn, TaskRecv(c) PROVE WriterStages'
  BY <1>8 DEF TaskRecv, writerVars, taskVars, netVars, rtaskVars, mergeVars, WriterStages, WriterTypeOK, ConnTypeOK
<1>9. ASSUME NEW c \in Conn, TaskWrite(c) PROVE WriterStages'
  BY <1>9 DEF TaskWrite, writerVars, taskVars, netVars, rtaskVars, mergeVars, WriterStages, WriterTypeOK, ConnTypeOK
<1>10. ASSUME NEW c \in Conn, TaskClose(c) PROVE WriterStages'
  BY <1>10 DEF TaskClose, writerVars, taskVars, netVars, rtaskVars, mergeVars, WriterStages, WriterTypeOK, ConnTypeOK
<1>11. ASSUME NEW c \in Conn, TaskFails(c) PROVE WriterStages'
  <2>1. /\ wtask'[c] = "err" /\ senders'[c] = <<>> /\ held'[c] = <<>>
        /\ tail'[c] \in {"rst", "fin", "cut"} /\ (tail'[c] = "rst" => tail[c] = "rst")
        /\ \A d \in Conn : d # c => /\ wtask'[d] = wtask[d] /\ senders'[d] = senders[d]
                                    /\ held'[d] = held[d] /\ tail'[d] = tail[d]
    BY <1>11 DEF TaskFails, ConnTypeOK
  <2>2. UNCHANGED <<phase, opened, next, pending, joined, net>> /\ wtask[c] = "run"
    BY <1>11 DEF TaskFails, writerVars
  <2>3. ~(c >= opened)
    BY <2>2 DEF WriterStages
  <2>4. QED
    BY <2>1, <2>2, <2>3 DEF WriterStages
<1>12. ASSUME NEW c \in Conn, Reset(c) PROVE WriterStages'
  BY <1>12 DEF Reset, writerVars, taskVars, netVars, rtaskVars, mergeVars, WriterStages, WriterTypeOK, ConnTypeOK
<1>13. CASE Accept
  BY <1>13 DEF Accept, writerVars, taskVars, netVars, rtaskVars, mergeVars, WriterStages, WriterTypeOK, ConnTypeOK, AnnouncedIndex
<1>14. CASE AcceptFails
  BY <1>14 DEF AcceptFails, writerVars, taskVars, netVars, rtaskVars, mergeVars, WriterStages, WriterTypeOK, ConnTypeOK
<1>15. ASSUME NEW s \in Conn, ReadFrame(s) PROVE WriterStages'
  BY <1>15 DEF ReadFrame, writerVars, taskVars, netVars, rtaskVars, mergeVars, WriterStages, WriterTypeOK, ConnTypeOK
<1>16. ASSUME NEW s \in Conn, ReadEnd(s) PROVE WriterStages'
  BY <1>16 DEF ReadEnd, writerVars, taskVars, netVars, rtaskVars, mergeVars, WriterStages, WriterTypeOK, ConnTypeOK
<1>17. ASSUME NEW s \in Conn, ReadError(s) PROVE WriterStages'
  BY <1>17 DEF ReadError, writerVars, taskVars, netVars, rtaskVars, mergeVars, WriterStages, WriterTypeOK, ConnTypeOK
<1>18. ASSUME NEW s \in Conn, TaskSend(s) PROVE WriterStages'
  BY <1>18 DEF TaskSend, writerVars, taskVars, netVars, rtaskVars, mergeVars, WriterStages, WriterTypeOK, ConnTypeOK
<1>19. CASE PollOrdered
  BY <1>19 DEF PollOrdered, writerVars, taskVars, netVars, rtaskVars, mergeVars, WriterStages, WriterTypeOK, ConnTypeOK, Yield
<1>20. CASE PollArrival
  BY <1>20 DEF PollArrival, writerVars, taskVars, netVars, rtaskVars, mergeVars, WriterStages, WriterTypeOK, ConnTypeOK, Yield
<1>21. CASE ReaderDrop
  BY <1>21 DEF ReaderDrop, writerVars, taskVars, netVars, rtaskVars, mergeVars, WriterStages, WriterTypeOK, ConnTypeOK
<1>22. CASE Terminated \/ UNCHANGED vars
  BY <1>22 DEF Terminated, vars, writerVars, taskVars, netVars, rtaskVars, mergeVars, WriterStages
<1>23. QED
  BY <1>1, <1>2, <1>3, <1>4, <1>5, <1>6, <1>7, <1>8, <1>9, <1>10, <1>11, <1>12, <1>13, <1>14, <1>15, <1>16, <1>17, <1>18, <1>19, <1>20, <1>21, <1>22 DEF Next, WriterTask, ReaderTask, Poll

\* Every step keeps slot s fed by connection s, and errors last.
LEMMA SlotsStep == Structure /\ [Next]_vars => Slots'
<1> SUFFICES ASSUME TypeOK, WriterStages, Slots, [Next]_vars PROVE Slots'
  BY DEF Structure
<1> DEFINE others(s) ==
      \A d \in Conn \ {s} : /\ from'[d] = from[d] /\ rtask'[d] = rtask[d]
                            /\ rheld'[d] = rheld[d] /\ streams'[d] = streams[d]
<1>1. ASSUME UNCHANGED <<reader, from, rtask, rheld, streams>> PROVE Slots'
  BY <1>1 DEF Slots, Slot
<1>2. ASSUME NEW s \in Conn, others(s), Slot(s)',
             UNCHANGED reader, from'[s] = from[s]
      PROVE  Slots'
  BY <1>2 DEF Slots, Slot
<1>3. CASE Accept
  <2>1. PICK c \in Conn :
          /\ from[c] # c
          /\ from' = [from EXCEPT ![c] = c] /\ rtask' = [rtask EXCEPT ![c] = "run"]
    <3>1. 0 .. opened - 1 \subseteq Conn
      BY ConstantsAssumption DEF TypeOK, WriterTypeOK, Conn
    <3>2. PICK c \in 0 .. opened - 1 :
            /\ \A s \in Conn : from[s] # c
            /\ from' = [from EXCEPT ![c] = c] /\ rtask' = [rtask EXCEPT ![c] = "run"]
      BY <1>3 DEF Accept, AnnouncedIndex
    <3>3. QED
      BY <3>1, <3>2
  <2>2. UNCHANGED <<rheld, streams>>
    BY <1>3 DEF Accept
  <2>3. others(c) /\ from'[c] = c /\ rtask'[c] = "run"
    BY <2>1, <2>2 DEF TypeOK, ReaderTypeOK
  <2>4. rheld[c] = <<>> /\ streams[c] = <<>>
    BY <2>1 DEF Slots, Slot
  <2>5. \A s \in Conn : Slot(s)'
    BY <2>2, <2>3, <2>4 DEF Slots, Slot
  <2>6. QED
    BY <1>3, <2>5 DEF Accept, Slots
<1>4. CASE AcceptFails
  <2>1. \A s \in Conn : streams'[s] = <<>>
    BY <1>4 DEF AcceptFails
  <2>2. \A s \in Conn : Slot(s)'
    BY <1>4, <2>1 DEF AcceptFails, rtaskVars, Slots, Slot
  <2>3. QED
    BY <1>4, <2>2 DEF AcceptFails, Slots
<1>5. ASSUME NEW s \in Conn, ReadFrame(s) PROVE Slots'
  <2>1. from[s] = s /\ net[s] \in Seq(Nat) /\ net[s] # <<>>
    BY <1>5 DEF ReadFrame, TypeOK, ConnTypeOK, Slots, Slot
  <2>2. Head(net[s]) \in Nat
    BY <2>1, NonEmpty
  <2>3. rheld'[s] = <<Head(net[s])>> /\ others(s)
    BY <1>5, <2>1 DEF ReadFrame, rtaskVars, mergeVars, TypeOK, ReaderTypeOK
  <2>4. UNCHANGED <<from, rtask, streams, reader>> /\ rtask[s] = "run"
    BY <1>5 DEF ReadFrame, rtaskVars, mergeVars
  <2>5. \A i \in DOMAIN rheld'[s] : rheld'[s][i] # Err
    BY <2>2, <2>3 DEF Err
  <2>6. Slot(s)'
    BY <2>4, <2>5 DEF Slots, Slot
  <2>7. QED
    BY <1>2, <2>3, <2>4, <2>6
<1>6. ASSUME NEW s \in Conn, ReadEnd(s) PROVE Slots'
  <2>1. rtask'[s] = "done" /\ others(s) /\ UNCHANGED <<from, rheld, streams, reader>>
    BY <1>6 DEF ReadEnd, rtaskVars, mergeVars, TypeOK, ReaderTypeOK
  <2>2. Slot(s)'
    BY <1>6, <2>1 DEF ReadEnd, Slots, Slot
  <2>3. QED
    BY <1>2, <2>1, <2>2
<1>7. ASSUME NEW s \in Conn, ReadError(s) PROVE Slots'
  <2>1. /\ rtask'[s] = "failing" /\ rheld'[s] = <<Err>> /\ others(s)
        /\ UNCHANGED <<from, streams, reader>>
    BY <1>7 DEF ReadError, rtaskVars, mergeVars, TypeOK, ReaderTypeOK
  <2>2. Slot(s)'
    BY <1>7, <2>1 DEF ReadError, Slots, Slot
  <2>3. QED
    BY <1>2, <2>1, <2>2
<1>8. ASSUME NEW s \in Conn, TaskSend(s) PROVE Slots'
  <2>1. rheld[s] \in Seq(Items) /\ streams[s] \in Seq(Items) /\ rheld[s] # <<>>
    BY <1>8 DEF TaskSend, TypeOK, ReaderTypeOK
  <2>2. rheld[s][1] \in Items /\ Len(rheld[s]) > 0
    BY <2>1, NonEmpty
  <2>3. rheld'[s] = <<>> /\ others(s) /\ UNCHANGED <<from, reader>>
    BY <1>8 DEF TaskSend, mergeVars, TypeOK, ReaderTypeOK
  <2>4. rtask[s] \in {"run", "failing"}
    BY <1>8 DEF TaskSend, TypeOK, ReaderTypeOK, Slots, Slot
  <2>5. CASE streams'[s] = streams[s] /\ rtask'[s] = "done"
    BY <1>2, <2>3, <2>4, <2>5 DEF Slots, Slot
  <2>6. CASE /\ streams'[s] = Append(streams[s], rheld[s][1])
             /\ rtask'[s] = IF rtask[s] = "failing" THEN "done" ELSE rtask[s]
    <3>1. \A i \in DOMAIN streams'[s] :
             streams'[s][i] = IF i = Len(streams[s]) + 1 THEN rheld[s][1]
                                                        ELSE streams[s][i]
      BY <2>1, <2>2, <2>6
    <3>2. DOMAIN streams'[s] = 1 .. Len(streams[s]) + 1 /\ DOMAIN streams[s] = 1 .. Len(streams[s])
      BY <2>1, <2>2, <2>6
    <3>3. /\ rtask[s] = "run" => rheld[s][1] # Err
          /\ rtask[s] = "run" => \A i \in DOMAIN streams[s] : streams[s][i] # Err
      BY <2>1, <2>2 DEF Slots, Slot
    <3>4. rtask[s] = "run" => \A i \in DOMAIN streams'[s] : streams'[s][i] # Err
      BY <3>1, <3>2, <3>3
    <3>5. Slot(s)'
      BY <2>3, <2>4, <2>6, <3>4 DEF Slots, Slot
    <3>6. QED
      BY <1>2, <2>3, <3>5
  <2>7. QED
    BY <1>8, <2>5, <2>6 DEF TaskSend, TypeOK, ReaderTypeOK
<1>9. ASSUME NEW i \in Conn, streams[i] # <<>>, Yield(i),
             UNCHANGED <<reader, from, rtask, rheld>>
      PROVE  Slots'
  <2>1. streams[i] \in Seq(Items) /\ streams[i] # <<>>
    BY <1>9 DEF TypeOK, ReaderTypeOK
  <2>2. streams'[i] = Tail(streams[i]) /\ others(i)
    BY <1>9 DEF Yield, TypeOK, ReaderTypeOK
  <2>3. \A k \in DOMAIN streams'[i] :
           k + 1 \in DOMAIN streams[i] /\ streams'[i][k] = streams[i][k + 1]
    BY <2>1, <2>2
  <2>4. rtask[i] # "done" => \A k \in DOMAIN streams'[i] : streams'[i][k] # Err
    BY <2>3 DEF Slots, Slot
  <2>5. Slot(i)'
    BY <1>9, <2>4 DEF Slots, Slot
  <2>6. QED
    BY <1>2, <1>9, <2>2, <2>5
<1>10. CASE PollOrdered
  <2>1. Target(cursor) \in Conn
    BY RouteType DEF TypeOK, ReaderTypeOK
  <2>2. CASE streams[Target(cursor)] # <<>> /\ Yield(Target(cursor)) /\ UNCHANGED reader
    BY <1>9, <1>10, <2>1, <2>2 DEF PollOrdered, rtaskVars
  <2>3. CASE reader' = "ended" /\ UNCHANGED streams
    BY <1>10, <2>3 DEF PollOrdered, rtaskVars, Slots, Slot
  <2>4. QED
    BY <1>10, <2>2, <2>3 DEF PollOrdered
<1>11. CASE PollArrival
  <2>1. UNCHANGED <<from, rtask, rheld>> /\ reader = "reading"
    BY <1>11 DEF PollArrival, rtaskVars
  <2>2. CASE \E i \in Conn : streams[i] # <<>> /\ Yield(i) /\ UNCHANGED reader
    BY <1>9, <2>1, <2>2
  <2>3. CASE UNCHANGED streams
    BY <2>1, <2>3 DEF Slots, Slot
  <2>4. \A off \in 0 .. N - 1 : (cursor + off) % N \in Conn
    BY ConstantsAssumption DEF TypeOK, ReaderTypeOK, Conn
  <2>5. QED
    BY <1>11, <2>2, <2>3, <2>4 DEF PollArrival
<1>12. CASE ReaderDrop
  <2>1. \A s \in Conn : /\ rtask'[s] = "done" /\ rheld'[s] = <<>>
                        /\ streams'[s] = <<>> /\ from'[s] = from[s] /\ from[s] # None
    BY <1>12 DEF ReaderDrop, Slots
  <2>2. \A s \in Conn : Slot(s)'
    BY <2>1 DEF Slots, Slot
  <2>3. QED
    BY <2>1, <2>2 DEF Slots
<1>13. QED
  BY <1>1, <1>3, <1>4, <1>5, <1>6, <1>7, <1>8, <1>10, <1>11, <1>12
  DEF Next, vars, writerVars, taskVars, netVars, rtaskVars, mergeVars, WriterTask,
      ReaderTask, Poll, Connect, ConnectFails, RouteCall, RouteDeliver, RouteBroken,
      Finish, JoinTask, TaskRecv, TaskWrite, TaskClose, TaskFails, Reset, Terminated

\* A caller that abandons a send changes nothing of this.
LEMMA CancelStep == Structure /\ RouteCancelled => Structure'
<1> SUFFICES ASSUME Structure, RouteCancelled PROVE Structure'
  OBVIOUS
<1>1. pending \in Seq(Nat) /\ pending # <<>>
  BY DEF RouteCancelled, Structure, TypeOK, WriterTypeOK
<1>2. pending[1] \in Nat
  BY <1>1, NonEmpty
<1>3. TypeOK'
  <2>1. (pending \in Seq(Nat) /\ Len(pending) <= 1 /\ cancelled \subseteq Nat)'
    <3>1. cancelled \subseteq Nat /\ pending' = <<>> /\ cancelled' = cancelled \cup {pending[1]}
      BY DEF RouteCancelled, Structure, TypeOK, WriterTypeOK
    <3>2. cancelled' \subseteq Nat
      BY <1>2, <3>1
    <3>3. <<>> \in Seq(Nat) /\ Len(<<>>) <= 1
      OBVIOUS
    <3>4. QED
      BY <3>1, <3>2, <3>3
  <2>2. WriterTypeOK'
    BY <2>1 DEF RouteCancelled, Structure, TypeOK, WriterTypeOK
  <2>3. ConnTypeOK' /\ ReaderTypeOK' /\ (faults \in Nat)'
    BY DEF RouteCancelled, taskVars, netVars, rtaskVars, mergeVars, Structure, TypeOK,
           ConnTypeOK, ReaderTypeOK
  <2>4. QED
    BY <2>2, <2>3 DEF TypeOK
<1>4. WriterStages'
  BY DEF RouteCancelled, taskVars, netVars, Structure, WriterStages, SendersDropped
<1>5. Slots'
  BY DEF RouteCancelled, rtaskVars, mergeVars, Structure, Slots, Slot
<1>6. QED
  BY <1>3, <1>4, <1>5 DEF Structure

\* With it, every step of the system keeps Structure.
LEMMA StructureStep == Structure /\ [Next \/ RouteCancelled]_vars => Structure'
BY TypeStep, StagesStep, SlotsStep, CancelStep DEF Structure

\* Type correctness: no step of the writer, of its tasks, of the network, of
\* the reader's tasks or of either merge takes a variable out of its type. It
\* rests on Structure: without `from[s] \in {None, s}` a reader task could read
\* a connection that does not exist, without `joined < N` while finishing,
\* finish could await a task too many.
THEOREM TypeCorrect == Spec => []TypeOK
<1>1. Structure /\ [Next]_vars => Structure'
  BY StructureStep
<1>2. Structure => TypeOK
  BY DEF Structure
<1>3. QED
  BY StructureInit, <1>1, <1>2, PTL DEF Spec

------------------------------------------------------------------------------
(***************************************************************************)
(* What one step of the parallel transport does to the frames on their     *)
(* way. Flow(c) is everything on connection c that can still reach the     *)
(* consumer. FlowMoves says that a step of the system, whatever it is,     *)
(* keeps every flow or cuts it short (a failure), hands one more frame     *)
(* over to a connection, or takes the head of one flow out (a poll).       *)
(* The sections on order build on it.                                      *)
(***************************************************************************)

\* What waits behind a reset connection cannot reach the consumer, nor what
\* waits behind a reader task that ended.
Upstream(c) == IF tail[c] = "rst" THEN <<>> ELSE net[c] \o (held[c] \o senders[c])
Reachable(c) == rtask[c] \in {"none", "run"}
Flow(c) == streams[c] \o (rheld[c] \o (IF Reachable(c) THEN Upstream(c) ELSE <<>>))

\* The frames below this one have been queued, or refused by a dead connection.
handed == IF pending = <<>> THEN next ELSE next - 1

ErrIn(F) == \E i \in 1 .. Len(F) : F[i] = Err

\* No frame handed over to connection c has been lost: it is still in use, it
\* was closed after its last frame, or its reader came to its end without error.
Intact(c) ==
  \/ /\ Reachable(c)
     /\ tail[c] \in {"none", "open"} \/ (tail[c] = "fin" /\ wtask[c] = "ok")
  \/ /\ rtask[c] = "done" /\ wtask[c] = "ok"
     /\ Err \notin Emitted /\ ~ErrIn(streams[c])

\* A reader task ends because the writer's has ended, or with an error item.
Explained(c) ==
  rtask[c] = "done" =>
    wtask[c] \in {"ok", "err"} \/ Err \in Emitted \/ ErrIn(streams[c])

\* The consumer can still poll.
Consuming == reader \notin {"failed", "dropped"}

DoneInv == Consuming => \A c \in Conn : Explained(c)

------------------------------------------------------------------------------
(* What a step may do.                                                      *)

Begins(G, F) == Len(G) <= Len(F) /\ \A i \in 1 .. Len(G) : G[i] = F[i]

Keep(c) == Flow(c)' = Flow(c) /\ (Intact(c)' => Intact(c))

\* A failure cuts a suffix off, and may put an error in its place.
Lose(c) ==
  /\ ~Intact(c)'
  /\ \E G \in Seq(Items) :
       /\ Begins(G, Flow(c))
       /\ Flow(c)' = G \/ (~ErrIn(G) /\ Flow(c)' = Append(G, Err))

Quiet ==
  /\ UNCHANGED <<handed, emitted, cursor, cancelled>>
  /\ \A c \in Conn : Keep(c) \/ Lose(c)

\* The next frame b is queued, refused by a dead connection, or abandoned.
HandOver(b, c) ==
  /\ b = handed /\ c = Route(b) /\ handed' = b + 1
  /\ UNCHANGED <<emitted, cursor>>
  /\ \A d \in Conn \ {c} : Keep(d)
  /\ \/ /\ Reachable(c) /\ Intact(c) /\ Flow(c)' = Append(Flow(c), b)
        /\ UNCHANGED cancelled
     \/ Flow(c)' = Flow(c) /\ ~Intact(c)' /\ UNCHANGED cancelled
     \/ Keep(c) /\ cancelled' = cancelled \cup {b}

\* A poll yields the head of the flow of c.
Take(c) ==
  /\ UNCHANGED <<handed, cancelled>>
  /\ \A d \in Conn \ {c} : Keep(d)
  /\ Flow(c) # <<>> /\ Flow(c)' = Tail(Flow(c)) /\ (Intact(c)' => Intact(c))
  /\ emitted' = Append(emitted, Head(Flow(c)))
  /\ Head(Flow(c)) = Err => ~Intact(c)'
  /\ Sort = "Ordered" => c = Target(cursor) /\ cursor' = cursor + 1

------------------------------------------------------------------------------
(* Concatenation, as far as the stages of a flow need it.                   *)

LEMMA MoveHead ==
  ASSUME NEW S, NEW q \in Seq(S), NEW r \in Seq(S), q # <<>>
  PROVE  <<>> \o (q \o r) = <<Head(q)>> \o (Tail(q) \o r)
<1>1. <<Head(q)>> \o (Tail(q) \o r) = (<<Head(q)>> \o Tail(q)) \o r
  BY ConcatAssociative, HeadTailProperties, Singleton
<1>2. q = <<Head(q)>> \o Tail(q)
  BY HeadTailProperties
<1>3. QED
  BY <1>1, <1>2, ConcatEmptySeq, ConcatProperties

LEMMA MoveLast ==
  ASSUME NEW S, NEW q \in Seq(S), NEW x \in S, NEW r \in Seq(S)
  PROVE  q \o (<<x>> \o r) = Append(q, x) \o (<<>> \o r)
<1>1. q \o (<<x>> \o r) = (q \o <<x>>) \o r
  BY ConcatAssociative
<1>2. QED
  BY <1>1, ConcatEmptySeq, AppendIsConcat

LEMMA AppendRight ==
  ASSUME NEW S, NEW q \in Seq(S), NEW r \in Seq(S), NEW x \in S
  PROVE  q \o Append(r, x) = Append(q \o r, x)
BY AppendIsConcat, ConcatAssociative, ConcatProperties, Singleton

LEMMA TailLeft ==
  ASSUME NEW S, NEW q \in Seq(S), NEW r \in Seq(S), q # <<>>
  PROVE  /\ q \o r # <<>> /\ Head(q \o r) = Head(q)
         /\ Tail(q \o r) = Tail(q) \o r
OBVIOUS

LEMMA BeginsFacts ==
  ASSUME NEW S, NEW q \in Seq(S), NEW r \in Seq(S), NEW t \in Seq(S)
  PROVE  /\ Begins(<<>>, q)
         /\ Begins(q, q \o r)
         /\ Begins(t, r) => Begins(q \o t, q \o r)
BY DEF Begins

------------------------------------------------------------------------------
(* Types.                                                                   *)

LEMMA FlowType ==
  ASSUME Structure, NEW c \in Conn
  PROVE  /\ streams[c] \in Seq(Items) /\ rheld[c] \in Seq(Items)
         /\ net[c] \in Seq(Items) /\ held[c] \in Seq(Items) /\ senders[c] \in Seq(Items)
         /\ Upstream(c) \in Seq(Items) /\ Flow(c) \in Seq(Items)
<1>1. /\ streams[c] \in Seq(Items) /\ rheld[c] \in Seq(Items)
      /\ net[c] \in Seq(Nat) /\ held[c] \in Seq(Nat) /\ senders[c] \in Seq(Nat)
  BY DEF Structure, TypeOK, ReaderTypeOK, ConnTypeOK
<1>2. Nat \subseteq Items
  BY DEF Items
<1>3. net[c] \in Seq(Items) /\ held[c] \in Seq(Items) /\ senders[c] \in Seq(Items)
  BY <1>1, <1>2
<1>4. Upstream(c) \in Seq(Items)
  BY <1>3 DEF Upstream
<1>5. Flow(c) \in Seq(Items)
  BY <1>1, <1>4 DEF Flow
<1>6. QED
  BY <1>1, <1>3, <1>4, <1>5

LEMMA PositionType ==
  ASSUME Structure PROVE cursor \in Nat /\ handed \in Nat /\ next \in Nat
<1>1. next \in Nat /\ cursor \in Nat /\ (pending # <<>> => next - 1 \in Nat)
  <2>1. pending # <<>> => pending[1] \in Nat
    BY NonEmpty DEF Structure, TypeOK, WriterTypeOK
  <2>2. QED
    BY <2>1 DEF Structure, TypeOK, WriterTypeOK, ReaderTypeOK, WriterStages
<1>2. QED
  BY <1>1 DEF handed

\* A flow that is live yields no error.
LEMMA LiveFlow ==
  ASSUME Structure, NEW c \in Conn, Reachable(c)
  PROVE  /\ \A i \in 1 .. Len(Flow(c)) : Flow(c)[i] # Err
         /\ \A i \in 1 .. Len(streams[c]) : streams[c][i] # Err
<1> DEFINE U == IF Reachable(c) THEN Upstream(c) ELSE <<>>
<1>1. \A i \in 1 .. Len(streams[c]) : streams[c][i] # Err
  BY FlowType DEF Structure, Slots, Slot, Reachable
<1>2. \A i \in 1 .. Len(rheld[c]) : rheld[c][i] # Err
  BY FlowType DEF Structure, Slots, Slot, Reachable
<1>3. U \in Seq(Nat) /\ \A i \in 1 .. Len(U) : U[i] # Err
  <2>1. net[c] \in Seq(Nat) /\ held[c] \in Seq(Nat) /\ senders[c] \in Seq(Nat)
    BY DEF Structure, TypeOK, ConnTypeOK
  <2>2. U \in Seq(Nat)
    BY <2>1 DEF Upstream
  <2>3. QED
    BY <2>2 DEF Err
<1>4. \A i \in 1 .. Len(rheld[c] \o U) : (rheld[c] \o U)[i] # Err
  <2> HIDE DEF U
  <2>1. rheld[c] \in Seq(Items)
    BY FlowType
  <2>2. QED
    BY <1>2, <1>3, <2>1
<1>5. \A i \in 1 .. Len(streams[c] \o (rheld[c] \o U)) : (streams[c] \o (rheld[c] \o U))[i] # Err
  <2>1. streams[c] \in Seq(Items) /\ rheld[c] \o U \in Seq(Items)
    BY FlowType, <1>3 DEF Items
  <2> DEFINE V == rheld[c] \o U
  <2>2. V \in Seq(Items) /\ \A i \in 1 .. Len(V) : V[i] # Err
    BY <1>4, <2>1
  <2> HIDE DEF V
  <2>3. \A i \in 1 .. Len(streams[c] \o V) : (streams[c] \o V)[i] # Err
    BY <1>1, <2>1, <2>2
  <2>4. QED
    BY <2>3 DEF V
<1>6. QED
  BY <1>1, <1>5 DEF Flow

LEMMA FlowTypeNext ==
  Structure' => \A c \in Conn : Flow(c)' \in Seq(Items) /\ Upstream(c)' \in Seq(Items)
<1>1. Structure => \A c \in Conn : Flow(c) \in Seq(Items) /\ Upstream(c) \in Seq(Items)
  BY FlowType
<1>2. Structure' => (\A c \in Conn : Flow(c) \in Seq(Items) /\ Upstream(c) \in Seq(Items))'
  BY <1>1, PTL
<1>3. QED
  BY <1>2

\* Queueing a frame on an open connection puts it at the end of its flow.
LEMMA QueueFlow ==
  ASSUME Structure, NEW c \in Conn, NEW b \in Nat, tail[c] = "open", Reachable(c),
         senders'[c] = Append(senders[c], b),
         UNCHANGED <<streams, rheld, rtask, net, held, tail>>
  PROVE  Flow(c)' = Append(Flow(c), b)
<1>1. PICK q \in Seq(Items), r \in Seq(Items), t \in Seq(Items), u \in Seq(Items),
           v \in Seq(Items) :
        /\ q = streams[c] /\ r = rheld[c] /\ t = net[c] /\ u = held[c]
        /\ v = senders[c]
  BY FlowType
<1>2. Flow(c) = q \o (r \o (t \o (u \o v)))
  BY <1>1 DEF Flow, Upstream
<1>3. Flow(c)' = q \o (r \o (t \o (u \o Append(v, b))))
  BY <1>1 DEF Flow, Upstream, Reachable
<1>4. b \in Items
  BY DEF Items
<1>5. /\ u \o v \in Seq(Items) /\ t \o (u \o v) \in Seq(Items)
      /\ r \o (t \o (u \o v)) \in Seq(Items)
  BY ConcatProperties
<1>6. u \o Append(v, b) = Append(u \o v, b)
  BY <1>4, AppendRight, SMTT(30)
<1>7. t \o Append(u \o v, b) = Append(t \o (u \o v), b)
  BY <1>4, <1>5, AppendRight, SMTT(30)
<1>8. PICK w \in Seq(Items) : w = t \o (u \o v)
  BY <1>5, Zenon
<1>9. r \o Append(w, b) = Append(r \o w, b)
  BY <1>4, AppendRight, SMTT(30)
<1>10. PICK x \in Seq(Items) : x = r \o w
  BY <1>5, <1>8, Zenon
<1>11. q \o Append(x, b) = Append(q \o x, b)
  BY <1>4, AppendRight, SMTT(30)
<1>12. QED
  BY <1>2, <1>3, <1>6, <1>7, <1>8, <1>9, <1>10, <1>11, Zenon

------------------------------------------------------------------------------
(* Every step is one of these moves.                                        *)

\* A reader that was dropped or failed stays so.
LEMMA ConsumingBack ==
  ASSUME [Next \/ RouteCancelled]_vars, Consuming' PROVE Consuming
BY DEF Consuming, Next, vars, Connect, ConnectFails, RouteCall, RouteDeliver, RouteBroken,
       RouteCancelled, Finish, JoinTask, WriterTask, TaskRecv, TaskWrite, TaskClose,
       TaskFails, Reset, Accept, AcceptFails, ReaderTask, ReadFrame, ReadEnd, ReadError,
       TaskSend, Poll, PollOrdered, PollArrival, ReaderDrop, Terminated, mergeVars

\* Only a caller that abandons a send adds to the abandoned frames.
LEMMA CancelledKept == [Next]_vars => cancelled' = cancelled
BY DEF Next, vars, Connect, ConnectFails, RouteCall, RouteDeliver, RouteBroken, Finish,
       JoinTask, WriterTask, TaskRecv, TaskWrite, TaskClose, TaskFails, Reset, Accept,
       AcceptFails, ReaderTask, ReadFrame, ReadEnd, ReadError, TaskSend, Poll,
       PollOrdered, PollArrival, ReaderDrop, Terminated, writerVars

\* Frames handed over stay handed over.
LEMMA HandedGrows ==
  ASSUME Structure, [Next \/ RouteCancelled]_vars PROVE handed' >= handed
<1>1. next \in Nat /\ next' \in {next, next + 1}
  BY PositionType
  DEF Next, vars, Connect, ConnectFails, RouteCall, RouteDeliver, RouteBroken,
      RouteCancelled, Finish,
      JoinTask, WriterTask, TaskRecv, TaskWrite, TaskClose, TaskFails, Reset, Accept,
      AcceptFails, ReaderTask, ReadFrame, ReadEnd, ReadError, TaskSend, Poll,
      PollOrdered, PollArrival, ReaderDrop, Terminated, writerVars
<1>2. /\ next' = next + 1 => pending = <<>> /\ pending' = <<next>>
      /\ next' = next => pending' = <<>> \/ pending' = pending
  BY PositionType
  DEF Next, vars, Connect, ConnectFails, RouteCall, RouteDeliver, RouteBroken,
      RouteCancelled, Finish,
      JoinTask, WriterTask, TaskRecv, TaskWrite, TaskClose, TaskFails, Reset, Accept,
      AcceptFails, ReaderTask, ReadFrame, ReadEnd, ReadError, TaskSend, Poll,
      PollOrdered, PollArrival, ReaderDrop, Terminated, writerVars
<1>3. CASE next' = next + 1
  <2>1. handed = next /\ pending' # <<>>
    BY <1>2, <1>3 DEF handed
  <2>2. handed' = next' - 1
    BY <2>1 DEF handed
  <2>3. QED
    BY <1>1, <1>3, <2>1, <2>2
<1>4. CASE next' = next
  BY <1>1, <1>2, <1>4 DEF handed
<1>5. QED
  BY <1>1, <1>3, <1>4

\* A reader task that ended does not come back.
LEMMA DoneStays ==
  ASSUME Structure, [Next \/ RouteCancelled]_vars
  PROVE  \A c \in Conn : rtask[c] = "done" => rtask'[c] = "done"
<1>1. CASE Accept
  <2>1. 0 .. opened - 1 \subseteq Conn
    BY ConstantsAssumption DEF Structure, TypeOK, WriterTypeOK, Conn
  <2>2. PICK c \in Conn : from[c] # c /\ rtask' = [rtask EXCEPT ![c] = "run"]
    BY <1>1, <2>1 DEF Accept, AnnouncedIndex
  <2>3. rtask[c] # "done"
    BY <2>2 DEF Structure, Slots, Slot
  <2>4. QED
    BY <2>2, <2>3 DEF Structure, TypeOK, ReaderTypeOK
<1>2. ASSUME NEW s \in Conn, ReadEnd(s) \/ ReadError(s) \/ TaskSend(s)
      PROVE  \A c \in Conn : rtask[c] = "done" => rtask'[c] = "done"
  <2>1. rtask' = [rtask EXCEPT ![s] = rtask'[s]] /\ (rtask[s] = "done" => rtask'[s] = "done")
    BY <1>2 DEF ReadEnd, ReadError, TaskSend, Structure, TypeOK, ReaderTypeOK
  <2>2. QED
    BY <2>1 DEF Structure, TypeOK, ReaderTypeOK
<1>3. CASE ReaderDrop
  BY <1>3 DEF ReaderDrop
<1>4. CASE rtask' = rtask
  BY <1>4
<1>5. QED
  BY <1>1, <1>2, <1>3, <1>4
  DEF Next, vars, Connect, ConnectFails, RouteCall, RouteDeliver, RouteBroken,
      RouteCancelled, Finish, JoinTask, WriterTask, TaskRecv, TaskWrite, TaskClose,
      TaskFails, Reset, AcceptFails, ReaderTask, ReadFrame, Poll, PollOrdered, PollArrival,
      Terminated, rtaskVars

\* A flow depends on nothing but its own connection.
LEMMA FlowFrame ==
  ASSUME NEW c \in Conn,
         streams'[c] = streams[c], rheld'[c] = rheld[c], rtask'[c] = rtask[c],
         net'[c] = net[c], held'[c] = held[c], senders'[c] = senders[c],
         tail'[c] = tail[c], wtask'[c] = wtask[c], Emitted \subseteq Emitted'
  PROVE  Keep(c)
<1>1. Flow(c)' = Flow(c)
  BY DEF Flow, Upstream, Reachable
<1>2. ErrIn(streams[c])' <=> ErrIn(streams[c])
  BY DEF ErrIn
<1>3. QED
  BY <1>1, <1>2 DEF Keep, Intact, Reachable

LEMMA EmittedGrows ==
  ASSUME Structure, NEW x \in Items, emitted' = Append(emitted, x)
  PROVE  Emitted' = Emitted \cup {x}
<1>1. emitted \in Seq(Items)
  BY DEF Structure, TypeOK, ReaderTypeOK
<1>2. /\ DOMAIN emitted' = 1 .. Len(emitted) + 1 /\ DOMAIN emitted = 1 .. Len(emitted)
      /\ \A j \in 1 .. Len(emitted) : emitted'[j] = emitted[j]
      /\ emitted'[Len(emitted) + 1] = x /\ Len(emitted) \in Nat
  BY <1>1
<1>3. QED
  BY <1>2 DEF Emitted

\* A poll of slot c takes the head of its flow and leaves the others alone.
LEMMA TakeStep ==
  ASSUME Structure, NEW c \in Conn, streams[c] # <<>>, Yield(c),
         UNCHANGED <<writerVars, taskVars, netVars, rtaskVars>>,
         Sort = "Ordered" => c = Target(cursor) /\ cursor' = cursor + 1
  PROVE  Take(c)
<1>1. /\ streams'[c] = Tail(streams[c]) /\ \A d \in Conn \ {c} : streams'[d] = streams[d]
      /\ emitted' = Append(emitted, Head(streams[c]))
      /\ UNCHANGED <<handed, cancelled, rheld, rtask, net, held, senders, tail, wtask>>
  BY DEF Yield, handed, writerVars, taskVars, netVars, rtaskVars, Structure, TypeOK,
         ReaderTypeOK
<1>2. PICK q \in Seq(Items), w \in Seq(Items) :
        /\ q = streams[c]
        /\ w = rheld[c] \o (IF Reachable(c) THEN Upstream(c) ELSE <<>>)
  <2>1. /\ streams[c] \in Seq(Items) /\ rheld[c] \in Seq(Items)
        /\ Upstream(c) \in Seq(Items) /\ <<>> \in Seq(Items)
    BY FlowType
  <2>2. rheld[c] \o (IF Reachable(c) THEN Upstream(c) ELSE <<>>) \in Seq(Items)
    BY <2>1, ConcatProperties
  <2>3. QED
    BY <2>1, <2>2
<1>3. Flow(c) = q \o w /\ Flow(c)' = Tail(q) \o w
  BY <1>1, <1>2 DEF Flow, Upstream, Reachable
<1>4. Flow(c) # <<>> /\ Head(Flow(c)) = Head(q) /\ Flow(c)' = Tail(Flow(c))
  <2>1. q # <<>>
    BY <1>2
  <2>2. q \o w # <<>> /\ Head(q \o w) = Head(q) /\ Tail(q \o w) = Tail(q) \o w
    BY <2>1, TailLeft
  <2>3. QED
    BY <1>3, <2>2
<1>5. /\ Head(q) \in Items /\ Emitted' = Emitted \cup {Head(q)}
      /\ 1 \in 1 .. Len(q) /\ q[1] = Head(q) /\ q # <<>>
  <2>1. q # <<>>
    BY <1>2
  <2>2. Head(q) \in Items
    BY <2>1, NonEmpty
  <2>3. QED
    BY <1>1, <1>2, <2>1, <2>2, EmittedGrows
<1>6. Head(q) = Err => ~Intact(c)'
  <2>1. Head(q) = Err => rtask[c] = "done"
    BY <1>2, <1>5 DEF Structure, Slots, Slot
  <2>2. QED
    BY <1>1, <1>5, <2>1 DEF Intact, Reachable
<1>7. Intact(c)' => Intact(c)
  <2>1. Reachable(c)' <=> Reachable(c)
    BY <1>1 DEF Reachable
  <2>2. ASSUME Err \notin Emitted', ~ErrIn(Tail(q)) PROVE Err \notin Emitted /\ ~ErrIn(q)
    <3>1. Head(q) # Err /\ Err \notin Emitted
      BY <1>5, <2>2
    <3>2. \A i \in 1 .. Len(q) : i # 1 => i - 1 \in 1 .. Len(Tail(q)) /\ Tail(q)[i - 1] = q[i]
      BY <1>5
    <3>3. QED
      BY <1>5, <2>2, <3>1, <3>2 DEF ErrIn
  <2>3. ErrIn(streams[c])' <=> ErrIn(Tail(q))
    BY <1>1, <1>2 DEF ErrIn
  <2>4. QED
    BY <1>1, <1>2, <2>1, <2>2, <2>3 DEF Intact
<1>8. ASSUME NEW d \in Conn \ {c} PROVE Keep(d)
  BY <1>1, <1>5, <1>8, FlowFrame
<1>9. QED
  BY <1>1, <1>2, <1>4, <1>6, <1>7, <1>8 DEF Take

Moves ==
  \/ Quiet
  \/ \E c \in Conn, b \in Nat : HandOver(b, c)
  \/ \E c \in Conn : Take(c)

\* The scan of the arrival-order merge visits slots.
LEMMA ScanType ==
  ASSUME Structure PROVE \A off \in 0 .. N - 1 : (cursor + off) % N \in Conn
<1>1. cursor \in Nat /\ N \in Nat \ {0}
  BY PositionType, ConstantsAssumption
<1>2. QED
  BY <1>1 DEF Conn

\* A frame handed over to connection c, or lost on its way there.
LEMMA HandOverStep ==
  ASSUME Structure, RouteDeliver \/ RouteBroken
  PROVE  \E c \in Conn, b \in Nat : HandOver(b, c)
<1> PICK b : b = pending[1]
  OBVIOUS
<1> PICK c : c = Route(b)
  OBVIOUS
<1>1. b \in Nat /\ b = handed /\ handed' = b + 1
  <2>1. pending \in Seq(Nat) /\ pending # <<>> /\ pending' = <<>> /\ next' = next
    BY DEF RouteDeliver, RouteBroken, Structure, TypeOK, WriterTypeOK
  <2>2. b \in Nat /\ b = next - 1
    BY <2>1, NonEmpty DEF Structure, WriterStages
  <2>3. QED
    BY <2>1, <2>2, PositionType DEF handed
<1>2. c \in Conn
  BY <1>1, RouteType
<1>3. /\ UNCHANGED <<emitted, cursor, cancelled, streams, rheld, rtask, net, held, tail, wtask>>
      /\ \A d \in Conn \ {c} : senders'[d] = senders[d]
  BY <1>2
  DEF RouteDeliver, RouteBroken, taskVars, netVars, rtaskVars, mergeVars, Structure,
      TypeOK, ConnTypeOK
<1>4. ASSUME NEW d \in Conn \ {c} PROVE Keep(d)
  BY <1>3, <1>4, FlowFrame DEF Emitted
<1>5. CASE RouteBroken
  <2>1. wtask[c] = "err" /\ senders' = senders
    BY <1>5 DEF RouteBroken, taskVars
  <2>2. tail[c] \notin {"none", "open"}
    BY <1>2, <2>1 DEF Structure, WriterStages
  <2>3. Flow(c)' = Flow(c) /\ ~Intact(c)'
    BY <1>2, <1>3, <2>1, <2>2 DEF Flow, Upstream, Reachable, Intact
  <2>4. HandOver(b, c)
    BY <1>1, <1>3, <1>4, <2>3 DEF HandOver
  <2>5. QED
    BY <1>1, <1>2, <2>4
<1>6. CASE RouteDeliver
  <2>1. wtask[c] = "run" /\ tail[c] \in {"open", "rst"}
    BY <1>2, <1>6 DEF RouteDeliver, Structure, WriterStages
  <2>2. senders'[c] = Append(senders[c], b)
    BY <1>2, <1>6 DEF RouteDeliver, Structure, TypeOK, ConnTypeOK
  <2>3. CASE ~Reachable(c) \/ tail[c] = "rst"
    <3>1. Flow(c)' = Flow(c) /\ ~Intact(c)'
      BY <1>3, <2>1, <2>3 DEF Flow, Upstream, Reachable, Intact
    <3>2. HandOver(b, c)
      BY <1>1, <1>3, <1>4, <3>1 DEF HandOver
    <3>3. QED
      BY <1>1, <1>2, <3>2
  <2>4. CASE Reachable(c) /\ tail[c] = "open"
    <3>1. Flow(c)' = Append(Flow(c), b) /\ Intact(c)
      BY <1>1, <1>2, <1>3, <2>2, <2>4, QueueFlow DEF Intact
    <3>2. HandOver(b, c)
      BY <1>1, <1>3, <1>4, <2>4, <3>1 DEF HandOver
    <3>3. QED
      BY <1>1, <1>2, <3>2
  <2>5. QED
    BY <2>1, <2>3, <2>4
<1>7. QED
  BY <1>5, <1>6

\* A frame the caller abandoned.
LEMMA AbandonStep ==
  ASSUME Structure, RouteCancelled
  PROVE  \E c \in Conn, b \in Nat : HandOver(b, c)
<1> PICK b : b = pending[1]
  OBVIOUS
<1> PICK c : c = Route(b)
  OBVIOUS
<1>1. b \in Nat /\ b = handed /\ handed' = b + 1
  <2>1. pending \in Seq(Nat) /\ pending # <<>> /\ pending' = <<>> /\ next' = next
    BY DEF RouteCancelled, Structure, TypeOK, WriterTypeOK
  <2>2. b \in Nat /\ b = next - 1
    BY <2>1, NonEmpty DEF Structure, WriterStages
  <2>3. QED
    BY <2>1, <2>2, PositionType DEF handed
<1>2. c \in Conn
  BY <1>1, RouteType
<1>3. \A d \in Conn : Keep(d)
  BY FlowFrame DEF RouteCancelled, taskVars, netVars, rtaskVars, mergeVars, Emitted
<1>4. HandOver(b, c)
  BY <1>1, <1>2, <1>3 DEF RouteCancelled, mergeVars, HandOver
<1>5. QED
  BY <1>1, <1>2, <1>4

\* Every step is one of the moves, as long as the consumer can still poll.
LEMMA FlowMoves ==
  ASSUME Structure, Structure', DoneInv, [Next \/ RouteCancelled]_vars, Consuming'
  PROVE  Moves
<1> USE DEF Moves
<1> DEFINE same(d) ==
      /\ streams'[d] = streams[d] /\ rheld'[d] = rheld[d] /\ rtask'[d] = rtask[d]
      /\ net'[d] = net[d] /\ held'[d] = held[d] /\ senders'[d] = senders[d]
      /\ tail'[d] = tail[d] /\ wtask'[d] = wtask[d]
    others(c) == \A d \in Conn \ {c} : same(d)
    still == UNCHANGED <<handed, emitted, cursor, cancelled>>
<1>0. Consuming /\ \A c \in Conn : Explained(c)
  BY ConsumingBack DEF DoneInv
<1>1. ASSUME still, \A d \in Conn : same(d) PROVE Moves
  BY <1>1, FlowFrame DEF Emitted, Quiet
<1>2. ASSUME NEW c \in Conn, still, others(c), Keep(c) \/ Lose(c) PROVE Moves
  BY <1>2, FlowFrame DEF Emitted, Quiet
<1>3. ASSUME NEW c \in Conn, still, others(c), Flow(c)' = Flow(c), rtask'[c] = rtask[c],
             tail'[c] = tail[c], wtask'[c] = wtask[c], streams'[c] = streams[c]
      PROVE  Moves
  <2>1. ErrIn(streams[c])' <=> ErrIn(streams[c])
    BY <1>3 DEF ErrIn
  <2>2. Keep(c)
    BY <1>3, <2>1 DEF Keep, Intact, Reachable, Emitted
  <2>3. QED
    BY <1>2, <1>3, <2>2
<1>4. CASE Connect
  <2>1. opened \in Conn /\ still
    <3>1. opened \in 0 .. N - 1
      BY <1>4, ConstantsAssumption DEF Connect, Structure, WriterStages, TypeOK, WriterTypeOK
    <3>2. QED
      BY <1>4, <3>1 DEF Connect, handed, mergeVars, Conn
  <2> PICK c \in Conn : c = opened
    BY <2>1
  <2>2. /\ tail[c] = "none" /\ tail'[c] = "open" /\ wtask[c] = "none" /\ wtask'[c] = "run"
        /\ others(c) /\ UNCHANGED <<senders, held, net, streams, rheld, rtask>>
    BY <1>4 DEF Connect, rtaskVars, mergeVars, Structure, WriterStages, TypeOK,
                WriterTypeOK, ConnTypeOK
  <2>3. Keep(c)
    BY <2>2 DEF Keep, Flow, Upstream, Reachable, Intact
  <2>4. QED
    BY <1>2, <2>1, <2>2, <2>3
<1>5. CASE RouteCall
  <2>1. handed' = handed
    BY <1>5, PositionType DEF RouteCall, handed
  <2>2. QED
    BY <1>1, <1>5, <2>1 DEF RouteCall, taskVars, netVars, rtaskVars, mergeVars
<1>6. CASE RouteDeliver \/ RouteBroken
  BY <1>6, HandOverStep
<1>7. CASE RouteCancelled
  BY <1>7, AbandonStep
<1>8. ASSUME NEW c \in Conn, TaskRecv(c) PROVE Moves
  <2>1. PICK q \in Seq(Nat) : q = senders[c] /\ q # <<>> /\ held[c] = <<>>
    BY <1>8 DEF TaskRecv, Structure, TypeOK, ConnTypeOK
  <2>2. /\ held'[c] = <<Head(q)>> /\ senders'[c] = Tail(q) /\ others(c) /\ still
        /\ UNCHANGED <<streams, rheld, rtask, net, tail, wtask>>
    BY <1>8, <2>1
    DEF TaskRecv, handed, writerVars, netVars, rtaskVars, mergeVars, Structure, TypeOK, ConnTypeOK
  <2>3. <<>> \o q = <<Head(q)>> \o Tail(q)
    BY <2>1, HeadTailProperties, ConcatEmptySeq
  <2>4. Upstream(c)' = Upstream(c)
    BY <2>1, <2>2, <2>3 DEF Upstream
  <2>5. Flow(c)' = Flow(c)
    BY <2>2, <2>4 DEF Flow, Reachable
  <2>6. QED
    BY <1>3, <2>2, <2>5
<1>9. ASSUME NEW c \in Conn, TaskWrite(c) PROVE Moves
  <2>1. /\ held[c] \in Seq(Nat) /\ held[c] # <<>> /\ Len(held[c]) <= 1 /\ tail[c] = "open"
        /\ held'[c] = <<>> /\ others(c) /\ still
        /\ UNCHANGED <<streams, rheld, rtask, senders, tail, wtask>>
    BY <1>9
    DEF TaskWrite, handed, writerVars, rtaskVars, mergeVars, Structure, TypeOK, ConnTypeOK
  <2>2. PICK x \in Nat : held[c] = <<x>> /\ held[c][1] = x
    BY <2>1
  <2>3. Flow(c)' = Flow(c)
    <3>1. CASE PeerGone(c)
      <4>1. rtask[c] = "done"
        BY <3>1 DEF PeerGone, Structure, Slots, Slot, None, Conn
      <4>2. QED
        BY <2>1, <4>1 DEF Flow, Reachable
    <3>2. CASE net'[c] = Append(net[c], x)
      <4>1. PICK n \in Seq(Items), s \in Seq(Items) : n = net[c] /\ s = senders[c]
        BY FlowType
      <4>2. n \o (<<x>> \o s) = Append(n, x) \o (<<>> \o s)
        <5>1. x \in Items
          BY DEF Items
        <5>2. QED
          BY <5>1, MoveLast
      <4>3. Upstream(c)' = Upstream(c)
        BY <2>1, <2>2, <3>2, <4>1, <4>2 DEF Upstream
      <4>4. QED
        BY <2>1, <4>3 DEF Flow, Reachable
    <3>3. QED
      BY <1>9, <2>2, <3>1, <3>2 DEF TaskWrite, Structure, TypeOK, ConnTypeOK
  <2>4. QED
    BY <1>3, <2>1, <2>3
<1>10. ASSUME NEW c \in Conn, TaskClose(c) PROVE Moves
  <2>1. /\ tail[c] = "open" /\ tail'[c] = "fin" /\ others(c) /\ still
        /\ wtask[c] = "run" /\ wtask'[c] = "ok"
        /\ UNCHANGED <<streams, rheld, rtask, net, held, senders>>
    BY <1>10
    DEF TaskClose, handed, writerVars, rtaskVars, mergeVars, Structure, TypeOK, ConnTypeOK
  <2>2. Flow(c)' = Flow(c)
    BY <2>1 DEF Flow, Upstream, Reachable
  <2>3. (ErrIn(streams[c])' <=> ErrIn(streams[c])) /\ Emitted' = Emitted
    BY <2>1 DEF ErrIn, Emitted
  <2>4. Intact(c)' => Intact(c)
    BY <1>0, <2>1, <2>3 DEF Intact, Explained, Reachable
  <2>5. QED
    BY <1>2, <2>1, <2>2, <2>4 DEF Keep
<1>11. ASSUME NEW c \in Conn, others(c), still, UNCHANGED <<streams, rheld, rtask>>,
             ~Intact(c)', Begins(Upstream(c)', Upstream(c))
      PROVE  Moves
  <2>1. /\ streams[c] \in Seq(Items) /\ rheld[c] \in Seq(Items) /\ Upstream(c) \in Seq(Items)
        /\ Upstream(c)' \in Seq(Items) /\ Flow(c)' \in Seq(Items)
    BY FlowType, FlowTypeNext
  <2>2. PICK q \in Seq(Items), r \in Seq(Items), u \in Seq(Items), v \in Seq(Items) :
          q = streams[c] /\ r = rheld[c] /\ u = Upstream(c) /\ v = Upstream(c)'
    BY <2>1
  <2>3. Begins(q \o (r \o v), q \o (r \o u))
    <3>1. Begins(r \o v, r \o u) /\ r \o v \in Seq(Items) /\ r \o u \in Seq(Items)
      BY <1>11, <2>2, BeginsFacts
    <3>2. QED
      BY <3>1, BeginsFacts
  <2>4. Begins(q \o (r \o <<>>), q \o (r \o <<>>))
    BY DEF Begins
  <2>5. Begins(Flow(c)', Flow(c))
    BY <1>11, <2>2, <2>3, <2>4 DEF Flow, Reachable
  <2>6. Lose(c)
    BY <1>11, <2>1, <2>5 DEF Lose
  <2>7. QED
    BY <1>2, <1>11, <2>6
<1>12. ASSUME NEW c \in Conn, TaskFails(c) PROVE Moves
  <2>1. /\ held'[c] = <<>> /\ senders'[c] = <<>> /\ others(c) /\ still /\ net'[c] = net[c]
        /\ UNCHANGED <<streams, rheld, rtask>> /\ wtask'[c] = "err"
        /\ tail'[c] \in {"rst", "fin", "cut"} /\ (tail[c] = "rst" => tail'[c] = "rst")
    BY <1>12
    DEF TaskFails, handed, writerVars, rtaskVars, mergeVars, Structure, TypeOK, ConnTypeOK
  <2>2. PICK q \in Seq(Items), r \in Seq(Items) : q = net[c] /\ r = held[c] \o senders[c]
    <3>1. net[c] \in Seq(Items) /\ held[c] \o senders[c] \in Seq(Items)
      BY FlowType, ConcatProperties
    <3>2. QED
      BY <3>1
  <2>3. Begins(net[c] \o (<<>> \o <<>>), net[c] \o (held[c] \o senders[c]))
    <3>1. Begins(q \o <<>>, q \o r)
      BY BeginsFacts
    <3>2. <<>> \o <<>> = <<>>
      OBVIOUS
    <3>3. QED
      BY <2>2, <3>1, <3>2
  <2>4. Begins(<<>>, Upstream(c))
    BY FlowType, BeginsFacts
  <2>5. Begins(Upstream(c)', Upstream(c))
    BY <2>1, <2>3, <2>4 DEF Upstream
  <2>6. ~Intact(c)'
    BY <2>1 DEF Intact
  <2>7. QED
    BY <1>11, <2>1, <2>5, <2>6
<1>13. ASSUME NEW c \in Conn, Reset(c) PROVE Moves
  <2>1. /\ tail'[c] = "rst" /\ others(c) /\ still
        /\ UNCHANGED <<streams, rheld, rtask, wtask>>
    BY <1>13
    DEF Reset, handed, writerVars, taskVars, rtaskVars, mergeVars, Structure, TypeOK, ConnTypeOK
  <2>2. Begins(Upstream(c)', Upstream(c))
    BY <2>1, FlowType, BeginsFacts DEF Upstream
  <2>3. CASE rtask[c] # "done"
    <3>1. ~Intact(c)'
      BY <2>1, <2>3 DEF Intact
    <3>2. QED
      BY <1>11, <2>1, <2>2, <3>1
  <2>4. CASE rtask[c] = "done"
    <3>1. Flow(c)' = Flow(c)
      BY <2>1, <2>4 DEF Flow, Reachable
    <3>2. (ErrIn(streams[c])' <=> ErrIn(streams[c])) /\ Emitted' = Emitted
      BY <2>1 DEF ErrIn, Emitted
    <3>3. Keep(c)
      BY <2>1, <2>4, <3>1, <3>2 DEF Keep, Intact, Reachable
    <3>4. QED
      BY <1>2, <2>1, <3>3
  <2>5. QED
    BY <2>3, <2>4
<1>14. CASE Accept
  <2>1. still /\ UNCHANGED <<streams, rheld, net, held, senders, tail, wtask>>
    BY <1>14 DEF Accept, handed, writerVars, taskVars, netVars
  <2>2. \A d \in Conn : (Reachable(d)' <=> Reachable(d)) /\ (rtask'[d] = "done" => rtask[d] = "done")
    <3>1. 0 .. opened - 1 \subseteq Conn
      BY ConstantsAssumption DEF Structure, TypeOK, WriterTypeOK, Conn
    <3>2. PICK c \in Conn : from[c] # c /\ rtask' = [rtask EXCEPT ![c] = "run"]
      BY <1>14, <3>1 DEF Accept, AnnouncedIndex
    <3>3. rtask[c] = "none"
      BY <3>2 DEF Structure, Slots, Slot
    <3>4. QED
      BY <3>2, <3>3 DEF Reachable, Structure, TypeOK, ReaderTypeOK
  <2>3. \A d \in Conn : Flow(d)' = Flow(d) /\ (ErrIn(streams[d])' <=> ErrIn(streams[d]))
    BY <2>1, <2>2 DEF Flow, Upstream, ErrIn
  <2>4. \A d \in Conn : Keep(d)
    BY <2>1, <2>2, <2>3 DEF Keep, Intact, Emitted
  <2>5. QED
    BY <2>1, <2>4 DEF Quiet
<1>15. ASSUME NEW c \in Conn, ReadFrame(c) PROVE Moves
  <2>1. from[c] = c /\ rtask[c] = "run" /\ rheld[c] = <<>> /\ net[c] # <<>>
    BY <1>15 DEF ReadFrame, Structure, Slots, Slot
  <2>2. tail[c] # "rst"
    BY <2>1 DEF Structure, WriterStages
  <2>3. /\ rheld'[c] = <<Head(net[c])>> /\ net'[c] = Tail(net[c]) /\ others(c) /\ still
        /\ UNCHANGED <<streams, rtask, held, senders, tail, wtask>>
    BY <1>15, <2>1
    DEF ReadFrame, handed, writerVars, taskVars, mergeVars, Structure, TypeOK,
        ConnTypeOK, ReaderTypeOK
  <2>4. PICK q \in Seq(Items), r \in Seq(Items) : q = net[c] /\ r = held[c] \o senders[c]
    <3>1. net[c] \in Seq(Items) /\ held[c] \o senders[c] \in Seq(Items)
      BY FlowType, ConcatProperties
    <3>2. QED
      BY <3>1
  <2>5. <<>> \o (q \o r) = <<Head(q)>> \o (Tail(q) \o r)
    BY <2>1, <2>4, MoveHead
  <2>6. Flow(c) = streams[c] \o (<<>> \o (q \o r))
    BY <2>1, <2>2, <2>4 DEF Flow, Upstream, Reachable
  <2>7. Flow(c)' = streams[c] \o (<<Head(q)>> \o (Tail(q) \o r))
    BY <2>1, <2>2, <2>3, <2>4 DEF Flow, Upstream, Reachable
  <2>8. QED
    BY <1>3, <2>3, <2>5, <2>6, <2>7
<1>16. ASSUME NEW c \in Conn, ReadEnd(c) PROVE Moves
  <2>1. /\ rtask[c] = "run" /\ rheld[c] = <<>> /\ rtask'[c] = "done"
        /\ from[c] = c /\ net[c] = <<>> /\ tail[c] = "fin"
    BY <1>16 DEF ReadEnd, Structure, Slots, Slot, TypeOK, ReaderTypeOK
  <2>2. wtask[c] \in {"ok", "err"} /\ held[c] = <<>> /\ senders[c] = <<>>
    BY <2>1 DEF Structure, WriterStages, TypeOK, ConnTypeOK
  <2>3. /\ others(c) /\ still
        /\ UNCHANGED <<streams, rheld, net, held, senders, tail, wtask>>
    BY <1>16
    DEF ReadEnd, handed, writerVars, taskVars, netVars, mergeVars, Structure, TypeOK,
        ReaderTypeOK
  <2>4. Upstream(c) = <<>>
    <3>1. <<>> \o (<<>> \o <<>>) = <<>>
      OBVIOUS
    <3>2. QED
      BY <2>1, <2>2, <3>1 DEF Upstream
  <2>5. Flow(c)' = Flow(c)
    BY <2>1, <2>3, <2>4 DEF Flow, Reachable
  <2>6. Intact(c)' => Intact(c)
    BY <2>1, <2>3 DEF Intact, Reachable
  <2>7. QED
    BY <1>2, <2>3, <2>5, <2>6 DEF Keep
<1>17. ASSUME NEW c \in Conn, ReadError(c) PROVE Moves
  <2>1. rtask[c] = "run" /\ rheld[c] = <<>> /\ rtask'[c] = "failing" /\ rheld'[c] = <<Err>>
    BY <1>17 DEF ReadError, Structure, TypeOK, ReaderTypeOK
  <2>2. others(c) /\ still /\ UNCHANGED streams
    BY <1>17
    DEF ReadError, handed, writerVars, taskVars, netVars, mergeVars, Structure, TypeOK,
        ReaderTypeOK
  <2>3. PICK q \in Seq(Items), u \in Seq(Items) : q = streams[c] /\ u = Upstream(c)
    BY FlowType
  <2>4. Begins(q, Flow(c))
    <3>1. Flow(c) = q \o (<<>> \o u)
      BY <2>1, <2>3 DEF Flow, Reachable
    <3>2. <<>> \o u = u
      OBVIOUS
    <3>3. QED
      BY <3>1, <3>2, BeginsFacts
  <2>5. ~ErrIn(q)
    BY <2>1, <2>3, LiveFlow DEF Reachable, ErrIn
  <2>6. Flow(c)' = Append(q, Err)
    <3>1. Flow(c)' = q \o (<<Err>> \o <<>>)
      BY <2>1, <2>2, <2>3 DEF Flow, Reachable
    <3>2. <<Err>> \o <<>> = <<Err>> /\ Err \in Items
      BY DEF Items
    <3>3. QED
      BY <3>1, <3>2, AppendIsConcat
  <2>7. ~Intact(c)'
    BY <2>1 DEF Intact, Reachable
  <2>8. Lose(c)
    BY <2>4, <2>5, <2>6, <2>7 DEF Lose
  <2>9. QED
    BY <1>2, <2>2, <2>8
<1>18. ASSUME NEW c \in Conn, TaskSend(c) PROVE Moves
  <2>1. rheld[c] \in Seq(Items) /\ rheld[c] # <<>> /\ Len(rheld[c]) <= 1 /\ reader # "failed"
    BY <1>0, <1>18 DEF TaskSend, Consuming, Structure, TypeOK, ReaderTypeOK
  <2>2. PICK x \in Items : rheld[c] = <<x>> /\ rheld[c][1] = x
    BY <2>1
  <2>3. /\ streams'[c] = Append(streams[c], x) /\ rheld'[c] = <<>> /\ others(c) /\ still
        /\ rtask'[c] = IF rtask[c] = "failing" THEN "done" ELSE rtask[c]
        /\ UNCHANGED <<net, held, senders, tail, wtask>>
    BY <1>18, <2>1, <2>2
    DEF TaskSend, handed, writerVars, taskVars, netVars, mergeVars, Structure, TypeOK,
        ReaderTypeOK
  <2>4. PICK q \in Seq(Items), u \in Seq(Items) :
           q = streams[c] /\ u = IF Reachable(c) THEN Upstream(c) ELSE <<>>
    <3>1. streams[c] \in Seq(Items) /\ Upstream(c) \in Seq(Items)
      BY FlowType
    <3>2. <<>> \in Seq(Items)
      OBVIOUS
    <3>3. QED
      BY <3>1, <3>2
  <2>5. Reachable(c)' <=> Reachable(c)
    BY <2>3 DEF Reachable
  <2>6. Flow(c) = q \o (<<x>> \o u) /\ Flow(c)' = Append(q, x) \o (<<>> \o u)
    BY <2>2, <2>3, <2>4, <2>5 DEF Flow, Upstream
  <2>7. q \o (<<x>> \o u) = Append(q, x) \o (<<>> \o u)
    BY MoveLast
  <2>8. rtask[c] \in {"run", "failing"}
    BY <2>1 DEF Structure, Slots, Slot, TypeOK, ReaderTypeOK
  <2>9. Intact(c)' => Intact(c)
    <3>1. CASE rtask[c] = "run"
      BY <2>3, <2>5, <3>1 DEF Intact
    <3>2. CASE rtask[c] = "failing"
      <4>1. x = Err
        BY <2>2, <3>2 DEF Structure, Slots, Slot
      <4>2. ErrIn(streams[c])'
        <5>1. Len(Append(q, x)) = Len(q) + 1 /\ Append(q, x)[Len(q) + 1] = x /\ Len(q) \in Nat
          OBVIOUS
        <5>2. ErrIn(Append(q, x))
          BY <4>1, <5>1 DEF ErrIn
        <5>3. QED
          BY <2>3, <2>4, <5>2 DEF ErrIn
      <4>3. QED
        BY <2>3, <3>2, <4>2 DEF Intact, Reachable
    <3>3. QED
      BY <2>8, <3>1, <3>2
  <2>10. QED
    BY <1>2, <2>3, <2>6, <2>7, <2>9 DEF Keep
<1>19. CASE PollOrdered
  <2> PICK c \in Conn : c = Target(cursor)
    BY PositionType, RouteType
  <2>1. CASE streams[c] # <<>> /\ Yield(c) /\ cursor' = cursor + 1
    BY <1>19, <2>1, TakeStep DEF PollOrdered
  <2>2. CASE UNCHANGED <<cursor, emitted, streams>>
    BY <1>1, <1>19, <2>2
    DEF PollOrdered, handed, writerVars, taskVars, netVars, rtaskVars
  <2>3. QED
    BY <1>19, <2>1, <2>2 DEF PollOrdered
<1>20. CASE PollArrival
  <2>1. CASE \E i \in Conn : streams[i] # <<>> /\ Yield(i)
    BY <1>20, <2>1, TakeStep DEF PollArrival
  <2>2. CASE UNCHANGED <<cursor, emitted, streams>>
    BY <1>1, <1>20, <2>2
    DEF PollArrival, handed, writerVars, taskVars, netVars, rtaskVars
  <2>3. \/ \E i \in Conn : streams[i] # <<>> /\ Yield(i)
        \/ UNCHANGED <<cursor, emitted, streams>>
    <3> HIDE DEF Moves
    <3>1. QED
      BY <1>20, ScanType DEF PollArrival
  <2>4. QED
    BY <2>1, <2>2, <2>3
<1>21. CASE AcceptFails \/ ReaderDrop
  BY <1>21 DEF AcceptFails, ReaderDrop, Consuming
<1>22. CASE ConnectFails \/ Finish \/ JoinTask \/ Terminated \/ UNCHANGED vars
  BY <1>1, <1>22
  DEF ConnectFails, Finish, JoinTask, Terminated, handed, vars, writerVars, taskVars,
      netVars, rtaskVars, mergeVars
<1>23. QED
  BY <1>4, <1>5, <1>6, <1>7, <1>8, <1>9, <1>10, <1>12, <1>13, <1>14, <1>15, <1>16, <1>17,
     <1>18, <1>19, <1>20, <1>21, <1>22
  DEF Next, WriterTask, ReaderTask, Poll

\* Every reader task that has ended is explained.
LEMMA DoneStep ==
  ASSUME Structure, Structure', DoneInv, [Next \/ RouteCancelled]_vars PROVE DoneInv'
<1> SUFFICES ASSUME Consuming', NEW c \in Conn, rtask'[c] = "done"
             PROVE  wtask'[c] \in {"ok", "err"} \/ Err \in Emitted' \/ ErrIn(streams'[c])
  BY DEF DoneInv, Explained, ErrIn
<1>0. Consuming /\ Explained(c)
  BY ConsumingBack DEF DoneInv
<1>1. ASSUME rtask[c] = "done", wtask[c] \in {"ok", "err"} => wtask'[c] \in {"ok", "err"},
             Emitted \subseteq Emitted', streams'[c] = streams[c]
      PROVE  wtask'[c] \in {"ok", "err"} \/ Err \in Emitted' \/ ErrIn(streams'[c])
  BY <1>0, <1>1 DEF Explained, ErrIn
<1>2. CASE Connect
  <2>1. opened \in Conn
    BY <1>2, ConstantsAssumption DEF Connect, Structure, WriterStages, TypeOK, WriterTypeOK, Conn
  <2>2. wtask[opened] = "none" /\ (c # opened => wtask'[c] = wtask[c])
    BY <1>2, <2>1 DEF Connect, Structure, WriterStages, TypeOK, WriterTypeOK, ConnTypeOK
  <2>3. UNCHANGED <<rtask, streams, emitted>>
    BY <1>2 DEF Connect, rtaskVars, mergeVars
  <2>4. QED
    BY <1>1, <2>2, <2>3 DEF Emitted
<1>3. ASSUME NEW d \in Conn, TaskClose(d) \/ TaskFails(d)
      PROVE  wtask'[c] \in {"ok", "err"} \/ Err \in Emitted' \/ ErrIn(streams'[c])
  <2>1. /\ wtask'[c] = wtask[c] \/ wtask'[c] \in {"ok", "err"}
        /\ UNCHANGED <<rtask, streams, emitted>>
    BY <1>3 DEF TaskClose, TaskFails, rtaskVars, mergeVars, Structure, TypeOK, ConnTypeOK
  <2>2. QED
    BY <1>1, <2>1 DEF Emitted
<1>4. CASE Accept
  <2>1. 0 .. opened - 1 \subseteq Conn
    BY ConstantsAssumption DEF Structure, TypeOK, WriterTypeOK, Conn
  <2>2. PICK d \in Conn : rtask' = [rtask EXCEPT ![d] = "run"]
    BY <1>4, <2>1 DEF Accept, AnnouncedIndex
  <2>3. rtask[c] = "done" /\ UNCHANGED <<wtask, streams, emitted>>
    BY <1>4, <2>2 DEF Accept, taskVars, Structure, TypeOK, ReaderTypeOK
  <2>4. QED
    BY <1>1, <2>3 DEF Emitted
<1>5. ASSUME NEW d \in Conn, ReadEnd(d)
      PROVE  wtask'[c] \in {"ok", "err"} \/ Err \in Emitted' \/ ErrIn(streams'[c])
  <2>1. /\ tail[d] = "fin" /\ rtask' = [rtask EXCEPT ![d] = "done"]
        /\ UNCHANGED <<wtask, streams, emitted>>
    BY <1>5 DEF ReadEnd, taskVars, mergeVars, Structure, Slots, Slot
  <2>2. wtask[d] \in {"ok", "err"}
    BY <2>1 DEF Structure, WriterStages, TypeOK, ConnTypeOK
  <2>3. CASE c = d
    BY <2>1, <2>2, <2>3
  <2>4. CASE c # d
    <3>1. rtask[c] = "done"
      BY <2>1, <2>4 DEF Structure, TypeOK, ReaderTypeOK
    <3>2. QED
      BY <1>1, <2>1, <3>1 DEF Emitted
  <2>5. QED
    BY <2>3, <2>4
<1>6. ASSUME NEW d \in Conn, ReadError(d)
      PROVE  wtask'[c] \in {"ok", "err"} \/ Err \in Emitted' \/ ErrIn(streams'[c])
  <2>1. rtask[c] = "done" /\ UNCHANGED <<wtask, streams, emitted>>
    BY <1>6 DEF ReadError, taskVars, mergeVars, Structure, TypeOK, ReaderTypeOK
  <2>2. QED
    BY <1>1, <2>1 DEF Emitted
<1>7. ASSUME NEW d \in Conn, TaskSend(d)
      PROVE  wtask'[c] \in {"ok", "err"} \/ Err \in Emitted' \/ ErrIn(streams'[c])
  <2>1. /\ streams' = [streams EXCEPT ![d] = Append(@, rheld[d][1])]
        /\ rtask' = [rtask EXCEPT ![d] = IF @ = "failing" THEN "done" ELSE @]
        /\ UNCHANGED <<wtask, emitted>> /\ rheld[d] # <<>>
    BY <1>0, <1>7 DEF TaskSend, taskVars, mergeVars, Consuming
  <2>2. CASE c = d
    <3>1. rtask[c] = "failing" /\ rheld[c] = <<Err>>
      BY <2>1, <2>2 DEF Structure, Slots, Slot, TypeOK, ReaderTypeOK
    <3>2. PICK q \in Seq(Items) : q = streams[c] /\ streams'[c] = Append(q, Err)
      BY <2>1, <2>2, <3>1 DEF Structure, TypeOK, ReaderTypeOK
    <3>3. Err \in Items
      BY DEF Items
    <3>4. Len(Append(q, Err)) = Len(q) + 1 /\ Append(q, Err)[Len(q) + 1] = Err /\ Len(q) \in Nat
      BY <3>3
    <3>5. ErrIn(Append(q, Err))
      BY <3>4 DEF ErrIn
    <3>6. QED
      BY <3>2, <3>5
  <2>3. CASE c # d
    <3>1. rtask[c] = "done" /\ streams'[c] = streams[c]
      BY <2>1, <2>3 DEF Structure, TypeOK, ReaderTypeOK
    <3>2. QED
      BY <1>1, <2>1, <3>1 DEF Emitted
  <2>4. QED
    BY <2>2, <2>3
<1>8. ASSUME NEW d \in Conn, streams[d] # <<>>, Yield(d), UNCHANGED <<wtask, rtask>>
      PROVE  wtask'[c] \in {"ok", "err"} \/ Err \in Emitted' \/ ErrIn(streams'[c])
  <2>1. PICK q \in Seq(Items) : q = streams[d] /\ q # <<>>
    BY <1>8 DEF Structure, TypeOK, ReaderTypeOK
  <2>2. Head(q) \in Items /\ Emitted' = Emitted \cup {Head(q)}
    <3>1. Head(q) \in Items
      BY <2>1, NonEmpty
    <3>2. QED
      BY <1>8, <2>1, <3>1, EmittedGrows DEF Yield
  <2>3. CASE c # d
    <3>1. streams'[c] = streams[c]
      BY <1>8, <2>3 DEF Yield, Structure, TypeOK, ReaderTypeOK
    <3>2. QED
      BY <1>1, <1>8, <2>2, <3>1
  <2>4. CASE c = d
    <3>1. streams'[c] = Tail(q)
      BY <1>8, <2>1, <2>4 DEF Yield, Structure, TypeOK, ReaderTypeOK
    <3>2. ASSUME ErrIn(q), Head(q) # Err PROVE ErrIn(Tail(q))
      <4>1. PICK i \in 1 .. Len(q) : q[i] = Err
        BY <3>2 DEF ErrIn
      <4>2. i # 1 /\ i - 1 \in 1 .. Len(Tail(q)) /\ Tail(q)[i - 1] = q[i]
        BY <2>1, <3>2, <4>1
      <4>3. QED
        BY <4>1, <4>2 DEF ErrIn
    <3>3. wtask[c] \in {"ok", "err"} \/ Err \in Emitted \/ ErrIn(q)
      BY <1>0, <1>8, <2>1, <2>4 DEF Explained
    <3>4. QED
      BY <1>8, <2>2, <3>1, <3>2, <3>3
  <2>5. QED
    BY <2>3, <2>4
<1>9. CASE PollOrdered
  <2>1. Target(cursor) \in Conn
    BY PositionType, RouteType
  <2>2. QED
    BY <1>1, <1>8, <1>9, <2>1 DEF PollOrdered, taskVars, rtaskVars, Emitted
<1>10. CASE PollArrival
  <2>1. UNCHANGED <<wtask, rtask>>
    BY <1>10 DEF PollArrival, taskVars, rtaskVars
  <2>2. CASE \E i \in Conn : streams[i] # <<>> /\ Yield(i)
    BY <1>8, <2>1, <2>2
  <2>3. CASE UNCHANGED <<emitted, streams>>
    BY <1>1, <2>1, <2>3 DEF Emitted
  <2>4. QED
    BY <1>10, <2>2, <2>3, ScanType DEF PollArrival
<1>11. CASE AcceptFails \/ ReaderDrop
  BY <1>11 DEF AcceptFails, ReaderDrop, Consuming
<1>12. CASE UNCHANGED <<wtask, rtask, streams, emitted>>
  BY <1>1, <1>12 DEF Emitted
<1>13. QED
  BY <1>2, <1>3, <1>4, <1>5, <1>6, <1>7, <1>9, <1>10, <1>11, <1>12
  DEF Next, vars, WriterTask, ReaderTask, Poll, ConnectFails, RouteCall, RouteDeliver,
      RouteBroken, RouteCancelled, Finish, JoinTask, TaskRecv, TaskWrite, Reset, ReadFrame,
      Terminated, taskVars, rtaskVars, mergeVars

LEMMA DoneInit == Init => DoneInv
BY DEF Init, DoneInv, Explained

------------------------------------------------------------------------------
(***************************************************************************)
(* The global order of an Ordered reader, and that it implements           *)
(* OrderedDelivery.  The argument follows the moves of FlowMoves: Flow(c)  *)
(* always holds the frames of connection c from the cursor on, in order,   *)
(* without a gap: so its head, when the cursor is at c, is the frame of    *)
(* the cursor's own position.                                              *)
(***************************************************************************)


\* F holds frames of connection c from position a on and below b, in send order
\* and without a gap, followed by at most one error.
InOrder(F, c, a, b) ==
  \A j \in 1 .. Len(F) :
    /\ \A i \in 1 .. j - 1 : F[i] # Err /\ (F[j] # Err => F[i] < F[j])
    /\ F[j] # Err =>
         /\ F[j] \in a .. b - 1 /\ Route(F[j]) = c
         /\ \A k \in a .. F[j] - 1 :
              Route(k) = c => \E i \in 1 .. j - 1 : F[i] = k

\* F holds all of them.
Complete(F, c, a, b) ==
  \A k \in a .. b - 1 : Route(k) = c => \E i \in 1 .. Len(F) : F[i] = k

\* Nothing handed over to an intact connection is missing from its flow.
FlowOK(c) ==
  /\ InOrder(Flow(c), c, cursor, handed)
  /\ Intact(c) => Complete(Flow(c), c, cursor, handed)

FlowInv == \A c \in Conn : FlowOK(c)

\* An error in place of position j - 1 means that its connection is dead.
EmittedInv ==
  /\ cursor = Len(emitted)
  /\ \A j \in 1 .. Len(emitted) :
       \/ emitted[j] = j - 1 /\ j - 1 < handed
       \/ emitted[j] = Err /\ rtask[Route(j - 1)] = "done"

OrderInv ==
  /\ Consuming => FlowInv
  /\ EmittedInv
  /\ cancelled = {}

IInv == Structure /\ DoneInv /\ OrderInv

------------------------------------------------------------------------------
(* What the moves do to a flow in order.                                    *)

\* A prefix of a flow in order is in order.
LEMMA PrefixInOrder ==
  ASSUME NEW F \in Seq(Items), NEW G \in Seq(Items), NEW c, NEW a \in Nat, NEW b \in Nat,
         InOrder(F, c, a, b), Begins(G, F)
  PROVE  InOrder(G, c, a, b)
<1>1. SUFFICES ASSUME NEW j \in 1 .. Len(G)
      PROVE  /\ \A i \in 1 .. j - 1 : G[i] # Err /\ (G[j] # Err => G[i] < G[j])
             /\ G[j] # Err =>
                  /\ G[j] \in a .. b - 1 /\ Route(G[j]) = c
                  /\ \A k \in a .. G[j] - 1 :
                       Route(k) = c => \E i \in 1 .. j - 1 : G[i] = k
  BY DEF InOrder
<1>2. /\ j \in Int /\ j \in 1 .. Len(F) /\ F[j] = G[j]
      /\ \A i \in 1 .. j - 1 : F[i] = G[i]
  BY DEF Begins
<1>3. \A i \in 1 .. j - 1 : G[i] # Err /\ (G[j] # Err => G[i] < G[j])
  BY <1>2 DEF InOrder
<1>4. G[j] # Err => G[j] \in a .. b - 1 /\ Route(G[j]) = c
  BY <1>2 DEF InOrder
<1>5. ASSUME G[j] # Err, NEW k \in a .. G[j] - 1, Route(k) = c
      PROVE  \E i \in 1 .. j - 1 : G[i] = k
  <2>1. PICK i \in 1 .. j - 1 : F[i] = k
    BY <1>2, <1>5 DEF InOrder
  <2>2. QED
    BY <1>2, <2>1
<1>6. QED
  BY <1>3, <1>4, <1>5

\* So it is when it ends in an error.
LEMMA FailInOrder ==
  ASSUME NEW G \in Seq(Items), NEW c, NEW a \in Nat, NEW b \in Nat,
         InOrder(G, c, a, b), \A i \in 1 .. Len(G) : G[i] # Err
  PROVE  InOrder(Append(G, Err), c, a, b)
<1> DEFINE H == Append(G, Err)
<1>1. Len(H) = Len(G) + 1 /\ H[Len(H)] = Err /\ \A i \in 1 .. Len(G) : H[i] = G[i]
  BY DEF Items
<1>2. QED
  BY <1>1 DEF InOrder

\* The next frame of connection c joins a flow that lacks none before it.
LEMMA QueueInOrder ==
  ASSUME NEW F \in Seq(Items), NEW c, NEW a \in Nat, NEW b \in Nat, a <= b, Route(b) = c,
         \A i \in 1 .. Len(F) : F[i] # Err,
         InOrder(F, c, a, b), Complete(F, c, a, b)
  PROVE  InOrder(Append(F, b), c, a, b + 1) /\ Complete(Append(F, b), c, a, b + 1)
<1> DEFINE H == Append(F, b)
<1>0. b \in Items /\ b # Err
  BY DEF Items, Err
<1>1. /\ Len(H) = Len(F) + 1 /\ H[Len(H)] = b
      /\ \A i \in 1 .. Len(F) : H[i] = F[i] /\ i \in 1 .. Len(H)
      /\ Len(F) \in Nat /\ Len(H) \in 1 .. Len(H)
  BY <1>0
<1>2. \A j \in 1 .. Len(F) : F[j] \in a .. b - 1 /\ Route(F[j]) = c
  BY DEF InOrder
<1>3. InOrder(H, c, a, b + 1)
  <2>1. SUFFICES ASSUME NEW j \in 1 .. Len(H)
        PROVE  /\ \A i \in 1 .. j - 1 : H[i] # Err /\ (H[j] # Err => H[i] < H[j])
               /\ H[j] \in a .. b /\ Route(H[j]) = c
               /\ \A k \in a .. H[j] - 1 :
                    Route(k) = c => \E i \in 1 .. j - 1 : H[i] = k
    BY DEF InOrder
  <2>2. CASE j = Len(H)
    BY <1>1, <1>2, <2>2 DEF Complete
  <2>3. CASE j \in 1 .. Len(F)
    BY <1>1, <1>2, <2>3 DEF InOrder
  <2>4. j = Len(H) \/ j \in 1 .. Len(F)
    BY <1>1
  <2>5. QED
    BY <2>2, <2>3, <2>4
<1>4. Complete(H, c, a, b + 1)
  <2>1. SUFFICES ASSUME NEW k \in a .. b, Route(k) = c
        PROVE  \E i \in 1 .. Len(H) : H[i] = k
    BY DEF Complete
  <2>2. CASE k = b
    BY <1>1, <2>2
  <2>3. CASE k \in a .. b - 1
    BY <1>1, <2>1, <2>3 DEF Complete
  <2>4. QED
    BY <2>2, <2>3
<1>5. QED
  BY <1>3, <1>4

\* A frame of another connection leaves the flow of c as complete as it was.
LEMMA QueueElsewhere ==
  ASSUME NEW F \in Seq(Items), NEW c, NEW a \in Nat, NEW b \in Nat
  PROVE  /\ InOrder(F, c, a, b) => InOrder(F, c, a, b + 1)
         /\ Route(b) # c /\ Complete(F, c, a, b) => Complete(F, c, a, b + 1)
<1>1. InOrder(F, c, a, b) => InOrder(F, c, a, b + 1)
  BY DEF InOrder
<1>2. Route(b) # c /\ Complete(F, c, a, b) => Complete(F, c, a, b + 1)
  BY DEF Complete
<1>3. QED
  BY <1>1, <1>2

\* When the cursor is at c, the head of its flow is the frame of the cursor.
LEMMA PopInOrder ==
  ASSUME NEW F \in Seq(Items), NEW c, NEW a \in Nat, NEW b \in Nat, Route(a) = c,
         F # <<>>, Head(F) # Err, InOrder(F, c, a, b)
  PROVE  /\ Head(F) = a /\ a < b
         /\ InOrder(Tail(F), c, a + 1, b)
         /\ Complete(F, c, a, b) => Complete(Tail(F), c, a + 1, b)
<1> DEFINE T == Tail(F)
<1>1. /\ F[1] = Head(F) /\ 1 \in 1 .. Len(F) /\ Len(T) = Len(F) - 1 /\ Len(F) \in Nat
      /\ \A i \in 1 .. Len(T) : T[i] = F[i + 1]
  OBVIOUS
<1>2. F[1] = a /\ a < b
  <2>1. F[1] \in a .. b - 1
    BY <1>1 DEF InOrder
  <2>2. \A k \in a .. F[1] - 1 : Route(k) = c => \E i \in 1 .. 1 - 1 : F[i] = k
    BY <1>1 DEF InOrder
  <2>3. QED
    BY <2>1, <2>2
<1>3. ASSUME NEW j \in 2 .. Len(F), F[j] # Err PROVE F[j] \in a + 1 .. b - 1
  BY <1>1, <1>2, <1>3 DEF InOrder
<1>4. InOrder(T, c, a + 1, b)
  <2>1. SUFFICES ASSUME NEW j \in 1 .. Len(T)
        PROVE  /\ \A i \in 1 .. j - 1 : T[i] # Err /\ (T[j] # Err => T[i] < T[j])
               /\ T[j] # Err =>
                    /\ T[j] \in a + 1 .. b - 1 /\ Route(T[j]) = c
                    /\ \A k \in a + 1 .. T[j] - 1 :
                         Route(k) = c => \E i \in 1 .. j - 1 : T[i] = k
    BY DEF InOrder
  <2>2. j + 1 \in 2 .. Len(F) /\ T[j] = F[j + 1]
    BY <1>1
  <2>3. \A i \in 1 .. j - 1 : T[i] # Err /\ (T[j] # Err => T[i] < T[j])
    BY <1>1, <2>2 DEF InOrder
  <2>4. ASSUME T[j] # Err, NEW k \in a + 1 .. T[j] - 1, Route(k) = c
        PROVE  \E i \in 1 .. j - 1 : T[i] = k
    <3>1. PICK i \in 1 .. j : F[i] = k
      BY <2>2, <2>4, <1>3 DEF InOrder
    <3>2. i # 1 /\ i - 1 \in 1 .. j - 1 /\ T[i - 1] = F[i]
      BY <1>1, <1>2, <2>2, <2>4, <3>1
    <3>3. QED
      BY <3>1, <3>2
  <2>5. T[j] # Err => T[j] \in a + 1 .. b - 1 /\ Route(T[j]) = c
    BY <1>1, <1>3, <2>2 DEF InOrder
  <2>6. QED
    BY <2>3, <2>4, <2>5
<1>5. Complete(F, c, a, b) => Complete(T, c, a + 1, b)
  <2>1. SUFFICES ASSUME Complete(F, c, a, b), NEW k \in a + 1 .. b - 1, Route(k) = c
        PROVE  \E i \in 1 .. Len(T) : T[i] = k
    BY DEF Complete
  <2>2. PICK i \in 1 .. Len(F) : F[i] = k
    BY <2>1 DEF Complete
  <2>3. i # 1 /\ i - 1 \in 1 .. Len(T) /\ T[i - 1] = F[i]
    BY <1>1, <1>2, <2>1, <2>2
  <2>4. QED
    BY <2>2, <2>3
<1>6. QED
  BY <1>1, <1>2, <1>4, <1>5

\* An error at the head of a flow is alone in it.
LEMMA ErrorInOrder ==
  ASSUME NEW F \in Seq(Items), NEW c, NEW a \in Nat, NEW b \in Nat,
         F # <<>>, Head(F) = Err, InOrder(F, c, a, b)
  PROVE  Len(F) = 1
<1>1. F[1] = Err /\ Len(F) \in Nat /\ Len(F) # 0
  OBVIOUS
<1>2. ASSUME Len(F) >= 2 PROVE F[1] # Err
  BY <1>1, <1>2 DEF InOrder
<1>3. ~(Len(F) >= 2)
  BY <1>1, <1>2, Zenon
<1>4. \A n \in Nat : n # 0 /\ ~(n >= 2) => n = 1
  OBVIOUS
<1>5. QED
  BY <1>1, <1>3, <1>4, Zenon

\* A position of another connection can be passed over.
LEMMA SkipElsewhere ==
  ASSUME NEW F \in Seq(Items), NEW c, NEW a \in Nat, NEW b \in Nat, Route(a) # c
  PROVE  /\ InOrder(F, c, a, b) => InOrder(F, c, a + 1, b)
         /\ Complete(F, c, a, b) => Complete(F, c, a + 1, b)
<1>1. InOrder(F, c, a, b) => InOrder(F, c, a + 1, b)
  <2>1. HAVE InOrder(F, c, a, b)
  <2>2. \A j \in 1 .. Len(F) : F[j] # Err => F[j] \in a .. b - 1 /\ F[j] # a
    BY <2>1 DEF InOrder
  <2>3. QED
    BY <2>1, <2>2 DEF InOrder
<1>2. Complete(F, c, a, b) => Complete(F, c, a + 1, b)
  BY DEF Complete
<1>3. QED
  BY <1>1, <1>2

------------------------------------------------------------------------------
(* The flows are inductive.                                                 *)

\* No step breaks the order of a flow that can still be consumed.
LEMMA FlowStep ==
  ASSUME Sort = "Ordered", Structure, Structure', DoneInv, FlowInv, EmittedInv,
         cancelled = {}, [Next]_vars, Consuming'
  PROVE  FlowInv'
<1> USE DEF FlowInv
<1>1. cancelled' = {}
  BY CancelledKept
<1>2. /\ cursor \in Nat /\ handed \in Nat
      /\ \A c \in Conn : Flow(c) \in Seq(Items) /\ FlowOK(c)
  BY FlowType, PositionType
<1>3. CASE Quiet
  <2>1. ASSUME NEW c \in Conn, Keep(c) PROVE FlowOK(c)'
    BY <1>3, <2>1 DEF Quiet, Keep, FlowOK
  <2>2. ASSUME NEW c \in Conn, Lose(c) PROVE FlowOK(c)'
    <3>1. PICK G \in Seq(Items) :
            /\ Begins(G, Flow(c))
            /\ Flow(c)' = G \/ (~ErrIn(G) /\ Flow(c)' = Append(G, Err))
      BY <2>2 DEF Lose
    <3>2. InOrder(G, c, cursor, handed)
      BY <1>2, <3>1, PrefixInOrder DEF FlowOK
    <3>3. InOrder(Flow(c)', c, cursor, handed)
      BY <1>2, <3>1, <3>2, FailInOrder DEF ErrIn
    <3>4. QED
      BY <1>3, <2>2, <3>3 DEF Quiet, Lose, FlowOK
  <2>3. QED
    BY <1>3, <2>1, <2>2 DEF Quiet
<1>4. ASSUME NEW c \in Conn, NEW b \in Nat, HandOver(b, c) PROVE FlowInv'
  <2>1. /\ b = handed /\ c = Route(b) /\ handed' = b + 1 /\ cursor' = cursor
        /\ InOrder(Flow(c), c, cursor, b + 1)
    BY <1>2, <1>4, QueueElsewhere DEF HandOver, FlowOK
  <2>2. ASSUME NEW d \in Conn \ {c} PROVE FlowOK(d)'
    <3>1. /\ InOrder(Flow(d), d, cursor, b + 1)
          /\ Intact(d) => Complete(Flow(d), d, cursor, b + 1)
      BY <1>2, <2>1, <2>2, QueueElsewhere DEF FlowOK
    <3>2. Keep(d)
      BY <1>4, <2>2 DEF HandOver
    <3>3. QED
      BY <2>1, <3>1, <3>2 DEF FlowOK, Keep
  <2>3. CASE Reachable(c) /\ Intact(c) /\ Flow(c)' = Append(Flow(c), b)
    <3>1. cursor <= b
      <4>1. SUFFICES ASSUME b < cursor PROVE FALSE
        BY <1>2
      <4>2. b + 1 \in 1 .. Len(emitted) /\ (b + 1) - 1 = b
        BY <1>2, <4>1 DEF EmittedInv
      <4>3. rtask[c] = "done"
        BY <2>1, <4>2 DEF EmittedInv
      <4>4. QED
        BY <2>3, <4>3 DEF Reachable
    <3>2. \A i \in 1 .. Len(Flow(c)) : Flow(c)[i] # Err
      BY <2>3, LiveFlow
    <3>3. InOrder(Flow(c), c, cursor, b) /\ Complete(Flow(c), c, cursor, b)
      BY <1>2, <2>1, <2>3 DEF FlowOK
    <3>4. InOrder(Flow(c)', c, cursor, b + 1) /\ Complete(Flow(c)', c, cursor, b + 1)
      BY <1>2, <2>1, <2>3, <3>1, <3>2, <3>3, QueueInOrder
    <3>5. FlowOK(c)'
      BY <2>1, <3>4 DEF FlowOK
    <3>6. QED
      BY <2>2, <3>5
  <2>4. CASE Flow(c)' = Flow(c) /\ ~Intact(c)'
    <3>1. FlowOK(c)'
      BY <2>1, <2>4 DEF FlowOK
    <3>2. QED
      BY <2>2, <3>1
  <2>5. QED
    BY <1>1, <1>4, <2>3, <2>4 DEF HandOver
<1>5. ASSUME NEW c \in Conn, Take(c) PROVE FlowInv'
  <2>1. /\ c = Route(cursor) /\ cursor' = cursor + 1 /\ handed' = handed
        /\ Flow(c) # <<>> /\ Flow(c)' = Tail(Flow(c)) /\ (Intact(c)' => Intact(c))
    BY <1>2, <1>5, RouteType DEF Take
  <2>2. ASSUME Head(Flow(c)) # Err PROVE FlowOK(c)'
    <3>1. /\ InOrder(Tail(Flow(c)), c, cursor + 1, handed)
          /\ Complete(Flow(c), c, cursor, handed)
               => Complete(Tail(Flow(c)), c, cursor + 1, handed)
      BY <1>2, <2>1, <2>2, PopInOrder DEF FlowOK
    <3>2. QED
      BY <1>2, <2>1, <3>1 DEF FlowOK
  <2>3. ASSUME Head(Flow(c)) = Err PROVE FlowOK(c)'
    <3>1. Len(Flow(c)) = 1
      BY <1>2, <2>1, <2>3, ErrorInOrder DEF FlowOK
    <3>2. Flow(c)' = <<>>
      BY <1>2, <2>1, <3>1
    <3>3. ~Intact(c)'
      BY <1>5, <2>3 DEF Take
    <3>4. InOrder(<<>>, c, cursor + 1, handed)
      BY DEF InOrder
    <3>5. QED
      BY <2>1, <3>2, <3>3, <3>4 DEF FlowOK
  <2>4. FlowOK(c)'
    BY <2>2, <2>3
  <2>5. ASSUME NEW d \in Conn \ {c} PROVE FlowOK(d)'
    <3>1. /\ InOrder(Flow(d), d, cursor + 1, handed)
          /\ Intact(d) => Complete(Flow(d), d, cursor + 1, handed)
      BY <1>2, <2>1, <2>5, SkipElsewhere DEF FlowOK
    <3>2. Keep(d)
      BY <1>5, <2>5 DEF Take
    <3>3. QED
      BY <2>1, <3>1, <3>2 DEF FlowOK, Keep
  <2>6. QED
    BY <2>4, <2>5
<1>6. QED
  BY <1>3, <1>4, <1>5, FlowMoves DEF Moves

------------------------------------------------------------------------------
(* What has been emitted, and the theorems.                                 *)

\* The counters only grow and a reader task that ended does not come back.
LEMMA Monotone ==
  ASSUME Structure, [Next]_vars
  PROVE  /\ handed' >= handed
         /\ \A c \in Conn : rtask[c] = "done" => rtask'[c] = "done"
BY HandedGrows, DoneStays

\* Only a poll emits, and it emits one item.
LEMMA EmitsOne ==
  ASSUME Sort = "Ordered", [Next]_vars
  PROVE  \/ UNCHANGED <<cursor, emitted>>
         \/ /\ reader = "reading" /\ streams[Target(cursor)] # <<>>
            /\ cursor' = cursor + 1 /\ UNCHANGED <<next, pending>>
            /\ emitted' = Append(emitted, Head(streams[Target(cursor)]))
BY DEF Next, vars, Connect, ConnectFails, RouteCall, RouteDeliver, RouteBroken, Finish,
       JoinTask, WriterTask, TaskRecv, TaskWrite, TaskClose, TaskFails, Reset, Accept,
       AcceptFails, ReaderTask, ReadFrame, ReadEnd, ReadError, TaskSend, Poll,
       PollOrdered, PollArrival, ReaderDrop, Terminated, Yield, writerVars, mergeVars

\* The head of the rotation is the frame of the cursor, or the error of a
\* connection that is dead.
LEMMA HeadOfRotation ==
  ASSUME Structure, FlowInv, streams[Target(cursor)] # <<>>
  PROVE  \/ /\ Head(streams[Target(cursor)]) = cursor /\ cursor < handed
         \/ /\ Head(streams[Target(cursor)]) = Err
            /\ rtask[Route(cursor)] = "done"
<1>1. PICK c \in Conn : c = Target(cursor) /\ c = Route(cursor)
  BY PositionType, RouteType
<1>2. PICK q \in Seq(Items), w \in Seq(Items) : q = streams[c] /\ Flow(c) = q \o w
  <2>1. /\ streams[c] \in Seq(Items) /\ rheld[c] \in Seq(Items)
        /\ Upstream(c) \in Seq(Items) /\ <<>> \in Seq(Items)
    BY FlowType
  <2>2. rheld[c] \o (IF Reachable(c) THEN Upstream(c) ELSE <<>>) \in Seq(Items)
    BY <2>1, ConcatProperties
  <2>3. QED
    BY <2>1, <2>2 DEF Flow
<1>3. q # <<>> /\ q \o w # <<>> /\ Head(q \o w) = Head(q)
  <2>1. q # <<>>
    BY <1>1, <1>2
  <2>2. QED
    BY <2>1, TailLeft
<1>4. /\ Flow(c) \in Seq(Items) /\ cursor \in Nat /\ handed \in Nat
      /\ InOrder(Flow(c), c, cursor, handed)
  BY FlowType, PositionType DEF FlowInv, FlowOK
<1>5. CASE Head(q) # Err
  <2>1. Head(Flow(c)) = cursor /\ cursor < handed
    BY <1>1, <1>2, <1>3, <1>4, <1>5, PopInOrder
  <2>2. QED
    BY <1>1, <1>2, <1>3, <2>1
<1>6. CASE Head(q) = Err
  <2>1. 1 \in DOMAIN q /\ q[1] = Err
    BY <1>3, <1>6
  <2>2. rtask[c] = "done"
    BY <1>2, <2>1 DEF Structure, Slots, Slot
  <2>3. QED
    BY <1>1, <1>2, <1>6, <2>2
<1>7. QED
  BY <1>5, <1>6

LEMMA HandedNext == Structure' => handed' \in Nat
<1>1. Structure => handed \in Nat
  BY PositionType
<1>2. Structure' => (handed \in Nat)'
  BY <1>1, PTL
<1>3. QED
  BY <1>2

LEMMA EmittedStep ==
  ASSUME Sort = "Ordered", Structure, Structure', OrderInv, [Next]_vars
  PROVE  EmittedInv'
<1>1. /\ cursor \in Nat /\ handed \in Nat /\ emitted \in Seq(Items)
      /\ cursor = Len(emitted) /\ handed' >= handed /\ handed' \in Nat
  BY HandedNext, PositionType, Monotone
  DEF OrderInv, EmittedInv, Structure, TypeOK, ReaderTypeOK
<1>2. ASSUME NEW j \in 1 .. Len(emitted)
      PROVE  \/ emitted[j] = j - 1 /\ j - 1 < handed'
             \/ emitted[j] = Err /\ rtask'[Route(j - 1)] = "done"
  <2>1. Route(j - 1) \in Conn
    BY RouteType
  <2>2. \/ emitted[j] = j - 1 /\ j - 1 < handed
        \/ emitted[j] = Err /\ rtask[Route(j - 1)] = "done"
    BY DEF OrderInv, EmittedInv
  <2>3. QED
    BY <1>1, <2>1, <2>2, Monotone
<1>3. CASE UNCHANGED <<cursor, emitted>>
  BY <1>1, <1>2, <1>3 DEF EmittedInv
<1>4. ASSUME reader = "reading", streams[Target(cursor)] # <<>>, cursor' = cursor + 1,
             emitted' = Append(emitted, Head(streams[Target(cursor)]))
      PROVE  EmittedInv'
  <2> DEFINE x == Head(streams[Target(cursor)])
  <2>1. \/ x = cursor /\ cursor < handed
        \/ x = Err /\ rtask[Route(cursor)] = "done"
    BY <1>4, HeadOfRotation DEF OrderInv, Consuming
  <2>2. \/ x = cursor /\ cursor < handed'
        \/ x = Err /\ rtask'[Route(cursor)] = "done"
    BY <1>1, <2>1, Monotone, RouteType
  <2>3. x \in Items
    BY <1>1, <2>1 DEF Items
  <2> HIDE DEF x
  <2>4. emitted' = Append(emitted, x)
    BY <1>4 DEF x
  <2>5. /\ Len(emitted') = Len(emitted) + 1 /\ emitted'[Len(emitted) + 1] = x
        /\ \A j \in 1 .. Len(emitted) : emitted'[j] = emitted[j]
    BY <1>1, <2>3, <2>4
  <2>6. ASSUME NEW j \in 1 .. Len(emitted')
        PROVE  \/ emitted'[j] = j - 1 /\ j - 1 < handed'
               \/ emitted'[j] = Err /\ rtask'[Route(j - 1)] = "done"
    <3>1. CASE j \in 1 .. Len(emitted)
      BY <1>2, <2>5, <3>1
    <3>2. CASE j = Len(emitted) + 1
      <4>1. j - 1 = cursor /\ emitted'[j] = x
        BY <1>1, <2>5, <3>2
      <4>2. QED
        BY <2>2, <4>1
    <3>3. QED
      BY <1>1, <2>5, <3>1, <3>2
  <2>7. QED
    BY <1>1, <1>4, <2>5, <2>6 DEF EmittedInv
<1>5. QED
  BY <1>3, <1>4, EmitsOne

LEMMA OrderInit == Init => OrderInv
<1>1. SUFFICES ASSUME Init PROVE OrderInv
  OBVIOUS
<1>2. ASSUME NEW c \in Conn PROVE Flow(c) = <<>>
  <2>1. <<>> \o <<>> = <<>>
    OBVIOUS
  <2>2. QED
    BY <1>1, <2>1 DEF Init, Flow, Upstream
<1>3. cursor = 0 /\ handed = 0 /\ emitted = <<>>
  BY <1>1 DEF Init, handed
<1>4. FlowInv
  BY <1>2, <1>3 DEF FlowInv, FlowOK, InOrder, Complete
<1>5. EmittedInv /\ cancelled = {}
  BY <1>1, <1>3 DEF Init, EmittedInv
<1>6. QED
  BY <1>4, <1>5 DEF OrderInv

LEMMA IInvInit == Init => IInv
BY StructureInit, DoneInit, OrderInit DEF IInv

LEMMA IInvStep ==
  ASSUME Sort = "Ordered" PROVE IInv /\ [Next]_vars => IInv'
<1>1. SUFFICES ASSUME Structure, DoneInv, OrderInv, [Next]_vars PROVE IInv'
  BY DEF IInv
<1>2. Structure' /\ DoneInv'
  BY <1>1, StructureStep, DoneStep
<1>3. EmittedInv'
  BY <1>1, <1>2, EmittedStep
<1>4. ASSUME Consuming' PROVE FlowInv'
  BY <1>1, <1>2, <1>4, FlowStep, ConsumingBack DEF OrderInv
<1>5. cancelled' = {}
  BY <1>1, CancelledKept DEF OrderInv
<1>6. QED
  BY <1>2, <1>3, <1>4, <1>5 DEF IInv, OrderInv

\* The merged stream of an Ordered reader is in global send order: position j
\* is frame j or the error that stands for it. It holds for any number of
\* connections accepted in any order, any channel depth, when the rotation's
\* counters wrap, and under any sequence of failures. It rests on FlowInv:
\* what is on its way on each connection is gapless from the cursor on.
THEOREM OrderedOutputHolds ==
  ASSUME Sort = "Ordered" PROVE Spec => []OrderedOutput
<1>1. Init => IInv
  BY IInvInit
<1>2. IInv /\ [Next]_vars => IInv'
  BY IInvStep
<1>3. IInv => OrderedOutput
  <2>1. IInv => emitted \in Seq(Items)
    BY DEF IInv, Structure, TypeOK, ReaderTypeOK
  <2>2. QED
    BY <2>1 DEF IInv, OrderInv, EmittedInv, OrderedOutput
<1>4. QED
  BY <1>1, <1>2, <1>3, PTL DEF Spec

\* The transport with an Ordered reader implements OrderedDelivery: every step
\* of its writer, tasks, network and reader delivers the next item in order,
\* reports one error in its place, submits one item, or changes nothing of it.
THEOREM OrderedImplements ==
  ASSUME Sort = "Ordered" PROVE Spec => ImplementsOrderedDelivery
<1>1. Init => IInv
  BY IInvInit
<1>2. IInv /\ [Next]_vars => IInv'
  BY IInvStep
<1>3. Init => Delivery!Init
  BY DEF Init, Delivery!Init
<1>4. IInv /\ [Next]_vars => [Delivery!Next]_<<next, emitted>>
  <2>1. SUFFICES ASSUME IInv, [Next]_vars PROVE [Delivery!Next]_<<next, emitted>>
    OBVIOUS
  <2>2. CASE UNCHANGED <<cursor, emitted>>
    <3>1. next' \in {next, next + 1}
      BY <2>1
      DEF Next, vars, Connect, ConnectFails, RouteCall, RouteDeliver, RouteBroken,
          Finish, JoinTask, WriterTask, TaskRecv, TaskWrite, TaskClose, TaskFails, Reset,
          Accept, AcceptFails, ReaderTask, ReadFrame, ReadEnd, ReadError, TaskSend, Poll,
          PollOrdered, PollArrival, ReaderDrop, Terminated, writerVars
    <3>2. QED
      BY <2>2, <3>1 DEF Delivery!Next, Delivery!Submit
  <2>3. CASE /\ reader = "reading" /\ streams[Target(cursor)] # <<>>
             /\ UNCHANGED <<next, pending>>
             /\ emitted' = Append(emitted, Head(streams[Target(cursor)]))
    <3>1. \/ Head(streams[Target(cursor)]) = cursor /\ cursor < handed
          \/ Head(streams[Target(cursor)]) = Err
      BY <2>1, <2>3, HeadOfRotation DEF IInv, OrderInv, Consuming
    <3>2. cursor = Len(emitted) /\ next \in Nat /\ cursor \in Nat /\ handed <= next
      BY <2>1, PositionType DEF IInv, OrderInv, EmittedInv, handed
    <3>3. CASE Head(streams[Target(cursor)]) = cursor /\ cursor < handed
      <4>1. Delivery!Deliver
        BY <2>1, <2>3, <3>2, <3>3, PositionType DEF IInv, Delivery!Deliver
      <4>2. QED
        BY <4>1 DEF Delivery!Next
    <3>4. CASE Head(streams[Target(cursor)]) = Err
      BY <2>3, <3>4 DEF Delivery!Next, Delivery!Fail, Delivery!Err, Err
    <3>5. QED
      BY <3>1, <3>3, <3>4
  <2>4. QED
    BY <2>1, <2>2, <2>3, EmitsOne
<1>5. QED
  BY <1>1, <1>2, <1>3, <1>4, PTL DEF Spec, ImplementsOrderedDelivery, Delivery!Spec

------------------------------------------------------------------------------
(***************************************************************************)
(* What an application gets out of the parallel transport under either     *)
(* SortBehaviour, for every value of the constants: the frames of a        *)
(* connection in the order they were sent and none twice, and, when the    *)
(* stream ends cleanly, all of them. Both hold when the caller abandons    *)
(* sends; the second then in arrival order only.                           *)
(*                                                                         *)
(* The argument follows the moves of FlowMoves. What waits in Flow(c) is   *)
(* ascending and above all that has been emitted of connection c, and as   *)
(* long as connection c is intact, a frame handed over to it has been      *)
(* emitted, was abandoned, or is in Flow(c). A slot whose channel is       *)
(* drained without an error is intact, and has nothing left in its flow.   *)
(***************************************************************************)

\* F holds frames of connection c below b, ascending, above those in E, and at
\* most one error, which comes last.
Ahead(F, c, E, b) ==
  \A j \in 1 .. Len(F) :
    /\ \A i \in 1 .. j - 1 : F[i] # Err /\ (F[j] # Err => F[i] < F[j])
    /\ F[j] # Err =>
         /\ F[j] \in 0 .. b - 1 /\ Route(F[j]) = c
         /\ \A e \in E : e # Err /\ Route(e) = c => e < F[j]

\* Every frame of connection c below b is in A or in F.
Accounted(F, c, A, b) ==
  \A k \in 0 .. b - 1 :
    Route(k) = c => k \in A \/ \E i \in 1 .. Len(F) : F[i] = k

JourneyOK(c) ==
  /\ Ahead(Flow(c), c, Emitted, handed)
  /\ Intact(c) => Accounted(Flow(c), c, Emitted \cup cancelled, handed)

JourneyInv == Consuming => \A c \in Conn : JourneyOK(c)

EmissionInv ==
  /\ ConnectionOrder
  /\ \A j \in DOMAIN emitted : emitted[j] # Err => emitted[j] \in 0 .. handed - 1

\* The merge gives up a slot, and ends, on drained channels only.
EndInv ==
  /\ \A c \in Conn : closed[c] => Drained(c)
  /\ reader = "ended" =>
       IF Sort = "Ordered" THEN Drained(Target(cursor)) ELSE \A c \in Conn : closed[c]

CInv == Structure /\ DoneInv /\ JourneyInv /\ EmissionInv /\ EndInv

------------------------------------------------------------------------------
(* What the moves do to a journey.                                          *)

\* A prefix keeps ahead, and so it does with an error behind it.
LEMMA CutAhead ==
  ASSUME NEW F \in Seq(Items), NEW G \in Seq(Items), NEW c, NEW E, NEW b \in Nat,
         Ahead(F, c, E, b), Begins(G, F)
  PROVE  /\ Ahead(G, c, E, b)
         /\ ~ErrIn(G) => Ahead(Append(G, Err), c, E, b)
<1>1. Ahead(G, c, E, b)
  <2>1. SUFFICES ASSUME NEW j \in 1 .. Len(G)
        PROVE  /\ \A i \in 1 .. j - 1 : G[i] # Err /\ (G[j] # Err => G[i] < G[j])
               /\ G[j] # Err =>
                    /\ G[j] \in 0 .. b - 1 /\ Route(G[j]) = c
                    /\ \A e \in E : e # Err /\ Route(e) = c => e < G[j]
    BY DEF Ahead
  <2>2. /\ j \in Int /\ j \in 1 .. Len(F) /\ F[j] = G[j]
        /\ \A i \in 1 .. j - 1 : F[i] = G[i]
    BY DEF Begins
  <2>3. QED
    BY <2>2 DEF Ahead
<1>2. ASSUME ~ErrIn(G) PROVE Ahead(Append(G, Err), c, E, b)
  <2>1. /\ Len(Append(G, Err)) = Len(G) + 1 /\ Append(G, Err)[Len(G) + 1] = Err
        /\ \A i \in 1 .. Len(G) : Append(G, Err)[i] = G[i] /\ G[i] # Err
        /\ Len(G) \in Nat
    BY <1>2 DEF Items, ErrIn
  <2> DEFINE H == Append(G, Err)
  <2>2. SUFFICES ASSUME NEW j \in 1 .. Len(H)
        PROVE  /\ \A i \in 1 .. j - 1 : H[i] # Err /\ (H[j] # Err => H[i] < H[j])
               /\ H[j] # Err =>
                    /\ H[j] \in 0 .. b - 1 /\ Route(H[j]) = c
                    /\ \A e \in E : e # Err /\ Route(e) = c => e < H[j]
    BY DEF Ahead
  <2>3. CASE j = Len(G) + 1
    BY <2>1, <2>3
  <2>4. CASE j \in 1 .. Len(G)
    BY <1>1, <2>1, <2>4 DEF Ahead
  <2>5. QED
    BY <2>1, <2>3, <2>4
<1>3. QED
  BY <1>1, <1>2

\* Frame b joins a flow of smaller frames.
LEMMA QueueAhead ==
  ASSUME NEW F \in Seq(Items), NEW c, NEW E, NEW b \in Nat, Route(b) = c,
         \A i \in 1 .. Len(F) : F[i] # Err,
         \A e \in E : e # Err => e < b,
         Ahead(F, c, E, b)
  PROVE  Ahead(Append(F, b), c, E, b + 1)
<1> DEFINE H == Append(F, b)
<1>1. /\ Len(H) = Len(F) + 1 /\ H[Len(F) + 1] = b /\ Len(F) \in Nat
      /\ \A i \in 1 .. Len(F) : H[i] = F[i]
  BY DEF Items
<1>2. \A i \in 1 .. Len(F) : F[i] \in 0 .. b - 1
  BY DEF Ahead
<1>3. SUFFICES ASSUME NEW j \in 1 .. Len(H)
      PROVE  /\ \A i \in 1 .. j - 1 : H[i] # Err /\ (H[j] # Err => H[i] < H[j])
             /\ H[j] # Err =>
                  /\ H[j] \in 0 .. b /\ Route(H[j]) = c
                  /\ \A e \in E : e # Err /\ Route(e) = c => e < H[j]
  BY DEF Ahead
<1>4. CASE j = Len(F) + 1
  BY <1>1, <1>2, <1>4
<1>5. CASE j \in 1 .. Len(F)
  BY <1>1, <1>5 DEF Ahead
<1>6. QED
  BY <1>1, <1>4, <1>5

LEMMA QueueAccounted ==
  ASSUME NEW F \in Seq(Items), NEW c, NEW A, NEW b \in Nat, Accounted(F, c, A, b)
  PROVE  /\ Accounted(Append(F, b), c, A, b + 1)
         /\ Accounted(F, c, A \cup {b}, b + 1)
         /\ Route(b) # c => Accounted(F, c, A, b + 1)
<1> DEFINE H == Append(F, b)
<1>1. /\ Len(H) = Len(F) + 1 /\ H[Len(F) + 1] = b /\ Len(F) \in Nat
      /\ \A i \in 1 .. Len(F) : H[i] = F[i] /\ i \in 1 .. Len(H)
      /\ Len(F) + 1 \in 1 .. Len(H)
  BY DEF Items
<1>2. Accounted(H, c, A, b + 1)
  <2>1. SUFFICES ASSUME NEW k \in 0 .. b, Route(k) = c, k \notin A
        PROVE  \E i \in 1 .. Len(H) : H[i] = k
    BY DEF Accounted
  <2>2. CASE k = b
    BY <1>1, <2>2
  <2>3. CASE k \in 0 .. b - 1
    BY <1>1, <2>1, <2>3 DEF Accounted
  <2>4. QED
    BY <2>2, <2>3
<1>3. Accounted(F, c, A \cup {b}, b + 1) /\ (Route(b) # c => Accounted(F, c, A, b + 1))
  BY DEF Accounted
<1>4. QED
  BY <1>2, <1>3

\* More frames may be handed over, and frames of other connections emitted.
LEMMA WiderAhead ==
  ASSUME NEW F, NEW c, NEW E, NEW b \in Nat, Ahead(F, c, E, b)
  PROVE  /\ Ahead(F, c, E, b + 1)
         /\ \A x : (x = Err \/ Route(x) # c) => Ahead(F, c, E \cup {x}, b)
BY DEF Ahead

LEMMA WiderAccounted ==
  ASSUME NEW F, NEW c, NEW A, NEW B, NEW b, A \subseteq B, Accounted(F, c, A, b)
  PROVE  Accounted(F, c, B, b)
BY DEF Accounted

\* The head of a flow moves from the flow to the emitted items.
LEMMA TakeAhead ==
  ASSUME NEW F \in Seq(Items), NEW c, NEW E, NEW b \in Nat, F # <<>>, Ahead(F, c, E, b)
  PROVE  /\ Ahead(Tail(F), c, E \cup {Head(F)}, b)
         /\ Head(F) # Err =>
              /\ Head(F) \in 0 .. b - 1 /\ Route(Head(F)) = c
              /\ \A e \in E : e # Err /\ Route(e) = c => e < Head(F)
<1> DEFINE T == Tail(F)
           x == Head(F)
<1>1. /\ F[1] = x /\ 1 \in 1 .. Len(F) /\ Len(T) = Len(F) - 1 /\ Len(F) \in Nat
      /\ \A i \in 1 .. Len(T) : T[i] = F[i + 1] /\ i + 1 \in 1 .. Len(F)
  OBVIOUS
<1>2. /\ Head(F) # Err =>
              /\ Head(F) \in 0 .. b - 1 /\ Route(Head(F)) = c
              /\ \A e \in E : e # Err /\ Route(e) = c => e < Head(F)
  BY <1>1 DEF Ahead
<1> HIDE DEF x
<1>3. SUFFICES ASSUME NEW j \in 1 .. Len(T)
      PROVE  /\ \A i \in 1 .. j - 1 : T[i] # Err /\ (T[j] # Err => T[i] < T[j])
             /\ T[j] # Err =>
                  /\ T[j] \in 0 .. b - 1 /\ Route(T[j]) = c
                  /\ \A e \in E \cup {x} : e # Err /\ Route(e) = c => e < T[j]
  BY <1>2 DEF Ahead, x
<1>4. /\ T[j] = F[j + 1] /\ j + 1 \in 1 .. Len(F) /\ j \in Nat
      /\ \A i \in 1 .. j - 1 : T[i] = F[i + 1] /\ i + 1 \in 1 .. (j + 1) - 1
      /\ 1 \in 1 .. (j + 1) - 1
  BY <1>1
<1>5. \A i \in 1 .. j - 1 : T[i] # Err /\ (T[j] # Err => T[i] < T[j])
  BY <1>4 DEF Ahead
<1>6. x # Err /\ (T[j] # Err => x < T[j])
  BY <1>1, <1>4 DEF Ahead
<1>7. T[j] # Err => /\ T[j] \in 0 .. b - 1 /\ Route(T[j]) = c
                    /\ \A e \in E : e # Err /\ Route(e) = c => e < T[j]
  BY <1>4 DEF Ahead
<1>8. QED
  BY <1>5, <1>6, <1>7

LEMMA TakeAccounted ==
  ASSUME NEW F \in Seq(Items), NEW c, NEW A, NEW b \in Nat, F # <<>>, Accounted(F, c, A, b)
  PROVE  Accounted(Tail(F), c, A \cup {Head(F)}, b)
<1>1. SUFFICES ASSUME NEW k \in 0 .. b - 1, Route(k) = c, k \notin A, k # Head(F)
      PROVE  \E i \in 1 .. Len(Tail(F)) : Tail(F)[i] = k
  BY DEF Accounted
<1>2. PICK i \in 1 .. Len(F) : F[i] = k
  BY <1>1 DEF Accounted
<1>3. i # 1 /\ i - 1 \in 1 .. Len(Tail(F)) /\ Tail(F)[i - 1] = F[i]
  BY <1>1, <1>2
<1>4. QED
  BY <1>2, <1>3

------------------------------------------------------------------------------
(* The journeys are inductive.                                              *)

LEMMA EmissionTypes ==
  ASSUME Structure
  PROVE  /\ emitted \in Seq(Items) /\ DOMAIN emitted = 1 .. Len(emitted)
         /\ Len(emitted) \in Nat
         /\ \A j \in DOMAIN emitted : emitted[j] \in Emitted /\ emitted[j] \in Items
<1>1. emitted \in Seq(Items)
  BY DEF Structure, TypeOK, ReaderTypeOK
<1>2. QED
  BY <1>1 DEF Emitted

\* Frames that surfaced had been handed over.
LEMMA EmittedBelow ==
  ASSUME Structure, EmissionInv PROVE \A e \in Emitted : e # Err => e \in 0 .. handed - 1
BY DEF EmissionInv, Emitted

LEMMA JourneyStep ==
  ASSUME Structure, Structure', DoneInv, JourneyInv, EmissionInv,
         [Next \/ RouteCancelled]_vars, Consuming'
  PROVE  \A c \in Conn : JourneyOK(c)'
<1>1. /\ handed \in Nat
      /\ \A c \in Conn : Flow(c) \in Seq(Items) /\ JourneyOK(c)
  BY FlowType, PositionType, ConsumingBack DEF JourneyInv
<1>2. CASE Quiet
  <2>1. handed' = handed /\ Emitted' = Emitted /\ cancelled' = cancelled
    BY <1>2 DEF Quiet, Emitted
  <2>2. ASSUME NEW c \in Conn, Keep(c) PROVE JourneyOK(c)'
    BY <1>1, <2>1, <2>2 DEF Keep, JourneyOK
  <2>3. ASSUME NEW c \in Conn, Lose(c) PROVE JourneyOK(c)'
    <3>1. PICK G \in Seq(Items) :
            /\ Begins(G, Flow(c))
            /\ Flow(c)' = G \/ (~ErrIn(G) /\ Flow(c)' = Append(G, Err))
      BY <2>3 DEF Lose
    <3>2. Ahead(Flow(c)', c, Emitted, handed)
      BY <1>1, <3>1, CutAhead DEF JourneyOK
    <3>3. QED
      BY <2>1, <2>3, <3>2 DEF Lose, JourneyOK
  <2>4. QED
    BY <1>2, <2>2, <2>3 DEF Quiet
<1>3. ASSUME NEW c \in Conn, NEW b \in Nat, HandOver(b, c) PROVE \A d \in Conn : JourneyOK(d)'
  <2>1. /\ b = handed /\ c = Route(b) /\ handed' = b + 1 /\ Emitted' = Emitted
        /\ cancelled \subseteq cancelled'
    BY <1>3 DEF HandOver, Emitted, Keep
  <2>2. ASSUME NEW d \in Conn \ {c} PROVE JourneyOK(d)'
    <3>1. /\ Ahead(Flow(d), d, Emitted, b + 1)
          /\ Intact(d) => Accounted(Flow(d), d, Emitted \cup cancelled, b + 1)
      BY <1>1, <2>1, <2>2, WiderAhead, QueueAccounted DEF JourneyOK
    <3>2. Emitted \cup cancelled \subseteq Emitted \cup cancelled'
      BY <2>1
    <3>3. Intact(d) => Accounted(Flow(d), d, Emitted \cup cancelled', b + 1)
      BY <3>1, <3>2, WiderAccounted
    <3>4. Keep(d)
      BY <1>3, <2>2 DEF HandOver
    <3>5. QED
      BY <2>1, <3>1, <3>3, <3>4 DEF JourneyOK, Keep
  <2>3. Ahead(Flow(c), c, Emitted, b + 1)
    BY <1>1, <2>1, WiderAhead DEF JourneyOK
  <2>4. ASSUME Reachable(c), Intact(c), Flow(c)' = Append(Flow(c), b), UNCHANGED cancelled
        PROVE  JourneyOK(c)'
    <3>1. \A i \in 1 .. Len(Flow(c)) : Flow(c)[i] # Err
      BY <2>4, LiveFlow
    <3>2. \A e \in Emitted : e # Err => e < b
      BY <1>1, <2>1, EmittedBelow
    <3>3. Ahead(Flow(c)', c, Emitted, b + 1)
      BY <1>1, <2>1, <2>4, <3>1, <3>2, QueueAhead DEF JourneyOK
    <3>4. Accounted(Flow(c)', c, Emitted \cup cancelled, b + 1)
      <4>1. Accounted(Flow(c), c, Emitted \cup cancelled, b)
        BY <1>1, <2>1, <2>4 DEF JourneyOK
      <4>2. PICK F \in Seq(Items) : F = Flow(c)
        BY <1>1
      <4>3. Accounted(Append(F, b), c, Emitted \cup cancelled, b + 1)
        BY <4>1, <4>2, QueueAccounted
      <4>4. QED
        BY <2>4, <4>2, <4>3
    <3>5. QED
      BY <2>1, <2>4, <3>3, <3>4 DEF JourneyOK
  <2>5. ASSUME Flow(c)' = Flow(c), ~Intact(c)' PROVE JourneyOK(c)'
    BY <2>1, <2>3, <2>5 DEF JourneyOK
  <2>6. ASSUME Keep(c), cancelled' = cancelled \cup {b} PROVE JourneyOK(c)'
    <3>1. Intact(c) => Accounted(Flow(c), c, (Emitted \cup cancelled) \cup {b}, b + 1)
      BY <1>1, <2>1, QueueAccounted DEF JourneyOK
    <3>2. (Emitted \cup cancelled) \cup {b} = Emitted \cup cancelled'
      BY <2>6
    <3>3. QED
      BY <2>1, <2>3, <2>6, <3>1, <3>2 DEF JourneyOK, Keep
  <2>7. JourneyOK(c)'
    BY <1>3, <2>4, <2>5, <2>6 DEF HandOver
  <2>8. QED
    BY <2>2, <2>7
<1>4. ASSUME NEW c \in Conn, Take(c) PROVE \A d \in Conn : JourneyOK(d)'
  <2>1. PICK F \in Seq(Items), x \in Items :
          /\ F = Flow(c) /\ F # <<>> /\ x = Head(F) /\ Flow(c)' = Tail(F)
          /\ emitted' = Append(emitted, x)
    BY <1>1, <1>4, NonEmpty DEF Take
  <2>2. /\ handed' = handed /\ cancelled' = cancelled /\ Emitted' = Emitted \cup {x}
        /\ Emitted' \cup cancelled' = (Emitted \cup cancelled) \cup {x}
    BY <1>4, <2>1, EmittedGrows DEF Take
  <2>3. /\ Ahead(Flow(c)', c, Emitted', handed)
        /\ x = Err \/ Route(x) = c
    <3>1. Ahead(F, c, Emitted, handed)
      BY <1>1, <2>1 DEF JourneyOK
    <3>2. Ahead(Tail(F), c, Emitted \cup {x}, handed) /\ (x # Err => Route(x) = c)
      BY <1>1, <2>1, <3>1, TakeAhead
    <3>3. QED
      BY <2>1, <2>2, <3>2
  <2>4. Intact(c) => Accounted(Flow(c)', c, Emitted' \cup cancelled', handed)
    BY <1>1, <2>1, <2>2, TakeAccounted DEF JourneyOK
  <2>5. JourneyOK(c)'
    BY <1>4, <2>2, <2>3, <2>4 DEF JourneyOK, Take
  <2>6. ASSUME NEW d \in Conn \ {c} PROVE JourneyOK(d)'
    <3>1. Ahead(Flow(d), d, Emitted', handed)
      BY <1>1, <2>2, <2>3, <2>6, WiderAhead DEF JourneyOK
    <3>2. Intact(d) => Accounted(Flow(d), d, Emitted' \cup cancelled', handed)
      BY <1>1, <2>2, WiderAccounted DEF JourneyOK
    <3>3. Keep(d)
      BY <1>4, <2>6 DEF Take
    <3>4. QED
      BY <2>2, <3>1, <3>2, <3>3 DEF JourneyOK, Keep
  <2>7. QED
    BY <2>5, <2>6
<1>5. QED
  BY <1>2, <1>3, <1>4, FlowMoves DEF Moves

\* A reader that lets go of its connections emits nothing.
LEMMA DroppingIsSilent ==
  ASSUME [Next \/ RouteCancelled]_vars, ~Consuming' PROVE emitted' = emitted
BY DEF Consuming, Next, vars, Connect, ConnectFails, RouteCall, RouteDeliver, RouteBroken,
       RouteCancelled, Finish, JoinTask, WriterTask, TaskRecv, TaskWrite, TaskClose,
       TaskFails, Reset, Accept, AcceptFails, ReaderTask, ReadFrame, ReadEnd, ReadError,
       TaskSend, Poll, PollOrdered, PollArrival, ReaderDrop, Terminated, mergeVars

LEMMA HandedTypes == Structure /\ Structure' => handed \in Nat /\ handed' \in Nat
BY PositionType, HandedNext

LEMMA EmissionStep ==
  ASSUME Structure, Structure', DoneInv, JourneyInv, EmissionInv,
         [Next \/ RouteCancelled]_vars
  PROVE  EmissionInv'
<1>1. /\ handed \in Nat /\ handed' \in Nat /\ handed' >= handed
      /\ emitted \in Seq(Items) /\ DOMAIN emitted = 1 .. Len(emitted) /\ Len(emitted) \in Nat
  BY HandedTypes, HandedGrows, EmissionTypes
<1>2. CASE emitted' = emitted
  <2>1. \A j \in DOMAIN emitted : emitted[j] # Err => emitted[j] \in 0 .. handed' - 1
    BY <1>1 DEF EmissionInv
  <2>2. QED
    BY <1>2, <2>1 DEF EmissionInv, ConnectionOrder
<1>3. ASSUME Consuming', NEW c \in Conn, Take(c) PROVE EmissionInv'
  <2>1. Flow(c) \in Seq(Items) /\ Ahead(Flow(c), c, Emitted, handed)
    BY <1>3, FlowType, ConsumingBack DEF JourneyInv, JourneyOK
  <2>2. PICK x \in Items : x = Head(Flow(c)) /\ emitted' = Append(emitted, x)
    BY <1>3, <2>1, NonEmpty DEF Take
  <2>3. x # Err => /\ x \in 0 .. handed - 1 /\ Route(x) = c
                   /\ \A e \in Emitted : e # Err /\ Route(e) = c => e < x
    BY <1>1, <1>3, <2>1, <2>2, TakeAhead DEF Take
  <2>4. /\ DOMAIN emitted' = 1 .. Len(emitted) + 1
        /\ emitted'[Len(emitted) + 1] = x
        /\ \A j \in 1 .. Len(emitted) : emitted'[j] = emitted[j] /\ emitted[j] \in Emitted
    BY <1>1, <2>2, EmissionTypes
  <2>5. ASSUME NEW j \in DOMAIN emitted', emitted'[j] # Err
        PROVE  emitted'[j] \in 0 .. handed' - 1
    <3>1. CASE j = Len(emitted) + 1
      BY <1>1, <2>3, <2>4, <2>5, <3>1
    <3>2. CASE j \in 1 .. Len(emitted)
      BY <1>1, <2>4, <2>5, <3>2 DEF EmissionInv
    <3>3. QED
      BY <1>1, <2>4, <3>1, <3>2
  <2>6. ASSUME NEW i \in DOMAIN emitted', NEW j \in DOMAIN emitted', i < j,
               emitted'[i] # Err, emitted'[j] # Err, Route(emitted'[i]) = Route(emitted'[j])
        PROVE  emitted'[i] < emitted'[j]
    <3>1. i \in 1 .. Len(emitted) /\ i \in DOMAIN emitted
      BY <1>1, <2>4, <2>6
    <3>2. CASE j = Len(emitted) + 1
      BY <2>3, <2>4, <2>6, <3>1, <3>2
    <3>3. CASE j \in 1 .. Len(emitted)
      BY <1>1, <2>4, <2>6, <3>1, <3>3 DEF EmissionInv, ConnectionOrder
    <3>4. QED
      BY <1>1, <2>4, <3>2, <3>3
  <2>7. QED
    BY <2>5, <2>6 DEF EmissionInv, ConnectionOrder
<1>4. ASSUME Consuming' PROVE EmissionInv'
  <2>1. ASSUME Quiet \/ \E c \in Conn, b \in Nat : HandOver(b, c) PROVE EmissionInv'
    BY <1>2, <2>1 DEF Quiet, HandOver
  <2>2. QED
    BY <1>3, <1>4, <2>1, FlowMoves DEF Moves
<1>5. QED
  BY <1>2, <1>4, DroppingIsSilent

------------------------------------------------------------------------------
(* The end of the merged stream.                                            *)

\* Nothing comes after the end of a slot's channel.
LEMMA DrainedStays ==
  ASSUME Structure, [Next \/ RouteCancelled]_vars, NEW c \in Conn, Drained(c)
  PROVE  Drained(c)'
<1>1. rtask[c] = "done" /\ streams[c] = <<>> /\ rtask'[c] = "done"
  BY DoneStays DEF Drained
<1>2. ASSUME NEW s \in Conn, TaskSend(s) PROVE streams'[c] = <<>>
  <2>1. s # c
    BY <1>1, <1>2 DEF TaskSend, Structure, Slots, Slot
  <2>2. QED
    BY <1>1, <1>2, <2>1 DEF TaskSend, Structure, TypeOK, ReaderTypeOK
<1>3. ASSUME NEW s \in Conn, streams[s] # <<>>, Yield(s) PROVE streams'[c] = <<>>
  BY <1>1, <1>3 DEF Yield, Structure, TypeOK, ReaderTypeOK
<1>4. ASSUME PollOrdered PROVE streams'[c] = <<>>
  <2>1. PICK s \in Conn : s = Target(cursor)
    BY PositionType, RouteType
  <2>2. QED
    BY <1>1, <1>3, <1>4, <2>1 DEF PollOrdered
<1>5. ASSUME PollArrival PROVE streams'[c] = <<>>
  <2>1. (\E s \in Conn : streams[s] # <<>> /\ Yield(s)) \/ UNCHANGED streams
    BY <1>5, ScanType DEF PollArrival
  <2>2. QED
    BY <1>1, <1>3, <2>1
<1>6. ASSUME AcceptFails \/ ReaderDrop \/ UNCHANGED streams PROVE streams'[c] = <<>>
  BY <1>1, <1>6 DEF AcceptFails, ReaderDrop
<1>7. streams'[c] = <<>>
  BY <1>2, <1>4, <1>5, <1>6
  DEF Next, vars, Connect, ConnectFails, RouteCall, RouteDeliver, RouteBroken,
      RouteCancelled, Finish, JoinTask, WriterTask, TaskRecv, TaskWrite, TaskClose,
      TaskFails, Reset, Accept, ReaderTask, ReadFrame, ReadEnd, ReadError, Poll, Terminated
<1>8. QED
  BY <1>1, <1>7 DEF Drained

\* Only a poll moves the cursor, marks slots or ends the stream.
LEMMA MergeFrame ==
  ASSUME [Next \/ RouteCancelled]_vars
  PROVE  \/ PollOrdered \/ PollArrival
         \/ UNCHANGED <<cursor, closed>> /\ (reader' = "ended" => reader = "ended")
BY DEF Next, vars, Connect, ConnectFails, RouteCall, RouteDeliver, RouteBroken,
       RouteCancelled, Finish, JoinTask, WriterTask, TaskRecv, TaskWrite, TaskClose,
       TaskFails, Reset, Accept, AcceptFails, ReaderTask, ReadFrame, ReadEnd, ReadError,
       TaskSend, Poll, ReaderDrop, Terminated, mergeVars

LEMMA EndStep ==
  ASSUME Structure, EndInv, [Next \/ RouteCancelled]_vars
  PROVE  EndInv'
<1>1. \A c \in Conn : Drained(c) => Drained(c)'
  BY DrainedStays
<1>2. Target(cursor) \in Conn /\ closed \in [Conn -> BOOLEAN]
  BY PositionType, RouteType DEF Structure, TypeOK, ReaderTypeOK
<1>3. CASE UNCHANGED <<cursor, closed>> /\ (reader' = "ended" => reader = "ended")
  <2>1. \A c \in Conn : closed'[c] => Drained(c)'
    BY <1>1, <1>3 DEF EndInv
  <2>2. (reader = "ended" /\ Sort = "Ordered" => Drained(Target(cursor)))'
    <3>1. PICK c \in Conn : c = Target(cursor)
      BY <1>2
    <3>2. Target(cursor') = c
      BY <1>3, <3>1
    <3>3. reader' = "ended" /\ Sort = "Ordered" => Drained(c)'
      BY <1>1, <1>3, <3>1 DEF EndInv
    <3>4. QED
      BY <3>2, <3>3 DEF Drained
  <2>3. QED
    BY <1>3, <2>1, <2>2 DEF EndInv, Drained
<1>4. CASE PollOrdered
  <2>1. Sort = "Ordered" /\ closed' = closed
    BY <1>4 DEF PollOrdered
  <2>2. \A c \in Conn : closed'[c] => Drained(c)'
    BY <1>1, <2>1 DEF EndInv
  <2>3. reader' = "ended" => cursor' = cursor /\ Drained(Target(cursor))
    BY <1>4 DEF PollOrdered
  <2>4. PICK c \in Conn : c = Target(cursor)
    BY <1>2
  <2>5. reader' = "ended" => Target(cursor') = c /\ Drained(c)'
    BY <1>1, <2>3, <2>4
  <2>6. QED
    BY <2>1, <2>2, <2>5 DEF EndInv, Drained
<1>5. CASE PollArrival
  <2>1. Sort = "Arrival" /\ (reader' = "ended" => \A c \in Conn : closed'[c])
    BY <1>5 DEF PollArrival
  <2>2. ASSUME NEW c \in Conn, closed'[c] PROVE Drained(c)
    <3>1. closed[c] \/ Drained(c)
      BY <1>5, <2>2 DEF PollArrival
    <3>2. QED
      BY <3>1 DEF EndInv
  <2>3. QED
    BY <1>1, <2>1, <2>2 DEF EndInv, Drained
<1>6. QED
  BY <1>3, <1>4, <1>5, MergeFrame

LEMMA CInvInit == Init => CInv
<1>1. SUFFICES ASSUME Init PROVE JourneyInv /\ EmissionInv /\ EndInv
  BY StructureInit, DoneInit DEF CInv
<1>2. ASSUME NEW c \in Conn PROVE Flow(c) = <<>>
  <2>1. <<>> \o <<>> = <<>>
    OBVIOUS
  <2>2. QED
    BY <1>1, <2>1 DEF Init, Flow, Upstream
<1>3. handed = 0 /\ emitted = <<>>
  BY <1>1 DEF Init, handed
<1>4. JourneyInv
  BY <1>2, <1>3 DEF JourneyInv, JourneyOK, Ahead, Accounted
<1>5. EmissionInv /\ EndInv
  BY <1>1, <1>3 DEF EmissionInv, ConnectionOrder, EndInv, Init
<1>6. QED
  BY <1>4, <1>5

LEMMA CInvStep == CInv /\ [Next \/ RouteCancelled]_vars => CInv'
<1>1. SUFFICES ASSUME CInv, [Next \/ RouteCancelled]_vars PROVE CInv'
  OBVIOUS
<1>2. Structure /\ DoneInv /\ JourneyInv /\ EmissionInv /\ EndInv
  BY <1>1 DEF CInv
<1>3. Structure' /\ DoneInv'
  BY <1>1, <1>2, StructureStep, DoneStep
<1>4. JourneyInv'
  BY <1>1, <1>2, <1>3, JourneyStep DEF JourneyInv
<1>5. EmissionInv'
  BY <1>1, <1>2, <1>3, EmissionStep
<1>6. EndInv'
  BY <1>1, <1>2, EndStep
<1>7. QED
  BY <1>3, <1>4, <1>5, <1>6 DEF CInv

\* Order within a connection survives any merge: under either SortBehaviour,
\* with failures anywhere and with a caller that abandons sends, the frames of
\* one connection surface in send order and none surfaces twice. It rests on
\* JourneyInv: what waits is ascending and above what has been emitted.
THEOREM ConnectionOrderHolds ==
  /\ Spec => []ConnectionOrder
  /\ CancelSpec => []ConnectionOrder
<1>1. CInv => ConnectionOrder
  BY DEF CInv, EmissionInv
<1>2. Spec => []ConnectionOrder
  <2>1. CInv /\ [Next]_vars => CInv'
    BY CInvStep
  <2>2. QED
    BY CInvInit, <1>1, <2>1, PTL DEF Spec
<1>3. CancelSpec => []ConnectionOrder
  BY CInvInit, CInvStep, <1>1, PTL DEF CancelSpec
<1>4. QED
  BY <1>2, <1>3

\* A slot drained without an error has delivered all its connection was given.
LEMMA DrainedIsComplete ==
  ASSUME CInv, NEW c \in Conn, Drained(c), Consuming, Err \notin Emitted, wtask[c] # "err"
  PROVE  /\ WriterGone /\ handed = next
         /\ \A k \in 0 .. next - 1 : Route(k) = c => k \in Emitted \cup cancelled
<1>1. rtask[c] = "done" /\ streams[c] = <<>> /\ ~ErrIn(streams[c])
  BY DEF Drained, ErrIn
<1>2. wtask[c] = "ok"
  BY <1>1 DEF CInv, DoneInv, Explained
<1>3. WriterGone /\ handed = next
  BY <1>2 DEF CInv, Structure, WriterStages, SendersDropped, WriterGone, handed
<1>4. Flow(c) = <<>>
  <2>1. rheld[c] = <<>> /\ ~Reachable(c)
    BY <1>1 DEF CInv, Structure, Slots, Slot, Reachable
  <2>2. <<>> \o (<<>> \o <<>>) = <<>>
    OBVIOUS
  <2>3. QED
    BY <1>1, <2>1, <2>2 DEF Flow
<1>5. Intact(c)
  BY <1>1, <1>2 DEF Intact
<1>6. Accounted(<<>>, c, Emitted \cup cancelled, next)
  BY <1>3, <1>4, <1>5 DEF CInv, JourneyInv, JourneyOK
<1>7. QED
  BY <1>3, <1>6 DEF Accounted

\* In arrival order the stream ends when every slot is drained.
LEMMA ArrivalEnd ==
  ASSUME Sort = "Arrival" PROVE CInv => CleanEndIsComplete
<1>1. SUFFICES ASSUME CInv, reader = "ended", Err \notin Emitted,
                      \A c \in Conn : wtask[c] # "err"
               PROVE  WriterGone /\ 0 .. next - 1 \subseteq Emitted \cup cancelled
  BY DEF CleanEndIsComplete
<1>2. \A c \in Conn : Drained(c)
  BY <1>1 DEF CInv, EndInv
<1>3. Consuming /\ next \in Nat
  BY <1>1, PositionType DEF Consuming, CInv
<1>4. 0 \in Conn
  BY ConstantsAssumption DEF Conn
<1>5. WriterGone
  BY <1>1, <1>2, <1>3, <1>4, DrainedIsComplete
<1>6. ASSUME NEW k \in 0 .. next - 1 PROVE k \in Emitted \cup cancelled
  <2>1. Route(k) \in Conn
    BY <1>3, RouteType
  <2>2. QED
    BY <1>1, <1>2, <1>3, <2>1, DrainedIsComplete
<1>7. QED
  BY <1>5, <1>6

\* In the global order it ends when the slot of the next position is drained:
\* that position was never sent, so none behind it was.
LEMMA OrderedEnd ==
  ASSUME Sort = "Ordered" PROVE CInv /\ IInv => CleanEndIsComplete
<1>1. SUFFICES ASSUME CInv, IInv, reader = "ended", Err \notin Emitted,
                      \A c \in Conn : wtask[c] # "err"
               PROVE  WriterGone /\ 0 .. next - 1 \subseteq Emitted \cup cancelled
  BY DEF CleanEndIsComplete
<1>2. Consuming /\ next \in Nat /\ cursor \in Nat /\ emitted \in Seq(Items)
  BY <1>1, PositionType, EmissionTypes DEF Consuming, CInv
<1>3. PICK c \in Conn : c = Target(cursor) /\ c = Route(cursor)
  BY <1>2, RouteType
<1>4. Drained(c)
  BY <1>1, <1>3 DEF CInv, EndInv
<1>5. /\ WriterGone
      /\ \A k \in 0 .. next - 1 : Route(k) = c => k \in Emitted \cup cancelled
  BY <1>1, <1>2, <1>4, DrainedIsComplete
<1>6. /\ cursor = Len(emitted) /\ cancelled = {}
      /\ \A j \in 1 .. Len(emitted) : emitted[j] = j - 1 /\ emitted[j] \in Emitted
  <2>1. \A j \in 1 .. Len(emitted) : emitted[j] \in Emitted
    BY <1>1, EmissionTypes DEF CInv
  <2>2. QED
    BY <1>1, <2>1 DEF IInv, OrderInv, EmittedInv
<1>7. cursor \notin Emitted
  <2>1. ASSUME NEW j \in DOMAIN emitted PROVE emitted[j] # cursor
    BY <1>2, <1>6
  <2>2. QED
    BY <2>1 DEF Emitted
<1>8. next <= cursor
  BY <1>2, <1>3, <1>5, <1>6, <1>7
<1>9. ASSUME NEW k \in 0 .. next - 1 PROVE k \in Emitted
  <2>1. k + 1 \in 1 .. Len(emitted) /\ (k + 1) - 1 = k
    BY <1>2, <1>6, <1>8
  <2>2. QED
    BY <1>6, <2>1
<1>10. QED
  BY <1>5, <1>9

\* A clean end is complete: when poll_next reports the end of the stream, no
\* error surfaced and no writer task failed, every frame that was sent has
\* surfaced, under either SortBehaviour.
THEOREM CleanEndHolds == Spec => []CleanEndIsComplete
<1>1. CInv /\ [Next]_vars => CInv'
  BY CInvStep
<1>2. ASSUME Sort = "Ordered" PROVE Spec => []CleanEndIsComplete
  <2>1. CInv /\ IInv => CleanEndIsComplete
    BY <1>2, OrderedEnd
  <2>2. IInv /\ [Next]_vars => IInv'
    BY <1>2, IInvStep
  <2>3. QED
    BY CInvInit, IInvInit, <1>1, <2>1, <2>2, PTL DEF Spec
<1>3. ASSUME Sort = "Arrival" PROVE Spec => []CleanEndIsComplete
  <2>1. CInv => CleanEndIsComplete
    BY <1>3, ArrivalEnd
  <2>2. QED
    BY CInvInit, <1>1, <2>1, PTL DEF Spec
<1>4. Sort \in {"Ordered", "Arrival"}
  BY ConstantsAssumption
<1>5. QED
  BY <1>2, <1>3, <1>4

\* In arrival order it is so even when the caller abandons sends: only the
\* frames of the abandoned calls can be missing. (In the global order an
\* abandoned send shifts the rotation, which the run of CancelSpec shows.)
THEOREM CleanEndWithCancel ==
  ASSUME Sort = "Arrival" PROVE CancelSpec => []CleanEndIsComplete
<1>1. CInv => CleanEndIsComplete
  BY ArrivalEnd
<1>2. QED
  BY CInvInit, CInvStep, <1>1, PTL DEF CancelSpec
==============================================================================
