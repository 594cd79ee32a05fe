----------------------- MODULE TableStreamDecoderProofs -----------------------
(***************************************************************************)
(* First the arena: StreamArena never writes under a window, for every     *)
(* alignment, capacity, number of windows and order of calls.              *)
(* WindowsIntact is not inductive: that the next write spares the windows  *)
(* is a fact about where they end.  ArenaInv adds it: the windows of the   *)
(* current backing end at or before the write position, and the others lie *)
(* in backings the arena has let go of.                                    *)
(*                                                                         *)
(* Then TableStreamDecoder's safety, for every stream of messages, every   *)
(* segmentation of it, alignment, arena and number of tables.  The         *)
(* invariants the runs check rest on each other and on two facts about the *)
(* arena: its windows end at or before the write position (Behind), and    *)
(* the write position is on a boundary, or the backing is full, whenever a *)
(* body may begin (Boundaries).                                            *)
(*                                                                         *)
(* Last, that the decoder implements TableDelivery: the invariant Progress *)
(* says where the next message is, seen from the buffer, and what has been *)
(* yielded of those before it.                                             *)
(***************************************************************************)
EXTENDS TableStreamDecoder, ProofLemmas

------------------------------------------------------------------------------
(* The arena and its most general client.                                  *)

Behind(a, ws) ==
  \A s \in Slots : Live(ws, s) =>
    /\ ws[s].gen <= a.gen
    /\ ws[s].gen = a.gen => ws[s].off + ws[s].len <= a.pos

ArenaInv == ArenaTypeOK /\ Behind(arena, windows) /\ WindowsIntact

\* A sound arena: what ArenaTypeOK says of the arena alone.
Sound(a) == a \in Arenas /\ a.pos <= a.clean /\ a.clean <= a.cap

\* The padding fits into the room that is left.
LEMMA PaddingFits ==
  ASSUME NEW a, Sound(a)
  PROVE  Padding(a) \in Nat /\ Padding(a) <= Remaining(a)
<1>1. a.pos % Unit \in 0 .. Unit - 1
  BY ArenaAssumption DEF Sound, Arenas
<1> QED
  BY <1>1, ArenaAssumption DEF Padding, Remaining, Sound, Arenas

\* Rounding up to whole units never loses room.
LEMMA RoundUpBounds ==
  ASSUME NEW n \in Nat
  PROVE  RoundUp(n) \in Nat /\ RoundUp(n) >= n
<1> DEFINE m == n + Unit - 1
           q == m \div Unit
<1>1. m \in Nat /\ q \in Nat
  BY ArenaAssumption
<1>2. m % Unit \in 0 .. Unit - 1 /\ m = (Unit * q) + (m % Unit)
  BY <1>1, ArenaAssumption
<1>3. Unit * q = q * Unit /\ Unit * q \in Nat
  BY <1>1, ArenaAssumption
<1> QED
  BY <1>1, <1>2, <1>3, ArenaAssumption DEF RoundUp

\* Committing bytes that fit keeps the arena sound and only moves `pos` on.
LEMMA CommitSound ==
  ASSUME NEW a, Sound(a), NEW n \in Nat, n <= Remaining(a)
  PROVE  /\ Sound(Commit(a, n))
         /\ Commit(a, n).gen = a.gen
         /\ Commit(a, n).pos = a.pos + n
BY DEF Sound, Commit, Arenas, Remaining

\* ensure_capacity keeps its promise: the room asked for is there afterwards.
LEMMA EnsureGivesRoom ==
  ASSUME NEW a, Sound(a), NEW ws, NEW n \in Nat
  PROVE  /\ Sound(EnsureCapacity(a, ws, n))
         /\ Remaining(EnsureCapacity(a, ws, n)) >= n
BY RoundUpBounds
   DEF EnsureCapacity, RecycleOrReset, Remaining, Fresh, Rewind, Sound, Arenas

\* A backing that is written from its start again has no window: the rewound
\* arena keeps its windows behind it, and so does one with a new backing.
LEMMA RewindBehind ==
  ASSUME NEW a, Sound(a), NEW ws \in [Slots -> Windows \cup {NoWindow}],
         Behind(a, ws), ~Held(ws, a.gen)
  PROVE  Sound(Rewind(a)) /\ Behind(Rewind(a), ws)
BY DEF Rewind, Sound, Arenas, Behind, Held

LEMMA FreshBehind ==
  ASSUME NEW a, Sound(a), NEW ws \in [Slots -> Windows \cup {NoWindow}],
         Behind(a, ws), NEW c \in Nat
  PROVE  Sound(Fresh(a, c)) /\ Behind(Fresh(a, c), ws)
BY DEF Fresh, Sound, Arenas, Behind, Live, Windows

LEMMA RecycleBehind ==
  ASSUME NEW a, Sound(a), NEW ws \in [Slots -> Windows \cup {NoWindow}],
         Behind(a, ws)
  PROVE  /\ Sound(RecycleIfFree(a, ws)) /\ Behind(RecycleIfFree(a, ws), ws)
         /\ Sound(RecycleOrReset(a, ws)) /\ Behind(RecycleOrReset(a, ws), ws)
<1>1. a.cap \in Nat
  BY DEF Sound, Arenas
<1> QED
  BY <1>1, RewindBehind, FreshBehind DEF RecycleIfFree, RecycleOrReset

LEMMA EnsureBehind ==
  ASSUME NEW a, Sound(a), NEW ws \in [Slots -> Windows \cup {NoWindow}],
         Behind(a, ws), NEW n \in Nat
  PROVE  Sound(EnsureCapacity(a, ws, n)) /\ Behind(EnsureCapacity(a, ws, n), ws)
BY RecycleBehind, FreshBehind, RoundUpBounds DEF EnsureCapacity

\* A write at the write position touches no window.
LEMMA WriteSpares ==
  ASSUME NEW a, Sound(a), NEW ws \in [Slots -> Windows \cup {NoWindow}],
         Behind(a, ws), NEW n \in Nat
  PROVE  Written(ws, a, n) = ws
<1>1. \A s \in Slots : Live(ws, s) => ~Overlaps(ws[s], a, n)
  BY DEF Behind, Overlaps, Live, Windows, Sound, Arenas
<1> QED
  BY <1>1 DEF Written

------------------------------------------------------------------------------
\* Every call keeps the windows behind the write position.
LEMMA ArenaInvStep == ArenaInv /\ [ArenaNext]_avars => ArenaInv'
<1> SUFFICES ASSUME ArenaInv, [ArenaNext]_avars PROVE ArenaInv'
  OBVIOUS
<1>0. /\ Sound(arena) /\ Behind(arena, windows) /\ WindowsIntact
      /\ windows \in [Slots -> Windows \cup {NoWindow}]
  BY DEF ArenaInv, ArenaTypeOK, Sound
<1>w. ASSUME NEW n \in Nat, n <= Remaining(arena),
             arena' \in {arena, Commit(arena, n)},
             windows' = Written(windows, arena, n)
      PROVE  ArenaInv'
  <2>1. windows' = windows
    BY <1>0, <1>w, WriteSpares
  <2>2. Sound(arena') /\ arena'.gen = arena.gen /\ arena'.pos >= arena.pos
    BY <1>0, <1>w, CommitSound DEF Sound, Arenas
  <2>3. Behind(arena', windows')
    BY <1>0, <2>1, <2>2 DEF Behind, Live, Windows, Sound, Arenas
  <2> QED
    BY <1>0, <2>1, <2>2, <2>3
    DEF ArenaInv, ArenaTypeOK, WindowsIntact, Sound, Live, Behind
<1>u. ASSUME Sound(arena'), Behind(arena', windows), windows' = windows
      PROVE  ArenaInv'
  BY <1>0, <1>u DEF ArenaInv, ArenaTypeOK, WindowsIntact, Sound, Live, Behind
<1>1. ASSUME NEW n \in 1 .. MaxNeed, Read(n) PROVE ArenaInv'
  BY <1>1, <1>w, ArenaAssumption DEF Read
<1>2. ASSUME NEW n \in 1 .. MaxNeed, ExtendFromSlice(n) PROVE ArenaInv'
  BY <1>2, <1>w, ArenaAssumption DEF ExtendFromSlice
<1>3. ASSUME NEW n \in 1 .. MaxNeed, Ensure(n) PROVE ArenaInv'
  BY <1>0, <1>3, <1>u, EnsureBehind, ArenaAssumption DEF Ensure
<1>4. ASSUME Align PROVE ArenaInv'
  BY <1>0, <1>4, <1>w, PaddingFits DEF Align
<1>5. ASSUME Recycle PROVE ArenaInv'
  BY <1>0, <1>5, <1>u, RecycleBehind DEF Recycle
<1>6. ASSUME NEW s \in Slots, Window(s) PROVE ArenaInv'
  <2>1. PICK off \in 0 .. arena.pos, end \in 0 .. arena.pos :
          /\ off <= end
          /\ windows' = [windows EXCEPT ![s] = WindowOf(arena, off, end - off)]
    BY <1>6 DEF Window
  <2>2. arena' = arena
    BY <1>6 DEF Window
  <2>3. /\ WindowOf(arena, off, end - off) \in Windows
        /\ WindowOf(arena, off, end - off).intact
        /\ WindowOf(arena, off, end - off).gen = arena.gen
        /\ WindowOf(arena, off, end - off).off
             + WindowOf(arena, off, end - off).len <= arena.pos
    <3>1. end - off \in Nat /\ off \in Nat /\ off + (end - off) = end
      BY <1>0, <2>1 DEF Sound, Arenas
    <3>2. end <= arena.pos /\ end <= arena.clean /\ arena.gen \in Nat
      BY <1>0, <2>1 DEF Sound, Arenas
    <3> QED
      BY <3>1, <3>2 DEF WindowOf, Windows
  <2>4. /\ windows' \in [Slots -> Windows \cup {NoWindow}]
        /\ windows'[s] = WindowOf(arena, off, end - off)
        /\ \A t \in Slots \ {s} : windows'[t] = windows[t]
    BY <1>0, <2>1, <2>3
  <2>5. Behind(arena, windows')
    BY <1>0, <2>3, <2>4 DEF Behind, Live, Sound, Arenas
  <2>6. \A t \in Slots : Live(windows', t) => windows'[t].intact
    BY <1>0, <2>3, <2>4 DEF WindowsIntact, Live
  <2> QED
    BY <1>0, <2>2, <2>4, <2>5, <2>6
    DEF ArenaInv, ArenaTypeOK, WindowsIntact, Sound, Behind, Live
<1>7. ASSUME NEW s \in Slots, DropWindow(s) PROVE ArenaInv'
  <2>1. /\ arena' = arena
        /\ windows' \in [Slots -> Windows \cup {NoWindow}]
        /\ \A t \in Slots : Live(windows', t) => windows'[t] = windows[t]
                                                /\ Live(windows, t)
    BY <1>0, <1>7 DEF DropWindow, Live
  <2>2. Behind(arena, windows')
    BY <1>0, <2>1 DEF Behind
  <2>3. \A t \in Slots : Live(windows', t) => windows'[t].intact
    BY <1>0, <2>1 DEF WindowsIntact
  <2> QED
    BY <1>0, <2>1, <2>2, <2>3
    DEF ArenaInv, ArenaTypeOK, WindowsIntact, Sound, Behind, Live
<1>8. CASE UNCHANGED avars
  BY <1>0, <1>8, <1>u DEF avars
<1> QED
  BY <1>1, <1>2, <1>3, <1>4, <1>5, <1>6, <1>7, <1>8 DEF ArenaNext

\* The inductive invariant of the arena holds of every behaviour.
LEMMA ArenaInvHolds == ArenaSpec => []ArenaInv
<1>1. ArenaInit => ArenaInv
  BY ArenaAssumption
  DEF ArenaInit, ArenaInv, ArenaTypeOK, Arenas, Behind, WindowsIntact, Live
<1> QED
  BY <1>1, ArenaInvStep, PTL DEF ArenaSpec

\* The arena stays inside its backing, and has initialised what it handed out:
\* pos <= clean <= cap in every state, which its unsafe slices rely on
\* (streams/stream_arena.rs).
THEOREM ArenaTypeCorrect == ArenaSpec => []ArenaTypeOK
BY ArenaInvHolds, PTL DEF ArenaInv

\* No byte of a live window is ever written, and none was uninitialised.
THEOREM WindowsIntactHolds == ArenaSpec => [](ArenaTypeOK /\ WindowsIntact)
BY ArenaInvHolds, PTL DEF ArenaInv

\* A backing is abandoned only for a window's sake or for want of room.
THEOREM OneBackingHolds == ArenaSpec => OneBackingInSteadyState
<1> DEFINE A == arena'.gen # arena.gen =>
                  Held(windows, arena.gen) \/ arena'.cap > arena.cap
<1>1. ArenaInv /\ [ArenaNext]_avars => [A]_avars
  <2> SUFFICES ASSUME ArenaInv, ArenaNext PROVE A
    OBVIOUS
  <2>0. Sound(arena)
    BY DEF ArenaInv, ArenaTypeOK, Sound
  <2>1. \A n \in Nat : n <= Remaining(arena) => Commit(arena, n).gen = arena.gen
    BY <2>0, CommitSound
  <2>2. ASSUME NEW n \in 1 .. MaxNeed, Read(n) \/ ExtendFromSlice(n) PROVE A
    BY <2>1, <2>2, ArenaAssumption DEF Read, ExtendFromSlice
  <2>3. ASSUME NEW n \in 1 .. MaxNeed, Ensure(n) PROVE A
    BY <2>0, <2>3, RoundUpBounds, ArenaAssumption
    DEF Ensure, EnsureCapacity, RecycleOrReset, Fresh, Rewind, Sound, Arenas
  <2>4. CASE Align
    BY <2>0, <2>1, <2>4, PaddingFits DEF Align
  <2>5. CASE Recycle
    BY <2>0, <2>5 DEF Recycle, RecycleIfFree, RecycleOrReset, Rewind, Fresh,
                      Sound, Arenas
  <2>6. ASSUME NEW s \in Slots, Window(s) \/ DropWindow(s) PROVE A
    BY <2>6 DEF Window, DropWindow
  <2> QED
    BY <2>2, <2>3, <2>4, <2>5, <2>6 DEF ArenaNext
<1> QED
  BY <1>1, ArenaInvHolds, PTL DEF ArenaSpec, OneBackingInSteadyState

------------------------------------------------------------------------------
(* The decoder.                                                            *)

Phases == [at : {"meta", "body", "skip"}, msg : Nat, from : Nat, start : Nat,
           filled : Nat, len : Nat, pad : Nat]

\* Where the next body starts if the backing has room for it. After a body
\* that was given up, none begins: the source has ended and nothing is buffered.
OnBoundary(a) == a.pos % Unit = 0 \/ a.pos = a.cap
Boundaries ==
  IF phase.at = "body" THEN phase.len > 0 => phase.start % Unit = 0
  ELSE OnBoundary(arena) \/ (eof /\ lo = rd)

\* The invariant in two parts: what a step makes of the arena, and the rest.
ArenaPart ==
  /\ Sound(arena) /\ windows \in [Slots -> Windows \cup {NoWindow}]
  /\ Behind(arena, windows) /\ TablesIntact /\ TablesAligned
WirePart ==
  /\ msgs \in Streams /\ cut \in 0 .. Total(msgs)
  /\ lo \in Nat /\ rd \in Nat /\ cut \in Nat /\ lo <= rd /\ rd <= cut
  /\ eof \in BOOLEAN /\ state \in {"schema", "ready", "done"}
  /\ cache \in Slots \cup {None} /\ tables \subseteq Slots
  /\ items \in Seq(Nat \cup {Err})
  /\ faults \in 0 .. MaxFaults
PhasePart ==
  /\ phase \in Phases /\ phase.filled <= phase.len
  /\ phase.at = "body" => phase.msg \in DOMAIN msgs
  /\ BodyInPlace
DInv == ArenaPart /\ WirePart /\ PhasePart /\ Boundaries

------------------------------------------------------------------------------
(* The wire.                                                               *)

LEMMA MessageTypes ==
  ASSUME NEW ms \in Seq(Messages), NEW i \in DOMAIN ms
  PROVE  /\ ms[i].kind \in Kinds /\ ms[i].body \in Nat /\ ms[i].pad \in Nat
         /\ Size(ms[i]) \in Nat \ {0}
         /\ i \in Nat \ {0} /\ i <= Len(ms)
<1>1. i \in 1 .. Len(ms) /\ ms[i] \in Messages
  OBVIOUS
<1> QED
  BY <1>1 DEF Messages, Size, HeaderLen

\* The recursive definition of Start defines: a function with its equation
\* exists, by induction over the messages it is defined up to.
LEMMA StartEquation ==
  ASSUME NEW ms \in Seq(Messages)
  PROVE  Start(ms) = [i \in 1 .. Len(ms) + 1 |->
                        IF i = 1 THEN 0 ELSE Start(ms)[i - 1] + Size(ms[i - 1])]
<1> DEFINE Defines(g, n) ==
             g = [i \in 1 .. n + 1 |->
                    IF i = 1 THEN 0 ELSE g[i - 1] + Size(ms[i - 1])]
           S == {n \in Nat : \E g : Defines(g, n)}
<1>1. 0 \in S
  <2>1. Defines([i \in 1 .. 0 + 1 |-> 0], 0)
    OBVIOUS
  <2> QED
    BY <2>1
<1>2. ASSUME NEW n \in Nat, n \in S PROVE n + 1 \in S
  <2>1. PICK g : Defines(g, n)
    BY <1>2
  <2> DEFINE h == [i \in 1 .. n + 1 + 1 |->
                     IF i = n + 2 THEN g[n + 1] + Size(ms[n + 1]) ELSE g[i]]
  <2>2. Defines(h, n + 1)
    <3> SUFFICES ASSUME NEW i \in 1 .. n + 1 + 1
                 PROVE  h[i] = IF i = 1 THEN 0 ELSE h[i - 1] + Size(ms[i - 1])
      OBVIOUS
    <3> QED
      BY <2>1
  <2> HIDE DEF Defines
  <2> QED
    BY <2>2
<1>3. \E g : Defines(g, Len(ms))
  <2>1. \A n \in Nat : n \in S
    <3> HIDE DEF S
    <3> QED
      BY <1>1, <1>2, SetInduction
  <2> HIDE DEF Defines
  <2> QED
    BY <2>1
<1> QED
  BY <1>3 DEF Start

\* The message that starts where the buffer does.
LEMMA HereStarts ==
  ASSUME Here # 0
  PROVE  Here \in DOMAIN msgs /\ Start(msgs)[Here] = lo
BY DEF Here, MsgAt

LEMMA StartTypes ==
  ASSUME NEW ms \in Seq(Messages)
  PROVE  /\ Start(ms) \in [1 .. Len(ms) + 1 -> Nat]
         /\ Start(ms)[1] = 0
         /\ \A i \in DOMAIN ms : Start(ms)[i + 1] = Start(ms)[i] + Size(ms[i])
         /\ Total(ms) \in Nat
<1> DEFINE S == {n \in Nat : n <= Len(ms) => Start(ms)[n + 1] \in Nat}
<1>0. /\ Start(ms)[1] = 0
      /\ \A i \in DOMAIN ms : Start(ms)[i + 1] = Start(ms)[i] + Size(ms[i])
      /\ DOMAIN Start(ms) = 1 .. Len(ms) + 1
  BY StartEquation
<1>1. 0 \in S
  BY <1>0
<1>2. ASSUME NEW n \in Nat, n \in S PROVE n + 1 \in S
  <2>1. CASE n + 1 <= Len(ms)
    <3>1. n + 1 \in DOMAIN ms /\ Start(ms)[n + 1] \in Nat
      BY <1>2, <2>1
    <3>2. Start(ms)[n + 1 + 1] = Start(ms)[n + 1] + Size(ms[n + 1])
      BY <1>0, <3>1
    <3> QED
      BY <3>1, <3>2, MessageTypes
  <2>2. CASE ~(n + 1 <= Len(ms))
    BY <2>2
  <2> QED
    BY <2>1, <2>2
<1>3. \A n \in Nat : n \in S
  <2> HIDE DEF S
  <2> QED
    BY <1>1, <1>2, SetInduction
<1>4. \A i \in 1 .. Len(ms) + 1 : Start(ms)[i] \in Nat
  <2> TAKE i \in 1 .. Len(ms) + 1
  <2>1. i - 1 \in Nat /\ i - 1 <= Len(ms) /\ (i - 1) + 1 = i
    OBVIOUS
  <2>2. i - 1 \in S
    BY <1>3, <2>1
  <2> QED
    BY <2>1, <2>2
<1>5. Start(ms) = [i \in 1 .. Len(ms) + 1 |-> Start(ms)[i]]
  BY StartEquation
<1> QED
  BY <1>0, <1>4, <1>5 DEF Total

LEMMA DrainBounds ==
  ASSUME rd \in Nat, NEW from \in Nat, from <= rd, NEW n \in Nat
  PROVE  /\ Drain(from, n) \in Nat /\ from <= Drain(from, n)
         /\ Drain(from, n) <= rd
         /\ n <= rd - from => Drain(from, n) = from + n
BY DEF Drain

------------------------------------------------------------------------------
(* The arena.                                                              *)

LEMMA MultipleOfUnit ==
  ASSUME NEW k \in Nat
  PROVE  (Unit * k) % Unit = 0
<1> DEFINE d == (Unit * k) \div Unit
           r == (Unit * k) % Unit
<1>1. d \in Nat /\ r \in 0 .. Unit - 1 /\ Unit * k = Unit * d + r
  BY ArenaAssumption
<1>2. Unit * (k - d) = r
  BY <1>1, ArenaAssumption
<1>3. k - d <= 0
  <2>1. k - d >= 1 => Unit * (k - d) >= Unit
    BY <1>1, ArenaAssumption
  <2> QED
    BY <1>1, <1>2, <2>1, ArenaAssumption
<1>4. k - d >= 0
  <2>1. k - d <= -1 => Unit * (k - d) < 0
    BY <1>1, ArenaAssumption
  <2> QED
    BY <1>1, <1>2, <2>1, ArenaAssumption
<1> QED
  BY <1>1, <1>2, <1>3, <1>4, ArenaAssumption

\* align ends on a boundary, or at the end of the backing.
LEMMA PaddingAligns ==
  ASSUME NEW a, Sound(a)
  PROVE  OnBoundary(Commit(a, Padding(a)))
<1> DEFINE q == a.pos \div Unit
           r == a.pos % Unit
<1>1. /\ q \in Nat /\ r \in 0 .. Unit - 1 /\ a.pos = Unit * q + r
      /\ a.pos \in Nat /\ a.cap \in Nat /\ Unit \in Nat /\ a.pos <= a.cap
  BY ArenaAssumption DEF Sound, Arenas
<1>2. /\ Commit(a, Padding(a)).pos = a.pos + Padding(a)
      /\ Commit(a, Padding(a)).cap = a.cap
  BY DEF Commit
<1>3. CASE r = 0
  BY <1>1, <1>2, <1>3 DEF Padding, OnBoundary
<1>4. CASE r # 0 /\ Unit - r < a.cap - a.pos
  <2>1. a.pos + (Unit - r) = Unit * (q + 1)
    BY <1>1
  <2>2. (a.pos + (Unit - r)) % Unit = 0
    <3>1. q + 1 \in Nat
      BY <1>1
    <3>2. (Unit * (q + 1)) % Unit = 0
      BY <3>1, MultipleOfUnit
    <3> HIDE DEF q, r
    <3> QED
      BY <2>1, <3>2
  <2>3. Padding(a) = Unit - r
    BY <1>4 DEF Padding, Remaining
  <2> QED
    BY <1>2, <2>2, <2>3 DEF OnBoundary
<1>5. CASE r # 0 /\ ~(Unit - r < a.cap - a.pos)
  BY <1>1, <1>2, <1>5 DEF Padding, OnBoundary, Remaining
<1> QED
  BY <1>3, <1>4, <1>5

\* The room a body is given starts on a boundary.
LEMMA RoomAligned ==
  ASSUME NEW a, Sound(a), OnBoundary(a), NEW ws, NEW n \in Nat, n > 0
  PROVE  EnsureCapacity(RecycleIfFree(a, ws), ws, n).pos % Unit = 0
<1>1. 0 % Unit = 0
  BY ArenaAssumption
<1>2. Remaining(a) >= n => a.pos % Unit = 0
  BY DEF Remaining, OnBoundary, Sound, Arenas
<1> QED
  BY <1>1, <1>2
  DEF EnsureCapacity, RecycleIfFree, RecycleOrReset, Rewind, Fresh, Remaining

LEMMA ArenaKept == ArenaPart /\ UNCHANGED avars => ArenaPart'
BY DEF ArenaPart, avars, TablesIntact, WindowsIntact, TablesAligned

\* A write into an arena with the same windows behind it.
LEMMA ArenaWritten ==
  ASSUME ArenaPart, NEW a, Sound(a), Behind(a, windows),
         NEW n \in Nat, n <= Remaining(a),
         arena' = Commit(a, n), windows' = Written(windows, a, n)
  PROVE  ArenaPart' /\ windows' = windows
<1>1. windows' = windows
  BY WriteSpares DEF ArenaPart
<1>2. Sound(arena') /\ arena'.gen = a.gen /\ arena'.pos >= a.pos
  BY CommitSound DEF Sound, Arenas
<1>3. Behind(arena', windows)
  BY <1>2 DEF Behind, ArenaPart, Live, Windows, Sound, Arenas
<1> QED
  BY <1>1, <1>2, <1>3
  DEF ArenaPart, TablesIntact, WindowsIntact, TablesAligned

------------------------------------------------------------------------------
(* The steps.                                                              *)

\* A step between bodies that leaves the arena alone.
LEMMA BetweenBodies ==
  ASSUME DInv, WirePart', UNCHANGED avars,
         phase.at # "body", phase' \in Phases, phase'.at # "body",
         phase'.filled <= phase'.len,
         OnBoundary(arena) \/ (eof' /\ lo' = rd')
  PROVE  DInv'
<1>1. ArenaPart'
  BY ArenaKept DEF DInv
<1>2. PhasePart'
  BY DEF PhasePart, BodyInPlace
<1>3. Boundaries'
  BY DEF Boundaries, avars, OnBoundary
<1> QED
  BY <1>1, <1>2, <1>3 DEF DInv

\* Whatever begins, it is the body of the message at hand, from its first
\* byte on, in a place that is aligned and under no window.
LEMMA BeginStep ==
  ASSUME DInv, phase.at = "meta", lo < rd, Here \in DOMAIN msgs,
         NEW from \in Nat, lo <= from, from <= rd, NEW pad \in Nat,
         msgs[Here].body > 0 => from = Start(msgs)[Here] + HeaderLen,
         BeginBodyRead(from, msgs[Here].body, pad),
         UNCHANGED <<wire, rd, eof, state, cache, tables, items, faults>>
  PROVE  DInv'
<1> DEFINE len == msgs[Here].body
           recycled == RecycleIfFree(arena, windows)
           over == IF rd - from < len THEN rd - from ELSE len
           rest == Drain(from, over)
           padOver == IF rd - rest < pad THEN rd - rest ELSE pad
<1>1. PICK room : room = EnsureCapacity(recycled, windows, len)
  OBVIOUS
<1>2. /\ lo \in Nat /\ rd \in Nat /\ cut \in Nat /\ rd <= cut
      /\ len \in Nat /\ Here \in Nat
  BY MessageTypes, DecoderAssumption DEF DInv, WirePart
<1>3. /\ over \in Nat /\ over <= len /\ over <= rd - from
      /\ over < len => over = rd - from
  BY <1>2
<1>4. /\ rest = from + over /\ rest \in Nat /\ rest <= rd
      /\ padOver \in Nat /\ padOver <= rd - rest /\ padOver <= pad
      /\ padOver < pad => padOver = rd - rest
  <2>1. rest = from + over
    <3> HIDE DEF over
    <3> QED
      BY <1>2, <1>3, DrainBounds
  <2>2. rest \in Nat /\ rest <= rd
    <3> HIDE DEF over, rest
    <3> QED
      BY <1>2, <1>3, <2>1
  <2> HIDE DEF over, rest
  <2> QED
    BY <1>2, <2>1, <2>2
<1>5. Drain(rest, padOver) = rest + padOver
  BY <1>2, <1>4, DrainBounds
<1>6. /\ arena' = Commit(room, over) /\ windows' = Written(windows, room, over)
      /\ lo' = rest + padOver
      /\ phase' = [at |-> "body", msg |-> Here, from |-> from, start |-> room.pos,
                   filled |-> over, len |-> len, pad |-> pad - padOver]
  BY <1>1, <1>5 DEF BeginBodyRead
<1> HIDE DEF over, rest, padOver
<1>7. /\ Sound(room) /\ Behind(room, windows) /\ Remaining(room) >= len
      /\ len > 0 => room.pos % Unit = 0
  <2>1. Sound(arena) /\ OnBoundary(arena)
    BY <1>2 DEF DInv, ArenaPart, Boundaries
  <2>2. Sound(recycled) /\ Behind(recycled, windows)
    BY RecycleBehind DEF DInv, ArenaPart
  <2>3. windows \in [Slots -> Windows \cup {NoWindow}]
    BY DEF DInv, ArenaPart
  <2> HIDE DEF recycled
  <2>4. Sound(room) /\ Behind(room, windows)
    BY <1>1, <1>2, <2>2, <2>3, EnsureBehind
  <2>5. Remaining(room) >= len
    BY <1>1, <1>2, <2>2, EnsureGivesRoom
  <2>6. len > 0 => room.pos % Unit = 0
    BY <1>1, <1>2, <2>1, RoomAligned DEF recycled
  <2> QED
    BY <2>4, <2>5, <2>6
<1>8. Remaining(room) \in Int /\ room.pos \in Nat
  BY <1>7 DEF Sound, Arenas, Remaining
<1>9. ArenaPart' /\ arena'.pos = room.pos + over
  <2>1. over <= Remaining(room)
    BY <1>2, <1>3, <1>7, <1>8
  <2> QED
    BY <1>3, <1>6, <1>7, <2>1, ArenaWritten DEF DInv, Commit
<1>10. WirePart'
  BY <1>2, <1>4, <1>6 DEF DInv, WirePart, wire
<1>11. PhasePart'
  <2>1. phase' \in Phases
    BY <1>2, <1>3, <1>4, <1>6, <1>8 DEF Phases
  <2>2. msgs' = msgs /\ rd' = rd
    BY DEF wire
  <2> QED
    BY <1>2, <1>3, <1>4, <1>6, <1>9, <2>1, <2>2 DEF PhasePart, BodyInPlace
<1>12. Boundaries'
  BY <1>6, <1>7 DEF Boundaries
<1> QED
  BY <1>9, <1>10, <1>11, <1>12 DEF DInv

\* The table of a body that is complete: a window over it, taken while the
\* codec may let go of the window it held.
LEMMA DecodedStep == DInv /\ BodyDecoded => DInv'
<1> SUFFICES ASSUME DInv, BodyDecoded PROVE DInv'
  OBVIOUS
<1> DEFINE n == Padding(arena)
           w == WindowOf(arena, phase.start, phase.len)
<1>0. /\ Sound(arena) /\ windows \in [Slots -> Windows \cup {NoWindow}]
      /\ Behind(arena, windows) /\ TablesIntact /\ TablesAligned
      /\ phase \in Phases /\ phase.at = "body" /\ phase.filled = phase.len
      /\ arena.pos = phase.start + phase.len
      /\ phase.len > 0 => phase.start % Unit = 0
  BY DEF DInv, ArenaPart, PhasePart, BodyInPlace, Boundaries, BodyDecoded, BodyFull
<1>1. PICK s \in Slots :
        /\ ~Live(windows, s)
        /\ windows' = [t \in Slots |->
             IF t = s THEN w
             ELSE IF t = cache /\ t \notin tables THEN NoWindow
             ELSE Written(windows, arena, n)[t]]
        /\ cache' = s /\ tables' = tables \cup {s}
  BY DEF BodyDecoded
<1>2. n \in Nat /\ n <= Remaining(arena) /\ OnBoundary(arena')
  BY <1>0, PaddingFits, PaddingAligns DEF BodyDecoded
<1>3. Written(windows, arena, n) = windows
  BY <1>0, <1>2, WriteSpares
<1>4. Sound(arena') /\ arena'.gen = arena.gen /\ arena'.pos >= arena.pos
  <2>1. arena' = Commit(arena, n)
    BY DEF BodyDecoded
  <2> HIDE DEF n
  <2> QED
    BY <1>0, <1>2, <2>1, CommitSound DEF Sound, Arenas
<1>5. /\ w \in Windows /\ w.intact /\ w.gen = arena.gen
      /\ w.off + w.len <= arena.pos /\ (w.len > 0 => w.off % Unit = 0)
  <2>1. /\ phase.start \in Nat /\ phase.len \in Nat /\ arena.gen \in Nat
        /\ arena.pos \in Nat /\ arena.clean \in Nat /\ arena.pos <= arena.clean
    BY <1>0 DEF Phases, Sound, Arenas
  <2>2. /\ w.gen = arena.gen /\ w.off = phase.start /\ w.len = phase.len
        /\ w.intact = (phase.start + phase.len <= arena.clean)
        /\ w = [gen |-> w.gen, off |-> w.off, len |-> w.len, intact |-> w.intact]
    BY DEF WindowOf
  <2>3. w.intact = TRUE
    BY <1>0, <2>1, <2>2
  <2> HIDE DEF w
  <2>4. w \in Windows
    BY <2>1, <2>2, <2>3 DEF Windows
  <2> QED
    BY <1>0, <2>1, <2>2, <2>3, <2>4
<1> HIDE DEF w, n
<1>6. /\ windows' \in [Slots -> Windows \cup {NoWindow}]
      /\ \A t \in Slots : \/ windows'[t] = w
                         \/ windows'[t] = NoWindow
                         \/ windows'[t] = windows[t]
  BY <1>0, <1>1, <1>3, <1>5
<1>7. ArenaPart'
  <2>1. Behind(arena', windows')
    BY <1>0, <1>4, <1>5, <1>6 DEF Behind, Live, Windows, Sound, Arenas
  <2>2. TablesIntact'
    BY <1>0, <1>5, <1>6 DEF TablesIntact, WindowsIntact, Live
  <2>3. TablesAligned'
    BY <1>0, <1>5, <1>6 DEF TablesAligned, Live
  <2> QED
    BY <1>4, <1>6, <2>1, <2>2, <2>3 DEF ArenaPart
<1>8. phase' \in Phases /\ phase'.at # "body" /\ phase'.filled <= phase'.len
  <2>1. Metadata \in Phases /\ Metadata.at = "meta" /\ Metadata.filled = 0
        /\ Metadata.len = 0
    BY DEF Metadata, Phases
  <2>2. phase.pad \in Nat
    BY <1>0 DEF Phases
  <2> DEFINE skip == [Metadata EXCEPT !.at = "skip", !.pad = phase.pad]
  <2>3. skip \in Phases /\ skip.at = "skip" /\ skip.filled = 0 /\ skip.len = 0
    BY <2>2 DEF Metadata, Phases
  <2>4. phase' = skip \/ phase' = Metadata
    BY DEF BodyDecoded
  <2> HIDE DEF skip
  <2> QED
    BY <2>1, <2>3, <2>4
<1>9. WirePart'
  <2>1. cache' \in Slots \cup {None} /\ tables' \subseteq Slots
    BY <1>1 DEF DInv, WirePart
  <2>2. items' \in Seq(Nat \cup {Err})
    BY <1>0 DEF DInv, WirePart, BodyDecoded, Yield, Phases
  <2> QED
    BY <2>1, <2>2 DEF DInv, WirePart, BodyDecoded, wire
<1> QED
  BY <1>2, <1>7, <1>8, <1>9 DEF DInv, PhasePart, BodyInPlace, Boundaries

LEMMA RefusedStep == DInv /\ BodyRefused => DInv'
<1> SUFFICES ASSUME DInv, BodyRefused PROVE DInv'
  OBVIOUS
<1> DEFINE n == Padding(arena)
<1>0. /\ Sound(arena) /\ windows \in [Slots -> Windows \cup {NoWindow}]
      /\ Behind(arena, windows) /\ TablesIntact /\ TablesAligned
  BY DEF DInv, ArenaPart
<1>1. n \in Nat /\ n <= Remaining(arena) /\ OnBoundary(arena')
  BY <1>0, PaddingFits, PaddingAligns DEF BodyRefused
<1>2. Written(windows, arena, n) = windows
  BY <1>0, <1>1, WriteSpares
<1>3. Sound(arena') /\ arena'.gen = arena.gen /\ arena'.pos >= arena.pos
  <2>1. arena' = Commit(arena, n)
    BY DEF BodyRefused
  <2> HIDE DEF n
  <2> QED
    BY <1>0, <1>1, <2>1, CommitSound DEF Sound, Arenas
<1>4. /\ windows' \in [Slots -> Windows \cup {NoWindow}]
      /\ \A t \in Slots : windows'[t] = NoWindow \/ windows'[t] = windows[t]
  BY <1>0, <1>2 DEF BodyRefused
<1>5. ArenaPart'
  <2>1. Behind(arena', windows')
    BY <1>0, <1>3, <1>4 DEF Behind, Live, Windows, Sound, Arenas
  <2>2. TablesIntact' /\ TablesAligned'
    BY <1>0, <1>4 DEF TablesIntact, WindowsIntact, TablesAligned, Live
  <2> QED
    BY <1>3, <1>4, <2>1, <2>2 DEF ArenaPart
<1>6. phase' = Metadata /\ Metadata \in Phases
  BY DEF BodyRefused, Metadata, Phases
<1>7. WirePart'
  BY DEF DInv, WirePart, BodyRefused, Yield, wire, Err
<1> QED
  BY <1>1, <1>5, <1>6, <1>7
  DEF DInv, PhasePart, BodyInPlace, Boundaries, Metadata

LEMMA ReadStep == DInv /\ BodyRead => DInv'
<1> SUFFICES ASSUME DInv, BodyRead PROVE DInv'
  OBVIOUS
<1>0. /\ Sound(arena) /\ Behind(arena, windows)
      /\ phase \in Phases /\ phase.at = "body" /\ phase.filled < phase.len
      /\ rd \in Nat /\ cut \in Nat /\ lo = rd /\ rd = phase.from + phase.filled
      /\ arena.pos = phase.start + phase.filled
  BY DEF DInv, ArenaPart, WirePart, PhasePart, BodyInPlace, BodyRead, InBody
<1>1. PICK n \in Chunks(phase.len - phase.filled) :
        /\ n <= Remaining(arena)
        /\ rd' = rd + n /\ lo' = rd + n
        /\ arena' = Commit(arena, n)
        /\ windows' = Written(windows, arena, n)
        /\ phase' = [phase EXCEPT !.filled = @ + n]
  BY DEF BodyRead
<1>2. /\ phase.len \in Nat /\ phase.filled \in Nat /\ phase.from \in Nat
      /\ phase.start \in Nat /\ arena.pos \in Nat
  BY <1>0 DEF Phases, Sound, Arenas
<1>3. n \in Nat /\ n <= phase.len - phase.filled /\ rd + n <= cut
  BY <1>1, <1>2 DEF Chunks
<1>4. ArenaPart' /\ arena'.pos = arena.pos + n
  BY <1>0, <1>1, <1>3, ArenaWritten DEF DInv, Commit
<1>5. /\ phase' \in Phases /\ phase'.filled = phase.filled + n
      /\ phase'.at = "body" /\ phase'.len = phase.len /\ phase'.pad = phase.pad
      /\ phase'.from = phase.from /\ phase'.start = phase.start
      /\ phase'.msg = phase.msg
  BY <1>0, <1>1, <1>2, <1>3 DEF Phases
<1>6. WirePart'
  BY <1>0, <1>1, <1>3 DEF DInv, WirePart, BodyRead, wire
<1>7. PhasePart'
  <2>1. msgs' = msgs
    BY DEF BodyRead, wire
  <2>2. phase'.filled <= phase'.len /\ arena'.pos = phase'.start + phase'.filled
    BY <1>0, <1>2, <1>3, <1>4, <1>5
  <2>3. lo' = rd' /\ rd' = phase'.from + phase'.filled
    BY <1>0, <1>1, <1>2, <1>3, <1>5
  <2>4. /\ phase.msg \in DOMAIN msgs /\ phase.len = msgs[phase.msg].body
        /\ msgs[phase.msg].body > 0
             => phase.from = Start(msgs)[phase.msg] + HeaderLen
    BY <1>0 DEF DInv, PhasePart, BodyInPlace
  <2>5. BodyInPlace'
    BY <1>5, <2>1, <2>2, <2>3, <2>4 DEF BodyInPlace
  <2> QED
    BY <1>5, <2>1, <2>2, <2>4, <2>5 DEF PhasePart
<1> QED
  BY <1>0, <1>4, <1>5, <1>6, <1>7 DEF DInv, Boundaries

LEMMA FailsStep == DInv /\ BodyFails => DInv'
<1> SUFFICES ASSUME DInv, BodyFails PROVE DInv'
  OBVIOUS
<1>1. ArenaPart'
  BY ArenaKept DEF DInv, BodyFails
<1>2. /\ eof' = TRUE /\ lo' = rd' /\ items' = Append(items, Err)
      /\ faults' = faults \/ (faults < MaxFaults /\ faults' = faults + 1)
  BY DEF DInv, PhasePart, BodyInPlace, BodyFails, InBody, SourceFails, Yield
<1>3. faults' \in 0 .. MaxFaults /\ items' \in Seq(Nat \cup {Err})
  BY <1>2, DecoderAssumption DEF DInv, WirePart
<1>4. WirePart'
  BY <1>2, <1>3 DEF DInv, WirePart, BodyFails, wire
<1>5. phase' = Metadata /\ Metadata \in Phases
  BY DEF BodyFails, Metadata, Phases
<1> QED
  BY <1>1, <1>2, <1>4, <1>5 DEF DInv, PhasePart, BodyInPlace, Boundaries, Metadata

LEMMA DropStep ==
  ASSUME DInv, NEW s \in Slots, DropTable(s)
  PROVE  DInv'
<1>1. /\ Sound(arena) /\ windows \in [Slots -> Windows \cup {NoWindow}]
      /\ Behind(arena, windows) /\ TablesIntact /\ TablesAligned
  BY DEF DInv, ArenaPart
<1>2. /\ windows' \in [Slots -> Windows \cup {NoWindow}]
      /\ \A t \in Slots : windows'[t] = NoWindow \/ windows'[t] = windows[t]
  BY <1>1 DEF DropTable
<1>3. arena' = arena
  BY DEF DropTable
<1>4. ArenaPart'
  <2>1. Behind(arena', windows')
    BY <1>1, <1>2, <1>3 DEF Behind, Live
  <2>2. TablesIntact' /\ TablesAligned'
    BY <1>1, <1>2 DEF TablesIntact, WindowsIntact, TablesAligned, Live
  <2> QED
    BY <1>1, <1>2, <1>3, <2>1, <2>2 DEF ArenaPart
<1>5. WirePart'
  BY DEF DInv, WirePart, DropTable, wire
<1> QED
  BY <1>3, <1>4, <1>5
  DEF DInv, PhasePart, BodyInPlace, Boundaries, DropTable, wire

\* The steps between bodies that begin none.
LEMMA QuietStep ==
  ASSUME DInv,
         \/ EndOfStream \/ CorruptHeader \/ InlineFrame \/ UnexpectedFrame
         \/ OutOfOrder \/ FillBuf \/ EndedEarly \/ SkipDone \/ SkipPad
  PROVE  DInv'
<1>0. /\ msgs \in Seq(Messages) /\ lo \in Nat /\ rd \in Nat /\ cut \in Nat
      /\ lo <= rd /\ rd <= cut /\ phase \in Phases
      /\ phase.filled <= phase.len
      /\ items \in Seq(Nat \cup {Err}) /\ faults \in 0 .. MaxFaults
  BY DecoderAssumption DEF DInv, WirePart, PhasePart
<1>1. ASSUME NEW n \in Nat
      PROVE  Drain(lo, n) \in Nat /\ Drain(lo, n) <= rd
  BY <1>0, DrainBounds
<1>2. \A x \in {Err, End} : Append(items, x) \in Seq(Nat \cup {Err})
  BY <1>0 DEF Err, End
<1>3. SeesHeader => Here \in DOMAIN msgs /\ Size(msgs[Here]) \in Nat
  BY <1>0, HereStarts, MessageTypes DEF SeesHeader
<1>4. SeesEnd \/ SeesHeader => lo < rd
  BY <1>0 DEF SeesEnd, SeesHeader, Avail, HeaderLen
<1>5. phase.at # "body" /\ ~(eof /\ lo = rd) => OnBoundary(arena)
  BY DEF DInv, Boundaries
<1>6. /\ Metadata \in Phases /\ Metadata.at = "meta"
      /\ Metadata.filled = 0 /\ Metadata.len = 0
  BY DEF Metadata, Phases
<1>7. CASE EndOfStream
  <2>1. lo' \in Nat /\ lo' <= rd
    BY <1>1, <1>7 DEF EndOfStream
  <2>2. WirePart'
    BY <1>0, <1>2, <1>7, <2>1 DEF EndOfStream, DInv, WirePart, Yield, wire
  <2> QED
    BY <1>0, <1>4, <1>5, <1>7, <2>2, BetweenBodies DEF EndOfStream
<1>8. CASE CorruptHeader
  BY <1>0, <1>2, <1>4, <1>5, <1>8, BetweenBodies
  DEF CorruptHeader, DInv, WirePart, Yield, wire
<1>9. CASE InlineFrame
  <2>1. SeesHeader
    BY <1>9 DEF InlineFrame, SeesFrame
  <2>2. lo' \in Nat /\ lo' <= rd
    BY <1>1, <1>3, <1>9, <2>1 DEF InlineFrame
  <2> QED
    BY <1>0, <1>4, <1>5, <1>9, <2>1, <2>2, BetweenBodies
    DEF InlineFrame, DInv, WirePart, wire
<1>10. CASE UnexpectedFrame
  <2>1. SeesHeader
    BY <1>10 DEF UnexpectedFrame, SeesFrame
  <2>2. lo' \in Nat /\ lo' <= rd
    BY <1>1, <1>3, <1>10, <2>1 DEF UnexpectedFrame
  <2> QED
    BY <1>0, <1>2, <1>4, <1>5, <1>10, <2>1, <2>2, BetweenBodies
    DEF UnexpectedFrame, DInv, WirePart, Yield, wire
<1>11. CASE OutOfOrder
  BY <1>0, <1>2, <1>4, <1>5, <1>11, BetweenBodies
  DEF OutOfOrder, DInv, WirePart, Yield, wire
<1>12. CASE EndedEarly
  BY <1>0, <1>2, <1>5, <1>12, BetweenBodies
  DEF EndedEarly, DInv, WirePart, Yield, wire
<1>13. CASE SkipDone
  BY <1>0, <1>5, <1>6, <1>13, BetweenBodies
  DEF SkipDone, DInv, WirePart, wire
<1>14. ASSUME SourceFails
       PROVE  /\ items' \in Seq(Nat \cup {Err}) /\ faults' \in 0 .. MaxFaults
              /\ eof' = TRUE
  BY <1>0, <1>2, <1>14, DecoderAssumption DEF SourceFails, Yield
<1>15. CASE FillBuf
  <2>1. OnBoundary(arena) /\ phase.at # "body"
    BY <1>5, <1>15 DEF FillBuf
  <2>2. rd' \in Nat /\ rd <= rd' /\ rd' <= cut
    BY <1>0, <1>15 DEF FillBuf, Chunks
  <2>3. /\ items' \in Seq(Nat \cup {Err}) /\ faults' \in 0 .. MaxFaults
        /\ eof' \in BOOLEAN /\ lo <= rd'
    <3>1. lo <= rd'
      BY <1>0, <2>2
    <3>2. eof' \in BOOLEAN
      BY <1>14, <1>15 DEF FillBuf, DInv, WirePart
    <3>3. (items' = items /\ faults' = faults) \/ SourceFails
      BY <1>15 DEF FillBuf
    <3> QED
      BY <1>0, <1>14, <3>1, <3>2, <3>3
  <2>4. WirePart'
    BY <1>0, <1>15, <2>2, <2>3 DEF FillBuf, DInv, WirePart, wire
  <2> QED
    BY <1>0, <1>15, <2>1, <2>4, BetweenBodies DEF FillBuf
<1>16. CASE SkipPad
  <2>1. OnBoundary(arena) /\ phase.at = "skip" /\ phase.pad \in Nat
    BY <1>0, <1>5, <1>16 DEF SkipPad, Phases
  <2>2. /\ rd' \in Nat /\ lo' \in Nat /\ lo' <= rd' /\ rd' <= cut
        /\ phase' \in Phases /\ phase'.at = "skip"
        /\ phase'.filled = phase.filled /\ phase'.len = phase.len
    <3>1. CASE UNCHANGED <<rd, lo, phase>>
      BY <1>0, <2>1, <3>1
    <3>2. CASE \E n \in Chunks(phase.pad) :
                 /\ rd' = rd + n /\ lo' = rd + n
                 /\ phase' = [phase EXCEPT !.pad = @ - n]
      <4>1. PICK n \in Chunks(phase.pad) :
              /\ rd' = rd + n /\ lo' = rd + n
              /\ phase' = [phase EXCEPT !.pad = @ - n]
        BY <3>2
      <4>2. n \in Nat /\ n <= phase.pad /\ rd + n <= cut
        BY <2>1 DEF Chunks
      <4>3. /\ phase' \in Phases /\ phase'.at = "skip"
            /\ phase'.filled = phase.filled /\ phase'.len = phase.len
        <5>1. phase.pad - n \in Nat
          BY <2>1, <4>2
        <5>2. phase' = [phase EXCEPT !.pad = phase.pad - n]
          BY <4>1
        <5> QED
          BY <1>0, <2>1, <5>1, <5>2 DEF Phases
      <4> QED
        BY <1>0, <4>1, <4>2, <4>3
    <3> QED
      BY <1>16, <3>1, <3>2 DEF SkipPad
  <2>3. WirePart'
    BY <1>0, <1>14, <1>16, <2>2 DEF SkipPad, DInv, WirePart, wire
  <2> QED
    BY <1>0, <1>16, <2>1, <2>2, <2>3, BetweenBodies DEF SkipPad
<1> QED
  BY <1>7, <1>8, <1>9, <1>10, <1>11, <1>12, <1>13, <1>15, <1>16

LEMMA BatchStep == DInv /\ (BatchFrame \/ PendingBody) => DInv'
<1> SUFFICES ASSUME DInv, BatchFrame \/ PendingBody PROVE DInv'
  OBVIOUS
<1> DEFINE m == msgs[Here]
<1>1. SeesHeader /\ phase.at = "meta"
  BY DEF BatchFrame, PendingBody, SeesFrame
<1>2. Here \in DOMAIN msgs /\ Start(msgs)[Here] = lo
  BY <1>1, HereStarts DEF SeesHeader
<1>3. /\ lo \in Nat /\ rd \in Nat /\ lo + HeaderLen <= rd
      /\ m.body \in Nat /\ m.pad \in Nat
  BY <1>1, <1>2, MessageTypes, DecoderAssumption
  DEF DInv, WirePart, SeesHeader, Avail, HeaderLen
<1>4. Drain(lo, HeaderLen) = lo + HeaderLen
  BY <1>3 DEF Drain, HeaderLen
<1>5. CASE m.body = 0 /\ BeginBodyRead(lo, 0, HeaderLen)
  BY <1>1, <1>2, <1>3, <1>5, BeginStep DEF BatchFrame, PendingBody, HeaderLen
<1>6. CASE BeginBodyRead(lo + HeaderLen, m.body, m.pad)
  BY <1>1, <1>2, <1>3, <1>6, BeginStep DEF BatchFrame, PendingBody, HeaderLen
<1> QED
  BY <1>4, <1>5, <1>6 DEF BatchFrame, PendingBody

LEMMA DInvStep == DInv /\ [Next]_dvars => DInv'
<1> SUFFICES ASSUME DInv, [Next]_dvars PROVE DInv'
  OBVIOUS
<1>1. CASE UNCHANGED dvars
  <2>1. ArenaPart'
    BY <1>1, ArenaKept DEF DInv, dvars
  <2> QED
    BY <1>1, <2>1
    DEF DInv, WirePart, PhasePart, BodyInPlace, Boundaries, dvars, wire, avars
<1> QED
  BY <1>1, QuietStep, BatchStep, ReadStep, FailsStep, DecodedStep, RefusedStep,
     DropStep
  DEF Next, Step, Stopped

LEMMA DInvInit == Init => DInv
<1> SUFFICES ASSUME Init PROVE DInv
  OBVIOUS
<1>1. msgs \in Seq(Messages) /\ Total(msgs) \in Nat
  BY StartTypes, DecoderAssumption DEF Init
<1>2. cut \in 0 .. Total(msgs)
  BY <1>1, DecoderAssumption DEF Init
<1>3. ArenaPart
  BY ArenaAssumption
  DEF Init, ArenaInit, ArenaPart, Sound, Arenas, Behind, TablesIntact,
      WindowsIntact, TablesAligned, Live
<1>4. WirePart
  <2>1. cut \in Nat /\ faults \in 0 .. MaxFaults
    BY <1>1, <1>2, DecoderAssumption DEF Init
  <2>2. items \in Seq(Nat \cup {Err}) /\ tables \subseteq Slots
    BY DEF Init
  <2>3. cut \in 0 .. Total(msgs) /\ 0 <= cut
    BY <1>2, <2>1
  <2>4. /\ eof \in BOOLEAN /\ state \in {"schema", "ready", "done"}
        /\ cache \in Slots \cup {None} /\ msgs \in Streams
        /\ lo = 0 /\ rd = 0
    BY DEF Init
  <2> QED
    BY <2>1, <2>2, <2>3, <2>4 DEF WirePart
<1>5. /\ Metadata \in Phases /\ Metadata.at = "meta"
      /\ Metadata.filled = 0 /\ Metadata.len = 0
  BY DEF Metadata, Phases
<1>6. OnBoundary(arena)
  BY ArenaAssumption DEF Init, ArenaInit, OnBoundary
<1> QED
  BY <1>3, <1>4, <1>5, <1>6 DEF Init, DInv, PhasePart, BodyInPlace, Boundaries

LEMMA DInvHolds == Spec => []DInv
BY DInvInit, DInvStep, PTL DEF Spec

------------------------------------------------------------------------------
\* The decoder's state is what its fields say: the buffer is a range of what
\* was read, no read passes the end of the body (TableStreamDecoder).
THEOREM DecoderTypeCorrect == Spec => []DecoderTypeOK
<1>1. DInv => DecoderTypeOK
  BY DEF DInv, ArenaPart, Sound, WirePart, PhasePart, Phases, DecoderTypeOK,
         ArenaTypeOK
<1> QED
  BY <1>1, DInvHolds, PTL

\* No body is read, and no padding written, under a table that the consumer or
\* the codec still holds, whenever tables are dropped.
THEOREM TablesIntactHolds == Spec => []TablesIntact
BY DInvHolds, PTL DEF DInv, ArenaPart

\* Every body is assembled in one piece from the bytes of its own message,
\* wherever the reads of the transport end.
THEOREM BodyInPlaceHolds == Spec => []BodyInPlace
BY DInvHolds, PTL DEF DInv, PhasePart

\* Every table starts on a boundary of the arena.
THEOREM TablesAlignedHolds == Spec => []TablesAligned
BY DInvHolds, PTL DEF DInv, ArenaPart

------------------------------------------------------------------------------
(* The refinement of TableDelivery.                                        *)

\* The streams for which the decoder keeps TableDelivery's promise: closed by
\* the one end marker, no padding after a message without a body, and, if
\* nothing is wrong with the stream, the schema before the first batch.
WellFormed(ms) ==
  /\ ms # <<>>
  /\ \A i \in DOMAIN ms : ms[i].kind = "eos" <=> i = Len(ms)
  /\ \A i \in DOMAIN ms : ms[i].kind = "schema" => ms[i].body = 0 /\ ms[i].pad = 0
  /\ \A i \in DOMAIN ms : ms[i].kind = "batch" /\ ms[i].body = 0 => ms[i].pad = 0
  /\ (\A i \in DOMAIN ms : ms[i].kind \in {"schema", "dict", "batch", "eos"})
       => \A b \in DOMAIN ms :
            ms[b].kind = "batch" => \E i \in 1 .. b - 1 : ms[i].kind = "schema"
StreamsWellFormed == \A ms \in Streams : WellFormed(ms)

Yielded == {items[i] : i \in DOMAIN items} \ {Err, End}
HasFailed == \E i \in DOMAIN items : items[i] = Err
HasEnded == items # <<>> /\ items[Len(items)] = End
Faultless == Flawless /\ cut = Total(msgs) /\ faults = 0

\* All that comes before message k is done with.
Before(k) ==
  /\ \A b \in Batches : b < k => b \in Yielded
  /\ state = "schema" => \A i \in DOMAIN msgs : i < k => msgs[i].kind # "schema"

\* What was yielded lies behind: before the body in hand, or before the buffer.
Behindhand ==
  \A b \in Yielded :
    /\ b \in Batches
    /\ IF phase.at = "body" THEN b < phase.msg ELSE Start(msgs)[b] < lo

\* The body in hand: there is room for the rest of it, and it is no frame that
\* is decoded in the buffer, except where the source has ended inside it.
BodyPart ==
  phase.at = "body" =>
    /\ Start(msgs)[phase.msg] < lo
    /\ phase.len - phase.filled <= Remaining(arena)
    /\ msgs[phase.msg].kind \in {"batch", "badbatch", "dict", "other"}
    /\ msgs[phase.msg].kind = "dict" => phase.filled < phase.len /\ rd = cut

\* Why the source is at its end, and what an error says of the stream.
SourcePart ==
  /\ eof => rd = cut \/ faults > 0
  /\ rd = cut \/ ~InsideDict(rd)
  /\ faults > 0 => HasFailed
  /\ HasFailed => ~Faultless
  /\ state = "done" => HasEnded

\* Until an error: where the next message is, seen from the buffer.
NextIs(k, left) == Start(msgs)[k] = lo + left /\ Before(k)
CutShort == lo = rd /\ rd = cut /\ cut < Total(msgs)
Place ==
  IF phase.at = "body"
  THEN /\ Before(phase.msg)
       /\ msgs[phase.msg].kind = "batch" =>
            Start(msgs)[phase.msg + 1] = lo + phase.pad + (phase.len - phase.filled)
  ELSE \/ \E k \in DOMAIN msgs : NextIs(k, phase.pad)
       \/ phase.at = "meta" /\ CutShort

Progress ==
  /\ Behindhand /\ BodyPart /\ SourcePart
  /\ phase.at = "meta" => phase.pad = 0
  /\ phase.at = "skip" /\ phase.pad > 0 => lo = rd
  /\ ~HasFailed /\ state # "done" => Place

\* What holds when the decoder is polled.
Going == DInv /\ Progress /\ Polling /\ StreamsWellFormed /\ ~SplitDict

\* A step of TableDelivery, or none.
Moves == [Delivery!Next]_<<Batches, cut = Total(msgs), Faultless, items>>

LEMMA StartsClimb ==
  ASSUME NEW ms \in Seq(Messages), NEW i \in 1 .. Len(ms) + 1
  PROVE  \A n \in Nat : i + n <= Len(ms) + 1 => Start(ms)[i] + n <= Start(ms)[i + n]
<1> DEFINE S == {n \in Nat : i + n <= Len(ms) + 1 => Start(ms)[i] + n <= Start(ms)[i + n]}
<1>0. /\ \A j \in 1 .. Len(ms) + 1 : Start(ms)[j] \in Nat
      /\ \A j \in DOMAIN ms : Start(ms)[j + 1] = Start(ms)[j] + Size(ms[j])
  BY StartTypes
<1>1. 0 \in S
  BY <1>0
<1>2. ASSUME NEW n \in Nat, n \in S PROVE n + 1 \in S
  <2> SUFFICES ASSUME i + (n + 1) <= Len(ms) + 1
               PROVE  Start(ms)[i] + (n + 1) <= Start(ms)[i + (n + 1)]
    OBVIOUS
  <2>1. i + n \in DOMAIN ms /\ i + n \in 1 .. Len(ms) + 1 /\ (i + n) + 1 = i + (n + 1)
    OBVIOUS
  <2>2. Start(ms)[i] + n <= Start(ms)[i + n]
    BY <1>2, <2>1
  <2>3. Start(ms)[i + (n + 1)] = Start(ms)[i + n] + Size(ms[i + n])
    BY <1>0, <2>1
  <2>4. Size(ms[i + n]) \in Nat \ {0}
    BY <2>1, MessageTypes
  <2>5. Start(ms)[i] \in Nat /\ Start(ms)[i + n] \in Nat
    BY <1>0, <2>1
  <2> QED
    BY <2>2, <2>3, <2>4, <2>5
<1>3. \A n \in Nat : n \in S
  <2> HIDE DEF S
  <2> QED
    BY <1>1, <1>2, SetInduction
<1> QED
  BY <1>3

\* A message starts behind the one before it.
LEMMA StartsAscend ==
  ASSUME NEW ms \in Seq(Messages), NEW i \in 1 .. Len(ms) + 1,
         NEW j \in 1 .. Len(ms) + 1, i < j
  PROVE  Start(ms)[i] < Start(ms)[j]
<1>1. j - i \in Nat /\ i + (j - i) = j
  OBVIOUS
<1>2. Start(ms)[i] + (j - i) <= Start(ms)[j]
  BY <1>1, StartsClimb
<1>3. Start(ms)[i] \in Nat /\ Start(ms)[j] \in Nat
  BY StartTypes
<1> QED
  BY <1>1, <1>2, <1>3

LEMMA GoingFacts ==
  ASSUME Going
  PROVE  /\ msgs \in Streams /\ msgs \in Seq(Messages) /\ WellFormed(msgs)
         /\ lo \in Nat /\ rd \in Nat /\ cut \in Nat /\ Total(msgs) \in Nat
         /\ lo <= rd /\ rd <= cut /\ cut <= Total(msgs)
         /\ phase \in Phases /\ items \in Seq(Nat \cup {Err}) /\ faults \in Nat
         /\ state \in {"schema", "ready"}
<1>1. msgs \in Seq(Messages) /\ Total(msgs) \in Nat
  BY DecoderAssumption, StartTypes DEF Going, DInv, WirePart
<1>2. state # "done"
  BY DEF Going, Polling, Progress, SourcePart, HasEnded
<1> QED
  BY <1>1, <1>2, DecoderAssumption
  DEF Going, DInv, WirePart, PhasePart, StreamsWellFormed

\* A message, where it starts and where the next one does.
LEMMA MessageAt ==
  ASSUME Going, NEW k \in DOMAIN msgs
  PROVE  /\ k \in Nat /\ 1 <= k /\ k <= Len(msgs) /\ Len(msgs) \in Nat
         /\ msgs[k].kind \in Kinds /\ msgs[k].body \in Nat /\ msgs[k].pad \in Nat
         /\ Start(msgs)[k] \in Nat /\ Start(msgs)[k + 1] \in Nat
         /\ Start(msgs)[k + 1] <= Total(msgs)
         /\ Start(msgs)[k + 1] = Start(msgs)[k] + Size(msgs[k])
         /\ msgs[k].kind = "eos" =>
              k = Len(msgs) /\ Start(msgs)[k + 1] = Start(msgs)[k] + 1
         /\ msgs[k].kind # "eos" =>
              /\ k + 1 \in DOMAIN msgs
              /\ Start(msgs)[k + 1]
                   = Start(msgs)[k] + HeaderLen + msgs[k].body + msgs[k].pad
         /\ msgs[k].kind = "schema" => msgs[k].body = 0 /\ msgs[k].pad = 0
         /\ msgs[k].kind = "batch" /\ msgs[k].body = 0 => msgs[k].pad = 0
<1>1. msgs \in Seq(Messages) /\ WellFormed(msgs)
  BY GoingFacts
<1>2. /\ k \in Nat /\ 1 <= k /\ k <= Len(msgs) /\ Len(msgs) \in Nat
      /\ msgs[k].kind \in Kinds /\ msgs[k].body \in Nat /\ msgs[k].pad \in Nat
      /\ Size(msgs[k]) \in Nat \ {0}
  BY <1>1, MessageTypes
<1>3. /\ Start(msgs)[k] \in Nat /\ Start(msgs)[k + 1] \in Nat
      /\ Start(msgs)[k + 1] = Start(msgs)[k] + Size(msgs[k])
  BY <1>1, <1>2, StartTypes
<1>4. Start(msgs)[k + 1] <= Total(msgs)
  <2>1. k + 1 = Len(msgs) + 1 \/ k + 1 < Len(msgs) + 1
    BY <1>2
  <2>2. Total(msgs) \in Nat /\ Total(msgs) = Start(msgs)[Len(msgs) + 1]
    BY <1>1, StartTypes DEF Total
  <2>3. k + 1 < Len(msgs) + 1 => Start(msgs)[k + 1] < Start(msgs)[Len(msgs) + 1]
    BY <1>1, <1>2, StartsAscend
  <2> QED
    BY <1>3, <2>1, <2>2, <2>3
<1>5. /\ msgs[k].kind = "eos" <=> k = Len(msgs)
      /\ msgs[k].kind = "schema" => msgs[k].body = 0 /\ msgs[k].pad = 0
      /\ msgs[k].kind = "batch" /\ msgs[k].body = 0 => msgs[k].pad = 0
  BY <1>1 DEF WellFormed
<1>6. k # Len(msgs) => k + 1 \in DOMAIN msgs
  BY <1>1, <1>2
<1>7. msgs[k].kind = "eos" =>
        k = Len(msgs) /\ Start(msgs)[k + 1] = Start(msgs)[k] + 1
  BY <1>3, <1>5 DEF Size
<1>8. msgs[k].kind # "eos" =>
        Start(msgs)[k + 1] = Start(msgs)[k] + HeaderLen + msgs[k].body + msgs[k].pad
  <2>1. msgs[k].kind # "eos" => Size(msgs[k]) = HeaderLen + msgs[k].body + msgs[k].pad
    BY DEF Size
  <2>2. PICK s \in Nat : s = Start(msgs)[k]
    BY <1>3
  <2>3. PICK b \in Nat, p \in Nat : b = msgs[k].body /\ p = msgs[k].pad
    BY <1>2
  <2>4. s + (HeaderLen + b + p) = s + HeaderLen + b + p
    BY <2>2, <2>3 DEF HeaderLen
  <2> QED
    BY <1>3, <2>1, <2>2, <2>3, <2>4
<1> QED
  BY <1>2, <1>3, <1>4, <1>5, <1>6, <1>7, <1>8

LEMMA OrderOfStarts ==
  ASSUME Going, NEW b \in DOMAIN msgs, NEW k \in DOMAIN msgs
  PROVE  /\ b < k <=> Start(msgs)[b] < Start(msgs)[k]
         /\ b = k <=> Start(msgs)[b] = Start(msgs)[k]
<1>1. msgs \in Seq(Messages)
  BY GoingFacts
<1>2. /\ b \in Nat /\ k \in Nat /\ Start(msgs)[b] \in Nat /\ Start(msgs)[k] \in Nat
      /\ b \in 1 .. Len(msgs) + 1 /\ k \in 1 .. Len(msgs) + 1
  BY MessageAt
<1>3. b < k => Start(msgs)[b] < Start(msgs)[k]
  BY <1>1, <1>2, StartsAscend
<1>4. k < b => Start(msgs)[k] < Start(msgs)[b]
  BY <1>1, <1>2, StartsAscend
<1> QED
  BY <1>2, <1>3, <1>4

\* The message at the buffer, if the decoder sees one there.
LEMMA HereAt ==
  ASSUME Going, phase.at = "meta", lo < rd, ~HasFailed
  PROVE  Here \in DOMAIN msgs /\ Start(msgs)[Here] = lo /\ Before(Here)
<1>1. phase.pad = 0 /\ Place /\ lo \in Nat /\ rd \in Nat
  BY GoingFacts DEF Going, Progress
<1>2. PICK k \in DOMAIN msgs : Start(msgs)[k] = lo + 0 /\ Before(k)
  BY <1>1 DEF Place, NextIs, CutShort
<1>3. Start(msgs)[k] = lo
  BY <1>1, <1>2
<1>4. Here \in DOMAIN msgs /\ Start(msgs)[Here] = lo
  <2>1. k # 0
    BY MessageAt
  <2>2. Here = CHOOSE i \in DOMAIN msgs : Start(msgs)[i] = lo
    BY <1>3 DEF Here, MsgAt
  <2> QED
    BY <1>3, <2>2
<1>5. Here = k
  BY <1>3, <1>4, OrderOfStarts
<1> QED
  BY <1>2, <1>4, <1>5

\* The source stops inside a dictionary frame only at its end.
LEMMA SplitOnlyByEnd ==
  ASSUME Going, NEW k \in DOMAIN msgs, msgs[k].kind = "dict",
         Start(msgs)[k] < rd, rd < Start(msgs)[k + 1]
  PROVE  rd = cut /\ cut < Total(msgs)
<1>1. InsideDict(rd)
  BY MessageAt DEF InsideDict
<1>2. rd = cut
  BY <1>1 DEF Going, Progress, SourcePart
<1> QED
  BY <1>2, GoingFacts, MessageAt

------------------------------------------------------------------------------
(* What a result changes.                                                  *)

LEMMA Answered ==
  ASSUME items \in Seq(Nat \cup {Err}), NEW x \in Nat \cup {Err}, Yield(x)
  PROVE  /\ Yielded' = Yielded \cup ({x} \ {Err, End})
         /\ HasFailed' <=> HasFailed \/ x = Err
         /\ HasEnded' <=> x = End
<1>1. /\ DOMAIN items' = 1 .. Len(items) + 1 /\ Len(items) \in Nat
      /\ DOMAIN items = 1 .. Len(items) /\ Len(items') = Len(items) + 1
      /\ items'[Len(items) + 1] = x
      /\ \A i \in DOMAIN items : items'[i] = items[i]
  BY DEF Yield
<1>2. {items'[i] : i \in DOMAIN items'} = {items[i] : i \in DOMAIN items} \cup {x}
  BY <1>1
<1>3. Yielded' = Yielded \cup ({x} \ {Err, End})
  BY <1>2 DEF Yielded
<1>4. HasFailed' <=> HasFailed \/ x = Err
  BY <1>1 DEF HasFailed
<1>5. HasEnded' <=> x = End
  BY <1>1 DEF HasEnded
<1> QED
  BY <1>3, <1>4, <1>5

LEMMA Unanswered ==
  ASSUME UNCHANGED items
  PROVE  Yielded' = Yielded /\ (HasFailed' <=> HasFailed) /\ (HasEnded' <=> HasEnded)
BY DEF Yielded, HasFailed, HasEnded

\* An error with a cause is a step of TableDelivery.
LEMMA ErrorMoves ==
  ASSUME Yield(Err), UNCHANGED wire, ~Faultless'
  PROVE  Moves
<1>1. Batches' = Batches /\ (cut = Total(msgs))' = (cut = Total(msgs))
  BY DEF wire, Batches
<1>2. Faultless' = FALSE
  BY DEF Faultless
<1> QED
  BY <1>1, <1>2
  DEF Moves, Delivery!Next, Delivery!Break, Delivery!Err, Err, Yield, Faultless

LEMMA SilenceMoves ==
  ASSUME UNCHANGED <<wire, items, faults>>
  PROVE  Moves
BY DEF Moves, wire, Batches, Faultless, Flawless

------------------------------------------------------------------------------
(* The steps.                                                              *)

LEMMA BehindKept ==
  ASSUME Going, UNCHANGED wire, phase.at # "body", phase'.at # "body",
         lo' \in Nat, lo <= lo', Yielded' = Yielded
  PROVE  Behindhand' /\ BodyPart'
<1>1. msgs' = msgs /\ Batches' = Batches
  BY DEF wire, Batches
<1>2. ASSUME NEW b \in Yielded
      PROVE  b \in Batches /\ Start(msgs)[b] < lo'
  <2>1. b \in Batches /\ Start(msgs)[b] < lo
    BY DEF Going, Progress, Behindhand
  <2>2. Start(msgs)[b] \in Nat
    BY <2>1, MessageAt DEF Batches
  <2> QED
    BY <2>1, <2>2, GoingFacts
<1>3. Behindhand'
  BY <1>1, <1>2 DEF Behindhand
<1> QED
  BY <1>3 DEF BodyPart

LEMMA EndMoves == Going /\ EndOfStream => Progress' /\ Moves
<1> SUFFICES ASSUME Going, EndOfStream PROVE Progress' /\ Moves
  OBVIOUS
<1>1. /\ phase.at = "meta" /\ SeesEnd /\ state' = "done" /\ lo' = Drain(lo, 1) /\ Yield(End)
      /\ UNCHANGED <<wire, rd, eof, phase, faults>>
  BY DEF EndOfStream
<1>2. lo \in Nat /\ rd \in Nat /\ lo < rd /\ rd <= cut /\ cut <= Total(msgs)
      /\ cut \in Nat /\ Total(msgs) \in Nat
  BY <1>1, GoingFacts DEF SeesEnd, Avail
<1>3. Yielded' = Yielded /\ (HasFailed' <=> HasFailed) /\ HasEnded'
  <2>1. End \in Nat /\ End # Err /\ {End} \ {Err, End} = {}
    BY DEF End, Err
  <2> QED
    BY <1>1, <2>1, GoingFacts, Answered
<1>4. lo' \in Nat /\ lo <= lo'
  BY <1>1, <1>2, DrainBounds
<1>5. SourcePart'
  <2>1. SourcePart
    BY DEF Going, Progress
  <2> QED
    BY <1>1, <1>3, <2>1 DEF SourcePart, wire, InsideDict, Faultless, Flawless
<1>6. Progress'
  BY <1>1, <1>3, <1>4, <1>5, BehindKept DEF Progress, Going
<1>7. HasFailed \/ (cut = Total(msgs) /\ Batches \subseteq Yielded)
  <2> SUFFICES ASSUME ~HasFailed PROVE cut = Total(msgs) /\ Batches \subseteq Yielded
    OBVIOUS
  <2>1. Here \in DOMAIN msgs /\ Start(msgs)[Here] = lo /\ Before(Here)
    BY <1>1, <1>2, HereAt
  <2>2. Kind = "eos"
    BY <1>1, <2>1, MessageAt DEF SeesEnd
  <2>3. Here = Len(msgs) /\ Start(msgs)[Here + 1] = lo + 1 /\ Here \in Nat
    BY <2>1, <2>2, MessageAt DEF Kind
  <2>4. cut = Total(msgs)
    BY <1>2, <2>3 DEF Total
  <2>5. ASSUME NEW b \in Batches PROVE b \in Yielded
    <3>1. b \in DOMAIN msgs /\ b # Here /\ b \in Nat /\ b <= Len(msgs)
      BY <2>2, MessageAt DEF Batches, Kind
    <3>2. b < Here
      BY <2>3, <3>1
    <3> QED
      BY <2>1, <3>2 DEF Before
  <2> QED
    BY <2>4, <2>5
<1>8. Delivery!Finish
  <2>1. Delivery!Delivered = Yielded /\ (Delivery!Failed <=> HasFailed)
    BY DEF Delivery!Delivered, Delivery!Failed, Delivery!Err, Delivery!End,
           Yielded, HasFailed, Err, End
  <2>2. /\ Batches' = Batches /\ (cut = Total(msgs))' = (cut = Total(msgs))
        /\ Flawless' = Flawless /\ faults' = faults
    BY <1>1 DEF wire, Batches, Flawless
  <2> QED
    BY <1>1, <1>7, <2>1, <2>2 DEF Delivery!Finish, Yield, Delivery!End, End
<1> QED
  BY <1>6, <1>8 DEF Moves, Delivery!Next

\* An error that is reported while nothing but the buffer moves.
LEMMA ErrorStep ==
  ASSUME Going, Yield(Err), UNCHANGED <<wire, rd, eof, faults, state>>, ~Faultless,
         phase.at # "body", phase' = phase, lo' \in Nat, lo <= lo',
         phase.at = "skip" => lo' = lo
  PROVE  Progress' /\ Moves
<1>1. Yielded' = Yielded /\ HasFailed'
  BY GoingFacts, Answered
<1>2. ~Faultless'
  BY DEF Faultless, Flawless, wire
<1>3. Behindhand' /\ BodyPart'
  BY <1>1, BehindKept
<1>4. SourcePart'
  <2>1. SourcePart /\ state # "done"
    BY GoingFacts DEF Going, Progress
  <2> QED
    BY <1>1, <1>2, <2>1 DEF SourcePart, wire, InsideDict
<1> QED
  BY <1>1, <1>2, <1>3, <1>4, ErrorMoves DEF Going, Progress

LEMMA FrameMessage ==
  ASSUME Going, SeesHeader
  PROVE  /\ Here \in DOMAIN msgs /\ Start(msgs)[Here] = lo
         /\ lo + HeaderLen <= rd /\ lo < rd
         /\ Kind = msgs[Here].kind /\ Kind # "eos"
         /\ Start(msgs)[Here + 1] = lo + Size(msgs[Here])
         /\ Size(msgs[Here]) = HeaderLen + msgs[Here].body + msgs[Here].pad
         /\ msgs[Here].body \in Nat /\ msgs[Here].pad \in Nat
<1>1. Here \in DOMAIN msgs /\ Start(msgs)[Here] = lo
  BY HereStarts DEF SeesHeader
<1>2. lo + HeaderLen <= rd /\ lo < rd
  BY GoingFacts DEF SeesHeader, Avail, HeaderLen
<1> QED
  BY <1>1, <1>2, MessageAt DEF SeesHeader, Kind, Size

LEMMA CorruptMoves == Going /\ CorruptHeader => Progress' /\ Moves
<1> SUFFICES ASSUME Going, CorruptHeader PROVE Progress' /\ Moves
  OBVIOUS
<1>1. ~Faultless
  BY FrameMessage DEF CorruptHeader, Faultless, Flawless
<1> QED
  BY <1>1, GoingFacts, ErrorStep DEF CorruptHeader

LEMMA UnexpectedMoves == Going /\ UnexpectedFrame => Progress' /\ Moves
<1> SUFFICES ASSUME Going, UnexpectedFrame PROVE Progress' /\ Moves
  OBVIOUS
<1>1. SeesHeader /\ Kind = "other" /\ phase.at = "meta"
      /\ lo' = Drain(lo, Size(msgs[Here])) /\ Yield(Err)
      /\ UNCHANGED <<wire, rd, eof, state, phase, faults>>
  BY DEF UnexpectedFrame, SeesFrame
<1>2. ~Faultless
  BY <1>1, FrameMessage DEF Faultless, Flawless
<1>3. Size(msgs[Here]) \in Nat
  BY <1>1, FrameMessage DEF HeaderLen
<1>4. lo' \in Nat /\ lo <= lo'
  BY <1>1, <1>3, GoingFacts, DrainBounds
<1> QED
  BY <1>1, <1>2, <1>4, ErrorStep

\* In a stream without faults the schema is in the buffer whole as soon as its
\* header is, and all that is not comes after it.
LEMMA OutOfOrderMoves == Going /\ OutOfOrder => Progress' /\ Moves
<1> SUFFICES ASSUME Going, OutOfOrder PROVE Progress' /\ Moves
  OBVIOUS
<1>1. SeesHeader /\ ~SeesFrame /\ phase.at = "meta" /\ Yield(Err) /\ state = "schema"
      /\ UNCHANGED <<wire, rd, lo, eof, state, phase, faults>>
  BY GoingFacts DEF OutOfOrder
<1>2. ~Faultless
  <2> SUFFICES ASSUME Faultless PROVE FALSE
    OBVIOUS
  <2>1. ~HasFailed /\ Flawless /\ cut = Total(msgs)
    BY DEF Going, Progress, SourcePart, Faultless
  <2>2. Before(Here) /\ Here \in DOMAIN msgs
    BY <1>1, <2>1, HereAt, FrameMessage
  <2>3. rd < lo + HeaderLen + msgs[Here].body
    BY <1>1, FrameMessage, GoingFacts DEF SeesFrame, Avail, HeaderLen
  <2>4. Kind \in {"schema", "dict", "batch"}
    BY <1>1, <2>1, <2>2, FrameMessage DEF Flawless
  <2>5. CASE Kind = "schema"
    <3>1. msgs[Here].body = 0 /\ lo + HeaderLen <= rd
      BY <1>1, <2>2, <2>5, FrameMessage, MessageAt
    <3> QED
      BY <2>3, <3>1, GoingFacts DEF HeaderLen
  <2>6. CASE Kind = "dict"
    <3>1. rd < Start(msgs)[Here + 1]
      <4>1. PICK b \in Nat, p \in Nat : b = msgs[Here].body /\ p = msgs[Here].pad
        BY <1>1, FrameMessage
      <4>2. Start(msgs)[Here + 1] = lo + (HeaderLen + b + p)
        BY <1>1, <4>1, FrameMessage
      <4>3. rd < lo + HeaderLen + b /\ lo \in Nat /\ rd \in Nat
        BY <2>3, <4>1, GoingFacts
      <4>4. b \in Nat /\ p \in Nat
        OBVIOUS
      <4>5. rd < lo + (HeaderLen + b + p)
        BY ONLY <4>3, <4>4 DEF HeaderLen
      <4> QED
        BY <4>2, <4>5
    <3> QED
      BY <1>1, <2>1, <2>6, <3>1, FrameMessage, GoingFacts, SplitOnlyByEnd
  <2>7. CASE Kind = "batch"
    <3>1. PICK i \in 1 .. Here - 1 : msgs[i].kind = "schema"
      BY <1>1, <2>1, <2>2, <2>7, FrameMessage, GoingFacts DEF WellFormed, Flawless
    <3>2. i \in DOMAIN msgs /\ i < Here
      BY <2>2, <3>1, GoingFacts, MessageAt
    <3> QED
      BY <1>1, <2>2, <3>1, <3>2 DEF Before
  <2> QED
    BY <2>4, <2>5, <2>6, <2>7
<1> QED
  BY <1>1, <1>2, GoingFacts, ErrorStep

LEMMA EarlyMoves == Going /\ EndedEarly => Progress' /\ Moves
<1> SUFFICES ASSUME Going, EndedEarly PROVE Progress' /\ Moves
  OBVIOUS
<1>1. NeedMore /\ eof /\ phase.at = "meta" /\ Yield(Err)
      /\ UNCHANGED <<wire, rd, lo, eof, state, phase, faults>>
  BY GoingFacts DEF EndedEarly
<1>2. ~Faultless
  <2> SUFFICES ASSUME Faultless PROVE FALSE
    OBVIOUS
  <2>1. ~HasFailed /\ cut = Total(msgs) /\ rd = cut /\ Place /\ phase.pad = 0
    BY <1>1, GoingFacts DEF Going, Progress, SourcePart, Faultless
  <2>2. PICK k \in DOMAIN msgs : Start(msgs)[k] = lo + 0
    BY <1>1, <2>1, GoingFacts DEF Place, NextIs, CutShort
  <2>3. Start(msgs)[k + 1] <= rd /\ Start(msgs)[k] = lo
    BY <2>1, <2>2, MessageAt, GoingFacts
  <2>4. lo < rd
    <3>1. Start(msgs)[k + 1] = lo + Size(msgs[k]) /\ Size(msgs[k]) \in Nat \ {0}
      BY <2>3, MessageAt, MessageTypes, GoingFacts
    <3> QED
      BY <2>3, <3>1, GoingFacts
  <2>5. Here \in DOMAIN msgs /\ Start(msgs)[Here] = lo
    BY <1>1, <2>1, <2>4, HereAt
  <2>6. Here = k /\ Here # 0
    BY <2>3, <2>5, OrderOfStarts, MessageAt
  <2>7. CASE Kind = "eos"
    BY <1>1, <2>4, <2>6, <2>7, GoingFacts DEF NeedMore, SeesEnd, Avail
  <2>8. CASE Kind # "eos"
    <3>1. lo + HeaderLen <= rd
      <4>1. PICK b \in Nat, p \in Nat : b = msgs[k].body /\ p = msgs[k].pad
        BY MessageAt
      <4>2. Start(msgs)[k + 1] = lo + HeaderLen + b + p
        BY <2>3, <2>6, <2>8, <4>1, MessageAt DEF Kind
      <4>3. lo + HeaderLen + b + p <= rd /\ lo \in Nat /\ rd \in Nat
        BY <2>3, <4>2, GoingFacts
      <4>4. b \in Nat /\ p \in Nat
        OBVIOUS
      <4> QED
        BY ONLY <4>3, <4>4 DEF HeaderLen
    <3> QED
      BY <1>1, <2>6, <2>8, <3>1, GoingFacts DEF NeedMore, SeesHeader, Avail, HeaderLen
  <2> QED
    BY <2>7, <2>8
<1> QED
  BY <1>1, <1>2, GoingFacts, ErrorStep

LEMMA BeforeKept ==
  ASSUME NEW k, Before(k), UNCHANGED msgs, Yielded \subseteq Yielded',
         state' = "schema" => state = "schema"
  PROVE  Before(k)'
BY DEF Before, Batches

LEMMA BeforeNext ==
  ASSUME Going, NEW k \in DOMAIN msgs, Before(k), UNCHANGED msgs, Yielded \subseteq Yielded',
         msgs[k].kind = "batch" => k \in Yielded',
         state' = "schema" => state = "schema" /\ msgs[k].kind # "schema"
  PROVE  Before(k + 1)'
<1>1. \A i \in DOMAIN msgs : i < k + 1 => i < k \/ i = k
  BY MessageAt
<1> QED
  BY <1>1 DEF Before, Batches

LEMMA InlineMoves == Going /\ InlineFrame => Progress' /\ Moves
<1> SUFFICES ASSUME Going, InlineFrame PROVE Progress' /\ Moves
  OBVIOUS
<1>1. /\ SeesHeader /\ phase.at = "meta" /\ Kind \in {"schema", "dict"}
      /\ lo' = Drain(lo, Size(msgs[Here]))
      /\ state' = IF Kind = "schema" THEN "ready" ELSE state
      /\ UNCHANGED <<wire, rd, eof, phase, items, faults>>
  BY DEF InlineFrame, SeesFrame
<1>2. Yielded' = Yielded /\ (HasFailed' <=> HasFailed)
  BY <1>1, Unanswered
<1>3. /\ Here \in DOMAIN msgs /\ Start(msgs)[Here] = lo /\ Kind = msgs[Here].kind
      /\ lo + HeaderLen <= rd /\ lo < rd
      /\ Start(msgs)[Here + 1] = lo + Size(msgs[Here])
      /\ Here + 1 \in DOMAIN msgs /\ Size(msgs[Here]) \in Nat
      /\ Kind = "schema" => Size(msgs[Here]) = HeaderLen
  <2>1. /\ Size(msgs[Here]) = HeaderLen + msgs[Here].body + msgs[Here].pad
        /\ msgs[Here].body \in Nat /\ msgs[Here].pad \in Nat
        /\ Here \in DOMAIN msgs /\ Start(msgs)[Here] = lo /\ Kind = msgs[Here].kind
        /\ lo + HeaderLen <= rd /\ lo < rd
        /\ Start(msgs)[Here + 1] = lo + Size(msgs[Here])
    BY <1>1, FrameMessage
  <2>2. /\ Here + 1 \in DOMAIN msgs
        /\ Kind = "schema" => msgs[Here].body = 0 /\ msgs[Here].pad = 0
    BY <1>1, <2>1, MessageAt
  <2> QED
    BY <2>1, <2>2 DEF HeaderLen
<1>4. lo' \in Nat /\ lo <= lo'
  BY <1>1, <1>3, GoingFacts, DrainBounds
<1>5. Behindhand' /\ BodyPart'
  BY <1>1, <1>2, <1>4, BehindKept
<1>6. SourcePart'
  <2>1. SourcePart /\ state' # "done"
    BY <1>1, GoingFacts DEF Going, Progress
  <2> QED
    BY <1>1, <1>2, <2>1 DEF SourcePart, wire, InsideDict, Faultless, Flawless
<1>7. ASSUME ~HasFailed PROVE Place'
  <2>1. Before(Here) /\ phase.pad = 0
    BY <1>1, <1>3, <1>7, HereAt DEF Going, Progress
  <2>2. CASE Size(msgs[Here]) <= rd - lo
    <3>1. lo' = lo + Size(msgs[Here])
      BY <1>1, <1>3, <2>2, GoingFacts, DrainBounds
    <3>2. PICK k \in DOMAIN msgs : k = Here + 1
      BY <1>3
    <3>3. Before(k)'
      BY <1>1, <1>2, <1>3, <2>1, <3>2, BeforeNext DEF wire
    <3>4. Start(msgs)[k] = lo' + 0 /\ msgs' = msgs /\ phase' = phase
      BY <1>1, <1>3, <1>4, <3>1, <3>2 DEF wire
    <3> QED
      BY <1>1, <2>1, <3>3, <3>4 DEF Place, NextIs
  <2>3. CASE ~(Size(msgs[Here]) <= rd - lo)
    <3>1. rd < Start(msgs)[Here + 1] /\ lo' = rd
      BY <1>1, <1>3, <2>3, GoingFacts DEF Drain
    <3>2. Kind = "dict"
      BY <1>1, <1>3, <2>3, GoingFacts DEF HeaderLen
    <3>3. rd = cut /\ cut < Total(msgs)
      BY <1>3, <3>1, <3>2, SplitOnlyByEnd
    <3> QED
      BY <1>1, <3>1, <3>3 DEF Place, CutShort, wire
  <2> QED
    BY <2>2, <2>3
<1>8. Progress'
  BY <1>1, <1>2, <1>5, <1>6, <1>7 DEF Going, Progress
<1> QED
  BY <1>1, <1>8, SilenceMoves

\* A failure of the source between bodies.
LEMMA SourceFailsMoves ==
  ASSUME Going, SourceFails, UNCHANGED <<wire, rd, lo, state, phase>>, phase.at # "body"
  PROVE  Progress' /\ Moves
<1>1. Yield(Err) /\ eof' = TRUE /\ faults' = faults + 1 /\ faults \in Nat
  BY GoingFacts DEF SourceFails
<1>2. Yielded' = Yielded /\ HasFailed'
  BY <1>1, GoingFacts, Answered
<1>3. ~Faultless' /\ faults' > 0
  BY <1>1 DEF Faultless
<1>4. Behindhand' /\ BodyPart'
  BY <1>2, GoingFacts, BehindKept
<1>5. SourcePart'
  <2>1. SourcePart /\ state # "done"
    BY GoingFacts DEF Going, Progress
  <2> QED
    BY <1>2, <1>3, <2>1 DEF SourcePart, wire, InsideDict
<1> QED
  BY <1>1, <1>2, <1>3, <1>4, <1>5, ErrorMoves DEF Going, Progress

LEMMA FillMoves == Going /\ FillBuf => Progress' /\ Moves
<1> SUFFICES ASSUME Going, FillBuf PROVE Progress' /\ Moves
  OBVIOUS
<1>1. phase.at = "meta" /\ ~eof /\ UNCHANGED <<wire, lo, state, phase>>
  BY DEF FillBuf
<1>2. CASE SourceFails /\ UNCHANGED rd
  BY <1>1, <1>2, SourceFailsMoves
<1>3. CASE rd = cut /\ eof' = TRUE /\ UNCHANGED <<rd, items, faults>>
  <2>1. Yielded' = Yielded /\ (HasFailed' <=> HasFailed)
    BY <1>3, Unanswered
  <2>2. Behindhand' /\ BodyPart'
    BY <1>1, <2>1, GoingFacts, BehindKept
  <2>3. SourcePart'
    <3>1. SourcePart /\ state # "done"
      BY GoingFacts DEF Going, Progress
    <3> QED
      BY <1>1, <1>3, <2>1, <3>1 DEF SourcePart, wire, InsideDict, Faultless, Flawless
  <2>4. Place => Place'
    BY <1>1, <1>3, <2>1 DEF Place, NextIs, CutShort, Before, Batches, wire
  <2> QED
    BY <1>1, <1>3, <2>1, <2>2, <2>3, <2>4, SilenceMoves DEF Going, Progress
<1>4. CASE (\E n \in Chunks(cut) : rd' = rd + n) /\ UNCHANGED <<eof, items, faults>>
  <2>1. Yielded' = Yielded /\ (HasFailed' <=> HasFailed)
    BY <1>4, Unanswered
  <2>2. Behindhand' /\ BodyPart'
    BY <1>1, <2>1, GoingFacts, BehindKept
  <2>3. rd < cut /\ (rd' = cut \/ ~InsideDict(rd'))
    BY <1>4, GoingFacts DEF Chunks, Going
  <2>4. SourcePart'
    <3>1. SourcePart /\ state # "done"
      BY GoingFacts DEF Going, Progress
    <3> QED
      BY <1>1, <1>4, <2>1, <2>3, <3>1 DEF SourcePart, wire, InsideDict, Faultless, Flawless
  <2>5. Place => Place'
    BY <1>1, <1>4, <2>1, <2>3, GoingFacts
    DEF Place, NextIs, CutShort, Before, Batches, wire
  <2> QED
    BY <1>1, <1>4, <2>1, <2>2, <2>4, <2>5, SilenceMoves DEF Going, Progress
<1> QED
  BY <1>2, <1>3, <1>4 DEF FillBuf

LEMMA SkipDoneMoves == Going /\ SkipDone => Progress' /\ Moves
<1> SUFFICES ASSUME Going, SkipDone PROVE Progress' /\ Moves
  OBVIOUS
<1>1. /\ phase.at = "skip"
      /\ phase.pad = 0 \/ eof
      /\ phase'.at = "meta" /\ phase'.pad = 0
      /\ UNCHANGED <<wire, rd, lo, eof, state, items, faults>>
  BY DEF SkipDone, Metadata
<1>2. Yielded' = Yielded /\ (HasFailed' <=> HasFailed)
  BY <1>1, Unanswered
<1>3. Behindhand' /\ BodyPart'
  BY <1>1, <1>2, GoingFacts, BehindKept
<1>4. SourcePart'
  <2>1. SourcePart
    BY DEF Going, Progress
  <2> QED
    BY <1>1, <1>2, <2>1 DEF SourcePart, wire, InsideDict, Faultless, Flawless, HasEnded
<1>5. ASSUME ~HasFailed PROVE Place'
  <2>1. PICK k \in DOMAIN msgs : Start(msgs)[k] = lo + phase.pad /\ Before(k)
    BY <1>1, <1>5, GoingFacts DEF Going, Progress, Place, NextIs
  <2>2. Before(k)'
    BY <1>1, <1>2, <2>1, BeforeKept DEF wire
  <2>3. CASE phase.pad = 0
    BY <1>1, <2>1, <2>2, <2>3 DEF Place, NextIs, wire
  <2>4. CASE phase.pad # 0
    <3>1. phase.pad \in Nat /\ phase.pad > 0
      BY <2>4, GoingFacts DEF Phases
    <3>2. lo = rd /\ rd = cut
      BY <1>1, <1>5, <3>1, GoingFacts DEF Going, Progress, SourcePart
    <3>3. Start(msgs)[k] < Start(msgs)[k + 1] /\ Start(msgs)[k + 1] <= Total(msgs)
          /\ Start(msgs)[k] \in Nat /\ Start(msgs)[k + 1] \in Nat
      <4>1. Size(msgs[k]) \in Nat \ {0}
        BY GoingFacts, MessageTypes
      <4>2. Start(msgs)[k] \in Nat /\ Start(msgs)[k + 1] = Start(msgs)[k] + Size(msgs[k])
            /\ Start(msgs)[k + 1] <= Total(msgs)
        BY MessageAt
      <4> QED
        BY <4>1, <4>2
    <3>4. cut < Total(msgs)
      BY <2>1, <3>1, <3>2, <3>3, GoingFacts
    <3> QED
      BY <1>1, <3>2, <3>4 DEF Place, CutShort, wire
  <2> QED
    BY <2>3, <2>4
<1> QED
  BY <1>1, <1>2, <1>3, <1>4, <1>5, SilenceMoves DEF Progress

LEMMA SkipPadMoves == Going /\ SkipPad => Progress' /\ Moves
<1> SUFFICES ASSUME Going, SkipPad PROVE Progress' /\ Moves
  OBVIOUS
<1>1. phase.at = "skip" /\ phase.pad > 0 /\ ~eof /\ phase.pad \in Nat /\ lo = rd
      /\ UNCHANGED <<wire, state>>
  BY GoingFacts DEF SkipPad, Phases, Going, Progress
<1>2. CASE SourceFails /\ UNCHANGED <<rd, lo, phase>>
  BY <1>1, <1>2, SourceFailsMoves
<1>3. CASE rd = cut /\ eof' = TRUE /\ UNCHANGED <<rd, lo, phase, items, faults>>
  <2>1. Yielded' = Yielded /\ (HasFailed' <=> HasFailed)
    BY <1>3, Unanswered
  <2>2. Behindhand' /\ BodyPart'
    BY <1>1, <1>3, <2>1, GoingFacts, BehindKept
  <2>3. SourcePart'
    <3>1. SourcePart /\ state # "done"
      BY GoingFacts DEF Going, Progress
    <3> QED
      BY <1>1, <1>3, <2>1, <3>1 DEF SourcePart, wire, InsideDict, Faultless, Flawless
  <2>4. Place => Place'
    BY <1>1, <1>3, <2>1 DEF Place, NextIs, CutShort, Before, Batches, wire
  <2> QED
    BY <1>1, <1>3, <2>1, <2>2, <2>3, <2>4, SilenceMoves DEF Going, Progress
<1>4. CASE (\E n \in Chunks(phase.pad) :
              /\ rd' = rd + n /\ lo' = rd + n
              /\ phase' = [phase EXCEPT !.pad = @ - n])
           /\ UNCHANGED <<eof, items, faults>>
  <2>1. PICK n \in Chunks(phase.pad) :
          /\ rd' = rd + n /\ lo' = rd + n
          /\ phase' = [phase EXCEPT !.pad = @ - n]
    BY <1>4
  <2>2. /\ n \in Nat /\ n <= phase.pad /\ rd + n <= cut /\ 1 <= n
        /\ rd' = cut \/ ~InsideDict(rd')
    BY <1>1, <2>1, GoingFacts DEF Chunks, Going
  <2>3. phase'.at = "skip" /\ phase'.pad = phase.pad - n
    BY <1>1, <2>1, GoingFacts DEF Phases
  <2>4. Yielded' = Yielded /\ (HasFailed' <=> HasFailed)
    BY <1>4, Unanswered
  <2>5. Behindhand' /\ BodyPart'
    BY <1>1, <2>1, <2>2, <2>3, <2>4, GoingFacts, BehindKept
  <2>6. SourcePart'
    <3>1. SourcePart /\ state # "done"
      BY GoingFacts DEF Going, Progress
    <3> QED
      BY <1>1, <1>4, <2>2, <2>4, <3>1 DEF SourcePart, wire, InsideDict, Faultless, Flawless
  <2>7. ASSUME Place PROVE Place'
    <3>1. PICK k \in DOMAIN msgs : Start(msgs)[k] = lo + phase.pad /\ Before(k)
      BY <1>1, <2>7 DEF Place, NextIs
    <3>2. Before(k)'
      BY <1>1, <2>4, <3>1, BeforeKept DEF wire
    <3>3. Start(msgs)[k] = lo' + phase'.pad
      BY <1>1, <2>1, <2>2, <2>3, <3>1, GoingFacts
    <3> QED
      BY <1>1, <2>3, <3>2, <3>3 DEF Place, NextIs, wire
  <2> QED
    BY <1>1, <1>4, <2>1, <2>3, <2>4, <2>5, <2>6, <2>7, SilenceMoves DEF Going, Progress
<1> QED
  BY <1>1, <1>2, <1>3, <1>4 DEF SkipPad

LEMMA Begun ==
  ASSUME Going, NEW from \in Nat, lo <= from, from <= rd, NEW len \in Nat, NEW pad \in Nat,
         BeginBodyRead(from, len, pad)
  PROVE  \E over, passed \in Nat :
           /\ over <= len /\ over <= rd - from /\ (over < len => over = rd - from)
           /\ passed <= pad /\ passed <= rd - (from + over)
           /\ passed < pad => passed = rd - (from + over)
           /\ lo' = from + over + passed
           /\ phase'.at = "body" /\ phase'.msg = Here /\ phase'.filled = over
           /\ phase'.len = len /\ phase'.pad = pad - passed
           /\ len - over <= Remaining(arena')
<1> DEFINE recycled == RecycleIfFree(arena, windows)
           over == IF rd - from < len THEN rd - from ELSE len
           rest == Drain(from, over)
           passed == IF rd - rest < pad THEN rd - rest ELSE pad
<1>1. PICK room : room = EnsureCapacity(recycled, windows, len)
  OBVIOUS
<1>2. lo \in Nat /\ rd \in Nat
  BY GoingFacts
<1>3. /\ over \in Nat /\ over <= len /\ over <= rd - from
      /\ over < len => over = rd - from
  BY <1>2
<1>4. rest = from + over
  <2> HIDE DEF over
  <2> QED
    BY <1>2, <1>3, DrainBounds
<1>5. /\ passed \in Nat /\ passed <= pad /\ passed <= rd - rest /\ rest <= rd /\ rest \in Nat
      /\ passed < pad => passed = rd - rest
  <2>1. rest <= rd /\ rest \in Nat
    <3> HIDE DEF over, rest
    <3> QED
      BY <1>2, <1>3, <1>4
  <2> HIDE DEF rest
  <2> QED
    BY <1>2, <2>1
<1>6. Drain(rest, passed) = rest + passed
  <2> HIDE DEF over, rest, passed
  <2> QED
    BY <1>2, <1>5, DrainBounds
<1>7. /\ arena' = Commit(room, over) /\ lo' = rest + passed
      /\ phase' = [at |-> "body", msg |-> Here, from |-> from, start |-> room.pos,
                   filled |-> over, len |-> len, pad |-> pad - passed]
  BY <1>1, <1>6 DEF BeginBodyRead
<1> HIDE DEF over, rest, passed, recycled
<1>8. Sound(room) /\ Remaining(room) >= len
  <2>1. Sound(recycled)
    BY RecycleBehind DEF Going, DInv, ArenaPart, recycled
  <2> QED
    BY <1>1, <2>1, EnsureGivesRoom
<1>9. len - over <= Remaining(arena')
  <2>1. room.pos \in Nat /\ room.cap \in Nat
    BY <1>8 DEF Sound, Arenas
  <2>2. Remaining(arena') = room.cap - (room.pos + over)
    BY <1>7 DEF Commit, Remaining
  <2> QED
    BY <1>3, <1>8, <2>1, <2>2 DEF Remaining
<1> QED
  BY <1>3, <1>4, <1>5, <1>7, <1>9

LEMMA BeginMoves == Going /\ (BatchFrame \/ PendingBody) => Progress' /\ Moves
<1> SUFFICES ASSUME Going, BatchFrame \/ PendingBody PROVE Progress' /\ Moves
  OBVIOUS
<1> DEFINE m == msgs[Here]
<1>1. /\ SeesHeader /\ phase.at = "meta"
      /\ UNCHANGED <<wire, rd, eof, state, items, faults>>
  BY DEF BatchFrame, PendingBody, SeesFrame
<1>2. /\ Here \in DOMAIN msgs /\ Start(msgs)[Here] = lo /\ Kind = m.kind /\ Kind # "eos"
      /\ m.body \in Nat /\ m.pad \in Nat /\ lo + HeaderLen <= rd
      /\ Start(msgs)[Here + 1] = lo + (HeaderLen + m.body + m.pad)
      /\ Here \in Nat /\ m.kind \in Kinds
      /\ m.kind = "batch" /\ m.body = 0 => m.pad = 0
      /\ m.kind = "schema" => m.body = 0
      /\ lo \in Nat /\ rd \in Nat /\ HeaderLen = 2
  <2>1. /\ Here \in DOMAIN msgs /\ Start(msgs)[Here] = lo /\ Kind = m.kind /\ Kind # "eos"
        /\ m.body \in Nat /\ m.pad \in Nat /\ lo + HeaderLen <= rd
        /\ Start(msgs)[Here + 1] = lo + Size(m) /\ Size(m) = HeaderLen + m.body + m.pad
    BY <1>1, FrameMessage
  <2>2. /\ Here \in Nat /\ m.kind \in Kinds
        /\ m.kind = "batch" /\ m.body = 0 => m.pad = 0
        /\ m.kind = "schema" => m.body = 0
    BY <2>1, MessageAt
  <2> QED
    BY <2>1, <2>2, GoingFacts DEF HeaderLen
<1>3. \/ SeesFrame /\ m.kind \in {"batch", "badbatch"}
      \/ ~SeesFrame /\ m.kind \in {"batch", "badbatch", "dict", "other"}
           /\ rd < lo + HeaderLen + m.body
  <2>1. CASE BatchFrame
    BY <1>2, <2>1 DEF BatchFrame
  <2>2. CASE PendingBody
    <3>1. ~SeesFrame /\ Kind # "corrupt"
      BY <2>2 DEF PendingBody
    <3>2. rd < lo + HeaderLen + m.body
      BY <1>1, <1>2, <3>1 DEF SeesFrame, Avail
    <3>3. m.kind # "schema"
      BY <1>2, <3>2
    <3> QED
      BY <1>2, <3>1, <3>2, <3>3 DEF Kinds
  <2> QED
    BY <2>1, <2>2
<1> HIDE DEF m
<1>4. \/ m.body = 0 /\ BeginBodyRead(lo, 0, HeaderLen)
      \/ BeginBodyRead(lo + HeaderLen, m.body, m.pad)
  <2>1. Drain(lo, HeaderLen) = lo + HeaderLen
    BY <1>2, DrainBounds
  <2> QED
    BY <2>1 DEF BatchFrame, PendingBody, m
\* The first body unit is at `lo + HeaderLen`, or there is none.
<1>5. /\ phase'.at = "body" /\ phase'.msg = Here /\ phase'.len = m.body
      /\ lo' \in Nat /\ lo < lo' /\ phase'.len - phase'.filled <= Remaining(arena')
      /\ ~SeesFrame => phase'.filled < m.body
      /\ m.kind = "batch" =>
           Start(msgs)[Here + 1] = lo' + phase'.pad + (phase'.len - phase'.filled)
  <2>1. CASE m.body = 0 /\ BeginBodyRead(lo, 0, HeaderLen)
    <3>1. PICK over, passed \in Nat :
            /\ over <= 0
            /\ passed <= HeaderLen /\ passed <= rd - (lo + over)
            /\ passed < HeaderLen => passed = rd - (lo + over)
            /\ lo' = lo + over + passed
            /\ phase'.at = "body" /\ phase'.msg = Here /\ phase'.filled = over
            /\ phase'.len = 0 /\ phase'.pad = HeaderLen - passed
            /\ 0 - over <= Remaining(arena')
      <4>1. lo \in Nat /\ lo <= lo /\ lo <= rd /\ 0 \in Nat /\ HeaderLen \in Nat
        BY <1>2, GoingFacts
      <4> QED
        BY <2>1, <4>1, Begun
    <3>2. over = 0 /\ passed = HeaderLen
      BY <1>2, <3>1
    <3>3. SeesFrame
      BY <1>2, <1>3, <2>1
    <3> QED
      BY <1>2, <2>1, <3>1, <3>2, <3>3
  <2>2. CASE BeginBodyRead(lo + HeaderLen, m.body, m.pad)
    <3>1. PICK over, passed \in Nat :
            /\ over <= m.body /\ over <= rd - (lo + HeaderLen)
            /\ passed <= m.pad
            /\ lo' = lo + HeaderLen + over + passed
            /\ phase'.at = "body" /\ phase'.msg = Here /\ phase'.filled = over
            /\ phase'.len = m.body /\ phase'.pad = m.pad - passed
            /\ m.body - over <= Remaining(arena')
      <4>1. lo + HeaderLen \in Nat /\ lo <= lo + HeaderLen /\ lo + HeaderLen <= rd
        BY <1>2
      <4> QED
        BY <1>2, <2>2, <4>1, Begun
    <3>2. lo' \in Nat /\ lo < lo'
      BY <1>2, <3>1
    <3>3. ~SeesFrame => over < m.body
      BY <1>2, <1>3, <3>1
    <3>4. Start(msgs)[Here + 1] = lo' + phase'.pad + (phase'.len - phase'.filled)
      BY <1>2, <3>1
    <3> QED
      BY <3>1, <3>2, <3>3, <3>4
  <2> QED
    BY <1>4, <2>1, <2>2
<1>6. Yielded' = Yielded /\ (HasFailed' <=> HasFailed) /\ msgs' = msgs /\ cut' = cut
  BY <1>1, Unanswered DEF wire
<1>7. Behindhand'
  <2>1. ASSUME NEW b \in Yielded PROVE b \in Batches /\ b < Here
    <3>1. b \in Batches /\ Start(msgs)[b] < lo
      BY <1>1 DEF Going, Progress, Behindhand
    <3> QED
      BY <1>2, <3>1, OrderOfStarts DEF Batches
  <2> QED
    BY <1>5, <1>6, <2>1 DEF Behindhand, Batches
<1>8. BodyPart'
  <2>1. m.kind = "dict" => rd = cut
    <3> SUFFICES ASSUME m.kind = "dict" PROVE rd = cut
      OBVIOUS
    <3>1. rd < Start(msgs)[Here + 1] /\ Start(msgs)[Here] < rd
      BY <1>2, <1>3
    <3> QED
      BY <1>2, <3>1, SplitOnlyByEnd DEF m
  <2> QED
    BY <1>1, <1>2, <1>3, <1>5, <1>6, <2>1 DEF BodyPart, m
<1>9. SourcePart'
  <2>1. SourcePart /\ state # "done"
    BY GoingFacts DEF Going, Progress
  <2> QED
    BY <1>1, <1>6, <2>1 DEF SourcePart, wire, InsideDict, Faultless, Flawless
<1>10. ASSUME ~HasFailed PROVE Place'
  <2>1. Before(Here)
    BY <1>1, <1>2, <1>10, HereAt
  <2>2. PICK k : k = Here
    OBVIOUS
  <2>3. Before(k)'
    BY <1>1, <1>6, <2>1, <2>2, BeforeKept
  <2> QED
    BY <1>2, <1>5, <1>6, <2>2, <2>3 DEF Place, m
<1> QED
  BY <1>1, <1>5, <1>6, <1>7, <1>8, <1>9, <1>10, SilenceMoves DEF Progress

LEMMA ReadMoves == Going /\ BodyRead => Progress' /\ Moves
<1> SUFFICES ASSUME Going, BodyRead PROVE Progress' /\ Moves
  OBVIOUS
<1>1. PICK n \in Chunks(phase.len - phase.filled) :
        /\ rd' = rd + n /\ lo' = rd + n
        /\ arena' = Commit(arena, n)
        /\ phase' = [phase EXCEPT !.filled = @ + n]
  BY DEF BodyRead
<1>2. /\ phase.at = "body" /\ phase.filled < phase.len
      /\ phase.filled \in Nat /\ phase.len \in Nat /\ phase.pad \in Nat
      /\ phase.msg \in DOMAIN msgs /\ lo = rd
      /\ UNCHANGED <<wire, eof, state, items, faults>>
  BY GoingFacts DEF BodyRead, InBody, Phases, Going, DInv, PhasePart, BodyInPlace
<1>3. /\ n \in Nat /\ 1 <= n /\ rd + n <= cut
      /\ rd' = cut \/ ~InsideDict(rd')
  BY <1>1, <1>2 DEF Chunks, Going
<1>4. /\ phase'.at = "body" /\ phase'.msg = phase.msg /\ phase'.len = phase.len
      /\ phase'.pad = phase.pad /\ phase'.filled = phase.filled + n
  BY <1>1, <1>2, GoingFacts DEF Phases
<1>5. Yielded' = Yielded /\ (HasFailed' <=> HasFailed) /\ msgs' = msgs
  BY <1>2, Unanswered DEF wire
<1>6. Behindhand'
  BY <1>2, <1>4, <1>5 DEF Going, Progress, Behindhand, Batches
<1>7. BodyPart'
  <2>1. /\ Start(msgs)[phase.msg] < lo /\ phase.len - phase.filled <= Remaining(arena)
        /\ msgs[phase.msg].kind \in {"batch", "badbatch", "dict", "other"}
        /\ msgs[phase.msg].kind = "dict" => rd = cut
    BY <1>2 DEF Going, Progress, BodyPart
  <2>2. Start(msgs)[phase.msg] < lo'
    BY <1>1, <1>2, <1>3, <2>1, MessageAt, GoingFacts
  <2>3. phase'.len - phase'.filled <= Remaining(arena')
    <3>1. arena.pos \in Nat /\ arena.cap \in Nat
      BY DEF Going, DInv, ArenaPart, Sound, Arenas
    <3>2. Remaining(arena') = arena.cap - (arena.pos + n) /\ Remaining(arena) = arena.cap - arena.pos
      BY <1>1 DEF Commit, Remaining
    <3> QED
      BY <1>2, <1>3, <1>4, <2>1, <3>1, <3>2
  <2>4. msgs[phase.msg].kind # "dict"
    BY <1>3, <2>1, GoingFacts
  <2> QED
    BY <1>4, <1>5, <2>1, <2>2, <2>3, <2>4 DEF BodyPart
<1>8. SourcePart'
  <2>1. SourcePart /\ state # "done" /\ rd < cut
    BY <1>3, GoingFacts DEF Going, Progress
  <2>2. eof' => faults' > 0
    BY <1>2, <2>1, GoingFacts DEF SourcePart
  <2> QED
    BY <1>2, <1>3, <1>5, <2>1, <2>2 DEF SourcePart, wire, InsideDict, Faultless, Flawless
<1>9. ASSUME ~HasFailed PROVE Place'
  <2>1. /\ Before(phase.msg)
        /\ msgs[phase.msg].kind = "batch" =>
             Start(msgs)[phase.msg + 1] = lo + phase.pad + (phase.len - phase.filled)
    BY <1>2, <1>9, GoingFacts DEF Going, Progress, Place
  <2>2. PICK k : k = phase.msg
    OBVIOUS
  <2>3. Before(k)'
    BY <1>2, <1>5, <2>1, <2>2, BeforeKept
  <2>4. lo + phase.pad + (phase.len - phase.filled)
          = lo' + phase'.pad + (phase'.len - phase'.filled)
    <3>1. lo = rd /\ lo' = rd + n /\ phase'.len = phase.len /\ phase'.pad = phase.pad
          /\ phase'.filled = phase.filled + n
      BY <1>1, <1>2, <1>4
    <3>2. /\ rd \in Nat /\ n \in Nat /\ phase.pad \in Nat /\ phase.len \in Nat
          /\ phase.filled \in Nat
      BY <1>2, <1>3, GoingFacts
    <3> QED
      BY ONLY <3>1, <3>2
  <2> QED
    BY <1>4, <1>5, <2>1, <2>2, <2>3, <2>4 DEF Place
<1> QED
  BY <1>2, <1>4, <1>5, <1>6, <1>7, <1>8, <1>9, SilenceMoves DEF Progress

\* After a body all that was yielded, the body's own message included, starts
\* before the buffer.
LEMMA BodyBehind ==
  ASSUME Going, phase.at = "body", UNCHANGED <<wire, lo>>, phase'.at # "body",
         Yielded' \subseteq Yielded \cup (Batches \cap {phase.msg})
  PROVE  Behindhand' /\ BodyPart'
<1>1. msgs' = msgs /\ Batches' = Batches
  BY DEF wire, Batches
<1>2. phase.msg \in DOMAIN msgs /\ Start(msgs)[phase.msg] < lo
  BY DEF Going, DInv, PhasePart, Progress, BodyPart
<1>3. ASSUME NEW b \in Yielded PROVE b \in Batches /\ Start(msgs)[b] < lo
  <2>1. b \in Batches /\ b < phase.msg
    BY DEF Going, Progress, Behindhand
  <2>2. Start(msgs)[b] < Start(msgs)[phase.msg]
    BY <1>2, <2>1, OrderOfStarts DEF Batches
  <2>3. /\ Start(msgs)[b] \in Nat /\ Start(msgs)[phase.msg] \in Nat /\ lo \in Nat
    BY <1>2, <2>1, MessageAt, GoingFacts DEF Batches
  <2> QED
    BY <1>2, <2>1, <2>2, <2>3
<1> QED
  BY <1>1, <1>2, <1>3 DEF Behindhand, BodyPart

\* An error that gives up or refuses the body in hand.
LEMMA BodyErrorMoves ==
  ASSUME Going, phase.at = "body", phase' = Metadata, Yield(Err),
         UNCHANGED <<wire, lo, rd, state>>, ~Faultless',
         eof' => rd = cut \/ faults' > 0
  PROVE  Progress' /\ Moves
<1>1. Yielded' = Yielded /\ HasFailed'
  BY GoingFacts, Answered
<1>2. phase'.at = "meta" /\ phase'.pad = 0
  BY DEF Metadata
<1>3. Behindhand' /\ BodyPart'
  BY <1>1, <1>2, BodyBehind
<1>4. SourcePart'
  <2>1. SourcePart /\ state # "done"
    BY GoingFacts DEF Going, Progress
  <2> QED
    BY <1>1, <2>1 DEF SourcePart, wire, InsideDict
<1> QED
  BY <1>1, <1>2, <1>3, <1>4, ErrorMoves DEF Progress

LEMMA FailsMoves == Going /\ BodyFails => Progress' /\ Moves
<1> SUFFICES ASSUME Going, BodyFails PROVE Progress' /\ Moves
  OBVIOUS
<1>1. /\ phase.at = "body" /\ phase.filled < phase.len /\ phase' = Metadata
      /\ Yield(Err) /\ UNCHANGED <<wire, rd, lo, state>>
      /\ phase.filled \in Nat /\ phase.len \in Nat /\ faults \in Nat
  BY GoingFacts DEF BodyFails, InBody, SourceFails, Phases
<1>2. CASE SourceFails
  <2>1. faults' = faults + 1
    BY <1>2 DEF SourceFails
  <2>2. ~Faultless' /\ faults' > 0
    BY <1>1, <2>1 DEF Faultless
  <2> QED
    BY <1>1, <2>2, BodyErrorMoves
<1>3. CASE (rd = cut \/ Remaining(arena) = 0) /\ UNCHANGED faults
  <2>1. rd = cut
    <3>1. phase.len - phase.filled <= Remaining(arena)
      BY <1>1 DEF Going, Progress, BodyPart
    <3> QED
      BY <1>1, <1>3, <3>1
  <2>2. cut < Total(msgs)
    <3>1. /\ phase.msg \in DOMAIN msgs /\ phase.len = msgs[phase.msg].body
          /\ phase.len > 0 => phase.from = Start(msgs)[phase.msg] + HeaderLen
          /\ rd = phase.from + phase.filled
      BY <1>1 DEF Going, DInv, PhasePart, BodyInPlace
    <3>2. msgs[phase.msg].kind # "eos"
      BY <1>1 DEF Going, Progress, BodyPart
    <3>3. /\ Start(msgs)[phase.msg + 1] <= Total(msgs)
          /\ Start(msgs)[phase.msg + 1]
               = Start(msgs)[phase.msg] + HeaderLen + phase.len + msgs[phase.msg].pad
          /\ Start(msgs)[phase.msg] \in Nat /\ msgs[phase.msg].pad \in Nat
      BY <3>1, <3>2, MessageAt
    <3>4. rd = Start(msgs)[phase.msg] + HeaderLen + phase.filled
      BY <1>1, <3>1
    <3>5. PICK s, p \in Nat : s = Start(msgs)[phase.msg] /\ p = msgs[phase.msg].pad
      BY <3>3
    <3>6. rd = s + HeaderLen + phase.filled /\ s + HeaderLen + phase.len + p <= Total(msgs)
      BY <3>3, <3>4, <3>5
    <3>7. s \in Nat /\ p \in Nat /\ Total(msgs) \in Nat
      BY GoingFacts
    <3>8. rd < Total(msgs)
      BY ONLY <1>1, <3>6, <3>7 DEF HeaderLen
    <3> QED
      BY <2>1, <3>8
  <2>3. ~Faultless'
    BY <1>1, <2>1, <2>2, GoingFacts DEF Faultless, wire
  <2> QED
    BY <1>1, <1>3, <2>1, <2>3, BodyErrorMoves
<1> QED
  BY <1>2, <1>3 DEF BodyFails

LEMMA RefusedMoves == Going /\ BodyRefused => Progress' /\ Moves
<1> SUFFICES ASSUME Going, BodyRefused PROVE Progress' /\ Moves
  OBVIOUS
<1>1. /\ phase.at = "body" /\ phase.filled = phase.len /\ ~Decodes /\ phase' = Metadata
      /\ Yield(Err) /\ UNCHANGED <<wire, rd, lo, eof, state, faults>>
      /\ phase.len \in Nat /\ phase.msg \in DOMAIN msgs
  BY GoingFacts DEF BodyRefused, BodyFull, Phases, Going, DInv, PhasePart
<1>2. ~Faultless
  <2> SUFFICES ASSUME Faultless PROVE FALSE
    OBVIOUS
  <2>1. ~HasFailed /\ Flawless
    BY DEF Going, Progress, SourcePart, Faultless
  <2>2. msgs[phase.msg].kind = "batch"
    <3>1. /\ msgs[phase.msg].kind \in {"batch", "badbatch", "dict", "other"}
          /\ msgs[phase.msg].kind = "dict" => phase.filled < phase.len
      BY <1>1 DEF Going, Progress, BodyPart
    <3> QED
      BY <1>1, <2>1, <3>1 DEF Flawless
  <2>3. state = "schema" /\ Before(phase.msg)
    BY <1>1, <2>1, <2>2, GoingFacts DEF Decodes, Going, Progress, Place
  <2>4. PICK i \in 1 .. phase.msg - 1 : msgs[i].kind = "schema"
    BY <1>1, <2>1, <2>2, GoingFacts DEF WellFormed, Flawless
  <2>5. i \in DOMAIN msgs /\ i < phase.msg
    BY <1>1, <2>4, GoingFacts, MessageAt
  <2> QED
    BY <2>3, <2>4, <2>5 DEF Before
<1>3. ~Faultless'
  BY <1>1, <1>2 DEF Faultless, Flawless, wire
<1>4. eof' => rd = cut \/ faults' > 0
  BY <1>1 DEF Going, Progress, SourcePart
<1> QED
  BY <1>1, <1>3, <1>4, GoingFacts, BodyErrorMoves

LEMMA DecodedMoves == Going /\ BodyDecoded => Progress' /\ Moves
<1> SUFFICES ASSUME Going, BodyDecoded PROVE Progress' /\ Moves
  OBVIOUS
<1>1. /\ phase.at = "body" /\ phase.filled = phase.len
      /\ msgs[phase.msg].kind = "batch" /\ state # "schema"
      /\ phase' = IF phase.pad > 0 THEN [Metadata EXCEPT !.at = "skip", !.pad = phase.pad]
                  ELSE Metadata
      /\ Yield(phase.msg) /\ UNCHANGED <<wire, rd, lo, eof, state, faults>>
      /\ phase.len \in Nat /\ phase.pad \in Nat /\ phase.msg \in DOMAIN msgs
      /\ phase.pad > 0 => lo = rd
  BY GoingFacts
  DEF BodyDecoded, BodyFull, Decodes, Phases, Going, DInv, PhasePart, BodyInPlace
<1>2. /\ phase.msg \in Nat /\ 1 <= phase.msg /\ phase.msg \in Batches
      /\ phase.msg + 1 \in DOMAIN msgs
  BY <1>1, MessageAt DEF Batches
<1>3. /\ phase'.pad = phase.pad
      /\ phase'.at = IF phase.pad > 0 THEN "skip" ELSE "meta"
  BY <1>1 DEF Metadata
<1>4. /\ Yielded' = Yielded \cup {phase.msg} /\ (HasFailed' <=> HasFailed)
  <2>1. phase.msg # Err /\ phase.msg # End
    BY <1>2 DEF Err, End
  <2> QED
    BY <1>1, <1>2, <2>1, GoingFacts, Answered
<1>5. Behindhand' /\ BodyPart'
  BY <1>1, <1>2, <1>3, <1>4, BodyBehind
<1>6. SourcePart'
  <2>1. SourcePart /\ state # "done"
    BY GoingFacts DEF Going, Progress
  <2> QED
    BY <1>1, <1>4, <2>1 DEF SourcePart, wire, InsideDict, Faultless, Flawless
<1>7. ~HasFailed =>
        /\ Before(phase.msg)
        /\ Start(msgs)[phase.msg + 1] = lo + phase.pad + (phase.len - phase.filled)
  BY <1>1, GoingFacts DEF Going, Progress, Place
<1>8. ASSUME ~HasFailed PROVE Place'
  <2>1. Start(msgs)[phase.msg + 1] = lo + phase.pad
    BY <1>1, <1>7, <1>8, GoingFacts
  <2>2. PICK k \in DOMAIN msgs : k = phase.msg + 1
    BY <1>2
  <2>3. Before(k)'
    BY <1>1, <1>4, <1>7, <1>8, <2>2, BeforeNext DEF wire
  <2> QED
    BY <1>1, <1>3, <2>1, <2>2, <2>3 DEF Place, NextIs, wire
<1>9. Progress'
  BY <1>1, <1>3, <1>4, <1>5, <1>6, <1>8 DEF Progress
<1>10. Delivery!Deliver
  <2>1. Delivery!Delivered = Yielded /\ (Delivery!Failed <=> HasFailed)
    BY DEF Delivery!Delivered, Delivery!Failed, Delivery!Err, Delivery!End,
           Yielded, HasFailed, Err, End
  <2>2. \A d \in Yielded : d < phase.msg
    BY <1>1 DEF Going, Progress, Behindhand
  <2>3. HasFailed \/ \A e \in Batches : e < phase.msg => e \in Yielded
    BY <1>7 DEF Before
  <2>4. /\ Batches' = Batches /\ (cut = Total(msgs))' = (cut = Total(msgs))
        /\ Flawless' = Flawless /\ faults' = faults
    BY <1>1 DEF wire, Batches, Flawless
  <2> QED
    BY <1>1, <1>2, <2>1, <2>2, <2>3, <2>4 DEF Delivery!Deliver, Yield
<1> QED
  BY <1>9, <1>10 DEF Moves, Delivery!Next

LEMMA ProgressStep ==
  ASSUME DInv, Progress, StreamsWellFormed, ~SplitDict, [Next]_dvars
  PROVE  Progress' /\ Moves
<1>1. CASE Step
  <2>1. Going
    BY <1>1 DEF Going, Step
  <2> QED
    BY <1>1, <2>1, EndMoves, CorruptMoves, InlineMoves, UnexpectedMoves, BeginMoves,
       OutOfOrderMoves, FillMoves, EarlyMoves, ReadMoves, FailsMoves, DecodedMoves,
       RefusedMoves, SkipDoneMoves, SkipPadMoves
    DEF Step
<1>2. CASE UNCHANGED <<wire, rd, lo, eof, state, phase, items, faults, arena>>
  <2>1. Progress'
    BY <1>2
    DEF Progress, Behindhand, BodyPart, SourcePart, Place, NextIs, CutShort, Before, Batches,
        Yielded, HasFailed, HasEnded, Faultless, Flawless, InsideDict, wire
  <2> QED
    BY <1>2, <2>1, SilenceMoves
<1> QED
  BY <1>1, <1>2 DEF Next, DropTable, Stopped, dvars, avars

LEMMA ProgressInit ==
  ASSUME Init, StreamsWellFormed
  PROVE  Progress
<1>1. /\ msgs \in Seq(Messages) /\ WellFormed(msgs) /\ rd = 0 /\ lo = 0 /\ ~eof
      /\ phase.at = "meta" /\ phase.pad = 0 /\ items = <<>> /\ faults = 0 /\ state = "schema"
  BY DecoderAssumption DEF Init, StreamsWellFormed, Metadata
<1>2. 1 \in DOMAIN msgs
  BY <1>1 DEF WellFormed
<1>3. Start(msgs)[1] = 0 /\ \A i \in DOMAIN msgs : Start(msgs)[i] \in Nat
  <2>1. DOMAIN msgs \subseteq 1 .. Len(msgs) + 1
    BY <1>1
  <2>2. Start(msgs) \in [1 .. Len(msgs) + 1 -> Nat] /\ Start(msgs)[1] = 0
    BY <1>1, StartTypes
  <2> QED
    BY <2>1, <2>2
<1>4. ~InsideDict(rd)
  BY <1>1, <1>3 DEF InsideDict
<1>5. Yielded = {} /\ ~HasFailed
  BY <1>1 DEF Yielded, HasFailed
<1>6. Before(1)
  <2>1. \A i \in DOMAIN msgs : ~(i < 1)
    BY <1>1
  <2> QED
    BY <2>1 DEF Before, Batches
<1>7. Place
  BY <1>1, <1>2, <1>3, <1>6 DEF Place, NextIs
<1> QED
  BY <1>1, <1>4, <1>5, <1>7 DEF Progress, Behindhand, BodyPart, SourcePart

\* The end is the last answer, and none of the batches is missing then.
EndedWell ==
  \A i \in DOMAIN items :
    items[i] = End => i = Len(items) /\ (HasFailed \/ Batches \subseteq Yielded)

LEMMA EndedWellStep ==
  ASSUME DInv, Progress, EndedWell, StreamsWellFormed, ~SplitDict, [Next]_dvars
  PROVE  EndedWell'
<1>1. CASE Step
  <2>1. Going /\ Moves
    BY <1>1, ProgressStep DEF Going, Step
  <2>2. /\ items \in Seq(Nat \cup {Err}) /\ msgs \in Seq(Messages) /\ Err # End
        /\ UNCHANGED wire
    BY <1>1, <2>1, GoingFacts
    DEF Err, End, Step, EndOfStream, CorruptHeader, InlineFrame, UnexpectedFrame,
        BatchFrame, PendingBody, OutOfOrder, FillBuf, EndedEarly, BodyRead, BodyFails,
        BodyDecoded, BodyRefused, SkipDone, SkipPad
  <2>3. \A i \in DOMAIN items : items[i] # End
    BY <2>1, <2>2 DEF EndedWell, Going, Polling
  <2>4. CASE UNCHANGED items
    BY <2>3, <2>4 DEF EndedWell
  <2>5. ASSUME NEW x \in Nat \cup {Err}, Yield(x),
               x = End => HasFailed \/ Batches \subseteq Yielded
        PROVE  EndedWell'
    <3>1. /\ DOMAIN items' = 1 .. Len(items) + 1 /\ Len(items') = Len(items) + 1
          /\ DOMAIN items = 1 .. Len(items) /\ Len(items) \in Nat
          /\ \A i \in DOMAIN items : items'[i] = items[i]
          /\ items'[Len(items) + 1] = x
      BY <2>2, <2>5 DEF Yield
    <3>2. Batches' = Batches
      BY <2>2 DEF Batches, wire
    <3>3. x = End => HasFailed' \/ Batches' \subseteq Yielded'
      BY <2>2, <2>5, <3>2, Answered
    <3>4. ASSUME NEW i \in DOMAIN items', items'[i] = End
          PROVE  i = Len(items') /\ (HasFailed' \/ Batches' \subseteq Yielded')
      BY <2>3, <3>1, <3>3, <3>4
    <3> QED
      BY <3>4 DEF EndedWell
  <2>6. CASE Delivery!Deliver
    <3>1. PICK b \in Batches : items' = Append(items, b)
      BY <2>6 DEF Delivery!Deliver
    <3>2. b \in Nat /\ b # End
      BY <2>2, <3>1 DEF Batches, End
    <3> QED
      BY <2>5, <3>1, <3>2 DEF Yield
  <2>7. CASE Delivery!Fail \/ Delivery!Break
    BY <2>2, <2>5, <2>7 DEF Delivery!Fail, Delivery!Break, Delivery!Err, Err, Yield
  <2>8. CASE Delivery!Finish
    <3>1. HasFailed \/ Batches \subseteq Yielded
      BY <2>8 DEF Delivery!Finish, Delivery!Delivered, Delivery!Failed, Delivery!Err,
                  Delivery!End, Yielded, HasFailed, Err, End
    <3>2. Yield(End) /\ End \in Nat
      BY <2>8 DEF Delivery!Finish, Delivery!End, End, Yield
    <3> QED
      BY <2>5, <3>1, <3>2
  <2> QED
    BY <2>1, <2>4, <2>6, <2>7, <2>8 DEF Moves, Delivery!Next
<1>2. CASE UNCHANGED <<wire, items>>
  BY <1>2 DEF EndedWell, Batches, Yielded, HasFailed, wire
<1> QED
  BY <1>1, <1>2 DEF Next, DropTable, Stopped, dvars

------------------------------------------------------------------------------
\* The decoder implements TableDelivery, for every segmentation that does not
\* cut a dictionary frame: batches come out in order, each once, none is missing
\* before the first error, an error has a cause in the stream or its transport,
\* and the end is reported only after the last batch or after an error.
THEOREM DecoderImplements ==
  ASSUME StreamsWellFormed, ~SplitDict PROVE Spec => ImplementsTableDelivery
<1>1. Init => Progress /\ Delivery!Init
  <2>1. Init => Delivery!Init
    BY DEF Init, Delivery!Init
  <2> QED
    BY <2>1, ProgressInit
<1>2. DInv /\ Progress /\ [Next]_dvars => Progress' /\ Moves
  BY ProgressStep
<1> QED
  BY <1>1, <1>2, DInvHolds, PTL
  DEF Spec, ImplementsTableDelivery, Delivery!Spec, Moves, Faultless

\* No mistake of the decoder's own: a stream that is well formed and complete,
\* over a transport that does not fail, yields no error, and its end only after
\* its batches. Only a dictionary frame that is cut breaks this (TableDictionary).
THEOREM SegmentationIndependentHolds ==
  ASSUME StreamsWellFormed, ~SplitDict PROVE Spec => []SegmentationIndependent
<1>1. Init => Progress /\ EndedWell
  <2>1. items = <<>> => EndedWell
    BY DEF EndedWell
  <2> QED
    BY <2>1, ProgressInit DEF Init
<1>2. DInv /\ Progress /\ EndedWell /\ [Next]_dvars => Progress' /\ EndedWell'
  BY ProgressStep, EndedWellStep
<1>3. DInv /\ Progress /\ EndedWell => SegmentationIndependent
  <2> SUFFICES ASSUME DInv, Progress, EndedWell, Flawless, cut = Total(msgs), faults = 0
               PROVE  /\ \A i \in DOMAIN items : items[i] # Err
                      /\ \A i \in DOMAIN items :
                           items[i] = End => \A b \in DOMAIN msgs :
                             msgs[b].kind = "batch" => \E j \in 1 .. i : items[j] = b
    BY DEF SegmentationIndependent
  <2>1. ~HasFailed
    BY DEF Progress, SourcePart, Faultless
  <2>2. ASSUME NEW i \in DOMAIN items, items[i] = End, NEW b \in Batches
        PROVE  \E j \in 1 .. i : items[j] = b
    <3>1. i = Len(items) /\ b \in Yielded
      BY <2>1, <2>2 DEF EndedWell
    <3>2. DOMAIN items = 1 .. Len(items)
      BY DEF DInv, WirePart
    <3> QED
      BY <3>1, <3>2 DEF Yielded
  <2> QED
    BY <2>1, <2>2 DEF HasFailed, Batches
<1> QED
  BY <1>1, <1>2, <1>3, DInvHolds, PTL DEF Spec
==============================================================================
