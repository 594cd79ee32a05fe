----------------------------- MODULE StreamArena -----------------------------
(***************************************************************************)
(* StreamArena: one backing allocation that network data is written into   *)
(* at `pos`, and the SharedBuffer windows handed out over what lies behind *)
(* it.  The bytes themselves are left out: what the properties tell apart  *)
(* is which bytes of the backing were ever initialised (`clean`, a prefix) *)
(* and whether a window still holds what it held when it was created.      *)
(*                                                                         *)
(* The operations are operators on an arena record and the windows, so     *)
(* that the modules of the arena's callers compose them in one step.  The  *)
(* specification below is the most general caller: it calls them in any    *)
(* order that does not trip an assertion, and drops windows at any time    *)
(* (a window is dropped on whatever thread holds its last clone).          *)
(***************************************************************************)
EXTENDS Integers

CONSTANTS
  Slots,      \* identities for windows that are alive together
  Unit,       \* the alignment: 64
  Capacity,   \* of the first backing, LIGHTSTREAM_ARENA_CAPACITY
  MaxNeed,    \* bound: the largest request
  MaxGen      \* bound: how often the arena is given a new backing

ASSUME ArenaAssumption ==
  /\ Unit \in Nat \ {0} /\ Capacity \in Nat
  /\ MaxNeed \in Nat /\ MaxGen \in Nat

VARIABLES
  arena,      \* [gen, cap, pos, clean]: the backing, its size, write_pos
  windows     \* [Slots -> a window, or NoWindow]

avars == <<arena, windows>>

NoWindow == [gen |-> -1, off |-> 0, len |-> 0, intact |-> TRUE]
Live(ws, s) == ws[s] # NoWindow

------------------------------------------------------------------------------
(* The operations.                                                         *)

\* Arc::strong_count(&backing) > 1: a window of backing g is alive.
HeldNever(ws, g) == FALSE
Held(ws, g) == \E s \in Slots : Live(ws, s) /\ ws[s].gen = g

Remaining(a) == a.cap - a.pos

Rewind(a) == [a EXCEPT !.pos = 0]

\* Arc::new(ArenaBacking): a new backing, none of it initialised.
Fresh(a, cap) == [gen |-> a.gen + 1, cap |-> cap, pos |-> 0, clean |-> 0]

RecycleIfFree(a, ws) == IF Held(ws, a.gen) THEN a ELSE Rewind(a)

AlwaysFresh(a, ws) == Fresh(a, a.cap)
RecycleOrReset(a, ws) ==
  IF Held(ws, a.gen) THEN Fresh(a, a.cap) ELSE Rewind(a)

RoundUp(n) == ((n + Unit - 1) \div Unit) * Unit

EnsureCapacity(a, ws, n) ==
  IF Remaining(a) >= n THEN a
  ELSE IF n > a.cap THEN Fresh(a, RoundUp(n))
  ELSE RecycleOrReset(a, ws)

\* The n bytes at the write position are initialised and behind it now.
Commit(a, n) ==
  [gen |-> a.gen, cap |-> a.cap, pos |-> a.pos + n,
   clean |-> IF a.pos + n > a.clean THEN a.pos + n ELSE a.clean]

NoPadding(a) == 0

\* Padding that forgets how much room is left.
PaddingPastEnd(a) ==
  LET r == a.pos % Unit IN IF r = 0 THEN 0 ELSE Unit - r

\* align: zeroes up to the next boundary, or to the end of the backing.
Padding(a) ==
  LET r == a.pos % Unit IN
    IF r = 0 THEN 0
    ELSE IF Unit - r < Remaining(a) THEN Unit - r ELSE Remaining(a)

\* window: the view of [off, off + len), which must have been written.
WindowOf(a, off, len) ==
  [gen |-> a.gen, off |-> off, len |-> len, intact |-> off + len <= a.clean]

\* A write of the n bytes at the write position spoils the windows over them.
Overlaps(w, a, n) ==
  /\ w.gen = a.gen
  /\ w.off < a.pos + n /\ a.pos < w.off + w.len
Written(ws, a, n) ==
  [s \in Slots |->
     IF Live(ws, s) /\ Overlaps(ws[s], a, n)
     THEN [ws[s] EXCEPT !.intact = FALSE] ELSE ws[s]]

------------------------------------------------------------------------------
(* The most general caller.                                                *)

ArenaInit ==
  /\ arena = [gen |-> 0, cap |-> Capacity, pos |-> 0, clean |-> 0]
  /\ windows = [s \in Slots |-> NoWindow]

\* spare_uninit, a read that puts n bytes there, advance(n) - or no advance,
\* when the caller gives up on what it has read.
Read(n) ==
  /\ n <= Remaining(arena)
  /\ arena' \in {arena, Commit(arena, n)}
  /\ windows' = Written(windows, arena, n)

\* extend_from_slice refuses what does not fit.
ExtendFromSlice(n) ==
  /\ n <= Remaining(arena)
  /\ arena' = Commit(arena, n)
  /\ windows' = Written(windows, arena, n)

Align ==
  /\ arena' = Commit(arena, Padding(arena))
  /\ windows' = Written(windows, arena, Padding(arena))

Window(s) ==
  /\ ~Live(windows, s)
  /\ \E off, end \in 0 .. arena.pos :
       /\ off <= end
       /\ windows' = [windows EXCEPT ![s] = WindowOf(arena, off, end - off)]
  /\ UNCHANGED arena

Recycle ==
  /\ arena' \in {RecycleIfFree(arena, windows), RecycleOrReset(arena, windows)}
  /\ arena'.gen <= MaxGen
  /\ UNCHANGED windows

Ensure(n) ==
  /\ arena' = EnsureCapacity(arena, windows, n)
  /\ arena'.gen <= MaxGen
  /\ UNCHANGED windows

DropWindow(s) ==
  /\ Live(windows, s)
  /\ windows' = [windows EXCEPT ![s] = NoWindow]
  /\ UNCHANGED arena

ArenaNext ==
  \/ \E n \in 1 .. MaxNeed : Read(n) \/ ExtendFromSlice(n) \/ Ensure(n)
  \/ Align \/ Recycle
  \/ \E s \in Slots : Window(s) \/ DropWindow(s)

ArenaSpec == ArenaInit /\ [][ArenaNext]_avars

------------------------------------------------------------------------------
(* Properties                                                              *)

Arenas == [gen : Nat, cap : Nat, pos : Nat, clean : Nat]
Windows == [gen : Nat, off : Nat, len : Nat, intact : BOOLEAN]

ArenaTypeOK ==
  /\ arena \in Arenas
  /\ arena.pos <= arena.clean /\ arena.clean <= arena.cap
  /\ windows \in [Slots -> Windows \cup {NoWindow}]

\* What the unsafe code of the arena rests on: a window was fully initialised
\* when it was created and no byte of it has been written since, however the
\* writes, the alignment padding and the recycling were interleaved with
\* windows being dropped elsewhere (the safety comments of BufferWindow).
WindowsIntact == \A s \in Slots : Live(windows, s) => windows[s].intact

\* One allocation serves for ever while the windows are dropped in time: the
\* arena lets go of a backing only when a window still needs it, or when it is
\* too small for a request.
OneBackingInSteadyState ==
  [][arena'.gen # arena.gen =>
       Held(windows, arena.gen) \/ arena'.cap > arena.cap]_avars
==============================================================================
