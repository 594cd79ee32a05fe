----------------------- MODULE LightstreamSessionProofs -----------------------
(***************************************************************************)
(* LightstreamSession's safety, for every registry, every set of tables    *)
(* and messages, every limit and every segmentation of the reads, as long  *)
(* as the lengths of the frames fit the length field.                      *)
(*                                                                         *)
(* The invariant says what every cell that is not consumed yet stands for  *)
(* (Layout), what the codecs of both ends know of each type because of the *)
(* frames before (EncoderKnows, DecoderKnows), and why the stream has      *)
(* ended (EndReason).                                                      *)
(***************************************************************************)
EXTENDS LightstreamSession, ProofLemmas

\* No frame is longer than its length field can say; a table has at most the
\* cells of a schema, a dictionary and a batch.
LengthsFit == LenRange > 3 /\ \A n \in MsgLens : n < LenRange

Cells == [k : {"tag", "len", "msg", "schema", "dict", "batch"}, v : Nat]
Frames == [tag : Tags, kind : {"Message", "Table"}, cats : Nat, len : Nat]
Answers == [tag : Tags, result : {"ok", "unknown", "invalid"}, id : Nat, cats : Nat]

TypesOK ==
  /\ types.list \in Seq({Registry[i] : i \in DOMAIN Registry})
  /\ Len(types.list) <= Len(Registry)
  /\ \A i \in DOMAIN types.list : types.list[i] = Registry[i]
  /\ \A n \in DOMAIN types.index : types.index[n] \in 0 .. Len(types.list) - 1
WriterOK ==
  /\ TypesOK
  /\ encoder \in [Tags -> [state : {"Fresh", "SchemaDone"}, written : BOOLEAN]]
  /\ sent \in Seq(Frames)
ReaderOK ==
  /\ decoder \in [Tags -> [fields : BOOLEAN, dicts : Nat]]
  /\ known \in Nat /\ target \in Nat
  /\ answers \in Seq(Answers) /\ Len(answers) <= Len(sent)
StreamOK ==
  /\ header \in Seq(Cells) /\ payload \in Seq(Cells) /\ wire \in Seq(Cells)
  /\ transport \in {"open", "ended", "reset"} /\ ended \in {"no", "failed", "clean"}
  /\ Len(header) <= HeaderSize
  /\ target = 0 => payload = <<>>
  /\ target > 0 => /\ Len(header) = HeaderSize /\ Len(payload) <= target
                   /\ header[2].v = target

\* The cells of a table's frame, with the schema and the dictionary or without.
Full(tag) == IF Registry[tag + 1].dict THEN 3 ELSE 2
BodyCell(f, i, k) ==
  IF f.kind = "Message" THEN Cell("msg", i)
  ELSE IF k = f.len THEN Cell("batch", i)
  ELSE IF k = 1 THEN Cell("schema", 0) ELSE Cell("dict", f.cats)
FrameCell(f, i, k) ==
  IF k = 1 THEN Cell("tag", f.tag)
  ELSE IF k = 2 THEN Cell("len", f.len) ELSE BodyCell(f, i, k - 2)

\* The cells that no answer has been given for: those the reader holds, and
\* those on their way.
Unread == Len(header) + Len(payload) + Len(wire)
At(p) ==
  IF p <= Len(header) THEN header[p]
  ELSE IF p <= Len(header) + Len(payload) THEN payload[p - Len(header)]
  ELSE wire[p - Len(header) - Len(payload)]

\* They are the frames after the last answer, frame i from position b[i] on;
\* after a reset, a beginning of them.
Coming == Len(answers) + 1
Laid(b, c, n) ==
  /\ b[c] = 0
  /\ \A i \in c .. n : b[i + 1] = b[i] + HeaderSize + sent[i].len
  /\ \A i, j \in c .. n + 1 : i <= j => b[i] <= b[j]
  /\ Unread <= b[n + 1]
  /\ transport # "reset" => Unread = b[n + 1]
  /\ \A i \in c .. n : \A k \in 1 .. HeaderSize + sent[i].len :
       b[i] + k <= Unread => At(b[i] + k) = FrameCell(sent[i], i, k)
Layout ==
  \E b \in [Coming .. Len(sent) + 1 -> Nat] : Laid(b, Coming, Len(sent))

\* A table's frame is full, or comes after a full one of its type, or after a
\* refused table of its type.
Taught(tag, n) == \E j \in 1 .. n : sent[j].tag = tag /\ sent[j].len = Full(tag)
FrameOK(i) ==
  /\ sent[i].kind = Registry[sent[i].tag + 1].kind
  /\ sent[i].kind = "Message" => sent[i].cats = NoCats
  /\ sent[i].kind = "Table" =>
       /\ sent[i].len \in {1, Full(sent[i].tag)}
       /\ Registry[sent[i].tag + 1].dict => sent[i].cats # NoCats
       /\ ~Registry[sent[i].tag + 1].dict => sent[i].cats = NoCats
       /\ sent[i].len = 1 =>
            sent[i].tag \in refused \/ Taught(sent[i].tag, i - 1)
FramesOK == \A i \in DOMAIN sent : FrameOK(i)
EncoderKnows ==
  \A t \in Tags :
    /\ encoder[t].state = "Fresh" => ~encoder[t].written
    /\ encoder[t].state = "SchemaDone" =>
         /\ encoder[t].written = Registry[t + 1].dict
         /\ t \in refused \/ Taught(t, Len(sent))

\* A decoder knows what a full frame of its type told it.
DecoderKnows ==
  \A t \in Tags :
    /\ decoder[t].dicts # NoCats =>
         \E j \in DOMAIN answers : sent[j].tag = t /\ sent[j].cats = decoder[t].dicts
    /\ Registry[t + 1].kind = "Table" =>
         \A j \in DOMAIN answers :
           sent[j].tag = t /\ sent[j].len = Full(t) /\ answers[j].result # "unknown"
             => /\ decoder[t].fields
                /\ Registry[t + 1].dict => decoder[t].dicts # NoCats

OverLimit == target = 0 /\ Len(header) = HeaderSize /\ header[2].v > MaxFrame
Finished == transport = "ended" /\ Unread = 0
EndReason ==
  transport # "reset" =>
    /\ eof => OverLimit \/ Finished
    /\ ended = "clean" => Finished
    /\ ended = "failed" => OverLimit

AnswersOK == FramingKept /\ TypesAreIsolated /\ CategoriesKept

SInv ==
  /\ WriterOK /\ ReaderOK /\ StreamOK /\ Layout
  /\ FramesOK /\ EncoderKnows /\ DecoderKnows /\ AnswersOK /\ EndReason

------------------------------------------------------------------------------
(* The walk over the IPC frames of a payload.                              *)

Started(d) == [fields |-> d.fields, dicts |-> d.dicts, batch |-> 0, failed |-> FALSE]
Walks(s, d, cells, n) ==
  s = [i \in 0 .. n |-> IF i = 0 THEN Started(d) ELSE WalkFrame(s[i - 1], cells[i])]

\* The recursive function of Walk exists, by induction over the cells.
LEMMA WalkEquation ==
  ASSUME NEW d, NEW cells \in Seq(Cells)
  PROVE  \E s : Walks(s, d, cells, Len(cells)) /\ Walk(d, cells) = s[Len(cells)]
<1> DEFINE S == {n \in Nat : \E s : Walks(s, d, cells, n)}
<1>1. 0 \in S
  <2>1. Walks([i \in 0 .. 0 |-> Started(d)], d, cells, 0)
    BY DEF Walks
  <2> QED
    BY <2>1
<1>2. ASSUME NEW n \in Nat, n \in S PROVE n + 1 \in S
  <2>1. PICK s : Walks(s, d, cells, n)
    BY <1>2
  <2> DEFINE t == [i \in 0 .. n + 1 |->
                     IF i = n + 1 THEN WalkFrame(s[n], cells[n + 1]) ELSE s[i]]
  <2>2. Walks(t, d, cells, n + 1)
    <3> SUFFICES ASSUME NEW i \in 0 .. n + 1
                 PROVE  t[i] = IF i = 0 THEN Started(d)
                               ELSE WalkFrame(t[i - 1], cells[i])
      BY DEF Walks
    <3> QED
      BY <2>1 DEF Walks
  <2> QED
    BY <2>2
<1>3. Len(cells) \in S
  <2> HIDE DEF S
  <2> QED
    BY <1>1, <1>2, SetInduction
<1>4. \E s : Walks(s, d, cells, Len(cells))
  BY <1>3
<1> QED
  BY <1>4 DEF Walk, Walks, Started

Walked(s, d, b) ==
  /\ s \in [fields : BOOLEAN, dicts : Nat, batch : Nat, failed : BOOLEAN]
  /\ s.dicts = d /\ s.batch = b /\ s.failed = FALSE
Knows(s, d, b) == Walked(s, d, b) /\ s.fields = TRUE

LEMMA WalkOne ==
  ASSUME NEW d \in Nat, NEW b \in Nat, NEW v \in Nat, NEW s, Walked(s, d, b)
  PROVE  /\ Knows(WalkFrame(s, Cell("schema", v)), d, b)
         /\ s.fields = TRUE => /\ Knows(WalkFrame(s, Cell("dict", v)), v, b)
                               /\ Knows(WalkFrame(s, Cell("batch", v)), d, v)
         /\ s.fields = FALSE => /\ WalkFrame(s, Cell("batch", v)).failed = TRUE
                                /\ WalkFrame(s, Cell("batch", v)).dicts = d
                                /\ WalkFrame(s, Cell("batch", v)).fields = FALSE
<1>1. Knows([s EXCEPT !.fields = TRUE], d, b)
  BY DEF Walked, Knows
<1>2. s.fields = TRUE => Knows([s EXCEPT !.dicts = v], v, b)
  BY DEF Walked, Knows
<1>3. s.fields = TRUE => Knows([s EXCEPT !.batch = v], d, v)
  BY DEF Walked, Knows
<1>4. /\ [s EXCEPT !.failed = TRUE].failed = TRUE
      /\ [s EXCEPT !.failed = TRUE].dicts = d
      /\ [s EXCEPT !.failed = TRUE].fields = s.fields
  BY DEF Walked
<1>5. WalkFrame(s, Cell("schema", v)) = [s EXCEPT !.fields = TRUE]
  BY DEF WalkFrame, Cell, Walked
<1>6. WalkFrame(s, Cell("dict", v)) = [s EXCEPT !.dicts = v]
  BY DEF WalkFrame, Cell, Walked
<1>7. s.fields = TRUE => WalkFrame(s, Cell("batch", v)) = [s EXCEPT !.batch = v]
  BY DEF WalkFrame, Cell, Walked
<1>8. s.fields = FALSE => WalkFrame(s, Cell("batch", v)) = [s EXCEPT !.failed = TRUE]
  BY DEF WalkFrame, Cell, Walked
<1> QED
  BY <1>1, <1>2, <1>3, <1>4, <1>5, <1>6, <1>7, <1>8

LEMMA WalkStarts ==
  ASSUME NEW d \in [fields : BOOLEAN, dicts : Nat]
  PROVE  Walked(Started(d), d.dicts, 0) /\ Started(d).fields = d.fields
<1>1. PICK s : s = Started(d)
  OBVIOUS
<1>2. Walked(s, d.dicts, 0) /\ s.fields = d.fields
  BY <1>1 DEF Started, Walked
<1> QED
  BY <1>1, <1>2

\* What the walk makes of the payloads that a writer sends.
BatchWalk(s, d, i) ==
  /\ d.fields = TRUE => Knows(s, d.dicts, i)
  /\ d.fields = FALSE => s.failed = TRUE /\ s.dicts = d.dicts /\ s.fields = FALSE

LEMMA WalkBatch ==
  ASSUME NEW d \in [fields : BOOLEAN, dicts : Nat], NEW cells \in Seq(Cells),
         NEW i \in Nat, Len(cells) = 1, cells[1] = Cell("batch", i)
  PROVE  BatchWalk(Walk(d, cells), d, i)
<1>1. PICK s : Walks(s, d, cells, 1) /\ Walk(d, cells) = s[1]
  BY WalkEquation
<1>2. PICK s0 : s0 = s[0]
  OBVIOUS
<1>3. s0 = Started(d) /\ Walk(d, cells) = WalkFrame(s0, Cell("batch", i))
  BY <1>1, <1>2 DEF Walks
<1>4. Walked(s0, d.dicts, 0) /\ s0.fields = d.fields /\ d.dicts \in Nat
  BY <1>3, WalkStarts
<1>5. /\ s0.fields = TRUE => Knows(WalkFrame(s0, Cell("batch", i)), d.dicts, i)
      /\ s0.fields = FALSE => /\ WalkFrame(s0, Cell("batch", i)).failed = TRUE
                              /\ WalkFrame(s0, Cell("batch", i)).dicts = d.dicts
                              /\ WalkFrame(s0, Cell("batch", i)).fields = FALSE
  BY <1>4, WalkOne
<1> QED
  BY <1>3, <1>4, <1>5 DEF BatchWalk

LEMMA WalkSchemaBatch ==
  ASSUME NEW d \in [fields : BOOLEAN, dicts : Nat], NEW cells \in Seq(Cells),
         NEW i \in Nat, Len(cells) = 2,
         cells[1] = Cell("schema", 0), cells[2] = Cell("batch", i)
  PROVE  Knows(Walk(d, cells), d.dicts, i)
<1>1. PICK s : Walks(s, d, cells, 2) /\ Walk(d, cells) = s[2]
  BY WalkEquation
<1>2. PICK s0, s1 : s0 = s[0] /\ s1 = s[1]
  OBVIOUS
<1>3. /\ s0 = Started(d) /\ s1 = WalkFrame(s0, Cell("schema", 0))
      /\ Walk(d, cells) = WalkFrame(s1, Cell("batch", i))
  BY <1>1, <1>2 DEF Walks
<1>4. Walked(s0, d.dicts, 0) /\ d.dicts \in Nat
  BY <1>3, WalkStarts
<1>5. Knows(WalkFrame(s0, Cell("schema", 0)), d.dicts, 0)
  BY <1>4, WalkOne
<1>6. Walked(s1, d.dicts, 0) /\ s1.fields = TRUE
  BY <1>3, <1>5 DEF Knows
<1>7. Knows(WalkFrame(s1, Cell("batch", i)), d.dicts, i)
  BY <1>4, <1>6, WalkOne
<1> QED
  BY <1>3, <1>7

LEMMA WalkFull ==
  ASSUME NEW d \in [fields : BOOLEAN, dicts : Nat], NEW cells \in Seq(Cells),
         NEW i \in Nat, NEW c \in Nat, Len(cells) = 3,
         cells[1] = Cell("schema", 0), cells[2] = Cell("dict", c),
         cells[3] = Cell("batch", i)
  PROVE  Knows(Walk(d, cells), c, i)
<1>1. PICK s : Walks(s, d, cells, 3) /\ Walk(d, cells) = s[3]
  BY WalkEquation
<1>2. PICK s0, s1, s2 : s0 = s[0] /\ s1 = s[1] /\ s2 = s[2]
  OBVIOUS
<1>3. /\ s0 = Started(d) /\ s1 = WalkFrame(s0, Cell("schema", 0))
      /\ s2 = WalkFrame(s1, Cell("dict", c))
      /\ Walk(d, cells) = WalkFrame(s2, Cell("batch", i))
  BY <1>1, <1>2 DEF Walks
<1>4. Walked(s0, d.dicts, 0) /\ d.dicts \in Nat
  BY <1>3, WalkStarts
<1>5. Knows(WalkFrame(s0, Cell("schema", 0)), d.dicts, 0)
  BY <1>4, WalkOne
<1>6. Walked(s1, d.dicts, 0) /\ s1.fields = TRUE
  BY <1>3, <1>5 DEF Knows
<1>7. Knows(WalkFrame(s1, Cell("dict", c)), c, 0)
  BY <1>4, <1>6, WalkOne
<1>8. Walked(s2, c, 0) /\ s2.fields = TRUE
  BY <1>3, <1>7 DEF Knows
<1>9. Knows(WalkFrame(s2, Cell("batch", i)), c, i)
  BY <1>8, WalkOne
<1> QED
  BY <1>3, <1>9

------------------------------------------------------------------------------
(* An answer.                                                              *)

\* What an answer must be for the properties of the answers to be kept.
LEMMA AnswerAppended ==
  ASSUME AnswersOK, answers \in Seq(Answers), sent \in Seq(Frames),
         NEW i, i = Coming, i <= Len(sent), NEW a \in Answers,
         answers' = Append(answers, a), UNCHANGED <<sent, refused>>,
         a.tag = sent[i].tag,
         a.result = "ok" => a.id = IF sent[i].len = 0 THEN 0 ELSE i,
         a.result # "ok" =>
           \/ a.result = "unknown" \/ a.tag \in refused
           \/ \E j \in 1 .. i - 1 : answers[j].tag = a.tag /\ answers[j].result = "unknown",
         a.result = "ok"
           /\ (\A j \in 1 .. i : sent[j].tag = sent[i].tag => sent[j].cats = sent[i].cats)
           => a.cats = sent[i].cats
  PROVE  AnswersOK' /\ answers' \in Seq(Answers) /\ Len(answers') = i
<1>1. /\ answers' \in Seq(Answers) /\ Len(answers') = i /\ answers'[i] = a
      /\ \A j \in 1 .. i - 1 : answers'[j] = answers[j]
      /\ DOMAIN answers = 1 .. i - 1 /\ DOMAIN answers' = 1 .. i /\ i \in Nat \ {0}
  BY DEF Coming
<1>2. FramingKept'
  BY <1>1 DEF AnswersOK, FramingKept
<1>4. TypesAreIsolated'
  <2> SUFFICES ASSUME NEW k \in 1 .. i, answers'[k].result # "ok"
               PROVE  \/ \E j \in 1 .. k : /\ answers'[j].tag = answers'[k].tag
                                           /\ answers'[j].result = "unknown"
                      \/ answers'[k].tag \in refused
    BY <1>1 DEF TypesAreIsolated, Late
  <2>1. CASE k = i
    BY <1>1, <2>1
  <2>2. CASE k # i
    <3>1. k \in DOMAIN answers /\ answers'[k] = answers[k]
      BY <1>1, <2>2
    <3>2. Late(answers[k].tag, k) \/ answers[k].tag \in refused
      BY <3>1 DEF AnswersOK, TypesAreIsolated
    <3> QED
      BY <1>1, <3>1, <3>2 DEF Late
  <2> QED
    BY <2>1, <2>2
<1>5. CategoriesKept'
  BY <1>1 DEF AnswersOK, CategoriesKept
<1> QED
  BY <1>1, <1>2, <1>4, <1>5 DEF AnswersOK

\* What a frame must do to the decoder of its type for it to know what the
\* frames before have told.
LEMMA DecoderTold ==
  ASSUME DecoderKnows, answers \in Seq(Answers), sent \in Seq(Frames),
         NEW i, i = Coming, i <= Len(sent), NEW a \in Answers,
         answers' = Append(answers, a), UNCHANGED sent,
         NEW t \in Tags, t = sent[i].tag,
         \A u \in Tags \ {t} : decoder'[u] = decoder[u],
         decoder'[t].dicts # NoCats =>
           decoder'[t].dicts = decoder[t].dicts \/ decoder'[t].dicts = sent[i].cats,
         Registry[t + 1].kind = "Table" =>
           /\ decoder[t].fields => decoder'[t].fields
           /\ decoder[t].dicts # NoCats => decoder'[t].dicts # NoCats
           /\ sent[i].len = Full(t) /\ a.result # "unknown" =>
                /\ decoder'[t].fields
                /\ Registry[t + 1].dict => decoder'[t].dicts # NoCats
  PROVE  DecoderKnows'
<1>1. /\ answers'[i] = a /\ \A j \in 1 .. i - 1 : answers'[j] = answers[j]
      /\ DOMAIN answers = 1 .. i - 1 /\ DOMAIN answers' = 1 .. i /\ i \in Nat \ {0}
  BY DEF Coming
<1> SUFFICES ASSUME NEW u \in Tags
             PROVE  /\ decoder'[u].dicts # NoCats =>
                         \E j \in DOMAIN answers' :
                           sent[j].tag = u /\ sent[j].cats = decoder'[u].dicts
                    /\ Registry[u + 1].kind = "Table" =>
                         \A j \in DOMAIN answers' :
                           /\ sent[j].tag = u /\ sent[j].len = Full(u)
                           /\ answers'[j].result # "unknown"
                           => /\ decoder'[u].fields
                              /\ Registry[u + 1].dict => decoder'[u].dicts # NoCats
  BY DEF DecoderKnows, Full
<1>2. decoder'[u].dicts # NoCats =>
        \E j \in DOMAIN answers' : sent[j].tag = u /\ sent[j].cats = decoder'[u].dicts
  BY <1>1 DEF DecoderKnows
<1>3. ASSUME Registry[u + 1].kind = "Table", NEW j \in DOMAIN answers',
             sent[j].tag = u, sent[j].len = Full(u), answers'[j].result # "unknown"
      PROVE  /\ decoder'[u].fields
             /\ Registry[u + 1].dict => decoder'[u].dicts # NoCats
  <2>1. CASE j = i
    BY <1>1, <1>3, <2>1
  <2>2. CASE j # i
    <3>1. j \in DOMAIN answers /\ answers'[j] = answers[j]
      BY <1>1, <2>2
    <3>2. /\ decoder[u].fields
          /\ Registry[u + 1].dict => decoder[u].dicts # NoCats
      BY <1>3, <3>1 DEF DecoderKnows
    <3> QED
      BY <1>3, <3>2
  <2> QED
    BY <2>1, <2>2
<1> QED
  BY <1>2, <1>3

\* The frame that the next answer is about.
LEMMA ComingFrame ==
  ASSUME SInv, NEW i, i = Coming, i <= Len(sent)
  PROVE  /\ i \in Nat \ {0} /\ i \in DOMAIN sent /\ FrameOK(i)
         /\ sent[i].tag \in Tags /\ sent[i].tag \in Nat
         /\ sent[i].kind \in {"Message", "Table"}
         /\ sent[i].len \in Nat /\ sent[i].cats \in Nat
         /\ decoder[sent[i].tag] \in [fields : BOOLEAN, dicts : Nat]
<1>1. /\ sent \in Seq(Frames) /\ answers \in Seq(Answers) /\ FramesOK
      /\ decoder \in [Tags -> [fields : BOOLEAN, dicts : Nat]]
  BY DEF SInv, WriterOK, ReaderOK
<1>2. i \in Nat \ {0} /\ i \in DOMAIN sent
  BY <1>1 DEF Coming
<1>3. FrameOK(i)
  BY <1>1, <1>2 DEF FramesOK
<1>4. sent[i] \in Frames
  BY <1>1, <1>2
<1>5. /\ sent[i].tag \in Tags /\ sent[i].kind \in {"Message", "Table"}
      /\ sent[i].len \in Nat /\ sent[i].cats \in Nat
  BY <1>4 DEF Frames
<1>6. sent[i].tag \in Nat
  BY <1>5 DEF Tags
<1> QED
  BY <1>1, <1>2, <1>3, <1>5, <1>6

\* What the payload of a table's frame i makes of the state d of its decoder.
TableWalk(s, d, i) ==
  /\ s.fields \in BOOLEAN /\ s.dicts \in {d.dicts, sent[i].cats}
  /\ Registry[sent[i].tag + 1].dict \/ s.dicts = d.dicts
  /\ d.fields = TRUE => s.fields = TRUE
  /\ sent[i].len = Full(sent[i].tag) \/ d.fields = TRUE =>
       s.failed = FALSE /\ s.batch = i /\ s.fields = TRUE
  /\ sent[i].len = Full(sent[i].tag) /\ Registry[sent[i].tag + 1].dict =>
       s.dicts = sent[i].cats
  /\ sent[i].len # Full(sent[i].tag) => s.dicts = d.dicts
  /\ s.failed = TRUE \/ s.batch = i

LEMMA TableWalked ==
  ASSUME SInv, NEW i, i = Coming, i <= Len(sent), sent[i].kind = "Table",
         NEW cells \in Seq(Cells), Len(cells) = sent[i].len,
         \A k \in 1 .. Len(cells) : cells[k] = BodyCell(sent[i], i, k),
         NEW d, d = decoder[sent[i].tag]
  PROVE  TableWalk(Walk(d, cells), d, i)
<1> PICK t, s : t = sent[i].tag /\ s = Walk(d, cells)
  OBVIOUS
<1>1. /\ i \in Nat \ {0} /\ t \in Tags /\ FrameOK(i) /\ sent[i].cats \in Nat
      /\ d \in [fields : BOOLEAN, dicts : Nat]
  BY ComingFrame
<1>2. /\ sent[i].len \in {1, Full(t)} /\ d.dicts \in Nat /\ d.fields \in BOOLEAN
  BY <1>1 DEF FrameOK
<1>3. ASSUME sent[i].len = Full(t), Registry[t + 1].dict
      PROVE  Knows(s, sent[i].cats, i)
  <2>1. /\ Len(cells) = 3 /\ cells[1] = Cell("schema", 0)
        /\ cells[2] = Cell("dict", sent[i].cats) /\ cells[3] = Cell("batch", i)
    BY <1>3 DEF Full, BodyCell
  <2> QED
    BY <1>1, <2>1, WalkFull
<1>4. ASSUME sent[i].len = Full(t), ~Registry[t + 1].dict
      PROVE  Knows(s, d.dicts, i)
  <2>1. /\ Len(cells) = 2 /\ cells[1] = Cell("schema", 0)
        /\ cells[2] = Cell("batch", i)
    BY <1>4 DEF Full, BodyCell
  <2> QED
    BY <1>1, <2>1, WalkSchemaBatch
<1>5. ASSUME sent[i].len # Full(t)
      PROVE  /\ d.fields = TRUE => Knows(s, d.dicts, i)
             /\ d.fields = FALSE => s.failed = TRUE /\ s.dicts = d.dicts /\ s.fields = FALSE
  <2>1. Len(cells) = 1 /\ cells[1] = Cell("batch", i)
    BY <1>2, <1>5 DEF BodyCell
  <2>2. i \in Nat
    BY <1>1
  <2>3. BatchWalk(Walk(d, cells), d, i)
    BY <1>1, <2>1, <2>2, WalkBatch
  <2> QED
    BY <2>3 DEF BatchWalk
<1>6. CASE sent[i].len = Full(t) /\ Registry[t + 1].dict
  BY <1>2, <1>3, <1>6 DEF Knows, Walked, TableWalk
<1>7. CASE sent[i].len = Full(t) /\ ~Registry[t + 1].dict
  BY <1>2, <1>4, <1>7 DEF Knows, Walked, TableWalk
<1>8. CASE sent[i].len # Full(t)
  BY <1>2, <1>5, <1>8 DEF Knows, Walked, TableWalk
<1> QED
  BY <1>6, <1>7, <1>8

\* The answer to frame i, whatever its payload decodes to.
LEMMA Decoded ==
  ASSUME SInv, NEW i, i = Coming, i <= Len(sent),
         NEW cells \in Seq(Cells), Len(cells) = sent[i].len,
         \A k \in 1 .. Len(cells) : cells[k] = BodyCell(sent[i], i, k),
         DecodeFrame(sent[i].tag, cells), UNCHANGED <<sent, refused, known>>
  PROVE  /\ decoder' \in [Tags -> [fields : BOOLEAN, dicts : Nat]]
         /\ answers' \in Seq(Answers) /\ Len(answers') = i
         /\ AnswersOK' /\ DecoderKnows'
<1> PICK t : t = sent[i].tag
  OBVIOUS
<1>0. /\ answers \in Seq(Answers) /\ sent \in Seq(Frames) /\ known \in Nat
      /\ decoder \in [Tags -> [fields : BOOLEAN, dicts : Nat]]
      /\ DecoderKnows /\ AnswersOK
  BY DEF SInv, WriterOK, ReaderOK
<1>1. /\ i \in Nat \ {0} /\ i \in DOMAIN sent /\ FrameOK(i)
      /\ t \in Tags /\ t \in Nat /\ sent[i].len \in Nat /\ sent[i].cats \in Nat
      /\ sent[i].kind \in {"Message", "Table"}
      /\ sent[i].kind = Registry[t + 1].kind
  BY ComingFrame DEF FrameOK
<1>d. Registry[t + 1].kind = "Table" =>
        \A m \in DOMAIN answers :
          sent[m].tag = t /\ sent[m].len = Full(t) /\ answers[m].result # "unknown"
            => /\ decoder[t].fields
               /\ Registry[t + 1].dict => decoder[t].dicts # NoCats
  BY <1>0, <1>1 DEF DecoderKnows
<1>2. CASE t >= known
  <2>1. PICK a : a = [tag |-> t, result |-> "unknown", id |-> 0, cats |-> NoCats]
    OBVIOUS
  <2>2. /\ a \in Answers /\ answers' = Append(answers, a) /\ decoder' = decoder
        /\ a.tag = t /\ a.result = "unknown"
    BY <1>0, <1>1, <1>2, <2>1 DEF DecodeFrame, Answer, Answers, NoCats
  <2>3. AnswersOK' /\ answers' \in Seq(Answers) /\ Len(answers') = i
    BY <1>0, <1>1, <2>2, AnswerAppended
  <2>4. DecoderKnows'
    BY <1>0, <1>1, <2>2, DecoderTold
  <2> QED
    BY <1>0, <1>1, <2>2, <2>3, <2>4
<1>3. CASE t < known /\ sent[i].kind = "Message"
  <2>1. PICK a : a = [tag |-> t, result |-> "ok",
                      id |-> IF cells = <<>> THEN 0 ELSE cells[1].v, cats |-> NoCats]
    OBVIOUS
  <2>2. a.tag = t /\ a.result = "ok" /\ a.cats = NoCats
    BY <2>1
  <2>3. a.id = IF sent[i].len = 0 THEN 0 ELSE i
    BY <1>0, <1>1, <1>3, <2>1 DEF BodyCell, Cell
  <2>4. a \in Answers
    <3>1. a.id \in Nat
      BY <1>0, <1>1, <2>3
    <3>2. a = [tag |-> t, result |-> "ok", id |-> a.id, cats |-> NoCats]
      BY <2>1
    <3> QED
      BY <1>0, <1>1, <3>1, <3>2 DEF Answers, NoCats
  <2>5. answers' = Append(answers, a) /\ decoder' = decoder
    BY <1>0, <1>1, <1>3, <2>1 DEF DecodeFrame, Answer, Tags
  <2>6. sent[i].cats = NoCats
    BY <1>0, <1>1, <1>3 DEF FrameOK
  <2>7. AnswersOK' /\ answers' \in Seq(Answers) /\ Len(answers') = i
    BY <1>0, <1>1, <2>2, <2>3, <2>4, <2>5, <2>6, AnswerAppended
  <2>8. DecoderKnows'
    BY <1>0, <1>1, <1>3, <2>2, <2>4, <2>5, DecoderTold
  <2> QED
    BY <1>0, <1>1, <2>5, <2>7, <2>8
<1>4. CASE t < known /\ sent[i].kind = "Table"
  <2>1. PICK d, s : d = decoder[t] /\ s = Walk(d, cells)
    OBVIOUS
  <2>0. TableWalk(s, d, i)
    BY <1>4, <2>1, TableWalked
  <2>2. /\ s.fields \in BOOLEAN /\ s.dicts \in {d.dicts, sent[i].cats}
        /\ Registry[t + 1].dict \/ s.dicts = d.dicts
        /\ d.fields = TRUE => s.fields = TRUE
        /\ sent[i].len = Full(t) \/ d.fields = TRUE =>
             s.failed = FALSE /\ s.batch = i /\ s.fields = TRUE
        /\ sent[i].len = Full(t) /\ Registry[t + 1].dict => s.dicts = sent[i].cats
        /\ sent[i].len # Full(t) => s.dicts = d.dicts
        /\ s.failed = TRUE \/ s.batch = i
    BY <2>0 DEF TableWalk
  <2> DEFINE dict == Registry[t + 1].dict
             bad == s.failed \/ s.batch = 0 \/ (dict /\ s.dicts = NoCats)
  <2>4. PICK a : a = IF bad
                     THEN [tag |-> t, result |-> "invalid", id |-> 0, cats |-> NoCats]
                     ELSE [tag |-> t, result |-> "ok", id |-> s.batch,
                           cats |-> IF dict THEN s.dicts ELSE NoCats]
    OBVIOUS
  <2>5. /\ answers' = Append(answers, a)
        /\ decoder' = [decoder EXCEPT ![t] = [fields |-> s.fields, dicts |-> s.dicts]]
    BY <1>0, <1>1, <1>4, <2>1, <2>4 DEF DecodeFrame, Answer, Tags
  <2>6. /\ d \in [fields : BOOLEAN, dicts : Nat] /\ d.dicts \in Nat /\ s.dicts \in Nat
        /\ decoder' \in [Tags -> [fields : BOOLEAN, dicts : Nat]]
        /\ decoder'[t].fields = s.fields /\ decoder'[t].dicts = s.dicts
        /\ \A u \in Tags \ {t} : decoder'[u] = decoder[u]
    BY <1>0, <1>1, <2>1, <2>2, <2>5
  <2>7. /\ a.tag = t /\ a.result = (IF bad THEN "invalid" ELSE "ok")
        /\ ~bad => a.id = i /\ a.cats = IF dict THEN s.dicts ELSE NoCats
    BY <2>2, <2>4
  <2>8. a \in Answers
    BY <1>0, <1>1, <2>2, <2>4, <2>6 DEF Answers, NoCats
  <2>9. /\ dict => sent[i].cats # NoCats
        /\ ~dict => sent[i].cats = NoCats
        /\ sent[i].len = 1 => t \in refused \/ Taught(t, i - 1)
        /\ sent[i].len \in {1, Full(t)} /\ sent[i].len # 0
    BY <1>0, <1>1, <1>4 DEF FrameOK, Full
  <2>10. bad => \/ t \in refused
                \/ \E j \in 1 .. i - 1 : answers[j].tag = t /\ answers[j].result = "unknown"
    <3> SUFFICES ASSUME bad, t \notin refused
                 PROVE  \E j \in 1 .. i - 1 : answers[j].tag = t /\ answers[j].result = "unknown"
      OBVIOUS
    <3>1. sent[i].len = 1 /\ sent[i].len # Full(t)
      BY <1>1, <2>2, <2>9
    <3>2. PICK j \in 1 .. i - 1 : sent[j].tag = t /\ sent[j].len = Full(t)
      BY <2>9, <3>1 DEF Taught
    <3>3. j \in DOMAIN answers
      BY <1>0, <1>1 DEF Coming
    <3>4. answers[j].tag = t
      BY <1>0, <3>2, <3>3 DEF AnswersOK, FramingKept
    <3>5. CASE answers[j].result # "unknown"
      <4>0. Registry[t + 1].kind = "Table"
        BY <1>1, <1>4
      <4>1. d.fields /\ (dict => d.dicts # NoCats)
        BY <1>d, <2>1, <3>2, <3>3, <3>5, <4>0
      <4>2. d.fields = TRUE
        BY <2>6, <4>1
      <4>3. s.failed = FALSE /\ s.batch = i /\ s.dicts = d.dicts
        BY <2>2, <3>1, <4>2
      <4> QED
        BY <1>1, <4>1, <4>3
    <3> QED
      BY <3>4, <3>5
  <2>11. ASSUME ~bad, \A j \in 1 .. i : sent[j].tag = sent[i].tag => sent[j].cats = sent[i].cats
         PROVE  a.cats = sent[i].cats
    <3>1. CASE ~dict
      BY <2>7, <2>9, <2>11, <3>1
    <3>2. CASE dict
      <4>1. a.cats = s.dicts /\ s.dicts # NoCats
        BY <2>7, <2>11, <3>2
      <4>2. CASE s.dicts = d.dicts
        <5>1. PICK j \in DOMAIN answers : sent[j].tag = t /\ sent[j].cats = d.dicts
          BY <1>0, <1>1, <2>1, <4>1, <4>2 DEF DecoderKnows
        <5>2. j \in 1 .. i
          BY <1>0, <1>1, <5>1 DEF Coming
        <5> QED
          BY <2>11, <4>1, <4>2, <5>1, <5>2
      <4> QED
        BY <2>2, <4>1, <4>2
    <3> QED
      BY <3>1, <3>2
  <2> HIDE DEF bad, dict
  <2>12. AnswersOK' /\ answers' \in Seq(Answers) /\ Len(answers') = i
    <3>1. a.tag = sent[i].tag
      BY <2>7
    <3>2. a.result = "ok" => a.id = IF sent[i].len = 0 THEN 0 ELSE i
      BY <2>7, <2>9
    <3>3. a.result # "ok" =>
            \/ a.result = "unknown" \/ a.tag \in refused
            \/ \E j \in 1 .. i - 1 : answers[j].tag = a.tag /\ answers[j].result = "unknown"
      BY <2>7, <2>10
    <3>4. a.result = "ok"
            /\ (\A j \in 1 .. i : sent[j].tag = sent[i].tag => sent[j].cats = sent[i].cats)
            => a.cats = sent[i].cats
      BY <2>7, <2>11
    <3> QED
      BY <1>0, <2>5, <2>8, <3>1, <3>2, <3>3, <3>4, AnswerAppended
  <2>13. DecoderKnows'
    <3>1. decoder'[t].dicts # NoCats =>
            decoder'[t].dicts = decoder[t].dicts \/ decoder'[t].dicts = sent[i].cats
      BY <2>1, <2>2, <2>6
    <3>2. /\ decoder[t].fields => decoder'[t].fields
          /\ decoder[t].dicts # NoCats => decoder'[t].dicts # NoCats
      BY <2>1, <2>2, <2>6, <2>9 DEF dict
    <3>3. sent[i].len = Full(t) =>
            /\ decoder'[t].fields
            /\ Registry[t + 1].dict => decoder'[t].dicts # NoCats
      BY <2>2, <2>6, <2>9 DEF dict
    <3> QED
      BY <1>0, <1>1, <2>5, <2>6, <2>8, <3>1, <3>2, <3>3, DecoderTold
  <2> QED
    BY <2>6, <2>12, <2>13
<1> QED
  BY <1>0, <1>1, <1>2, <1>3, <1>4

------------------------------------------------------------------------------
(* The cells that are not consumed yet.                                    *)

LEMMA Shifted ==
  \A x, y, l, w \in Nat : y = x + HeaderSize + l => y - w = (x - w) + HeaderSize + l
BY DEF HeaderSize

LEMMA Within ==
  \A x, y, z, l, k \in Nat :
    y = x + HeaderSize + l /\ y <= z /\ k <= HeaderSize + l => x + k <= z
BY DEF HeaderSize

LEMMA CellsJoined ==
  ASSUME NEW s \in Seq(Cells), NEW t \in Seq(Cells)
  PROVE  /\ s \o t \in Seq(Cells) /\ Len(s \o t) = Len(s) + Len(t)
         /\ \A k \in 1 .. Len(s) : (s \o t)[k] = s[k]
         /\ \A k \in 1 .. Len(t) : (s \o t)[Len(s) + k] = t[k]
OBVIOUS

\* A complete header is that of the frame the next answer is about.
LEMMA HeaderAtHand ==
  ASSUME SInv, Len(header) = HeaderSize
  PROVE  /\ Coming <= Len(sent)
         /\ header[1].v = sent[Coming].tag /\ header[2].v = sent[Coming].len
<1> PICK i, n : i = Coming /\ n = Len(sent)
  OBVIOUS
<1>1. /\ header \in Seq(Cells) /\ payload \in Seq(Cells) /\ wire \in Seq(Cells)
      /\ answers \in Seq(Answers) /\ Len(answers) <= n /\ sent \in Seq(Frames)
  BY DEF SInv, StreamOK, ReaderOK, WriterOK
<1>2. PICK b \in [i .. n + 1 -> Nat] : Laid(b, i, n)
  BY DEF SInv, Layout
<1>3. i \in Nat \ {0} /\ n \in Nat /\ i <= n + 1
  BY <1>1 DEF Coming
<1>4. Unread \in Nat /\ Unread >= HeaderSize /\ Unread <= b[n + 1] /\ b[i] = 0
  BY <1>1, <1>2 DEF Unread, HeaderSize, Laid
<1>5. i <= n /\ sent[i] \in Frames
  BY <1>1, <1>3, <1>4 DEF HeaderSize
<1>6. sent[i].len \in Nat
  BY <1>5 DEF Frames
<1>7. \A k \in 1 .. HeaderSize + sent[i].len :
        b[i] + k <= Unread => At(b[i] + k) = FrameCell(sent[i], i, k)
  BY <1>2, <1>3, <1>5 DEF Laid
<1>8. At(1) = FrameCell(sent[i], i, 1) /\ At(2) = FrameCell(sent[i], i, 2)
  <2>1. 1 \in 1 .. HeaderSize + sent[i].len /\ 2 \in 1 .. HeaderSize + sent[i].len
    BY <1>6 DEF HeaderSize
  <2>2. b[i] + 1 = 1 /\ b[i] + 2 = 2 /\ 1 <= Unread /\ 2 <= Unread
    BY <1>4 DEF HeaderSize
  <2> QED
    BY <1>7, <2>1, <2>2
<1>9. header[1] = Cell("tag", sent[i].tag) /\ header[2] = Cell("len", sent[i].len)
  BY <1>8 DEF At, FrameCell, HeaderSize
<1> QED
  BY <1>5, <1>9 DEF Cell

\* So are the cells of the payload.
LEMMA PayloadAtHand ==
  ASSUME SInv, target > 0, Len(payload) = target
  PROVE  /\ Len(header) = HeaderSize /\ Coming <= Len(sent)
         /\ header[1].v = sent[Coming].tag /\ Len(payload) = sent[Coming].len
         /\ \A k \in 1 .. Len(payload) : payload[k] = BodyCell(sent[Coming], Coming, k)
<1> PICK i, n : i = Coming /\ n = Len(sent)
  OBVIOUS
<1>1. /\ header \in Seq(Cells) /\ payload \in Seq(Cells) /\ wire \in Seq(Cells)
      /\ answers \in Seq(Answers) /\ Len(answers) <= n /\ sent \in Seq(Frames)
      /\ Len(header) = HeaderSize /\ header[2].v = target
  BY DEF SInv, StreamOK, ReaderOK, WriterOK
<1>2. /\ i <= n /\ header[1].v = sent[i].tag /\ Len(payload) = sent[i].len
  BY <1>1, HeaderAtHand
<1>3. PICK b \in [i .. n + 1 -> Nat] : Laid(b, i, n)
  BY DEF SInv, Layout
<1>4. /\ i \in Nat \ {0} /\ n \in Nat /\ Len(payload) \in Nat /\ b[i] = 0
      /\ Unread = 2 + Len(payload) + Len(wire) /\ Len(wire) \in Nat
  BY <1>1, <1>3 DEF Coming, Laid, Unread, HeaderSize
<1>5. \A k \in 1 .. HeaderSize + sent[i].len :
        b[i] + k <= Unread => At(b[i] + k) = FrameCell(sent[i], i, k)
  <2>1. i \in i .. n
    BY <1>2, <1>4
  <2> QED
    BY <1>3, <2>1 DEF Laid
<1>6. ASSUME NEW k \in 1 .. Len(payload)
      PROVE  payload[k] = BodyCell(sent[i], i, k)
  <2>1. k + 2 \in 1 .. HeaderSize + sent[i].len /\ b[i] + (k + 2) = k + 2 /\ k + 2 <= Unread
    BY <1>2, <1>4 DEF HeaderSize
  <2>2. At(k + 2) = FrameCell(sent[i], i, k + 2)
    BY <1>5, <2>1
  <2>3. At(k + 2) = payload[k]
    BY <1>1, <1>4 DEF At, HeaderSize
  <2>4. FrameCell(sent[i], i, k + 2) = BodyCell(sent[i], i, k)
    BY <1>4 DEF FrameCell
  <2> QED
    BY <2>2, <2>3, <2>4
<1> QED
  BY <1>1, <1>2, <1>6

\* A frame that is answered makes room for the next.
Consumed(i) ==
  /\ Len(header) = HeaderSize /\ Len(payload) = sent[i].len
  /\ header' = <<>> /\ payload' = <<>> /\ Len(answers') = i
  /\ UNCHANGED <<wire, transport, sent>>

LEMMA LayoutAfter ==
  ASSUME SInv, NEW i, i = Coming, i <= Len(sent), Consumed(i)
  PROVE  Layout'
<1>0. /\ Len(header) = HeaderSize /\ Len(payload) = sent[i].len
      /\ header' = <<>> /\ payload' = <<>> /\ Len(answers') = i
      /\ wire' = wire /\ transport' = transport /\ sent' = sent
  BY DEF Consumed
<1> PICK n : n = Len(sent)
  OBVIOUS
<1>1. /\ header \in Seq(Cells) /\ payload \in Seq(Cells) /\ wire \in Seq(Cells)
      /\ answers \in Seq(Answers) /\ sent \in Seq(Frames)
  BY DEF SInv, StreamOK, ReaderOK, WriterOK
<1>2. PICK b \in [i .. n + 1 -> Nat] : Laid(b, i, n)
  BY DEF SInv, Layout
<1>3. i \in Nat \ {0} /\ n \in Nat /\ i <= n /\ Len(wire) \in Nat /\ sent[i].len \in Nat
  BY <1>1, ComingFrame DEF Coming
<1>m. /\ i \in i .. n /\ i \in i .. n + 1 /\ i + 1 \in i .. n + 1 /\ n + 1 \in i + 1 .. n + 1
      /\ i + 1 \in i + 1 .. n + 1 /\ n + 1 \in i .. n + 1
      /\ \A j \in i + 1 .. n + 1 : j \in i .. n + 1 /\ i + 1 <= j
      /\ \A j \in i + 1 .. n : j \in i .. n /\ j + 1 \in i + 1 .. n + 1 /\ j \in i + 1 .. n + 1
      /\ \A j \in i + 1 .. n : j \in 1 .. n
  BY <1>3
<1>w. PICK w : w = b[i + 1]
  OBVIOUS
<1>4. w = HeaderSize + sent[i].len /\ b[i] = 0 /\ w \in Nat
  <2>1. b[i] = 0 /\ b[i + 1] = b[i] + HeaderSize + sent[i].len
    BY <1>2, <1>m DEF Laid
  <2> QED
    BY <1>3, <1>w, <2>1 DEF HeaderSize
<1>l. /\ Len(header) + Len(payload) = w /\ Len(header) \in Nat /\ Len(payload) \in Nat
      /\ Unread = w + Len(wire)
  BY <1>0, <1>1, <1>3, <1>4 DEF Unread
<1>5. Unread = w + Len(wire) /\ Unread' = Len(wire)
  BY <1>0, <1>1, <1>3, <1>l DEF Unread
<1>p. \A j \in i + 1 .. n + 1 : b[j] \in Nat /\ w <= b[j]
  <2> SUFFICES ASSUME NEW j \in i + 1 .. n + 1
               PROVE  b[j] \in Nat /\ w <= b[j]
    OBVIOUS
  <2>1. j \in i .. n + 1 /\ i + 1 <= j
    BY <1>m
  <2> QED
    BY <1>2, <1>m, <1>w, <2>1 DEF Laid
<1>6. PICK c : /\ c \in [i + 1 .. n + 1 -> Nat]
               /\ \A j \in i + 1 .. n + 1 : c[j] = b[j] - w
  <2>1. PICK c : c = [j \in i + 1 .. n + 1 |-> b[j] - w]
    OBVIOUS
  <2>2. \A j \in i + 1 .. n + 1 : b[j] - w \in Nat
    BY <1>4, <1>p
  <2>3. c \in [i + 1 .. n + 1 -> Nat]
    BY <2>1, <2>2
  <2>4. \A j \in i + 1 .. n + 1 : c[j] = b[j] - w
    BY <2>1
  <2> QED
    BY <2>3, <2>4
<1>7. Coming' = i + 1
  BY <1>0 DEF Coming
<1>8. c[i + 1] = 0
  <2>1. c[i + 1] = w - w
    BY <1>6, <1>m, <1>w
  <2> QED
    BY <1>4, <2>1
<1>9. \A j \in i + 1 .. n : c[j + 1] = c[j] + HeaderSize + sent[j].len
  <2> SUFFICES ASSUME NEW j \in i + 1 .. n
               PROVE  c[j + 1] = c[j] + HeaderSize + sent[j].len
    OBVIOUS
  <2>1. j \in i .. n /\ j \in i + 1 .. n + 1 /\ j + 1 \in i + 1 .. n + 1 /\ j \in 1 .. n
    BY <1>m
  <2>2. b[j + 1] = b[j] + HeaderSize + sent[j].len
    BY <1>2, <2>1 DEF Laid
  <2>3. sent[j] \in Frames /\ b[j] \in Nat /\ b[j + 1] \in Nat
    BY <1>1, <1>p, <2>1
  <2>4. sent[j].len \in Nat
    BY <2>3 DEF Frames
  <2>5. c[j] = b[j] - w /\ c[j + 1] = b[j + 1] - w
    BY <1>6, <2>1
  <2>6. w \in Nat
    BY <1>4
  <2> QED
    BY <2>2, <2>3, <2>4, <2>5, <2>6, Shifted
<1>10. \A j, k \in i + 1 .. n + 1 : j <= k => c[j] <= c[k]
  <2> SUFFICES ASSUME NEW j \in i + 1 .. n + 1, NEW k \in i + 1 .. n + 1, j <= k
               PROVE  c[j] <= c[k]
    OBVIOUS
  <2>1. j \in i .. n + 1 /\ k \in i .. n + 1
    BY <1>m
  <2>2. b[j] <= b[k] /\ b[j] \in Nat /\ b[k] \in Nat
    BY <1>2, <1>p, <2>1 DEF Laid
  <2> QED
    BY <1>4, <1>6, <2>2
<1>11. /\ Unread' <= c[n + 1]
       /\ transport # "reset" => Unread' = c[n + 1]
  <2>1. /\ Unread <= b[n + 1]
        /\ transport # "reset" => Unread = b[n + 1]
    BY <1>2 DEF Laid
  <2>2. c[n + 1] = b[n + 1] - w /\ b[n + 1] \in Nat
    BY <1>6, <1>p, <1>m
  <2>3. w \in Nat /\ Len(wire) \in Nat
    BY <1>3, <1>4
  <2>4. /\ w + Len(wire) <= b[n + 1] => Len(wire) <= b[n + 1] - w
        /\ w + Len(wire) = b[n + 1] => Len(wire) = b[n + 1] - w
    BY <2>2, <2>3
  <2> QED
    BY <1>5, <2>1, <2>2, <2>4
<1>12. \A j \in i + 1 .. n : \A k \in 1 .. HeaderSize + sent[j].len :
         c[j] + k <= Unread' => At(c[j] + k)' = FrameCell(sent[j], j, k)
  <2> SUFFICES ASSUME NEW j \in i + 1 .. n, NEW k \in 1 .. HeaderSize + sent[j].len,
                      c[j] + k <= Unread'
               PROVE  At(c[j] + k)' = FrameCell(sent[j], j, k)
    OBVIOUS
  <2>p. PICK p : p = c[j] + k
    OBVIOUS
  <2>0. j \in i .. n /\ j \in i + 1 .. n + 1 /\ j \in 1 .. n
    BY <1>m
  <2>1. b[j] \in Nat /\ c[j] = b[j] - w /\ c[j] \in Nat
    BY <1>6, <1>p, <2>0
  <2>2. k \in Nat \ {0}
    <3>1. sent[j] \in Frames
      BY <1>1, <2>0
    <3>2. sent[j].len \in Nat
      BY <3>1 DEF Frames
    <3> QED
      BY <3>2 DEF HeaderSize
  <2>3. p \in Nat \ {0} /\ p <= Len(wire) /\ p + w = b[j] + k /\ p + w <= Unread
    <3>1. w \in Nat /\ Len(wire) \in Nat /\ Unread = w + Len(wire) /\ p <= Len(wire)
      BY <1>3, <1>4, <1>5, <2>p
    <3>2. p \in Nat \ {0}
      BY <2>1, <2>2, <2>p
    <3>3. p + w = b[j] + k
      <4>p. PICK x, y : x = c[j] /\ y = b[j]
        OBVIOUS
      <4>1. /\ x \in Nat /\ y \in Nat /\ w \in Nat /\ k \in Nat
            /\ x = y - w /\ p = x + k /\ p \in Nat
        BY <2>1, <2>2, <2>p, <3>1, <3>2, <4>p
      <4>2. p + w = y + k
        BY <4>1
      <4> QED
        BY <4>p, <4>2
    <3>4. p + w <= Unread
      BY <3>1, <3>2
    <3> QED
      BY <3>1, <3>2, <3>3, <3>4
  <2>4. At(b[j] + k) = FrameCell(sent[j], j, k)
    BY <1>2, <2>0, <2>3 DEF Laid
  <2>5. At(p + w) = wire[p]
    <3>1. /\ Len(header) + Len(payload) = w /\ Len(header) \in Nat /\ Len(payload) \in Nat
          /\ p \in Nat \ {0}
      BY <1>l, <2>3
    <3>2. ~(p + w <= Len(header)) /\ ~(p + w <= Len(header) + Len(payload))
      BY <3>1
    <3>q. PICK q : q = p + w
      OBVIOUS
    <3>h. PICK h, m : h = Len(header) /\ m = Len(payload)
      OBVIOUS
    <3>3. q - h - m = p
      <4>1. h \in Nat /\ m \in Nat /\ p \in Nat /\ w = h + m /\ q = p + w
        BY <3>1, <3>q, <3>h
      <4> QED
        BY <4>1
    <3>4. At(q) = wire[q - Len(header) - Len(payload)]
      BY <3>q, <3>2 DEF At
    <3>5. wire[q - Len(header) - Len(payload)] = wire[p]
      BY <3>3, <3>h
    <3> QED
      BY <3>q, <3>4, <3>5
  <2>6. At(p)' = wire[p]
    BY <1>0, <2>3 DEF At
  <2> QED
    BY <2>p, <2>3, <2>4, <2>5, <2>6
<1> QED
  <2>1. Laid(c, i + 1, n)'
    BY <1>0, <1>8, <1>9, <1>10, <1>11, <1>12 DEF Laid
  <2> QED
    BY <1>0, <1>6, <1>7, <2>1 DEF Layout

\* A read moves cells from the wire to the reader, a reset drops some.
LEMMA LayoutKept ==
  ASSUME SInv, Unread' \in Nat, Unread' <= Unread,
         \A p \in Nat \ {0} : p <= Unread' => At(p)' = At(p),
         transport' # "reset" => transport # "reset" /\ Unread' = Unread,
         UNCHANGED <<answers, sent>>
  PROVE  Layout'
<1> PICK i, n : i = Coming /\ n = Len(sent)
  OBVIOUS
<1>1. PICK b \in [i .. n + 1 -> Nat] : Laid(b, i, n)
  BY DEF SInv, Layout
<1>2. /\ i \in Nat \ {0} /\ n \in Nat /\ i <= n + 1 /\ Coming' = i /\ Unread \in Nat
  BY DEF SInv, ReaderOK, WriterOK, StreamOK, Coming, Unread
<1>3. Unread' <= b[n + 1] /\ (transport' # "reset" => Unread' = b[n + 1])
  BY <1>1, <1>2 DEF Laid
<1>4. \A j \in i .. n : \A k \in 1 .. HeaderSize + sent[j].len :
        b[j] + k <= Unread' => At(b[j] + k)' = FrameCell(sent[j], j, k)
  <2> SUFFICES ASSUME NEW j \in i .. n, NEW k \in 1 .. HeaderSize + sent[j].len,
                      b[j] + k <= Unread'
               PROVE  At(b[j] + k)' = FrameCell(sent[j], j, k)
    OBVIOUS
  <2> PICK p : p = b[j] + k
    OBVIOUS
  <2>1. p \in Nat \ {0} /\ p <= Unread
    BY <1>1, <1>2 DEF HeaderSize
  <2>2. At(p) = FrameCell(sent[j], j, k)
    BY <1>1, <1>2, <2>1 DEF Laid
  <2> QED
    BY <2>1, <2>2
<1>5. Laid(b, i, n)'
  BY <1>1, <1>2, <1>3, <1>4 DEF Laid
<1> QED
  BY <1>2, <1>5 DEF Layout

\* A call appends its frame.
LEMMA LayoutSent ==
  ASSUME SInv, transport = "open", NEW f \in Frames, sent' = Append(sent, f),
         NEW cells, wire' = wire \o cells, cells \in Seq(Cells),
         Len(cells) = HeaderSize + f.len,
         \A k \in 1 .. Len(cells) : cells[k] = FrameCell(f, Len(sent) + 1, k),
         UNCHANGED <<header, payload, transport, answers>>
  PROVE  Layout'
<1> PICK i, n : i = Coming /\ n = Len(sent)
  OBVIOUS
<1>1. /\ header \in Seq(Cells) /\ payload \in Seq(Cells) /\ wire \in Seq(Cells)
      /\ answers \in Seq(Answers) /\ sent \in Seq(Frames) /\ Len(answers) <= n
  BY DEF SInv, StreamOK, ReaderOK, WriterOK
<1>2. PICK b \in [i .. n + 1 -> Nat] : Laid(b, i, n)
  BY DEF SInv, Layout
<1>3. /\ i \in Nat \ {0} /\ n \in Nat /\ i <= n + 1 /\ f.len \in Nat
      /\ Coming' = i /\ Len(sent') = n + 1 /\ sent'[n + 1] = f
      /\ \A j \in 1 .. n : sent'[j] = sent[j]
  BY <1>1 DEF Coming, Frames
<1>m. /\ i \in i .. n + 1 /\ n + 1 \in i .. n + 1 /\ n + 1 \in i .. n + 2 /\ n + 2 \in i .. n + 2
      /\ i \in i .. n + 2 /\ i # n + 2 /\ n + 1 # n + 2
      /\ \A j \in i .. n + 2 : j # n + 2 => j \in i .. n + 1 /\ j <= n + 1
      /\ \A j \in i .. n + 1 : j \in i .. n + 2 /\ j + 1 \in i .. n + 2 /\ j # n + 2
      /\ \A j \in i .. n + 1 : j # n + 1 => j \in i .. n /\ j \in 1 .. n
                                            /\ j + 1 \in i .. n + 1 /\ j + 1 # n + 2
      /\ n + 1 + 1 = n + 2
  BY <1>3
<1>l. /\ Len(header) \in Nat /\ Len(payload) \in Nat /\ Len(wire) \in Nat
      /\ Len(cells) \in Nat /\ Len(wire') = Len(wire) + Len(cells)
  <2>1. cells \in Seq(Cells) /\ wire' = wire \o cells
    OBVIOUS
  <2>2. /\ Len(header) \in Nat /\ Len(payload) \in Nat /\ Len(wire) \in Nat
        /\ Len(cells) \in Nat
    BY <1>1, <2>1
  <2>3. Len(wire') = Len(wire) + Len(cells)
    <3>1. Len(wire \o cells) = Len(wire) + Len(cells)
      BY <1>1, <2>1, CellsJoined
    <3> QED
      BY <3>1
  <2> QED
    BY <2>2, <2>3
<1>u. PICK u : u = Unread
  OBVIOUS
<1>4. /\ Unread \in Nat /\ Unread = b[n + 1]
      /\ Unread' = Unread + (HeaderSize + f.len)
  <2>1. Unread = Len(header) + Len(payload) + Len(wire) /\ Unread \in Nat
    BY <1>l DEF Unread
  <2>2. Unread' = Len(header) + Len(payload) + (Len(wire) + Len(cells))
    BY <1>l DEF Unread
  <2>3. Unread = b[n + 1]
    BY <1>2 DEF Laid
  <2> QED
    BY <1>l, <2>1, <2>2, <2>3
<1>5. \A p \in Nat \ {0} : p <= Unread => At(p)' = At(p)
  BY <1>1, <1>4 DEF At, Unread
<1>6. \A k \in 1 .. HeaderSize + f.len : At(u + k)' = cells[k]
  <2> SUFFICES ASSUME NEW k \in 1 .. HeaderSize + f.len
               PROVE  At(u + k)' = cells[k]
    OBVIOUS
  <2>p. PICK p, q : p = u + k /\ q = Len(wire) + k
    OBVIOUS
  <2>1. k \in 1 .. Len(cells) /\ k \in Nat \ {0}
    BY <1>3 DEF HeaderSize
  <2>2. u = Len(header) + Len(payload) + Len(wire)
    BY <1>u DEF Unread
  <2>3. /\ p \in Nat /\ q \in Nat /\ ~(p <= Len(header)) /\ ~(p <= Len(header) + Len(payload))
        /\ p - Len(header) - Len(payload) = q
    BY <1>l, <2>p, <2>1, <2>2
  <2>4. header' = header /\ payload' = payload
    OBVIOUS
  <2>5. At(p)' = wire'[q]
    BY <2>3, <2>4 DEF At
  <2>6. wire'[q] = cells[k]
    <3>1. wire' = wire \o cells /\ cells \in Seq(Cells)
      OBVIOUS
    <3> QED
      BY <1>1, <1>l, <2>p, <2>1, <3>1
  <2> QED
    BY <2>p, <2>5, <2>6
<1>w. PICK w : w = HeaderSize + f.len
  OBVIOUS
<1>b. b[n + 1] \in Nat /\ \A j \in i .. n + 1 : b[j] \in Nat
  BY <1>2, <1>m
<1>7. PICK c : /\ c \in [i .. n + 2 -> Nat] /\ c[n + 2] = b[n + 1] + w
               /\ \A j \in i .. n + 1 : c[j] = b[j]
  <2> PICK c : c = [j \in i .. n + 2 |-> IF j = n + 2 THEN b[n + 1] + w ELSE b[j]]
    OBVIOUS
  <2>1. w \in Nat
    BY <1>3, <1>w DEF HeaderSize
  <2>2. b[n + 1] + w \in Nat /\ \A j \in i .. n + 2 : j # n + 2 => b[j] \in Nat
    BY <1>b, <1>m, <2>1
  <2>3. c \in [i .. n + 2 -> Nat]
    BY <2>2
  <2>4. c[n + 2] = b[n + 1] + w
    BY <1>m
  <2>5. \A j \in i .. n + 1 : c[j] = b[j]
    BY <1>m
  <2> QED
    BY <2>3, <2>4, <2>5
<1>8. c[i] = 0
  BY <1>2, <1>7, <1>m DEF Laid
<1>9. \A j \in i .. n + 1 : c[j + 1] = c[j] + HeaderSize + sent'[j].len
  <2> SUFFICES ASSUME NEW j \in i .. n + 1
               PROVE  c[j + 1] = c[j] + HeaderSize + sent'[j].len
    OBVIOUS
  <2>1. CASE j = n + 1
    <3>1. c[j + 1] = c[j] + w /\ sent'[j] = f /\ c[j] \in Nat
      BY <1>3, <1>7, <1>b, <1>m, <2>1
    <3>2. c[j] + w = c[j] + HeaderSize + f.len
      <4>1. \A x, l \in Nat : x + (HeaderSize + l) = x + HeaderSize + l
        BY DEF HeaderSize
      <4> QED
        BY <1>3, <1>w, <3>1, <4>1
    <3> QED
      BY <3>1, <3>2
  <2>2. CASE j # n + 1
    <3>0. j \in i .. n /\ j \in 1 .. n /\ j + 1 \in i .. n + 1
      BY <1>m, <2>2
    <3>1. b[j + 1] = b[j] + HeaderSize + sent[j].len
      BY <1>2, <3>0 DEF Laid
    <3>2. c[j + 1] = b[j + 1] /\ c[j] = b[j] /\ sent'[j] = sent[j]
      BY <1>3, <1>7, <3>0
    <3> QED
      BY <3>1, <3>2
  <2> QED
    BY <2>1, <2>2
<1>10. \A j, k \in i .. n + 2 : j <= k => c[j] <= c[k]
  <2> SUFFICES ASSUME NEW j \in i .. n + 2, NEW k \in i .. n + 2, j <= k
               PROVE  c[j] <= c[k]
    OBVIOUS
  <2>0. \A x, y \in i .. n + 1 : x <= y => b[x] <= b[y]
    BY <1>2 DEF Laid
  <2>1. CASE k # n + 2
    <3>1. k \in i .. n + 1 /\ j \in i .. n + 1
      BY <1>3, <1>m, <2>1
    <3> QED
      BY <1>7, <2>0, <3>1
  <2>2. CASE k = n + 2 /\ j # n + 2
    <3>1. j \in i .. n + 1 /\ j <= n + 1
      BY <1>m, <2>2
    <3>2. b[j] <= b[n + 1] /\ c[j] = b[j] /\ b[j] \in Nat
      BY <1>7, <1>b, <1>m, <2>0, <3>1
    <3>3. w \in Nat /\ b[n + 1] \in Nat
      BY <1>3, <1>b, <1>w DEF HeaderSize
    <3> QED
      BY <1>7, <2>2, <3>2, <3>3
  <2>3. CASE k = n + 2 /\ j = n + 2
    <3>1. c[n + 2] \in Nat
      BY <1>7, <1>m
    <3> QED
      BY <2>3, <3>1
  <2> QED
    BY <2>1, <2>2, <2>3
<1>11. Unread' = c[n + 2]
  BY <1>4, <1>7, <1>w
<1>12. \A j \in i .. n + 1 : \A k \in 1 .. HeaderSize + sent'[j].len :
         c[j] + k <= Unread' => At(c[j] + k)' = FrameCell(sent'[j], j, k)
  <2> SUFFICES ASSUME NEW j \in i .. n + 1, NEW k \in 1 .. HeaderSize + sent'[j].len,
                      c[j] + k <= Unread'
               PROVE  At(c[j] + k)' = FrameCell(sent'[j], j, k)
    OBVIOUS
  <2>1. CASE j = n + 1
    <3>1. c[j] = u /\ k \in 1 .. HeaderSize + f.len /\ sent'[j] = f
      BY <1>3, <1>4, <1>7, <1>m, <1>u, <2>1
    <3>2. At(u + k)' = cells[k]
      BY <1>6, <3>1
    <3>3. cells[k] = FrameCell(f, n + 1, k)
      BY <3>1
    <3> QED
      BY <2>1, <3>1, <3>2, <3>3
  <2>2. CASE j # n + 1
    <3>1. j \in i .. n /\ j \in 1 .. n /\ j + 1 \in i .. n + 1 /\ j \in i .. n + 1
      BY <1>m, <2>2
    <3>2. c[j] = b[j] /\ b[j] \in Nat /\ sent'[j] = sent[j]
      BY <1>3, <1>7, <1>b, <3>1
    <3>3. b[j + 1] = b[j] + HeaderSize + sent[j].len /\ b[j + 1] <= b[n + 1]
      BY <1>2, <1>3, <3>1, <1>m DEF Laid
    <3>4. sent[j] \in Frames
      BY <1>1, <3>1
    <3>5. sent[j].len \in Nat
      BY <3>4 DEF Frames
    <3>6. k \in 1 .. HeaderSize + sent[j].len /\ k \in Nat \ {0} /\ k <= HeaderSize + sent[j].len
      BY <3>2, <3>5 DEF HeaderSize
    <3>p. PICK p : p = b[j] + k
      OBVIOUS
    <3>7. p \in Nat \ {0} /\ p <= Unread
      <4>1. b[n + 1] \in Nat /\ Unread = b[n + 1] /\ b[j + 1] \in Nat
        BY <1>4, <1>b, <3>1
      <4> QED
        <5> PICK x, y, z, l : x = b[j] /\ y = b[j + 1] /\ z = b[n + 1] /\ l = sent[j].len
          OBVIOUS
        <5>1. /\ x \in Nat /\ y \in Nat /\ z \in Nat /\ l \in Nat /\ k \in Nat \ {0}
              /\ y = x + HeaderSize + l /\ y <= z /\ k <= HeaderSize + l
              /\ p = x + k /\ Unread = z
          BY <3>p, <3>2, <3>3, <3>5, <3>6, <4>1
        <5>2. x + k <= z
          BY <5>1, Within
        <5>3. x + k \in Nat \ {0}
          BY <5>1
        <5> QED
          BY <5>1, <5>2, <5>3
    <3>8. At(p) = FrameCell(sent[j], j, k)
      BY <1>2, <3>p, <3>1, <3>6, <3>7 DEF Laid
    <3> QED
      BY <1>5, <3>p, <3>2, <3>7, <3>8
  <2> QED
    BY <2>1, <2>2
<1> QED
  <2>1. n + 1 + 1 = n + 2 /\ c \in [i .. (n + 1) + 1 -> Nat]
    BY <1>7, <1>m
  <2>2. Laid(c, i, n + 1)'
    <3>1. Unread' <= c[n + 1 + 1] /\ Unread' = c[n + 1 + 1]
      <4>1. c[n + 2] \in Nat
        BY <1>7, <1>m
      <4> QED
        BY <1>11, <1>m, <4>1
    <3>2. \A j, k \in i .. n + 1 + 1 : j <= k => c[j] <= c[k]
      BY <1>10, <1>m
    <3> QED
      BY <1>8, <1>9, <1>12, <3>1, <3>2 DEF Laid
  <2> QED
    BY <1>3, <2>1, <2>2 DEF Layout

------------------------------------------------------------------------------
(* The steps of the writer.                                                *)

LEMMA Remainder ==
  ASSUME NEW n \in Nat, NEW m \in Nat \ {0}
  PROVE  n % m \in 0 .. n /\ (n < m => n % m = n)
<1>1. n % m \in 0 .. m - 1
  OBVIOUS
<1>2. n < m => n % m = n
  OBVIOUS
<1> QED
  BY <1>1, <1>2

\* Frames that are sent stay what they were to the frames and answers so far.
LEMMA SentBefore ==
  ASSUME SInv, NEW f \in Frames, sent' = Append(sent, f), refused' = refused
  PROVE  /\ sent' \in Seq(Frames) /\ Len(sent') = Len(sent) + 1
         /\ sent'[Len(sent) + 1] = f
         /\ \A i \in 1 .. Len(sent) : sent'[i] = sent[i]
         /\ \A t : \A k \in 0 .. Len(sent) : Taught(t, k) => Taught(t, k)'
         /\ \A i \in 1 .. Len(sent) : FrameOK(i)'
<1>1. /\ sent \in Seq(Frames) /\ FramesOK
  BY DEF SInv, WriterOK
<1>2. /\ sent' \in Seq(Frames) /\ Len(sent') = Len(sent) + 1
      /\ sent'[Len(sent) + 1] = f
      /\ \A i \in 1 .. Len(sent) : sent'[i] = sent[i]
  BY <1>1
<1>3. ASSUME NEW t, NEW k \in 0 .. Len(sent), Taught(t, k)
      PROVE  Taught(t, k)'
  <2>1. PICK j \in 1 .. k : sent[j].tag = t /\ sent[j].len = Full(t)
    BY <1>3 DEF Taught
  <2>2. sent'[j] = sent[j]
    BY <1>1, <1>2
  <2>3. Full(t)' = Full(t)
    BY DEF Full
  <2> QED
    BY <2>1, <2>2, <2>3 DEF Taught
<1>4. ASSUME NEW i \in 1 .. Len(sent)
      PROVE  FrameOK(i)'
  <2>1. FrameOK(i) /\ sent'[i] = sent[i] /\ i - 1 \in 0 .. Len(sent)
    BY <1>1, <1>2 DEF FramesOK
  <2> PICK t : t = sent[i].tag
    OBVIOUS
  <2>2. Taught(t, i - 1) => Taught(t, i - 1)'
    BY <1>3, <2>1
  <2>3. sent'[i].len = 1 /\ sent'[i].kind = "Table" => t \in refused' \/ Taught(t, i - 1)'
    BY <2>1, <2>2 DEF FrameOK
  <2> QED
    BY <2>1, <2>3 DEF FrameOK, Taught, Full
<1> QED
  BY <1>2, <1>3, <1>4

\* The cells of a frame are those the layout has for it.
FrameOf(frame, f, n) ==
  /\ frame \in Seq(Cells) /\ Len(frame) = HeaderSize + f.len
  /\ \A k \in 1 .. Len(frame) : frame[k] = FrameCell(f, n, k)

LEMMA FrameCells ==
  ASSUME NEW f \in Frames, NEW n \in Nat, NEW cells \in Seq(Cells), Len(cells) = f.len,
         \A k \in 1 .. Len(cells) : cells[k] = BodyCell(f, n, k), f.len < LenRange
  PROVE  FrameOf(Frame(f.tag, cells), f, n)
<1>1. f.tag \in Nat /\ f.len \in Nat
  BY DEF Frames, Tags
<1>2. PICK h, frame : /\ h = <<Cell("tag", f.tag), Cell("len", f.len)>>
                      /\ frame = Frame(f.tag, cells)
  OBVIOUS
<1>3. f.len % LenRange = f.len
  BY <1>1, Remainder, SessionAssumption
<1>4. frame = h \o cells
  BY <1>2, <1>3 DEF Frame
<1>5. /\ h \in Seq(Cells) /\ Len(h) = 2
      /\ h[1] = Cell("tag", f.tag) /\ h[2] = Cell("len", f.len)
  BY <1>1, <1>2 DEF Cells, Cell
<1>6. /\ frame \in Seq(Cells) /\ Len(frame) = Len(h) + Len(cells)
      /\ \A k \in 1 .. Len(h) : frame[k] = h[k]
      /\ \A k \in 1 .. Len(cells) : frame[Len(h) + k] = cells[k]
  BY <1>4, <1>5, CellsJoined
<1>7. ASSUME NEW k \in 1 .. Len(frame)
      PROVE  frame[k] = FrameCell(f, n, k)
  <2>1. CASE k \in {1, 2}
    BY <1>5, <1>6, <2>1 DEF FrameCell
  <2>2. CASE k \notin {1, 2}
    <3>1. k - 2 \in 1 .. Len(cells) /\ k = Len(h) + (k - 2)
      BY <1>1, <1>5, <1>6, <2>2
    <3>2. frame[k] = cells[k - 2]
      BY <1>6, <3>1
    <3> QED
      BY <2>2, <3>1, <3>2 DEF FrameCell
  <2> QED
    BY <2>1, <2>2
<1> QED
  BY <1>2, <1>5, <1>6, <1>7 DEF HeaderSize, FrameOf

\* A frame that is sent as the registry and the encoder have it.
SentStep(f, cells) ==
  /\ transport = "open" /\ sent' = Append(sent, f)
  /\ cells \in Seq(Cells) /\ Len(cells) = f.len
  /\ \A k \in 1 .. Len(cells) : cells[k] = BodyCell(f, Len(sent) + 1, k)
  /\ f.len < LenRange
  /\ wire' = wire \o Frame(f.tag, cells)
  /\ UNCHANGED <<types, refused, rvars, transport>>

LEMMA FrameSent ==
  ASSUME SInv, NEW f \in Frames, NEW cells, SentStep(f, cells),
         NEW n, n = Len(sent) + 1, FrameOK(n)', EncoderKnows',
         encoder' \in [Tags -> [state : {"Fresh", "SchemaDone"}, written : BOOLEAN]]
  PROVE  SInv'
<1>0. /\ transport = "open" /\ sent' = Append(sent, f)
      /\ cells \in Seq(Cells) /\ Len(cells) = f.len
      /\ \A k \in 1 .. Len(cells) : cells[k] = BodyCell(f, Len(sent) + 1, k)
      /\ f.len < LenRange /\ wire' = wire \o Frame(f.tag, cells)
      /\ types' = types /\ refused' = refused /\ transport' = transport
      /\ known' = known /\ decoder' = decoder /\ header' = header /\ target' = target
      /\ payload' = payload /\ eof' = eof /\ answers' = answers /\ ended' = ended
  BY DEF SentStep, rvars
<1>1. /\ sent' \in Seq(Frames) /\ Len(sent') = Len(sent) + 1
      /\ sent'[Len(sent) + 1] = f
      /\ \A i \in 1 .. Len(sent) : sent'[i] = sent[i]
      /\ \A i \in 1 .. Len(sent) : FrameOK(i)'
  BY <1>0, SentBefore
<1>2. /\ sent \in Seq(Frames) /\ answers \in Seq(Answers) /\ wire \in Seq(Cells)
      /\ Len(answers) <= Len(sent) /\ f.tag \in Nat /\ f.len \in Nat
      /\ Len(sent) \in Nat /\ Len(answers) \in Nat
  <2>1. /\ sent \in Seq(Frames) /\ answers \in Seq(Answers) /\ wire \in Seq(Cells)
        /\ Len(answers) <= Len(sent)
    BY DEF SInv, WriterOK, ReaderOK, StreamOK
  <2>2. f.tag \in Nat /\ f.len \in Nat
    BY DEF Frames, Tags
  <2> QED
    BY <2>1, <2>2
<1>3. PICK frame : frame = Frame(f.tag, cells)
  OBVIOUS
<1>4. /\ frame \in Seq(Cells) /\ Len(frame) = HeaderSize + f.len
      /\ \A k \in 1 .. Len(frame) : frame[k] = FrameCell(f, Len(sent) + 1, k)
  <2>1. FrameOf(Frame(f.tag, cells), f, n)
    <3>1. n \in Nat /\ \A k \in 1 .. Len(cells) : cells[k] = BodyCell(f, n, k)
      BY <1>0, <1>2
    <3>2. cells \in Seq(Cells) /\ Len(cells) = f.len /\ f.len < LenRange
      BY <1>0
    <3> QED
      BY <3>1, <3>2, FrameCells
  <2> QED
    BY <1>3, <2>1 DEF FrameOf
<1>5. Layout'
  BY <1>0, <1>3, <1>4, LayoutSent
<1>6. WriterOK' /\ ReaderOK'
  BY <1>0, <1>1, <1>2 DEF SInv, WriterOK, ReaderOK, TypesOK
<1>7. StreamOK'
  <2>1. wire' \in Seq(Cells)
    BY <1>0, <1>2, <1>3, <1>4, CellsJoined
  <2> QED
    BY <1>0, <2>1 DEF SInv, StreamOK
<1>8. FramesOK'
  <2> SUFFICES ASSUME NEW i \in DOMAIN sent'
               PROVE  FrameOK(i)'
    BY DEF FramesOK
  <2>1. i = n \/ i \in 1 .. Len(sent)
    BY <1>1, <1>2
  <2> QED
    BY <1>1, <2>1
<1>9. DecoderKnows'
  <2>1. /\ DOMAIN answers \subseteq 1 .. Len(sent)
        /\ \A t \in Tags : Full(t)' = Full(t)
    BY <1>2 DEF Full
  <2>2. \A j \in DOMAIN answers : sent'[j] = sent[j]
    BY <1>1, <2>1
  <2> QED
    BY <1>0, <2>1, <2>2 DEF SInv, DecoderKnows
<1>10. AnswersOK'
  <2>0. DOMAIN answers \subseteq 1 .. Len(sent)
    BY <1>2
  <2>1. \A j \in DOMAIN answers : sent'[j] = sent[j]
    BY <1>1, <2>0
  <2>2. FramingKept'
    BY <1>0, <1>1, <1>2, <2>1 DEF SInv, AnswersOK, FramingKept
  <2>3. TypesAreIsolated'
    BY <1>0 DEF SInv, AnswersOK, TypesAreIsolated, Late
  <2>4. CategoriesKept'
    <3> SUFFICES ASSUME NEW i \in DOMAIN answers, answers[i].result = "ok",
                        \A j \in 1 .. i : sent'[j].tag = sent'[i].tag => sent'[j].cats = sent'[i].cats
                 PROVE  answers[i].cats = sent'[i].cats
      BY <1>0 DEF CategoriesKept
    <3>1. sent'[i] = sent[i] /\ \A j \in 1 .. i : sent'[j] = sent[j]
      BY <1>2, <2>1
    <3>2. \A j \in 1 .. i : sent[j].tag = sent[i].tag => sent[j].cats = sent[i].cats
      BY <3>1
    <3> QED
      BY <3>1, <3>2 DEF SInv, AnswersOK, CategoriesKept
  <2> QED
    BY <2>2, <2>3, <2>4 DEF AnswersOK
<1>11. EndReason'
  BY <1>0 DEF SInv, EndReason, OverLimit, Finished
<1> QED
  BY <1>5, <1>6, <1>7, <1>8, <1>9, <1>10, <1>11 DEF SInv

LEMMA MessageStep ==
  ASSUME SInv, LengthsFit, MayCall, NEW tag \in 0 .. Len(types.list) - 1,
         NEW m \in MsgLens, EncodeMessage(tag, m)
  PROVE  SInv'
<1> PICK n : n = Len(sent) + 1
  OBVIOUS
<1> PICK cells : cells = [i \in 1 .. m |-> Cell("msg", n)]
  OBVIOUS
<1> PICK f : f = [tag |-> tag, kind |-> "Message", cats |-> NoCats, len |-> m]
  OBVIOUS
<1>1. /\ sent \in Seq(Frames) /\ m \in Nat /\ m < LenRange /\ tag \in Tags /\ n \in Nat
      /\ Type(tag) = Registry[tag + 1]
  BY SessionAssumption DEF SInv, WriterOK, TypesOK, LengthsFit, Tags, Type
<1>2. f \in Frames /\ f.tag = tag /\ f.kind = "Message" /\ f.cats = NoCats /\ f.len = m
  BY <1>1 DEF Frames, NoCats
<1>3. /\ cells \in Seq(Cells) /\ Len(cells) = m
      /\ \A k \in 1 .. Len(cells) : cells[k] = BodyCell(f, n, k)
  <2>1. Cell("msg", n) \in Cells
    BY <1>1 DEF Cells, Cell
  <2> QED
    BY <1>1, <1>2, <2>1 DEF BodyCell
<1>4. SentStep(f, cells)
  BY <1>1, <1>2, <1>3 DEF SentStep, EncodeMessage, MayCall
<1>5. /\ sent' = Append(sent, f) /\ refused' = refused /\ encoder' = encoder
  BY DEF EncodeMessage
<1>6. /\ sent'[n] = f
      /\ \A t : \A k \in 0 .. Len(sent) : Taught(t, k) => Taught(t, k)'
      /\ Len(sent') = n
  BY <1>2, <1>5, SentBefore
<1>7. FrameOK(n)'
  BY <1>1, <1>2, <1>6 DEF FrameOK, EncodeMessage
<1>8. EncoderKnows'
  <2> SUFFICES ASSUME NEW t \in Tags, encoder[t].state = "SchemaDone", t \notin refused
               PROVE  Taught(t, n)'
    BY <1>5, <1>6 DEF SInv, EncoderKnows
  <2>1. Taught(t, Len(sent))
    BY DEF SInv, EncoderKnows
  <2>2. Taught(t, Len(sent)) => \E j \in 1 .. n - 1 : sent'[j].tag = t /\ sent'[j].len = Full(t)
    <3> PICK k : k = Len(sent)
      OBVIOUS
    <3>1. Taught(t, k) => Taught(t, k)'
      BY <1>1, <1>6
    <3> QED
      BY <1>1, <3>1 DEF Taught, Full
  <2> QED
    BY <1>1, <2>1, <2>2 DEF Taught, Full
<1>9. encoder' \in [Tags -> [state : {"Fresh", "SchemaDone"}, written : BOOLEAN]]
  BY <1>5 DEF SInv, WriterOK
<1> QED
  BY <1>2, <1>4, <1>7, <1>8, <1>9, FrameSent

\* The payload of a table, full or with the batch alone.
PayloadOf(cells, tag, cats, n) ==
  /\ cells \in Seq(Cells)
  /\ encoder[tag].state = "Fresh" =>
       /\ Len(cells) = Full(tag) /\ cells[1] = Cell("schema", 0)
       /\ Type(tag).dict => cells[2] = Cell("dict", cats)
       /\ cells[Len(cells)] = Cell("batch", n)
  /\ encoder[tag].state # "Fresh" => Len(cells) = 1 /\ cells[1] = Cell("batch", n)

LEMMA Single ==
  ASSUME NEW s \in Cells
  PROVE  <<s>> \in Seq(Cells) /\ Len(<<s>>) = 1 /\ <<s>>[1] = s /\ <<>> \in Seq(Cells)
OBVIOUS

Two(x, s, d) == x \in Seq(Cells) /\ Len(x) = 2 /\ x[1] = s /\ x[2] = d
Three(x, s, d, b) ==
  x \in Seq(Cells) /\ Len(x) = 3 /\ x[1] = s /\ x[2] = d /\ x[3] = b

LEMMA OneAndOne ==
  ASSUME NEW p \in Seq(Cells), NEW r \in Seq(Cells), Len(p) = 1, Len(r) = 1
  PROVE  Two(p \o r, p[1], r[1])
<1>1. 1 \in 1 .. Len(p) /\ 1 \in 1 .. Len(r)
  OBVIOUS
<1>2. /\ p \o r \in Seq(Cells) /\ Len(p \o r) = Len(p) + Len(r)
      /\ \A k \in 1 .. Len(p) : (p \o r)[k] = p[k]
      /\ \A k \in 1 .. Len(r) : (p \o r)[Len(p) + k] = r[k]
  BY CellsJoined
<1>3. (p \o r)[1] = p[1] /\ (p \o r)[Len(p) + 1] = r[1]
  BY <1>1, <1>2
<1> QED
  BY <1>2, <1>3 DEF Two

LEMMA TwoAndOne ==
  ASSUME NEW y \in Seq(Cells), NEW r \in Seq(Cells), Len(y) = 2, Len(r) = 1
  PROVE  Three(y \o r, y[1], y[2], r[1])
<1>1. 1 \in 1 .. Len(y) /\ 2 \in 1 .. Len(y) /\ 1 \in 1 .. Len(r)
  OBVIOUS
<1>2. /\ y \o r \in Seq(Cells) /\ Len(y \o r) = Len(y) + Len(r)
      /\ \A k \in 1 .. Len(y) : (y \o r)[k] = y[k]
      /\ \A k \in 1 .. Len(r) : (y \o r)[Len(y) + k] = r[k]
  BY CellsJoined
<1>3. (y \o r)[1] = y[1] /\ (y \o r)[2] = y[2] /\ (y \o r)[Len(y) + 1] = r[1]
  BY <1>1, <1>2
<1> QED
  BY <1>2, <1>3 DEF Three

LEMMA Singles ==
  ASSUME NEW s \in Cells, NEW d \in Cells, NEW b \in Cells, NEW x
  PROVE  /\ x = <<s>> \o <<d>> \o <<b>> => Three(x, s, d, b)
         /\ x = <<s>> \o <<>> \o <<b>> => Two(x, s, b)
         /\ x = <<>> \o <<>> \o <<b>> =>
              x \in Seq(Cells) /\ Len(x) = 1 /\ x[1] = b
<1>1. PICK p, q, r, e : p = <<s>> /\ q = <<d>> /\ r = <<b>> /\ e = <<>>
  OBVIOUS
<1>2. /\ p \in Seq(Cells) /\ Len(p) = 1 /\ p[1] = s
      /\ q \in Seq(Cells) /\ Len(q) = 1 /\ q[1] = d
      /\ r \in Seq(Cells) /\ Len(r) = 1 /\ r[1] = b
      /\ e \in Seq(Cells) /\ Len(e) = 0
  BY <1>1, Single
<1>3. x = p \o q \o r => Three(x, s, d, b)
  <2>1. PICK y : y = p \o q
    OBVIOUS
  <2>2. Two(y, s, d)
    BY <1>2, <2>1, OneAndOne
  <2>3. y \in Seq(Cells) /\ Len(y) = 2 /\ y[1] = s /\ y[2] = d
    BY <2>2 DEF Two
  <2>4. Three(y \o r, s, d, b)
    BY <1>2, <2>3, TwoAndOne
  <2> QED
    BY <2>1, <2>4
<1>4. x = p \o e \o r => Two(x, s, b)
  <2>1. p \o e = p
    BY <1>1, <1>2
  <2>2. Two(p \o r, s, b)
    BY <1>2, OneAndOne
  <2> QED
    BY <2>1, <2>2
<1>5. x = e \o e \o r => x \in Seq(Cells) /\ Len(x) = 1 /\ x[1] = b
  <2>1. e \o e = e
    BY <1>1, <1>2
  <2>2. e \o r = r
    BY <1>1, <1>2
  <2> QED
    BY <1>2, <2>1, <2>2
<1> QED
  BY <1>1, <1>3, <1>4, <1>5

LEMMA TablePayload ==
  ASSUME SInv, NEW tag \in Tags, Registry[tag + 1] = Type(tag), NEW cats \in Nat,
         NEW n \in Nat
  PROVE  PayloadOf(Prefix(tag, cats) \o <<Cell("batch", n)>>, tag, cats, n)
<1> PICK e : e = encoder[tag]
  OBVIOUS
<1>1. e \in [state : {"Fresh", "SchemaDone"}, written : BOOLEAN]
  BY DEF SInv, WriterOK
<1>2. /\ e.state = "Fresh" => ~e.written
      /\ e.state # "Fresh" => e.state = "SchemaDone" /\ e.written = Type(tag).dict
  BY <1>1 DEF SInv, EncoderKnows
<1>3. PICK cells, s, d, b : /\ s = Cell("schema", 0) /\ d = Cell("dict", cats)
                            /\ b = Cell("batch", n)
                            /\ cells = Prefix(tag, cats) \o <<Cell("batch", n)>>
  OBVIOUS
<1>t. s \in Cells /\ d \in Cells /\ b \in Cells
  BY <1>3 DEF Cells, Cell
<1>4. CASE e.state = "Fresh" /\ Type(tag).dict
  <2>1. cells = <<s>> \o <<d>> \o <<b>>
    BY <1>2, <1>3, <1>4 DEF Prefix
  <2>3. cells \in Seq(Cells) /\ Len(cells) = 3 /\ cells[1] = s /\ cells[2] = d /\ cells[3] = b
    <3>1. Three(cells, s, d, b)
      BY <1>t, <2>1, Singles
    <3> QED
      BY <3>1 DEF Three
  <2> QED
    BY <1>3, <1>4, <2>3 DEF Full, PayloadOf
<1>5. CASE e.state = "Fresh" /\ ~Type(tag).dict
  <2>1. cells = <<s>> \o <<>> \o <<b>>
    BY <1>2, <1>3, <1>5 DEF Prefix
  <2>3. cells \in Seq(Cells) /\ Len(cells) = 2 /\ cells[1] = s /\ cells[2] = b
    <3>1. Two(cells, s, b)
      BY <1>t, <2>1, Singles
    <3> QED
      BY <3>1 DEF Two
  <2> QED
    BY <1>3, <1>5, <2>3 DEF Full, PayloadOf
<1>6. CASE e.state # "Fresh"
  <2>1. cells = <<>> \o <<>> \o <<b>>
    BY <1>2, <1>3, <1>6 DEF Prefix
  <2>3. cells \in Seq(Cells) /\ Len(cells) = 1 /\ cells[1] = b
    BY <1>t, <2>1, Singles
  <2> QED
    BY <1>3, <1>6, <2>3 DEF PayloadOf
<1> QED
  BY <1>4, <1>5, <1>6

\* The encoder takes the prefix for sent, whether the table is sent or refused.
LEMMA EncoderStep ==
  ASSUME SInv, NEW tag \in Tags, Registry[tag + 1] = Type(tag),
         Registry[tag + 1].dict \in BOOLEAN,
         encoder' = [encoder EXCEPT ![tag] = Encoded(tag)],
         NEW k \in Nat, k = Len(sent'),
         \A t \in Tags : t \in refused => t \in refused',
         \A t \in Tags : Taught(t, Len(sent)) => Taught(t, k)',
         encoder[tag].state = "Fresh" => tag \in refused' \/ Taught(tag, k)'
  PROVE  /\ encoder' \in [Tags -> [state : {"Fresh", "SchemaDone"}, written : BOOLEAN]]
         /\ EncoderKnows'
<1>1. /\ encoder \in [Tags -> [state : {"Fresh", "SchemaDone"}, written : BOOLEAN]]
      /\ EncoderKnows
  BY DEF SInv, WriterOK
<1>2. PICK e : e = Encoded(tag)
  OBVIOUS
<1>3. /\ e.state = "SchemaDone" /\ e.written = Registry[tag + 1].dict
      /\ e \in [state : {"Fresh", "SchemaDone"}, written : BOOLEAN]
  BY <1>2 DEF Encoded
<1>4. /\ encoder' \in [Tags -> [state : {"Fresh", "SchemaDone"}, written : BOOLEAN]]
      /\ encoder'[tag] = e
      /\ \A t \in Tags \ {tag} : encoder'[t] = encoder[t]
  BY <1>1, <1>2, <1>3
<1>5. ASSUME NEW t \in Tags
      PROVE  /\ encoder'[t].state = "Fresh" => ~encoder'[t].written
             /\ encoder'[t].state = "SchemaDone" =>
                  /\ encoder'[t].written = Registry[t + 1].dict
                  /\ t \in refused' \/ Taught(t, k)'
  <2>1. CASE t = tag
    <3>1. encoder[tag].state = "SchemaDone" => tag \in refused' \/ Taught(tag, k)'
      BY <1>1 DEF EncoderKnows
    <3>2. encoder[tag].state \in {"Fresh", "SchemaDone"}
      BY <1>1
    <3> QED
      BY <1>3, <1>4, <2>1, <3>1, <3>2
  <2>2. CASE t # tag
    BY <1>1, <1>4, <2>2 DEF EncoderKnows
  <2> QED
    BY <2>1, <2>2
<1>6. EncoderKnows'
  BY <1>5 DEF EncoderKnows
<1> QED
  BY <1>4, <1>6

LEMMA TableStep ==
  ASSUME SInv, LengthsFit, MayCall, NEW tag \in 0 .. Len(types.list) - 1,
         NEW t \in Tables, EncodeTable(tag, t)
  PROVE  SInv'
<1> PICK n : n = Len(sent) + 1
  OBVIOUS
<1>1. /\ sent \in Seq(Frames) /\ tag \in Tags /\ n \in Nat /\ tag + 1 \in DOMAIN Registry
      /\ Type(tag) = Registry[tag + 1]
  BY SessionAssumption DEF SInv, WriterOK, TypesOK, Tags, Type
<1>2. /\ Type(tag).dict \in BOOLEAN /\ Type(tag).kind = "Table"
      /\ t.cats \in Nat \ {0} /\ t.sound \in BOOLEAN
  <2>1. PICK R : R = [name : STRING, kind : {"Message", "Table"}, dict : BOOLEAN]
    OBVIOUS
  <2>2. Registry \in Seq(R)
    BY <2>1, SessionAssumption
  <2>3. Registry[tag + 1] \in R
    BY <1>1, <2>2
  <2>4. Registry[tag + 1].dict \in BOOLEAN
    BY <2>1, <2>3
  <2>5. t \in [cats : Nat \ {0}, sound : BOOLEAN]
    BY SessionAssumption
  <2> QED
    BY <1>1, <2>4, <2>5 DEF EncodeTable
<1>3. PICK cells : cells = Prefix(tag, t.cats) \o <<Cell("batch", n)>>
  OBVIOUS
<1>4. /\ PayloadOf(cells, tag, t.cats, n)
      /\ cells \in Seq(Cells)
      /\ encoder[tag].state = "Fresh" => Len(cells) = Full(tag)
      /\ encoder[tag].state # "Fresh" => Len(cells) = 1
      /\ Full(tag) \in {2, 3} /\ Len(cells) \in {1, Full(tag)} /\ Len(cells) < LenRange
  <2>1. PayloadOf(cells, tag, t.cats, n)
    BY <1>1, <1>2, <1>3, TablePayload
  <2>2. /\ cells \in Seq(Cells)
        /\ encoder[tag].state = "Fresh" => Len(cells) = Full(tag)
        /\ encoder[tag].state # "Fresh" => Len(cells) = 1
    BY <2>1 DEF PayloadOf
  <2>3. Full(tag) \in {2, 3} /\ LenRange \in Nat /\ LenRange > 3
    BY SessionAssumption DEF Full, LengthsFit
  <2>4. Len(cells) \in {1, Full(tag)}
    BY <2>2
  <2>5. Len(cells) < LenRange
    <3>1. Full(tag) < LenRange /\ 1 < LenRange
      BY <2>3
    <3> QED
      BY <2>4, <3>1
  <2> QED
    BY <2>1, <2>2, <2>3, <2>4, <2>5
<1>5. /\ encoder' = [encoder EXCEPT ![tag] = Encoded(tag)]
      /\ types' = types /\ transport' = transport /\ transport = "open"
      /\ UNCHANGED rvars
  BY DEF EncodeTable, MayCall
<1>6. CASE t.sound
  <2>f. PICK f : f = [tag |-> tag, kind |-> "Table",
                      cats |-> IF Type(tag).dict THEN t.cats ELSE NoCats, len |-> Len(cells)]
    OBVIOUS
  <2>2. /\ f.tag = tag /\ f.kind = "Table" /\ f.len = Len(cells)
        /\ f.cats = IF Type(tag).dict THEN t.cats ELSE NoCats
    BY <2>f
  <2>3. f \in Frames
    <3>1. /\ (IF Type(tag).dict THEN t.cats ELSE NoCats) \in Nat
          /\ Len(cells) \in Nat
      BY <1>2, <1>4 DEF NoCats
    <3> QED
      BY <1>1, <2>f, <3>1 DEF Frames
  <2>4. \A k \in 1 .. Len(cells) : cells[k] = BodyCell(f, n, k)
    <3>1. CASE encoder[tag].state = "Fresh" /\ Type(tag).dict
      <4>1. Len(cells) = 3
        BY <1>1, <1>4, <3>1 DEF Full
      <4>2. cells[1] = Cell("schema", 0) /\ cells[2] = Cell("dict", t.cats)
            /\ cells[3] = Cell("batch", n)
        BY <1>4, <3>1, <4>1 DEF PayloadOf
      <4> QED
        BY <2>2, <3>1, <4>1, <4>2 DEF BodyCell
    <3>2. CASE encoder[tag].state = "Fresh" /\ ~Type(tag).dict
      <4>1. Len(cells) = 2
        BY <1>1, <1>4, <3>2 DEF Full
      <4>2. cells[1] = Cell("schema", 0) /\ cells[2] = Cell("batch", n)
        BY <1>4, <3>2, <4>1 DEF PayloadOf
      <4> QED
        BY <2>2, <3>2, <4>1, <4>2 DEF BodyCell
    <3>3. CASE encoder[tag].state # "Fresh"
      <4>1. Len(cells) = 1 /\ cells[1] = Cell("batch", n)
        BY <1>4, <3>3 DEF PayloadOf
      <4> QED
        BY <2>2, <4>1 DEF BodyCell
    <3> QED
      BY <3>1, <3>2, <3>3
  <2>1. /\ sent' = Append(sent, f) /\ refused' = refused
        /\ wire' = wire \o Frame(tag, cells)
    <3>1. /\ encodeBuf' = ClearedBuf \o Frame(tag, cells) /\ wire' = wire \o encodeBuf'
          /\ sent' = Append(sent, f) /\ refused' = refused
      BY <1>1, <1>3, <1>6, <2>f DEF EncodeTable
    <3>2. FrameOf(Frame(tag, cells), f, n)
      BY <1>1, <1>4, <2>2, <2>3, <2>4, FrameCells
    <3>3. PICK fr : fr = Frame(tag, cells) /\ fr \in Seq(Cells)
      BY <3>2 DEF FrameOf
    <3>4. <<>> \o fr = fr
      BY <3>3
    <3> QED
      BY <3>1, <3>3, <3>4 DEF ClearedBuf
  <2>5. SentStep(f, cells)
    BY <1>1, <1>4, <1>5, <2>1, <2>2, <2>4 DEF SentStep
  <2>6. /\ sent'[n] = f /\ Len(sent') = n
        /\ \A u : \A k \in 0 .. Len(sent) : Taught(u, k) => Taught(u, k)'
    BY <2>1, <2>3, SentBefore
  <2>7. \A u \in Tags : Taught(u, Len(sent)) => Taught(u, n)'
    <3> SUFFICES ASSUME NEW u \in Tags, Taught(u, Len(sent)) PROVE Taught(u, n)'
      OBVIOUS
    <3> PICK k : k = Len(sent)
      OBVIOUS
    <3>1. Taught(u, k)'
      BY <1>1, <2>6
    <3> QED
      BY <1>1, <3>1 DEF Taught
  <2>8. encoder[tag].state = "Fresh" => Taught(tag, n)'
    <3>1. encoder[tag].state = "Fresh" => sent'[n].tag = tag /\ sent'[n].len = Full(tag)
      BY <1>4, <2>2, <2>6
    <3>2. n \in 1 .. n
      BY <1>1
    <3> QED
      BY <3>1, <3>2 DEF Taught, Full
  <2>9. /\ encoder' \in [Tags -> [state : {"Fresh", "SchemaDone"}, written : BOOLEAN]]
        /\ EncoderKnows'
    BY <1>1, <1>2, <1>5, <2>1, <2>6, <2>7, <2>8, EncoderStep
  <2>10. FrameOK(n)'
    <3>1. f.len = 1 => tag \in refused \/ Taught(tag, n - 1)'
      <4> SUFFICES ASSUME f.len = 1, tag \notin refused PROVE Taught(tag, n - 1)'
        OBVIOUS
      <4>1. encoder[tag].state = "SchemaDone"
        BY <1>1, <1>4, <2>2, <2>4 DEF SInv, WriterOK
      <4>2. Taught(tag, Len(sent))
        BY <1>1, <4>1 DEF SInv, EncoderKnows
      <4> PICK k : k = Len(sent)
        OBVIOUS
      <4>3. Taught(tag, k)' /\ k = n - 1
        BY <1>1, <2>6, <4>2
      <4> QED
        BY <4>3
    <3> QED
      <4>1. /\ sent'[n] = f /\ f.tag = tag /\ f.kind = "Table" /\ refused' = refused
            /\ f.len \in {1, Full(tag)} /\ Registry[tag + 1].kind = "Table"
        BY <1>1, <1>2, <1>4, <2>1, <2>2, <2>6
      <4>2. /\ Registry[tag + 1].dict => f.cats # NoCats
            /\ ~Registry[tag + 1].dict => f.cats = NoCats
        BY <1>1, <1>2, <2>2 DEF NoCats
      <4> QED
        BY <3>1, <4>1, <4>2 DEF FrameOK, Taught, Full
  <2> QED
    BY <2>3, <2>5, <2>9, <2>10, FrameSent
<1>7. CASE ~t.sound
  <2>1. /\ refused' = refused \cup {tag} /\ sent' = sent /\ wire' = wire
    BY <1>7 DEF EncodeTable
  <2>2. /\ known' = known /\ decoder' = decoder /\ header' = header /\ target' = target
        /\ payload' = payload /\ eof' = eof /\ answers' = answers /\ ended' = ended
    BY <1>5 DEF rvars
  <2> PICK k : k = Len(sent)
    OBVIOUS
  <2>3. \A u : \A m \in Nat : Taught(u, m) <=> Taught(u, m)'
    BY <2>1 DEF Taught, Full
  <2>4. /\ encoder' \in [Tags -> [state : {"Fresh", "SchemaDone"}, written : BOOLEAN]]
        /\ EncoderKnows'
    <3>1. k \in Nat /\ k = Len(sent')
      BY <1>1, <2>1
    <3>2. \A u \in Tags : Taught(u, Len(sent)) => Taught(u, k)'
      BY <2>3, <3>1
    <3> QED
      BY <1>1, <1>2, <1>5, <2>1, <3>1, <3>2, EncoderStep
  <2>5. FramesOK'
    BY <1>1, <2>1 DEF SInv, FramesOK, FrameOK, Taught, Full
  <2>6. Layout'
    <3>1. Unread' = Unread /\ \A p \in Nat \ {0} : p <= Unread' => At(p)' = At(p)
      BY <1>5, <2>1, <2>2 DEF Unread, At
    <3>2. Unread \in Nat
      BY DEF SInv, StreamOK, Unread
    <3> QED
      BY <1>5, <2>1, <2>2, <3>1, <3>2, LayoutKept
  <2>7. DecoderKnows'
    BY <2>1, <2>2 DEF SInv, DecoderKnows, Full
  <2>8. AnswersOK'
    BY <2>1, <2>2 DEF SInv, AnswersOK, FramingKept, TypesAreIsolated, CategoriesKept, Late
  <2>9. EndReason'
    BY <1>5, <2>1, <2>2 DEF SInv, EndReason, OverLimit, Finished, Unread
  <2>10. WriterOK' /\ ReaderOK' /\ StreamOK'
    BY <1>5, <2>1, <2>2, <2>4 DEF SInv, WriterOK, ReaderOK, StreamOK, TypesOK
  <2> QED
    BY <2>4, <2>5, <2>6, <2>7, <2>8, <2>9, <2>10 DEF SInv
<1> QED
  BY <1>6, <1>7

LEMMA UnreadType ==
  ASSUME SInv
  PROVE  /\ Unread \in Nat /\ Len(header) \in Nat /\ Len(payload) \in Nat /\ Len(wire) \in Nat
         /\ Unread = Len(header) + Len(payload) + Len(wire)
         /\ header \in Seq(Cells) /\ payload \in Seq(Cells) /\ wire \in Seq(Cells)
         /\ target \in Nat
BY DEF SInv, StreamOK, ReaderOK, Unread

LEMMA RegisterStep ==
  ASSUME SInv, WriterRegister
  PROVE  SInv'
<1> PICK n, type : n = Len(types.list) /\ type = Registry[n + 1]
  OBVIOUS
<1> PICK R : R = {Registry[i] : i \in DOMAIN Registry}
  OBVIOUS
<1>1. /\ types.list \in Seq(R) /\ n \in Nat /\ n < Len(Registry)
      /\ \A i \in DOMAIN types.list : types.list[i] = Registry[i]
      /\ \A m \in DOMAIN types.index : types.index[m] \in 0 .. n - 1
  BY DEF SInv, WriterOK, TypesOK, WriterRegister
<1>2. /\ encoder' = encoder /\ sent' = sent /\ refused' = refused
      /\ wire' = wire /\ transport' = transport
      /\ known' = known /\ decoder' = decoder /\ header' = header /\ target' = target
      /\ payload' = payload /\ eof' = eof /\ answers' = answers /\ ended' = ended
  BY DEF WriterRegister, rvars
<1>3. n % TagRange \in 0 .. n
  BY <1>1, Remainder, SessionAssumption
<1>4. Len(Registry) \in Nat /\ DOMAIN Registry = 1 .. Len(Registry)
  BY SessionAssumption
<1>5. type \in R
  BY <1>1, <1>4
<1>6. PICK x : x = Append(types.list, type)
  OBVIOUS
<1>7. /\ types'.list = x
      /\ DOMAIN types'.index = DOMAIN types.index \cup {type.name}
      /\ \A m \in DOMAIN types'.index :
           types'.index[m] = IF m = type.name THEN n % TagRange ELSE types.index[m]
  <2>1. types' = Register(types.list, types.index, type)
    BY DEF WriterRegister
  <2>2. /\ types'.list = Append(types.list, type)
        /\ types'.index = [m \in DOMAIN types.index \cup {type.name} |->
                             IF m = type.name THEN n % TagRange ELSE types.index[m]]
    BY <2>1 DEF Register
  <2> QED
    BY <1>6, <2>2
<1>8. /\ x \in Seq(R) /\ Len(x) = n + 1 /\ x[n + 1] = type
      /\ \A i \in 1 .. n : x[i] = types.list[i]
  BY <1>1, <1>5, <1>6
<1>9. TypesOK'
  <2>1. types'.list \in Seq(R) /\ Len(types'.list) <= Len(Registry)
    BY <1>1, <1>4, <1>7, <1>8
  <2>2. \A i \in DOMAIN types'.list : types'.list[i] = Registry[i]
    <3> SUFFICES ASSUME NEW i \in 1 .. n + 1 PROVE x[i] = Registry[i]
      BY <1>7, <1>8
    <3>1. i = n + 1 \/ i \in 1 .. n
      BY <1>1
    <3>2. DOMAIN types.list = 1 .. n
      BY <1>1
    <3> QED
      BY <1>1, <1>8, <3>1, <3>2
  <2>3. \A m \in DOMAIN types'.index : types'.index[m] \in 0 .. Len(types'.list) - 1
    <3> SUFFICES ASSUME NEW m \in DOMAIN types'.index PROVE types'.index[m] \in 0 .. n
      BY <1>1, <1>7, <1>8
    <3>1. CASE m = type.name
      BY <1>3, <1>7, <3>1
    <3>2. CASE m # type.name
      <4>1. types.index[m] \in 0 .. n - 1
        BY <1>1, <1>7, <3>2
      <4> QED
        BY <1>1, <1>7, <3>2, <4>1
    <3> QED
      BY <3>1, <3>2
  <2> QED
    BY <2>1, <2>2, <2>3 DEF TypesOK
<1> QED
  <2>1. WriterOK' /\ ReaderOK' /\ StreamOK'
    BY <1>2, <1>9 DEF SInv, WriterOK, ReaderOK, StreamOK
  <2>2. Layout'
    <3>1. Unread' = Unread /\ Unread \in Nat
      BY <1>2, UnreadType DEF Unread
    <3>2. \A p \in Nat \ {0} : p <= Unread' => At(p)' = At(p)
      BY <1>2 DEF At
    <3> QED
      BY <1>2, <3>1, <3>2, LayoutKept
  <2>5. EndReason'
    BY <1>2 DEF SInv, EndReason, OverLimit, Finished, Unread
  <2>3. FramesOK' /\ EncoderKnows'
    BY <1>2 DEF SInv, FramesOK, FrameOK, EncoderKnows, Taught, Full
  <2>4. DecoderKnows' /\ AnswersOK'
    BY <1>2 DEF SInv, DecoderKnows, Full, AnswersOK, FramingKept, TypesAreIsolated,
                CategoriesKept, Late
  <2> QED
    BY <2>1, <2>2, <2>3, <2>4, <2>5 DEF SInv

\* A step that changes neither what was sent nor what was answered.
LEMMA StillKnown ==
  ASSUME SInv, UNCHANGED <<types, encoder, sent, refused, answers, decoder>>
  PROVE  WriterOK' /\ FramesOK' /\ EncoderKnows' /\ DecoderKnows' /\ AnswersOK'
<1>1. WriterOK'
  BY DEF SInv, WriterOK, TypesOK
<1>2. FramesOK' /\ EncoderKnows'
  BY DEF SInv, FramesOK, FrameOK, EncoderKnows, Taught, Full
<1>3. DecoderKnows' /\ AnswersOK'
  BY DEF SInv, DecoderKnows, Full, AnswersOK, FramingKept, TypesAreIsolated,
         CategoriesKept, Late
<1> QED
  BY <1>1, <1>2, <1>3

LEMMA ShutdownStep ==
  ASSUME SInv, Shutdown
  PROVE  SInv'
<1>1. /\ types' = types /\ encoder' = encoder /\ sent' = sent /\ refused' = refused
      /\ wire' = wire /\ transport = "open" /\ transport' = "ended"
      /\ known' = known /\ decoder' = decoder /\ header' = header /\ target' = target
      /\ payload' = payload /\ eof' = eof /\ answers' = answers /\ ended' = ended
  BY DEF Shutdown, rvars, wvars
<1>2. WriterOK' /\ FramesOK' /\ EncoderKnows' /\ DecoderKnows' /\ AnswersOK'
  BY <1>1, StillKnown
<1>3. ReaderOK' /\ StreamOK'
  BY <1>1 DEF SInv, ReaderOK, StreamOK
<1>4. Layout'
  <2>1. Unread' = Unread /\ Unread \in Nat
    BY <1>1, UnreadType DEF Unread
  <2>2. \A p \in Nat \ {0} : p <= Unread' => At(p)' = At(p)
    BY <1>1 DEF At
  <2> QED
    BY <1>1, <2>1, <2>2, LayoutKept
<1>5. EndReason'
  BY <1>1 DEF SInv, EndReason, OverLimit, Finished
<1> QED
  BY <1>2, <1>3, <1>4, <1>5 DEF SInv

LEMMA ResetStep ==
  ASSUME SInv, Reset
  PROVE  SInv'
<1>1. /\ types' = types /\ encoder' = encoder /\ sent' = sent /\ refused' = refused
      /\ transport' = "reset"
      /\ known' = known /\ decoder' = decoder /\ header' = header /\ target' = target
      /\ payload' = payload /\ eof' = eof /\ answers' = answers /\ ended' = ended
  BY DEF Reset, rvars, wvars
<1>2. PICK n \in 0 .. Len(wire) : wire' = SubSeq(wire, 1, n)
  BY DEF Reset
<1>3. /\ wire' \in Seq(Cells) /\ Len(wire') = n
      /\ \A k \in 1 .. n : wire'[k] = wire[k]
  BY <1>2, UnreadType
<1>4. WriterOK' /\ FramesOK' /\ EncoderKnows' /\ DecoderKnows' /\ AnswersOK'
  BY <1>1, StillKnown
<1>5. ReaderOK' /\ StreamOK'
  BY <1>1, <1>3 DEF SInv, ReaderOK, StreamOK
<1>6. Layout'
  <2>1. Unread' \in Nat /\ Unread' <= Unread /\ Unread' = Len(header) + Len(payload) + n
    <3>1. Unread' = Len(header) + Len(payload) + n
      BY <1>1, <1>3 DEF Unread
    <3>2. n \in Nat /\ n <= Len(wire)
      BY UnreadType
    <3> QED
      BY <3>1, <3>2, UnreadType
  <2>2. ASSUME NEW p \in Nat \ {0}, p <= Unread'
        PROVE  At(p)' = At(p)
    <3>1. CASE p <= Len(header) + Len(payload)
      BY <1>1, UnreadType, <3>1 DEF At
    <3>2. CASE ~(p <= Len(header) + Len(payload))
      <4>1. p - Len(header) - Len(payload) \in 1 .. n /\ ~(p <= Len(header))
        BY <2>1, <2>2, <3>2, UnreadType
      <4>2. wire'[p - Len(header) - Len(payload)] = wire[p - Len(header) - Len(payload)]
        BY <1>3, <4>1
      <4> QED
        BY <1>1, <3>2, <4>1, <4>2 DEF At
    <3> QED
      BY <3>1, <3>2
  <2> QED
    BY <1>1, <2>1, <2>2, LayoutKept
<1>7. EndReason'
  BY <1>1 DEF EndReason
<1> QED
  BY <1>4, <1>5, <1>6, <1>7 DEF SInv

------------------------------------------------------------------------------
(* The steps of the reader.                                                *)

\* A reader that has nothing left, of a stream that is not lost, has answered
\* every frame; in the middle of one it has not.
LEMMA NothingLeft ==
  ASSUME SInv, transport # "reset"
  PROVE  /\ Unread = 0 => Len(answers) = Len(sent)
         /\ wire = <<>> /\ (InHeader \/ InPayload) => Unread = 0
<1> PICK i, n : i = Coming /\ n = Len(sent)
  OBVIOUS
<1>1. PICK b \in [i .. n + 1 -> Nat] : Laid(b, i, n)
  BY DEF SInv, Layout
<1>2. /\ i \in Nat \ {0} /\ n \in Nat /\ i <= n + 1 /\ i = Len(answers) + 1
      /\ Len(answers) \in Nat /\ sent \in Seq(Frames)
  BY DEF SInv, ReaderOK, WriterOK, Coming
<1>3. Unread = b[n + 1] /\ b[i] = 0
  BY <1>1 DEF Laid
<1>4. i <= n => sent[i].len \in Nat /\ Unread >= HeaderSize + sent[i].len
  <2> SUFFICES ASSUME i <= n PROVE sent[i].len \in Nat /\ Unread >= HeaderSize + sent[i].len
    OBVIOUS
  <2>1. i \in i .. n /\ i + 1 \in i .. n + 1 /\ n + 1 \in i .. n + 1 /\ i + 1 <= n + 1
    BY <1>2
  <2>2. b[i + 1] = b[i] + HeaderSize + sent[i].len /\ b[i + 1] <= b[n + 1]
    BY <1>1, <2>1 DEF Laid
  <2>3. sent[i].len \in Nat
    BY ComingFrame
  <2> QED
    BY <1>3, <2>2, <2>3 DEF HeaderSize
<1>5. Unread = 0 => Len(answers) = Len(sent)
  <2>1. i <= n => Unread # 0
    BY <1>4, UnreadType DEF HeaderSize
  <2> QED
    BY <1>2, <2>1
<1>6. i > n => Unread = 0
  BY <1>2, <1>3
<1>7. ASSUME wire = <<>>, InHeader, i <= n PROVE FALSE
  <2>1. Unread < HeaderSize
    BY <1>7, UnreadType DEF InHeader, SInv, StreamOK, HeaderSize
  <2> QED
    BY <1>4, <1>7, <2>1, UnreadType DEF HeaderSize
<1>8. ASSUME wire = <<>>, InPayload, i <= n PROVE FALSE
  <2>1. Len(header) = HeaderSize /\ header[2].v = target /\ Len(payload) < target
    BY <1>8, UnreadType DEF InPayload, SInv, StreamOK
  <2>2. sent[i].len = target
    BY <2>1, HeaderAtHand
  <2>3. Unread = HeaderSize + Len(payload)
    BY <1>8, <2>1, UnreadType DEF HeaderSize
  <2> QED
    BY <1>4, <1>8, <2>1, <2>2, <2>3, UnreadType DEF HeaderSize
<1> QED
  BY <1>2, <1>5, <1>6, <1>7, <1>8

LEMMA ReadSomeStep ==
  ASSUME SInv, ReadSome
  PROVE  SInv'
<1>n. PICK n \in 1 .. Wanted :
       /\ n <= Len(wire)
       /\ wire' = SubSeq(wire, n + 1, Len(wire))
       /\ IF InHeader
          THEN header' = header \o SubSeq(wire, 1, n) /\ UNCHANGED payload
          ELSE payload' = payload \o SubSeq(wire, 1, n) /\ UNCHANGED header
  BY DEF ReadSome
<1>1. /\ types' = types /\ encoder' = encoder /\ sent' = sent /\ refused' = refused
      /\ transport' = transport /\ known' = known /\ decoder' = decoder /\ target' = target
      /\ eof' = eof /\ ~eof /\ answers' = answers /\ ended' = ended
      /\ (InHeader \/ InPayload)
  BY DEF ReadSome, wvars
<1>2. WriterOK' /\ FramesOK' /\ EncoderKnows' /\ DecoderKnows' /\ AnswersOK'
  BY <1>1, StillKnown
<1>3. n \in Nat \ {0} /\ n <= Len(wire)
  <2>1. Wanted \in Int
    BY UnreadType DEF Wanted, HeaderSize
  <2> QED
    BY <1>n, <2>1
<1>h. PICK h, m, w : h = Len(header) /\ m = Len(payload) /\ w = Len(wire)
  OBVIOUS
<1>t. /\ h \in Nat /\ m \in Nat /\ w \in Nat /\ n <= w /\ Unread = h + m + w
      /\ n \in Nat \ {0} /\ header \in Seq(Cells) /\ payload \in Seq(Cells)
      /\ wire \in Seq(Cells) /\ target \in Nat
  BY <1>3, <1>h, UnreadType
<1>4. PICK taken : taken = SubSeq(wire, 1, n)
  OBVIOUS
<1>5. /\ taken \in Seq(Cells) /\ Len(taken) = n /\ \A k \in 1 .. n : taken[k] = wire[k]
      /\ wire' \in Seq(Cells) /\ Len(wire') = w - n
      /\ \A k \in 1 .. w - n : wire'[k] = wire[k + n]
  <2>1. taken \in Seq(Cells) /\ Len(taken) = n /\ \A k \in 1 .. n : taken[k] = wire[k]
    BY <1>4, <1>t, <1>h
  <2>2. wire' = SubSeq(wire, n + 1, w)
    BY <1>n, <1>h
  <2>3. wire' \in Seq(Cells) /\ Len(wire') = w - n
    BY <1>t, <1>h, <2>2
  <2>4. \A k \in 1 .. w - n : wire'[k] = wire[k + n]
    BY <1>t, <1>h, <2>2
  <2> QED
    BY <2>1, <2>3, <2>4
<1>6. CASE InHeader
  <2>1. /\ header' = header \o taken /\ payload' = payload /\ payload = <<>>
        /\ target = 0 /\ Len(header) < HeaderSize /\ Len(payload) = 0
    BY <1>n, <1>4, <1>6 DEF InHeader, SInv, StreamOK
  <2>2. /\ header' \in Seq(Cells) /\ Len(header') = Len(header) + n
        /\ \A k \in 1 .. Len(header) : header'[k] = header[k]
        /\ \A k \in 1 .. n : header'[Len(header) + k] = taken[k]
    <3>1. taken \in Seq(Cells) /\ header \in Seq(Cells)
      BY <1>5, <1>t
    <3>2. /\ header \o taken \in Seq(Cells) /\ Len(header \o taken) = Len(header) + Len(taken)
          /\ \A k \in 1 .. Len(header) : (header \o taken)[k] = header[k]
          /\ \A k \in 1 .. Len(taken) : (header \o taken)[Len(header) + k] = taken[k]
      BY <3>1, CellsJoined
    <3> QED
      BY <1>5, <2>1, <3>2
  <2>3. Len(header') <= HeaderSize
    BY <1>n, <1>6, <2>2, UnreadType DEF Wanted, HeaderSize
  <2>4. ReaderOK' /\ StreamOK'
    BY <1>1, <1>5, <2>1, <2>2, <2>3 DEF SInv, ReaderOK, StreamOK
  <2>u. Len(header') = h + n /\ m = 0 /\ Len(payload') = m /\ Len(wire') = w - n
    BY <1>h, <1>5, <2>1, <2>2
  <2>5. Unread' = Unread /\ Unread = h + w
    <3>1. Unread' = (h + n) + m + (w - n)
      BY <2>u DEF Unread
    <3> QED
      BY <1>t, <2>u, <3>1
  <2>6. ASSUME NEW p \in Nat \ {0}, p <= Unread
        PROVE  At(p)' = At(p)
    <3>1. CASE p <= h
      <4>1. p <= Len(header) /\ p <= Len(header') /\ p \in 1 .. Len(header)
        BY <1>h, <1>t, <2>u, <3>1
      <4> QED
        BY <2>2, <4>1 DEF At
    <3>2. CASE ~(p <= h) /\ p <= h + n
      <4>k. PICK k : k = p - h
        OBVIOUS
      <4>1. /\ k \in 1 .. n /\ p = h + k /\ p - h - m = k
            /\ ~(p <= h) /\ ~(p <= h + m) /\ p <= h + n
        BY <1>t, <2>u, <3>2, <4>k
      <4>2. At(p)' = header'[p]
        BY <2>u, <4>1 DEF At
      <4>3. At(p) = wire[k]
        BY <1>h, <4>1 DEF At
      <4> QED
        BY <1>h, <1>5, <2>2, <4>1, <4>2, <4>3
    <3>3. CASE ~(p <= h + n)
      <4>k. PICK k : k = p - (h + n)
        OBVIOUS
      <4>1. /\ k \in 1 .. w - n /\ p - (h + n) - m = k /\ p - h - m = k + n
            /\ ~(p <= h) /\ ~(p <= h + m) /\ ~(p <= h + n) /\ ~(p <= h + n + m)
        BY <1>t, <2>u, <2>5, <2>6, <3>3, <4>k
      <4>3. At(p)' = wire'[k]
        BY <2>u, <4>1 DEF At
      <4>4. At(p) = wire[k + n]
        BY <1>h, <4>1 DEF At
      <4> QED
        BY <1>5, <4>1, <4>3, <4>4
    <3> QED
      BY <3>1, <3>2, <3>3
  <2>7. Layout'
    BY <1>1, <2>5, <2>6, UnreadType, LayoutKept
  <2>8. EndReason'
    <3>1. Unread # 0 /\ ~OverLimit
      BY <1>3, <2>1, <2>5, UnreadType DEF OverLimit, HeaderSize
    <3> QED
      BY <1>1, <3>1 DEF SInv, EndReason, Finished
  <2> QED
    BY <1>2, <2>4, <2>7, <2>8 DEF SInv
<1>7. CASE ~InHeader
  <2>1. /\ payload' = payload \o taken /\ header' = header
        /\ target > 0 /\ Len(payload) < target
    BY <1>n, <1>1, <1>4, <1>7 DEF InPayload
  <2>2. /\ payload' \in Seq(Cells) /\ Len(payload') = Len(payload) + n
        /\ \A k \in 1 .. Len(payload) : payload'[k] = payload[k]
        /\ \A k \in 1 .. n : payload'[Len(payload) + k] = taken[k]
    <3>1. taken \in Seq(Cells) /\ payload \in Seq(Cells)
      BY <1>5, <1>t
    <3>2. /\ payload \o taken \in Seq(Cells) /\ Len(payload \o taken) = Len(payload) + Len(taken)
          /\ \A k \in 1 .. Len(payload) : (payload \o taken)[k] = payload[k]
          /\ \A k \in 1 .. Len(taken) : (payload \o taken)[Len(payload) + k] = taken[k]
      BY <3>1, CellsJoined
    <3> QED
      BY <1>5, <2>1, <3>2
  <2>3. Len(payload') <= target
    BY <1>n, <1>7, <2>2, UnreadType DEF Wanted
  <2>4. ReaderOK' /\ StreamOK'
    <3>1. Len(header) = HeaderSize /\ header[2].v = target /\ target # 0
      BY <2>1, <1>t DEF SInv, StreamOK
    <3>2. ReaderOK'
      BY <1>1 DEF SInv, ReaderOK
    <3>3. StreamOK'
      BY <1>1, <1>5, <1>t, <2>1, <2>2, <2>3, <3>1 DEF SInv, StreamOK, HeaderSize
    <3> QED
      BY <3>2, <3>3
  <2>u. Len(header') = h /\ Len(payload') = m + n /\ Len(wire') = w - n
    BY <1>h, <1>5, <2>1, <2>2
  <2>5. Unread' = Unread
    <3>1. Unread' = h + (m + n) + (w - n)
      BY <2>u DEF Unread
    <3> QED
      BY <1>t, <3>1
  <2>6. ASSUME NEW p \in Nat \ {0}, p <= Unread
        PROVE  At(p)' = At(p)
    <3>1. CASE p <= h
      BY <1>h, <2>1, <3>1 DEF At
    <3>2. CASE ~(p <= h) /\ p <= h + m
      <4>k. PICK k : k = p - h
        OBVIOUS
      <4>1. k \in 1 .. m /\ ~(p <= h) /\ p <= h + m /\ p <= h + (m + n)
        BY <1>t, <3>2, <4>k
      <4>2. At(p)' = payload'[k]
        BY <2>u, <4>1, <4>k DEF At
      <4>3. At(p) = payload[k]
        BY <1>h, <4>1, <4>k DEF At
      <4> QED
        BY <1>h, <2>2, <4>1, <4>2, <4>3
    <3>3. CASE ~(p <= h + m) /\ p <= h + m + n
      <4>k. PICK k : k = p - h - m
        OBVIOUS
      <4>1. /\ k \in 1 .. n /\ p - h = m + k
            /\ ~(p <= h) /\ ~(p <= h + m) /\ p <= h + (m + n)
        BY <1>t, <3>3, <4>k
      <4>3. At(p)' = payload'[m + k]
        BY <2>u, <4>1 DEF At
      <4>4. At(p) = wire[k]
        BY <1>h, <4>1, <4>k DEF At
      <4> QED
        BY <1>h, <1>5, <2>2, <4>1, <4>3, <4>4
    <3>4. CASE ~(p <= h + m + n)
      <4>k. PICK k : k = p - h - (m + n)
        OBVIOUS
      <4>1. /\ k \in 1 .. w - n /\ p - h - m = k + n
            /\ ~(p <= h) /\ ~(p <= h + m) /\ ~(p <= h + (m + n))
        BY <1>t, <2>6, <3>4, <4>k
      <4>3. At(p)' = wire'[k]
        BY <2>u, <4>1, <4>k DEF At
      <4>4. At(p) = wire[k + n]
        BY <1>h, <4>1 DEF At
      <4> QED
        BY <1>5, <4>1, <4>3, <4>4
    <3> QED
      BY <3>1, <3>2, <3>3, <3>4
  <2>7. Layout'
    BY <1>1, <2>5, <2>6, UnreadType, LayoutKept
  <2>8. EndReason'
    <3>1. Unread # 0 /\ ~OverLimit /\ ~OverLimit'
      BY <1>1, <1>3, <2>1, UnreadType DEF OverLimit
    <3> QED
      BY <1>1, <3>1 DEF SInv, EndReason, Finished
  <2> QED
    BY <1>2, <2>4, <2>7, <2>8 DEF SInv
<1> QED
  BY <1>6, <1>7

\* A step that leaves the cells where they are.
LEMMA StepInPlace ==
  ASSUME SInv, UNCHANGED <<wvars, known, decoder, header, payload, answers, wire, transport>>
  PROVE  /\ WriterOK' /\ FramesOK' /\ EncoderKnows' /\ DecoderKnows' /\ AnswersOK'
         /\ Layout' /\ Unread' = Unread
<1>1. /\ types' = types /\ encoder' = encoder /\ sent' = sent /\ refused' = refused
      /\ transport' = transport /\ decoder' = decoder /\ header' = header
      /\ payload' = payload /\ answers' = answers /\ wire' = wire
  BY DEF wvars
<1>2. WriterOK' /\ FramesOK' /\ EncoderKnows' /\ DecoderKnows' /\ AnswersOK'
  BY <1>1, StillKnown
<1>3. Unread' = Unread /\ Unread \in Nat
  BY <1>1, UnreadType DEF Unread
<1>4. \A p \in Nat \ {0} : p <= Unread' => At(p)' = At(p)
  BY <1>1 DEF At
<1>5. Layout'
  BY <1>1, <1>3, <1>4, LayoutKept
<1> QED
  BY <1>2, <1>3, <1>5

LEMMA KnownStep ==
  ASSUME SInv, ReaderRegister
  PROVE  SInv'
<1>1. /\ UNCHANGED <<wvars, decoder, header, payload, answers, wire, transport>>
      /\ known' = known + 1 /\ target' = target /\ eof' = eof /\ ended' = ended
  BY DEF ReaderRegister
<1>2. /\ types' = types /\ encoder' = encoder /\ sent' = sent /\ refused' = refused
      /\ transport' = transport /\ decoder' = decoder /\ header' = header
      /\ payload' = payload /\ answers' = answers /\ wire' = wire
  BY <1>1 DEF wvars
<1>3. WriterOK' /\ FramesOK' /\ EncoderKnows' /\ DecoderKnows' /\ AnswersOK'
  BY <1>2, StillKnown
<1>4. Unread' = Unread /\ Unread \in Nat
  BY <1>2, UnreadType DEF Unread
<1>5. \A p \in Nat \ {0} : p <= Unread' => At(p)' = At(p)
  BY <1>2 DEF At
<1>6. Layout'
  BY <1>2, <1>4, <1>5, LayoutKept
<1>7. ReaderOK'
  BY <1>1, <1>2 DEF SInv, ReaderOK
<1>8. StreamOK' /\ EndReason'
  BY <1>1, <1>2, <1>4 DEF SInv, StreamOK, EndReason, OverLimit, Finished
<1> QED
  BY <1>3, <1>6, <1>7, <1>8 DEF SInv

\* A reader that waits for cells is not at a frame over the limit.
LEMMA WaitingReader ==
  ASSUME SInv, InHeader \/ InPayload
  PROVE  ~OverLimit
BY UnreadType DEF OverLimit, InHeader, InPayload, HeaderSize

LEMMA EofStep ==
  ASSUME SInv, ReadEof \/ ReadErr
  PROVE  SInv'
<1>1. /\ UNCHANGED <<wvars, known, decoder, header, payload, answers, wire, transport>>
      /\ target' = target /\ eof' = TRUE /\ (InHeader \/ InPayload) /\ wire = <<>>
      /\ transport # "open"
      /\ ended' = ended \/ (transport = "reset" /\ ended' = "failed")
  BY DEF ReadEof, ReadErr
<1>2. /\ WriterOK' /\ FramesOK' /\ EncoderKnows' /\ DecoderKnows' /\ AnswersOK'
      /\ Layout' /\ Unread' = Unread
  BY <1>1, StepInPlace
<1>3. sent' = sent
  BY <1>1 DEF wvars
<1>4. ReaderOK'
  BY <1>1, <1>3 DEF SInv, ReaderOK
<1>5. StreamOK'
  BY <1>1 DEF SInv, StreamOK
<1>6. EndReason'
  <2> SUFFICES ASSUME transport # "reset"
               PROVE  /\ Finished'
                      /\ ended' = "failed" => OverLimit'
    BY <1>1 DEF EndReason
  <2>1. Unread = 0 /\ transport = "ended"
    BY <1>1, NothingLeft DEF SInv, StreamOK
  <2>2. ended # "failed"
    BY <1>1, WaitingReader DEF SInv, EndReason
  <2> QED
    BY <1>1, <1>2, <2>1, <2>2 DEF Finished
<1> QED
  BY <1>2, <1>4, <1>5, <1>6 DEF SInv

LEMMA PollEndedStep ==
  ASSUME SInv, PollEnded
  PROVE  SInv'
<1>1. /\ UNCHANGED <<wvars, known, decoder, header, payload, answers, wire, transport>>
      /\ target' = target /\ eof' = eof /\ eof /\ (InHeader \/ InPayload)
      /\ ended' = IF InHeader /\ header = <<>> THEN "clean" ELSE "failed"
  BY DEF PollEnded
<1>2. /\ WriterOK' /\ FramesOK' /\ EncoderKnows' /\ DecoderKnows' /\ AnswersOK'
      /\ Layout' /\ Unread' = Unread
  BY <1>1, StepInPlace
<1>3. sent' = sent
  BY <1>1 DEF wvars
<1>4. ReaderOK'
  BY <1>1, <1>3 DEF SInv, ReaderOK
<1>5. StreamOK'
  BY <1>1 DEF SInv, StreamOK
<1>6. EndReason'
  <2> SUFFICES ASSUME transport # "reset"
               PROVE  Finished' /\ ended' = "clean"
    BY <1>1 DEF EndReason
  <2>1. Finished
    BY <1>1, WaitingReader DEF SInv, EndReason
  <2>2. Len(header) = 0 /\ header = <<>>
    BY <2>1, UnreadType DEF Finished
  <2>3. InHeader
    BY <1>1, <2>2, UnreadType DEF InHeader, InPayload, SInv, StreamOK, HeaderSize
  <2> QED
    BY <1>1, <1>2, <2>1, <2>2, <2>3 DEF Finished
<1> QED
  BY <1>2, <1>4, <1>5, <1>6 DEF SInv

\* A frame that is decoded, empty or not.
LEMMA DecodeStep ==
  ASSUME SInv, NEW cells \in Seq(Cells), Len(header) = HeaderSize, cells = payload,
         Len(cells) = sent[Coming].len, Coming <= Len(sent), ~OverLimit,
         \A k \in 1 .. Len(cells) : cells[k] = BodyCell(sent[Coming], Coming, k),
         header' = <<>>, target' = 0, payload' = <<>>,
         DecodeFrame(sent[Coming].tag, cells),
         UNCHANGED <<known, eof, ended, wvars, wire, transport>>
  PROVE  SInv'
<1>1. /\ types' = types /\ encoder' = encoder /\ sent' = sent /\ refused' = refused
      /\ transport' = transport /\ wire' = wire /\ known' = known
      /\ eof' = eof /\ ended' = ended
  BY DEF wvars
<1> PICK i : i = Coming
  OBVIOUS
<1>2. /\ decoder' \in [Tags -> [fields : BOOLEAN, dicts : Nat]]
      /\ answers' \in Seq(Answers) /\ Len(answers') = i
      /\ AnswersOK' /\ DecoderKnows'
  BY <1>1, Decoded
<1>3. WriterOK'
  BY <1>1 DEF SInv, WriterOK, TypesOK
<1>4. FramesOK' /\ EncoderKnows'
  BY <1>1 DEF SInv, FramesOK, FrameOK, EncoderKnows, Taught, Full
<1>5. ReaderOK'
  BY <1>1, <1>2 DEF SInv, ReaderOK
<1>6. StreamOK'
  BY <1>1 DEF SInv, StreamOK, HeaderSize
<1>7. Layout'
  <2>1. Consumed(i)
    BY <1>1, <1>2 DEF Consumed
  <2> QED
    BY <2>1, LayoutAfter
<1>8. EndReason'
  <2>1. ~Finished
    BY UnreadType DEF Finished, HeaderSize
  <2> QED
    BY <1>1, <2>1 DEF SInv, EndReason
<1> QED
  BY <1>2, <1>3, <1>4, <1>5, <1>6, <1>7, <1>8 DEF SInv

LEMMA ParseHeaderStep ==
  ASSUME SInv, ParseHeader
  PROVE  SInv'
<1>1. target = 0 /\ Len(header) = HeaderSize /\ payload = <<>>
      /\ UNCHANGED <<known, wvars, wire, transport>>
  BY DEF ParseHeader, SInv, StreamOK
<1>2. /\ Coming <= Len(sent)
      /\ header[1].v = sent[Coming].tag /\ header[2].v = sent[Coming].len
  BY <1>1, HeaderAtHand
<1>3. header[2].v \in Nat
  BY <1>2, ComingFrame
<1>4. CASE header[2].v > MaxFrame
  <2>1. /\ UNCHANGED <<wvars, known, decoder, header, payload, answers, wire, transport>>
        /\ target' = target /\ eof' = TRUE /\ ended' = "failed"
    BY <1>1, <1>4 DEF ParseHeader
  <2>2. /\ WriterOK' /\ FramesOK' /\ EncoderKnows' /\ DecoderKnows' /\ AnswersOK'
        /\ Layout' /\ Unread' = Unread
    BY <2>1, StepInPlace
  <2>3. sent' = sent
    BY <2>1 DEF wvars
  <2>4. ReaderOK'
    BY <2>1, <2>3 DEF SInv, ReaderOK
  <2>5. StreamOK'
    BY <2>1 DEF SInv, StreamOK
  <2>6. EndReason'
    BY <1>1, <1>4, <2>1 DEF EndReason, OverLimit
  <2> QED
    BY <2>2, <2>4, <2>5, <2>6 DEF SInv
<1>5. CASE ~(header[2].v > MaxFrame) /\ header[2].v = 0
  <2>1. /\ header' = <<>> /\ target' = 0 /\ payload' = <<>>
        /\ DecodeFrame(header[1].v, <<>>)
        /\ eof' = eof /\ ended' = ended
    BY <1>1, <1>5 DEF ParseHeader
  <2>2. DecodeFrame(sent[Coming].tag, payload)
    BY <1>1, <1>2, <2>1
  <2>3. ~OverLimit
    BY <1>5 DEF OverLimit
  <2>4. payload \in Seq(Cells) /\ Len(payload) = 0
    BY <1>1
  <2>5. \A k \in 1 .. Len(payload) : payload[k] = BodyCell(sent[Coming], Coming, k)
    BY <2>4
  <2> QED
    BY <1>1, <1>2, <1>5, <2>1, <2>2, <2>3, <2>4, <2>5, DecodeStep
<1>6. CASE ~(header[2].v > MaxFrame) /\ header[2].v # 0
  <2>1. /\ UNCHANGED <<wvars, known, decoder, header, payload, answers, wire, transport>>
        /\ target' = header[2].v /\ eof' = eof /\ ended' = ended
    BY <1>1, <1>6 DEF ParseHeader
  <2>2. /\ WriterOK' /\ FramesOK' /\ EncoderKnows' /\ DecoderKnows' /\ AnswersOK'
        /\ Layout' /\ Unread' = Unread
    BY <2>1, StepInPlace
  <2>3. sent' = sent
    BY <2>1 DEF wvars
  <2>4. ReaderOK'
    BY <1>3, <2>1, <2>3 DEF SInv, ReaderOK
  <2>5. StreamOK'
    BY <1>1, <1>3, <1>6, <2>1 DEF SInv, StreamOK
  <2>6. EndReason'
    <3>1. ~Finished /\ ~OverLimit
      BY <1>1, <1>6, UnreadType DEF Finished, OverLimit, HeaderSize
    <3> QED
      BY <2>1, <3>1 DEF SInv, EndReason
  <2> QED
    BY <2>2, <2>4, <2>5, <2>6 DEF SInv
<1> QED
  BY <1>4, <1>5, <1>6

------------------------------------------------------------------------------
(* The invariant.                                                          *)

LEMMA SInvInit ==
  ASSUME Init
  PROVE  SInv
<1>1. WriterOK
  BY DEF Init, WriterOK, TypesOK
<1>2. ReaderOK
  BY DEF Init, ReaderOK, NoCats
<1>3. StreamOK
  BY DEF Init, StreamOK, HeaderSize
<1>4. Layout
  <2>1. Coming = 1 /\ Len(sent) = 0 /\ Unread = 0
    BY DEF Init, Coming, Unread
  <2>2. PICK b : b = [j \in 1 .. 1 |-> 0]
    OBVIOUS
  <2>3. b \in [1 .. 1 -> Nat] /\ b[1] = 0
    BY <2>2
  <2>4. Laid(b, 1, 0)
    BY <2>1, <2>3 DEF Laid
  <2> QED
    BY <2>1, <2>3, <2>4 DEF Layout
<1>5. FramesOK /\ EncoderKnows
  BY DEF Init, FramesOK, EncoderKnows
<1>6. DecoderKnows
  BY DEF Init, DecoderKnows, NoCats
<1>7. AnswersOK
  BY DEF Init, AnswersOK, FramingKept, TypesAreIsolated, CategoriesKept
<1>8. EndReason
  BY DEF Init, EndReason
<1> QED
  BY <1>1, <1>2, <1>3, <1>4, <1>5, <1>6, <1>7, <1>8 DEF SInv

LEMMA SInvStep ==
  ASSUME LengthsFit, SInv, [Next]_vars
  PROVE  SInv'
<1>1. CASE WriterRegister
  BY <1>1, RegisterStep
<1>i. \A name \in DOMAIN types.index : types.index[name] \in 0 .. Len(types.list) - 1
  BY DEF SInv, WriterOK, TypesOK
<1>2. CASE Send
  BY <1>2, <1>i, MessageStep DEF Send
<1>3. CASE SendTable
  BY <1>3, <1>i, TableStep DEF SendTable
<1>4. CASE SendFrame
  BY <1>4, MessageStep, TableStep DEF SendFrame
<1>5. CASE Shutdown
  BY <1>5, ShutdownStep
<1>6. CASE Reset
  BY <1>6, ResetStep
<1>7. CASE ReaderRegister
  BY <1>7, KnownStep
<1>8. CASE ReadSome
  BY <1>8, ReadSomeStep
<1>9. CASE ReadEof \/ ReadErr
  BY <1>9, EofStep
<1>10. CASE PollEnded
  BY <1>10, PollEndedStep
<1>11. CASE ParseHeader
  BY <1>11, ParseHeaderStep
<1>12. CASE Decode
  <2>1. target > 0 /\ Len(payload) = target
    BY <1>12 DEF Decode
  <2>2. /\ Len(header) = HeaderSize /\ Coming <= Len(sent)
        /\ header[1].v = sent[Coming].tag /\ Len(payload) = sent[Coming].len
        /\ \A k \in 1 .. Len(payload) : payload[k] = BodyCell(sent[Coming], Coming, k)
    BY <2>1, PayloadAtHand
  <2>3. ~OverLimit /\ payload \in Seq(Cells)
    BY <2>1, UnreadType DEF OverLimit
  <2>4. /\ header' = <<>> /\ target' = 0 /\ payload' = <<>>
        /\ DecodeFrame(sent[Coming].tag, payload)
        /\ UNCHANGED <<known, eof, ended, wvars, wire, transport>>
    BY <1>12, <2>2 DEF Decode
  <2> QED
    BY <2>2, <2>3, <2>4, DecodeStep
<1>13. CASE UNCHANGED vars
  <2>1. /\ UNCHANGED <<wvars, known, decoder, header, payload, answers, wire, transport>>
        /\ target' = target /\ eof' = eof /\ ended' = ended
    BY <1>13 DEF vars, rvars
  <2>2. /\ WriterOK' /\ FramesOK' /\ EncoderKnows' /\ DecoderKnows' /\ AnswersOK'
        /\ Layout' /\ Unread' = Unread
    BY <2>1, StepInPlace
  <2>3. sent' = sent
    BY <2>1 DEF wvars
  <2>4. ReaderOK'
    BY <2>1, <2>3 DEF SInv, ReaderOK
  <2>5. StreamOK' /\ EndReason'
    BY <2>1, <2>2 DEF SInv, StreamOK, EndReason, OverLimit, Finished
  <2> QED
    BY <2>2, <2>4, <2>5 DEF SInv
<1> QED
  BY <1>1, <1>2, <1>3, <1>4, <1>5, <1>6, <1>7, <1>8, <1>9, <1>10, <1>11, <1>12, <1>13
  DEF Next, Call, Poll

LEMMA SInvHolds ==
  ASSUME LengthsFit
  PROVE  Spec => []SInv
<1>1. Init => SInv
  BY SInvInit
<1>2. SInv /\ [Next]_vars => SInv'
  BY SInvStep
<1> QED
  BY <1>1, <1>2, PTL DEF Spec

\* The reader never loses its place in the stream, whatever is refused at
\* either end (decode_frame after the reset of poll_next).
THEOREM FramingHolds ==
  ASSUME LengthsFit
  PROVE  Spec => []FramingKept
<1>1. SInv => FramingKept
  BY DEF SInv, AnswersOK
<1> QED
  BY <1>1, SInvHolds, PTL

\* What goes wrong for one type does not reach another (the ipc_codec of each
\* type in codecs/lightstream.rs).
THEOREM IsolationHolds ==
  ASSUME LengthsFit
  PROVE  Spec => []TypesAreIsolated
<1>1. SInv => TypesAreIsolated
  BY DEF SInv, AnswersOK
<1> QED
  BY <1>1, SInvHolds, PTL

\* Categorical columns keep their dictionary while the tables of a type share
\* one (written_dict_ids of the encoder, dicts of the decoder).
THEOREM CategoriesHold ==
  ASSUME LengthsFit
  PROVE  Spec => []CategoriesKept
<1>1. SInv => CategoriesKept
  BY DEF SInv, AnswersOK
<1> QED
  BY <1>1, SInvHolds, PTL

\* The end of a stream that its writer shut down tells the truth about what
\* was delivered (poll_next of readers/lightstream.rs).
THEOREM EndHolds ==
  ASSUME LengthsFit
  PROVE  Spec => []EndIsComplete
<1>1. SInv => EndIsComplete
  <2> SUFFICES ASSUME SInv, transport = "ended", ended # "no"
               PROVE  IF ended = "clean" THEN Len(answers) = Len(sent)
                      ELSE /\ Len(answers) < Len(sent)
                           /\ sent[Len(answers) + 1].len > MaxFrame
    BY DEF EndIsComplete
  <2>1. CASE ended = "clean"
    BY <2>1, NothingLeft DEF SInv, EndReason, Finished
  <2>2. CASE ended # "clean"
    <3>1. OverLimit
      BY <2>2 DEF SInv, StreamOK, EndReason
    <3>2. Coming <= Len(sent) /\ sent[Coming].len > MaxFrame
      BY <3>1, HeaderAtHand DEF OverLimit
    <3>3. Len(answers) \in Nat /\ Len(sent) \in Nat
      BY DEF SInv, ReaderOK, WriterOK
    <3> QED
      BY <2>2, <3>2, <3>3 DEF Coming
  <2> QED
    BY <2>1, <2>2
<1> QED
  BY <1>1, SInvHolds, PTL
==============================================================================
