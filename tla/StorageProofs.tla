---------------------------- MODULE StorageProofs ----------------------------
(***************************************************************************)
(* What is written to storage is there, in order, for a reader.            *)
(*                                                                         *)
(* Chunked tables: what a chunked writer answers for stays in its files,   *)
(* in order.  The first part is about a pool of worker threads alone:      *)
(* whatever order they pull, finish and fail in, every job below the       *)
(* cursor is done once, or somebody is at it or failed in it (ChPoolOK).   *)
(* The second is the invariant: calls own disjoint ranges of indices, and  *)
(* a call that has returned left its range to nobody (ChInv); each action  *)
(* of a writer is then a case of CallMoves.  The third is about the order  *)
(* of the list a reader makes, and the reader's actions.                   *)
(*                                                                         *)
(* Arrow files: both readers find in a finished file the batches written.  *)
(* What is in the file followed by the frames in the queue is one sequence *)
(* of cells; every block the writer has noted lies at its place in it, and *)
(* its offset is that sequence's length until the file is closed (FlInv).  *)
(*                                                                         *)
(* Record batches: what is encoded starts on a boundary, is inflated onto  *)
(* one, and viewed from one (RbInv).                                       *)
(***************************************************************************)
EXTENDS Chunked, Files, RecordBatch, ProofLemmas

------------------------------------------------------------------------------
(* Pools of worker threads.                                                *)

ChStages == {"pull", "work", "ended", "failed"}
ChPools(S) == [n : Nat, next : Nat, at : [ChWorkers -> ChStages],
               job : [ChWorkers -> Nat], done : [ChWorkers -> Seq(S)]]

\* Every job below the cursor is done once, or somebody is at it or failed in it.
ChPoolOK(p) ==
  /\ \E S : p \in ChPools(S)
  /\ p.next <= p.n /\ (p.at[1] = "ended" => p.next = p.n)
  /\ \A w \in ChWorkers : p.at[w] = "work" => p.job[w] < p.next
  /\ \A u, w \in ChWorkers :
       p.at[u] = "work" /\ p.at[w] = "work" /\ p.job[u] = p.job[w] => u = w
  /\ \A r \in ChAll(p) : r.i \in 0 .. p.next - 1
  /\ \A r \in ChAll(p), w \in ChWorkers : p.at[w] = "work" => r.i # p.job[w]
  /\ \A r, s \in ChAll(p) : r.i = s.i => r = s
  /\ \A j \in 0 .. p.next - 1 :
       \/ \E r \in ChAll(p) : r.i = j
       \/ \E w \in ChWorkers : p.at[w] \in {"work", "failed"} /\ p.job[w] = j

LEMMA FirstWorker == 1 \in ChWorkers
BY ChAssumption DEF ChWorkers

LEMMA AppendRange ==
  ASSUME NEW S, NEW s \in Seq(S), NEW x
  PROVE  Range(Append(s, x)) = Range(s) \cup {x}
<1>1. /\ DOMAIN Append(s, x) = 1 .. Len(s) + 1 /\ DOMAIN s = 1 .. Len(s) /\ Len(s) \in Nat
      /\ Append(s, x)[Len(s) + 1] = x
      /\ \A i \in 1 .. Len(s) : Append(s, x)[i] = s[i]
  OBVIOUS
<1> QED
  BY <1>1 DEF Range

LEMMA PoolStart ==
  ASSUME NEW n \in Nat, NEW t \in Nat, n > 0 => t > 0
  PROVE  /\ ChPoolOK(ChPool(n, t)) /\ ChAll(ChPool(n, t)) = {}
         /\ ChPool(n, t).n = n /\ ChPool(n, t).next = 0
         /\ \A w \in ChWorkers : ChPool(n, t).at[w] = IF w <= t THEN "pull" ELSE "ended"
<1> DEFINE p == ChPool(n, t)
<1>1. /\ p.n = n /\ p.next = 0 /\ p.at = [w \in ChWorkers |-> IF w <= t THEN "pull" ELSE "ended"]
      /\ p.job = [w \in ChWorkers |-> 0] /\ p.done = [w \in ChWorkers |-> <<>>]
  BY DEF ChPool
<1>2. p \in ChPools({})
  BY DEF ChPool, ChPools, ChStages
<1>3. ChAll(p) = {}
  BY <1>1 DEF ChAll, Range
<1>4. p.at[1] = "ended" => p.next = p.n
  BY <1>1, FirstWorker
<1> QED
  BY <1>1, <1>2, <1>3, <1>4 DEF ChPoolOK

LEMMA PoolPulled ==
  ASSUME NEW p, ChPoolOK(p), NEW w \in ChWorkers, p.at[w] = "pull"
  PROVE  LET q == ChPull(p, w) IN
           /\ ChPoolOK(q) /\ ChAll(q) = ChAll(p) /\ q.n = p.n
           /\ \A u \in ChWorkers : u # w => q.at[u] = p.at[u] /\ q.job[u] = p.job[u]
           /\ \/ p.next = p.n /\ q.next = p.next /\ q.at[w] = "ended"
              \/ /\ p.next < p.n /\ q.next = p.next + 1
                 /\ q.at[w] = "work" /\ q.job[w] = p.next
<1> DEFINE q == ChPull(p, w)
<1>1. PICK S : p \in ChPools(S)
  BY DEF ChPoolOK
<1>2. /\ p.n \in Nat /\ p.next \in Nat /\ p.next <= p.n /\ p.at \in [ChWorkers -> ChStages]
      /\ p.job \in [ChWorkers -> Nat] /\ p.done \in [ChWorkers -> Seq(S)]
  BY <1>1 DEF ChPools, ChPoolOK
<1>3. CASE p.next >= p.n
  <2>1. q = [p EXCEPT !.at[w] = "ended"] /\ p.next = p.n
    BY <1>2, <1>3 DEF ChPull
  <2>2. /\ q \in ChPools(S) /\ q.n = p.n /\ q.next = p.next /\ q.job = p.job
        /\ q.done = p.done /\ q.at = [p.at EXCEPT ![w] = "ended"]
    <3>1. PICK a : a = [p.at EXCEPT ![w] = "ended"]
      OBVIOUS
    <3>2. a \in [ChWorkers -> ChStages]
      BY <1>2, <3>1 DEF ChStages
    <3>3. q = [p EXCEPT !.next = p.next, !.at = a, !.job = p.job, !.done = p.done]
      BY <1>1, <2>1, <3>1 DEF ChPools
    <3>4. p.next \in Nat /\ p.job \in [ChWorkers -> Nat] /\ p.done \in [ChWorkers -> Seq(S)]
      BY <1>2
    <3> HIDE DEF q
    <3>5. /\ q \in ChPools(S) /\ q.n = p.n /\ q.next = p.next /\ q.at = a /\ q.job = p.job
          /\ q.done = p.done
      BY ONLY <1>1, <3>2, <3>3, <3>4 DEF ChPools
    <3> QED
      BY ONLY <3>1, <3>5
  <2>3. ChAll(q) = ChAll(p)
    BY <2>2 DEF ChAll
  <2>4. /\ q.at[w] = "ended" /\ \A u \in ChWorkers : u # w => q.at[u] = p.at[u]
        /\ q.next = q.n
    BY <1>2, <2>1, <2>2
  <2> HIDE DEF q
  <2>5. ChPoolOK(q)
    BY <2>2, <2>3, <2>4 DEF ChPoolOK
  <2> QED
    BY <2>1, <2>2, <2>3, <2>4, <2>5 DEF q
<1>4. CASE p.next < p.n
  <2>1. q = [p EXCEPT !.next = @ + 1, !.at[w] = "work", !.job[w] = p.next]
    BY <1>2, <1>4 DEF ChPull
  <2>2. /\ q \in ChPools(S) /\ q.n = p.n /\ q.next = p.next + 1 /\ q.done = p.done
        /\ q.job = [p.job EXCEPT ![w] = p.next] /\ q.at = [p.at EXCEPT ![w] = "work"]
    <3>1. PICK a, b : a = [p.at EXCEPT ![w] = "work"] /\ b = [p.job EXCEPT ![w] = p.next]
      OBVIOUS
    <3>2. a \in [ChWorkers -> ChStages] /\ b \in [ChWorkers -> Nat] /\ p.next + 1 \in Nat
      BY <1>2, <3>1 DEF ChStages
    <3>3. q = [p EXCEPT !.next = p.next + 1, !.at = a, !.job = b, !.done = p.done]
      BY <1>1, <2>1, <3>1 DEF ChPools
    <3>4. p.done \in [ChWorkers -> Seq(S)]
      BY <1>2
    <3> HIDE DEF q
    <3>5. /\ q \in ChPools(S) /\ q.n = p.n /\ q.next = p.next + 1 /\ q.at = a /\ q.job = b
          /\ q.done = p.done
      BY ONLY <1>1, <3>2, <3>3, <3>4 DEF ChPools
    <3> QED
      BY ONLY <3>1, <3>5
  <2>3. ChAll(q) = ChAll(p)
    BY <2>2 DEF ChAll
  <2>4. /\ q.at[w] = "work" /\ q.job[w] = p.next
        /\ \A u \in ChWorkers : u # w => q.at[u] = p.at[u] /\ q.job[u] = p.job[u]
    BY <1>2, <2>2
  <2> HIDE DEF q
  <2>5. q.next <= q.n /\ q.at[1] # "ended"
    BY <1>2, <1>4, <2>2, <2>4, FirstWorker DEF ChPoolOK
  <2>6. \A u \in ChWorkers : q.at[u] = "work" => q.job[u] < q.next
    BY <1>2, <2>2, <2>4 DEF ChPoolOK
  <2>7. \A u, v \in ChWorkers :
          q.at[u] = "work" /\ q.at[v] = "work" /\ q.job[u] = q.job[v] => u = v
    <3>1. \A u \in ChWorkers :
            u # w /\ q.at[u] = "work" => q.job[u] # p.next /\ q.job[u] = p.job[u]
                                           /\ p.at[u] = "work"
      BY <1>2, <2>4 DEF ChPoolOK
    <3> QED
      BY <2>4, <3>1 DEF ChPoolOK
  <2>8. \A r \in ChAll(q) : r.i \in 0 .. q.next - 1
    BY <1>2, <2>2, <2>3 DEF ChPoolOK
  <2>9. \A r \in ChAll(q), u \in ChWorkers : q.at[u] = "work" => r.i # q.job[u]
    <3> SUFFICES ASSUME NEW r \in ChAll(q), NEW u \in ChWorkers, q.at[u] = "work"
                 PROVE  r.i # q.job[u]
      OBVIOUS
    <3>1. r \in ChAll(p) /\ r.i \in 0 .. p.next - 1
      BY <2>3 DEF ChPoolOK
    <3>2. r.i # p.next
      BY ONLY <1>2, <3>1
    <3>3. \A v \in ChWorkers : p.at[v] = "work" => r.i # p.job[v]
      BY <3>1 DEF ChPoolOK
    <3>4. CASE u = w
      BY ONLY <2>4, <3>2, <3>4
    <3>5. CASE u # w
      <4>1. p.at[u] = "work" /\ q.job[u] = p.job[u]
        BY <2>4, <3>5
      <4> QED
        BY ONLY <3>3, <4>1
    <3> QED
      BY <3>4, <3>5
  <2>10. ASSUME NEW j \in 0 .. q.next - 1
         PROVE  \/ \E r \in ChAll(q) : r.i = j
                \/ \E u \in ChWorkers : q.at[u] \in {"work", "failed"} /\ q.job[u] = j
    <3>1. CASE j = p.next
      BY <2>4, <3>1
    <3>2. CASE j # p.next
      <4>1. j \in 0 .. p.next - 1
        BY <1>2, <2>2, <3>2
      <4> QED
        BY <2>3, <2>4, <4>1 DEF ChPoolOK
    <3> QED
      BY <3>1, <3>2
  <2>11. ChPoolOK(q)
    BY <2>2, <2>3, <2>5, <2>6, <2>7, <2>8, <2>9, <2>10 DEF ChPoolOK
  <2> QED
    BY <1>4, <2>2, <2>3, <2>4, <2>11 DEF q
<1> QED
  BY <1>2, <1>3, <1>4

LEMMA PoolDone ==
  ASSUME NEW p, ChPoolOK(p), NEW w \in ChWorkers, p.at[w] = "work", NEW v
  PROVE  LET q == ChDone(p, w, v) IN
           /\ ChPoolOK(q) /\ ChAll(q) = ChAll(p) \cup {[i |-> p.job[w], v |-> v]}
           /\ q.n = p.n /\ q.next = p.next /\ q.job = p.job /\ q.at[w] = "pull"
           /\ \A u \in ChWorkers : u # w => q.at[u] = p.at[u]
<1> DEFINE q == ChDone(p, w, v)
           x == [i |-> p.job[w], v |-> v]
<1>1. PICK S : p \in ChPools(S)
  BY DEF ChPoolOK
<1>2. /\ p.n \in Nat /\ p.next \in Nat /\ p.next <= p.n /\ p.at \in [ChWorkers -> ChStages]
      /\ p.job \in [ChWorkers -> Nat] /\ p.done \in [ChWorkers -> Seq(S)]
  BY <1>1 DEF ChPools, ChPoolOK
<1>3. /\ q.n = p.n /\ q.next = p.next /\ q.job = p.job
      /\ q.at = [p.at EXCEPT ![w] = "pull"]
      /\ q.done = [p.done EXCEPT ![w] = Append(p.done[w], x)]
      /\ q \in ChPools(S \cup {x})
  <2>1. q = [p EXCEPT !.at[w] = "pull", !.done[w] = Append(p.done[w], x)]
    BY <1>1 DEF ChDone, ChPools
  <2> HIDE DEF x, q
  <2>2. PICK a, d : /\ a = [p.at EXCEPT ![w] = "pull"]
                    /\ d = [p.done EXCEPT ![w] = Append(p.done[w], x)]
    OBVIOUS
  <2>3. a \in [ChWorkers -> ChStages] /\ d \in [ChWorkers -> Seq(S \cup {x})]
    <3>1. \A s \in Seq(S) : s \in Seq(S \cup {x}) /\ Append(s, x) \in Seq(S \cup {x})
      OBVIOUS
    <3>2. a \in [ChWorkers -> ChStages]
      BY <1>2, <2>2 DEF ChStages
    <3> QED
      BY <1>2, <2>2, <3>1, <3>2
  <2>4. q = [p EXCEPT !.next = p.next, !.at = a, !.job = p.job, !.done = d]
    BY <1>1, <2>1, <2>2 DEF ChPools
  <2>5. p.next \in Nat /\ p.job \in [ChWorkers -> Nat]
    BY <1>2
  <2>6. /\ q \in ChPools(S \cup {x}) /\ q.n = p.n /\ q.next = p.next /\ q.at = a
        /\ q.job = p.job /\ q.done = d
    BY ONLY <1>1, <2>3, <2>4, <2>5 DEF ChPools
  <2> QED
    BY ONLY <2>2, <2>6
<1>4. q \in ChPools(S \cup {x})
  BY <1>3
<1> HIDE DEF q
<1>5. ChAll(q) = ChAll(p) \cup {x}
  <2>1. Range(q.done[w]) = Range(p.done[w]) \cup {x}
    <3>1. p.done[w] \in Seq(S) /\ q.done[w] = Append(p.done[w], x)
      BY <1>2, <1>3
    <3> HIDE DEF x
    <3> QED
      BY <3>1, AppendRange
  <2>2. \A u \in ChWorkers : u # w => q.done[u] = p.done[u]
    BY <1>2, <1>3
  <2> HIDE DEF x
  <2> QED
    BY <2>1, <2>2 DEF ChAll
<1>6. x.i = p.job[w] /\ p.job[w] < p.next /\ p.job[w] \in Nat
  BY <1>2 DEF ChPoolOK
<1>7. \A u \in ChWorkers : u # w => q.at[u] = p.at[u]
  BY <1>2, <1>3
<1>8. q.at[w] = "pull"
  BY <1>2, <1>3
<1> HIDE DEF x
<1>9. q.at[1] = "ended" => q.next = q.n
  BY <1>3, <1>7, <1>8, FirstWorker DEF ChPoolOK
<1>10. \A u \in ChWorkers : q.at[u] = "work" => u # w /\ p.at[u] = "work"
  BY <1>7, <1>8
<1>11. \A r \in ChAll(q), u \in ChWorkers : q.at[u] = "work" => r.i # q.job[u]
  BY <1>3, <1>5, <1>6, <1>10 DEF ChPoolOK
<1>12. \A r, s \in ChAll(q) : r.i = s.i => r = s
  BY <1>5, <1>6 DEF ChPoolOK
<1>13. ASSUME NEW j \in 0 .. q.next - 1
       PROVE  \/ \E r \in ChAll(q) : r.i = j
              \/ \E u \in ChWorkers : q.at[u] \in {"work", "failed"} /\ q.job[u] = j
  BY <1>3, <1>5, <1>6, <1>7 DEF ChPoolOK
<1>14. \A r \in ChAll(q) : r.i \in 0 .. q.next - 1
  BY <1>2, <1>3, <1>5, <1>6 DEF ChPoolOK
<1>15. ChPoolOK(q)
  <2>1. \A u, z \in ChWorkers :
          q.at[u] = "work" /\ q.at[z] = "work" /\ q.job[u] = q.job[z] => u = z
    BY <1>3, <1>10 DEF ChPoolOK
  <2>2. \A u \in ChWorkers : q.at[u] = "work" => q.job[u] < q.next
    BY <1>3, <1>10 DEF ChPoolOK
  <2> QED
    BY <1>2, <1>3, <1>4, <1>9, <1>11, <1>12, <1>13, <1>14, <2>1, <2>2 DEF ChPoolOK
<1> QED
  BY <1>3, <1>5, <1>7, <1>8, <1>15 DEF q, x

LEMMA PoolFailed ==
  ASSUME NEW p, ChPoolOK(p), NEW w \in ChWorkers, p.at[w] = "work"
  PROVE  LET q == ChFail(p, w) IN
           /\ ChPoolOK(q) /\ ChAll(q) = ChAll(p) /\ ChFailed(q)
           /\ q.n = p.n /\ q.next = p.next /\ q.job = p.job /\ q.at[w] = "failed"
           /\ \A u \in ChWorkers : u # w => q.at[u] = p.at[u]
<1> DEFINE q == ChFail(p, w)
<1>1. PICK S : p \in ChPools(S)
  BY DEF ChPoolOK
<1>2. /\ q \in ChPools(S) /\ q.n = p.n /\ q.next = p.next /\ q.job = p.job
      /\ q.at = [p.at EXCEPT ![w] = "failed"] /\ q.done = p.done
      /\ p.at \in [ChWorkers -> ChStages]
  BY <1>1 DEF ChFail, ChPools, ChStages
<1>3. q.at[w] = "failed" /\ \A u \in ChWorkers : u # w => q.at[u] = p.at[u]
  BY <1>2
<1>4. ChAll(q) = ChAll(p)
  BY <1>2 DEF ChAll
<1> HIDE DEF q
<1>5. \A u \in ChWorkers : q.at[u] = "work" => p.at[u] = "work"
  BY <1>3
<1>6. \A u \in ChWorkers : p.at[u] \in {"work", "failed"} => q.at[u] \in {"work", "failed"}
  BY <1>3
<1>7. q.at[1] = "ended" => q.next = q.n
  BY <1>2, <1>3, FirstWorker DEF ChPoolOK
<1>8. ChPoolOK(q)
  BY <1>2, <1>4, <1>5, <1>6, <1>7 DEF ChPoolOK
<1> QED
  BY <1>2, <1>3, <1>4, <1>8 DEF q, ChFailed

\* A pool whose workers have ended and none of which has failed has done every job.
LEMMA PoolComplete ==
  ASSUME NEW p, ChPoolOK(p), ChEnded(p), ~ChFailed(p)
  PROVE  /\ p.next = p.n /\ p.n \in Nat /\ Len(ChResults(p)) = p.n
         /\ DOMAIN ChResults(p) = 1 .. p.n
         /\ \A j \in 1 .. p.n : \E r \in ChAll(p) : r.i = j - 1 /\ ChResults(p)[j] = r.v
<1>1. \A w \in ChWorkers : p.at[w] = "ended"
  BY DEF ChEnded, ChFailed
<1>2. p.next = p.n /\ p.n \in Nat
  BY <1>1, FirstWorker DEF ChPoolOK, ChPools
<1>3. \A j \in 1 .. p.n : \E r \in ChAll(p) : r.i = j - 1
  <2> TAKE j \in 1 .. p.n
  <2>1. j - 1 \in 0 .. p.next - 1
    BY <1>2
  <2> QED
    BY <1>1, <2>1 DEF ChPoolOK
<1> DEFINE f == [j \in 1 .. p.n |-> CHOOSE r \in ChAll(p) : r.i = j - 1]
<1>4. \A j \in 1 .. p.n : f[j] \in ChAll(p) /\ f[j].i = j - 1
  BY <1>3
<1>5. \A r \in ChAll(p) : \E j \in 1 .. p.n : f[j] = r
  <2> TAKE r \in ChAll(p)
  <2>1. r.i \in 0 .. p.n - 1
    BY <1>2 DEF ChPoolOK
  <2>2. r.i + 1 \in 1 .. p.n /\ (r.i + 1) - 1 = r.i
    BY <1>2, <2>1
  <2>3. f[r.i + 1] \in ChAll(p) /\ f[r.i + 1].i = r.i
    BY <1>4, <2>2
  <2>4. f[r.i + 1] = r
    BY <2>3 DEF ChPoolOK
  <2> QED
    BY <2>2, <2>4
<1>6. f \in [1 .. p.n -> ChAll(p)]
  BY <1>4
<1> HIDE DEF f
<1>7. \A i, j \in 1 .. p.n : f[i] = f[j] => i = j
  <2> TAKE i, j \in 1 .. p.n
  <2> HAVE f[i] = f[j]
  <2>1. i - 1 = j - 1
    BY <1>4
  <2> QED
    BY ONLY <2>1, i \in Int, j \in Int
<1>8. IsFiniteSet(ChAll(p))
  <2>1. IsFiniteSet(1 .. p.n)
    BY <1>2, FS_Interval
  <2>2. f \in Surjection(1 .. p.n, ChAll(p))
    BY <1>5, <1>6 DEF Surjection
  <2> QED
    BY <2>1, <2>2, FS_Surjection
<1>9. Cardinality(ChAll(p)) = p.n
  BY <1>2, <1>5, <1>6, <1>7, <1>8, EachOnce
<1>10. /\ ChResults(p) = [j \in 1 .. p.n |-> f[j].v]
       /\ DOMAIN ChResults(p) = 1 .. p.n
  BY <1>9 DEF ChResults, f
<1>11. Len(ChResults(p)) = p.n
  <2>1. ChResults(p) \in [1 .. p.n -> {f[j].v : j \in 1 .. p.n}]
    BY <1>10
  <2> QED
    BY <1>2, <2>1, Listed
<1> QED
  BY <1>2, <1>4, <1>10, <1>11

------------------------------------------------------------------------------
(* The invariant.                                                          *)

Busy(c) == chCalls[c] # ChNone
Halted(p) == p.at[1] = "failed"
HasTable(i, t) == i \in DOMAIN chDir /\ chDir[i] = [t |-> t, whole |-> TRUE]

\* The indices a call has reserved for files that it writes or may have to answer for.
Owned(c) ==
  {i \in Nat : /\ chCalls[c].start <= i
               /\ \/ chCalls[c].kind = "par" /\ i < chCalls[c].start + chCalls[c].pool.n
                  \/ /\ chCalls[c].kind = "seq" /\ ~Halted(chCalls[c].pool)
                     /\ i < chCalls[c].start + chCalls[c].pool.next}

\* A parallel call has its indices from the start; a sequential one, alone with
\* the writer, has the last ones that were reserved.
CallOK(c) ==
  /\ chCalls[c] = [kind |-> chCalls[c].kind, first |-> chCalls[c].first,
                   start |-> chCalls[c].start, pool |-> chCalls[c].pool]
  /\ chCalls[c].first \in Nat /\ chCalls[c].start \in Nat
  /\ ChPoolOK(chCalls[c].pool) /\ chCalls[c].pool.n > 0
  /\ \/ /\ chCalls[c].kind = "par"
        /\ chCalls[c].start + chCalls[c].pool.n <= chCounter
     \/ /\ chCalls[c].kind = "seq"
        /\ \A d \in ChCallers : d # c => ~Busy(d)
        /\ \A w \in ChWorkers : w # 1 => chCalls[c].pool.at[w] = "ended"
        /\ \/ Halted(chCalls[c].pool)
           \/ chCalls[c].pool.next = 0
           \/ chCalls[c].start + chCalls[c].pool.next = chCounter

\* A file that is being written is there, and one that was written has its table.
FilesOf(c) ==
  /\ \A w \in ChWorkers : chCalls[c].pool.at[w] = "work" =>
       chCalls[c].start + chCalls[c].pool.job[w] \in DOMAIN chDir
  /\ ~ChFailed(chCalls[c].pool) => \A r \in ChAll(chCalls[c].pool) :
       /\ r.v = chCalls[c].start + r.i
       /\ HasTable(r.v, chCalls[c].first + r.i)

CallsOK ==
  /\ DOMAIN chCalls = ChCallers
  /\ \A c \in ChCallers : Busy(c) => CallOK(c) /\ FilesOf(c)
  /\ \A c, d \in ChCallers : c # d => Owned(c) \cap Owned(d) = {}

\* The files of a call that returned Ok are consecutive and nobody's any more.
AckOK(a) ==
  \E s \in Nat, n \in Nat \ {0} :
    /\ DOMAIN a.paths = 1 .. n /\ Len(a.paths) = n /\ s + n <= chCounter
    /\ \A k \in 1 .. n : a.paths[k] = s + k - 1 /\ HasTable(a.paths[k], a.first + k - 1)
    /\ \A c \in ChCallers, k \in 1 .. n : a.paths[k] \notin Owned(c)

\* Among the listed paths the ones of a call are neighbours, and what was read of
\* them is what was written.
LoadOK ==
  /\ chLoad = [kind |-> "loading", seen |-> chLoad.seen, paths |-> chLoad.paths,
               pool |-> chLoad.pool]
  /\ chLoad.seen \subseteq chAcked /\ ChPoolOK(chLoad.pool)
  /\ \A w \in ChWorkers : chLoad.pool.at[w] # "work"
  /\ \A a \in chLoad.seen :
       /\ Len(a.paths) \in Nat
       /\ \E j \in 0 .. chLoad.pool.n - Len(a.paths) :
            \A k \in DOMAIN a.paths : chLoad.paths[j + k] = a.paths[k]
  /\ \A r \in ChAll(chLoad.pool), a \in chLoad.seen : \A k \in DOMAIN a.paths :
       chLoad.paths[r.i + 1] = a.paths[k] => r.v = a.first + k - 1

LoadedOK ==
  \A a \in chLoad.seen : \E j \in 0 .. Len(chLoad.batches) - Len(a.paths) :
    \A k \in DOMAIN a.paths : chLoad.batches[j + k] = a.first + k - 1

ChInv ==
  /\ chCounter \in Nat /\ chTables \in Nat
  /\ DOMAIN chDir \subseteq Nat /\ IsFiniteSet(DOMAIN chDir)
  /\ CallsOK
  /\ \A a \in chAcked : AckOK(a)
  /\ chLoad.kind \in {"none", "err", "ok", "loading"}
  /\ chLoad.kind = "loading" => LoadOK
  /\ chLoad.kind = "ok" => LoadedOK

LEMMA Unowned == ASSUME NEW c, chCalls[c] = ChNone PROVE Owned(c) = {}
BY DEF Owned, ChNone

LEMMA OwnedBelow ==
  ASSUME ChInv, NEW c \in ChCallers, NEW i \in Owned(c)
  PROVE  i \in Nat /\ i < chCounter
<1>1. Busy(c)
  BY Unowned DEF Busy
<1>2. CallOK(c) /\ ChPoolOK(chCalls[c].pool) /\ chCounter \in Nat
  BY <1>1 DEF ChInv, CallsOK, CallOK
<1>3. /\ chCalls[c].start \in Nat /\ chCalls[c].pool.n \in Nat
      /\ chCalls[c].pool.next \in Nat
  BY <1>2 DEF CallOK, ChPoolOK, ChPools
<1> QED
  BY <1>2, <1>3 DEF Owned, CallOK

\* The indices of the files that a call has written are its own.
LEMMA ResultsOwned ==
  ASSUME ChInv, NEW c \in ChCallers, Busy(c), ~ChFailed(chCalls[c].pool),
         NEW r \in ChAll(chCalls[c].pool)
  PROVE  r.v \in Owned(c)
<1>1. CallOK(c) /\ FilesOf(c) /\ ChPoolOK(chCalls[c].pool)
  BY DEF ChInv, CallsOK, CallOK
<1>2. /\ chCalls[c].start \in Nat /\ chCalls[c].pool.n \in Nat
      /\ chCalls[c].pool.next \in Nat /\ chCalls[c].pool.next <= chCalls[c].pool.n
      /\ r.i \in 0 .. chCalls[c].pool.next - 1
  BY <1>1 DEF CallOK, ChPoolOK, ChPools
<1>3. r.v = chCalls[c].start + r.i
  BY <1>1 DEF FilesOf
<1>4. ~Halted(chCalls[c].pool)
  BY FirstWorker DEF ChFailed, Halted
<1> QED
  BY <1>1, <1>2, <1>3, <1>4 DEF Owned, CallOK

\* A step of one call, which writes to no file but its own or new ones, and
\* reserves no index that was reserved before.
LEMMA CallMoves ==
  ASSUME ChInv, NEW c \in ChCallers, DOMAIN chCalls' = ChCallers,
         \A d \in ChCallers : d # c => chCalls'[d] = chCalls[d],
         \A d \in ChCallers : d # c /\ Busy(d) => chCalls[d].kind # "seq",
         chCounter' \in Nat, chCounter <= chCounter', chTables' \in Nat, chLoad' = chLoad,
         DOMAIN chDir' \subseteq Nat, IsFiniteSet(DOMAIN chDir'),
         DOMAIN chDir \subseteq DOMAIN chDir',
         \A i \in DOMAIN chDir : \/ chDir'[i] = chDir[i]
                                 \/ i \in Owned(c)
                                 \/ i >= chCounter,
         Busy(c)' => CallOK(c)' /\ FilesOf(c)',
         \A i \in Owned(c)' : i \in Owned(c) \/ i >= chCounter,
         chAcked \subseteq chAcked',
         \A a \in chAcked' : a \in chAcked \/ AckOK(a)'
  PROVE  ChInv'
<1>1. ASSUME NEW i \in Nat, NEW t, HasTable(i, t), i \notin Owned(c), i < chCounter
      PROVE  HasTable(i, t)'
  <2>1. i \in DOMAIN chDir /\ chDir[i] = [t |-> t, whole |-> TRUE] /\ chCounter \in Nat
    BY <1>1 DEF HasTable, ChInv
  <2>2. i \in DOMAIN chDir'
    BY <2>1
  <2>3. chDir'[i] = chDir[i] \/ i >= chCounter
    BY <1>1, <2>1
  <2>4. ~(i >= chCounter)
    BY <1>1, <2>1
  <2> QED
    BY <2>1, <2>2, <2>3, <2>4 DEF HasTable
<1>2. \A d \in ChCallers : d # c => Owned(d)' = Owned(d)
  BY DEF Owned
<1>3. ASSUME NEW d \in ChCallers, d # c, Busy(d)'
      PROVE  CallOK(d)' /\ FilesOf(d)'
  <2>1. chCalls'[d] = chCalls[d] /\ Busy(d) /\ chCalls[d].kind # "seq"
    BY <1>3 DEF Busy
  <2>2. CallOK(d) /\ FilesOf(d) /\ ChPoolOK(chCalls[d].pool)
    BY <2>1 DEF ChInv, CallsOK, CallOK
  <2>3. CallOK(d)'
    <3>1. /\ chCalls[d].kind = "par" /\ chCalls[d].start \in Nat /\ chCalls[d].pool.n \in Nat
          /\ chCounter \in Nat /\ chCalls[d].start + chCalls[d].pool.n <= chCounter
      BY <2>1, <2>2 DEF CallOK, ChPoolOK, ChPools, ChInv
    <3>2. chCalls[d].start + chCalls[d].pool.n <= chCounter'
      BY <3>1
    <3> QED
      BY <2>1, <2>2, <3>1, <3>2 DEF CallOK
  <2>4. ASSUME NEW r \in ChAll(chCalls[d].pool), ~ChFailed(chCalls[d].pool)
        PROVE  r.v = chCalls[d].start + r.i /\ HasTable(r.v, chCalls[d].first + r.i)'
    <3>1. r.v \in Owned(d)
      BY <2>1, <2>4, ResultsOwned
    <3>2. r.v \in Nat /\ r.v < chCounter
      BY <3>1, OwnedBelow
    <3>3. r.v \notin Owned(c)
      BY <1>3, <3>1 DEF ChInv, CallsOK
    <3>4. r.v = chCalls[d].start + r.i /\ HasTable(r.v, chCalls[d].first + r.i)
      BY <2>2, <2>4 DEF FilesOf
    <3>5. PICK t : t = chCalls[d].first + r.i
      OBVIOUS
    <3>6. HasTable(r.v, t)'
      BY <1>1, <3>2, <3>3, <3>4, <3>5
    <3> QED
      BY <2>1, <3>4, <3>5, <3>6
  <2>5. \A w \in ChWorkers : chCalls[d].pool.at[w] = "work" =>
          chCalls[d].start + chCalls[d].pool.job[w] \in DOMAIN chDir'
    BY <2>2 DEF FilesOf
  <2> QED
    BY <2>1, <2>3, <2>4, <2>5 DEF FilesOf
<1>4. ASSUME NEW d \in ChCallers, NEW e \in ChCallers, d # e
      PROVE  Owned(d)' \cap Owned(e)' = {}
  <2>1. Owned(d) \cap Owned(e) = {}
    BY <1>4 DEF ChInv, CallsOK
  <2>2. /\ \A i \in Owned(d) : i \in Nat /\ i < chCounter
        /\ \A i \in Owned(e) : i \in Nat /\ i < chCounter
        /\ chCounter \in Nat
    BY OwnedBelow DEF ChInv
  <2>3. CASE d = c
    BY <1>2, <1>4, <2>1, <2>2, <2>3
  <2>4. CASE e = c
    BY <1>2, <1>4, <2>1, <2>2, <2>4
  <2>5. CASE d # c /\ e # c
    BY <1>2, <2>1, <2>5
  <2> QED
    BY <2>3, <2>4, <2>5
<1>5. ASSUME NEW a \in chAcked PROVE AckOK(a)'
  <2>1. PICK s \in Nat, n \in Nat \ {0} :
          /\ DOMAIN a.paths = 1 .. n /\ Len(a.paths) = n /\ s + n <= chCounter
          /\ \A k \in 1 .. n : a.paths[k] = s + k - 1 /\ HasTable(a.paths[k], a.first + k - 1)
          /\ \A d \in ChCallers, k \in 1 .. n : a.paths[k] \notin Owned(d)
    BY DEF ChInv, AckOK
  <2>2. \A k \in 1 .. n : a.paths[k] \in Nat /\ a.paths[k] < chCounter /\ chCounter \in Nat
    BY <2>1 DEF ChInv
  <2>3. \A k \in 1 .. n : HasTable(a.paths[k], a.first + k - 1)'
    BY <1>1, <2>1, <2>2
  <2>4. \A d \in ChCallers, k \in 1 .. n : a.paths[k] \notin Owned(d)'
    <3> TAKE d \in ChCallers, k \in 1 .. n
    <3>1. a.paths[k] \notin Owned(d)
      BY <2>1
    <3>2. ~(a.paths[k] >= chCounter)
      BY <2>2
    <3> QED
      BY <1>2, <2>1, <3>1, <3>2
  <2>5. s + n <= chCounter'
    BY <2>1 DEF ChInv
  <2> QED
    BY <2>1, <2>3, <2>4, <2>5 DEF AckOK
<1>6. chLoad.kind = "loading" => LoadOK'
  <2>1. chLoad.kind = "loading" => LoadOK
    BY DEF ChInv
  <2> QED
    BY <2>1 DEF LoadOK
<1>7. chLoad.kind = "ok" => LoadedOK'
  <2>1. chLoad.kind = "ok" => LoadedOK
    BY DEF ChInv
  <2> QED
    BY <2>1 DEF LoadedOK
<1>8. CallsOK'
  BY <1>3, <1>4 DEF CallsOK
<1>9. \A a \in chAcked' : AckOK(a)'
  BY <1>5
<1> QED
  BY <1>6, <1>7, <1>8, <1>9 DEF ChInv

LEMMA ChInitOK == ChInit => ChInv
BY FS_EmptySet DEF ChInit, ChInv, CallsOK, Busy, Owned, ChNone

LEMMA CallsAlone ==
  ASSUME ChInv, NEW c \in ChCallers, Busy(c), NEW d \in ChCallers, d # c, Busy(d)
  PROVE  chCalls[d].kind # "seq"
BY DEF ChInv, CallsOK, CallOK

\* A call begins with nothing done.
LEMMA CallStep == ASSUME ChInv, ChCall PROVE ChInv'
<1>1. PICK c \in ChCallers, n \in 1 .. ChMaxTables - chTables :
        (ChWriteAll(c, n) \/ ChParWriteAll(c, n)) /\ chTables' = chTables + n
  BY DEF ChCall
<1>2. /\ n \in Nat /\ n > 0 /\ chTables' \in Nat /\ chTables \in Nat /\ chCounter \in Nat
      /\ DOMAIN chDir \subseteq Nat /\ IsFiniteSet(DOMAIN chDir) /\ DOMAIN chCalls = ChCallers
  BY <1>1, ChAssumption DEF ChInv, CallsOK
<1>3. chDir' = chDir /\ chAcked' = chAcked /\ chLoad' = chLoad
  BY DEF ChCall
<1>4. CASE ChWriteAll(c, n)
  <2>1. ChPoolOK(ChPool(n, 1)) /\ ChAll(ChPool(n, 1)) = {} /\ ChPool(n, 1).n = n
        /\ ChPool(n, 1).next = 0
        /\ \A w \in ChWorkers : ChPool(n, 1).at[w] = IF w <= 1 THEN "pull" ELSE "ended"
    BY <1>2, PoolStart
  <2>2. /\ chCalls' = [chCalls EXCEPT ![c] = [kind |-> "seq", first |-> chTables + 1,
                                             start |-> 0, pool |-> ChPool(n, 1)]]
        /\ chCounter' = chCounter /\ \A d \in ChCallers : chCalls[d] = ChNone
    BY <1>4 DEF ChWriteAll
  <2> DEFINE p == ChPool(n, 1)
  <2>3. /\ DOMAIN chCalls' = ChCallers
        /\ chCalls'[c] = [kind |-> "seq", first |-> chTables + 1, start |-> 0, pool |-> p]
        /\ \A d \in ChCallers : d # c => chCalls'[d] = chCalls[d] /\ chCalls'[d] = ChNone
    BY <1>2, <2>2
  <2> HIDE DEF p
  <2>4. \A w \in ChWorkers : w # 1 => p.at[w] = "ended"
    <3> TAKE w \in ChWorkers
    <3>1. w <= 1 => w = 1
      BY ChAssumption DEF ChWorkers
    <3> QED
      BY <2>1, <3>1 DEF p
  <2>5. CallOK(c)'
    BY <1>2, <2>1, <2>3, <2>4 DEF CallOK, Busy, p
  <2>6. FilesOf(c)'
    BY <2>1, <2>3 DEF FilesOf, p
  <2>7. \A i \in Owned(c)' : FALSE
    BY <2>1, <2>3 DEF Owned, p
  <2>8. \A d \in ChCallers : ~Busy(d)
    BY <2>2 DEF Busy
  <2> QED
    BY <1>2, <1>3, <2>2, <2>3, <2>5, <2>6, <2>7, <2>8, CallMoves
<1>5. CASE ChParWriteAll(c, n)
  <2>1. PICK t \in Nat : t > 0 /\ t = IF ChThreads < n THEN ChThreads ELSE n
    BY <1>2, ChAssumption
  <2> DEFINE p == ChPool(n, t)
  <2>2. /\ ChPoolOK(p) /\ ChAll(p) = {} /\ p.n = n /\ p.next = 0
        /\ \A w \in ChWorkers : p.at[w] = IF w <= t THEN "pull" ELSE "ended"
    BY <1>2, <2>1, PoolStart
  <2> HIDE DEF p
  <2>3. /\ chCalls' = [chCalls EXCEPT ![c] = [kind |-> "par", first |-> chTables + 1,
                                             start |-> chCounter, pool |-> p]]
        /\ chCounter' = chCounter + n
        /\ \A d \in ChCallers : chCalls[d].kind # "seq"
    BY <1>5, <2>1 DEF ChParWriteAll, ChReserved, p
  <2>4. /\ DOMAIN chCalls' = ChCallers
        /\ chCalls'[c] = [kind |-> "par", first |-> chTables + 1, start |-> chCounter,
                          pool |-> p]
        /\ \A d \in ChCallers : d # c => chCalls'[d] = chCalls[d]
    BY <1>2, <2>3
  <2>5. CallOK(c)'
    BY <1>2, <2>2, <2>3, <2>4 DEF CallOK
  <2>6. FilesOf(c)'
    BY <2>2, <2>4 DEF FilesOf
  <2>7. \A i \in Owned(c)' : i >= chCounter
    BY <2>4 DEF Owned
  <2>8. chCounter' \in Nat /\ chCounter <= chCounter'
    BY <1>2, <2>3
  <2> QED
    BY <1>2, <1>3, <2>3, <2>4, <2>5, <2>6, <2>7, <2>8, CallMoves
<1> QED
  BY <1>1, <1>4, <1>5

\* A worker that fails, or finds no more jobs, ends and leaves the files alone.
LEMMA WorkerStops ==
  ASSUME ChInv, NEW c \in ChCallers, Busy(c), NEW w \in ChWorkers, NEW q,
         chCalls' = [chCalls EXCEPT ![c].pool = q],
         ChPoolOK(q), ChAll(q) = ChAll(chCalls[c].pool), q.n = chCalls[c].pool.n,
         chCalls[c].pool.at[w] \in {"pull", "work"}, q.at[w] \in {"ended", "failed"},
         \A u \in ChWorkers : u # w => /\ q.at[u] = chCalls[c].pool.at[u]
                                       /\ q.job[u] = chCalls[c].pool.job[u],
         q.at[w] = "ended" => q.next = chCalls[c].pool.next /\ chCounter' = chCounter,
         chCounter' \in Nat, chCounter <= chCounter',
         UNCHANGED <<chDir, chTables, chAcked, chLoad>>
  PROVE  ChInv'
<1> DEFINE p == chCalls[c].pool
<1>1. /\ CallOK(c) /\ FilesOf(c) /\ ChPoolOK(p) /\ DOMAIN chCalls = ChCallers
      /\ chCounter \in Nat /\ chTables \in Nat
      /\ DOMAIN chDir \subseteq Nat /\ IsFiniteSet(DOMAIN chDir)
  BY DEF ChInv, CallsOK, CallOK
<1>2. /\ DOMAIN chCalls' = ChCallers
      /\ chCalls'[c] = [kind |-> chCalls[c].kind, first |-> chCalls[c].first,
                        start |-> chCalls[c].start, pool |-> q]
      /\ \A d \in ChCallers : d # c => chCalls'[d] = chCalls[d]
  BY <1>1 DEF CallOK
<1>3. chCalls[c].kind = "seq" => w = 1 /\ ~Halted(p)
  BY <1>1 DEF CallOK, Halted
<1>4. chCalls[c].kind = "seq" /\ q.at[w] = "ended" => ~Halted(q)
  BY <1>3 DEF Halted
<1>5. chCalls[c].kind = "seq" /\ q.at[w] = "failed" => Halted(q)
  BY <1>3 DEF Halted
<1>6. CallOK(c)'
  <2>1. ASSUME chCalls[c].kind = "par" PROVE chCalls[c].start + q.n <= chCounter'
    BY <1>1, <2>1 DEF CallOK, ChPoolOK, ChPools
  <2>2. ASSUME chCalls[c].kind = "seq"
        PROVE  /\ \A d \in ChCallers : d # c => ~Busy(d)'
               /\ \A u \in ChWorkers : u # 1 => q.at[u] = "ended"
               /\ Halted(q) \/ q.next = 0 \/ chCalls[c].start + q.next = chCounter'
    BY <1>1, <1>2, <1>3, <1>4, <1>5, <2>2 DEF CallOK, Busy
  <2> QED
    BY <1>1, <1>2, <2>1, <2>2 DEF CallOK
<1>7. FilesOf(c)'
  <2>1. ~ChFailed(q) => ~ChFailed(p)
    BY DEF ChFailed
  <2>2. \A u \in ChWorkers : q.at[u] = "work" => p.at[u] = "work" /\ q.job[u] = p.job[u]
    OBVIOUS
  <2> QED
    BY <1>1, <1>2, <2>1, <2>2 DEF FilesOf, HasTable
<1>8. \A i \in Owned(c)' : i \in Owned(c)
  BY <1>1, <1>2, <1>3, <1>4, <1>5 DEF Owned, CallOK
<1>9. \A d \in ChCallers : d # c /\ Busy(d) => chCalls[d].kind # "seq"
  BY CallsAlone
<1> QED
  BY <1>1, <1>2, <1>6, <1>7, <1>8, <1>9, CallMoves

\* The next file of a call gets an index of its own, or one that nobody had.
LEMMA ChunkStep ==
  ASSUME ChInv, NEW c \in ChCallers, NEW w \in ChWorkers, ChNextChunk(c, w)
  PROVE  ChInv'
<1> DEFINE call == chCalls[c]
           p == call.pool
           q == ChPull(p, w)
           start == IF call.kind = "seq" THEN chCounter - q.job[w] ELSE call.start
           idx == start + q.job[w]
<1>1. /\ Busy(c) /\ p.at[w] = "pull" /\ UNCHANGED <<chTables, chAcked, chLoad>>
      /\ IF q.at[w] = "ended"
         THEN ChSetPool(c, q) /\ UNCHANGED <<chDir, chCounter, chFaults>>
         ELSE /\ chCounter' = IF call.kind = "seq" THEN ChReserved(1) ELSE chCounter
              /\ \/ /\ chDir' = [i \in DOMAIN chDir \cup {idx} |->
                                  IF i = idx THEN [t |-> call.first + q.job[w], whole |-> FALSE]
                                  ELSE chDir[i]]
                    /\ chCalls' = [chCalls EXCEPT ![c].pool = q, ![c].start = start]
                 \/ /\ ChSetPool(c, ChFail(q, w))
                    /\ UNCHANGED chDir
  BY DEF ChNextChunk, Busy
<1>2. /\ CallOK(c) /\ FilesOf(c) /\ ChPoolOK(p) /\ DOMAIN chCalls = ChCallers
      /\ chCounter \in Nat /\ chTables \in Nat
      /\ DOMAIN chDir \subseteq Nat /\ IsFiniteSet(DOMAIN chDir)
  BY <1>1 DEF ChInv, CallsOK, CallOK
<1>3. /\ ChPoolOK(q) /\ ChAll(q) = ChAll(p) /\ q.n = p.n
      /\ \A u \in ChWorkers : u # w => q.at[u] = p.at[u] /\ q.job[u] = p.job[u]
      /\ \/ p.next = p.n /\ q.next = p.next /\ q.at[w] = "ended"
         \/ p.next < p.n /\ q.next = p.next + 1 /\ q.at[w] = "work" /\ q.job[w] = p.next
  BY <1>1, <1>2, PoolPulled
<1>4. p.next \in Nat /\ p.n \in Nat /\ call.start \in Nat /\ call.first \in Nat
  BY <1>2 DEF CallOK, ChPoolOK, ChPools
<1> HIDE DEF q
<1>5. CASE q.at[w] = "ended"
  <2>1. /\ chCalls' = [chCalls EXCEPT ![c].pool = q] /\ UNCHANGED <<chDir, chCounter>>
        /\ q.next = p.next
    BY <1>1, <1>3, <1>5 DEF ChSetPool
  <2>2. chCounter' \in Nat /\ chCounter <= chCounter' /\ UNCHANGED <<chDir, chTables, chAcked, chLoad>>
    BY <1>1, <1>2, <2>1
  <2> QED
    BY <1>1, <1>3, <1>5, <2>1, <2>2, WorkerStops
<1>6. CASE q.at[w] # "ended"
  <2>1. /\ p.next < p.n /\ q.next = p.next + 1 /\ q.at[w] = "work" /\ q.job[w] = p.next
        /\ chCounter' = IF call.kind = "seq" THEN chCounter + 1 ELSE chCounter
    BY <1>1, <1>3, <1>6 DEF ChReserved
  <2>2. chCounter' \in Nat /\ chCounter <= chCounter'
    BY <1>2, <2>1
  <2>3. CASE chCalls' = [chCalls EXCEPT ![c].pool = ChFail(q, w)] /\ chDir' = chDir
    <3> DEFINE z == ChFail(q, w)
    <3>1. /\ ChPoolOK(z) /\ ChAll(z) = ChAll(p) /\ z.n = p.n /\ z.at[w] = "failed"
          /\ \A u \in ChWorkers : u # w => z.at[u] = p.at[u] /\ z.job[u] = p.job[u]
      BY <1>3, <2>1, PoolFailed
    <3>2. chCalls' = [chCalls EXCEPT ![c].pool = z]
      BY <2>3
    <3> HIDE DEF z
    <3>3. /\ z.at[w] \in {"ended", "failed"} /\ p.at[w] \in {"pull", "work"} /\ Busy(c)
          /\ UNCHANGED <<chDir, chTables, chAcked, chLoad>>
          /\ z.at[w] = "ended" => z.next = p.next /\ chCounter' = chCounter
      BY <1>1, <2>3, <3>1
    <3>4. /\ ChPoolOK(z) /\ ChAll(z) = ChAll(p) /\ z.n = p.n
          /\ \A u \in ChWorkers : u # w => z.at[u] = p.at[u] /\ z.job[u] = p.job[u]
      BY <3>1
    <3> HIDE DEF p
    <3> QED
      BY ONLY ChInv, c \in ChCallers, w \in ChWorkers, <2>2, <3>2, <3>3, <3>4, WorkerStops DEF p
  <2>4. CASE /\ chDir' = [i \in DOMAIN chDir \cup {idx} |->
                            IF i = idx THEN [t |-> call.first + q.job[w], whole |-> FALSE]
                            ELSE chDir[i]]
             /\ chCalls' = [chCalls EXCEPT ![c].pool = q, ![c].start = start]
    <3>1. call.kind \in {"seq", "par"}
      BY <1>2 DEF CallOK
    <3>2. ASSUME call.kind = "seq"
          PROVE  /\ w = 1 /\ ~Halted(p) /\ idx = chCounter /\ start \in Nat
                 /\ chCounter' = start + q.next
                 /\ p.next = 0 \/ (start = call.start /\ call.start + p.next = chCounter)
      <4>1. w = 1 /\ ~Halted(p)
        BY <1>1, <1>2, <3>2 DEF CallOK, Halted
      <4>2. p.next = 0 \/ call.start + p.next = chCounter
        BY <1>2, <3>2, <4>1 DEF CallOK
      <4>3. start = chCounter - p.next /\ chCounter' = chCounter + 1
        BY <2>1, <3>2
      <4> QED
        BY <1>2, <1>4, <2>1, <4>1, <4>2, <4>3
    <3>3. ASSUME call.kind = "par"
          PROVE  start = call.start /\ idx = call.start + p.next /\ chCounter' = chCounter
      BY <2>1, <3>3
    <3>4. start \in Nat /\ idx \in Nat /\ idx = start + p.next
      BY <1>2, <1>4, <2>1, <3>1, <3>2, <3>3
    <3>5. idx \in Owned(c) \/ idx >= chCounter
      BY <1>2, <1>4, <2>1, <3>1, <3>2, <3>3, <3>4 DEF Owned
    <3> HIDE DEF start, idx
    <3>6. /\ DOMAIN chCalls' = ChCallers
          /\ chCalls'[c] = [kind |-> call.kind, first |-> call.first,
                            start |-> start, pool |-> q]
          /\ \A d \in ChCallers : d # c => chCalls'[d] = chCalls[d]
      BY <1>2, <2>4 DEF CallOK
    <3>7. /\ DOMAIN chDir' = DOMAIN chDir \cup {idx}
          /\ \A i \in DOMAIN chDir : i # idx => chDir'[i] = chDir[i]
      BY <2>4
    <3>8. DOMAIN chDir' \subseteq Nat /\ IsFiniteSet(DOMAIN chDir')
      BY <1>2, <3>4, <3>7, FS_AddElement
    <3>9. CallOK(c)'
      <4>1. ASSUME call.kind = "par" PROVE start + q.n <= chCounter'
        BY <1>2, <1>3, <3>3, <4>1 DEF CallOK
      <4>2. ASSUME call.kind = "seq"
            PROVE  /\ \A d \in ChCallers : d # c => ~Busy(d)'
                   /\ \A u \in ChWorkers : u # 1 => q.at[u] = "ended"
                   /\ start + q.next = chCounter'
        BY <1>2, <1>3, <3>2, <3>6, <4>2 DEF CallOK, Busy
      <4>3. q.n > 0
        BY <1>2, <1>3 DEF CallOK
      <4> QED
        BY <1>3, <1>4, <3>1, <3>4, <3>6, <4>1, <4>2, <4>3 DEF CallOK
    <3>10. FilesOf(c)'
      <4>1. ASSUME NEW u \in ChWorkers, q.at[u] = "work"
            PROVE  start + q.job[u] \in DOMAIN chDir'
        <5>1. CASE u = w
          BY <2>1, <3>4, <3>7, <5>1
        <5>2. CASE u # w
          <6>1. p.at[u] = "work" /\ q.job[u] = p.job[u]
            BY <1>3, <4>1, <5>2
          <6>2. call.kind = "par"
            BY <1>2, <3>1, <3>2, <5>2, <6>1 DEF CallOK
          <6> QED
            BY <1>2, <3>3, <3>7, <6>1, <6>2 DEF FilesOf
        <5> QED
          BY <5>1, <5>2
      <4>2. ASSUME NEW r \in ChAll(p), ~ChFailed(q)
            PROVE  r.v = start + r.i /\ HasTable(r.v, call.first + r.i)
        <5>1. ~ChFailed(p)
          BY <1>1, <1>3, <4>2 DEF ChFailed
        <5>2. r.i \in 0 .. p.next - 1
          BY <1>2, <4>2 DEF ChPoolOK
        <5>3. start = call.start
          BY <1>4, <3>1, <3>2, <3>3, <5>2
        <5> QED
          BY <1>2, <4>2, <5>1, <5>3 DEF FilesOf
      <4>3. ASSUME NEW r \in ChAll(p), ~ChFailed(q)
            PROVE  r.v \in DOMAIN chDir' /\ chDir'[r.v] = [t |-> call.first + r.i, whole |-> TRUE]
        <5>1. r.v = start + r.i /\ r.i \in 0 .. p.next - 1
          BY <1>2, <4>2, <4>3 DEF ChPoolOK
        <5>2. r.v # idx
          BY <1>4, <3>4, <5>1
        <5> QED
          BY <3>7, <4>2, <4>3, <5>2 DEF HasTable
      <4> QED
        BY <1>3, <3>6, <4>1, <4>2, <4>3 DEF FilesOf, HasTable
    <3>11. \A i \in Owned(c)' : i \in Owned(c) \/ i >= chCounter
      <4> TAKE i \in Owned(c)'
      <4>1. /\ i \in Nat /\ start <= i
            /\ \/ call.kind = "par" /\ i < start + q.n
               \/ call.kind = "seq" /\ i < start + q.next
        BY <3>6 DEF Owned
      <4>2. CASE call.kind = "par"
        BY <1>3, <3>3, <4>1, <4>2 DEF Owned
      <4>3. CASE call.kind = "seq"
        <5>1. i = idx \/ i < start + p.next
          BY <1>4, <2>1, <3>4, <4>1, <4>3
        <5>2. CASE i = idx
          BY <3>5, <5>2
        <5>3. CASE i < start + p.next
          <6>1. start = call.start
            BY <1>4, <3>2, <3>4, <4>1, <4>3, <5>3
          <6> QED
            BY <3>2, <4>1, <4>3, <5>3, <6>1 DEF Owned
        <5> QED
          BY <5>1, <5>2, <5>3
      <4> QED
        BY <3>1, <4>2, <4>3
    <3>12. \A d \in ChCallers : d # c /\ Busy(d) => chCalls[d].kind # "seq"
      BY <1>1, CallsAlone
    <3>13. /\ DOMAIN chDir \subseteq DOMAIN chDir' /\ chTables' \in Nat /\ chAcked' = chAcked
           /\ chLoad' = chLoad
           /\ \A i \in DOMAIN chDir : chDir'[i] = chDir[i] \/ i \in Owned(c) \/ i >= chCounter
      BY <1>1, <1>2, <3>5, <3>7
    <3> QED
      BY <2>2, <3>6, <3>8, <3>9, <3>10, <3>11, <3>12, <3>13, CallMoves
  <2> QED
    BY <1>1, <1>6, <2>3, <2>4 DEF ChSetPool
<1> QED
  BY <1>5, <1>6

\* A worker writes the file it has reserved, which no other call has.
LEMMA EncodeStep ==
  ASSUME ChInv, NEW c \in ChCallers, NEW w \in ChWorkers, ChEncode(c, w)
  PROVE  ChInv'
<1> DEFINE call == chCalls[c]
           p == call.pool
           idx == call.start + p.job[w]
<1>1. /\ Busy(c) /\ p.at[w] = "work" /\ UNCHANGED <<chCounter, chTables, chAcked, chLoad>>
      /\ \/ /\ chDir' = [chDir EXCEPT ![idx] = [t |-> call.first + p.job[w], whole |-> TRUE]]
            /\ chCalls' = [chCalls EXCEPT ![c].pool = ChDone(p, w, idx)]
         \/ /\ chCalls' = [chCalls EXCEPT ![c].pool = ChFail(p, w)]
            /\ chDir' = chDir
  BY DEF ChEncode, Busy, ChSetPool, ChIndex, ChJob
<1>2. /\ CallOK(c) /\ FilesOf(c) /\ ChPoolOK(p) /\ DOMAIN chCalls = ChCallers
      /\ chCounter \in Nat /\ chTables \in Nat
      /\ DOMAIN chDir \subseteq Nat /\ IsFiniteSet(DOMAIN chDir)
  BY <1>1 DEF ChInv, CallsOK, CallOK
<1>3. /\ p.job[w] \in Nat /\ p.job[w] < p.next /\ p.next \in Nat /\ p.n \in Nat
      /\ p.next <= p.n /\ call.start \in Nat /\ call.first \in Nat
  BY <1>1, <1>2 DEF CallOK, ChPoolOK, ChPools
<1>4. idx \in DOMAIN chDir
  BY <1>1, <1>2 DEF FilesOf
<1>5. CASE chCalls' = [chCalls EXCEPT ![c].pool = ChFail(p, w)] /\ chDir' = chDir
  <2> DEFINE z == ChFail(p, w)
  <2>1. /\ ChPoolOK(z) /\ ChAll(z) = ChAll(p) /\ z.n = p.n /\ z.at[w] = "failed"
        /\ z.job = p.job /\ \A u \in ChWorkers : u # w => z.at[u] = p.at[u]
    BY <1>1, <1>2, PoolFailed
  <2>2. chCalls' = [chCalls EXCEPT ![c].pool = z]
    BY <1>5
  <2> HIDE DEF z
  <2>3. /\ z.at[w] \in {"ended", "failed"} /\ p.at[w] \in {"pull", "work"} /\ Busy(c)
        /\ UNCHANGED <<chDir, chTables, chAcked, chLoad>>
        /\ z.at[w] = "ended" => z.next = p.next /\ chCounter' = chCounter
    BY <1>1, <1>5, <2>1
  <2>4. /\ ChPoolOK(z) /\ ChAll(z) = ChAll(p) /\ z.n = p.n
        /\ \A u \in ChWorkers : u # w => z.at[u] = p.at[u] /\ z.job[u] = p.job[u]
    BY <2>1
  <2>5. chCounter' \in Nat /\ chCounter <= chCounter'
    BY <1>1, <1>2
  <2> HIDE DEF p
  <2> QED
    BY ONLY ChInv, c \in ChCallers, w \in ChWorkers, <2>2, <2>3, <2>4, <2>5, WorkerStops DEF p
<1>6. CASE /\ chDir' = [chDir EXCEPT ![idx] = [t |-> call.first + p.job[w], whole |-> TRUE]]
           /\ chCalls' = [chCalls EXCEPT ![c].pool = ChDone(p, w, idx)]
  <2> DEFINE q == ChDone(p, w, idx)
  <2>1. /\ ChPoolOK(q) /\ ChAll(q) = ChAll(p) \cup {[i |-> p.job[w], v |-> idx]}
        /\ q.n = p.n /\ q.next = p.next /\ q.job = p.job /\ q.at[w] = "pull"
        /\ \A u \in ChWorkers : u # w => q.at[u] = p.at[u]
    BY <1>1, <1>2, PoolDone
  <2> HIDE DEF q
  <2>2. /\ DOMAIN chCalls' = ChCallers
        /\ chCalls'[c] = [kind |-> call.kind, first |-> call.first, start |-> call.start,
                          pool |-> q]
        /\ \A d \in ChCallers : d # c => chCalls'[d] = chCalls[d]
    BY <1>2, <1>6 DEF CallOK, q
  <2>3. call.kind = "seq" => w = 1 /\ ~Halted(p) /\ ~Halted(q)
    BY <1>1, <1>2, <2>1 DEF CallOK, Halted
  <2>4. idx \in Owned(c)
    <3>1. idx \in Nat /\ call.start <= idx /\ idx < call.start + p.next
          /\ idx < call.start + p.n
      BY <1>3
    <3> HIDE DEF idx
    <3> QED
      BY <1>2, <2>3, <3>1 DEF Owned, CallOK
  <2>5. /\ DOMAIN chDir' = DOMAIN chDir
        /\ chDir'[idx] = [t |-> call.first + p.job[w], whole |-> TRUE]
        /\ \A i \in DOMAIN chDir : i # idx => chDir'[i] = chDir[i]
    BY <1>4, <1>6
  <2>6. CallOK(c)'
    <3>1. ASSUME call.kind = "par" PROVE call.start + q.n <= chCounter'
      BY <1>1, <1>2, <2>1, <3>1 DEF CallOK
    <3>2. ASSUME call.kind = "seq"
          PROVE  /\ \A d \in ChCallers : d # c => ~Busy(d)'
                 /\ \A u \in ChWorkers : u # 1 => q.at[u] = "ended"
                 /\ Halted(q) \/ q.next = 0 \/ call.start + q.next = chCounter'
      BY <1>1, <1>2, <2>1, <2>2, <2>3, <3>2 DEF CallOK, Busy
    <3> QED
      BY <1>2, <2>1, <2>2, <3>1, <3>2 DEF CallOK
  <2>7. FilesOf(c)'
    <3>1. \A u \in ChWorkers : q.at[u] = "work" =>
            call.start + q.job[u] \in DOMAIN chDir'
      BY <1>2, <2>1, <2>5 DEF FilesOf
    <3>2. ASSUME NEW r \in ChAll(q), ~ChFailed(q)
          PROVE  /\ r.v = call.start + r.i /\ r.v \in DOMAIN chDir'
                 /\ chDir'[r.v] = [t |-> call.first + r.i, whole |-> TRUE]
      <4>1. CASE r = [i |-> p.job[w], v |-> idx]
        BY <1>4, <2>5, <4>1
      <4>2. CASE r \in ChAll(p)
        <5>1. ~ChFailed(p)
          BY <1>1, <2>1, <3>2 DEF ChFailed
        <5>2. /\ r.v = call.start + r.i /\ r.v \in DOMAIN chDir
              /\ chDir[r.v] = [t |-> call.first + r.i, whole |-> TRUE]
          BY <1>2, <4>2, <5>1 DEF FilesOf, HasTable
        <5>3. r.i \in Nat /\ r.i # p.job[w]
          BY <1>1, <1>2, <1>3, <4>2 DEF ChPoolOK
        <5>4. r.v # idx
          BY <1>3, <5>2, <5>3
        <5> QED
          BY <2>5, <5>2, <5>4
      <4> QED
        BY <2>1, <4>1, <4>2
    <3> HIDE DEF idx
    <3> QED
      BY <2>2, <3>1, <3>2 DEF FilesOf, HasTable
  <2>8. \A i \in Owned(c)' : i \in Owned(c)
    BY <1>2, <2>1, <2>2, <2>3 DEF Owned, CallOK
  <2>9. \A d \in ChCallers : d # c /\ Busy(d) => chCalls[d].kind # "seq"
    BY <1>1, CallsAlone
  <2>10. /\ chCounter' \in Nat /\ chCounter <= chCounter' /\ chTables' \in Nat
         /\ chAcked' = chAcked /\ chLoad' = chLoad
         /\ \A i \in DOMAIN chDir : chDir'[i] = chDir[i] \/ i \in Owned(c) \/ i >= chCounter
    BY <1>1, <1>2, <2>4, <2>5
  <2> QED
    BY <1>2, <2>2, <2>5, <2>6, <2>7, <2>8, <2>9, <2>10, CallMoves
<1> QED
  BY <1>1, <1>5, <1>6

\* The paths of a call that succeeds are its indices in order.
LEMMA ReturnStep ==
  ASSUME ChInv, NEW c \in ChCallers, ChReturn(c)
  PROVE  ChInv'
<1> DEFINE call == chCalls[c]
           p == call.pool
<1>1. /\ Busy(c) /\ ChEnded(p) /\ chCalls' = [chCalls EXCEPT ![c] = ChNone]
      /\ chAcked' = IF ChFailed(p) THEN chAcked
                    ELSE chAcked \cup {[first |-> call.first, paths |-> ChResults(p)]}
      /\ UNCHANGED <<chCounter, chDir, chTables, chLoad>>
  BY DEF ChReturn, Busy
<1>2. /\ CallOK(c) /\ FilesOf(c) /\ ChPoolOK(p) /\ DOMAIN chCalls = ChCallers
      /\ chCounter \in Nat /\ chTables \in Nat
      /\ DOMAIN chDir \subseteq Nat /\ IsFiniteSet(DOMAIN chDir)
  BY <1>1 DEF ChInv, CallsOK, CallOK
<1>3. /\ DOMAIN chCalls' = ChCallers /\ chCalls'[c] = ChNone
      /\ \A d \in ChCallers : d # c => chCalls'[d] = chCalls[d]
  BY <1>1, <1>2
<1>4. ~Busy(c)' /\ \A i \in Owned(c)' : FALSE
  BY <1>3 DEF Busy, Owned, ChNone
<1>5. ASSUME ~ChFailed(p), NEW a, a = [first |-> call.first, paths |-> ChResults(p)]
      PROVE  AckOK(a)'
  <2>1. /\ p.next = p.n /\ p.n \in Nat /\ Len(a.paths) = p.n /\ DOMAIN a.paths = 1 .. p.n
        /\ \A j \in 1 .. p.n : \E r \in ChAll(p) : r.i = j - 1 /\ a.paths[j] = r.v
    BY <1>1, <1>2, <1>5, PoolComplete
  <2>2. p.n > 0 /\ call.start \in Nat /\ call.start + p.n <= chCounter
    <3>1. ~Halted(p)
      BY <1>5, FirstWorker DEF Halted, ChFailed
    <3> QED
      BY <1>2, <2>1, <3>1 DEF CallOK
  <2>3. ASSUME NEW j \in 1 .. p.n
        PROVE  /\ a.paths[j] = call.start + j - 1 /\ a.paths[j] \in Owned(c)
               /\ HasTable(a.paths[j], a.first + j - 1)
    <3>1. PICK r \in ChAll(p) : r.i = j - 1 /\ a.paths[j] = r.v
      BY <2>1
    <3>2. r.v = call.start + r.i /\ HasTable(r.v, call.first + r.i)
      BY <1>2, <1>5 DEF FilesOf
    <3>3. r.v \in Owned(c)
      BY <1>1, <1>5, ResultsOwned
    <3>4. a.first = call.first /\ call.first \in Nat
      BY <1>2, <1>5 DEF CallOK
    <3>5. a.first + j - 1 = call.first + r.i /\ a.paths[j] = call.start + j - 1
      BY <2>1, <2>2, <3>1, <3>2, <3>4
    <3> QED
      BY <3>1, <3>2, <3>3, <3>5
  <2>4. \A d \in ChCallers, j \in 1 .. p.n : a.paths[j] \notin Owned(d)'
    <3> TAKE d \in ChCallers, j \in 1 .. p.n
    <3>1. CASE d = c
      BY <1>4, <3>1
    <3>2. CASE d # c
      <4>1. Owned(d)' = Owned(d)
        BY <1>3, <3>2 DEF Owned
      <4>2. a.paths[j] \notin Owned(d)
        BY <2>3, <3>2 DEF ChInv, CallsOK
      <4> QED
        BY <4>1, <4>2
    <3> QED
      BY <3>1, <3>2
  <2>5. \A j \in 1 .. p.n : HasTable(a.paths[j], a.first + j - 1)'
    BY <1>1, <2>3 DEF HasTable
  <2>6. PICK s, n : s = call.start /\ n = p.n
    OBVIOUS
  <2>7. /\ s \in Nat /\ n \in Nat \ {0} /\ DOMAIN a.paths = 1 .. n /\ Len(a.paths) = n
        /\ s + n <= chCounter'
    <3>1. chCounter' = chCounter
      BY <1>1
    <3> HIDE DEF p, call
    <3> QED
      BY ONLY <2>1, <2>2, <2>6, <3>1
  <2>8. \A k \in 1 .. n : a.paths[k] = s + k - 1 /\ HasTable(a.paths[k], a.first + k - 1)'
    <3>1. \A k \in 1 .. n : a.paths[k] = s + k - 1
      BY <2>3, <2>6
    <3> QED
      BY <2>5, <2>6, <3>1
  <2>9. \A d \in ChCallers, k \in 1 .. n : a.paths[k] \notin Owned(d)'
    BY <2>4, <2>6
  <2> QED
    BY <2>7, <2>8, <2>9 DEF AckOK
<1>6. \A a \in chAcked' : a \in chAcked \/ AckOK(a)'
  BY <1>1, <1>5
<1>7. chAcked \subseteq chAcked'
  BY <1>1
<1>8. \A d \in ChCallers : d # c /\ Busy(d) => chCalls[d].kind # "seq"
  BY <1>1, CallsAlone
<1>9. /\ chCounter' \in Nat /\ chCounter <= chCounter' /\ chTables' \in Nat
      /\ chLoad' = chLoad /\ chDir' = chDir
  BY <1>1, <1>2
<1> QED
  BY <1>2, <1>3, <1>4, <1>6, <1>7, <1>8, <1>9, CallMoves

------------------------------------------------------------------------------
(* Lists of indices.                                                       *)

Below(S, i) == {h \in S : h < i}

LEMMA RankRange ==
  ASSUME NEW S, S \subseteq Nat, IsFiniteSet(S), NEW i \in S
  PROVE  /\ IsFiniteSet(Below(S, i)) /\ Cardinality(S) \in Nat
         /\ Cardinality(Below(S, i)) \in Nat /\ Cardinality(Below(S, i)) < Cardinality(S)
<1>1. Below(S, i) \in SUBSET S /\ Below(S, i) # S
  BY DEF Below
<1>2. /\ IsFiniteSet(Below(S, i)) /\ Cardinality(Below(S, i)) <= Cardinality(S)
      /\ Cardinality(Below(S, i)) # Cardinality(S)
  BY <1>1, FS_Subset
<1>3. Cardinality(Below(S, i)) \in Nat /\ Cardinality(S) \in Nat
  BY <1>2, FS_CardinalityType
<1> QED
  BY <1>2, <1>3

LEMMA RankGrows ==
  ASSUME NEW S, S \subseteq Nat, IsFiniteSet(S), NEW i \in S, NEW j \in S, i < j
  PROVE  Cardinality(Below(S, i)) < Cardinality(Below(S, j))
<1>1. /\ IsFiniteSet(Below(S, j))
      /\ Cardinality(Below(S, j)) \in Nat /\ Cardinality(Below(S, i)) \in Nat
  BY RankRange
<1>2. Below(S, i) \in SUBSET Below(S, j) /\ i \in Below(S, j) /\ i \notin Below(S, i)
  <2>1. i \in Nat /\ j \in Nat /\ ~(i < i)
    OBVIOUS
  <2>2. \A h \in S : h < i => h < j
    BY <2>1
  <2> QED
    BY ONLY i \in S, i < j, <2>1, <2>2 DEF Below
<1>3. /\ Cardinality(Below(S, i)) <= Cardinality(Below(S, j))
      /\ Cardinality(Below(S, i)) # Cardinality(Below(S, j))
  BY <1>1, <1>2, FS_Subset
<1> QED
  BY <1>1, <1>3

LEMMA RankNext ==
  ASSUME NEW S, S \subseteq Nat, IsFiniteSet(S), NEW i \in S, i + 1 \in S
  PROVE  Cardinality(Below(S, i + 1)) = Cardinality(Below(S, i)) + 1
<1>1. Below(S, i + 1) = Below(S, i) \cup {i} /\ i \notin Below(S, i)
  <2>1. i \in Nat /\ ~(i < i)
    OBVIOUS
  <2>2. \A h \in S : h < i + 1 <=> h < i \/ h = i
    BY <2>1
  <2> QED
    BY ONLY i \in S, <2>1, <2>2 DEF Below
<1>2. IsFiniteSet(Below(S, i))
  BY RankRange
<1> QED
  BY <1>1, <1>2, FS_AddElement

\* An index is listed behind as many as are smaller.
LEMMA ListedAt ==
  ASSUME NEW S, S \subseteq Nat, IsFiniteSet(S), NEW i \in S
  PROVE  ChListed(S)[Cardinality(Below(S, i)) + 1] = i
<1>1. PICK k : k = Cardinality(Below(S, i)) + 1
  OBVIOUS
<1>2. k \in 1 .. Cardinality(S) /\ k - 1 = Cardinality(Below(S, i))
  <2>1. /\ Cardinality(Below(S, i)) \in Nat /\ Cardinality(S) \in Nat
        /\ Cardinality(Below(S, i)) < Cardinality(S)
    BY RankRange
  <2> QED
    BY ONLY <1>1, <2>1
<1>3. ASSUME NEW h \in S, Cardinality(Below(S, h)) = k - 1 PROVE h = i
  <2>1. h \in Nat /\ i \in Nat /\ Cardinality(Below(S, i)) \in Nat
    BY RankRange
  <2>2. ASSUME h < i PROVE FALSE
    <3>1. Cardinality(Below(S, h)) < Cardinality(Below(S, i))
      BY <2>2, RankGrows
    <3> QED
      BY ONLY <1>2, <1>3, <2>1, <3>1
  <2>3. ASSUME i < h PROVE FALSE
    <3>1. Cardinality(Below(S, i)) < Cardinality(Below(S, h))
      BY <2>3, RankGrows
    <3> QED
      BY ONLY <1>2, <1>3, <2>1, <3>1
  <2> QED
    BY <2>1, <2>2, <2>3
<1>4. ChListed(S)[k] = CHOOSE h \in S : Cardinality(Below(S, h)) = k - 1
  BY <1>2 DEF ChListed, Below
<1> QED
  BY <1>1, <1>2, <1>3, <1>4

\* Consecutive indices are listed one behind the other.
LEMMA NeighboursListed ==
  ASSUME NEW S, S \subseteq Nat, IsFiniteSet(S), NEW s \in Nat, NEW n \in Nat \ {0},
         \A k \in 1 .. n : s + k - 1 \in S
  PROVE  /\ Cardinality(S) \in Nat
         /\ \E j \in 0 .. Cardinality(S) - n :
              \A k \in 1 .. n : ChListed(S)[j + k] = s + k - 1
<1>0. \A m \in Nat : m < n => s + m \in S
  <2> TAKE m \in Nat
  <2> HAVE m < n
  <2>1. m + 1 \in 1 .. n /\ s + (m + 1) - 1 = s + m
    OBVIOUS
  <2> QED
    BY <2>1
<1>1. PICK j : j = Cardinality(Below(S, s))
  OBVIOUS
<1>2. j \in Nat /\ Cardinality(S) \in Nat /\ s \in S
  <2>1. 0 \in Nat /\ 0 < n /\ s + 0 = s
    OBVIOUS
  <2>2. s \in S
    BY <1>0, <2>1
  <2> QED
    BY <1>1, <2>2, RankRange
<1> DEFINE T == {m \in Nat : m < n => Cardinality(Below(S, s + m)) = j + m}
<1>3. 0 \in T
  <2>1. s + 0 = s /\ j + 0 = j
    BY <1>2
  <2> QED
    BY <1>1, <2>1
<1>4. ASSUME NEW m \in Nat, m \in T PROVE m + 1 \in T
  <2> SUFFICES ASSUME m + 1 < n PROVE Cardinality(Below(S, s + (m + 1))) = j + (m + 1)
    OBVIOUS
  <2>1. m < n /\ s + m \in S /\ (s + m) + 1 \in S /\ s + (m + 1) = (s + m) + 1
    BY <1>0
  <2>2. Cardinality(Below(S, s + m)) = j + m
    BY <1>4, <2>1
  <2>3. Cardinality(Below(S, (s + m) + 1)) = Cardinality(Below(S, s + m)) + 1
    BY <2>1, RankNext
  <2> QED
    BY <1>2, <2>1, <2>2, <2>3
<1>5. \A m \in Nat : m \in T
  <2> HIDE DEF T
  <2> QED
    BY <1>3, <1>4, SetInduction
<1>6. ASSUME NEW k \in 1 .. n
      PROVE  /\ ChListed(S)[j + k] = s + k - 1 /\ j + k <= Cardinality(S)
  <2>1. PICK m \in Nat : m = k - 1 /\ m < n
    OBVIOUS
  <2>2. Cardinality(Below(S, s + m)) = j + m /\ s + m \in S
    BY <1>0, <1>5, <2>1
  <2>3. ChListed(S)[j + m + 1] = s + m
    BY <2>2, ListedAt
  <2>4. j + m < Cardinality(S)
    BY <2>2, RankRange
  <2>5. j + m + 1 = j + k /\ s + m = s + k - 1
    BY <1>2, <2>1
  <2> QED
    BY <1>2, <2>1, <2>3, <2>4, <2>5
<1>7. j \in 0 .. Cardinality(S) - n
  <2>1. n \in 1 .. n
    OBVIOUS
  <2>2. j + n <= Cardinality(S)
    BY <1>6, <2>1
  <2> QED
    BY <1>2, <2>2
<1> QED
  BY <1>2, <1>6, <1>7

------------------------------------------------------------------------------
(* The steps of a reader, and of a process that dies.                      *)

LEMMA ReaderMoves ==
  ASSUME ChInv, UNCHANGED <<chDir, chFaults, chWriter>>,
         chLoad'.kind \in {"none", "err", "ok", "loading"},
         chLoad'.kind = "loading" => LoadOK', chLoad'.kind = "ok" => LoadedOK'
  PROVE  ChInv'
<1>1. UNCHANGED <<chDir, chCounter, chTables, chCalls, chAcked>>
  BY DEF chWriter
<1>2. CallsOK'
  BY <1>1 DEF ChInv, CallsOK, CallOK, FilesOf, Owned, Busy, HasTable
<1>3. \A a \in chAcked' : AckOK(a)'
  <2>1. chAcked' = chAcked /\ chCounter' = chCounter /\ chCalls' = chCalls /\ chDir' = chDir
    BY <1>1
  <2>2. \A d : Owned(d)' = Owned(d)
    BY <2>1 DEF Owned
  <2>3. ASSUME NEW a \in chAcked PROVE AckOK(a)'
    <3>1. AckOK(a)
      BY DEF ChInv
    <3> QED
      BY ONLY <2>1, <2>2, <3>1 DEF AckOK, HasTable
  <2> QED
    BY <2>1, <2>3
<1> QED
  BY <1>1, <1>2, <1>3 DEF ChInv

\* The paths a reader lists hold those of every call that has returned Ok, one
\* behind the other.
LEMMA OpenStep ==
  ASSUME ChInv, NEW t \in ChWorkers, ChOpen(t)
  PROVE  ChInv'
<1> DEFINE n == Cardinality(DOMAIN chDir)
<1>1. DOMAIN chDir \subseteq Nat /\ IsFiniteSet(DOMAIN chDir)
  BY DEF ChInv
<1>2. n \in Nat /\ t \in Nat /\ t > 0
  BY <1>1, FS_CardinalityType, ChAssumption DEF ChWorkers
<1>3. PICK u \in Nat : u = (IF t < n THEN t ELSE n) /\ (n > 0 => u > 0)
  BY <1>2
<1> DEFINE p == ChPool(n, u)
<1>4. /\ ChPoolOK(p) /\ ChAll(p) = {} /\ p.n = n
      /\ \A w \in ChWorkers : p.at[w] # "work"
  BY <1>2, <1>3, PoolStart
<1>5. chLoad' = [kind |-> "loading", seen |-> chAcked, paths |-> ChListed(DOMAIN chDir), pool |-> p]
  BY <1>3 DEF ChOpen
<1>6. chAcked' = chAcked /\ UNCHANGED <<chDir, chFaults, chWriter>>
  BY DEF ChOpen, chWriter
<1> HIDE DEF p
<1>7. ASSUME NEW a \in chAcked
      PROVE  /\ Len(a.paths) \in Nat
             /\ \E j \in 0 .. n - Len(a.paths) :
                  \A k \in DOMAIN a.paths : ChListed(DOMAIN chDir)[j + k] = a.paths[k]
  <2>1. PICK s \in Nat, m \in Nat \ {0} :
          /\ DOMAIN a.paths = 1 .. m /\ Len(a.paths) = m
          /\ \A k \in 1 .. m : a.paths[k] = s + k - 1 /\ HasTable(a.paths[k], a.first + k - 1)
    BY DEF ChInv, AckOK
  <2>2. \A k \in 1 .. m : s + k - 1 \in DOMAIN chDir
    BY <2>1 DEF HasTable
  <2>3. PICK j \in 0 .. n - m : \A k \in 1 .. m : ChListed(DOMAIN chDir)[j + k] = s + k - 1
    BY <1>1, <2>2, NeighboursListed
  <2>4. Len(a.paths) \in Nat /\ j \in 0 .. n - Len(a.paths)
    BY <2>1, <2>3
  <2>5. \A k \in DOMAIN a.paths : ChListed(DOMAIN chDir)[j + k] = a.paths[k]
    BY <2>1, <2>3
  <2> QED
    BY ONLY <2>4, <2>5
<1>8. LoadOK'
  BY <1>4, <1>5, <1>6, <1>7 DEF LoadOK
<1>9. chLoad'.kind = "loading"
  BY <1>5
<1> QED
  BY <1>6, <1>8, <1>9, ReaderMoves

\* A file that a call has answered for is whole when it is read.
LEMMA ReadStep ==
  ASSUME ChInv, NEW w \in ChWorkers, ChRead(w)
  PROVE  ChInv'
<1> DEFINE z == chLoad.pool
           p == ChPull(z, w)
           file == chDir[chLoad.paths[p.job[w] + 1]]
<1>1. chLoad.kind = "loading" /\ z.at[w] = "pull" /\ UNCHANGED <<chDir, chFaults, chWriter>>
  BY DEF ChRead
<1>2. LoadOK /\ ChPoolOK(z) /\ chAcked' = chAcked
  BY <1>1 DEF ChInv, LoadOK, chWriter
<1>3. /\ ChPoolOK(p) /\ ChAll(p) = ChAll(z) /\ p.n = z.n
      /\ \A u \in ChWorkers : u # w => p.at[u] = z.at[u] /\ p.job[u] = z.job[u]
      /\ p.at[w] = "ended" \/ p.at[w] = "work"
  BY <1>1, <1>2, PoolPulled
<1>4. PICK q : /\ chLoad' = [chLoad EXCEPT !.pool = q]
               /\ \/ p.at[w] = "ended" /\ q = p
                  \/ p.at[w] # "ended" /\ file.whole /\ q = ChDone(p, w, file.t)
                  \/ p.at[w] # "ended" /\ ~file.whole /\ q = ChDone(p, w, -file.t)
                  \/ p.at[w] # "ended" /\ ~file.whole /\ q = ChFail(p, w)
  BY DEF ChRead
<1> HIDE DEF p
<1>5. /\ ChPoolOK(q) /\ q.n = z.n /\ \A u \in ChWorkers : q.at[u] # "work"
      /\ \/ ChAll(q) = ChAll(z)
         \/ \E v : /\ ChAll(q) = ChAll(z) \cup {[i |-> p.job[w], v |-> v]}
                   /\ v = file.t \/ ~file.whole
  <2>1. \A u \in ChWorkers : u # w => p.at[u] # "work"
    BY <1>2, <1>3 DEF LoadOK
  <2>2. CASE q = p /\ p.at[w] = "ended"
    BY <1>3, <2>1, <2>2
  <2>3. CASE p.at[w] # "ended" /\ file.whole /\ q = ChDone(p, w, file.t)
    <3> DEFINE v == file.t
    <3> HIDE DEF file, v
    <3>1. q = ChDone(p, w, v)
      BY <2>3 DEF v
    <3>2. /\ ChPoolOK(q) /\ ChAll(q) = ChAll(p) \cup {[i |-> p.job[w], v |-> v]}
          /\ q.n = p.n /\ q.at[w] = "pull" /\ \A u \in ChWorkers : u # w => q.at[u] = p.at[u]
      BY <1>3, <2>3, <3>1, PoolDone
    <3> QED
      BY <1>3, <2>1, <3>2 DEF v
  <2>4. CASE p.at[w] # "ended" /\ ~file.whole /\ q = ChDone(p, w, -file.t)
    <3> DEFINE v == -file.t
    <3> HIDE DEF file, v
    <3>1. q = ChDone(p, w, v)
      BY <2>4 DEF v
    <3>2. /\ ChPoolOK(q) /\ ChAll(q) = ChAll(p) \cup {[i |-> p.job[w], v |-> v]}
          /\ q.n = p.n /\ q.at[w] = "pull" /\ \A u \in ChWorkers : u # w => q.at[u] = p.at[u]
      BY <1>3, <2>4, <3>1, PoolDone
    <3> QED
      BY <1>3, <2>1, <2>4, <3>2
  <2>5. CASE p.at[w] # "ended" /\ q = ChFail(p, w)
    <3>1. /\ ChPoolOK(q) /\ ChAll(q) = ChAll(p) /\ q.n = p.n /\ q.at[w] = "failed"
          /\ \A u \in ChWorkers : u # w => q.at[u] = p.at[u]
      BY <1>3, <2>5, PoolFailed
    <3> QED
      BY <1>3, <2>1, <3>1
  <2> QED
    BY <1>4, <2>2, <2>3, <2>4, <2>5
<1>6. ASSUME NEW r \in ChAll(q), NEW a \in chLoad.seen, NEW k \in DOMAIN a.paths,
             chLoad.paths[r.i + 1] = a.paths[k]
      PROVE  r.v = a.first + k - 1
  <2>1. CASE r \in ChAll(z)
    BY <1>2, <1>6, <2>1 DEF LoadOK
  <2>2. CASE r \notin ChAll(z)
    <3>1. r.i = p.job[w] /\ (r.v = file.t \/ ~file.whole)
      <4> HIDE DEF z, p, file
      <4>1. PICK v : r \in ChAll(z) \cup {[i |-> p.job[w], v |-> v]} /\ (v = file.t \/ ~file.whole)
        BY ONLY <1>5, <2>2, r \in ChAll(q)
      <4>2. r = [i |-> p.job[w], v |-> v]
        BY ONLY <2>2, <4>1
      <4> QED
        BY ONLY <4>1, <4>2
    <3>2. HasTable(a.paths[k], a.first + k - 1)
      BY <1>2 DEF LoadOK, ChInv, AckOK
    <3>3. file = [t |-> a.first + k - 1, whole |-> TRUE]
      BY <1>6, <3>1, <3>2 DEF HasTable
    <3> HIDE DEF file
    <3> QED
      BY <3>1, <3>3
  <2> QED
    BY <2>1, <2>2
<1>7. chLoad' = [kind |-> "loading", seen |-> chLoad.seen, paths |-> chLoad.paths, pool |-> q]
  BY <1>2, <1>4 DEF LoadOK
<1>8. LoadOK'
  <2>1. /\ chLoad'.seen = chLoad.seen /\ chLoad'.paths = chLoad.paths /\ chLoad'.pool = q
        /\ chLoad' = [kind |-> "loading", seen |-> chLoad'.seen, paths |-> chLoad'.paths,
                      pool |-> chLoad'.pool]
    BY <1>7
  <2>2. chLoad.seen \subseteq chAcked' /\ z.n = chLoad.pool.n
    BY <1>2 DEF LoadOK
  <2>3. \A a \in chLoad.seen :
          /\ Len(a.paths) \in Nat
          /\ \E j \in 0 .. q.n - Len(a.paths) :
               \A k \in DOMAIN a.paths : chLoad.paths[j + k] = a.paths[k]
    BY <1>2, <1>5, <2>2 DEF LoadOK
  <2> HIDE DEF z
  <2>4. \A r \in ChAll(q), a \in chLoad.seen : \A k \in DOMAIN a.paths :
          chLoad.paths[r.i + 1] = a.paths[k] => r.v = a.first + k - 1
    BY <1>6
  <2>5. ChPoolOK(q) /\ \A u \in ChWorkers : q.at[u] # "work"
    BY <1>5
  <2>6. ChAll(chLoad.pool)' = ChAll(q)
    BY <2>1
  <2> QED
    BY <2>1, <2>2, <2>3, <2>4, <2>5, <2>6 DEF LoadOK
<1>9. chLoad'.kind = "loading"
  BY <1>7
<1> QED
  BY <1>1, <1>8, <1>9, ReaderMoves

\* A load that succeeds has read every path it listed, in their order.
LEMMA LoadedStep == ASSUME ChInv, ChLoaded PROVE ChInv'
<1> DEFINE p == chLoad.pool
<1>1. /\ chLoad.kind = "loading" /\ ChEnded(p) /\ UNCHANGED <<chDir, chFaults, chWriter>>
      /\ chLoad' = IF ChFailed(p) THEN [kind |-> "err"]
                   ELSE [kind |-> "ok", seen |-> chLoad.seen, batches |-> ChResults(p)]
  BY DEF ChLoaded
<1>2. LoadOK /\ ChPoolOK(p)
  BY <1>1 DEF ChInv, LoadOK
<1>3. CASE ChFailed(p)
  BY <1>1, <1>3, ReaderMoves
<1>4. CASE ~ChFailed(p)
  <2>1. chLoad' = [kind |-> "ok", seen |-> chLoad.seen, batches |-> ChResults(p)]
    BY <1>1, <1>4
  <2>2. /\ p.n \in Nat /\ Len(ChResults(p)) = p.n
        /\ \A j \in 1 .. p.n : \E r \in ChAll(p) : r.i = j - 1 /\ ChResults(p)[j] = r.v
    BY <1>1, <1>2, <1>4, PoolComplete
  <2>3. ASSUME NEW a \in chLoad.seen
        PROVE  \E j \in 0 .. Len(ChResults(p)) - Len(a.paths) :
                 \A k \in DOMAIN a.paths : ChResults(p)[j + k] = a.first + k - 1
    <3>1. Len(a.paths) \in Nat /\ DOMAIN a.paths = 1 .. Len(a.paths)
      BY <1>2 DEF LoadOK, ChInv, AckOK
    <3>2. PICK j \in 0 .. p.n - Len(a.paths) :
            \A k \in DOMAIN a.paths : chLoad.paths[j + k] = a.paths[k]
      BY <1>2 DEF LoadOK
    <3>3. ASSUME NEW k \in DOMAIN a.paths
          PROVE  ChResults(p)[j + k] = a.first + k - 1
      <4>1. j + k \in 1 .. p.n
        BY <2>2, <3>1
      <4>2. PICK r \in ChAll(p) : r.i = (j + k) - 1 /\ ChResults(p)[j + k] = r.v
        BY <2>2, <4>1
      <4>3. r.i + 1 = j + k
        BY <4>1, <4>2
      <4>4. chLoad.paths[r.i + 1] = a.paths[k]
        BY <3>2, <4>3
      <4>5. r.v = a.first + k - 1
        BY <1>2, <4>4 DEF LoadOK
      <4> QED
        BY <4>2, <4>5
    <3> QED
      BY <2>2, <3>2, <3>3
  <2>4. LoadedOK'
    BY <2>1, <2>3 DEF LoadedOK
  <2>5. chLoad'.kind = "ok"
    BY <2>1
  <2> QED
    BY <1>1, <2>4, <2>5, ReaderMoves
<1> QED
  BY <1>3, <1>4

LEMMA RestartStep == ASSUME ChInv, ChRestart PROVE ChInv'
<1>1. /\ chCounter' = 0 /\ chCalls' = [c \in ChCallers |-> ChNone] /\ chAcked' = {}
      /\ chLoad' = ChNone /\ UNCHANGED <<chDir, chTables>>
  BY DEF ChRestart
<1> QED
  BY <1>1 DEF ChInv, CallsOK, Busy, Owned, ChNone

------------------------------------------------------------------------------
(* The theorem.                                                            *)

LEMMA ChStep == ASSUME ChInv, [ChNext]_chvars PROVE ChInv'
<1>1. CASE ChCall
  BY <1>1, CallStep
<1>2. CASE ChRestart
  BY <1>2, RestartStep
<1>3. CASE ChLoaded
  BY <1>3, LoadedStep
<1>4. ASSUME NEW c \in ChCallers, ChReturn(c) PROVE ChInv'
  BY <1>4, ReturnStep
<1>5. ASSUME NEW c \in ChCallers, NEW w \in ChWorkers, ChNextChunk(c, w) PROVE ChInv'
  BY <1>5, ChunkStep
<1>6. ASSUME NEW c \in ChCallers, NEW w \in ChWorkers, ChEncode(c, w) PROVE ChInv'
  BY <1>6, EncodeStep
<1>7. ASSUME NEW t \in ChWorkers, ChOpen(t) PROVE ChInv'
  BY <1>7, OpenStep
<1>8. ASSUME NEW w \in ChWorkers, ChRead(w) PROVE ChInv'
  BY <1>8, ReadStep
<1>9. CASE UNCHANGED chvars
  <2>1. UNCHANGED <<chDir, chFaults, chWriter>> /\ chLoad' = chLoad
    BY <1>9 DEF chvars
  <2>2. UNCHANGED chAcked
    BY <2>1 DEF chWriter
  <2>3. chLoad.kind = "loading" => LoadOK'
    BY <2>1, <2>2 DEF ChInv, LoadOK
  <2>4. chLoad.kind = "ok" => LoadedOK'
    BY <2>1 DEF ChInv, LoadedOK
  <2>5. chLoad'.kind \in {"none", "err", "ok", "loading"}
    BY <2>1 DEF ChInv
  <2> QED
    BY <2>1, <2>3, <2>4, <2>5, ReaderMoves
<1> QED
  BY <1>1, <1>2, <1>3, <1>4, <1>5, <1>6, <1>7, <1>8, <1>9 DEF ChNext

\* For every number of callers, threads, tables and failures, a call of a chunked
\* writer that returned Ok has its tables in files of its own, in the order of
\* its paths and whole, whatever other calls ran beside it, and a load that is
\* opened afterwards and succeeds has them one behind the other.
THEOREM AckedInOrderHolds == ChSpec => []ChAckedInOrder
<1>1. ChInv => ChAckedInOrder
  <2> SUFFICES ASSUME ChInv PROVE ChAckedInOrder
    OBVIOUS
  <2>1. ASSUME NEW a \in chAcked, NEW k \in DOMAIN a.paths
        PROVE  chDir[a.paths[k]] = [t |-> a.first + k - 1, whole |-> TRUE]
    BY DEF ChInv, AckOK, HasTable
  <2>2. chLoad.kind = "ok" => LoadedOK
    BY DEF ChInv
  <2> QED
    BY <2>1, <2>2 DEF ChAckedInOrder, LoadedOK
<1> QED
  BY <1>1, ChInitOK, ChStep, PTL DEF ChSpec

------------------------------------------------------------------------------
(* Arrow files: the cells of a file.                                       *)

Blocks == [id : Nat, offset : Nat, meta : Nat, body : Nat]
BlockLists == [dicts : Seq(Blocks), batches : Seq(Blocks)]
Units == {"head", "meta", "body"} \X Int \X Nat
FileCells ==
  {<<"magic">>, <<"eos">>, <<"tail">>} \cup Units \cup {<<"footer", b>> : b \in BlockLists}

\* Messages: the schema, the dictionary, one per table.
Ids == {FlSchema, FlDictionary} \cup 1 .. Len(flTables)

LEMMA TablesTyped ==
  ASSUME flTables \in FlTables
  PROVE  /\ Len(flTables) \in Nat /\ DOMAIN flTables = 1 .. Len(flTables)
         /\ \A t \in 1 .. Len(flTables) :
              /\ flTables[t].meta \in Nat \ {0} /\ flTables[t].body \in Nat
              /\ flTables[t].rows \in Nat
<1>1. flTables \in Seq([meta : Nat \ {0}, body : Nat, rows : Nat])
  BY FlAssumption
<1>2. /\ Len(flTables) \in Nat /\ DOMAIN flTables = 1 .. Len(flTables)
      /\ \A t \in 1 .. Len(flTables) : flTables[t] \in [meta : Nat \ {0}, body : Nat, rows : Nat]
  BY <1>1, Elements
<1> QED
  BY ONLY <1>2

LEMMA UnitsTyped ==
  ASSUME NEW id \in Int, NEW kind \in {"head", "meta", "body"}, NEW n \in Nat
  PROVE  FlUnits(id, kind, n) \in Seq(Units) /\ Len(FlUnits(id, kind, n)) = n
<1>1. FlUnits(id, kind, n) \in [1 .. n -> Units]
  BY DEF FlUnits, Units
<1> QED
  BY <1>1, Listed

LEMMA UnitIsNoTail == ASSUME NEW c \in Units PROVE c # <<"tail">>
<1>1. c[1] \in {"head", "meta", "body"}
  BY DEF Units
<1>2. <<"tail">>[1] = "tail"
  OBVIOUS
<1> QED
  BY <1>1, <1>2

LEMMA OtherCells ==
  /\ <<"magic">> \in FileCells /\ <<"eos">> \in FileCells /\ <<"tail">> \in FileCells
  /\ \A b \in BlockLists : <<"footer", b>> \in FileCells /\ <<"footer", b>> # <<"tail">>
  /\ <<"magic">> # <<"tail">> /\ <<"eos">> # <<"tail">>
<1>1. <<"tail">>[1] = "tail" /\ <<"magic">>[1] = "magic" /\ <<"eos">>[1] = "eos"
  OBVIOUS
<1>2. \A b : <<"footer", b>>[1] = "footer"
  OBVIOUS
<1>3. \A b : <<"footer", b>> # <<"tail">>
  BY <1>1, <1>2
<1>4. <<"magic">> # <<"tail">> /\ <<"eos">> # <<"tail">>
  BY <1>1
<1> QED
  BY <1>3, <1>4 DEF FileCells

LEMMA MessageTyped ==
  ASSUME flTables \in FlTables, NEW id \in Ids
  PROVE  /\ FlMeta(id) \in Nat \ {0} /\ FlBody(id) \in Nat
         /\ FlMessage(id) \in Seq(Units) /\ FlMessage(id) \in Seq(FileCells)
         /\ Len(FlMessage(id)) = 1 + FlMeta(id) + FlBody(id)
         /\ \A j \in 1 .. Len(FlMessage(id)) : FlMessage(id)[j] # <<"tail">>
<1>1. id \in Int /\ FlMeta(id) \in Nat \ {0} /\ FlBody(id) \in Nat
  BY TablesTyped DEF Ids, FlMeta, FlBody, FlSchema, FlDictionary
<1>2. PICK a, b, c : /\ a = FlUnits(id, "head", 1) /\ b = FlUnits(id, "meta", FlMeta(id))
                     /\ c = FlUnits(id, "body", FlBody(id))
  OBVIOUS
<1>3. /\ a \in Seq(Units) /\ Len(a) = 1 /\ b \in Seq(Units) /\ Len(b) = FlMeta(id)
      /\ c \in Seq(Units) /\ Len(c) = FlBody(id)
  BY <1>1, <1>2, UnitsTyped
<1>4. PICK ab : ab = a \o b
  OBVIOUS
<1>5. FlMessage(id) = ab \o c
  BY <1>2, <1>4 DEF FlMessage
<1>6. FlMessage(id) \in Seq(Units) /\ Len(FlMessage(id)) = 1 + FlMeta(id) + FlBody(id)
  <2>1. ab \in Seq(Units) /\ Len(ab) = 1 + FlMeta(id)
    BY <1>3, <1>4, Concatenated
  <2>2. ab \o c \in Seq(Units) /\ Len(ab \o c) = Len(ab) + Len(c)
    BY <1>3, <2>1, Concatenated
  <2> QED
    BY ONLY <1>1, <1>3, <1>5, <2>1, <2>2
<1>7. Units \subseteq FileCells
  BY DEF FileCells
<1>8. FlMessage(id) \in Seq(FileCells)
  BY <1>6, <1>7
<1>9. \A j \in 1 .. Len(FlMessage(id)) : FlMessage(id)[j] \in Units
  BY <1>6, Elements
<1> QED
  BY <1>1, <1>6, <1>8, <1>9, UnitIsNoTail

\* emit_frame puts the magic before the first message.
LEMMA FrameTyped ==
  ASSUME flTables \in FlTables, NEW id \in Ids, NEW first \in BOOLEAN
  PROVE  /\ FlFrame(id, first) \in Seq(FileCells) /\ FlFrameLen(id, first) \in Nat \ {0}
         /\ Len(FlFrame(id, first)) = FlFrameLen(id, first)
         /\ ~first => FlFrame(id, first) = FlMessage(id)
         /\ \A j \in 1 .. Len(FlFrame(id, first)) : FlFrame(id, first)[j] # <<"tail">>
<1>1. PICK m : m = FlMessage(id)
  OBVIOUS
<1>2. /\ m \in Seq(FileCells) /\ Len(m) \in Nat \ {0}
      /\ \A j \in 1 .. Len(m) : m[j] # <<"tail">>
  <2>1. /\ FlMessage(id) \in Seq(FileCells)
        /\ Len(FlMessage(id)) = 1 + FlMeta(id) + FlBody(id)
        /\ FlMeta(id) \in Nat \ {0} /\ FlBody(id) \in Nat
        /\ \A j \in 1 .. Len(FlMessage(id)) : FlMessage(id)[j] # <<"tail">>
    BY MessageTyped
  <2>2. Len(m) \in Nat \ {0}
    BY ONLY <1>1, <2>1
  <2> QED
    BY ONLY <1>1, <2>1, <2>2
<1>3. CASE first
  <2>1. FlFrame(id, first) = <<<<"magic">>>> \o m
    BY <1>1, <1>3 DEF FlFrame
  <2>2. PICK g : g = <<<<"magic">>>>
    OBVIOUS
  <2>3. g \in Seq(FileCells) /\ Len(g) = 1 /\ g[1] # <<"tail">>
    BY <2>2, OtherCells
  <2>4. /\ g \o m \in Seq(FileCells) /\ Len(g \o m) = 1 + Len(m)
        /\ \A j \in 1 .. 1 : (g \o m)[j] = g[j]
        /\ \A j \in 1 .. Len(m) : (g \o m)[1 + j] = m[j]
    <3>1. /\ g \o m \in Seq(FileCells) /\ Len(g \o m) = Len(g) + Len(m)
          /\ \A j \in 1 .. Len(g) : (g \o m)[j] = g[j]
          /\ \A j \in 1 .. Len(m) : (g \o m)[Len(g) + j] = m[j]
      BY ONLY <1>2, <2>3, Joined
    <3> QED
      BY ONLY <2>3, <3>1
  <2>5. ASSUME NEW j \in 1 .. Len(g \o m) PROVE (g \o m)[j] # <<"tail">>
    <3>1. CASE j = 1
      BY <2>3, <2>4, <3>1
    <3>2. CASE j # 1
      <4>1. j - 1 \in 1 .. Len(m) /\ 1 + (j - 1) = j
        BY <1>2, <2>4, <3>2
      <4> QED
        BY <1>2, <2>4, <4>1
    <3> QED
      BY <3>1, <3>2
  <2>6. PICK f : f = g \o m
    OBVIOUS
  <2>7. FlFrame(id, first) = f /\ FlFrameLen(id, first) = Len(f)
    BY <2>1, <2>2, <2>6 DEF FlFrameLen
  <2>8. f \in Seq(FileCells) /\ Len(f) \in Nat \ {0} /\ \A j \in 1 .. Len(f) : f[j] # <<"tail">>
    <3>1. f \in Seq(FileCells) /\ Len(f) = 1 + Len(m)
      BY ONLY <2>4, <2>6
    <3>2. \A j \in 1 .. Len(f) : f[j] # <<"tail">>
      BY ONLY <2>5, <2>6
    <3> QED
      BY ONLY <1>2, <3>1, <3>2
  <2> QED
    BY ONLY <1>3, <2>7, <2>8
<1>4. CASE ~first
  <2>1. FlFrame(id, first) = m
    BY <1>1, <1>2, <1>4 DEF FlFrame
  <2> QED
    BY <1>1, <1>2, <1>4, <2>1 DEF FlFrameLen
<1> QED
  BY <1>3, <1>4

------------------------------------------------------------------------------
(* The file as it will be: what is in it and the frames that are queued.   *)

\* Frame k of the queue lies in v behind at[k].
LaidAt(v, file, queue, at) ==
  /\ v \in Seq(FileCells) /\ file \in Seq(FileCells) /\ queue \in Seq(Seq(FileCells))
  /\ at \in [1 .. Len(queue) + 1 -> 0 .. Len(v)]
  /\ at[1] = Len(file) /\ at[Len(queue) + 1] = Len(v)
  /\ \A i \in 1 .. Len(file) : v[i] = file[i]
  /\ \A k \in 1 .. Len(queue) :
       /\ at[k + 1] = at[k] + Len(queue[k])
       /\ \A j \in 1 .. Len(queue[k]) : v[at[k] + j] = queue[k][j]
Laid(v, file, queue) == \E at : LaidAt(v, file, queue, at)

LEMMA NothingQueued ==
  ASSUME NEW v, NEW file, Laid(v, file, <<>>)
  PROVE  v = file
<1>1. PICK at : LaidAt(v, file, <<>>, at)
  BY DEF Laid
<1>2. v \in Seq(FileCells) /\ file \in Seq(FileCells) /\ Len(v) = Len(file)
  BY <1>1 DEF LaidAt
<1>3. DOMAIN v = 1 .. Len(v) /\ DOMAIN file = 1 .. Len(v)
  BY <1>2
<1>4. \A i \in 1 .. Len(v) : v[i] = file[i]
  BY <1>1, <1>2 DEF LaidAt
<1> QED
  BY <1>2, <1>3, <1>4

LEMMA FrameQueued ==
  ASSUME NEW v, NEW file, NEW queue, Laid(v, file, queue), NEW f \in Seq(FileCells)
  PROVE  Laid(v \o f, file, Append(queue, f))
<1>1. PICK at : LaidAt(v, file, queue, at)
  BY DEF Laid
<1>0. PICK n, w, q : n = Len(queue) /\ w = v \o f /\ q = Append(queue, f)
  OBVIOUS
<1>2. /\ v \in Seq(FileCells) /\ file \in Seq(FileCells) /\ queue \in Seq(Seq(FileCells))
      /\ n \in Nat /\ at \in [1 .. n + 1 -> 0 .. Len(v)]
      /\ at[1] = Len(file) /\ at[n + 1] = Len(v) /\ Len(file) \in Nat /\ Len(v) \in Nat
  BY <1>0, <1>1 DEF LaidAt
<1>3. /\ w \in Seq(FileCells) /\ Len(w) = Len(v) + Len(f) /\ Len(f) \in Nat
      /\ \A i \in 1 .. Len(v) : w[i] = v[i]
      /\ \A j \in 1 .. Len(f) : w[Len(v) + j] = f[j]
  BY <1>0, <1>2, Joined
<1>4. /\ q \in Seq(Seq(FileCells)) /\ Len(q) = n + 1 /\ q[n + 1] = f
      /\ \A k \in 1 .. n : q[k] = queue[k]
  BY <1>0, <1>2
<1>5. PICK to : to = [k \in 1 .. n + 2 |-> IF k = n + 2 THEN Len(w) ELSE at[k]]
  OBVIOUS
<1>6. /\ to[n + 2] = Len(w) /\ \A k \in 1 .. n + 1 : to[k] = at[k]
      /\ to \in [1 .. n + 2 -> 0 .. Len(w)]
  <2>1. \A k \in 1 .. n + 1 : k \in 1 .. n + 2 /\ k # n + 2 /\ at[k] \in 0 .. Len(w)
    <3>1. \A k \in 1 .. n + 1 : at[k] \in 0 .. Len(v)
      BY ONLY <1>2
    <3>2. \A i \in 0 .. Len(v) : i \in 0 .. Len(w)
      BY ONLY <1>2, <1>3
    <3>3. \A k \in 1 .. n + 1 : k \in 1 .. n + 2 /\ k # n + 2
      BY ONLY <1>2
    <3> QED
      BY ONLY <3>1, <3>2, <3>3
  <2>2. n + 2 \in 1 .. n + 2 /\ Len(w) \in 0 .. Len(w)
    BY ONLY <1>2, <1>3
  <2>3. \A k \in 1 .. n + 2 : k = n + 2 \/ k \in 1 .. n + 1
    BY ONLY <1>2
  <2> QED
    BY ONLY <1>5, <2>1, <2>2, <2>3
<1>7. \A i \in 1 .. Len(file) : w[i] = file[i]
  <2> TAKE i \in 1 .. Len(file)
  <2>1. Len(file) <= Len(v)
    <3>1. 1 \in 1 .. n + 1
      BY ONLY <1>2
    <3>2. at[1] \in 0 .. Len(v)
      BY ONLY <1>2, <3>1
    <3> QED
      BY ONLY <1>2, <3>2
  <2>2. i \in 1 .. Len(v) /\ v[i] = file[i]
    BY <1>1, <1>2, <2>1 DEF LaidAt
  <2> QED
    BY <1>3, <2>2
<1>8. ASSUME NEW k \in 1 .. n + 1
      PROVE  /\ to[k + 1] = to[k] + Len(q[k])
             /\ \A j \in 1 .. Len(q[k]) : w[to[k] + j] = q[k][j]
  <2>1. CASE k = n + 1
    <3>1. to[k + 1] = Len(w) /\ to[k] = Len(v) /\ q[k] = f
      <4>1. k + 1 = n + 2 /\ n + 1 \in 1 .. n + 1
        BY ONLY <1>2, <2>1
      <4> QED
        BY ONLY <1>2, <1>4, <1>6, <2>1, <4>1
    <3> QED
      BY <1>3, <3>1
  <2>2. CASE k # n + 1
    <3>1. k \in 1 .. n /\ k \in 1 .. n + 1 /\ k + 1 \in 1 .. n + 1
      BY <1>2, <2>2
    <3>2. /\ to[k + 1] = at[k + 1] /\ to[k] = at[k] /\ q[k] = queue[k]
          /\ at[k + 1] \in 0 .. Len(v) /\ at[k] \in 0 .. Len(v)
      BY <1>2, <1>4, <1>6, <3>1
    <3>3. /\ at[k + 1] = at[k] + Len(queue[k]) /\ Len(queue[k]) \in Nat
          /\ \A j \in 1 .. Len(queue[k]) : v[at[k] + j] = queue[k][j]
      <4>1. queue[k] \in Seq(FileCells)
        BY <1>0, <1>2, <3>1, Elements
      <4>2. Len(queue[k]) \in Nat
        BY ONLY <4>1, Elements
      <4>3. k \in 1 .. Len(queue)
        BY <1>0, <3>1
      <4> QED
        BY <1>1, <4>2, <4>3 DEF LaidAt
    <3>4. \A j \in 1 .. Len(queue[k]) : at[k] + j \in 1 .. Len(v)
      <4> TAKE j \in 1 .. Len(queue[k])
      <4>1. PICK x, y, l, z : x = at[k] /\ y = at[k + 1] /\ l = Len(queue[k]) /\ z = Len(v)
        OBVIOUS
      <4>2. /\ x \in Nat /\ y \in 0 .. z /\ l \in Nat /\ z \in Nat /\ j \in 1 .. l
            /\ y = x + l
        BY ONLY <1>2, <3>2, <3>3, <4>1, j \in 1 .. Len(queue[k])
      <4>3. x + j \in 1 .. z
        BY ONLY <4>2
      <4> QED
        BY ONLY <4>1, <4>3
    <3> QED
      BY <1>3, <3>2, <3>3, <3>4
  <2> QED
    BY <2>1, <2>2
<1>9. LaidAt(w, file, q, to)
  <2>1. to[1] = Len(file) /\ to[Len(q) + 1] = Len(w)
    BY <1>2, <1>4, <1>6
  <2>2. to \in [1 .. Len(q) + 1 -> 0 .. Len(w)]
    BY <1>2, <1>4, <1>6
  <2>3. \A k \in 1 .. Len(q) : /\ to[k + 1] = to[k] + Len(q[k])
                               /\ \A j \in 1 .. Len(q[k]) : w[to[k] + j] = q[k][j]
    BY <1>4, <1>8
  <2> QED
    BY <1>2, <1>3, <1>4, <1>7, <2>1, <2>2, <2>3 DEF LaidAt
<1> QED
  BY <1>0, <1>9 DEF Laid

\* drain_frames moves the first frame into the file, or a part of it.
LEMMA FrameDrained ==
  ASSUME NEW v, NEW file, NEW queue, Laid(v, file, queue), queue # <<>>
  PROVE  /\ Laid(v, file \o Head(queue), Tail(queue))
         /\ \A n \in 0 .. Len(Head(queue)) - 1 :
              /\ file \o SubSeq(Head(queue), 1, n) \in Seq(FileCells)
              /\ Len(file \o SubSeq(Head(queue), 1, n)) < Len(v)
              /\ \A i \in 1 .. Len(file \o SubSeq(Head(queue), 1, n)) :
                   (file \o SubSeq(Head(queue), 1, n))[i] = v[i]
<1>1. PICK at : LaidAt(v, file, queue, at)
  BY DEF Laid
<1>2. PICK h, t, m : h = Head(queue) /\ t = Tail(queue) /\ m = Len(queue)
  OBVIOUS
<1>3. /\ v \in Seq(FileCells) /\ file \in Seq(FileCells) /\ queue \in Seq(Seq(FileCells))
      /\ m \in Nat \ {0} /\ at \in [1 .. m + 1 -> 0 .. Len(v)]
      /\ at[1] = Len(file) /\ at[m + 1] = Len(v) /\ Len(file) \in Nat /\ Len(v) \in Nat
  BY <1>1, <1>2 DEF LaidAt
<1>4. /\ h \in Seq(FileCells) /\ Len(h) \in Nat /\ h = queue[1]
      /\ t \in Seq(Seq(FileCells)) /\ Len(t) = m - 1
      /\ \A k \in 1 .. m - 1 : t[k] = queue[k + 1]
  BY <1>2, <1>3
<1>5. /\ at[2] = Len(file) + Len(h) /\ at[2] \in 0 .. Len(v)
      /\ \A j \in 1 .. Len(h) : v[Len(file) + j] = h[j]
      /\ \A i \in 1 .. Len(file) : v[i] = file[i]
  <2>1. 1 \in 1 .. m /\ 2 \in 1 .. m + 1 /\ 1 + 1 = 2
    BY <1>3
  <2>2. /\ at[1 + 1] = at[1] + Len(queue[1])
        /\ \A j \in 1 .. Len(queue[1]) : v[at[1] + j] = queue[1][j]
    <3>1. 1 \in 1 .. Len(queue)
      BY <1>2, <2>1
    <3> QED
      BY <1>1, <3>1 DEF LaidAt
  <2>3. at[2] \in 0 .. Len(v)
    BY ONLY <1>3, <2>1
  <2>4. \A i \in 1 .. Len(file) : v[i] = file[i]
    BY <1>1 DEF LaidAt
  <2> QED
    BY ONLY <1>3, <1>4, <2>1, <2>2, <2>3, <2>4
<1>6. ASSUME NEW s, s \in Seq(FileCells), Len(s) <= Len(h),
             \A j \in 1 .. Len(s) : s[j] = h[j]
      PROVE  /\ file \o s \in Seq(FileCells) /\ Len(file \o s) = Len(file) + Len(s)
             /\ Len(s) \in Nat /\ \A i \in 1 .. Len(file \o s) : (file \o s)[i] = v[i]
  <2>1. /\ file \o s \in Seq(FileCells) /\ Len(file \o s) = Len(file) + Len(s)
        /\ \A i \in 1 .. Len(file) : (file \o s)[i] = file[i]
        /\ \A j \in 1 .. Len(s) : (file \o s)[Len(file) + j] = s[j]
        /\ Len(s) \in Nat
    BY <1>3, <1>6, Joined
  <2>2. ASSUME NEW i \in 1 .. Len(file \o s) PROVE (file \o s)[i] = v[i]
    <3>1. CASE i <= Len(file)
      <4>1. i \in 1 .. Len(file)
        BY <1>3, <3>1
      <4> QED
        BY <1>5, <2>1, <4>1
    <3>2. CASE i > Len(file)
      <4>1. PICK j \in 1 .. Len(s) : i = Len(file) + j
        <5>1. i - Len(file) \in 1 .. Len(s) /\ i = Len(file) + (i - Len(file))
          BY <1>3, <2>1, <3>2
        <5> QED
          BY <5>1
      <4>2. j \in 1 .. Len(h)
        BY <1>4, <1>6, <2>1
      <4> QED
        BY <1>5, <1>6, <2>1, <4>1, <4>2
    <3> QED
      BY <1>3, <3>1, <3>2
  <2> QED
    BY <2>1, <2>2
<1>7. Laid(v, file \o h, t)
  <2>1. /\ file \o h \in Seq(FileCells) /\ Len(file \o h) = Len(file) + Len(h)
        /\ \A i \in 1 .. Len(file \o h) : v[i] = (file \o h)[i]
    BY <1>4, <1>6
  <2>2. PICK to : to = [k \in 1 .. m |-> at[k + 1]]
    OBVIOUS
  <2>3. \A k \in 1 .. m : k + 1 \in 1 .. m + 1 /\ to[k] = at[k + 1] /\ at[k + 1] \in 0 .. Len(v)
    BY ONLY <1>3, <2>2
  <2>4. to \in [1 .. Len(t) + 1 -> 0 .. Len(v)]
    BY <1>3, <1>4, <2>2, <2>3
  <2>5. to[1] = Len(file \o h) /\ to[Len(t) + 1] = Len(v)
    <3>1. 1 \in 1 .. m /\ m \in 1 .. m /\ Len(t) + 1 = m /\ 1 + 1 = 2
      BY ONLY <1>3, <1>4
    <3>2. to[1] = at[2] /\ to[m] = at[m + 1]
      BY ONLY <2>3, <3>1
    <3> QED
      BY ONLY <1>3, <1>5, <2>1, <3>1, <3>2
  <2>6. ASSUME NEW k \in 1 .. Len(t)
        PROVE  /\ to[k + 1] = to[k] + Len(t[k])
               /\ \A j \in 1 .. Len(t[k]) : v[to[k] + j] = t[k][j]
    <3>1. k \in 1 .. m - 1 /\ k \in 1 .. m /\ k + 1 \in 1 .. m
      BY <1>3, <1>4
    <3>2. to[k + 1] = at[(k + 1) + 1] /\ to[k] = at[k + 1] /\ t[k] = queue[k + 1]
      BY <1>4, <2>3, <3>1
    <3>3. /\ at[(k + 1) + 1] = at[k + 1] + Len(queue[k + 1])
          /\ \A j \in 1 .. Len(queue[k + 1]) : v[at[k + 1] + j] = queue[k + 1][j]
      BY <1>1, <1>2, <3>1 DEF LaidAt
    <3> QED
      BY <3>2, <3>3
  <2>7. LaidAt(v, file \o h, t, to)
    BY <1>3, <1>4, <2>1, <2>4, <2>5, <2>6 DEF LaidAt
  <2> QED
    BY <2>7 DEF Laid
<1>8. ASSUME NEW n \in 0 .. Len(h) - 1
      PROVE  /\ file \o SubSeq(h, 1, n) \in Seq(FileCells)
             /\ Len(file \o SubSeq(h, 1, n)) < Len(v)
             /\ \A i \in 1 .. Len(file \o SubSeq(h, 1, n)) : (file \o SubSeq(h, 1, n))[i] = v[i]
  <2>1. PICK s : s = SubSeq(h, 1, n)
    OBVIOUS
  <2>2. n \in 0 .. Len(h)
    BY <1>4
  <2>3. s \in Seq(FileCells) /\ Len(s) = n /\ \A j \in 1 .. n : s[j] = h[j]
    BY <1>4, <2>1, <2>2, Parted
  <2>4. /\ file \o s \in Seq(FileCells) /\ Len(file \o s) = Len(file) + Len(s)
        /\ \A i \in 1 .. Len(file \o s) : (file \o s)[i] = v[i]
    <3>1. Len(s) <= Len(h) /\ \A j \in 1 .. Len(s) : s[j] = h[j]
      BY ONLY <1>4, <2>2, <2>3
    <3> QED
      BY ONLY <1>6, <2>3, <3>1
  <2>5. Len(file) + n < Len(v)
    BY <1>3, <1>4, <1>5
  <2> QED
    BY <2>1, <2>3, <2>4, <2>5
<1> QED
  BY <1>2, <1>7, <1>8

------------------------------------------------------------------------------
(* batch_windows: the windows of a batch, one behind the other, are it.    *)

LEMMA StrideFits ==
  ASSUME NEW rows \in Nat, NEW body \in Nat, NEW target \in Nat
  PROVE  /\ FlStride(rows, body, target) \in 1 .. FlAtLeast(rows, 1)
         /\ \/ FlStride(rows, body, target) = FlAtLeast(rows, 1)
            \/ \E q \in Nat : FlStride(rows, body, target) = FlStep * q
<1>1. PICK m : m = FlAtLeast(rows, 1)
  OBVIOUS
<1>2. m \in Nat \ {0}
  BY <1>1 DEF FlAtLeast
<1>3. PICK p : p = FlAtLeast(body \div m, 1)
  OBVIOUS
<1>4. p \in Nat \ {0}
  <2>1. body \div m \in Nat
    BY <1>2, QuotientNat
  <2> QED
    BY <1>3, <2>1 DEF FlAtLeast
<1>5. FlStep \in Nat \ {0}
  BY FlAssumption
<1>6. PICK q \in Nat : q = (target \div p) \div FlStep
  <2>1. target \div p \in Nat
    BY <1>4, QuotientNat
  <2> QED
    BY <1>5, <2>1, QuotientNat
<1>7. PICK x : x = FlAtLeast(q * FlStep, FlStep)
  OBVIOUS
<1>8. x \in Nat \ {0} /\ \E z \in Nat : x = FlStep * z
  <2>1. CASE q * FlStep < FlStep
    <3>1. x = FlStep * 1
      BY <1>5, <1>7, <2>1 DEF FlAtLeast
    <3> QED
      BY <1>5, <3>1
  <2>2. CASE ~(q * FlStep < FlStep)
    <3>1. x = q * FlStep /\ x \in Nat /\ x >= FlStep
      BY <1>5, <1>6, <1>7, <2>2 DEF FlAtLeast
    <3>2. x = FlStep * q
      BY <1>5, <1>6, <3>1
    <3> QED
      BY <1>5, <1>6, <3>1, <3>2
  <2> QED
    BY <2>1, <2>2
<1>9. FlStride(rows, body, target) = FlAtMost(x, m)
  BY <1>1, <1>3, <1>6, <1>7 DEF FlStride
<1>10. FlAtMost(x, m) = m \/ (FlAtMost(x, m) = x /\ x <= m)
  BY <1>2, <1>8 DEF FlAtMost
<1> QED
  BY <1>1, <1>2, <1>8, <1>9, <1>10

\* The windows start at multiples of the stride, and there are as many as the
\* rows need.
LEMMA WindowsCover ==
  ASSUME NEW rows \in Nat, NEW body \in Nat, NEW target \in Nat
  PROVE  LET s == FlStride(rows, body, target)
             m == FlAtLeast(rows, 1)
             ws == FlWindows(rows, body, target)
         IN /\ Len(ws) \in Nat \ {0}
            /\ (Len(ws) - 1) * s < m /\ m <= Len(ws) * s
            /\ \A k \in 1 .. Len(ws) :
                 ws[k] = [off |-> (k - 1) * s, len |-> FlWindowRows(rows, (k - 1) * s, s)]
<1>0. PICK s, m, ws : /\ s = FlStride(rows, body, target) /\ m = FlAtLeast(rows, 1)
                      /\ ws = FlWindows(rows, body, target)
  OBVIOUS
<1>1. m \in Nat \ {0} /\ s \in 1 .. m
  <2>1. m \in Nat \ {0}
    BY <1>0 DEF FlAtLeast
  <2> QED
    BY <1>0, <2>1, StrideFits
<1>2. PICK n : n = (m + s - 1) \div s
  OBVIOUS
<1>3. n \in Nat
  <2>1. m + s - 1 \in Nat /\ s \in Nat \ {0}
    BY <1>1
  <2> QED
    BY <1>2, <2>1, QuotientNat
<1>4. PICK z \in 0 .. s - 1 : m + s - 1 = s * n + z
  <2>1. m + s - 1 \in Nat /\ s \in Nat \ {0}
    BY <1>1
  <2>2. PICK y \in Nat : y = m + s - 1
    BY <2>1
  <2>3. \E z \in 0 .. s - 1 : y = s * (y \div s) + z
    BY ONLY <2>1, y \in Nat
  <2> QED
    BY ONLY <1>2, <2>2, <2>3
<1>5. PICK sn \in Nat : sn = s * n
  BY <1>1, <1>3
<1>6. sn - s < m /\ m <= sn
  BY <1>1, <1>4, <1>5
<1>7. n # 0
  <2>1. n = 0 => sn = 0
    BY <1>1, <1>5
  <2> QED
    BY <1>1, <1>6, <2>1
<1>8. (n - 1) * s = sn - s /\ n * s = sn
  BY <1>1, <1>3, <1>5
<1>9. ws = [k \in 1 .. n |-> [off |-> (k - 1) * s, len |-> FlWindowRows(rows, (k - 1) * s, s)]]
  BY <1>0, <1>2 DEF FlWindows
<1>10. Len(ws) = n
  <2>1. ws \in [1 .. n -> {ws[k] : k \in 1 .. n}]
    BY <1>9
  <2> QED
    BY <1>3, <2>1, Listed
<1> QED
  BY <1>0, <1>3, <1>6, <1>7, <1>8, <1>9, <1>10

\* Rows 1 to n of table i, and the n rows behind row o.
RowsTo(i, n) == [r \in 1 .. n |-> <<i, r>>]
RowsFrom(i, o, n) == [r \in 1 .. n |-> <<i, o + r>>]

LEMMA RowsJoin ==
  ASSUME NEW i, NEW a \in Nat, NEW b \in Nat
  PROVE  RowsTo(i, a) \o RowsFrom(i, a, b) = RowsTo(i, a + b)
<1>1. PICK S : S = {<<i, r>> : r \in Nat}
  OBVIOUS
<1>2. PICK s, t, u : /\ s = RowsTo(i, a) /\ t = RowsFrom(i, a, b)
                     /\ u = RowsTo(i, a + b)
  OBVIOUS
<1>3. s \in [1 .. a -> S] /\ t \in [1 .. b -> S] /\ u \in [1 .. a + b -> S]
  BY <1>1, <1>2 DEF RowsTo, RowsFrom
<1>4. /\ s \in Seq(S) /\ Len(s) = a /\ t \in Seq(S) /\ Len(t) = b
      /\ u \in Seq(S) /\ Len(u) = a + b
  <2>1. a + b \in Nat
    OBVIOUS
  <2> QED
    BY <1>3, <2>1, Listed
<1>5. /\ s \o t \in Seq(S) /\ Len(s \o t) = Len(s) + Len(t)
      /\ \A k \in 1 .. Len(s) : (s \o t)[k] = s[k]
      /\ \A k \in 1 .. Len(t) : (s \o t)[Len(s) + k] = t[k]
  <2>1. s \in Seq(S) /\ t \in Seq(S)
    BY <1>4
  <2> QED
    BY ONLY <2>1, Joined
<1>6. ASSUME NEW k \in 1 .. a + b PROVE (s \o t)[k] = u[k]
  <2>1. u[k] = <<i, k>>
    BY <1>2 DEF RowsTo
  <2>2. CASE k <= a
    <3>1. k \in 1 .. a
      BY <2>2
    <3>2. s[k] = <<i, k>>
      BY <1>2, <3>1 DEF RowsTo
    <3>3. (s \o t)[k] = s[k]
      <4>1. k \in 1 .. Len(s)
        BY ONLY <1>4, <3>1
      <4> QED
        BY ONLY <1>5, <4>1
    <3> QED
      BY ONLY <2>1, <3>2, <3>3
  <2>3. CASE k > a
    <3>1. PICK j \in 1 .. b : k = a + j
      <4>1. k - a \in 1 .. b /\ k = a + (k - a)
        BY <2>3
      <4> QED
        BY <4>1
    <3>2. t[j] = <<i, a + j>>
      BY <1>2 DEF RowsFrom
    <3>3. (s \o t)[a + j] = t[j]
      <4>1. j \in 1 .. Len(t) /\ Len(s) = a
        BY ONLY <1>4, j \in 1 .. b
      <4>2. (s \o t)[Len(s) + j] = t[j]
        BY ONLY <1>5, <4>1
      <4> QED
        BY ONLY <4>1, <4>2
    <3> QED
      BY ONLY <2>1, <3>1, <3>2, <3>3
  <2>4. k <= a \/ k > a
    BY ONLY a \in Nat, b \in Nat, k \in 1 .. a + b
  <2> QED
    BY ONLY <2>2, <2>3, <2>4
<1>7. PICK v : v = s \o t
  OBVIOUS
<1>8. v \in Seq(S) /\ Len(v) = a + b /\ \A k \in 1 .. a + b : v[k] = u[k]
  BY <1>4, <1>5, <1>6, <1>7
<1>9. v = u
  BY ONLY <1>4, <1>8
<1> QED
  BY <1>2, <1>7, <1>9

\* No row of a window that window_table refuses, and none twice.
LEMMA WindowCut ==
  ASSUME NEW i, NEW rows \in Nat, NEW body \in Nat, NEW target \in Nat,
         NEW k \in 1 .. Len(FlWindows(rows, body, target))
  PROVE  LET s == FlStride(rows, body, target)
             ws == FlWindows(rows, body, target)
             o == (k - 1) * s
             n == FlWindowRows(rows, o, s)
         IN /\ o \in Nat /\ o <= rows /\ n \in Nat /\ o + n <= rows
            /\ (n = s \/ o + n = rows)
            /\ FlCut(i, rows, ws[k]) = RowsFrom(i, o, n)
<1>1. PICK s, m, ws : /\ s = FlStride(rows, body, target) /\ m = FlAtLeast(rows, 1)
                      /\ ws = FlWindows(rows, body, target) /\ k \in 1 .. Len(ws)
  OBVIOUS
<1>2. m \in Nat \ {0} /\ (rows > 0 => m = rows) /\ (rows = 0 => m = 1) /\ s \in 1 .. m
  <2>1. m \in Nat \ {0} /\ (rows > 0 => m = rows) /\ (rows = 0 => m = 1)
    BY <1>1 DEF FlAtLeast
  <2> QED
    BY <1>1, <2>1, StrideFits
<1>3. /\ Len(ws) \in Nat \ {0} /\ k \in 1 .. Len(ws) /\ (Len(ws) - 1) * s < m
      /\ ws[k] = [off |-> (k - 1) * s, len |-> FlWindowRows(rows, (k - 1) * s, s)]
  <2>1. /\ Len(ws) \in Nat \ {0} /\ (Len(ws) - 1) * s < m
        /\ \A j \in 1 .. Len(ws) :
             ws[j] = [off |-> (j - 1) * s, len |-> FlWindowRows(rows, (j - 1) * s, s)]
    <3> DEFINE S == FlStride(rows, body, target)
               M == FlAtLeast(rows, 1)
               W == FlWindows(rows, body, target)
    <3>1. /\ Len(W) \in Nat \ {0} /\ (Len(W) - 1) * S < M
          /\ \A j \in 1 .. Len(W) :
               W[j] = [off |-> (j - 1) * S, len |-> FlWindowRows(rows, (j - 1) * S, S)]
      BY WindowsCover
    <3> HIDE DEF S, M, W
    <3>2. s = S /\ m = M /\ ws = W
      BY <1>1 DEF S, M, W
    <3> QED
      BY ONLY <3>1, <3>2
  <2> QED
    BY ONLY <1>1, <2>1
<1>4. PICK o \in Nat : o = (k - 1) * s
  BY <1>2, <1>3
<1>5. o < m
  <2>1. PICK d \in Nat : d = Len(ws) - k
    BY <1>3
  <2>2. Len(ws) - 1 = (k - 1) + d /\ k - 1 \in Nat
    BY <1>3, <2>1
  <2>3. PICK e \in Nat : e = k - 1
    BY <2>2
  <2>4. PICK p \in Nat : p = d * s
    BY <1>2
  <2>5. s \in Nat
    BY <1>2
  <2>6. (Len(ws) - 1) * s = o + p
    <3>1. Len(ws) - 1 = e + d
      BY <2>2, <2>3
    <3>2. (e + d) * s = e * s + d * s
      BY ONLY <2>5, e \in Nat, d \in Nat
    <3> QED
      BY ONLY <1>4, <2>3, <2>4, <3>1, <3>2
  <2>7. o + p < m
    BY ONLY <1>3, <2>6
  <2> QED
    BY ONLY <1>2, <2>7, o \in Nat, p \in Nat
<1>6. o <= rows
  BY <1>2, <1>5
<1>7. PICK n \in Nat : /\ n = FlWindowRows(rows, o, s) /\ o + n <= rows
                       /\ \/ n = s /\ s < rows - o
                          \/ o + n = rows /\ n <= s
  <2>1. PICK n : n = FlWindowRows(rows, o, s)
    OBVIOUS
  <2>2. n = IF s < rows - o THEN s ELSE rows - o
    BY <2>1 DEF FlWindowRows
  <2>3. /\ n \in Nat /\ o + n <= rows
        /\ \/ n = s /\ s < rows - o
           \/ o + n = rows /\ n <= s
    BY ONLY <1>2, <1>6, <2>2, rows \in Nat, o \in Nat
  <2> QED
    BY ONLY <2>1, <2>3
<1>8. PICK w : w = ws[k]
  OBVIOUS
<1>9. w.off = o /\ w.len = n
  BY <1>3, <1>4, <1>7, <1>8
<1>10. CASE w.off = 0 /\ w.len = rows
  <2>1. FlCut(i, rows, w) = [r \in 1 .. rows |-> <<i, r>>]
    BY <1>10 DEF FlCut
  <2>2. o = 0 /\ n = rows /\ \A r \in 1 .. n : o + r = r
    BY <1>9, <1>10
  <2>3. FlCut(i, rows, w) = RowsFrom(i, o, n)
    BY ONLY <2>1, <2>2 DEF RowsFrom
  <2> QED
    BY <1>1, <1>4, <1>6, <1>7, <1>8, <2>3
<1>11. CASE ~(w.off = 0 /\ w.len = rows)
  <2>1. o % FlStep = 0
    <3>1. s # m
      <4>1. SUFFICES ASSUME s = m PROVE FALSE
        OBVIOUS
      <4>2. k = 1
        <5>1. k # 1 => (k - 1) * s >= s
          <6>1. k # 1 => k - 1 >= 1 /\ k - 1 \in Nat
            BY <1>3
          <6> QED
            BY <1>2, <6>1
        <5> QED
          BY <1>2, <1>4, <1>5, <4>1, <5>1
      <4>3. o = 0
        BY <1>2, <1>4, <4>2
      <4>4. n = rows
        BY <1>2, <1>7, <4>1, <4>3
      <4> QED
        BY <1>9, <1>11, <4>3, <4>4
    <3>2. PICK q \in Nat : s = FlStep * q
      BY <1>1, <3>1, StrideFits
    <3>3. FlStep \in Nat \ {0} /\ k - 1 \in Nat
      BY <1>3, FlAssumption
    <3>4. PICK z \in Nat : z = (k - 1) * q
      BY <3>3
    <3>5. o = FlStep * z
      BY ONLY <1>4, <3>2, <3>3, <3>4, q \in Nat, k - 1 \in Nat
    <3>6. (FlStep * z + 0) % FlStep = 0
      <4>1. 0 \in 0 .. FlStep - 1
        BY <3>3
      <4> QED
        BY <3>3, <4>1, DivisionOfUnits
    <3>7. FlStep * z + 0 = o
      BY <3>3, <3>5
    <3> QED
      BY <3>6, <3>7
  <2>2. ~(w.off % FlStep # 0 \/ w.off + w.len > rows)
    BY <1>7, <1>9, <2>1
  <2>3. FlCut(i, rows, w) = RowsFrom(i, o, n)
    BY <1>9, <1>11, <2>2 DEF FlCut, RowsFrom
  <2> QED
    BY <1>1, <1>4, <1>6, <1>7, <1>8, <2>3
<1> QED
  BY <1>1, <1>10, <1>11

LEMMA RowsRead ==
  ASSUME flTables \in FlTables, NEW i \in 1 .. Len(flTables), NEW target \in Nat
  PROVE  FlRows(i, target) = RowsTo(i, flTables[i].rows)
<1>1. PICK rows, body : rows = flTables[i].rows /\ body = flTables[i].body
  OBVIOUS
<1>2. rows \in Nat /\ body \in Nat
  BY <1>1, TablesTyped
<1>3. PICK s, m, ws : /\ s = FlStride(rows, body, target) /\ m = FlAtLeast(rows, 1)
                      /\ ws = FlWindows(rows, body, target)
  OBVIOUS
<1>4. /\ Len(ws) \in Nat \ {0} /\ m <= Len(ws) * s /\ m \in Nat /\ rows <= m /\ s \in Nat
  <2>1. Len(ws) \in Nat \ {0} /\ m <= Len(ws) * s
    BY <1>2, <1>3, WindowsCover
  <2>2. m \in Nat /\ rows <= m
    BY <1>2, <1>3 DEF FlAtLeast
  <2>3. s \in 1 .. m
    BY <1>2, <1>3, StrideFits
  <2> QED
    BY <2>1, <2>2, <2>3
<1> DEFINE most(k) == IF k * s < rows THEN k * s ELSE rows
<1>5. \A k \in 0 .. Len(ws) : most(k) \in Nat
  BY <1>2, <1>4
<1>6. most(0) = 0 /\ most(Len(ws)) = rows
  <2>1. 0 * s = 0 /\ rows <= Len(ws) * s /\ Len(ws) * s \in Nat
    BY <1>2, <1>4
  <2> QED
    BY <1>2, <2>1
<1>7. ASSUME NEW k \in 1 .. Len(ws)
      PROVE  RowsTo(i, most(k)) = RowsTo(i, most(k - 1)) \o FlCut(i, rows, ws[k])
  <2>1. PICK o, n \in Nat :
          /\ o = (k - 1) * s /\ o <= rows /\ n = FlWindowRows(rows, o, s) /\ o + n <= rows
          /\ (n = s \/ o + n = rows)
          /\ FlCut(i, rows, ws[k]) = RowsFrom(i, o, n)
    <3> DEFINE S == FlStride(rows, body, target)
               W == FlWindows(rows, body, target)
               O == (k - 1) * S
               N == FlWindowRows(rows, O, S)
    <3>1. k \in 1 .. Len(W)
      BY <1>3
    <3>2. /\ O \in Nat /\ O <= rows /\ N \in Nat /\ O + N <= rows
          /\ (N = S \/ O + N = rows)
          /\ FlCut(i, rows, W[k]) = RowsFrom(i, O, N)
      BY <1>2, <3>1, WindowCut
    <3> HIDE DEF S, W, O, N
    <3>3. s = S /\ ws = W /\ O = (k - 1) * S /\ N = FlWindowRows(rows, O, S)
      BY <1>3 DEF S, W, O, N
    <3> QED
      BY ONLY <3>2, <3>3
  <2>2. most(k - 1) = o
    BY <1>2, <2>1
  <2>3. k * s = o + s
    <3>1. k \in Nat
      BY <1>4
    <3> QED
      BY ONLY <1>4, <2>1, <3>1
  <2>4. most(k) = o + n
    <3>1. most(k) = IF o + s < rows THEN o + s ELSE rows
      BY <2>3
    <3> HIDE DEF most
    <3>2. n = IF s < rows - o THEN s ELSE rows - o
      BY <2>1 DEF FlWindowRows
    <3> QED
      BY ONLY <1>2, <1>4, <2>1, <3>1, <3>2, o \in Nat
  <2> HIDE DEF most
  <2>5. RowsTo(i, o) \o RowsFrom(i, o, n) = RowsTo(i, o + n)
    BY RowsJoin
  <2> QED
    BY <2>1, <2>2, <2>4, <2>5
<1>8. PICK y : /\ y = [k \in 0 .. Len(ws) |->
                         IF k = 0 THEN <<>> ELSE y[k - 1] \o FlCut(i, rows, ws[k])]
               /\ FlRows(i, target) = y[Len(ws)]
  <2> DEFINE Defines(u) == u = [k \in 0 .. Len(ws) |->
                                  IF k = 0 THEN <<>> ELSE u[k - 1] \o FlCut(i, rows, ws[k])]
             g == [k \in 0 .. Len(ws) |-> RowsTo(i, most(k))]
  <2>1. ASSUME NEW k \in 0 .. Len(ws)
        PROVE  g[k] = IF k = 0 THEN <<>> ELSE g[k - 1] \o FlCut(i, rows, ws[k])
    <3>1. CASE k = 0
      <4>1. g[k] = RowsTo(i, 0)
        BY <1>6, <3>1
      <4>2. RowsTo(i, 0) = <<>>
        BY DEF RowsTo
      <4> QED
        BY ONLY <3>1, <4>1, <4>2
    <3>2. CASE k # 0
      <4>1. k \in 1 .. Len(ws) /\ k - 1 \in 0 .. Len(ws)
        BY <1>4, <3>2
      <4>2. g[k] = RowsTo(i, most(k)) /\ g[k - 1] = RowsTo(i, most(k - 1))
        BY <4>1
      <4> QED
        BY <1>7, <3>2, <4>1, <4>2
    <3> QED
      BY <3>1, <3>2
  <2>2. Defines(g)
    <3>1. DOMAIN g = 0 .. Len(ws)
      OBVIOUS
    <3>2. g = [k \in 0 .. Len(ws) |-> g[k]]
      OBVIOUS
    <3> HIDE DEF g
    <3> QED
      BY <2>1, <3>2
  <2>3. FlRows(i, target) = (CHOOSE u : Defines(u))[Len(ws)]
    BY <1>1, <1>3 DEF FlRows
  <2> HIDE DEF Defines
  <2>4. Defines(CHOOSE u : Defines(u))
    BY <2>2
  <2>5. PICK y : Defines(y) /\ FlRows(i, target) = y[Len(ws)]
    BY <2>3, <2>4
  <2> QED
    BY <2>5 DEF Defines
<1> DEFINE Done == {k \in Nat : k <= Len(ws) => y[k] = RowsTo(i, most(k))}
<1>9. 0 \in Done
  <2>1. y[0] = <<>>
    BY <1>4, <1>8
  <2>2. RowsTo(i, most(0)) = <<>>
    BY <1>6 DEF RowsTo
  <2> QED
    BY ONLY <2>1, <2>2
<1>10. ASSUME NEW k \in Nat, k \in Done PROVE k + 1 \in Done
  <2>1. CASE k + 1 <= Len(ws)
    <3>1. k + 1 \in 1 .. Len(ws) /\ k + 1 \in 0 .. Len(ws) /\ (k + 1) - 1 = k /\ k + 1 # 0
          /\ k <= Len(ws)
      BY <1>4, <2>1
    <3>2. y[k + 1] = y[k] \o FlCut(i, rows, ws[k + 1])
      <4>1. y[k + 1] = y[(k + 1) - 1] \o FlCut(i, rows, ws[k + 1])
        BY <1>8, <3>1
      <4> QED
        BY <3>1, <4>1
    <3>3. y[k] = RowsTo(i, most(k))
      BY <1>10, <3>1
    <3>4. RowsTo(i, most(k + 1)) = RowsTo(i, most(k)) \o FlCut(i, rows, ws[k + 1])
      <4>1. RowsTo(i, most(k + 1)) = RowsTo(i, most((k + 1) - 1)) \o FlCut(i, rows, ws[k + 1])
        BY <1>7, <3>1
      <4> QED
        BY <3>1, <4>1
    <3>5. k + 1 \in Nat
      OBVIOUS
    <3> HIDE DEF most
    <3> QED
      BY <3>2, <3>3, <3>4, <3>5
  <2>2. CASE ~(k + 1 <= Len(ws))
    <3>1. k + 1 \in Nat
      OBVIOUS
    <3> HIDE DEF most
    <3> QED
      BY <2>2, <3>1
  <2> QED
    BY <2>1, <2>2
<1>11. \A k \in Nat : k \in Done
  <2> HIDE DEF Done
  <2> QED
    BY <1>9, <1>10, SetInduction
<1>12. y[Len(ws)] = RowsTo(i, most(Len(ws)))
  BY <1>4, <1>11
<1> QED
  BY <1>1, <1>6, <1>8, <1>12

------------------------------------------------------------------------------
(* emit_frame: what it notes of a frame is where the frame is.             *)

\* The message of a block is at the block's place.
Placed(blk, v) ==
  /\ blk.id \in {FlDictionary} \cup 1 .. Len(flTables)
  /\ blk.offset \in Nat /\ blk.offset >= 1
  /\ blk.meta = 1 + FlMeta(blk.id) /\ blk.body = FlBody(blk.id)
  /\ blk.offset + (blk.meta + blk.body) <= Len(v)
  /\ \A j \in 1 .. blk.meta + blk.body : v[blk.offset + j] = FlMessage(blk.id)[j]

NotedIn(blocks) == Range(blocks.dicts) \cup Range(blocks.batches)

Emits(e, v) ==
  /\ Laid(v, flFile, e.frames) /\ Len(v) = e.offset
  /\ \A i \in 1 .. Len(v) : v[i] # <<"tail">>
  /\ e.blocks \in BlockLists /\ \A blk \in NotedIn(e.blocks) : Placed(blk, v)

LEMMA LaidTyped ==
  ASSUME NEW v, NEW file, NEW queue, Laid(v, file, queue)
  PROVE  /\ v \in Seq(FileCells) /\ Len(v) \in Nat /\ file \in Seq(FileCells) /\ Len(file) \in Nat
         /\ queue \in Seq(Seq(FileCells)) /\ Len(file) <= Len(v)
         /\ \A i \in 1 .. Len(file) : v[i] = file[i]
<1>1. PICK at : LaidAt(v, file, queue, at)
  BY DEF Laid
<1>2. v \in Seq(FileCells) /\ file \in Seq(FileCells) /\ queue \in Seq(Seq(FileCells))
  BY <1>1 DEF LaidAt
<1>3. \A i \in 1 .. Len(file) : v[i] = file[i]
  BY <1>1 DEF LaidAt
<1>4. Len(v) \in Nat /\ Len(file) \in Nat /\ Len(queue) \in Nat
  BY <1>2
<1>5. Len(file) <= Len(v)
  <2>1. at[1] = Len(file) /\ at \in [1 .. Len(queue) + 1 -> 0 .. Len(v)]
    BY <1>1 DEF LaidAt
  <2>2. 1 \in 1 .. Len(queue) + 1
    BY <1>4
  <2>3. at[1] \in 0 .. Len(v)
    BY ONLY <2>1, <2>2
  <2> QED
    BY ONLY <1>4, <2>1, <2>3
<1> QED
  BY <1>2, <1>3, <1>4, <1>5

LEMMA PlacedStays ==
  ASSUME flTables \in FlTables, NEW v \in Seq(FileCells), NEW f \in Seq(FileCells), NEW blk,
         Placed(blk, v)
  PROVE  Placed(blk, v \o f)
<1>1. blk.id \in Ids
  BY DEF Placed, Ids
<1>2. PICK w : w = v \o f
  OBVIOUS
<1>3. /\ w \in Seq(FileCells) /\ Len(w) = Len(v) + Len(f) /\ Len(v) \in Nat /\ Len(f) \in Nat
      /\ \A i \in 1 .. Len(v) : w[i] = v[i]
  BY <1>2, Joined
<1>4. PICK o, n : o = blk.offset /\ n = blk.meta + blk.body
  OBVIOUS
<1>5. o \in Nat /\ n \in Nat /\ o + n <= Len(v)
  BY <1>1, <1>4, MessageTyped DEF Placed
<1>6. o + n <= Len(w)
  BY ONLY <1>3, <1>5
<1>7. ASSUME NEW j \in 1 .. n PROVE w[o + j] = FlMessage(blk.id)[j]
  <2>1. o + j \in 1 .. Len(v)
    BY <1>3, <1>5
  <2>2. v[o + j] = FlMessage(blk.id)[j]
    BY <1>4 DEF Placed
  <2> QED
    BY <1>3, <2>1, <2>2
<1>8. blk.offset + (blk.meta + blk.body) <= Len(w)
  BY <1>4, <1>6
<1>9. \A j \in 1 .. blk.meta + blk.body : w[blk.offset + j] = FlMessage(blk.id)[j]
  BY <1>4, <1>7
<1>10. Placed(blk, w)
  BY <1>8, <1>9 DEF Placed
<1> QED
  BY <1>2, <1>10

LEMMA FrameEmitted ==
  ASSUME flTables \in FlTables, NEW e, NEW v, Emits(e, v), NEW id \in Ids,
         id = FlSchema \/ e.offset >= 1
  PROVE  /\ Emits(FlEmitted(e, id), v \o FlFrame(id, e.offset = 0))
         /\ FlEmitted(e, id).offset >= 1 /\ FlEmitted(e, id).frames # <<>>
         /\ id \in {FlSchema, FlDictionary} =>
              FlEmitted(e, id).blocks.batches = e.blocks.batches
         /\ id \in 1 .. Len(flTables) =>
              \E blk : /\ blk.id = id
                       /\ FlEmitted(e, id).blocks.batches = Append(e.blocks.batches, blk)
<1>1. /\ v \in Seq(FileCells) /\ Len(v) \in Nat /\ e.offset = Len(v) /\ id \in Int
      /\ Len(flTables) \in Nat /\ e.frames \in Seq(Seq(FileCells))
  BY LaidTyped, TablesTyped DEF Emits, Ids, FlSchema, FlDictionary
<1>2. PICK f, n, w : /\ f = FlFrame(id, e.offset = 0) /\ n = FlFrameLen(id, e.offset = 0)
                     /\ w = v \o f
  OBVIOUS
<1>3. /\ f \in Seq(FileCells) /\ n \in Nat \ {0} /\ Len(f) = n
      /\ e.offset # 0 => f = FlMessage(id)
      /\ \A j \in 1 .. Len(f) : f[j] # <<"tail">>
  <2>1. (e.offset = 0) \in BOOLEAN
    OBVIOUS
  <2> QED
    BY <1>2, <2>1, FrameTyped
<1>4. /\ w \in Seq(FileCells) /\ Len(w) = Len(v) + n
      /\ \A i \in 1 .. Len(v) : w[i] = v[i]
      /\ \A j \in 1 .. Len(f) : w[Len(v) + j] = f[j]
  <2>1. v \in Seq(FileCells) /\ f \in Seq(FileCells)
    BY <1>1, <1>3
  <2>2. /\ w \in Seq(FileCells) /\ Len(w) = Len(v) + Len(f)
        /\ \A i \in 1 .. Len(v) : w[i] = v[i]
        /\ \A j \in 1 .. Len(f) : w[Len(v) + j] = f[j]
    BY ONLY <1>2, <2>1, Joined
  <2> QED
    BY ONLY <1>3, <2>2
<1>5. PICK blk : blk = [id |-> id, offset |-> e.offset, meta |-> 1 + FlMeta(id), body |-> FlBody(id)]
  OBVIOUS
<1>6. PICK d : d = FlEmitted(e, id)
  OBVIOUS
<1>7. /\ d.offset = e.offset + n /\ d.frames = Append(e.frames, f)
      /\ d.blocks = FlNoted(e.blocks, blk)
  BY <1>2, <1>5, <1>6 DEF FlEmitted
<1>8. Laid(w, flFile, d.frames)
  BY <1>2, <1>3, <1>7, FrameQueued DEF Emits
<1>9. Len(w) = d.offset /\ d.offset >= 1
  BY <1>1, <1>3, <1>4, <1>7
<1>10. ASSUME NEW i \in 1 .. Len(w) PROVE w[i] # <<"tail">>
  <2>1. CASE i <= Len(v)
    <3>1. i \in 1 .. Len(v) /\ v[i] # <<"tail">>
      BY <1>1, <2>1 DEF Emits
    <3> QED
      BY <1>4, <3>1
  <2>2. CASE i > Len(v)
    <3>1. PICK j \in 1 .. Len(f) : i = Len(v) + j
      <4>1. i - Len(v) \in 1 .. Len(f) /\ i = Len(v) + (i - Len(v))
        BY <1>1, <1>3, <1>4, <2>2
      <4> QED
        BY <4>1
    <3> QED
      BY <1>3, <1>4, <3>1
  <2>3. i <= Len(v) \/ i > Len(v)
    BY ONLY <1>1, <1>3, <1>4, i \in 1 .. Len(w)
  <2> QED
    BY <2>1, <2>2, <2>3
<1>11. FlMeta(id) \in Nat \ {0} /\ FlBody(id) \in Nat /\ Len(FlMessage(id)) = 1 + FlMeta(id) + FlBody(id)
  BY MessageTyped
<1>12. e.blocks.dicts \in Seq(Blocks) /\ e.blocks.batches \in Seq(Blocks)
  BY DEF Emits, BlockLists
<1>13. \A b \in NotedIn(e.blocks) : Placed(b, w)
  BY <1>1, <1>2, <1>3, PlacedStays DEF Emits
<1>14. d.frames # <<>>
  <2>1. PICK q : q = e.frames
    OBVIOUS
  <2>2. q \in Seq(Seq(FileCells)) /\ f \in Seq(FileCells)
    BY <1>1, <1>3, <2>1
  <2>3. Len(Append(q, f)) = Len(q) + 1 /\ Len(q) \in Nat
    BY ONLY <2>2
  <2>4. Append(q, f) # <<>>
    BY ONLY <2>3
  <2> QED
    BY ONLY <1>7, <2>1, <2>4
<1>15. CASE id = FlSchema
  <2>1. d.blocks.dicts = e.blocks.dicts /\ d.blocks.batches = e.blocks.batches
    BY <1>5, <1>7, <1>15 DEF FlNoted, FlSchema, FlDictionary
  <2>2. d.blocks = [dicts |-> d.blocks.dicts, batches |-> d.blocks.batches]
    BY <1>7 DEF FlNoted
  <2>3. d.blocks \in BlockLists /\ NotedIn(d.blocks) = NotedIn(e.blocks)
    BY <1>12, <2>1, <2>2 DEF BlockLists, NotedIn
  <2>4. Emits(d, w)
    BY <1>8, <1>9, <1>10, <1>13, <2>3 DEF Emits
  <2>5. id \notin 1 .. Len(flTables)
    BY <1>1, <1>15 DEF FlSchema
  <2> QED
    BY <1>2, <1>6, <1>9, <1>14, <2>1, <2>4, <2>5
<1>16. CASE id # FlSchema
  <2>1. f = FlMessage(id) /\ e.offset >= 1
    BY <1>1, <1>3, <1>16
  <2>2. blk \in Blocks /\ blk.id \in {FlDictionary} \cup 1 .. Len(flTables)
    BY <1>1, <1>5, <1>11, <1>16 DEF Blocks, Ids, FlDictionary
  <2>3. Placed(blk, w)
    <3>1. /\ blk.id = id /\ blk.offset = Len(v) /\ blk.meta = 1 + FlMeta(id) /\ blk.body = FlBody(id)
      BY <1>1, <1>5
    <3>2. blk.meta + blk.body = n /\ n = Len(f)
      BY <1>3, <1>11, <2>1, <3>1
    <3>3. blk.offset + (blk.meta + blk.body) <= Len(w)
      BY <1>1, <1>3, <1>4, <3>1, <3>2
    <3>4. \A j \in 1 .. blk.meta + blk.body : w[blk.offset + j] = FlMessage(blk.id)[j]
      BY ONLY <1>4, <2>1, <3>1, <3>2
    <3>5. blk.offset \in Nat /\ blk.offset >= 1
      BY ONLY <1>1, <2>1, <3>1
    <3> QED
      BY ONLY <2>2, <3>1, <3>3, <3>4, <3>5 DEF Placed
  <2>4. d.frames # <<>>
    BY <1>14
  <2>5. CASE id = FlDictionary
    <3>1. d.blocks = [dicts |-> Append(e.blocks.dicts, blk), batches |-> e.blocks.batches]
      BY <1>5, <1>7, <2>5 DEF FlNoted, FlDictionary
    <3>2. d.blocks \in BlockLists
      BY <1>12, <2>2, <3>1 DEF BlockLists
    <3>3. NotedIn(d.blocks) = NotedIn(e.blocks) \cup {blk}
      BY <1>12, <3>1, AppendRange DEF NotedIn
    <3>4. Emits(d, w)
      BY <1>8, <1>9, <1>10, <1>13, <2>3, <3>2, <3>3 DEF Emits
    <3>5. id \notin 1 .. Len(flTables) /\ d.blocks.batches = e.blocks.batches
      BY <1>1, <2>5, <3>1 DEF FlDictionary
    <3> QED
      BY <1>2, <1>6, <1>9, <2>4, <3>4, <3>5
  <2>6. CASE id # FlDictionary
    <3>1. id \in 1 .. Len(flTables) /\ id > 0 /\ blk.id = id
      BY <1>1, <1>5, <1>16, <2>6 DEF Ids
    <3>2. d.blocks = [dicts |-> e.blocks.dicts, batches |-> Append(e.blocks.batches, blk)]
      BY <1>7, <2>6, <3>1 DEF FlNoted, FlDictionary
    <3>3. d.blocks \in BlockLists
      BY <1>12, <2>2, <3>2 DEF BlockLists
    <3>4. NotedIn(d.blocks) = NotedIn(e.blocks) \cup {blk}
      BY <1>12, <3>2, AppendRange DEF NotedIn
    <3>5. Emits(d, w)
      BY <1>8, <1>9, <1>10, <1>13, <2>3, <3>3, <3>4 DEF Emits
    <3>6. d.blocks.batches = Append(e.blocks.batches, blk)
      BY <3>2
    <3> QED
      BY <1>2, <1>6, <1>9, <1>16, <2>4, <2>6, <3>1, <3>5, <3>6
  <2> QED
    BY <2>5, <2>6
<1> QED
  BY <1>15, <1>16

------------------------------------------------------------------------------
(* Arrow files: the invariant.                                             *)

\* The file as it will be, v, as long as nothing has failed.
Written(v) ==
  /\ Laid(v, flFile, flQueue)
  /\ \A i \in 1 .. Len(v) : v[i] = <<"tail">> => flState = "Closed" /\ i = Len(v)
  /\ flBlocks \in BlockLists /\ \A blk \in NotedIn(flBlocks) : Placed(blk, v)
  /\ flAccepted \in Seq(1 .. Len(flTables)) /\ Len(flBlocks.batches) = Len(flAccepted)
  /\ \A k \in 1 .. Len(flAccepted) : flBlocks.batches[k].id = flAccepted[k]
  /\ flState # "Closed" => Len(v) = flOffset /\ (flState = "Fresh" \/ flOffset >= 1)
  /\ flState = "Closed" =>
       /\ Len(v) >= 3 /\ v[Len(v)] = <<"tail">>
       /\ v[Len(v) - 1] = <<"footer", flBlocks>>

\* A file whose writing has failed stays without an end.
FlInv ==
  /\ flTables \in FlTables /\ flNext \in 0 .. Len(flTables)
  /\ flState \in {"Fresh", "SchemaDone", "Closed"} /\ flBusy \in BOOLEAN /\ flFailed \in BOOLEAN
  /\ flBusy => flQueue # <<>>
  /\ FileReadsBack
  /\ flFailed =>
       /\ ~flBusy /\ flFile \in Seq(FileCells)
       /\ \A i \in 1 .. Len(flFile) : flFile[i] # <<"tail">>
  /\ ~flFailed => \E v : Written(v)

LEMMA FilesStart == FlInit => FlInv
<1> SUFFICES ASSUME FlInit PROVE FlInv
  OBVIOUS
<1>1. /\ flTables \in FlTables /\ flNext = 0 /\ flState = "Fresh" /\ flOffset = 0
      /\ flBlocks = [dicts |-> <<>>, batches |-> <<>>] /\ flAccepted = <<>>
      /\ flQueue = <<>> /\ flBusy = FALSE /\ flFile = <<>> /\ flFailed = FALSE
      /\ flRead = FlGot("none", <<>>)
  BY DEF FlInit
<1>2. Len(flTables) \in Nat
  BY <1>1, TablesTyped
<1>3. Laid(<<>>, <<>>, <<>>)
  <2>1. PICK at : at = [k \in 1 .. 1 |-> 0]
    OBVIOUS
  <2>2. <<>> \in Seq(FileCells) /\ <<>> \in Seq(Seq(FileCells)) /\ Len(<<>>) = 0
    BY EmptySequence
  <2>3. at \in [1 .. 1 -> 0 .. 0] /\ at[1] = 0
    BY <2>1
  <2>4. PICK x : x = <<>>
    OBVIOUS
  <2>5. x \in Seq(FileCells) /\ x \in Seq(Seq(FileCells)) /\ Len(x) = 0
    BY ONLY <2>2, <2>4
  <2>6. at \in [1 .. Len(x) + 1 -> 0 .. Len(x)] /\ at[Len(x) + 1] = Len(x)
    BY ONLY <2>3, <2>5
  <2>7. LaidAt(x, x, x, at)
    BY ONLY <2>3, <2>5, <2>6 DEF LaidAt
  <2> QED
    BY ONLY <2>4, <2>7 DEF Laid
<1>4. PICK x : x = <<>>
  OBVIOUS
<1>5. /\ x \in Seq(Blocks) /\ x \in Seq(1 .. Len(flTables)) /\ Len(x) = 0 /\ Range(x) = {}
  BY <1>4, EmptySequence DEF Range
<1>6. flBlocks \in BlockLists /\ NotedIn(flBlocks) = {} /\ flBlocks.batches = x
  BY <1>1, <1>4, <1>5 DEF BlockLists, NotedIn
<1>7. /\ Laid(x, flFile, flQueue) /\ flAccepted = x
  BY <1>1, <1>3, <1>4
<1>8. Written(x)
  BY <1>1, <1>5, <1>6, <1>7 DEF Written
<1>9. FileReadsBack
  BY <1>1 DEF FileReadsBack, FlGot
<1>10. flNext \in 0 .. Len(flTables) /\ flBusy \in BOOLEAN /\ flFailed \in BOOLEAN
  <2>1. flNext \in 0 .. Len(flTables)
    BY <1>1, <1>2
  <2>2. flBusy \in BOOLEAN /\ flFailed \in BOOLEAN
    BY ONLY <1>1, Zenon
  <2> QED
    BY ONLY <2>1, <2>2
<1>11. ~flFailed /\ ~flBusy /\ flState \in {"Fresh", "SchemaDone", "Closed"}
  BY ONLY <1>1
<1> QED
  BY ONLY <1>1, <1>8, <1>9, <1>10, <1>11 DEF FlInv

\* While the writer is not finished, the file has no end.
LEMMA OpenFile ==
  ASSUME NEW v, Written(v), flState # "Closed"
  PROVE  ~FlClosed /\ \A i \in 1 .. Len(v) : v[i] # <<"tail">>
<1>1. /\ flFile \in Seq(FileCells) /\ Len(flFile) \in Nat /\ Len(flFile) <= Len(v)
      /\ Len(v) \in Nat /\ \A i \in 1 .. Len(flFile) : v[i] = flFile[i]
  BY LaidTyped DEF Written
<1>2. \A i \in 1 .. Len(v) : v[i] # <<"tail">>
  BY DEF Written
<1>3. ASSUME flFile # <<>> PROVE flFile[Len(flFile)] # <<"tail">>
  <2>1. Len(flFile) \in 1 .. Len(flFile) /\ Len(flFile) \in 1 .. Len(v)
    BY <1>1, <1>3
  <2> QED
    BY <1>1, <1>2, <2>1
<1> QED
  BY <1>2, <1>3 DEF FlClosed

------------------------------------------------------------------------------
(* The steps of a writer.                                                  *)

\* The schema and the dictionary, if they are due, leave an offset.
LEMMA AheadEmitted ==
  ASSUME FlInv, ~flFailed, flState # "Closed"
  PROVE  \E v : /\ Emits(FlAhead, v) /\ FlAhead.offset >= 1
                /\ FlAhead.blocks.batches = flBlocks.batches
<1>1. PICK v : Written(v)
  BY DEF FlInv
<1>2. flTables \in FlTables /\ Len(flTables) \in Nat
  BY TablesTyped DEF FlInv
<1>3. Emits(FlSoFar, v) /\ FlSoFar.offset = flOffset /\ FlSoFar.blocks = flBlocks
  BY <1>1, OpenFile DEF Emits, FlSoFar, Written
<1>4. FlSchema \in Ids /\ FlDictionary \in Ids
  BY DEF Ids
<1>5. PICK e : e = IF flState = "Fresh" THEN FlEmitted(FlSoFar, FlSchema) ELSE FlSoFar
  OBVIOUS
<1>6. \E w : Emits(e, w) /\ e.offset >= 1 /\ e.blocks.batches = flBlocks.batches
  <2>1. CASE flState = "Fresh"
    <3>1. e = FlEmitted(FlSoFar, FlSchema)
      BY <1>5, <2>1
    <3>2. /\ Emits(e, v \o FlFrame(FlSchema, FlSoFar.offset = 0)) /\ e.offset >= 1
          /\ e.blocks.batches = FlSoFar.blocks.batches
      BY <1>2, <1>3, <1>4, <3>1, FrameEmitted
    <3> QED
      BY <1>3, <3>2
  <2>2. CASE flState # "Fresh"
    <3>1. e = FlSoFar /\ flOffset >= 1
      BY <1>1, <1>5, <2>2 DEF Written
    <3> QED
      BY <1>3, <3>1
  <2> QED
    BY <2>1, <2>2
<1>7. PICK w : Emits(e, w) /\ e.offset >= 1 /\ e.blocks.batches = flBlocks.batches
  BY <1>6
<1>8. FlAhead = IF flCoded /\ ~flDicts THEN FlEmitted(e, FlDictionary) ELSE e
  BY <1>5 DEF FlAhead
<1>9. CASE flCoded /\ ~flDicts
  <2>1. FlAhead = FlEmitted(e, FlDictionary)
    BY <1>8, <1>9
  <2>2. /\ Emits(FlAhead, w \o FlFrame(FlDictionary, e.offset = 0)) /\ FlAhead.offset >= 1
        /\ FlAhead.blocks.batches = e.blocks.batches
    BY <1>2, <1>4, <1>7, <2>1, FrameEmitted
  <2> QED
    BY <1>7, <2>2
<1>10. CASE ~(flCoded /\ ~flDicts)
  BY <1>7, <1>8, <1>10
<1> QED
  BY <1>9, <1>10

\* Nothing that is read of the file changes.
LEMMA ReadingStays ==
  ASSUME UNCHANGED <<flTables, flFile, flRead>>, FileReadsBack, ~FlClosed \/ flAccepted' = flAccepted
  PROVE  FileReadsBack'
<1>1. FlClosed' = FlClosed
  BY DEF FlClosed
<1>2. flAccepted' = flAccepted => FlWritten' = FlWritten
  BY DEF FlWritten
<1> QED
  BY <1>1, <1>2 DEF FileReadsBack

\* write.
LEMMA WriteStep ==
  ASSUME FlInv, ~FlGoesOn, FlWrite
  PROVE  FlInv'
<1>1. /\ ~flFailed /\ flState # "Closed" /\ ~flBusy /\ flNext < Len(flTables)
      /\ flState' = "SchemaDone" /\ flNext' = flNext + 1
      /\ UNCHANGED <<flTables, flFile, flRead>>
  BY DEF FlWrite, flInput
<1>2. /\ flTables \in FlTables /\ Len(flTables) \in Nat /\ flNext \in 0 .. Len(flTables)
      /\ FileReadsBack
  BY TablesTyped DEF FlInv
<1>3. PICK v0 : Written(v0)
  BY <1>1 DEF FlInv
<1>4. ~FlClosed
  BY <1>1, <1>3, OpenFile
<1>5. PICK v : /\ Emits(FlAhead, v) /\ FlAhead.offset >= 1
               /\ FlAhead.blocks.batches = flBlocks.batches
  BY <1>1, AheadEmitted
<1>6. FileReadsBack'
  BY <1>1, <1>2, <1>4, ReadingStays
<1>7. /\ flAccepted \in Seq(1 .. Len(flTables)) /\ flBlocks.batches \in Seq(Blocks)
      /\ Len(flBlocks.batches) = Len(flAccepted)
      /\ \A k \in 1 .. Len(flAccepted) : flBlocks.batches[k].id = flAccepted[k]
  BY <1>3 DEF Written, BlockLists
<1>8. flNext' \in 0 .. Len(flTables)' /\ flNext + 1 \in 1 .. Len(flTables)
  BY <1>1, <1>2
<1>9. \A blk, w : Placed(blk, w)' = Placed(blk, w)
  BY <1>1 DEF Placed, FlMeta, FlBody, FlMessage
<1>10. CASE /\ FlEmit(FlEmitted(FlAhead, flNext + 1))
            /\ flAccepted' = Append(flAccepted, flNext + 1)
            /\ flBusy' = (flHow # "end") /\ UNCHANGED flFailed
  <2>1. PICK d : d = FlEmitted(FlAhead, flNext + 1)
    OBVIOUS
  <2>2. flOffset' = d.offset /\ flBlocks' = d.blocks /\ flQueue' = d.frames
    BY <1>10, <2>1 DEF FlEmit
  <2>3. flNext + 1 \in Ids
    BY <1>8 DEF Ids
  <2>4. PICK w : w = v \o FlFrame(flNext + 1, FlAhead.offset = 0)
    OBVIOUS
  <2>5. PICK blk : /\ Emits(d, w) /\ d.offset >= 1 /\ d.frames # <<>>
                   /\ blk.id = flNext + 1 /\ d.blocks.batches = Append(FlAhead.blocks.batches, blk)
    <3>1. PICK e, id : e = FlAhead /\ id = flNext + 1
      OBVIOUS
    <3>2. Emits(e, v) /\ e.offset >= 1 /\ id \in Ids /\ id \in 1 .. Len(flTables)
      BY <1>5, <1>8, <2>3, <3>1
    <3>3. /\ Emits(FlEmitted(e, id), v \o FlFrame(id, e.offset = 0))
          /\ FlEmitted(e, id).offset >= 1 /\ FlEmitted(e, id).frames # <<>>
          /\ id \in 1 .. Len(flTables) =>
               \E blk : /\ blk.id = id
                        /\ FlEmitted(e, id).blocks.batches = Append(e.blocks.batches, blk)
      BY ONLY <1>2, <3>2, FrameEmitted
    <3> QED
      BY ONLY <2>1, <2>4, <3>1, <3>2, <3>3
  <2>6. /\ flAccepted' \in Seq(1 .. Len(flTables)) /\ Len(flAccepted') = Len(flAccepted) + 1
        /\ \A k \in 1 .. Len(flAccepted) : flAccepted'[k] = flAccepted[k]
        /\ flAccepted'[Len(flAccepted) + 1] = flNext + 1 /\ Len(flAccepted) \in Nat
    BY <1>7, <1>8, <1>10
  <2>7. PICK s, t : s = flBlocks.batches /\ t = flBlocks'.batches
    OBVIOUS
  <2>8. t = Append(s, blk) /\ s \in Seq(Blocks) /\ Len(s) = Len(flAccepted)
    BY <1>5, <1>7, <2>2, <2>5, <2>7
  <2>9. /\ Len(t) = Len(s) + 1 /\ t[Len(s) + 1] = blk
        /\ \A k \in 1 .. Len(s) : t[k] = s[k]
    BY <2>8
  <2>10. \A k \in 1 .. Len(flAccepted') : t[k].id = flAccepted'[k]
    <3> TAKE k \in 1 .. Len(flAccepted')
    <3>1. CASE k = Len(flAccepted) + 1
      BY <2>5, <2>6, <2>8, <2>9, <3>1
    <3>2. CASE k # Len(flAccepted) + 1
      <4>1. k \in 1 .. Len(flAccepted)
        BY <2>6, <3>2
      <4> QED
        BY <1>7, <2>6, <2>7, <2>8, <2>9, <4>1
    <3> QED
      BY <3>1, <3>2
  <2>11. Written(w)'
    <3>1. Laid(w, flFile, flQueue)' /\ Len(w) = flOffset' /\ flOffset' >= 1
      BY <1>1, <2>2, <2>5 DEF Emits
    <3>2. \A i \in 1 .. Len(w) : w[i] # <<"tail">>
      BY <2>5 DEF Emits
    <3>3. flBlocks' \in BlockLists /\ \A b \in NotedIn(flBlocks)' : Placed(b, w)'
      BY <1>9, <2>2, <2>5 DEF Emits, NotedIn
    <3> QED
      BY <1>1, <2>6, <2>7, <2>8, <2>9, <2>10, <3>1, <3>2, <3>3 DEF Written
  <2>12. (flBusy' => flQueue' # <<>>) /\ flBusy' \in BOOLEAN
    BY <1>10, <2>2, <2>5
  <2>13. ~flFailed' /\ flFailed' \in BOOLEAN
    BY <1>1, <1>10 DEF FlInv
  <2> QED
    BY <1>1, <1>2, <1>6, <1>8, <2>11, <2>12, <2>13 DEF FlInv
<1>11. CASE /\ FlEmit(FlAhead) /\ flFailed' = (flFailed \/ flHow = "end")
            /\ UNCHANGED <<flAccepted, flBusy>>
  <2>1. /\ flOffset' = FlAhead.offset /\ flBlocks' = FlAhead.blocks /\ flQueue' = FlAhead.frames
    BY <1>11 DEF FlEmit
  <2>2. Written(v)'
    <3>1. Laid(v, flFile, flQueue)' /\ Len(v) = flOffset' /\ flOffset' >= 1
      BY <1>1, <1>5, <2>1 DEF Emits
    <3>2. \A i \in 1 .. Len(v) : v[i] # <<"tail">>
      BY <1>5 DEF Emits
    <3>3. flBlocks' \in BlockLists /\ \A b \in NotedIn(flBlocks)' : Placed(b, v)'
      BY <1>5, <1>9, <2>1 DEF Emits, NotedIn
    <3>4. flBlocks'.batches = flBlocks.batches
      BY <1>5, <2>1
    <3> QED
      BY <1>1, <1>7, <1>11, <3>1, <3>2, <3>3, <3>4 DEF Written
  <2>3. /\ flFile \in Seq(FileCells) /\ \A i \in 1 .. Len(flFile) : flFile[i] # <<"tail">>
    <3>1. /\ flFile \in Seq(FileCells) /\ Len(flFile) \in Nat /\ Len(flFile) <= Len(v)
          /\ Len(v) \in Nat /\ \A i \in 1 .. Len(flFile) : v[i] = flFile[i]
      BY <1>5, LaidTyped DEF Emits
    <3>2. \A i \in 1 .. Len(v) : v[i] # <<"tail">>
      BY <1>5 DEF Emits
    <3> QED
      BY <3>1, <3>2
  <2>4. ~flBusy' /\ flBusy' \in BOOLEAN /\ flFailed' \in BOOLEAN
    BY <1>1, <1>11 DEF FlInv
  <2> QED
    BY <1>1, <1>2, <1>6, <1>8, <2>2, <2>3, <2>4 DEF FlInv
<1> QED
  BY <1>10, <1>11 DEF FlWrite

\* finish: what closes the file, with the magic before it where nothing else is.
LEMMA ClosingTyped ==
  ASSUME NEW b \in BlockLists, NEW first \in BOOLEAN, NEW c, c = FlClosing(b, first)
  PROVE  /\ c \in Seq(FileCells) /\ Len(c) \in Nat /\ Len(c) >= 3
         /\ c[Len(c)] = <<"tail">> /\ c[Len(c) - 1] = <<"footer", b>>
         /\ \A j \in 1 .. Len(c) - 1 : c[j] # <<"tail">>
<1>1. PICK M, E, F, T : M = <<"magic">> /\ E = <<"eos">> /\ F = <<"footer", b>> /\ T = <<"tail">>
  OBVIOUS
<1>2. /\ M \in FileCells /\ E \in FileCells /\ F \in FileCells /\ T \in FileCells
      /\ M # T /\ E # T /\ F # T
  BY <1>1, OtherCells
<1>3. PICK p, q : p = (IF first THEN <<M>> ELSE <<>>) /\ q = <<E, F, T>>
  OBVIOUS
<1>4. c = p \o q
  BY <1>1, <1>3 DEF FlClosing
<1>5. q \in Seq(FileCells) /\ Len(q) = 3 /\ q[1] = E /\ q[2] = F /\ q[3] = T
  BY ONLY <1>2, <1>3
<1>6. p \in Seq(FileCells) /\ Len(p) \in Nat /\ \A j \in 1 .. Len(p) : p[j] # T
  <2>1. CASE first
    <3>1. p = <<M>>
      BY <1>3, <2>1
    <3>2. p \in Seq(FileCells) /\ Len(p) = 1 /\ p[1] = M
      BY ONLY <1>2, <3>1
    <3> QED
      BY ONLY <1>2, <3>2
  <2>2. CASE ~first
    <3>1. p = <<>>
      BY <1>3, <2>2
    <3> QED
      BY ONLY <3>1, EmptySequence
  <2> QED
    BY <2>1, <2>2
<1>7. /\ c \in Seq(FileCells) /\ Len(c) = Len(p) + Len(q)
      /\ \A k \in 1 .. Len(p) : c[k] = p[k]
      /\ \A k \in 1 .. Len(q) : c[Len(p) + k] = q[k]
  <2>1. p \in Seq(FileCells) /\ q \in Seq(FileCells)
    BY ONLY <1>5, <1>6
  <2> QED
    BY ONLY <1>4, <2>1, Joined
<1>8. PICK n \in Nat : n = Len(p)
  BY <1>6
<1>9. /\ Len(c) = n + 3 /\ c[n + 1] = E /\ c[n + 2] = F /\ c[n + 3] = T
      /\ \A k \in 1 .. n : c[k] # T
  <2>1. 1 \in 1 .. Len(q) /\ 2 \in 1 .. Len(q) /\ 3 \in 1 .. Len(q)
    BY ONLY <1>5
  <2> QED
    BY ONLY <1>5, <1>6, <1>7, <1>8, <2>1
<1>10. ASSUME NEW j \in 1 .. n + 2 PROVE c[j] # T
  <2>1. j \in 1 .. n \/ j = n + 1 \/ j = n + 2
    OBVIOUS
  <2> QED
    BY ONLY <1>2, <1>9, <2>1
<1>11. Len(c) - 1 = n + 2 /\ Len(c) \in Nat /\ Len(c) >= 3
  BY ONLY <1>9, n \in Nat
<1> QED
  BY ONLY <1>1, <1>7, <1>9, <1>10, <1>11

LEMMA FinishStep ==
  ASSUME FlInv, ~FlGoesOn, FlFinish
  PROVE  FlInv'
<1>1. /\ ~flFailed /\ flState # "Closed" /\ flState' = "Closed" /\ flBusy' = TRUE
      /\ flQueue' = Append(flQueue, FlClosing(flBlocks, flOffset = 0))
      /\ UNCHANGED <<flTables, flNext, flBlocks, flAccepted, flFile, flFailed, flRead>>
  BY DEF FlFinish, flInput
<1>2. /\ flTables \in FlTables /\ Len(flTables) \in Nat /\ flNext \in 0 .. Len(flTables)
      /\ FileReadsBack
  BY TablesTyped DEF FlInv
<1>3. PICK v : Written(v)
  BY <1>1 DEF FlInv
<1>4. PICK c, w : c = FlClosing(flBlocks, flOffset = 0) /\ w = v \o c
  OBVIOUS
<1>5. flBlocks \in BlockLists /\ \A blk \in NotedIn(flBlocks) : Placed(blk, v)
  BY <1>3 DEF Written
<1>6. /\ c \in Seq(FileCells) /\ Len(c) \in Nat /\ Len(c) >= 3
      /\ c[Len(c)] = <<"tail">> /\ c[Len(c) - 1] = <<"footer", flBlocks>>
      /\ \A j \in 1 .. Len(c) - 1 : c[j] # <<"tail">>
  <2>1. (flOffset = 0) \in BOOLEAN
    OBVIOUS
  <2> QED
    BY <1>4, <1>5, <2>1, ClosingTyped
<1>7. /\ v \in Seq(FileCells) /\ Len(v) \in Nat /\ \A i \in 1 .. Len(v) : v[i] # <<"tail">>
      /\ flQueue \in Seq(Seq(FileCells))
  BY <1>1, <1>3, OpenFile, LaidTyped DEF Written
<1>8. /\ w \in Seq(FileCells) /\ Len(w) = Len(v) + Len(c)
      /\ \A i \in 1 .. Len(v) : w[i] = v[i]
      /\ \A j \in 1 .. Len(c) : w[Len(v) + j] = c[j]
  <2>1. v \in Seq(FileCells) /\ c \in Seq(FileCells)
    BY ONLY <1>6, <1>7
  <2> QED
    BY ONLY <1>4, <2>1, Joined
<1>9. Laid(w, flFile, flQueue)'
  BY <1>1, <1>3, <1>4, <1>6, FrameQueued DEF Written
<1>10. /\ Len(w) >= 3 /\ w[Len(w)] = <<"tail">> /\ w[Len(w) - 1] = <<"footer", flBlocks>>
  <2>1. PICK m, n \in Nat : m = Len(v) /\ n = Len(c)
    BY <1>6, <1>7
  <2>2. /\ n >= 3 /\ Len(w) = m + n /\ n \in 1 .. n /\ n - 1 \in 1 .. n
        /\ (m + n) - 1 = m + (n - 1)
    BY <1>6, <1>8, <2>1
  <2>3. w[m + n] = c[n] /\ w[m + (n - 1)] = c[n - 1]
    BY <1>8, <2>1, <2>2
  <2> QED
    BY <1>6, <2>1, <2>2, <2>3
<1>11. ASSUME NEW i \in 1 .. Len(w), w[i] = <<"tail">> PROVE i = Len(w)
  <2>1. PICK m, n \in Nat : m = Len(v) /\ n = Len(c)
    BY <1>6, <1>7
  <2>2. i \in 1 .. m + n /\ Len(w) = m + n
    BY <1>8, <2>1
  <2>3. i > m
    <3>1. SUFFICES ASSUME i <= m PROVE FALSE
      BY <2>2
    <3>2. i \in 1 .. Len(v)
      BY <2>1, <2>2, <3>1
    <3> QED
      BY <1>7, <1>8, <1>11, <3>2
  <2>4. PICK j \in 1 .. n : i = m + j
    <3>1. i - m \in 1 .. n /\ i = m + (i - m)
      BY <2>2, <2>3
    <3> QED
      BY <3>1
  <2>5. c[j] = <<"tail">>
    BY <1>8, <1>11, <2>1, <2>4
  <2>6. j = n
    <3>1. j # n => j \in 1 .. n - 1
      OBVIOUS
    <3> QED
      BY <1>6, <2>1, <2>5, <3>1
  <2> QED
    BY <2>2, <2>4, <2>6
<1>12. \A blk : Placed(blk, w)' = Placed(blk, w)
  BY <1>1 DEF Placed, FlMeta, FlBody, FlMessage
<1>13. \A blk \in NotedIn(flBlocks) : Placed(blk, w)
  BY <1>2, <1>4, <1>5, <1>6, <1>7, PlacedStays
<1>14. Written(w)'
  <2>1. \A i \in 1 .. Len(w) : w[i] = <<"tail">> => flState' = "Closed" /\ i = Len(w)
    BY <1>1, <1>11
  <2>2. flBlocks' \in BlockLists /\ \A blk \in NotedIn(flBlocks)' : Placed(blk, w)'
    BY <1>1, <1>5, <1>12, <1>13 DEF NotedIn
  <2>3. /\ flAccepted \in Seq(1 .. Len(flTables)) /\ Len(flBlocks.batches) = Len(flAccepted)
        /\ \A k \in 1 .. Len(flAccepted) : flBlocks.batches[k].id = flAccepted[k]
    BY <1>3 DEF Written
  <2> QED
    BY <1>1, <1>9, <1>10, <2>1, <2>2, <2>3 DEF Written
<1>15. FileReadsBack'
  BY <1>1, <1>2, ReadingStays
<1>16. flQueue' # <<>>
  <2>1. PICK q : q = flQueue
    OBVIOUS
  <2>2. Len(Append(q, c)) = Len(q) + 1 /\ Len(q) \in Nat
    BY <1>6, <1>7, <2>1
  <2>3. Append(q, c) # <<>>
    BY ONLY <2>2
  <2> QED
    BY ONLY <1>1, <1>4, <2>1, <2>3
<1>17. flBusy' \in BOOLEAN /\ flFailed' \in BOOLEAN /\ ~flFailed'
  BY <1>1 DEF FlInv
<1> QED
  BY <1>1, <1>2, <1>14, <1>15, <1>16, <1>17 DEF FlInv

\* drain_frames.
LEMMA DrainStep ==
  ASSUME FlInv, FlDrain
  PROVE  FlInv'
<1>1. /\ flBusy /\ flQueue # <<>> /\ ~flFailed /\ flQueue' = Tail(flQueue)
      /\ flRead' = FlGot("none", <<>>)
      /\ UNCHANGED <<flTables, flNext, flState, flOffset, flBlocks>>
  BY DEF FlInv, FlDrain, flInput
<1>2. /\ flTables \in FlTables /\ flNext \in 0 .. Len(flTables)
      /\ flState \in {"Fresh", "SchemaDone", "Closed"}
  BY DEF FlInv
<1>3. PICK v : Written(v)
  BY <1>1 DEF FlInv
<1>4. Laid(v, flFile, flQueue)
  BY <1>3 DEF Written
<1>5. FileReadsBack'
  BY <1>1 DEF FileReadsBack, FlGot
<1>6. CASE /\ flFile' = flFile \o Head(flQueue) /\ flBusy' = (flQueue' # <<>>)
           /\ UNCHANGED <<flAccepted, flFailed, flFaults>>
  <2>1. Laid(v, flFile, flQueue)'
    BY <1>1, <1>4, <1>6, FrameDrained
  <2>2. \A blk : Placed(blk, v)' = Placed(blk, v)
    BY <1>1 DEF Placed, FlMeta, FlBody, FlMessage
  <2>3. flBlocks' \in BlockLists /\ \A blk \in NotedIn(flBlocks)' : Placed(blk, v)'
    BY <1>1, <1>3, <2>2 DEF Written, NotedIn
  <2>4. Written(v)'
    <3>1. \A i \in 1 .. Len(v) : v[i] = <<"tail">> => flState' = "Closed" /\ i = Len(v)
      BY <1>1, <1>3 DEF Written
    <3>2. /\ flAccepted' \in Seq(1 .. Len(flTables)')
          /\ Len(flBlocks'.batches) = Len(flAccepted')
          /\ \A k \in 1 .. Len(flAccepted') : flBlocks'.batches[k].id = flAccepted'[k]
      BY <1>1, <1>3, <1>6 DEF Written
    <3>3. flState' # "Closed" => Len(v) = flOffset' /\ (flState' = "Fresh" \/ flOffset' >= 1)
      BY <1>1, <1>3 DEF Written
    <3>4. flState' = "Closed" =>
            /\ Len(v) >= 3 /\ v[Len(v)] = <<"tail">>
            /\ v[Len(v) - 1] = <<"footer", flBlocks'>>
      BY <1>1, <1>3 DEF Written
    <3> QED
      BY <2>1, <2>3, <3>1, <3>2, <3>3, <3>4 DEF Written
  <2>5. (flBusy' => flQueue' # <<>>) /\ flBusy' \in BOOLEAN
    BY <1>6
  <2>6. ~flFailed' /\ flFailed' \in BOOLEAN
    BY <1>1, <1>6 DEF FlInv
  <2> QED
    BY <1>1, <1>2, <1>5, <2>4, <2>5, <2>6 DEF FlInv
<1>7. CASE /\ \E n \in 0 .. Len(Head(flQueue)) - 1 :
                flFile' = flFile \o SubSeq(Head(flQueue), 1, n)
           /\ flFailed' = TRUE /\ flBusy' = FALSE
  <2>1. PICK n \in 0 .. Len(Head(flQueue)) - 1 : flFile' = flFile \o SubSeq(Head(flQueue), 1, n)
    BY <1>7
  <2>2. /\ flFile' \in Seq(FileCells) /\ Len(flFile') < Len(v)
        /\ \A i \in 1 .. Len(flFile') : flFile'[i] = v[i]
    BY <1>1, <1>4, <2>1, FrameDrained
  <2>3. ASSUME NEW i \in 1 .. Len(flFile') PROVE flFile'[i] # <<"tail">>
    <3>1. Len(flFile') \in Nat /\ Len(v) \in Nat
      BY <1>4, <2>2, LaidTyped
    <3>2. i \in 1 .. Len(v) /\ i # Len(v)
      BY <2>2, <3>1
    <3>3. v[i] # <<"tail">>
      BY <1>3, <3>2 DEF Written
    <3> QED
      BY <2>2, <3>3
  <2>4. flFailed' /\ ~flBusy' /\ flFailed' \in BOOLEAN /\ flBusy' \in BOOLEAN
    BY <1>7
  <2> QED
    BY <1>1, <1>2, <1>5, <2>2, <2>3, <2>4 DEF FlInv
<1> QED
  BY <1>6, <1>7 DEF FlDrain

------------------------------------------------------------------------------
(* Reading.                                                                *)

\* Elements a + 1 to a + n of a sequence.
LEMMA Windowed ==
  ASSUME NEW S, NEW s \in Seq(S), NEW a \in Nat, NEW n \in Nat, a + n <= Len(s)
  PROVE  /\ SubSeq(s, a + 1, a + n) \in Seq(S) /\ Len(SubSeq(s, a + 1, a + n)) = n
         /\ \A j \in 1 .. n : SubSeq(s, a + 1, a + n)[j] = s[a + j]
<1>1. PICK p, q : p = a + 1 /\ q = a + n
  OBVIOUS
<1>2. p \in Nat /\ q \in Nat /\ q <= Len(s) /\ p >= 1 /\ q - p + 1 = n
  BY <1>1
<1>3. SubSeq(s, p, q) = [j \in 1 .. q - p + 1 |-> s[p + j - 1]]
  BY <1>2
<1>4. \A j \in 1 .. n : SubSeq(s, p, q)[j] = s[a + j]
  <2> TAKE j \in 1 .. n
  <2>1. p + j - 1 = a + j
    BY <1>1
  <2> QED
    BY <1>2, <1>3, <2>1
<1>5. \A j \in 1 .. n : a + j \in 1 .. Len(s)
  OBVIOUS
<1>6. SubSeq(s, p, q) \in [1 .. n -> S]
  <2>1. \A j \in 1 .. n : s[a + j] \in S
    BY <1>5, Elements
  <2>2. DOMAIN SubSeq(s, p, q) = 1 .. n
    BY <1>2, <1>3
  <2> QED
    BY <1>2, <1>3, <1>4, <2>1, <2>2
<1>7. SubSeq(s, p, q) \in Seq(S) /\ Len(SubSeq(s, p, q)) = n
  BY <1>6, Listed
<1> QED
  BY <1>1, <1>4, <1>7

LEMMA SameSequence ==
  ASSUME NEW S, NEW s \in Seq(S), NEW t \in Seq(S), NEW n \in Nat, Len(s) = n, Len(t) = n,
         \A j \in 1 .. n : s[j] = t[j]
  PROVE  s = t
OBVIOUS

\* A block that is placed is read as the message it is of.
LEMMA BlockRead ==
  ASSUME flTables \in FlTables, NEW v \in Seq(FileCells), NEW blk, Placed(blk, v)
  PROVE  /\ blk.offset >= 1 /\ blk.offset + blk.meta + blk.body <= Len(v)
         /\ FlWhole(v, blk)
<1>1. PICK o, n, m : o = blk.offset /\ n = blk.meta + blk.body /\ m = FlMessage(blk.id)
  OBVIOUS
<1>2. blk.id \in Ids
  BY DEF Placed, Ids
<1>3. /\ blk.meta \in Nat /\ blk.body \in Nat /\ m \in Seq(FileCells) /\ Len(m) = n
      /\ n \in Nat /\ o \in Nat
  BY <1>1, <1>2, MessageTyped DEF Placed
<1>4. o >= 1 /\ o + n <= Len(v) /\ \A j \in 1 .. n : v[o + j] = m[j]
  BY <1>1 DEF Placed
<1>5. blk.offset + blk.meta + blk.body = o + n
  BY <1>1, <1>3
<1>6. PICK t : t = SubSeq(v, o + 1, o + n)
  OBVIOUS
<1>7. t \in Seq(FileCells) /\ Len(t) = n /\ \A j \in 1 .. n : t[j] = v[o + j]
  BY <1>3, <1>4, <1>6, Windowed
<1>8. t = m
  <2>1. \A j \in 1 .. n : t[j] = m[j]
    BY ONLY <1>4, <1>7
  <2> QED
    BY ONLY <1>3, <1>7, <2>1, SameSequence
<1>9. FlWhole(v, blk)
  BY <1>1, <1>5, <1>6, <1>8 DEF FlWhole
<1> QED
  BY <1>1, <1>4, <1>5, <1>9

\* A file with its end gives back what was accepted.
LEMMA LoadedWhole ==
  ASSUME FlInv, FlClosed, NEW target \in FlTargets
  PROVE  FlLoad(flFile, target) = FlGot("ok", FlWritten)
<1>1. flTables \in FlTables
  BY DEF FlInv
<1>2. ~flFailed
  <2>1. SUFFICES ASSUME flFailed PROVE FALSE
    BY DEF FlInv
  <2>2. flFile \in Seq(FileCells) /\ \A i \in 1 .. Len(flFile) : flFile[i] # <<"tail">>
    BY <2>1 DEF FlInv
  <2>3. flFile # <<>> /\ flFile[Len(flFile)] = <<"tail">>
    BY DEF FlClosed
  <2>4. Len(flFile) \in 1 .. Len(flFile)
    BY <2>2, <2>3
  <2> QED
    BY <2>2, <2>3, <2>4
<1>3. PICK v : Written(v)
  BY <1>2 DEF FlInv
<1>4. /\ flFile \in Seq(FileCells) /\ v \in Seq(FileCells)
      /\ Len(flFile) \in Nat /\ Len(v) \in Nat /\ Len(flFile) <= Len(v)
      /\ \A i \in 1 .. Len(flFile) : v[i] = flFile[i]
  BY <1>3, LaidTyped DEF Written
<1>5. flState = "Closed" /\ Len(flFile) = Len(v)
  <2>1. flFile # <<>> /\ flFile[Len(flFile)] = <<"tail">>
    BY DEF FlClosed
  <2>2. Len(flFile) \in 1 .. Len(flFile) /\ Len(flFile) \in 1 .. Len(v)
    BY <1>4, <2>1
  <2>3. v[Len(flFile)] = <<"tail">>
    BY <1>4, <2>1, <2>2
  <2> QED
    BY <1>3, <2>2, <2>3 DEF Written
<1>6. flFile = v
  <2>1. \A j \in 1 .. Len(v) : flFile[j] = v[j]
    BY <1>4, <1>5
  <2> QED
    BY ONLY <1>4, <1>5, <2>1, SameSequence
<1>7. /\ Len(v) >= 3 /\ v[Len(v)] = <<"tail">> /\ v[Len(v) - 1] = <<"footer", flBlocks>>
  BY <1>3, <1>5 DEF Written
<1>8. FlFooter(v) = flBlocks
  BY <1>7 DEF FlFooter
<1>9. FlNotedIn(v) = NotedIn(flBlocks) /\ \A blk \in NotedIn(flBlocks) : Placed(blk, v)
  BY <1>3, <1>8 DEF Written, FlNotedIn, NotedIn
<1>10. FlOpens(v) /\ \A blk \in FlNotedIn(v) : FlWhole(v, blk)
  <2>1. \A blk \in FlNotedIn(v) :
          /\ blk.offset >= 1 /\ blk.offset + blk.meta + blk.body <= Len(v)
          /\ FlWhole(v, blk)
    BY <1>1, <1>4, <1>9, BlockRead
  <2>2. Len(v) > 2
    BY <1>4, <1>7
  <2> QED
    BY <1>7, <2>1, <2>2 DEF FlOpens
<1>11. FlLoad(v, target) =
         FlGot("ok", [b \in DOMAIN flBlocks.batches |-> FlRows(flBlocks.batches[b].id, target)])
  BY <1>8, <1>10 DEF FlLoad
<1>12. /\ flAccepted \in Seq(1 .. Len(flTables)) /\ Len(flBlocks.batches) = Len(flAccepted)
       /\ \A k \in 1 .. Len(flAccepted) : flBlocks.batches[k].id = flAccepted[k]
       /\ flBlocks.batches \in Seq(Blocks)
  BY <1>3 DEF Written, BlockLists
<1>13. PICK n \in Nat : /\ DOMAIN flBlocks.batches = 1 .. n /\ DOMAIN flAccepted = 1 .. n
                        /\ \A k \in 1 .. n : /\ flAccepted[k] \in 1 .. Len(flTables)
                                             /\ flBlocks.batches[k].id = flAccepted[k]
  BY <1>12
<1>14. \A k \in 1 .. n :
         FlRows(flBlocks.batches[k].id, target) = RowsTo(flAccepted[k], flTables[flAccepted[k]].rows)
  <2>1. target \in Nat
    BY FlAssumption
  <2> QED
    BY <1>1, <1>13, <2>1, RowsRead
<1>15. FlWritten = [k \in 1 .. n |-> RowsTo(flAccepted[k], flTables[flAccepted[k]].rows)]
  BY <1>13 DEF FlWritten, RowsTo
<1> QED
  BY <1>6, <1>11, <1>13, <1>14, <1>15

LEMMA FileStep ==
  ASSUME FlInv, FlOpen
  PROVE  FlInv'
<1>1. PICK target \in FlTargets : flRead' = FlLoad(flFile, target)
  BY DEF FlOpen
<1>2. /\ UNCHANGED <<flTables, flNext, flState, flOffset, flBlocks, flAccepted>>
      /\ UNCHANGED <<flQueue, flBusy, flFile, flFailed>>
  BY DEF FlOpen, flInput, flEncoder
<1>3. FileReadsBack'
  <2>1. FlClosed' = FlClosed /\ FlWritten' = FlWritten
    BY <1>2 DEF FlClosed, FlWritten
  <2>2. CASE FlClosed
    BY <1>1, <2>1, <2>2, LoadedWhole DEF FileReadsBack
  <2>3. CASE ~FlClosed
    <3>1. ~FlOpens(flFile)
      <4>1. Len(flFile) > 2 => flFile # <<>>
        OBVIOUS
      <4> QED
        BY <2>3, <4>1 DEF FlOpens, FlClosed
    <3>2. flRead'.how = "refused"
      BY <1>1, <3>1 DEF FlLoad, FlGot
    <3> QED
      BY <2>1, <2>3, <3>2 DEF FileReadsBack
  <2> QED
    BY <2>2, <2>3
<1>4. \A v : Written(v)' = Written(v)
  BY <1>2 DEF Written, Laid, LaidAt, NotedIn, Placed, FlMeta, FlBody, FlMessage
<1>5. \A v : Written(v) => Written(v)'
  BY <1>4
<1> QED
  BY <1>2, <1>3, <1>5 DEF FlInv

\* An Arrow file gives back exactly the tables whose write returned Ok, each row
\* in its place and in one window; before its end is written, and after a failure, it is
\* refused.  For a caller that stops at an error, whatever the tables, the windows
\* and the failures.
THEOREM FileReadsBackHolds == ASSUME ~FlGoesOn PROVE FlSpec => []FileReadsBack
<1>1. FlInit => FlInv
  BY FilesStart
<1>2. FlInv /\ [FlNext]_flvars => FlInv'
  <2> SUFFICES ASSUME FlInv, [FlNext]_flvars PROVE FlInv'
    OBVIOUS
  <2>1. CASE FlWrite
    BY <2>1, WriteStep
  <2>2. CASE FlFinish
    BY <2>2, FinishStep
  <2>3. CASE FlDrain
    BY <2>3, DrainStep
  <2>4. CASE FlOpen
    BY <2>4, FileStep
  <2>5. CASE UNCHANGED flvars
    <3>1. UNCHANGED <<flTables, flNext, flState, flOffset, flBlocks, flAccepted,
                      flQueue, flBusy, flFile, flFailed, flRead>>
      BY <2>5 DEF flvars, flInput, flEncoder
    <3>2. \A v : Written(v)' = Written(v)
      BY <3>1 DEF Written, Laid, LaidAt, NotedIn, Placed, FlMeta, FlBody, FlMessage
    <3>3. \A v : Written(v) => Written(v)'
      BY <3>2
    <3>4. FileReadsBack'
      BY <3>1, ReadingStays DEF FlInv
    <3> QED
      BY <3>1, <3>3, <3>4 DEF FlInv
  <2> QED
    BY <2>1, <2>2, <2>3, <2>4, <2>5 DEF FlNext
<1>3. FlInv => FileReadsBack
  BY DEF FlInv
<1> QED
  BY <1>1, <1>2, <1>3, PTL DEF FlSpec

------------------------------------------------------------------------------
(* Sequences of anything, and recursion over the numbers.                  *)

IsSequence(s) == \E S : s \in Seq(S)

LEMMA SequenceBuilt ==
  ASSUME NEW n \in Int, NEW s, s = [i \in 1 .. n |-> s[i]]
  PROVE  IsSequence(s) /\ (n \in Nat => Len(s) = n)
<1>1. PICK m \in Nat : 1 .. n = 1 .. m /\ (n \in Nat => m = n)
  <2>1. CASE n \in Nat
    BY <2>1
  <2>2. CASE n \notin Nat
    <3>1. 1 .. n = 1 .. 0
      BY <2>2
    <3> QED
      BY <2>2, <3>1
  <2> QED
    BY <2>1, <2>2
<1>2. PICK S : S = {s[i] : i \in 1 .. m}
  OBVIOUS
<1>3. s \in [1 .. m -> S]
  BY <1>1, <1>2
<1>4. s \in Seq(S) /\ Len(s) = m
  BY ONLY <1>3, m \in Nat, Listed
<1> QED
  BY <1>1, <1>4 DEF IsSequence

LEMMA SequenceParts ==
  ASSUME NEW s, IsSequence(s)
  PROVE  /\ Len(s) \in Nat /\ DOMAIN s = 1 .. Len(s)
         /\ s \in Seq({s[i] : i \in 1 .. Len(s)})
<1>1. PICK S : s \in Seq(S)
  BY DEF IsSequence
<1>2. Len(s) \in Nat /\ DOMAIN s = 1 .. Len(s)
  BY <1>1
<1>3. s \in [1 .. Len(s) -> {s[i] : i \in 1 .. Len(s)}]
  BY <1>1, <1>2
<1> QED
  BY <1>2, <1>3, Listed

\* SubSeq is a sequence wherever it is cut.
LEMMA SequenceCut ==
  ASSUME NEW s, NEW m \in Int, NEW n \in Int
  PROVE  IsSequence(SubSeq(s, m, n)) /\ DOMAIN SubSeq(s, m, n) = 1 .. 1 + n - m
<1>1. PICK t : t = SubSeq(s, m, n)
  OBVIOUS
<1>2. t = [i \in 1 .. 1 + n - m |-> s[i + m - 1]]
  BY <1>1
<1>3. t = [i \in 1 .. 1 + n - m |-> t[i]] /\ DOMAIN t = 1 .. 1 + n - m
  BY <1>2
<1>4. IsSequence(t)
  BY <1>3, SequenceBuilt
<1> QED
  BY <1>1, <1>3, <1>4

\* What is defined by recursion up to n is there.
Steps(n, S) == [1 .. n -> [S -> S]]
Follows(g, n, S, x, step) ==
  g \in [0 .. n -> S] /\ g[0] = x /\ \A k \in 1 .. n : g[k] = step[k][g[k - 1]]

LEMMA Recursion ==
  ASSUME NEW n \in Nat, NEW S, NEW x \in S, NEW step \in Steps(n, S)
  PROVE  \E g : Follows(g, n, S, x, step)
<1>0. step \in [1 .. n -> [S -> S]]
  BY DEF Steps
<1> DEFINE Upto(m, g) ==
             g \in [0 .. m -> S] /\ g[0] = x /\ \A k \in 1 .. m : g[k] = step[k][g[k - 1]]
           There == {m \in Nat : m <= n => \E g : Upto(m, g)}
<1>1. 0 \in There
  <2>1. Upto(0, [k \in 0 .. 0 |-> x])
    OBVIOUS
  <2> QED
    BY <2>1
<1>2. ASSUME NEW m \in Nat, m \in There PROVE m + 1 \in There
  <2>1. SUFFICES ASSUME m + 1 <= n PROVE \E g : Upto(m + 1, g)
    OBVIOUS
  <2>2. PICK g : Upto(m, g)
    BY <1>2, <2>1
  <2> DEFINE h == [k \in 0 .. m + 1 |-> IF k <= m THEN g[k] ELSE step[m + 1][g[m]]]
  <2>3. m + 1 \in 1 .. n /\ g[m] \in S /\ step[m + 1][g[m]] \in S
    BY <1>0, <2>1, <2>2
  <2>4. h \in [0 .. m + 1 -> S]
    BY <2>2, <2>3
  <2>5. h[0] = x
    BY <2>2
  <2>6. ASSUME NEW k \in 1 .. m + 1 PROVE h[k] = step[k][h[k - 1]]
    <3>1. CASE k <= m
      <4>1. k \in 1 .. m /\ h[k] = g[k] /\ h[k - 1] = g[k - 1]
        BY <3>1
      <4> QED
        BY <2>2, <4>1
    <3>2. CASE k = m + 1
      <4>1. h[k] = step[k][g[m]] /\ h[k - 1] = g[m]
        BY <3>2
      <4> QED
        BY <4>1
    <3> QED
      BY <3>1, <3>2
  <2> HIDE DEF h
  <2> QED
    BY <2>4, <2>5, <2>6
<1> HIDE DEF There
<1>3. \A m \in Nat : m \in There
  BY <1>1, <1>2, SetInduction
<1>4. n \in There
  BY <1>3
<1> QED
  BY <1>4 DEF There, Follows

LEMMA Throughout ==
  ASSUME NEW n \in Nat, NEW S, NEW u, u[0] \in S,
         \A k \in 1 .. n : u[k - 1] \in S => u[k] \in S
  PROVE  \A k \in 0 .. n : u[k] \in S
<1> DEFINE T == {k \in Nat : k <= n => u[k] \in S}
<1>1. 0 \in T
  OBVIOUS
<1>2. ASSUME NEW k \in Nat, k \in T PROVE k + 1 \in T
  <2>1. SUFFICES ASSUME k + 1 <= n PROVE u[k + 1] \in S
    OBVIOUS
  <2>2. k + 1 \in 1 .. n /\ (k + 1) - 1 = k /\ u[k] \in S
    BY <1>2, <2>1
  <2> QED
    BY <2>2
<1> HIDE DEF T
<1>3. \A k \in Nat : k \in T
  BY <1>1, <1>2, SetInduction
<1> QED
  BY <1>3 DEF T

LEMMA Flattened ==
  ASSUME NEW S, NEW s \in Seq(Seq(S))
  PROVE  FlattenSeq(s) \in Seq(S)
<1>1. CASE Len(s) = 0
  BY <1>1 DEF FlattenSeq
<1>2. CASE Len(s) # 0
  <2>1. PICK n \in Nat : n + 1 = Len(s)
    <3>1. Len(s) - 1 \in Nat /\ (Len(s) - 1) + 1 = Len(s)
      BY <1>2
    <3> QED
      BY <3>1
  <2> DEFINE Defines(u) == u = [i \in 1 .. Len(s) |-> IF i = 1 THEN s[i] ELSE u[i - 1] \o s[i]]
             step == [k \in 1 .. n |-> [b \in Seq(S) |-> b \o s[k + 1]]]
  <2>2. s[1] \in Seq(S) /\ step \in [1 .. n -> [Seq(S) -> Seq(S)]]
    <3>1. \A k \in 1 .. n : k + 1 \in 1 .. Len(s)
      BY <2>1
    <3>2. \A k \in 1 .. Len(s) : s[k] \in Seq(S)
      OBVIOUS
    <3>3. ASSUME NEW k \in 1 .. n, NEW b \in Seq(S) PROVE b \o s[k + 1] \in Seq(S)
      BY <3>1, <3>2, Joined
    <3>4. 1 \in 1 .. Len(s)
      BY <2>1
    <3> QED
      BY <3>2, <3>3, <3>4
  <2> HIDE DEF step
  <2>3. PICK g \in [0 .. n -> Seq(S)] :
          g[0] = s[1] /\ \A k \in 1 .. n : g[k] = step[k][g[k - 1]]
    <3>1. PICK B : B = Seq(S)
      OBVIOUS
    <3>2. s[1] \in B /\ step \in Steps(n, B)
      BY <2>2, <3>1 DEF Steps
    <3>3. \E g : Follows(g, n, B, s[1], step)
      BY ONLY <3>2, n \in Nat, Recursion
    <3> QED
      BY ONLY <3>1, <3>3 DEF Follows
  <2> DEFINE f == [i \in 1 .. Len(s) |-> g[i - 1]]
  <2>4. ASSUME NEW i \in 1 .. Len(s) PROVE f[i] = IF i = 1 THEN s[i] ELSE f[i - 1] \o s[i]
    <3>1. f[i] = g[i - 1] /\ i - 1 \in 0 .. n
      BY <2>1
    <3>2. CASE i = 1
      BY <2>3, <3>1, <3>2
    <3>3. CASE i # 1
      <4>1. PICK k \in 1 .. n : i = k + 1
        <5>1. i - 1 \in 1 .. n /\ i = (i - 1) + 1
          BY <2>1, <3>3
        <5> QED
          BY <5>1
      <4>2. f[i] = g[k] /\ f[i - 1] = g[k - 1] /\ g[k - 1] \in Seq(S)
        BY <2>1, <2>3, <4>1
      <4>3. g[k] = g[k - 1] \o s[k + 1]
        BY <2>3, <4>2 DEF step
      <4> QED
        BY <3>3, <4>1, <4>2, <4>3
    <3> QED
      BY <3>2, <3>3
  <2>5. Defines(f)
    <3>1. f = [i \in 1 .. Len(s) |-> f[i]]
      OBVIOUS
    <3> HIDE DEF f
    <3> QED
      BY <2>4, <3>1
  <2>6. FlattenSeq(s) = (CHOOSE u : Defines(u))[Len(s)]
    BY <1>2 DEF FlattenSeq
  <2> HIDE DEF Defines
  <2>7. Defines(CHOOSE u : Defines(u))
    BY <2>5
  <2>8. PICK u : Defines(u) /\ FlattenSeq(s) = u[Len(s)]
    BY <2>6, <2>7
  <2>9. \A i \in 1 .. Len(s) : u[i] = IF i = 1 THEN s[i] ELSE u[i - 1] \o s[i]
    BY <2>8 DEF Defines
  <2> DEFINE v == [k \in 0 .. n |-> u[k + 1]]
  <2>10. \A k \in 0 .. n : v[k] = u[k + 1]
    OBVIOUS
  <2> HIDE DEF v
  <2>11. v[0] \in Seq(S)
    <3>1. v[0] = u[1] /\ 1 \in 1 .. Len(s)
      BY <2>1, <2>10
    <3> QED
      BY <2>2, <2>9, <3>1
  <2>12. ASSUME NEW k \in 1 .. n, v[k - 1] \in Seq(S) PROVE v[k] \in Seq(S)
    <3>1. /\ k + 1 \in 1 .. Len(s) /\ k + 1 # 1 /\ (k + 1) - 1 = k /\ (k - 1) + 1 = k
          /\ k - 1 \in 0 .. n /\ k \in 0 .. n
      BY <2>1
    <3>2. v[k] = u[k + 1] /\ v[k - 1] = u[k]
      BY <2>10, <3>1
    <3>3. u[k + 1] = u[k] \o s[k + 1]
      BY <2>9, <3>1
    <3>4. s[k + 1] \in Seq(S)
      BY <3>1
    <3> QED
      BY <2>12, <3>2, <3>3, <3>4, Joined
  <2>13. u[Len(s)] = v[n]
    BY <2>1, <2>10
  <2>14. v[n] \in Seq(S)
    <3>1. PICK B : B = Seq(S)
      OBVIOUS
    <3>2. v[0] \in B /\ \A k \in 1 .. n : v[k - 1] \in B => v[k] \in B
      BY <2>11, <2>12, <3>1
    <3>3. \A k \in 0 .. n : v[k] \in B
      BY <3>2, Throughout
    <3> QED
      BY <3>1, <3>3
  <2> QED
    BY <2>8, <2>13, <2>14
<1> QED
  BY <1>1, <1>2

------------------------------------------------------------------------------
(* Record batches: boundaries.                                             *)

Aligned(n) == \E q \in Nat : n = RbAlign * q

LEMMA SizesTyped == RbByte \in Nat \ {0} /\ RbAlign \in Nat \ {0} /\ RbStep \in Nat \ {0}
BY RbAssumption

LEMMA FirstBoundary == Aligned(0)
BY SizesTyped DEF Aligned

LEMMA AlignedSum ==
  ASSUME NEW m, NEW n, Aligned(m), Aligned(n)
  PROVE  Aligned(m + n)
<1>1. PICK a, p, q \in Nat : a = RbAlign /\ m = a * p /\ n = a * q
  BY SizesTyped DEF Aligned
<1>2. a * (p + q) = a * p + a * q /\ p + q \in Nat
  BY ONLY a \in Nat, p \in Nat, q \in Nat
<1> QED
  BY <1>1, <1>2 DEF Aligned

LEMMA OnBoundary ==
  ASSUME NEW n, Aligned(n)
  PROVE  n \in Nat /\ n % RbAlign = 0
<1>1. PICK q \in Nat : n = RbAlign * q
  BY DEF Aligned
<1>2. RbAlign \in Nat \ {0} /\ 0 \in 0 .. RbAlign - 1
  BY SizesTyped
<1>3. (RbAlign * q + 0) % RbAlign = 0
  BY <1>2, DivisionOfUnits
<1>4. RbAlign * q \in Nat /\ RbAlign * q + 0 = RbAlign * q
  BY <1>2
<1> QED
  BY <1>1, <1>3, <1>4

\* align_to: what is padded ends on a boundary.
LEMMA Padded ==
  ASSUME NEW n \in Nat
  PROVE  RbPad(n) \in Nat /\ Aligned(n + RbPad(n))
<1>1. PICK a \in Nat \ {0} : a = RbAlign
  BY SizesTyped
<1>2. PICK q \in Int, r \in 0 .. a - 1 : n = a * q + r /\ q = n \div a /\ r = n % a
  OBVIOUS
<1>3. q \in Nat
  BY <1>2, QuotientNat
<1>4. CASE r = 0
  <2>1. (a * 1 + 0) % a = 0
    <3>1. 0 \in 0 .. a - 1 /\ 1 \in Nat
      OBVIOUS
    <3> QED
      BY <3>1, DivisionOfUnits
  <2>2. (a - r) % a = 0
    BY <1>4, <2>1
  <2>3. RbPad(n) = 0
    BY <1>1, <1>2, <2>2 DEF RbPad
  <2>4. n + RbPad(n) = a * q
    <3>1. PICK p \in Nat : p = a * q
      BY <1>3
    <3> QED
      BY ONLY <1>2, <1>4, <2>3, <3>1
  <2> QED
    BY <1>1, <1>3, <2>3, <2>4 DEF Aligned
<1>5. CASE r # 0
  <2>1. a - r \in 0 .. a - 1
    BY <1>5
  <2>2. (a * 0 + (a - r)) % a = a - r
    BY <2>1, DivisionOfUnits
  <2>3. a * 0 + (a - r) = a - r
    BY <2>1
  <2>4. RbPad(n) = a - r
    BY <1>1, <1>2, <2>2, <2>3 DEF RbPad
  <2>5. n + RbPad(n) = a * (q + 1)
    <3>1. a * (q + 1) = a * q + a
      BY <1>3
    <3>2. PICK p \in Nat : p = a * q
      BY <1>3
    <3> QED
      BY <1>2, <2>4, <3>1, <3>2
  <2>6. PICK w \in Nat : w = q + 1
    BY <1>3
  <2>7. n + RbPad(n) = RbAlign * w
    BY ONLY <1>1, <2>5, <2>6
  <2>8. RbPad(n) \in Nat
    BY ONLY <2>1, <2>4, a \in Nat
  <2> QED
    BY ONLY <2>7, <2>8, w \in Nat DEF Aligned
<1> QED
  BY <1>4, <1>5

\* Where a window may start, its values and its bits lie on boundaries.
LEMMA StepAligned ==
  ASSUME NEW n \in Nat, n % RbStep = 0
  PROVE  Aligned(n) /\ Aligned(n \div RbByte)
<1>1. PICK a, b, s \in Nat \ {0} : a = RbAlign /\ b = RbByte /\ s = RbStep
  BY SizesTyped
<1>2. PICK q \in Nat : n = s * q
  <2>1. PICK q \in Int, r \in 0 .. s - 1 : n = s * q + r /\ q = n \div s /\ r = n % s
    OBVIOUS
  <2>2. r = 0 /\ q \in Nat
    BY <1>1, <2>1, QuotientNat
  <2>3. PICK p \in Nat : p = s * q
    BY <2>2
  <2>4. n = s * q
    BY ONLY <2>1, <2>2, <2>3
  <2> QED
    BY <2>2, <2>4
<1>3. PICK c \in Nat \ {0} : c = b * a
  OBVIOUS
<1>4. PICK k \in Nat : s = c * k
  <2>1. s % c = 0
    BY <1>1, <1>3, RbAssumption
  <2>2. PICK k \in Int, r \in 0 .. c - 1 : s = c * k + r /\ k = s \div c /\ r = s % c
    OBVIOUS
  <2>3. r = 0 /\ k \in Nat
    BY <2>1, <2>2, QuotientNat
  <2>4. PICK p \in Nat : p = c * k
    BY <2>3
  <2>5. s = c * k
    BY ONLY <2>2, <2>3, <2>4
  <2> QED
    BY <2>3, <2>5
<1>5. PICK j \in Nat : j = k * q
  OBVIOUS
<1>6. n = c * j
  BY ONLY <1>2, <1>4, <1>5, c \in Nat, k \in Nat, q \in Nat
<1>7. PICK d \in Nat : d = a * j
  OBVIOUS
<1>8. n = b * d
  BY ONLY <1>3, <1>6, <1>7, a \in Nat, b \in Nat, j \in Nat
<1>9. n = a * (b * j) /\ b * j \in Nat
  BY ONLY <1>3, <1>6, a \in Nat, b \in Nat, j \in Nat
<1>10. n \div b = d
  <2>1. (b * d + 0) \div b = d
    <3>1. 0 \in 0 .. b - 1
      OBVIOUS
    <3> QED
      BY <3>1, DivisionOfUnits
  <2>2. b * d + 0 = b * d
    OBVIOUS
  <2> QED
    BY <1>8, <2>1, <2>2
<1> QED
  BY <1>1, <1>7, <1>9, <1>10 DEF Aligned

------------------------------------------------------------------------------
(* compute_body_layout: every region is a sequence of cells.               *)

IsRegion(r) == IsSequence(r.data) /\ r.absent \in BOOLEAN

LEMMA TableTyped ==
  ASSUME NEW t \in RbTables
  PROVE  /\ Len(t) \in Nat \ {0} /\ DOMAIN t = 1 .. Len(t)
         /\ \A c \in 1 .. Len(t) :
              /\ t[c].kind = "string" => t[c].values \in Seq(Seq(Int))
              /\ Len(t[c].values) = Len(t[1].values) /\ Len(t[c].values) \in Nat
<1>1. /\ Len(t) \in Nat \ {0} /\ DOMAIN t = 1 .. Len(t)
      /\ \A c \in DOMAIN t : /\ t[c].values \in Seq(RbValues(t[c].kind))
                             /\ Len(t[c].values) = Len(t[1].values)
  BY RbAssumption
<1>2. ASSUME NEW c \in 1 .. Len(t), t[c].kind = "string"
      PROVE  t[c].values \in Seq(Seq(Int))
  <2>1. RbValues(t[c].kind) = Seq(Int)
    BY <1>2 DEF RbValues
  <2>2. t[c].values \in Seq(RbValues(t[c].kind))
    BY <1>1
  <2> QED
    BY ONLY <2>1, <2>2
<1>3. ASSUME NEW c \in 1 .. Len(t) PROVE Len(t[c].values) \in Nat
  BY <1>1, Elements
<1> QED
  BY <1>1, <1>2, <1>3

LEMMA OffsetsTyped ==
  ASSUME NEW s \in Seq(Seq(Int))
  PROVE  \A i \in 1 .. Len(s) + 1 : RbOffsets(s)[i] \in Nat
<1> DEFINE Defines(u) == u = [i \in 0 .. Len(s) |-> IF i = 0 THEN 0 ELSE u[i - 1] + Len(s[i])]
           step == [k \in 1 .. Len(s) |-> [b \in Nat |-> b + Len(s[k])]]
<1>1. Len(s) \in Nat /\ \A k \in 1 .. Len(s) : Len(s[k]) \in Nat
  <2>1. \A k \in 1 .. Len(s) : s[k] \in Seq(Int)
    OBVIOUS
  <2> QED
    BY <2>1, Elements
<1>2. step \in Steps(Len(s), Nat)
  BY <1>1 DEF Steps
<1>3. PICK g : Follows(g, Len(s), Nat, 0, step)
  <2>1. 0 \in Nat
    OBVIOUS
  <2> HIDE DEF step
  <2> QED
    BY <1>1, <1>2, <2>1, Recursion
<1>4. Defines(g)
  <2>1. g \in [0 .. Len(s) -> Nat] /\ g[0] = 0
    BY <1>3 DEF Follows
  <2>2. ASSUME NEW k \in 0 .. Len(s), k # 0 PROVE g[k] = g[k - 1] + Len(s[k])
    <3>1. k \in 1 .. Len(s) /\ k - 1 \in 0 .. Len(s) /\ g[k - 1] \in Nat
      <4>1. k \in 1 .. Len(s) /\ k - 1 \in 0 .. Len(s)
        BY ONLY <1>1, <2>2, k \in 0 .. Len(s)
      <4> QED
        BY ONLY <2>1, <4>1
    <3>2. g[k] = step[k][g[k - 1]]
      BY <1>3, <3>1 DEF Follows
    <3> QED
      BY <3>1, <3>2
  <2> HIDE DEF step
  <2> QED
    BY <2>1, <2>2
<1> HIDE DEF step
<1>5. RbOffsets(s) = [i \in 1 .. Len(s) + 1 |-> (CHOOSE u : Defines(u))[i - 1]]
  BY DEF RbOffsets
<1> HIDE DEF Defines
<1>6. Defines(CHOOSE u : Defines(u))
  BY <1>4
<1>7. PICK u : Defines(u) /\ RbOffsets(s) = [i \in 1 .. Len(s) + 1 |-> u[i - 1]]
  BY <1>5, <1>6
<1>8. u[0] \in Nat /\ \A k \in 1 .. Len(s) : u[k] = u[k - 1] + Len(s[k])
  <2>1. \A k \in 0 .. Len(s) : u[k] = IF k = 0 THEN 0 ELSE u[k - 1] + Len(s[k])
    BY <1>7 DEF Defines
  <2>2. 0 \in 0 .. Len(s) /\ \A k \in 1 .. Len(s) : k \in 0 .. Len(s) /\ k # 0
    BY ONLY <1>1
  <2> QED
    BY ONLY <2>1, <2>2
<1>9. \A k \in 0 .. Len(s) : u[k] \in Nat
  <2>1. \A k \in 1 .. Len(s) : u[k - 1] \in Nat => u[k] \in Nat
    BY <1>1, <1>8
  <2> QED
    BY <1>1, <1>8, <2>1, Throughout
<1> QED
  BY <1>1, <1>7, <1>9

LEMMA BitsTyped ==
  ASSUME NEW bits, NEW off \in Nat, NEW len \in Nat
  PROVE  IsSequence(RbWindowBits(bits, off, len))
<1>1. PICK n, first, last \in Int :
        n = RbBytes(len) /\ first = off \div RbByte /\ last = RbBytes(off + len)
  BY SizesTyped DEF RbBytes
<1>2. CASE off % RbByte = 0
  <2>1. RbWindowBits(bits, off, len) = SubSeq(RbPacked(bits), first + 1, first + n)
    BY <1>1, <1>2 DEF RbWindowBits
  <2>2. first + 1 \in Int /\ first + n \in Int
    OBVIOUS
  <2> QED
    BY <2>1, <2>2, SequenceCut
<1>3. CASE off % RbByte # 0
  <2>1. PICK bytes, shift : RbWindowBits(bits, off, len) = RbShifted(bytes, shift, n)
    BY <1>1, <1>3 DEF RbWindowBits
  <2>2. PICK t : t = RbShifted(bytes, shift, n)
    OBVIOUS
  <2>3. t = [i \in 1 .. n |-> t[i]]
    BY <2>2 DEF RbShifted
  <2> QED
    BY <2>1, <2>2, <2>3, SequenceBuilt
<1> QED
  BY <1>2, <1>3

\* The functions of cells that take the place of a sequence of values.
LEMMA CellsTyped ==
  ASSUME NEW n \in Int, NEW s, DOMAIN s = 1 .. n
  PROVE  /\ IsSequence(RbInts(s)) /\ DOMAIN RbInts(s) = 1 .. n
         /\ IsSequence(RbOffsetCells(s)) /\ DOMAIN RbRebase(s) = 1 .. n
<1>1. PICK t, u : t = RbInts(s) /\ u = RbOffsetCells(s)
  OBVIOUS
<1>2. /\ t = [i \in 1 .. n |-> t[i]] /\ DOMAIN t = 1 .. n
      /\ u = [i \in 1 .. n |-> u[i]] /\ DOMAIN RbRebase(s) = 1 .. n
  BY <1>1 DEF RbInts, RbOffsetCells, RbRebase
<1>3. IsSequence(t) /\ IsSequence(u)
  BY <1>2, SequenceBuilt
<1> QED
  BY <1>1, <1>2, <1>3

LEMMA DataTyped ==
  ASSUME NEW t \in RbTables, NEW c \in 1 .. Len(t), NEW off \in Nat, NEW len \in Nat,
         off + len <= Len(t[1].values)
  PROVE  /\ IsRegion(RbNullRegion(t[c], off, len))
         /\ \/ \E r : IsRegion(r) /\ RbDataRegions(t[c], off, len) = <<r>>
            \/ \E r, q : IsRegion(r) /\ IsRegion(q) /\ RbDataRegions(t[c], off, len) = <<r, q>>
<1>1. PICK col : col = t[c]
  OBVIOUS
<1>2. IsRegion(RbNullRegion(col, off, len))
  <2>1. IsSequence(<<>>)
    BY DEF IsSequence
  <2> QED
    BY <2>1, BitsTyped DEF RbNullRegion, RbRegion, IsRegion
<1>3. \A d : IsSequence(d) => IsRegion(RbRegion(d))
  BY DEF IsRegion, RbRegion
<1>4. CASE col.kind = "bool"
  <2>1. RbDataRegions(col, off, len) = <<RbRegion(RbWindowBits(col.values, off, len))>>
    BY <1>4 DEF RbDataRegions
  <2>2. IsSequence(RbWindowBits(col.values, off, len))
    BY BitsTyped
  <2> QED
    BY <1>1, <1>2, <1>3, <2>1, <2>2
<1>5. CASE col.kind = "string"
  <2>1. PICK strings : strings = col.values
    OBVIOUS
  <2>2. strings \in Seq(Seq(Int)) /\ off + len <= Len(strings) /\ Len(strings) \in Nat
    BY <1>1, <1>5, <2>1, TableTyped
  <2>3. PICK offsets : offsets = SubSeq(RbOffsets(strings), off + 1, off + len + 1)
    OBVIOUS
  <2>4. RbDataRegions(col, off, len) =
          << RbRegion(RbOffsetCells(RbRebase(offsets))),
             RbRegion(SubSeq(RbChars(strings), offsets[1] + 1, offsets[len + 1])) >>
    BY <1>5, <2>1, <2>3 DEF RbDataRegions, RbStringRegions
  <2>5. /\ DOMAIN offsets = 1 .. len + 1
        /\ offsets[1] = RbOffsets(strings)[off + 1]
        /\ offsets[len + 1] = RbOffsets(strings)[off + len + 1]
    BY <2>3
  <2>6. offsets[1] \in Nat /\ offsets[len + 1] \in Nat
    <3>1. off + 1 \in 1 .. Len(strings) + 1 /\ off + len + 1 \in 1 .. Len(strings) + 1
      BY <2>2
    <3> QED
      BY <2>2, <2>5, <3>1, OffsetsTyped
  <2>7. IsSequence(RbOffsetCells(RbRebase(offsets)))
    <3>1. len + 1 \in Int
      OBVIOUS
    <3>2. DOMAIN RbRebase(offsets) = 1 .. len + 1
      BY <2>5, <3>1, CellsTyped
    <3> QED
      BY <3>1, <3>2, CellsTyped
  <2>8. IsSequence(SubSeq(RbChars(strings), offsets[1] + 1, offsets[len + 1]))
    BY <2>6, SequenceCut
  <2>9. PICK r, q : /\ r = RbRegion(RbOffsetCells(RbRebase(offsets)))
                    /\ q = RbRegion(SubSeq(RbChars(strings), offsets[1] + 1, offsets[len + 1]))
    OBVIOUS
  <2>10. IsRegion(r) /\ IsRegion(q) /\ RbDataRegions(col, off, len) = <<r, q>>
    BY <1>3, <2>4, <2>7, <2>8, <2>9
  <2> QED
    BY <1>1, <1>2, <2>10
<1>6. CASE col.kind \notin {"bool", "string"}
  <2>1. RbDataRegions(col, off, len) =
          <<RbRegion(RbInts(SubSeq(col.values, off + 1, off + len)))>>
    BY <1>6 DEF RbDataRegions
  <2>2. IsSequence(RbInts(SubSeq(col.values, off + 1, off + len)))
    <3>1. DOMAIN SubSeq(col.values, off + 1, off + len) = 1 .. 1 + (off + len) - (off + 1)
      BY SequenceCut
    <3>2. 1 + (off + len) - (off + 1) \in Int
      OBVIOUS
    <3> QED
      BY <3>1, <3>2, CellsTyped
  <2> QED
    BY <1>1, <1>2, <1>3, <2>1, <2>2
<1> QED
  BY <1>4, <1>5, <1>6

LEMMA RegionsTyped ==
  ASSUME NEW t \in RbTables, NEW off \in Nat, NEW len \in Nat, off + len <= Len(t[1].values)
  PROVE  \E S : RbRegions(t, off, len) \in Seq(S) /\ \A r \in S : IsRegion(r)
<1> DEFINE at(c) == <<RbNullRegion(t[c], off, len)>> \o RbDataRegions(t[c], off, len)
           all == [c \in DOMAIN t |-> at(c)]
           S == UNION {{at(c)[k] : k \in 1 .. Len(at(c))} : c \in 1 .. Len(t)}
<1>1. Len(t) \in Nat /\ DOMAIN t = 1 .. Len(t)
  BY TableTyped
<1>2. ASSUME NEW c \in 1 .. Len(t)
      PROVE  /\ at(c) \in Seq({at(c)[k] : k \in 1 .. Len(at(c))})
             /\ \A k \in 1 .. Len(at(c)) : IsRegion(at(c)[k])
  <2>1. PICK n : n = RbNullRegion(t[c], off, len)
    OBVIOUS
  <2>2. IsRegion(n)
    BY <2>1, DataTyped
  <2>3. /\ IsSequence(at(c))
        /\ \A k \in 1 .. Len(at(c)) : IsRegion(at(c)[k])
    <3>1. CASE \E r : IsRegion(r) /\ RbDataRegions(t[c], off, len) = <<r>>
      <4>1. PICK r : IsRegion(r) /\ RbDataRegions(t[c], off, len) = <<r>>
        BY <3>1
      <4>2. PICK s : s = at(c)
        OBVIOUS
      <4>3. s = <<n>> \o <<r>>
        BY <2>1, <4>1, <4>2
      <4>4. <<n>> \in Seq({n, r}) /\ <<r>> \in Seq({n, r})
        OBVIOUS
      <4>5. s \in Seq({n, r}) /\ Len(s) = 2 /\ s[1] = n /\ s[2] = r
        <5>1. /\ s \in Seq({n, r}) /\ Len(s) = Len(<<n>>) + Len(<<r>>)
              /\ \A k \in 1 .. Len(<<n>>) : s[k] = <<n>>[k]
              /\ \A k \in 1 .. Len(<<r>>) : s[Len(<<n>>) + k] = <<r>>[k]
          BY ONLY <4>3, <4>4, Joined
        <5> QED
          BY ONLY <5>1
      <4>6. IsSequence(s) /\ \A k \in 1 .. Len(s) : IsRegion(s[k])
        BY ONLY <2>2, <4>1, <4>5 DEF IsSequence
      <4> QED
        BY <4>2, <4>6
    <3>2. CASE \E r, q : IsRegion(r) /\ IsRegion(q) /\ RbDataRegions(t[c], off, len) = <<r, q>>
      <4>1. PICK r, q : IsRegion(r) /\ IsRegion(q) /\ RbDataRegions(t[c], off, len) = <<r, q>>
        BY <3>2
      <4>2. PICK s : s = at(c)
        OBVIOUS
      <4>3. s = <<n>> \o <<r, q>>
        BY <2>1, <4>1, <4>2
      <4>4. <<n>> \in Seq({n, r, q}) /\ <<r, q>> \in Seq({n, r, q})
        OBVIOUS
      <4>5. s \in Seq({n, r, q}) /\ Len(s) = 3 /\ s[1] = n /\ s[2] = r /\ s[3] = q
        <5>1. /\ s \in Seq({n, r, q}) /\ Len(s) = Len(<<n>>) + Len(<<r, q>>)
              /\ \A k \in 1 .. Len(<<n>>) : s[k] = <<n>>[k]
              /\ \A k \in 1 .. Len(<<r, q>>) : s[Len(<<n>>) + k] = <<r, q>>[k]
          BY ONLY <4>3, <4>4, Joined
        <5> QED
          BY ONLY <5>1
      <4>6. IsSequence(s) /\ \A k \in 1 .. Len(s) : IsRegion(s[k])
        BY ONLY <2>2, <4>1, <4>5 DEF IsSequence
      <4> QED
        BY <4>2, <4>6
    <3> QED
      BY <3>1, <3>2, DataTyped
  <2> HIDE DEF at
  <2> QED
    BY <2>3, SequenceParts
<1> HIDE DEF at
<1>3. all \in [1 .. Len(t) -> Seq(S)]
  <2>1. ASSUME NEW c \in 1 .. Len(t) PROVE at(c) \in Seq(S)
    <3>1. PICK R : R = {at(c)[k] : k \in 1 .. Len(at(c))}
      OBVIOUS
    <3>2. R \subseteq S
      BY <3>1
    <3>3. at(c) \in Seq(R)
      BY <1>2, <3>1
    <3> HIDE DEF S
    <3> QED
      BY <3>2, <3>3
  <2> HIDE DEF S
  <2> QED
    BY <1>1, <2>1
<1>4. \A r \in S : IsRegion(r)
  BY <1>2
<1>5. RbRegions(t, off, len) = FlattenSeq(all)
  BY DEF RbRegions, at
<1> HIDE DEF S, all
<1>6. all \in Seq(Seq(S))
  BY <1>1, <1>3, Listed
<1>7. FlattenSeq(all) \in Seq(S)
  BY <1>6, Flattened
<1> QED
  BY <1>4, <1>5, <1>7

------------------------------------------------------------------------------
(* encode_record_batch: every buffer of a body starts on a boundary.       *)

Spans == [off : Nat, len : Nat]

\* Where a buffer lies; of a compressed one, what is needed to undo it is there.
Lying(cells, b, zip) ==
  /\ Aligned(b.off)
  /\ zip /\ b.len # 0 =>
       /\ b.off + 2 <= Len(cells) /\ IsSequence(cells[b.off + 2][2])
       /\ cells[b.off + 1][2] = Len(cells[b.off + 2][2])

Bodies(C, zip) ==
  {b \in [cells : Seq(C), buffers : Seq(Spans)] :
     Aligned(Len(b.cells)) /\ \A k \in 1 .. Len(b.buffers) : Lying(b.cells, b.buffers[k], zip)}

Zipped(r, zip) ==
  zip => /\ ~r.absent
         /\ \/ r.data = <<>>
            \/ \E d : IsSequence(d) /\ r.data = << <<"length", Len(d)>>, <<"zip", d>> >>

LEMMA WireTyped ==
  ASSUME NEW r, IsRegion(r), NEW zip \in BOOLEAN
  PROVE  IsRegion(RbWire(r, zip)) /\ Zipped(RbWire(r, zip), zip)
<1>1. CASE ~zip
  BY <1>1 DEF RbWire, Zipped
<1>2. CASE zip
  <2>1. PICK d : d = r.data /\ IsSequence(d)
    BY DEF IsRegion
  <2>2. RbWire(r, zip) = [data |-> RbCompress(d), absent |-> FALSE]
    BY <1>2, <2>1 DEF RbWire
  <2>3. CASE d = <<>>
    <3>1. RbCompress(d) = <<>> /\ IsSequence(<<>>)
      BY <2>3 DEF RbCompress, IsSequence
    <3> QED
      BY <2>2, <3>1 DEF IsRegion, Zipped
  <2>4. CASE d # <<>>
    <3>1. RbCompress(d) = << <<"length", Len(d)>>, <<"zip", d>> >>
      BY <2>4 DEF RbCompress
    <3>2. PICK a, b : a = <<"length", Len(d)>> /\ b = <<"zip", d>>
      OBVIOUS
    <3>3. <<a, b>> \in Seq({a, b})
      OBVIOUS
    <3>4. IsSequence(RbCompress(d))
      BY <3>1, <3>2, <3>3 DEF IsSequence
    <3> QED
      BY <2>1, <2>2, <3>1, <3>4 DEF IsRegion, Zipped
  <2> QED
    BY <2>3, <2>4
<1> QED
  BY <1>1, <1>2

LEMMA Filled ==
  ASSUME NEW C, <<"pad">> \in C, NEW n \in Nat
  PROVE  RbFill(n) \in Seq(C) /\ Len(RbFill(n)) = n
<1>1. RbFill(n) \in [1 .. n -> C]
  BY DEF RbFill
<1> QED
  BY <1>1, Listed

LEMMA Appended ==
  ASSUME NEW S, NEW s \in Seq(S), NEW x \in S
  PROVE  /\ Append(s, x) \in Seq(S) /\ Len(Append(s, x)) = Len(s) + 1
         /\ Append(s, x)[Len(s) + 1] = x
         /\ \A k \in 1 .. Len(s) : Append(s, x)[k] = s[k]
OBVIOUS

LEMMA AppendKept ==
  ASSUME NEW C, <<"pad">> \in C, NEW zip \in BOOLEAN, NEW body \in Bodies(C, zip),
         NEW r, IsRegion(r), r.data \in Seq(C), Zipped(r, zip)
  PROVE  RbAppend(body, r) \in Bodies(C, zip)
<1>1. PICK cells \in Seq(C), buffers \in Seq(Spans) :
        /\ body.cells = cells /\ body.buffers = buffers /\ Aligned(Len(cells))
        /\ \A k \in 1 .. Len(buffers) : Lying(cells, buffers[k], zip)
  BY DEF Bodies
<1>2. PICK data \in Seq(C), n \in Nat : data = r.data /\ n = Len(data)
  OBVIOUS
<1>3. PICK m \in Nat, fill \in Seq(C) :
        m = RbPad(n) /\ fill = RbFill(m) /\ Len(fill) = m /\ Aligned(n + m)
  BY Padded, Filled
<1>4. PICK l \in Nat : l = Len(cells)
  OBVIOUS
<1>5. PICK w \in Seq(C) :
        /\ w = cells \o data \o fill /\ Len(w) = l + (n + m)
        /\ \A k \in 1 .. l : w[k] = cells[k]
        /\ \A k \in 1 .. n : w[l + k] = data[k]
  <2>1. PICK v \in Seq(C) :
          /\ v = cells \o data /\ Len(v) = l + n
          /\ \A k \in 1 .. l : v[k] = cells[k]
          /\ \A k \in 1 .. n : v[l + k] = data[k]
    <3>1. PICK v : v = cells \o data
      OBVIOUS
    <3>2. /\ v \in Seq(C) /\ Len(v) = Len(cells) + Len(data)
          /\ \A k \in 1 .. Len(cells) : v[k] = cells[k]
          /\ \A k \in 1 .. Len(data) : v[Len(cells) + k] = data[k]
      BY ONLY <3>1, cells \in Seq(C), data \in Seq(C), Joined
    <3> QED
      BY ONLY <1>2, <1>4, <3>1, <3>2
  <2>2. PICK w \in Seq(C) :
          w = v \o fill /\ Len(w) = (l + n) + m /\ \A k \in 1 .. l + n : w[k] = v[k]
    <3>1. PICK w : w = v \o fill
      OBVIOUS
    <3>2. /\ w \in Seq(C) /\ Len(w) = Len(v) + Len(fill)
          /\ \A k \in 1 .. Len(v) : w[k] = v[k]
      BY ONLY <3>1, v \in Seq(C), fill \in Seq(C), Joined
    <3> QED
      BY ONLY <1>3, <2>1, <3>1, <3>2
  <2>3. /\ Len(w) = l + (n + m)
        /\ \A k \in 1 .. l : k \in 1 .. l + n
        /\ \A k \in 1 .. n : l + k \in 1 .. l + n
    BY <2>2
  <2> QED
    BY ONLY <2>1, <2>2, <2>3
<1>6. Aligned(Len(w))
  BY <1>1, <1>3, <1>4, <1>5, AlignedSum
<1>7. PICK s \in Spans : s = [off |-> IF r.absent THEN 0 ELSE l, len |-> n]
  <2>1. PICK o \in Nat : o = IF r.absent THEN 0 ELSE l
    BY DEF IsRegion
  <2>2. [off |-> o, len |-> n] \in Spans
    BY DEF Spans
  <2> QED
    BY <2>1, <2>2
<1>8. Lying(w, s, zip)
  <2>1. Aligned(s.off)
    BY <1>1, <1>4, <1>7, FirstBoundary
  <2>2. ASSUME zip, s.len # 0
        PROVE  /\ s.off + 2 <= Len(w) /\ IsSequence(w[s.off + 2][2])
               /\ w[s.off + 1][2] = Len(w[s.off + 2][2])
    <3>1. s.off = l /\ s.len = n
      BY <1>7, <2>2 DEF Zipped
    <3>2. data # <<>>
      BY <1>2, <2>2, <3>1
    <3>3. PICK d : IsSequence(d) /\ data = << <<"length", Len(d)>>, <<"zip", d>> >>
      BY <1>2, <2>2, <3>2 DEF Zipped
    <3>4. n = 2 /\ data[1][2] = Len(d) /\ data[2][2] = d
      BY <1>2, <3>3
    <3>5. w[l + 1] = data[1] /\ w[l + 2] = data[2] /\ l + 2 <= Len(w)
      <4>1. 1 \in 1 .. n /\ 2 \in 1 .. n /\ l + 2 <= l + (n + m)
        BY ONLY <3>4, l \in Nat, n \in Nat, m \in Nat
      <4> QED
        BY ONLY <1>5, <3>4, <4>1
    <3> QED
      BY ONLY <3>1, <3>3, <3>4, <3>5
  <2> QED
    BY <2>1, <2>2 DEF Lying
<1>9. ASSUME NEW k \in 1 .. Len(buffers) PROVE Lying(w, buffers[k], zip)
  <2>1. PICK b \in Spans : b = buffers[k]
    OBVIOUS
  <2>2. Lying(cells, b, zip) /\ b.off \in Nat
    BY <1>1, <2>1 DEF Spans
  <2>3. ASSUME zip, b.len # 0
        PROVE  /\ b.off + 2 <= Len(w) /\ IsSequence(w[b.off + 2][2])
               /\ w[b.off + 1][2] = Len(w[b.off + 2][2])
    <3>1. /\ b.off + 2 <= l /\ IsSequence(cells[b.off + 2][2])
          /\ cells[b.off + 1][2] = Len(cells[b.off + 2][2])
      BY <1>4, <2>2, <2>3 DEF Lying
    <3>2. b.off + 1 \in 1 .. l /\ b.off + 2 \in 1 .. l /\ b.off + 2 <= Len(w)
      <4>1. PICK o \in Nat : o = b.off
        BY <2>2
      <4>2. o + 2 <= l
        BY ONLY <3>1, <4>1
      <4>3. o + 1 \in 1 .. l /\ o + 2 \in 1 .. l /\ o + 2 <= l + (n + m)
        BY ONLY <4>2, o \in Nat, l \in Nat, n \in Nat, m \in Nat
      <4> QED
        BY ONLY <1>5, <4>1, <4>3
    <3>3. w[b.off + 1] = cells[b.off + 1] /\ w[b.off + 2] = cells[b.off + 2]
      BY <1>5, <3>2
    <3> QED
      BY ONLY <3>1, <3>2, <3>3
  <2> QED
    BY <2>1, <2>2, <2>3 DEF Lying
<1>10. PICK bs \in Seq(Spans) :
         /\ bs = Append(buffers, s) /\ Len(bs) = Len(buffers) + 1
         /\ bs[Len(buffers) + 1] = s /\ \A k \in 1 .. Len(buffers) : bs[k] = buffers[k]
  <2>1. PICK bs : bs = Append(buffers, s)
    OBVIOUS
  <2>2. /\ bs \in Seq(Spans) /\ Len(bs) = Len(buffers) + 1 /\ bs[Len(buffers) + 1] = s
        /\ \A k \in 1 .. Len(buffers) : bs[k] = buffers[k]
    BY ONLY <2>1, buffers \in Seq(Spans), s \in Spans, Appended
  <2> QED
    BY ONLY <2>1, <2>2
<1>11. \A k \in 1 .. Len(bs) : Lying(w, bs[k], zip)
  <2>1. ASSUME NEW k \in 1 .. Len(bs) PROVE k \in 1 .. Len(buffers) \/ k = Len(buffers) + 1
    BY <1>10
  <2> QED
    BY <1>8, <1>9, <1>10, <2>1
<1>12. RbAppend(body, r) = [cells |-> w, buffers |-> bs]
  BY <1>1, <1>2, <1>3, <1>4, <1>5, <1>7, <1>10 DEF RbAppend
<1> QED
  BY <1>6, <1>11, <1>12 DEF Bodies

LEMMA BodyLaid ==
  ASSUME NEW S, NEW regions \in Seq(S), \A r \in S : IsRegion(r), NEW zip \in BOOLEAN
  PROVE  \E C : RbBody(regions, zip) \in Bodies(C, zip)
<1> DEFINE wire(k) == RbWire(regions[k], zip)
           cellsOf(k) == {wire(k).data[i] : i \in 1 .. Len(wire(k).data)}
           C == {<<"pad">>} \cup UNION {cellsOf(k) : k \in 1 .. Len(regions)}
           B == Bodies(C, zip)
           none == [cells |-> <<>>, buffers |-> <<>>]
           step == [k \in 1 .. Len(regions) |-> [b \in B |-> RbAppend(b, wire(k))]]
           Defines(u) == u = [k \in 0 .. Len(regions) |->
                                IF k = 0 THEN none ELSE RbAppend(u[k - 1], wire(k))]
<1>1. PICK n \in Nat : n = Len(regions)
  BY Elements
<1>2. ASSUME NEW k \in 1 .. n
      PROVE  IsRegion(wire(k)) /\ Zipped(wire(k), zip) /\ wire(k).data \in Seq(C)
  <2>1. regions[k] \in S
    BY <1>1, <1>2
  <2>2. IsRegion(wire(k)) /\ Zipped(wire(k), zip)
    BY <2>1, WireTyped
  <2> HIDE DEF wire
  <2>3. wire(k).data \in Seq(cellsOf(k))
    BY <2>2, SequenceParts DEF IsRegion
  <2>4. cellsOf(k) \subseteq C
    BY <1>1
  <2> HIDE DEF C, cellsOf
  <2>5. wire(k).data \in Seq(C)
    BY <2>3, <2>4
  <2> QED
    BY <2>2, <2>5
<1>3. <<"pad">> \in C
  OBVIOUS
<1> HIDE DEF C
<1>4. none \in B
  <2>1. <<>> \in Seq(C) /\ <<>> \in Seq(Spans) /\ Len(<<>>) = 0
    OBVIOUS
  <2> QED
    BY <2>1, FirstBoundary DEF Bodies
<1>5. ASSUME NEW k \in 1 .. n, NEW b \in B PROVE RbAppend(b, wire(k)) \in B
  BY <1>2, <1>3, AppendKept
<1> HIDE DEF wire, B, none
<1>6. step \in Steps(n, B)
  BY <1>1, <1>5 DEF Steps
<1>7. PICK g : Follows(g, n, B, none, step)
  <2> HIDE DEF step
  <2> QED
    BY <1>4, <1>6, Recursion
<1>8. Defines(g)
  <2>1. g \in [0 .. n -> B] /\ g[0] = none
    BY <1>7 DEF Follows
  <2>2. ASSUME NEW k \in 0 .. n, k # 0 PROVE g[k] = RbAppend(g[k - 1], wire(k))
    <3>1. k \in 1 .. n /\ k - 1 \in 0 .. n
      BY <2>2
    <3>2. g[k - 1] \in B
      BY <2>1, <3>1
    <3>3. g[k] = step[k][g[k - 1]]
      BY <1>7, <3>1 DEF Follows
    <3> QED
      BY <1>1, <3>1, <3>2, <3>3
  <2> HIDE DEF step
  <2> QED
    BY <1>1, <2>1, <2>2
<1>9. RbBody(regions, zip) = (CHOOSE u : Defines(u))[n]
  BY <1>1 DEF RbBody, none, wire
<1> HIDE DEF Defines
<1>10. Defines(CHOOSE u : Defines(u))
  BY <1>8
<1>11. PICK u : Defines(u) /\ RbBody(regions, zip) = u[n]
  BY <1>9, <1>10
<1>12. u[0] = none /\ \A k \in 1 .. n : u[k] = RbAppend(u[k - 1], wire(k))
  <2>1. \A k \in 0 .. n : u[k] = IF k = 0 THEN none ELSE RbAppend(u[k - 1], wire(k))
    BY <1>1, <1>11 DEF Defines
  <2>2. 0 \in 0 .. n /\ \A k \in 1 .. n : k \in 0 .. n /\ k # 0
    BY ONLY n \in Nat
  <2> QED
    BY ONLY <2>1, <2>2
<1>13. \A k \in 1 .. n : u[k - 1] \in B => u[k] \in B
  BY <1>5, <1>12
<1>14. \A k \in 0 .. n : u[k] \in B
  BY <1>4, <1>12, <1>13, Throughout
<1> QED
  BY <1>11, <1>14 DEF B

------------------------------------------------------------------------------
(* decompress_ipc_body: the buffers start on boundaries again.             *)

Inflations(D) ==
  {z \in [body : Seq(D), at : {0}, buffers : Seq(Spans)] :
     Aligned(Len(z.body)) /\ \A k \in 1 .. Len(z.buffers) : Aligned(z.buffers[k].off)}

FrameOK(f, zip) ==
  /\ Aligned(f.at) /\ f.buffers \in Seq(Spans)
  /\ \A k \in 1 .. Len(f.buffers) : Lying(f.body, f.buffers[k], zip)
BatchOK(b) ==
  /\ Aligned(b.at) /\ b.buffers \in Seq(Spans)
  /\ \A k \in 1 .. Len(b.buffers) : Aligned(b.buffers[k].off)

LEMMA InflateKept ==
  ASSUME NEW D, <<"pad">> \in D, NEW z \in Inflations(D), NEW f, NEW b \in Spans,
         Lying(f.body, b, TRUE), b.len # 0 => f.body[b.off + 2][2] \in Seq(D)
  PROVE  RbInflated(f, z, b) \in Inflations(D)
<1>1. PICK body \in Seq(D), buffers \in Seq(Spans) :
        /\ z = [body |-> body, at |-> 0, buffers |-> buffers] /\ Aligned(Len(body))
        /\ \A k \in 1 .. Len(buffers) : Aligned(buffers[k].off)
  <2>1. PICK body, buffers : body = z.body /\ buffers = z.buffers
    OBVIOUS
  <2>2. /\ body \in Seq(D) /\ buffers \in Seq(Spans)
        /\ z = [body |-> body, at |-> 0, buffers |-> buffers] /\ Aligned(Len(body))
        /\ \A k \in 1 .. Len(buffers) : Aligned(buffers[k].off)
    BY <2>1 DEF Inflations
  <2> QED
    BY <2>2
<1>2. PICK l \in Nat : l = Len(body)
  OBVIOUS
<1>3. ASSUME NEW n \in Nat
      PROVE  \E bs \in Seq(Spans) :
               /\ bs = Append(buffers, [off |-> l, len |-> n])
               /\ \A k \in 1 .. Len(bs) : Aligned(bs[k].off)
  <2>1. PICK s \in Spans : s = [off |-> l, len |-> n]
    BY DEF Spans
  <2>2. PICK bs : bs = Append(buffers, s)
    OBVIOUS
  <2>3. /\ bs \in Seq(Spans) /\ Len(bs) = Len(buffers) + 1 /\ bs[Len(buffers) + 1] = s
        /\ \A k \in 1 .. Len(buffers) : bs[k] = buffers[k]
    BY ONLY <2>2, buffers \in Seq(Spans), s \in Spans, Appended
  <2>4. Aligned(s.off)
    BY <1>1, <1>2, <2>1
  <2>5. ASSUME NEW k \in 1 .. Len(bs) PROVE k \in 1 .. Len(buffers) \/ k = Len(buffers) + 1
    BY <2>3
  <2>6. \A k \in 1 .. Len(bs) : Aligned(bs[k].off)
    BY <1>1, <2>3, <2>4, <2>5
  <2> QED
    BY <2>1, <2>2, <2>3, <2>6
<1>4. ASSUME NEW w \in Seq(D), Aligned(Len(w)), NEW bs \in Seq(Spans),
             \A k \in 1 .. Len(bs) : Aligned(bs[k].off)
      PROVE  [body |-> w, at |-> 0, buffers |-> bs] \in Inflations(D)
  <2>1. PICK t : t = [body |-> w, at |-> 0, buffers |-> bs]
    OBVIOUS
  <2>2. /\ t \in [body : Seq(D), at : {0}, buffers : Seq(Spans)]
        /\ t.body = w /\ t.buffers = bs
    BY <2>1
  <2>3. t \in Inflations(D)
    BY ONLY <1>4, <2>2 DEF Inflations
  <2> QED
    BY <2>1, <2>3
<1>5. CASE b.len = 0
  <2>1. PICK bs \in Seq(Spans) : /\ bs = Append(buffers, [off |-> l, len |-> 0])
                                 /\ \A k \in 1 .. Len(bs) : Aligned(bs[k].off)
    BY <1>3
  <2>2. RbInflated(f, z, b) = [body |-> body, at |-> 0, buffers |-> bs]
    BY <1>1, <1>2, <1>5, <2>1 DEF RbInflated
  <2> QED
    BY <1>1, <1>4, <2>1, <2>2
<1>6. CASE b.len # 0
  <2>1. PICK data \in Seq(D), n \in Nat :
          /\ data = f.body[b.off + 2][2] /\ n = f.body[b.off + 1][2] /\ n = Len(data)
    <3>1. PICK data, n : data = f.body[b.off + 2][2] /\ n = f.body[b.off + 1][2]
      OBVIOUS
    <3>2. data \in Seq(D) /\ n = Len(data)
      BY <1>6, <3>1 DEF Lying
    <3>3. n \in Nat
      BY ONLY <3>2, Elements
    <3> QED
      BY ONLY <3>1, <3>2, <3>3
  <2>2. PICK m \in Nat, fill \in Seq(D) :
          m = RbGap(l + n) /\ fill = RbFill(m) /\ Len(fill) = m /\ Aligned((l + n) + m)
    <3>1. PICK m : m = RbPad(l + n)
      OBVIOUS
    <3>2. l + n \in Nat
      BY ONLY l \in Nat, n \in Nat
    <3>3. m \in Nat /\ Aligned((l + n) + m)
      BY ONLY <3>1, <3>2, Padded
    <3>4. RbFill(m) \in Seq(D) /\ Len(RbFill(m)) = m
      BY <3>3, Filled
    <3> QED
      BY <3>1, <3>3, <3>4 DEF RbGap
  <2>3. PICK bs \in Seq(Spans) : /\ bs = Append(buffers, [off |-> l, len |-> n])
                                 /\ \A k \in 1 .. Len(bs) : Aligned(bs[k].off)
    BY <1>3
  <2>4. PICK v \in Seq(D) : v = body \o data /\ Len(v) = l + n
    <3>1. PICK v : v = body \o data
      OBVIOUS
    <3>2. v \in Seq(D) /\ Len(v) = Len(body) + Len(data)
      BY ONLY <3>1, body \in Seq(D), data \in Seq(D), Concatenated
    <3> QED
      BY ONLY <1>2, <2>1, <3>1, <3>2
  <2>5. PICK w \in Seq(D) : w = v \o fill /\ Len(w) = (l + n) + m
    <3>1. PICK w : w = v \o fill
      OBVIOUS
    <3>2. w \in Seq(D) /\ Len(w) = Len(v) + Len(fill)
      BY ONLY <3>1, v \in Seq(D), fill \in Seq(D), Concatenated
    <3> QED
      BY ONLY <2>2, <2>4, <3>1, <3>2
  <2>6. RbInflated(f, z, b) = [body |-> w, at |-> 0, buffers |-> bs]
    BY <1>1, <1>2, <1>6, <2>1, <2>2, <2>3, <2>4, <2>5 DEF RbInflated
  <2> QED
    BY <1>4, <2>2, <2>3, <2>5, <2>6
<1> QED
  BY <1>5, <1>6

LEMMA InflatedLaid ==
  ASSUME NEW f, FrameOK(f, TRUE)
  PROVE  BatchOK(RbDecompressed(f))
<1> DEFINE data(k) == f.body[f.buffers[k].off + 2][2]
           cellsOf(k) == {data(k)[i] : i \in 1 .. Len(data(k))}
           D == {<<"pad">>} \cup UNION {cellsOf(k) : k \in 1 .. Len(f.buffers)}
           B == Inflations(D)
           none == [body |-> <<>>, at |-> 0, buffers |-> <<>>]
           step == [k \in 1 .. Len(f.buffers) |-> [z \in B |-> RbInflated(f, z, f.buffers[k])]]
           Defines(u) == u = [k \in 0 .. Len(f.buffers) |->
                                IF k = 0 THEN none ELSE RbInflated(f, u[k - 1], f.buffers[k])]
<1>1. PICK n \in Nat : /\ n = Len(f.buffers)
                       /\ \A k \in 1 .. n : f.buffers[k] \in Spans /\ Lying(f.body, f.buffers[k], TRUE)
  BY Elements DEF FrameOK
<1>2. ASSUME NEW k \in 1 .. n, f.buffers[k].len # 0 PROVE data(k) \in Seq(D)
  <2>1. IsSequence(data(k))
    BY <1>1, <1>2 DEF Lying
  <2> HIDE DEF data
  <2>2. data(k) \in Seq(cellsOf(k))
    BY <2>1, SequenceParts
  <2>3. cellsOf(k) \subseteq D
    BY <1>1
  <2> HIDE DEF D, cellsOf
  <2> QED
    BY <2>2, <2>3
<1>3. <<"pad">> \in D
  OBVIOUS
<1> HIDE DEF D
<1>4. none \in B
  <2>1. <<>> \in Seq(D) /\ <<>> \in Seq(Spans) /\ Len(<<>>) = 0
    OBVIOUS
  <2> QED
    BY <2>1, FirstBoundary DEF Inflations
<1>5. ASSUME NEW k \in 1 .. n, NEW z \in B PROVE RbInflated(f, z, f.buffers[k]) \in B
  BY <1>1, <1>2, <1>3, InflateKept
<1> HIDE DEF data, B, none
<1>6. step \in Steps(n, B)
  BY <1>1, <1>5 DEF Steps
<1>7. PICK g : Follows(g, n, B, none, step)
  <2> HIDE DEF step
  <2> QED
    BY <1>4, <1>6, Recursion
<1>8. Defines(g)
  <2>1. g \in [0 .. n -> B] /\ g[0] = none
    BY <1>7 DEF Follows
  <2>2. ASSUME NEW k \in 0 .. n, k # 0 PROVE g[k] = RbInflated(f, g[k - 1], f.buffers[k])
    <3>1. k \in 1 .. n /\ k - 1 \in 0 .. n
      BY <2>2
    <3>2. g[k - 1] \in B
      BY <2>1, <3>1
    <3>3. g[k] = step[k][g[k - 1]]
      BY <1>7, <3>1 DEF Follows
    <3> QED
      BY <1>1, <3>1, <3>2, <3>3
  <2> HIDE DEF step
  <2> QED
    BY <1>1, <2>1, <2>2
<1>9. RbDecompressed(f) = (CHOOSE u : Defines(u))[n]
  BY <1>1 DEF RbDecompressed, none
<1> HIDE DEF Defines
<1>10. Defines(CHOOSE u : Defines(u))
  BY <1>8
<1>11. PICK u : Defines(u) /\ RbDecompressed(f) = u[n]
  BY <1>9, <1>10
<1>12. u[0] = none /\ \A k \in 1 .. n : u[k] = RbInflated(f, u[k - 1], f.buffers[k])
  <2>1. \A k \in 0 .. n : u[k] = IF k = 0 THEN none ELSE RbInflated(f, u[k - 1], f.buffers[k])
    BY <1>1, <1>11 DEF Defines
  <2>2. 0 \in 0 .. n /\ \A k \in 1 .. n : k \in 0 .. n /\ k # 0
    BY ONLY n \in Nat
  <2> QED
    BY ONLY <2>1, <2>2
<1>13. \A k \in 1 .. n : u[k - 1] \in B => u[k] \in B
  BY <1>5, <1>12
<1>14. \A k \in 0 .. n : u[k] \in B
  BY <1>4, <1>12, <1>13, Throughout
<1>15. RbDecompressed(f) \in Inflations(D)
  BY <1>11, <1>14 DEF B
<1> QED
  BY <1>15, FirstBoundary DEF Inflations, BatchOK

------------------------------------------------------------------------------
(* Record batches: the invariant.                                          *)

\* A decoded column, whose mask and buffers start on boundaries.
ColumnOK(x) ==
  \E c, m, d :
    /\ x = [col |-> c, mask |-> m, data |-> d] /\ 1 \in DOMAIN d
    /\ (\A i \in DOMAIN m : Aligned(m[i].at)) /\ (\A i \in DOMAIN d : Aligned(d[i].at))

RbInv ==
  /\ rbTable \in RbTables /\ rbZip \in BOOLEAN /\ rbIndex \in Nat
  /\ rbView.off \in Nat /\ rbView.len \in Nat
  /\ rbView.off + rbView.len <= Len(rbTable[1].values)
  /\ rbPhase = "sent" => FrameOK(rbFrame, rbZip)
  /\ rbPhase = "decode" => BatchOK(rbBatch)
  /\ rbPhase \in {"encode", "sent", "decode", "read"} =>
       IsSequence(rbCols) /\ \A k \in DOMAIN rbCols : ColumnOK(rbCols[k])
  /\ rbPhase = "cut" => RbViewsAligned

LEMMA RecordsStart == RbInit => RbInv
<1> SUFFICES ASSUME RbInit PROVE RbInv
  OBVIOUS
<1>1. /\ rbTable \in RbTables /\ rbZip \in BOOLEAN /\ rbIndex = 0 /\ rbPhase = "encode"
      /\ rbCols = <<>>
  BY DEF RbInit
<1>2. PICK rows \in Nat : rows = Len(rbTable[1].values)
  BY <1>1, TableTyped
<1>3. PICK o, n \in 0 .. rows : rbView = [off |-> o, len |-> n]
  BY <1>2 DEF RbInit
<1>4. o + n <= rows
  BY <1>2, <1>3 DEF RbInit
<1>5. IsSequence(<<>>)
  BY DEF IsSequence
<1> QED
  BY <1>1, <1>2, <1>3, <1>4, <1>5 DEF RbInv

LEMMA BatchEncodeStep ==
  ASSUME RbInv, RbEncode
  PROVE  RbInv'
<1>1. /\ rbPhase = "encode" /\ rbPhase' \in {"refused", "sent"}
      /\ UNCHANGED <<rbTable, rbView, rbZip, rbIndex, rbCols>>
  BY DEF RbEncode, rbInput
<1>2. ASSUME rbPhase' = "sent" PROVE FrameOK(rbFrame', rbZip)
  <2>0. PICK body : body = RbBody(RbRegions(rbTable, rbView.off, rbView.len), rbZip)
    OBVIOUS
  <2>1. PICK meta \in 1 .. RbAlign :
          /\ rbFrame'.buffers = body.buffers /\ rbFrame'.body = body.cells
          /\ rbFrame'.at = meta + RbPad(meta)
    BY <1>2, <2>0 DEF RbEncode
  <2>2. PICK S, regions : /\ regions = RbRegions(rbTable, rbView.off, rbView.len)
                          /\ regions \in Seq(S) /\ \A r \in S : IsRegion(r)
    BY RegionsTyped DEF RbInv
  <2>3. PICK C : body \in Bodies(C, rbZip)
    BY <2>0, <2>2, BodyLaid DEF RbInv
  <2>4. Aligned(rbFrame'.at)
    <3>1. meta \in Nat
      BY SizesTyped
    <3> QED
      BY <2>1, <3>1, Padded
  <2>5. /\ body.buffers \in Seq(Spans)
        /\ \A k \in 1 .. Len(body.buffers) : Lying(body.cells, body.buffers[k], rbZip)
    BY <2>3 DEF Bodies
  <2> QED
    BY <2>1, <2>4, <2>5 DEF FrameOK
<1> QED
  BY <1>1, <1>2 DEF RbInv

LEMMA ReceiveStep ==
  ASSUME RbInv, RbReceive
  PROVE  RbInv'
<1>1. /\ rbPhase = "sent" /\ rbPhase' \in {"refused", "decode"}
      /\ UNCHANGED <<rbTable, rbView, rbZip, rbIndex, rbCols>>
  BY DEF RbReceive, rbInput
<1>2. ASSUME rbPhase' = "decode" PROVE BatchOK(rbBatch')
  <2>1. FrameOK(rbFrame, rbZip) /\ rbZip \in BOOLEAN
    BY <1>1 DEF RbInv
  <2>2. CASE rbZip
    <3>1. rbBatch' = RbDecompressed(rbFrame) /\ FrameOK(rbFrame, TRUE)
      BY <1>2, <2>1, <2>2 DEF RbReceive
    <3> QED
      BY <3>1, InflatedLaid
  <2>3. CASE ~rbZip
    <3>1. rbBatch' = [body |-> rbFrame.body, at |-> rbFrame.at, buffers |-> rbFrame.buffers]
      BY <1>2, <2>3 DEF RbReceive
    <3> QED
      BY <2>1, <3>1 DEF FrameOK, BatchOK, Lying
  <2> QED
    BY <2>1, <2>2, <2>3
<1> QED
  BY <1>1, <1>2 DEF RbInv

\* A view of a buffer inside the body starts on a boundary.
LEMMA ViewAligned ==
  ASSUME BatchOK(rbBatch), NEW i \in Nat, i < Len(rbBatch.buffers)
  PROVE  Aligned(RbBuffer(i).at)
<1>1. /\ Len(rbBatch.buffers) \in Nat /\ Aligned(rbBatch.at)
      /\ \A k \in 1 .. Len(rbBatch.buffers) : Aligned(rbBatch.buffers[k].off)
  BY Elements DEF BatchOK
<1>2. i + 1 \in 1 .. Len(rbBatch.buffers)
  BY <1>1
<1>3. RbBuffer(i).at = rbBatch.at + rbBatch.buffers[i + 1].off
  BY DEF RbBuffer
<1> QED
  BY <1>1, <1>2, <1>3, AlignedSum

LEMMA MaskAligned ==
  ASSUME BatchOK(rbBatch), rbIndex \in Nat, NEW col, NEW node, RbMaskOK(col, node)
  PROVE  \A i \in DOMAIN RbMask(col, node) : Aligned(RbMask(col, node)[i].at)
<1>1. PICK b : \/ RbMask(col, node) = <<>>
               \/ RbMask(col, node) = <<b>> /\ Aligned(b.at)
  <2>1. CASE ~col.nullable
    BY <2>1 DEF RbMask, RbNone
  <2>2. CASE col.nullable /\ (node.nulls = 0 \/ rbBatch.buffers[rbIndex + 1].len = 0)
    <3>1. PICK b : b = [cells |-> RbPacked([i \in 1 .. node.len |-> TRUE]), at |-> 0]
      OBVIOUS
    <3>2. RbMask(col, node) = <<b>>
      BY <2>2, <3>1 DEF RbMask
    <3>3. Aligned(b.at)
      BY <3>1, FirstBoundary
    <3> QED
      BY <3>2, <3>3
  <2>3. CASE col.nullable /\ ~(node.nulls = 0 \/ rbBatch.buffers[rbIndex + 1].len = 0)
    <3>1. RbMask(col, node) = <<RbBuffer(rbIndex)>> /\ rbIndex < Len(rbBatch.buffers)
      BY <2>3 DEF RbMask, RbMaskOK
    <3> QED
      BY <3>1, ViewAligned
  <2> QED
    BY <2>1, <2>2, <2>3
<1> QED
  BY <1>1

LEMMA ColumnStep ==
  ASSUME RbInv, RbColumn
  PROVE  RbInv'
<1>1. PICK c, col, node, first, taken :
        /\ c = rbCol + 1 /\ col = rbTable[c] /\ node = rbFrame.nodes[c]
        /\ first = rbIndex + (IF RbMaskTaken(col, node.len) THEN 1 ELSE 0)
        /\ taken = IF col.kind = "string" THEN 2 ELSE 1
  OBVIOUS
<1>2. /\ rbPhase = "decode" /\ BatchOK(rbBatch) /\ IsSequence(rbCols)
      /\ rbIndex \in Nat /\ \A k \in DOMAIN rbCols : ColumnOK(rbCols[k])
      /\ UNCHANGED <<rbTable, rbView, rbZip, rbFrame, rbBatch>>
  BY DEF RbColumn, RbInv, rbInput
<1>3. first \in Nat /\ taken \in 1 .. 2
  BY <1>1, <1>2
<1>4. CASE rbPhase' = "refused" /\ UNCHANGED <<rbIndex, rbCols>>
  BY <1>2, <1>4 DEF RbInv
<1>5. CASE rbIndex' = first + RbDataBuffers(col.kind) /\ UNCHANGED <<rbCols, rbPhase>>
  <2>1. rbIndex' \in Nat
    BY <1>3, <1>5 DEF RbDataBuffers
  <2> QED
    BY <1>2, <1>5, <2>1 DEF RbInv
<1>6. CASE /\ RbMaskOK(col, node) /\ \A i \in first .. first + taken - 1 : RbInside(i)
           /\ rbIndex' = first + taken /\ UNCHANGED rbPhase
           /\ rbCols' = Append(rbCols,
                [col |-> c, mask |-> RbMask(col, node),
                 data |-> [k \in 1 .. taken |-> RbBuffer(first + k - 1)]])
  <2>1. rbIndex' \in Nat
    BY <1>3, <1>6
  <2>2. PICK m, d, x : /\ m = RbMask(col, node)
                       /\ d = [k \in 1 .. taken |-> RbBuffer(first + k - 1)]
                       /\ x = [col |-> c, mask |-> m, data |-> d]
    OBVIOUS
  <2>3. \A i \in DOMAIN m : Aligned(m[i].at)
    BY <1>2, <1>6, <2>2, MaskAligned
  <2>4. ASSUME NEW i \in DOMAIN d PROVE Aligned(d[i].at)
    <3>1. i \in 1 .. taken /\ d[i] = RbBuffer(first + i - 1)
      BY <2>2
    <3>2. first + i - 1 \in Nat /\ first + i - 1 \in first .. first + taken - 1
      BY <1>3, <3>1
    <3>3. first + i - 1 < Len(rbBatch.buffers)
      BY <1>6, <3>2 DEF RbInside
    <3> QED
      BY <1>2, <3>1, <3>2, <3>3, ViewAligned
  <2>5. 1 \in DOMAIN d
    BY <1>3, <2>2
  <2>6. ColumnOK(x)
    BY <2>2, <2>3, <2>4, <2>5 DEF ColumnOK
  <2>7. PICK S : rbCols \in Seq(S)
    BY <1>2 DEF IsSequence
  <2>8. PICK T : T = S \cup {x}
    OBVIOUS
  <2>9. rbCols \in Seq(T) /\ x \in T /\ DOMAIN rbCols = 1 .. Len(rbCols) /\ Len(rbCols) \in Nat
    BY <2>7, <2>8
  <2>10. PICK cols : cols = Append(rbCols, x)
    OBVIOUS
  <2>11. /\ cols \in Seq(T) /\ Len(cols) = Len(rbCols) + 1 /\ cols[Len(rbCols) + 1] = x
         /\ \A k \in 1 .. Len(rbCols) : cols[k] = rbCols[k]
    BY ONLY <2>9, <2>10, Appended
  <2>12. ASSUME NEW k \in DOMAIN cols PROVE ColumnOK(cols[k])
    <3>1. k \in 1 .. Len(rbCols) \/ k = Len(rbCols) + 1
      BY <2>9, <2>11
    <3> QED
      BY <1>2, <2>6, <2>9, <2>11, <3>1
  <2>13. rbCols' = cols
    BY <1>6, <2>2, <2>10
  <2>14. IsSequence(rbCols') /\ \A k \in DOMAIN rbCols' : ColumnOK(rbCols'[k])
    BY <2>11, <2>12, <2>13 DEF IsSequence
  <2> QED
    BY <1>2, <1>6, <2>1, <2>14 DEF RbInv
<1> QED
  BY <1>1, <1>4, <1>5, <1>6 DEF RbColumn

\* What window_array makes of a column, apart from the characters of a string.
PartOK(p, x, kind) ==
  /\ p.col = x.col /\ \A i \in DOMAIN p.mask : Aligned(p.mask[i].at)
  /\ Aligned(p.data[1].at) /\ (kind # "string" => DOMAIN p.data = {1})

LEMMA PartAligned ==
  ASSUME NEW x, ColumnOK(x), NEW kind, NEW off \in Nat, off % RbStep = 0, NEW len \in Nat
  PROVE  PartOK(RbArrayPart(x, kind, off, len), x, kind)
<1>1. PICK c, m, d :
        /\ x = [col |-> c, mask |-> m, data |-> d] /\ Aligned(d[1].at)
        /\ \A i \in DOMAIN m : Aligned(m[i].at)
  BY DEF ColumnOK
<1>2. Aligned(off) /\ Aligned(off \div RbByte)
  BY StepAligned
<1>3. \A b : Aligned(b.at) =>
        Aligned(RbPart(b, off, len).at) /\ Aligned(RbBitsPart(b, off, len).at)
  BY <1>2, AlignedSum DEF RbPart, RbBitsPart
<1>4. PICK p : p = RbArrayPart(x, kind, off, len)
  OBVIOUS
<1>5. p.col = c /\ p.mask = [k \in DOMAIN m |-> RbBitsPart(m[k], off, len)]
  BY <1>1, <1>4 DEF RbArrayPart
<1>6. \A i \in DOMAIN p.mask : Aligned(p.mask[i].at)
  BY <1>1, <1>3, <1>5
<1>7. CASE kind = "bool"
  <2>1. PICK b : b = RbBitsPart(d[1], off, len)
    OBVIOUS
  <2>2. p.data = <<b>>
    BY <1>1, <1>4, <1>7, <2>1 DEF RbArrayPart
  <2>3. Aligned(b.at)
    BY <1>1, <1>3, <2>1
  <2> QED
    BY <1>1, <1>4, <1>5, <1>6, <1>7, <2>2, <2>3 DEF PartOK
<1>8. CASE kind = "string"
  <2>1. PICK offsets : offsets = [i \in 1 .. len + 1 |-> d[1].cells[off + i][2]]
    OBVIOUS
  <2>2. PICK a, b : /\ a = IF off = 0 THEN RbPart(d[1], 0, len + 1)
                           ELSE [cells |-> RbOffsetCells(RbRebase(offsets)), at |-> 0]
                    /\ b = RbPart(d[2], offsets[1], offsets[len + 1] - offsets[1])
    OBVIOUS
  <2>3. p.data = RbStringPart(d, off, len)
    BY <1>1, <1>4, <1>8 DEF RbArrayPart
  <2>4. RbStringPart(d, off, len) = <<a, b>>
    BY <2>1, <2>2 DEF RbStringPart
  <2>5. Aligned(a.at)
    <3>1. CASE off = 0
      <4>1. a.at = d[1].at + 0
        BY <2>2, <3>1 DEF RbPart
      <4> QED
        BY <1>1, <4>1, FirstBoundary, AlignedSum
    <3>2. CASE off # 0
      BY <2>2, <3>2, FirstBoundary
    <3> QED
      BY <3>1, <3>2
  <2>6. p.data[1] = a
    BY <2>3, <2>4
  <2> QED
    BY <1>1, <1>4, <1>5, <1>6, <1>8, <2>5, <2>6 DEF PartOK
<1>9. CASE kind \notin {"bool", "string"}
  <2>1. PICK b : b = RbPart(d[1], off, len)
    OBVIOUS
  <2>2. p.data = <<b>>
    BY <1>1, <1>4, <1>9, <2>1 DEF RbArrayPart
  <2>3. Aligned(b.at)
    BY <1>1, <1>3, <2>1
  <2> QED
    BY <1>1, <1>4, <1>5, <1>6, <1>9, <2>2, <2>3 DEF PartOK
<1> QED
  BY <1>7, <1>8, <1>9

LEMMA WindowStep ==
  ASSUME RbInv, RbWindow
  PROVE  RbInv'
<1>1. /\ rbPhase = "read" /\ rbPhase' = "cut"
      /\ UNCHANGED <<rbTable, rbView, rbZip, rbIndex>>
      /\ \A k \in DOMAIN rbCols : ColumnOK(rbCols[k])
  BY DEF RbWindow, RbInv, rbInput
<1>2. PICK off \in Nat, len \in Nat :
        /\ off % RbStep = 0
        /\ rbCols' = [k \in DOMAIN rbCols |->
             RbArrayPart(rbCols[k], rbTable[rbCols[k].col].kind, off, len)]
  BY DEF RbWindow
<1>3. RbViewsAligned'
  <2>1. SUFFICES ASSUME NEW k \in DOMAIN rbCols', NEW col, col = rbCols'[k],
                        NEW b \in ToSet(col.mask) \cup
                          {col.data[i] : i \in IF rbTable[col.col].kind = "string" THEN {1}
                                               ELSE DOMAIN col.data}
                 PROVE  b.at % RbAlign = 0
    BY <1>1 DEF RbViewsAligned
  <2>2. PICK x, kind : /\ x = rbCols[k] /\ ColumnOK(x) /\ kind = rbTable[x.col].kind
                       /\ col = RbArrayPart(x, kind, off, len)
    BY <1>1, <1>2, <2>1
  <2>3. /\ col.col = x.col /\ (\A i \in DOMAIN col.mask : Aligned(col.mask[i].at))
        /\ Aligned(col.data[1].at) /\ (kind # "string" => DOMAIN col.data = {1})
    <3>1. PartOK(RbArrayPart(x, kind, off, len), x, kind)
      BY <1>2, <2>2, PartAligned
    <3>2. PartOK(col, x, kind)
      BY <2>2, <3>1
    <3> QED
      BY ONLY <3>2 DEF PartOK
  <2>4. Aligned(b.at)
    <3>1. CASE b \in ToSet(col.mask)
      BY <2>3, <3>1 DEF ToSet
    <3>2. CASE b \notin ToSet(col.mask)
      BY <2>1, <2>2, <2>3, <3>2
    <3> QED
      BY <3>1, <3>2
  <2> QED
    BY <2>4, OnBoundary
<1> QED
  BY <1>1, <1>3 DEF RbInv

LEMMA ColumnsAligned == RbInv => RbViewsAligned
<1> SUFFICES ASSUME RbInv, rbPhase = "read" PROVE RbViewsAligned
  BY DEF RbInv, RbViewsAligned
<1>1. ASSUME NEW k \in DOMAIN rbCols,
             NEW b \in ToSet(rbCols[k].mask) \cup {rbCols[k].data[i] : i \in DOMAIN rbCols[k].data}
      PROVE  b.at % RbAlign = 0
  <2>1. PICK m, d : /\ rbCols[k].mask = m /\ rbCols[k].data = d
                    /\ (\A i \in DOMAIN m : Aligned(m[i].at)) /\ (\A i \in DOMAIN d : Aligned(d[i].at))
    BY DEF RbInv, ColumnOK
  <2>2. Aligned(b.at)
    BY <2>1 DEF ToSet
  <2> QED
    BY <2>2, OnBoundary
<1> QED
  BY <1>1 DEF RbViewsAligned

\* Whatever a table holds and wherever its window starts, compressed or not,
\* every view of a decoded table lies on a boundary, and so do the views of a
\* window of it (compute_body_layout, decompress_ipc_body, window_table).
THEOREM ViewsAlignedHolds == RbSpec => []RbViewsAligned
<1>1. RbInit => RbInv
  BY RecordsStart
<1>2. RbInv /\ [RbNext]_rbvars => RbInv'
  <2>1. SUFFICES ASSUME RbInv, [RbNext]_rbvars PROVE RbInv'
    OBVIOUS
  <2>2. CASE RbEncode
    BY <2>1, <2>2, BatchEncodeStep
  <2>3. CASE RbReceive
    BY <2>1, <2>3, ReceiveStep
  <2>4. CASE RbColumn
    BY <2>1, <2>4, ColumnStep
  <2>5. CASE RbDecoded
    BY <2>1, <2>5 DEF RbDecoded, RbInv, rbInput
  <2>6. CASE RbWindow
    BY <2>1, <2>6, WindowStep
  <2>7. CASE UNCHANGED rbvars
    BY <2>1, <2>7 DEF RbInv, RbViewsAligned, rbvars, rbInput
  <2> QED
    BY <2>1, <2>2, <2>3, <2>4, <2>5, <2>6, <2>7 DEF RbNext
<1>3. RbInv => RbViewsAligned
  BY ColumnsAligned
<1> QED
  BY <1>1, <1>2, <1>3, PTL DEF RbSpec
==============================================================================
