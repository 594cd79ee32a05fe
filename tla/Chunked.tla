-------------------------------- MODULE Chunked --------------------------------
(***************************************************************************)
(* A directory of chunk files: write_chunk, write_all and par_write_all of *)
(* ChunkedTableWriter, whose calls reserve indices off one atomic counter  *)
(* and whose worker threads write a file each, and load_batched and        *)
(* par_load_batched of ChunkedTableReader, which list the directory once   *)
(* and read the files with worker threads.  Writers, readers and a crash   *)
(* interleave.  A table is its number; a file is written in two steps, so  *)
(* that a failure, a crash or a reader may meet a part of one.             *)
(***************************************************************************)
EXTENDS Integers, Sequences, SequencesExt, FiniteSets

CONSTANTS
  ChFormats,     \* "framed": Arrow and Parquet refuse a part of a file; "csv" does not
  ChCallers,     \* threads that may be in par_write_all together
  ChThreads,     \* worker threads of a call
  ChMaxTables,   \* bound: tables handed to the writer
  ChMaxFaults    \* bound: failures of the file system, and crashes

ASSUME ChAssumption ==
  /\ ChFormats \subseteq {"framed", "csv"}
  /\ ChThreads \in Nat \ {0} /\ ChMaxTables \in Nat /\ ChMaxFaults \in Nat

VARIABLES
  chCounter,   \* next_index
  chDir,       \* the files, by index: their table, and whether they are whole
  chTables,    \* tables handed to the writer so far
  chCalls,     \* the call each caller is in
  chAcked,     \* the calls of this writer that returned Ok: their tables and paths
  chLoad,      \* the load that is under way, or how it returned
  chFaults

chWriter == <<chCounter, chTables, chCalls, chAcked>>
chvars == <<chDir, chFaults, chWriter, chLoad>>

ChWorkers == 1 .. ChThreads

------------------------------------------------------------------------------
(* Worker threads, of a writing and of a reading call.  A pool is           *)
(*   [n, next, at, job, done]: the jobs, the cursor, and for each worker    *)
(* what it is doing, at which job, and the jobs it has done.                *)

ChPool(n, threads) ==
  [n |-> n, next |-> 0,
   at |-> [w \in ChWorkers |-> IF w <= threads THEN "pull" ELSE "ended"],
   job |-> [w \in ChWorkers |-> 0], done |-> [w \in ChWorkers |-> <<>>]]

\* cursor.fetch_add(1): the next job, or the end of the loop.
ChPull(p, w) ==
  IF p.next >= p.n THEN [p EXCEPT !.at[w] = "ended"]
  ELSE [p EXCEPT !.next = @ + 1, !.at[w] = "work", !.job[w] = p.next]

\* The worker has done its job, with a result; or it has failed and ends,
\* while the others go on.
ChDone(p, w, result) ==
  [p EXCEPT !.at[w] = "pull", !.done[w] = Append(@, [i |-> p.job[w], v |-> result])]
ChFail(p, w) == [p EXCEPT !.at[w] = "failed"]

ChEnded(p) == \A w \in ChWorkers : p.at[w] \in {"ended", "failed"}
ChFailed(p) == \E w \in ChWorkers : p.at[w] = "failed"

\* Mutant: what the workers did, in the order they are joined.
ChJoinOrder(p) == LET all == FlattenSeq(p.done) IN [j \in DOMAIN all |-> all[j].v]

\* What the workers did, joined and sorted by job.
ChAll(p) == UNION {Range(p.done[w]) : w \in ChWorkers}
ChResults(p) ==
  [j \in 1 .. Cardinality(ChAll(p)) |-> (CHOOSE r \in ChAll(p) : r.i = j - 1).v]

------------------------------------------------------------------------------
(* The writer.                                                             *)

ChNone == [kind |-> "none"]

ChInit ==
  /\ chCounter = 0 /\ chDir = <<>> /\ chTables = 0
  /\ chCalls = [c \in ChCallers |-> ChNone]
  /\ chAcked = {} /\ chFaults = 0
  /\ chLoad = ChNone

\* write_chunk and write_all of n tables: &mut self, so no other call is open.
\* A worker stands for the loop, and indices are reserved one at a time.
ChWriteAll(c, n) ==
  /\ \A d \in ChCallers : chCalls[d] = ChNone
  /\ chCalls' = [chCalls EXCEPT ![c] =
       [kind |-> "seq", first |-> chTables + 1, start |-> 0, pool |-> ChPool(n, 1)]]
  /\ UNCHANGED chCounter

\* fetch_add: the counter after n indices are reserved.
ChReserved(n) == chCounter + n

\* par_write_all of n tables: &self, so other such calls may be open.
ChParWriteAll(c, n) ==
  /\ chCalls[c] = ChNone
  /\ \A d \in ChCallers : chCalls[d].kind # "seq"
  /\ chCalls' = [chCalls EXCEPT ![c] =
       [kind |-> "par", first |-> chTables + 1, start |-> chCounter,
        pool |-> ChPool(n, IF ChThreads < n THEN ChThreads ELSE n)]]
  /\ chCounter' = ChReserved(n)

ChCall ==
  /\ \E c \in ChCallers, n \in 1 .. ChMaxTables - chTables :
       /\ ChWriteAll(c, n) \/ ChParWriteAll(c, n)
       /\ chTables' = chTables + n
  /\ UNCHANGED <<chDir, chAcked, chLoad, chFaults>>

ChSetPool(c, p) == chCalls' = [chCalls EXCEPT ![c].pool = p]
ChJob(c, w) == chCalls[c].pool.job[w]

\* The index a worker's file has.
ChIndex(c, w) == chCalls[c].start + ChJob(c, w)

\* A worker goes on with the next table, if there is one: File::create, an empty
\* file where there may have been another.  A sequential call reserves the index
\* only now.
ChNextChunk(c, w) ==
  LET call == chCalls[c]
      p == ChPull(call.pool, w)
      start == IF call.kind = "seq" THEN chCounter - p.job[w] ELSE call.start
      idx == start + p.job[w]
  IN /\ call # ChNone /\ call.pool.at[w] = "pull"
     /\ IF p.at[w] = "ended" THEN ChSetPool(c, p) /\ UNCHANGED <<chDir, chCounter, chFaults>>
        ELSE /\ chCounter' = IF call.kind = "seq" THEN ChReserved(1) ELSE chCounter
             /\ \/ /\ chDir' = [i \in DOMAIN chDir \cup {idx} |->
                                 IF i = idx THEN [t |-> call.first + p.job[w], whole |-> FALSE]
                                 ELSE chDir[i]]
                   /\ chCalls' = [chCalls EXCEPT ![c].pool = p, ![c].start = start]
                   /\ UNCHANGED chFaults
                \/ /\ chFaults < ChMaxFaults /\ chFaults' = chFaults + 1
                   /\ ChSetPool(c, ChFail(p, w))
                   /\ UNCHANGED chDir
     /\ UNCHANGED <<chTables, chAcked, chLoad>>

\* write_chunk_at: the rest of the file; a failure leaves a part of it.
ChEncode(c, w) ==
  LET p == chCalls[c].pool IN
    /\ chCalls[c] # ChNone /\ p.at[w] = "work"
    /\ \/ /\ chDir' = [chDir EXCEPT ![ChIndex(c, w)] =
                        [t |-> chCalls[c].first + ChJob(c, w), whole |-> TRUE]]
          /\ ChSetPool(c, ChDone(p, w, ChIndex(c, w)))
          /\ UNCHANGED chFaults
       \/ /\ chFaults < ChMaxFaults /\ chFaults' = chFaults + 1
          /\ ChSetPool(c, ChFail(p, w))
          /\ UNCHANGED chDir
    /\ UNCHANGED <<chCounter, chTables, chAcked, chLoad>>

\* The workers are joined: the paths, or the first error.
ChReturn(c) ==
  LET p == chCalls[c].pool IN
    /\ chCalls[c] # ChNone /\ ChEnded(p)
    /\ chCalls' = [chCalls EXCEPT ![c] = ChNone]
    /\ chAcked' = IF ChFailed(p) THEN chAcked
                  ELSE chAcked \cup {[first |-> chCalls[c].first, paths |-> ChResults(p)]}
    /\ UNCHANGED <<chCounter, chDir, chTables, chLoad, chFaults>>

\* The process dies, and another makes a writer of the same directory: its
\* indices begin at 0 again, and the files there are replaced as it goes.
ChRestart ==
  /\ chFaults < ChMaxFaults /\ chFaults' = chFaults + 1
  /\ chCounter' = 0 /\ chCalls' = [c \in ChCallers |-> ChNone]
  /\ chAcked' = {} /\ chLoad' = ChNone
  /\ UNCHANGED <<chDir, chTables>>

------------------------------------------------------------------------------
(* The reader.                                                             *)

\* open: the indices there are, sorted.
ChListed(indices) ==
  [k \in 1 .. Cardinality(indices) |->
     CHOOSE i \in indices : Cardinality({h \in indices : h < i}) = k - 1]

\* par_load_batched has workers; load_batched, one after the other, is one worker.
ChOpen(threads) ==
  LET n == Cardinality(DOMAIN chDir) IN
    /\ chLoad.kind # "loading"
    /\ chLoad' = [kind |-> "loading", seen |-> chAcked,
                  paths |-> ChListed(DOMAIN chDir),
                  pool |-> ChPool(n, IF threads < n THEN threads ELSE n)]
    /\ UNCHANGED <<chDir, chFaults, chWriter>>

\* A worker takes the next path, and read_chunk yields the table of a whole file.
\* A part of a file is refused where a footer is missing; of a CSV file it is a
\* table of fewer rows, written -t.
ChRead(w) ==
  LET p == ChPull(chLoad.pool, w)
      file == chDir[chLoad.paths[p.job[w] + 1]]
      read == IF p.at[w] = "ended" THEN {p}
              ELSE IF file.whole THEN {ChDone(p, w, file.t)}
              ELSE {IF f = "csv" THEN ChDone(p, w, -file.t) ELSE ChFail(p, w) : f \in ChFormats}
  IN /\ chLoad.kind = "loading" /\ chLoad.pool.at[w] = "pull"
     /\ \E q \in read : chLoad' = [chLoad EXCEPT !.pool = q]
     /\ UNCHANGED <<chDir, chFaults, chWriter>>

\* The batches of the SuperTable, or the first error.
ChLoaded ==
  /\ chLoad.kind = "loading" /\ ChEnded(chLoad.pool)
  /\ chLoad' = IF ChFailed(chLoad.pool) THEN [kind |-> "err"]
               ELSE [kind |-> "ok", seen |-> chLoad.seen, batches |-> ChResults(chLoad.pool)]
  /\ UNCHANGED <<chDir, chFaults, chWriter>>

ChNext ==
  \/ ChCall \/ ChRestart \/ ChLoaded
  \/ \E c \in ChCallers :
       \/ ChReturn(c)
       \/ \E w \in ChWorkers : ChNextChunk(c, w) \/ ChEncode(c, w)
  \/ \E t \in ChWorkers : ChOpen(t)
  \/ \E w \in ChWorkers : ChRead(w)

ChSpec == ChInit /\ [][ChNext]_chvars

------------------------------------------------------------------------------
(* Properties                                                              *)

\* What a call that returned Ok promised: its k-th path is the file of its k-th
\* table, whole, and a load that is opened afterwards and returns Ok has these
\* tables whole and one behind the other - whatever calls ran beside it, failed
\* or died, and however many threads wrote and read ("in write order": the
\* headers of chunked_table_writer.rs and chunked_table_reader.rs).
ChAckedInOrder ==
  /\ \A a \in chAcked : \A k \in DOMAIN a.paths :
       chDir[a.paths[k]] = [t |-> a.first + k - 1, whole |-> TRUE]
  /\ chLoad.kind = "ok" =>
       \A a \in chLoad.seen : \E j \in 0 .. Len(chLoad.batches) - Len(a.paths) :
         \A k \in DOMAIN a.paths : chLoad.batches[j + k] = a.first + k - 1
==============================================================================
