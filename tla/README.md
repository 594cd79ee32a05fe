# Lightstream in TLA+

A verification development for Lightstream (`src/rust`), the Rust library that
moves Arrow tables over files, sockets, WebSockets, HTTP, QUIC and pipes. The
modules here model the parts of the library where order, failure, partial
reads or shared memory decide whether it is right; TLC checks them on small
instances and TLAPS proves the main results for every instance.

Paths below are relative to `src/rust/src/models/` unless they start with
`src/`.

## 1. The system and its parts

| Component | State it keeps | Operations | What is hard about it | What makes it right |
|---|---|---|---|---|
| **Parallel Lightstream transport** (`writers/parallel/lightstream.rs`, `readers/parallel/lightstream.rs`) | writer: senders, tasks, `next`; reader: one channel and one task per connection, `cursor`, `closed` | `connect`, `route` (below `send_*`), `finish`, drop; `accept`, `poll_next`, drop; the two kinds of task | 2N tasks, bounded channels, sockets, accept order, failures and cancellation at any await | global order under `Ordered`, order per connection otherwise, a clean end is complete, no deadlock under back pressure, both ends terminate |
| **Stream arena** (`streams/stream_arena.rs`) | an `Arc` of the backing, `write_pos`, `capacity`; windows held by tables anywhere | `spare_uninit`+`advance`, `extend_from_slice`, `align`, `window`, `ensure_capacity`, `recycle_if_free`, `recycle_or_reset` | unsafe writes next to live views, views dropped on other threads, the end of the backing | a live window never changes; one allocation suffices in steady state |
| **Table stream decoder** (`decoders/ipc/table_stream_decoder.rs`, `decode_header` in `decoders/ipc/mod.rs`) | accumulation buffer, `eof`, `BatchState`, `Phase` and its fields, arena, codec (fields, dictionaries, cached view) | `poll_next_keyed` | resumes at any byte; overread; the arena is replaced between header and body; the stream may end anywhere | batches in order, once, from the right bytes; the end only at the end |
| **Parallel table transports** (`{writers,readers}/parallel/{tcp,quic,http}.rs`) | as the first row, over Arrow IPC | `connect`/`open`, `write_table`, `finish`; `accept`, `poll_next`, `read_all_tables`, drop; the two kinds of task | pairs streams by accept order; a shared HTTP/2 window; QUIC streams that appear when used; dropped calls | order, no table lost behind an Ok, no deadlock |
| **Lightstream session** (`codecs/lightstream.rs`, `writers/lightstream.rs`, `readers/lightstream.rs`, `protocol/`) | registry, TLV header and payload in progress | `register_*`, `send*`, `poll_next` | partial reads, cancelled writes, limits, narrow integers | frames decode as what was sent, or an error |
| **IPC encoder and writers** (`encoders/ipc/`, `writers/ipc/`, `codecs/ipc.rs`, `serialise/ipc.rs`) | schema state, written dictionaries, frame queue, file offsets | `write`, `register_dictionary`, `finish`, `poll_next` | state advanced before the step that may fail; footers | every output is a stream a reader accepts |
| **IPC readers** (`readers/ipc/`, `mmap.rs`) | block index, shared file and arena under a mutex, row windows | `read_block`, iteration | arena shared by callers, windows over views | rows once and in order |
| **Sinks** (`sinks/`) | encode buffer, frame in progress and its position | `poll_ready`, `start_send`, `poll_flush`, `poll_close` | partial writes, errors, close while a frame is pending | the bytes of every accepted table, whole and in order |
| **WebSocket** (`streams/websocket.rs`, `frames/websocket.rs`, `transports/websocket.rs`) | frame state of the reader, the writer half shared under a mutex | `poll_read`, `poll_next`, control frames | pongs through the shared writer; eof inside frames | payload bytes in order; each half writes whole frames; reading ends |
| **Byte streams and transport adapters** (`streams/{tcp,uds,async_read,disk,...}.rs`, `readers/*.rs`, `writers/*.rs`, `transports/`) | an arena or a buffer each | `poll_next`, `connect`, `write_table` | call order on the arena | as the arena |
| **Chunked readers and writers** (`readers/chunked/`, `writers/chunked/`) | current file, rows left | `next_chunk`, rotation | chunk boundaries | rows once and in order |
| **io_uring** (`io_uring/`) | a thread that owns the ring, channels to it | read, write, close | hand-over between threads | as the byte streams |
| **CSV, JSON, Parquet, TLV codecs** | parser state over chunks | push, decode, encode | records cut by chunks, numeric edges | round trips |
| **Record batch encoder and parser** (`encoders/ipc/record_batch.rs`, `decoders/ipc/parser.rs`, `readers/ipc/window.rs`, `src/rust/src/compression/ipc.rs`) | an index into the buffers, dictionaries | `encode_record_batch`, `decode_record_batch`, `window_table` | buffers found by counting; windows inside bytes and strings; buffers moved by decompression | what was sent, in aligned views |
| **Generated flatbuffers, traits** | none | - | - | - |
| **Python bindings** (`src/python/src`) | listener threads, runtime handle | open, accept, write, close | shutdown | - |

How they interact. A *writer* encodes tables into IPC frames (encoder), wraps
them in TLV frames where messages are mixed in (Lightstream codec) and writes
them through a sink or a socket. A *reader* polls an `AsyncRead`, either through
the table stream decoder, which reads bodies straight into a stream arena and
hands out windows of it as columns, or through the Lightstream reader. The
parallel transports run one such pair per connection on a task of its own, with
a bounded channel between task and caller at each end. Windows travel inside
tables to whatever thread the application uses, and their drop is what lets an
arena be reused: the only shared memory in the library.

## 2. Modules

| Module | Models | Kind |
|---|---|---|
| `OrderedDelivery` | what `SortBehaviour::Ordered` promises | abstract specification |
| `ParallelLightstream` | the parallel Lightstream writer, its tasks, the sockets, the reader's tasks and merge | component, refines `OrderedDelivery` |
| `MCParallelLightstream` | instances | model checking |
| `ParallelLightstreamProofs` | type correctness and what a step does to the frames on their way; order, refinement and completeness | proofs |
| `StreamArena` | the arena as operators on a record, and its most general client | component |
| `TableDelivery` | what a reader of an IPC stream may rely on | abstract specification |
| `TableStreamDecoder` | `poll_next_keyed` over `StreamArena` | component, composes the arena, refines `TableDelivery` |
| `MCTableStreamDecoder` | streams to decode | model checking |
| `TableStreamDecoderProofs` | safety of the arena's windows and of the decoder, and that it implements `TableDelivery` | proofs |
| `ProofLemmas` | induction over the numbers, stated with sets; facts about sequences | proofs |
| `LightstreamSession` | one direction of a Lightstream connection: registry, IPC codec state, TLV framing, reader | component |
| `MCLightstreamSession` | types, tables and messages to send | model checking |
| `LightstreamSessionProofs` | framing, isolation of types, the end | proofs |
| `Sinks` | `GTableSink` over both protocols and `TLVSink`, down to the parts of a write | component |
| `SinksProofs` | the sinks' safety | proofs |
| `WebSocket` | the client's handshake, `WsRead` and `WsWrite` on one socket, as client and as server | component |
| `WebSocketProofs` | what the caller reads and what the peer receives of a WebSocket | proofs |
| `ParallelTables` | the parallel table transports over TCP, HTTP/2 and QUIC | component |
| `ParallelTablesProofs` | order and completeness of the parallel table transports | proofs |
| `Csv` | `encode_supertable_csv`, `decode_csv_bytes`, `CsvReader` | component, pure algorithms |
| `Parquet` | `write_parquet_table`, `read_parquet_impl`, the hybrid encoding | component, pure algorithms |
| `Files` | `TableStreamWriter` and `SyncTableWriter` for the File protocol, `FileTableReader` with its windows | component |
| `RecordBatch` | the body of a record batch: `compute_body_layout`, `encode_record_batch`, `decode_record_batch`, `decompress_ipc_body`, `window_table` | component, pure algorithms |
| `Chunked` | `ChunkedTableWriter` and `ChunkedTableReader` on one directory | component |
| `StorageProofs` | `Chunked`: pools of worker threads, whose file is whose, and what a load finds; `Files`: a file reads back; `RecordBatch`: views are aligned | proofs |
| `MCWebSocket` | what the peer sends | model checking |
| `MCTransports` | `LightstreamSession`, `Sinks` and `WebSocket` side by side | model checking |
| `MCParallelTransports` | `ParallelLightstream` with abandoned sends and `ParallelTables` side by side | model checking |
| `MCParquet`, `MCStorage` | instances; `StreamArena`, `RecordBatch`, `Csv`, `Parquet`, `Files` and `Chunked` side by side | model checking |

`MCTransports`, `MCParallelTransports` and `MCStorage` check components that do not talk to each other in one
run: a variable `part`, chosen at the start, says which of them moves, and the others
stay in a fixed state ("rests") in which none of their fair actions is enabled. A state is then
a state of one component, and the runs show of each what runs of their own would. The names
of most modules carry a prefix (`Ws`, `Pt`, `Csv`, `Pq`, `Fl`, `Ch`, `Rb`) for that reason. Where the
session or a Lightstream reader would be deadlocked, the run still reports it: only the other parts may stop.

### ParallelLightstream

A frame is the number of the `route` call that sent it. It travels
`pending` (the awaited send) -> `senders[c]` (the writer task's channel) ->
`held[c]` (the frame the task is writing) -> `net[c]` (the socket) -> `rheld[s]`
(the item the reader task is sending) -> `streams[s]` (the slot's channel) ->
`emitted`. Each arrow is an action, each await a place to stop:

* `Connect`, `ConnectFails`: one round of the loop of `connect`, the index byte
  included. `Accept`, `AcceptFails`: one round of `accept`, which takes pending
  connections in any order and slots them by `AnnouncedIndex`.
* `RouteCall` is the part of `route` before its await (`next` advances),
  `RouteDeliver`/`RouteBroken` its two results, `RouteCancelled` a caller that
  drops the future. The last is part of `CancelSpec` only.
* `TaskRecv`, `TaskWrite`, `TaskClose`, `TaskFails` are the writer task.
  `TaskFails` closes the socket after whole frames or inside one and drops the
  frames queued behind, as the task's `?` does.
* `ReadFrame`, `ReadEnd`, `ReadError`, `TaskSend` are the reader task, whose
  loop ends after the first error.
* `PollOrdered` and `PollArrival` are the two halves of `poll_next`;
  `ReaderDrop` aborts the tasks. `Reset` is the network's.

A socket's end is a clean FIN, a cut inside a frame, or a reset. `next` and
`cursor` are kept unbounded and reduced modulo `Wrap` where the code's `usize`
would be, so that histories stay readable and wrapping is still modelled. The
reader's `cursor += 1` wraps in a build without overflow checks; a build with
them would panic there, which is not modelled. Payloads, tags and the registry
are left out.

### StreamArena

The arena is `[gen, cap, pos, clean]`: which backing, its size, `write_pos`, and
how far the backing has ever been initialised. A window is `[gen, off, len,
intact]`; `intact` turns FALSE when a write covers a byte of it, and is FALSE
from the start if a byte of it was never initialised. `Held` is
`Arc::strong_count > 1`. Bytes are not modelled. The operations are operators
(`EnsureCapacity`, `Padding`, `Commit`, `Written` ...), and `ArenaSpec` is a
client that may call them in any order within their assertions: whatever is
shown of it holds of every caller in the library (the decoder, the byte
streams of TCP, UDS, WebSocket and `AsyncRead`, the block reader of Arrow
files). `uring_region` has no caller and is left out.

### TableStreamDecoder

The wire is a sequence of messages laid out in units; the accumulation buffer
is the interval `[lo, rd)` of positions. `SeesEnd`, `SeesHeader`, `SeesFrame`,
`NeedMore` are the results of `decode_header`; each action is one turn of the
loop of `poll_next_keyed` (`InlineFrame`, `BatchFrame`, `PendingBody`,
`FillBuf`, `BodyRead`, `BodyDecoded`, `SkipPad`, ...), and whatever leaves the
loop appends to `items`. The source decides how much every read returns
(`Chunks`), where it ends (`cut`) and when it fails. The consumer keeps polling
through a bounded number of errors and drops tables whenever it likes. The
codec's cached view of the last body (`cache`) is part of the state because it
holds a window of the arena.

Abstractions: a header is two units (so a read can end inside it), an end marker
one; padding is zero units that parse as an end marker when they are mistaken for a
header, as zero bytes do. What a body contains is left out: a frame either
decodes (`batch`), does not (`badbatch`), does not verify (`corrupt`) or is of
a type no reader expects (`other`). The Stream protocol only: the File
protocol's magic and footer, the `NONE` header, compressed bodies (whose window
is released at once) and decode limits are left out. A frame without a body
has the range `0..0` in the code, and its header is then discarded as if it were
padding; the model does the same.

### LightstreamSession

The layer below the parallel transport's payloads: what one `LightstreamWriter`
sends and one `LightstreamReader` makes of it. The wire is a sequence of cells,
two for a TLV header and one for each unit of a payload (a message unit, a
schema, a dictionary, a record batch); `ReadSome` takes any number of those that
have arrived. `EncodeTable` is `encode_table` with `encode_record_batch` below
it: the encoder's state advances even when the table turns out to have no
layout (`sound = FALSE`), and the pooled buffer is left with a header then.
`Walk` is `decode_ipc_payload`, including what it keeps of a payload that fails.
`ReadSome`, `ReadEof`, `ReadErr`, `PollEnded`, `ParseHeader` and `Decode` are the
turns of the loop of `poll_next`. Both ends register the same types in the same
order, as documented, but each when it likes; a name may be registered twice.

A writer's call appends its whole frame. A reader cannot tell a frame that is
partly written from one that has partly arrived, so nothing is lost by that
except the caller who drops a send in the middle of `write_all`, which is not
modelled. Tables match the columns registered for their type; the encoder
does not check that. `answers` holds one entry per frame and `ended` what the
stream itself yields; repeated polls after an end are `PollEnded` (a truncated
stream yields its error for ever, which is one state here).

### Sinks

Three sinks over one loop. `frameBuf` and `framePos` are the frame being
written and how far; behind them the File protocol has the queue of its
`TableStreamWriter` and the TLV sink that of its `TLVStreamWriter`, the Stream
protocol nothing, which is why `poll_ready` flushes first (`IsReady`). `Call`
is the caller starting one of the futures of `SinkExt`; `PollReady`,
`PollFlush`, `PollClose` begin a poll, and `NextFrame` to `Flushed` are the exits of one
turn of the loop of `poll_flush`. A destination takes any part of a frame, then
may be `full` until `Drain`; it may fail, and the frame it failed on is gone, as in the
code. `Cancel` drops a future that waits; the sink keeps what it had.

Wake-ups are part of the state: `poll` says whether the task was woken, waits for
the destination, or was left to nobody (`lost`); `waker` and `notified` are the
waker that `TLVStreamWriter` keeps on an empty queue, and its later use. A TLV
sink that meets a partial write ends up `lost` unless such a leftover notification
saves it. Nothing is sent after a close (the code does not refuse it). What encoding
does is left out, except that it may fail (`Refuse`), which can leave the
schema of a file queued.

### WebSocket

The wire is a sequence of cells: the response to the upgrade, read by a client one
byte at a time so that nothing behind it is swallowed; then for each frame a header of one
cell, one more for the key when it is masked, and the payload. The peer sends one
of `WsStreams` and may stop at any cell. `WsShake`, `WsHeaderRead`, `WsPayloadRead`, `WsPingRead`,
`WsIgnoredRead` and `WsEof` are reads of any size in the states of `WsRead`; a
masked payload cell comes out right only under the key byte it was masked with,
which is how `frames/websocket.rs` could lose its place in the key. `poll_read` and
`poll_next` run the same machine and share the actions.

`WsPongWrite` and `WsPongWaits` are one turn of `SendingPong`: the mutex is taken for one `poll_write` and
released, so that a pong that does not fit at once is sent in pieces. `WsWrite`'s side is
`WsCallWrite` (the `write_all` of a caller) and `WsPollWrite` to `WsWriteWaits`, which hold
the mutex across the loop of one `poll_write`; `WsDropWrite` drops a write that waits and leaves
the begun frame in the half. The application may write at any time, also beside a peer that
pings. `wsBusy` says whether the socket takes parts of a write and can be full. A socket keeps one
waker, the last (`wsWaker`), and `wsAsleep` says whose task sleeps; two tasks poll one socket.
`poll_write` returns the size of the frame it finished, also when that frame
was begun for another, dropped buffer: `write_all` may then panic, and `poll_write` may turn
for ever with the mutex held. Both are in the model, and `WsHalvesWhole`, `WsFramesWhole` and
`WsReadEnds` speak of behaviours without a dropped write.

Left out: the encoding of lengths, the request's text and its key, and the peer's
own correctness (any frame may come, a `bad` one for what the code refuses).

### ParallelTables

The pipeline of `ParallelLightstream` with what is different: no stream announces
its index, so the i-th accepted stream is the writer's i-th; the writer task ends with the
end marker of an Arrow stream, and the reader's task reports its absence
(`PtMarkerMissing`); a QUIC stream is seen by `accept` only once it or a later one carries
something; HTTP/2 streams draw on a window of the connection as well as on their own
(`PtMaySend`; `PtConnectionWindow` is what `from_tcp` asks for: N windows, up to `u32::MAX`,
which is more than the 8 MiB windows of 511 streams together, so that the cap binds from 512 streams on only).

`PtWriteTable` is `write_table` up to its await, where `next` has already advanced;
`PtQueued` is what the await returns, `PtAbandon` the caller that drops it while the channel is
full, and `ptAbandoned` remembers for the properties which tables that cost.
`PtStreamLost` and `PtConnectionLost` are failures of one stream and of
all of them. `PtPollOrdered` and `PtPollArrival` are the merges, as `read_all_tables`
runs them: it stops at the first error, and dropping the reader aborts the tasks
and resets their streams (`PtReaderDropped`).

`accept` fails when its HTTP/2 or QUIC connection is gone, or when the listener of TCP returns an error
(`PtAcceptFails`). It then returns with the receivers dropped and the tasks of the streams it had
accepted running on (`PtDetached`): each reads until its next send fails, and drops its stream
(`PtTaskStops`). Streams that still wait on the listener end when the caller closes it
(`PtListenerClosed`, code outside of `src/`, and assumed to happen in the end).

### Csv

Text is a sequence of characters of five classes; `CsvScan` is the first pass of
`decode_csv_bytes` as a recursive function over it, and `CsvEncodeCell`, `CsvUnquote`,
`CsvInfer`, `CsvBuild` the steps around it. The state is that of `CsvReader` (rest of the text,
schema, first batch, finished) and of the caller. `CsvPull` is the loop that
`next_batch` and `schema` share: lines are counted off at newlines before quotes are looked at.

`CsvLoadTable` models `load_table` on a reader nothing has been read from, the order the
code's callers use. The types are those of integers, strings, booleans, and blank columns.

### Parquet

A file is a sequence of pages and a footer; an offset is the index of a page. `PqEncode` and
`PqDecoded` are the two directions of the hybrid encoding over runs, with the
padding of a bit-packed segment as values in it that its header does not tell
apart - this is what the `ParquetPadding` run is about. `PqWriteDictionary`, `PqWritePage`,
`PqEndColumn`, `PqWriteFooter`, `PqWriteErr` are the writer, whose file keeps what a failure left in it; `PqOpen`,
`PqReadPage`, `PqReadColumn` the reader with its projection, where values are scattered by the
definition levels.

### Files

A file is a sequence of units of eight bytes. `FlEmitted` is what `emit_frame` leaves behind, with the block it notes for the
footer among the dictionaries or the batches; `FlAhead` is what `write` emits before a batch, the schema and the dictionary once each;
`FlWrite`, `FlFinish`, `FlDrain` are `write`, `finish` and `drain_frames`, in the three ways
tables get into a file (`flHow`): drained after each table, all at the end, or never finished,
as `write_table_to_file` leaves a file, which cannot be opened then. A table's write
may fail in the encoder (schema and dictionary stay queued) or in the file (the frame is gone
from the queue, a part of it is in the file). `FlOpen` with `FlLoad` is `FileTableReader`:
closing magic, footer, blocks, dictionaries, batches, and `batch_windows` with `window_table`,
whose windows are cut at multiples of `FlStep` rows (512 in the code) by the size in bytes of a row.

### RecordBatch

A batch from the table it is a window of to the columns that view its body. A buffer is a
sequence of cells - values, groups of `RbByte` bits, offsets, characters, padding - and every cell
has an address, so alignment is part of the model. `RbEncode` is `encode_record_batch` on a window
that may start anywhere: `RbShifted` shifts bits that start inside a byte, `RbStringRegions` moves offsets
to the window's first, `RbNullRegion` keeps the slot of a mask that is not sent. `RbReceive` takes the
dictionaries and, for a compressed body, puts the buffers where `decompress_ipc_body` does (`RbInflated`, one at a time). `RbColumn` is one
turn of the column loop of `decode_record_batch`, with the index it moves on instead of a map from columns to
buffers (`RbMaskTaken`, `RbDataBuffers`), and `RbWindow` is `window_table`, which `Files`
takes for granted. The values of a boolean column are a copy in the code; the model has a view of the
same cells. The bytes of values, the decoder's limits and delta dictionaries, which no encoder here sends, are left out.

### Chunked

A directory is a function from indices to files, a file a table that may be written in
part. `ChCall` starts `write_chunk` and `write_all` (`&mut self`: alone, indices one at a time)
or `par_write_all` (`&self`: beside others, its indices reserved at once off the atomic
counter). `ChNextChunk` and `ChEncode` are a worker's two steps on a file, either of which may
fail; `ChReturn` joins the workers. `ChRestart` ends the process, and the next
writer of the directory begins at 0 again. A reader lists the directory once
(`ChOpen`) and reads with workers of its own (`ChRead`, `ChLoaded`) while writers go on. What a
part of a file reads as depends on its format: a framed file is refused, a CSV file is a
shorter table.

## 3. Runs

| Run | Instance | Question |
|---|---|---|
| `ParallelOrdered` | N = 2, depth 1, sockets of 1, 4 sends, 1 failure, counters modulo 3 | order, completeness, deadlock, termination of the ordered merge |
| `ParallelTransports` (`MCParallelTransports`) | Lightstream frames in arrival order: as above, counters modulo 16, cancelled sends. Tables: TCP, HTTP/2 and QUIC, both orders, 2 streams, windows and channels of 1, 4 tables (6 for an ordered HTTP/2 reader while nothing is lost), 1 dropped `write_table` or 1 stream, connection or accept lost | the same of the arrival-order merge; order of the tables, no table lost behind an Ok, and does everybody return, also when one stream gets ahead? |
| `ParallelCancel` | as above, 5 sends, no failure, ordered; a send is cancelled only while its channel is full | **violated**: a cancelled send breaks the global order |
| `StreamArena` (`MCStorage`) | arena: 2 windows alive together, alignment 4, backing of 6, requests to 7, 3 backings; batches: six tables of up to three columns and six rows, every window, every projection, compressed or not, bytes of 2 bits; CSV: tables of one and two columns over seven cells, batches of 1, 2 and all rows; Parquet: one column of up to 4 cells or 6 categories, three columns over two pages, groups of 2; files: up to 3 tables, windows of at least 2 rows, 2 failures; chunks: 2 callers, 2 threads, 3 tables, 1 failure or crash | can a live window ever change, is one backing enough? does a batch come back as it was sent? do the formats give back what was written, or an error, whatever failed and whatever ran beside it? |
| `ParquetPadding` | the same Parquet tables, with runs behind padded segments | **violated**: padding becomes rows |
| `TableStreamDecoder` | 3 streams of up to 8 messages, every cut, 1 transport error, 2 tolerated errors, 3 windows, a backing of 4 | decoding under every segmentation |
| `TableDictionary` | a dictionary frame that may be cut | **violated**: the result depends on how the stream was cut |
| `TableRecycling` | two batches, tables dropped at once | **violated**: the arena is not rewound |
| `Transports` (`MCTransports`) | session: 3 types (one name twice), 2 frames and any number of refused tables, messages of 0, 2 and 4 units with a limit of 3; sinks: 3 items of 3 units, 1 failure, dropped futures, a Stream sink closed only when no frame is pending; WebSocket: 4 streams of frames cut anywhere, 2 writes of 1 or 2 bytes (1 to a peer that sends three frames, or that pings while the socket can be full), 1 write dropped where no pings come | does the reader keep its place, whatever is refused, and does trouble spread between types? does everything accepted reach the wire, whole and in order, does Ok mean it did, and does every call return? |
| `SessionSchema` | one frame after a refused table | **violated**: the schema was never sent |
| `WebSocketPong` | one write beside a peer that pings | **violated**: the rest of a pong lands inside a data frame |
| `SinkClose` | a Stream sink closed at any time | **violated**: the end marker replaces a pending frame |

Why the bounds are enough. Two connections already have every order between
them that the rotation can confuse, and depth and socket size 1 block
soonest; four sends go twice round the rotation and past a wrap that 2 does
not divide, so that two consecutive frames share a connection. One failure can
hit any task, socket or the consumer at any moment. In the arena, a backing
of 6 with alignment 4 is not a multiple of it, so padding meets the end, and
7 exceeds it; three generations let a window outlive two replacements. The
decoder's streams hold each kind of frame, bodies that fit the backing, fill it
and exceed it, padding with and without, an empty body, and frames out of
order; every segmentation into reads and every end of the connection is
explored. In the session, two frames are one with the schema and one without,
or frames of two types; refused tables do not count against the bound. In the
sinks, three units let a write end twice inside a frame, and three items are one
on the wire, one pending and one asking to be admitted.

WebSocket frames of up to three payload bytes end inside the key and are cut by reads and writes at
every byte, with control frames between and before them. Two parallel table
streams with windows and channels of one table: an ordered reader that waits for stream 0 leaves
stream 1 room for one table each in its slot, its task, its window, its writer task and that
task's channel, and with four tables over every transport a writer can wait behind a full
channel and drop its call there. With six and one call dropped, stream 1 of HTTP/2 gets a table ahead: when the
call with table 3 is dropped while its position is counted, tables 2, 4 and 6 fill the slot, the task and
the wire of stream 1 while the reader waits for stream 0, and a connection window of one stream would hold
table 1 back for ever (the mutant of `PtBothReturn`). Without a dropped call slot and task take all
that stream 1 can be ahead, and the smaller window would do. CSV cells are each kind that the
scan treats differently, alone and next to each other; a batch is smaller than, as large as
and larger than the file. Six categories with groups of two hold a padded segment between two
RLE runs; pages of six rows put a page edge inside the seven-row columns. The files have tables
without rows, without bodies, with bodies smaller and larger than a window, and a failure in every unit
of every frame. A window of six rows in bytes of two bits starts and ends at every place in
a byte and in a string, and a second window inside it is cut at the only boundary that is allowed besides its
start. Two writing callers with two threads each and a reader with two have every order of the
cursor, the counter and the directory.

What the constants that are set say, and what the other value shows:

| Constant | In the passing run | With the other value |
|---|---|---|
| `CloseOverPending` | FALSE: a Stream sink is closed with nothing pending | the `SinkClose` run |
| `SplitDict` | FALSE: no read ends inside a dictionary | the `TableDictionary` run |
| `PqPadInside` | FALSE: no run follows a padded segment | the `ParquetPadding` run |
| `PtAcceptInOrder` | TRUE: TCP connections are accepted in the order they were made | TLC finds `PtInOrder` violated, and `PtOkIsComplete`: an early end is taken for the end of all |
| `FlGoesOn` | FALSE: the caller stops at an error | TLC finds `FileReadsBack` violated: the footer points past what a failed write left |

Properties (each commented where it is defined):

* `TypeOK`, `ArenaTypeOK`, `DecoderTypeOK`: the type invariants of the modules whose
  bounds other code relies on (`pos <= clean <= cap` of the arena, for one).
* `ImplementsOrderedDelivery`: the merge delivers frame j or an error at
  position j, never before it was sent. `OrderedOutput` is its state
  form, `ConnectionOrder` what is left of it in arrival order.
* `CleanEndIsComplete`: an end without an error, and no failed writer task, means that every
  frame sent was delivered. The condition on writer tasks matters: a task
  that fails between two frames closes its socket like one that is done, and
  only `finish` reports the loss.
* `EveryFrameSurfaces`, `FinishReturns`, `ReaderReleased`: no deadlock under back
  pressure, `finish` returns, and the consumer is released, under failures.
* `WindowsIntact`, `OneBackingInSteadyState`: the arena's safety comments, and
  its reason to exist. `TablesIntact` is the former for the decoder.
* `BodyInPlace`: whatever was overread, a body read continues at the right
  position of the wire and of the arena. `TablesAligned`: windows
  start on a boundary.
* `ImplementsTableDelivery`: batches in order, each once; errors only with a
  cause; the end only after the last batch or an error. `StreamEnds`: every stream ends for its consumer.
  `SegmentationIndependent`, that a sound stream yields no error wherever reads end, is what
  `TableDictionary` refutes; short of `SplitDict` it is proved (section 5).
* `FramingKept`: the reader's n-th answer is about the n-th frame, refused or
  not. `TypesAreIsolated`: a refusal has a cause in its own type.
  `CategoriesKept`: strings survive as long as a type's tables share their
  dictionary - the code never sends a second one, and tables with another
  dictionary come out with the wrong strings. `EndIsComplete`,
  `EveryFrameAnswered` and the session's `StreamEnds`: as for the transport.
* `WireInOrder`: the destination holds a beginning of the accepted frames, whole
  and in order, however writes were cut and whichever futures were dropped.
  `OkIsComplete`: when flush or close returns Ok, nothing is missing.
  `CallsReturn`: no wake-up is lost (table sinks only: the TLV sink does lose one).
* `WsDataInOrder`: the caller has the payload of the data frames, unmasked, each byte once,
  whatever was cut or came between. `WsHalvesWhole`: each of the two halves that write puts whole frames
  on the wire, with the bytes they were written for, and where no pong can come between, the peer receives
  whole frames. `WsFramesWhole`, that it does so always, is what `WebSocketPong` refutes. `WsReadEnds`: reading ends, so
  the mutex is released and no wake-up is lost but one, the writer in the
  place of the reader's waker (`WsWakerTaken`), a premise without which TLC finds `WsReadEnds` violated (section 4).
* `PtInOrder`: the tables of a stream in write order, none left out but those whose call was dropped, and
  of an ordered reader all tables in order up to the first dropped call. `PtOkIsComplete`: no table
  lost behind an Ok; for an ordered reader up to the first dropped call. Behind that call the
  code keeps neither (section 4). `PtBothReturn`: no deadlock over shared windows, under back pressure, failures and
  dropped calls.
* `CsvRoundTrip`, `CsvBatchesAgree`: every cell comes back, at once and in batches. Their
  premises name what is false of the code: a blank line without a header is skipped, a
  last line that ends in a delimiter and lost its newline is dropped, a column whose sample has
  another type than its rest is an error, and a batch may tear a cell with a newline.
* `PqRoundTrip`: values, nulls and categories at their rows; a file whose writing
  failed is refused wherever it stopped.
* `FileReadsBack`: an Arrow file gives back exactly the tables whose write returned Ok, every row
  in one window, or is refused.
* `RbRoundTrip`: the wanted columns come back with the values, nulls, strings and categories of the
  rows that were sent. Its premise: no dictionary is without values (see below). `RbViewsAligned`: every
  buffer a decoded column is made of starts on a boundary.
* `ChAckedInOrder`: the k-th path of a call that returned Ok is its k-th table, whole, and a later
  load has a call's tables one behind the other.

Fairness. Tokio runs every task that can make progress: weak fairness on each
task and on each await that can return. The consumer keeps polling until the
stream ends and then drops the reader; a caller that has started `finish`
awaits it; nothing forces the application to send or to finish, and nothing
forces failures. `ReaderReleased` and `EveryFrameSurfaces` therefore speak of
what follows once the application did its part. In the decoder, the source
answers in the end (weak fairness of `Step`) and tables are dropped in the end;
a body can be decoded without a drop because the model has as many windows as
can be alive. In the session only the reader's polls are fair. In the sinks, a
woken task is polled (`Resume`), a poll runs to its end (`SinkPoll`), and the destination takes
bytes again (`Drain`); the caller is free. The WebSocket's reader is polled until it
ends, a writer that was called is polled unless it sleeps, and a full socket drains
(`WsFairness`); nobody has to write. The parallel table transports have the fairness of `ParallelLightstream`
(`PtFairness`): every task, the reader's accept and polls, a writer that awaits, and a listener that is closed after
its accept has failed; nothing forces the writer to write or finish. The file formats are checked for safety only.

## 4. What disagrees with the documentation

1. **Cancelled sends break the global order** (`ParallelCancel`).
   `route` advances `next` before it awaits the channel; dropping the future in
   between (a timeout around `send_table`) uses up a position. The reader goes
   on expecting a frame there and pairs every later frame with the wrong
   position, or ends early, without an error.
2. **A dictionary frame that is cut is refused** (`TableDictionary`). The
   `BodyPending` path is written for record batches; a dictionary that takes it
   is read into the arena, decoded, and then reported as "expected RecordBatch
   frame for body". With its body buffered but not its padding, the padding left on
   the wire reads as the end of the stream.
3. **The arena is not rewound between batches** (`TableRecycling`). The
   codec keeps a view of the last body until it decodes the next, so the
   reference count `recycle_if_free` looks at is never one. Nothing is corrupted;
   the arena walks through its 2 GiB backing before it resets.
4. **A refused table takes its type's schema with it** (`SessionSchema`).
   The encoder notes schema and dictionaries as sent before the layout of the batch
   can fail. When the first table of a type fails, nothing is written, and every
   later table of the type is sent without a schema and refused by the reader,
   while `send_table` reports success.
5. **Closing a Stream sink discards a pending frame** (`SinkClose`).
   `poll_close` puts the end marker into `frame_buf` before it flushes. A table that was
   fed, or whose `send` was dropped under back pressure, is lost or cut in the middle, and
   close returns Ok.
6. **Padding inside a page of dictionary indices becomes rows** (`ParquetPadding`).
   `encode_dictionary_indices_rle` pads every bit-packed segment to groups of 8, also one
   that an RLE run follows, and the decoder takes every value of a run. Nine different
   indices, eight equal ones and another one are enough: the column has the right number of rows
   and wrong values, and nothing reports it.
7. **A pong lands inside a data frame** (`WebSocketPong`).
   `SendingPong` takes the mutex for each part of a pong, and `WsWrite` for each `poll_write`. On a socket that
   takes a part of a write, the other half writes in between, and the peer reads garbage.

Three more disagreements have no run of their own. They are premises of properties, named there, and TLC
finds the property violated when the premise is taken away:

* **A dropped `write_table` loses a later table behind an Ok**, the defect of 1 in the three parallel table
  writers (`PtAbandon`). The ordered reader is one position ahead from there on: it yields later tables out of order, and
  when the stream whose turn it is has ended, `read_all_tables` returns Ok although another
  stream still holds a table whose `write_table` returned Ok. In arrival order nothing is lost. `PtInOrder` and
  `PtOkIsComplete` therefore end at the first dropped call (`PtUnbroken`).
* **The order of TCP tables rests on the accept order.**
  Reader and writer say that the i-th accepted connection is the writer's i-th (`readers/parallel/tcp.rs:19-21`);
  nothing on the wire says so, and a listener returns connections as their handshakes complete on its side. With
  two of them swapped (`PtAcceptInOrder` FALSE) an ordered reader yields tables in the wrong order, with no error.
  The parallel Lightstream transport announces an index for this reason.
* **A pong may never be sent, nor anything read again.**
  Reader and writer are two tasks on one socket half, which remembers the waker of the last that found it full. When that
  is the writer, and it has nothing more to write, nobody polls the reader (`WsWakerTaken`).

One thing the source leaves to its caller, seen while modelling and shown by `FlGoesOn` rather than by a run: going on
after a failed file write. Another is a premise of `RbRoundTrip`: a
dictionary without values (a categorical column of nulls only) is sent with its one offset
(`encoders/ipc/schema.rs:511`), and `parse_dictionary_strings` (`decoders/ipc/parser.rs:886`) refuses fewer than two.

## 5. Proofs

Every result below is proved for every value of the constants. Each rests on an inductive
invariant, whose parts are named and say why the property holds.

### Parallel Lightstream transport

`ParallelLightstreamProofs!TypeCorrect` proves `Spec => []TypeOK`. `TypeOK` alone is not
inductive: that `opened` stays in range while connecting, what the stages of a socket, its
writer task and its queue have to do with each other, and that a slot is free exactly when its
task does not exist, are in `WriterStages` and `Slots`; `Structure` is their conjunction
with `TypeOK`, and holds of `CancelSpec` too (`CancelStep`).

The frames of one connection are in up to five places: the channel of its slot, the item the
reader task holds, the socket, the frame the writer task holds and that task's channel. In this
order, as far as the consumer can still reach them, they form one sequence, `Flow(c)`. The lemma
`FlowMoves` says what a step may do to the flows: keep each or cut it short (a failure, which
may leave an error at its end), hand one more frame over to a connection, or take the head of one
flow out (a poll). With it, an invariant about order or loss is a statement about sequences
that four kinds of moves preserve, and none of its proofs looks at an action again.

The second half of the module uses it twice.

* For the global order, `IInv`: `Flow(c)` holds the positions routed to c from `cursor` on,
  ascending and without a gap, an error at most as its last item, and on an intact connection all
  that was handed over (`FlowOK`). So the head, when the cursor is at c, is frame `cursor`. Two
  things are essential: `AnnouncedIndex` makes slot s read connection s (`Slots`), and `Route`
  and `Target` are one function of the position, wrap included. `EmittedInv` adds that an
  error stands at a position only if its connection is dead. From it follow
  `OrderedOutputHolds` and `OrderedImplements` (`Spec => Delivery!Spec`: emitting is `Deliver` or
  `Fail`, `RouteCall` is `Submit`, everything else stutters).
* For what holds under either order, with abandoned sends, `CInv`: what waits in `Flow(c)` is ascending and
  above all that has surfaced of c, and on an intact connection every frame handed over has
  surfaced, was abandoned, or waits (`JourneyOK`). A slot that is drained without an error belongs to an
  intact connection (`DoneInv`: a reader task ends because its writer's has, or with an
  error item). From it follow `ConnectionOrderHolds` (`Spec` and `CancelSpec`), `CleanEndHolds` and
  `CleanEndWithCancel` (`CleanEndIsComplete` of `Spec` under both orders, of `CancelSpec` in
  arrival order; in the global order an abandoned send leaves a gap, as `ParallelCancel` shows).

### Stream arena and table stream decoder

The first part of `TableStreamDecoderProofs` is about the arena alone: `ArenaTypeCorrect`, `WindowsIntactHolds` and
`OneBackingHolds` for the general client. `ArenaInv` adds `Behind` to the type invariant and
`WindowsIntact`: a window of the current backing ends at or before `pos`, one
of another backing has an older generation. Writes happen at `pos` and so spare
every window (`WriteSpares`); the position moves back only when no window of the
backing is live (`RecycleBehind`, `EnsureBehind`). `EnsureGivesRoom` is the lemma
behind the `expect` in `begin_body_read`.

The second proves `DecoderTypeCorrect`, `TablesIntactHolds`, `BodyInPlaceHolds` and
`TablesAlignedHolds` for every stream of messages and every segmentation. `DInv` joins the four
properties with `Behind` and with `Boundaries`: whenever a body may begin, the write position is on
a boundary or the backing is full. The latter is what `TablesAligned` needs and
the code relies on without saying so; it fails only after a body that was given up half
read, and then no other begins, because the source has ended and nothing is buffered. `BodyInPlace`
is needed for `TablesIntact`: a read that continued at the wrong place of the arena would be a write under a table.

The third proves `DecoderImplements` (`Spec => TableDelivery!Spec`) and `SegmentationIndependentHolds`.
`Progress` says where the decoder stands in the stream: until there is an error, what is buffered is what follows the last
message taken, less the padding still awaited (`Place`, `NextIs`), or the source was cut short (`CutShort`); a body
in hand has its message, room for the rest of it, and the next message right behind it
(`BodyPart`); what was yielded is every batch behind this place, in order (`Behindhand`); and an
error or an end has its cause. A step then keeps its place, moves to the next message, or ends (`XMoves`), and a clean end is only
reached with every batch yielded (`EndedWell`). Both theorems have two premises. `StreamsWellFormed`: a stream has
one end marker, at its end, nothing pads a message without a body, and its schema precedes its batches; the streams of the run
satisfy it. `~SplitDict`: no read ends inside a dictionary frame. The code does not ensure the latter:
what happens otherwise is the finding of `TableDictionary`, and the theorems say that it is the only way in which the segmentation
changes what is decoded.

### Lightstream session

`LightstreamSessionProofs` proves `FramingHolds`, `IsolationHolds`, `CategoriesHold` and `EndHolds`. The
invariant `SInv` says what every cell stands for that no answer has been given for (`Layout`: the header and payload
in progress and the wire are together the frames after the last answer, one behind
the other, cut short by a reset only), what a codec knows of a type because of the
frames before (`EncoderKnows`: a schema counts as sent only if it was, or if a table of the type was refused;
`DecoderKnows`), that a frame without a schema has a reason (`FramesOK`), and why the stream has ended (`EndReason`).
A step of the reader takes cells from one place to the next (`LayoutKept`), a send adds a frame at the end
(`LayoutSent`), a decode consumes the first frame, and `Decoded` says what `Walk` makes of it.

The four theorems assume `LengthsFit`: every frame is shorter than what the length field can
say (`LenRange`, 2^32 in the code). The code cuts the length to 32 bits without a check
(`codecs/lightstream.rs:188`), and without the assumption the reader loses its place; the run's constants satisfy it.

### Sinks

`SinksProofs` proves `WireInOrderHolds` and `OkIsCompleteHolds`. `SinkInv` says where an accepted frame is: the
accepted frames are those written, then the one in `frame_buf`, then the queue (`Placed`),
and the number of bytes written is that of the whole frames and of the part of the next one. A write therefore adds the
bytes that come next (`UnitsAdded`), and a flush that finds nothing left has written everything (`ResultOK`). Both theorems
assume that no Stream sink is closed over a pending frame (`~CloseOverPending`, or no Stream sink at all),
which is false of the code in general: it is the finding of `SinkClose`, and the theorems say that there is no other way to
lose a table while the destination works.

### WebSocket

`WebSocketProofs` proves `DataInOrderHolds` and `HalvesWholeHolds`, the two directions of a socket.

* What is read. The wire is a recursive function of the frames; `Laid` and `LaidOut` say without
  recursion where the response, each header, each key and each payload cell stands in it, and
  `WireIsLaid` shows by induction over the frames that the wire is laid out so. Then `ReadInv`: what
  has arrived is the beginning of the wire (`Arriving`); each state of `WsRead` stands at a definite place in a
  definite frame, with the key, the length and the place in the key that belong there (`Standing`);
  the caller has the payloads of the data frames before that place (`Given`); and a reader that has ended has met
  one of the five things that end it (`Ended`). `Unmasked` and `KeyPosition` are the
  arithmetic under it: a payload cell read at any split of the payload meets the byte of the key it was masked with.
* What is written. The output is looked at through a set of frame kinds: `Follow` says that the frames of
  these kinds are whole and behind one another, whatever lies between, and `EndsAt` where the last of them stands.
  `PongSide` says so of the pongs, with `WsRead` standing where they end, and `WriterSide` of data and close frames, with
  `WsWrite`. A part of a write adds cells of one kind at the place where its half left off
  (`WriterAppends`), and cells of other kinds change nothing. Where a pong cannot come in between (`Alone`: the socket takes every write
  whole, or the peer does not ping), `WriterSide` holds of all kinds together, which is the second half of `WsHalvesWhole`.
  Nothing is assumed of who writes when; only the dropped write is left out, as in the property. That both halves together write whole
  frames is not a theorem: it is false (`WebSocketPong`).

### Parallel table transports

`ParallelTablesProofs` proves `TablesInOrderHolds` and `TablesOkComplete`. `PtInv` follows the tables of a stream from
the call that deals them to the reader. Three histories that the model does not have are named by an existential (`Flowing`): `sent[c]` are
the tables handed to the task of stream c, all that were dealt to it but those whose call was dropped (`SentTo`,
`WholeSent`); the first `got[c]` of them are collected, those up to `read[c]` wait in the slot (`Slot`, one case for each state of a reader task), and
behind them follow without a gap the wire, the writer task and its channel (`Carrying`, `Writing`), as long as the stream is not cut. A
dropped call takes a table out before it is sent, so it leaves a gap in the numbers and none in `sent`: order
and completeness of one stream survive it. The order of all streams does not; `OrderedPolled` is the arithmetic of the
rotation for as long as nothing was dropped. A slot that ends without an error has shown all of `sent[c]`, after `finish` was called
(`Ended`), hence an Ok is complete.

No stream announces its index here, so where the parallel Lightstream proof has `AnnouncedIndex`, this one has a premise, `StreamsInPlace`: connections are accepted in the order
they were made, or the streams are not TCP (HTTP/2 and QUIC number their streams), or no reader is ordered.
The code does not ensure it for TCP; without it both properties are violated. The second limit is in the properties: behind a dropped
call neither order nor completeness of an ordered reader is claimed, because the code has neither (section 4).

### Chunked

The first part of `StorageProofs` proves `AckedInOrderHolds`. `ChPoolOK` is about a pool of worker threads alone: every job below the
cursor is done once, or a worker is at it or has failed in it; the lemma `PoolComplete` follows, that a call whose workers
have ended without a failure has one result per job. `ChInv` is about who owns which index: a parallel call
those it reserved at once, a sequential one, alone with the writer, the last ones reserved, and what a call that returned Ok
has written belongs to nobody any more (`CallsOK`, `AckOK`). An action of a writer is then a case of `CallMoves`: it touches
files of its own call only, or indices nobody had. For the reader, `NeighboursListed` shows that consecutive indices stand one behind the other
in the sorted list, whatever other files are there, and `LoadOK` that what was read of them is what was written. A restart is
covered: the files of the writer before are not promised any more, and the theorem holds from there on.

### Files

The second part of `StorageProofs` proves `FileReadsBackHolds`. The cells of the file followed by those of the frames still in the queue
form one sequence, however far draining has come (`Laid`). `Written` says of this sequence what the footer relies on:
every block that was noted lies in it at its offset, with the length noted (`Placed`), there is one block among the batches for each
accepted table, in their order, the writer's offset is the sequence's length until the file is closed, and the closing magic stands at its end and
nowhere else, with the footer before it. Emitting a frame puts it at the end and notes it there
(`Emits`: this is where `frame_len` has to count the magic), draining moves cells from the queue into the file and leaves the
sequence as it is, and a reader that sees the closing magic sees a file that is the whole sequence. A write that fails ends this:
`FlInv` then only says that no closing magic is in the file, which stays so because the caller stops. The theorem's premise is
therefore `~FlGoesOn`, and it is needed (section 3).

The rest is arithmetic of windows: `RowsRead` shows that the windows `batch_windows` cuts, of any step and target size, start at multiples
of the step, cover the batch without a gap, and are one behind the other its rows.

### RecordBatch

The third part of `StorageProofs` proves `ViewsAlignedHolds`: a window may start at any row, a buffer may have any length, and still
whatever a decoded column views starts on a boundary. `FrameOK` says of what is sent that every buffer of the body starts on a boundary and, in a compressed
body, that its length and its data are there (`Lying`); it is kept from one region to the next because a region begins
where a padded one ended (`Padded`, `BodyLaid`). `BatchOK` says the same of the buffers after `decompress_ipc_body`, which recomputes their
places from the lengths it finds (`InflatedLaid`): a gap left out there is the mutant of the property. `ColumnOK` is about a decoded column, and the rest is arithmetic: a row that is a
multiple of `RbStep` is, in values and in groups of bits, a multiple of the alignment (`StepAligned`), which is why `window_table` keeps
views aligned. The characters of a window of strings are not claimed to be: they start at an offset that the values decide.

### Induction

The library's induction theorems take an operator as a parameter, which the installed provers cannot
instantiate. `ProofLemmas` states induction over the numbers with a set in the place of the
operator, from the library's facts on finite sets and well-founded relations; that a
recursive function has the equation it is defined by (`StartEquation`, `WalkEquation`, `WireEquation`) follows from it, and for any such function
`Recursion` and `Throughout` of `StorageProofs` say so once: it exists, and what each step keeps holds throughout.

### Assumptions

The named `ASSUME`s of the modules (`ConstantsAssumption`, `ArenaAssumption`, `DecoderAssumption`,
`SessionAssumption`, `SinksAssumption`, `WsAssumption`, `PtAssumption`, `ChAssumption`, `FlAssumption`, `RbAssumption`), as weak as the
code's assertions (1 to 256 connections) or plain types, and evaluated by TLC in the runs of these modules.
Beyond these, a theorem's own premises: `Sort = "Ordered"` for `OrderedOutputHolds` and `OrderedImplements`,
`Sort = "Arrival"` for `CleanEndWithCancel`, `LengthsFit`, `~CloseOverPending`, `~FlGoesOn`,
`StreamsInPlace`, `StreamsWellFormed` and `~SplitDict` as above.

### Only model-checked

* All liveness, which like `ENABLED` is out of the prover's reach.
* `Csv`, `Parquet` and the round trip of `RecordBatch`: what they compute is defined by recursion over data
  at every step, and their round trips, which relate two such definitions, are
  checked for every input within bounds.

## 6. Not modelled, and why

* Memory ordering below sequential consistency: the arena's relaxed `strong_count` and the
  relaxed counters of the chunked writer are modelled as atomic steps.
* Generated Arrow flatbuffers, Thrift, compression, TLS, connection set-up and HTTP/QUIC internals:
  formats and libraries (of compression, the codecs themselves), without state of the program's own. The flatbuffers alone
  are a fifth of the source.
* JSON: values are parsed by a library and its callbacks fill column builders; its records
  are split by a line reader.
* io_uring: Linux only and behind a feature; what could go wrong is the ownership of buffers
  between this code and the kernel, of which `src/` shows the calls only.
* Python bindings: each call blocks on a runtime and forwards to a reader or writer modelled here.
* Of modelled components: the Stream implementation of `TableStreamWriter`,
  `MmapTableReader` (the blocks of `Files` read from a map), the HTTP reader's byte stream apart from its
  flow control, `CsvWriter`'s own buffering, Parquet files of other
  writers (several row groups, data page v2), a send dropped in the middle of `write_all` of
  `LightstreamWriter` (its counterparts are in `WebSocket` and `Sinks`), column projection of the chunked
  readers, and what `decoders/ipc/parser.rs` refuses of frames no writer here sends (bounds and limits that a
  model would restate).

## 7. What would come next

1. An abstract FIFO of typed messages for the Lightstream session, composed with `OrderedDelivery`.
2. The JSON row decoder's columns over chunks; the io_uring bridge.
