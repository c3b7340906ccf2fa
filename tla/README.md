# A formal model of HPRS

HPRS (high performance rendering of simulations) shows particle data on tiled
displays: an MPI job of renderers that load particles from a particle server or
from HBase and compose their images with IceT, the Thrift interface through which
the C++ programs reach HBase, the HBase coprocessor that counts what a table
holds, and the clients and servers the project tried out on the way.  This directory holds TLA+ models of these programs, TLC configurations
that check them on small instances, and proofs, checked with TLAPS, of what
holds for every value of the parameters.

Paths below are relative to the repository (`src/`).

## 1. The system

| Component | Source | State it keeps | Operations | Correct if |
|---|---|---|---|---|
| Rendering server | `rendering_server/source/server.cxx` | per rank: `particles`, `TILE_WIDTH/HEIGHT`, `angle`, `frame`, IceT's callback and tiles | `main`, `InitIceT`, `reshape`, `DoFrame`, `Draw` | a picture shows one moment of the animation, no rank starts before all have loaded, the job ends whoever fails |
| Particle loading | `rendering_server/include/connector.h`, `parseParticle`, `deserializeJson` | `m_socket`, `m_buffer`, `pt` | `connect`, `readJSON`, `getJson` | a rank goes on with all of its particles or not at all |
| Particle server | `rendering_server/javaParticleServer/server.jar` | - | accept, write one document, close, again | (compiled; seen through its socket only) |
| HBase renderer | `ice_tHbase.cpp` | `client`, `frame`, and as above | `createFrameHBase`, `main`, and as above | the ranks' slices show each particle once, no picture is made of a missing frame |
| Byte order | `utility/binaryConverter.h` | the union `c` | `fromBytes`, `toBytes`, `reverse` | bytes are mirrored exactly when asked for |
| Row count coprocessor | `java/.../coprocessors/VelasscoCoProcessorCountRows.java` | the scanner, `results`, `lastRow`, `count` | `getRowCount`, `getKeyValueCount`, `start`, `stop` | an answer is the region's total at one moment; no scanner is leaked |
| Row count client | `java/.../VelasscoScan.java` | the map from regions to counts | `main`, `testRowCountCoprocessor`, `scanTable` (not called) | one count per region, together a count the table has had; a failed region is not a zero |
| Asynchronous server | `examples/asyncServer.cxx`, `connection.hpp`, `simple_client.cpp` | acceptor, connections, buffers | `handle_accept`, `handle_write`, `handle_connect`, `handle_read_header`, `handle_read_data`, `handle_read` | clients get the whole message, none holds up another, connections are released |
| Table status clients | `testclient.cpp`, `thrift/hbase_thrift_client.cpp` | `table_names`, the fold's accumulator | `printTablesStatus` and its older form | what is printed was true of one moment; the fold ends |
| Demo table | `thrift/testclient.cpp` | a table in HBase, a scanner in the gateway | a fixed sequence of table and row operations | its assertion holds, "shouldn't get here" is not reached, scanners are closed |
| Thrift interface | `thrift/hbase_thrift/gen-cpp` (generated) | the connection, each call's number, `result` of the processor | the 45 methods' structs; `HbaseProcessor`, `HbaseMultiface`, `HbaseClient`, `HbaseConcurrentClient` | a reply reaches the call it belongs to; a call reported as done has been done |
| Messages of the coprocessor | `RowCountRPC.proto`, `RowCountRPC.java` (generated) | - | - | - |
| Data model, utilities, bootstrap script, build files | `model/`, `utility/`, `boostrap_velassco.sh`, `CMakeLists.txt` | - | - | - |

How they interact.  The ranks of a renderer are processes of one MPI job: they
meet in collective calls (`MPI_Barrier`, the duplicate of `MPI_COMM_WORLD` that
`icetCreateMPICommunicator` makes, `MPI_Finalize`) and send images to the rank
that displays the tile inside `icetGLDrawFrame`.  Within a rank GLUT runs
callbacks one at a time: `InitIceT` when the window has to be redisplayed,
`DoFrame` when there is nothing else to do, `reshape` when the user resizes the
window.  Each rank of the rendering server has a particle server of its own, on
port `port + rank`; each rank of the HBase renderer asks the Thrift gateway for
the same row by itself.  The HBase renderer, the status clients and the demo
client talk to that gateway with `HbaseClient`, one connection each; nothing but
HBase's tables connects them.  The coprocessor runs in a region server next to
whoever writes to the region, and the row count client calls all regions of a
table in parallel.

What is hard here: ranks that run at their own pace and are tied together by
little more than the order of their images; ranks that fail while others wait
for them; callbacks in an order GLUT decides; a byte stream that arrives in
pieces; a scan that arrives in batches while the region changes; threads that
read each other's replies from a shared connection; a connection that breaks
between a request and its reply; timestamps that may not differ; regions that
split while they are counted.  The list of hazards with their lines is in
`PROJECT.json`.

## 2. The modules

| Module | Models | Remarks |
|---|---|---|
| `Loader` | what `main()` relies on when it loads particles | abstract: finished once, or failed |
| `Connector` | `connect`, `readJSON`, `deserializeJson` of a rank and its particle server | implements `Loader` |
| `RenderServer` | the MPI job of `server.cxx` | its loading step is `Loader`'s |
| `Slices` | chunk and slice of a rank (`Draw` of `ice_tHbase.cpp`) | operators only |
| `HBaseRenderer` | `ice_tHbase.cpp` | extends `RenderServer` and `Slices` |
| `Counter` | what a count promises while others write | abstract |
| `RegionCount` | `getRowCount`, `getKeyValueCount` | implements `Counter` |
| `CountJob` | `testRowCountCoprocessor` | its calls are `Counter`s |
| `ThriftStruct` | the read and write loops of generated structs | operators only |
| `HbaseTypes`, `HbaseMethods` | the fields of all structs, arguments and results | data only |
| `Rpc` | what a call of the gateway promises | abstract |
| `ThriftRpc` | processor, `HbaseMultiface` and both clients | implements `Rpc` |
| `DemoTable` | `thrift/testclient.cpp` and the table it works on | |
| `TablesStatus` | `printTablesStatus` in both forms | extends `DemoTable` |
| `AsyncServer` | the asynchronous server, its clients and their messages | |
| `ByteOrder` | `fromBytes`, `toBytes`, `reverse` | |
| `MC...` | instances for TLC | |
| `Renderers_proofs` | theorems about `RenderServer`, `Slices` and `HBaseRenderer` | |
| `TablesStatus_proofs` | theorems about `DemoTable` and `TablesStatus` | |
| other `..._proofs` | theorems about the module of that name | |

Operators named after a definition with an underscore and a suffix
(`OpenWindow_NoBarrier`) are mutants: plausible mistakes in the code that a
definition models.  No specification uses them.  They show of each property
that it would notice: with the mutant in the place of its definition TLC finds
the property violated.

### Connector

One rank against its particle server.  `pc` follows `main()` from `connect()`
(`"resolve"`, `"dial"`) through `readJSON()` (`"read"`, `"parse"`) to `"loaded"`
or `"dead"` (an exception leaves `main`).  `connect()` swallows every exception,
so `Resolve` and `DialDone` go on to `"read"` with a null or an unconnected
socket.  Byte *i* of the document is the number *i*, and a read returns any
non-empty part of what has arrived, at most `BufSize` (128 in the code) bytes.
A full read leaves no room for the NUL byte and `m_buffer << tmp` copies on to
the next NUL in memory: `Trailing` is the set of what may lie in between.
`m_socket` outlives its `io_service`, a local of `connect()`; a read through it
may work or crash (`ReadCrashes`).  JSON is abstracted to one question, whether
the document is whole: `read_json` rejects a document that breaks off, and may
or may not notice foreign bytes in it.

### RenderServer

`pc[r]` is the place of rank *r*: `"start"`, `"load"`, `"barrier"`, `"window"`,
then GLUT's `"loop"`, inside `DoFrame` `"draw"` and `"compose"`, and
`"finalize"`, `"exited"` or `"dead"`.  `entered[r]` counts the collective calls
it has entered; one returns when all ranks have entered it.  `icetGLDrawFrame` is
`StartFrame`, `SendImage` (Draw is done) and then `FinishFrame`, or on the
display rank `ComposeFrame`, which takes the oldest image of every rank.
`MaxAhead` bounds the images a rank may have under way; MPI sends block at some
such bound.  An angle is the number of steps of 0.1 degrees.  With four or more
ranks the code takes another branch, but adds the same single tile; so
`DisplayRank` is always 0.

`DisplayFirst` says whether GLUT runs the display callback before the first idle
callback.  The code has no say in this.  If it is false, a rank may skip frames:
`icetGLDrawFrame` without a draw callback and tiles reports an error and returns.

A rank that dies takes the job with it (`Abort`), as `mpirun` does; closing a
window exits the process.

### HBaseRenderer

`row` is the set of columns of the row that all ranks ask for, which other
clients change (`WriteRow`).  Columns are numbers, in the order of their names:
coordinates, columns of another kind, and columns so short that `substr` throws
`out_of_range`, which `catch (const TException &)` does not catch.  A Thrift
error leaves `frame` null (`FetchThrows`), and `Draw` dereferences it
(`DrawCrashes`).  There is no barrier, no argument check and no frame counter.
The rest of the steps are those of `RenderServer`: `InitIceT`, `reshape`,
`DoFrame` and the end of the animation are the same code in both programs (the
angle counts in steps of 0.4 degrees).

### RegionCount

One call of either handler.  `cells` is the region, which other clients write to
(`WriteCell`).  HBase is external: a scanner delivers, in key order and in
batches of its choice, the newest version of each column at the moment it was
made (`snapshot`), `FirstKeyOnlyFilter` the first cell of each row; `next` may
say there is more when there is not; calls may throw.  Both handlers share the
actions; `getKeyValueCount` counts every cell and has no `lastRow`.

### CountJob

`ListRegions` is the moment HBase's client lists the regions: `keys` are their
first keys, and `call[k]` the state of the call for key *k*.  The call goes to
the region that holds *k* when it gets there (`Holder`), so a split in between
leaves the new half uncalled.  `Take` is the moment of the region's count, which
module `Counter` leaves open.  `Answered` puts the answer into `results` under
the region's name, `NoResponse` is every way to get a null response, on which
`hasCount()` throws.  The futures are waited for in key order, and what the first
failed one has thrown leaves `main` (`Rethrow`).

### ThriftStruct, HbaseTypes, HbaseMethods

The generated `read()` and `write()` of about a hundred structs are one loop with different
fields.  A struct is a set of fields (`Binary(1, "tableName")`); its value is a
function from the members that are set; on the wire it is a set of ids with a
type and a value.  `Takes` is the condition of the `switch`, id and type; what no
case takes is skipped.  `WriteResult` is the chain of `else if` with which a
result is written.  `HbaseTypes` and `HbaseMethods` list the fields of each struct
in the order of the code.

### ThriftRpc

One connection.  `client` says which client the program uses: `HbaseClient` from
one thread, or `HbaseConcurrentClient` from several.  `pc[t]` is where a thread
is: `"number"` (taking a sequence number), `"send"`, `"recv"`, and in the
concurrent client `"look"` (it holds the read lock and has the next message in
front of it) and `"wait"` (in `waitForWork`).  The processor works on the first of
`requests`; `step` is the implementation of an `HbaseMultiface` it calls next,
beyond which there is the reply.  `result` is what came of it, and `made[t]` a
record of the calls carried out for thread *t*, which no code reads.

A message is sent and received as a whole.  An answer has a kind: `"return"`,
`"throw"` (an exception the method declares), `"application"`
(`TApplicationException` sent by the processor), `"missing"` (the exception for a
result without a value), `"garbled"` (a message that is not the reply) and
`"transport"`.  The processor's gateway may be newer than the client: its structs
carry fields (`Foreign`) that this version skips, and its methods may throw
exceptions this version does not know.  Locks, monitors and numbers belong to
Thrift's `TConcurrentClientSyncInfo`, outside the repository; they are modelled
with its sentries as the generated code uses them.

### DemoTable

`pc` is the next call before and after the loop, `step` the place in `Body`, the
loop's calls for row `i`.  The table is a set of cells with timestamps and a set
of deletion marks; a cell shows if it is newer than every mark of its column
(`Visible`).  `now` is the region server's clock, which may or may not move
between calls (`Tick`) and moves during the 50 ms pause (`Poll`).  `IOError` is the
exception that scanners and `get` catch, `OtherException` any that ends the
program.  What rows contain is abstracted to numbers, and so are row keys, in the
order of their names.

### TablesStatus

`printTablesStatus` asks for the names, then goes over them: `names` are those left,
`acc` is the fold's accumulator.  The newer form also asks for the table's
regions and counts all tables, the older one only the enabled.  `DemoTable` runs
at the same time; `counts` records how many tables were enabled at each moment.

### AsyncServer

`conn[c]` is the server's end of client *c*'s connection, `sent[c]` and `got[c]`
the bytes written and read.  A message is `HeaderLen + DataLen` bytes.  The
handlers of the server run one after the other; the operating system carries
out the transfers of all connections at once, with at most `Window` unread bytes
per connection.  `decodable` is false if the archive holds numbers that no
archive reads: `initparticles` leaves mass and volume uninitialised.

### ByteOrder

One action per loop turn; `c[k]` is `c.bytes[k - 1]`.  The union keeps its bytes
from call to call.

## 3. What the runs check

Deadlock is checked in every run but `resize`, in which `DisplayFirst` is false: a
rank that skipped a frame may then leave the display rank waiting for an image
for ever.

| Run | Instance | Properties | What it shows |
|---|---|---|---|
| `loading` | 5 bytes, buffer of 3, two addresses, foreign bytes behind the buffer; 540 states | `TypeOK`, `WholeOrOverran`, `ImplementsLoader` | the whole document or a dead rank, in the end, except through an overrun |
| `frames` | 3 ranks, 4 frames, `frame` wraps at 1, 2 images ahead, right and wrong command line; 3 168 states | `TypeOK`, `CoherentFrame`, `NothingLeftAtFinalize`, `SkewBounded`, `Terminates`, `ImplementsLoader` | pictures show one moment; no rank runs away from the others; the job ends with nothing under way |
| `resize` | 2 ranks, 2 frames, 2 window sizes, idle callback possibly first; 15 210 states | `WindowsAfterLoad`, `TileFollowsWindow` | the barrier, and the tile after any resizing |
| `hbase` | 2 ranks, rows of up to 3 coordinates and columns of the other kinds, one concurrent change; 41 200 states | `HTypeOK`, `EachParticleOnce`, `NoPictureWithoutFrames`, `HTerminates` | slices, missing frames, failing ranks |
| `region_count` | 2 rows, 2 columns, 2 versions, any content, one concurrent write; 180 554 states | `TypeOK`, `ExactCount`, `CleanExit`, `ImplementsCounter` | both counts are exact and linearizable; scanners are closed |
| `async_server` | a client that reads and one that may stall, message of 3 bytes, 2 in transit, 2 addresses; 21 064 states | `TypeOK`, `PrintsWholeMessage`, `NotHeldUp`, `Released` | no partial message, nobody held up, no connection kept |
| `byte_order` | values of 3 bytes of 2 values; 736 states | `TypeOK`, `Converts` | every sequence of calls converts right |
| `thrift` | all 45 methods through `HbaseClient`; two threads and two methods through `HbaseConcurrentClient`; two implementations, one method the gateway does not know, fields and exceptions of a newer gateway, a connection that may break; 81 887 states | `TypeOK`, `Matched`, `SuccessMeansDone`, `ImplementsRpc` | each caller gets the outcome of its own call or is told that it cannot know; no thread waits for ever |
| `tables` | demo_table and one more table, rows 0 and 1, clock standing still or moving, errors at any call, either status client; 122 058 states | `TypeOK`, `AssertionsHold`, `LatestKept`, `ScannersClosed`, `OneMoment`, `BothEnd` | the demo's assertions hold; what a status client prints was true of one moment |
| `count_job` | 4 keys, 2 regions, one row put, one split; 47 659 states | `TypeOK`, `OneLinePerRegion`, `SumBracketed`, `CallsCount`, `JobEnds` | one line per region, a sum between the counts before and after, or an exception |

Two runs show where the program does not do what its comments say:

| Run | Comment | What happens |
|---|---|---|
| `loading_overrun` | `connector.h` 56-57: buffer overruns are prevented | a read of exactly 128 bytes leaves no room for the NUL, and what lies behind the buffer is taken for data (line 79) |
| `key_value_versions` | `VelasscoCoProcessorCountRows.java` 85-87: all KeyValues | a plain `Scan` delivers only the newest version of a column |

Other comments and messages the code does not live up to, which the models take
from the code and for which a run would only repeat the line:

- `server.cxx` 179-181 says IceT is set up before `icetGLDrawFrame()`; nothing but
  GLUT's order of callbacks makes it so (`DisplayFirst`).
- `server.cxx` 356-359 says that ranks synchronize and then swap; they swap without
  meeting.  `SkewBounded` is what does hold.
- `server.cxx` 208-215 says tiles on ranks 0 to 3; the calls but one are commented
  out.
- `thrift/testclient.cpp` calls a scan of all rows and columns what starts at
  "00020" (to "00040"), which the loop's rows never reach; `testclient.cpp` 82
  promises an "N" for tables that are not enabled, which `printTablesStatus` does
  not print.
- `binaryConverter.h` 35: `toBytes()` returns a pointer into the converter, so a
  second call overwrites what the first returned; callers would have to copy.

### The bounds, and why they are enough

- `Connector`: a document longer than the buffer is needed for several reads, and
  a buffer of three bytes for reads that fill it and reads that do not.  Two
  addresses let the first one fail.
- `RenderServer`: three ranks, because two senders can differ from each other as
  well as from the display rank; two images ahead, because with one the queues
  keep the ranks in step; four frames, so that `frame` (0..1) wraps within the
  animation.  In `resize` two ranks suffice, as the tile is each rank's own.
- `HBaseRenderer`: three particles on two ranks leave one over; no particle, one
  and two are in the instance as well.
- `RegionCount`: two rows of two columns give every case of a row's cells in one
  batch or in several; two versions, those `Newest` drops.
- `AsyncServer`: a window smaller than the message is what makes a client that
  stalls stop a write.
- `CountJob`: two regions, so that one can fail and the other answer, with the same
  count or another one; one put and one split are those whose order against two
  calls matters.
- `ThriftRpc`: every method needs its fields in the right place, so each argument
  and result has a value that names its field, and all methods are called.  What
  happens between threads does not depend on the method: two, one with a result
  and one without, are shared.  Two threads with two numbers are the least that
  can meet each other's replies; the theorems are for any number.
- `DemoTable`: a second row finds whatever the first may have left behind.  The
  clock has one step to spare besides those the pauses force.
- `ByteOrder`: an odd number of bytes has a middle byte that `reverse` must leave
  alone.

`MaxWrites`, `MaxAhead`, `MaxEndpoints`, `Window`, `MaxNow`, `MaxPuts`, `MaxSplits`
and `LastAngle` are the bounds
on what would grow without end; each is in a guard.

### Fairness

Every specification assumes weak fairness of the steps of processes, and of
nothing that a user, the network or another client may do or not do.

- `RenderServer`, `HBaseRenderer`: a process that can go on does, GLUT dispatches a
  pending display callback, and the launcher aborts a job that lost a rank.
  Resizing and closing windows are not fair.  The Thrift gateway answers or
  breaks the connection; the client's socket has no timeout of its own.
- `Connector`: the rank and the particle server run on; the server need not die.
- `RegionCount`: the handler runs on, and a scanner's call returns or throws.
- `CountJob`: `main` runs on, and each call ends, as HBase's client gives up after
  its retries.  Puts and splits are not fair.
- `ThriftRpc`: the gateway works on what it has received, and each thread proceeds
  when it can.  Nobody has to call, and the connection need not break.
- `TablesStatus`: both programs run on, as the gateway answers or the connection
  breaks.  The clock need not move and no error need occur.
- `AsyncServer`: both event loops run on and TCP delivers, but a client in
  `MayStall` need not read or connect.

## 4. What is proved

All theorems hold for every value of the constants that satisfies the module's
assumption (positive sizes and numbers of ranks, a model value that is none of
the others, finite sets of rows, columns and tables, structs whose fields have ids and
names of their own).  TLC evaluates these assumptions in the runs.

**Connector** (`TypeCorrect`, `WholeDocument`, `LoadsAsPromised`).
`WholeOrOverran` is not inductive: it speaks of a loaded rank only.  The
invariant adds `Assembled`: until a read fills the buffer, `m_buffer` is the part
of the document received so far.  A read extends it by the next part (adjacent
parts of a sequence); at the end of the stream a document that does not break
off must be the whole one.  `LoadsAsPromised` is the safety part of
`ImplementsLoader`: initial states map to initial states of `Loader` and every
step to a step or a stutter.

**RenderServer** (in `Renderers_proofs`: `TypeCorrect`, `BarrierHolds`,
`LoadedOrDead`, `PicturesAreCoherent`, `FinalizeComplete`, `RanksStayTogether`,
`TilesFollow`).
*Types*: `TypeInv` adds that only a rank whose angle is within the animation
draws, without which `angle` could leave its range.
*Barrier*: a rank that has entered its first collective call has its particles
and a rank past the barrier has seen all enter (`BarrierInv`).
*Loading*: a rank has nothing before it loads (`LoadInv`), and any step either
loads its particles or leaves them alone and raises no rank from the dead
(`RankStep`); so every rank's loading is a `Loader`'s, as far as safety goes.
*Pictures*: `CoherentFrame` speaks of what is on display; `CoherentInv` of what is
under way.  The images a living rank has sent and the display rank has not
composed are consecutive frames, starting with the display rank's next one, and
what is on display is the frame before.  Hence the number of frames a rank has
sent is the display rank's angle plus the length of its queue: this is what
ties the ranks together in the absence of a barrier.  Dead ranks are excepted
from the count but not from the content.  The condition `DisplayFirst` is
needed: a rank that skips frames breaks the count.
*Finalize*: the display rank leaves the animation at `LastAngle + 1`, and no rank
can be ahead of that.
*Skew*: the same invariant, extended to ranks that died between sending an image
and counting the frame (`ReachInv`), bounds every rank's angle by that of the
display rank and the length of its queue, and so any two ranks' by each other.
*Tiles*: `TileFollowsWindow` is inductive: whatever makes a window differ from its
tile also makes GLUT owe a redisplay.  This needs no condition on the order of
callbacks.

**Slices** (in `Renderers_proofs`: `SliceInBounds`, `SlicesDisjoint`, `RestIsRemainder`).
Arithmetic of `chunk = size / n`: no slice leaves the frame, so the unsigned
products of the loop do not wrap; two ranks share no particle; what is left over
are exactly the last `size % n` particles, which no rank draws.

**HBaseRenderer** (in `Renderers_proofs`: `HTypeCorrect`, `PicturesNeedFrames`,
`ParticlesDrawnOnce`).
`NoPictureWithoutFrames` speaks of pictures; `FrameInv` adds that an image under way
comes from a rank that has its frame, and that a rank keeps the frame it has
loaded.  A picture needs an image of every rank, so it needs every rank's frame.
`EachParticleOnce` puts the slices together with the row.  `InOrder` lists each
coordinate exactly once: a column's place is the number of columns before it, and
these numbers grow from column to column (`BeforeGrows`).  So two
places of a frame hold two particles, disjoint slices draw disjoint particles, and
the particles that are missing are as many as the places left over
(`FrameIsDivided`).  That images are of frames (`DrawnInv`) follows from `FrameInv`.

**AsyncServer** (`TypeCorrect`, `PrintsWhole`).
`TypeOK` orders the bytes: what a client has read was sent, and what was sent
belongs to the message.  With it `PrintsWholeMessage` is inductive.

**ThriftStruct and ThriftRpc** (`RoundTrip`, `ReplyMeansOutcome`, `TypeCorrect`,
`MessagesMatched`, `SuccessIsReal`, `CallsAsPromised`).
*Structs*: with ids and names of their own, a field that is written is taken by
exactly one case, and that case takes nothing else, also with foreign fields on
the wire; hence `RoundTrip`.  From it follow what the processor reads of the
arguments and, as a result has at most one member, what the client makes of a
reply.  That the fields of HBase's interface are such is `ServiceAssumption`, which
TLC evaluates for all 45 methods and their structs.
*Calls*: the invariant has five parts.  `TypeInv` types the messages: a reply's body
is the result of a method that is its name.  `SyncInv` says that a number belongs to
one thread, that `HbaseClient` is used by one, and that `pending` is the number
of the message to be read next.  `MessageInv` says that every message belongs to
one waiting thread and is its only one, as long as the connection is not marked
bad.  `ResultInv` and `RepliesInv` carry what the history says from the
implementation to the processor's `result`, to the reply, and to its owner:
without `MessageInv` the reply could reach another thread, whose history says
something else.  Once the connection is marked bad no call returns normally any
more, so for `SuccessIsReal` nothing need be known of the messages.
*Refinement*: `Rpc` asks for more, namely that a call is carried out at most once,
also when the connection has been marked bad and the gateway still works on
what it has received.  `OnceInv` says so without condition: no two requests have
the same number, a request whose caller still waits is that caller's own call, and
until the processor has called the last implementation the history has nothing
of it.  `ExceptInv` says that an exception in place of a reply stands for a call
that was not carried out or has thrown what its method does not declare;
`PendingInv`, that the message whose header has been read has an owner that
waits, so that no thread is handed a message of nobody.  With these every step is
one of `Rpc`'s or changes nothing a caller can see.

**DemoTable and TablesStatus** (in `TablesStatus_proofs`: `TypeCorrect`,
`AssertionsNeverFail`, `LatestStays`, `ScannersAreClosed`, `PrintsOneMoment`).
`RowInv` says how far the row has come at each step of the loop's body: since the
pause no mark of num or sqr is as new as the clock (`MarksPast`), then foo is
deleted no earlier than it was written (`FooGone`), then there are a num and a sqr
newer than all else in their columns (`Written`).  That the clock does not go
back keeps each of them; that the pause moves it is what makes the first true.
Nothing is assumed of what earlier rows left behind.  `FoldInv` ties the lines of a
status client to the tables: of the others, whose state nobody changes, those
asked and enabled; of demo_table, that its state when it was asked belongs to a
number of enabled tables there has been.

**RegionCount** (`TypeCorrect`, `CountIsExact`, `ExitIsClean`, `CountsAsPromised`).
`ScanInv` says that the scan goes forward: what is counted comes before what is
left, and an unfinished batch before the rest.  `CountInv` says that `count` is
the tally of what is counted and `lastRow` its last row.  The two together give
the step: a cell whose row differs from `lastRow` opens a new row, since all
counted rows are at most `lastRow` and the cell's is at least that.
`ResponseInv` ties the response to an exhausted scan.  `CountsAsPromised` is the
safety of `ImplementsCounter`: the count's moment is the one the scanner was made
at.  It needs that a scan delivers what there is to count (`ScanIsWhole`): a column
has exactly one newest cell and a row exactly one first column, as finitely many
numbers have a greatest and a least.

**CountJob** (`TypeCorrect`, `LinePerRegion`, `SumIsBracketed`, `CallsCountOnce`).
A call goes to the region that begins with its key, since a first key stays one
when regions split; that region ended before the next key called, and has shrunk
only if there was a split (`TargetInv`).  So two calls have two lines, which is
`OneLinePerRegion`, and the regions called are disjoint.  `ValueInv` brackets
each line between the rows its region had when the calls were started and those
it has now.  A sum of counts is the number of pairs of a line and a number up to its
count; such pairs can be numbered by the rows of disjoint regions (`SumAtMost`) and
number them if the regions cover the table (`SumAtLeast`), which gives
`SumBracketed`.  `CallsCountOnce` is the safety of `CallsCount`: each call is a
`Counter`.

**ByteOrder** (`TypeCorrect`, `Conversion`).
Loop invariants: the first *i* bytes are in place (`FromInv`); the outer *i* bytes
on either side are swapped and the inner ones untouched (`ReverseInv`).  At the end
of `reverse` a byte that is not swapped is its own mirror image.

These theorems state every invariant the runs check, `ByteOrder`'s action property
and the safety of every refinement.  The refinements fit together: `RegionCount`
shows that a coprocessor's call is a `Counter`, and `CountJob` uses its calls as
nothing else; `Connector` shows that a rank's loading is a `Loader`, and
`RenderServer`'s loading step is that.

Only model-checked: liveness (`Terminates`, `HTerminates`, `NotHeldUp`, `Released`,
`BothEnd`, `JobEnds`, and the liveness in `ImplementsLoader`, `ImplementsCounter`,
`CallsCount` and `ImplementsRpc`), which this prover cannot do under fairness, and
that no state is a deadlock.

## 5. What is not modelled

- OpenGL and IceT beyond who draws what for whom; colours, matrices, images.
- JSON, the text archive and the contents of particles: a document or an archive
  is whole or not, readable or not.
- What IceT does when ranks disagree about the size of a tile, which a resized
  window causes; the code leaves it open.
- Ranks of the HBase renderer that read different versions of the row: the code
  does nothing about it, and `EachParticleOnce` is stated for equal ones.
- The particle server's `jar` beyond its socket; MPI's, GLUT's and HBase's own
  failures beyond a lost process and an exception.
- `convert_union`, `convert_cast`, `IntegerToBytes`, `printHex`: nobody calls them.
- The printed server skeleton, Thrift's transports and binary encoding, event
  handlers, `swap`, `printTo` and accessors of the generated classes; the encoding
  of the coprocessor's messages.
- `scanTable` of `VelasscoScan`, which nothing calls; `start` and `stop` of the
  coprocessor, which HBase calls once each.
- Two demo clients on the same table: the program is meant to own it.
- The data model, utilities, the bootstrap script and the build files (see
  `PROJECT.json`, each with its reason).

## 6. Plan

The rendering job came first, then what feeds it, then counting and conversions,
and then the clients of HBase and the interface they share.  What would add most
from here:

1. State predicates that liveness rests on, proved for all sizes: in which states
   somebody can go on, so that the runs have only to show that going on ends.
2. HBase renderer and demo client through `ThriftRpc` instead of calls that are
   one step, to see the gateway's failures in their place.
