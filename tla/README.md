# acq400_chapi in TLA+

A verification project for `acq400_chapi`, the C++ host API of D-TACQ's ACQ400
data acquisition units (a *UUT*) and the programs built on it.  The modules are
written from the source under `src/`; `PROJECT.json` maps every definition that
models code to the lines it stands for.

## 1. The system

| Part | State | Operations | Talks to |
|---|---|---|---|
| `Netclient`, `Siteclient` (`acq400_chapi.cpp` 61-181) | socket, `buffer` that outlives a call | constructor ("prompt on"), `sr`, `_sr`, `receive_message` | one site service of the UUT (port 4220 + site), a TCP byte stream of commands and answers that end in a prompt |
| `Acq400` commands (183-282, 398-421, 425-462) | `sites`: a `Siteclient` per site, connected when first used | constructor, `set`, `get`, `set_playloop_len_disable`, `stop_awg`, `select_awg_seg`, `wait_for_ready` | its `Siteclient`s |
| bulk output (308-395; `awg_loader` in `acq400_chapi.h`) | a descriptor in the caller's hands | `stream_out`: poll, read and drop text, write, half close | an AWG port of the UUT |
| bulk input (283-306) | one `FILE*` per `Acq400` | `stream_open`, `stream` | stream port 4210, DATA0 |
| `acq400_load_awg_seg`, `_oneshot` | segments, file size, trigger stash, SIGINT flag | configure, load segments, select segments until SIGINT | site services, `AWG_SEG_SEL`, load ports |
| `acq400_stream_awg` | threads, file list or stdin, repetitions | one worker per UUT: wait, get data32, stream the files | all of the above, in one process with one stdin |
| `acq400_multistream`, `acq400_stream` | threads, one output file per UUT or stdout, `maxbytes` | one worker per UUT: wait, set up, capture | the same |
| `Unpack24` | none | 24 bit samples to 32 bit words, byte-wise or word-wise | its two streams |
| `acq400_spad_frame_decoder` | four sample slots, residue, counters | read four samples, validate, number, count DI edges, write | stdin, stdout |
| `acq400_upload` | state strings | arm, poll the state, upload | site 0, DATA0 |
| `awg_rtm_stream.sh` | two background jobs | configure two UUTs, prime the trigger, play, capture | the programs above, `nc` |
| test programs, `soft_trigger`, `wait_for_ready` | none | call the API once | |

What is hard to get right here:

* **Framing.**  TCP delivers an answer in arbitrary chunks; the client looks for
  the prompt in one chunk at a time, keeps the rest in a buffer and drops what is
  behind a prompt.
* **Failure.**  `error()` ends the process from inside the library; `exit(1)` in
  the middle of a set-up leaves the UUT half configured; `stream_out` returns -1
  to callers that do not look.
* **Events in any combination.**  `poll` reports input, room, error and hang-up
  together, in a loop that reads, writes and decides in a fixed order.
* **Signals.**  SIGINT may arrive before, in or after a system call;
  SIGPIPE ends a process that has threads for other UUTs.
* **Streams cut anywhere.**  The SPAD decoder has to stay in step with a sequence
  of four subframes that may start anywhere, and with samples lost or damaged.
* **Return codes.**  0 is success for `get(..., int&)`, the length of the answer
  for the other `get` and `set`, and callers mix them up; an empty answer is a
  success that leaves the caller's variable as it was.
* **Ends half way.**  A write that returns a short count is taken for a whole one,
  an `fread` that returns a short count leaves old data in its buffer, and a
  program that exits in its set-up leaves the UUT as it is.

What makes each part correct:

* Siteclient: the reply to a command is the answer to that command; nothing is left
  over between commands; the call comes back.
* Acq400: the commands for a site go through one client of that site.
* stream_out: bytes in order, none twice, none left out; a transfer is given up on a
  dead connection only; the loader waits for the UUT; it ends.
* acq400_stream_awg: every pass streams every file, whole and in order; the passes are
  one more than the repetitions asked for (`++reps > G_reps`), which is taken as it is
  because no document says what a repetition is.
* acq400_load_awg_seg, _oneshot: segments are selected in the order given; playing is
  enabled last, and a program that ends half way has left nothing that can be
  triggered; a closed descriptor is never used; SIGINT ends it; the play buffers fit
  the UUT and hold the file.
* SPAD decoder: each row has the number of its sample, and each sample one row; damage
  stops it; sound streams pass; edges are counted once.
* acq400_multistream: each file is the stream of its UUT, as it is really sent,
  whatever happens to the others, where the UUT's answers or the user say how it is
  made up; `maxbytes` is kept; a capture stops for a reason.
* Unpack24: both unpackers compute the same words, with the ids the decoder wants.
* acq400_upload: what is uploaded is the shot that was armed, all of it unless the
  connection breaks or the disk is full.
* awg_rtm_stream.sh: the trigger opens for an AI armed for this capture, and then
  does; no child outlives the script.

## 2. Modules

| Module | Models | Proofs |
|---|---|---|
| `CommandChannel` | abstract: what callers of `sr()` are promised | |
| `Siteclient` | `Netclient`/`Siteclient` on a byte stream | `Siteclient_proofs` |
| `Acq400` | the constructor and the map of clients; extended by `Upload` | in `Upload_proofs` |
| `BytePipe` | abstract: what a bulk transfer is | |
| `StreamOut` | `stream_out` under `awg_loader` and under a worker of `acq400_stream_awg` | `StreamOut_proofs` |
| `LoadAwgSeg` | `acq400_load_awg_seg` and `_oneshot`: commands, selection, SIGINT | `LoadAwgSeg_proofs` |
| `LoadAwg` | their arithmetic: size of the play buffers, ports | `LoadAwgSeg_proofs` |
| `SpadDecoder` | `acq400_spad_frame_decoder` | `SpadDecoder_proofs` |
| `Unpack24` | both unpackers of a scan, as functions | `Unpack24_proofs` |
| `Multistream` | the threads of `acq400_multistream`, or `acq400_stream`, with `wait_for_ready` and bulk input; extends `Unpack24` | `Multistream_proofs` |
| `Upload` | `acq400_upload` against a shot that runs by itself | `Upload_proofs` |
| `RtmStream` | `awg_rtm_stream.sh`, its background job and its player | `RtmStream_proofs` |
| `MC...` | the instance TLC checks | |

### Siteclient and CommandChannel

`pc` is where the client's thread is: not connected, in the constructor, in the
caller, in the `recv` loop, ended.  `buffer` is `Netclient::buffer`, `nrx` the
local of `receive_message`, `replies` what `sr()` returned.  The wire is
`toUut` (commands by number) and `toHost` (bytes).  `Send` is `_sr` up to the
first `recv`, `RecvMore` a chunk without a prompt, `RecvPrompt` the chunk that
completes a reply with all that follows in the code (position, clamp, trim,
copy, clear), `RecvClosed` the failing `recv`.  `Serve` and `Down` are the UUT.
A byte of an answer carries the number of its command; text, prompt, newline and
zero are all the properties tell apart.  `buffer(4096)` in the constructor makes
a vector of 4096 zeros, not an empty one: `Init` has them, and the first reply
(the constructor's own) is the empty string with return code 64.

`CommandChannel` says what a caller sees: commands executed one at a time, each
returned with its own answer.  `Siteclient!ImplementsChannel` is that
specification under the mapping served = answers, returned = reply texts, both
without the constructor's, open = the process lives.

### Acq400

`sites` is the map of the class, with 0 for its null pointers, and `clients` the
sites to which a client was connected, in that order.  `New` is the constructor,
which asks site 0 for the list of the others and then sets all of the list to 0
(and its own client of site 0 with it, if the UUT lists that site); `Use` is the
lazy connection in `set` and `get`.  `Upload` calls `New` in `Construct` and `Use`
in each of its commands.

### StreamOut and BytePipe

`awg_loader` and `streamer` differ in what follows the last chunk: a call with
`maxbuf = 0` (half close, then the same loop until the UUT hangs up) or
`close`.  One turn of the loop is four steps, `Poll`, `In`, `Write` or
`WriteFails`, `Check`, and the UUT and the network move between them.  A byte is
a file and a position in it.  `Events` says what `poll` reports of a TCP socket in
each state.  `Reset` is a connection lost with data unread, `UutEnds` and
`Refuse` a UUT whose process ends first and whose kernel then answers data with
a reset.  `SigpipeIgnored` is what the environment of the process chose.

The streamer is a worker of `acq400_stream_awg`: `Setup` is `wait_for_ready` and
the `get` of `data32`, `OpenFile` and `FileEnds` walk the list, and `NextFile` has
the test `++reps > G_reps`, from which N repetitions are N + 1 passes.  The other
workers of the process appear by what they do to this one: `OtherReads` takes a
chunk from the stdin they share, `Killed` is an `error()` or a SIGPIPE of theirs,
or a signal, at any step.

`BytePipe` is what a caller may think of all this: chunks put in one behind the
other, accepted in pieces and in order, and a pipe that may break without anybody
being told.  `ImplementsPipe` is that specification with given = the bytes handed
to `stream_out`, taken = those on the way or read, broken = the connection reset.

### LoadAwgSeg and LoadAwg

`program` is `acq400_load_awg_seg` or `acq400_load_awg_oneshot`, whose set-ups
share their steps: `SegNext` and `OneshotNext` are the two orders, `Skips` what
`ACQ400_LAS_NOARM` leaves out.  `pc` follows `main`; a get or set is one step (the
channel above) that the UUT may refuse, which `uut.refused` remembers, or in which
the connection and with it the process is lost before or after the UUT executed
it.  `GetInt` is the return code of `get(..., int&)`.
`LoadFile` stops where the code does: `match_buffer_len` asks for a return code
greater than 0, none is, and the load behind it is unreachable.  What stands behind
it is therefore not part of the state machine but of `LoadAwg`, as operators: the
search for a number of buffers that divides the file, in the `int` the code uses,
and the port of a mode and a segment.  The selection
loop is modelled with the system call boundary that matters, before `poll`
(`enter`) and in it (`poll`), because SIGINT acts differently there.

### SpadDecoder

One `Read` (fread), one of `DecodeSet`, `NotValid`, `BadSequence` (decode), one
of `Write`, `WriteCut`, `WriteFails` (writev) make up `Sample::read`.  The stream is
any stretch of what a UUT sends, with one sample lost or damaged.  A sample keeps
its true number `n`, so that a row with another sample's number is seen.

`outfile` is option `-o`.  What reaches the output is a sequence of rows and of
other pieces: `ui()` prints to the same stdout (`Scrap`), and a `writev` that a
signal cuts short leaves whole rows and perhaps a part of one; its result is
compared with 0 only, so the program goes on (`cut`).  A short last `fread` leaves
the samples of the set before in the slots it did not fill (`stale`), and they are
decoded and written again.  Both are as the code has them; `RowsNumbered` and
`AllRows` say how far the damage goes: it stays within its own set.

### Unpack24 and Multistream

A scan is a sequence of bytes and a word a sequence of four; nothing depends on
what a byte holds, so masks and shifts are choices of bytes, and the byte at
position i of a stream can be i itself.  `ChId` is computed as `ch_id` does it; its
`|` is `Or`, bit by bit over a byte, which is enough for what is left of the id
(`Fleets` has at most 224 channels a site, so that the number of a channel fits).
It agrees with what `acq400_spad_frame_decoder` looks for up to 32 channels
(`IdsAsDecoded`) and not beyond: channels 32 and 64 have the same id.

Each thread of `Multistream` goes through the states of `worker_thread`: open the
file, connect, wait until ready (`Ready`, `NotFound`, `LooksOld`), set `pack24` and
`trg`, find out the format, open the stream, copy or unpack.  `Fatal` is `error()`,
`exit` or a failed `assert` in one of them, and ends all.  A read of the stream
(`Fread`) fills its buffer or meets the end of the stream, and is one step with
the write that follows.

What a UUT answers (`knob`) and what it sends (`sends`) are apart, because the code
derives the layout of a scan from the answers and may be wrong.  `FileIsStream`
compares the file with what is sent, and uses none of the operators by which the
program chooses.  It asks that of a UUT whose answers describe its stream
(`Described`): `NCHAN` of site 1 counts channels, `NCHAN` of site 0 all columns with
the SPAD words, and `spad` is the number of SPAD words, except that `spad=2,0,0` is a
SPAD_FRAME of one word; this is what the head of `acq400_spad_frame_decoder.cpp`
(16-18, 39-43) says.  The code reads two of these answers otherwise: it takes the
number of site 0 for channels (`acq400_multistream.cpp:164`) and the 2 for two words
(172-173).  `UserHelps` names what `ACQ400_NCHAN` or `ACQ400_NSPAD` must then say;
without it the file of such a UUT is wrong.  The run has both UUTs (`Site0`,
`SpadFrame4`), with the help and without.

An answer without text is a success to any `get` (`Empty`).  `FileIsStream` covers it
where it says no less than the UUT meant.  It does not cover a UUT that packs and
answers `pack24` with nothing (`Mute` in the run): its packed samples are copied as
they are.

Every `fwrite` may come back short (`FwriteShort`), with a later one complete again: a
disk that was full and has room.  The unpackers end there; `streamer` goes on, and its
file has a hole, but no byte twice or out of order.  The flush of stdio's buffer at
`fclose` or `exit` counts as part of the `fwrite` that filled it.  Of a word that was
cut an unpacker's file has a part, which is left out.

`program` is `acq400_multistream` or `acq400_stream`.  The second has one UUT, writes
to stdout, never unpacks, and ends when it has no `data32`.  A UUT may answer a `get`
of `data32` with nothing: `Data32` is then 0 in the first program and whatever was in
the variable in the second, which is a choice.  The targets, with what each UUT
answers and sends, are one of `Fleets`.

### Upload

`Construct` is the making of the `Acq400`.  `PollStart` and `PollIdle` are the two
loops of `capture()`, `Read` and `Write` the loop of `upload()`.  An `fwrite` may take
only a part of the buffer (`short`); the loop adds up what it took and goes on.  The
UUT takes `set_arm` and arms, is triggered and finishes by itself; it may refuse, or
be aborted by somebody else.

### RtmStream

`pc` is the script's next command.  Each command to a UUT is one step, which may
fail, and then `set -e` ends the script, or the subshell of `prime_trigger`.
`TrapTerm` and `TrapExit` run `cleanup`, which under `set -e` goes no further than
the first child it has.  The UUTs arm, abort and are triggered by themselves.

## 3. Runs

| Run | Question | Bounds |
|---|---|---|
| `siteclient` | reply matches command, lockstep, refinement, return | prompt of 2 bytes (it can be split), recv of at most 3, buffers of 2, answers up to 3 (longer than the buffer), "prompt on" and 2 commands |
| `siteclient_split` | finds: a prompt cut by `recv` is never recognised | same |
| `stream_out` | order, completeness, passes, false failures, refinement, end | files of 9 and 2 bytes in elements of 2 (one byte left over), chunks of 4, 3 on the way (a chunk does not fit), 0 and 1 repetitions and two passes of a repetition without end |
| `load_awg_seg` | order of selections, descriptor, enable, what a failure leaves, SIGINT | both programs; 3 arguments of 2 letters, 4 selections of which 2 unpaced, 2 on the way, 2 SIGINTs |
| `load_awg_seg_bufferlen` | finds: success of `get` is taken for failure | same |
| `spad` | numbering, completeness, validation, sequence, edges | streams of up to 9 samples (two sets and a residue), 4 starts, bytes with 4 values (the count carries), one input that changes twice, one short write |
| `spad_number` | finds: first set of a stream that starts mid-set is written shuffled | up to 7 samples from number 1 |
| `spad_stop` | finds: the residue of the first read is not validated | same |
| `multistream` | files, ids, limit, end of captures, short writes, answers that mislead | 11 kinds of UUT (16 and 32 bit; packed with 1, 3, 4 and 32 channels; SPAD_FRAME; number of channels only at site 0; empty answers to data32, pack24, NCHAN and spad; no data32), in two pairs and one by itself, also in `acq400_stream`; layout left open or given; 2 elements or scans in a buffer, limits none, 20 and 22 bytes, 6 reads, one short fwrite of nothing or 3 items for each stream |
| `upload` | own shot, all of it, end of polling, one client per site | 23 bytes of data (a short last read and an odd rest), 2 elements in a buffer, any fwrite short by any count, a UUT with no site, with site 1, and with sites 0 and 1 |
| `rtm_stream` | trigger order, children, traps | one script, its two children, two UUTs in any state |
| `rtm_stream_kill` | finds: a job outlives the script | same |

Each bound is the least with which the case of interest happens: an answer in
several chunks and longer than its buffer, a short write inside a chunk, a
selection loop that wraps and is interrupted with selections still unread, a
count that carries between bytes, a second file and a second pass, the 32 channels
up to which the ids hold.  Deadlock checking is off in all runs because
each of these programs ends.

The five violations are what the code does:

* **A split prompt hangs the client** (`acq400_chapi.cpp:117`): the regular expression
  sees one chunk at a time.
* **No segment is ever loaded** (`acq400_load_awg_seg.cpp:52`, also
  `acq400_load_awg_oneshot.cpp:55`, the program of the shortest trace): `get` returns
  0 on success and the caller wants more than 0.
* **Rows with the wrong number** (`acq400_spad_frame_decoder.cpp:446`): the residue is
  moved over the set before the set is written; it shows in the first set of a stream
  that does not start in subframe 1, the usual case according to the file's own
  comment.
* **Unvalidated samples** (`acq400_spad_frame_decoder.cpp:399`): the same residue is
  never looked at by `valid_sample`.
* **The job that opens the trigger outlives the script** (`awg_rtm_stream.sh:106`):
  `wait` returns 143 for the killed player, `set -e` ends `cleanup` there, and the job
  stays.  What it opens later, for whose ARM, is not in the run.

### Fairness

* `siteclient`: the thread in `receive_message` runs (`Recv`, `RecvClosed`), and
  a UUT that is up executes what it was sent (`Serve`).  Nothing makes a caller
  send or a UUT go down.
* `stream_out`: the thread runs, a UUT that is up reads what arrives and closes
  at the end of the data, and a kernel answers data for a process that is gone.
  The code itself assumes the UUT's part: its drain has no other end.  `Ends` asks
  nothing of a repetition without end, nor of the wait for a UUT in `Setup`.
* `load_awg_seg`: the program runs and the UUT reads selections.  Without the
  second, a SIGINT between the loop's test and `poll` would leave the program in
  a poll that nothing ends.
* `multistream`: a stream goes on or ends, so a read comes back.
* `upload`: the program runs, and a UUT that was armed is triggered and finishes;
  that is what the second loop waits for.  The run asks only for shots that a poll
  has seen: one that fits between two polls is waited for without end.
* `rtm_stream`: the subshell that asks for ARM runs as long as it lives.

## 4. Proofs

`Siteclient_proofs` proves, for every prompt length, chunk size, buffer size,
answer length and number of commands, the type invariant (with the bound on the
count that is used as an index), `RepliesOwn`, `Lockstep` and the refinement of
`CommandChannel`.  The assumptions are the two of `Siteclient`: sizes are
positive where the code has arrays, and the constructor's fill is at least its
`max_rx` (4096 and 64).

`RepliesOwn` and `Lockstep` are not inductive: they do not say what a half
received answer looks like.  `IInv` adds that at most one command is
outstanding, and that once it is executed the buffer followed by the wire is a
prefix of one exchange (zeros for the first command, answer, prompt).  The key
lemma is `LastChunk`: the prompt's first byte occurs once in an exchange, so a
chunk that holds a whole prompt tells where the answer ends and is the end of the
exchange; nothing dropped behind it was ever there.  The other lemmas say what
trimming, copying and clamping compute.  `IInv` was checked by TLC before it was
proved.  `ChannelKeepsPromise` goes on from the refinement: what the callers of
`sr()` build on (`ChannelPromise`: at most one command is ahead of its answer, and the
n-th return is a reply to the n-th command) follows from `CommandChannel` alone.

`Unpack24_proofs` proves that the word-wise and the byte-wise unpacker agree on
every scan, for every number of channels that is a multiple of 4 and every number
of SPAD words: by cases on the lane a channel has in its group of four.

`StreamOut_proofs` proves all safety invariants of `stream_out` and its callers, and
that it implements `BytePipe`, for all sizes of files, elements, chunks and sockets.
`InOrder` says nothing of the chunk in hand, so it is not inductive.  `IInv` adds
`ChunkInv`, which bytes of which file the chunk has; `TakenInv`, that what was taken
is a prefix of what was handed over and, on a connection that stands, short of it by
the rest of the chunk (maxbuf - nbytes); `ShutInv`, that only a loader at the end of
its file drains; `PeerInv`, what each event of `poll` tells about the connection.

`AllPlayed` says what was handed over when a worker is done.  `PlayedInv` says it at
every step, as long as no write failed: `reps` whole passes, then the files before the
one at hand, then the bytes of this one up to `pos`.  `AllPlayed` puts files and
passes one behind the other with `FlattenSeq`, a recursive function of the library.
`FlattenAppends` says that one more sequence goes behind the flattened others; it is
by induction on the length, and since the library's induction theorems take an
operator, `SetInduction` states induction for a set of naturals and proves it from
their well-foundedness.  From `PlayedInv` follows also `LoadIsFile`: a UUT that has
hung up at the end of a load has read every whole element of the file, byte for byte,
and nothing else.  `SharedStdinInOrder` is the promise that is left when workers share
stdin (`StdinInv`: what was handed over comes from before the common position): each
of them sends an increasing part of it.  TLC checked `PlayedInv` and `StdinInv` on the
instance of `stream_out` before they were proved.

`RtmStream_proofs` proves `TriggerAfterArm` and `PlayerKilled`.  `IInv` adds
`AiInv` (up to the capture the AI is idle and no abort is under way, so that an ARM
is a new one), `JobInv` (what the job sees is of this capture) and `PlayerInv`.

`Multistream_proofs` proves all safety invariants of the captures, for every fleet,
layout, buffer, limit and sequence of short writes; a fleet may answer and send what
it likes.  `IInv` speaks of one thread at a time, since threads share only the disk
and the process: `ConvInv`, the streamer is the one the code derives from the
settings; `BytesInv`, streamer's file has what was read, in order, and all of it as
long as no fwrite was short; `WordsInv`, an unpacker has read k whole scans and
written the words of all of them, or as many as the limit has room for, or has ended
after a short fwrite. None of this speaks of what the UUT sends.  That comes in with
`FilesAreStreams`: the lemma `FitsLayout` shows that wherever `Described` and
`UserHelps` hold the code's layout is the one that is sent, and `WordsInv` is then
about real scans.  `AppendedRising` shows that a part written behind a hole keeps the
order.  The words of n more scans are those expected behind k scans by uniqueness of
quotient and remainder (`OneQuotient`).  `IdsAsDecoded` rests on `IdOfChannel`, by
cases on the 32 channels.

`LoadAwgSeg_proofs` proves the safety invariants of both programs, for any number
of segments, arguments, selections and signals.  None is inductive.  `IInv` adds
`LoadInv` (G_segments are the arguments behind `ii`), `TriggerInv` (the trigger is
off from `disable_fp_trigger` on, not only once the play loop changes), `SocketInv`
(a closed descriptor means a flag that is set, and the loop as the next thing to
look at it), `TurnInv` (`iter` is a number of whole rounds and the place in the
present one) and `CountInv` (on a connection that works there was one selection a
turn).  `SelectedInOrder` follows at a `Send` from the last two and `PlaceInRound`,
which is what `%` gives for such a number.  The proof made one definition of the
model exact: the alternatives of `Selected` overlapped.

The same module proves two facts of `LoadAwg`.  `PlayLengthFits`: the length
that `match_buffer_len` sets is within the UUT's `bufferlen`, is not wrapped by the
`int` it is kept in, and the buffers it fills leave less of the file out than they
are in number; for files below 6 * 2^31 bytes and a `bufferlen` whose fourfold is an
`int`.  The code's comment has (4+2nn)*blp equal to the size of the file; that holds
only for sizes the number divides, and the theorem bounds what is left over of the
others.  `PortsApart`: no two pairs of mode and segment share a port,
nor does one with the stream, the selection or the oneshot load.

`Upload_proofs` proves the type invariant, `UploadsOwnShot`, `UploadsAll` and
`OneClientPerSite` for every size of the shot and of the buffer and every list of
sites.  `IInv` adds to them what they lack: `CopyInv`, that the file has no more than
what was read without the buffer in hand, and just that much as long as no fwrite was
short; `ShotInv`, how far the shot can be in each phase of the program, as long as
nobody aborts it (idle and not run before the arm, running or run once a poll has seen
it start); and `MapInv`, that every client but the first is the one the map has for
its site.  `MapInv` does not depend on what `acq400_upload` asks for, and
`OneClientInAnyProgram` proves the same of a program that names any sites in any
order, listed or not.  The lemma `GotIsWhole` bounds what `stream()` returns: whole
elements, never more than is left, and none only when less than one is left or the
connection broke.

`SpadDecoder_proofs` proves all safety invariants of the decoder, for any stream a UUT
can send, any number of values of a byte and any number of inputs.  None says what the
four slots hold, so none is inductive.  `IInv` adds four things:

* `StreamInv` and `PlaceInv`: counts grow by one, or by two where a sample was lost;
  and as long as no read was short, the slots are the last samples taken from stdin.
* `AlignInv` and `DiInv`: what was decoded is a beginning of the stream that ends with
  a subframe 4, and the transitions are the edges in it.  A set adds its own edges and
  the one on its left (`EdgesGrow`).
* `ResidueInv`: the slots before `i0` hold subframes 1 to i0 and were looked at, so a
  later set is always four slots in sequence (`LaterSet`), of which none was lost
  (`SetOfFour`: with one lost, the count would have gone on by two where the subframe
  went on by one).  Then the four bytes are the count of the last sample (`FourBytes`,
  four digits in base `Radix`), and counting back from it is right modulo 2^32
  (`CountBack`).  It needs the first fread to be sound, since the residue of the first
  set is never looked at; that is the case `StopsOnAnyError` shows.
* `WriteInv`, and `UptoInv` to `OrderInv`: what is ready to be written, and what of
  it the output has.  A row remembers how many samples were decoded before it
  (`upto`), which separates the set a short read spoils from those before it.

`SetIsFound` is what `SoundIsAccepted` rests on: from the position of the first slot
in its frame it names the slot at which the loop ends.  The proof changed three
definitions of the model to equal ones the provers can compute with: `Weight` is a
product and no power, `Assembled` a sum of four terms, and `AllRows` counts indices.

Only model-checked: liveness (`SrReturns`, `QuitEnds`, `Ends`, `TriggerOpens`,
`SeenShotEnds`), which is outside what the prover does, and the runs that expect a
violation.  Induction over data works where it can be said of a set of naturals, as
with `FlattenSeq`; the theorems that take an operator cannot be used.

## 5. Not modelled, and the plan

Left out of the modules:

* option parsing, file names, timing output, verbose traces;
* the cut of a command at 127 characters, and what lies in memory before the buffer
  (`buffer.data()[-1]`, `acq400_chapi.cpp:126`);
* name resolution, and the descriptor number 0, which `stream_out` takes for "not
  connected" (`acq400_chapi.cpp:319`);
* two targets of `acq400_multistream` with the same host name, which write one file;
* a poll of `TRANS_ACT:STATE` that is answered with another text;
* blank lines, which the interactive test program sends behind each command
  (`acq400_chapi_siteclient_test.cpp:34`): a UUT is taken not to answer them;
* the PORT argument of `acq400_stream`, which sets a variable nobody reads
  (`acq400_stream.cpp:92`);
* -1 as the size of a file that cannot be read (`get_file_size`);
* `restore_fp_trigger`, which nothing calls;
* the buffers of stdio at the death of a process, but for what `ui()` of the decoder
  prints;
* a signal to the script's whole process group;
* the part of a word with which an unpacker's file ends when an fwrite cut the word.

Some of what the code does is modelled, and no property calls it wrong, because no
document says what would be right: the N + 1 passes of `acq400_stream_awg`, the lost
tail of a stream whose socket is closed with replies unread, an 'A' that overtakes
selections on another connection, the wait for a shot that fell between two polls, a
`maxbytes` that is no multiple of 4, the hole of a raw file on a full disk, the raw
copy of a UUT that does not answer that it packs, and a layout that needs the user's
help. The notes of the hazards in `PROJECT.json` say for each what its property still
shows.

`load_awg_seg.sh` only builds the command line of `acq400_load_awg_seg`.  The test
programs and `acq400_chapi_soft_trigger` call the API once per argument and
have no state of their own; `acq400_chapi_acq400_test` shows with each `set` the
answers before it too, since `set` appends to the string it is given
(`acq400_chapi_acq400_test.cpp:73`).  `error`, `getenvint`, `split` and
`get_file_size` are helpers without state.

Every safety invariant that a passing run checks is proved, and so are both
refinements.  What could be added is a model of the UUT's side of the AWG, which would
say what it plays of the segments it was sent; the code here shows only what
it sends.
