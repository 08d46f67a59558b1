# A TLA+ model of CellScope

CellScope is a C++17 desktop receiver: an RTL-SDR dongle delivers IQ samples, a
spectrum display, a pool of Inmarsat-C decoders, a WAV recorder and an LTE
engine consume them. The interesting part of it is not the signal processing
but the traffic between its threads. This directory models that traffic, checks
it with TLC on small instances and proves the central facts with TLAPS for all
instances. `PROJECT.json` maps each definition to the lines it models.

## The system

Threads: the **GUI thread** (the frame loop of `main.cpp`; it starts and stops
everything and calls every setter), the **SDR thread** (librtlsdr's read loop,
which runs the callback of `startActive`, `session.cpp` l.43-51, once per block),
the **decoder workers** (up to 8), the **LTE worker** (with the threads of the
srsRAN physical layer below it) and the **version check**.

The callback hands each block, in this order, to the IQ ring, the decoder
manager, the recorder's pre-buffer, the recorder if it is recording, and the LTE
engine. Everything else is calls by the GUI thread.

| Component | State | Operations | Hard behaviour | What makes it correct |
|---|---|---|---|---|
| Decoder manager (`decode/decoder_manager.*`) | workers, each with a bounded queue, sub-bands and decoders; counters `count`, `weight`, `drops_` | `feed` (SDR), `workerLoop` (workers), `start`, `stop`, `configure`, `addDecoder`, `removeDecoder`, `setDecoderFreq`, `removeAll` (GUI) | two locks per worker, atomics read without them, snapshots used after unlock, condition variable | each decoder sees the stream in order, once, with losses counted; one thread per decoder; counters and registry agree; queued blocks are taken; `stop` ends |
| IQ ring (`dsp/iq_ring.h`) | buffer, `write_`, `total_` | `push` (SDR), `latest`, `clear` (GUI) | wrap-around, blocks longer than the ring, unsigned subtraction | `latest(n)` is exactly the n newest samples since `clear` |
| IQ recorder (`sdr/iq_recorder.*`) | pre-buffer ring, `recording_`, `f_`, `dataBytes_` | `prebuffer`, `write` (SDR), `configurePrebuffer`, `start`, `stop` (GUI) | the lock covers only the ring, tests outside it, a 32-bit byte count | a finished file is well formed, holds nothing of an earlier session, is one stretch of the stream |
| Session control (`session.cpp`, `voice_ops.cpp`, `processing.cpp`, `main.cpp`) | saved decoders, configured rate, the view and the centre last browsed to | `startActive`, Stop, `retunePreserving`, `updateRateChange`, shutdown, one pass of the frame loop per frame | order of starting and stopping three components with live threads; copies of rate and centre written at different moments; a view that lags the radio | every order leaves source, pool and recording agreeing on rate and centre; saved decoders come back; the radio goes where the user went |
| RTL-SDR source (`sdr/rtl_sdr_source.*`) | device, read thread, `running_` | `start`, `stop`, setters, `onAsync` | the read thread can end by itself | no second device, no lost `stop` |
| LTE engine (`lte/lte_engine.*`, and the Phy of `third_party/ltesniffer`) | sample ring, target rate, carrier correction, cell, UE tables, global hooks | `feed` (SDR), `start`, `stop`, centering (GUI), `run_worker`, `run_decode` (worker), `on_dl_dci`, `on_sib`, `on_identity` (decode threads), `update_rates`, `analyze_voice_locked` | producer and consumer at changing rates, four kinds of thread, global hooks cleared under running threads, read-modify-write from two threads, subframes finished out of order, sustain counters | samples of one rate, tables of one cell, no lost wake-up, `stop` ends, the correction stays sane, times and calls are right |
| EGC decoder (`decode/egc/`) | symbol register, Viterbi paths, multiframe buffer, AA assembly, a static matrix shared by all | `UWFinder::push`, `depermute`, `deinterleave`, `Viterbi::decode`, `descramble`, `decodeFrame`, `handleAaPacket` | wrong symbols, either polarity, lost, repeated, nested packets, channels decoded at once | frames are found and decoded in spite of errors; parts of two packets are put together only where the checksum cannot tell, and a text never runs backwards |
| Message logs (`decode/message_log.h`) | bounded lists | `add`, `snapshot`, `clear` | limit against concatenation | one entry per message, bound kept |
| SDR++ client (`sdr/sdrpp_server_source.*`) | socket, worker, the server's menu and rates, a requested rate | `start`, `stop`, `setSampleRate`, `worker`, `parseUi` | a request before the rates are known, answers to older requests, broken connections, a blocked `recv` | it ends on the rate asked for; `stop` returns |
| WAV player (`sdr/wav_file_source.*`) | file position, size, thread | `start`, `stop`, `setLoop`, `playLoop` | sizes of 32 bits, or never written | a recording is played whole, in order |
| Configuration, version check, band plans, logging, drawing, DSP | | | none, or pure I/O, tables and floating point | not modelled |

The hazards this gives are listed, at their lines, in `PROJECT.json`.

## The modules

**`DecoderManager`** - the pool. `subbands` and `decoders` are flat sets of
records that name their worker, so `Worker::subbands` is `SubBandsOf(w)`; a
sub-band's key is the id of the decoder it was made for, which keeps the vector
order the search loop depends on. A worker's position in `workerLoop` is `wpc`:
`check` (at the wait predicate, under `qMtx`), `armed` (predicate false, `qMtx`
still held), `asleep`, `popped`, `busy` (outside `dMtx`, with a snapshot). The
SDR thread is at `look` (reads `count`, no lock) or `push` (under `qMtx`). GUI
calls that touch several workers or join threads take several steps (`gui`,
`gw`); one that only holds one `dMtx` is one step. `processed`, `cut`, `since`,
`born` are history variables. `feed()` walks `workers_` with no lock while
`start()` and `stop()` change it: `WalkDisturbed` lets such a walk end or the
process die (`crashed`).

**`DecoderStream`** - what the pool promises a decoder, with neither queues nor workers:
it gets numbered blocks one at a time and in order, of those captured since it was
created it misses only as many as are counted as dropped, and once taken off it gets one
more at most. The mapping (`KeepsPromise`) takes `blk` for what is captured, `drops` for
what is lost, and the snapshots for who is still being handed a block.

**`IqRing`** / **`RecentSamples`** - the ring, every operation one step since all
of them hold `mtx_` throughout; and what it promises: a memory of the last `Cap`
samples. The refinement maps the abstract memory to `Held`.

**`IqRecorder`** - the recorder with the SDR callback and the GUI calls broken
into the steps the other thread can see: `f_` and `dataBytes_` are touched by
both without a lock, so `stop()` is five steps and `write()` three. Each
`start()` opens a new file, a record of its data and its two header sizes.

**`RtlSource`** - the RTL-SDR source: the read thread (`reader`: created and not
yet in `rtlsdr_read_async`, in it, in its callback, returned), the device
(`present`, and `dev`, which is `lost` while `dev_` names a device that was pulled
out) and the pieces of `start()` and `stop()`. librtlsdr is external; what is
assumed of it is that it hands over blocks in the order captured, that a cancel
is ignored unless the read is under way, and that the read returns when the device
is gone. A block is the sample rate it was captured at. It has no specification of
its own: it is the lower half of `Session`.

**`Session`** - the frame loop over the source, with its callback running
beside it. `gui` is the GUI thread's place: `fft` (`processFft`), `rate`
(`updateRateChange`), `save` (the refresh of the saved decoders), `controls` (one
action in the Control panel a frame, or none), `spectrum` (the Spectrum panel: fit,
pan or zoom, browse, place or drag a decoder), and the steps within `startActive`
and the Stop button between which the callback can run. The pool is what the GUI
configured it to (`poolOn`, `poolFs`, `poolCenter`, `decoders`): its queues and
threads are in `DecoderManager`. The recorder is its pre-buffer and the number of
blocks of another rate in the recording (`wrong`): its locks are in `IqRecorder`.
`axis` is the band the frequency axis spans, `view` what the plot shows of it.
`asked`, `typed`, `atStop`, `rateChanged` and `wrong` are history. Both
panels are taken to be visible. `drawDecoders` is called nowhere, so the only thing
that turns saving decoders on is the settings file: `SaveDecoders` is a constant.

**`LteEngine`** - the threads of the LTE engine. `spc` is the SDR thread in
`push_resampled`, `gpc` the GUI thread in `start()` or `stop()`, `wpc` the worker
(`search`, `mib`, `found`, `setup`, `decode`, `join`, `unhook`), `waiting` its place
in `pop()` (`armed`: predicate false, `ring_mtx` still held), `at` each decode thread
of the Phy, which `run_decode` builds and destroys. A sample is the rate it was
resampled to; `shown` is the set of acquisitions that have rows in the tables, so
that a row of an earlier cell can be told. `joinPending` waits for the queue only,
as `SnifferThread::wait_thread_finish()` waits for nothing; `phyDestroyed` waits for
the threads. The hooks of `cs_lte_hook.cc` are two pointers each, stored and loaded
one at a time. srsRAN is external: a search, a MIB or a subframe may succeed, fail
or need more samples at any time.

**`LteCentering`** - `cfo_correction_hz` between the worker and the GUI thread, both of
which load, add and store it. `base` is the correction an estimate was measured on:
`stale` records that one other than 0 was added to another. While it decodes, the worker
publishes an estimate every second: what `ue_sync` tracks, or, without sync, what it
tracked last (`local`, 0 before the first). One unit is 500 Hz.

**`LteCalls`** - frame numbers counted from a MIB, subframes handed in out of order,
their unwrapping into the window of grants, and the verdicts that start and end a
call. Speech is grants `Period` apart; the scores and the second period, which only
change which windows match, are one.

**`EgcFrame`**, **`EgcCode`**, **`EgcDecoder`** - the three layers of the EGC decoder:
symbols to frames (unique word, polarity, permutation, interleaving), frame to bytes
(Viterbi, descrambling), bytes to messages (multiframe and AA assembly and
`EgcLog::add`). In the first two the station is the environment and states what was
sent; in the third two channels are decoded at once through the shared matrix of
`deinterleave`. The code is a constant (register length and `partabIdx_`); `Separates`
states when it corrects `MaxWrong` wrong symbols.

In `EgcDecoder` a frame carries one packet, whole or one of its two parts, or loses it.
A packet is its kind, channel and numbers. Of one in two parts the bytes are there as
well, as constants for every packet (`front`, `back`, `crc`): `mfaData` is a sequence of
bytes, filled as the code fills it, and `crcOk` computes the checksum (`sums`, `egcCrc`)
over it, once for the second part (`SecondPart`) and once for what it was put behind
(`Taken`, `Complete`). What is complete goes through `decodePacket` as if it came in a
frame of its own: an EGC message, a terminal packet, an AA packet, or (`nested`) another
first part, which `beginMultiframe` writes into the buffer being read and of which
nothing is left when `endMultiframe` sets `mfaActive` to false. A station sends the
packets of an AA message, 0 and the zap test among them, in any order and as often as it
likes, before it goes on to the next message (`nextMessage`). `joined` is a history
variable: the last two parts of a channel and whether the second put something into
the log.

**`SdrppServerSource`** - the SDR++ client with the GUI thread, the worker and the
packets between it and the server, which is external; `wakes` is whether closing a
socket ends a `recv` on it (Windows: yes, POSIX: no).

**`WavFileSource`** - the WAV player over every size a file can have and declare.

The `MC_*` modules and their configurations instantiate these; the `*Proofs`
modules hold the theorems. `MC_EgcCode` holds the small code for `MC_Reception`, and the
program's own. `MC_Reception` and `MC_Samples` extend several components
that share no state (which is why the names of their specifications differ: `Spec`,
`CallSpec`, `EgcSpec`, `FrameSpec`, `CodeSpec`; `Spec`, `SdrppSpec`, `WavSpec`): their variable
`part`, fixed by the initial state, says which one moves, so the components do not
multiply each other's states and each is checked as if alone.

## What the runs check

| Run | Question and result |
|---|---|
| `dm_threads` | Two workers, a queue of two blocks, two decoders, three blocks, every GUI call at every moment. The pool implements `DecoderStream` (`KeepsPromise`), which says that blocks reach each decoder in order and once (`StreamInOrder`) and that unprocessed ones are covered by `drops_` (`NoSilentLoss`). A decoder is never in two workers' hands (`OneProcessor`), backlogs are bounded and in order (`BacklogOrdered`), and after a retune a decoder sees at most two blocks captured before (`AtMostTwoStale`: the one popped and the one in `feed`'s hand; two is reached). No worker sleeps on a block (`NoSleepOnBlock`). |
| `dm_placement` | The GUI thread alone, four decoders on three frequencies and two workers with overload at two. The counters and the registry agree (`CountExact`, `RegistrySound`), no two sub-bands cover each other's centre (`SubBandsApart`), the load never understates (`WeightNeverUnder`). |
| `dm_liveness` | With fair threads a queued block is taken or discarded unless the pool stops (`QueuedBlockTaken`), and `stop()` returns if no worker missed its notification (`StopEndsUnlessMissed`). |
| `dm_setfreq` | Violated: a decoder's oscillator is changed while a worker is inside its `process()`, which `ddc.h` l.167 forbids. |
| `samples` | Three parts. A ring of three, blocks of one to four samples, eight samples between clears: implements `RecentSamples` (`KeepsRecent`). The SDR++ client with two rates, two connections and three requests: once nothing is under way the server runs at the rate last asked for and the client says so (`RateAsAsked`), and `stop()` returns unless `close` does not wake `recv` (`StopReturns`). Files of up to seven frames, a size that wraps at five, blocks of two: a pass plays the recording once and in order (`PlaysWhole`). |
| `recorder` | Four blocks, two recordings, a ring of 0, 1 or 2, a byte counter modulo 3. Unless `stop()` meets a `write()` under way, a finished file is intact and both sizes in its header are its length modulo the counter (`HeaderTellsData`) and its data is one stretch of the stream with at most a gap or one repeat where the pre-buffer ends (`OneStretch`). `NoBleed` holds without that exception: nothing of an earlier recording is drained into a later one. The process ends in two races only, `write()` with `stop()` and `prebuffer()` with `configurePrebuffer()`, which divides by zero (`CrashOnlyByRace`); both are reached. |
| `session_tuning` | One rate, two centres, one decoder; the device pulled out and put back at any moment. While the source runs the pool is configured for the radio's centre unless a centre was typed since it was configured (`PoolAtCenter`); a start restores exactly the decoders of the last stop, however many starts failed in between (`SavedSurvive`). The Stop button and the closing of the window get past the join of the read thread, unless the cancel came before the thread was in `rtlsdr_read_async` and the device stays (`StopEnds`, `CancelMissed`). |
| `session_rates` | Two rates, one centre, a pre-buffer of two blocks, one block under way. From the middle of every frame on the pool is on the rate of the source (`PoolAtRate`); while the rate is not changed a recording holds at most two more foreign blocks than can be under way (`StaleInRecording`: those in the USB buffers, the one in the callback's hand, and one that is in the pre-buffer and written as well). |
| `session_browse` | Violated: a typed centre is undone by band browsing, because the view is fitted to the band of the FFT before it. |
| `lte` | Two acquisitions of a cell at another rate than the search's, a ring of two, two decode threads, three buffers, Start and Stop at any moment. The ring holds one rate, the target once the SDR thread saw it (`SamplesAtTarget`); tables and SIB line are of the present cell (`ShownOfOneCell`); no wake-up is lost but to a `stop()` between predicate and sleep (`NoLostWakeup`), and but for that `stop()` ends (`StopEndsUnlessMissed`). |
| `lte_hook` | Violated: a decode thread at work while `run_decode` clears the hooks calls one with a null user. |
| `reception` | Five parts. Centering: the correction stays an offset the oscillator can have, as long as no estimate is added to another correction than its own (`CorrectionSane`). Calls: the frame number is the true one but for unnoticed gaps (`SfnTrue`), the window is sorted and true to the air modulo the wrap (`WindowTrue`), calls start and end with the verdicts (`CallFollowsVerdicts`). Packets: a first part is used once, by the second part right after it, which must be as long, and one that differs in a byte or two neighbours from the right one is told by the second part's checksum; the parts of one packet are put out exactly if the second's CRC bytes fit the whole packet too (`MultiframeJoined`). AA texts rise, in whatever order their packets come, and run from one message into a later one only with a packet past its first (`ChainOrdered`), the log has one entry a message and no foreign text (`LogSound`). Frames: found with their last symbol if the unique word has no more errors than tolerated (`FrameRecovered`). Code: two frames through a small code, every bit decoded in spite of two wrong symbols anywhere (`FrameDecoded`; three can be too many for this code). Before the run TLC evaluates two assumptions: `Separates` holds of the small code with two wrong symbols, and of the program's own, with 64 states and paths of 32 bits, with four. |

The findings in `PROJECT.json` tell what each violation means in the code.

### Bounds

`MaxId`, `MaxBlocks`, `MaxFiles`, `MaxPush` and `MaxTotal` bound what is ever
created or delivered. They are chosen one above the size at which the
interesting case happens: three blocks fill a queue of two and force a drop;
two decoders on one worker are enough for a decoder that is removed and
re-created while its predecessor is still in a snapshot; four decoders overload
two sub-bands (the limit of 4 is lowered to 2); a block of four overwrites
itself in a ring of three; four blocks wrap a ring of two and a counter of
three; two recordings are what "the next one" needs. Frequencies and `HalfWidth`
are small integers: only the comparison matters.
In `Session` nothing is counted but `wrong`, which stops one above the bound the
property states. One block under way (`InFlight`; 15 in the code) is enough for the
callback to be a block behind; two centres and one rate, or two rates and one centre,
separate the questions, since what a centre does does not depend on the rate. The
half widths 1 and 4 are a zoomed view and the whole band of 8: the first can be
anywhere inside, the second is at the edge as soon as it is off centre.
`session_browse` lets the user zoom to both; `session_tuning`, the largest, to 1 (the
view of 4 comes of fitting), as its two safety properties are proved for every width.
`dm_threads` has a `VIEW` (`ThreadsView`): states that differ only in loop variables out
of scope or in the histories of decoders nothing refers to any more count as one. Those
histories do not change again and `drops` only grows, so no invariant can first fail
because of them, and no step of `KeepsPromise` hands a block to them.
In `LteEngine` two acquisitions are what "the next cell" needs, and with three buffers
the Phy's pool runs dry. The call detection has frames of two subframes and three frame
numbers, so that the number wraps within the nine subframes it runs for, with a window of four
and at most three grants. `LteCentering` needs no bound but the range of the
oscillator; the constraint `NotStale` stops behind the first stale correction, where
`CorrectionSane` says nothing any more. In
`EgcDecoder` a byte has four values and the packets in parts are chosen so that each
outcome is reached: two whose first parts are exchanged unnoticed, one whose first part
is near another's and told, one with a longer rest, some with a checksum and some with
zeros for it, AA packets and a nested first part. Three frames are two parts and one
more, or a packet, an earlier one and the first again; two AA messages of packets 0 to 2 are what running
from one into the next needs, and a log of two overflows. The frames of `EgcFrame` have five rows of
two symbols, as many rows as give a permutation that is no symmetry, and two of them
follow each other, so that a false hit can hide the second; two wrong symbols
are one more than the tolerance. `EgcCode` has a register of three bits, eight
states, and frames of five bytes of four bits, enough for two early bytes and the
final ones. Nothing but `Separates` depends on the code being small, and that is
evaluated for the program's own too: the least number of symbols in which a path differs
from the station's, by the steps since it left and the difference of the two registers,
is computed in `Table`, and `Separates` compares each pair of branches. Four is the most
there is to ask: two ways through the program's code can differ in as few as ten
symbols, so five wrong ones can make another frame as likely as the one sent. That the
paths remember 32 bits only costs nothing.
`CHECK_DEADLOCK FALSE` is set throughout: the bounded models stop when the
blocks are used up, and the recorder's and the manager's models end when
undefined behaviour has ended the process, the session's when the window is closed. The runs with a
temporal property are where waiting for ever is looked for.

### Fairness

`FairSpec` assumes what the operating system gives: each worker thread runs
(`WF` of its own steps), a `feed()` or a GUI call that has begun goes on. It
does not assume that the user does anything, that the source delivers, or that
a condition variable wakes without being notified. `LteEngine`'s `Fairness` is the same
for the worker and a `stop()` that has begun. A decode thread may emit any number of
events during one subframe, but the work is a finite computation, so its end is
strongly fair (`SF` of `workDone`). The SDR++ client's worker and a `stop()` that has
begun are weakly fair; the server is not: it may be silent for ever. In `Session` the
read thread is weakly fair (it enters the read, hands over blocks that are there,
returns once cancelled or without a device), and so is the GUI thread's return from a
join; the device need not deliver, and nobody need press a button.

## What is proved

The proofs are for every number of workers, queue limit, capacity, frequency set
and bound, from the named assumptions in the modules (`PoolAssumption`,
`RingAssumption`, `WavAssumption`, `RecorderAssumption`, `SourceAssumption`,
`SessionAssumption`, `LteAssumption`, `CenteringAssumption`, `CallAssumption`,
`EgcAssumption`, `FrameAssumption`, `CodeAssumption`). They say that the constants are natural numbers,
positive where a modulo or a limit needs it; 0, no pre-buffer, is one of the sizes of
the recorder's ring. `FrameAssumption` says more: multiplying a row number by `Step`
permutes the rows (23 is prime to 64), and the tolerance (25) is below half of the
unique word (128 symbols), without which a frame could fit in both polarities.
TLC evaluates them on every run.

All invariants the passing runs check are proved, and so are their two refinements
and the action property `SavedSurvive`; what is not is at the end of this section.
`FrameDecoded` alone has a hypothesis of its own, `Separates`, which not every code
satisfies.

**`DecoderManagerProofs`** - types, registry and load.
`TypeOK` is not inductive: what the `push` and `popped` steps read must exist.
`TypeInv` adds `HandOK` (a block is held exactly while popped or busy), `FeedOK`
(`feed`'s loop is at a real worker when it pushes) and `PoolOK` (threads are off
exactly when the pool is empty). `TypeStep` shows that every action keeps it;
`TypeAlways`, `TypeCorrect` follow. `count` is a cardinality, the registry is sound,
and sub-bands lie apart (`CountAlwaysExact`, `RegistryAlwaysSound`, `NoShadowSubBand`);
that needs that `decoders` is finite and ids are below `nextId`. `WeightNeverUnderAlways`
is stated with the weights of a worker's decoders as a sum of three cardinalities
(`WeightOf`: a decoder weighs one, two or three; those that weigh at least 1, at least
2 and at least 3 are counted), which adding or removing one decoder changes one by one;
a sum over a set by recursion would need an induction.

**`DecoderManagerStreamProofs`** - what decoders get of the stream.
A decoder sees the stream in order because the block a worker holds is newer than
everything its decoders processed and older than everything in its queue, and a
snapshot only has decoders of its worker: `IdsInv`, `SnapInv`, `PastInv` with
`BacklogInv`. From these `BacklogCorrect`, `OneProcessorAlways`, `StreamInOrderAlways`.
`AtMostTwoStaleAlways` counts the blocks captured before a worker was emptied that can
still reach its decoders: those processed, the one in the worker's hand, those in its
queue, the one in `feed`'s hand. `NoSilentLossAlways` says where every block that a
decoder has not processed is: in a queue, in a hand, or counted.
`DecodersServed` maps every action of the pool to a step of `DecoderStream` or a stutter
(`StreamFollows`), with a lemma for each kind of step: `workerProcess` is `Hear`, whose
guards are `PastInv` and the counting of `NoSilentLoss` (and as no decoder is in two
snapshots, `OneProcessor`, it is its last if it was taken off); what removes decoders is `Leave`;
a decoder added is `Join`, with an id no one had.
`AlwaysWokenForBlock` is inductive with the types: a worker tests its queue under `qMtx`
and holds it until it sleeps.

**`SamplesProofs`** - the ring, the SDR++ client and the WAV player.
`RingKeepsRecent`: each operation of the ring maps to one of `RecentSamples` for any
capacity and block length. The arithmetic of `% Cap` is in four lemmas (division,
multiples apart, slots apart). `RateAsAskedAlways`: in a connection the last packet of
each kind under way says what the server's rate is, or the client has it (`Tells`), and
the rate asked for is applied, about to be sent, or kept for a user interface that is
under way and names another rate (`Applied`, `Coming`). `PlaysWholeAlways`: the thread's
count, the position of its file and what was called back go together; that only a size
that wrapped is below what the file holds is `CutShortWrapped`.

**`IqRecorderProofs`**.
`NoBleedAlways`, for every ring, counter width and number of recordings. `NoBleed`
speaks of what was drained; that it stays so needs what could be drained next (`Held`,
the last `Avail` slots) to be in no `Sealed` file, one that gets no more data and whose
blocks `stop()` has dropped: every file but the last, and the last too once `ringWrite_`
is 0 (`SealedInv`). That a block enters the ring before any file has it is `DataInv`
(`Seen`), and which file is open at each step of `start()` and `stop()` is `FileInv`.
`CrashAlwaysByRace` follows from where `write()` stands when `stop()` closes the
file (`WriteInv`). `HeaderAlwaysTellsData` follows `dataBytes_` through the steps of
`stop()` that copy it to the two places of the header (`HeaderInv`; like `OneStretch`,
it speaks of runs in which no `stop()` met `write()` so far). `OneStretchAlways` needs that
what the ring holds is consecutive and ends with the newest block the callback gave it,
that what the file has of it is that tail, and where the callback is when the flag is set
(`RingRun`, `LiveInv`).

**`SessionProofs`**.
`PoolAlwaysAtCenter` needs that between the opening of the source and the configuration
of the pool (`gui = "pool"`) the two may differ (`CenterInv`). `PoolAlwaysAtRate` rests
on `RateInv`: a rate picked in this frame sets `resetView`, which keeps `browse` from
configuring the pool for the new rate while `lastConfiguredFs` still names the old one;
only the next `updateRateChange` does both. `SavedAlwaysSurvive` needs that the pool is
on exactly while there is a read thread, but for the steps that change one before the
other (`PoolInv`), and that the saved decoders are those of the last stop from there to
the restore (`SavedInv`). `StaleAlwaysBounded` counts (`StaleInv`): foreign blocks under
way, in the callback's hand, in the pre-buffer and in the recording, each bounded by
what can still become the next; `FlowInv`, `RingInv` and `RecordInv` say where they can
be at each step of a start and of a change of rate. `TypeCorrect` goes by six parts, one
for each kind of value; that browsing retunes to a centre needs that the plot is fitted
before `resetView` is cleared (`ViewTypes`).

**`LteEngineProofs`** - the threads of the LTE engine.
`NoWakeupLost` is inductive with what the worker's places in `pop()` imply
(`WakeupInv`). `SamplesAlwaysAtTarget` needs that, but for the middle of `start()`, the
ring has the resampler's rate alone (`UniformInv`), and that the resampler has the
target's once the SDR thread has loaded it (`StartInv`, which also says that no worker
runs while `start()` does). `AlwaysShownOfOneCell` rests on `JobInv`, a decode thread's
subframe is of the present acquisition, which holds because a new one begins only after
the Phy's destructor waited, not because of `joinPending()`; `ShownInv` adds when the
tables are cleared. `TypeCorrect` needs the count of buffers (`BufferInv`): taking a
subframe from the queue moves one, and only `decodeLoop` hands out another.

**`LteTrackingProofs`** - correction, frame numbers, window and calls.
`CorrectionAlwaysSane`: an estimate that may still be added is near the true offset less
the correction it was measured on, wherever it is copied to (`CenteringInv`); the clamp
at `Limit` does no harm as `Limit` is beyond every true offset.
`CallAlwaysFollowsVerdicts`: the two counters are functions of the last verdicts.
`SfnAlwaysTrue`: the frame number and the subframe within it are those of the air,
carried over the wrap. `WindowAlwaysTrue`: the unwrapped time of a grant is congruent to
its time on the air, for the first grant and by the distance to the last for each next;
dropping the head of the window at the first grant that fits (`FirstKept`) keeps it
sorted.

**`EgcDecoderProofs`** - packets, frames and the code.
`MultiframeAlwaysJoined` rests on a lemma about the checksum itself, `CrcApart`: two packets
of one length that differ in one byte or two neighbouring ones, before the CRC bytes,
have different checksums, for every length and every number of byte values. The running
sums are recursive functions (`SumsDef`, `SumsStep`), and a least counterexample takes the
place of induction: the sums agree up to the first difference, `SumsApart` says that after the
differing bytes they do not, and that no later byte makes them agree again, and
`egcCrc` is one-to-one in them. `NearTold` carries this over to a first part put before another's second part,
`TakenFacts` to the buffer. `PartsInv` is the rest of the invariant: the buffer waits
exactly when a first part came last, and then holds that one's bytes.
`ChainAlwaysOrdered` and `LogAlwaysSound` with `EgcTypeAlways`: a packet in a channel's
frame buffer is of the message that channel has on the air or an earlier one, or was
mixed with another's, in which case it is marked (`seen`, `overlapped`, and `mixed` if
its parts were of two packets); what a text surely holds is not of a later message than
the frame under way (`ChainInv`). `FrameAlwaysRecovered` is
arithmetic: a position is a row and a column in one way (`PosFacts`, `PosOf`), the
permutation is onto by the pigeonhole principle (`EveryRowSent`), so bits and symbols
behind the unique word are in bijection (`BitsCount`, `IndexFacts`); a register fits the
unique word as badly as it fits the reversed one well (`OppositeCount`), so a frame is
put upright (`PutUpright`). `FrameInv` adds that the register holds what was sent so far,
and that a whole frame passed since the last return unless one came out of place.

Below the frames is the code. `CodeInv` bounds the metrics by counting: the state the
station's register is in is never worse than the wrong symbols cost it, and every other
never better than the wrong symbols less two, as two branches of different states that
meet differ in both symbols; from this `TruePathIsKept` for every code. `OutputInv` says
how many bytes are put out at each step and that they are those of the steps they belong
to, so that the early bytes and the `Width` bits at the end make up the frame:
`CleanFrameDecoded`, with the scrambler's register for each byte. For wrong symbols
`FrameIsDecoded` adds `GapInv`: the path kept for a state is the station's, or left it
`a` steps ago and misses at least `Gap[a]` symbols less the wrong ones, or misses `Enough`
less the wrong ones and so is behind the station's; whichever of the two paths into a
state survives, ties included, has one of the three. A path that is not behind the
station's left it at most `Span` steps ago, so the best state, which exists and is the
first of the best (`BestFacts`), has a path whose oldest byte is the station's. That the recursive `scrambler` is a function
with the values its definition says is proved by least counterexample, as no rule of
induction can be used here. The hypothesis `Separates(Gap)` is a statement about finitely
many pairs of branches that no prover evaluates: TLC does, for the small code and the
program's (`SmallCorrects`, `OwnCorrects`).

Only model-checked: that hypothesis, and the five liveness properties
(`QueuedBlockTaken`, `StopEndsUnlessMissed` of the decoder manager and of the LTE
engine, `StopReturns`, `StopEnds`), which the prover cannot reach: it has no rules for
fairness (`ENABLED`).

## Not modelled

Signal processing, drawing, configuration files, network and USB I/O; the
version check. The SDR++ and WAV sources are modelled although the GUI cannot select
them today (`gui_panels.cpp` l.54); their sample formats, pacing and connection errors are not. Of the
session: the Dual RTL mode, which it cannot select either, the start thread that
nothing begins, `retuneActive` (nothing calls it), the pre-buffer slider (it is in `IqRecorder`), the
decoders of 8400 baud (never saved), and how many decoders sit on one frequency.
Of the LTE engine: the physical layer of srsRAN (external), the failures of
`run_decode`'s set-up but as one return, watched UEs and their history, the
constellation, the traffic log. Of the EGC decoder: the demodulator, the texts of the
packets, several packets in one frame, a second part sent inside of a packet in two
parts (of a first part inside, the bytes it reads are left open, as nothing is made of
them), and the logs without a reader (`LesLog`, `MesLog`, `LesFreqTable`); `MessageLog`,
`CassignLog`, `ChannelTable` and `AircraftTable` have no writer in this repository.
The demodulator, the DDC and the FFT are floating-point filters, where a small
instance says nothing about the code.
Some hazards are in the model without a property, because the code does
not exclude them: a Start after the device was lost, the server hung up or the file
ended assigns to a thread that was not joined; a walk over `workers_` meets `start()`
or `stop()`. A Stop before the read thread reached `rtlsdr_read_async` waits for ever:
that is the exception of `StopEnds`.

What the plan has left:

1. `LteEngine` fed by `Session`: the engine keeps the rate and the centre of its start when the
   user picks others; a source that dies leaves the worker in `pop()`, so the test for
   3 s without sync (`lte_engine.cpp` l.1205) is never made.
2. The three EGC layers composed, so that an error the code does not correct becomes a
   packet whose checksum fails.
3. `WavFileSource` composed with `IqRecorder`: what was recorded is what is played.
4. The soft metrics of `genMet`, of which the demodulator's hard symbols use two values.

## Running

`tlc -config MC_X_y.cfg MC_X.tla` for each run of `PROJECT.json`;
`tlapm M.tla` for each `*Proofs` module. The largest runs, `session_tuning`,
`session_rates`, `reception` and `samples`, take one to three minutes;
the proofs a few minutes together.
