# Schwung (move-anything), specified

TLA+ modules, TLC runs and TLAPS proofs kept beside the code of Schwung, the
program that adds a second instrument ("shadow mode") to the firmware of the
Ableton Move. Paths below are relative to the repository, whose own top-level
directories are `src/`, `schwung-manager/`, `scripts/` and so on.

* [The system](#the-system): parts, state, interactions, what is hard
* [The modules](#the-modules): what models what, and how
* [The runs](#the-runs): what TLC shows, within which bounds
* [Fairness](#fairness)
* [The proofs](#the-proofs)
* [Where the code and its words differ](#where-the-code-and-its-words-differ)
* [Not modelled, and the plan](#not-modelled-and-the-plan)

To repeat everything: `tlc -config X.cfg M` for each line of the table of runs,
`tlapm M.tla` for each of the eight modules whose name ends in `Proofs`.


## The system

Move's own program exchanges one frame of audio, MIDI, buttons and display with
the hardware by an `ioctl` on an SPI device, 128 samples of 44.1 kHz at a time,
345 times a second. Schwung's shim (`src/schwung_shim.c`) is preloaded into that
program and wraps the `ioctl`: `shim_pre_transfer` works on what is about to go
out, `shim_post_transfer` on what has come in. The thread that makes the call,
*the SPI thread* here, must not block; everything slow is in other threads and
processes, which it meets in POSIX shared memory, in atomics and in one mutex.

| Part | Files | State it keeps | Operations | What makes it correct |
|---|---|---|---|---|
| SPI frame | `src/schwung_shim.c` | mapped mailbox, shadow copies of audio, MIDI and display | pre and post transfer, 345 times a second | a frame never blocks for long and its tasks keep their order |
| Sampler: ring and writer | `src/host/shadow_sampler.c` 80-230, 590-900 | ring, two positions, writer thread, mutex, condition variable, WAV file | start, capture a block, stop and join | the file is what was captured, whole and in order; a stop returns |
| Sampler: state machine | the same file, 660-1080, and its callers in the shim | idle, armed, pre-roll, recording, paused; counts of clocks and blocks; overlay | buttons, MIDI start/stop/clock, tool commands, timers | thread and file exist in the states that record; nothing recorded past the target; a recording ends without a clock |
| Skipback | the same file, 1090-1402, and the poll in the shim | rolling buffer of seconds, write position, "saving" flag, length setting | capture, save, resize | the buffer holds the latest samples in order, through saves and resizes; the flag comes down |
| Packet queues from the shadow UI | `src/shadow/shadow_ui.c` 748-960, `src/host/shadow_midi.c` 697-780 | buffer, `write_idx`, `ready` | send, drain | packets arrive once, in order, and none waits unnoticed |
| Injection into Move | the same, and `shadow_midi.c` 536-695 | the same queue with two writers, deferral and budget | inject, defer, drain, carry over | no packet arrives twice, those of the SPI thread arrive in order, none in traffic of the hardware, and none waits for ever |
| Parameter mailbox | `shadow_ui.c` 564-745, `shadow_chain_mgmt.c`, `schwung-manager/shmparams.go`, the shim 3562 | one request slot: type, id, key, value, answer | get, set, set without waiting | "true" means applied; a value read is current; the slot becomes free |
| JACK bridge | `src/lib/schwung_jack_bridge.c`, `src/lib/jack2/shadow/` | two counters, an audio flag, a block of audio, a futex | wake, take the block; process a cycle; attach, die | JACK may be late, die and return without the shim running away or replaying for ever |
| Link Audio in | `src/host/link_subscriber.cpp`, `src/host/shadow_link_audio.c`, the rebuild in the shim | a ring per channel with 32-bit positions | publish; read with jump and nudge | what is heard is what was played, not late and not twice |
| Link Audio out | the shim 2331, `link_subscriber.cpp` 493 | the same rings in the other direction | publish; poll | the same |
| MIDI dispatch | `src/host/shadow_midi.c` 14-136, 205-424, the shim's reader of MIDI_OUT | two deduplication rings, a ring of external events, the note sent for each key | dispatch to four slots by three readers | every slot hears an event once; a note-off reaches what its note-on reached |
| Chain slots | `src/host/shadow_chain_mgmt.c`, the shim | four slots with instance, channel, routing, capture | load, unload, set parameters, save and restore | no instance used after its unload |
| Signal chain | `src/modules/chain/dsp/chain_host.c` | patch, the two counts of Pre mode, LFOs | load, note, tick, render | an echo of an injected note is not taken for a pad, nor a pad for an echo; injecting does not feed on itself |
| MIDI effects | `src/modules/midi_fx/` | held notes, pending voices, the note last played | process, tick | each note on is paired with a note off |
| LED queue, MIDI out | `src/host/shadow_led_queue.c`, `shadow_midi.c` 424-535 | pending colours, what Move was seen to send, a snapshot of it, two kinds of passes | clear, queue, flush, restore | the last colour asked for is the one shown; Move's come back after a tool |
| MIDI to the UI | the shim 2616, `shadow_ui.c` 3319 | ring of packets with a gate byte | publish, read | no packet lost or torn |
| Set pages | `src/host/shadow_set_pages.c` | directories of sets, page number, a flag, a file with the page | switch page | no set lost when power goes between two renames; sets stay on their page; the next change is allowed again |
| Supervision | `src/host/shadow_process.c` | pids, restart counts | start, watch, restart | no process started twice, none restarted for ever |
| Web manager | `schwung-manager/*.go` | rings of SETs and of notifications | HTTP handlers | see the mailbox; no torn entry |
| Shadow UI | `src/shadow/*.js`, `shadow_ui.c` | pages, menus, values shown | the user interface over the calls above | - |

How they interact in one frame of the SPI thread: before the transfer, Move's MIDI
is read and dispatched (the sampler's clock is counted here), the queue from the
shadow UI is drained to the sound modules, JACK is woken and its last block taken,
the slots are rendered and mixed (with Link Audio, when the mix is rebuilt from
its channels), the parameter mailbox is served, the display is replaced; after
the transfer, buttons and notes are filtered, the sampler and the skipback buffer
capture the block, and what is to be injected is put into free slots of the
mailbox. Beside it run, each with its own scheduler: the sampler's writer thread;
a detached thread per skipback save and per resize; the shadow UI process; the
Link sidecar; the JACK server; and the web server.

What is hard here, then, is what tests of one function do not reach: two threads
between two loads and stores of one queue, a stop that meets a sleeping writer, a
request that times out and is answered late, a server that dies between two
stores, a counter of eight bits at its end, a backlog that a jump has just
removed, a note that comes back and may be one's own. The list of these, each at its line, is in `PROJECT.json` under
"hazards"; the properties are aimed at it.


## The modules

Each action is one step of one thread: as much of a handler as no other thread
can come between. Where two processes share plain memory, that is one load or
store of what both see. Samples, packets and frames carry no audio: they are
numbered in the order in which they were produced, so that loss, repetition and
order show. Variables and operators keep the names of the code. Beside some
operators stands a second version marked "Mutant": the same step with a mistake
that one could make in the code. Each property has one that it catches, listed
in `PROJECT.json`, so that no property is true of everything.

### RecorderSpec, SamplerWriter: recording

`RecorderSpec` is the promise: open, take a block, persist some more of what was
taken, close when all of it is in the file.

`SamplerWriter` is the machinery: ring, `write_pos` and `read_pos`,
`should_exit`, the mutex and the condition variable, with the SPI thread
(`spi`: filling a block, publishing it, signalling, stopping, joining) and the
writer (`writer`: lock, test, wait, asleep, unlock, load, copy, advance). Going
to sleep gives the mutex back in the same step, as `pthread_cond_wait` does, and
it may wake without a signal. `RecorderPromise` says that it implements
`RecorderSpec`, with `open` as `running` and `taken` as the history variable
`published`; the file is the same.

### Sampler, MCSampler: the state machine

`Sampler` extends `SamplerWriter`, so that every handler drives the real
machinery. Its handlers: arming and disarming, the Sample button in each state,
the shift and back buttons, MIDI start, stop and clock, start, stop, pause and
resume by a tool, the count of blocks that takes over when no clock comes, the
overlay's timeout, failure to open the file. `todo` remembers how a handler that
records or stops goes on after the machinery has done its part; no other handler
starts in between, because they are all on one thread. What a save leaves is
`saved`: which samples the file holds. Trimming the pre-roll away is modelled by
what it does to a file opened for writing only.

### RollingTape, Skipback

`RollingTape` is a tape of bounded length that may be given another length and is
saved as it is. `Skipback` is the code: the circular buffer with its position and
its wrap flag, saves and resizes on threads of their own, the resize's mutex, the
poll that starts it and the one flag `skipback_saving` that all of them test in
their different ways. The buffer, unrolled from its oldest sample, is the tape
(`RollingSpec`).

The capture tests the flag once and then writes a block; a resize may meanwhile
swap and free the buffer. What the program then does is undefined, and the module
does not go on from there: `Exclusive` is a conjunct of `Next`.
`ExclusiveUnlessOvertaken` says that nothing else brings that about: a resize has to
take the flag after the SPI thread has found it free and before that thread has
written its block or raised the flag for a save (`overtaken`). Saves and resizes keep
each other out, over any number of them and of their failures. The poll notes
a new length when it starts the resize, and a resize that meets a save gives up:
the model has the length that is then never reached.

### ShmQueue, MidiInject

`ShmQueue` is a queue of packets in shared memory between the shadow UI and the
SPI thread, with every load and store of the two a step: the writer reads
`write_idx`, copies, stores it, loads and stores `ready`; the drain tests
`ready`, takes a snapshot, resets the index, wipes the buffer, and delivers the
packets one by one. Its `Spec` is the queue to the sound modules. It has no run
of its own: its actions are those of `MidiInject`, where they run, and what holds
of it alone is proved (`InOrderOnce`, and `NoneForgotten`, which `MidiInjectProofs` states
with a count of the calls the drain has not seen).

`MidiInject` extends it to the queue into Move: a second writer (the chain, on
the SPI thread, which may be between its store and its signal when the shadow UI
writes), a drain that waits for some frames without traffic of the hardware,
injects some packets per frame and puts the others back in front. The packet
that fills the buffer stores 0 into the index, and what waited is gone
(`wrapped`).

### MidiDispatch

A note of an external keyboard is seen three times: by two readers of MIDI_IN,
frame after frame for as long as Move leaves it there, and by the reader of
MIDI_OUT when Move echoes it. A step is a frame in which the three readers run
one after another over one state (`Dispatch`, each reader a loop over MIDI_IN by
`Read`), with whatever Move has left, added and echoed. The rings keep their
entries, with an age, until they are overwritten, and do not find the old ones;
the event's identity is its timestamp, its content is that of the code's
comparison (the two forms of a note-off are one). One slot stands for the routing by THRU and one for a channel
with its own forward channel. Between frames a slot is transposed or a tool takes
over. `sounding` is what the slots' synths were told, `heard` how often they were
told of an event. `muddled` marks what the code cannot tell apart: a note of
Move's sequencer that looks like a recent event of the keyboard (it is
swallowed), a change of mode with an event under way, a key held by two
players over a change of transposition.

### PreEcho, MCPreEcho

The echo filter of Pre mode with the effects that drive it: the chord at once,
strummed up or down through `pending`, and the arpeggiator on its own clock. What
is injected goes into `inject`, which is Move's queue and its answer in one:
`Echo` plays the first event, and dispatches it like a pad, through the slot's
transposition. `LoseEcho` plays it and answers nothing. `PadDown` and `PadUp`
come at any moment between. `DropEcho` and `CountPad` are the two counts;
`SetPreMode` switches with events under way. `upset` marks that the filter was
given something that it cannot tell (a pad of a pitch that it expects an echo of,
an echo that was lost, a packet refused by a full queue), `mistaken` that an echo
went through as a pad.

A chord is any sequence of semitones: the root need not be in it and two voices
may be the same note. Where a loop of the code leaves out some of the events (a
note out of range, an arpeggio that does not play), the model takes the others in
the same order (`Only`). The two counts are bytes that stop at `CountMax`; that a
full queue and one more chord stay below it (64 packets and at most 4 voices
against 255) is an assumption of the module.

### SetPages

The thread of a page change, one step per rename: Move's own save, the stash of
every set, the fetching of every set of the new page, the truncation and the
writing of the page file, the restart. `PowerCut` starts Move anew from what is
on the disk, at any step; a rename may fail and is passed over; `PersistFails` is the page file
that cannot be opened or written, after which Move is restarted over the new
directories with the old page on disk or none; `ChangeFails` is
the change that gets no thread and leaves its flag up. Move may open, save and
make sets at any time, in the middle of the renames too. A set is the number of
its newest save, so that a copy left behind is seen to be old.

### LedQueue

A frame in the order of the code: `FrameClear` (watch and strip Move's packets,
enter or leave overtake), `FrameInject` (the UI's packets become pending colours
or take a slot), `FrameFlush` (pending colours within the budget, the end of a
pass, the transfer). Move sends between two frames; the UI process stores its
flags at any step, in the order of `loadOvertakeModule`, `resumeOvertakeModule`,
`exitOvertakeMode` and `exitToolOvertake`, and may load a tool over another.
`lit` is what the LEDs show, `moves` and `asked` what Move and the tool sent
last. `unknown` are the LEDs whose colour of Move the shim is in no position
to restore: one that Move changed while its packets were kept away, in a
session that will be undone from the snapshot or while an older colour was
still pending, and one that the list of buttons left to Move covers at one end of
the session only. How many LEDs there are of either kind is a constant.

### ParamChannel, MCParamChannel

One mailbox, three users: the shadow UI, blocking or (overtake mode) not waiting
for anything; the web server; the SPI thread, which answers. A store of a key, a
value, a header or a type is one step each. The answers of timed-out calls arrive
in the middle of later ones. Keys are two model values, and a value is the number
of the SET that sent it, so that a value says which key it was meant for.

### JackBridge

The two frame counters (`FrameSpan` values), the flag that says a block is there,
and the block as its left and right half, each the parity of the JACK cycle that
wrote it. The SPI thread tests, copies two halves, clears the flag, counts and
mixes; JACK is woken or times out, writes two halves, raises the flag, reports
the frame done; it may die at any step and attach again over the same page.
The one action without code of its own is the death of the server.

### LinkIn

One channel's ring between the sidecar, which copies a buffer and then moves
`write_pos` and looks at nothing else, and the mix, which loads both positions,
starves, jumps to the latest block or drops or repeats frames, and copies. The
positions are kept twice: in the 32-bit arithmetic of the code and, as history,
without a wrap. The channel may be resubscribed and the rebuild of the mix may be
left and entered at any frame; the latency setting may be toggled.


## The runs

| Run | Module, configuration | Distinct states | Shows |
|---|---|---|---|
| `sampler_states` | MCSampler, `Sampler_states.cfg` | 331,407 | thread and file fit the state; nothing past the target; a saved file is complete and as long as counted; cancelling removes the file; recording and pre-roll end without a clock; the whole sampler refines RecorderSpec; a stop returns |
| `sampler_trim` | MCSampler, `Sampler_trim.cfg` | stops at a violation | the file saved after a pre-roll is not the recording |
| `dispatch` | MidiDispatch, `MidiDispatch_frames.cfg` | 181,548 | no slot hears an event twice, none misses it, and no voice is left when the keys are up |
| `inject` | MidiInject, `MidiInject_all.cfg` | 500,946 | a queue while it has one writer; at most once with two; injection in quiet frames only; the queue empties |
| `param_all` | MCParamChannel, `ParamChannel_all.cfg` | 791,781 | a SET that returned true is applied, a GET is current, what is written was asked for, the mailbox becomes free |
| `skipback_resize` | Skipback, `Skipback_resize.cfg` | 465,556 | refinement of RollingTape; the flag excludes unless a resize overtakes the SPI thread; the flag comes down |
| `jack_frames` | JackBridge, `JackBridge_frames.cfg` | 242,910 | at most three frames ahead of JACK; a dead one is silent; only a late block can be torn; recovery |
| `link_ring` | LinkIn, `LinkIn_ring.cfg` | 106,434 | blocks are heard as produced, never older than the threshold, never twice |
| `pre_echo` | MCPreEcho, `PreEcho_all.cfg` | 505,988 | echoes are known, nothing hangs or stays counted, an arpeggio ends with its pads, injecting runs dry |
| `pre_transpose` | MCPreEcho, `PreEcho_transposed.cfg` | stops at a violation | in a transposed slot a chord feeds on itself |
| `leds` | LedQueue, `LedQueue_frames.cfg` | 2,430,542 | Move's colours come back after a session, a tool's are shown in it, and all passes end |
| `set_pages` | SetPages, `SetPages_change.cfg` | 189,975 | the newest save of every set is kept, in one place and on its page; a change arrives |

Some of the properties exclude something on purpose, and say so at their
definition, since the code does not do better; the runs let it happen, so that
the other properties cover it.

* `SavedFileComplete`: recordings with a pre-roll (those are `sampler_trim`).
* `TrueMeansApplied`, `ReadsCurrent` hold as long as the web server has not used
  the mailbox (`Alone`): the test for idle and the store of a key are two steps
  in each process, and with both of them a SET may be carried out with the
  other's key. `AloneWritesWereAsked` also excludes a SET of overtake mode that
  waited for nothing (`forgotten`): it may overwrite the key of a request in
  place. What `TrueMeansApplied` and `ReadsCurrent` say with such SETs about is
  that a blocking call after them still reports what is so.
* `FifoUnlessWrapped`: until the packet that fills the buffer.
* `NeverTwice`, `NeverMissed`, `NoVoiceHangs`: until the events cannot be told
  apart (`muddled`). `EchoesAreKnown`, `NothingHangs`: until the echoes cannot
  (`upset`), and without the arpeggiator, which injects note-offs of notes it
  did not inject. `Settles` excludes nothing but an arpeggio that is held.
* `MoveIsShown`: LEDs in `unknown`. `AskedIsShown`: colours the UI sent before
  the clearing was over, or that were dropped with a batch (`lost`).
* `ExclusiveUnlessOvertaken`: once a resize has taken the flag between a test of the
  SPI thread and its act (`overtaken`); that the data race is then reached is what
  `Exclusive`, the conjunct of `Next`, cuts off.
* `OnePlace`: after a save of Move in the middle of the renames. `PagesKept`:
  after a fault or such a save in the middle of a change.

Each module defines a type invariant (as far as the proofs
need them, the types are part of the invariants proved).
The runs spend their properties on the rest.

### Bounds, and why they are enough

The code's sizes are constants of the modules; what the configurations keep is
their relation to each other.

* *Recording.* The ring is 3 samples with blocks and chunks of 2: a block is no
  divisor of the ring, so it straddles the end at every offset, one block fills
  it and the next is dropped. A bar is 2 pulses or 2 blocks, and a recording of
  one bar and an endless one are chosen between; 8 samples are a pre-roll of two
  blocks and a recording of two, so that a bounded recording always has the
  blocks it needs to end by itself. `MaxSamples` and `MaxPulses` bound an endless
  recording: at the bound nothing more is captured or counted, and it waits to
  be stopped. (What the two threads do with other sizes is proved.)
* *Injection.* 3 places stand for the 64, so that the index comes round and a
  budget of 1 packet splits what waits. One packet of the shadow UI meets four of
  the chain at every step; `MaxBusy` bounds the frames in which the hardware is
  busy.
* *Dispatch.* One key, so that all events are as like as they can be, in four
  presses and releases. Move echoes within 1 frame and an entry is remembered for
  1; an event stays in MIDI_IN for 3 frames and is remembered for 3. The ring of
  contents has 4 entries for at most 2 events under way, since both readers enter
  each; nothing shorter would do, as the module assumes (`2 * Burst <= RingSize`).
  A forward channel that is the keyboard's and one that is not; two changes of transposition or mode; one note of the sequencer.
* *Pre mode.* Four pitches and a chord of three with steps of one: chords of
  neighbouring pads overlap in every way and leave the range. Two presses, one
  echo lost, one switch; 3 packets fit, so that a chord fills the queue and what
  comes on top of it, a second chord or half a pair of the arpeggiator's, is
  dropped, and a count goes to 6, which is what one of 3 packets and 3 voices can
  reach.
* *LEDs.* One LED set by a note and one by a controller (`NoteLeds`, `CcLeds`), one
  slot in a frame: a
  pass takes two frames, a session may end in each of them, and a packet for no
  LED finds no slot. Two sessions and three packets: the colours of Move, of one
  tool and of the next. The order of slots within a frame is not exercised here; the
  two invariants are proved for any number of slots, LEDs and sessions.
* *Set pages.* Three pages, so that a page is left for one side or the other, two
  sets, two saves of each, three changes and two faults: a fault in each of two
  changes and a third that starts from what they leave.
* *Mailbox.* Two calls of the shadow UI and one of the web server: a late answer
  needs a call before, the call, and somebody else. Three values of the ids make
  them come round. Two keys are as many as a mix-up needs.
* *Skipback.* Lengths 3 and 5 with blocks of 2: growing, shrinking, and wrapping
  at every offset; two resizes and one save at once; one failure to allocate or
  open; 6 samples fill the longer length and overwrite it.
* *JACK.* 8 frame numbers, more than the distance of 3 that the counters can
  have. (That nothing depends on 8 is proved for the two invariants.)
* *Link Audio.* A ring of 8 with blocks of 3 and a threshold of 6, buffers of 2 and 3
  frames, positions that come round at 16, and 18 frames: jumps, bursts and the
  wrap are all within reach. The reader does not stand still for a whole turn of the
  positions, neither between two reads nor in one (`InSpan`: in the code,
  2^32 samples, half a day). The threshold is below the ring, which the code
  asks for in `link_audio.h` and the module assumes.

Deadlock is checked in the sampler, the dispatcher, the LEDs and JackBridge. The
others may stop for the bounds alone, once all packets, calls or samples are used
up.


## Fairness

* *Threads run.* A thread that has started is scheduled (`WriterStep`,
  `SaveStep`, `ResizeStep`, `JackStep`): ordinary Linux threads.
* *The SPI thread returns.* It finishes the handler it is in and comes round
  again to the tasks of each frame (`FinishHandler`, `SpiStep`, `DrainOn`,
  `PollLength`): the hardware's frames go on, and nothing in a frame waits but for
  the sampler's mutex and join.
* *The mutex is handed on* (strong fairness of the signals in `SamplerWriter` and
  `Sampler`): the writer takes and gives it again and again, and the SPI thread
  gets it in one of the gaps. A futex mutex of glibc does not promise that, but
  the writer holds it for a test only and sleeps or writes to a file in between.
* *Blocks keep coming* between the other handlers (strong fairness of `Frame`): one
  per frame of the hardware.
* *The hardware becomes quiet* is not fairness but the bound `MaxBusy`:
  `InjectDrains` says that the queue empties once it is.
* The user, the tools, MIDI, the web server and the calls of the shadow UI get no
  fairness: nothing depends on their being made.
* *Move plays what is injected* and the render loop ticks (`Echo`, `Tick` in
  PreEcho): both once in a frame. Its pads get no fairness.
* *A page change goes on* (`ThreadStep` of SetPages): a thread of its own.
* *Frames go on* (`FrameGoesOn` of LedQueue): the three parts of a frame follow
  each other for ever, whatever the UI process does.
* JACK is only assumed to run and to have a timer while it is alive (`Recovers`
  says nothing of one that is gone).


## The proofs

Eight modules, 13,937 obligations, for every value of the constants the modules'
assumptions allow. No axiom and no unproved step is used.

**SamplerProofs: the machinery.** From `RingAssumption` (sizes are positive). `FileIsPrefix`
is not inductive: what goes into the file next is what the ring holds, so the
ring has to be described, and that in terms of how far both threads are in what
they do. `RecInv` is the conjunction:

* `RingInv`: the places from `read_pos` to `write_pos` hold the samples that follow
  those copied to the file;
* `FillInv`: while a block is being filled its places are free, and hold the
  samples that come next;
* `CopyInv`: what the writer measured is still there when it copies (the SPI
  thread only adds), and a writer that has ended has emptied the ring;
* `ThreadInv`, `MutexInv`: who runs and who holds the mutex;
* `WakeInv`: a writer at its wait has nothing to do, or the SPI thread is at its
  signal.

Each action preserves it, one lemma each for the steps that disturb several
conjuncts (`PublishPreserves`, `WaitPreserves`, `CopyPreserves`,
`AdvancePreserves`); ring arithmetic is in lemmas of its own (`RingArithmetic`,
`AdvanceWrite`, `AdvanceRead`, `FileGrows`). From `RecInvariance` follow
`FileIsPrefixAlways`, `NothingLost` (a joined writer has written all),
`NoLostWakeupEver`, `NoDataRace` and `ImplementsRecorder`: every step of
the two threads is a step of `RecorderSpec` or a stutter of it.

**SamplerProofs: the state machine.** `SamplerImplementsWriter`: whatever the buttons, the clock and
the tools do, they drive the machinery by its own steps only, so everything above
holds of `Sampler`, among it `SamplerKeepsPromise`. `MachineryAlwaysMatches`:
strengthened by what a handler in progress has still to do (`StateInv`), a
writer thread exists exactly in the states that record. `NeverPastTargetEver` is
strengthened to `TargetInv`: a recording or a count-in that is not being stopped is
below its targets at every step of a handler, and so is one that is paused, which
goes on from the same counters. `SavedFileAlwaysComplete` joins what is proved of
the machinery with what the state machine counts: `SaveInv` says how many samples
are to be trimmed, which run ahead of the ring while a block of the count-in is
on its way, stand still from the downbeat on, and lie within the file that
`RecInv` says a joined writer has written in full.
`CancelAlwaysRemovesFile` needs `CancelInv` beside the types: no handler that is
about to save is still in the count-in, so that the only ways out of it are the
downbeat and the removal of the file.

**SkipbackProofs.** From `SkipbackAssumption` (a length is more than a block:
in the code whole seconds against 128 samples). Inductive are `RingInv` (the position
lies in the ring, which has the length it was given), `SpiInv` (what the SPI
thread loaded before its write is still so) and `ResizeInv` (a resize that copies
has a ring to copy). The second of these is where `Exclusive`, the conjunct of
`Next`, is used: without it a swap may come between the load and the write, as
the code lets it. The arithmetic of the ring is said once: what a save or a
resize reads of the ring is a sequence, oldest first (`UnrolledIs`), a block added
to a ring that is not full, fills up or wraps makes it the newest samples
(`BlockGoes`), and so does the cut to another length (`KeptIsNewest`). With these
every step is one of `RollingTape` or a stutter
(`ImplementsTape`): the allocation, the block and the swap are `Allocate`, `Hear`
and `SetLength`, the read of a saver is `Save`. `AlwaysExclusiveUnlessOvertaken`
needs `FlagInv`: until a resize has overtaken the SPI thread, whoever saves or resizes
holds the flag and is the only one, and the SPI thread that has found it free finds
it so until it is done. `AlwaysLatest`: at
every moment the ring holds the latest samples without a gap.

**AudioInProofs: JACK.** From `FrameAssumption` (the counters have more than four
values). `NeverFarAheadAlways` needs that what JACK has seen lies
between what it has reported and the counter (`AheadInv`), so that reporting it
never takes it back; and that a counter about to be moved is at most two ahead.
`DeadIsSilentAlways` needs that the mixes since JACK's last report are not more
than the counter has moved, plus one (`ReplayInv`). `AlwaysWholeUnlessLate` needs
`WholeInv`: from JACK's flag to the shim's copy, JACK sits at its wait or is gone,
since what would wake it, a step of the counter, comes only after the copy. The
JACK that is woken is one whose flag is down, or `late`. Subtraction modulo the width
is brought back to a case distinction once (`AheadIs`, `OneFurther`).

**MidiInjectProofs: one writer.** From `QueueAssumption` (the index comes round within the
buffer). `AlwaysInOrderOnce`: however the two processes interleave, one writer's
packets arrive in order and none twice. Inductive is `OrderInv`: delivered, copied
and buffered packets are in order, *in that order*, as far as the writer has come
(`Bound`: the place it is about to write while it copies, the one after it while
it has still to store the index, else the index), and only while the buffer is
the drain's to read (`Held`: from the snapshot to the wipe it holds what was
already taken). The wipe is what makes it true: a stale index reaches empty places.
`NoneEverForgotten`: however long the session and however often `ready` wraps, what
is in the queue is announced, unless 256 calls (`ReadySpan`) come between two looks
of the drain. That count is a history variable, `unseen`, which `CountedSpec` puts
beside `Spec` and which guards no step. `AnnounceInv` says where `ready` is that many
signals after `last_ready`, its wrap included, and that something left in the buffer
has been signalled since.

**MidiInjectProofs: two writers.** `InjectsOnlyInQuiet` needs only that the deferral counts
quiet frames (`QuietInv`). `AlwaysOnceInOrder` is about a queue with two writers
and a drain that puts packets back. It claims that nothing arrives twice, always,
and order only for the SPI thread's packets until the index wraps: the shadow UI's
may be reordered. *Once* is `FreshInv`: no two places of the
delivered, the copied and the buffered packets hold the same one; the next
packet of a writer has a number that none has yet (`Written`). *In order* is
`ChainInv`, for the packets of the SPI thread, which cannot be overtaken by its own
drain: they are in order wherever they can still be read, and none is at or
behind the place of its next one. It holds until the index wraps (`ChainOrder`).
Both rest on lemmas that say what one frame takes and carries (`Portions`,
`InjectEffects`). `AlwaysFifoUnlessWrapped` says more while the SPI thread is the
only writer: nothing is lost. `AloneInv` counts: delivered, copied and buffered
packets together are those accepted, each at the place of its number, at every
step of the drain; a drain that has copied has left an empty buffer, and one that
rearms has put in front what it carries. Nothing of it is claimed once the shadow UI has
begun a write (`BegunInv`: it has then sent) or the index has wrapped.

**MidiInjectProofs: the echo filter.** From `EchoAssumption`, for every chord, range of
notes, queue and number of pads; in a slot that does not transpose
(`Transpose = 0`: in one that does it is not so, as `pre_transpose` shows). Only
the types (`EchoTypeCorrect`) hold for every transposition. That the filter knows
its echoes (`EchoesAreAlwaysKnown`) is not inductive: a count of some pitch says
nothing by itself. What it stands for is in `CountsBalance`, for each pitch `n`:

* the count is the releases of `n` on their way, and the voices of `n` that are
  open (`Open`: sounded, with the release still to come), together (`Balanced`);
* a note-on of `n` that is on its way has a release behind it or an open voice
  (`Answered`), so that the count is above zero when its echo arrives;
* whether a voice is open is a question of its pad when the chord plays at once, and
  of what waits for it first in the strum (`Down`); `Alternates` says that what
  waits for a voice is a note-on and a note-off in turn, ending as the pad is.

Each of the three ways in which a pitch is sent or heard (a chord with its voices
doubled, one voice of a strum, an echo) has its lemma on `Balanced`; how often an
event occurs in the code's loops, which leave some events out, is counted once
(`Among`, `Occurs`, `Only`). The counts stop at `CountMax` and would then be wrong:
they never get there, since the queue and one chord are together at most that
(`QueueMax + Len(Chord) <= CountMax`). Beside it stand what the pads hold
(`PadsAreCounted`) and what Move sounds (`SoundsAreKnown`: a pad holds it, or it is
counted), from which `NothingEverHangs` follows when all is quiet. With the
arpeggiator another invariant holds (`ArpKnown`): the notes it plays are of pads that
are down and counted, so none of them is injected but the releases, and the filter
counts nothing; `ArpAlwaysEnds` follows. Both parts hold until `upset`. What
waits in an effect that is no strum, and is held in one that is no arpeggiator, is
nothing (`FxInv`).

**SetPagesProofs.** From `PagesAssumption`, for any number of sets, pages, saves,
changes and faults. `Where` says, for each step of the thread, where a set must
be: with the old page's stash or still in Live, with the new page's stash or
already there, depending on whether it is still to be moved. `PlacesInv` says that
it is there and nowhere else, unless a fault or a save has come between (`mixed`).
`ThreadInv` ties the thread's arguments to the page on the disk, `DiskInv` makes
sure that Move has nothing open that is not there. `NewestAlwaysKept`,
`AlwaysOnePlace` and `PagesAlwaysKept` follow.

**AudioInProofs: Link Audio.** From `LinkAssumption` (the threshold is below the ring, and the
target of the nudge at or below the threshold). `LinkInv` says that the ring holds
the last `Ring` frames that were stored, and where (`RingInv`); that the positions
of the code are the true ones modulo their width (`PositionInv`), which makes
their difference the backlog as long as the two are less than a width apart
(`SpanInv`); and that a planned block lies within the threshold of what was
stored when it was planned (`PlanInv`), so that what is copied in under the read
would have to be more than the margin to reach it. The nudge and the jump
are a case distinction over where the block begins (`Threshold` and what follows it).
`AlwaysHeardAsProduced`, `NeverStaleEver` and `NeverBackEver` follow.

**ParamChannelProofs.** While the shadow UI is alone: `ChannelInv` says that an
idle mailbox means that the SPI thread has nothing under way (`BusyInv`), so that a caller that
found it idle is alone until it has written its request (`CallInv`, `WritingInv`);
that a request under way carries the key and the value of the call that waits
(`AnswerInv`: it is pending, or has had its effect), and that a call that is
done has what the parameter holds (`DoneInv`). That ids differ is not needed: they
are there for timeouts and a second user.
`TrueAlwaysMeansApplied`, `AlwaysReadsCurrent` and `AloneWritesAlwaysAsked` follow.

**MidiDispatchProofs.** From `DispatchAssumption`: the ring of contents has two places
for each event under way, and the timestamp rings have more places than an entry
has frames to live. `PlayerInv` is about the keyboard and Move, and holds always:
the events that are to be echoed are numbered one after the other and alternate
between on and off for each key. The other parts hold until `muddled`.
`PlaceInv` says why no ring forgets what it will be asked: every event that
MIDI_IN still holds has an entry of its own age in the rings of timestamps
(`KnowsEvents`), with at most one entry behind it for each frame of that age
(`OnePerFrame`), so that it grows old before it is overwritten; every event that
is to be echoed has one in the ring of contents (`KnowsAwaited`), with at most two
entries behind it for each later event, and one of the other reader. `HeardInv`
counts: a slot has heard the events up to the newest one, or up to the last echo
when a tool has taken over, once each, and no others. `VoiceInv` is about the voices: the
tracker of a slot holds no key but those that are down as far as the slot has heard
(`HeldIn`; for echoes `EchoedDown`, the keys as the echoes will leave them), every
voice has a key in the tracker that was sent as its note (`Voiced`), and until
something is transposed, or while two players hold a key, every key is sent as
itself (`Plain`).

A frame is taken in three pieces: what a reader leaves of the events of MIDI_IN
(`ReadersNone`, `ReadersOne`: it passes over all but the new one), what then holds
between the readers and MIDI_OUT (`Between`), and after it (`After`, by
`OutEcho`, `OutNote` and their like). The loop of a reader is a recursive function; that it is
the function one expects is shown for all lengths by induction over sets of
numbers (`LeastNumber`, `EveryNumber`), which needs no theorem with an operator
as parameter. `NeverTwiceEver`, `NeverMissedEver` and `NoVoiceEverHangs` follow.

**LedQueueProofs.** From `LedAssumption`, for any number of LEDs, slots, colours,
packets and sessions. A colour is in one place after another from where it is sent
to the LED: in a packet of this frame, in the shim's record of Move's colours, in
the snapshot, in the queue of the UI, pending, or shown. `LedInv` says in which:

* `OneSlot`: no two packets of a frame are for one LED; `PacketsAreMoves`: between
  two steps those are packets of Move's, with its last colours;
* `PassesApart`: nothing is restored within a session, and nothing cleared outside of
  one that will be undone;
* `AskedWaits` and `AskedArrives`: the last colour that a tool asked for is the last
  one in the queue, else pending, else shown, unless it was `lost`;
* `MoveSafe`, for the LEDs not in `unknown`: the record has Move's colour, and so has
  the snapshot for as long as it will be brought back (`MoveKnown`); otherwise the
  colour is pending or shown, or its packet is the only one that will arrive
  (`MoveArrives`).

The two loops of a frame, the packets of the UI and the passes over all LEDs, are
recursive functions. That such a function has its turns is shown once
(`TurnsExist`, by the least number without one), and what a loop does is an
invariant of its turns (`TakeInv`, `FlushInv`), from which each part of a frame is
described LED by LED. `MoveIsAlwaysShown` and `AskedIsAlwaysShown` follow. The proof
found a mistake in the history variable `unknown`: a tool that skips the clearing may
be loaded over one that does not. Move's packets then pass, but the session will be
undone from the snapshot, and a colour of Move that came meanwhile is out of sight
too. It takes three sessions to show, and TLC then showed it; `unknown` is
corrected.

With these, every invariant, every action property and both refinements that the
runs check are stated by a theorem.

Only model-checked: all liveness (`StopReturns`, `FallbackEnds`, `PrerollEnds`,
`InjectDrains`, `ChannelFrees`, `FlagReleased`, `Recovers`, `Settles`,
`LedsSettle`, `ChangeArrives`), which needs `ENABLED` and fairness that the prover
does not handle. The mailbox with two users and Pre mode with a transposition
are run with the others, and the properties claim nothing of them but that the
mailbox becomes free.


## Where the code and its words differ

Two are runs of a single property that a comment of the code states and TLC
refutes; `PROJECT.json` quotes the comments under "findings".

* `sampler_trim`: the pre-roll is cut off by reading the file back, through a
  stream that was opened with `"wb"`. The read yields nothing, and the file
  is cut at its end instead: it holds the pre-roll
  (`src/host/shadow_sampler.c:796`).
* `pre_transpose`: the filter counts the pitch it injected; the echo is transposed
  on its way back to the slot and looked up at another pitch. A chord whose
  interval is the transposition makes itself again, without end
  (`src/modules/chain/dsp/chain_host.c:6917`).

The others are in the models and are excluded from the properties by name, as
listed with the runs:

* *Injection.* The 64th packet stores 256 into the `uint8_t` `write_idx`, which
  reads as an empty queue (`src/host/shadow_midi.c:698`). The comment at 643 says
  that it never exceeds 252.
* *Skipback.* A resize that meets a save returns, "caller can retry later"; the
  caller has noted the new length already and does not
  (`src/schwung_shim.c:2504`).
* *Link Audio.* The nudge drops frames on the strength of the backlog before the
  jump, and takes the reader past the writer
  (`src/host/shadow_link_audio.c:168`). The 16th read above the target has to be
  one with a jump.
* *Queues.* Packets are lost to a write between the drain's copy and its reset.
* *Mailbox.* Requests of two users mix.
* *Skipback.* A capture may go into a buffer that a resize frees.
* *LEDs, buttons left to Move.* The list of them is set after `overtake_mode`,
  and emptied before it (or not at all, when a tool is left for another page
  of the UI): the buttons are turned off at the entry and not restored at the
  exit, or restored from what Move sent long ago. The comments
  (`src/host/shadow_led_queue.c:175`, `:202`) say that they keep Move's colour.
* *LEDs, resumed tools.* The second pass of clearing, frames after the entry, wipes
  the colours of a tool that goes on at once (`src/shadow/shadow_ui.js:3184`).
* *LEDs, skip_led_clear.* The comment at `src/shadow/shadow_ui.js:3285` says that
  the flag is looked at when the overtake ends; the code notes it at the entry.
  A tool loaded over another one keeps what the first one asked for.
* *MIDI out.* A packet without a slot drops the rest of its batch, colours too
  (`src/host/shadow_midi.c:530`).
* *Dispatch.* A note of Move's sequencer that equals a recent event of the keyboard is
  swallowed; a tool that takes over with keys down leaves the release to another
  reader; the ring of 32 recent events holds 16, since both readers enter each.
* *Pre mode.* A pad of a pitch whose echo is awaited is taken for the echo; the
  note-offs of an arpeggio come back as pads; a switch between Pre and Post with
  pads down may leave a note sounding.
* *Set pages.* A set saved by Move while its directory is moved is in two places,
  and every later change passes it over; a page change that fails half-way leaves
  a page with sets of two.


## Not modelled, and the plan

Left out for good, with the reason in `PROJECT.json`: sample arithmetic (effects,
mixing, resampling), drawing and menus, D-Bus parsing, speech, HTTP, shell scripts,
logging, the standalone host, vendored libraries. (These are most of the
repository's lines.) What a discrete model could tell
apart there is not what makes it correct. Within the modelled parts: the
memory is sequentially consistent (the code has barriers or acquire and release at
the places that count; a store that a weaker order could delay is in the model a
process that is slow); a full disk; the sampler's fade-in, VU meter and
tempo search; the overlay's second layer in Skipback; the MIDI and display pages
of the JACK page, its LEDs and those of an external device; events other than
notes in the dispatcher; the activation and remapping of slots; what patches,
LFOs and knobs do in the signal chain; inversions, voicings and the order of an
arpeggio; extended attributes and song indices of sets; LEDs that are in no list of
the shim.

Next, in this order, each with its run and the theorem worth having:

1. `LinkPub`: the rings in the other direction (the shim writes, the sidecar polls
   and resets after an overrun). `LinkIn`'s `HeardAsProduced`, mirrored; with it
   an abstract stream that both directions implement.
2. The MIDI pages of JACK as a second part of JackBridge (sent again by a late
   JACK, overwritten by an early one), and its LEDs.
3. `SamplerMailbox` (a command of one byte with the path and the source beside
   it), `WebRings`, `UiMidiRing`: further instances of the copy-then-reset
   pattern of `ShmQueue`.
4. `ChainSlots`: loading, unloading and routing, and what the keys of the mailbox
   do to them.
5. `Supervisor`: pids, restarts and their counts.
6. `Arp` and `Chord` as functions over all notes of a small instrument.

Proofs to come are those of these modules. Of the present ones, worth having
are: what `AloneWritesWereAsked` becomes for a mailbox with a second user, once its
requests are told apart; and how many frames a pass over the LEDs takes at most,
which would be the part of `LedsSettle` that is no liveness.
