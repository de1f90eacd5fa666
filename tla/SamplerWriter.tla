---------------------------- MODULE SamplerWriter ---------------------------
(***************************************************************************)
(* The recording machinery of host/shadow_sampler.c: the single-producer   *)
(* single-consumer ring between the SPI (audio) thread and the WAV writer  *)
(* thread, the mutex and condition variable that wake the writer, and the  *)
(* start, stop and join of that thread.  The state machine that decides    *)
(* when to start and stop is module Sampler.                               *)
(*                                                                         *)
(* A sample is the number of samples published before it in the session,   *)
(* so that order, loss and duplication show in the file's contents.        *)
(***************************************************************************)
EXTENDS Integers, Sequences

CONSTANTS
  RingSamples,   \* SAMPLER_RING_BUFFER_SAMPLES * SAMPLER_NUM_CHANNELS
  BlockSamples,  \* SAMPLER_FRAMES_PER_BLOCK * SAMPLER_NUM_CHANNELS
  WriteChunk,    \* the writer sleeps until this many samples wait (~250 ms)
  MaxSamples     \* bound on the samples of one session

ASSUME RingAssumption ==
  /\ RingSamples \in Nat \ {0}
  /\ BlockSamples \in Nat \ {0}
  /\ WriteChunk \in Nat \ {0}
  /\ MaxSamples \in Nat

VARIABLES
  ring,         \* sampler_ring_buffer
  write_pos,    \* sampler_ring_write_pos, stored by the SPI thread only
  read_pos,     \* sampler_ring_read_pos, stored by the writer only
  running,      \* sampler_writer_running
  should_exit,  \* sampler_writer_should_exit
  file,         \* the samples fwrite() has put in the WAV file
  spi,          \* what the SPI thread is in the middle of
  writer,       \* where the writer thread is
  available,    \* the writer's local of that name
  exiting,      \* the writer's local copy of should_exit
  mutex,        \* sampler_ring_mutex is held by the writer
  published     \* history: samples stored to the ring since the start

ringVars   == <<ring, write_pos, read_pos>>
writerVars == <<writer, available, exiting, mutex>>
recVars    == <<ring, write_pos, read_pos, running, should_exit, file, spi,
                writer, available, exiting, mutex, published>>

NoSample == -1

Positions == 0 .. RingSamples - 1

(* (p + k) % buffer_samples for a position p and a step k <= buffer_samples *)
Advance(p, k) == IF p + k < RingSamples THEN p + k ELSE p + k - RingSamples

(* How far the position q lies ahead of p, around the ring. *)
Distance(p, q) == IF q >= p THEN q - p ELSE RingSamples - (p - q)

AvailableRead == Distance(read_pos, write_pos)

AvailableWrite ==
  IF write_pos >= read_pos
  THEN RingSamples - (write_pos - read_pos) - 1
  ELSE read_pos - write_pos - 1

RecInit ==
  /\ ring = [p \in Positions |-> NoSample]
  /\ write_pos = 0
  /\ read_pos = 0
  /\ running = FALSE
  /\ should_exit = FALSE
  /\ file = <<>>
  /\ spi = "idle"
  /\ writer = "none"
  /\ available = 0
  /\ exiting = FALSE
  /\ mutex = FALSE
  /\ published = 0

-----------------------------------------------------------------------------
(* The SPI thread's side. *)

(* Mutant: should_exit keeps its value from the last session. *)
StartStillExiting ==
  /\ spi = "idle"
  /\ ~running
  /\ ring' = [p \in Positions |-> NoSample]
  /\ write_pos' = 0
  /\ read_pos' = 0
  /\ running' = TRUE
  /\ file' = <<>>
  /\ writer' = "lock"
  /\ available' = 0
  /\ exiting' = FALSE
  /\ published' = 0
  /\ UNCHANGED <<should_exit, spi, mutex>>

(* Allocate the ring, open the file, reset the cursors and create the      *)
(* thread: common to start_preroll, start_recording and start_recording_to *)
(* (malloc leaves the ring's contents undefined: nothing may read them).   *)
StartWriter ==
  /\ spi = "idle"
  /\ ~running
  /\ ring' = [p \in Positions |-> NoSample]
  /\ write_pos' = 0
  /\ read_pos' = 0
  /\ running' = TRUE
  /\ should_exit' = FALSE
  /\ file' = <<>>
  /\ writer' = "lock"
  /\ available' = 0
  /\ exiting' = FALSE
  /\ published' = 0
  /\ UNCHANGED <<spi, mutex>>

(* Mutant: the block is always written. *)
RoomUnchecked == TRUE

(* sampler_capture_audio_common: a block goes in whole or not at all. *)
RingHasRoom == AvailableWrite >= BlockSamples

FillBlock ==
  /\ spi = "idle"
  /\ running
  /\ RingHasRoom
  /\ published + BlockSamples <= MaxSamples
  /\ ring' = [p \in Positions |->
                IF Distance(write_pos, p) < BlockSamples
                THEN published + Distance(write_pos, p)
                ELSE ring[p]]
  /\ spi' = "filled"
  /\ UNCHANGED <<write_pos, read_pos, running, should_exit, file, writerVars,
                 published>>

(* The release store that hands the block to the writer. *)
PublishBlock ==
  /\ spi = "filled"
  /\ write_pos' = Advance(write_pos, BlockSamples)
  /\ published' = published + BlockSamples
  /\ spi' = "signal"
  /\ UNCHANGED <<ring, read_pos, running, should_exit, file, writerVars>>

(* A writer that waits on the condition goes for the mutex again. *)
Woken == IF writer = "asleep" THEN "lock" ELSE writer

(* Mutant: the signal is sent without taking the mutex. *)
SignalUnlocked(next) ==
  /\ spi = "signal"
  /\ writer' = Woken
  /\ spi' = next
  /\ UNCHANGED <<ringVars, running, should_exit, file, available, exiting,
                 mutex, published>>

SignalBlock(next) ==
  /\ spi = "signal"
  /\ ~mutex
  /\ writer' = Woken
  /\ spi' = next
  /\ UNCHANGED <<ringVars, running, should_exit, file, available, exiting,
                 mutex, published>>

(* Mutants: the flag is raised without a signal; stop does not join. *)
ExitUnsignalled ==
  /\ spi = "stop"
  /\ ~mutex
  /\ should_exit' = TRUE
  /\ spi' = "join"
  /\ UNCHANGED <<ringVars, running, file, writerVars, published>>

ReturnUnjoined(next) ==
  /\ spi = "join"
  /\ writer' = "none"
  /\ running' = FALSE
  /\ spi' = next
  /\ UNCHANGED <<ringVars, should_exit, file, available, exiting, mutex,
                 published>>

(* stop_recording: raise should_exit under the mutex, signal, then block   *)
(* in pthread_join until the writer has returned.                          *)
SignalExit ==
  /\ spi = "stop"
  /\ ~mutex
  /\ should_exit' = TRUE
  /\ writer' = Woken
  /\ spi' = "join"
  /\ UNCHANGED <<ringVars, running, file, available, exiting, mutex,
                 published>>

JoinWriter(next) ==
  /\ spi = "join"
  /\ writer = "done"
  /\ writer' = "none"
  /\ running' = FALSE
  /\ spi' = next
  /\ UNCHANGED <<ringVars, should_exit, file, available, exiting, mutex,
                 published>>

-----------------------------------------------------------------------------
(* The writer thread, sampler_writer_thread_func. *)

WriterLock ==
  /\ writer = "lock"
  /\ ~mutex
  /\ mutex' = TRUE
  /\ writer' = "test"
  /\ UNCHANGED <<ringVars, running, should_exit, file, spi, available,
                 exiting, published>>

(* The predicate of the wait loop, evaluated with the mutex held. *)
WriterTest ==
  /\ writer = "test"
  /\ writer' = IF AvailableRead < WriteChunk /\ ~should_exit
               THEN "wait" ELSE "unlock"
  /\ UNCHANGED <<ringVars, running, should_exit, file, spi, available,
                 exiting, mutex, published>>

(* pthread_cond_wait releases the mutex and sleeps in one step. *)
WriterSleep ==
  /\ writer = "wait"
  /\ mutex' = FALSE
  /\ writer' = "asleep"
  /\ UNCHANGED <<ringVars, running, should_exit, file, spi, available,
                 exiting, published>>

(* pthread_cond_wait may return without a signal. *)
SpuriousWake ==
  /\ writer = "asleep"
  /\ writer' = "lock"
  /\ UNCHANGED <<ringVars, running, should_exit, file, spi, available,
                 exiting, mutex, published>>

WriterUnlock ==
  /\ writer = "unlock"
  /\ exiting' = should_exit
  /\ mutex' = FALSE
  /\ writer' = "load"
  /\ UNCHANGED <<ringVars, running, should_exit, file, spi, available,
                 published>>

(* available is read once before each pass of the inner loop. *)
WriterLoad ==
  /\ writer = "load"
  /\ available' = AvailableRead
  /\ writer' = IF AvailableRead > 0 THEN "copy"
               ELSE IF exiting THEN "done" ELSE "lock"
  /\ UNCHANGED <<ringVars, running, should_exit, file, spi, exiting, mutex,
                 published>>

(* to_write: what is available, up to the end of the ring's memory. *)
ToWrite == IF available < RingSamples - read_pos
           THEN available ELSE RingSamples - read_pos

(* fwrite of the contiguous part. *)
WriterCopy ==
  /\ writer = "copy"
  /\ file' = file \o [i \in 1 .. ToWrite |-> ring[read_pos + i - 1]]
  /\ writer' = "advance"
  /\ UNCHANGED <<ringVars, running, should_exit, spi, available, exiting,
                 mutex, published>>

(* The release store that gives the slots back to the SPI thread. *)
WriterAdvance ==
  /\ writer = "advance"
  /\ read_pos' = Advance(read_pos, ToWrite)
  /\ writer' = "load"
  /\ UNCHANGED <<ring, write_pos, running, should_exit, file, spi, available,
                 exiting, mutex, published>>

WriterStep ==
  \/ WriterLock \/ WriterTest \/ WriterSleep \/ WriterUnlock
  \/ WriterLoad \/ WriterCopy \/ WriterAdvance

-----------------------------------------------------------------------------
(* The machinery on its own, under a caller that starts, feeds and stops   *)
(* it in any order stop_recording's and start_recording's guards allow.    *)

RequestStop ==
  /\ spi = "idle"
  /\ running
  /\ spi' = "stop"
  /\ UNCHANGED <<ringVars, running, should_exit, file, writerVars, published>>

SpiStep ==
  \/ StartWriter \/ FillBlock \/ PublishBlock \/ SignalBlock("idle")
  \/ RequestStop \/ SignalExit \/ JoinWriter("idle")

RecNext == SpiStep \/ WriterStep \/ SpuriousWake

RecSpec == RecInit /\ [][RecNext]_recVars

(* The writer thread is scheduled and a thread that wants the mutex gets   *)
(* it in the end; the SPI thread never stops inside a handler.  Starting,  *)
(* feeding and stopping are the caller's choice and get no fairness.       *)
RecFairness ==
  /\ WF_recVars(WriterStep)
  /\ WF_recVars(PublishBlock \/ JoinWriter("idle"))
  /\ SF_recVars(SignalBlock("idle") \/ SignalExit)

RecFairSpec == RecSpec /\ RecFairness

-----------------------------------------------------------------------------
(* Properties *)

RecTypeOK ==
  /\ ring \in [Positions -> Nat \cup {NoSample}]
  /\ write_pos \in Positions
  /\ read_pos \in Positions
  /\ running \in BOOLEAN
  /\ should_exit \in BOOLEAN
  /\ file \in Seq(Nat \cup {NoSample})
  /\ spi \in {"idle", "filled", "signal", "stop", "join"}
  /\ writer \in {"none", "lock", "test", "wait", "asleep", "unlock", "load",
                 "copy", "advance", "done"}
  /\ available \in Nat
  /\ exiting \in BOOLEAN
  /\ mutex \in BOOLEAN
  /\ published \in Nat

(* The WAV file holds a prefix of what the SPI thread published, in order: *)
(* the ring is never read before it is written, never overwritten before   *)
(* it is read, and nothing is written to the file twice, whatever part of  *)
(* a block lies on either side of the end of the ring's memory.            *)
FileIsPrefix ==
  /\ Len(file) <= published
  /\ \A i \in 1 .. Len(file) : file[i] = i - 1

(* The block being filled and the region being copied never share a slot:  *)
(* the relaxed accesses to the ring's memory are free of data races.       *)
NoOverlap ==
  spi = "filled" /\ writer \in {"copy", "advance"} =>
    \A p \in read_pos .. read_pos + ToWrite - 1 :
      Distance(write_pos, p) >= BlockSamples

(* A finished writer has written everything: stop_recording, which frees   *)
(* the ring right after the join, loses no sample.                         *)
NothingLostAtJoin ==
  writer = "done" => Len(file) = published

(* The writer is not left asleep with a chunk waiting and nobody about to  *)
(* signal: the wake-up is never lost between its test and its sleep.       *)
NoLostWakeup ==
  writer = "asleep" /\ AvailableRead >= WriteChunk => spi = "signal"

(* stop_recording returns: the SPI thread is not stuck in pthread_join.    *)
StopReturns == spi = "stop" ~> ~running

-----------------------------------------------------------------------------
(* The inductive invariant behind these. *)

(* The mutex is held exactly between the writer's lock and its unlock.     *)
MutexInv == mutex <=> writer \in {"test", "wait", "unlock"}

(* A writer thread exists exactly while the session runs, it is told to    *)
(* exit only by a stop that then waits for it, and it remembers only what  *)
(* it was told.                                                            *)
ThreadInv ==
  /\ running <=> writer # "none"
  /\ ~running => spi = "idle"
  /\ running => (should_exit <=> spi = "join")
  /\ exiting => should_exit
  /\ writer = "done" => exiting

(* The unread slots hold the samples that follow those already copied.     *)
Copied == IF writer = "advance" THEN Len(file) - ToWrite ELSE Len(file)

RingInv ==
  /\ published = Copied + AvailableRead
  /\ \A p \in Positions : Distance(read_pos, p) < AvailableRead =>
       ring[p] = Copied + Distance(read_pos, p)

(* The slots being filled lie outside the unread ones. *)
FillInv ==
  spi = "filled" =>
    /\ RingHasRoom
    /\ \A p \in Positions : Distance(write_pos, p) < BlockSamples =>
         ring[p] = published + Distance(write_pos, p)

(* What the writer loaded is still unread when it copies. *)
CopyInv ==
  /\ writer \in {"copy", "advance"} => available \in 1 .. AvailableRead
  /\ writer = "done" => AvailableRead = 0

WakeInv ==
  writer \in {"wait", "asleep"} =>
    /\ AvailableRead >= WriteChunk => spi = "signal"
    /\ ~should_exit

RecInv ==
  /\ RecTypeOK
  /\ MutexInv
  /\ ThreadInv
  /\ RingInv
  /\ FillInv
  /\ CopyInv
  /\ FileIsPrefix
  /\ WakeInv

-----------------------------------------------------------------------------
(* The machinery implements the recorder's promise.                        *)
Recorder == INSTANCE RecorderSpec WITH open <- running, taken <- published

RecorderPromise == Recorder!Spec
=============================================================================
