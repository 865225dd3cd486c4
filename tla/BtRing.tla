------------------------------- MODULE BtRing -------------------------------
(***************************************************************************)
(* The PCM of Bluetooth (a2dp_sink.c): the stack's data callback fills a   *)
(* ring buffer, a writer task drains it into the I2S channel, the bt_app   *)
(* task creates both when a source connects and frees them when it leaves. *)
(* The writer starts when the callback has prefetched enough and given a   *)
(* binary semaphore.                                                       *)
(***************************************************************************)
EXTENDS Integers, FiniteSets

CONSTANTS RINGBUF_SIZE, RINGBUF_PREFETCH,   \* in packets
          MaxLinks           \* bound: connections

ASSUME RingAssumption ==
  RINGBUF_SIZE \in Nat /\ RINGBUF_PREFETCH \in 1 .. (RINGBUF_SIZE - 1) /\ MaxLinks \in Nat

VARIABLES
  ring,                      \* s_ringbuf: No, or the number of the buffer
  fill,                      \* packets in it
  mode,                      \* s_ringbuf_mode
  sem,                       \* s_i2s_sem: No, or 0 or 1
  run,                       \* s_i2s_task_running
  writer,                    \* the writer: none, waiting, reading, writing
  held,                      \* s_i2s_task_handle # NULL
  bt_app,                    \* what the bt_app task is doing
  snapshot,                  \* the callback's copy of s_ringbuf, No between calls
  streaming,                 \* the source sends audio
  links, buffers             \* connections, and buffers created, so far

ringVars == << ring, fill, mode, sem, run, writer, held, bt_app, snapshot, streaming, links, buffers >>

No == -1
Exists(x) == x # No

(* bt_stack_evt_handler creates buffer, semaphore and writer once at boot. *)
RingInit ==
  /\ ring = 1 /\ buffers = 1 /\ fill = 0 /\ mode = "prefetching" /\ sem = 0
  /\ run = TRUE /\ writer = "waiting" /\ held = TRUE
  /\ bt_app = "idle" /\ snapshot = No /\ streaming = FALSE /\ links = 0

-----------------------------------------------------------------------------
(* i2s_task_start, at CONNECTED: nothing if a writer is still there. *)
(* A mutant: the mode of the last connection is kept. *)
StartKeepsMode ==
  /\ bt_app = "idle" /\ links < MaxLinks /\ links' = links + 1
  /\ bt_app' = "linked"
  /\ IF held THEN UNCHANGED << ring, fill, mode, sem, run, writer, held, buffers >>
     ELSE /\ IF Exists(ring) THEN UNCHANGED << ring, fill, buffers >>
             ELSE ring' = buffers + 1 /\ buffers' = buffers + 1 /\ fill' = 0
          /\ sem' = IF Exists(sem) THEN sem ELSE 0
          /\ run' = TRUE /\ writer' = "waiting" /\ held' = TRUE /\ UNCHANGED mode
  /\ UNCHANGED << snapshot, streaming >>
i2s_task_start ==
  /\ bt_app = "idle" /\ links < MaxLinks /\ links' = links + 1
  /\ bt_app' = "linked"
  /\ IF held THEN UNCHANGED << ring, fill, mode, sem, run, writer, held, buffers >>
     ELSE /\ mode' = "prefetching"
          /\ IF Exists(ring) THEN UNCHANGED << ring, fill, buffers >>
             ELSE ring' = buffers + 1 /\ buffers' = buffers + 1 /\ fill' = 0
          /\ sem' = IF Exists(sem) THEN sem ELSE 0
          /\ run' = TRUE /\ writer' = "waiting" /\ held' = TRUE
  /\ UNCHANGED << snapshot, streaming >>

(* The source starts to send, perhaps before its CONNECTED is handled. *)
Stream ==
  /\ ~streaming /\ streaming' = TRUE
  /\ bt_app = "linked" \/ (bt_app = "idle" /\ links < MaxLinks)
  /\ UNCHANGED << ring, fill, mode, sem, run, writer, held, bt_app, snapshot, links, buffers >>

(* i2s_task_stop, at DISCONNECTED: the writer is told and waited for, a    *)
(* second at most, which no write to the running channel takes; then       *)
(* buffer and semaphore are freed, whoever else still uses them.           *)
StopWriter ==
  /\ bt_app = "linked" /\ bt_app' = "stopping" /\ streaming' = FALSE
  /\ run' = FALSE /\ sem' = IF Exists(sem) THEN 1 ELSE sem
  /\ UNCHANGED << ring, fill, mode, writer, held, snapshot, links, buffers >>
FreeRing ==
  /\ bt_app = "stopping" /\ ~held /\ bt_app' = "idle"
  /\ ring' = No /\ fill' = 0 /\ sem' = No
  /\ UNCHANGED << mode, run, writer, held, snapshot, streaming, links, buffers >>

-----------------------------------------------------------------------------
(* bt_a2dp_data_cb, in the stack's task: the handle is read once, then the *)
(* packet is stored as the mode says.  The task of the stack may be        *)
(* delayed in between.                                                     *)
DataArrives ==
  /\ streaming /\ snapshot = No /\ Exists(ring) /\ snapshot' = ring
  /\ UNCHANGED << ring, fill, mode, sem, run, writer, held, bt_app, streaming, links, buffers >>

RingRoom == RINGBUF_SIZE - fill
StorePrefetching ==
  /\ mode = "prefetching" /\ fill' = fill + 1
  /\ IF fill + 1 >= RINGBUF_PREFETCH
     THEN mode' = "processing" /\ sem' = 1
     ELSE UNCHANGED << mode, sem >>
StoreProcessing ==
  /\ mode = "processing" /\ UNCHANGED sem
  /\ IF RingRoom < 1 THEN mode' = "dropping" /\ UNCHANGED fill
     ELSE fill' = fill + 1 /\ UNCHANGED mode
StoreDropping ==
  /\ mode = "dropping" /\ UNCHANGED sem
  /\ IF RingRoom > RINGBUF_PREFETCH THEN mode' = "processing" /\ fill' = fill + 1
     ELSE UNCHANGED << mode, fill >>
DataStored ==
  /\ Exists(snapshot) /\ snapshot' = No
  /\ IF snapshot = ring
     THEN StorePrefetching \/ StoreProcessing \/ StoreDropping
     ELSE UNCHANGED << fill, mode, sem >>      \* into a freed buffer: see SnapshotIsAlive
  /\ UNCHANGED << ring, run, writer, held, bt_app, streaming, links, buffers >>

-----------------------------------------------------------------------------
(* bt_i2s_writer_task. *)
Woken ==
  /\ writer = "waiting" /\ sem = 1 /\ sem' = 0 /\ writer' = "reading"
  /\ UNCHANGED << ring, fill, mode, run, held, bt_app, snapshot, streaming, links, buffers >>
(* Up to 512 bytes, or silence after 20 ms without any. *)
ReadRing ==
  /\ writer = "reading" /\ run
  /\ IF fill > 0 THEN fill' = fill - 1 /\ writer' = "writing" ELSE UNCHANGED << fill, writer >>
  /\ UNCHANGED << ring, mode, sem, run, held, bt_app, snapshot, streaming, links, buffers >>
Written ==
  /\ writer = "writing" /\ writer' = "reading"
  /\ UNCHANGED << ring, fill, mode, sem, run, held, bt_app, snapshot, streaming, links, buffers >>
WriterEnds ==
  /\ writer = "reading" /\ ~run /\ writer' = "none" /\ held' = FALSE
  /\ UNCHANGED << ring, fill, mode, sem, run, bt_app, snapshot, streaming, links, buffers >>

Writer == Woken \/ ReadRing \/ Written \/ WriterEnds
RingNext == i2s_task_start \/ Stream \/ StopWriter \/ FreeRing \/ DataArrives \/ DataStored \/ Writer

-----------------------------------------------------------------------------
RingTypeOK ==
  /\ ring \in {No} \cup 1 .. buffers /\ fill \in 0 .. RINGBUF_SIZE
  /\ mode \in {"prefetching", "processing", "dropping"} /\ sem \in {No, 0, 1}
  /\ run \in BOOLEAN /\ held \in BOOLEAN /\ streaming \in BOOLEAN
  /\ writer \in {"none", "waiting", "reading", "writing"}
  /\ bt_app \in {"idle", "linked", "stopping"} /\ snapshot \in {No} \cup 1 .. buffers
  /\ links \in 0 .. MaxLinks

(* While the source goes on sending, its sound is written again and again, *)
(* on every connection, whatever mode the last one ended in.               *)
SoundComes == <>[]streaming => []<>(writer = "writing")

(* a2dp_sink.c, bt_a2dp_data_cb: a snapshot is taken "so it can't be freed *)
(* between the NULL check and the API calls".                              *)
SnapshotIsAlive == Exists(snapshot) => snapshot = ring
=============================================================================
