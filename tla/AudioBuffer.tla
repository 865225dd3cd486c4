---------------------------- MODULE AudioBuffer ----------------------------
(***************************************************************************)
(* main/audio/audio_buffer.c: the pool of decoded PCM frames between the   *)
(* stream task that decodes packets (producer), the playback task          *)
(* (consumer), and every task that flushes (RTSP client tasks, and the     *)
(* playback task itself when a deferred flush fires).                      *)
(*                                                                         *)
(* Pool indices live in two arrays, sorted[] and free_stack[], that a      *)
(* spinlock protects: a lock region is one action.  The counting           *)
(* semaphore data_ready is used outside the lock (one exception: the       *)
(* overflow path), so each semaphore call is an action of its own.         *)
(* A chunk of AAC_FRAMES_PER_PACKET samples is one timestamp unit.         *)
(***************************************************************************)
EXTENDS Integers, Sequences, FiniteSets

CONSTANTS
  Capacity,     \* MAX_RING_BUFFER_FRAMES: slots in the pool
  TsMod,        \* 2^32, the modulus of RTP timestamps
  Timestamps,   \* the timestamps the stream carries
  MaxChunks,    \* bound: chunks one decoded packet is split into
  Producers,    \* stream tasks that call audio_buffer_queue_decoded
  Flushers,     \* RTSP client tasks that call audio_buffer_flush
  Playback,     \* the consumer task
  DeferredFlush, \* whether the playback task flushes too (FLUSHBUFFERED)
  NoSlot

ASSUME CapacityAssumption == Capacity \in Nat \ {0}
ASSUME TimestampAssumption ==
  TsMod \in Nat \ {0} /\ Timestamps \subseteq 0 .. TsMod - 1 /\ MaxChunks \in Nat \ {0}
ASSUME TaskAssumption ==
  /\ Playback \notin Producers \cup Flushers
  /\ Producers \cap Flushers = {}
  /\ DeferredFlush \in BOOLEAN

(* A thousand slots, and one or two stream tasks. *)
ASSUME ProducerAssumption == IsFiniteSet(Producers) /\ Cardinality(Producers) < Capacity

Slots == 0 .. Capacity - 1

ASSUME NoSlotAssumption == NoSlot \notin Slots

VARIABLES
  sorted,       \* slots holding a frame, oldest first: sorted[0 .. count-1]
  free_stack,   \* free slots, top last: free_stack[0 .. free_top-1]
  rtp,          \* rtp_timestamp in the header of each slot
  data_ready,   \* value of the counting semaphore
  held,         \* the slot audio_buffer_take handed to the playback task
  chunk,        \* per producer: timestamp of the next chunk, chunks left
  pc            \* where each task is between two lock regions

vars == << sorted, free_stack, rtp, data_ready, held, chunk, pc >>

Tasks == Producers \cup Flushers \cup {Playback}

count == Len(sorted)
free_top == Len(free_stack)

-----------------------------------------------------------------------------
(* Mutant: timestamps compared without the wraparound. *)
ts_cmp_plain(a, b) == a - b

(* Signed difference of two timestamps: the cast to int32_t in ts_cmp. *)
ts_cmp(a, b) ==
  LET d == (a - b) % TsMod IN IF 2 * d < TsMod THEN d ELSE d - TsMod

(* The timestamps in use lie within half of their range, where the signed  *)
(* difference is an order: the pool holds seconds, half is half a day.     *)
ASSUME OrderAssumption ==
  \A a, b, c \in Timestamps :
    ts_cmp(a, b) <= 0 /\ ts_cmp(b, c) < 0 => ts_cmp(a, c) < 0

(* Where a frame goes: after every frame of s that is strictly older.  The *)
(* binary search of the code is checked against this in module InsertPos.  *)
sorted_insert_pos(s, t) ==
  Cardinality({i \in 1 .. Len(s) : ts_cmp(rtp[s[i]], t) < 0})

InsertSlot(s, pos, slot) ==
  SubSeq(s, 1, pos) \o << slot >> \o SubSeq(s, pos + 1, Len(s))

(* Mutant: a take that forgets to look. *)
TakeBlindly(n) == n - 1

(* A take that does not block: xSemaphoreTakeFromISR, or a zero timeout. *)
TakeIfAny(n) == IF n > 0 THEN n - 1 ELSE n

(* The condition of the overflow loop in audio_buffer_queue_chunk. *)
AtCapacity == count >= Capacity

(* Mutants: the overflow path takes no token back, or every token. *)
KeepTokens == data_ready
DropTokens == IF AtCapacity THEN 0 ELSE data_ready

(* The overflow path takes one token, if there is one, for the victim. *)
TokensAfterOverflow == IF AtCapacity THEN TakeIfAny(data_ready) ELSE data_ready

Init ==
  /\ sorted = << >>
  /\ free_stack = [i \in 1 .. Capacity |-> i - 1]
  /\ rtp = [s \in Slots |-> 0]
  /\ data_ready = 0
  /\ held = NoSlot
  /\ chunk = [p \in Producers |-> [ts |-> 0, left |-> 0]]
  /\ pc = [t \in Tasks |-> "idle"]

Goto(t, label) == pc' = [pc EXCEPT ![t] = label]

-----------------------------------------------------------------------------
(* audio_buffer_queue_decoded: a decoded packet of n chunks starting at t. *)
QueueDecoded(p) ==
  /\ pc[p] = "idle"
  /\ \E t \in Timestamps, n \in 1 .. MaxChunks :
       /\ \A k \in 0 .. n - 1 : (t + k) % TsMod \in Timestamps
       /\ chunk' = [chunk EXCEPT ![p] = [ts |-> t, left |-> n]]
  /\ Goto(p, "queue")
  /\ UNCHANGED << sorted, free_stack, rtp, data_ready, held >>

(* The lock region of audio_buffer_queue_chunk.  At capacity the oldest    *)
(* frame is dropped, and one token taken back if there is one; then, with  *)
(* no free slot, the chunk and the rest of its packet are refused.         *)
QueueChunk(p) ==
  LET full == AtCapacity
      kept == IF full THEN Tail(sorted) ELSE sorted
      free == IF full THEN Append(free_stack, Head(sorted)) ELSE free_stack
      slot == free[Len(free)]
  IN  /\ pc[p] = "queue"
      /\ data_ready' = TokensAfterOverflow
      /\ \/ /\ free = << >>
            /\ sorted' = kept
            /\ Goto(p, "idle")
            /\ UNCHANGED << free_stack, rtp >>
         \/ /\ free # << >>
            /\ free_stack' = SubSeq(free, 1, Len(free) - 1)
            /\ sorted' = InsertSlot(kept, sorted_insert_pos(kept, chunk[p].ts), slot)
            /\ rtp' = [rtp EXCEPT ![slot] = chunk[p].ts]
            /\ Goto(p, "give")
      /\ UNCHANGED << held, chunk >>

(* xSemaphoreGive after the lock is released, then the next chunk. *)
GiveToken(p) ==
  /\ pc[p] = "give"
  /\ data_ready' = IF data_ready < Capacity THEN data_ready + 1 ELSE data_ready
  /\ chunk' = [chunk EXCEPT ![p] = [ts |-> (@.ts + 1) % TsMod, left |-> @.left - 1]]
  /\ Goto(p, IF chunk[p].left > 1 THEN "queue" ELSE "idle")
  /\ UNCHANGED << sorted, free_stack, rtp, held >>

-----------------------------------------------------------------------------
(* audio_buffer_take, before the lock: xSemaphoreTake succeeds. *)
TakeToken ==
  /\ pc[Playback] = "idle" /\ data_ready > 0
  /\ data_ready' = TakeIfAny(data_ready)
  /\ Goto(Playback, "take")
  /\ UNCHANGED << sorted, free_stack, rtp, held, chunk >>

(* The lock region of audio_buffer_take: the oldest frame, if there is one. *)
TakeOldest ==
  /\ pc[Playback] = "take"
  /\ IF count = 0
       THEN Goto(Playback, "idle") /\ UNCHANGED << sorted, held >>
       ELSE /\ held' = Head(sorted)
            /\ sorted' = Tail(sorted)
            /\ Goto(Playback, "holding")
  /\ UNCHANGED << free_stack, rtp, data_ready, chunk >>

(* audio_buffer_return; a deferred flush then continues with a flush. *)
Return ==
  /\ pc[Playback] = "holding"
  /\ free_stack' = Append(free_stack, held)
  /\ held' = NoSlot
  /\ \/ Goto(Playback, "idle")
     \/ DeferredFlush /\ Goto(Playback, "flush")
  /\ UNCHANGED << sorted, rtp, data_ready, chunk >>

-----------------------------------------------------------------------------
(* Who may begin a flush. *)
MayFlush(t) == IF t = Playback THEN pc[t] = "flush" ELSE pc[t] = "idle"

(* Mutant: the frames are freed but count is not reset. *)
FlushKeepsCount(t) ==
  /\ MayFlush(t)
  /\ free_stack' = free_stack \o sorted
  /\ Goto(t, "drain")
  /\ UNCHANGED << sorted, rtp, data_ready, held, chunk >>

(* audio_buffer_flush, the lock region: every frame's slot becomes free. *)
FlushSlots(t) ==
  /\ MayFlush(t)
  /\ free_stack' = free_stack \o sorted
  /\ sorted' = << >>
  /\ Goto(t, "drain")
  /\ UNCHANGED << rtp, data_ready, held, chunk >>

(* audio_buffer_flush, after the lock: one iteration of the drain loop. *)
DrainToken(t) ==
  /\ pc[t] = "drain"
  /\ data_ready' = TakeIfAny(data_ready)
  /\ IF data_ready > 0 THEN UNCHANGED pc ELSE Goto(t, "idle")
  /\ UNCHANGED << sorted, free_stack, rtp, held, chunk >>

-----------------------------------------------------------------------------
Produce(p) == QueueDecoded(p) \/ QueueChunk(p) \/ GiveToken(p)
Consume == TakeToken \/ TakeOldest \/ Return
Flush(t) == FlushSlots(t) \/ DrainToken(t)

Next ==
  \/ \E p \in Producers : Produce(p)
  \/ Consume
  \/ \E t \in Flushers \cup {Playback} : Flush(t)

Spec == Init /\ [][Next]_vars

(* The scheduler runs every task: a started call is finished, and the      *)
(* playback task reads again and again.  Nothing makes a stream or an RTSP *)
(* task start a new call.                                                  *)
Fairness ==
  /\ \A p \in Producers : WF_vars(QueueChunk(p) \/ GiveToken(p))
  /\ WF_vars(Consume \/ Flush(Playback))
  /\ \A t \in Flushers : WF_vars(DrainToken(t))

FairSpec == Spec /\ Fairness

-----------------------------------------------------------------------------
(* Types of the variables. *)
TypeOK ==
  /\ sorted \in Seq(Slots) /\ count <= Capacity
  /\ free_stack \in Seq(Slots) /\ free_top <= Capacity
  /\ rtp \in [Slots -> 0 .. TsMod - 1]
  /\ data_ready \in 0 .. Capacity
  /\ held \in Slots \cup {NoSlot}
  /\ chunk \in [Producers -> [ts : 0 .. TsMod - 1, left : 0 .. MaxChunks]]
  /\ pc \in [Tasks -> {"idle", "queue", "give", "take", "holding", "flush", "drain"}]

(* Every slot of the pool is in exactly one place: on the free stack once, *)
(* in the sorted index once, or with the playback task.  No interleaving   *)
(* of queue, overflow, take, return and flush loses a slot (the pool would *)
(* shrink) or doubles one (two frames would share memory).                 *)
NoSlotDoubled ==
  /\ \A i, j \in 1 .. count : sorted[i] = sorted[j] => i = j
  /\ \A i, j \in 1 .. free_top : free_stack[i] = free_stack[j] => i = j
  /\ \A i \in 1 .. count, j \in 1 .. free_top : sorted[i] # free_stack[j]
  /\ \A i \in 1 .. count : sorted[i] # held
  /\ \A j \in 1 .. free_top : free_stack[j] # held

NoSlotLost ==
  \A s \in Slots :
    \/ s = held
    \/ \E i \in 1 .. count : sorted[i] = s
    \/ \E j \in 1 .. free_top : free_stack[j] = s

SlotPartition == NoSlotDoubled /\ NoSlotLost

(* The frames a reader finds are in play order even across the wrap of the *)
(* 32-bit timestamp and whatever order the packets arrived in.             *)
PlayOrder ==
  \A i, j \in 1 .. count :
    i < j => 2 * ((rtp[sorted[j]] - rtp[sorted[i]]) % TsMod) < TsMod

(* Tokens that exist, that a producer is about to give or the playback     *)
(* task has just taken, against the frames.                                *)
TokensOwed == Cardinality({p \in Producers : pc[p] = "give"})
TokenInHand == IF pc[Playback] = "take" THEN 1 ELSE 0
Balanced == data_ready + TokensOwed + TokenInHand = count

(* The overflow path takes a token "to keep it in sync", and it does: no   *)
(* queue, overflow, take or return upsets the balance of tokens and        *)
(* frames.  Only a flush can, which frees the frames under the lock and    *)
(* drains the tokens after it.                                             *)
TokenPerFrame ==
  [][Balanced => Balanced' \/ \E t \in Flushers \cup {Playback} : Flush(t)]_vars

(* When no call is in progress, the semaphore counts the frames. *)
SemaphoreInSync == (\A t \in Tasks : pc[t] = "idle") => data_ready = count

(* While nobody flushes, the playback task is never starved beside a       *)
(* buffered frame: as long as the pool holds one, audio_buffer_take goes   *)
(* on to hand one out.                                                     *)
BufferedFrameIsPlayed ==
  [](\A t \in Tasks : pc[t] # "drain") =>
    (count > 0 ~> (pc[Playback] = "holding" \/ count = 0))

(* A frame is refused only when the playback task holds the last slot. *)
RefusedOnlyWhileHeld ==
  [][\A p \in Producers : (pc[p] = "queue" /\ pc'[p] = "idle") => held # NoSlot]_vars
=============================================================================
