# A TLA+ development of florid-usb-protocols

The repository is a header-only C++20 library that carries the commands and the
telemetry of a robot arm over a serial link. Its heart is a small reliable
request/response protocol: transaction ids, a sending window, acknowledgements,
retransmission on timeout, deduplication and a response cache on the device.
This directory models that protocol from the code, checks it with TLC on small
instances, and proves with TLAPS, for all constants, the safety properties of nearly every
part: the session and the stack around it, two stacks over a lossy line (at-most-once
execution included), the parser, both rings and the way of a packet to its handler.

## 1. Inventory of the system

| Component | State | Operations | Interacts with | What makes it correct |
|---|---|---|---|---|
| `include/ReliableSession.hpp` | next id, inflight count, pending map, outbound queue, two dedup rings, response cache and its order | `next_tx_id`, `set_next_tx_id`, `register_pending`, `on_ack`, `on_response`, `poll`, `next_outbound`, `on_request`, `cache_response`, `reset_device_state` | called by `ProtocolStack`; runs response and error callbacks of the application | window never leaks nor overfills; one callback per call; retries within the limit; bounded cache |
| `include/IdRingBuffer.hpp` | ids, write index | `test_and_insert`, `clear` | held twice by the session | a sliding window over the newest ids |
| `include/ProtocolStack.hpp` | session, transmit queue, handlers, parser, receive ring | `send`, `send_response_and_cache`, `broadcast`, `register_handler`, `run_one_cycle`, `isr_feed`, DMA buffer access, `bind_to_current_thread` | parser (calls it back through `ProtocolDispatch`), session, `m_send_frame`, application handlers | every packet reaches the right half; the queue stays bounded and gives up telemetry first; retransmitted bytes are valid |
| two stacks over a link | all of it, twice, and the frames in flight | | host application, device application, serial line | a call is executed at most once and ends in exactly one outcome |
| `include/ISRRingBuffer.hpp` | bytes, write index (atomic), read index (plain), drop count | `write` (interrupt), `read`, `available`, `clear` (thread) | `isr_feed`, `drain_rx` | bytes come out as they went in; a write is whole or dropped |
| `include/ProtocolDispatch.hpp`, binding in `ProtocolStack` | `on_packet()` (one per thread, for stacks of every type), `instance()` (one per thread and type) | construct, destroy, `bind_to_current_thread` | parser to stack | packets go to the stack whose cycle runs, never through a stale pointer |
| `include/ArmCommand.hpp`, `ArmStatus.hpp` | none | packet layouts and command ids | all | ids fit the classification rules, frames fit the buffers |
| `examples/send_serial.cpp`, `test_arm.cpp`, `receive_serial.cpp` | `done`, `success` | a counted loop of `run_one_cycle` and `sleep_for` | stack, serial port's reader thread | the loop outlasts the call it waits for |
| RPL `Parser`, `BipBuffer` | byte regions, parse position | `push_data`, `get_write_buffer`, `advance_write_index` | `drain_rx`, DMA | frames are found again after noise; no overrun |
| RPL `Deserializer`, memory pool | packet pool, sequence counters | `write`, `get` | parser, other threads | no torn reads |
| RPL `Serializer` | sequence number | `serialize` | transmit path | inverse of the parser |
| RPL `USBTransport`, `AckManager` | 256 request slots, id counter | `allocate`, `resolve`, `wait_ack`, `check_timeouts` | applications that do not use `ProtocolStack` | an ack reaches the request that waits for it |
| RPL `ConnectionMonitor` | time of the last packet | `on_packet`, queries | parser | tick arithmetic over a wrap |

Threads: one protocol thread per stack runs `run_one_cycle` and, inside it, every
handler and callback. The receive interrupt (or a serial reader thread) writes the
ISR ring. So the session and the stack are sequential, and what makes them hard is
re-entrance (callbacks that call back into the stack), the order in which packets
arrive, loss, retransmission and restarts. Two stacks run concurrently.

`PROJECT.json` lists each hazard at its line with the properties aimed at it.

## 2. Modules

| Module | Models | State and actions |
|---|---|---|
| `IdRingBuffer` | the dedup ring as operators on a value | `Holds` is what `test_and_insert` returns, `Inserted` what it leaves |
| `DedupRing` | one ring driven by any calls | `test_and_insert`, `clear` |
| `SlidingWindow` | abstract: remembers the last *n* new ids | refined by `DedupRing` (proved), and by the ring inside a session (run `session_host`) |
| `DedupRing_proofs` | theorems about `DedupRing` | |
| `ReliableSession` | one session, both halves | a variable per member, an action per operation; `answers` records the callbacks each call has received |
| `ReliableSession_proofs` | theorems about `ReliableSession` | |
| `MCSessionHost` | the host half, any order of calls | `verdict` remembers whether the last response had an effect: what a caller sees of the ring |
| `PacketClasses` | what `ProtocolStack` reads off a command id | `Route`: ack, request or response |
| `ArmPackets` | id, size and role of every packet of `ArmCommand.hpp` and `ArmStatus.hpp`; packs of the examples; frame and buffer sizes of a pack | |
| `ProtocolStack` | one endpoint: session, transmit queue, dispatch, the cycle | `phase` is the place in `run_one_cycle`; one action per handler branch and per step of the cycle |
| `MCProtocolStack` | one endpoint in an arbitrary environment | |
| `ProtocolStack_proofs` | theorems about one endpoint in that environment, and about `MCSessionHost` | |
| `ReliableLink` | two `ProtocolStack` instances, lossy FIFO channels, restarts | actions of the endpoints composed with `h2d` and `d2h` |
| `ReliableCall` | abstract: at-most-once remote call | refined by `ReliableLink` (proved) |
| `ReliableLink_proofs` | theorems about `ReliableLink`: the registry of calls, answers, losses, acks; the order of requests, at-most-once, the refinement | |
| `SerialHost` | the host of `ReliableLink` as the examples run it | `main` works or sleeps; `turns` counts the loop's turns since a call was made |
| `SerialHost_proofs` | theorems about `SerialHost` | |
| `ReceivePath` | several stacks of several types on several threads, from `isr_feed` to the handler function | `on_packet`, `instance` and the life of stacks; per stack the frames in ring and parser; per thread the place in `drain_rx` |
| `ReceivePath_proofs` | theorems about `ReceivePath` | |
| `MCReceivePath` | packets, sizes and buffers taken from `ArmPackets` | |
| `ISRRingBuffer` | the receive ring, interrupt and thread interleaved byte by byte | `WriteStart`, `WriteByte`, `WritePublish`; `ReadStart`, `ReadByte`, `ReadDone`; `clear` |
| `ByteChannel` | abstract: a bounded FIFO of whole chunks with a drop counter | refined by `ISRRingBuffer` (proved) |
| `ISRRingBuffer_proofs` | theorems about `ISRRingBuffer` | |
| `MCISRRing` | chunks for TLC | |
| `BipBuffer` | the parser's buffer as operators on a value | one operator per member function the parser uses |
| `Parser` | chunks in by `push_data` or DMA, and the scanning loop | an action per outcome of a round of `try_parse_packets` |
| `FrameStream` | abstract: a parser of one unbroken stream that loses no frame | refined by `Parser` (proved) |
| `Parser_proofs` | theorems about `BipBuffer` and `Parser` | |
| `MCParser` | frames, streams and their fragments for TLC | |
| `MCReliableLink`, `MCSerialHost` | command ids, id sequences and symmetry for TLC | |

Abstractions that matter:

* **Payloads.** A call is a model value: it stands for the bytes of the request and
  for its two callbacks. A response body is the call it answers, so that a response
  that reaches another call is visible.
* **Frames** on a link are whole, and a corrupted one is a lost one (see `Parser`
  below for what happens to its bytes). Links are FIFO (a serial line) and lose frames;
  duplicates arise from retransmission.
* **Time.** `left` is `deadline - now` in ticks. A tick may come at any moment, so a
  timeout can race every answer; `poll` tests `left = 0`, the negation of
  `now < deadline`. `poll` re-reads the clock for the new deadline; the model reads
  it once, which only moves the new deadline within one tick.
* **Dedup keys** are pairs: `compose_dedup_key` packs 16 and 32 bits into 64 and is
  injective. Unwritten slots hold `T{}`, the pair `<<0, 0>>`.
* **Maps.** The order of iteration of `ankerl::unordered_dense::map` is arbitrary:
  `PollSession` queues retransmissions in any order. A new entry may make it
  reallocate: `Send` may invalidate the pointers `poll` returned.
* **Application.** It may call `send`, `broadcast` and `register_handler` between two
  cycles, in handlers and in error callbacks. It answers a request when its handler
  runs or in any later cycle, once or never. (In `MCProtocolStack` a handler may
  answer repeatedly.)
* **Types outside the pack.** `send` takes a request of any type with a transaction id, but
  only the types of the stack's own pack (`PacketCmds`) can be serialised. For another one
  `enqueue_pending_frame` makes room, drops a telemetry frame for it if it must, and fails.
  For `broadcast` and `send_response_and_cache` the compiler sees to it (`Serializable`, Serializer.hpp:90).
* **Ids.** A call never gets the id of one that is still pending or queued
  (`Unused`). The code does not check this; with 32-bit ids it takes 2^32 calls or a
  badly chosen `set_next_tx_id`. Otherwise ids wrap and are reused freely.
* **Bytes and checksums.** In `Parser` the i-th byte of frame f is `<<f, i>>`; noise
  bytes are of no frame, and some bytes (in the middle of a frame, too) equal the start
  byte. A checksum is right exactly for the bytes it was computed over. What arrives are
  fragments of a few streams in any order, so that frames are cut, spliced, damaged and
  repeated. A byte outside both regions is marked `Free`, which the code does not do: a
  read of a stale byte would show.
* **Frames in `ReliableLink`** are whole because `Parser` shows that nothing but damage
  or a refused chunk loses one. One thing it leaves open: after a damaged frame whose
  header was right the parser waits for the length announced, so the frames behind it
  are delivered only when enough bytes have followed.
* **The receive ring.** `write` runs in an interrupt or in a serial reader's thread, so
  the model interleaves single bytes of both `memcpy`s. `m_write_idx` is atomic with
  release and acquire; `m_read_idx` is not, and `ReaderOrders` says whether its update
  may become visible before the copy. `clear` is called by nobody in the stack; it is
  modelled for a caller that masks the interrupt.
* **The receive path.** A program keeps to a discipline that the model assumes: a thread
  runs a cycle of the stack it bound last; no two threads run one stack; nothing is
  built, bound or destroyed on a thread inside its own cycle, but anything may happen on
  *other* threads meanwhile. Without the first clause `OwnPacketsOnly` is false: the
  parser of one stack would call the other. A stack is its storage, so a new one may be
  built where an old one was and a pointer left behind would hit it. The unit is a whole
  frame; bytes are the business of `Parser` and `ISRRingBuffer`, from which `SureFit`
  takes what `push_data` cannot refuse; between that and the size of the buffer it may.
* **Packets.** Sizes are the sums of the packed fields, each formula and id compared with
  what a compiler makes of the headers. A packet's `role` comes from the struct it
  is and not from its id, so that `RoutedByRole` says something.
* **The loop of the examples.** A cycle is as many steps as in `ProtocolStack`; a
  sleep lets `SleepTicks` pass at once. Time may also pass while the thread works, and
  the device and the link may do anything at any moment.
* `executed`, `abandoned`, `host_run`, `device_run` and `answers` are history: no
  guard but the bounds on restarts and `k \notin DOMAIN answers` (each call is made
  once) reads them.

## 3. Runs

Faults of the code that the mutants inject stand next to the definition they change
and are marked `Fault`.

| Run | Instance | Shows |
|---|---|---|
| `session_host` | window 2, 3 calls, ids 0..2 (reused after a wrap), 1 retry, response ring of 1 | exact inflight count, window bound, queue exact, one callback, retries, no early timeout, under forged, mismatched, stray and late responses; the ring of responses is a sliding window |
| `stack` | one endpoint as host and device, window 1, 3 calls, queue of 2, requests of a type in the pack and of one outside | no more copies of a call wait than its retries; retransmitted bytes valid, queue bounded, telemetry displaced first, cache bounded |
| `stack_telemetry` | violation | an even telemetry id never reaches its handler |
| `link_call` | window 2, 3 calls, ring of 4, queues of 1 | refinement of `ReliableCall`; no call lost in silence |
| `link_window1` | window 1, 2 calls, ring of 1, telemetry, queues of 2, one restart of each end | at most one execution per life of the device; answers match; cache and order agree; every request acknowledged; no new call taken for a duplicate |
| `link_live` | the example's loop: window 1, 2 calls, 1 retry, a timeout of two sleeps, fairness | every call ends, and within `LoopLimit` turns of the loop |
| `link_same_ids` | violation | a response to the host's previous run completes a new call |
| `link_wrap` | violation | a call with id 0 is never acknowledged |
| `isr_ring` | 4 bytes, indices that wrap at 8, chunks of 1 to 5 bytes, reads of at most 1 or 5 | a bounded FIFO of whole chunks; no byte overwritten before it is copied |
| `isr_ring_race` | the same, read index visible early | bytes are overwritten under the reader |
| `receive` | 2 threads, 3 stacks of 2 types, 2 frames out of one of each class of packet, a ring of 152 bytes, reads of 130 | packets stay with their stack and thread, in order; the ring is drained; each class reaches its function |
| `parser` | buffer of 16, frames of 3 and 4 bytes, one of an unknown command, one too long, chunks of 1 to 8 bytes | no frame lost, no chunk of the guaranteed size refused, the scan ends |

The bounds. The ring of 1 (window 1) and of 4 (window 2) replace 64 slots: the first
is full after one request, so eviction happens in every behaviour; the second holds
every id of the run. One retry gives an original and a retransmission in flight
together with the answers to both. Queues of one or two frames replace 16, so that
every displacement and every refusal happens. The ids wrap in `session_host`
(modulus 3) and `link_wrap` (modulus 2); elsewhere the modulus exceeds the number of
calls. The number of calls, of restarts (`FirstTxIds`, `MaxDeviceRestarts`) and of
frames in flight (`ChannelCap`) are the only bounds on behaviours.

In `link_live` a timeout of two sleeps tells one turn from two (`WaitTurns` is 2) and
one retry tells the first transmission from the last; two calls are the call waited for and the
one behind it in a window of one. `turns` stops counting one past `LoopLimit`.

In `receive` two stacks of one type and one of another are what it takes for a binding to be
overwritten by either kind, and cleared by either. The second frame is the one that can
be overtaken, dropped or left behind. A ring of 152 bytes takes the longest frame here and one
short one, not two long ones; a read of 130 splits them. Both classes of buffer occur: the
arm's, which takes every frame, and the serial examples', which can take no `ArmStatus`.

In `parser` a waiting frame is at most 3 bytes of 16, which leaves every position of the
regions and chunks (of 8 bytes) that are refused.

What the runs taught about the protocol, beyond the properties:

* With a window of 1 a dedup ring of a single id is enough for at-most-once, however
  many frames are lost. With a window of 2 a ring as large as the window is *not*:
  while one call is retransmitted, others pass through the second slot and push its
  id out. The ring must hold every id issued while a call is open.
* A full transmit queue without telemetry loses its newest frame. The ack queued for
  a duplicate may be displaced at once by the cached response of the same request;
  the request is still answered, which is why `RequestAcked` accepts either frame.
* `RetryBytesValid` depends on the window of 1. With 2 an error callback that calls
  `send` can run in the poll that also returned a retransmission, whose bytes may
  move before `handle_session_retries` reads them.
* The parser never refuses a chunk of up to half of `SIZE - max_frame_size + 2` bytes.
  `drain_rx` pushes up to 256 and ignores a refusal. For the stack of `test_arm`
  (frames of 136 bytes, a buffer of 1024) the bound is 445; for those of `send_serial` and
  `receive_serial` (frames of 22, a buffer of 128) it is 54, and a burst may be lost
  as one chunk. `InOrder` shows that this, and a dispatch that finds nobody, is all that is lost.
* The destructor of a stack of one type may clear the callback that a stack of another type has
  set on the thread since, which then hears nothing. `BindingHolds` says that this is
  the only way to lose a binding, and `OwnPacketsOnly` that even then nothing goes astray.
* How long a call takes is a matter of turns: each transmission may be acked once, which
  restarts its timeout, and the call behind is sent a turn after. `LoopLimit` is
  then, for one call with the default timeout and 3 retries, 9 turns of 10 ms; with the 500 ms
  that the examples configure (and nothing reads) it would be 401, more than the 200 turns
  `test_arm` waits before it reuses its `done` for the next call.

**Fairness.** `SerialSpec` assumes weak fairness of the steps of the host's main thread:
that it goes on with the cycle it is in (`MainWorks`) and that `sleep_for` returns
(`MainWakes`). Both are the loop of the examples. Nothing is assumed of the device, the
link, the losses or of time passing by itself: sleeping is what lets it pass.
In `Parser`, `FairSpec` assumes that a scan that was begun goes on (one thread runs it).

**Deadlock** is checked in every run.

### Disagreements between the code and its documentation

1. `handle_packet_internal` tells requests from responses by parity, also among
   telemetry: `MotorFeedbackArray` (0x6002) is taken for a response without a
   transaction id and dropped (`stack_telemetry`).
2. A session always starts at id 1, so after a restart of the host its first call has the
   id of an old one. Two things can go wrong. On the host, a response of the previous run that is
   still under way completes the new call, sent or not: `on_response` asks only for a
   pending entry with that id and response command (`link_same_ids`). On the device, the ring may still hold the
   id: the new call is then taken for a repetition, acknowledged and not executed. That is what
   `DuplicatesAreRepeats` excludes, and how it fails in `link_window1` when every run of the host is
   numbered alike (mutant `FirstTxId_Same`). With unused ids given to `set_next_tx_id` neither happens
   (`link_window1`, and for all constants `AnswersMatch` and `RepeatsOnly`).
3. `next_tx_id` hands out 0 after a wrap, which the device ignores (`link_wrap`);
   `set_next_tx_id` avoids it.
4. The table of regions in the repository's README gives ids the headers do not:
   `SetMotorControlMode` is 0x6215 there 0x6103, `HomeAll` 0x6201 (0x6109), `ClearFaults`
   0x6205 (0x610D), `EmergencyStopPacket` 0x6303 (0x6302). It calls the session one with a
   timeout of 500 ms; `Config::session.timeout`, `max_retries`, `rx_ring_capacity` and
   `tx_queue_capacity` are never read, and `send` defaults to 200000 ticks, which is 0.2 ms
   of the `steady_clock` of its example. These are constants of the model, and no run shows them.
5. `ISRRingBuffer` is called lock-free and ISR-safe, but its read index is a plain
   `size_t` that the writer reads: a data race, harmless only as long as a build keeps
   its update behind the copy (`isr_ring_race`).

## 4. Proofs

**The session.** `ReliableSession_proofs` proves, for every set of calls, number of ids, window, retry
limit and capacity allowed by `SessionAssumption`, that each invariant of
`ReliableSession` holds in every state and that `NoEarlyTimeout` holds of every step.

The inductive invariant `SessionInv` is the conjunction of the invariants TLC checks,
plus `CountWithinWindow`. They need each other:

* `InflightExact` is inductive only with `QueueExact`: `next_outbound` adds one to the
  count and must add a *new* member to the entries on the wire, which it does because
  a queued id is not inflight. That `> 0` guards in `on_response` and `poll` never
  clip the count also follows from exactness.
* `QueueExact` needs the ids in the queue to be distinct, so that taking the first
  live one leaves exactly the others. That the first live one exists is the
  well-foundedness of the naturals (`LeastOfNats`).
* `OneCallback` has to say that a pending call has had no callback and that no two
  pending entries hold the callbacks of one call, because `poll` tells several calls
  at once.
* `WindowBound` follows from the code's own test, on the counter
  (`CountWithinWindow`), and exactness.
* `CacheBounded` has to say that every cached key is on the eviction list, since
  `shrink_device_cache` frees only what it finds there.

There is one lemma per operation; steps that only move deadlines (`on_ack`, `Tick`)
share `DeadlineStepInv`. `StepInv` collects them. `TimeoutIsNeverEarly` uses the
invariant to identify the one entry that can hold the callbacks of a call.

**The stack.** `ProtocolStack_proofs` proves, for one endpoint in an arbitrary environment, that the
session inside keeps `SessionInv` and that `TxQueueBounded`, `CacheBounded` and
the action property `TelemetryYieldsFirst` hold, for every set of packets that may arrive, every
capacity, window and cache. `StackInv` is `SessionInv` and `StackOK`, which adds what the stack keeps
around the session: the queue fits, a packet is held only while its handler runs, retries only
until they are queued. Most of the work is in the queue. `Room` says what making room for one
frame leaves, `KeepsReliable` that a reliable frame can only go when there is no telemetry left to
go first; a duplicate queues two frames of priority in one step, so that the second may meet what
the first has left. `RetryBytesValid` is proved for a window of 1 (`NarrowInv`): an expired
entry is then the only one on the wire, so a poll that calls back retries nothing.

`CopiesWithinRetries` is proved for a window of 1, too (`CopiesInv`). The deadline of a call runs from the
moment its frame is queued, so while the link refuses frames every timeout queues another copy behind the
first. An entry that enters the window has no copy waiting, and each copy after the first has been counted by
`poll`: `retries` holds it before it is queued, the queue after. Making room only takes copies away. That
the copies are told from what a peer sends takes `OwnCommands`: what a stack queues for its peer
(acks, responses, telemetry) has no request's command.

`ArrivalAssumption` says of the environment only that bytes which pass the checksum are a frame
some sender built for its command id, with ids of the session's commands; transaction ids and bodies are
arbitrary.

**The link.** What a call is must be followed through the pending entry, the retransmissions, both
transmit queues, both directions of the line, the jobs of the device and its cache.
`ReliableLink_proofs` holds them together with a *registry*: `LinkInvariant` says that there is a
function R from the transaction ids used so far to calls that every one of these places agrees
with. `send` extends R, everything else only moves its members about. From it follow
`AnswerMatches` (an answer is to the call of its id), `NoSilentLoss` (a call without a callback is
still pending) and `RequestAcked` (by what making room in the device's queue can take away). `RingAgrees`, by
itself inductive next to the registry, adds that each slot of the device's ring holds the key of a call
it has executed in this life; so what it takes for a duplicate is one (`DuplicatesAreRepeats`),
whatever the ring has forgotten.

The second half of the module adds the order. With a window of one, requests reach the device in the order of
their ids: behind the last one it executed, L, come only repetitions of L and newer calls,
in the line, the transmit queue, the window and the outbound queue (`Ordered`). So the newest
slot of the ring, which holds L, is enough for `AtMostOnce`; with a larger window the ring
must hold every call, and then it has forgotten nothing. `CacheMatchesOrder` rests on it: no
request is answered twice. The refinement of `ReliableCall` maps `send` to Issue, the handler to Execute, the
response that meets its entry to Succeed and the last timeouts of a poll to GiveUp; every other
step is invisible.

The hypotheses are the conditions under which the protocol works, and each is met by a run:

* `IdsNotReused`: each run of the host gets ids no earlier run used, none of them 0. `link_same_ids`
  and `link_wrap` show what happens otherwise.
* `RetriesNotMoved`: a window of one, or error callbacks that do not call `send`. Otherwise a
  retransmission may carry bytes that have moved.
* `RingSuffices`: a window of one, which is the default of `Config::window_size`
  (`ReliableSession.hpp:34`; `link_window1`), or a ring that holds every call (`link_call`: three calls, a ring of four).
* `DeviceStays`, for the refinement only: a device that restarts forgets what it has executed,
  and `ReliableCall` has one life. `AtMostOnce` is about each life and needs no such condition.

**The parser.** `Parser_proofs` proves `TypeOK` (the regions never overlap, and hold
exactly the bytes written and not discarded) and `AlwaysRoom` for all sizes that
`ParserAssumption` allows: a buffer of at least four frames, as `calculate_buffer_size`
makes it; that it is a power of two is not needed. One lemma per operation of the buffer,
one case per action. `AlwaysRoom` needs two facts more. Between calls less than one frame
is waiting (`WaitsForLess`, which rests on the length check). And the gap behind A is
smaller than B (`GapSmall`), since B is opened only by a chunk that did not fit there: so
the gap cannot cost more room than what is waiting.

`ParserImplementsStream` is the refinement of `FrameStream`: over two regions and any sizes the parser
is one of an unbroken stream. The queue of the stream is `Unread`, the bytes of A and then of B.
`WriteAppends` and `CommitAppends` say that a chunk follows them wherever it was put, `DiscardDrops`
that discarding takes them from the front, also when B becomes A. What is left is that no byte
is given up at which a frame could begin. Within A a frame begins at a start byte, so bytes before the
first one may go (`BeginsAtStartByte`). And if the bytes from a start byte on are the beginning of a frame
the parser takes, complete or not, then the header is that frame's, its length is accepted and
its checksum is right once it is there, so that it is not rejected (`RejectionImplements`). That needs
the header check to come before anything of the length is believed.

**The dedup ring.** `DedupRing_proofs` proves that a ring of any capacity implements
`SlidingWindow`: initial states and steps map to its, through the refinement mapping `WindowOf`,
which reads the slots from the oldest on. The invariant `WellFormed` has two parts: no id
in two slots, and unused slots are those from `write_idx` on, until it first wraps. The
second is what makes "oldest first" a matter of one case distinction. The only
assumptions are that there is a slot and that no caller passes the value of an unused one
(`RingConstants`); the session's keys have a command in their upper half and are never 0.

`SessionImplementsWindow` (at the end of `ProtocolStack_proofs`) carries this into the session, for the specification
and the property of run `session_host`: every step of `MCSessionHost` is a call on the ring or leaves it alone
(`HostStepOnRing`), and a response is without effect just when its key was there
(`ResponseIsInsertion`). The second direction needs the invariant: a key that is new changes the ring. The
hypothesis is that 0 is no response command.

**The receive path.** `ReceivePath_proofs` proves `OwnPacketsOnly`, `BindingHolds` and `DrainsAll`
for any number of threads, stacks, types and frames. The first two follow from `BindInv`: at
the type of the stack a thread bound last, `instance()` is that stack, and `on_packet()` is of
that type or null. It is inductive because a destructor clears only its own binding. For `DrainsAll`
the inductive `DrainInv` adds that a stack has one cycle at a time, that its parser holds whole
frames only while that cycle parses, and that once the loop is left the ring holds
nothing that had arrived before the cycle.

`InOrder` follows from `OrderInv`: parser and ring together hold the newest of what the ring took,
and the calls of the handlers embed, in order, into what is older. Each step of the way keeps the
embedding; only a refusal or a dispatch that finds nobody leaves a gap, and marks the stack. That a
read takes frames at all (`ReadTakesFrames`) needs that no frame is longer than a read. `EveryPacketRouted`
is `RoutedByRole` for all packets of the two headers but `MotorFeedbackArray` (disagreement 1), which TLC
checks on one packet of each class.

`TypeOK` needs, besides the bindings, only what the ring's room check says, once the bytes of a queue of
frames can be reasoned about. `TotalBytes` is a fold over the indices, and what a fold computes cannot be
had by induction here. `TotalIsCount` goes around that: the number of pairs of a frame and one of its bytes obeys
the fold's equation whichever index the fold takes next, and a smallest set of indices on which the two
differed would by that equation have a smaller one below it. From the count follow what appending a frame adds
(`TotalAppend`) and what a read leaves (`TotalAfterRead`). `ReadAssumption`: the ring's capacity and a read's
length are natural numbers, and no frame is longer than a read.

**The receive ring.** `ISRRingBuffer_proofs` proves `TypeOK` and `ReadIntact` for every capacity,
every width of the indices and every chunk, if the build keeps program order
(`ProgramOrder`; `isr_ring_race` shows what happens otherwise). The argument is about slots: the reader
copies some of the `available` indices behind `m_write_idx`, the writer fills those from
it on, and together they are at most `Capacity` in a row. Such indices lie in different
slots, also across a wrap of the indices, because `Capacity` divides `IndexModulus`; the provers have no
division, so that takes lemmas on remainders (`RemainderUnique`, `SlotsApart`). `RoomInv`
says that what is being written still fits, `CopyInv` that the bytes copied are the expected ones.

`RingImplementsChannel` proves the refinement of `ByteChannel` under the same condition. The queue of the
channel is what is stored between the two indices. Copying a byte in or out is invisible to it; dropping
a chunk, storing either index, and the first store of `clear` are its steps Drop, Accept,
Deliver and Clear. `ChannelInv` adds to `RingInv` that the bytes `write` has copied so far are in
their slots (`WrittenInv`), so that storing the index appends exactly the chunk.

**The loop.** `SerialHost_proofs` proves `LoopOutlastsCall`: a program that counts `LoopLimit` turns never
leaves its loop while a call is pending, for every number of calls, every window, timeout, number
of retries and length of a sleep, and whatever device and line do. It is a safety property although it
speaks of an end: not that a turn comes, but that so many turns cannot pass with the call still open.

The argument is a budget. A pending call has a cost in turns (`Cost`): `CallTurns` while it waits for
the window; once sent, `WaitTurns` for each time its timeout may still start again, plus the sleeps left
before its deadline, plus one. The timeout starts again once for each retransmission left, once for the ack to
it, and once for each ack still to come (`Acks`): of a request to be queued again, queued or on the line, of
an ack queued or on the line. `LoopInv` says that the costs of all pending calls (`Total`), plus one while an
idle window waits for the turn that fills it (`Idle`), plus the turns an open call has already seen, are at most
`CallTurns` for each call made.

* A turn of the loop (`WakeLoop`) brings every call in the window a sleep nearer its deadline, so it
  spends at least one; if the window is empty it spends `Idle`.
* A new call brings its own `CallTurns` (`CallLoop`), a request that is sent for the first time costs
  no more than it did while it waited (`PumpLoop`), a retransmission spends a retry and may be acked once (`PollLoop`),
  an ack is used up by the restart it causes (`ReceiveLoop`), and the line and the device make no acks of
  nothing (`DeviceLoop`, from one lemma on counting for each operation on a queue).
* No ack is under way for an id that has not been sent yet (`QuietIds`). Without it the first
  transmission could be acked twice.

That the costs are numbers, that no retry is counted twice and that an open call is pending at all comes from
`LinkInvariant`, which the steps of the loop keep (`LinkKept`). So the hypotheses are those of the link,
`IdsNotReused` and `RetriesNotMoved`, and `CallChoices`: the timeouts in use have a largest, and there is a retry limit.

Only model-checked:

* Liveness (`EventuallyAnswered`, `ParseEnds`) and what contains ENABLED (`TelemetryDispatched`), which are out
  of the prover's reach.

The four runs of kind `violation` are TLC's counterexamples.

## 5. Not modelled, and the plan

Not modelled, and why:

* `next_deadline` and the other queries change no state. `current_stack()` of
  `ProtocolDispatch` is called by nobody.
* RPL's `Deserializer` and memory pool: every packet of this library sets
  `skip_memory_pool`, so the parser never writes the pool and no stack reads it.
* RPL's `Serializer`: a pure conversion; the parser does not compare its sequence numbers.
* RPL's `USBTransport`, `AckManager` and `ConnectionMonitor`: nothing under `include/` or
  `examples/` uses them. They are a second acknowledgement scheme next to this one.
* Bit packing and the compile-time tables of RPL, `RPL.hpp` (generated), the vendored
  libraries and the build.
* Of the examples the opening of the port, the payloads and the printing, and the
  order of destruction at the end of the program, when a reader thread may outlive the stack.
* A handler that re-enters `run_one_cycle` or the parser, and the reallocation of
  `m_handlers` under a handler that registers another.
* Starvation by an interrupt that never lets the ring run empty: a matter of rates.

What is left to do:

1. A model of handlers that re-enter the stack.
