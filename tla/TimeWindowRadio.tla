--------------------------- MODULE TimeWindowRadio ---------------------------
(***************************************************************************)
(* The transmit scheduler of RadioInterface::send in                        *)
(* src/src/mesh/RadioInterface.cpp, with the FIFO meshtastic::PacketQueue   *)
(* of src/src/mesh/PacketQueue.h that it owns, the CLI commands that change *)
(* the configuration it reads (src/src/cli/TimeWindowCLI.cpp),              *)
(* RadioInterface::disable, and the CLEAR_QUEUE command of                  *)
(* TimeWindowPlugin.                                                       *)
(*                                                                         *)
(* send() is one atomic step: the node's main loop runs it to completion,  *)
(* including the drain (processQueuedPackets) it performs before sending   *)
(* the new packet.  The drain is a loop; it is modelled as the set of all  *)
(* outcomes the loop can reach, the radio's sendTo answering success or    *)
(* failure nondeterministically.                                           *)
(*                                                                         *)
(* Time is abstract: `now` counts ticks, and a packet expires when its age *)
(* in ticks reaches ExpiryTicks.  Whether the current time of day lies in  *)
(* the window is `inWindow`; WindowClock checks how the code computes it,  *)
(* here any tick may move the time of day in or out of the window.         *)
(*                                                                         *)
(* Packet ownership is tracked per packet pointer: `released` counts the   *)
(* calls of packetPool.release, `radioLog` records the packets sendTo      *)
(* accepted, `rejected` holds packets whose send() returned an error       *)
(* without releasing them (the caller keeps them).                         *)
(***************************************************************************)
EXTENDS Integers, Sequences, FiniteSets

CONSTANTS
  Packets,        \* packet pointers the mesh layer hands to send()
  ZeroLen,        \* packets with payloadlen == 0
  QueueCapacity,  \* PacketQueue::maxQueueSize (constructor default 32)
  QueueSizes,     \* values `window queue SIZE` may store
  ExpiryTicks,    \* PacketQueue::packetExpirySeconds * 1000, in ticks
  MaxTime,        \* bound: ticks of time the model lets pass
  ModeVals        \* window_mode values the saved config may hold

ASSUME ZeroLen \subseteq Packets
ASSUME QueueCapacity \in Nat \ {0}
ASSUME QueueSizes \subseteq 1..100 /\ QueueSizes # {}
ASSUME ExpiryTicks \in Nat \ {0}
ASSUME MaxTime \in Nat

Modes == {"DROP_PACKETS", "QUEUE_PACKETS", "RECEIVE_ONLY"}

ASSUME Modes \subseteq ModeVals

VARIABLES
  now,              \* millis(), in ticks
  inWindow,         \* the time of day lies in the configured window
  enabled,          \* config.has_lora && config.lora.time_window_enabled
  mode,             \* config.lora.window_mode
  windowQueueSize,  \* config.lora.window_queue_size
  disabled,         \* RadioInterface::disabled
  queue,            \* PacketQueue::packets: <<[pkt, t]>>, oldest first
  stats,            \* PacketQueue::stats
  unsent,           \* packets not yet handed to send()
  released,         \* packet -> number of packetPool.release(packet) calls
  radioLog,         \* <<[pkt, queuedAt, sentAt]>> accepted by sendTo
  rejected          \* packets send() returned with an error, unreleased

vars == <<now, inWindow, enabled, mode, windowQueueSize, disabled, queue,
          stats, unsent, released, radioLog, rejected>>

\* The part of the state one send() call rewrites, as a record, so that the
\* steps of the call compose as functions of it.
Io == [queue |-> queue, stats |-> stats, released |-> released,
       radioLog |-> radioLog, rejected |-> rejected]

-----------------------------------------------------------------------------
(* PacketQueue (src/src/mesh/PacketQueue.h)                                *)

\* packetPool.release(p)
Release(r, p) == [r EXCEPT !.released[p] = @ + 1]

\* Seeded bug (for TypeOK): the full test of enqueue written `>`.
EnqueueOrReleaseOffByOne(r, p, t) ==
  IF Len(r.queue) > QueueCapacity
    THEN Release([r EXCEPT !.stats.queueOverflows = @ + 1], p)
    ELSE [r EXCEPT !.queue = Append(@, [pkt |-> p, t |-> t]),
                   !.stats.totalQueued = @ + 1]

\* PacketQueue::enqueue followed by the callers' `if (!enqueue(p))
\* packetPool.release(p)`: a full queue counts an overflow and the packet
\* goes back to the pool.  `t` is the queued time (millis()).
EnqueueOrRelease(r, p, t) ==
  IF Len(r.queue) >= QueueCapacity
    THEN Release([r EXCEPT !.stats.queueOverflows = @ + 1], p)
    ELSE [r EXCEPT !.queue = Append(@, [pkt |-> p, t |-> t]),
                   !.stats.totalQueued = @ + 1]

\* Seeded bug (for StatsAverageBounded): maxQueueTime overwritten with the
\* last wait instead of taking the maximum.
DequeueOverwriteMax(r) ==
  LET waited == now - Head(r.queue).t
  IN  [r EXCEPT !.queue = Tail(@),
                !.stats.totalQueueTime = @ + waited,
                !.stats.maxQueueTime = waited]

\* PacketQueue::dequeue on a non-empty queue: remove the front entry and
\* account its time in the queue.
Dequeue(r) ==
  LET waited == now - Head(r.queue).t
  IN  [r EXCEPT !.queue = Tail(@),
                !.stats.totalQueueTime = @ + waited,
                !.stats.maxQueueTime = IF waited > @ THEN waited ELSE @]

\* Seeded bug (for NoStaleTransmission): `>` for `>=` in the expiry test.
IsExpiredStrict(e) == now - e.t > ExpiryTicks

\* The expiry test of PacketQueue::cleanExpired.
IsExpired(e) == now - e.t >= ExpiryTicks

\* Seeded bug (for NoLeak): expired entries erased without packetPool.release.
CleanExpiredNoRelease(r) ==
  LET n == Cardinality({i \in DOMAIN r.queue : IsExpired(r.queue[i])})
  IN  [r EXCEPT !.queue = SelectSeq(@, LAMBDA e : ~IsExpired(e)),
                !.stats.expiredPackets = @ + n]

\* PacketQueue::cleanExpired: every expired entry is counted, released and
\* erased; the others keep their order.
CleanExpired(r) ==
  LET gone(p) == {i \in DOMAIN r.queue : r.queue[i].pkt = p /\ IsExpired(r.queue[i])}
      n == Cardinality({i \in DOMAIN r.queue : IsExpired(r.queue[i])})
  IN  [r EXCEPT !.queue = SelectSeq(@, LAMBDA e : ~IsExpired(e)),
                !.stats.expiredPackets = @ + n,
                !.released = [p \in Packets |-> @[p] + Cardinality(gone(p))]]

\* PacketQueue::clear: release every held packet and empty the queue.
ClearAll(r) ==
  [r EXCEPT !.queue = <<>>,
            !.released = [p \in Packets |->
                            @[p] + Cardinality({i \in DOMAIN r.queue : r.queue[i].pkt = p})]]

-----------------------------------------------------------------------------
(* RadioInterface (src/src/mesh/RadioInterface.cpp)                        *)

\* The condition of send(): the window is enabled and the time of day is
\* outside it.
OutsideWindow == enabled /\ ~inWindow

\* RadioInterface::sendPacket(p), with the time p was queued (now if it was
\* never queued).  A disabled radio or an empty payload releases p; otherwise
\* beginSending/sendTo either accept p or fail, leaving p with the caller.
SendPacket(r, p, queuedAt) ==
  IF disabled \/ p \in ZeroLen
    THEN {[io |-> Release(r, p), ok |-> FALSE, kept |-> FALSE]}
    ELSE {[io |-> [r EXCEPT !.radioLog = Append(@, [pkt |-> p, queuedAt |-> queuedAt,
                                                   sentAt |-> now])],
           ok |-> TRUE, kept |-> FALSE],
          [io |-> r, ok |-> FALSE, kept |-> TRUE]}

\* The loop of processQueuedPackets: dequeue and send until the queue is
\* empty; on the first failure re-enqueue the packet (releasing it if the
\* queue is full) and stop.
RECURSIVE DrainLoop(_)
DrainLoop(r) ==
  IF r.queue = <<>>
    THEN {r}
    ELSE LET e == Head(r.queue)
         IN  UNION {IF o.ok THEN DrainLoop(o.io)
                            ELSE {EnqueueOrRelease(o.io, e.pkt, now)} :
                      o \in SendPacket(Dequeue(r), e.pkt, e.t)}

\* RadioInterface::processQueuedPackets: nothing when the window feature is
\* off, otherwise clean expired entries and drain.
ProcessQueuedPackets(r) ==
  IF ~enabled THEN {r} ELSE DrainLoop(CleanExpired(r))

\* The packet handed to send() inside the window (or with the window off):
\* drain first, then sendPacket(p); an error sendPacket did not release
\* returns p to the caller.
SendNow(p) ==
  UNION {{IF o.kept THEN [o.io EXCEPT !.rejected = @ \cup {p}] ELSE o.io :
            o \in SendPacket(d, p, now)} :
           d \in ProcessQueuedPackets(Io)}

\* The outcomes of send(p) outside the window, by mode.  Any other mode
\* value takes `default:`, ERRNO_INVALID_CONFIG with p left to the caller.
SendOutside(p) ==
  CASE mode = "DROP_PACKETS"  -> {Release(Io, p)}
    [] mode = "QUEUE_PACKETS" -> {EnqueueOrRelease(Io, p, now)}
    [] mode = "RECEIVE_ONLY"  -> {Release(Io, p)}
    [] OTHER                  -> {[Io EXCEPT !.rejected = @ \cup {p}]}

SetIo(r) ==
  /\ queue' = r.queue
  /\ stats' = r.stats
  /\ released' = r.released
  /\ radioLog' = r.radioLog
  /\ rejected' = r.rejected

\* PacketQueue::QueueStats as default-initialised: every counter 0.
NoQueueStats == [totalQueued |-> 0, expiredPackets |-> 0, queueOverflows |-> 0,
                 totalQueueTime |-> 0, maxQueueTime |-> 0]

\* PacketQueue::getAvgQueueTime, which RadioInterface::getAvgQueueTime
\* returns: integer division, 0 before anything was queued.
AvgQueueTime ==
  IF stats.totalQueued # 0 THEN stats.totalQueueTime \div stats.totalQueued ELSE 0

-----------------------------------------------------------------------------
Init ==
  /\ now = 0
  /\ inWindow \in BOOLEAN
  /\ enabled \in BOOLEAN
  /\ mode \in ModeVals    \* the saved config: an admin message stores any value
  /\ windowQueueSize \in QueueSizes
  /\ disabled = FALSE
  /\ queue = <<>>
  /\ stats = NoQueueStats
  /\ unsent = Packets
  /\ released = [p \in Packets |-> 0]
  /\ radioLog = <<>>
  /\ rejected = {}

\* RadioInterface::send(p).
Send(p) ==
  /\ p \in unsent
  /\ unsent' = unsent \ {p}
  /\ \E r \in IF OutsideWindow THEN SendOutside(p) ELSE SendNow(p) : SetIo(r)
  /\ UNCHANGED <<now, inWindow, enabled, mode, windowQueueSize, disabled>>

\* Time passes; the time of day may enter or leave the window.
Tick ==
  /\ now < MaxTime
  /\ now' = now + 1
  /\ inWindow' \in BOOLEAN
  /\ UNCHANGED <<enabled, mode, windowQueueSize, disabled, queue, stats,
                 unsent, released, radioLog, rejected>>

\* RadioInterface::disable().
Disable ==
  /\ ~disabled
  /\ disabled' = TRUE
  /\ UNCHANGED <<now, inWindow, enabled, mode, windowQueueSize, queue, stats,
                 unsent, released, radioLog, rejected>>

\* TimeWindowPlugin CLEAR_QUEUE: RadioInterface::clearPacketQueue().
ClearPacketQueue ==
  /\ SetIo(ClearAll(Io))
  /\ UNCHANGED <<now, inWindow, enabled, mode, windowQueueSize, disabled, unsent>>

\* `window enable` and `window disable`.
SetEnabled(b) ==
  /\ enabled' = b
  /\ UNCHANGED <<now, inWindow, mode, windowQueueSize, disabled, queue, stats,
                 unsent, released, radioLog, rejected>>

\* `window mode drop|queue|receive`.
SetMode(m) ==
  /\ mode' = m
  /\ UNCHANGED <<now, inWindow, enabled, windowQueueSize, disabled, queue, stats,
                 unsent, released, radioLog, rejected>>

\* `window queue SIZE`, SIZE in 1..100.
SetQueueSize(n) ==
  /\ windowQueueSize' = n
  /\ UNCHANGED <<now, inWindow, enabled, mode, disabled, queue, stats,
                 unsent, released, radioLog, rejected>>

Next ==
  \/ \E p \in Packets : Send(p)
  \/ Tick
  \/ Disable
  \/ ClearPacketQueue
  \/ \E b \in BOOLEAN : SetEnabled(b)
  \/ \E m \in Modes : SetMode(m)
  \/ \E n \in QueueSizes : SetQueueSize(n)

Spec == Init /\ [][Next]_vars

-----------------------------------------------------------------------------
(* Properties                                                              *)

TypeOK ==
  /\ now \in 0..MaxTime
  /\ inWindow \in BOOLEAN /\ enabled \in BOOLEAN /\ disabled \in BOOLEAN
  /\ mode \in ModeVals
  /\ windowQueueSize \in QueueSizes
  /\ queue \in Seq([pkt : Packets, t : 0..MaxTime]) /\ Len(queue) <= QueueCapacity
  /\ stats \in [totalQueued : Nat, expiredPackets : Nat, queueOverflows : Nat,
                totalQueueTime : Nat, maxQueueTime : Nat]
  /\ unsent \subseteq Packets
  /\ released \in [Packets -> Nat]
  /\ radioLog \in Seq([pkt : Packets, queuedAt : 0..MaxTime, sentAt : 0..MaxTime])
  /\ rejected \subseteq Packets

\* p is held by the queue.
Held(p) == \E i \in DOMAIN queue : queue[i].pkt = p

Transmitted == {radioLog[i].pkt : i \in DOMAIN radioLog}

\* No packet is leaked: every packet handed to send() is still queued, was
\* given back to the pool, was accepted by the radio, or was returned to
\* the caller with an error.  Covers every release site of send(), the
\* drain, cleanExpired and clear.
NoLeak ==
  \A p \in Packets \ unsent :
    Held(p) \/ released[p] > 0 \/ p \in Transmitted \/ p \in rejected

\* No packet leaves the queue for the radio once it has been queued for
\* ExpiryTicks or more: the drain cleans expired entries before it sends.
NoStaleTransmission ==
  \A i \in DOMAIN radioLog : radioLog[i].sentAt - radioLog[i].queuedAt < ExpiryTicks

\* The average queue time RadioInterface::getAvgQueueTime reports never
\* exceeds the maximum queue time getQueueStats reports beside it.
\* totalQueued counts enqueues (re-enqueues after a failed send included)
\* and totalQueueTime dequeues, so this depends on every dequeue having an
\* enqueue counted before it and on the maximum being kept, not overwritten.
StatsAverageBounded ==
  AvgQueueTime <= stats.maxQueueTime

\* Who holds p, read off the implementation state.
OwnerOf(p) ==
  CASE Held(p)            -> "queue"
    [] p \in Transmitted  -> "radio"
    [] released[p] > 0    -> "pool"
    [] OTHER              -> "caller"

Ownership == INSTANCE PacketOwnership
               WITH owner <- [p \in Packets |-> OwnerOf(p)],
                    returned <- {p \in Packets : released[p] > 0},
                    radioUp <- ~disabled

\* While the radio is up, the scheduler implements the ownership protocol of
\* spec section 5: every send(), drain, expiry and clear only moves packets
\* from the caller to the queue, the radio or the pool, or from the queue to
\* the radio or the pool, and a packet returned to the pool is held by no
\* one else.  The drain breaks it for a queued packet with an empty payload:
\* sendPacket releases it (RadioInterface.cpp:80-83) and, as the send
\* failed, processQueuedPackets puts it back in the queue (line 63).
OwnershipRefined == Ownership!Spec

\* Every packet is given back to the pool at most once, and a packet given
\* back is no longer held by the queue or sent afterwards (spec section 5:
\* released or sent exactly once, never both).
ReleasedExactlyOnce ==
  \A p \in Packets :
    /\ released[p] <= 1
    /\ released[p] = 1 => ~Held(p) /\ p \notin Transmitted

\* The queue never holds more packets than config.lora.window_queue_size
\* (spec section 3: max_queue_size bounds occupancy; the `window queue`
\* command and test_radio_time_window.cpp expect the configured limit).
QueueWithinConfiguredSize ==
  Len(queue) <= windowQueueSize

=============================================================================
