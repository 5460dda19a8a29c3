---------------------------- MODULE PriorityRadio ----------------------------
(***************************************************************************)
(* The priority draft of RadioInterface::send                              *)
(* (src/src/mesh/RadioInterfaceQueue.cpp) with its PriorityPacketQueue     *)
(* (src/src/mesh/PriorityPacketQueue.h) and the shared sendPacket of       *)
(* RadioInterface.cpp.  The std::priority_queue is a set of entries; a     *)
(* dequeue takes any entry of highest priority, since the heap orders      *)
(* ties in an unspecified way.  Time is in ticks of one second.            *)
(*                                                                         *)
(* MIN_QUEUE_PROCESS_INTERVAL, MAX_PACKETS_PER_CYCLE and                   *)
(* PriorityPacketQueue::getLastPriority are used but defined nowhere in    *)
(* the tree: the first two are constants, and the high/normal split that   *)
(* getLastPriority decides is a free choice.                               *)
(***************************************************************************)
EXTENDS Naturals, Sequences, FiniteSets

CONSTANTS
  Packets,        \* packet handles (model values)
  Priority,       \* [Packets -> Nat], calculatePriority of each packet
  ZeroLen,        \* packets with payloadlen == 0
  QueueCapacity,  \* maxQueueSize (32 in the code)
  ExpiryTicks,    \* packetExpirySeconds
  MinInterval,    \* MIN_QUEUE_PROCESS_INTERVAL, in ticks
  MaxPerCycle,    \* MAX_PACKETS_PER_CYCLE
  MaxTime,
  ModeVals        \* window_mode values the saved config may hold

ASSUME ZeroLen \subseteq Packets /\ QueueCapacity >= 1 /\ MaxPerCycle >= 1

Modes == {"DROP_PACKETS", "QUEUE_PACKETS", "RECEIVE_ONLY"}

ASSUME Modes \subseteq ModeVals

VARIABLES
  now, inWindow, enabled, mode, disabled,
  queue,     \* set of [pkt, t]
  stats,     \* PriorityPacketQueue::stats
  metrics,   \* lastProcessTime, highPriorityCount, normalPriorityCount, dropCount
  unsent, released, radioLog, rejected

vars == <<now, inWindow, enabled, mode, disabled, queue, stats, metrics,
          unsent, released, radioLog, rejected>>

Io == [queue |-> queue, stats |-> stats, metrics |-> metrics,
       released |-> released, radioLog |-> radioLog, rejected |-> rejected]

Release(r, p) == [r EXCEPT !.released[p] = @ + 1]

\* release with metrics.dropCount++
Drop(r, p) == Release([r EXCEPT !.metrics.dropCount = @ + 1], p)

-----------------------------------------------------------------------------
(* PriorityPacketQueue                                                      *)

\* Seeded bug (for TypeOK): the full test of enqueue written `>`.
EnqueueOrDropOffByOne(r, p) ==
  IF Cardinality(r.queue) > QueueCapacity
    THEN Drop([r EXCEPT !.stats.queueOverflows = @ + 1], p)
    ELSE [r EXCEPT !.queue = @ \cup {[pkt |-> p, t |-> now]},
                   !.stats.totalQueued = @ + 1]

\* enqueue, with the callers' count-and-release when it returns false.
EnqueueOrDrop(r, p) ==
  IF Cardinality(r.queue) >= QueueCapacity
    THEN Drop([r EXCEPT !.stats.queueOverflows = @ + 1], p)
    ELSE [r EXCEPT !.queue = @ \cup {[pkt |-> p, t |-> now]},
                   !.stats.totalQueued = @ + 1]

\* Seeded bug (for PriorityOrderRespected): the comparison of QueuedPacket
\* reversed, so the heap's top is a lowest-priority entry.
TopEntriesReversed(q) == {e \in q : \A f \in q : Priority[e.pkt] <= Priority[f.pkt]}

\* The entries packets.top() may be: those of highest priority.
TopEntries(q) == {e \in q : \A f \in q : Priority[e.pkt] >= Priority[f.pkt]}

\* dequeue of entry e: account its queue time and pop it.
Dequeue(r, e) ==
  LET waited == now - e.t
  IN  [r EXCEPT !.queue = @ \ {e},
                !.stats.totalQueueTime = @ + waited,
                !.stats.maxQueueTime = IF waited > @ THEN waited ELSE @]

IsExpired(e) == now - e.t >= ExpiryTicks

\* Seeded bug (for NoStaleTransmission): eviction that pops the heap only
\* until its first live entry, as a FIFO queue may, so expired entries of
\* lower priority than a live one stay queued.
CleanExpiredStopAtLive(r) ==
  LET gone == {e \in r.queue : IsExpired(e) /\
                 \A f \in r.queue : ~IsExpired(f) => Priority[e.pkt] > Priority[f.pkt]}
  IN  [r EXCEPT !.queue = @ \ gone,
                !.stats.expiredPackets = @ + Cardinality(gone),
                !.released = [p \in Packets |-> IF \E e \in gone : e.pkt = p
                                                  THEN @[p] + 1 ELSE @[p]]]

\* cleanExpired: drain the heap, release and count the expired entries,
\* push the others back.
CleanExpired(r) ==
  LET gone == {e \in r.queue : IsExpired(e)}
  IN  [r EXCEPT !.queue = @ \ gone,
                !.stats.expiredPackets = @ + Cardinality(gone),
                !.released = [p \in Packets |-> IF \E e \in gone : e.pkt = p
                                                  THEN @[p] + 1 ELSE @[p]]]

\* clear: release every entry.  clearPacketQueue then resets the metrics
\* counters (not lastProcessTime).
ClearAll(r) ==
  [r EXCEPT !.queue = {},
            !.released = [p \in Packets |-> IF \E e \in r.queue : e.pkt = p
                                              THEN @[p] + 1 ELSE @[p]],
            !.metrics = [@ EXCEPT !.highPriorityCount = 0,
                                  !.normalPriorityCount = 0, !.dropCount = 0]]

-----------------------------------------------------------------------------
(* RadioInterface                                                           *)

OutsideWindow == enabled /\ ~inWindow

\* sendPacket (RadioInterface.cpp), as in TimeWindowRadio.
SendPacket(r, p, queuedAt) ==
  IF disabled \/ p \in ZeroLen
    THEN {[io |-> Release(r, p), ok |-> FALSE, kept |-> FALSE]}
    ELSE {[io |-> [r EXCEPT !.radioLog = Append(@, [pkt |-> p, queuedAt |-> queuedAt,
                                                   sentAt |-> now])],
           ok |-> TRUE, kept |-> FALSE],
          [io |-> r, ok |-> FALSE, kept |-> TRUE]}

\* A successful send counted as high or normal priority.
CountSent(r) ==
  {[r EXCEPT !.metrics.highPriorityCount = @ + 1],
   [r EXCEPT !.metrics.normalPriorityCount = @ + 1]}

\* The loop of processQueuedPackets after n packets: it runs while the
\* queue is non-empty, fewer than MAX_PACKETS_PER_CYCLE were sent and less
\* than 100 ms passed; the time budget can only run out after a send.
RECURSIVE DrainLoop(_, _)
DrainLoop(r, n) ==
  IF r.queue = {} \/ n >= MaxPerCycle
    THEN {r}
    ELSE (IF n > 0 THEN {r} ELSE {}) \cup
         UNION {UNION {IF o.ok
                         THEN UNION {DrainLoop(c, n + 1) : c \in CountSent(o.io)}
                         ELSE {EnqueueOrDrop(o.io, e.pkt)} :
                       o \in SendPacket(Dequeue(r, e), e.pkt, e.t)} :
                e \in TopEntries(r.queue)}

ProcessQueuedPackets(r) ==
  IF ~enabled THEN {r} ELSE DrainLoop(CleanExpired(r), 0)

\* Inside the window: drain if MIN_QUEUE_PROCESS_INTERVAL has passed since
\* the last drain (and record the time), then sendPacket(p).
SendNow(p) ==
  LET drained == IF now - metrics.lastProcessTime >= MinInterval
                   THEN {[d EXCEPT !.metrics.lastProcessTime = now] :
                           d \in ProcessQueuedPackets(Io)}
                   ELSE {Io}
  IN  UNION {{IF o.kept THEN [o.io EXCEPT !.rejected = @ \cup {p}] ELSE o.io :
                o \in SendPacket(d, p, now)} : d \in drained}

SendOutside(p) ==
  CASE mode = "DROP_PACKETS"  -> {Drop(Io, p)}
    [] mode = "QUEUE_PACKETS" -> {EnqueueOrDrop(Io, p)}
    [] mode = "RECEIVE_ONLY"  -> {Drop(Io, p)}
    [] OTHER                  -> {[Io EXCEPT !.rejected = @ \cup {p}]}

SetIo(r) ==
  /\ queue' = r.queue
  /\ stats' = r.stats
  /\ metrics' = r.metrics
  /\ released' = r.released
  /\ radioLog' = r.radioLog
  /\ rejected' = r.rejected

-----------------------------------------------------------------------------
Init ==
  /\ now = 0
  /\ inWindow \in BOOLEAN
  /\ enabled \in BOOLEAN
  /\ mode \in ModeVals    \* the saved config: an admin message stores any value
  /\ disabled = FALSE
  /\ queue = {}
  /\ stats = [totalQueued |-> 0, expiredPackets |-> 0, queueOverflows |-> 0,
              totalQueueTime |-> 0, maxQueueTime |-> 0]
  /\ metrics = [lastProcessTime |-> 0, highPriorityCount |-> 0,
                normalPriorityCount |-> 0, dropCount |-> 0]
  /\ unsent = Packets
  /\ released = [p \in Packets |-> 0]
  /\ radioLog = <<>>
  /\ rejected = {}

\* RadioInterface::send(p).
Send(p) ==
  /\ p \in unsent
  /\ unsent' = unsent \ {p}
  /\ \E r \in IF OutsideWindow THEN SendOutside(p) ELSE SendNow(p) : SetIo(r)
  /\ UNCHANGED <<now, inWindow, enabled, mode, disabled>>

Tick ==
  /\ now < MaxTime
  /\ now' = now + 1
  /\ inWindow' \in BOOLEAN
  /\ UNCHANGED <<enabled, mode, disabled, queue, stats, metrics, unsent,
                 released, radioLog, rejected>>

\* RadioInterface::disable().
Disable ==
  /\ ~disabled
  /\ disabled' = TRUE
  /\ UNCHANGED <<now, inWindow, enabled, mode, queue, stats, metrics, unsent,
                 released, radioLog, rejected>>

\* RadioInterface::clearPacketQueue() (plugin CLEAR_QUEUE).
ClearPacketQueue ==
  /\ SetIo(ClearAll(Io))
  /\ UNCHANGED <<now, inWindow, enabled, mode, disabled, unsent>>

\* `window enable` / `window disable` and `window mode`.
SetEnabled(b) ==
  /\ enabled' = b
  /\ UNCHANGED <<now, inWindow, mode, disabled, queue, stats, metrics, unsent,
                 released, radioLog, rejected>>

SetMode(m) ==
  /\ mode' = m
  /\ UNCHANGED <<now, inWindow, enabled, disabled, queue, stats, metrics, unsent,
                 released, radioLog, rejected>>

Next ==
  \/ \E p \in Packets : Send(p)
  \/ Tick
  \/ Disable
  \/ ClearPacketQueue
  \/ \E b \in BOOLEAN : SetEnabled(b)
  \/ \E m \in Modes : SetMode(m)

Spec == Init /\ [][Next]_vars

-----------------------------------------------------------------------------
TypeOK ==
  /\ now \in 0..MaxTime
  /\ inWindow \in BOOLEAN /\ enabled \in BOOLEAN /\ disabled \in BOOLEAN
  /\ mode \in ModeVals
  /\ queue \subseteq [pkt : Packets, t : 0..MaxTime]
  /\ Cardinality(queue) <= QueueCapacity
  /\ stats \in [{"totalQueued", "expiredPackets", "queueOverflows",
                 "totalQueueTime", "maxQueueTime"} -> Nat]
  /\ metrics \in [{"lastProcessTime", "highPriorityCount", "normalPriorityCount",
                   "dropCount"} -> Nat]
  /\ unsent \subseteq Packets
  /\ released \in [Packets -> Nat]
  /\ radioLog \in Seq([pkt : Packets, queuedAt : 0..MaxTime, sentAt : 0..MaxTime])
  /\ rejected \subseteq Packets

QueuedIn(q) == {e.pkt : e \in q}

\* The drain serves priorities in order (spec section 4.3, priority
\* strategy): in one send() call, every queued packet that reaches the
\* radio has a priority at least that of every packet that was queued
\* before the call and is still queued after it, whatever the time and
\* packet budgets, expiries and send failures did in between.
PriorityOrderRespected ==
  [][\A i \in (Len(radioLog) + 1)..Len(radioLog') :
       radioLog'[i].pkt \in QueuedIn(queue) =>
         \A q \in QueuedIn(queue) \cap QueuedIn(queue') :
           Priority[radioLog'[i].pkt] >= Priority[q]]_vars

\* No packet reaches the radio from the queue once it has waited
\* ExpiryTicks or more (spec section 4.2: expiry follows insertion order,
\* not priority order, so cleanExpired must visit the whole heap before
\* the drain pops from its top).
NoStaleTransmission ==
  \A i \in DOMAIN radioLog : radioLog[i].sentAt - radioLog[i].queuedAt < ExpiryTicks

=============================================================================
