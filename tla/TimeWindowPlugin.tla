-------------------------- MODULE TimeWindowPlugin --------------------------
(***************************************************************************)
(* The remote-command plugin (src/src/plugins/TimeWindowPlugin.h, .cpp):  *)
(* the temporary override set by FORCE_OPEN / FORCE_CLOSE, the plugin's    *)
(* own statistics, and the status and stats replies.  `now` counts        *)
(* seconds; the override expiry is in milliseconds, as the code stores it. *)
(***************************************************************************)
EXTENDS Naturals

CONSTANTS
  Durations,   \* values of cmd.duration (seconds)
  QueueTimes,  \* queue times passed to recordQueueStats
  Counts,      \* queue sizes passed to updateQueuedCount
  MaxTime,     \* bound on the clock
  MaxCount     \* bound on each statistics counter

VARIABLES
  now,                \* millis() / 1000
  isWindowActive,     \* never written after construction
  temporaryOverride,
  overrideActive,
  overrideExpiry,     \* millis() at which the override should end
  stats,              \* the file-static statistics struct
  radioPresent,       \* service.radio != nullptr
  reply               \* the last WINDOW_STATUS or WINDOW_STATS reply, or NoReply

vars == <<now, isWindowActive, temporaryOverride, overrideActive,
          overrideExpiry, stats, radioPresent, reply>>

NoReply == [kind |-> "NONE"]

ZeroStats == [totalQueued |-> 0, totalDropped |-> 0, totalDelayed |-> 0,
              queueOverflows |-> 0, maxQueueTime |-> 0, sumQueueTime |-> 0,
              queuedPackets |-> 0]

\* getCurrentWindowState()
CurrentWindowState == isWindowActive /\ (~temporaryOverride \/ overrideActive)

Init ==
  /\ now = 0
  /\ isWindowActive = TRUE
  /\ temporaryOverride = FALSE
  /\ overrideActive = FALSE
  /\ overrideExpiry = 0
  /\ stats = ZeroStats
  /\ radioPresent \in BOOLEAN
  /\ reply = NoReply

\* FORCE_OPEN (open = TRUE) and FORCE_CLOSE (open = FALSE): the expiry is
\* millis() + duration * 1000 (uint32_t; it wraps only past 49.7 days of
\* uptime or durations over 4294967 s, beyond MaxTime and Durations).
Force(open, d) ==
  /\ temporaryOverride' = TRUE
  /\ overrideActive' = open
  /\ overrideExpiry' = now * 1000 + d * 1000
  /\ UNCHANGED <<now, isWindowActive, stats, radioPresent, reply>>

\* RESET_STATS: memset(&stats, 0, ...).
ResetStats ==
  /\ stats' = ZeroStats
  /\ UNCHANGED <<now, isWindowActive, temporaryOverride, overrideActive,
                 overrideExpiry, radioPresent, reply>>

\* CLEAR_QUEUE: with a radio, clear its queue and zero queuedPackets (the
\* radio's queue is modelled in TimeWindowRadio).
ClearQueue ==
  /\ radioPresent
  /\ stats' = [stats EXCEPT !.queuedPackets = 0]
  /\ UNCHANGED <<now, isWindowActive, temporaryOverride, overrideActive,
                 overrideExpiry, radioPresent, reply>>

\* The average sendStats reports.
ReportedAvg ==
  IF stats.queuedPackets # 0 THEN stats.sumQueueTime \div stats.queuedPackets
                             ELSE 0

\* WINDOW_STATS request, or GET_STATS command: sendStats.
SendStats ==
  /\ reply' = [kind |-> "WINDOW_STATS", avg |-> ReportedAvg, max |-> stats.maxQueueTime]
  /\ UNCHANGED <<now, isWindowActive, temporaryOverride, overrideActive,
                 overrideExpiry, stats, radioPresent>>

\* WINDOW_STATUS request, or GET_STATUS command: sendStatus reports the
\* member isWindowActive (not getCurrentWindowState()), the plugin's
\* queuedPackets and totalDropped.  The window mode and the next
\* transition time it also carries are left out.
SendStatus ==
  /\ reply' = [kind |-> "WINDOW_STATUS", active |-> isWindowActive,
               queued |-> stats.queuedPackets, dropped |-> stats.totalDropped]
  /\ UNCHANGED <<now, isWindowActive, temporaryOverride, overrideActive,
                 overrideExpiry, stats, radioPresent>>

\* recordQueueStats(queueTime)
RecordQueueStats(qt) ==
  /\ stats.totalQueued < MaxCount
  /\ stats' = [stats EXCEPT !.totalQueued = @ + 1,
                            !.sumQueueTime = @ + qt,
                            !.maxQueueTime = IF qt > @ THEN qt ELSE @]
  /\ UNCHANGED <<now, isWindowActive, temporaryOverride, overrideActive,
                 overrideExpiry, radioPresent, reply>>

\* recordDroppedPacket() and recordQueueOverflow()
RecordDroppedPacket ==
  /\ stats.totalDropped < MaxCount
  /\ stats' = [stats EXCEPT !.totalDropped = @ + 1]
  /\ UNCHANGED <<now, isWindowActive, temporaryOverride, overrideActive,
                 overrideExpiry, radioPresent, reply>>

RecordQueueOverflow ==
  /\ stats.queueOverflows < MaxCount
  /\ stats' = [stats EXCEPT !.queueOverflows = @ + 1]
  /\ UNCHANGED <<now, isWindowActive, temporaryOverride, overrideActive,
                 overrideExpiry, radioPresent, reply>>

\* updateQueuedCount(count)
UpdateQueuedCount(n) ==
  /\ stats' = [stats EXCEPT !.queuedPackets = n]
  /\ UNCHANGED <<now, isWindowActive, temporaryOverride, overrideActive,
                 overrideExpiry, radioPresent, reply>>

Tick ==
  /\ now < MaxTime
  /\ now' = now + 1
  /\ UNCHANGED <<isWindowActive, temporaryOverride, overrideActive,
                 overrideExpiry, stats, radioPresent, reply>>

Next ==
  \/ \E open \in BOOLEAN, d \in Durations : Force(open, d)
  \/ ResetStats
  \/ ClearQueue
  \/ SendStatus
  \/ SendStats
  \/ \E qt \in QueueTimes : RecordQueueStats(qt)
  \/ RecordDroppedPacket
  \/ RecordQueueOverflow
  \/ \E n \in Counts : UpdateQueuedCount(n)
  \/ Tick

Spec == Init /\ [][Next]_vars

-----------------------------------------------------------------------------
\* The override is inert once expired (spec section 2, OverrideState): when
\* the clock has reached overrideExpiry, getCurrentWindowState() is the
\* window's own verdict again.
OverrideExpires ==
  temporaryOverride /\ now * 1000 >= overrideExpiry => CurrentWindowState = isWindowActive


=============================================================================
