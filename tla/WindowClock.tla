---------------------------- MODULE WindowClock ----------------------------
(***************************************************************************)
(* The transmission window test of RadioInterface::isOperationAllowed      *)
(* (src/src/mesh/RadioInterfaceTime.cpp) and of isTimeWindowActive         *)
(* (src/src/mesh/TimeWindow.cpp).  The time of day is not read from a      *)
(* wall clock: it is derived from millis(), the 32-bit uptime counter in   *)
(* milliseconds, as (millis / 1000) % 86400.  The window itself is a       *)
(* half-open interval [start, end) of minutes since midnight that wraps    *)
(* past midnight when start > end.                                         *)
(*                                                                         *)
(* State: the window configuration (written by the `window set` command    *)
(* of TimeWindowCLI.cpp) and the value of millis().  TLC integers are      *)
(* 31-bit, so millis() is held in units of 32 ms (variable `clock`):        *)
(* every sample of a clock that starts at 0 and advances by whole minutes  *)
(* is a multiple of gcd(60000, 2^32) = 32 ms, so the representation is     *)
(* exact, and 2^32 ms is 2^27 units.                                       *)
(***************************************************************************)
EXTENDS Integers

CONSTANTS
  HourSet,      \* window hours the operator may configure (a subset of 0..23)
  MinuteSet,    \* window minutes the operator may configure (a subset of 0..59)
  TickMs,       \* milliseconds between two samples of millis(), a multiple of 32
  ClockHorizon  \* bound, in 32 ms units: the clock only advances below it

ASSUME HourSet \subseteq 0..23 /\ HourSet # {}
ASSUME MinuteSet \subseteq 0..59 /\ MinuteSet # {}
ASSUME TickMs \in Nat \ {0} /\ TickMs % 32 = 0
ASSUME ClockHorizon \in Nat

VARIABLES cfg, clock   \* clock = millis() / 32

vars == <<cfg, clock>>

\* millis() is an unsigned 32-bit counter: 2^32 ms is 2^27 units of 32 ms.
ClockWrap == 2^27

\* Seeded bug (for TypeOK): parseTime's check written `h > 24`, accepting 24.
ValidConfigsHour24 ==
  [startHour : HourSet \cup {24}, startMinute : MinuteSet,
   endHour : HourSet \cup {24}, endMinute : MinuteSet]

\* The configurations parseTime accepts: hours 0-23, minutes 0-59.
ValidConfigs ==
  [startHour : HourSet, startMinute : MinuteSet,
   endHour : HourSet, endMinute : MinuteSet]

\* Seeded bug (for WindowOpens): the day length in `now % (24 * 3600)`
\* written as one hour, so the derived time of day never leaves 00:xx.
MinuteOfDayHourly(c) ==
  LET daySeconds == ((4 * c) \div 125) % 3600
  IN  (daySeconds \div 3600) * 60 + (daySeconds % 3600) \div 60

\* Minutes since midnight as the code computes them from millis():
\* now = millis() / 1000; daySeconds = now % (24 * 3600);
\* hour = daySeconds / 3600; minute = (daySeconds % 3600) / 60.
\* With ms = 32 * c, ms / 1000 = (4 * c) / 125.
MinuteOfDay(c) ==
  LET daySeconds == ((4 * c) \div 125) % (24 * 3600)
  IN  (daySeconds \div 3600) * 60 + (daySeconds % 3600) \div 60

\* Seeded bug (for AllowedMatchesReference): end treated as inclusive.
IsTimeInWindowClosedEnd(start, end, current) ==
  IF start <= end
    THEN current >= start /\ current <= end
    ELSE current >= start \/ current <= end

\* The window test on minutes since midnight: same-day window when
\* start <= end, otherwise the window spans midnight.
IsTimeInWindow(start, end, current) ==
  IF start <= end
    THEN current >= start /\ current < end
    ELSE current >= start \/ current < end

StartOf(c) == c.startHour * 60 + c.startMinute
EndOf(c)   == c.endHour * 60 + c.endMinute

\* isOperationAllowed with the time window enabled.
IsOperationAllowed(c, t) ==
  IsTimeInWindow(StartOf(c), EndOf(c), MinuteOfDay(t))

-----------------------------------------------------------------------------
Init ==
  /\ cfg \in ValidConfigs
  /\ clock = 0

\* Time passes: millis() advances and wraps modulo 2^32.
Advance ==
  /\ clock < ClockHorizon
  /\ clock' = (clock + TickMs \div 32) % ClockWrap
  /\ UNCHANGED cfg

\* `window set HH:MM HH:MM`: both times parsed and range-checked, then
\* stored together.
SetWindow ==
  /\ cfg' \in ValidConfigs
  /\ UNCHANGED clock

Next == Advance \/ SetWindow

Spec == Init /\ [][Next]_vars

\* millis() is advanced by the hardware timer, whatever the main loop does:
\* time passing is the one step nothing can hold off forever.  The window
\* setter is the operator's, and gets no fairness.
FairSpec == Spec /\ WF_vars(Advance)

-----------------------------------------------------------------------------
TypeOK ==
  /\ cfg \in [startHour : 0..23, startMinute : 0..59, endHour : 0..23, endMinute : 0..59]
  /\ clock \in 0..(ClockWrap - 1)

\* Reference meaning of a daily window: the minutes reached by walking
\* clockwise from start for (end - start) mod 1440 minutes.
InWindowRef(start, end, current) ==
  (current - start) % 1440 < (end - start) % 1440

\* The code's two-branch test agrees with the clockwise-arc definition
\* for every configured window at every time of day the clock reaches:
\* start inclusive, end exclusive, wrapping at midnight, empty when
\* start = end.
AllowedMatchesReference ==
  IsOperationAllowed(cfg, clock)
    = InWindowRef(StartOf(cfg), EndOf(cfg), MinuteOfDay(clock))

\* A window that is not empty opens within a day of uptime: when the
\* operator leaves a window with start # end configured from boot, the
\* time of day that isOperationAllowed derives from millis() reaches it,
\* so send() stops queueing or dropping.  Needs only time to pass.
WindowOpens ==
  \A w \in {v \in ValidConfigs : StartOf(v) # EndOf(v)} :
    [](cfg = w) => <>IsOperationAllowed(cfg, clock)

=============================================================================
