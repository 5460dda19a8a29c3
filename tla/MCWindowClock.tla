--------------------------- MODULE MCWindowClock ---------------------------
(* Instances of WindowClock for TLC.                                       *)
EXTENDS WindowClock

\* Hours at both ends of the day and around midnight, so that same-day,
\* wrapping and empty windows all occur.
MCHours   == {0, 12, 23}
MCMinutes == {0, 59}

\* One sample per minute.
MCTick == 60000

\* One full day of uptime (in 32 ms units): every minute of the day is reached.
MCDayHorizon == (24 * 60 * 60000) \div 32

\* The whole range of millis(): the clock reaches the 32-bit wrap.
MCFullHorizon == 2^27

\* A single configuration is enough for the wrap run.
MCWrapHours == {22}
MCWrapMinutes == {0}
=============================================================================
