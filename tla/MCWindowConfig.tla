--------------------------- MODULE MCWindowConfig ---------------------------
EXTENDS WindowConfig

\* In-range and out-of-range bounds, a mode value outside the enum, queue
\* sizes 0 (defaulted), 1 (least valid) and 101 (above the CLI's range), and
\* expiries 0 (defaulted) and 1.
MCHours == {0, 23, 24}
MCMinutes == {0, 60}
MCModeVals == {"DROP_PACKETS", "QUEUE_PACKETS", "RECEIVE_ONLY", "UNKNOWN_MODE"}
MCQueueSizes == {0, 1, 101}
MCExpirySecs == {0, 1}
=============================================================================
