------------------------- MODULE MCTimeWindowPlugin -------------------------
EXTENDS TimeWindowPlugin

\* Two durations, queue times that make max and average differ, and
\* reported queue sizes below, at and above the number recorded.
MCDurations == {1, 2}
MCQueueTimes == {1, 3}
MCCounts == {0, 1, 2}
MCMaxTime == 3
MCMaxCount == 2
=============================================================================
