------------------------- MODULE MCTimeWindowRadio -------------------------
(* Instances of TimeWindowRadio for TLC.                                   *)
EXTENDS TimeWindowRadio, TLC

CONSTANTS p1, p2, p3, p4

MCPackets == {p1, p2, p3, p4}

\* The queue capacity (32 in the code) scaled to 2, so that three packets
\* overflow it and a fourth is left for a send() that drains.
MCQueueCapacity == 2

\* A configured queue size below the capacity, and one equal to it.
MCQueueSizes == {1, 2}

\* Packets expire after three ticks; four ticks of time let one expire
\* with a tick to spare.  Three ticks let a packet wait two
\* ticks, fail, and be re-enqueued and sent in the same tick, so that the
\* queue times recorded differ by more than one.
MCExpiry == 3
MCMaxTime == 4

\* The three modes and a value outside the enum, which an admin message
\* can store.
MCModeVals == Modes \cup {"OUT_OF_ENUM"}

\* One packet with an empty payload, as packetPool.allocZeroed() gives the
\* firmware's tests (payloadlen 0).
MCZeroLen == {p4}

\* Packets with a payload are interchangeable; the empty one is not.
MCSymmetry == Permutations(MCPackets \ ZeroLen)
=============================================================================
