---------------------------- MODULE MCVectorRadio ----------------------------
(* An instance of VectorRadio for TLC.                                     *)
EXTENDS VectorRadio

CONSTANTS p1, p2

MCPackets == {p1, p2}

\* The three modes and one value outside the enum, which an admin message
\* can store.
MCModeVals == Modes \cup {"OUT_OF_ENUM"}

\* 0 (an admin message with the window disabled), and sizes at which a
\* second packet overflows or fits.
MCQueueSizes == {0, 1, 2}

\* One second, and 4294968 s, whose * 1000 wraps to 704 ms in 32 bits.
MCExpirySecs == {1, 4294968}

\* Quarter seconds up to 750 ms: ages 704 <= 750 < 1000 tell the two
\* expiries apart.
MCTickMs == 250
MCMaxTime == 750

\* Deeper than any finite chain of returning calls: send, processQueuedPackets,
\* send of the front entry, and one self-call.
MCStackLimit == 4
=============================================================================
