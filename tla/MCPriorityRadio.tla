--------------------------- MODULE MCPriorityRadio ---------------------------
EXTENDS PriorityRadio, TLC

CONSTANTS p1, p2, p3, p4

\* p1 outranks the tied p2, p3 and p4 (a want_ack packet against plain
\* ones); capacity 3 makes the fourth packet overflow; two packets per
\* cycle with three queued leave work for the next drain, and the time
\* budget can also end a drain after its first send.
MCPackets == {p1, p2, p3, p4}
PP == INSTANCE PacketPriority
MCAttrs ==
  (p1 :> [wantAck |-> TRUE, priority |-> "DEFAULT", variant |-> "decoded", port |-> "TEXT_MESSAGE_APP"])
  @@ [p \in {p2, p3, p4} |->
        [wantAck |-> FALSE, priority |-> "DEFAULT", variant |-> "decoded", port |-> "TEXT_MESSAGE_APP"]]
MCPriority == [p \in MCPackets |-> PP!CalculatePriority(MCAttrs[p])]
MCQueueCapacity == 3
MCExpiry == 2
MCMinInterval == 1
MCMaxPerCycle == 2
MCMaxTime == 3

\* The three modes and a value outside the enum, which an admin message
\* can store.
MCModeVals == Modes \cup {"OUT_OF_ENUM"}
\* p4 has an empty payload (payloadlen 0), as packetPool.allocZeroed()
\* gives the firmware's tests; only p2 and p3 are interchangeable.
MCZeroLen == {p4}
MCSymmetry == Permutations({p2, p3})

=============================================================================
