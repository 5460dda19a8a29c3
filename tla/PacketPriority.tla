--------------------------- MODULE PacketPriority ---------------------------
(***************************************************************************)
(* QueuedPacket::calculatePriority (src/src/mesh/PriorityPacketQueue.h):   *)
(* the priority a packet gets when it is enqueued, from its want_ack flag, *)
(* its declared priority and, for a decoded payload, its port.  A packet   *)
(* is a record of those attributes.                                        *)
(***************************************************************************)
EXTENDS Naturals

\* meshtastic_MeshPacket_Priority values.
DeclaredPriorities == {"UNSET", "MIN", "BACKGROUND", "DEFAULT", "RELIABLE", "ACK", "MAX"}

\* Ports of a decoded payload; an encrypted payload has no readable port.
Ports == {"POSITION_APP", "EMERGENCY_APP", "TEXT_MESSAGE_APP", "TELEMETRY_APP",
          "ROUTING_APP", "NODEINFO_APP", "ADMIN_APP"}
NoPort == "NONE"

PacketAttrs ==
  [wantAck : BOOLEAN, priority : DeclaredPriorities, variant : {"decoded"}, port : Ports]
  \cup [wantAck : BOOLEAN, priority : DeclaredPriorities, variant : {"encrypted"}, port : {NoPort}]

\* calculatePriority for a non-null packet; the sum is a uint8_t.
CalculatePriority(p) ==
  LET ack  == IF p.wantAck THEN 2 ELSE 0
      decl == CASE p.priority = "RELIABLE" -> 3
                [] p.priority = "ACK"      -> 2
                [] OTHER                   -> 0
      port == IF p.variant = "decoded"
                THEN (IF p.port = "POSITION_APP" THEN 1 ELSE 0)
                     + (IF p.port = "EMERGENCY_APP" THEN 4 ELSE 0)
                ELSE 0
  IN  (1 + ack + decl + port) % 256

=============================================================================
