----------------------------- MODULE VectorRadio -----------------------------
(***************************************************************************)
(* The third draft of the transmit scheduler, src/src/mesh/                *)
(* RadioInterfaceTime.cpp, with the std::vector queue that                 *)
(* src/src/mesh/RadioInterface.h declares for it.  Its send(),             *)
(* processQueuedPackets() and cleanExpiredPackets() call each other, and   *)
(* send() ends in the qualified call RadioInterface::send(p), which is a   *)
(* call of itself.  The model therefore executes them on an explicit call  *)
(* stack: every action is one step of the frame on top, and millis() may   *)
(* advance between any two steps.                                          *)
(*                                                                         *)
(* Whether the compiler turns `return RadioInterface::send(p)` into a jump *)
(* (tail-call optimisation) is a property of the build, chosen once in     *)
(* Init.  Without it each such call pushes a frame; a stack deeper than    *)
(* StackLimit frames overflows and the device reboots, losing the RAM      *)
(* queue and keeping the saved config.                                     *)
(***************************************************************************)
EXTENDS Integers, Sequences, SequencesExt, FiniteSets

CONSTANTS
  Packets,      \* packet pointers the mesh layer hands to send()
  ModeVals,     \* window_mode values config.lora may hold (admin copies any)
  QueueSizes,   \* window_queue_size values
  ExpirySecs,   \* window_packet_expire_secs values
  TickMs,       \* milliseconds millis() advances per Tick
  MaxTime,      \* bound: millis() value the model lets time reach
  StackLimit    \* frames of the three functions the task stack holds

Modes == {"DROP_PACKETS", "QUEUE_PACKETS", "RECEIVE_ONLY"}

ASSUME Modes \subseteq ModeVals
ASSUME StackLimit \in Nat \ {0}

NoPacket == "none"          \* the packet field of a processQueuedPackets frame
NoResult == "none"          \* no frame has returned a value yet
Results == {"OK", "NO_RADIO", "INVALID_CONFIG", NoResult}

VARIABLES
  now,         \* millis(), in ms since boot
  inWindow,    \* isOperationAllowed() with the window enabled, at `now`
  enabled,     \* config.has_lora && config.lora.time_window_enabled
  mode,        \* config.lora.window_mode
  queueSize,   \* config.lora.window_queue_size
  expireSecs,  \* config.lora.window_packet_expire_secs
  queue,       \* packetQueue: <<[pkt, t]>> in vector order
  released,    \* packet -> number of packetPool.release(packet) calls
  unsent,      \* packets not yet handed to send()
  stack,       \* call frames [fn, pkt, pc], innermost last
  ret,         \* the value the last returning frame gave its caller
  tco,         \* the build turns the self-call into a jump
  crashed      \* the device has rebooted (stack overflow, heap corruption)

vars == <<now, inWindow, enabled, mode, queueSize, expireSecs, queue,
          released, unsent, stack, ret, tco, crashed>>
cfgVars == <<enabled, mode, queueSize, expireSecs>>

Frame(fn, p, pc) == [fn |-> fn, pkt |-> p, pc |-> pc]
Top == Last(stack)

\* The frame on top is the function fn at pc.
At(fn, pc) == stack # <<>> /\ Len(stack) <= StackLimit /\ Top.fn = fn /\ Top.pc = pc

\* The top frame continues at pc.
Goto(pc) == [stack EXCEPT ![Len(stack)].pc = pc]

\* The top frame returns r to its caller.
Return(r) == stack' = Front(stack) /\ ret' = r

Release(p) == released' = [released EXCEPT ![p] = @ + 1]

\* window_packet_expire_secs * 1000 in uint32_t arithmetic (line 48):
\* computed in units of 8 ms so that TLC's integers do not overflow.
ExpiryMs(s) == ((s * 125) % 2^29) * 8

-----------------------------------------------------------------------------
(* src/src/mesh/RadioInterfaceTime.cpp                                     *)

\* `return RadioInterface::send(p)`: with tail-call optimisation the frame
\* becomes a fresh send(p); without it a new send(p) frame is pushed and the
\* caller waits at "ret" to hand its result on.
SelfCall(p) ==
  stack' = IF tco THEN [stack EXCEPT ![Len(stack)] = Frame("send", p, "entry")]
                  ELSE Append(Goto("ret"), Frame("send", p, "entry"))

\* send(p) with the window enabled and the time outside it: the mode switch.
SendOutside ==
  /\ At("send", "entry") /\ enabled /\ ~inWindow
  /\ LET p == Top.pkt IN
     \/ /\ mode \in {"DROP_PACKETS", "RECEIVE_ONLY"}
        /\ Release(p) /\ Return("NO_RADIO") /\ UNCHANGED queue
     \/ /\ mode = "QUEUE_PACKETS" /\ Len(queue) >= queueSize
        /\ Release(p) /\ Return("NO_RADIO") /\ UNCHANGED queue
     \/ /\ mode = "QUEUE_PACKETS" /\ Len(queue) < queueSize
        /\ queue' = Append(queue, [pkt |-> p, t |-> now])
        /\ Return("OK") /\ UNCHANGED released
     \/ /\ mode \notin Modes
        /\ Return("INVALID_CONFIG") /\ UNCHANGED <<queue, released>>
  /\ UNCHANGED <<now, inWindow, unsent, tco, crashed, cfgVars>>

\* send(p) inside the window: call processQueuedPackets(), then continue
\* at the self-call.
SendInWindow ==
  /\ At("send", "entry") /\ enabled /\ inWindow
  /\ stack' = Append(Goto("tail"), Frame("process", NoPacket, "entry"))
  /\ UNCHANGED <<now, inWindow, queue, released, unsent, ret, tco, crashed, cfgVars>>

\* send(p) with the window feature off, or back from processQueuedPackets:
\* `return RadioInterface::send(p)`.
SendSelf ==
  /\ \/ At("send", "entry") /\ ~enabled
     \/ At("send", "tail")
  /\ SelfCall(Top.pkt)
  /\ UNCHANGED <<now, inWindow, queue, released, unsent, ret, tco, crashed, cfgVars>>

\* The inner send(p) returned: hand its result on.
SendReturn ==
  /\ At("send", "ret")
  /\ Return(ret)
  /\ UNCHANGED <<now, inWindow, queue, released, unsent, tco, crashed, cfgVars>>

\* cleanExpiredPackets: release and erase every entry whose age reaches
\* the expiry (the age itself is uint32_t and never negative here).
IsExpired(e) == now - e.t >= ExpiryMs(expireSecs)

CleanExpiredPackets ==
  /\ queue' = SelectSeq(queue, LAMBDA e : ~IsExpired(e))
  /\ released' = [p \in Packets |->
                    released[p] + Cardinality({i \in DOMAIN queue :
                                                 queue[i].pkt = p /\ IsExpired(queue[i])})]

\* processQueuedPackets: return unless enabled and inside the window,
\* otherwise clean expired entries and enter the loop.
ProcessEntry ==
  /\ At("process", "entry")
  /\ \/ /\ ~enabled \/ ~inWindow
        /\ Return(NoResult) /\ UNCHANGED <<queue, released>>
     \/ /\ enabled /\ inWindow
        /\ CleanExpiredPackets
        /\ stack' = Goto("loop") /\ UNCHANGED ret
  /\ UNCHANGED <<now, inWindow, unsent, tco, crashed, cfgVars>>

\* The loop head: stop on an empty queue, otherwise send the front entry.
ProcessLoop ==
  /\ At("process", "loop")
  /\ \/ queue = <<>> /\ Return(NoResult)
     \/ queue # <<>> /\ stack' = Append(Goto("check"), Frame("send", Head(queue).pkt, "entry"))
                     /\ UNCHANGED ret
  /\ UNCHANGED <<now, inWindow, queue, released, unsent, tco, crashed, cfgVars>>

\* The device resets: the RAM queue and the call stack are gone, millis()
\* restarts from 0, and config.lora, saved to flash, survives.
Reboot ==
  /\ stack' = <<>> /\ queue' = <<>> /\ ret' = NoResult
  /\ now' = 0 /\ inWindow' \in BOOLEAN
  /\ crashed' = TRUE

\* Back from send(front): on ERRNO_OK erase the first entry and loop,
\* otherwise break.  Erasing begin() of an empty vector is undefined; the
\* model lets it corrupt the heap, which reboots the device.
ProcessCheck ==
  /\ At("process", "check")
  /\ \/ ret = "OK" /\ queue # <<>> /\ queue' = Tail(queue) /\ stack' = Goto("loop")
        /\ UNCHANGED <<ret, now, inWindow, crashed>>
     \/ ret # "OK" /\ Return(NoResult) /\ UNCHANGED <<queue, now, inWindow, crashed>>
     \/ ret = "OK" /\ queue = <<>> /\ Reboot
  /\ UNCHANGED <<released, unsent, tco, cfgVars>>

\* A call pushed a frame past the stack: the overflow reboots the device.
StackOverflow ==
  /\ Len(stack) > StackLimit
  /\ Reboot
  /\ UNCHANGED <<released, unsent, tco, cfgVars>>

-----------------------------------------------------------------------------
Init ==
  /\ now = 0
  /\ inWindow \in BOOLEAN
  /\ enabled \in BOOLEAN
  /\ mode \in ModeVals
  /\ queueSize \in QueueSizes
  /\ expireSecs \in ExpirySecs
  /\ queue = <<>>
  /\ released = [p \in Packets |-> 0]
  /\ unsent = Packets
  /\ stack = <<>>
  /\ ret = NoResult
  /\ tco \in BOOLEAN
  /\ crashed = FALSE

\* The mesh layer calls send(p) from the main loop, which is idle.
Call(p) ==
  /\ stack = <<>> /\ p \in unsent
  /\ unsent' = unsent \ {p}
  /\ stack' = <<Frame("send", p, "entry")>>
  /\ ret' = NoResult
  /\ UNCHANGED <<now, inWindow, queue, released, tco, crashed, cfgVars>>

\* millis() advances, during a call too; the time of day may enter or
\* leave the window.
Tick ==
  /\ now + TickMs <= MaxTime
  /\ now' = now + TickMs
  /\ inWindow' \in BOOLEAN
  /\ UNCHANGED <<queue, released, unsent, stack, ret, tco, crashed, cfgVars>>

\* `window enable|disable`, `window mode`, `window queue`, `window expire`:
\* CLI handlers of the same main loop, so never in the middle of a send().
SetConfig ==
  /\ stack = <<>>
  /\ \/ \E b \in BOOLEAN : enabled' = b /\ UNCHANGED <<mode, queueSize, expireSecs>>
     \/ \E m \in Modes : mode' = m /\ UNCHANGED <<enabled, queueSize, expireSecs>>
     \/ \E n \in QueueSizes \cap 1..100 : queueSize' = n /\ UNCHANGED <<enabled, mode, expireSecs>>
     \/ \E s \in ExpirySecs \ {0} : expireSecs' = s /\ UNCHANGED <<enabled, mode, queueSize>>
  /\ UNCHANGED <<now, inWindow, queue, released, unsent, stack, ret, tco, crashed>>

\* One step of the code running on the call stack.
Step ==
  \/ SendOutside \/ SendInWindow \/ SendSelf \/ SendReturn
  \/ ProcessEntry \/ ProcessLoop \/ ProcessCheck
  \/ StackOverflow

Next ==
  \/ Step
  \/ \E p \in Packets : Call(p)
  \/ Tick
  \/ SetConfig

Spec == Init /\ [][Next]_vars

\* The main loop keeps executing a call it has started: the code on the
\* stack is weakly fair.  Traffic, time and the CLI are not.
FairSpec == Spec /\ WF_vars(Step)

-----------------------------------------------------------------------------
(* Properties                                                              *)

TypeOK ==
  /\ now \in 0..MaxTime /\ inWindow \in BOOLEAN /\ enabled \in BOOLEAN
  /\ mode \in ModeVals /\ queueSize \in QueueSizes /\ expireSecs \in ExpirySecs
  /\ queue \in Seq([pkt : Packets, t : 0..MaxTime])
  /\ released \in [Packets -> Nat] /\ unsent \subseteq Packets
  /\ stack \in Seq([fn : {"send", "process"}, pkt : Packets \cup {NoPacket},
                     pc : {"entry", "tail", "ret", "loop", "check"}])
  /\ ret \in Results /\ tco \in BOOLEAN /\ crashed \in BOOLEAN

\* Every send() the mesh layer makes returns to it, without the device
\* rebooting first (spec section 6: send() is invoked synchronously and
\* returns quickly).  Broken by the self-call at the end of send(), which
\* never reaches the radio.
SendReturns == (stack # <<>>) ~> (stack = <<>> /\ ~crashed)

\* Every entry of packetQueue holds its own packet, one not given back to
\* the pool (spec section 5: exactly one holder per packet).  At stake is
\* the loop of processQueuedPackets (line 67), whose nested send() of the
\* front entry may run after the window has closed mid-drain.
QueueHoldsLivePackets ==
  /\ IsInjective([i \in DOMAIN queue |-> queue[i].pkt])
  /\ \A i \in DOMAIN queue : released[queue[i].pkt] = 0

=============================================================================
