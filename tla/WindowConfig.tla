---------------------------- MODULE WindowConfig ----------------------------
(***************************************************************************)
(* The two writers of the time-window fields of the global config.lora:   *)
(* AdminModule::handleSetConfig (a remote admin message carrying a whole   *)
(* LoRa config) and the `window` CLI command.  Both run on the main loop,  *)
(* one at a time.  Persistence (saveConfig, saveChanges) and the reply     *)
(* text are left out: every accepted change is saved at the end of its     *)
(* handler.                                                                *)
(***************************************************************************)
EXTENDS Naturals

CONSTANTS
  Hours,        \* hour values an admin message or a CLI argument may carry
  Minutes,      \* minute values likewise
  ModeVals,     \* window_mode values an admin message may carry
  QueueSizes,   \* window_queue_size values
  ExpirySecs    \* window_packet_expire_secs values

Modes == {"DROP_PACKETS", "QUEUE_PACKETS", "RECEIVE_ONLY"}

ASSUME Modes \subseteq ModeVals

VARIABLE lora   \* config.has_lora and the time-window fields of config.lora

\* The admin messages: a whole LoRa config.
AdminMsgs ==
  [enabled : BOOLEAN, sh : Hours, sm : Minutes, eh : Hours, em : Minutes,
   mode : ModeVals, queueSize : QueueSizes, expireSecs : ExpirySecs]

\* The bound check of handleSetConfig and of parseTime.
BoundsValid(c) == c.sh < 24 /\ c.sm < 60 /\ c.eh < 24 /\ c.em < 60

\* The zero-initialised config before anything is written (mode 0 is
\* DROP_PACKETS).
Init ==
  lora = [hasLora |-> FALSE, enabled |-> FALSE, sh |-> 0, sm |-> 0, eh |-> 0,
          em |-> 0, mode |-> "DROP_PACKETS", queueSize |-> 0, expireSecs |-> 0]

\* Seeded bug (for InvalidBoundsOnlyFromDisabledAdmin): handleSetConfig checking the start
\* time only.
AdminSetLoraStartOnly(c) ==
  IF c.enabled /\ ~(c.sh < 24 /\ c.sm < 60)
    THEN lora' = [lora EXCEPT !.hasLora = TRUE]
    ELSE lora' = [hasLora |-> TRUE, enabled |-> c.enabled,
                  sh |-> c.sh, sm |-> c.sm, eh |-> c.eh, em |-> c.em,
                  mode |-> c.mode, queueSize |-> c.queueSize,
                  expireSecs |-> c.expireSecs]

\* Seeded bug (for TypeOK): the two queue-mode defaults written to each
\* other's field.
AdminSetLoraSwappedDefaults(c) ==
  IF c.enabled /\ ~BoundsValid(c)
    THEN lora' = [lora EXCEPT !.hasLora = TRUE]
    ELSE LET q == c.enabled /\ c.mode = "QUEUE_PACKETS"
         IN  lora' = [hasLora |-> TRUE, enabled |-> c.enabled,
                      sh |-> c.sh, sm |-> c.sm, eh |-> c.eh, em |-> c.em,
                      mode |-> c.mode,
                      queueSize |-> IF q /\ c.queueSize = 0 THEN 3600 ELSE c.queueSize,
                      expireSecs |-> IF q /\ c.expireSecs = 0 THEN 32 ELSE c.expireSecs]

\* handleSetConfig, LoRa case.  has_lora is set before the checks; an
\* enabled window with out-of-range bounds is rejected; an enabled window
\* in queue mode gets queue size 32 and expiry 3600 where they are 0; the
\* (possibly defaulted) message then replaces config.lora.
AdminSetLora(c) ==
  IF c.enabled /\ ~BoundsValid(c)
    THEN lora' = [lora EXCEPT !.hasLora = TRUE]
    ELSE LET q == c.enabled /\ c.mode = "QUEUE_PACKETS"
         IN  lora' = [hasLora |-> TRUE, enabled |-> c.enabled,
                      sh |-> c.sh, sm |-> c.sm, eh |-> c.eh, em |-> c.em,
                      mode |-> c.mode,
                      queueSize |-> IF q /\ c.queueSize = 0 THEN 32 ELSE c.queueSize,
                      expireSecs |-> IF q /\ c.expireSecs = 0 THEN 3600 ELSE c.expireSecs]

\* `window enable`
CliEnable == lora' = [lora EXCEPT !.hasLora = TRUE, !.enabled = TRUE]

\* `window disable`
CliDisable == lora' = [lora EXCEPT !.enabled = FALSE]

\* parseTime's range check.
ParseTimeOk(h, m) == h <= 23 /\ m <= 59

\* `window set START END`: both times must parse.
CliSet(sh, sm, eh, em) ==
  /\ ParseTimeOk(sh, sm)
  /\ ParseTimeOk(eh, em)
  /\ lora' = [lora EXCEPT !.hasLora = TRUE, !.sh = sh, !.sm = sm, !.eh = eh, !.em = em]

\* `window mode drop|queue|receive`
CliMode(m) == lora' = [lora EXCEPT !.mode = m]

\* `window queue SIZE`, SIZE in 1..100.
CliQueue(n) ==
  /\ 1 <= n /\ n <= 100
  /\ lora' = [lora EXCEPT !.queueSize = n]

\* `window expire SECS`, SECS >= 1.
CliExpire(s) ==
  /\ s >= 1
  /\ lora' = [lora EXCEPT !.expireSecs = s]

\* The `window` console command: its argument string is split into at most
\* eight words and handed to timeWindowCmd, which runs one setter.
WindowCommand ==
  \/ CliEnable
  \/ CliDisable
  \/ \E sh, eh \in Hours, sm, em \in Minutes : CliSet(sh, sm, eh, em)
  \/ \E m \in Modes : CliMode(m)
  \/ \E n \in QueueSizes : CliQueue(n)
  \/ \E s \in ExpirySecs : CliExpire(s)

Next ==
  \/ \E c \in AdminMsgs : AdminSetLora(c)
  \/ WindowCommand

Spec == Init /\ [][Next]_lora

-----------------------------------------------------------------------------
TypeOK ==
  lora \in [hasLora : BOOLEAN, enabled : BOOLEAN, sh : Hours \cup {0},
            sm : Minutes \cup {0}, eh : Hours \cup {0}, em : Minutes \cup {0},
            mode : ModeVals, queueSize : QueueSizes \cup {0, 32},
            expireSecs : ExpirySecs \cup {0, 3600}]

\* An enabled window always has a valid configuration (spec section 7:
\* invalid bounds or mode values are caught at the configuration boundary,
\* and send() fails with ERRNO_INVALID_CONFIG on an out-of-enum mode; section 2:
\* max_queue_size and packet_expire_secs are positive): its bounds are in
\* range, and in queue mode its queue size and expiry are positive, which
\* handleSetConfig's defaults are there to ensure.  It must hold whichever
\* of the admin message and the CLI wrote the fields and turned the window
\* on.
EnabledConfigValid ==
  lora.enabled =>
    /\ BoundsValid(lora)
    /\ lora.mode \in Modes
    /\ lora.mode = "QUEUE_PACKETS" => lora.queueSize >= 1 /\ lora.expireSecs >= 1

\* Window bounds stop being valid only through an admin message that
\* carries a disabled window: neither the CLI nor an admin message enabling
\* the window ever writes an out-of-range hour or minute.
InvalidBoundsOnlyFromDisabledAdmin ==
  [][BoundsValid(lora) /\ ~BoundsValid(lora') =>
       \E c \in AdminMsgs : ~c.enabled /\ AdminSetLora(c)]_lora

=============================================================================
