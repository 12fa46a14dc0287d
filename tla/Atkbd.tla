-------------------------------- MODULE Atkbd --------------------------------
(* The AT keyboard driver on its serio port: the decoder of translated      *)
(* set 1, the command that negotiates with the keyboard, and what it does   *)
(* when the keyboard was reset (kernel/input/keyboard/atkbd).               *)
(*                                                                          *)
(* kb is the endpoint.  decode holds the unfinished sequence, the response  *)
(* bit of AA (set while the left shift is down, so that AA is its break),   *)
(* and the keys that are down.                                              *)
EXTENDS KeyboardHardware

CONSTANTS
  WriteLimit,          \* atkbd_command_write_limit
  NakLimit             \* atkbd_command_nak_limit

ASSUME AtkbdAssumption == {WriteLimit, NakLimit} \subseteq Nat \ {0}

NoCommand == [phase |-> "IDLE", index |-> 0, naks |-> 0, writes |-> 0]
FreshDecode == [sequence |-> <<>>, bit |-> FALSE, pressed |-> {}]

(* clear_detached_endpoint *)
EndpointInit ==
  [bound |-> FALSE, enabled |-> FALSE, negotiated |-> FALSE,
   reconnect |-> FALSE, releasing |-> FALSE, resend |-> FALSE,
   attempts |-> 0, committed |-> FALSE, command |-> NoCommand,
   decode |-> FreshDecode]

(* connect_port *)
Connected(r) ==
  IF r.st # "OK" THEN r
  ELSE [r EXCEPT !.h.kb = [EndpointInit EXCEPT !.bound = TRUE]]

ConnectPort(h) == Connected(DeviceRegister(h))

(* disconnect_port; a device that cannot detach poisons the endpoint, which *)
(* stays bound                                                              *)
Disconnected(r) ==
  IF r.st # "OK" THEN [r.h EXCEPT !.kb.enabled = FALSE]
  ELSE [r.h EXCEPT !.kb = EndpointInit]

DisconnectPort(h) == Disconnected(DeviceUnregister(h))

(* atkbd_internal_decode_cancel_sequence: the keys that are down survive *)
CancelSequence(decode) ==
  [decode EXCEPT !.sequence = <<>>, !.bit = FALSE]

-----------------------------------------------------------------------------
(* decoded_key *)
DecodedKey(decode, key, release) ==
  [decode |-> [decode EXCEPT !.pressed = IF release THEN @ \ {key}
                                         ELSE @ \cup {key}],
   key |-> key,
   value |-> CASE release -> "RELEASED"
               [] key \in decode.pressed -> "REPEATED"
               [] OTHER -> "PRESSED"]

NoKey(decode) == [decode |-> decode, key |-> None, value |-> "PRESSED"]

(* decode_translated_ordinary and translated_update_response_bit *)
DecodeOrdinary(decode, byte) ==
  CASE byte = "shift+" -> DecodedKey([decode EXCEPT !.bit = TRUE], SHIFT, FALSE)
    [] byte = BAT -> DecodedKey([decode EXCEPT !.bit = FALSE], SHIFT, TRUE)
    [] byte = "ctrl+" -> DecodedKey(decode, CTRL, FALSE)
    [] byte = "ctrl-" -> DecodedKey(decode, CTRL, TRUE)
    [] byte = "text+" -> DecodedKey(decode, PAD, FALSE)
    [] byte = "text-" -> DecodedKey(decode, PAD, TRUE)
    [] OTHER -> NoKey(decode)

(* translated_sequence: E0 with the next byte, except that E0 with the make *)
(* code of the left shift may begin Print Screen                            *)
PrintMake == <<PREFIX, "shift+", PREFIX>>

DecodeWhole(decode, whole) ==
  CASE whole \in {SubSeq(PrintMake, 1, 2), PrintMake} ->
         NoKey([decode EXCEPT !.sequence = whole])
    [] whole = <<PREFIX, "text+">> ->
         DecodedKey([decode EXCEPT !.sequence = <<>>], TEXT, FALSE)
    [] whole = <<PREFIX, "text-">> ->
         DecodedKey([decode EXCEPT !.sequence = <<>>], TEXT, TRUE)
    [] OTHER -> NoKey([decode EXCEPT !.sequence = <<>>])

DecodeSequence(decode, byte) ==
  DecodeWhole(decode, Append(decode.sequence, byte))

(* atkbd_internal_decode *)
Decode(decode, byte) ==
  CASE decode.sequence # <<>> -> DecodeSequence(decode, byte)
    [] byte = PREFIX -> NoKey([decode EXCEPT !.sequence = <<byte>>])
    [] OTHER -> DecodeOrdinary(decode, byte)

(* protocol_byte: an answer of the keyboard, rather than a scan code *)
ProtocolByte(kb, byte) ==
  /\ kb.decode.sequence = <<>>
  /\ byte \in {ACK, NAK} \/ (byte = BAT /\ ~ kb.decode.bit)

(* handle_protocol_byte; an ACK or NAK that nobody waits for is ignored *)
AckCommand(kb) ==
  LET last == kb.command.index + 1 = Len(Script)
  IN [kb EXCEPT !.command = [@ EXCEPT !.index = @ + 1, !.naks = 0,
                               !.phase = IF last THEN "COMPLETE" ELSE "READY"],
                !.negotiated = @ \/ last,
                !.enabled = @ \/ last]

NakCommand(kb) ==
  [kb EXCEPT !.command =
     [@ EXCEPT !.naks = @ + 1,
               !.phase = IF kb.command.naks + 1 >= NakLimit THEN "FAILED"
                         ELSE "READY"]]

(* Fault: the reset forgets the keys that are down, before anyone was told. *)
ResetSeenForgetting(kb) ==
  [kb EXCEPT !.enabled = FALSE, !.negotiated = FALSE, !.reconnect = TRUE,
             !.releasing = FALSE, !.command.phase = "FAILED",
             !.decode = FreshDecode]

ResetSeen(kb) ==
  [kb EXCEPT !.enabled = FALSE, !.negotiated = FALSE, !.reconnect = TRUE,
             !.releasing = FALSE, !.command.phase = "FAILED",
             !.decode = CancelSequence(@)]

HandleProtocolByte(kb, byte) ==
  CASE byte = BAT -> ResetSeen(kb)
    [] kb.command.phase # "WAIT_ACK" -> kb
    [] byte = ACK -> AckCommand(kb)
    [] OTHER -> NakCommand(kb)

(* submit_key: an answer that the core does not give poisons the endpoint *)
Taken(r) ==
  CASE r.st \in {"OK", "DEFERRED", "UNAVAILABLE", "ACCESS_DENIED",
                 "HANDLER_FAULT"} -> Result(r.h, "HANDLED")
    [] r.st \in {"RETRY", "BUSY", "CAPACITY_EXHAUSTED", "INVALID_STATE"} ->
         Result(r.h, "DEFER")
    [] OTHER -> Result([r.h EXCEPT !.kb.enabled = FALSE], "REJECTED")
SubmitKey(h, key, value) == Taken(Submit(h, key, value))

(* Fault: the decoder advances though the event was not taken. *)
AdvancedAlways(r, decode) == [r EXCEPT !.h.kb.decode = decode]

(* atkbd_internal_interrupt: the decoder advances only with an event that   *)
(* was taken; a deferred byte is decoded again                              *)
Advanced(r, decode) ==
  IF r.st = "DEFER" THEN r ELSE [r EXCEPT !.h.kb.decode = decode]

Decoded(h, d) ==
  IF d.key = None THEN Result([h EXCEPT !.kb.decode = d.decode], "HANDLED")
  ELSE Advanced(SubmitKey(h, d.key, d.value), d.decode)

GoodByte(h, byte) ==
  CASE ProtocolByte(h.kb, byte) ->
         Result([h EXCEPT !.kb = HandleProtocolByte(@, byte)], "HANDLED")
    [] ~ h.kb.enabled -> Result(h, "HANDLED")
    [] OTHER -> Decoded(h, Decode(h.kb.decode, byte))

(* A byte with a parity error is asked for again, one that timed out is not. *)
Interrupt(h, b) ==
  CASE b.flag = "timeout" -> Result(h, "HANDLED")
    [] b.flag = "parity" -> Result([h EXCEPT !.kb.resend = TRUE], "HANDLED")
    [] OTHER ->
         GoodByte([h EXCEPT !.kb.attempts = IF h.kb.resend THEN @ ELSE 0],
                  b.data)

-----------------------------------------------------------------------------
(* atkbd_command_begin for NEGOTIATE *)
CommandBegin(h) ==
  [h EXCEPT !.kb = [@ EXCEPT !.enabled = FALSE, !.negotiated = FALSE,
                             !.decode = FreshDecode,
                             !.command = [NoCommand EXCEPT !.phase = "READY"]]]

(* process_resend *)
ResendWritten(w) ==
  CASE w.st = "OK" -> [w EXCEPT !.h.kb.committed = TRUE]
    [] w.st = "RETRY" -> [w EXCEPT !.h.kb.resend = TRUE]
    [] OTHER -> w

ProcessResend(h) ==
  IF h.kb.attempts >= WriteLimit
  THEN Result([h EXCEPT !.kb.resend = FALSE], "PROTOCOL_ERROR")
  ELSE ResendWritten(
         WriteByte([h EXCEPT !.kb.resend = FALSE, !.kb.attempts = @ + 1],
                   RESEND))

(* process_command *)
CommandWritten(w) ==
  CASE w.st = "OK" -> Result([w.h EXCEPT !.kb.committed = TRUE], "WAITING")
    [] w.st = "RETRY" -> [w EXCEPT !.h.kb.command.phase = "READY"]
    [] OTHER -> [w EXCEPT !.h.kb.command.phase = "FAILED"]

ProcessCommand(h) ==
  CASE h.kb.command.phase = "IDLE" -> Result(h, "EMPTY")
    [] h.kb.command.phase = "WAIT_ACK" -> Result(h, "WAITING")
    [] h.kb.command.phase = "COMPLETE" -> Result(h, "OK")
    [] h.kb.command.phase = "FAILED" -> Result(h, "PROTOCOL_ERROR")
    [] h.kb.command.writes >= WriteLimit ->
         Result([h EXCEPT !.kb.command.phase = "FAILED"], "PROTOCOL_ERROR")
    [] OTHER -> CommandWritten(
         WriteByte([h EXCEPT !.kb.command.writes = @ + 1,
                             !.kb.command.phase = "WAIT_ACK"],
                   Script[h.kb.command.index + 1]))

(* reconnect_release_pressed: the lowest key that is down is released       *)
(* first, and a refused release keeps its place                             *)
Released(r, key) ==
  CASE r.st \in {"OK", "DEFERRED", "UNAVAILABLE"} ->
         Result([r.h EXCEPT !.kb.decode.pressed = @ \ {key}], "OK")
    [] r.st \in {"RETRY", "BUSY", "CAPACITY_EXHAUSTED"} ->
         Result(r.h, "RETRY")
    [] r.st = "HANDLER_FAULT" -> Result(r.h, "POISONED")
    [] OTHER -> Result(r.h, "INVALID_STATE")

RECURSIVE ReleaseKeys(_, _)
ReleaseKeys(r, keys) ==
  CASE r.st # "OK" \/ keys = <<>> -> r
    [] Head(keys) \notin r.h.kb.decode.pressed -> ReleaseKeys(r, Tail(keys))
    [] OTHER -> ReleaseKeys(Released(Submit(r.h, Head(keys), "RELEASED"),
                                     Head(keys)), Tail(keys))

ReleasePressed(h) == ReleaseKeys(Result(h, "OK"), <<CTRL, SHIFT, PAD, TEXT>>)

(* reconnect_port *)
Reconnecting(h) ==
  IF h.kb.releasing THEN h
  ELSE [h EXCEPT !.kb.enabled = FALSE, !.kb.releasing = TRUE,
                 !.kb.decode = CancelSequence(@)]

Reconnected(r) ==
  IF r.st # "OK" THEN r
  ELSE [r EXCEPT !.h.kb = [EndpointInit EXCEPT !.bound = TRUE,
                                               !.committed = r.h.kb.committed]]

ReconnectPort(h) == Reconnected(ReleasePressed(Reconnecting(h)))

(* atkbd_process *)
ReconnectStatus(r) ==
  Result(r.h, IF r.st \in {"OK", "RETRY"} THEN r.st ELSE "INVALID_STATE")

Process(h) ==
  CASE h.kb.reconnect -> ReconnectStatus(ReconnectPort(h))
    [] h.kb.resend -> ProcessResend(h)
    [] OTHER -> ProcessCommand(h)
=============================================================================
