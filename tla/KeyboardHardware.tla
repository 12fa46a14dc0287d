--------------------------- MODULE KeyboardHardware ---------------------------
(* The physical keyboard, the i8042 between it and the machine, and the     *)
(* owner of the controller's command byte (x86_vm/platform/native_i8042.c   *)
(* and the write half of native_input.c).                                   *)
(*                                                                          *)
(* kbd is the keyboard: the keys it has reported as down, the bytes it has  *)
(* not sent, whether it scans, and the command that waits in the input      *)
(* buffer.  torn says why its stream is not what the user typed (it was     *)
(* disabled or reset, or a byte was damaged), until an ENABLE mends it.     *)
(* port is the controller: output buffer, latched edge of IRQ1, command     *)
(* byte, and the number of command-byte updates that still work.            *)
EXTENDS InputCore

CONSTANTS
  OutMax,              \* bound: bytes in the keyboard's own buffer
  FuseMax              \* bound: command-byte updates that a boot may need

ASSUME HardwareAssumption == OutMax \in Nat \ {0} /\ FuseMax \in Nat

(* The bytes the model tells apart.  AA is both the break code of the left  *)
(* shift key and the answer of a keyboard that was reset.                   *)
ACK == "FA"
NAK == "FE"
BAT == "AA"
PREFIX == "E0"
Bytes ==
  {ACK, NAK, BAT, PREFIX, "ctrl+", "ctrl-", "shift+", "text+", "text-"}

Keyboard == {CTRL, SHIFT, TEXT}
MakeCode(key) ==
  CASE key = CTRL -> <<"ctrl+">>
    [] key = SHIFT -> <<"shift+">>
    [] OTHER -> <<PREFIX, "text+">>
BreakCode(key) ==
  CASE key = CTRL -> <<"ctrl-">>
    [] key = SHIFT -> <<BAT>>
    [] OTHER -> <<PREFIX, "text-">>

(* build_command for NEGOTIATE; SET stands for the LED and typematic bytes  *)
Script == <<"DISABLE", "SET", "ENABLE">>
RESEND == "RESEND"

(* An input buffer that is slow to empty. *)
STALL == "STALL"
Stall(h) == [h EXCEPT !.kbd.todo = STALL]

KeyboardInit ==
  [down |-> {}, out |-> <<>>, scanning |-> TRUE, todo |-> None,
   last |-> None, torn |-> None]

PortInit(fuse) ==
  [obf |-> <<>>, irr |-> FALSE, cb |-> "firmware", fuse |-> fuse]

-----------------------------------------------------------------------------
(* The keyboard's own steps; this is hardware. *)
CanType(h, key) ==
  h.kbd.scanning /\ key \in Keyboard /\ Len(h.kbd.out) + 2 <= OutMax

Press(h, key) ==
  [h EXCEPT !.kbd.down = @ \cup {key}, !.kbd.out = @ \o MakeCode(key)]

Release(h, key) ==
  [h EXCEPT !.kbd.down = @ \ {key}, !.kbd.out = @ \o BreakCode(key)]

(* The AA of a reset says nothing to a host that was sent the make code of  *)
(* the left shift and not its break, which is AA as well, or that waits for *)
(* the second byte of an extended code.                                     *)
Ambiguous(k) ==
  \/ SHIFT \in k.down \/ k.last = PREFIX
  \/ \E i \in DOMAIN k.out : k.out[i] = BAT

Reset(h) ==
  [h EXCEPT !.kbd = [KeyboardInit EXCEPT
     !.out = <<BAT>>, !.last = h.kbd.last,
     !.torn = IF Ambiguous(h.kbd) THEN "ambiguous" ELSE "reset"]]

(* ENABLE mends the stream if the driver waits for it, no key is down, and  *)
(* no reset is on its way to the driver.                                    *)
Resumes(h) ==
  /\ h.kb.command.phase = "WAIT_ACK" /\ h.kb.command.index + 1 = Len(Script)
  /\ h.kbd.down = {}
  /\ \A i \in DOMAIN (h.raw \o h.port.obf) :
       (h.raw \o h.port.obf)[i].data # BAT
  /\ \A i \in DOMAIN h.kbd.out : h.kbd.out[i] # BAT

(* The keyboard takes the command out of the input buffer and answers it. *)
Execute(h) ==
  LET k == [h.kbd EXCEPT !.todo = None]
  IN CASE h.kbd.todo = RESEND ->
            [h EXCEPT !.kbd = IF h.kbd.last = None THEN k
                              ELSE [k EXCEPT !.out = <<h.kbd.last>> \o @]]
       [] h.kbd.todo = "DISABLE" ->
            [h EXCEPT !.kbd = [k EXCEPT !.out = <<ACK>>, !.scanning = FALSE,
                                        !.torn = "disabled"]]
       [] h.kbd.todo = "ENABLE" ->
            [h EXCEPT !.kbd = [k EXCEPT !.out = Append(@, ACK),
                                        !.scanning = TRUE,
                                        !.torn = IF Resumes(h) THEN None
                                                 ELSE @]]
       [] h.kbd.todo = STALL -> [h EXCEPT !.kbd = k]
       [] OTHER -> [h EXCEPT !.kbd = [k EXCEPT !.out = Append(@, ACK)]]

Refuse(h) ==
  [h EXCEPT !.kbd.todo = None, !.kbd.out = Append(@, NAK)]

(* One byte reaches the output buffer; the interrupt is an edge. *)
CanSend(h) ==
  h.kbd.out # <<>> /\ h.port.obf = <<>> /\ h.port.cb # "staged"

Clean == "clean"
Damages == {"parity", "timeout"}

Send(h, flag) ==
  LET byte == Head(h.kbd.out)
  IN [h EXCEPT !.kbd.out = Tail(@), !.kbd.last = byte,
               !.kbd.torn = IF flag = Clean THEN @ ELSE "damaged",
               !.port.obf = <<[data |-> byte, flag |-> flag]>>,
               !.port.irr = TRUE]

-----------------------------------------------------------------------------
(* wait_input_empty and wait_controller_output: the controller answers      *)
(* within the poll limit                                                    *)
Responds(h) == h.port.fuse > 0

(* drain_output *)
DrainOutput(h) == [h EXCEPT !.port.obf = <<>>]

(* read_stable_command_byte: the answer comes through the output buffer *)
ReadCommandByte(h) == [DrainOutput(h) EXCEPT !.port.fuse = @ - 1]

(* write_and_verify_command_byte: a write that fails, or reads back         *)
(* otherwise, leaves the byte unknown                                       *)
WriteCommandByte(h, value) ==
  IF Responds(h)
  THEN Result(ReadCommandByte([h EXCEPT !.port.cb = value]), "OK")
  ELSE Result([h EXCEPT !.port.cb = "unsure", !.ctl = "POISONED"], "POISONED")

(* x86_native_i8042_prepare: drain, read the firmware's byte, write the     *)
(* staged one.  Before the write nothing has changed.                       *)
Owns(phase, w) == IF w.st = "OK" THEN [w EXCEPT !.h.ctl = phase] ELSE w

ControlPrepare(h) ==
  IF ~ Responds(h) THEN Result(DrainOutput(h), "UNAVAILABLE")
  ELSE Owns("PREPARED",
            WriteCommandByte(ReadCommandByte(DrainOutput(h)), "staged"))

(* x86_native_i8042_publish *)
ControlPublish(h) ==
  IF h.ctl # "PREPARED" THEN Result(h, "INVALID_STATE")
  ELSE Owns("ACTIVE", WriteCommandByte(h, "active"))

(* x86_native_i8042_quiesce *)
ControlQuiesce(h) ==
  IF h.ctl # "ACTIVE" THEN Result(h, "INVALID_STATE")
  ELSE Owns("QUIESCED", WriteCommandByte(DrainOutput(h), "staged"))

(* restore_firmware_command_byte, for _retire (from QUIESCED) and _abort    *)
(* (from PREPARED)                                                          *)
ControlRestore(h, from) ==
  IF h.ctl # from THEN Result(h, "INVALID_STATE")
  ELSE Owns("EMPTY", WriteCommandByte(h, "firmware"))

(* native_write_byte: the input buffer is polled before the one write, so   *)
(* RETRY means that nothing was written                                     *)
WriteByte(h, byte) ==
  CASE h.nat # "ACTIVE" -> Result(h, "UNAVAILABLE")
    [] h.kbd.todo # None -> Result(h, "RETRY")
    [] OTHER -> Result([h EXCEPT !.kbd.todo = byte], "OK")
=============================================================================
