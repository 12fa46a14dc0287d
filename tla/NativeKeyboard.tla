---------------------------- MODULE NativeKeyboard ----------------------------
(* From the controller's output buffer to the driver: the capture of one    *)
(* byte, the serio port that holds bytes the driver could not take, and the *)
(* native interrupt dispatcher with the action of IRQ1                      *)
(* (x86_vm/platform/native_input.c, input/serio/dispatch.c, x86_vm/irq,     *)
(* legacy_pic.c, x86_legacy_irq.c).                                         *)
(*                                                                          *)
(* nat is the phase of the native controller and of its one serio port, raw *)
(* the port's queue; irq is the dispatcher and the state of the keyboard's  *)
(* action.                                                                  *)
EXTENDS Atkbd

(* x86_legacy_irq_prepare *)
IrqPrepared == [phase |-> "PREPARED", action |-> "EMPTY"]

(* serio_port_receive_preflight, as x86_native_input_capture sees it: a     *)
(* full queue refuses the byte before it is read                            *)
Preflight(h) ==
  CASE h.nat # "ACTIVE" -> "INVALID_STATE"
    [] Len(h.raw) >= RawCap -> "SOURCE_BACKPRESSURE"
    [] OTHER -> "OK"

(* serio_interrupt: a byte never passes one that waits *)
ByteOffered(r, b) ==
  IF r.st = "DEFER" THEN Result([r.h EXCEPT !.raw = Append(@, b)], "RETRY")
  ELSE Result(r.h, "OK")

SerioInterrupt(h, b) ==
  CASE ~ h.kb.bound -> Result(h, "UNAVAILABLE")
    [] h.raw # <<>> -> Result([h EXCEPT !.raw = Append(@, b)], "RETRY")
    [] OTHER -> ByteOffered(Interrupt(h, b), b)

(* x86_native_input_capture *)
Capture(h) ==
  LET b == Head(h.port.obf)
      taken == [h EXCEPT !.port.obf = <<>>]
  IN CASE h.nat # "ACTIVE" -> Result(h, "INVALID_STATE")
       [] h.port.obf = <<>> -> Result(h, "EMPTY")
       [] Preflight(h) # "OK" -> Result(h, Preflight(h))
       [] OTHER -> SerioInterrupt(taken, b)

(* serio_port_pump *)
ByteTaken(p, r) ==
  IF r.st = "DEFER" THEN [p EXCEPT !.h = r.h, !.st = "RETRY"]
  ELSE [h |-> [r.h EXCEPT !.raw = Tail(@)], st |-> "GO", done |-> p.done + 1]

RECURSIVE SerioRun(_, _)
SerioRun(p, budget) ==
  IF p.st # "GO" \/ p.done = budget \/ p.h.raw = <<>> THEN p
  ELSE SerioRun(ByteTaken(p, Interrupt(p.h, Head(p.h.raw))), budget)

SerioPump(h, budget) ==
  CASE h.nat # "ACTIVE" -> [h |-> h, st |-> "INVALID_STATE", done |-> 0]
    [] ~ h.kb.bound -> [h |-> h, st |-> "RETRY", done |-> 0]
    [] OTHER -> PumpStatus(SerioRun([h |-> h, st |-> "GO", done |-> 0],
                                    budget))

(* x86_native_input_prepare and _publish: the port is published and the     *)
(* driver connects                                                          *)
NativePublish(h) ==
  ConnectPort([h EXCEPT !.nat = "ACTIVE", !.raw = <<>>])

(* x86_native_input_quiesce: the port lets the driver go *)
NativeQuiesce(h) ==
  IF h.nat # "ACTIVE" THEN Result(h, "INVALID_STATE")
  ELSE Result([DisconnectPort(h) EXCEPT !.nat = "QUIESCED"], "OK")

(* x86_native_input_retire *)
NativeRetire(h) ==
  CASE h.nat # "QUIESCED" -> Result(h, "INVALID_STATE")
    [] h.raw # <<>> -> Result(h, "RETRY")
    [] OTHER -> Result([h EXCEPT !.nat = "EMPTY"], "OK")

(* atkbd_driver_register *)
DriverRegister(h) == [h EXCEPT !.drv = TRUE]

(* atkbd_driver_unregister *)
DriverUnregister(h) ==
  IF h.kb.bound THEN Result(h, "BUSY")
  ELSE Result([h EXCEPT !.drv = FALSE], "OK")

-----------------------------------------------------------------------------
(* x86_native_irq_action_register, _quiesce, _unregister: a dispatcher that *)
(* is published keeps its actions                                           *)
ActionRegister(h) == [h EXCEPT !.irq.action = "ACCEPTING"]

ActionQuiesce(h) ==
  IF h.irq.phase = "ACTIVE" \/ h.irq.action # "ACCEPTING"
  THEN Result(h, "INVALID_STATE")
  ELSE Result([h EXCEPT !.irq.action = "QUIESCED"], "OK")

ActionUnregister(h) ==
  CASE h.irq.phase = "ACTIVE" -> Result(h, "INVALID_STATE")
    [] h.irq.action # "QUIESCED" -> Result(h, "BUSY")
    [] OTHER -> Result([h EXCEPT !.irq.action = "EMPTY"], "OK")

(* enabled_actions_complete; the timer has its action since prepare *)
EnabledActionsComplete(h) == h.irq.action # "EMPTY"

(* x86_native_irq_dispatch_publish and controller_resume open the masks *)
DispatchPublish(h) == [h EXCEPT !.irq.phase = "ACTIVE"]

(* x86_legacy_irq_publish *)
IrqPublish(h) ==
  IF h.irq.phase # "PREPARED" \/ ~ EnabledActionsComplete(h)
  THEN Result(h, "INVALID_STATE")
  ELSE Result(DispatchPublish(h), "OK")

(* dispatch_actions: the action runs if it accepts; answer is its result *)
DispatchActions(h, answer) ==
  CASE h.irq.action # "ACCEPTING" -> Result(h, "UNHANDLED")
    [] answer.st = "FAULT" -> Result(answer.h, "HANDLER_FAULT")
    [] OTHER -> answer

(* finish_dispatch: the EOI follows whatever the action said *)
FinishDispatch(r) == Result(r.h, IF r.st = "HANDLED" THEN "OK" ELSE r.st)

(* x86_native_irq_dispatch_vector; controller_begin finds a true interrupt  *)
(* on any line but 7 and 15                                                 *)
IrqDispatch(h, answer) ==
  IF h.irq.phase # "ACTIVE" THEN Result(h, "INVALID_STATE")
  ELSE FinishDispatch(DispatchActions(h, answer))
=============================================================================
