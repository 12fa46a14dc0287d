----------------------------- MODULE InputRuntime -----------------------------
(* The owner of the whole input path: it takes the controller, the driver,  *)
(* the consumers and the interrupt line one by one, gives them back when a  *)
(* step fails and nothing was said to the keyboard yet, and otherwise       *)
(* closes the path for good (x86_vm/platform/legacy_input_runtime.c).       *)
(*                                                                          *)
(* rt: acquired is what it has taken, committed says that the keyboard was  *)
(* written to, held that a byte was left in the controller for want of room *)
(* (source_backpressure_pending), poisoned that an interrupt found it       *)
(* broken.                                                                  *)
EXTENDS NativeKeyboard

Acquisitions ==
  {"REGISTRY", "CORE", "CONTROL", "DRIVER", "CONSOLE", "GUEST", "PREPARED",
   "NATIVE", "CORE_PUBLISHED", "CONTROL_PUBLISHED", "FOCUSED", "DEFAULT",
   "ACTION"}

Runtime ==
  [phase : {"EMPTY", "PREPARED", "PUBLISHING", "ACTIVE", "RETIRED",
            "POISONED"},
   focus : Handlers \cup {None}, acquired : SUBSET Acquisitions,
   held : BOOLEAN, committed : BOOLEAN, poisoned : BOOLEAN]

(* x86_legacy_input_runtime_construct *)
RuntimeInit ==
  [phase |-> "EMPTY", focus |-> None, acquired |-> {}, held |-> FALSE,
   committed |-> FALSE, poisoned |-> FALSE]

Acquire(h, what) == [h EXCEPT !.rt.acquired = @ \cup {what}]
Has(h, what) == what \in h.rt.acquired

(* runtime_status *)
RuntimeStatus(h) ==
  CASE h.rt.phase \in {"EMPTY", "RETIRED"} -> "INVALID_STATE"
    [] h.rt.phase = "POISONED" \/ h.rt.poisoned -> "POISONED"
    [] OTHER -> "OK"

(* map_input, map_serio, map_atkbd, map_guest *)
MapInput(st) ==
  CASE st \in {"OK", "EMPTY"} -> "OK"
    [] st \in {"RETRY", "DEFERRED"} -> "RETRY"
    [] st \in {"POISONED", "HANDLER_FAULT"} -> "POISONED"
    [] st \in {"BUSY", "UNAVAILABLE", "CAPACITY_EXHAUSTED",
               "IDENTITY_MISMATCH", "INVALID_ARGUMENT"} -> st
    [] st = "STALE_BINDING" -> "STALE_REFERENCE"
    [] OTHER -> "INVALID_STATE"

MapSerio(st) ==
  CASE st \in {"OK", "EMPTY"} -> "OK"
    [] st \in {"RETRY", "POISONED", "UNAVAILABLE"} -> st
    [] OTHER -> "INVALID_STATE"

MapAtkbd(st) ==
  CASE st \in {"OK", "EMPTY", "WAITING"} -> "OK"
    [] st \in {"RETRY", "UNAVAILABLE", "BUSY", "POISONED"} -> st
    [] st = "PROTOCOL_ERROR" -> "NEGOTIATION_FAILED"
    [] OTHER -> "INVALID_STATE"

MapGuest(st) ==
  CASE st \in {"OK", "RETRY", "BUSY", "POISONED", "STALE_REFERENCE"} -> st
    [] OTHER -> "INVALID_STATE"

-----------------------------------------------------------------------------
(* One step of giving things back: what is not held needs nothing, a step   *)
(* that fails leaves it held and the rollback incomplete.                   *)
Undo(r, what, did, gives) ==
  CASE ~ Has(r.h, what) -> r
    [] did.st = "OK" ->
         Result([did.h EXCEPT !.rt.acquired = @ \ gives], r.st)
    [] OTHER -> Result(did.h, "INCOMPLETE")

(* retire_prepared_core, and the QUIESCED branch of rollback_precommit *)
RetireCore(h) ==
  CASE h.core.phase = "PREPARED" -> Then(CoreQuiesce(CorePublish(h)),
                                         CoreRetire)
    [] h.core.phase = "QUIESCED" -> CoreRetire(h)
    [] OTHER -> Result(h, "INVALID_STATE")

(* x86_legacy_irq_action_quiesce, then _unregister *)
ReleaseAction(h) == Then(ActionQuiesce(h), ActionUnregister)

(* x86_native_i8042_quiesce, then _retire *)
RetireControl(h) ==
  LET Retire(g) == ControlRestore(g, "QUIESCED")
  IN Then(ControlQuiesce(h), Retire)

LoseFocus(r) ==
  IF r.st = "OK" THEN [r EXCEPT !.h.rt.focus = None] ELSE r

(* rollback_precommit: every step is tried, whatever became of the others;  *)
(* only the port outlives an incomplete rollback                            *)
UndoDefault(r) == Undo(r, "DEFAULT", DefaultUnbind(r.h), {"DEFAULT"})
UndoFocus(r) ==
  Undo(r, "FOCUSED", LoseFocus(ConsoleUnfocus(r.h)), {"FOCUSED"})
UndoAction(r) == Undo(r, "ACTION", ReleaseAction(r.h), {"ACTION"})
UndoControl(r) ==
  Undo(r, "CONTROL_PUBLISHED", RetireControl(r.h),
       {"CONTROL_PUBLISHED", "CONTROL"})
UndoCore(r) ==
  Undo(r, "CORE_PUBLISHED", CoreQuiesce(r.h), {"CORE_PUBLISHED"})
UndoNative(r) == Undo(r, "NATIVE", NativeQuiesce(r.h), {"NATIVE"})
UndoPort(r) ==
  IF r.st # "OK" THEN r
  ELSE Undo(r, "PREPARED", NativeRetire(r.h), {"PREPARED"})
UndoConsole(r) ==
  Undo(r, "CONSOLE", ConsoleUnregister(r.h), {"CONSOLE"})
UndoConsumers(r) ==
  UndoConsole(Undo(r, "GUEST", GuestUnregister(r.h), {"GUEST"}))
UndoDriver(r) == Undo(r, "DRIVER", DriverUnregister(r.h), {"DRIVER"})
AbortControl(r) ==
  Undo(r, "CONTROL", ControlRestore(r.h, "PREPARED"), {"CONTROL"})
RetireAll(r) == Undo(r, "CORE", RetireCore(r.h), {"CORE"})

(* Fault: the command byte of the firmware is not put back. *)
RollbackForgetting(h) ==
  LET Forget(r) == IF Has(r.h, "CONTROL_PUBLISHED")
                   THEN [r EXCEPT !.h.rt.acquired =
                           @ \ {"CONTROL_PUBLISHED", "CONTROL"}]
                   ELSE r
      off == Forget(UndoAction(UndoFocus(UndoDefault(Result(h, "OK")))))
  IN IF h.rt.committed THEN Result(h, "INCOMPLETE")
     ELSE RetireAll(AbortControl(UndoDriver(UndoConsumers(
            UndoPort(UndoNative(UndoCore(off)))))))

RollbackPrecommit(h) ==
  LET off == UndoControl(UndoAction(UndoFocus(UndoDefault(Result(h, "OK")))))
  IN IF h.rt.committed THEN Result(h, "INCOMPLETE")
     ELSE RetireAll(AbortControl(UndoDriver(UndoConsumers(
            UndoPort(UndoNative(UndoCore(off)))))))

(* quarantine_runtime: what can be closed is closed, nothing is given back. *)
(* The action of IRQ1 stays while the dispatcher is published.              *)
Close(h, what, r) ==
  CASE ~ Has(h, what) -> h
    [] r.st = "OK" -> [r.h EXCEPT !.rt.acquired = @ \ {what}]
    [] OTHER -> r.h

CloseSources(h) == Close(h, "CONTROL_PUBLISHED", ControlQuiesce(h))

CloseFocus(h) ==
  CASE h.rt.focus = "console" ->
         Close(h, "FOCUSED", LoseFocus(ConsoleUnfocus(h)))
    [] h.rt.focus = "guest" -> LoseFocus(GuestUnfocus(h)).h
    [] OTHER -> h

CloseNative(h) == Close(h, "NATIVE", NativeQuiesce(h))

CoreClosed(h, r) ==
  IF r.st # "OK" THEN h
  ELSE CloseNative(Close(h, "CORE_PUBLISHED", r))

CloseCore(h) ==
  IF Has(h, "CORE_PUBLISHED") THEN CoreClosed(h, CoreQuiesce(h)) ELSE h

Poisoned(h) ==
  [(IF Has(h, "CORE") THEN CorePoison(h) ELSE h) EXCEPT
     !.rt.held = FALSE, !.rt.poisoned = TRUE, !.rt.phase = "POISONED"]

CloseDefault(h) == Close(h, "DEFAULT", DefaultUnbind(h))
CloseAction(h) == Close(h, "ACTION", ReleaseAction(h))

Quarantine(h) ==
  Poisoned(CloseCore(CloseFocus(CloseDefault(CloseSources(CloseAction(h))))))

(* prepare_failed *)
Prepared(r) ==
  IF r.st = "OK" THEN [r.h EXCEPT !.rt.phase = "RETIRED"]
  ELSE [r.h EXCEPT !.rt.poisoned = TRUE, !.rt.phase = "POISONED"]
PrepareFailed(h) == Prepared(RollbackPrecommit(h))

(* publish_failed *)
Retired(r) ==
  IF r.st = "OK" THEN [r.h EXCEPT !.rt.phase = "RETIRED"]
  ELSE Quarantine(r.h)
PublishFailed(h) == Retired(RollbackPrecommit(h))

-----------------------------------------------------------------------------
(* initialize_registry_and_core *)
InitializeCore(h) ==
  [h EXCEPT !.core = CoreInit, !.rt.acquired = {"REGISTRY", "CORE"}]

(* prepare_controller_control: a controller that is left in doubt is owned  *)
ControlTaken(r) ==
  IF r.st = "UNAVAILABLE" THEN r ELSE Result(Acquire(r.h, "CONTROL"), r.st)
PrepareControl(h) == ControlTaken(ControlPrepare(h))

(* register_consumers_and_driver *)
RegisterConsole(h) ==
  Acquire(HandlerRegister(ConsoleRegister(h), "console"), "CONSOLE")
RegisterGuest(h) ==
  Acquire(HandlerRegister(GuestRegister(h), "guest"), "GUEST")
RegisterConsumers(h) ==
  RegisterGuest(RegisterConsole(Acquire(DriverRegister(h), "DRIVER")))

(* prepare_native_input *)
NativeTaken(r) ==
  IF r.st = "OK" THEN Result(Acquire(r.h, "NATIVE"), "OK") ELSE r
PrepareNative(h) ==
  NativeTaken(NativePublish(Acquire(RegisterConsumers(h), "PREPARED")))

(* x86_legacy_input_runtime_prepare *)
PreparedOrNot(r) ==
  IF r.st = "OK" THEN [r.h EXCEPT !.rt.phase = "PREPARED"]
  ELSE PrepareFailed(r.h)

RuntimePrepare(h) ==
  PreparedOrNot(Then(PrepareControl(InitializeCore(h)), PrepareNative))

(* x86_legacy_input_runtime_publish up to the first step of                 *)
(* negotiate_keyboard                                                       *)
OrFailed(r) == IF r.st = "OK" THEN r.h ELSE PublishFailed(r.h)

ControlPublished(r) ==
  IF r.st # "OK" THEN r
  ELSE Result(CommandBegin(Acquire(r.h, "CONTROL_PUBLISHED")), "OK")

PublishStart(h) ==
  OrFailed(ControlPublished(ControlPublish(
    Acquire(CorePublish([h EXCEPT !.rt.phase = "PUBLISHING"]),
            "CORE_PUBLISHED"))))

(* observe_protocol_write *)
ObserveWrite(r) == [r EXCEPT !.h.rt.committed = @ \/ r.h.kb.committed,
                             !.st = MapAtkbd(@)]

(* one turn of the loop of negotiate_keyboard *)
NegotiateWrite(w) == Result(w.h, IF w.st = "RETRY" THEN "OK" ELSE w.st)

NegotiateRead(c) ==
  CASE c.st \in {"OK", "EMPTY"} -> Result(c.h, "OK")
    [] c.st = "RETRY" -> Result(SerioPump(c.h, 1).h, "OK")
    [] OTHER -> c

NegotiateStep(h) ==
  OrFailed(CASE h.kb.command.phase = "READY" ->
                  NegotiateWrite(ObserveWrite(Process(h)))
             [] h.kb.command.phase = "WAIT_ACK" -> NegotiateRead(Capture(h))
             [] OTHER -> Result(h, "NEGOTIATION_FAILED"))

Negotiated(h) ==
  h.kb.command.phase = "COMPLETE" /\ h.kb.negotiated /\ h.kb.enabled

(* the rest of x86_legacy_input_runtime_publish *)
ConsoleFocused(r) ==
  IF r.st # "OK" THEN r
  ELSE Result(Acquire([r.h EXCEPT !.rt.focus = "console"], "FOCUSED"), "OK")

DefaultBound(r) ==
  IF r.st = "OK" THEN Result(Acquire(r.h, "DEFAULT"), "OK") ELSE r

ActionInstalled(h) ==
  Result(Acquire([ActionRegister(h) EXCEPT !.rt.phase = "ACTIVE"], "ACTION"),
         "OK")

PublishFinish(h) ==
  OrFailed(Then(DefaultBound(Then(ConsoleFocused(ConsoleFocus(h)),
                                  DefaultBind)), ActionInstalled))

-----------------------------------------------------------------------------
(* Fault: a byte that stays in the controller is not remembered. *)
IrqAnswerForgetting(r) ==
  CASE r.st \in {"OK", "RETRY", "SOURCE_BACKPRESSURE"} ->
         Result(r.h, "HANDLED")
    [] r.st \in {"EMPTY", "UNAVAILABLE"} -> Result(r.h, "UNHANDLED")
    [] OTHER -> Result([r.h EXCEPT !.rt.poisoned = TRUE], "FAULT")

(* keyboard_irq_action *)
IrqAnswer(r) ==
  CASE r.st \in {"OK", "RETRY"} -> Result(r.h, "HANDLED")
    [] r.st = "SOURCE_BACKPRESSURE" ->
         Result([r.h EXCEPT !.rt.held = TRUE], "HANDLED")
    [] r.st \in {"EMPTY", "UNAVAILABLE"} -> Result(r.h, "UNHANDLED")
    [] OTHER -> Result([r.h EXCEPT !.rt.poisoned = TRUE], "FAULT")

KeyboardIrqAction(h) ==
  IF h.rt.phase # "ACTIVE" \/ h.rt.poisoned THEN Result(h, "FAULT")
  ELSE IrqAnswer(Capture(h))

(* A call that must close the path says QUARANTINE. *)
Quarantined(r) ==
  IF r.st = "QUARANTINE" THEN Result(Quarantine(r.h), "POISONED") ELSE r

(* The guards of both focus calls: a poisoned runtime is closed. *)
FocusCall(h, Op(_)) ==
  CASE RuntimeStatus(h) # "OK" ->
         Result(h, IF h.rt.phase = "ACTIVE" THEN "QUARANTINE"
                   ELSE RuntimeStatus(h))
    [] h.rt.phase # "ACTIVE" \/ h.rt.focus = None ->
         Result(h, "INVALID_STATE")
    [] OTHER -> Op(h)

(* restore_console_focus, for a console that the program could not replace; *)
(* what failed first is what the caller hears of                            *)
Unrestored(r) ==
  IF r.st = "OK" THEN Result(r.h, "FAILED") ELSE Result(r.h, "QUARANTINE")

DefaultRestored(r) ==
  IF r.st = "OK" THEN DefaultBound(ConsoleFocused(r))
  ELSE Unrestored(ConsoleUnfocus(r.h))

RestoreConsoleFocus(h) ==
  LET Bind(g) == DefaultRestored(DefaultBind(g))
  IN Then(ConsoleFocus(h), Bind)

(* x86_legacy_input_runtime_focus_console: the program's keyboard has let   *)
(* go before the console is bound, and takes the focus back otherwise       *)
GuestKept(st, r) ==
  IF r.st = "OK"
  THEN Result([r.h EXCEPT !.rt.focus = "guest",
                          !.rt.acquired = @ \ {"FOCUSED"}], MapInput(st))
  ELSE Result(r.h, "QUARANTINE")

ConsoleBound(r) ==
  IF r.st = "OK" THEN DefaultBound(r) ELSE GuestKept(r.st, GuestFocus(r.h))

GuestLeft(r) ==
  CASE r.st # "OK" -> Result(r.h, MapInput(r.st))
    [] r.h.gst.phase # "REGISTERED" \/ r.h.gst.bound ->
         Result(r.h, "QUARANTINE")
    [] OTHER -> ConsoleBound(DefaultBind(ConsoleFocused(r).h))

TakeConsole(h) ==
  CASE h.rt.focus = "guest" -> GuestLeft(ConsoleFocus(h))
    [] DefaultConsole(h) -> Result(h, "OK")
    [] OTHER -> Result(h, "QUARANTINE")

RuntimeFocusConsole(h) == Quarantined(FocusCall(h, TakeConsole))

(* x86_legacy_input_runtime_focus_guest *)
ConsoleKept(st, r) ==
  CASE r.st = "OK" -> Result(r.h, MapInput(st))
    [] OTHER -> Result(r.h, "QUARANTINE")

DefaultReleased(r) ==
  IF r.st = "OK"
  THEN Result([r.h EXCEPT !.rt.acquired = @ \ {"DEFAULT"}], "OK")
  ELSE ConsoleKept(r.st, RestoreConsoleFocus(r.h))

GuestTaken(r) ==
  IF r.st # "OK" THEN Result(r.h, MapGuest(r.st))
  ELSE DefaultReleased(DefaultUnbind(
         [r.h EXCEPT !.rt.focus = "guest", !.rt.acquired = @ \ {"FOCUSED"}]))

TakeGuest(h) ==
  CASE h.rt.focus = "guest" -> Result(h, "OK")
    [] ~ Has(h, "DEFAULT") -> Result(h, "INVALID_STATE")
    [] OTHER -> GuestTaken(GuestFocus(h))

RuntimeFocusGuest(h) == Quarantined(FocusCall(h, TakeGuest))

-----------------------------------------------------------------------------
(* The pump runs its stages in turn on a budget; p.st is GO until one of    *)
(* them ends it.                                                            *)

(* account_pump_status: RETRY and BUSY leave the path open *)
Ends(h, st, left) ==
  [h |-> h, left |-> left,
   st |-> CASE st = "OK" -> "GO"
            [] st \in {"RETRY", "BUSY"} -> st
            [] OTHER -> "QUARANTINE"]

(* pump_decoded and keyboard_console_pump *)
DecodedPumped(p, r) == Ends(r.h, MapInput(r.st), p.left - r.done)
PumpDecoded(p) ==
  CASE p.st # "GO" \/ p.left = 0 \/ p.h.core.queue = <<>> -> p
    [] p.h.rt.focus = "console" /\ p.h.con.phase = "POISONED" ->
         Ends(p.h, "POISONED", p.left)
    [] OTHER -> DecodedPumped(p, DevicePump(p.h, p.left))

SerioPumped(p, r) == Ends(r.h, MapSerio(r.st), p.left - r.done)
PumpSerio(p) ==
  IF p.st # "GO" \/ p.left = 0 \/ p.h.raw = <<>> THEN p
  ELSE SerioPumped(p, SerioPump(p.h, p.left))

(* pump_protocol_maintenance *)
Renegotiate(h) ==
  IF /\ ~ h.kb.negotiated /\ ~ h.kb.reconnect /\ ~ h.kb.resend
     /\ h.kb.command.phase \in {"IDLE", "COMPLETE"}
  THEN CommandBegin(h) ELSE h

Maintained(p, r) ==
  Ends(ObserveWrite(r).h, MapAtkbd(r.st),
       IF r.st \in {"OK", "WAITING"} THEN p.left - 1 ELSE p.left)

Maintain(p, kb) ==
  CASE kb.command.phase = "FAILED" /\ ~ kb.reconnect ->
         Ends(p.h, "NEGOTIATION_FAILED", p.left)
    [] ~ kb.reconnect /\ ~ kb.resend /\ kb.command.phase # "READY" -> p
    [] OTHER -> Maintained(p, Process(p.h))

PumpMaintenance(p) ==
  IF p.st # "GO" \/ p.left = 0 THEN p
  ELSE LET q == [p EXCEPT !.h = Renegotiate(@)] IN Maintain(q, q.h.kb)

(* the guest's other devices may use up what is left of the budget *)
GuestPumped(p, r) == Ends(r.h, MapGuest(r.st), p.left)

PumpGuest(p, busy) ==
  IF p.st # "GO" \/ p.left = 0 \/ p.h.rt.focus # "guest" THEN p
  ELSE GuestPumped(p, GuestPump(p.h, busy))

(* capture_backpressured_source: one look at the controller; it stays held  *)
(* until a later look finds nothing                                         *)
SourceLooked(p, r) ==
  [h |-> IF r.st \in {"EMPTY", "UNAVAILABLE"}
         THEN [r.h EXCEPT !.rt.held = FALSE] ELSE r.h,
   left |-> p.left - 1,
   st |-> CASE r.st \in {"OK", "EMPTY", "UNAVAILABLE"} -> "GO"
            [] r.st \in {"RETRY", "SOURCE_BACKPRESSURE"} -> "RETRY"
            [] OTHER -> "QUARANTINE"]

PumpSource(p) ==
  IF p.st # "GO" \/ p.left = 0 \/ ~ p.h.rt.held THEN p
  ELSE SourceLooked(p, Capture(p.h))

PumpResult(p) ==
  Result(p.h, CASE p.st # "GO" -> p.st
                [] p.h.rt.held -> "RETRY"
                [] OTHER -> "OK")

PumpStages(h, budget, busy) ==
  PumpResult(PumpSource(PumpGuest(PumpMaintenance(PumpDecoded(PumpSerio(
    PumpDecoded([h |-> h, st |-> "GO", left |-> budget])))), busy)))

(* x86_legacy_input_runtime_pump *)
RuntimePump(h, budget, busy) ==
  LET Stages(g) == PumpStages(g, budget, busy)
  IN Quarantined(FocusCall(h, Stages))
=============================================================================
