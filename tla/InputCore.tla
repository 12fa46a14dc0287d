------------------------------ MODULE InputCore ------------------------------
(* The input core between one keyboard device and the two consumers: which  *)
(* consumer has the focus, and the queue of decoded events that the focused *)
(* one could not take (kernel/input/core).  The device keeps a non-empty    *)
(* queue in order: no event overtakes it.                                   *)
EXTENDS GuestKeyboard

(* handed is what consumers took in the present step, for the properties. *)
CoreInit ==
  [phase |-> "PREPARED", focus |-> None, generation |-> 0,
   handlers |-> [c \in Handlers |-> "EMPTY"], device |-> FALSE,
   queue |-> <<>>]

Event(h, key, value) ==
  [key |-> key, value |-> value, to |-> h.core.focus,
   generation |-> h.core.generation]

CoreUsable(h) == h.core.phase \in {"PREPARED", "ACTIVE", "QUIESCED"}

(* input_core_publish, _quiesce, _retire, _poison *)
CorePublish(h) == [h EXCEPT !.core.phase = "ACTIVE"]

CoreQuiesce(h) ==
  IF h.core.phase # "ACTIVE" THEN Result(h, "INVALID_STATE")
  ELSE Result([h EXCEPT !.core.phase = "QUIESCED"], "OK")

CoreRetire(h) ==
  IF \/ h.core.phase # "QUIESCED" \/ h.core.focus # None \/ h.core.device
     \/ \E c \in Handlers : h.core.handlers[c] # "EMPTY"
  THEN Result(h, "INVALID_STATE")
  ELSE Result([h EXCEPT !.core.phase = "RETIRED"], "OK")

CorePoison(h) ==
  IF CoreUsable(h) THEN [h EXCEPT !.core.phase = "POISONED"] ELSE h

(* input_device_register: an endpoint's event queue starts empty *)
DeviceRegister(h) ==
  IF h.core.phase \notin {"PREPARED", "QUIESCED"}
  THEN Result(h, "INVALID_STATE")
  ELSE Result([h EXCEPT !.core.device = TRUE, !.core.queue = <<>>], "OK")

(* input_device_quiesce and _unregister, behind input_device_can_detach *)
DeviceUnregister(h) ==
  IF h.core.phase \notin {"PREPARED", "QUIESCED"} \/ h.core.queue # <<>>
  THEN Result(h, "BUSY")
  ELSE Result([h EXCEPT !.core.device = FALSE], "OK")

(* input_handler_register *)
HandlerRegister(h, c) == [h EXCEPT !.core.handlers[c] = "ACTIVE"]

(* input_handler_quiesce and _unregister *)
HandlerUnregister(h, c) ==
  CASE h.core.phase \notin {"PREPARED", "QUIESCED"} ->
         Result(h, "INVALID_STATE")
    [] h.core.focus = c -> Result(h, "BUSY")
    [] OTHER -> Result([h EXCEPT !.core.handlers[c] = "EMPTY"], "OK")

-----------------------------------------------------------------------------
(* The callbacks of the two consumers. *)
Enter(h, c, generation) ==
  IF c = "console" THEN ConsoleEnter(h, generation)
  ELSE GuestEnter(h, generation)

Leave(h, c, generation) ==
  CASE c = "console" -> ConsoleLeave(h, generation)
    [] c = "guest" -> GuestLeave(h, generation)
    [] OTHER -> h

Recorded(r, c, event) ==
  IF r.st # "HANDLED" THEN r
  ELSE [r EXCEPT !.h.handed = Append(@, [to |-> c, key |-> event.key,
                                         up |-> event.value = "RELEASED"])]

Receive(h, c, event) ==
  Recorded(IF c = "console" THEN ConsoleReceive(h, event)
           ELSE GuestReceive(h, event), c, event)

(* publish_focus: the new consumer accepts, then the focus moves, then the  *)
(* old consumer lets go                                                     *)
FocusSwapped(h, c) ==
  [h EXCEPT !.core.focus = c, !.core.generation = @ + 1]

FocusEntered(r, c) ==
  CASE r.st = "REJECTED" -> Result(r.h, "ACCESS_DENIED")
    [] r.st = "BROKEN" ->
         Result([r.h EXCEPT !.core.handlers[c] = "POISONED"], "HANDLER_FAULT")
    [] OTHER -> Result(Leave(FocusSwapped(r.h, c), r.h.core.focus,
                             r.h.core.generation), "OK")

PublishFocus(h, c) ==
  IF h.core.focus = c THEN Result(h, "OK")
  ELSE FocusEntered(Enter(h, c, h.core.generation + 1), c)

(* input_focus_set *)
FocusSet(h, c) ==
  CASE ~ CoreUsable(h) -> Result(h, "INVALID_STATE")
    [] h.core.handlers[c] = "POISONED" -> Result(h, "POISONED")
    [] h.core.handlers[c] = "EMPTY" -> Result(h, "STALE_BINDING")
    [] OTHER -> PublishFocus(h, c)

(* input_focus_clear *)
FocusClear(h, c) ==
  CASE ~ CoreUsable(h) -> Result(h, "INVALID_STATE")
    [] h.core.focus = None -> Result(h, "NOT_FOUND")
    [] h.core.focus # c -> Result(h, "IDENTITY_MISMATCH")
    [] OTHER ->
         Result(Leave([h EXCEPT !.core.focus = None, !.core.generation = @ + 1],
                      c, h.core.generation), "OK")

-----------------------------------------------------------------------------
(* Fault: the queue has no end. *)
EnqueueUnbounded(h, event) ==
  Result([h EXCEPT !.core.queue = Append(@, event)], "DEFERRED")

(* enqueue_event *)
Enqueue(h, event) ==
  IF Len(h.core.queue) = DecodedCap THEN Result(h, "CAPACITY_EXHAUSTED")
  ELSE Result([h EXCEPT !.core.queue = Append(@, event)], "DEFERRED")

(* account_handler_result: a consumer that breaks keeps the focus *)
Accounted(r, event, fromQueue) ==
  CASE r.st = "HANDLED" -> Result(r.h, "OK")
    [] r.st = "DEFER" /\ fromQueue -> Result(r.h, "RETRY")
    [] r.st = "DEFER" -> Enqueue(r.h, event)
    [] OTHER -> Result([r.h EXCEPT !.core.handlers[event.to] = "POISONED"],
                       "HANDLER_FAULT")

(* input_submit *)
Submit(h, key, value) ==
  LET event == Event(h, key, value)
      c == h.core.focus
  IN CASE h.core.phase # "ACTIVE" -> Result(h, "INVALID_STATE")
       [] c = None -> Result(h, "UNAVAILABLE")
       [] h.core.handlers[c] # "ACTIVE" -> Result(h, "ACCESS_DENIED")
       [] h.core.queue # <<>> -> Enqueue(h, event)
       [] OTHER -> Accounted(Receive(h, c, event), event, FALSE)

(* queued_event_is_current *)
Current(h, event) ==
  /\ h.core.focus # None
  /\ h.core.handlers[h.core.focus] = "ACTIVE"
  /\ event.to = h.core.focus /\ event.generation = h.core.generation

(* input_device_pump: done counts the events that were handed over; stale   *)
(* heads are dropped on the way and cost no budget                          *)
Dequeued(h) == [h EXCEPT !.core.queue = Tail(@)]

HandedOver(p, r) ==
  IF r.st = "RETRY" THEN [p EXCEPT !.h = r.h, !.st = "RETRY"]
  ELSE [h |-> Dequeued(r.h), st |-> IF r.st = "OK" THEN "GO" ELSE r.st,
        done |-> p.done + 1]

DeviceStep(p, event) ==
  IF ~ Current(p.h, event) THEN [p EXCEPT !.h = Dequeued(@)]
  ELSE HandedOver(p, Accounted(Receive(p.h, p.h.core.focus, event), event,
                               TRUE))

(* A pump that stopped by itself says whether it did anything. *)
PumpStatus(p) ==
  [p EXCEPT !.st = CASE p.st # "GO" -> @
                     [] p.done = 0 -> "EMPTY"
                     [] OTHER -> "OK"]

RECURSIVE DeviceRun(_, _)
DeviceRun(p, budget) ==
  IF p.st # "GO" \/ p.done = budget \/ p.h.core.queue = <<>> THEN p
  ELSE DeviceRun(DeviceStep(p, Head(p.h.core.queue)), budget)

DevicePump(h, budget) ==
  IF h.core.phase # "ACTIVE"
  THEN [h |-> h, st |-> "INVALID_STATE", done |-> 0]
  ELSE PumpStatus(DeviceRun([h |-> h, st |-> "GO", done |-> 0], budget))

-----------------------------------------------------------------------------
(* What the two consumers ask of the core. *)

(* keyboard_console_focus *)
ConsoleFocus(h) ==
  CASE h.con.phase = "POISONED" -> Result(h, "POISONED")
    [] h.con.phase = "FOCUSED" -> Result(h, "OK")
    [] h.con.phase # "REGISTERED" -> Result(h, "INVALID_ARGUMENT")
    [] OTHER -> FocusSet(h, "console")

(* keyboard_console_unfocus *)
ConsoleUnfocus(h) ==
  IF \/ h.con.phase = "FOCUSED"
     \/ h.con.phase = "POISONED" /\ h.con.generation # 0
  THEN FocusClear(h, "console")
  ELSE Result(h, "INVALID_STATE")

(* keyboard_console_unregister *)
ConsoleGone(r) ==
  IF r.st = "OK" THEN [r EXCEPT !.h.con = ConsoleInit] ELSE r

ConsoleUnregister(h) ==
  IF \/ h.con.phase \notin {"REGISTERED", "POISONED"}
     \/ h.con.generation # 0
  THEN Result(h, "INVALID_STATE")
  ELSE ConsoleGone(HandlerUnregister(h, "console"))

(* input_status of guest_ps2/lifecycle.c: a consumer that declines the      *)
(* focus is busy                                                            *)
GuestStatus(st) ==
  CASE st \in {"BUSY", "RETRY", "DEFERRED", "ACCESS_DENIED", "UNAVAILABLE"} ->
         "BUSY"
    [] st \in {"POISONED", "HANDLER_FAULT"} -> "POISONED"
    [] OTHER -> st

(* guest_ps2_keyboard_focus: the core agreed, and so must the port *)
GuestIs(phase, r) ==
  Result(r.h, CASE r.st # "OK" -> GuestStatus(r.st)
                [] r.h.gst.phase = phase -> "OK"
                [] OTHER -> "POISONED")

GuestFocus(h) ==
  CASE h.gst.phase = "POISONED" -> Result(h, "POISONED")
    [] h.gst.phase # "REGISTERED" \/ h.gst.bound -> Result(h, "INVALID_STATE")
    [] OTHER -> GuestIs("FOCUSED", FocusSet(h, "guest"))

(* guest_ps2_keyboard_unfocus *)
GuestUnfocus(h) ==
  CASE h.gst.phase = "POISONED" -> Result(h, "POISONED")
    [] h.gst.phase # "FOCUSED" \/ ~ h.gst.bound -> Result(h, "INVALID_STATE")
    [] OTHER -> GuestIs("REGISTERED", FocusClear(h, "guest"))

(* guest_ps2_keyboard_quiesce and _unregister *)
GuestGone(r) ==
  IF r.st = "OK" THEN [r EXCEPT !.h.gst.phase = "RETIRED"]
  ELSE Result(r.h, GuestStatus(r.st))

GuestUnregister(h) ==
  IF h.gst.phase # "REGISTERED" \/ h.gst.bound THEN Result(h, "INVALID_STATE")
  ELSE GuestGone(HandlerUnregister(h, "guest"))
=============================================================================
