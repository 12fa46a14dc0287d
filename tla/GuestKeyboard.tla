---------------------------- MODULE GuestKeyboard ----------------------------
(* The other consumer: the virtual PS/2 keyboard of the running program,    *)
(* which turns an event into scan bytes of the guest's own controller       *)
(* (kernel/input/keyboard/guest_ps2).  Of that controller the model keeps   *)
(* how full it is, whether the program lets the keyboard scan, and whether  *)
(* it answers.                                                              *)
EXTENDS ConsoleKeyboard

CONSTANT GuestCap      \* bytes the guest controller holds
ASSUME GuestAssumption == GuestCap \in Nat \ {0}

(* vm: the guest's i8042 behind x86_guest_space.  FAULTED is a controller   *)
(* that found itself broken, STOPPED a guest space that knows it; source is *)
(* the phase of its input source.                                           *)
GuestController ==
  [state : {"READY", "FAULTED", "STOPPED"}, fill : 0 .. GuestCap,
   scanning : BOOLEAN, source : {"EMPTY", "ACTIVE", "QUIESCED"}]

GuestPort ==
  [phase : {"EMPTY", "REGISTERED", "FOCUSED", "QUIESCED", "RETIRED",
            "POISONED"},
   generation : Nat,
   bound : BOOLEAN]           \* downstream_bound

GuestInit == [phase |-> "EMPTY", generation |-> 0, bound |-> FALSE]
ControllerInit ==
  [state |-> "READY", fill |-> 0, scanning |-> TRUE, source |-> "EMPTY"]

(* guest_i8042_status and poison_guest_devices: the first call that meets   *)
(* the fault reports it and stops the guest's devices, later ones find them *)
(* stopped                                                                  *)
Downstream(h) ==
  CASE h.vm.state = "READY" -> Result(h, "OK")
    [] h.vm.state = "FAULTED" ->
         Result([h EXCEPT !.vm.state = "STOPPED"], "DEVICE_FAULT")
    [] OTHER -> Result(h, "INVALID_STATE")

(* x86_i8042_input_bind, _quiesce, _unbind and active_input_binding: one    *)
(* source at a time                                                         *)
SourceMoves(h, from, to) ==
  IF h.vm.source # from THEN Result(h, "INVALID_STATE")
  ELSE Result([h EXCEPT !.vm.source = to], "OK")

SourceBind(h) == SourceMoves(h, "EMPTY", "ACTIVE")
SourceQuiesce(h) == SourceMoves(h, "ACTIVE", "QUIESCED")
SourceUnbind(h) == SourceMoves(h, "QUIESCED", "EMPTY")
SourceActive(h) == SourceMoves(h, "ACTIVE", "ACTIVE")

(* x86_guest_space_i8042_input_bind, _quiesce, _unbind, _keyboard_mode *)
InputBind(h) == Then(Downstream(h), SourceBind)
InputQuiesce(h) == Then(Downstream(h), SourceQuiesce)
InputUnbind(h) == Then(Downstream(h), SourceUnbind)
KeyboardMode(h) == Then(Downstream(h), SourceActive)

(* guest_ps2_internal_encode, in set 1: an extended key has a prefix *)
EncodedLength(event) == IF event.key = TEXT THEN 2 ELSE 1

(* enqueue_output: all of the bytes or none *)
EnqueueOutput(h, count) ==
  IF h.vm.fill + count > GuestCap THEN Result(h, "CAPACITY_EXHAUSTED")
  ELSE Result([h EXCEPT !.vm.fill = @ + count], "OK")

(* guest_ps2_keyboard_register *)
GuestRegister(h) == [h EXCEPT !.gst.phase = "REGISTERED"]

(* guest_ps2_internal_poison *)
GuestPoison(h) == [h EXCEPT !.gst.phase = "POISONED"]

(* guest_ps2_internal_focus_enter: a guest that is stopped refuses the      *)
(* focus, one that breaks over it is given up                               *)
BoundTo(r, generation) ==
  CASE r.st = "INVALID_STATE" -> Result(r.h, "REJECTED")
    [] r.st # "OK" -> Result(GuestPoison(r.h), "BROKEN")
    [] OTHER -> Result([r.h EXCEPT !.gst = [phase |-> "FOCUSED",
                                            bound |-> TRUE,
                                            generation |-> generation]], "OK")

GuestEnter(h, generation) ==
  IF h.gst.phase # "REGISTERED" \/ h.gst.bound
  THEN Result(GuestPoison(h), "BROKEN")
  ELSE BoundTo(InputBind(h), generation)

(* guest_ps2_internal_focus_leave *)
Unbound(r) ==
  IF r.st # "OK" THEN GuestPoison(r.h)
  ELSE [r.h EXCEPT !.gst = [phase |-> "REGISTERED", bound |-> FALSE,
                            generation |-> 0]]

Silenced(r) == IF r.st = "OK" THEN Unbound(InputUnbind(r.h)) ELSE Unbound(r)

GuestLeave(h, generation) ==
  IF generation # h.gst.generation \/ h.gst.phase # "FOCUSED" \/ ~ h.gst.bound
  THEN GuestPoison(h)
  ELSE Silenced(InputQuiesce(h))

(* x86_guest_space_i8042_input_inject_keyboard_sequence *)
Inject(h, count) ==
  IF h.vm.scanning THEN EnqueueOutput(h, count) ELSE Result(h, "IO_DENIED")

(* guest_ps2_internal_receive: nothing is committed to the guest unless the *)
(* whole sequence is; what may work later is a DEFER                        *)
Injected(r) ==
  CASE r.st = "OK" -> Result(r.h, "HANDLED")
    [] r.st \in {"CAPACITY_EXHAUSTED", "IO_DENIED", "INVALID_STATE"} ->
         Result(r.h, "DEFER")
    [] OTHER -> Result(GuestPoison(r.h), "BROKEN")

Encoded(r, event) ==
  CASE r.st # "OK" -> Injected(r)
    [] ~ r.h.vm.scanning -> Result(r.h, "DEFER")
    [] OTHER -> Injected(Inject(r.h, EncodedLength(event)))

GuestReceive(h, event) ==
  IF \/ h.gst.phase # "FOCUSED" \/ ~ h.gst.bound
     \/ event.generation # h.gst.generation
  THEN Result(GuestPoison(h), "BROKEN")
  ELSE Encoded(KeyboardMode(h), event)

(* pump_guest_device_events and guest_status; busy says that the devices    *)
(* use up the budget                                                        *)
EventsPumped(r, busy) ==
  CASE r.st = "DEVICE_FAULT" -> Result(r.h, "POISONED")
    [] r.st = "OK" /\ busy -> Result(r.h, "RETRY")
    [] OTHER -> r

(* guest_ps2_keyboard_pump *)
GuestPump(h, busy) ==
  CASE h.gst.phase = "POISONED" -> Result(h, "POISONED")
    [] h.gst.phase # "FOCUSED" \/ ~ h.gst.bound -> Result(h, "INVALID_STATE")
    [] OTHER -> EventsPumped(Downstream(h), busy)
=============================================================================
