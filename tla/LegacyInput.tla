----------------------------- MODULE LegacyInput -----------------------------
(* Keys, from the keyboard to the program: the boot that takes the keyboard *)
(* over, the interrupt that reads its bytes, the prompt that waits for a    *)
(* character, and the loop that runs a program and pumps what the interrupt *)
(* could not deliver (kernel/main.c, kernel/x86_runtime.c).  The kernel     *)
(* runs with interrupts off but for the wait of the prompt and the program  *)
(* itself, so each of its calls is one step; the keyboard, the controller   *)
(* and the interrupt come in between.                                       *)
EXTENDS InputRuntime, FiniteSets

CONSTANTS
  PumpBudget,          \* CONFIG_X86_LEGACY_INPUT_PUMP_BUDGET
  KeyMax,              \* bound: keys pressed and released
  MoveMax,             \* bound: programs started
  FaultMax,            \* bound: faults of the hardware and of the guest
  FaultyKeyMax,        \* bound: keys, in a behaviour with a fault
  FaultyMoveMax,       \* bound: programs, in a behaviour with a fault
  Faults               \* the kinds of fault that happen

FaultKinds == {"update", "stall", "refuse", "reset", "damage", "guest"}

ASSUME BoundAssumption ==
  /\ PumpBudget \in Nat \ {0} /\ {KeyMax, MoveMax, FaultMax} \subseteq Nat
  /\ FaultyKeyMax \in 0 .. KeyMax /\ FaultyMoveMax \in 0 .. MoveMax
  /\ Faults \subseteq FaultKinds

VARIABLES con, vm, gst, core, kbd, port, ctl, nat, raw, kb, drv, irq, rt,
          handed,      \* events that consumers took in the last step
          sys,         \* where the kernel is
          typed, moves, faults

path == <<con, vm, gst, core, kbd, port, ctl, nat, raw, kb, drv, irq, rt>>
bounds == <<typed, moves, faults>>
vars == <<path, handed, sys, bounds>>

Now ==
  [con |-> con, vm |-> vm, gst |-> gst, core |-> core, kbd |-> kbd,
   port |-> port, ctl |-> ctl, nat |-> nat, raw |-> raw, kb |-> kb,
   drv |-> drv, irq |-> irq, rt |-> rt, handed |-> <<>>]

Become(h) ==
  /\ con' = h.con /\ vm' = h.vm /\ gst' = h.gst /\ core' = h.core
  /\ kbd' = h.kbd /\ port' = h.port /\ ctl' = h.ctl /\ nat' = h.nat
  /\ raw' = h.raw /\ kb' = h.kb /\ drv' = h.drv /\ irq' = h.irq
  /\ rt' = h.rt /\ handed' = h.handed

Go(place) == sys' = place
Stay == UNCHANGED sys

(* No step is free to happen for ever but the ones that undo another. *)
Typing ==
  /\ typed < IF faults = 0 THEN KeyMax ELSE FaultyKeyMax
  /\ typed' = typed + 1 /\ UNCHANGED <<moves, faults>>
Moving ==
  /\ moves < IF faults = 0 THEN MoveMax ELSE FaultyMoveMax
  /\ moves' = moves + 1 /\ UNCHANGED <<typed, faults>>
Failing(kind) ==
  /\ kind \in Faults /\ faults < FaultMax /\ faults' = faults + 1
  /\ typed <= FaultyKeyMax /\ moves <= FaultyMoveMax
  /\ UNCHANGED <<typed, moves>>

Init ==
  /\ con = ConsoleInit /\ vm = ControllerInit /\ gst = GuestInit
  /\ core = CoreInit /\ kbd = KeyboardInit
  /\ \E fuse \in 0 .. FuseMax :
       /\ fuse = FuseMax \/ "update" \in Faults
       /\ port = PortInit(fuse)
       /\ faults = IF fuse = FuseMax THEN 0 ELSE FaultMax
  /\ ctl = "EMPTY" /\ nat = "EMPTY" /\ raw = <<>> /\ kb = EndpointInit
  /\ drv = FALSE /\ irq = IrqPrepared /\ rt = RuntimeInit /\ handed = <<>>
  /\ sys = "boot" /\ typed = 0 /\ moves = 0

-----------------------------------------------------------------------------
(* initialize_legacy_input and publish_legacy_irq_delivery; a boot that     *)
(* fails stops the machine                                                  *)
Prepare ==
  /\ sys = "boot"
  /\ \E h \in {RuntimePrepare(Now)} :
       Become(h) /\ Go(IF h.rt.phase = "PREPARED" THEN "prepared"
                          ELSE "halted")
  /\ UNCHANGED bounds

Publish ==
  /\ sys = "prepared"
  /\ \E h \in {PublishStart(Now)} :
       Become(h) /\ Go(IF h.rt.phase = "PUBLISHING" THEN "negotiate"
                          ELSE "halted")
  /\ UNCHANGED bounds

Negotiate ==
  /\ sys = "negotiate" /\ ~ Negotiated(Now)
  /\ \E h \in {NegotiateStep(Now)} :
       Become(h) /\ Go(IF h.rt.phase = "PUBLISHING" THEN "negotiate"
                          ELSE "halted")
  /\ UNCHANGED bounds

(* negotiation_step_limit *)
GiveUp ==
  /\ sys = "negotiate" /\ ~ Negotiated(Now) /\ kb.command.writes > 0
  /\ Become(PublishFailed(Now)) /\ Go("halted")
  /\ UNCHANGED bounds

Finish ==
  /\ sys = "negotiate" /\ Negotiated(Now)
  /\ \E h \in {PublishFinish(Now)} :
       LET r == IrqPublish(h)
       IN IF h.rt.phase = "ACTIVE" /\ r.st = "OK"
          THEN Become(r.h) /\ Go("prompt")
          ELSE Become(h) /\ Go("halted")
  /\ UNCHANGED bounds

-----------------------------------------------------------------------------
(* The hardware. *)
PressKey ==
  /\ Typing /\ Stay
  /\ \E key \in Keyboard \ kbd.down :
       CanType(Now, key) /\ Become(Press(Now, key))

ReleaseKey ==
  /\ Typing /\ Stay
  /\ \E key \in kbd.down : CanType(Now, key) /\ Become(Release(Now, key))

KeyboardExecutes ==
  /\ kbd.todo # None /\ Len(kbd.out) < OutMax
  /\ Become(Execute(Now)) /\ Stay /\ UNCHANGED bounds

KeyboardRefuses ==
  /\ kbd.todo \notin {None, STALL, RESEND} /\ Len(kbd.out) < OutMax
  /\ Failing("refuse") /\ Become(Refuse(Now)) /\ Stay

KeyboardStalls ==
  /\ sys = "negotiate" /\ kbd.todo = None
  /\ Failing("stall") /\ Become(Stall(Now)) /\ Stay

KeyboardSends ==
  /\ CanSend(Now) /\ Become(Send(Now, Clean)) /\ Stay /\ UNCHANGED bounds

ByteDamaged ==
  /\ CanSend(Now) /\ Failing("damage") /\ Stay
  /\ \E flag \in Damages : Become(Send(Now, flag))

KeyboardResets ==
  /\ sys \notin {"boot", "halted"}
  /\ Failing("reset") /\ Become(Reset(Now)) /\ Stay

(* x86_trap_dispatch: an interrupt that nobody answers for stops the        *)
(* machine                                                                  *)
Irq1 ==
  /\ sys \in {"prompt", "guest", "asking"} /\ port.irr
  /\ LET h == [Now EXCEPT !.port.irr = FALSE]
     IN \E r \in {IrqDispatch(h, KeyboardIrqAction(h))} :
          /\ Become(r.h)
          /\ IF r.st \in {"OK", "UNHANDLED"} THEN Stay ELSE Go("halted")
  /\ UNCHANGED bounds

-----------------------------------------------------------------------------
(* keyboard_readline at the prompt, and dos_console_input_character for the *)
(* program that asks DOS for a character                                    *)
Read ==
  /\ sys \in {"prompt", "asking"} /\ CanRead(Now)
  /\ Become(ReadCharacter(Now))
  /\ Go(IF sys = "asking" THEN "guest" ELSE sys)
  /\ UNCHANGED bounds

Ask ==
  /\ sys = "guest" /\ Become(Now) /\ Go("asking") /\ UNCHANGED bounds

(* run_external_dos_program *)
Start ==
  /\ sys = "prompt" /\ Moving
  /\ \E r \in {RuntimeFocusGuest(Now)} :
       Become(r.h) /\ Go(IF r.st = "OK" THEN "guest" ELSE "prompt")

Pump(busy) ==
  /\ sys = "guest"
  /\ \E r \in {RuntimePump(Now, PumpBudget, busy)} :
       Become(r.h) /\ Go(IF r.st \in {"OK", "RETRY"} THEN "guest"
                            ELSE "stop")
  /\ UNCHANGED bounds

ProgramEnds ==
  /\ sys = "guest" /\ Become(Now) /\ Go("stop") /\ UNCHANGED bounds

(* stop_session: without the keyboard back there is no prompt *)
StopSession ==
  /\ sys = "stop"
  /\ \E r \in {RuntimeFocusConsole(Now)} :
       Become(r.h) /\ Go(IF r.st = "OK" THEN "prompt" ELSE "halted")
  /\ UNCHANGED bounds

(* The program and its controller. *)
GuestTakes ==
  /\ sys = "guest" /\ vm.fill > 0
  /\ Become([Now EXCEPT !.vm.fill = @ - 1]) /\ Stay /\ UNCHANGED bounds

GuestScanning ==
  /\ sys = "guest"
  /\ Become([Now EXCEPT !.vm.scanning = ~ @]) /\ Stay /\ UNCHANGED bounds

GuestFails ==
  /\ vm.state = "READY" /\ sys \in {"prompt", "guest"} /\ Failing("guest")
  /\ \E s \in {"FAULTED", "STOPPED"} : Become([Now EXCEPT !.vm.state = s])
  /\ Stay

Boot == Prepare \/ Publish \/ Negotiate \/ GiveUp \/ Finish
Hardware ==
  \/ PressKey \/ ReleaseKey \/ KeyboardExecutes \/ KeyboardRefuses
  \/ KeyboardStalls \/ KeyboardSends \/ ByteDamaged \/ KeyboardResets
Kernel ==
  \/ Irq1 \/ Read \/ Ask \/ Start
  \/ \E busy \in BOOLEAN : Pump(busy)
  \/ ProgramEnds \/ StopSession
Guest == GuestTakes \/ GuestScanning \/ GuestFails

Next == Boot \/ Hardware \/ Kernel \/ Guest
Spec == Init /\ [][Next]_vars

(* The hardware goes on, the prompt reads what it can, an edge is answered  *)
(* once interrupts are on, and the program loop comes round to a pump that  *)
(* the guest's other devices do not use up.  The last two are weak fairness *)
(* as well, with what enables the action written out.                       *)
IrqWaits == sys \in {"prompt", "guest", "asking"} /\ port.irr
PumpWorks ==
  /\ sys = "guest"
  /\ LET r == RuntimePump(Now, PumpBudget, FALSE)
     IN r.h # Now \/ handed # <<>> \/ r.st \notin {"OK", "RETRY"}

FairSpec ==
  /\ Spec
  /\ WF_vars(KeyboardExecutes) /\ WF_vars(KeyboardSends) /\ WF_vars(Read)
  /\ []<>(~ IrqWaits) \/ []<><<Irq1>>_vars
  /\ []<>(~ PumpWorks) \/ []<><<Pump(FALSE)>>_vars

-----------------------------------------------------------------------------
(* Type correctness of the whole path. *)
TypeOK ==
  /\ con.phase \in {"EMPTY", "REGISTERED", "FOCUSED", "POISONED"}
  /\ con.held \subseteq StateKeys /\ con.default \in BOOLEAN
  /\ Len(con.records) <= RecordCap /\ Len(raw) <= RawCap
  /\ Len(core.queue) <= DecodedCap
  /\ vm \in GuestController /\ gst \in GuestPort
  /\ core.focus \in Handlers \cup {None} /\ core.generation \in Nat
  /\ core.handlers \in [Handlers -> {"EMPTY", "ACTIVE", "POISONED"}]
  /\ kbd.down \subseteq Keyboard /\ Len(kbd.out) <= OutMax
  /\ kbd.torn \in {None, "disabled", "reset", "ambiguous", "damaged"}
  /\ port.irr \in BOOLEAN /\ port.fuse \in 0 .. FuseMax
  /\ port.cb \in {"firmware", "staged", "active", "unsure"}
  /\ ctl \in {"EMPTY", "PREPARED", "ACTIVE", "QUIESCED", "POISONED"}
  /\ nat \in {"EMPTY", "ACTIVE", "QUIESCED"} /\ drv \in BOOLEAN
  /\ kb.command.index \in 0 .. Len(Script)
  /\ kb.command.writes \in 0 .. WriteLimit
  /\ kb.decode.pressed \subseteq Keys /\ rt \in Runtime
  /\ sys \in {"boot", "prepared", "negotiate", "prompt", "guest", "asking",
              "stop", "halted"}

Served == sys \in {"prompt", "guest", "asking", "stop"} /\ rt.phase = "ACTIVE"

(* What the owner believes it holds is what the parts say, and a boot that  *)
(* was taken back leaves nothing registered and the firmware's command byte *)
(* in place (rollback_precommit, quarantine_runtime, the two focus calls).  *)
Owned ==
  /\ Has(Now, "DEFAULT") <=> con.default
  /\ Has(Now, "ACTION") <=> irq.action # "EMPTY"
  /\ Has(Now, "NATIVE") <=> nat = "ACTIVE"
  /\ Has(Now, "CONTROL_PUBLISHED") => ctl \in {"ACTIVE", "QUIESCED",
                                               "POISONED"}
  /\ Served =>
       /\ rt.focus = core.focus /\ (con.default <=> core.focus = "console")
       /\ gst.bound <=> core.focus = "guest"
       /\ gst.bound <=> vm.source = "ACTIVE"
  /\ rt.phase = "RETIRED" =>
       /\ rt.acquired \subseteq {"REGISTRY"} /\ ~ drv /\ ~ kb.bound
       /\ port.cb = "firmware" /\ ctl = "EMPTY" /\ core.phase = "RETIRED"

-----------------------------------------------------------------------------
(* The keys between the keyboard and the consumer: events that the queue    *)
(* still owes the consumer in focus, then what the bytes behind them will   *)
(* decode to.                                                               *)
Stream ==
  LET bytes == raw \o port.obf
  IN [i \in DOMAIN bytes |-> bytes[i].data] \o kbd.out

Typed(stream) ==
  LET ack == {i \in DOMAIN stream : stream[i] = ACK}
      first == 1 + Cardinality({i \in DOMAIN stream :
                                  \E j \in ack : i <= j})
  IN SubSeq(stream, first, Len(stream))

Keystroke(d) ==
  IF d.key = None THEN <<>> ELSE <<[key |-> d.key, up |-> d.value = "RELEASED"]>>

(* d is bound to a member of a set so that TLC decodes each byte once. *)
RECURSIVE Keystrokes(_, _)
Keystrokes(decode, bytes) ==
  IF bytes = <<>> THEN <<>>
  ELSE CHOOSE keys \in {Keystroke(d) \o Keystrokes(d.decode, Tail(bytes)) :
                         d \in {Decode(decode, Head(bytes))}} : TRUE

Owed ==
  LET current == SelectSeq(core.queue,
                           LAMBDA e : e.generation = core.generation)
  IN [i \in DOMAIN current |-> [key |-> current[i].key,
                                up |-> current[i].value = "RELEASED"]]

Pending == Owed \o Keystrokes(kb.decode, Typed(Stream))

(* A modifier that the console holds is a key that is down on the keyboard, *)
(* or its release is on its way: as an event or as bytes, or because the    *)
(* keyboard was reset and the driver, which preserved "the pressed bitmap   *)
(* until process-context reconnect can publish synthetic releases", owes    *)
(* one or is about to be told (handle_protocol_byte, reconnect_port,        *)
(* console_focus_leave).  Two accidents of the line are beyond the driver   *)
(* and left out by name: a damaged byte, and a reset whose AA the protocol  *)
(* lets nobody tell from the break of the left shift or from the rest of an *)
(* extended code; after those a modifier may stay down.                     *)
ReleaseComes(key) ==
  \/ \E i \in DOMAIN Pending : Pending[i] = [key |-> key, up |-> TRUE]
  \/ kb.reconnect /\ key \in kb.decode.pressed
  \/ kbd.torn = "reset" /\ \E i \in DOMAIN Stream : Stream[i] = BAT

NoStuckKeys ==
  Served /\ con.phase = "FOCUSED" /\ kbd.torn \notin {"ambiguous", "damaged"} =>
    \A key \in con.held : key \in kbd.down \/ ReleaseComes(key)

Promise == INSTANCE KeyStream WITH
  Consumers <- Handlers,
  up <- irq.phase = "ACTIVE" /\ vm.state = "READY" /\ kbd.torn = None,
  pending <- Pending,
  focus <- core.focus,
  handed <- handed

(* The input path keeps the promise of KeyStream: no key is lost, doubled,  *)
(* reordered or read as another on its way through the controller, the raw  *)
(* and decoded queues and the two consumers, however full they are and      *)
(* however often the focus moves, and an event of an earlier focus reaches  *)
(* nobody (input_submit, queued_event_is_current, serio_interrupt).  A path *)
(* in service stays so: only an accident, the stream torn or the guest's    *)
(* controller stopped, ends the promise.                                    *)
KeepsKeys == Promise!Spec

(* A byte in the controller always has something that will come for it, the *)
(* latched edge of IRQ1 or the runtime's note to look again, for the edge   *)
(* does not come twice (keyboard_irq_action, capture_backpressured_source); *)
(* and while a program runs it is taken out, or the program has stopped     *)
(* taking its own keys: the pump covers the edges that do not come.         *)
SourceServed ==
  /\ [](Served /\ ~ rt.poisoned /\ port.obf # <<>> => port.irr \/ rt.held)
  /\ sys = "guest" /\ port.obf # <<>>
       ~> \/ sys # "guest" \/ port.obf = <<>>
          \/ vm.fill + 2 > GuestCap \/ ~ vm.scanning \/ vm.state # "READY"

(* At the prompt, a byte that was left in the controller for want of room   *)
(* is asked for again: "the byte remains owned by hardware, and process     *)
(* context drains decoded/raw work before polling the source again"         *)
(* (docs/SERIO.md).  keyboard_getchar only halts for the next interrupt.    *)
PromptServed == sys = "prompt" /\ rt.held ~> sys # "prompt" \/ ~ rt.held
=============================================================================
