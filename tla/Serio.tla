------------------------------- MODULE Serio -------------------------------
(***************************************************************************)
(* The serial-input bus of kernel/input/serio: ports fed by hard           *)
(* interrupts, drivers bound to them, the deferred FIFO of each port, and  *)
(* the loss, recovery and isolation of a port's byte stream.               *)
(*                                                                         *)
(* One CPU runs everything.  A process-context call is a frame of `stack'  *)
(* and takes one step per guarded section or driver callback; the port     *)
(* guard masks interrupts, so between any two such steps a hard interrupt  *)
(* may run serio_interrupt, and it runs to completion (Interrupt is one    *)
(* step).  A driver callback that the port counts in in_flight may itself  *)
(* call teardown, recovery and write operations: they are pushed on top of *)
(* the frame whose callback makes them.                                    *)
(*                                                                         *)
(* A byte is its sequence number; tally[p] holds the port's counters and   *)
(* the history variables offered, handled, closed, consumed and last.      *)
(* stream_isolated is not kept: it is set and cleared together with        *)
(* recovery_required.  A call refused without any effect is no step.       *)
(***************************************************************************)
EXTENDS Integers, Sequences, FiniteSets, SequencesExt

CONSTANTS
    Ports, Drivers, None,
    Abandoned,        \* in connected: the port was cleared under the driver
    Matches,          \* driver_matches_port: a set of <<driver, port>>
    Reconnects,       \* the drivers whose config has a reconnect operation
    ManualBind,       \* the values of manual_bind in the configs offered
    PortCapacity, DriverCapacity, MaxCapacity,
    QueueCapacity,
    SequenceMax,      \* SERIO_SEQUENCE_MAX
    GenerationMax,    \* SERIO_GENERATION_MAX, as it bounds port->generation
    BindingMax,       \* SERIO_GENERATION_MAX, as it bounds binding_generation
    EpochMax,         \* SERIO_GENERATION_MAX, as it bounds stream_loss_epoch
    InFlightMax,      \* the largest uint8_t
    DepthMax,         \* CONFIG_SERIO_PARENT_DEPTH_MAX
    MaxOffered,       \* bytes the hardware offers a port in one generation
    MaxNesting        \* depth of calls made from callbacks

ASSUME SerioAssumption ==
    /\ None \notin Ports \cup Drivers
    /\ Abandoned \notin Drivers \cup {None}
    /\ Matches \subseteq Drivers \X Ports
    /\ Reconnects \subseteq Drivers
    /\ ManualBind \subseteq BOOLEAN
    /\ QueueCapacity \in Nat \ {0}
    /\ MaxNesting \in Nat \ {0}
    /\ InFlightMax \in Nat
    /\ InFlightMax > MaxNesting
    /\ {PortCapacity, DriverCapacity, MaxCapacity, SequenceMax, GenerationMax,
        BindingMax, EpochMax, DepthMax, MaxOffered} \subseteq Nat

VARIABLES ports, drivers, portSlots, driverSlots, poisoned,
          stack, connected, tally

vars == <<ports, drivers, portSlots, driverSlots, poisoned, stack, connected, tally>>
registry == <<drivers, portSlots, driverSlots, poisoned>>

Phases == {"empty", "prepared", "active", "quiesced", "poisoned"}

Port(generation) ==
    [phase |-> "empty", accepting |-> FALSE, driver |-> None,
     generation |-> generation, binding_generation |-> 0, next_sequence |-> 0,
     queue |-> << >>, in_flight |-> 0,
     recovery_required |-> FALSE, recovery_abandoned |-> FALSE,
     stream_loss_epoch |-> 0, stream_recovery_epoch |-> 0,
     parent |-> None, parent_generation |-> 0, depth |-> 0, manual_bind |-> FALSE]

Driver == [registered |-> FALSE, withdrawing |-> FALSE, manual_bind |-> FALSE]

NoBytes ==
    [offered |-> 0, handled |-> 0, rejected |-> 0, unbound |-> 0, stale |-> 0,
     lost |-> 0, discarded |-> 0, closed |-> 0, consumed |-> 0, last |-> 0]

Bytes ==
    [sequence : 1..SequenceMax, port_generation : 1..GenerationMax,
     binding_generation : 1..BindingMax, driver : Drivers]

PortRecords ==
    [phase : Phases, accepting : BOOLEAN, driver : Drivers \cup {None},
     generation : 0..GenerationMax, binding_generation : 0..BindingMax,
     next_sequence : 0..SequenceMax, queue : Seq(Bytes), in_flight : 0..MaxNesting,
     recovery_required : BOOLEAN, recovery_abandoned : BOOLEAN,
     stream_loss_epoch : 0..EpochMax, stream_recovery_epoch : 0..EpochMax,
     parent : Ports \cup {None}, parent_generation : 0..GenerationMax,
     depth : 0..DepthMax, manual_bind : BOOLEAN]

Init ==
    /\ ports = [p \in Ports |-> Port(0)]
    /\ drivers = [d \in Drivers |-> Driver]
    /\ portSlots = [i \in 1..PortCapacity |-> None]
    /\ driverSlots = [i \in 1..DriverCapacity |-> None]
    /\ poisoned = FALSE
    /\ stack = << >>
    /\ connected = [p \in Ports |-> None]
    /\ tally = [p \in Ports |-> NoBytes]

(* clear_port_preserving_generation *)
ClearPort(p) ==
    /\ ports' = [ports EXCEPT ![p] = Port(@.generation)]
    /\ tally' = [tally EXCEPT ![p] = NoBytes]

Count(p, field) == tally' = [tally EXCEPT ![p][field] = @ + 1]

---------------------------------------------------------------------------
(* The call stack.                                                         *)

Frame(op, pc, p) ==
    [op |-> op, pc |-> pc, port |-> p, driver |-> None, slot |-> 1, index |-> 1,
     epoch |-> 0, binding |-> 0, budget |-> 0, event |-> None]

(* The callbacks that run with port->in_flight raised.                     *)
Counted == {"pumping", "reconnecting", "writing"}

Top == Last(stack)
At(pc) == stack # << >> /\ Top.pc = pc
Idle == stack = << >>
MayCall == stack # << >> => Top.pc \in Counted /\ Len(stack) < MaxNesting

Call(frame) == stack' = Append(stack, frame)
Become(frame) == stack' = Append(Front(stack), frame)
Goto(pc) == Become([Top EXCEPT !.pc = pc])
Return == stack' = Front(stack)

Lowest(S) == CHOOSE i \in S : \A j \in S : i <= j
Free(slots) == {i \in DOMAIN slots : slots[i] = None}
SlotOf(p) == CHOOSE i \in DOMAIN portSlots : portSlots[i] = p

---------------------------------------------------------------------------
(* Hard interrupt.                                                         *)

MarkStreamLoss(port) ==
    IF port.recovery_required THEN port
    ELSE IF port.stream_loss_epoch >= EpochMax
    THEN [port EXCEPT !.accepting = FALSE, !.recovery_abandoned = TRUE,
                      !.phase = "poisoned"]
    ELSE [port EXCEPT !.stream_loss_epoch = @ + 1, !.recovery_required = TRUE,
                      !.recovery_abandoned = FALSE, !.accepting = FALSE]

Lose(p, port) ==
    /\ ports' = [ports EXCEPT ![p] = MarkStreamLoss(port)]
    /\ tally' = [tally EXCEPT ![p].offered = @ + 1, ![p].lost = @ + 1]

(* queue_event, and the loss of the byte when the FIFO is full.            *)
QueueEvent(p, port, event) ==
    IF Len(port.queue) >= QueueCapacity THEN Lose(p, port)
    ELSE /\ ports' = [ports EXCEPT ![p] = [port EXCEPT !.queue = Append(@, event)]]
         /\ tally' = [tally EXCEPT ![p].offered = @ + 1]

Usable(d) == d # None /\ ~drivers[d].withdrawing

Event(port) ==
    [sequence |-> port.next_sequence + 1, port_generation |-> port.generation,
     binding_generation |-> port.binding_generation, driver |-> port.driver]

(* Fault: the driver is called although older bytes wait in the FIFO.      *)
InterruptOvertaking(p) ==
    LET port == ports[p]
        event == Event(port)
        taken == [port EXCEPT !.next_sequence = event.sequence]
    IN /\ tally[p].offered < MaxOffered /\ ~poisoned
       /\ port.phase = "active" /\ port.accepting /\ ~port.recovery_required
       /\ port.next_sequence < SequenceMax /\ Usable(port.driver)
       /\ \/ QueueEvent(p, taken, event)
          \/ /\ ports' = [ports EXCEPT ![p] = taken]
             /\ tally' = [tally EXCEPT ![p].offered = @ + 1,
                          ![p].handled = @ + 1, ![p].last = event.sequence]
       /\ UNCHANGED <<registry, stack, connected>>

(* serio_interrupt, with the answer of the driver's interrupt callback     *)
(* when it is called.                                                      *)
Interrupt(p) ==
    LET port == ports[p]
        event == Event(port)
        taken == [port EXCEPT !.next_sequence = event.sequence]
    IN /\ tally[p].offered < MaxOffered
       /\ ~poisoned
       /\ port.phase = "active"
       /\ \/ /\ port.recovery_required
             /\ Lose(p, port)
          \/ /\ ~port.recovery_required /\ ~port.accepting
             /\ tally' = [tally EXCEPT ![p].offered = @ + 1, ![p].closed = @ + 1]
             /\ UNCHANGED ports
          \/ /\ ~port.recovery_required /\ port.accepting
             /\ port.next_sequence >= SequenceMax
             /\ Lose(p, port)
          \/ /\ ~port.recovery_required /\ port.accepting
             /\ port.next_sequence < SequenceMax
             /\ \/ /\ ~Usable(port.driver)
                   /\ ports' = [ports EXCEPT ![p] = taken]
                   /\ tally' = [tally EXCEPT ![p].offered = @ + 1, ![p].unbound = @ + 1]
                \/ /\ Usable(port.driver)
                   /\ port.queue # << >>
                   /\ QueueEvent(p, taken, event)
                \/ /\ Usable(port.driver)
                   /\ port.queue = << >>
                   /\ IF port.in_flight >= InFlightMax
                      THEN Lose(p, taken)
                      ELSE \/ QueueEvent(p, taken, event)
                           \/ \E answer \in {"handled", "rejected"} :
                                /\ ports' = [ports EXCEPT ![p] = taken]
                                /\ tally' = [tally EXCEPT ![p].offered = @ + 1,
                                             ![p][answer] = @ + 1,
                                             ![p].last = event.sequence]
       /\ UNCHANGED <<registry, stack, connected>>

(* serio_port_receive_preflight *)
ReceivePreflight(port) ==
    IF port.phase # "active" \/ port.recovery_required THEN "closed"
    ELSE IF Len(port.queue) >= QueueCapacity THEN "retry"
    ELSE IF port.next_sequence >= SequenceMax THEN "exhausted"
    ELSE IF ~port.accepting THEN "closed" ELSE "ok"

---------------------------------------------------------------------------
(* Draining the FIFO.                                                      *)

Pump(p, budget) ==
    /\ Idle
    /\ ports[p].phase # "empty"
    /\ Call([Frame("pump", "pump", p) EXCEPT !.budget = budget])
    /\ UNCHANGED <<ports, registry, connected, tally>>

Stale(event, port) ==
    \/ event.port_generation # port.generation
    \/ event.binding_generation # port.binding_generation
    \/ event.driver # port.driver

PumpNext ==
    /\ At("pump")
    /\ LET p == Top.port
           port == ports[p]
       IN \/ /\ \/ port.phase # "active" \/ port.recovery_required
                \/ ~port.accepting \/ port.queue = << >> \/ ~Usable(port.driver)
             /\ Return
             /\ UNCHANGED <<ports, tally>>
          \/ /\ port.phase = "active" /\ ~port.recovery_required
             /\ port.accepting /\ port.queue # << >> /\ Usable(port.driver)
             /\ \/ /\ Stale(Head(port.queue), port)
                   /\ ports' = [ports EXCEPT ![p].queue = Tail(@)]
                   /\ Count(p, "stale")
                   /\ UNCHANGED stack
                \/ /\ ~Stale(Head(port.queue), port)
                   /\ port.in_flight < InFlightMax
                   /\ ports' = [ports EXCEPT ![p].in_flight = @ + 1]
                   /\ Become([Top EXCEPT !.pc = "pumping", !.driver = port.driver,
                                         !.binding = port.binding_generation,
                                         !.event = Head(port.queue)])
                   /\ UNCHANGED tally
    /\ UNCHANGED <<registry, connected>>

(* Fault: a deferred record keeps the port's reference.                    *)
PumpDeferKeepsFlight ==
    /\ At("pumping")
    /\ Return
    /\ UNCHANGED <<ports, registry, connected, tally>>

(* The driver's answer to the record at the head of the FIFO.              *)
PumpReturn ==
    /\ At("pumping")
    /\ LET p == Top.port
       IN \/ /\ ports' = [ports EXCEPT ![p].in_flight = @ - 1]
             /\ Return
             /\ UNCHANGED tally
          \/ \E answer \in {"handled", "rejected"} :
               /\ ports' = [ports EXCEPT ![p].in_flight = @ - 1,
                                         ![p].queue = Tail(@)]
               /\ tally' = [tally EXCEPT ![p][answer] = @ + 1,
                                         ![p].last = Top.event.sequence]
               /\ IF Top.budget = 1 THEN Return
                  ELSE Become([Top EXCEPT !.pc = "pump", !.budget = @ - 1,
                               !.driver = None, !.binding = 0, !.event = None])
    /\ UNCHANGED <<registry, connected>>

(* serio_port_consume of the record serio_port_peek showed.                *)
Consume(p, sequence) ==
    /\ Idle
    /\ ports[p].phase \in {"active", "quiesced"}
    /\ ports[p].queue # << >>
    /\ Head(ports[p].queue).sequence = sequence
    /\ ports' = [ports EXCEPT ![p].queue = Tail(@)]
    /\ tally' = [tally EXCEPT ![p].consumed = @ + 1, ![p].last = sequence]
    /\ UNCHANGED <<registry, stack, connected>>

---------------------------------------------------------------------------
(* Binding a driver: connect, publish under the guard, open; the reverse   *)
(* on failure.                                                             *)

(* Where a frame goes on once attach_first_driver has found no driver or   *)
(* has bound one.                                                          *)
AttachDone(frame) ==
    IF frame.op = "unregister_driver"
    THEN Become([frame EXCEPT !.pc = "reattach", !.index = @ + 1])
    ELSE Return

BindDone(frame) ==
    CASE frame.op = "bind" -> Return
      [] frame.op = "register_driver" ->
           Become([frame EXCEPT !.pc = "offer", !.index = @ + 1])
      [] OTHER -> AttachDone(frame)

(* A failed bind_driver ends an explicit bind and moves the search of      *)
(* attach_first_driver to the next driver slot.                            *)
BindFailed(frame) ==
    IF frame.op \in {"bind", "register_driver"} THEN BindDone(frame)
    ELSE Become([frame EXCEPT !.pc = "attach", !.slot = @ + 1])

(* attach_first_driver: the next driver slot worth trying.                 *)
Attach ==
    /\ At("attach")
    /\ LET p == Top.port
           worth == {i \in Top.slot..Len(driverSlots) :
                       LET d == driverSlots[i]
                       IN /\ Usable(d)
                          /\ ~drivers[d].manual_bind
                          /\ <<d, p>> \in Matches}
       IN IF ports[p].manual_bind \/ worth = {} THEN AttachDone(Top)
          ELSE Become([Top EXCEPT !.pc = "connect", !.slot = Lowest(worth)])
    /\ UNCHANGED <<ports, registry, connected, tally>>

(* The driver a frame is about to bind.                                    *)
Candidate(frame) ==
    IF frame.op \in {"bind", "register_driver"} THEN frame.driver
    ELSE driverSlots[frame.slot]

(* bind_driver up to and including the driver's connect callback, which    *)
(* may refuse; a port at its last binding generation is left unbound too.  *)
Connect ==
    /\ At("connect")
    /\ LET p == Top.port
           d == Candidate(Top)
       IN \/ BindFailed(Top) /\ UNCHANGED connected
          \/ /\ ports[p].phase = "active" /\ ports[p].driver = None
             /\ Usable(d) /\ <<d, p>> \in Matches /\ drivers[d].registered
             /\ ports[p].binding_generation < BindingMax
             /\ connected' = [connected EXCEPT ![p] = d]
             /\ Goto("publish")
    /\ UNCHANGED <<ports, registry, tally>>

Publish ==
    /\ At("publish")
    /\ ports' = [ports EXCEPT ![Top.port].binding_generation = @ + 1,
                              ![Top.port].driver = Candidate(Top)]
    /\ Goto("open")
    /\ UNCHANGED <<registry, connected, tally>>

(* The port's open callback and, when it fails, the guarded withdrawal.    *)
Open ==
    /\ At("open")
    /\ LET p == Top.port
       IN \/ BindDone(Top) /\ UNCHANGED ports
          \/ IF ports[p].in_flight # 0
             THEN /\ ports' = [ports EXCEPT ![p].accepting = FALSE,
                                            ![p].phase = "poisoned"]
                  /\ BindFailed(Top)
             ELSE /\ ports' = [ports EXCEPT ![p].driver = None]
                  /\ Goto("undo")
    /\ UNCHANGED <<registry, connected, tally>>

Undo ==
    /\ At("undo")
    /\ connected' = [connected EXCEPT ![Top.port] = None]
    /\ BindFailed(Top)
    /\ UNCHANGED <<ports, registry, tally>>

(* detach_driver: withdraw under the guard, then close and disconnect.     *)
Detach ==
    /\ At("detach")
    /\ ports' = [ports EXCEPT ![Top.port].driver = None]
    /\ Goto("disconnect")
    /\ UNCHANGED <<registry, connected, tally>>

Disconnect ==
    /\ At("disconnect")
    /\ connected' = [connected EXCEPT ![Top.port] = None]
    /\ CASE Top.op = "unbind" -> Become([Top EXCEPT !.pc = "attach", !.slot = 1])
         [] Top.op = "quiesce" -> Goto("stop")
         [] Top.op = "unregister_subtree" -> Goto("clear")
         [] Top.op = "unregister_driver" -> Goto("detaching")
    /\ UNCHANGED <<ports, registry, tally>>

---------------------------------------------------------------------------
(* A port's life.                                                          *)

HasChildren(p) ==
    \E i \in DOMAIN portSlots :
        LET c == portSlots[i]
        IN c \notin {None, p} /\ ports[c].phase # "empty" /\ ports[c].parent = p

(* serio_port_prepare *)
Prepare(p, parent, manual) ==
    /\ Idle /\ ~poisoned
    /\ ports[p].phase = "empty"
    /\ parent # p
    /\ parent # None => /\ ports[parent].phase = "active"
                        /\ ports[parent].depth < DepthMax
    /\ Free(portSlots) # {}
    /\ ports[p].generation < GenerationMax
    /\ ports' = [ports EXCEPT ![p] =
         [Port(@.generation + 1) EXCEPT !.phase = "prepared", !.manual_bind = manual,
            !.parent = parent,
            !.parent_generation = IF parent = None THEN 0 ELSE ports[parent].generation,
            !.depth = IF parent = None THEN 0 ELSE ports[parent].depth + 1]]
    /\ portSlots' = [portSlots EXCEPT ![Lowest(Free(portSlots))] = p]
    /\ UNCHANGED <<drivers, driverSlots, poisoned, stack, connected, tally>>

(* serio_port_publish once the start callback has succeeded.               *)
PublishPort(p) ==
    /\ Idle /\ ~poisoned
    /\ ports[p].phase = "prepared"
    /\ ports' = [ports EXCEPT ![p].accepting = TRUE, ![p].phase = "active"]
    /\ Call(Frame("publish", "attach", p))
    /\ UNCHANGED <<registry, connected, tally>>

Abort(p) ==
    /\ Idle
    /\ ports[p].phase = "prepared"
    /\ portSlots' = [portSlots EXCEPT ![SlotOf(p)] = None]
    /\ ClearPort(p)
    /\ UNCHANGED <<drivers, driverSlots, poisoned, stack, connected>>

(* serio_port_quiesce: RETRY leaves the port deaf; otherwise the driver    *)
(* is detached and Stop ends the port's activity.                          *)
Quiesce(p) ==
    /\ MayCall
    /\ ports[p].phase = "active"
    /\ ~HasChildren(p)
    /\ ~(ports[p].recovery_required /\ ~ports[p].recovery_abandoned)
    /\ ports' = [ports EXCEPT ![p].accepting = FALSE]
    /\ IF ports[p].in_flight # 0 THEN UNCHANGED stack
       ELSE Call(Frame("quiesce", "detach", p))
    /\ UNCHANGED <<registry, connected, tally>>

Stop ==
    /\ At("stop")
    /\ ports' = [ports EXCEPT ![Top.port].phase = "quiesced"]
    /\ Return
    /\ UNCHANGED <<registry, connected, tally>>

(* serio_port_unregister *)
Unregister(p) ==
    /\ Idle
    /\ ports[p].phase = "quiesced"
    /\ ports[p].queue = << >>
    /\ portSlots' = [portSlots EXCEPT ![SlotOf(p)] = None]
    /\ ClearPort(p)
    /\ UNCHANGED <<drivers, driverSlots, poisoned, stack, connected>>

(* The parent a port was prepared under, if that one is still there.       *)
Parent(q) ==
    LET r == ports[q].parent
    IN IF r # None /\ ports[r].phase # "empty"
          /\ ports[q].parent_generation = ports[r].generation THEN r ELSE None

(* port_is_in_subtree: the chain of live parents from p reaches root.      *)
Ancestors(p) ==
    LET ancestor[n \in 0..DepthMax] ==
            IF n = 0 THEN p
            ELSE IF ancestor[n - 1] = None THEN None ELSE Parent(ancestor[n - 1])
    IN ancestor

InSubtree(p, root) == \E n \in 0..DepthMax : Ancestors(p)[n] = root

Members(root) ==
    {p \in Ports : ports[p].phase # "empty" /\ InSubtree(p, root)}

(* serio_port_unregister_subtree: nothing is stopped unless every member   *)
(* is at rest.                                                             *)
UnregisterSubtree(root) ==
    /\ MayCall
    /\ ports[root].phase # "empty"
    /\ \A p \in Members(root) :
          /\ ports[p].in_flight = 0
          /\ ports[p].queue = << >>
          /\ ports[p].recovery_required => ports[p].recovery_abandoned
    /\ Call([Frame("unregister_subtree", "shut", root) EXCEPT !.event = root])
    /\ UNCHANGED <<ports, registry, connected, tally>>

Shut ==
    /\ At("shut")
    /\ ports' = [p \in Ports |-> IF p \in Members(Top.event)
                                 THEN [ports[p] EXCEPT !.accepting = FALSE]
                                 ELSE ports[p]]
    /\ Goto("down")
    /\ UNCHANGED <<registry, connected, tally>>

(* Fault: the members go in slot order, parents before their children.     *)
NextDownBySlot(members) == portSlots[Lowest({SlotOf(p) : p \in members})]

(* The member to take down next: the deepest, in slot order.               *)
NextDown(members) ==
    LET deepest == {p \in members : \A q \in members : ports[q].depth <= ports[p].depth}
    IN portSlots[Lowest({SlotOf(p) : p \in deepest})]

Down ==
    /\ At("down")
    /\ IF Members(Top.event) = {} THEN Return
       ELSE LET p == NextDown(Members(Top.event))
            IN Become([Top EXCEPT !.port = p,
                 !.pc = IF ports[p].phase = "active" THEN "detach" ELSE "clear"])
    /\ UNCHANGED <<ports, registry, connected, tally>>

Clear ==
    /\ At("clear")
    /\ portSlots' = [portSlots EXCEPT ![SlotOf(Top.port)] = None]
    /\ ClearPort(Top.port)
    /\ connected' = [connected EXCEPT ![Top.port] =
         IF ports[Top.port].phase = "poisoned" /\ ports[Top.port].driver # None
         THEN Abandoned ELSE @]
    /\ Goto("down")
    /\ UNCHANGED <<drivers, driverSlots, poisoned>>

(* serio_port_bind *)
Bind(p, d) ==
    /\ Idle /\ ~poisoned
    /\ ports[p].phase = "active" /\ ports[p].driver = None
    /\ drivers[d].registered
    /\ Call([Frame("bind", "connect", p) EXCEPT !.driver = d])
    /\ UNCHANGED <<ports, registry, connected, tally>>

MayUnbind(p) ==
    /\ ports[p].phase = "active" /\ ports[p].driver # None
    /\ ~ports[p].recovery_required
    /\ ports[p].in_flight = 0

(* serio_port_unbind *)
Unbind(p) ==
    /\ MayCall
    /\ MayUnbind(p)
    /\ Call(Frame("unbind", "detach", p))
    /\ UNCHANGED <<ports, registry, connected, tally>>

(* serio_port_reconnect up to its callback; a driver without one, or one   *)
(* that fails for good, is unbound.                                        *)
Reconnect(p) ==
    /\ Idle
    /\ ports[p].phase = "active" /\ ports[p].driver # None
    /\ ~ports[p].recovery_required
    /\ Call(Frame("unbind", "reconnect", p))
    /\ UNCHANGED <<ports, registry, connected, tally>>

ReconnectReturn ==
    /\ At("reconnect")
    /\ \/ ports[Top.port].driver \in Reconnects /\ Return
       \/ IF MayUnbind(Top.port) THEN Goto("detach") ELSE Return
    /\ UNCHANGED <<ports, registry, connected, tally>>

---------------------------------------------------------------------------
(* Stream recovery, isolation and writes.                                  *)

Discarded(p) == tally' = [tally EXCEPT ![p].discarded = @ + Len(ports[p].queue)]

(* isolate_stream_locked *)
Isolated(port) ==
    [port EXCEPT !.queue = << >>, !.accepting = FALSE, !.recovery_abandoned = TRUE]

(* Fault: an isolated stream may still be recovered.                       *)
RecoverAbandoned(p, epoch) ==
    /\ ports[p].stream_loss_epoch = epoch
    /\ ports[p].recovery_required /\ ports[p].in_flight = 0

MayRecover(p, epoch) ==
    /\ ports[p].stream_loss_epoch = epoch
    /\ ports[p].recovery_required /\ ~ports[p].recovery_abandoned
    /\ ports[p].in_flight = 0

(* serio_port_recover_stream up to the driver's reconnect callback.        *)
RecoverStream(p, epoch) ==
    LET port == ports[p]
    IN /\ MayCall
       /\ port.phase = "active"
       /\ MayRecover(p, epoch)
       /\ Discarded(p)
       /\ IF ~Usable(port.driver) \/ port.driver \notin Reconnects
          THEN /\ ports' = [ports EXCEPT ![p] = Isolated(port)]
               /\ UNCHANGED stack
          ELSE /\ ports' = [ports EXCEPT ![p].queue = << >>, ![p].in_flight = @ + 1]
               /\ Call([Frame("recover", "reconnecting", p) EXCEPT !.epoch = epoch,
                          !.driver = port.driver, !.binding = port.binding_generation])
       /\ UNCHANGED <<registry, connected>>

(* The callback's answer, and the recheck of everything it relied on.      *)
RecoverReturn ==
    /\ At("reconnecting")
    /\ LET p == Top.port
           port == [ports[p] EXCEPT !.in_flight = @ - 1]
           same == /\ port.phase = "active" /\ port.recovery_required
                   /\ port.stream_loss_epoch = Top.epoch
                   /\ port.driver = Top.driver
                   /\ port.binding_generation = Top.binding
       IN IF ~same
          THEN /\ ports' = [ports EXCEPT ![p] = [port EXCEPT !.accepting = FALSE,
                              !.recovery_abandoned = TRUE, !.phase = "poisoned"]]
               /\ UNCHANGED tally
          ELSE \/ /\ port.next_sequence < SequenceMax
                  /\ ports' = [ports EXCEPT ![p] = [port EXCEPT
                                  !.stream_recovery_epoch = Top.epoch,
                                  !.recovery_required = FALSE,
                                  !.recovery_abandoned = FALSE, !.accepting = TRUE]]
                  /\ UNCHANGED tally
               \/ /\ ports' = [ports EXCEPT ![p] = port]
                  /\ UNCHANGED tally
               \/ /\ ports' = [ports EXCEPT ![p] = Isolated(port)]
                  /\ Discarded(p)
    /\ Return
    /\ UNCHANGED <<registry, connected>>

(* serio_port_isolate_stream *)
IsolateStream(p, epoch) ==
    /\ MayCall
    /\ ports[p].phase = "active" /\ ports[p].recovery_required
    /\ ports[p].stream_loss_epoch = epoch
    /\ ports[p].in_flight = 0
    /\ ports' = [ports EXCEPT ![p] = Isolated(@)]
    /\ Discarded(p)
    /\ UNCHANGED <<registry, stack, connected>>

(* serio_write around the port's write callback.                           *)
Write(p) ==
    /\ MayCall
    /\ ports[p].phase = "active" /\ ports[p].accepting
    /\ ports[p].driver # None
    /\ ports[p].in_flight < InFlightMax
    /\ ports' = [ports EXCEPT ![p].in_flight = @ + 1]
    /\ Call([Frame("write", "writing", p) EXCEPT !.driver = ports[p].driver,
                !.binding = ports[p].binding_generation])
    /\ UNCHANGED <<registry, connected, tally>>

WriteReturn ==
    /\ At("writing")
    /\ ports' = [ports EXCEPT ![Top.port].in_flight = @ - 1]
    /\ Return
    /\ UNCHANGED <<registry, connected, tally>>

---------------------------------------------------------------------------
(* Drivers and the registry.                                               *)

(* serio_driver_register: the driver is offered to every unbound port.     *)
RegisterDriver(d, manual) ==
    /\ Idle /\ ~poisoned
    /\ ~drivers[d].registered
    /\ Free(driverSlots) # {}
    /\ drivers' = [drivers EXCEPT ![d] =
                     [Driver EXCEPT !.registered = TRUE, !.manual_bind = manual]]
    /\ driverSlots' = [driverSlots EXCEPT ![Lowest(Free(driverSlots))] = d]
    /\ IF manual THEN UNCHANGED stack
       ELSE Call([Frame("register_driver", "offer", None) EXCEPT !.driver = d])
    /\ UNCHANGED <<ports, portSlots, poisoned, connected, tally>>

Offer ==
    /\ At("offer")
    /\ LET open == {i \in Top.index..Len(portSlots) :
                      LET p == portSlots[i]
                      IN /\ p # None
                         /\ ports[p].phase = "active" /\ ports[p].driver = None
                         /\ ~ports[p].manual_bind /\ <<Top.driver, p>> \in Matches}
       IN IF open = {} THEN Return
          ELSE Become([Top EXCEPT !.pc = "connect", !.index = Lowest(open),
                                  !.port = portSlots[Lowest(open)]])
    /\ UNCHANGED <<ports, registry, connected, tally>>

(* serio_driver_unregister: withdrawn first, so that no interrupt reaches  *)
(* it while its ports are examined.                                        *)
UnregisterDriver(d) ==
    /\ MayCall
    /\ drivers[d].registered
    /\ drivers' = [drivers EXCEPT ![d].withdrawing = TRUE]
    /\ Call([Frame("unregister_driver", "examine", None) EXCEPT !.driver = d])
    /\ UNCHANGED <<ports, portSlots, driverSlots, poisoned, connected, tally>>

Bound(d) == {i \in DOMAIN portSlots : portSlots[i] # None /\ ports[portSlots[i]].driver = d}

Examine ==
    /\ At("examine")
    /\ IF \E i \in Bound(Top.driver) : ports[portSlots[i]].in_flight # 0
       THEN /\ drivers' = [drivers EXCEPT ![Top.driver].withdrawing = FALSE]
            /\ Return
       ELSE Goto("detaching") /\ UNCHANGED drivers
    /\ UNCHANGED <<ports, portSlots, driverSlots, poisoned, connected, tally>>

DetachBound ==
    /\ At("detaching")
    /\ IF Bound(Top.driver) # {}
       THEN /\ Become([Top EXCEPT !.pc = "detach",
                         !.port = portSlots[Lowest(Bound(Top.driver))]])
            /\ UNCHANGED <<drivers, driverSlots>>
       ELSE /\ drivers' = [drivers EXCEPT ![Top.driver] = Driver]
            /\ driverSlots' = [i \in DOMAIN driverSlots |->
                                 IF driverSlots[i] = Top.driver THEN None ELSE driverSlots[i]]
            /\ Become([Top EXCEPT !.pc = "reattach", !.index = 1])
    /\ UNCHANGED <<ports, portSlots, poisoned, connected, tally>>

(* Every active port left without a driver looks for another one.          *)
Reattach ==
    /\ At("reattach")
    /\ LET open == {i \in Top.index..Len(portSlots) :
                      LET p == portSlots[i]
                      IN p # None /\ ports[p].phase = "active" /\ ports[p].driver = None}
       IN IF open = {} THEN Return
          ELSE Become([Top EXCEPT !.pc = "attach", !.slot = 1, !.index = Lowest(open),
                                  !.port = portSlots[Lowest(open)]])
    /\ UNCHANGED <<ports, registry, connected, tally>>

PoisonRegistry ==
    /\ Idle /\ ~poisoned
    /\ poisoned' = TRUE
    /\ UNCHANGED <<ports, drivers, portSlots, driverSlots, stack, connected, tally>>

(* serio_registry_replace_storage with one more slot of each kind.         *)
ReplaceStorage ==
    /\ Idle /\ ~poisoned
    /\ Len(portSlots) < MaxCapacity /\ Len(driverSlots) < MaxCapacity
    /\ \A i \in DOMAIN portSlots : portSlots[i] # None =>
          ports[portSlots[i]].phase # "active" /\ ports[portSlots[i]].in_flight = 0
    /\ portSlots' = Append(portSlots, None)
    /\ driverSlots' = Append(driverSlots, None)
    /\ UNCHANGED <<ports, drivers, poisoned, stack, connected, tally>>

Next ==
    \/ \E p \in Ports :
         \/ Interrupt(p)
         \/ \E budget \in 1..QueueCapacity : Pump(p, budget)
         \/ \E sequence \in 1..SequenceMax : Consume(p, sequence)
         \/ \E parent \in Ports \cup {None}, manual \in ManualBind : Prepare(p, parent, manual)
         \/ PublishPort(p) \/ Abort(p) \/ Quiesce(p) \/ Unregister(p)
         \/ UnregisterSubtree(p)
         \/ \E d \in Drivers : Bind(p, d)
         \/ Unbind(p) \/ Reconnect(p) \/ Write(p)
         \/ \E epoch \in 1..EpochMax : RecoverStream(p, epoch) \/ IsolateStream(p, epoch)
    \/ \E d \in Drivers :
         \/ \E manual \in ManualBind : RegisterDriver(d, manual)
         \/ UnregisterDriver(d)
    \/ PoisonRegistry \/ ReplaceStorage
    \/ PumpNext \/ PumpReturn \/ RecoverReturn \/ WriteReturn \/ ReconnectReturn
    \/ Attach \/ Connect \/ Publish \/ Open \/ Undo \/ Detach \/ Disconnect
    \/ Stop \/ Shut \/ Down \/ Clear
    \/ Offer \/ Examine \/ DetachBound \/ Reattach

Spec == Init /\ [][Next]_vars

---------------------------------------------------------------------------
(* Correctness.                                                            *)

(* The state keeps the shape of struct serio_port, struct serio_driver and *)
(* the registry's slot arrays; in_flight is exactly the number of counted  *)
(* callbacks the call stack is in.                                         *)
TypeOK ==
    /\ ports \in [Ports -> PortRecords]
    /\ drivers \in [Drivers -> [registered : BOOLEAN, withdrawing : BOOLEAN,
                                manual_bind : BOOLEAN]]
    /\ portSlots \in Seq(Ports \cup {None})
    /\ driverSlots \in Seq(Drivers \cup {None})
    /\ connected \in [Ports -> Drivers \cup {None, Abandoned}]
    /\ \A p \in Ports :
         /\ Len(ports[p].queue) <= QueueCapacity
         /\ ports[p].in_flight = Cardinality({i \in DOMAIN stack :
                stack[i].port = p /\ stack[i].pc \in Counted})

(* Every byte taken from the hardware for a live port is accounted for     *)
(* exactly once: handled, rejected, unbound, refused by a closed port,     *)
(* lost, dropped as stale, discarded by a recovery, consumed by the owner, *)
(* or still in the FIFO.  serio_interrupt, serio_port_pump and             *)
(* discard_recovery_queue neither forget a byte nor count it twice,        *)
(* however interrupts and the pump interleave.                             *)
Accounted ==
    \A p \in Ports :
        LET t == tally[p]
        IN t.offered = t.handled + t.rejected + t.unbound + t.closed + t.lost
                       + t.stale + t.discarded + t.consumed + Len(ports[p].queue)

(* Bytes reach the driver in the order of the hardware: the FIFO is sorted *)
(* by sequence, and every queued byte is younger than the last byte a      *)
(* driver took, whether serio_interrupt delivered that one directly or the *)
(* pump did.                                                               *)
Fifo ==
    \A p \in Ports :
        LET q == ports[p].queue
        IN /\ \A i, j \in DOMAIN q : i < j => q[i].sequence < q[j].sequence
           /\ \A i \in DOMAIN q : tally[p].last < q[i].sequence

(* The record whose callback serio_port_pump waits for is still the head   *)
(* of the FIFO when the callback returns, so the pop removes that record   *)
(* and no other; and it belongs to the binding that is called.             *)
PumpedIsHead ==
    \A i \in DOMAIN stack : stack[i].pc = "pumping" =>
        LET port == ports[stack[i].port]
        IN /\ port.queue # << >> /\ Head(port.queue) = stack[i].event
           /\ stack[i].event.driver = port.driver
           /\ stack[i].event.binding_generation = port.binding_generation

(* While a counted callback runs, the binding it was called for stays in   *)
(* place and connected: no teardown a driver starts from its own callback  *)
(* can pull the driver out from under it.                                  *)
InUseStaysBound ==
    \A i \in DOMAIN stack : stack[i].pc \in Counted =>
        LET p == stack[i].port
        IN /\ ports[p].driver = stack[i].driver
           /\ connected[p] = stack[i].driver
           /\ ports[p].binding_generation = stack[i].binding

(* A driver that connected to a port is reachable from it, or about to be  *)
(* published or disconnected by the call that connected or detached it:    *)
(* no failed open, unbind or teardown leaks a connection.  The exception   *)
(* is marked where it happens: unregister_subtree clears a poisoned port   *)
(* without detaching its driver.                                           *)
ConnectionsOwned ==
    \A p \in Ports : connected[p] \notin {None, Abandoned} =>
        \/ ports[p].driver = connected[p]
        \/ \E i \in DOMAIN stack :
             stack[i].port = p /\ stack[i].pc \in {"publish", "undo", "disconnect"}

(* A port never holds a driver that has left the registry, and a driver    *)
(* being withdrawn is in its slot until its last port let it go.           *)
BoundIsRegistered ==
    \A p \in Ports : ports[p].driver # None =>
        /\ drivers[ports[p].driver].registered
        /\ \E i \in DOMAIN driverSlots : driverSlots[i] = ports[p].driver

(* The parent of a live port is live, of the generation the child was      *)
(* prepared under, and one level up: teardown never orphans a child, and   *)
(* the bounded walk of port_is_in_subtree reaches every descendant.        *)
NoOrphans ==
    \A p \in Ports : ports[p].phase # "empty" /\ ports[p].parent # None =>
        LET q == ports[p].parent
        IN /\ ports[q].phase \in {"active", "poisoned"}
           /\ ports[q].generation = ports[p].parent_generation
           /\ ports[p].depth = ports[q].depth + 1

(* The registry's relations, parent to child, port to driver and driver to *)
(* running callback, are whole at every step of every registration,        *)
(* binding, delivery and teardown: all of the above.                       *)
BindingsHeld ==
    /\ InUseStaysBound /\ PumpedIsHead /\ ConnectionsOwned
    /\ BoundIsRegistered /\ NoOrphans

(* A port is open for bytes only while active and with no loss waiting for *)
(* recovery, and only the exhaustion of the loss epochs ever poisons one:  *)
(* the recheck after a recovery callback and after a failed open never     *)
(* finds its state changed.                                                *)
OpenIsClean ==
    \A p \in Ports :
        /\ ports[p].accepting => ports[p].phase = "active" /\ ~ports[p].recovery_required
        /\ ports[p].phase = "poisoned" => ports[p].stream_loss_epoch = EpochMax

(* A byte the hardware source offers after serio_port_receive_preflight    *)
(* said OK is never lost: backpressure is reported before the byte is      *)
(* consumed, not after.                                                    *)
PreflightKeepsByte ==
    [][\A p \in Ports : ReceivePreflight(ports[p]) = "ok" /\ tally'[p].offered > tally[p].offered
         => tally'[p].lost = tally[p].lost]_vars

(* Bytes are accounted for, in order, and not lost once the preflight has  *)
(* let them in.                                                            *)
BytesKept == [](Accounted /\ Fifo) /\ PreflightKeepsByte

(* A closed stream reopens only through the recovery of its latest loss,   *)
(* with no byte from before that loss left in the FIFO, and an isolated    *)
(* stream stays closed until the port is torn down; until then no byte is  *)
(* taken.                                                                  *)
RecoveryExact ==
    []OpenIsClean /\
    [][\A p \in Ports :
         ports[p].recovery_required /\ ports'[p].generation = ports[p].generation
         /\ ports'[p].phase # "empty" =>
           /\ ~ports'[p].recovery_required =>
                /\ ports'[p].stream_recovery_epoch = ports[p].stream_loss_epoch
                /\ ports'[p].queue = << >>
                /\ At("reconnecting") /\ Top.epoch = ports[p].stream_loss_epoch
           /\ ports[p].recovery_abandoned =>
                ports'[p].recovery_abandoned /\ ports'[p].recovery_required]_vars
=============================================================================
