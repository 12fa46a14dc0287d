--------------------------- MODULE ConsoleKeyboard ---------------------------
(* The native console, one of the two consumers of decoded key events: its  *)
(* key FIFO, the modifiers it believes are down, and the reference through  *)
(* which the prompt finds it (kernel/keyboard.c).                           *)
(*                                                                          *)
(* The input modules work on a record h of the whole input path; an         *)
(* operation gives the record it leaves and its status.                     *)
EXTENDS Naturals, Sequences

CONSTANTS
  RecordCap,           \* console_key_capacity
  RawCap,              \* keyboard_byte_capacity
  DecodedCap           \* decoded_event_capacity

ASSUME CapacityAssumption == {RecordCap, RawCap, DecodedCap} \subseteq Nat \ {0}

Then(r, Op(_)) == IF r.st = "OK" THEN Op(r.h) ELSE r
Result(h, st) == [h |-> h, st |-> st]

(* Two modifiers, an extended key that is read as text, and the key that    *)
(* the second byte of the latter stands for on its own.                     *)
CTRL  == "CTRL"
SHIFT == "SHIFT"
TEXT  == "TEXT"
PAD   == "PAD"
Keys  == {CTRL, SHIFT, TEXT, PAD}
StateKeys == {CTRL, SHIFT}

Values == {"PRESSED", "REPEATED", "RELEASED"}

None == "none"
Handlers == {"console", "guest"}

Console ==
  [phase : {"EMPTY", "REGISTERED", "FOCUSED", "POISONED"},
   generation : Nat,          \* of the focus; 0 without
   held : SUBSET StateKeys,
   default : BOOLEAN]         \* default_reference names it

ConsoleInit ==
  [phase |-> "EMPTY", generation |-> 0, records |-> <<>>, held |-> {},
   default |-> FALSE]

(* keyboard_console_register *)
ConsoleRegister(h) == [h EXCEPT !.con.phase = "REGISTERED"]

(* discard_records, clear_transient_state *)
Discarded(con) == [con EXCEPT !.records = <<>>, !.held = {}]

(* console_focus_enter *)
ConsoleEnter(h, generation) ==
  IF h.con.phase # "REGISTERED" THEN Result(h, "BROKEN")
  ELSE Result([h EXCEPT !.con = [Discarded(@) EXCEPT !.phase = "FOCUSED",
                                          !.generation = generation]], "OK")

(* console_focus_leave *)
ConsoleLeave(h, generation) ==
  IF generation # h.con.generation
  THEN [h EXCEPT !.con.phase = "POISONED"]
  ELSE [h EXCEPT !.con = [Discarded(@) EXCEPT !.generation = 0,
                          !.phase = IF @ = "POISONED" THEN @
                                    ELSE "REGISTERED"]]

(* consume_state_event *)
HeldAfter(held, event) ==
  IF event.value = "RELEASED" THEN held \ {event.key}
  ELSE held \cup {event.key}

(* console_receive: a full FIFO refuses the event before anything changes *)
ConsoleReceive(h, event) ==
  CASE h.con.phase # "FOCUSED" \/ event.generation # h.con.generation ->
         Result([h EXCEPT !.con.phase = "POISONED"], "BROKEN")
    [] OTHER ->
         CASE event.key \in StateKeys ->
                Result([h EXCEPT !.con.held = HeldAfter(@, event)], "HANDLED")
           [] event.value = "RELEASED" -> Result(h, "HANDLED")
           [] Len(h.con.records) = RecordCap -> Result(h, "DEFER")
           [] OTHER -> Result([h EXCEPT !.con.records =
                                          Append(@, event.key)], "HANDLED")

(* keyboard_default_bind *)
DefaultBind(h) ==
  CASE h.con.phase = "POISONED" -> Result(h, "POISONED")
    [] h.con.phase \in {"EMPTY", "REGISTERED"} -> Result(h, "INVALID_STATE")
    [] OTHER -> Result([h EXCEPT !.con.default = TRUE], "OK")

(* keyboard_default_unbind *)
DefaultUnbind(h) ==
  IF h.con.default THEN Result([h EXCEPT !.con.default = FALSE], "OK")
  ELSE Result(h, "NOT_FOUND")

(* resolve_default_reference *)
DefaultConsole(h) == h.con.default /\ h.con.phase = "FOCUSED"

(* keyboard_getchar: the prompt takes the oldest record, and halts until    *)
(* the next interrupt when there is none                                    *)
CanRead(h) == DefaultConsole(h) /\ h.con.records # <<>>
ReadCharacter(h) == [h EXCEPT !.con.records = Tail(@)]
=============================================================================
