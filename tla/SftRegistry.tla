---------------------------- MODULE SftRegistry ----------------------------
(* The system file table: one slot per open file description, shared by the *)
(* job file tables (JFTs) of all processes.  A slot counts the JFT entries  *)
(* that name it, and the device opens that go with them.  Operations take   *)
(* a state d of the DOS domain and answer with the set of results they may  *)
(* have, [d, st]: only a backend's close has more than one.                 *)
EXTENDS Integers, FiniteSets, FiniteSetsExt

CONSTANTS SfnCount,            \* slots (FFh marks an unused JFT entry)
          SftGenerationMax,    \* DOS_SFT_HANDLE_GENERATION_MAX
          HandleCount,         \* handles the file backend can have open
          PositionMax,         \* bound: how far a cursor moves
          FaultMax             \* bound: failures of external parts, in all

ASSUME SftAssumption ==
  /\ SfnCount \in Nat \ {0} /\ SftGenerationMax \in Nat \ {0}
  /\ HandleCount \in Nat /\ PositionMax \in Nat /\ FaultMax \in Nat

Sfns == 0 .. SfnCount - 1
UNUSED == SfnCount                       \* DOS_JFT_ENTRY_UNUSED
Handles == 1 .. HandleCount
NoHandle == 0                            \* KERNEL_OBJECT_HANDLE_INVALID

SftSlot ==
  [state : {"FREE", "RESERVED", "PRESENT", "POISONED"},
   generation : 0 .. SftGenerationMax,
   kind : {"STANDARD", "FILE", "DEVICE"}, handle : Handles \cup {NoHandle},
   inherit : BOOLEAN, references : Nat, device_opens : Nat,
   position : 0 .. PositionMax]

Result(d, st) == [d |-> d, st |-> st]

(* An external part misbehaves. *)
CanFail(d) == d.faults < FaultMax
Faulty(d)  == [d EXCEPT !.faults = @ + 1]

Blank(generation) ==
  [state |-> "FREE", generation |-> generation, kind |-> "STANDARD",
   handle |-> NoHandle, inherit |-> FALSE, references |-> 0,
   device_opens |-> 0, position |-> 0]

(* dos_sft_registry_initialize, and CON for the first JFT entries *)
SftInit(standard) ==
  [n \in Sfns |->
     IF n = 0
       THEN [Blank(1) EXCEPT !.state = "PRESENT", !.inherit = TRUE,
                             !.references = standard,
                             !.device_opens = standard]
       ELSE Blank(0)]

Reference(d, n) == <<n, d.sft[n].generation>>

(* resolve_reference *)
Resolves(d, ref) ==
  d.sft[ref[1]].state # "FREE" /\ d.sft[ref[1]].generation = ref[2]

PoisonSlot(d, n) == [d EXCEPT !.sft[n].state = "POISONED"]

Recycle(d, n) == [d EXCEPT !.sft[n] = Blank(@.generation)]

(* dos_sft_registry_resolve: a slot that a JFT entry may use *)
Usable(d, n) == d.sft[n].state = "PRESENT" /\ d.sft[n].references # 0

(* The handle with which the I/O manager may open a file, when it has one. *)
BackendHandles(d) ==
  {h \in Handles \ d.open : \A k \in Handles \ d.open : h <= k}

-----------------------------------------------------------------------------
(* Opening: a slot is reserved before the backend is asked                 *)

(* Fault: the generations of a slot are not counted to their end. *)
ReservableForever(d) == {n \in Sfns : d.sft[n].state = "FREE"}

Reservable(d) ==
  {n \in Sfns : /\ d.sft[n].state = "FREE"
                /\ d.sft[n].generation < SftGenerationMax}

Reserve(d) ==
  LET n == Min(Reservable(d))
  IN  [d EXCEPT !.sft[n] = [Blank(@.generation + 1)
                              EXCEPT !.state = "RESERVED"]]

Cancel(d, n) == Recycle(d, n)

Publish(d, n, kind, handle, inherit) ==
  [d EXCEPT !.sft[n] =
     [@ EXCEPT !.state = "PRESENT", !.kind = kind, !.handle = handle,
               !.inherit = inherit, !.references = 1, !.device_opens = 1,
               !.position = 0]]

(* dos_sft_registry_update_io; the size of the file is left out *)
UpdateIo(d, n, position) == [d EXCEPT !.sft[n].position = position]

-----------------------------------------------------------------------------
(* Closing                                                                 *)

(* dos_sft_runtime_close: CON has no backend; a file is closed or refuses;  *)
(* a device may also not know.                                              *)
CloseAnswers(kind) ==
  {"CLOSED"} \cup (IF kind # "STANDARD" THEN {"EXACT_FAILURE"} ELSE {})
             \cup (IF kind = "DEVICE" THEN {"UNCERTAIN"} ELSE {})

InvokeBackendClose(d, n) ==
  LET shut == [d EXCEPT !.open = @ \ {d.sft[n].handle}]
      answers == IF CanFail(d) THEN CloseAnswers(d.sft[n].kind) ELSE {"CLOSED"}
  IN  {Result(shut, "OK")}
        \cup {Result(Faulty(d), "BACKEND_FAILURE")
                : a \in answers \cap {"EXACT_FAILURE"}}
        \cup {Result(PoisonSlot(Faulty(e), n), "POISONED")
                : e \in {x \in {d, shut} : "UNCERTAIN" \in answers}}

(* A backend that closed gives its slot back. *)
Closed(d, n) ==
  {IF r.st = "OK" THEN Result(Recycle(r.d, n), "OK") ELSE r
     : r \in InvokeBackendClose(d, n)}

(* ... and one that did not leaves the slot unusable. *)
ClosedOrPoisoned(d, n) ==
  {IF r.st = "OK" THEN r ELSE Result(PoisonSlot(r.d, n), "FAULT")
     : r \in Closed(d, n)}

DropReference(d, n) ==
  [d EXCEPT !.sft[n].references = @ - 1, !.sft[n].device_opens = @ - 1]

(* dos_sft_registry_close_reference *)
CloseReference(d, ref) ==
  LET n == ref[1]
      slot == d.sft[n]
  IN  IF ~Resolves(d, ref) THEN {Result(d, "STALE_REFERENCE")}
      ELSE IF slot.state = "POISONED" THEN {Result(d, "POISONED")}
      ELSE IF ~Usable(d, n) THEN {Result(d, "INVALID_STATE")}
      ELSE IF slot.device_opens # slot.references
             THEN {Result(PoisonSlot(d, n), "POISONED")}
      ELSE IF slot.references > 1 THEN {Result(DropReference(d, n), "OK")}
      ELSE Closed(d, n)

(* dos_sft_registry_poison *)
Poison(d, ref) ==
  IF Resolves(d, ref) THEN PoisonSlot(d, ref[1]) ELSE d

-----------------------------------------------------------------------------
(* What EXEC and termination do, one JFT entry at a time                   *)

(* registry_lookup *)
Lookup(d, n) ==
  CASE n \notin Sfns -> "INVALID_SFT"
    [] n \in Sfns /\ d.sft[n].state = "POISONED" -> "FAULT"
    [] OTHER -> IF Usable(d, n) THEN "OK" ELSE "INVALID_SFT"

(* registry_device_open *)
CanDeviceOpen(d, ref) ==
  /\ Resolves(d, ref) /\ Usable(d, ref[1])
  /\ d.sft[ref[1]].device_opens = d.sft[ref[1]].references

DeviceOpen(d, ref) == [d EXCEPT !.sft[ref[1]].device_opens = @ + 1]

(* registry_reference_acquire *)
CanAcquire(d, ref) ==
  /\ Resolves(d, ref) /\ Usable(d, ref[1])
  /\ d.sft[ref[1]].device_opens = d.sft[ref[1]].references + 1

Acquire(d, ref) == [d EXCEPT !.sft[ref[1]].references = @ + 1]

(* registry_reference_release *)
ReferenceRelease(d, ref) ==
  LET slot == d.sft[ref[1]]
  IN  IF /\ Resolves(d, ref) /\ Usable(d, ref[1])
         /\ slot.device_opens = slot.references
        THEN Result([d EXCEPT !.sft[ref[1]].references = @ - 1], "OK")
        ELSE Result(d, "FAULT")

(* registry_device_close: the last one closes the backend *)
DeviceClose(d, ref) ==
  LET slot == d.sft[ref[1]]
  IN  IF ~ /\ Resolves(d, ref) /\ slot.state = "PRESENT"
           /\ slot.device_opens = slot.references + 1
        THEN {Result(d, "FAULT")}
      ELSE IF slot.references # 0
        THEN {Result([d EXCEPT !.sft[ref[1]].device_opens = @ - 1], "OK")}
      ELSE ClosedOrPoisoned(d, ref[1])

(* A JFT entry is given up: first the reference, then the device open. *)
ReleaseEntry(d, ref) ==
  LET released == ReferenceRelease(d, ref)
  IN  IF released.st = "OK" THEN DeviceClose(released.d, ref) ELSE {released}

=============================================================================
