---------------------------- MODULE Int21Handles ----------------------------
(* The INT 21h functions a program uses on its handles and on its process:  *)
(* each is one call d -> set of [d, st], with st HANDLED (the program goes  *)
(* on, successfully or not), FAULT or POISONED (it does not).  p is the     *)
(* process of CurrentPDB, whoever is running.                               *)
EXTENDS Termination

Kinds == {"FILE", "DEVICE"}

(* context->machine_poisoned *)
Poisoned(d) == Result([d EXCEPT !.poison = @ \cup {"int21"}], "POISONED")
Handled(d)  == Result(d, "HANDLED")

(* dos_int21_dispatch: a domain that is poisoned answers nothing *)
Dispatch(d, results) ==
  IF d.poison \cap {"int21", "arena", "runtime"} # {} THEN {Poisoned(d)}
  ELSE results

(* A usable entry of the table: int21_resolve_handle *)
Named(d, p) ==
  {j \in JftIndices(d, p) : EntryAt(d, p, j) \in Sfns}

(* The entry that int21_find_free_jfn returns. *)
FreeJfns(d, p) == {j \in JftIndices(d, p) : EntryAt(d, p, j) = UNUSED}

(* A call on an open handle; a poisoned description poisons the machine. *)
OnHandle(d, p, j, Call(_)) ==
  LET n == EntryAt(d, p, j)
  IN  IF d.sft[n].state = "POISONED" THEN {Poisoned(d)}
      ELSE IF ~Usable(d, n) THEN {Handled(d)}
      ELSE Call(n)

-----------------------------------------------------------------------------
(* AH=3Dh and AH=3Ch                                                        *)

(* Fault: the description of a handle that nobody can name is left open. *)
AfterJftForgetful(d, ref, r) ==
  IF r.st = "OK" THEN {Handled(r.d)}
  ELSE IF r.st = "FAULT" THEN {Result(r.d, "FAULT")} ELSE {Poisoned(r.d)}

(* The end of int21_publish_open_handle: when the JFT does not take the     *)
(* handle, its description is closed again.                                 *)
AfterJft(d, ref, r) ==
  IF r.st = "OK" THEN {Handled(r.d)}
  ELSE {IF c.st = "OK" /\ r.st = "FAULT" THEN Result(c.d, "FAULT")
        ELSE Poisoned(c.d)
        : c \in CloseReference(r.d, ref)}

(* int21_publish_open_handle; n is the reserved slot *)
PublishOpen(d, p, j, n, kind, h, inherit) ==
  LET e == Publish([d EXCEPT !.open = @ \cup {h}], n, kind, h, inherit)
  IN  UNION {AfterJft(e, Reference(e, n), r)
               : r \in Replace(e, SetEntry(e, p, j, n))}

(* The path is out of reach, or the device cannot say whether it opened; d  *)
(* no longer has the reservation.                                           *)
OpenFails(d, kind) ==
  IF ~CanFail(d) THEN {}
  ELSE {Result(Faulty(d), "FAULT")}
         \cup IF kind = "DEVICE" THEN {Poisoned(Faulty(d))} ELSE {}

(* dispatch_open_file *)
Open(d, p, kind, inherit) ==
  LET n == Min(Reservable(d))
      e == Reserve(d)
  IN  IF Reservable(d) = {}
        THEN {IF \E k \in Sfns : d.sft[k].state = "FREE"
                THEN Result(d, "FAULT") ELSE Handled(d)}
      ELSE IF FreeJfns(d, p) = {} THEN {Handled(Cancel(e, n))}
      ELSE {Handled(Cancel(e, n))}          \* the backend refuses
             \cup OpenFails(Cancel(e, n), kind)
             \cup UNION {PublishOpen(e, p, Min(FreeJfns(d, p)), n, kind, h,
                                     inherit)
                         : h \in BackendHandles(d)}

(* dispatch_create_file *)
Create(d, p) == Open(d, p, "FILE", TRUE)

-----------------------------------------------------------------------------
(* AH=3Eh                                                                   *)

(* dispatch_close_file: the description first, then the entry; an entry     *)
(* that cannot be cleared names a description that is gone                  *)
Close(d, p, j) ==
  LET Shut(n) ==
        UNION {CASE c.st = "BACKEND_FAILURE" -> {Handled(c.d)}
                 [] c.st = "OK" ->
                      {IF r.st = "OK" THEN Handled(r.d)
                       ELSE Poisoned(Poison(r.d, Reference(d, n)))
                       : r \in Replace(c.d, SetEntry(c.d, p, j, UNUSED))}
                 [] OTHER -> {Poisoned(c.d)}
               : c \in CloseReference(d, Reference(d, n))}
  IN  OnHandle(d, p, j, Shut)

-----------------------------------------------------------------------------
(* AH=3Fh, 40h and 42h: the cursor belongs to the description, and every    *)
(* chunk that was transferred has moved it                                  *)

(* The buffer of the program is out of reach: a file is left as it was, but *)
(* what CON or a device has given is lost, and the description with it.     *)
ReadFails(d, n) ==
  IF ~CanFail(d) THEN {}
  ELSE IF d.sft[n].kind = "FILE"
    THEN {Result(Faulty(d), "FAULT"), Poisoned(Faulty(d))}
  ELSE {Poisoned(PoisonSlot(Faulty(d), n))}

(* Where a transfer may leave the cursor: a device and CON have none. *)
Onward(slot) ==
  IF slot.kind = "FILE" THEN slot.position .. PositionMax ELSE {slot.position}

(* dispatch_read_file *)
Read(d, p, j) ==
  LET Move(n) == {Handled(UpdateIo(d, n, k)) : k \in Onward(d.sft[n])}
                   \cup ReadFails(d, n)
  IN  OnHandle(d, p, j, Move)

WriteFails(d, n) ==
  IF ~CanFail(d) THEN {}
  ELSE {Result(Faulty(d), "FAULT")}
         \cup IF d.sft[n].kind = "DEVICE"
                THEN {Poisoned(PoisonSlot(Faulty(d), n))} ELSE {}

(* dispatch_write_handle: writing nothing changes nothing *)
Write(d, p, j) ==
  LET Move(n) == {Handled(UpdateIo(d, n, k)) : k \in Onward(d.sft[n])}
                   \cup WriteFails(d, n)
  IN  OnHandle(d, p, j, Move)

(* dispatch_seek_file: from the start, the cursor or the end, or refused *)
Seek(d, p, j) ==
  LET Move(n) ==
        {Handled(d)}
          \cup IF d.sft[n].kind # "FILE" THEN {}
               ELSE {Handled(UpdateIo(d, n, k)) : k \in 0 .. PositionMax}
  IN  OnHandle(d, p, j, Move)

-----------------------------------------------------------------------------

(* dispatch_set_handle_count *)
SetHandleCount(d, p, n) ==
  {CASE r.st = "POISONED" -> Poisoned(PoisonArena(r.d))
     [] r.st = "FAULT" -> Result(r.d, "FAULT")
     [] OTHER -> Handled(r.d)
     : r \in Resize(d, p, n)}

(* set_runtime_current_psp and dispatch_set_dta: a generation that cannot   *)
(* be counted poisons                                                       *)
SetRuntime(d, current, dta) ==
  IF CanAdvance(d) THEN {Handled(Advance(d, current, dta))}
  ELSE {Poisoned([d EXCEPT !.poison = @ \cup {"runtime"}])}

(* dispatch_set_interrupt_vector: the running program takes a vector over *)
SetVectors(d, p) ==
  {CASE r.st = "OK" -> Handled(r.d)
     [] r.st = "FAULT" -> Result(r.d, "FAULT")
     [] OTHER -> Poisoned(r.d)
     : r \in Replace(d, [d EXCEPT !.vectors = p])}

=============================================================================
