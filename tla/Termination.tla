---------------------------- MODULE Termination ----------------------------
(* CurrentPDB and the DTA with the generation that tells their snapshots    *)
(* apart, and the end of a process: its parent's handlers are put back, its *)
(* memory is freed, its handles are closed and its parent's runtime         *)
(* restored, in this order, and what fails once that has begun poisons.     *)
EXTENDS JftResize

CONSTANT RuntimeGenerationMax
ASSUME RuntimeAssumption == RuntimeGenerationMax \in Nat \ {0}

(* A DTA is the one at offset 80h of a PSP, or one the program chose. *)
OwnDta == 0
Snapshot ==
  [generation : 1 .. RuntimeGenerationMax, current : Psps,
   dta : {OwnDta} \cup Psps]

(* runtime_can_advance *)
CanAdvance(d) ==
  /\ "runtime" \notin d.poison
  /\ d.runtime.generation < RuntimeGenerationMax

Advance(d, current, dta) ==
  [d EXCEPT !.runtime = [generation |-> @.generation + 1,
                         current |-> current, dta |-> dta]]

(* dos_process_runtime_publish_exec *)
PublishExec(d, child) == Advance(d, child, child)

(* Fault: the parent gets the DTA of its child. *)
RestoreParentDta(d, saved) == Advance(d, saved.current, d.runtime.dta)

(* dos_process_runtime_restore_parent *)
RestoreParent(d, saved) == Advance(d, saved.current, saved.dta)

(* poison_termination_domain *)
PoisonDomain(d) == [d EXCEPT !.poison = @ \cup {"arena", "runtime"}]

-----------------------------------------------------------------------------

(* The plan matches the process that runs: it is the current one, its PSP   *)
(* names the parent that is to be resumed, and it began after the snapshot. *)
PlanIsCurrent(d, saved, p) ==
  /\ d.runtime.current = p
  /\ d.psps[p].parent = saved.current
  /\ d.runtime.generation > saved.generation

(* dos_memory_free_process_checked *)
FreeProcess(d, p) ==
  IF "arena" \in d.poison THEN {Result(d, "POISONED")}
  ELSE {Result([d EXCEPT !.arena =
                  [b \in Blocks |-> IF @[b] = p THEN NoOwner ELSE @[b]]],
               "OK")}
         \cup IF CanFail(d) THEN {Result(Faulty(d), "FAULT")} ELSE {}

ClosedEntries(d, p) == d.psps[p].length

(* One entry of dos_termination_close_handles *)
CloseEntry(d, n) ==
  CASE Lookup(d, n) = "INVALID_SFT" -> {Result(d, "OK")}
    [] Lookup(d, n) = "FAULT" -> {Result(d, "FAULT")}
    [] OTHER -> ReleaseEntry(d, Reference(d, n))

(* dos_termination_close_handles: from the last entry down, whatever fails; *)
(* the table may lie in memory that has just been freed                     *)
CloseHandles(d, p) ==
  LET C[k \in 0 .. ClosedEntries(d, p)] ==
        IF k = 0 THEN {Result(d, "OK")}
        ELSE UNION {{Result(u.d, IF u.st = "OK" THEN r.st ELSE "FAULT")
                       : u \in CloseEntry(r.d,
                                 EntryAt(d, p, ClosedEntries(d, p) - k))}
                      : r \in C[k - 1]}
  IN  C[ClosedEntries(d, p)]

(* What follows the vectors: from here on a failure poisons the domain. *)
TearDown(d, saved, p) ==
  UNION {IF m.st # "OK" THEN {Result(PoisonDomain(m.d), "POISONED")}
         ELSE {IF c.st = "OK" /\ CanAdvance(c.d)
                 THEN Result(Forget(RestoreParent(c.d, saved)), "OK")
                 ELSE Result(PoisonDomain(c.d), "POISONED")
                 : c \in CloseHandles(m.d, p)}
         : m \in FreeProcess(d, p)}

(* dos_termination_restore_vectors *)
RestoreVectors(d, p) ==
  Replace(d, [d EXCEPT !.vectors = d.psps[p].vectors])

(* dos_termination_execute *)
Terminate(d, saved, p) ==
  IF "runtime" \in d.poison THEN {Result(d, "RUNTIME_FAULT")}
  ELSE (IF CanFail(d) THEN {Result(Faulty(d), "MACHINE_FAULT")} ELSE {})
         \cup
       IF ~PlanIsCurrent(d, saved, p) THEN {Result(d, "STALE_PLAN")}
       ELSE UNION {CASE v.st = "OK" -> TearDown(v.d, saved, p)
                     [] v.st = "FAULT" -> {Result(v.d, "MACHINE_FAULT")}
                     [] OTHER -> {Result(PoisonDomain(v.d), "POISONED")}
                   : v \in RestoreVectors(d, p)}

=============================================================================
