----------------------------- MODULE JftResize -----------------------------
(* The memory of DOS processes as far as their job file tables need it: the *)
(* block of every process, whose PSP holds a table of JftMinimum entries,   *)
(* and the blocks that hold larger tables; and AH=67h, which moves a table  *)
(* between them.  What a block holds once it is free and no call is left    *)
(* that reads it is forgotten.                                              *)
EXTENDS ExecHoldings

CONSTANTS PspCount,            \* processes that fit into memory
          TableCount,          \* blocks for larger tables that fit
          JftMaximum           \* bound: the largest table asked for

ASSUME JftAssumption ==
  /\ PspCount \in Nat \ {0} /\ TableCount \in Nat
  /\ JftMaximum \in Nat /\ JftMaximum >= JftMinimum

Psps == 1 .. PspCount
Tables == PspCount + 1 .. PspCount + TableCount
Blocks == Psps \cup Tables
NoOwner == 0
Inline == 0                    \* the table is the one in the PSP

(* struct dos_psp_prefix40: the parent, the handlers that were in force at  *)
(* EXEC, and the control and the inline entries of the table                *)
Psp ==
  [parent : Psps, vectors : Psps, length : JftMinimum .. JftMaximum,
   table : {Inline} \cup Tables, inline : [0 .. JftMinimum - 1 -> Entry]]

FreshPsp ==
  [parent |-> 1, vectors |-> 1, length |-> JftMinimum, table |-> Inline,
   inline |-> [j \in 0 .. JftMinimum - 1 |-> UNUSED]]

Unused(n) == [j \in 0 .. n - 1 |-> UNUSED]

EntryAt(d, p, j) ==
  IF d.psps[p].table = Inline THEN d.psps[p].inline[j]
                              ELSE d.tables[d.psps[p].table][j]

JftIndices(d, p) == 0 .. d.psps[p].length - 1

SetEntry(d, p, j, n) ==
  IF d.psps[p].table = Inline
    THEN [d EXCEPT !.psps[p].inline[j] = n]
    ELSE [d EXCEPT !.tables[d.psps[p].table][j] = n]

(* dos_machine_replace: done; refused with the old bytes in place; or the   *)
(* old bytes could not be put back, and nobody knows which are there        *)
Replace(old, new) ==
  {Result(new, "OK")}
    \cup IF CanFail(old)
           THEN {Result(Faulty(old), "FAULT"),
                 Result(Faulty(old), "ROLLBACK_FAILED"),
                 Result(Faulty(new), "ROLLBACK_FAILED")}
           ELSE {}

PoisonArena(d) == [d EXCEPT !.poison = @ \cup {"arena"}]

(* Nobody reads the tables in blocks that are free. *)
Forget(d) ==
  [d EXCEPT !.tables = [b \in Tables |-> IF d.arena[b] = NoOwner
                                          THEN Unused(JftMaximum) ELSE @[b]],
            !.psps = [p \in Psps |-> IF d.arena[p] = NoOwner
                                      THEN FreshPsp ELSE @[p]]]

(* dos_memory_free_owned_checked *)
FreeOwned(d, block, owner) ==
  IF "arena" \in d.poison THEN {Result(d, "POISONED")}
  ELSE IF d.arena[block] # owner THEN {Result(d, "INVALID_STATE")}
  ELSE {Result(Forget([d EXCEPT !.arena[block] = NoOwner]), "OK")}
         \cup IF CanFail(d)
                THEN {Result(Faulty(d), "FAULT"),
                      Result(PoisonArena(Faulty(d)), "POISONED")}
                ELSE {}

-----------------------------------------------------------------------------

(* The blocks a new table may have: dos_memory_allocate_checked *)
FreeTables(d) == {b \in Tables : d.arena[b] = NoOwner}

(* cleanup_new_block *)
CleanupNew(d, b, p, st) ==
  {IF r.st = "OK" THEN Result(r.d, st)
                  ELSE Result(PoisonArena(r.d), "POISONED")
     : r \in FreeOwned(d, b, p)}

(* populate_external_table *)
Populate(d, p, b, n) ==
  [d EXCEPT !.arena[b] = p,
            !.tables[b] =
              [j \in 0 .. JftMaximum - 1 |->
                 IF j < n /\ j < d.psps[p].length THEN EntryAt(d, p, j)
                                                  ELSE UNUSED]]

(* What becomes of the old block once the PSP names the new table: undo is  *)
(* what puts the PSP back                                                   *)
ReleaseOld(d, p, old, Undo(_)) ==
  IF old = Inline THEN {Result(d, "OK")}
  ELSE UNION {CASE r.st = "OK" -> {r}
                [] r.st = "POISONED" -> {Result(PoisonArena(r.d), r.st)}
                [] OTHER -> Undo(r.d)
              : r \in FreeOwned(d, old, p)}

(* resize_to_external *)
ResizeToExternal(d, p, n) ==
  LET b        == Min(FreeTables(d))
      filled   == Populate(d, p, b, n)
      control  == [table |-> d.psps[p].table, length |-> d.psps[p].length]
      named    == [filled EXCEPT !.psps[p].table = b, !.psps[p].length = n]
      Back(e)  == [e EXCEPT !.psps[p].table = control.table,
                            !.psps[p].length = control.length]
      \* rollback_external_publication
      Undo(e)  == UNION {IF r.st = "OK" THEN CleanupNew(r.d, b, p, "FAULT")
                         ELSE {Result(PoisonArena(r.d), "POISONED")}
                         : r \in Replace(e, Back(e))}
  IN  IF FreeTables(d) = {} THEN {Result(d, "NOT_ENOUGH_MEMORY")}
      ELSE (UNION {CASE r.st = "OK" -> ReleaseOld(r.d, p, control.table, Undo)
                     [] r.st = "FAULT" -> CleanupNew(r.d, b, p, "FAULT")
                     [] OTHER -> {Result(PoisonArena(r.d), "POISONED")}
                   : r \in Replace(filled, named)})
             \cup IF CanFail(d)
                    THEN CleanupNew(Faulty([d EXCEPT !.arena[b] = p]), b, p,
                                    "FAULT")
                    ELSE {}

(* resize_to_inline: entries and control are one replacement *)
ResizeToInline(d, p) ==
  LET old     == d.psps[p]
      kept    == [j \in 0 .. JftMinimum - 1 |-> EntryAt(d, p, j)]
      named   == [d EXCEPT !.psps[p].inline = kept, !.psps[p].table = Inline,
                           !.psps[p].length = JftMinimum]
      Undo(e) == {IF r.st = "OK" THEN Result(r.d, "FAULT")
                  ELSE Result(PoisonArena(r.d), "POISONED")
                  : r \in Replace(e, [e EXCEPT !.psps[p] = old])}
  IN  UNION {CASE r.st = "OK" -> ReleaseOld(r.d, p, old.table, Undo)
               [] r.st = "FAULT" -> {r}
               [] OTHER -> {Result(PoisonArena(r.d), "POISONED")}
             : r \in Replace(d, named)}

(* Fault: entries that are open are cut off. *)
ClosedTailAny(d, p, n) == TRUE

(* scan_closed_tail *)
ClosedTail(d, p, n) ==
  \A j \in JftIndices(d, p) : j >= n => EntryAt(d, p, j) = UNUSED

(* dos_jft_resize_checked, for a size the caller may ask *)
Resize(d, p, n) ==
  LET old == d.psps[p]
  IN  IF n = old.length THEN {Result(d, "OK")}
      ELSE IF n < old.length /\ ~ClosedTail(d, p, n)
        THEN {Result(d, "TOO_MANY_OPEN_FILES")}
      ELSE IF "arena" \in d.poison THEN {Result(d, "POISONED")}
      ELSE IF old.table # Inline /\ d.arena[old.table] # p
        THEN {Result(d, "INVALID_STATE")}         \* preflight_old_external
      ELSE IF n < old.length /\ n = JftMinimum THEN ResizeToInline(d, p)
      ELSE ResizeToExternal(d, p, n)

=============================================================================
