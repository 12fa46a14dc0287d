---------------------------- MODULE ExecJournal ----------------------------
(***************************************************************************)
(* The undo journal of one EXEC (dos/exec_journal.c): every guest write an *)
(* EXEC stages before its child starts leaves a record of the bytes it     *)
(* covered, abort writes them back newest first, seal forgets them.  Long  *)
(* writes are staged as several records and are undone by themselves when  *)
(* one of the records fails.                                               *)
(*                                                                         *)
(* One action is one dos_machine_replace_far, so that the states between   *)
(* two records of a span and between two restores are visible.  `call' is  *)
(* the stack of the call in progress; `base' is what guest memory held     *)
(* when the journal was initialised.                                       *)
(***************************************************************************)
EXTENDS GuestMachine

CONSTANTS
  Capacity,      \* DOS_EXEC_JOURNAL_RECORD_CAPACITY
  RecordBytes,   \* DOS_EXEC_JOURNAL_RECORD_BYTES
  Segments,      \* segments EXEC writes to
  Sources,       \* byte strings EXEC writes
  FirstMemory    \* guest memory before the first EXEC

ASSUME JournalAssumption ==
  /\ Capacity \in Nat \ {0} /\ RecordBytes \in Nat \ {0}
  /\ Segments \subseteq Nat
  /\ Sources \subseteq Seq(Byte)
  /\ FirstMemory \in Memory

(* The capacity check lets no more than 16 records of 64 bytes through, so *)
(* no write comes round to its own first offset.                           *)
ASSUME SourceAssumption == \A bytes \in Sources : Len(bytes) <= OffsetWrap

VARIABLES
  journal,   \* struct dos_exec_journal: state, a20_enabled, records
  machine,   \* struct dos_machine: a20_enabled, poisoned
  mem,       \* guest memory
  call,      \* the call in progress
  base       \* guest memory at dos_exec_journal_initialize

vars == <<journal, machine, mem, call, base>>

States == {"UNINITIALIZED", "STAGING", "SEALED", "ABORTED", "POISONED"}
Offsets == 0 .. OffsetWrap - 1
Records == [segment : Segments, offset : Offsets, old : Seq(Byte)]

(* struct dos_exec_journal after construct. *)
Constructed == [state |-> "UNINITIALIZED", a20 |-> FALSE, records |-> << >>]

(* `from' is initial_count, `completed' counts the bytes staged so far;    *)
(* `entry' and `kept' remember memory and records at the call.             *)
Idle == [op |-> "idle", segment |-> 0, offset |-> 0, source |-> << >>,
         completed |-> 0, from |-> 0, entry |-> FirstMemory, kept |-> << >>]

Init ==
  /\ journal = Constructed
  /\ machine = [a20 |-> FALSE, poisoned |-> FALSE]
  /\ mem = FirstMemory
  /\ call = Idle
  /\ base = FirstMemory

(* validate_binding for the journal's own machine: a machine whose A20     *)
(* gate moved since initialize translates far addresses differently.       *)
Bound == machine.a20 = journal.a20

(* clear_slot_binding ends the journal's lifetime with the transaction's.  *)
Construct ==
  /\ call.op = "idle"
  /\ journal.state \in {"SEALED", "ABORTED"}
  /\ journal' = Constructed
  /\ UNCHANGED <<machine, mem, call, base>>

Initialize ==
  /\ call.op = "idle"
  /\ journal.state = "UNINITIALIZED"
  /\ journal' = [journal EXCEPT !.state = "STAGING", !.a20 = machine.a20]
  /\ base' = mem
  /\ UNCHANGED <<machine, mem, call>>

Poisoned == [journal EXCEPT !.state = "POISONED"]

Record(segment, offset, count) ==
  [segment |-> segment, offset |-> offset,
   old |-> Peek(mem, segment, offset, count, machine.a20)]

(* Fault: the record keeps the bytes that are visible after the write. *)
WithRecordLate(segment, offset, count) ==
  [journal EXCEPT !.records =
     Append(@, [segment |-> segment, offset |-> offset,
                old |-> Peek(mem', segment, offset, count, machine.a20)])]

WithRecord(segment, offset, count) ==
  [journal EXCEPT !.records = Append(@, Record(segment, offset, count))]

(* dos_machine_replace_far can reach the bytes at all. *)
Reachable(segment, offset, count) ==
  /\ ~machine.poisoned
  /\ FarValid(segment, offset, count, machine.a20)

(* One record of a stage: the machine replaces the bytes and the record is *)
(* published; or it leaves them as they were; or it leaves them torn.      *)
RecordStaged(segment, offset, bytes) ==
  /\ Reachable(segment, offset, Len(bytes))
  /\ mem' = Patch(mem, segment, offset, bytes, machine.a20)
  /\ journal' = WithRecord(segment, offset, Len(bytes))

RecordTorn(segment, offset, bytes) ==
  /\ Reachable(segment, offset, Len(bytes))
  /\ mem' \in Torn(mem, segment, offset, bytes, machine.a20)
  /\ journal' = Poisoned

CanStage ==
  /\ call.op = "idle"
  /\ journal.state = "STAGING"
  /\ Bound

(* dos_exec_journal_stage_replace_far, called for one short write.  A      *)
(* refused or faulted call changes nothing.                                *)
StageReplaceFar ==
  /\ CanStage
  /\ \E segment \in Segments, offset \in Offsets, bytes \in Sources :
       /\ Len(bytes) \in 1 .. RecordBytes
       /\ Len(journal.records) < Capacity
       /\ \/ RecordStaged(segment, offset, bytes)
          \/ RecordTorn(segment, offset, bytes)
  /\ UNCHANGED <<machine, call, base>>

RequiredRecords(count) ==
  count \div RecordBytes + (IF count % RecordBytes = 0 THEN 0 ELSE 1)

(* dos_exec_journal_stage_replace_far_span, up to its first record. *)
StageSpan ==
  /\ CanStage
  /\ \E segment \in Segments, offset \in Offsets, bytes \in Sources :
       /\ bytes # << >>
       /\ RequiredRecords(Len(bytes)) <= Capacity - Len(journal.records)
       /\ call' = [op |-> "span", segment |-> segment, offset |-> offset,
                   source |-> bytes, completed |-> 0,
                   from |-> Len(journal.records), entry |-> mem,
                   kept |-> journal.records]
  /\ UNCHANGED <<journal, machine, mem, base>>

Least(a, b) == IF a < b THEN a ELSE b

(* The next record of a span; its offset wraps like REP MOVSB's. *)
Chunk == Least(Len(call.source) - call.completed, RecordBytes)

(* Fault: the sum is not cut back to 16 bits. *)
ChunkOffsetWide == call.offset + call.completed

ChunkOffset == (call.offset + call.completed) % OffsetWrap

(* Fault: the source does not advance with the destination. *)
ChunkBytesAgain == SubSeq(call.source, 1, Chunk)

ChunkBytes ==
  SubSeq(call.source, call.completed + 1, call.completed + Chunk)

SpanStep ==
  /\ call.op = "span"
  /\ call.completed < Len(call.source)
  /\ Len(journal.records) < Capacity
  /\ RecordStaged(call.segment, ChunkOffset, ChunkBytes)
  /\ call' = [call EXCEPT !.completed = @ + Chunk]
  /\ UNCHANGED <<machine, base>>

SpanTorn ==
  /\ call.op = "span"
  /\ call.completed < Len(call.source)
  /\ Len(journal.records) < Capacity
  /\ RecordTorn(call.segment, ChunkOffset, ChunkBytes)
  /\ call' = Idle
  /\ UNCHANGED <<machine, base>>

(* Any other failure, DOS_EXEC_JOURNAL_FULL included: the records of this  *)
(* call are restored.                                                      *)
SpanFailed ==
  /\ call.op = "span"
  /\ call.completed < Len(call.source)
  /\ call' = [call EXCEPT !.op = "undo"]
  /\ UNCHANGED <<journal, machine, mem, base>>

SpanDone ==
  /\ call.op = "span"
  /\ call.completed = Len(call.source)
  /\ call' = Idle
  /\ UNCHANGED <<journal, machine, mem, base>>

(* dos_exec_journal_abort; a journal that is ABORTED already answers OK.   *)
Abort ==
  /\ CanStage
  /\ call' = [Idle EXCEPT !.op = "abort"]
  /\ UNCHANGED <<journal, machine, mem, base>>

(* Fault: records are restored oldest first. *)
NextRestoredOldest == call.from + 1

(* The record restore_to_record_count takes next. *)
NextRestored == Len(journal.records)

Without(k) ==
  [i \in 1 .. Len(journal.records) - 1 |->
     journal.records[IF i < k THEN i ELSE i + 1]]

Restoring ==
  /\ call.op \in {"undo", "abort"}
  /\ Len(journal.records) > call.from

RestoreRecord ==
  /\ Restoring
  /\ LET k == NextRestored
         r == journal.records[k]
     IN  /\ Reachable(r.segment, r.offset, Len(r.old))
         /\ mem' = Patch(mem, r.segment, r.offset, r.old, machine.a20)
         /\ journal' = [journal EXCEPT !.records = Without(k)]
  /\ UNCHANGED <<machine, call, base>>

(* Every failure of a restore is final, torn or not. *)
RestoreFailed ==
  /\ Restoring
  /\ LET r == journal.records[NextRestored]
     IN  \/ mem' = mem
         \/ /\ Reachable(r.segment, r.offset, Len(r.old))
            /\ mem' \in Torn(mem, r.segment, r.offset, r.old, machine.a20)
  /\ journal' = Poisoned
  /\ call' = Idle
  /\ UNCHANGED <<machine, base>>

UndoDone ==
  /\ call.op = "undo"
  /\ Len(journal.records) = call.from
  /\ call' = Idle
  /\ UNCHANGED <<journal, machine, mem, base>>

AbortDone ==
  /\ call.op = "abort"
  /\ Len(journal.records) = call.from
  /\ journal' = [journal EXCEPT !.state = "ABORTED"]
  /\ call' = Idle
  /\ UNCHANGED <<machine, mem, base>>

(* dos_exec_journal_poison: no callback, sticky. *)
Poison ==
  /\ call.op = "idle"
  /\ journal.state \in {"STAGING", "SEALED"}
  /\ Bound
  /\ journal' = Poisoned
  /\ UNCHANGED <<machine, mem, call, base>>

Seal ==
  /\ CanStage
  /\ journal' = [journal EXCEPT !.state = "SEALED", !.records = << >>]
  /\ UNCHANGED <<machine, mem, call, base>>

(* dos_machine_set_a20: the backend's answer, not the request, decides the *)
(* gate; without an answer the machine stays poisoned.                     *)
SetA20 ==
  /\ call.op = "idle"
  /\ ~machine.poisoned
  /\ \/ \E observed \in BOOLEAN : machine' = [machine EXCEPT !.a20 = observed]
     \/ machine' = [machine EXCEPT !.poisoned = TRUE]
  /\ UNCHANGED <<journal, mem, call, base>>

Next ==
  \/ Construct \/ Initialize \/ StageReplaceFar
  \/ StageSpan \/ SpanStep \/ SpanTorn \/ SpanFailed \/ SpanDone
  \/ Abort \/ RestoreRecord \/ RestoreFailed \/ UndoDone \/ AbortDone
  \/ Poison \/ Seal \/ SetA20

Spec == Init /\ [][Next]_vars

-----------------------------------------------------------------------------

(* The variables keep their types, the journal never holds more records    *)
(* than it has room for, and a journal that is not staging holds none      *)
(* unless it is poisoned (dos_exec_journal_has_valid_encoding).            *)
TypeOK ==
  /\ journal \in [state : States, a20 : BOOLEAN, records : Seq(Records)]
  /\ Len(journal.records) <= Capacity
  /\ journal.state \notin {"STAGING", "POISONED"} => journal.records = << >>
  /\ machine \in [a20 : BOOLEAN, poisoned : BOOLEAN]
  /\ mem \in Memory /\ base \in Memory
  /\ call \in [op : {"idle", "span", "undo", "abort"}, segment : Nat,
               offset : Nat, source : Seq(Byte), completed : Nat,
               from : Nat, entry : Memory, kept : Seq(Records)]

(* r covers cell c, and the byte it would bring back there. *)
Over(r, a20, c) == Touches(r.segment, r.offset, Len(r.old), a20, c)
OldByte(r, a20, c) == ByteFor(r.segment, r.offset, r.old, a20, c)

(* The records after the first n take memory m back to `image': a cell     *)
(* that none of them covers holds its byte still, and the oldest record    *)
(* over any other cell kept that byte.                                     *)
Undoes(records, m, a20, n, image) ==
  \A c \in Cells :
    /\ (\A k \in n + 1 .. Len(records) : ~Over(records[k], a20, c))
         => m[c] = image[c]
    /\ \A k \in n + 1 .. Len(records) :
         /\ Over(records[k], a20, c)
         /\ \A j \in n + 1 .. k - 1 : ~Over(records[j], a20, c)
         => OldByte(records[k], a20, c) = image[c]

(* At every moment of a staging journal, half way through a span or an     *)
(* abort too, its records suffice to bring guest memory back to what it    *)
(* was at initialize, and those of the span in progress to what it was at  *)
(* the call.                                                               *)
Recoverable ==
  /\ journal.state = "STAGING"
       => Undoes(journal.records, mem, journal.a20, 0, base)
  /\ call.op \in {"span", "undo"}
       => Undoes(journal.records, mem, journal.a20, call.from, call.entry)

(* "Abort restores successful records in strict reverse order": after an   *)
(* abort that reports success, guest memory is exactly what it was when    *)
(* the journal was initialised, however the records overlap or wrap.       *)
AbortRestores == journal.state = "ABORTED" => mem = base

(* dos_exec_journal_stage_replace_far_span is atomic: "a later failure     *)
(* restores only records created by this call", so a span that fails       *)
(* leaves memory and the earlier records as the call found them.           *)
SpanAtomic ==
  call.op = "undo" /\ Len(journal.records) = call.from
    => mem = call.entry /\ journal.records = call.kept

(* A span that succeeds has written every byte to the cell its wrapped     *)
(* offset names and no other cell, however many records it took; and the   *)
(* capacity check before the first record is enough: no record of a span   *)
(* is refused for want of room (DOS_EXEC_JOURNAL_FULL half way).           *)
SpanExact ==
  /\ call.op = "span" /\ call.completed = Len(call.source)
       => mem = Patch(call.entry, call.segment, call.offset, call.source,
                      machine.a20)
  /\ call.op = "span" /\ call.completed < Len(call.source)
       => Len(journal.records) < Capacity

(* Guest memory changes only under a journal that stages; a sealed,        *)
(* aborted or poisoned journal never writes again.                         *)
OnlyStagingWrites == [][mem' # mem => journal.state = "STAGING"]_vars
=============================================================================
