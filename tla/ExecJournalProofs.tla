------------------------- MODULE ExecJournalProofs -------------------------
(***************************************************************************)
(* ExecJournal for every capacity, record length, address map and choice   *)
(* of writes: the records of a staging journal always suffice to rebuild   *)
(* guest memory, so an abort that succeeds and a span that fails leave no  *)
(* trace.                                                                  *)
(***************************************************************************)
EXTENDS ExecJournal, SequenceTheorems, TLAPS

(* What relates the call in progress to the journal. *)
CallOK ==
  /\ call.op # "idle" => journal.state = "STAGING" /\ Bound
  /\ call.op = "abort" => call.from = 0
  /\ call.op = "span" =>
       call.segment \in Segments /\ call.completed <= Len(call.source)
  /\ call.op \in {"span", "undo"} =>
       /\ call.from <= Len(journal.records)
       /\ Len(call.kept) = call.from
       /\ \A k \in 1 .. call.from : journal.records[k] = call.kept[k]

(* The inductive invariant. *)
IndInv == TypeOK /\ CallOK /\ Recoverable /\ AbortRestores

-----------------------------------------------------------------------------
(* Facts about the machine's transfers. *)

(* A cell that a transfer touches receives one of its bytes. *)
LEMMA ByteForType ==
  ASSUME NEW segment, NEW offset, NEW bytes \in Seq(Byte), NEW a20, NEW c,
         Touches(segment, offset, Len(bytes), a20, c)
  PROVE  ByteFor(segment, offset, bytes, a20, c) \in Byte
<1>1. PICK i \in 1 .. Len(bytes) : Cell(segment, offset, i, a20) = c
  BY DEF Touches
<1>2. (CHOOSE k \in 1 .. Len(bytes) : Cell(segment, offset, k, a20) = c)
        \in 1 .. Len(bytes)
  BY <1>1
<1> QED BY <1>2 DEF ByteFor

(* Writing bytes to guest memory gives guest memory. *)
LEMMA PatchType ==
  ASSUME NEW m \in Memory, NEW segment, NEW offset, NEW bytes \in Seq(Byte),
         NEW a20
  PROVE  Patch(m, segment, offset, bytes, a20) \in Memory
<1>1. \A c \in Cells :
        (IF Touches(segment, offset, Len(bytes), a20, c)
           THEN ByteFor(segment, offset, bytes, a20, c) ELSE m[c]) \in Byte
  BY ByteForType DEF Memory
<1> QED BY <1>1 DEF Patch, Memory

(* A torn write is guest memory too. *)
LEMMA TornType ==
  ASSUME NEW m \in Memory, NEW segment, NEW offset, NEW bytes \in Seq(Byte),
         NEW a20, NEW t \in Torn(m, segment, offset, bytes, a20)
  PROVE  t \in Memory
<1> DEFINE done == Patch(m, segment, offset, bytes, a20)
           hit == {c \in Cells : m[c] # done[c]}
<1>1. done \in Memory BY PatchType
<1>2. PICK kept \in SUBSET hit :
        t = [c \in Cells |-> IF c \in kept THEN done[c] ELSE m[c]]
  BY DEF Torn
<1> HIDE DEF done, hit
<1> QED BY <1>1, <1>2 DEF Memory

(* The bytes a valid transfer reads. *)
LEMMA PeekType ==
  ASSUME NEW m \in Memory, NEW segment, NEW offset, NEW count \in Nat, NEW a20,
         FarValid(segment, offset, count, a20)
  PROVE  /\ Peek(m, segment, offset, count, a20) \in Seq(Byte)
         /\ Len(Peek(m, segment, offset, count, a20)) = count
<1>1. \A i \in 1 .. count : m[Cell(segment, offset, i, a20)] \in Byte
  BY DEF FarValid, Memory
<1> QED BY <1>1 DEF Peek

(* The record of a transfer gives every cell back the byte it had. *)
LEMMA PeekByte ==
  ASSUME NEW m \in Memory, NEW segment, NEW offset, NEW count \in Nat, NEW a20,
         FarValid(segment, offset, count, a20), NEW c,
         Touches(segment, offset, count, a20, c)
  PROVE  ByteFor(segment, offset, Peek(m, segment, offset, count, a20), a20, c)
           = m[c]
<1> DEFINE old == Peek(m, segment, offset, count, a20)
           pick == CHOOSE i \in 1 .. count : Cell(segment, offset, i, a20) = c
<1>1. Len(old) = count BY PeekType
<1>2. \E i \in 1 .. count : Cell(segment, offset, i, a20) = c
  BY DEF Touches
<1>3. pick \in 1 .. count /\ Cell(segment, offset, pick, a20) = c
  BY <1>2
<1>4. old[pick] = m[Cell(segment, offset, pick, a20)]
  BY <1>3 DEF Peek
<1>5. ByteFor(segment, offset, old, a20, c) = old[pick]
  BY <1>1 DEF ByteFor
<1> QED BY <1>3, <1>4, <1>5

-----------------------------------------------------------------------------
(* Facts about sets of undo records. *)

(* Staging a write keeps what the records undo. *)
LEMMA StagingUndoes ==
  ASSUME NEW rs \in Seq(Records), NEW m \in Memory, NEW a20,
         NEW n \in 0 .. Len(rs), NEW image,
         Undoes(rs, m, a20, n, image),
         NEW segment \in Segments, NEW offset \in Offsets,
         NEW bytes \in Seq(Byte), FarValid(segment, offset, Len(bytes), a20)
  PROVE  Undoes(Append(rs, [segment |-> segment, offset |-> offset,
                            old |-> Peek(m, segment, offset, Len(bytes), a20)]),
                Patch(m, segment, offset, bytes, a20), a20, n, image)
<1> DEFINE old == Peek(m, segment, offset, Len(bytes), a20)
           rec == [segment |-> segment, offset |-> offset, old |-> old]
           new == Append(rs, rec)
           top == Len(rs) + 1
           m2 == Patch(m, segment, offset, bytes, a20)
<1>0. Len(bytes) \in Nat OBVIOUS
<1>1. old \in Seq(Byte) /\ Len(old) = Len(bytes)
  BY <1>0, PeekType
<1>2. rec.segment = segment /\ rec.offset = offset /\ rec.old = old
  OBVIOUS
<1>3. Len(new) = top /\ new[top] = rec /\ \A k \in 1 .. Len(rs) : new[k] = rs[k]
  OBVIOUS
<1>4. SUFFICES ASSUME NEW c \in Cells
               PROVE  /\ (\A k \in n + 1 .. top : ~Over(new[k], a20, c))
                           => m2[c] = image[c]
                      /\ \A k \in n + 1 .. top :
                           /\ Over(new[k], a20, c)
                           /\ \A j \in n + 1 .. k - 1 : ~Over(new[j], a20, c)
                           => OldByte(new[k], a20, c) = image[c]
  BY <1>3 DEF Undoes
<1>5. /\ (\A k \in n + 1 .. Len(rs) : ~Over(rs[k], a20, c)) => m[c] = image[c]
      /\ \A k \in n + 1 .. Len(rs) :
           /\ Over(rs[k], a20, c)
           /\ \A j \in n + 1 .. k - 1 : ~Over(rs[j], a20, c)
           => OldByte(rs[k], a20, c) = image[c]
  BY DEF Undoes
<1>6. Over(rec, a20, c) <=> Touches(segment, offset, Len(bytes), a20, c)
  BY <1>1, <1>2 DEF Over
<1>7. Over(rec, a20, c) => OldByte(rec, a20, c) = m[c]
  BY <1>0, <1>2, <1>6, PeekByte DEF OldByte
<1>8. ~Over(rec, a20, c) => m2[c] = m[c]
  BY <1>6 DEF Patch
<1> HIDE DEF old, rec, new, m2
<1>9. (\A k \in n + 1 .. top : ~Over(new[k], a20, c)) => m2[c] = image[c]
  <2> SUFFICES ASSUME \A k \in n + 1 .. top : ~Over(new[k], a20, c)
               PROVE  m2[c] = image[c]
    OBVIOUS
  <2>1. \A k \in n + 1 .. Len(rs) : ~Over(rs[k], a20, c)
    BY <1>3
  <2>2. ~Over(rec, a20, c)
    BY <1>3
  <2> QED BY <1>5, <1>8, <2>1, <2>2
<1>10. ASSUME NEW k \in n + 1 .. top, Over(new[k], a20, c),
              \A j \in n + 1 .. k - 1 : ~Over(new[j], a20, c)
       PROVE  OldByte(new[k], a20, c) = image[c]
  <2>1. CASE k = top
    <3>1. \A j \in n + 1 .. Len(rs) : ~Over(rs[j], a20, c)
      BY <1>3, <1>10, <2>1
    <3>2. m[c] = image[c]
      BY <1>5, <3>1
    <3> QED BY <1>3, <1>7, <1>10, <2>1, <3>2
  <2>2. CASE k # top
    <3>1. k \in n + 1 .. Len(rs) /\ new[k] = rs[k]
      BY <1>3, <2>2
    <3>2. \A j \in n + 1 .. k - 1 : ~Over(rs[j], a20, c)
      BY <1>3, <1>10, <3>1
    <3> QED BY <1>5, <1>10, <3>1, <3>2
  <2> QED BY <2>1, <2>2
<1> QED BY <1>9, <1>10

(* Restoring the newest record keeps what the others undo. *)
LEMMA RestoringUndoes ==
  ASSUME NEW rs \in Seq(Records), NEW m \in Memory, NEW a20,
         NEW n \in Nat, n < Len(rs), NEW image,
         Undoes(rs, m, a20, n, image),
         NEW less \in Seq(Records), Len(less) = Len(rs) - 1,
         \A k \in 1 .. Len(less) : less[k] = rs[k]
  PROVE  LET r == rs[Len(rs)]
         IN  Undoes(less, Patch(m, r.segment, r.offset, r.old, a20), a20, n,
                    image)
<1> DEFINE top == Len(rs)
           r == rs[top]
           m2 == Patch(m, r.segment, r.offset, r.old, a20)
<1>1. SUFFICES ASSUME NEW c \in Cells
               PROVE  /\ (\A k \in n + 1 .. Len(less) : ~Over(less[k], a20, c))
                           => m2[c] = image[c]
                      /\ \A k \in n + 1 .. Len(less) :
                           /\ Over(less[k], a20, c)
                           /\ \A j \in n + 1 .. k - 1 : ~Over(less[j], a20, c)
                           => OldByte(less[k], a20, c) = image[c]
  BY DEF Undoes
<1>2. /\ (\A k \in n + 1 .. top : ~Over(rs[k], a20, c)) => m[c] = image[c]
      /\ \A k \in n + 1 .. top :
           /\ Over(rs[k], a20, c)
           /\ \A j \in n + 1 .. k - 1 : ~Over(rs[j], a20, c)
           => OldByte(rs[k], a20, c) = image[c]
  BY DEF Undoes
<1>3. m2[c] = IF Over(r, a20, c) THEN OldByte(r, a20, c) ELSE m[c]
  BY DEF Patch, Over, OldByte
<1> HIDE DEF m2, r
<1>4. r = rs[top] BY DEF r
<1>5. (\A k \in n + 1 .. Len(less) : ~Over(less[k], a20, c))
        => m2[c] = image[c]
  <2> SUFFICES ASSUME \A k \in n + 1 .. Len(less) : ~Over(less[k], a20, c)
               PROVE  m2[c] = image[c]
    OBVIOUS
  <2>1. \A k \in n + 1 .. top - 1 : ~Over(rs[k], a20, c)
    OBVIOUS
  <2>2. CASE Over(r, a20, c)
    BY <1>2, <1>3, <1>4, <2>1, <2>2
  <2>3. CASE ~Over(r, a20, c)
    <3>1. \A k \in n + 1 .. top : ~Over(rs[k], a20, c)
      BY <1>4, <2>1, <2>3
    <3> QED BY <1>2, <1>3, <2>3, <3>1
  <2> QED BY <2>2, <2>3
<1>6. ASSUME NEW k \in n + 1 .. Len(less), Over(less[k], a20, c),
             \A j \in n + 1 .. k - 1 : ~Over(less[j], a20, c)
      PROVE  OldByte(less[k], a20, c) = image[c]
  <2>1. k \in n + 1 .. top /\ less[k] = rs[k]
    OBVIOUS
  <2>2. \A j \in n + 1 .. k - 1 : ~Over(rs[j], a20, c)
    BY <1>6
  <2> QED BY <1>2, <1>6, <2>1, <2>2
<1> QED BY <1>5, <1>6

(* Records that undo nothing more leave memory as it was. *)
LEMMA NothingLeft ==
  ASSUME NEW rs \in Seq(Records), NEW m \in Memory, NEW a20,
         NEW image \in Memory, Undoes(rs, m, a20, Len(rs), image)
  PROVE  m = image
<1>1. \A c \in Cells : m[c] = image[c]
  BY DEF Undoes
<1> QED BY <1>1 DEF Memory

(* No record is needed to undo nothing. *)
LEMMA NothingYet ==
  ASSUME NEW rs \in Seq(Records), NEW m, NEW a20
  PROVE  Undoes(rs, m, a20, Len(rs), m)
BY DEF Undoes

-----------------------------------------------------------------------------
(* The parts the actions share. *)

CallType ==
  [op : {"idle", "span", "undo", "abort"}, segment : Nat, offset : Nat,
   source : Seq(Byte), completed : Nat, from : Nat, entry : Memory,
   kept : Seq(Records)]

JournalType == [state : States, a20 : BOOLEAN, records : Seq(Records)]

(* An idle call satisfies all that is said about calls. *)
LEMMA IdleType == Idle \in CallType /\ Idle.op = "idle"
BY JournalAssumption DEF Idle, CallType

(* A staged record: types, and what the records undo. *)
LEMMA RecordStagedKeeps ==
  ASSUME IndInv, journal.state = "STAGING", Bound,
         NEW segment \in Segments, NEW offset \in Offsets,
         NEW bytes \in Seq(Byte), Len(journal.records) < Capacity,
         RecordStaged(segment, offset, bytes)
  PROVE  /\ journal' \in JournalType
         /\ journal'.state = "STAGING" /\ journal'.a20 = journal.a20
         /\ Len(journal'.records) = Len(journal.records) + 1
         /\ Len(journal'.records) <= Capacity
         /\ \A k \in 1 .. Len(journal.records) :
              journal'.records[k] = journal.records[k]
         /\ mem' \in Memory
         /\ \A n \in 0 .. Len(journal.records), image \in Memory :
              Undoes(journal.records, mem, journal.a20, n, image)
                => Undoes(journal'.records, mem', journal.a20, n, image)
<1> DEFINE rec == [segment |-> segment, offset |-> offset,
                   old |-> Peek(mem, segment, offset, Len(bytes), journal.a20)]
<1>1. /\ journal \in JournalType /\ mem \in Memory
      /\ journal.records \in Seq(Records)
      /\ machine.a20 = journal.a20
  BY DEF IndInv, TypeOK, JournalType, Bound
<1>2. /\ FarValid(segment, offset, Len(bytes), journal.a20)
      /\ mem' = Patch(mem, segment, offset, bytes, journal.a20)
  BY <1>1 DEF RecordStaged, Reachable
<1>3. journal' = [journal EXCEPT !.records = Append(journal.records, rec)]
  BY <1>1 DEF RecordStaged, WithRecord, Record
<1>4. Len(bytes) \in Nat OBVIOUS
<1>5. rec \in Records
  BY <1>1, <1>2, <1>4, PeekType DEF Records
<1>6. mem' \in Memory BY <1>1, <1>2, PatchType
<1>7. journal'.records = Append(journal.records, rec)
  BY <1>1, <1>3 DEF JournalType
<1>8. ASSUME NEW n \in 0 .. Len(journal.records), NEW image \in Memory,
             Undoes(journal.records, mem, journal.a20, n, image)
      PROVE  Undoes(journal'.records, mem', journal.a20, n, image)
  BY <1>1, <1>2, <1>7, <1>8, StagingUndoes
<1> HIDE DEF rec
<1>9. /\ Append(journal.records, rec) \in Seq(Records)
      /\ Len(Append(journal.records, rec)) = Len(journal.records) + 1
      /\ \A k \in 1 .. Len(journal.records) :
           Append(journal.records, rec)[k] = journal.records[k]
  BY <1>1, <1>5
<1>10. /\ journal' \in JournalType
       /\ journal'.state = "STAGING" /\ journal'.a20 = journal.a20
  BY <1>1, <1>3, <1>9 DEF JournalType
<1>11. Len(journal.records) + 1 <= Capacity
  BY <1>1, JournalAssumption
<1> QED BY <1>6, <1>7, <1>8, <1>9, <1>10, <1>11

(* A poisoned journal keeps its records and is staging no more. *)
LEMMA PoisonedKeeps ==
  ASSUME IndInv
  PROVE  /\ Poisoned \in JournalType /\ Poisoned.state = "POISONED"
         /\ Poisoned.records = journal.records
BY DEF IndInv, TypeOK, JournalType, Poisoned, States

(* Every step that leaves the journal poisoned and the call over. *)
LEMMA PoisonStep ==
  ASSUME IndInv, journal' = Poisoned, mem' \in Memory, call' = Idle,
         UNCHANGED <<machine, base>>
  PROVE  IndInv'
<1>1. /\ journal' \in JournalType /\ journal'.state = "POISONED"
      /\ journal'.records = journal.records
  BY PoisonedKeeps
<1>2. call' \in CallType /\ call'.op = "idle"
  BY IdleType
<1>3. TypeOK'
  BY <1>1, <1>2 DEF IndInv, TypeOK, JournalType, CallType
<1>4. CallOK'
  BY <1>2 DEF CallOK
<1>5. Recoverable'
  BY <1>1, <1>2 DEF Recoverable
<1>6. AbortRestores'
  BY <1>1 DEF AbortRestores
<1> QED BY <1>3, <1>4, <1>5, <1>6 DEF IndInv

(* The next chunk of a span is a short write at a 16-bit offset. *)
LEMMA ChunkType ==
  ASSUME IndInv, call.op = "span", call.completed < Len(call.source)
  PROVE  /\ ChunkBytes \in Seq(Byte) /\ ChunkOffset \in Offsets
         /\ call.completed + Chunk \in Nat
         /\ call.completed + Chunk <= Len(call.source)
<1>1. call \in CallType BY DEF IndInv, TypeOK, CallType
<1>2. /\ call.source \in Seq(Byte) /\ call.completed \in Nat
      /\ call.offset \in Nat /\ Len(call.source) \in Nat
  BY <1>1 DEF CallType
<1>3. /\ Chunk \in Nat \ {0}
      /\ call.completed + Chunk <= Len(call.source)
  BY <1>2, JournalAssumption DEF Chunk, Least
<1>4. ChunkBytes \in Seq(Byte)
  <2>1. call.completed + 1 \in 1 .. Len(call.source) + 1
    BY <1>2
  <2>2. call.completed + Chunk \in call.completed + 1 - 1 .. Len(call.source)
    BY <1>2, <1>3
  <2> QED BY <1>2, <2>1, <2>2, SubSeqProperties DEF ChunkBytes
<1>5. ChunkOffset \in Offsets
  <2>1. call.offset + call.completed \in Nat BY <1>2
  <2>2. OffsetWrap \in Nat \ {0} BY MachineAssumption
  <2> QED BY <2>1, <2>2 DEF ChunkOffset, Offsets
<1> QED BY <1>2, <1>3, <1>4, <1>5

-----------------------------------------------------------------------------
(* The initial state and every step satisfy the invariant. *)

(* A constructed journal satisfies the invariant. *)
LEMMA InitInv == Init => IndInv
<1> SUFFICES ASSUME Init PROVE IndInv
  OBVIOUS
<1>1. TypeOK
  BY JournalAssumption DEF Init, TypeOK, Constructed, Idle, States
<1>2. CallOK BY DEF Init, CallOK, Idle
<1>3. Recoverable BY DEF Init, Recoverable, Idle, Constructed
<1>4. AbortRestores BY DEF Init, AbortRestores, Constructed
<1> QED BY <1>1, <1>2, <1>3, <1>4 DEF IndInv

(* dos_exec_journal_stage_replace_far. *)
LEMMA StageReplaceFarKeeps ==
  ASSUME IndInv, StageReplaceFar PROVE IndInv'
<1>1. PICK segment \in Segments, offset \in Offsets, bytes \in Sources :
        /\ Len(bytes) \in 1 .. RecordBytes
        /\ Len(journal.records) < Capacity
        /\ \/ RecordStaged(segment, offset, bytes)
           \/ RecordTorn(segment, offset, bytes)
  BY DEF StageReplaceFar
<1>2. bytes \in Seq(Byte) BY JournalAssumption
<1>3. /\ call.op = "idle" /\ journal.state = "STAGING" /\ Bound
      /\ UNCHANGED <<machine, call, base>>
      /\ mem \in Memory /\ base \in Memory /\ journal.records \in Seq(Records)
  BY DEF IndInv, TypeOK, StageReplaceFar, CanStage
<1>4. CASE RecordStaged(segment, offset, bytes)
  <2>1. /\ journal' \in JournalType
        /\ journal'.state = "STAGING" /\ journal'.a20 = journal.a20
        /\ Len(journal'.records) <= Capacity
        /\ mem' \in Memory
        /\ \A n \in 0 .. Len(journal.records), image \in Memory :
             Undoes(journal.records, mem, journal.a20, n, image)
               => Undoes(journal'.records, mem', journal.a20, n, image)
    BY <1>1, <1>2, <1>3, <1>4, RecordStagedKeeps
  <2>2. TypeOK'
    BY <1>3, <2>1 DEF IndInv, TypeOK, JournalType
  <2>3. CallOK' BY <1>3 DEF CallOK
  <2>4. Undoes(journal'.records, mem', journal.a20, 0, base)
    <3>1. 0 \in 0 .. Len(journal.records) BY <1>3
    <3>2. Undoes(journal.records, mem, journal.a20, 0, base)
      BY <1>3 DEF IndInv, Recoverable
    <3> QED BY <1>3, <2>1, <3>1, <3>2
  <2>5. Recoverable' BY <1>3, <2>1, <2>4 DEF Recoverable
  <2>6. AbortRestores' BY <2>1 DEF AbortRestores
  <2> QED BY <2>2, <2>3, <2>5, <2>6 DEF IndInv
<1>5. CASE RecordTorn(segment, offset, bytes)
  <2>1. mem' \in Memory /\ journal' = Poisoned
    BY <1>2, <1>3, <1>5, TornType DEF RecordTorn
  <2>2. /\ journal' \in JournalType /\ journal'.state = "POISONED"
        /\ journal'.records = journal.records
    BY <2>1, PoisonedKeeps
  <2>3. TypeOK' BY <1>3, <2>1, <2>2 DEF IndInv, TypeOK, JournalType
  <2>4. CallOK' BY <1>3 DEF CallOK
  <2>5. Recoverable' BY <1>3, <2>2 DEF Recoverable
  <2>6. AbortRestores' BY <2>2 DEF AbortRestores
  <2> QED BY <2>3, <2>4, <2>5, <2>6 DEF IndInv
<1> QED BY <1>1, <1>4, <1>5

(* The next record of a span is staged. *)
LEMMA SpanStepKeeps ==
  ASSUME IndInv, SpanStep PROVE IndInv'
<1>1. /\ call.op = "span" /\ call.completed < Len(call.source)
      /\ Len(journal.records) < Capacity
      /\ RecordStaged(call.segment, ChunkOffset, ChunkBytes)
      /\ call' = [call EXCEPT !.completed = @ + Chunk]
      /\ UNCHANGED <<machine, base>>
  BY DEF SpanStep
<1>2. /\ call \in CallType /\ journal.records \in Seq(Records)
      /\ mem \in Memory /\ base \in Memory
  BY DEF IndInv, TypeOK, CallType
<1>3. /\ journal.state = "STAGING" /\ Bound /\ call.segment \in Segments
      /\ call.from <= Len(journal.records) /\ Len(call.kept) = call.from
      /\ \A k \in 1 .. call.from : journal.records[k] = call.kept[k]
  BY <1>1 DEF IndInv, CallOK
<1>4. /\ ChunkBytes \in Seq(Byte) /\ ChunkOffset \in Offsets
      /\ call.completed + Chunk \in Nat
      /\ call.completed + Chunk <= Len(call.source)
  BY <1>1, ChunkType
<1>5. /\ journal' \in JournalType
      /\ journal'.state = "STAGING" /\ journal'.a20 = journal.a20
      /\ Len(journal'.records) = Len(journal.records) + 1
      /\ Len(journal'.records) <= Capacity
      /\ \A k \in 1 .. Len(journal.records) :
           journal'.records[k] = journal.records[k]
      /\ mem' \in Memory
      /\ \A n \in 0 .. Len(journal.records), image \in Memory :
           Undoes(journal.records, mem, journal.a20, n, image)
             => Undoes(journal'.records, mem', journal.a20, n, image)
  BY <1>1, <1>3, <1>4, RecordStagedKeeps
<1>6. /\ call' \in CallType /\ call'.op = "span"
      /\ call'.completed = call.completed + Chunk
      /\ call'.segment = call.segment /\ call'.source = call.source
      /\ call'.from = call.from /\ call'.entry = call.entry
      /\ call'.kept = call.kept
  BY <1>1, <1>2, <1>4 DEF CallType
<1>7. call.from \in 0 .. Len(journal.records) /\ 0 \in 0 .. Len(journal.records)
  BY <1>2, <1>3 DEF CallType
<1>8. TypeOK'
  BY <1>1, <1>2, <1>5, <1>6 DEF IndInv, TypeOK, JournalType, CallType
<1>9. CallOK'
  <2>1. \A k \in 1 .. call.from : journal'.records[k] = call.kept[k]
    BY <1>3, <1>5, <1>7
  <2>2. call.from <= Len(journal'.records)
    BY <1>5, <1>7
  <2>3. Bound' BY <1>1, <1>3, <1>5 DEF Bound
  <2> QED BY <1>3, <1>4, <1>5, <1>6, <2>1, <2>2, <2>3 DEF CallOK
<1>10. Recoverable'
  <2>1. /\ Undoes(journal.records, mem, journal.a20, 0, base)
        /\ Undoes(journal.records, mem, journal.a20, call.from, call.entry)
    BY <1>1, <1>3 DEF IndInv, Recoverable
  <2>2. call.entry \in Memory BY <1>2 DEF CallType
  <2>3. /\ Undoes(journal'.records, mem', journal.a20, 0, base)
        /\ Undoes(journal'.records, mem', journal.a20, call.from, call.entry)
    BY <1>2, <1>5, <1>7, <2>1, <2>2
  <2> QED BY <1>1, <1>5, <1>6, <2>3 DEF Recoverable
<1>11. AbortRestores' BY <1>5 DEF AbortRestores
<1> QED BY <1>8, <1>9, <1>10, <1>11 DEF IndInv

(* The newest record is put back. *)
LEMMA RestoreRecordKeeps ==
  ASSUME IndInv, RestoreRecord PROVE IndInv'
<1> DEFINE top == Len(journal.records)
           r == journal.records[top]
           less == Without(top)
<1>1. /\ call.op \in {"undo", "abort"} /\ top > call.from
      /\ UNCHANGED <<machine, call, base>>
      /\ mem' = Patch(mem, r.segment, r.offset, r.old, machine.a20)
      /\ journal' = [journal EXCEPT !.records = less]
  BY DEF RestoreRecord, Restoring, NextRestored
<1>2. /\ journal \in JournalType /\ journal.records \in Seq(Records)
      /\ mem \in Memory /\ base \in Memory /\ call \in CallType
      /\ call.from \in Nat /\ top \in Nat /\ call.entry \in Memory
      /\ top <= Capacity
  BY DEF IndInv, TypeOK, JournalType, CallType
<1>3. journal.state = "STAGING" /\ machine.a20 = journal.a20
  BY <1>1 DEF IndInv, CallOK, Bound
<1>4. r \in Records /\ r.old \in Seq(Byte)
  <2>1. top \in 1 .. Len(journal.records) BY <1>1, <1>2
  <2>2. r \in Records BY <1>2, <2>1
  <2> QED BY <2>2 DEF Records
<1>5. /\ less \in Seq(Records) /\ Len(less) = top - 1
      /\ \A k \in 1 .. Len(less) : less[k] = journal.records[k]
  <2>1. \A i \in 1 .. top - 1 :
          /\ (IF i < top THEN i ELSE i + 1) = i
          /\ journal.records[i] \in Records
    BY <1>2
  <2>2. less = [i \in 1 .. top - 1 |-> journal.records[i]]
    BY <2>1 DEF Without
  <2> QED BY <1>1, <1>2, <2>1, <2>2
<1>6. mem' \in Memory BY <1>1, <1>2, <1>4, PatchType
<1>7. /\ journal' \in JournalType /\ journal'.state = "STAGING"
      /\ journal'.a20 = journal.a20 /\ journal'.records = less
  BY <1>1, <1>2, <1>3, <1>5 DEF JournalType
<1>8. ASSUME NEW n \in Nat, n < top, NEW image,
             Undoes(journal.records, mem, journal.a20, n, image)
      PROVE  Undoes(less, mem', journal.a20, n, image)
  BY <1>1, <1>2, <1>3, <1>5, <1>8, RestoringUndoes
<1> HIDE DEF less, r
<1>9. Len(less) \in Nat /\ Len(less) <= Capacity
  BY <1>1, <1>2, <1>5, JournalAssumption
<1>10. TypeOK'
  BY <1>1, <1>2, <1>5, <1>6, <1>7, <1>9 DEF IndInv, TypeOK, JournalType
<1>11. CallOK'
  <2>1. Bound' BY <1>1, <1>3, <1>7 DEF Bound
  <2>2. call.op = "undo" =>
          /\ call.from <= Len(less)
          /\ \A k \in 1 .. call.from : less[k] = call.kept[k]
    <3>1. call.op = "undo" =>
            \A k \in 1 .. call.from : journal.records[k] = call.kept[k]
      BY DEF IndInv, CallOK
    <3> QED BY <1>1, <1>2, <1>5, <3>1
  <2>3. /\ call.op = "abort" => call.from = 0
        /\ call.op = "undo" => Len(call.kept) = call.from
    BY DEF IndInv, CallOK
  <2> QED BY <1>1, <1>7, <2>1, <2>2, <2>3 DEF CallOK
<1>12. Recoverable'
  <2>1. Undoes(journal.records, mem, journal.a20, 0, base)
    BY <1>3 DEF IndInv, Recoverable
  <2>2. call.op = "undo"
          => Undoes(journal.records, mem, journal.a20, call.from, call.entry)
    BY DEF IndInv, Recoverable
  <2>3. 0 < top BY <1>1, <1>2
  <2>4. Undoes(less, mem', journal.a20, 0, base)
    BY <1>8, <2>1, <2>3
  <2>5. call.op = "undo" => Undoes(less, mem', journal.a20, call.from, call.entry)
    BY <1>1, <1>2, <1>8, <2>2
  <2> QED BY <1>1, <1>7, <2>4, <2>5 DEF Recoverable
<1>13. AbortRestores' BY <1>7 DEF AbortRestores
<1> QED BY <1>10, <1>11, <1>12, <1>13 DEF IndInv

(* A record could not be put back. *)
LEMMA RestoreFailedKeeps ==
  ASSUME IndInv, RestoreFailed PROVE IndInv'
<1> DEFINE top == Len(journal.records)
           r == journal.records[top]
<1>1. /\ top > call.from
      /\ journal' = Poisoned /\ call' = Idle /\ UNCHANGED <<machine, base>>
      /\ \/ mem' = mem
         \/ mem' \in Torn(mem, r.segment, r.offset, r.old, machine.a20)
  BY DEF RestoreFailed, Restoring, NextRestored
<1>2. /\ journal.records \in Seq(Records) /\ mem \in Memory
      /\ call.from \in Nat /\ top \in Nat
  BY DEF IndInv, TypeOK
<1>3. r.old \in Seq(Byte)
  <2>1. top \in 1 .. Len(journal.records) BY <1>1, <1>2
  <2>2. r \in Records BY <1>2, <2>1
  <2> QED BY <2>2 DEF Records
<1>4. mem' \in Memory BY <1>1, <1>2, <1>3, TornType
<1> QED BY <1>1, <1>4, PoisonStep

(* A write of a span was torn. *)
LEMMA SpanTornKeeps ==
  ASSUME IndInv, SpanTorn PROVE IndInv'
<1>1. /\ call.op = "span" /\ call.completed < Len(call.source)
      /\ mem' \in Torn(mem, call.segment, ChunkOffset, ChunkBytes, machine.a20)
      /\ journal' = Poisoned /\ call' = Idle /\ UNCHANGED <<machine, base>>
  BY DEF SpanTorn, RecordTorn
<1>2. mem \in Memory BY DEF IndInv, TypeOK
<1>3. ChunkBytes \in Seq(Byte) BY <1>1, ChunkType
<1>4. mem' \in Memory BY <1>1, <1>2, <1>3, TornType
<1> QED BY <1>1, <1>4, PoisonStep

(* A span starts. *)
LEMMA StageSpanKeeps ==
  ASSUME IndInv, StageSpan PROVE IndInv'
<1>1. PICK segment \in Segments, offset \in Offsets, bytes \in Sources :
        call' = [op |-> "span", segment |-> segment, offset |-> offset,
                 source |-> bytes, completed |-> 0,
                 from |-> Len(journal.records), entry |-> mem,
                 kept |-> journal.records]
  BY DEF StageSpan
<1>2. /\ journal.state = "STAGING" /\ Bound
      /\ UNCHANGED <<journal, machine, mem, base>>
      /\ mem \in Memory /\ journal.records \in Seq(Records)
  BY DEF IndInv, TypeOK, StageSpan, CanStage
<1>3. /\ bytes \in Seq(Byte) /\ segment \in Nat /\ offset \in Nat
      /\ Len(bytes) \in Nat
  BY JournalAssumption, MachineAssumption DEF Offsets
<1>4. /\ call' \in CallType
      /\ call'.op = "span" /\ call'.segment = segment /\ call'.source = bytes
      /\ call'.completed = 0 /\ call'.from = Len(journal.records)
      /\ call'.entry = mem /\ call'.kept = journal.records
  BY <1>1, <1>2, <1>3 DEF CallType
<1>5. TypeOK' BY <1>2, <1>4 DEF IndInv, TypeOK, CallType
<1>6. CallOK' BY <1>2, <1>3, <1>4 DEF CallOK, Bound
<1>7. Recoverable'
  <2>1. Undoes(journal.records, mem, journal.a20, Len(journal.records), mem)
    BY <1>2, NothingYet
  <2> QED BY <1>2, <1>4, <2>1 DEF IndInv, Recoverable
<1>8. AbortRestores' BY <1>2 DEF AbortRestores
<1> QED BY <1>5, <1>6, <1>7, <1>8 DEF IndInv

(* Calls that only change `call' keep the journal and memory. *)
LEMMA SpanFailedKeeps ==
  ASSUME IndInv, SpanFailed PROVE IndInv'
<1>1. /\ call.op = "span" /\ call' = [call EXCEPT !.op = "undo"]
      /\ UNCHANGED <<journal, machine, mem, base>> /\ call \in CallType
  BY DEF IndInv, TypeOK, SpanFailed, CallType
<1>2. /\ call' \in CallType /\ call'.op = "undo" /\ call'.from = call.from
      /\ call'.entry = call.entry /\ call'.kept = call.kept
  BY <1>1 DEF CallType
<1>3. TypeOK' BY <1>1, <1>2 DEF IndInv, TypeOK, CallType
<1>4. CallOK' BY <1>1, <1>2 DEF IndInv, CallOK, Bound
<1>5. Recoverable' BY <1>1, <1>2 DEF IndInv, Recoverable
<1>6. AbortRestores' BY <1>1 DEF IndInv, AbortRestores
<1> QED BY <1>3, <1>4, <1>5, <1>6 DEF IndInv

(* A call that ends and changes nothing keeps the invariant. *)
LEMMA CallEndsKeeps ==
  ASSUME IndInv, call' = Idle, UNCHANGED <<journal, machine, mem, base>>
  PROVE  IndInv'
<1>1. call' \in CallType /\ call'.op = "idle" BY IdleType
<1>2. TypeOK' BY <1>1 DEF IndInv, TypeOK, CallType
<1>3. CallOK' BY <1>1 DEF CallOK
<1>4. Recoverable' BY <1>1 DEF IndInv, Recoverable
<1>5. AbortRestores' BY DEF IndInv, AbortRestores
<1> QED BY <1>2, <1>3, <1>4, <1>5 DEF IndInv

(* An abort starts. *)
LEMMA AbortKeeps ==
  ASSUME IndInv, Abort PROVE IndInv'
<1>1. /\ journal.state = "STAGING" /\ Bound
      /\ call' = [Idle EXCEPT !.op = "abort"]
      /\ UNCHANGED <<journal, machine, mem, base>>
  BY DEF Abort, CanStage
<1>2. call' \in CallType /\ call'.op = "abort" /\ call'.from = 0
  <2>1. Idle \in CallType /\ Idle.from = 0 BY IdleType DEF Idle
  <2> QED BY <1>1, <2>1 DEF CallType
<1>3. TypeOK' BY <1>1, <1>2 DEF IndInv, TypeOK, CallType
<1>4. CallOK' BY <1>1, <1>2 DEF CallOK, Bound
<1>5. Recoverable' BY <1>1, <1>2 DEF IndInv, Recoverable
<1>6. AbortRestores' BY <1>1 DEF IndInv, AbortRestores
<1> QED BY <1>3, <1>4, <1>5, <1>6 DEF IndInv

(* An abort has put back every record. *)
LEMMA AbortDoneKeeps ==
  ASSUME IndInv, AbortDone PROVE IndInv'
<1>1. /\ call.op = "abort" /\ Len(journal.records) = call.from
      /\ journal' = [journal EXCEPT !.state = "ABORTED"]
      /\ call' = Idle /\ UNCHANGED <<machine, mem, base>>
  BY DEF AbortDone
<1>2. /\ journal \in JournalType /\ journal.records \in Seq(Records)
      /\ mem \in Memory /\ base \in Memory
  BY DEF IndInv, TypeOK, JournalType
<1>3. call.from = 0 /\ journal.state = "STAGING"
  BY <1>1 DEF IndInv, CallOK
<1>4. mem = base
  <2>1. Undoes(journal.records, mem, journal.a20, Len(journal.records), base)
    BY <1>1, <1>3 DEF IndInv, Recoverable
  <2> QED BY <1>2, <2>1, NothingLeft
<1>5. journal.records = << >> BY <1>1, <1>2, <1>3
<1>6. /\ journal' \in JournalType /\ journal'.state = "ABORTED"
      /\ journal'.records = << >>
  BY <1>1, <1>2, <1>5 DEF JournalType, States
<1>7. call' \in CallType /\ call'.op = "idle" BY <1>1, IdleType
<1>8. TypeOK'
  <2>1. Len(journal'.records) <= Capacity BY <1>6, JournalAssumption
  <2> QED BY <1>1, <1>6, <1>7, <2>1 DEF IndInv, TypeOK, JournalType, CallType
<1>9. CallOK' BY <1>7 DEF CallOK
<1>10. Recoverable' BY <1>6, <1>7 DEF Recoverable
<1>11. AbortRestores' BY <1>1, <1>4 DEF AbortRestores
<1> QED BY <1>8, <1>9, <1>10, <1>11 DEF IndInv

(* Construct, initialize, seal and poison. *)
LEMMA LifetimeKeeps ==
  ASSUME IndInv, Construct \/ Initialize \/ Seal \/ Poison
  PROVE  IndInv'
<1>1. /\ call.op = "idle" /\ call' = call /\ machine' = machine /\ mem' = mem
      /\ journal \in JournalType /\ call \in CallType
      /\ mem \in Memory /\ base \in Memory /\ machine.a20 \in BOOLEAN
      /\ journal.records \in Seq(Records)
  BY DEF IndInv, TypeOK, JournalType, CallType, Construct, Initialize, Seal,
         Poison, CanStage
<1>2. CallOK' BY <1>1 DEF CallOK
<1>3. CASE Construct
  <2>1. /\ journal' \in JournalType /\ journal'.state = "UNINITIALIZED"
        /\ journal'.records = << >> /\ base' = base
    BY <1>3 DEF Construct, Constructed, JournalType, States
  <2>2. TypeOK'
    BY <1>1, <2>1, JournalAssumption DEF IndInv, TypeOK, JournalType
  <2>3. Recoverable' BY <1>1, <2>1 DEF Recoverable
  <2>4. AbortRestores' BY <2>1 DEF AbortRestores
  <2> QED BY <1>2, <2>2, <2>3, <2>4 DEF IndInv
<1>4. CASE Initialize
  <2>1. journal.records = << >>
    BY <1>4 DEF Initialize, IndInv, TypeOK
  <2>2. /\ journal' \in JournalType /\ journal'.state = "STAGING"
        /\ journal'.records = << >> /\ base' = mem
    BY <1>1, <1>4, <2>1 DEF Initialize, JournalType, States
  <2>3. TypeOK'
    BY <1>1, <2>2, JournalAssumption DEF IndInv, TypeOK, JournalType
  <2>4. Undoes(journal'.records, mem, journal'.a20, 0, mem)
    <3>1. Len(journal'.records) = 0 BY <2>2
    <3> QED BY <2>2, <3>1, NothingYet DEF JournalType
  <2>5. Recoverable' BY <1>1, <2>2, <2>4 DEF Recoverable
  <2>6. AbortRestores' BY <2>2 DEF AbortRestores
  <2> QED BY <1>2, <2>3, <2>5, <2>6 DEF IndInv
<1>5. CASE Seal
  <2>1. /\ journal' \in JournalType /\ journal'.state = "SEALED"
        /\ journal'.records = << >> /\ base' = base
    <3>1. << >> \in Seq(Records) /\ "SEALED" \in States BY DEF States
    <3>2. journal' = [journal EXCEPT !.state = "SEALED", !.records = << >>]
      BY <1>5 DEF Seal
    <3> QED BY <1>1, <1>5, <3>1, <3>2 DEF Seal, JournalType
  <2>2. TypeOK'
    BY <1>1, <2>1, JournalAssumption DEF IndInv, TypeOK, JournalType
  <2>3. Recoverable' BY <1>1, <2>1 DEF Recoverable
  <2>4. AbortRestores' BY <2>1 DEF AbortRestores
  <2> QED BY <1>2, <2>2, <2>3, <2>4 DEF IndInv
<1>6. CASE Poison
  <2>1. /\ journal' \in JournalType /\ journal'.state = "POISONED"
        /\ journal'.records = journal.records /\ base' = base
    BY <1>6, PoisonedKeeps DEF Poison
  <2>2. TypeOK' BY <1>1, <2>1 DEF IndInv, TypeOK, JournalType
  <2>3. Recoverable' BY <1>1, <2>1 DEF Recoverable
  <2>4. AbortRestores' BY <2>1 DEF AbortRestores
  <2> QED BY <1>2, <2>2, <2>3, <2>4 DEF IndInv
<1> QED BY <1>3, <1>4, <1>5, <1>6

(* The A20 gate moves between two calls. *)
LEMMA SetA20Keeps ==
  ASSUME IndInv, SetA20 PROVE IndInv'
<1>1. call.op = "idle" /\ UNCHANGED <<journal, mem, call, base>>
  BY DEF SetA20
<1>2. machine' \in [a20 : BOOLEAN, poisoned : BOOLEAN]
  BY DEF IndInv, TypeOK, SetA20
<1>3. TypeOK' BY <1>1, <1>2 DEF IndInv, TypeOK
<1>4. CallOK' BY <1>1 DEF CallOK
<1>5. Recoverable' BY <1>1 DEF IndInv, Recoverable
<1>6. AbortRestores' BY <1>1 DEF IndInv, AbortRestores
<1> QED BY <1>3, <1>4, <1>5, <1>6 DEF IndInv

(* The invariant is inductive. *)
LEMMA NextInv == IndInv /\ [Next]_vars => IndInv'
<1> SUFFICES ASSUME IndInv, [Next]_vars PROVE IndInv'
  OBVIOUS
<1>1. CASE Construct \/ Initialize \/ Seal \/ Poison BY <1>1, LifetimeKeeps
<1>2. CASE StageReplaceFar BY <1>2, StageReplaceFarKeeps
<1>3. CASE StageSpan BY <1>3, StageSpanKeeps
<1>4. CASE SpanStep BY <1>4, SpanStepKeeps
<1>5. CASE SpanTorn BY <1>5, SpanTornKeeps
<1>6. CASE SpanFailed BY <1>6, SpanFailedKeeps
<1>7. CASE SpanDone \/ UndoDone BY <1>7, CallEndsKeeps DEF SpanDone, UndoDone
<1>8. CASE Abort BY <1>8, AbortKeeps
<1>9. CASE RestoreRecord BY <1>9, RestoreRecordKeeps
<1>10. CASE RestoreFailed BY <1>10, RestoreFailedKeeps
<1>11. CASE AbortDone BY <1>11, AbortDoneKeeps
<1>12. CASE SetA20 BY <1>12, SetA20Keeps
<1>13. CASE UNCHANGED vars
  BY <1>13 DEF vars, IndInv, TypeOK, CallOK, Bound, Recoverable, AbortRestores
<1> QED
  BY <1>1, <1>2, <1>3, <1>4, <1>5, <1>6, <1>7, <1>8, <1>9, <1>10, <1>11,
     <1>12, <1>13 DEF Next

-----------------------------------------------------------------------------
(* Where the bytes of a transfer go. *)

(* Quotient and remainder. *)
LEMMA Division ==
  ASSUME NEW a \in Nat, NEW w \in Nat \ {0}
  PROVE  \E p \in Nat, r \in 0 .. w - 1 :
           a = w * p + r /\ p = a \div w /\ r = a % w
<1>1. a \div w \in Nat BY SMT
<1>2. a % w \in 0 .. w - 1 BY SMT
<1>3. PICK p \in Nat : p = a \div w BY <1>1
<1>4. PICK r \in 0 .. w - 1 : r = a % w BY <1>2
<1>5. a = w * p + r BY <1>3, <1>4, SMT
<1> QED BY <1>3, <1>4, <1>5

(* Remainders are unique, so numbers less than w apart that share theirs   *)
(* are equal.                                                              *)
LEMMA RemainderUnique ==
  ASSUME NEW a \in Nat, NEW b \in Nat, NEW w \in Nat \ {0},
         a - b < w, b - a < w, a % w = b % w
  PROVE  a = b
<1>1. PICK p \in Nat, r \in 0 .. w - 1 : a = w * p + r /\ r = a % w
  BY Division
<1>2. PICK q \in Nat, s \in 0 .. w - 1 : b = w * q + s /\ s = b % w
  BY Division
<1>4. a = w * p + r /\ b = w * q + r
  BY <1>1, <1>2
<1>5. CASE p = q BY <1>4, <1>5
<1>6. CASE p > q
  <2>1. PICK d \in Nat : p = q + 1 + d BY <1>6
  <2>2. w * (q + 1 + d) = w * q + w + w * d BY SMT
  <2>3. w * d >= 0 BY SMT
  <2> QED BY <1>4, <2>1, <2>2, <2>3
<1>7. CASE q > p
  <2>1. PICK d \in Nat : q = p + 1 + d BY <1>7
  <2>2. w * (p + 1 + d) = w * p + w + w * d BY SMT
  <2>3. w * d >= 0 BY SMT
  <2> QED BY <1>4, <2>1, <2>2, <2>3
<1> QED BY <1>5, <1>6, <1>7

(* Reducing a summand first changes no remainder. *)
LEMMA RemainderOfSum ==
  ASSUME NEW a \in Nat, NEW b \in Nat, NEW w \in Nat \ {0}
  PROVE  ((a % w) + b) % w = (a + b) % w
<1>1. PICK p \in Nat, r \in 0 .. w - 1 : a = w * p + r /\ r = a % w
  BY Division
<1>2. r + b \in Nat /\ a + b \in Nat OBVIOUS
<1>6. PICK q \in Nat, s \in 0 .. w - 1 : r + b = w * q + s /\ s = (r + b) % w
  BY <1>2, Division
<1>9. PICK u \in Nat, t \in 0 .. w - 1 : a + b = w * u + t /\ t = (a + b) % w
  BY <1>2, Division
<1>10. w * (p + q) + s = w * u + t
  <2>1. w * (p + q) = w * p + w * q BY SMT
  <2> QED BY <1>1, <1>6, <1>9, <2>1
<1>11. CASE p + q = u
  <2>1. s = t BY <1>10, <1>11
  <2> QED BY <1>1, <1>6, <1>9, <2>1
<1>12. CASE p + q > u
  <2>1. PICK d \in Nat : p + q = u + 1 + d BY <1>12
  <2>2. w * (u + 1 + d) = w * u + w + w * d BY SMT
  <2>3. w * d >= 0 BY SMT
  <2> QED BY <1>6, <1>9, <1>10, <2>1, <2>2, <2>3
<1>13. CASE p + q < u
  <2>1. PICK d \in Nat : u = p + q + 1 + d BY <1>13
  <2>2. w * (p + q + 1 + d) = w * (p + q) + w + w * d BY SMT
  <2>3. w * d >= 0 BY SMT
  <2> QED BY <1>6, <1>9, <1>10, <2>1, <2>2, <2>3
<1> QED BY <1>11, <1>12, <1>13

(* The bytes of a write that is no longer than a segment go to different   *)
(* cells, whether the gate is open or not.                                 *)
LEMMA CellsApart ==
  ASSUME NEW segment \in Nat, NEW offset \in Nat, NEW a20 \in BOOLEAN,
         NEW i \in 1 .. OffsetWrap, NEW j \in 1 .. OffsetWrap,
         Cell(segment, offset, i, a20) = Cell(segment, offset, j, a20)
  PROVE  i = j
<1> DEFINE x == (offset + i - 1) % OffsetWrap
           y == (offset + j - 1) % OffsetWrap
<1>1. /\ OffsetWrap \in Nat \ {0} /\ A20Wrap \in Nat \ {0}
      /\ OffsetWrap <= A20Wrap /\ ParagraphBytes \in Nat
  BY MachineAssumption
<1>2. /\ offset + i - 1 \in Nat /\ offset + j - 1 \in Nat
      /\ (offset + i - 1) - (offset + j - 1) < OffsetWrap
      /\ (offset + j - 1) - (offset + i - 1) < OffsetWrap
  BY <1>1
<1>3. x \in 0 .. OffsetWrap - 1 /\ y \in 0 .. OffsetWrap - 1
  BY <1>1, <1>2
<1>4. PICK start \in Nat : start = segment * ParagraphBytes
  BY <1>1, SMT
<1> HIDE DEF x, y
<1>5. x = y
  <2>1. CASE a20
    <3>1. start + x = start + y
      BY <1>4, <2>1 DEF Cell, dos_far_to_linear, x, y
    <3> QED BY <1>3, <3>1
  <2>2. CASE ~a20
    <3>1. (start + x) % A20Wrap = (start + y) % A20Wrap
      BY <1>4, <2>2 DEF Cell, dos_far_to_linear, x, y
    <3>2. /\ start + x \in Nat /\ start + y \in Nat
          /\ (start + x) - (start + y) < A20Wrap
          /\ (start + y) - (start + x) < A20Wrap
      BY <1>1, <1>3
    <3>3. start + x = start + y
      BY <1>1, <3>1, <3>2, RemainderUnique
    <3> QED BY <1>3, <3>3
  <2> QED BY <2>1, <2>2
<1>6. offset + i - 1 = offset + j - 1
  BY <1>1, <1>2, <1>5, RemainderUnique DEF x, y
<1> QED BY <1>6

(* Byte j of the next chunk goes where byte completed + j of the span      *)
(* would: the cut back to 16 bits is the offset's own wrap.                *)
LEMMA ChunkCell ==
  ASSUME NEW segment, NEW offset \in Nat, NEW completed \in Nat,
         NEW j \in Nat \ {0}, NEW a20
  PROVE  Cell(segment, (offset + completed) % OffsetWrap, j, a20)
           = Cell(segment, offset, completed + j, a20)
<1>1. OffsetWrap \in Nat \ {0} BY MachineAssumption
<1>2. PICK a \in Nat : a = offset + completed OBVIOUS
<1>3. PICK b \in Nat : b = j - 1 OBVIOUS
<1>4. ((a % OffsetWrap) + b) % OffsetWrap = (a + b) % OffsetWrap
  BY <1>1, RemainderOfSum
<1>5. a % OffsetWrap \in Nat BY <1>1
<1>6. /\ (a % OffsetWrap) + b = ((offset + completed) % OffsetWrap) + j - 1
      /\ a + b = offset + (completed + j) - 1
  BY <1>2, <1>3, <1>5
<1> QED BY <1>4, <1>6 DEF Cell

(* A write no longer than a segment leaves byte i in the cell of byte i.   *)
LEMMA PatchByte ==
  ASSUME NEW m \in Memory, NEW segment \in Nat, NEW offset \in Nat,
         NEW bytes \in Seq(Byte), NEW a20 \in BOOLEAN,
         Len(bytes) <= OffsetWrap, NEW i \in 1 .. Len(bytes),
         Cell(segment, offset, i, a20) \in Cells
  PROVE  Patch(m, segment, offset, bytes, a20)[Cell(segment, offset, i, a20)]
           = bytes[i]
<1> DEFINE c == Cell(segment, offset, i, a20)
           k == CHOOSE k \in 1 .. Len(bytes) : Cell(segment, offset, k, a20) = c
<1>1. k \in 1 .. Len(bytes) /\ Cell(segment, offset, k, a20) = c OBVIOUS
<1>2. Touches(segment, offset, Len(bytes), a20, c) BY DEF Touches
<1>3. Patch(m, segment, offset, bytes, a20)[c] = bytes[k]
  BY <1>2 DEF Patch, ByteFor
<1>4. OffsetWrap \in Nat BY MachineAssumption
<1> HIDE DEF k
<1>5. k \in 1 .. OffsetWrap /\ i \in 1 .. OffsetWrap BY <1>1, <1>4
<1>6. k = i BY <1>1, <1>5, CellsApart
<1> QED BY <1>3, <1>6

(* And it leaves every other cell alone. *)
LEMMA PatchElsewhere ==
  ASSUME NEW m \in Memory, NEW segment, NEW offset, NEW bytes \in Seq(Byte),
         NEW a20, NEW c \in Cells,
         \A i \in 1 .. Len(bytes) : Cell(segment, offset, i, a20) # c
  PROVE  Patch(m, segment, offset, bytes, a20)[c] = m[c]
<1>1. ~Touches(segment, offset, Len(bytes), a20, c) BY DEF Touches
<1> QED BY <1>1 DEF Patch

-----------------------------------------------------------------------------
(* A span in progress. *)

(* Memory m is `entry' but for the first `completed' bytes of the span,    *)
(* which are where their wrapped offsets name them.                        *)
Written(m, segment, offset, source, completed, entry, a20) ==
  /\ \A i \in 1 .. completed :
       m[Cell(segment, offset, i, a20)] = source[i]
  /\ \A c \in Cells :
       (\A i \in 1 .. completed : Cell(segment, offset, i, a20) # c)
         => m[c] = entry[c]

(* The `chunk' bytes of the source that follow the first `completed'. *)
IsChunk(bytes, source, completed, chunk) ==
  /\ Len(bytes) = chunk
  /\ completed + chunk <= Len(source)
  /\ \A j \in 1 .. chunk : bytes[j] = source[completed + j]

(* n more bytes fit into the free records. *)
RoomFor(n) == n <= (Capacity - Len(journal.records)) * RecordBytes

(* What a span has done so far, and that the room it counted at its call   *)
(* is enough for the rest.                                                 *)
SpanOK ==
  call.op = "span" =>
    /\ Len(call.source) <= OffsetWrap
    /\ FarValid(call.segment, call.offset, call.completed, machine.a20)
    /\ Written(mem, call.segment, call.offset, call.source, call.completed,
               call.entry, machine.a20)
    /\ RoomFor(Len(call.source) - call.completed)

(* The span above, and the chunk it writes next. *)
Advance(m, segment, offset, source, completed, entry, a20, chunk, bytes) ==
  /\ m \in Memory /\ entry \in Memory /\ segment \in Nat /\ offset \in Nat
  /\ source \in Seq(Byte) /\ Len(source) <= OffsetWrap
  /\ completed \in Nat /\ chunk \in Nat \ {0} /\ a20 \in BOOLEAN
  /\ bytes \in Seq(Byte) /\ IsChunk(bytes, source, completed, chunk)
  /\ FarValid(segment, (offset + completed) % OffsetWrap, chunk, a20)
  /\ FarValid(segment, offset, completed, a20)
  /\ Written(m, segment, offset, source, completed, entry, a20)

(* One more chunk is written. *)
LEMMA ChunkWritten ==
  ASSUME NEW m, NEW segment, NEW offset, NEW source, NEW completed,
         NEW entry, NEW a20, NEW chunk, NEW bytes,
         Advance(m, segment, offset, source, completed, entry, a20, chunk,
                 bytes)
  PROVE  LET start == (offset + completed) % OffsetWrap
         IN  /\ FarValid(segment, offset, completed + chunk, a20)
             /\ Written(Patch(m, segment, start, bytes, a20), segment, offset,
                        source, completed + chunk, entry, a20)
<1> SUFFICES
      ASSUME m \in Memory, entry \in Memory, segment \in Nat, offset \in Nat,
             source \in Seq(Byte), Len(source) <= OffsetWrap,
             completed \in Nat, chunk \in Nat \ {0}, a20 \in BOOLEAN,
             bytes \in Seq(Byte), IsChunk(bytes, source, completed, chunk),
             NEW start \in Nat, start = (offset + completed) % OffsetWrap,
             FarValid(segment, start, chunk, a20),
             FarValid(segment, offset, completed, a20),
             Written(m, segment, offset, source, completed, entry, a20)
      PROVE  /\ FarValid(segment, offset, completed + chunk, a20)
             /\ Written(Patch(m, segment, start, bytes, a20), segment, offset,
                        source, completed + chunk, entry, a20)
  <2>1. PICK start \in Nat : start = (offset + completed) % OffsetWrap
    BY MachineAssumption DEF Advance
  <2> QED BY <2>1 DEF Advance
<1> DEFINE done == Patch(m, segment, start, bytes, a20)
           At(i) == Cell(segment, offset, i, a20)
<1>1. /\ OffsetWrap \in Nat /\ Len(bytes) = chunk
      /\ completed + chunk <= Len(source)
  BY MachineAssumption DEF IsChunk
<1>2. \A j \in 1 .. chunk : Cell(segment, start, j, a20) = At(completed + j)
  <2> TAKE j \in 1 .. chunk
  <2>1. j \in Nat \ {0} OBVIOUS
  <2>2. Cell(segment, (offset + completed) % OffsetWrap, j, a20)
          = Cell(segment, offset, completed + j, a20)
    BY ONLY <2>1, offset \in Nat, completed \in Nat, ChunkCell
  <2> QED BY <2>2
<1>3. \A i \in completed + 1 .. completed + chunk :
        /\ i - completed \in 1 .. chunk
        /\ completed + (i - completed) = i
  OBVIOUS
<1>4. \A i \in 1 .. completed + chunk :
        At(i) \in Cells
  <2> TAKE i \in 1 .. completed + chunk
  <2>1. CASE i <= completed
    <3>1. i \in 1 .. completed BY <2>1
    <3> QED BY <3>1 DEF FarValid
  <2>2. CASE i > completed
    <3>1. i \in completed + 1 .. completed + chunk BY <2>2
    <3>2. Cell(segment, start, i - completed, a20) = At(i)
      BY <1>2, <1>3, <3>1
    <3>3. Cell(segment, start, i - completed, a20) \in Cells
      BY <1>3, <3>1 DEF FarValid
    <3> QED BY <3>2, <3>3
  <2> QED BY <2>1, <2>2
<1>5. \A i, j \in 1 .. completed + chunk : At(i) = At(j) => i = j
  <2> SUFFICES ASSUME NEW i \in 1 .. completed + chunk,
                      NEW j \in 1 .. completed + chunk, At(i) = At(j)
               PROVE  i = j
    OBVIOUS
  <2>1. i \in 1 .. OffsetWrap /\ j \in 1 .. OffsetWrap BY <1>1
  <2> QED BY <2>1, CellsApart
<1>6. \A j \in 1 .. chunk : done[At(completed + j)] = bytes[j]
  <2> TAKE j \in 1 .. chunk
  <2>1. Len(bytes) <= OffsetWrap BY <1>1
  <2>2. Cell(segment, start, j, a20) \in Cells BY DEF FarValid
  <2>3. j \in 1 .. Len(bytes) BY <1>1
  <2>4. done[Cell(segment, start, j, a20)] = bytes[j]
    BY ONLY <2>1, <2>2, <2>3, m \in Memory, segment \in Nat, start \in Nat,
       bytes \in Seq(Byte), a20 \in BOOLEAN, PatchByte
  <2> QED BY <1>2, <2>4
<1>7. ASSUME NEW c \in Cells, \A j \in 1 .. chunk : At(completed + j) # c
      PROVE  done[c] = m[c]
  <2>1. \A j \in 1 .. Len(bytes) : Cell(segment, start, j, a20) # c
    BY <1>1, <1>2, <1>7
  <2> QED BY <2>1, PatchElsewhere
<1> HIDE DEF done
<1>8. ASSUME NEW i \in 1 .. completed + chunk PROVE done[At(i)] = source[i]
  <2>1. CASE i <= completed
    <3>1. i \in 1 .. completed BY <2>1
    <3>2. \A j \in 1 .. chunk :
            completed + j \in 1 .. completed + chunk /\ completed + j # i
      BY <2>1
    <3>3. \A j \in 1 .. chunk : At(completed + j) # At(i)
      BY <1>5, <3>2
    <3>4. done[At(i)] = m[At(i)] BY <1>4, <1>7, <3>3
    <3> QED BY <3>1, <3>4 DEF Written
  <2>2. CASE i > completed
    <3>1. i \in completed + 1 .. completed + chunk BY <2>2
    <3>2. PICK j \in 1 .. chunk : completed + j = i BY <1>3, <3>1
    <3>3. done[At(i)] = bytes[j] BY <1>6, <3>2
    <3>4. bytes[j] = source[i] BY <3>2 DEF IsChunk
    <3> QED BY <3>3, <3>4
  <2> QED BY <2>1, <2>2
<1>9. ASSUME NEW c \in Cells, \A i \in 1 .. completed + chunk : At(i) # c
      PROVE  done[c] = entry[c]
  <2>1. \A j \in 1 .. chunk : completed + j \in 1 .. completed + chunk
    OBVIOUS
  <2>2. done[c] = m[c] BY <1>7, <1>9, <2>1
  <2>3. \A i \in 1 .. completed : i \in 1 .. completed + chunk OBVIOUS
  <2>4. m[c] = entry[c] BY <1>9, <2>3 DEF Written
  <2> QED BY <2>2, <2>4
<1>10. FarValid(segment, offset, completed + chunk, a20)
  BY <1>4 DEF FarValid
<1>11. Written(done, segment, offset, source, completed + chunk, entry, a20)
  BY <1>8, <1>9 DEF Written
<1> QED BY <1>10, <1>11 DEF done

(* A span that has written all its bytes has made the whole write. *)
LEMMA AllWritten ==
  ASSUME NEW m \in Memory, NEW entry \in Memory, NEW segment \in Nat,
         NEW offset \in Nat, NEW source \in Seq(Byte),
         Len(source) <= OffsetWrap, NEW a20 \in BOOLEAN,
         FarValid(segment, offset, Len(source), a20),
         Written(m, segment, offset, source, Len(source), entry, a20)
  PROVE  m = Patch(entry, segment, offset, source, a20)
<1> DEFINE whole == Patch(entry, segment, offset, source, a20)
<1>1. whole \in Memory BY PatchType
<1>2. ASSUME NEW c \in Cells PROVE m[c] = whole[c]
  <2>1. CASE \A i \in 1 .. Len(source) : Cell(segment, offset, i, a20) # c
    <3>1. whole[c] = entry[c] BY <2>1, PatchElsewhere
    <3>2. m[c] = entry[c] BY <2>1 DEF Written
    <3> QED BY <3>1, <3>2
  <2>2. CASE \E i \in 1 .. Len(source) : Cell(segment, offset, i, a20) = c
    <3>1. PICK i \in 1 .. Len(source) : Cell(segment, offset, i, a20) = c
      BY <2>2
    <3>2. whole[c] = source[i] BY <3>1, PatchByte
    <3>3. m[c] = source[i] BY <3>1 DEF Written
    <3> QED BY <3>2, <3>3
  <2> QED BY <2>1, <2>2
<1> HIDE DEF whole
<1>3. m = whole BY <1>1, <1>2 DEF Memory
<1> QED BY <1>3 DEF whole

(* The capacity check is enough: the records it counts hold the bytes. *)
LEMMA RequiredEnough ==
  ASSUME NEW n \in Nat, NEW room \in Nat, RequiredRecords(n) <= room
  PROVE  n <= room * RecordBytes
<1>1. RecordBytes \in Nat \ {0} BY JournalAssumption
<1>2. PICK q \in Nat, r \in 0 .. RecordBytes - 1 :
        /\ n = RecordBytes * q + r
        /\ q = n \div RecordBytes /\ r = n % RecordBytes
  BY <1>1, Division
<1>3. PICK y \in Nat : y = RecordBytes * q BY <1>1, SMT
<1>4. n = y + r BY <1>2, <1>3
<1>5. CASE r = 0
  <2>1. q <= room BY <1>2, <1>5 DEF RequiredRecords
  <2>2. PICK e \in Nat : room = q + e BY <2>1
  <2>3. (q + e) * RecordBytes = RecordBytes * q + RecordBytes * e
    BY <1>1, SMT
  <2>4. PICK x \in Nat : x = RecordBytes * e BY <1>1, SMT
  <2>5. room * RecordBytes = y + x BY <1>3, <2>2, <2>3, <2>4
  <2> QED BY <1>4, <1>5, <2>5
<1>6. CASE r # 0
  <2>1. q + 1 <= room BY <1>2, <1>6 DEF RequiredRecords
  <2>2. PICK e \in Nat : room = q + 1 + e BY <2>1
  <2>3. (q + 1 + e) * RecordBytes
          = RecordBytes * q + RecordBytes + RecordBytes * e
    BY <1>1, SMT
  <2>4. PICK x \in Nat : x = RecordBytes * e BY <1>1, SMT
  <2>5. room * RecordBytes = y + RecordBytes + x
    BY <1>3, <2>2, <2>3, <2>4
  <2> QED BY <1>1, <1>4, <2>5
<1> QED BY <1>5, <1>6

(* The first and every later record of a span. *)
LEMMA SpanStarts ==
  ASSUME IndInv, StageSpan PROVE SpanOK'
<1>1. PICK segment \in Segments, offset \in Offsets, bytes \in Sources :
        /\ RequiredRecords(Len(bytes)) <= Capacity - Len(journal.records)
        /\ call' = [op |-> "span", segment |-> segment, offset |-> offset,
                    source |-> bytes, completed |-> 0,
                    from |-> Len(journal.records), entry |-> mem,
                    kept |-> journal.records]
  BY DEF StageSpan
<1>2. UNCHANGED <<journal, machine, mem>> BY DEF StageSpan
<1>3. bytes \in Seq(Byte) /\ Len(bytes) <= OffsetWrap
  BY JournalAssumption, SourceAssumption
<1>4. Len(bytes) \in Nat /\ Capacity - Len(journal.records) \in Nat
  BY <1>3, JournalAssumption DEF IndInv, TypeOK
<1>5. /\ call'.source = bytes /\ call'.completed = 0 /\ call'.entry = mem
      /\ call'.segment = segment /\ call'.offset = offset
  BY <1>1
<1>6. RoomFor(Len(call.source) - call.completed)'
  <2>1. Len(bytes) <= (Capacity - Len(journal.records)) * RecordBytes
    BY <1>1, <1>4, RequiredEnough
  <2>2. Len(bytes) - 0 = Len(bytes) BY <1>4
  <2> QED BY <1>2, <1>5, <2>1, <2>2 DEF RoomFor
<1>7. Written(mem', segment, offset, bytes, 0, mem, machine'.a20)
  BY <1>2 DEF Written
<1>8. FarValid(segment, offset, 0, machine'.a20) BY DEF FarValid
<1> QED BY <1>3, <1>5, <1>6, <1>7, <1>8 DEF SpanOK

(* The next record is staged. *)
LEMMA SpanAdvances ==
  ASSUME IndInv, SpanOK, SpanStep PROVE SpanOK'
<1>1. /\ call.op = "span" /\ call.completed < Len(call.source)
      /\ RecordStaged(call.segment, ChunkOffset, ChunkBytes)
      /\ call' = [call EXCEPT !.completed = @ + Chunk]
      /\ UNCHANGED machine
      /\ Len(journal.records) < Capacity
  BY DEF SpanStep
<1>2. /\ call \in CallType /\ journal.records \in Seq(Records)
      /\ mem \in Memory /\ machine.a20 \in BOOLEAN
  BY DEF IndInv, TypeOK, CallType
<1>3. PICK seg \in Nat, off \in Nat, source \in Seq(Byte), completed \in Nat,
           entry \in Memory :
        /\ seg = call.segment /\ off = call.offset /\ source = call.source
        /\ completed = call.completed /\ entry = call.entry
  BY <1>2 DEF CallType
<1>4. /\ Len(source) <= OffsetWrap
      /\ FarValid(seg, off, completed, machine.a20)
      /\ Written(mem, seg, off, source, completed, entry, machine.a20)
      /\ RoomFor(Len(source) - completed)
  BY <1>1, <1>3 DEF SpanOK
<1>5. PICK chunk \in Nat \ {0} :
        chunk = Chunk /\ completed + chunk <= Len(source)
  BY <1>1, <1>3, JournalAssumption DEF Chunk, Least
<1>6. /\ call'.op = "span" /\ call'.segment = seg /\ call'.offset = off
      /\ call'.source = source /\ call'.completed = completed + chunk
      /\ call'.entry = entry
  BY <1>1, <1>2, <1>3, <1>5 DEF CallType
<1>7. /\ ChunkBytes \in Seq(Byte) /\ Len(ChunkBytes) = chunk
      /\ \A j \in 1 .. chunk : ChunkBytes[j] = source[completed + j]
  <2>1. ChunkBytes = SubSeq(source, completed + 1, completed + chunk)
    BY <1>3, <1>5 DEF ChunkBytes
  <2>2. completed + 1 \in 1 .. Len(source) + 1 BY <1>5
  <2>3. completed + chunk \in (completed + 1) - 1 .. Len(source) BY <1>5
  <2>4. /\ SubSeq(source, completed + 1, completed + chunk) \in Seq(Byte)
        /\ Len(SubSeq(source, completed + 1, completed + chunk))
             = IF completed + 1 <= completed + chunk
                 THEN completed + chunk - (completed + 1) + 1 ELSE 0
        /\ \A j \in 1 .. completed + chunk - (completed + 1) + 1 :
             SubSeq(source, completed + 1, completed + chunk)[j]
               = source[completed + 1 + j - 1]
    BY <2>2, <2>3, SubSeqProperties
  <2>5. /\ completed + chunk - (completed + 1) + 1 = chunk
        /\ completed + 1 <= completed + chunk
        /\ \A j \in 1 .. chunk : completed + 1 + j - 1 = completed + j
    OBVIOUS
  <2> QED BY <2>1, <2>4, <2>5
<1>8. PICK start \in Nat :
        start = ChunkOffset /\ start = (off + completed) % OffsetWrap
  BY <1>3, MachineAssumption DEF ChunkOffset
<1>9. /\ FarValid(seg, start, chunk, machine.a20)
      /\ mem' = Patch(mem, seg, start, ChunkBytes, machine.a20)
  BY <1>1, <1>3, <1>7, <1>8 DEF RecordStaged, Reachable
<1>10. /\ FarValid(seg, off, completed + chunk, machine.a20)
       /\ Written(mem', seg, off, source, completed + chunk, entry,
                  machine.a20)
  <2>1. PICK a20 \in BOOLEAN : a20 = machine.a20 BY <1>2
  <2>2. PICK bytes \in Seq(Byte) : bytes = ChunkBytes BY <1>7
  <2>3. IsChunk(bytes, source, completed, chunk)
    BY <1>5, <1>7, <2>2 DEF IsChunk
  <2>4. /\ FarValid(seg, off, completed, a20)
        /\ Written(mem, seg, off, source, completed, entry, a20)
        /\ FarValid(seg, start, chunk, a20)
    BY <1>4, <1>9, <2>1
  <2>5. Advance(mem, seg, off, source, completed, entry, a20, chunk, bytes)
    BY <1>2, <1>4, <1>8, <2>3, <2>4 DEF Advance
  <2>6. /\ FarValid(seg, off, completed + chunk, a20)
        /\ Written(Patch(mem, seg, start, bytes, a20), seg, off, source,
                   completed + chunk, entry, a20)
    BY <1>8, <2>5, ChunkWritten
  <2> QED BY <1>9, <2>1, <2>2, <2>6
<1>11. RoomFor(Len(call.source) - call.completed)'
  <2>1. Len(journal'.records) = Len(journal.records) + 1
    <3>1. journal' = WithRecord(call.segment, ChunkOffset, Len(ChunkBytes))
      BY <1>1 DEF RecordStaged
    <3>2. journal \in JournalType BY DEF IndInv, TypeOK, JournalType
    <3> QED BY <1>2, <3>1, <3>2 DEF WithRecord, JournalType
  <2>2. PICK room \in Nat : room = Capacity - (Len(journal.records) + 1)
    BY <1>1, <1>2, JournalAssumption
  <2>3. Capacity - Len(journal.records) = room + 1
    BY <1>2, <2>2, JournalAssumption
  <2>4. PICK rest \in Nat : rest = Len(source) - completed BY <1>5
  <2>5. PICK rb \in Nat \ {0} : rb = RecordBytes BY JournalAssumption
  <2>6. rest <= (room + 1) * rb BY <1>4, <2>3, <2>4, <2>5 DEF RoomFor
  <2>7. chunk = rest \/ chunk = rb
    BY <1>3, <1>5, <2>4, <2>5 DEF Chunk, Least
  <2>8. (room + 1) * rb = room * rb + rb /\ room * rb >= 0 BY SMT
  <2>9. rest - chunk <= room * rb
    <3>1. PICK product \in Nat : product = room * rb BY <2>8, SMT
    <3> QED BY <2>6, <2>7, <2>8, <3>1
  <2>10. Len(source) - (completed + chunk) = rest - chunk BY <2>4
  <2> QED BY <1>6, <2>1, <2>2, <2>5, <2>9, <2>10 DEF RoomFor
<1> QED BY <1>1, <1>4, <1>6, <1>10, <1>11 DEF SpanOK

(* No other step leaves a span in progress. *)
LEMMA NextSpan == IndInv /\ SpanOK /\ [Next]_vars => SpanOK'
<1> SUFFICES ASSUME IndInv, SpanOK, [Next]_vars PROVE SpanOK'
  OBVIOUS
<1>1. CASE StageSpan BY <1>1, SpanStarts
<1>2. CASE SpanStep BY <1>2, SpanAdvances
<1>3. CASE UNCHANGED vars BY <1>3 DEF vars, SpanOK, RoomFor
<1>4. CASE SpanTorn \/ SpanFailed \/ SpanDone \/ Abort \/ RestoreFailed
           \/ UndoDone \/ AbortDone
  <2>1. call'.op # "span"
    BY <1>4, IdleType DEF IndInv, TypeOK, SpanTorn, SpanFailed, SpanDone,
       Abort, RestoreFailed, UndoDone, AbortDone, Idle
  <2> QED BY <2>1 DEF SpanOK
<1>5. CASE Construct \/ Initialize \/ StageReplaceFar \/ RestoreRecord
           \/ Poison \/ Seal \/ SetA20
  <2>1. call'.op # "span"
    BY <1>5 DEF Construct, Initialize, StageReplaceFar, CanStage,
       RestoreRecord, Restoring, Poison, Seal, SetA20
  <2> QED BY <2>1 DEF SpanOK
<1> QED BY <1>1, <1>2, <1>3, <1>4, <1>5 DEF Next

-----------------------------------------------------------------------------
(* The journal keeps its types and its encoding in every reachable state.  *)
THEOREM TypeCorrect == Spec => []TypeOK
<1>1. IndInv => TypeOK BY DEF IndInv
<1> QED BY InitInv, NextInv, <1>1, PTL DEF Spec

(* The undo records always suffice to rebuild guest memory, in every state *)
(* between two machine calls of dos_exec_journal_stage_replace_far_span    *)
(* and restore_to_record_count.                                            *)
THEOREM AlwaysRecoverable == Spec => []Recoverable
<1>1. IndInv => Recoverable BY DEF IndInv
<1> QED BY InitInv, NextInv, <1>1, PTL DEF Spec

(* dos_exec_journal_abort restores guest memory exactly. *)
THEOREM AbortCorrect == Spec => []AbortRestores
<1>1. IndInv => AbortRestores BY DEF IndInv
<1> QED BY InitInv, NextInv, <1>1, PTL DEF Spec

(* dos_exec_journal_stage_replace_far_span is all or nothing. *)
THEOREM SpanCorrect == Spec => []SpanAtomic
<1>1. IndInv => SpanAtomic
  <2> SUFFICES ASSUME IndInv, call.op = "undo",
                      Len(journal.records) = call.from
               PROVE  mem = call.entry /\ journal.records = call.kept
    BY DEF SpanAtomic
  <2>1. /\ journal.records \in Seq(Records) /\ call.kept \in Seq(Records)
        /\ mem \in Memory /\ call.entry \in Memory
    BY DEF IndInv, TypeOK
  <2>2. Undoes(journal.records, mem, journal.a20, Len(journal.records),
               call.entry)
    BY DEF IndInv, Recoverable
  <2>3. mem = call.entry BY <2>1, <2>2, NothingLeft
  <2>4. /\ Len(call.kept) = Len(journal.records)
        /\ \A k \in 1 .. Len(journal.records) :
             journal.records[k] = call.kept[k]
    BY DEF IndInv, CallOK
  <2>5. journal.records = call.kept
    BY <2>1, <2>4, SeqEqual
  <2> QED BY <2>3, <2>5
<1> QED BY InitInv, NextInv, <1>1, PTL DEF Spec

(* dos_exec_journal_stage_replace_far_span writes what it was asked to,    *)
(* wherever its offsets wrap, and its capacity check suffices.             *)
THEOREM SpanWrites == Spec => []SpanExact
<1>1. Init => SpanOK BY DEF Init, SpanOK, Idle
<1>2. IndInv /\ SpanOK => SpanExact
  <2> SUFFICES ASSUME IndInv, SpanOK, call.op = "span"
               PROVE  SpanExact
    BY DEF SpanExact
  <2>1. /\ call \in CallType /\ journal.records \in Seq(Records)
        /\ mem \in Memory /\ machine.a20 \in BOOLEAN
        /\ Len(journal.records) <= Capacity
    BY DEF IndInv, TypeOK, CallType
  <2>2. /\ call.segment \in Nat /\ call.offset \in Nat
        /\ call.source \in Seq(Byte) /\ call.entry \in Memory
        /\ call.completed \in Nat
    BY <2>1 DEF CallType
  <2>3. /\ Len(call.source) <= OffsetWrap
        /\ FarValid(call.segment, call.offset, call.completed, machine.a20)
        /\ Written(mem, call.segment, call.offset, call.source,
                   call.completed, call.entry, machine.a20)
        /\ RoomFor(Len(call.source) - call.completed)
    BY DEF SpanOK
  <2>4. ASSUME call.completed = Len(call.source)
        PROVE  mem = Patch(call.entry, call.segment, call.offset,
                           call.source, machine.a20)
    BY <2>1, <2>2, <2>3, <2>4, AllWritten
  <2>5. ASSUME call.completed < Len(call.source)
        PROVE  Len(journal.records) < Capacity
    <3>1. SUFFICES ASSUME Len(journal.records) = Capacity PROVE FALSE
      BY <2>1, JournalAssumption
    <3>2. (Capacity - Len(journal.records)) * RecordBytes = 0
      BY <3>1, JournalAssumption
    <3> QED BY <2>2, <2>3, <2>5, <3>2 DEF RoomFor
  <2> QED BY <2>4, <2>5 DEF SpanExact
<1> QED BY InitInv, NextInv, NextSpan, <1>1, <1>2, PTL DEF Spec

(* A journal that is not staging never writes to guest memory. *)
THEOREM WritesOnlyStaging == Spec => OnlyStagingWrites
<1>1. IndInv /\ [Next]_vars => [mem' # mem => journal.state = "STAGING"]_vars
  <2> SUFFICES ASSUME IndInv, Next, mem' # mem
               PROVE  journal.state = "STAGING"
    OBVIOUS
  <2>1. call.op # "idle" => journal.state = "STAGING"
    BY DEF IndInv, CallOK
  <2>2. CASE StageReplaceFar BY <2>2 DEF StageReplaceFar, CanStage
  <2>3. CASE SpanStep \/ SpanTorn \/ RestoreRecord \/ RestoreFailed
    BY <2>1, <2>3 DEF SpanStep, SpanTorn, RestoreRecord, RestoreFailed,
                      Restoring
  <2>4. CASE \/ Construct \/ Initialize \/ StageSpan \/ SpanFailed \/ SpanDone
             \/ Abort \/ UndoDone \/ AbortDone \/ Poison \/ Seal \/ SetA20
    BY <2>4 DEF Construct, Initialize, StageSpan, SpanFailed, SpanDone,
                Abort, UndoDone, AbortDone, Poison, Seal, SetA20
  <2> QED BY <2>2, <2>3, <2>4 DEF Next
<1> QED BY InitInv, NextInv, <1>1, PTL DEF Spec, OnlyStagingWrites
=============================================================================
