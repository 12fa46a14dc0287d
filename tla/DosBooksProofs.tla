----------------------------- MODULE DosBooksProofs -----------------------------
(***************************************************************************)
(* The books of the DOS domain, for every number of processes, handles,    *)
(* descriptions, sessions and failures: what each operation that           *)
(* DosProcess is made of does to the descriptions, the open files, the     *)
(* memory and what an EXEC holds, and that it leaves the books balanced    *)
(* unless it poisons a part.                                               *)
(***************************************************************************)
EXTENDS DosProcess, FiniteSetTheorems, SequenceTheorems, WellFoundedInduction,
        TLAPS

-----------------------------------------------------------------------------
(* The types of the domain, part by part.                                  *)

BatchRecord == {b \in BatchSlot : Len(b.entries) <= JftMinimum}

SftTable == [Sfns -> SftSlot]
BatchTable == [Batches -> BatchRecord]
LeaseTable == [FileLeases -> FileLeaseSlot]
SessionTable == [Sessions -> SessionState]
Arena == [Blocks -> Psps \cup {NoOwner}]
JftTables == [Tables -> [0 .. JftMaximum - 1 -> Entry]]
PspRecord == {x \in Psp : x.table = Inline => x.length = JftMinimum}
PspTable == [Psps -> PspRecord]
Poisons == SUBSET {"int21", "arena", "runtime", "sessions"}

Domain ==
  [sft : SftTable, open : SUBSET Handles, batches : BatchTable,
   leases : LeaseTable, sessions : SessionTable, arena : Arena,
   tables : JftTables, psps : PspTable, runtime : Snapshot, vectors : Psps,
   poison : Poisons, faults : 0 .. FaultMax]

-----------------------------------------------------------------------------
(* The books of a domain.                                                  *)

LiveOf(d) == {p \in Psps : d.arena[p] = p}

(* The JFT entries that name a description *)
Names(d, n) ==
  {x \in LiveOf(d) \X (0 .. JftMaximum - 1) :
     x[2] \in JftIndices(d, x[1]) /\ EntryAt(d, x[1], x[2]) = n}

Counts(d) == [n \in Sfns |-> Cardinality(Names(d, n)) + Held(d, n)]

(* A description is open exactly if it is named, and counts its names. *)
Exact(s, c) ==
  \A n \in Sfns :
    IF c[n] = 0 THEN s[n].state = "FREE"
    ELSE /\ s[n].state = "PRESENT"
         /\ s[n].references = c[n] /\ s[n].device_opens = c[n]

Described(s) == {n \in Sfns : s[n].state = "PRESENT" /\ s[n].kind # "STANDARD"}
Reading(l) == {k \in FileLeases : l[k].state \in Finishable}

(* The open files are those of descriptions and leases, one to each. *)
Owned(s, l, o) ==
  /\ \A n \in Sfns : s[n].state = "PRESENT" /\ s[n].kind = "STANDARD" =>
                     s[n].handle = NoHandle
  /\ \A n \in Described(s) : s[n].handle \in o
  /\ \A k \in Reading(l) : l[k].reader \in o
  /\ \A n, m \in Described(s) : s[n].handle = s[m].handle => n = m
  /\ \A k, m \in Reading(l) : l[k].reader = l[m].reader => k = m
  /\ \A n \in Described(s), k \in Reading(l) : s[n].handle # l[k].reader
  /\ \A h \in o : \/ \E n \in Described(s) : s[n].handle = h
                  \/ \E k \in Reading(l) : l[k].reader = h

Ledger(d, c) == Exact(d.sft, c) /\ Owned(d.sft, d.leases, d.open)

TablesHeld(d) ==
  /\ \A b \in Blocks : d.arena[b] # NoOwner => d.arena[b] \in LiveOf(d)
  /\ \A b \in Tables, p \in LiveOf(d) : d.psps[p].table = b <=> d.arena[b] = p

Books(d) == Ledger(d, Counts(d)) /\ TablesHeld(d)

(* What a batch that is prepared holds: references that can be given back, *)
(* as many to a description as the child has entries for it.               *)
EntriesOf(b, n) == {i \in 1 .. Len(b.entries) : b.entries[i].ref[1] = n}
ChildOf(b, n) == {j \in 0 .. JftMinimum - 1 : b.child[j] = n}
FullyHeld(b) ==
  \A i \in 1 .. Len(b.entries) :
    b.entries[i].acts = {"DEVICE_OPEN", "REFERENCE_ACQUIRED"}
BatchHeld(b) ==
  /\ FullyHeld(b)
  /\ \A n \in Sfns : Cardinality(EntriesOf(b, n)) = Cardinality(ChildOf(b, n))

-----------------------------------------------------------------------------
(* The transaction x under way, in a domain d.                             *)

ExecRecord ==
  [at : {"idle", "load", "close", "inherit", "backend", "seal", "abort",
         "stranded"},
   child : Psps \cup {None}, session : Sessions \cup {None},
   visible : BOOLEAN]

(* The batch and the block of the child, while nothing is poisoned *)
ChildHeld(d, x) ==
  /\ x.at \in {"backend", "seal"} => d.batches[1].state = "PREPARED"
  /\ x.at \notin {"backend", "seal", "abort"} => d.batches[1].state = "FREE"
  /\ d.batches[1].state \in {"FREE", "PREPARED"}
  /\ d.batches[1].state = "PREPARED" => BatchHeld(d.batches[1])
  /\ x.child # None /\ x.at # "stranded" =>
       d.arena[x.child] = d.runtime.current /\ x.child # d.runtime.current

-----------------------------------------------------------------------------
(* Naturals.                                                               *)

(* A set of naturals has a least element. *)
LEMMA Least ==
  ASSUME NEW S \in SUBSET Nat, S # {}
  PROVE  \E i \in S : \A j \in S : i <= j
<1>1. PICK i \in S : \A j \in S : ~(<<j, i>> \in OpToRel(<, Nat))
  BY WFMin, NatLessThanWellFounded
<1>2. ASSUME NEW j \in S
      PROVE  i <= j
  <2>1. i \in Nat /\ j \in Nat
    BY <1>1
  <2>3. ~(j < i)
    BY <1>1, <2>1, Zenon DEF OpToRel
  <2> QED
    BY <2>1, <2>3
<1> QED
  BY <1>1, <1>2

(* Min finds it. *)
LEMMA MinIs ==
  ASSUME NEW S \in SUBSET Nat, S # {}
  PROVE  Min(S) \in S /\ \A j \in S : Min(S) <= j
<1> QED
  BY Least, Zenon DEF Min

(* A set of naturals that contains 0 and with each number up to n its      *)
(* successor contains 0 .. n.                                              *)
LEMMA UpTo ==
  ASSUME NEW n \in Nat, NEW S, 0 \in S,
         \A k \in 0 .. n : k \in S /\ k < n => k + 1 \in S
  PROVE  0 .. n \subseteq S
<1> DEFINE T == {k \in 0 .. n : k \notin S}
<1> SUFFICES ASSUME T # {} PROVE FALSE
  OBVIOUS
<1>1. PICK k \in T : \A j \in T : k <= j
  <2>1. T \in SUBSET Nat
    OBVIOUS
  <2> QED
    BY <2>1, Least
<1> QED
  BY <1>1

-----------------------------------------------------------------------------
(* A domain with one part replaced.                                        *)

(* A domain's parts have their types. *)
LEMMA Parts ==
  ASSUME NEW d \in Domain
  PROVE  /\ d.sft \in SftTable /\ d.open \in SUBSET Handles
         /\ d.batches \in BatchTable /\ d.leases \in LeaseTable
         /\ d.sessions \in SessionTable /\ d.arena \in Arena
         /\ d.tables \in JftTables /\ d.psps \in PspTable
         /\ d.runtime \in Snapshot /\ d.vectors \in Psps
         /\ d.poison \in Poisons /\ d.faults \in 0 .. FaultMax
BY DEF Domain

(* The parts that two domains have in common, by the part of the system.   *)
SameFiles(d, e) == e.sft = d.sft /\ e.open = d.open
SameExec(d, e) ==
  e.batches = d.batches /\ e.leases = d.leases /\ e.sessions = d.sessions
SameMemory(d, e) == e.arena = d.arena /\ e.tables = d.tables /\ e.psps = d.psps
SameRuntime(d, e) == e.runtime = d.runtime /\ e.vectors = d.vectors
SameHealth(d, e) == e.poison = d.poison /\ e.faults = d.faults
Later(d, e) == d.poison \subseteq e.poison /\ d.faults <= e.faults

(* A step of the file table and its backend *)
SftStep(d, e) ==
  /\ e \in Domain /\ SameExec(d, e) /\ SameMemory(d, e) /\ SameRuntime(d, e)
  /\ e.poison = d.poison /\ d.faults <= e.faults

(* A poison is added. *)
LEMMA WithPoison ==
  ASSUME NEW d \in Domain, NEW x \in Poisons, NEW e,
         e = [d EXCEPT !.poison = d.poison \cup x]
  PROVE  /\ e \in Domain /\ e.poison = d.poison \cup x /\ e.faults = d.faults
         /\ SameFiles(d, e) /\ SameExec(d, e) /\ SameMemory(d, e)
         /\ SameRuntime(d, e)
<1> QED
  BY DEF Domain, SameFiles, SameExec, SameMemory, SameRuntime, Poisons

(* A failure is counted. *)
LEMMA FaultyIs ==
  ASSUME NEW d \in Domain, CanFail(d), NEW e, e = Faulty(d)
  PROVE  /\ e \in Domain /\ e.faults = d.faults + 1 /\ e.poison = d.poison
         /\ SameFiles(d, e) /\ SameExec(d, e) /\ SameMemory(d, e)
         /\ SameRuntime(d, e)
<1> QED
  BY SftAssumption
  DEF Faulty, Domain, SameFiles, SameExec, SameMemory, SameRuntime, CanFail

(* The file table, or the files that are open, change. *)
LEMMA WithFiles ==
  ASSUME NEW d \in Domain, NEW s \in SftTable, NEW o \in SUBSET Handles,
         NEW e, e = [d EXCEPT !.sft = s, !.open = o]
  PROVE  /\ e \in Domain /\ e.sft = s /\ e.open = o
         /\ SameExec(d, e) /\ SameMemory(d, e) /\ SameRuntime(d, e)
         /\ SameHealth(d, e)
BY DEF Domain, SameExec, SameMemory, SameRuntime, SameHealth

(* The memory changes. *)
LEMMA WithMemory ==
  ASSUME NEW d \in Domain, NEW a \in Arena, NEW t \in JftTables,
         NEW q \in PspTable, NEW e,
         e = [d EXCEPT !.arena = a, !.tables = t, !.psps = q]
  PROVE  /\ e \in Domain /\ e.arena = a /\ e.tables = t /\ e.psps = q
         /\ SameFiles(d, e) /\ SameExec(d, e) /\ SameRuntime(d, e)
         /\ SameHealth(d, e)
BY DEF Domain, SameExec, SameFiles, SameRuntime, SameHealth

(* What an EXEC holds changes. *)
LEMMA WithExec ==
  ASSUME NEW d \in Domain, NEW b \in BatchTable, NEW l \in LeaseTable,
         NEW s \in SessionTable, NEW e,
         e = [d EXCEPT !.batches = b, !.leases = l, !.sessions = s]
  PROVE  /\ e \in Domain /\ e.batches = b /\ e.leases = l /\ e.sessions = s
         /\ SameFiles(d, e) /\ SameMemory(d, e) /\ SameRuntime(d, e)
         /\ SameHealth(d, e)
BY DEF Domain, SameMemory, SameFiles, SameRuntime, SameHealth

(* The runtime or the handlers change. *)
LEMMA WithRuntime ==
  ASSUME NEW d \in Domain, NEW r \in Snapshot, NEW v \in Psps, NEW e,
         e = [d EXCEPT !.runtime = r, !.vectors = v]
  PROVE  /\ e \in Domain /\ e.runtime = r /\ e.vectors = v
         /\ SameFiles(d, e) /\ SameMemory(d, e) /\ SameExec(d, e)
         /\ SameHealth(d, e)
BY DEF Domain, SameMemory, SameFiles, SameExec, SameHealth

-----------------------------------------------------------------------------
(* The file table.                                                         *)

(* One slot changes. *)
PutSlot(d, n, x) == [d EXCEPT !.sft[n] = x]

(* It is a step of the file table. *)
LEMMA SlotSet ==
  ASSUME NEW d \in Domain, NEW n \in Sfns, NEW x \in SftSlot
  PROVE  LET e == PutSlot(d, n, x)
         IN  /\ SftStep(d, e) /\ e.sft = [d.sft EXCEPT ![n] = x]
             /\ e.open = d.open /\ e.faults = d.faults
<1>2. PICK e : e = PutSlot(d, n, x)
  OBVIOUS
<1> QED
  BY <1>2, Parts
  DEF Domain, SftStep, SameExec, SameMemory, SameRuntime, PutSlot, SftTable

(* A slot that nobody has. *)
LEMMA BlankTyped ==
  ASSUME NEW g \in 0 .. SftGenerationMax
  PROVE  /\ Blank(g) \in SftSlot /\ Blank(g).state = "FREE"
         /\ Blank(g).generation = g
         /\ [Blank(g) EXCEPT !.state = "RESERVED"] \in SftSlot
<1>2. PICK b : b = Blank(g)
  OBVIOUS
<1>3. b = [state |-> "FREE", generation |-> g, kind |-> "STANDARD", handle |-> 0,
           inherit |-> FALSE, references |-> 0, device_opens |-> 0,
           position |-> 0]
  BY <1>2 DEF Blank, NoHandle
<1>4. b \in SftSlot
  BY SftAssumption, <1>3 DEF SftSlot, Handles, NoHandle
<1>5. [b EXCEPT !.state = "RESERVED"] \in SftSlot
  BY <1>4 DEF SftSlot
<1> QED
  BY <1>2, <1>3, <1>4, <1>5

(* The slots of a domain have their type. *)
LEMMA SlotTyped ==
  ASSUME NEW d \in Domain, NEW n \in Sfns
  PROVE  d.sft[n] \in SftSlot
BY Parts DEF SftTable

(* PoisonSlot touches one slot. *)
LEMMA PoisonSlotIs ==
  ASSUME NEW d \in Domain, NEW n \in Sfns, NEW e, e = PoisonSlot(d, n)
  PROVE  /\ SftStep(d, e) /\ e.open = d.open /\ e.faults = d.faults
         /\ \A m \in Sfns \ {n} : e.sft[m] = d.sft[m]
<1>1. PICK x : x = [d.sft[n] EXCEPT !.state = "POISONED"]
  OBVIOUS
<1>2. x \in SftSlot
  BY <1>1, SlotTyped DEF SftSlot
<1>3. e = PutSlot(d, n, x)
  BY <1>1 DEF PoisonSlot, PutSlot
<1> QED
  <2>1. SftStep(d, e) /\ e.sft = [d.sft EXCEPT ![n] = x]
        /\ e.open = d.open /\ e.faults = d.faults
    BY <1>2, <1>3, SlotSet
  <2> QED
    BY <2>1, Parts DEF SftTable

(* Recycle makes one slot free. *)
LEMMA RecycleIs ==
  ASSUME NEW d \in Domain, NEW n \in Sfns, NEW e, e = Recycle(d, n)
  PROVE  /\ SftStep(d, e) /\ e.open = d.open /\ e.faults = d.faults
         /\ e.sft = [d.sft EXCEPT ![n] = Blank(d.sft[n].generation)]
         /\ e.sft[n].state = "FREE"
<1>1. PICK x : x = Blank(d.sft[n].generation)
  OBVIOUS
<1>2. x \in SftSlot /\ x.state = "FREE"
  BY <1>1, SlotTyped, BlankTyped DEF SftSlot
<1> QED
  BY <1>1, <1>2, SlotSet, Parts DEF SftTable, Recycle, PutSlot

(* A step of the file table follows another. *)
LEMMA SftSteps ==
  ASSUME NEW d \in Domain, NEW e, NEW f, SftStep(d, e), SftStep(e, f)
  PROVE  SftStep(d, f)
<1> QED
  BY Parts, SftAssumption DEF SftStep, SameExec, SameMemory, SameRuntime

(* A failure alone changes no file. *)
LEMMA FaultyStep ==
  ASSUME NEW d \in Domain, CanFail(d), NEW e, e = Faulty(d)
  PROVE  SftStep(d, e) /\ SameFiles(d, e) /\ e.faults # 0
<1> QED
  BY Parts, SftAssumption, FaultyIs DEF SftStep

(* dos_sft_runtime_close: it closed; it refused and nothing changed; or    *)
(* the slot is poisoned.                                                   *)
LEMMA InvokeIs ==
  ASSUME NEW d \in Domain, NEW n \in Sfns, NEW r \in InvokeBackendClose(d, n)
  PROVE  /\ SftStep(d, r.d) /\ r.st \in {"OK", "BACKEND_FAILURE", "POISONED"}
         /\ r.st = "OK" => /\ r.d.open = d.open \ {d.sft[n].handle}
                           /\ r.d.sft = d.sft /\ r.d.faults = d.faults
         /\ r.st = "BACKEND_FAILURE" => SameFiles(d, r.d)
<1>1. PICK shut : shut = [d EXCEPT !.open = @ \ {d.sft[n].handle}]
  OBVIOUS
<1>2. /\ SftStep(d, shut) /\ shut.open = d.open \ {d.sft[n].handle}
      /\ shut.sft = d.sft /\ shut.faults = d.faults /\ shut \in Domain
  BY <1>1 DEF Domain, SftStep, SameExec, SameMemory, SameRuntime
<1>4. CASE r = Result(shut, "OK")
  BY <1>2, <1>4 DEF Result
<1>5. CASE CanFail(d) /\ r = Result(Faulty(d), "BACKEND_FAILURE")
  BY <1>5, FaultyStep DEF Result
<1>6. ASSUME NEW e \in {d, shut}, CanFail(d),
             r = Result(PoisonSlot(Faulty(e), n), "POISONED")
      PROVE  SftStep(d, r.d) /\ r.st = "POISONED"
  BY Parts, SftAssumption, <1>2, <1>6, FaultyStep, PoisonSlotIs, SftSteps
  DEF SftStep, SameExec, SameMemory, SameRuntime, CanFail, Result
<1> QED
  BY <1>1, <1>4, <1>5, <1>6 DEF InvokeBackendClose

(* A backend that closed gives its slot back. *)
LEMMA ClosedIs ==
  ASSUME NEW d \in Domain, NEW n \in Sfns, NEW r \in Closed(d, n)
  PROVE  /\ SftStep(d, r.d) /\ r.st \in {"OK", "BACKEND_FAILURE", "POISONED"}
         /\ r.st = "OK" =>
              /\ r.d.open = d.open \ {d.sft[n].handle}
              /\ r.d.sft = [d.sft EXCEPT ![n] = Blank(d.sft[n].generation)]
              /\ r.d.sft[n].state = "FREE"
         /\ r.st = "BACKEND_FAILURE" => SameFiles(d, r.d)
<1>1. PICK q \in InvokeBackendClose(d, n) :
           r = IF q.st = "OK" THEN Result(Recycle(q.d, n), "OK") ELSE q
  BY DEF Closed
<1>2. /\ SftStep(d, q.d) /\ q.st \in {"OK", "BACKEND_FAILURE", "POISONED"}
      /\ q.st = "OK" => /\ q.d.open = d.open \ {d.sft[n].handle}
                        /\ q.d.sft = d.sft /\ q.d.faults = d.faults
      /\ q.st = "BACKEND_FAILURE" => SameFiles(d, q.d)
  BY InvokeIs
<1>3. CASE q.st # "OK"
  BY <1>1, <1>2, <1>3
<1>4. CASE q.st = "OK"
  <2>2. q.d \in Domain
    BY <1>2 DEF SftStep
  <2> QED
    BY <1>2, <1>4, <1>1, <2>2, RecycleIs, SftSteps DEF Result
<1> QED
  BY <1>3, <1>4

(* One that did not leaves the slot poisoned. *)
LEMMA ClosedOrPoisonedIs ==
  ASSUME NEW d \in Domain, NEW n \in Sfns, NEW r \in ClosedOrPoisoned(d, n)
  PROVE  /\ SftStep(d, r.d) /\ r.st \in {"OK", "FAULT"}
         /\ r.st = "OK" =>
              /\ r.d.open = d.open \ {d.sft[n].handle}
              /\ r.d.sft = [d.sft EXCEPT ![n] = Blank(d.sft[n].generation)]
              /\ r.d.sft[n].state = "FREE"
<1>1. PICK q \in Closed(d, n) :
           r = IF q.st = "OK" THEN q ELSE Result(PoisonSlot(q.d, n), "FAULT")
  BY DEF ClosedOrPoisoned
<1>2. CASE q.st = "OK"
  BY <1>1, <1>2, ClosedIs
<1>3. CASE q.st # "OK"
  <2>1. SftStep(d, q.d) /\ q.d \in Domain
    <3>1. SftStep(d, q.d)
      BY ClosedIs
    <3> QED
      BY <3>1 DEF SftStep
  <2> QED
    BY <2>1, PoisonSlotIs, <1>1, <1>3, SftSteps DEF Result
<1> QED
  BY <1>2, <1>3

(* The counters of a slot change. *)
WithCounters(x, i, k) == [x EXCEPT !.references = i, !.device_opens = k]

(* The slot is still one, with those counters. *)
LEMMA CountersOf ==
  ASSUME NEW x \in SftSlot, NEW i \in Nat, NEW k \in Nat
  PROVE  /\ WithCounters(x, i, k) \in SftSlot
         /\ WithCounters(x, i, k).references = i
         /\ WithCounters(x, i, k).device_opens = k
         /\ WithCounters(x, i, k).state = x.state
         /\ WithCounters(x, i, k).kind = x.kind
         /\ WithCounters(x, i, k).handle = x.handle
         /\ WithCounters(x, i, k).generation = x.generation
BY DEF SftSlot, WithCounters

(* The counters of a slot of a domain *)
LEMMA CountersSet ==
  ASSUME NEW d \in Domain, NEW n \in Sfns, NEW i \in Nat, NEW k \in Nat
  PROVE  SftStep(d, PutSlot(d, n, WithCounters(d.sft[n], i, k)))
<1> QED
  BY SlotTyped, CountersOf, SlotSet

-----------------------------------------------------------------------------
(* References are given up.                                                *)

Refs == Sfns \X (0 .. SftGenerationMax)

(* A step that changes nothing *)
LEMMA SftStays ==
  ASSUME NEW d \in Domain
  PROVE  SftStep(d, d)
<1> QED
  BY Parts, SftAssumption DEF SftStep, SameExec, SameMemory, SameRuntime

(* The counters are naturals. *)
LEMMA CountersTyped ==
  ASSUME NEW d \in Domain, NEW n \in Sfns
  PROVE  /\ d.sft[n].references \in Nat /\ d.sft[n].device_opens \in Nat
         /\ d.sft[n].generation \in 0 .. SftGenerationMax
         /\ d.sft[n].handle \in Handles \cup {NoHandle}
BY SlotTyped DEF SftSlot

(* The name of a slot *)
LEMMA ReferenceIs ==
  ASSUME NEW d \in Domain, NEW n \in Sfns
  PROVE  /\ Reference(d, n) \in Refs /\ Reference(d, n)[1] = n
         /\ d.sft[n].state # "FREE" => Resolves(d, Reference(d, n))
BY CountersTyped DEF Reference, Refs, Resolves

(* dos_sft_registry_close_reference, not for the last time *)
LEMMA DropIs ==
  ASSUME NEW d \in Domain, NEW n \in Sfns, Usable(d, n),
         d.sft[n].device_opens = d.sft[n].references
  PROVE  DropReference(d, n) =
           PutSlot(d, n, WithCounters(d.sft[n], d.sft[n].references - 1,
                                      d.sft[n].device_opens - 1))
BY SlotTyped, Parts DEF DropReference, PutSlot, WithCounters, Domain, SftTable, SftSlot

(* registry_reference_release *)
LEMMA ReleaseIs ==
  ASSUME NEW d \in Domain, NEW ref \in Refs,
         NEW r, r = ReferenceRelease(d, ref)
  PROVE  /\ SftStep(d, r.d) /\ r.st \in {"OK", "FAULT"}
         /\ r.st = "OK" =>
              /\ Usable(d, ref[1]) /\ Resolves(d, ref)
              /\ d.sft[ref[1]].device_opens = d.sft[ref[1]].references
              /\ r.d = PutSlot(d, ref[1],
                         WithCounters(d.sft[ref[1]],
                                      d.sft[ref[1]].references - 1,
                                      d.sft[ref[1]].device_opens))
         /\ r.st # "OK" => r.d = d
<1>1. PICK n \in Sfns : n = ref[1]
  BY DEF Refs
<1>2. PICK x : x = d.sft[n]
  OBVIOUS
<1>3. x \in SftSlot /\ x.references \in Nat /\ x.device_opens \in Nat
  BY <1>2, SlotTyped, CountersTyped
<1>4. CASE r.st = "OK"
  <2>1. /\ Resolves(d, ref) /\ Usable(d, n)
        /\ x.device_opens = x.references
        /\ r.d = [d EXCEPT !.sft[n].references = @ - 1]
    BY <1>1, <1>2, <1>4 DEF ReferenceRelease, Result
  <2>2. PICK y : y = WithCounters(x, x.references - 1, x.device_opens)
    OBVIOUS
  <2>4. r.d = PutSlot(d, n, y)
    BY <1>2, <2>1, <1>3, <2>2 DEF PutSlot, WithCounters, SftSlot
  <2>6. SftStep(d, PutSlot(d, n, y))
    BY <1>3, <1>2, <2>1, CountersSet, <2>2 DEF Usable
  <2> QED
    BY <1>1, <1>2, <1>4, <2>1, <2>2, <2>4, <2>6
<1>5. CASE r.st # "OK"
  BY <1>5, SftStays DEF ReferenceRelease, Result
<1> QED
  BY <1>4, <1>5

(* registry_device_close: one device open less, *)
LEMMA DeviceLess ==
  ASSUME NEW d \in Domain, NEW ref \in Refs, NEW r \in DeviceClose(d, ref),
         r.st = "OK", d.sft[ref[1]].references # 0
  PROVE  r.d = PutSlot(d, ref[1],
                 WithCounters(d.sft[ref[1]], d.sft[ref[1]].references,
                              d.sft[ref[1]].references))
<1>1. PICK n \in Sfns : n = ref[1]
  BY DEF Refs
<1>2. PICK x : x = d.sft[n]
  OBVIOUS
<1>3. x \in SftSlot /\ x.references \in Nat /\ x.device_opens \in Nat
  BY <1>2, SlotTyped, CountersTyped
<1>4. /\ x.device_opens = x.references + 1
      /\ r.d = [d EXCEPT !.sft[n].device_opens = @ - 1]
  BY <1>1, <1>2 DEF DeviceClose, Result
<1>5. PICK y : y = WithCounters(x, x.references, x.references)
  OBVIOUS
<1>6. y = [x EXCEPT !.device_opens = x.device_opens - 1]
  <2>1. x.device_opens - 1 = x.references
    BY <1>3, <1>4
  <2> QED
    BY <1>3, <1>5, <2>1 DEF WithCounters, SftSlot
<1> QED
  BY <1>1, <1>2, <1>5, <1>4, <1>6 DEF PutSlot

(* or the last one, and the backend with it. *)
LEMMA DeviceLast ==
  ASSUME NEW d \in Domain, NEW ref \in Refs, NEW r \in DeviceClose(d, ref),
         r.st = "OK", d.sft[ref[1]].references = 0
  PROVE  /\ r.d.open = d.open \ {d.sft[ref[1]].handle}
         /\ r.d.sft = [d.sft EXCEPT ![ref[1]] = Blank(d.sft[ref[1]].generation)]
<1>1. PICK n \in Sfns : n = ref[1]
  BY DEF Refs
<1> QED
  BY <1>1, ClosedOrPoisonedIs DEF DeviceClose, Result

(* Either way it is a step of the file table. *)
LEMMA DeviceCloseTyped ==
  ASSUME NEW d \in Domain, NEW ref \in Refs, NEW r \in DeviceClose(d, ref)
  PROVE  SftStep(d, r.d)
<1>1. PICK n \in Sfns : n = ref[1]
  BY DEF Refs
<1>3. CASE r = Result(d, "FAULT")
  BY <1>3, SftStays DEF Result
<1>4. CASE r \in ClosedOrPoisoned(d, n)
  BY <1>4, ClosedOrPoisonedIs
<1>5. CASE r.st = "OK" /\ d.sft[n].references # 0
  BY <1>1, <1>5, DeviceLess, CountersTyped, CountersSet
<1>6. CASE r.st = "OK" /\ d.sft[n].references = 0
  <2>1. r \in ClosedOrPoisoned(d, n)
    BY <1>1, <1>6 DEF DeviceClose, Result
  <2> QED
    BY <2>1, ClosedOrPoisonedIs
<1> QED
  BY <1>1, <1>3, <1>4, <1>5, <1>6 DEF DeviceClose, Result

(* So is giving up an entry, *)
LEMMA ReleaseEntryTyped ==
  ASSUME NEW d \in Domain, NEW ref \in Refs, NEW r \in ReleaseEntry(d, ref)
  PROVE  SftStep(d, r.d)
<1>1. PICK q : q = ReferenceRelease(d, ref)
  OBVIOUS
<1>2. SftStep(d, q.d) /\ q.d \in Domain
  BY <1>1, ReleaseIs DEF SftStep
<1>3. CASE q.st = "OK"
  BY <1>1, <1>3, <1>2, DeviceCloseTyped, SftSteps DEF ReleaseEntry
<1>4. CASE q.st # "OK"
  BY <1>1, <1>4, <1>2 DEF ReleaseEntry
<1> QED
  BY <1>3, <1>4

(* and taking back what a child was to inherit. *)
LEMMA UndoEntryTyped ==
  ASSUME NEW d \in Domain, NEW ref \in Refs, NEW acts, NEW entry,
         entry = [ref |-> ref, acts |-> acts], NEW r \in UndoEntry(d, entry)
  PROVE  SftStep(d, r.d)
<1>1. PICK q : q = IF "REFERENCE_ACQUIRED" \in entry.acts
                     THEN ReferenceRelease(d, ref) ELSE Result(d, "OK")
  OBVIOUS
<1>2. SftStep(d, q.d) /\ q.d \in Domain
  BY <1>1, ReleaseIs, SftStays DEF Result, SftStep
<1>4. CASE r \in DeviceClose(q.d, ref)
  BY <1>2, <1>4, DeviceCloseTyped, SftSteps
<1> QED
  BY <1>2, <1>1, <1>4, SftStays DEF Result, UndoEntry

(* dos_sft_registry_close_reference: one reference less, or the last one,  *)
(* or nothing because the backend refused.                                 *)
LEMMA CloseReferenceIs ==
  ASSUME NEW d \in Domain, NEW ref \in Refs, NEW r \in CloseReference(d, ref)
  PROVE  /\ SftStep(d, r.d)
         /\ r.st = "OK" /\ d.sft[ref[1]].references # 1 =>
              /\ d.sft[ref[1]].references > 1
              /\ r.d = DropReference(d, ref[1])
         /\ r.st = "OK" /\ d.sft[ref[1]].references = 1 =>
              /\ r.d.open = d.open \ {d.sft[ref[1]].handle}
              /\ r.d.sft = [d.sft EXCEPT ![ref[1]] = Blank(d.sft[ref[1]].generation)]
         /\ r.st = "BACKEND_FAILURE" => SameFiles(d, r.d)
<1>1. PICK n \in Sfns : n = ref[1]
  BY DEF Refs
<1>2. PICK x : x = d.sft[n]
  OBVIOUS
<1>3. x \in SftSlot /\ x.references \in Nat /\ x.device_opens \in Nat
  BY <1>2, SlotTyped, CountersTyped
<1>5. CASE \/ r = Result(d, "STALE_REFERENCE") \/ r = Result(d, "POISONED")
           \/ r = Result(d, "INVALID_STATE")
  BY <1>5, SftStays DEF Result
<1>6. CASE r = Result(PoisonSlot(d, n), "POISONED")
  BY <1>6, PoisonSlotIs DEF Result
<1>7. CASE /\ Usable(d, n) /\ x.device_opens = x.references /\ x.references > 1
           /\ r = Result(DropReference(d, n), "OK")
  BY <1>3, <1>7, <1>2, DropIs, CountersSet, <1>1 DEF Result
<1>8. CASE /\ Usable(d, n) /\ x.device_opens = x.references
           /\ ~(x.references > 1) /\ r \in Closed(d, n)
  BY <1>2, <1>3, <1>8, <1>1, ClosedIs DEF Usable
<1> QED
  BY <1>1, <1>2, <1>5, <1>6, <1>7, <1>8 DEF CloseReference

-----------------------------------------------------------------------------
(* The ledger: a reference more or less.                                   *)

(* What the owners of the files depend on *)
LEMMA OwnedSame ==
  ASSUME NEW s, NEW t, NEW l, NEW o, Owned(s, l, o),
         \A m \in Sfns : /\ t[m].state = s[m].state /\ t[m].kind = s[m].kind
                         /\ t[m].handle = s[m].handle
  PROVE  Owned(t, l, o)
<1> QED
  BY DEF Owned, Described

(* Counters that change together keep the ledger. *)
LEMMA Counted ==
  ASSUME NEW d \in Domain, NEW c \in [Sfns -> Nat], Ledger(d, c), NEW n \in Sfns,
         c[n] # 0, NEW i \in Nat \ {0}, NEW e, SftStep(d, e), e.open = d.open,
         e.sft = [d.sft EXCEPT ![n] = WithCounters(d.sft[n], i, i)]
  PROVE  Ledger(e, [c EXCEPT ![n] = i])
<1>1. PICK x : x = WithCounters(d.sft[n], i, i)
  OBVIOUS
<1>3. /\ e.sft = [d.sft EXCEPT ![n] = x]
      /\ x.references = i /\ x.device_opens = i
      /\ x.state = d.sft[n].state /\ x.kind = d.sft[n].kind
      /\ x.handle = d.sft[n].handle
  BY <1>1, SlotTyped, CountersOf
<1>4. /\ e.sft[n] = x /\ \A m \in Sfns \ {n} : e.sft[m] = d.sft[m]
      /\ e.leases = d.leases
  BY <1>3, Parts DEF SftTable, SftStep, SameExec
<1>5. Owned(e.sft, e.leases, e.open)
  <2>1. Owned(d.sft, d.leases, d.open)
    BY DEF Ledger
  <2>2. \A m \in Sfns : /\ e.sft[m].state = d.sft[m].state
                        /\ e.sft[m].kind = d.sft[m].kind
                        /\ e.sft[m].handle = d.sft[m].handle
    BY <1>3, <1>4
  <2>3. Owned(e.sft, d.leases, d.open)
    BY ONLY <2>1, <2>2, OwnedSame
  <2> QED
    BY <1>3, <1>4, <2>3
<1> QED
  BY <1>5, <1>4, <1>3 DEF Ledger, Exact

(* The last reference goes with the slot and its file. *)
LEMMA Shut ==
  ASSUME NEW d \in Domain, NEW c \in [Sfns -> Nat], Ledger(d, c), NEW n \in Sfns,
         c[n] = 1, NEW e \in Domain, e.leases = d.leases,
         e.open = d.open \ {d.sft[n].handle}, e.sft[n].state = "FREE",
         \A m \in Sfns \ {n} : e.sft[m] = d.sft[m]
  PROVE  Ledger(e, [c EXCEPT ![n] = 0])
<1>1. d.sft[n].state = "PRESENT"
  BY DEF Ledger, Exact
<1>2. Exact(e.sft, [c EXCEPT ![n] = 0])
  BY DEF Ledger, Exact
<1>3. Described(e.sft) = Described(d.sft) \ {n}
  BY DEF Described
<1>4. Owned(d.sft, d.leases, d.open)
  BY DEF Ledger
<1>5. CASE d.sft[n].kind = "STANDARD"
  BY <1>5, <1>3, <1>4, <1>1, Parts, <1>2 DEF Described, Owned, Handles, NoHandle, Ledger
<1>6. CASE d.sft[n].kind # "STANDARD"
  BY <1>1, <1>6, <1>4, <1>3, <1>2 DEF Described, Owned, Ledger
<1> QED
  BY <1>2, <1>5, <1>6 DEF Ledger

(* The backend closes with the last reference. *)
Reduced(c, n) == [c EXCEPT ![n] = c[n] - 1]

(* The slot after a recycle *)
LEMMA ShutSlot ==
  ASSUME NEW d \in Domain, NEW c \in [Sfns -> Nat], Ledger(d, c), NEW n \in Sfns,
         c[n] = 1, NEW e, SftStep(d, e),
         e.open = d.open \ {d.sft[n].handle}, NEW x,
         e.sft = [d.sft EXCEPT ![n] = x], x.state = "FREE"
  PROVE  Ledger(e, Reduced(c, n))
<1>3. Ledger(e, [c EXCEPT ![n] = 0])
  BY Parts, Shut DEF SftTable, SftStep, SameExec
<1> QED
  BY <1>3 DEF Reduced

(* dos_sft_registry_close_reference takes one reference from the ledger,   *)
(* or leaves it as it was when the backend refuses.                        *)
LEMMA CloseLedger ==
  ASSUME NEW d \in Domain, NEW c \in [Sfns -> Nat], Ledger(d, c), NEW n \in Sfns,
         c[n] # 0, NEW r \in CloseReference(d, Reference(d, n))
  PROVE  /\ r.st = "OK" => Ledger(r.d, Reduced(c, n))
         /\ r.st = "BACKEND_FAILURE" => Ledger(r.d, c)
<1>1. PICK ref \in Refs : ref = Reference(d, n) /\ ref[1] = n
  BY ReferenceIs
<1>2. PICK x : x = d.sft[n]
  OBVIOUS
<1>3. /\ x.state = "PRESENT" /\ x.references = c[n] /\ x.device_opens = c[n]
      /\ x.generation \in 0 .. SftGenerationMax
  BY <1>2, CountersTyped DEF Ledger, Exact
<1>4. /\ SftStep(d, r.d)
      /\ r.st = "OK" /\ x.references # 1 => r.d = DropReference(d, n)
      /\ r.st = "OK" /\ x.references = 1 =>
           /\ r.d.open = d.open \ {x.handle}
           /\ r.d.sft = [d.sft EXCEPT ![n] = Blank(x.generation)]
      /\ r.st = "BACKEND_FAILURE" => SameFiles(d, r.d)
  BY <1>1, <1>2, CloseReferenceIs
<1>5. CASE r.st = "BACKEND_FAILURE"
  BY <1>4, <1>5 DEF Ledger, SameFiles, SftStep, SameExec
<1>6. CASE r.st = "OK" /\ c[n] > 1
  <2>1. PICK i \in Nat \ {0} : i = c[n] - 1
    BY <1>6
  <2>2. r.d = PutSlot(d, n, WithCounters(d.sft[n], i, i))
    BY <1>2, <1>3, <1>4, <1>6, <2>1, DropIs DEF Usable
  <2>3. Ledger(r.d, [c EXCEPT ![n] = i])
    <3>2. /\ r.d.open = d.open
          /\ r.d.sft = [d.sft EXCEPT ![n] = WithCounters(d.sft[n], i, i)]
      BY <2>2, SlotTyped, CountersOf, SlotSet
    <3> QED
      BY <1>4, <3>2, Counted
  <2> QED
    BY <1>6, <2>1, <2>3 DEF Reduced
<1>7. CASE r.st = "OK" /\ ~(c[n] > 1)
  <2>3. Blank(x.generation).state = "FREE"
    BY DEF Blank
  <2> QED
    BY <1>4, <1>7, <1>2, <1>3, <2>3, ShutSlot
<1> QED
  BY <1>5, <1>6, <1>7

(* The device is closed once the reference has been released. *)
LEMMA DeviceClosed ==
  ASSUME NEW d \in Domain, NEW c \in [Sfns -> Nat], Ledger(d, c), NEW n \in Sfns,
         c[n] # 0, NEW ref \in Refs, ref[1] = n, NEW i \in Nat, i = c[n] - 1,
         NEW g \in Domain, g = PutSlot(d, n, WithCounters(d.sft[n], i, c[n])),
         NEW r \in DeviceClose(g, ref), r.st = "OK"
  PROVE  Ledger(r.d, Reduced(c, n))
<1>1. PICK x : x = d.sft[n]
  OBVIOUS
<1>2. x.generation \in 0 .. SftGenerationMax
  BY <1>1, CountersTyped
<1>3. PICK y : y = WithCounters(d.sft[n], i, c[n])
  OBVIOUS
<1>4. /\ SftStep(d, g) /\ g.open = d.open /\ g.sft = [d.sft EXCEPT ![n] = y]
      /\ y.references = i /\ y.device_opens = c[n]
      /\ y.handle = x.handle /\ y.generation = x.generation
  <2>1. d.sft[n] \in SftSlot
    BY SlotTyped
  <2>2. /\ y \in SftSlot /\ y.references = i /\ y.device_opens = c[n]
        /\ y.handle = x.handle /\ y.generation = x.generation
    <3>1. PICK k \in Nat : k = c[n]
      OBVIOUS
    <3>2. y = WithCounters(x, i, k) /\ x \in SftSlot
      BY <1>1, <1>3, <2>1, <3>1
    <3>3. /\ y \in SftSlot /\ y.references = i /\ y.device_opens = k
          /\ y.handle = x.handle /\ y.generation = x.generation
      BY ONLY <3>2, i \in Nat, k \in Nat, CountersOf, ZenonT(60)
    <3> QED
      BY <3>1, <3>3
  <2> QED
    BY <1>3, <2>2, SlotSet
<1>5. g.sft[n] = y
  BY <1>4, Parts DEF SftTable
<1>6. CASE i # 0
  <2>4. PICK z : z = WithCounters(d.sft[n], i, i)
    OBVIOUS
  <2>5. z \in SftSlot /\ WithCounters(y, i, i) = z
    <3>2. ASSUME NEW v \in SftSlot, NEW k
          PROVE  WithCounters(WithCounters(v, i, k), i, i) = WithCounters(v, i, i)
      BY DEF WithCounters, SftSlot
    <3> QED
      BY <1>3, <2>4, SlotTyped, CountersOf, <3>2
  <2>6. /\ SftStep(g, r.d) /\ r.d.open = g.open
        /\ r.d.sft = [g.sft EXCEPT ![n] = z]
    BY <1>4, <1>5, <1>6, DeviceLess, <2>5, SlotSet
  <2>7. r.d.sft = [d.sft EXCEPT ![n] = z] /\ r.d.open = d.open
    BY <1>4, <2>6, Parts DEF SftTable
  <2>9. Ledger(r.d, [c EXCEPT ![n] = i])
    BY <1>6, <2>4, <2>7, <1>4, <2>6, SftSteps, Counted
  <2> QED
    BY <2>9 DEF Reduced
<1>7. CASE i = 0
  <2>1. c[n] = 1 /\ g.sft[ref[1]].references = 0
    BY <1>4, <1>5, <1>7
  <2>2. /\ r.d.open = g.open \ {y.handle}
        /\ r.d.sft = [g.sft EXCEPT ![n] = Blank(y.generation)]
        /\ SftStep(g, r.d)
    BY <1>5, <2>1, DeviceLast, DeviceCloseTyped
  <2>3. PICK z : z = Blank(y.generation)
    OBVIOUS
  <2> QED
    BY <2>1, <2>3, <1>4, <2>2, Parts, SftSteps, <1>1, ShutSlot DEF SftTable, Blank
<1> QED
  BY <1>6, <1>7

(* A reference is released and its device closed. *)
LEMMA ReleasedLedger ==
  ASSUME NEW d \in Domain, NEW c \in [Sfns -> Nat], Ledger(d, c), NEW n \in Sfns,
         c[n] # 0, NEW ref \in Refs, ref = Reference(d, n),
         NEW q, q = ReferenceRelease(d, ref), NEW r \in DeviceClose(q.d, ref),
         r.st = "OK"
  PROVE  Ledger(r.d, Reduced(c, n))
<1>1. ref[1] = n /\ Resolves(d, ref)
  BY ReferenceIs DEF Ledger, Exact
<1>2. /\ d.sft[n].state = "PRESENT"
      /\ d.sft[n].references = c[n] /\ d.sft[n].device_opens = c[n]
  BY DEF Ledger, Exact
<1>3. q.st = "OK"
  BY <1>1, <1>2 DEF ReferenceRelease, Result, Usable
<1>4. PICK i \in Nat : i = c[n] - 1
  OBVIOUS
<1> QED
  BY <1>1, <1>4, <1>2, <1>3, ReleaseIs, DeviceClosed DEF SftStep

(* A JFT entry is given up. *)
LEMMA ReleaseLedger ==
  ASSUME NEW d \in Domain, NEW c \in [Sfns -> Nat], Ledger(d, c), NEW n \in Sfns,
         c[n] # 0, NEW r \in ReleaseEntry(d, Reference(d, n)), r.st = "OK"
  PROVE  Ledger(r.d, Reduced(c, n))
<1>1. PICK ref \in Refs : ref = Reference(d, n)
  BY ReferenceIs
<1>2. PICK q : q = ReferenceRelease(d, ref)
  OBVIOUS
<1> QED
  BY <1>1, <1>2, ReleaseIs, ReleasedLedger DEF ReleaseEntry

(* An inherited reference is taken back. *)
LEMMA UndoLedger ==
  ASSUME NEW d \in Domain, NEW c \in [Sfns -> Nat], Ledger(d, c), NEW n \in Sfns,
         c[n] # 0, NEW entry, entry.ref = Reference(d, n),
         entry.acts = {"DEVICE_OPEN", "REFERENCE_ACQUIRED"},
         NEW r \in UndoEntry(d, entry), r.st = "OK"
  PROVE  Ledger(r.d, Reduced(c, n))
<1>1. PICK ref \in Refs : ref = Reference(d, n)
  BY ReferenceIs
<1>2. PICK q : q = ReferenceRelease(d, ref)
  OBVIOUS
<1> QED
  BY <1>1, <1>2, ReleasedLedger DEF UndoEntry, Result

-----------------------------------------------------------------------------
(* The ledger: a description more, and none.                               *)

(* Nothing the ledger looks at has changed. *)
LEMMA LedgerSame ==
  ASSUME NEW d, NEW c, Ledger(d, c), NEW e,
         e.open = d.open, e.leases = d.leases,
         \A m \in Sfns :
           /\ e.sft[m].state = d.sft[m].state /\ e.sft[m].kind = d.sft[m].kind
           /\ e.sft[m].handle = d.sft[m].handle
           /\ e.sft[m].references = d.sft[m].references
           /\ e.sft[m].device_opens = d.sft[m].device_opens
  PROVE  Ledger(e, c)
<1> QED
  BY OwnedSame DEF Ledger, Exact

(* A free slot stays free. *)
LEMMA LedgerFree ==
  ASSUME NEW d \in Domain, NEW c, Ledger(d, c), NEW n \in Sfns,
         d.sft[n].state = "FREE", NEW e, e.open = d.open, e.leases = d.leases,
         e.sft[n].state = "FREE", \A m \in Sfns \ {n} : e.sft[m] = d.sft[m]
  PROVE  Ledger(e, c)
<1> QED
  BY DEF Ledger, Exact, Owned, Described

(* A description is opened. *)
LEMMA LedgerOpened ==
  ASSUME NEW d \in Domain, NEW c \in [Sfns -> Nat], Ledger(d, c), NEW n \in Sfns,
         d.sft[n].state = "FREE", NEW h \in Handles \ d.open, NEW e,
         e.open = d.open \cup {h}, e.leases = d.leases,
         e.sft[n].state = "PRESENT", e.sft[n].kind # "STANDARD",
         e.sft[n].handle = h, e.sft[n].references = 1,
         e.sft[n].device_opens = 1, \A m \in Sfns \ {n} : e.sft[m] = d.sft[m]
  PROVE  Ledger(e, [c EXCEPT ![n] = 1])
<1> QED
  BY DEF Ledger, Exact, Owned, Described

(* dos_sft_registry_reserve finds a free slot. *)
LEMMA ReserveIs ==
  ASSUME NEW d \in Domain, Reservable(d) # {}
  PROVE  /\ Min(Reservable(d)) \in Sfns
         /\ d.sft[Min(Reservable(d))].state = "FREE"
         /\ d.sft[Min(Reservable(d))].generation + 1 \in 0 .. SftGenerationMax
         /\ Reserve(d) = PutSlot(d, Min(Reservable(d)),
              [Blank(d.sft[Min(Reservable(d))].generation + 1)
                 EXCEPT !.state = "RESERVED"])
<1>2. PICK n : n = Min(Reservable(d))
  OBVIOUS
<1> QED
  BY <1>2, SftAssumption, MinIs, CountersTyped DEF Reserve, PutSlot, Reservable, Sfns

(* A slot that was reserved for nothing *)
LEMMA CancelLedger ==
  ASSUME NEW d \in Domain, Reservable(d) # {}, NEW n, n = Min(Reservable(d))
  PROVE  /\ SftStep(d, Cancel(Reserve(d), n))
         /\ \A c : Ledger(d, c) => Ledger(Cancel(Reserve(d), n), c)
<1>1. PICK g \in 0 .. SftGenerationMax : g = d.sft[n].generation + 1
  BY ReserveIs
<1>2. PICK x \in SftSlot : x = [Blank(g) EXCEPT !.state = "RESERVED"]
  BY BlankTyped
<1>3. PICK e : e = Reserve(d)
  OBVIOUS
<1>4. e = PutSlot(d, n, x) /\ n \in Sfns /\ d.sft[n].state = "FREE"
  BY <1>1, <1>2, <1>3, ReserveIs
<1>5. SftStep(d, e) /\ e.open = d.open /\ e.sft = [d.sft EXCEPT ![n] = x]
  BY <1>2, <1>4, SlotSet
<1>7. PICK f : f = Cancel(e, n)
  OBVIOUS
<1>8. /\ SftStep(e, f) /\ f.open = e.open /\ f.sft[n].state = "FREE"
      /\ f.sft = [e.sft EXCEPT ![n] = Blank(e.sft[n].generation)]
  BY <1>4, <1>5, <1>7, RecycleIs DEF Cancel, SftStep
<1>9. SftStep(d, f)
  BY <1>5, <1>8, SftSteps
<1>12. ASSUME NEW c, Ledger(d, c)
       PROVE  Ledger(f, c)
  BY <1>4, <1>8, <1>5, Parts, <1>9, <1>12, LedgerFree DEF SftStep, SameExec, SftTable
<1> QED
  BY <1>3, <1>7, <1>9, <1>12

(* A slot is published with the file that was opened for it. *)
Published(d, n, kind, h, inherit) ==
  Publish([Reserve(d) EXCEPT !.open = @ \cup {h}], n, kind, h, inherit)

(* The ledger has one name more for it. *)
LEMMA PublishLedger ==
  ASSUME NEW d \in Domain, Reservable(d) # {}, NEW n, n = Min(Reservable(d)),
         NEW kind \in Kinds, NEW h \in Handles \ d.open, NEW inherit \in BOOLEAN,
         NEW e, e = Published(d, n, kind, h, inherit)
  PROVE  /\ SftStep(d, e) /\ n \in Sfns /\ d.sft[n].state = "FREE"
         /\ \A c \in [Sfns -> Nat] : Ledger(d, c) => Ledger(e, [c EXCEPT ![n] = 1])
<1>1. PICK g \in 0 .. SftGenerationMax : g = d.sft[n].generation + 1
  BY ReserveIs
<1>2. PICK x \in SftSlot : x = [Blank(g) EXCEPT !.state = "RESERVED"]
  BY BlankTyped
<1>3. PICK a : a = Reserve(d)
  OBVIOUS
<1>4. a = PutSlot(d, n, x) /\ n \in Sfns /\ d.sft[n].state = "FREE"
  BY <1>1, <1>2, <1>3, ReserveIs
<1>5. /\ SftStep(d, a) /\ a.open = d.open /\ a.sft = [d.sft EXCEPT ![n] = x]
      /\ a.faults = d.faults /\ a \in Domain
  BY <1>2, <1>4, SlotSet DEF SftStep
<1>6. PICK b : b = [a EXCEPT !.open = @ \cup {h}]
  OBVIOUS
<1>7. /\ b \in Domain /\ SftStep(a, b) /\ b.open = d.open \cup {h}
      /\ b.sft = a.sft
  BY <1>5, Parts, SftAssumption, <1>6
  DEF Domain, SftStep, SameExec, SameMemory, SameRuntime
<1>8. b.sft[n] = x /\ \A m \in Sfns \ {n} : b.sft[m] = d.sft[m]
  BY <1>4, <1>5, <1>7, Parts DEF SftTable
<1>9. PICK y : y = [x EXCEPT !.state = "PRESENT", !.kind = kind, !.handle = h,
                             !.inherit = inherit, !.references = 1,
                             !.device_opens = 1, !.position = 0]
  OBVIOUS
<1>10. e = PutSlot(b, n, y)
  BY <1>3, <1>6, <1>8, <1>9 DEF Published, Publish, PutSlot
<1>11. /\ y \in SftSlot /\ y.state = "PRESENT" /\ y.kind # "STANDARD"
       /\ y.handle = h /\ y.references = 1 /\ y.device_opens = 1
  <2>1. 0 \in 0 .. PositionMax /\ 1 \in Nat /\ kind \in {"FILE", "DEVICE"}
    BY SftAssumption DEF Kinds
  <2> QED
    BY <1>9, <2>1 DEF SftSlot
<1>12. SftStep(b, e) /\ e.open = b.open /\ e.sft = [b.sft EXCEPT ![n] = y]
  BY <1>4, <1>7, <1>10, <1>11, SlotSet
<1>13. SftStep(d, e)
  BY <1>5, <1>7, <1>12, SftSteps
<1>14. /\ e.sft[n] = y /\ \A m \in Sfns \ {n} : e.sft[m] = d.sft[m]
       /\ e.open = d.open \cup {h} /\ e.leases = d.leases
  BY <1>4, <1>7, <1>8, <1>12, <1>13, Parts DEF SftTable, SftStep, SameExec
<1>15. ASSUME NEW c \in [Sfns -> Nat], Ledger(d, c)
       PROVE  Ledger(e, [c EXCEPT ![n] = 1])
  <2>1. /\ e.sft[n].state = "PRESENT" /\ e.sft[n].kind # "STANDARD"
        /\ e.sft[n].handle = h /\ e.sft[n].references = 1
        /\ e.sft[n].device_opens = 1
    BY <1>11, <1>14
  <2> QED
    BY ONLY <1>4, <1>14, <1>15, <2>1, d \in Domain, h \in Handles \ d.open, LedgerOpened
<1> QED
  BY <1>4, <1>13, <1>15

(* dos_sft_registry_update_io moves a cursor. *)
LEMMA UpdateIoIs ==
  ASSUME NEW d \in Domain, NEW n \in Sfns, NEW k \in 0 .. PositionMax, NEW e,
         e = UpdateIo(d, n, k)
  PROVE  SftStep(d, e) /\ \A c : Ledger(d, c) => Ledger(e, c)
<1>1. PICK x : x = [d.sft[n] EXCEPT !.position = k]
  OBVIOUS
<1>2. /\ x \in SftSlot /\ x.state = d.sft[n].state /\ x.kind = d.sft[n].kind
      /\ x.handle = d.sft[n].handle /\ x.references = d.sft[n].references
      /\ x.device_opens = d.sft[n].device_opens
  BY <1>1, SlotTyped DEF SftSlot
<1>4. SftStep(d, e) /\ e.open = d.open /\ e.sft = [d.sft EXCEPT ![n] = x]
  BY <1>2, <1>1, SlotSet DEF UpdateIo, PutSlot
<1>6. e.leases = d.leases
  BY <1>4 DEF SftStep, SameExec
<1>7. \A m \in Sfns :
        /\ e.sft[m].state = d.sft[m].state /\ e.sft[m].kind = d.sft[m].kind
        /\ e.sft[m].handle = d.sft[m].handle
        /\ e.sft[m].references = d.sft[m].references
        /\ e.sft[m].device_opens = d.sft[m].device_opens
  BY <1>2, <1>4, Parts DEF SftTable
<1>8. ASSUME NEW c, Ledger(d, c)
      PROVE  Ledger(e, c)
  <2>1. e.open = d.open
    BY <1>4
  <2> QED
    BY ONLY <1>6, <1>7, <1>8, <2>1, LedgerSame
<1> QED
  BY <1>4, <1>8

-----------------------------------------------------------------------------
(* Job file tables.                                                        *)

(* A PSP has its type. *)
LEMMA PspTyped ==
  ASSUME NEW d \in Domain, NEW p \in Psps
  PROVE  /\ d.psps[p] \in PspRecord
         /\ d.psps[p].parent \in Psps /\ d.psps[p].vectors \in Psps
         /\ d.psps[p].length \in JftMinimum .. JftMaximum
         /\ d.psps[p].table \in {Inline} \cup Tables
         /\ d.psps[p].inline \in [0 .. JftMinimum - 1 -> Entry]
         /\ d.psps[p].table = Inline => d.psps[p].length = JftMinimum
<1> QED
  BY Parts DEF PspRecord, Psp, PspTable

(* The numbers of the tables *)
LEMMA Numbers ==
  /\ JftMinimum \in Nat \ {0} /\ JftMaximum \in Nat /\ JftMaximum >= JftMinimum
  /\ Inline \notin Tables /\ NoOwner \notin Psps /\ None \notin Psps
  /\ UNUSED \notin Sfns /\ COMMAND \in Psps
  /\ Psps \subseteq Blocks /\ Tables \subseteq Blocks /\ Psps \cap Tables = {}
  /\ Psps \subseteq Nat /\ Tables \subseteq Nat
  /\ SfnCount \in Nat
BY BatchAssumption, JftAssumption, SftAssumption
DEF Inline, Tables, NoOwner, Psps, UNUSED, Sfns, Blocks, None, COMMAND

(* The indices of a table *)
LEMMA Indices ==
  ASSUME NEW d \in Domain, NEW p \in Psps
  PROVE  /\ JftIndices(d, p) \subseteq 0 .. JftMaximum - 1
         /\ 0 .. JftMinimum - 1 \subseteq JftIndices(d, p)
         /\ d.psps[p].table = Inline => JftIndices(d, p) = 0 .. JftMinimum - 1
<1> QED
  BY PspTyped, Numbers DEF JftIndices

(* An entry has its type. *)
LEMMA EntryTyped ==
  ASSUME NEW d \in Domain, NEW p \in Psps, NEW j \in JftIndices(d, p)
  PROVE  EntryAt(d, p, j) \in Entry
<1>1. CASE d.psps[p].table = Inline
  BY <1>1, Indices, PspTyped DEF EntryAt
<1>2. CASE d.psps[p].table # Inline
  <2>1. d.psps[p].table \in Tables /\ j \in 0 .. JftMaximum - 1
    BY <1>2, Indices, PspTyped
  <2> QED
    BY <1>2, <2>1, Parts DEF EntryAt, JftTables
<1> QED
  BY <1>1, <1>2

Sees(d, p, j, n) == j \in JftIndices(d, p) /\ EntryAt(d, p, j) = n

(* Names in these terms *)
LEMMA NamesAre ==
  ASSUME NEW d, NEW n
  PROVE  Names(d, n) = {x \in LiveOf(d) \X (0 .. JftMaximum - 1) :
                          Sees(d, x[1], x[2], n)}
BY DEF Names, Sees

(* Live processes *)
LEMMA LiveIs ==
  ASSUME NEW d, NEW p
  PROVE  p \in LiveOf(d) <=> p \in Psps /\ d.arena[p] = p
BY DEF LiveOf

(* There are finitely many entries. *)
LEMMA NamesFinite ==
  ASSUME NEW d \in Domain, NEW n
  PROVE  IsFiniteSet(Names(d, n)) /\ Cardinality(Names(d, n)) \in Nat
<1>1. IsFiniteSet(Psps) /\ IsFiniteSet(0 .. JftMaximum - 1)
  BY JftAssumption, FS_Interval DEF Psps
<1> QED
  BY <1>1, FS_Product, FS_Subset, FS_CardinalityType DEF Names, LiveOf

HeldFor(d, n) ==
  {x \in Batches \X (1 .. JftMinimum) :
     /\ d.batches[x[1]].state = "PREPARED"
     /\ x[2] \in DOMAIN d.batches[x[1]].entries
     /\ d.batches[x[1]].entries[x[2]].ref[1] = n}

(* Held counts the entries of the prepared batches, finitely many. *)
LEMMA HeldFinite ==
  ASSUME NEW d, NEW n
  PROVE  /\ Held(d, n) = Cardinality(HeldFor(d, n)) /\ Held(d, n) \in Nat
         /\ IsFiniteSet(HeldFor(d, n))
<1>1. IsFiniteSet(Batches) /\ IsFiniteSet(1 .. JftMinimum)
  BY BatchAssumption, FS_Interval DEF Batches
<1> QED
  BY <1>1, FS_Product, FS_Subset, FS_CardinalityType DEF Held, HeldFor

(* The counts are naturals. *)
LEMMA CountsTyped ==
  ASSUME NEW d \in Domain
  PROVE  /\ Counts(d) \in [Sfns -> Nat]
         /\ \A n \in Sfns : Counts(d)[n] = Cardinality(Names(d, n)) + Held(d, n)
<1> QED
  BY NamesFinite, HeldFinite DEF Counts

(* A description that a process names is counted. *)
LEMMA CountedName ==
  ASSUME NEW d \in Domain, NEW p \in LiveOf(d), NEW j \in JftIndices(d, p),
         NEW n \in Sfns, EntryAt(d, p, j) = n
  PROVE  Counts(d)[n] # 0
<1>2. <<p, j>> \in Names(d, n)
  BY LiveIs, Indices DEF Names
<1> QED
  BY <1>2, NamesFinite, FS_EmptySet, HeldFinite, CountsTyped

(* What is held depends on the batches only. *)
LEMMA HeldSame ==
  ASSUME NEW d, NEW e, e.batches = d.batches, NEW n
  PROVE  Held(e, n) = Held(d, n)
BY DEF Held

(* The same entries give the same counts. *)
LEMMA CountsSame ==
  ASSUME NEW d \in Domain, NEW e \in Domain, e.batches = d.batches,
         LiveOf(e) = LiveOf(d),
         \A p \in LiveOf(d), j \in 0 .. JftMaximum - 1, n \in Sfns :
           Sees(e, p, j, n) <=> Sees(d, p, j, n)
  PROVE  Counts(e) = Counts(d)
<1>1. ASSUME NEW n \in Sfns
      PROVE  Names(e, n) = Names(d, n)
  BY NamesAre
<1> QED
  BY <1>1, HeldSame DEF Counts

(* One entry more names n. *)
LEMMA CountsMore ==
  ASSUME NEW d \in Domain, NEW e \in Domain, e.batches = d.batches,
         NEW n \in Sfns, NEW x, x \notin Names(d, n),
         Names(e, n) = Names(d, n) \cup {x},
         \A m \in Sfns \ {n} : Names(e, m) = Names(d, m)
  PROVE  Counts(e) = [Counts(d) EXCEPT ![n] = Counts(d)[n] + 1]
<1> QED
  BY NamesFinite, FS_AddElement, HeldSame, HeldFinite, CountsTyped

(* One entry less does. *)
LEMMA CountsLess ==
  ASSUME NEW d \in Domain, NEW e \in Domain, e.batches = d.batches,
         NEW n \in Sfns, NEW x, x \in Names(d, n),
         Names(e, n) = Names(d, n) \ {x},
         \A m \in Sfns \ {n} : Names(e, m) = Names(d, m)
  PROVE  Counts(e) = Reduced(Counts(d), n)
<1>1. Cardinality(Names(e, n)) = Cardinality(Names(d, n)) - 1
  <2>2. Cardinality(Names(d, n) \ {x}) = Cardinality(Names(d, n)) - 1
    BY NamesFinite, FS_RemoveElement
  <2> QED
    BY <2>2
<1>2. \A m : Held(e, m) = Held(d, m)
  BY HeldSame
<1>3. \A m : Held(d, m) \in Nat /\ Cardinality(Names(d, m)) \in Nat
  BY HeldFinite, NamesFinite
<1>4. Counts(e)[n] = Counts(d)[n] - 1
  <2>1. PICK a \in Nat, b \in Nat, i \in Int :
           a = Cardinality(Names(d, n)) /\ b = Held(d, n) /\ i = Cardinality(Names(e, n))
    BY <1>3, NamesFinite
  <2>2. i = a - 1 /\ Held(e, n) = b
    BY <1>1, <1>2, <2>1
  <2>3. Counts(e)[n] = i + b /\ Counts(d)[n] = a + b
    BY <2>1, <2>2, CountsTyped
  <2> QED
    BY <2>1, <2>2, <2>3
<1> QED
  BY <1>4, <1>2, CountsTyped DEF Reduced

-----------------------------------------------------------------------------
(* A call on the handles of a process.                                     *)

(* What such a call leaves alone *)
HandleStep(d, e) ==
  /\ e \in Domain /\ SameExec(d, e) /\ SameRuntime(d, e) /\ Later(d, e)
  /\ \A b \in Psps : e.arena[b] = d.arena[b]
  /\ \A q \in Psps : d.arena[q] # NoOwner =>
       e.psps[q].parent = d.psps[q].parent /\ e.psps[q].vectors = d.psps[q].vectors

(* ... and the books with it, unless it poisons *)
Kept(d, e) == HandleStep(d, e) /\ (Books(d) /\ e.poison = {} => Books(e))

(* A step of the file table is one. *)
LEMMA SftIsHandleStep ==
  ASSUME NEW d \in Domain, NEW e, SftStep(d, e)
  PROVE  HandleStep(d, e) /\ e \in Domain /\ LiveOf(e) = LiveOf(d)
BY DEF SftStep, HandleStep, SameMemory, Later, LiveOf

(* One follows another. *)
LEMMA HandleSteps ==
  ASSUME NEW d \in Domain, NEW e, NEW f, HandleStep(d, e), HandleStep(e, f)
  PROVE  HandleStep(d, f)
<1> QED
  BY Parts, SftAssumption DEF HandleStep, SameExec, SameRuntime, Later

(* Nothing has changed. *)
LEMMA HandleStays ==
  ASSUME NEW d \in Domain
  PROVE  Kept(d, d)
<1> QED
  BY SftStays, SftIsHandleStep DEF Kept

(* The books depend on the files, the entries, the blocks and the batches. *)
LEMMA SftCounts ==
  ASSUME NEW d \in Domain, NEW e, SftStep(d, e)
  PROVE  /\ Counts(e) = Counts(d)
         /\ TablesHeld(d) => TablesHeld(e)
         /\ \A p, j : EntryAt(e, p, j) = EntryAt(d, p, j)
         /\ \A p : JftIndices(e, p) = JftIndices(d, p)
<1> QED
  BY CountsSame
  DEF TablesHeld, Sees, EntryAt, JftIndices, LiveOf, SftStep, SameExec, SameMemory

(* A step of the file table that keeps the ledger keeps the books. *)
LEMMA SftKept ==
  ASSUME NEW d \in Domain, NEW e, SftStep(d, e),
         \A c \in [Sfns -> Nat] : Ledger(d, c) => Ledger(e, c)
  PROVE  Kept(d, e)
<1>1. ASSUME Books(d)
      PROVE  Books(e)
  BY <1>1, CountsTyped, SftCounts DEF Books
<1> QED
  BY <1>1, SftIsHandleStep DEF Kept

(* A failure *)
LEMMA FaultyKept ==
  ASSUME NEW d \in Domain, CanFail(d)
  PROVE  Kept(d, Faulty(d)) /\ SftStep(d, Faulty(d)) /\ SameFiles(d, Faulty(d))
<1>1. PICK e : e = Faulty(d)
  OBVIOUS
<1> QED
  BY <1>1, FaultyStep, SftKept DEF SameFiles, SftStep, SameExec, Ledger

(* context->machine_poisoned: nothing is promised any more. *)
LEMMA PoisonedKept ==
  ASSUME NEW d \in Domain, NEW e, HandleStep(d, e), NEW r, r = Poisoned(e)
  PROVE  Kept(d, r.d)
<1>1. e \in Domain
  BY DEF HandleStep
<1>4. PICK f : f = r.d
  OBVIOUS
<1>5. /\ f \in Domain /\ f.poison = e.poison \cup {"int21"} /\ f.faults = e.faults
      /\ SameExec(e, f) /\ SameMemory(e, f) /\ SameRuntime(e, f)
  BY <1>1, <1>4, WithPoison DEF Poisoned, Result, Poisons
<1> QED
  BY <1>4, <1>5, <1>1, Parts, SftAssumption, HandleSteps
  DEF Kept, HandleStep, Later, SameMemory
-----------------------------------------------------------------------------
(* An entry of a table is replaced.                                        *)

(* What a replacement of an entry does to the domain *)
LEMMA SetEntryTyped ==
  ASSUME NEW d \in Domain, NEW p \in Psps, NEW j \in JftIndices(d, p),
         NEW n \in Entry, NEW e, e = SetEntry(d, p, j, n)
  PROVE  /\ e \in Domain /\ SameFiles(d, e) /\ SameExec(d, e) /\ SameRuntime(d, e)
         /\ SameHealth(d, e) /\ e.arena = d.arena
         /\ \A q \in Psps :
              /\ e.psps[q].table = d.psps[q].table
              /\ e.psps[q].length = d.psps[q].length
              /\ e.psps[q].parent = d.psps[q].parent
              /\ e.psps[q].vectors = d.psps[q].vectors
<1>1. CASE d.psps[p].table = Inline
  <2>1. j \in 0 .. JftMinimum - 1
    BY <1>1, Indices
  <2>2. PICK x : x = [d.psps[p] EXCEPT !.inline[j] = n]
    OBVIOUS
  <2>3. /\ x \in PspRecord /\ x.table = d.psps[p].table
        /\ x.length = d.psps[p].length /\ x.parent = d.psps[p].parent
        /\ x.vectors = d.psps[p].vectors
    <3>1. d.psps[p] \in PspRecord
      BY PspTyped
    <3> QED
      BY <2>1, <2>2, <3>1 DEF PspRecord, Psp
  <2>4. PICK t : t = [d.psps EXCEPT ![p] = x]
    OBVIOUS
  <2> QED
    BY <2>3, <2>4, Parts, <1>1, <2>2
    DEF Domain, SameFiles, SameExec, SameRuntime, SameHealth, SetEntry, PspTable
<1>2. CASE d.psps[p].table # Inline
  BY <1>2, PspTyped, Indices, Parts
  DEF JftTables, SetEntry, Domain, SameFiles, SameExec, SameRuntime, SameHealth
<1> QED
  BY <1>1, <1>2

(* The entry is there afterwards, and no other has changed. *)
LEMMA SetEntrySees ==
  ASSUME NEW d \in Domain, TablesHeld(d), NEW p \in LiveOf(d),
         NEW j \in JftIndices(d, p), NEW n \in Entry, NEW e,
         e = SetEntry(d, p, j, n), NEW q \in LiveOf(d),
         NEW i \in JftIndices(d, q)
  PROVE  EntryAt(e, q, i) = IF q = p /\ i = j THEN n ELSE EntryAt(d, q, i)
<1>1. p \in Psps /\ q \in Psps
  BY LiveIs
<1>2. d.psps \in PspTable /\ d.tables \in JftTables
  BY Parts
<1>3. e.psps[q].table = d.psps[q].table
  BY <1>1, SetEntryTyped
<1>4. CASE d.psps[p].table = Inline
  <2>2. e.tables = d.tables /\ e.psps = [d.psps EXCEPT ![p].inline[j] = n]
    BY <1>4 DEF Domain, SetEntry
  <2>3. CASE q # p
    BY <1>1, <1>2, <2>2, <2>3 DEF PspTable, EntryAt
  <2>4. CASE q = p
    <3>1. d.psps[p].inline \in [0 .. JftMinimum - 1 -> Entry]
          /\ d.psps[p] \in PspRecord
          /\ i \in 0 .. JftMinimum - 1 /\ j \in 0 .. JftMinimum - 1
      BY <1>1, <1>4, <2>4, PspTyped, Indices
    <3> QED
      BY <1>3, <1>4, <2>4, <3>1, <1>1, <1>2, <2>2 DEF EntryAt, PspRecord, Psp, PspTable
  <2> QED
    BY <2>3, <2>4
<1>5. CASE d.psps[p].table # Inline
  <2>1. PICK b \in Tables : b = d.psps[p].table
    BY <1>1, <1>5, PspTyped
  <2>3. e.psps = d.psps /\ e.tables = [d.tables EXCEPT ![b][j] = n]
    BY <1>5, <2>1 DEF Domain, SetEntry
  <2>4. CASE q # p
    BY <2>1, <2>4, <1>1, PspTyped, <1>2, <2>3 DEF TablesHeld, JftTables, EntryAt
  <2>5. CASE q = p
    <3>1. d.tables[b] \in [0 .. JftMaximum - 1 -> Entry]
          /\ i \in 0 .. JftMaximum - 1 /\ j \in 0 .. JftMaximum - 1
      BY <1>1, <1>2, <2>5, Indices DEF JftTables
    <3>2. e.tables[b] = [d.tables[b] EXCEPT ![j] = n]
      BY <1>2, <2>3 DEF JftTables
    <3> QED
      BY <1>5, <2>1, <2>3, <2>5, <3>1, <3>2 DEF EntryAt
  <2> QED
    BY <2>4, <2>5
<1> QED
  BY <1>4, <1>5

(* The names of a description afterwards *)
LEMMA SetEntryNames ==
  ASSUME NEW d \in Domain, TablesHeld(d), NEW p \in LiveOf(d),
         NEW j \in JftIndices(d, p), NEW n \in Entry, NEW e,
         e = SetEntry(d, p, j, n), NEW m \in Sfns
  PROVE  Names(e, m) = IF m = n THEN Names(d, m) \cup {<<p, j>>}
                                ELSE Names(d, m) \ {<<p, j>>}
<1>1. p \in Psps /\ j \in 0 .. JftMaximum - 1
  BY LiveIs, Indices
<1>2. LiveOf(e) = LiveOf(d) /\ \A q \in Psps : JftIndices(e, q) = JftIndices(d, q)
  BY <1>1, SetEntryTyped DEF LiveOf, JftIndices
<1>3. ASSUME NEW q \in LiveOf(d), NEW i \in 0 .. JftMaximum - 1
      PROVE  Sees(e, q, i, m) <=> IF q = p /\ i = j THEN m = n ELSE Sees(d, q, i, m)
  BY <1>2, LiveIs, SetEntrySees DEF Sees
<1>5. \A x \in LiveOf(d) \X (0 .. JftMaximum - 1) :
        Sees(e, x[1], x[2], m) <=>
          IF x = <<p, j>> THEN m = n ELSE Sees(d, x[1], x[2], m)
  BY <1>3
<1>7. <<p, j>> \in LiveOf(d) \X (0 .. JftMaximum - 1)
  BY <1>1
<1> QED
  BY <1>5, <1>2, NamesAre, <1>7, Zenon

(* The tables stay where they are. *)
LEMMA SetEntryTables ==
  ASSUME NEW d \in Domain, TablesHeld(d), NEW p \in Psps,
         NEW j \in JftIndices(d, p), NEW n \in Entry, NEW e,
         e = SetEntry(d, p, j, n)
  PROVE  TablesHeld(e)
<1> QED
  BY SetEntryTyped, LiveIs DEF TablesHeld, LiveOf

(* An unused entry gets a name. *)
LEMMA EntryGiven ==
  ASSUME NEW d \in Domain, TablesHeld(d), NEW p \in LiveOf(d),
         NEW j \in JftIndices(d, p), NEW n \in Sfns, EntryAt(d, p, j) = UNUSED,
         NEW e, e = SetEntry(d, p, j, n)
  PROVE  Counts(e) = [Counts(d) EXCEPT ![n] = Counts(d)[n] + 1]
<1>1. n \in Entry /\ p \in Psps /\ UNUSED \notin Sfns
  BY LiveIs, Numbers DEF Entry
<1>3. \A m \in Sfns : <<p, j>> \notin Names(d, m)
  BY <1>1 DEF Names
<1>5. ASSUME NEW m \in Sfns \ {n}
      PROVE  Names(e, m) = Names(d, m)
  <2>1. Names(e, m) = Names(d, m) \ {<<p, j>>}
    BY <1>1, SetEntryNames
  <2> QED
    BY <2>1, <1>3, Zenon
<1> QED
  BY <1>1, SetEntryTyped, <1>3, SetEntryNames, <1>5, CountsMore DEF SameExec

(* An entry is cleared. *)
LEMMA EntryCleared ==
  ASSUME NEW d \in Domain, TablesHeld(d), NEW p \in LiveOf(d),
         NEW j \in JftIndices(d, p), NEW n \in Sfns, EntryAt(d, p, j) = n,
         NEW e, e = SetEntry(d, p, j, UNUSED)
  PROVE  Counts(e) = Reduced(Counts(d), n)
<1>1. UNUSED \in Entry /\ p \in Psps /\ UNUSED \notin Sfns
  BY LiveIs, Numbers DEF Entry
<1>3. <<p, j>> \in Names(d, n)
  BY <1>1, Indices DEF Names
<1>4. \A m \in Sfns \ {n} : <<p, j>> \notin Names(d, m)
  BY DEF Names
<1>6. ASSUME NEW m \in Sfns \ {n}
      PROVE  Names(e, m) = Names(d, m)
  <2>1. Names(e, m) = Names(d, m) \ {<<p, j>>}
    BY <1>1, SetEntryNames
  <2> QED
    BY <2>1, <1>4, Zenon
<1> QED
  BY <1>1, SetEntryTyped, <1>3, SetEntryNames, <1>6, CountsLess DEF SameExec
-----------------------------------------------------------------------------
(* AH=3Dh, 3Ch and 3Eh.                                                    *)

(* The ledger of a domain whose files are the same *)
LEMMA LedgerFiles ==
  ASSUME NEW d, NEW e, SameFiles(d, e), e.leases = d.leases, NEW c, Ledger(d, c)
  PROVE  Ledger(e, c)
BY DEF Ledger, SameFiles

(* A replaced entry is a step of the call. *)
LEMMA SetEntryStep ==
  ASSUME NEW d \in Domain, NEW p \in Psps, NEW j \in JftIndices(d, p),
         NEW n \in Entry
  PROVE  HandleStep(d, SetEntry(d, p, j, n))
<1>1. PICK e : e = SetEntry(d, p, j, n)
  OBVIOUS
<1> QED
  BY <1>1, SetEntryTyped, Parts, SftAssumption DEF HandleStep, Later, SameHealth

(* dos_machine_replace *)
LEMMA ReplaceIs ==
  ASSUME NEW d \in Domain, NEW e, HandleStep(d, e), e.faults = d.faults,
         NEW r \in Replace(d, e)
  PROVE  /\ HandleStep(d, r.d) /\ r.st \in {"OK", "FAULT", "ROLLBACK_FAILED"}
         /\ r.st = "OK" => r.d = e
         /\ r.st = "FAULT" => CanFail(d) /\ r.d = Faulty(d)
<1>2. CASE r = Result(e, "OK")
  BY <1>2 DEF Result
<1>3. CASE CanFail(d) /\ \/ r = Result(Faulty(d), "FAULT")
                         \/ r = Result(Faulty(d), "ROLLBACK_FAILED")
  BY <1>3, FaultyKept DEF Result, Kept
<1>4. CASE CanFail(d) /\ r = Result(Faulty(e), "ROLLBACK_FAILED")
  BY <1>4, FaultyKept, HandleSteps DEF HandleStep, CanFail, Kept, Result
<1> QED
  BY <1>2, <1>3, <1>4 DEF Replace

(* int21_publish_open_handle, once the description is published *)
LEMMA PublishOpenKept ==
  ASSUME NEW d \in Domain, Reservable(d) # {}, NEW p \in Psps,
         Books(d) => p \in LiveOf(d), NEW j \in FreeJfns(d, p),
         NEW n, n = Min(Reservable(d)), NEW kind \in Kinds,
         NEW h \in Handles \ d.open, NEW inherit \in BOOLEAN,
         NEW r \in PublishOpen(Reserve(d), p, j, n, kind, h, inherit)
  PROVE  Kept(d, r.d)
<1>1. PICK e : e = Published(d, n, kind, h, inherit)
  OBVIOUS
<1>2. /\ SftStep(d, e) /\ n \in Sfns /\ d.sft[n].state = "FREE"
      /\ \A c \in [Sfns -> Nat] : Ledger(d, c) => Ledger(e, [c EXCEPT ![n] = 1])
  BY <1>1, PublishLedger
<1>3. /\ e \in Domain /\ HandleStep(d, e) /\ LiveOf(e) = LiveOf(d)
  BY <1>2, SftIsHandleStep
<1>4. /\ Counts(e) = Counts(d) /\ (TablesHeld(d) => TablesHeld(e))
      /\ j \in JftIndices(e, p) /\ EntryAt(e, p, j) = UNUSED
  BY <1>2, SftCounts DEF FreeJfns
<1>5. PICK f : f = SetEntry(e, p, j, n)
  OBVIOUS
<1>6. n \in Entry
  BY <1>2 DEF Entry
<1>7. /\ f \in Domain /\ HandleStep(e, f) /\ f.faults = e.faults
      /\ SameFiles(e, f) /\ f.leases = e.leases
  BY <1>3, <1>4, <1>5, <1>6, SetEntryStep, SetEntryTyped
  DEF SameHealth, SameExec
<1>8. PICK q \in Replace(e, f) : r \in AfterJft(e, Reference(e, n), q)
  BY <1>1, <1>5 DEF PublishOpen, Published
<1>9. /\ HandleStep(e, q.d) /\ q.st \in {"OK", "FAULT", "ROLLBACK_FAILED"}
      /\ q.st = "OK" => q.d = f
      /\ q.st = "FAULT" => CanFail(e) /\ q.d = Faulty(e)
  BY <1>3, <1>7, <1>8, ReplaceIs
<1>10. ASSUME Books(d)
       PROVE  /\ p \in LiveOf(e) /\ TablesHeld(e) /\ Counts(e) \in [Sfns -> Nat]
              /\ Counts(e)[n] = 0 /\ Ledger(e, [Counts(e) EXCEPT ![n] = 1])
  BY <1>10, CountsTyped, <1>2, <1>3, <1>4 DEF Books, Ledger, Exact
<1>11. CASE q.st = "OK"
  BY <1>8, <1>9, <1>11, <1>3, <1>7, HandleSteps, <1>10, <1>2, <1>4, <1>5, EntryGiven,
     <1>6, SetEntryTables, LedgerFiles DEF AfterJft, Handled, Result, Books, Kept
<1>12. CASE q.st # "OK"
  <2>1. q.d \in Domain /\ HandleStep(d, q.d)
    BY <1>3, <1>9, HandleSteps DEF HandleStep
  <2>2. PICK c \in CloseReference(q.d, Reference(e, n)) :
            r = IF c.st = "OK" /\ q.st = "FAULT" THEN Result(c.d, "FAULT")
                ELSE Poisoned(c.d)
    BY <1>8, <1>12 DEF AfterJft
  <2>3. SftStep(q.d, c.d)
    BY <1>2, <1>3, <2>1, ReferenceIs, CloseReferenceIs
  <2>4. HandleStep(d, c.d)
    BY <2>1, <2>3, SftIsHandleStep, HandleSteps
  <2>5. CASE ~(c.st = "OK" /\ q.st = "FAULT")
    BY <2>2, <2>4, <2>5, PoisonedKept
  <2>6. CASE c.st = "OK" /\ q.st = "FAULT"
    <3>2. /\ SftStep(e, q.d) /\ SameFiles(e, q.d) /\ q.d.leases = e.leases
      BY <1>3, <1>9, <2>6, FaultyKept DEF SftStep, SameExec
    <3>3. ASSUME Books(d)
          PROVE  Books(c.d)
      <4>1. /\ TablesHeld(e) /\ Counts(e) \in [Sfns -> Nat]
            /\ Counts(e)[n] = 0 /\ Ledger(e, [Counts(e) EXCEPT ![n] = 1])
        BY <1>10, <3>3
      <4>2. PICK k \in [Sfns -> Nat] : k = [Counts(e) EXCEPT ![n] = 1]
        BY <4>1
      <4>3. Ledger(q.d, k) /\ k[n] # 0
        BY <1>2, <3>2, <4>1, <4>2, LedgerFiles
      <4>6. Reduced(k, n) = Counts(e)
        <5>1. PICK a \in [Sfns -> Nat] : a = Counts(e)
          BY <4>1
        <5>2. k[n] = 1 /\ a[n] = 0 /\ k = [a EXCEPT ![n] = 1]
          BY <1>2, <4>1, <4>2, <5>1
        <5>4. [k EXCEPT ![n] = 0] = a
          BY <1>2, <5>2
        <5> QED
          BY <5>1, <5>2, <5>4 DEF Reduced
      <4> QED
        BY <1>2, <2>1, <2>2, <2>6, <4>3, <3>2, CloseLedger, <4>6, <1>3, <4>1, <2>3,
           SftSteps, SftCounts DEF Books, Reference, SameFiles
    <3> QED
      BY <2>4, <2>2, <2>6, <3>3 DEF Kept, Result
  <2> QED
    BY <2>5, <2>6
<1> QED
  BY <1>11, <1>12

(* dispatch_open_file and dispatch_create_file *)
LEMMA OpenKept ==
  ASSUME NEW d \in Domain, NEW p \in Psps, Books(d) => p \in LiveOf(d),
         NEW kind \in Kinds, NEW inherit \in BOOLEAN,
         NEW r \in Open(d, p, kind, inherit)
  PROVE  Kept(d, r.d)
<1>1. PICK n : n = Min(Reservable(d))
  OBVIOUS
<1>2. CASE Reservable(d) = {}
  BY <1>2, HandleStays DEF Open, Handled, Result
<1>3. CASE Reservable(d) # {} /\ r = Handled(Cancel(Reserve(d), n))
  BY <1>3, <1>1, CancelLedger, SftKept DEF Handled, Result
<1>4. ASSUME Reservable(d) # {}, FreeJfns(d, p) # {}, NEW h \in BackendHandles(d),
             r \in PublishOpen(Reserve(d), p, Min(FreeJfns(d, p)), n, kind, h, inherit)
      PROVE  Kept(d, r.d)
  <2>2. FreeJfns(d, p) \in SUBSET Nat
    BY Indices, Numbers DEF FreeJfns
  <2>3. PICK j \in FreeJfns(d, p) : j = Min(FreeJfns(d, p))
    BY <1>4, <2>2, MinIs
  <2> QED
    BY <1>1, <1>4, <2>3, PublishOpenKept DEF BackendHandles
<1>5. ASSUME Reservable(d) # {}, r \in OpenFails(Cancel(Reserve(d), n), kind)
      PROVE  Kept(d, r.d)
  <2>1. PICK c : c = Cancel(Reserve(d), n)
    OBVIOUS
  <2>2. Kept(d, c) /\ HandleStep(d, c) /\ c \in Domain
    BY <1>5, <1>1, <2>1, CancelLedger, SftKept DEF Kept, HandleStep
  <2>3. CanFail(c) /\ \/ r = Result(Faulty(c), "FAULT") \/ r = Poisoned(Faulty(c))
    BY <1>5, <2>1 DEF OpenFails
  <2>4. PICK f : f = Faulty(c)
    OBVIOUS
  <2>5. Kept(c, f) /\ SftStep(c, f)
    BY <2>2, <2>3, <2>4, FaultyKept
  <2>6. HandleStep(d, f)
    BY <2>2, <2>5, HandleSteps DEF Kept
  <2>7. CASE r = Poisoned(f)
    BY <2>6, <2>7, PoisonedKept
  <2>8. CASE r = Result(f, "FAULT")
    BY <2>2, <2>5, <2>6, <2>8 DEF Kept, SftStep, Result
  <2> QED
    BY <2>3, <2>4, <2>7, <2>8
<1> QED
  BY <1>2, <1>3, <1>4, <1>5, <1>1 DEF Open
(* A call on a handle *)
LEMMA OnHandleIs ==
  ASSUME NEW d \in Domain, NEW p \in Psps, NEW j \in Named(d, p)
  PROVE  /\ EntryAt(d, p, j) \in Sfns /\ j \in JftIndices(d, p)
         /\ Books(d) /\ p \in LiveOf(d) => Counts(d)[EntryAt(d, p, j)] # 0
BY CountedName DEF Named

(* dispatch_close_file *)
LEMMA CloseKept ==
  ASSUME NEW d \in Domain, NEW p \in Psps, Books(d) => p \in LiveOf(d),
         NEW j \in Named(d, p), NEW r \in Close(d, p, j)
  PROVE  Kept(d, r.d)
<1>1. PICK n \in Sfns : n = EntryAt(d, p, j)
  BY OnHandleIs
<1>2. j \in JftIndices(d, p) /\ (Books(d) => Counts(d)[n] # 0)
  BY <1>1, OnHandleIs
<1>4. CASE r = Poisoned(d)
  BY <1>4, HandleStays, PoisonedKept DEF Kept
<1>5. CASE r = Handled(d)
  BY <1>5, HandleStays DEF Handled, Result
<1>6. ASSUME NEW c \in CloseReference(d, Reference(d, n)),
             r \in CASE c.st = "BACKEND_FAILURE" -> {Handled(c.d)}
                     [] c.st = "OK" ->
                          {IF q.st = "OK" THEN Handled(q.d)
                           ELSE Poisoned(Poison(q.d, Reference(d, n)))
                           : q \in Replace(c.d, SetEntry(c.d, p, j, UNUSED))}
                     [] OTHER -> {Poisoned(c.d)}
      PROVE  Kept(d, r.d)
  <2>1. PICK ref \in Refs : ref = Reference(d, n) /\ ref[1] = n
    BY ReferenceIs
  <2>2. SftStep(d, c.d)
    BY <2>1, CloseReferenceIs
  <2>3. PICK e : e = c.d
    OBVIOUS
  <2>4. /\ e \in Domain /\ HandleStep(d, e) /\ LiveOf(e) = LiveOf(d)
        /\ Counts(e) = Counts(d) /\ (TablesHeld(d) => TablesHeld(e))
        /\ j \in JftIndices(e, p) /\ EntryAt(e, p, j) = n
    BY <1>1, <1>2, <2>2, <2>3, SftIsHandleStep, SftCounts
  <2>5. CASE c.st = "BACKEND_FAILURE"
    <3>4. \A k : Ledger(d, k) => Ledger(e, k)
      BY <2>1, <2>3, <2>5, CloseReferenceIs, <2>2, LedgerFiles DEF SftStep, SameExec
    <3> QED
      BY <2>2, <2>3, <1>6, <2>5, <3>4, SftKept DEF Handled, Result
  <2>6. CASE c.st = "OK"
    <3>1. PICK q \in Replace(e, SetEntry(e, p, j, UNUSED)) :
              r = IF q.st = "OK" THEN Handled(q.d)
                  ELSE Poisoned(Poison(q.d, ref))
      BY <1>6, <2>1, <2>3, <2>6
    <3>2. PICK f : f = SetEntry(e, p, j, UNUSED)
      OBVIOUS
    <3>3. UNUSED \in Entry
      BY DEF Entry
    <3>4. /\ f \in Domain /\ HandleStep(e, f) /\ f.faults = e.faults
          /\ SameFiles(e, f) /\ f.leases = e.leases
      BY <2>4, <3>2, <3>3, SetEntryStep, SetEntryTyped DEF SameHealth, SameExec
    <3>5. HandleStep(e, q.d) /\ (q.st = "OK" => q.d = f)
      BY <2>4, <3>1, <3>2, <3>4, ReplaceIs
    <3>6. CASE q.st # "OK"
      <4>1. q.d \in Domain /\ HandleStep(d, q.d)
        BY <2>4, <3>5, HandleSteps DEF HandleStep
      <4> QED
        BY <3>1, <3>6, <4>1, PoisonSlotIs, SftIsHandleStep, HandleStays, <2>1,
           HandleSteps, PoisonedKept DEF Kept, Poison
    <3>7. CASE q.st = "OK"
      <4>1. r.d = f
        BY <3>1, <3>5, <3>7 DEF Handled, Result
      <4>2. HandleStep(d, f)
        BY <2>4, <3>4, HandleSteps
      <4>3. ASSUME Books(d)
            PROVE  Books(f)
        BY <1>2, <2>4, <4>3, CountsTyped, <2>3, <2>6, CloseLedger, <3>2, EntryCleared,
           <3>3, SetEntryTables, <3>4, LedgerFiles DEF Books
      <4> QED
        BY <4>1, <4>2, <4>3 DEF Kept
    <3> QED
      BY <3>6, <3>7
  <2>7. CASE c.st # "BACKEND_FAILURE" /\ c.st # "OK"
    BY <1>6, <2>3, <2>7, <2>4, PoisonedKept
  <2> QED
    BY <2>5, <2>6, <2>7
<1> QED
  BY <1>1, <1>4, <1>5, <1>6 DEF Close, OnHandle

-----------------------------------------------------------------------------
(* AH=3Fh, 40h and 42h.                                                    *)

(* A cursor moves. *)
LEMMA MoveKept ==
  ASSUME NEW d \in Domain, NEW n \in Sfns, NEW k \in 0 .. PositionMax,
         NEW r, r = Handled(UpdateIo(d, n, k))
  PROVE  Kept(d, r.d)
<1> QED
  BY UpdateIoIs, SftKept DEF Handled, Result

(* A transfer fails, with the description as it was or poisoned. *)
LEMMA TransferFails ==
  ASSUME NEW d \in Domain, CanFail(d), NEW n \in Sfns, NEW r,
         \/ r = Result(Faulty(d), "FAULT") \/ r = Poisoned(Faulty(d))
         \/ r = Poisoned(PoisonSlot(Faulty(d), n))
  PROVE  Kept(d, r.d)
<1>1. PICK e : e = Faulty(d)
  OBVIOUS
<1>2. Kept(d, e) /\ HandleStep(d, e) /\ e \in Domain
  BY <1>1, FaultyKept DEF Kept, HandleStep
<1>3. CASE r = Result(e, "FAULT")
  BY <1>2, <1>3 DEF Result
<1>4. CASE r = Poisoned(e)
  BY <1>2, <1>4, PoisonedKept
<1>5. CASE r = Poisoned(PoisonSlot(e, n))
  BY <1>2, PoisonSlotIs, SftIsHandleStep, HandleSteps, <1>5, PoisonedKept
<1> QED
  BY <1>1, <1>3, <1>4, <1>5

(* dispatch_read_file, dispatch_write_handle and dispatch_seek_file *)
LEMMA TransferKept ==
  ASSUME NEW d \in Domain, NEW p \in Psps, NEW j \in Named(d, p),
         NEW r \in Read(d, p, j) \cup Write(d, p, j) \cup Seek(d, p, j)
  PROVE  Kept(d, r.d)
<1>1. PICK n \in Sfns : n = EntryAt(d, p, j)
  BY OnHandleIs
<1>2. Onward(d.sft[n]) \subseteq 0 .. PositionMax
  BY SlotTyped, SftAssumption DEF SftSlot, Onward
<1>3. CASE r \in Read(d, p, j)
  BY <1>1, <1>3, HandleStays, PoisonedKept, <1>2, MoveKept, TransferFails
  DEF Read, OnHandle, ReadFails, Kept, Handled, Result
<1>4. CASE r \in Write(d, p, j)
  BY <1>1, <1>4, HandleStays, PoisonedKept, <1>2, MoveKept, TransferFails
  DEF Write, OnHandle, WriteFails, Kept, Handled, Result
<1>5. CASE r \in Seek(d, p, j)
  BY <1>1, <1>5, HandleStays, PoisonedKept, MoveKept
  DEF Seek, OnHandle, Kept, Handled, Result
<1> QED
  BY <1>3, <1>4, <1>5
-----------------------------------------------------------------------------
(* Blocks of memory.                                                       *)

(* A PSP and a table nobody has *)
LEMMA FreshTyped ==
  FreshPsp \in PspRecord /\ Unused(JftMaximum) \in [0 .. JftMaximum - 1 -> Entry]
<1> QED
  BY JftAssumption, BatchAssumption DEF PspRecord, FreshPsp, Psp, Unused, Psps, Entry

(* What is forgotten is nobody's. *)
LEMMA ForgetIs ==
  ASSUME NEW d \in Domain, NEW e, e = Forget(d)
  PROVE  /\ e \in Domain /\ SameFiles(d, e) /\ SameExec(d, e) /\ SameRuntime(d, e)
         /\ SameHealth(d, e) /\ e.arena = d.arena
         /\ \A b \in Tables : d.arena[b] # NoOwner => e.tables[b] = d.tables[b]
         /\ \A p \in Psps : d.arena[p] # NoOwner => e.psps[p] = d.psps[p]
<1>1. PICK t : t = [b \in Tables |-> IF d.arena[b] = NoOwner
                                       THEN Unused(JftMaximum) ELSE d.tables[b]]
  OBVIOUS
<1>2. PICK q : q = [p \in Psps |-> IF d.arena[p] = NoOwner
                                     THEN FreshPsp ELSE d.psps[p]]
  OBVIOUS
<1> QED
  BY <1>1, <1>2, FreshTyped, Parts
  DEF Domain, SameFiles, SameExec, SameRuntime, SameHealth, Forget, JftTables, PspTable

(* A block is freed, and what it held forgotten. *)
Freed(d, block) == Forget([d EXCEPT !.arena[block] = NoOwner])

(* Nothing else that is owned changes. *)
LEMMA FreedIs ==
  ASSUME NEW d \in Domain, NEW block \in Blocks, NEW e, e = Freed(d, block)
  PROVE  /\ e \in Domain /\ SameFiles(d, e) /\ SameExec(d, e) /\ SameRuntime(d, e)
         /\ SameHealth(d, e) /\ e.arena = [d.arena EXCEPT ![block] = NoOwner]
         /\ \A b \in Tables : e.arena[b] # NoOwner => e.tables[b] = d.tables[b]
         /\ \A p \in Psps : e.arena[p] # NoOwner => e.psps[p] = d.psps[p]
<1>1. PICK a : a = [d.arena EXCEPT ![block] = NoOwner]
  OBVIOUS
<1>3. PICK f : f = [d EXCEPT !.arena[block] = NoOwner]
  OBVIOUS
<1> QED
  BY <1>1, Parts, <1>3, ForgetIs
  DEF SameFiles, SameExec, SameRuntime, SameHealth, Domain, Arena, Freed

(* The arena is poisoned. *)
LEMMA PoisonArenaIs ==
  ASSUME NEW d \in Domain, NEW e, e = PoisonArena(d)
  PROVE  /\ e \in Domain /\ SameFiles(d, e) /\ SameExec(d, e) /\ SameMemory(d, e)
         /\ SameRuntime(d, e) /\ HandleStep(d, e)
         /\ "arena" \in e.poison /\ e.poison # {} /\ e.faults = d.faults
<1>2. /\ e \in Domain /\ e.poison = d.poison \cup {"arena"} /\ e.faults = d.faults
      /\ SameFiles(d, e) /\ SameExec(d, e) /\ SameMemory(d, e) /\ SameRuntime(d, e)
  BY WithPoison DEF PoisonArena, Poisons
<1> QED
  BY <1>2, Parts, SftAssumption DEF HandleStep, Later, SameMemory

(* dos_memory_free_owned_checked *)
LEMMA FreeOwnedIs ==
  ASSUME NEW d \in Domain, NEW block \in Blocks, NEW owner,
         NEW r \in FreeOwned(d, block, owner)
  PROVE  /\ r.st \in {"OK", "INVALID_STATE", "FAULT", "POISONED"}
         /\ r.st = "OK" => r.d = Freed(d, block) /\ d.arena[block] = owner
         /\ r.st = "INVALID_STATE" => r.d = d /\ d.arena[block] # owner
         /\ r.st = "FAULT" => CanFail(d) /\ r.d = Faulty(d)
         /\ r.st = "POISONED" => HandleStep(d, r.d) /\ r.d.poison # {}
<1>2. CASE "arena" \in d.poison /\ r = Result(d, "POISONED")
  BY <1>2, HandleStays DEF Result, Kept
<1>3. CASE CanFail(d) /\ r = Result(PoisonArena(Faulty(d)), "POISONED")
  BY <1>3, FaultyKept, PoisonArenaIs, HandleSteps DEF Kept, HandleStep, Result
<1> QED
  BY <1>2, <1>3 DEF Result, FreeOwned, Freed

(* A table is freed: the processes stay. *)
LEMMA FreedStep ==
  ASSUME NEW d \in Domain, NEW b \in Tables
  PROVE  HandleStep(d, Freed(d, b))
<1>1. PICK e : e = Freed(d, b)
  OBVIOUS
<1>3. /\ e \in Domain /\ SameFiles(d, e) /\ SameExec(d, e) /\ SameRuntime(d, e)
      /\ SameHealth(d, e) /\ e.arena = [d.arena EXCEPT ![b] = NoOwner]
      /\ \A p \in Psps : e.arena[p] # NoOwner => e.psps[p] = d.psps[p]
  BY <1>1, Numbers, FreedIs
<1> QED
  BY <1>1, <1>3, Numbers, Parts, SftAssumption DEF HandleStep, Later, SameHealth, Arena

(* A process has its table elsewhere, with the same entries, and nothing   *)
(* else has changed: the books are the same.                               *)
LEMMA Moved ==
  ASSUME NEW d \in Domain, TablesHeld(d), NEW p \in LiveOf(d), NEW e \in Domain,
         e.batches = d.batches, \A q \in Psps : e.arena[q] = d.arena[q],
         \A q \in LiveOf(d) \ {p} : e.psps[q] = d.psps[q],
         \A t \in Tables : d.arena[t] \notin {p, NoOwner} =>
           e.arena[t] = d.arena[t] /\ e.tables[t] = d.tables[t],
         \A t \in Tables : e.arena[t] \in {p, NoOwner, d.arena[t]},
         \A t \in Tables : e.psps[p].table = t <=> e.arena[t] = p,
         \A j \in 0 .. JftMaximum - 1, m \in Sfns : Sees(e, p, j, m) <=> Sees(d, p, j, m)
  PROVE  Counts(e) = Counts(d) /\ TablesHeld(e)
<1>1. LiveOf(e) = LiveOf(d)
  BY DEF LiveOf
<1>2. NoOwner \notin LiveOf(d) /\ \A q \in LiveOf(d) : q \in Psps
  BY LiveIs, Numbers
<1>3. ASSUME NEW q \in LiveOf(d) \ {p}, NEW j \in 0 .. JftMaximum - 1, NEW m \in Sfns
      PROVE  Sees(e, q, j, m) <=> Sees(d, q, j, m)
  <2>1. d.psps[q].table \in {Inline} \cup Tables /\ e.psps[q] = d.psps[q]
    BY <1>2, PspTyped
  <2>2. ASSUME NEW t \in Tables, d.psps[q].table = t
        PROVE  e.tables[t] = d.tables[t]
    BY <2>2, <1>2 DEF TablesHeld
  <2> QED
    BY <2>1, <2>2 DEF Sees, EntryAt, JftIndices
<1>6. ASSUME NEW b \in Blocks, e.arena[b] # NoOwner
      PROVE  e.arena[b] \in LiveOf(e)
  BY <1>1, <1>6 DEF TablesHeld, Blocks
<1>7. ASSUME NEW t \in Tables, NEW q \in LiveOf(e)
      PROVE  e.psps[q].table = t <=> e.arena[t] = q
  BY <1>1, <1>2 DEF TablesHeld
<1> QED
  BY <1>1, <1>3, CountsSame, <1>6, <1>7 DEF TablesHeld

(* The books with the same files *)
LEMMA BooksMoved ==
  ASSUME NEW d \in Domain, Books(d), NEW e \in Domain, SameFiles(d, e),
         e.leases = d.leases, Counts(e) = Counts(d), TablesHeld(e)
  PROVE  Books(e)
<1> QED
  BY LedgerFiles DEF Books
-----------------------------------------------------------------------------
(* AH=67h.                                                                 *)

(* A poisoned arena promises nothing. *)
LEMMA PoisonArenaKept ==
  ASSUME NEW d \in Domain, NEW e, HandleStep(d, e)
  PROVE  Kept(d, PoisonArena(e))
<1> QED
  BY PoisonArenaIs, HandleSteps DEF Kept, HandleStep

(* Freeing a table is a step of the call, whatever comes of it. *)
LEMMA FreeOwnedStep ==
  ASSUME NEW d \in Domain, NEW b \in Tables, NEW p, NEW r \in FreeOwned(d, b, p)
  PROVE  HandleStep(d, r.d)
<1> QED
  BY Numbers, FreeOwnedIs, FreedStep, HandleStays, FaultyKept DEF Kept

(* A PSP is replaced by one of the same process. *)
PutPsp(d, p, x) == [d EXCEPT !.psps[p] = x]

(* The processes and their tables are those of before. *)
LEMMA PspSet ==
  ASSUME NEW d \in Domain, NEW p \in Psps, NEW x \in PspRecord,
         x.parent = d.psps[p].parent, x.vectors = d.psps[p].vectors,
         NEW e, e = PutPsp(d, p, x)
  PROVE  /\ HandleStep(d, e) /\ e \in Domain /\ SameFiles(d, e) /\ SameHealth(d, e)
         /\ e.arena = d.arena /\ e.tables = d.tables
         /\ e.psps[p] = x /\ \A q \in Psps \ {p} : e.psps[q] = d.psps[q]
         /\ e.psps = [d.psps EXCEPT ![p] = x]
<1>1. PICK t : t = [d.psps EXCEPT ![p] = x]
  OBVIOUS
<1> QED
  BY <1>1, Parts, SftAssumption
  DEF HandleStep, Later, SameHealth, Domain, SameFiles, SameExec, SameRuntime, PutPsp,
      PspTable

(* The table and its length in a PSP *)
WithTable(x, t, n) == [x EXCEPT !.table = t, !.length = n]

(* It is a PSP, and otherwise the one it was. *)
LEMMA TableSet ==
  ASSUME NEW x \in PspRecord, NEW t \in {Inline} \cup Tables,
         NEW n \in JftMinimum .. JftMaximum, t = Inline => n = JftMinimum
  PROVE  /\ WithTable(x, t, n) \in PspRecord
         /\ WithTable(x, t, n).table = t /\ WithTable(x, t, n).length = n
         /\ WithTable(x, t, n).parent = x.parent
         /\ WithTable(x, t, n).vectors = x.vectors
         /\ WithTable(x, t, n).inline = x.inline
         /\ WithTable(WithTable(x, t, n), x.table, x.length) = x
BY DEF WithTable, PspRecord, Psp

(* A block is being filled for a process. *)
Filling(d, e, p, b) ==
  /\ e \in Domain /\ HandleStep(d, e) /\ SameFiles(d, e)
  /\ e.arena = [d.arena EXCEPT ![b] = p]
  /\ \A t \in Tables \ {b} : e.tables[t] = d.tables[t]

(* cleanup_new_block takes it back. *)
LEMMA CleanupKept ==
  ASSUME NEW d \in Domain, NEW p \in Psps, Books(d) => p \in LiveOf(d),
         NEW b \in Tables, d.arena[b] = NoOwner, NEW e, Filling(d, e, p, b),
         e.psps = d.psps, NEW st, NEW r \in CleanupNew(e, b, p, st)
  PROVE  Kept(d, r.d)
<1>1. e \in Domain /\ HandleStep(d, e)
  BY DEF Filling
<1>2. PICK q \in FreeOwned(e, b, p) :
          r = IF q.st = "OK" THEN Result(q.d, st)
              ELSE Result(PoisonArena(q.d), "POISONED")
  BY DEF CleanupNew
<1>4. HandleStep(d, q.d)
  BY <1>1, FreeOwnedStep, HandleSteps
<1>5. CASE q.st # "OK"
  BY <1>2, <1>4, <1>5, PoisonArenaKept DEF Result
<1>6. CASE q.st = "OK"
  <2>1. b \in Blocks
    BY Numbers
  <2>2. PICK f : f = q.d
    OBVIOUS
  <2>3. f = Freed(e, b) /\ r.d = f
    BY <1>1, <1>2, <1>6, <2>1, <2>2, FreeOwnedIs DEF Result
  <2>4. /\ f \in Domain /\ SameFiles(e, f) /\ SameExec(e, f)
        /\ f.arena = [e.arena EXCEPT ![b] = NoOwner]
        /\ \A t \in Tables : f.arena[t] # NoOwner => f.tables[t] = e.tables[t]
        /\ \A k \in Psps : f.arena[k] # NoOwner => f.psps[k] = e.psps[k]
    BY <1>1, <2>1, <2>3, FreedIs, SMTT(20)
  <2>5. f.arena = d.arena
    BY Parts, <2>1, <2>4 DEF Filling, Arena
  <2>6. ASSUME Books(d)
        PROVE  Books(f)
    <3>1. p \in LiveOf(d) /\ TablesHeld(d)
      BY <2>6 DEF Books
    <3>2. \A k \in LiveOf(d) : k \in Psps /\ k # NoOwner /\ f.arena[k] = k
      BY <2>5, LiveIs, Numbers
    <3>3. \A k \in LiveOf(d) : f.psps[k] = d.psps[k]
      BY <2>4, <3>2
    <3>4. \A t \in Tables : d.arena[t] # NoOwner => f.tables[t] = d.tables[t]
      BY <2>4, <2>5 DEF Filling
    <3>5. \A t \in Tables : f.psps[p].table = t <=> f.arena[t] = p
      BY <2>5, <3>1, <3>3 DEF TablesHeld
    <3>6. ASSUME NEW j \in 0 .. JftMaximum - 1, NEW m \in Sfns
          PROVE  Sees(f, p, j, m) <=> Sees(d, p, j, m)
      <4>1. d.psps[p].table \in {Inline} \cup Tables /\ f.psps[p] = d.psps[p]
        BY <3>1, <3>3, PspTyped
      <4>2. ASSUME NEW t \in Tables, d.psps[p].table = t
            PROVE  f.tables[t] = d.tables[t]
        BY <3>1, <4>2, <3>2, <3>4 DEF TablesHeld
      <4> QED
        BY <4>1, <4>2 DEF Sees, EntryAt, JftIndices
    <3>7. f.batches = d.batches /\ SameFiles(d, f) /\ f.leases = d.leases
      BY <1>1, <2>4 DEF SameExec, HandleStep, SameFiles, Filling
    <3>8. Counts(f) = Counts(d) /\ TablesHeld(f)
      <4>1. \A k \in Psps : f.arena[k] = d.arena[k]
        BY <2>5
      <4>2. \A t \in Tables : d.arena[t] \notin {p, NoOwner} =>
              f.arena[t] = d.arena[t] /\ f.tables[t] = d.tables[t]
        BY <2>5, <3>4
      <4>3. \A t \in Tables : f.arena[t] \in {p, NoOwner, d.arena[t]}
        BY <2>5
      <4> QED
        <5>1. \A k \in LiveOf(d) \ {p} : f.psps[k] = d.psps[k]
          BY <3>3
        <5>2. \A j \in 0 .. JftMaximum - 1, m \in Sfns :
                Sees(f, p, j, m) <=> Sees(d, p, j, m)
          BY <3>6
        <5>3. f \in Domain /\ f.batches = d.batches
          BY <2>4, <3>7
        <5> QED
          BY ONLY d \in Domain, <3>1, <3>5, <4>1, <4>2, <4>3, <5>1, <5>2, <5>3, Moved
    <3> QED
      BY <2>4, <2>6, <3>7, <3>8, BooksMoved
  <2> QED
    BY <1>4, <2>2, <2>3, <2>6 DEF Kept
<1> QED
  BY <1>5, <1>6

(* populate_external_table *)
LEMMA FilledIs ==
  ASSUME NEW d \in Domain, NEW p \in Psps, NEW b \in Tables,
         NEW n \in JftMinimum .. JftMaximum, NEW e, e = Populate(d, p, b, n)
  PROVE  /\ Filling(d, e, p, b) /\ e.psps = d.psps /\ SameHealth(d, e)
         /\ \A j \in 0 .. JftMaximum - 1 :
              e.tables[b][j] = IF j < n /\ j < d.psps[p].length
                                 THEN EntryAt(d, p, j) ELSE UNUSED
<1>1. PICK x : x = [j \in 0 .. JftMaximum - 1 |->
                      IF j < n /\ j < d.psps[p].length THEN EntryAt(d, p, j)
                                                       ELSE UNUSED]
  OBVIOUS
<1>2. x \in [0 .. JftMaximum - 1 -> Entry]
  BY PspTyped, Numbers, EntryTyped, <1>1 DEF JftIndices, Entry
<1>3. PICK a : a = [d.arena EXCEPT ![b] = p]
  OBVIOUS
<1>4. PICK t : t = [d.tables EXCEPT ![b] = x]
  OBVIOUS
<1>5. /\ a \in Arena /\ t \in JftTables /\ t[b] = x
      /\ \A k \in Tables \ {b} : t[k] = d.tables[k]
      /\ \A k \in Psps : a[k] = d.arena[k]
  BY <1>2, <1>3, <1>4, Parts, Numbers DEF Arena, JftTables
<1>7. /\ e \in Domain /\ SameFiles(d, e) /\ SameExec(d, e) /\ SameRuntime(d, e)
      /\ SameHealth(d, e) /\ e.arena = a /\ e.tables = t /\ e.psps = d.psps
  BY <1>5, <1>1, <1>3, <1>4
  DEF Domain, SameFiles, SameExec, SameRuntime, SameHealth, Populate
<1>9. HandleStep(d, e)
  BY <1>5, <1>7, Parts, SftAssumption DEF HandleStep, Later, SameHealth
<1> QED
  BY <1>1, <1>3, <1>5, <1>7, <1>9, ZenonT(60) DEF Filling
(* The entries of a table that was moved outside the PSP *)
LEMMA ExternalSees ==
  ASSUME NEW d \in Domain, NEW p \in Psps, NEW n \in JftMinimum .. JftMaximum,
         n < d.psps[p].length => ClosedTail(d, p, n), NEW b \in Tables, NEW e,
         e.psps[p].table = b, e.psps[p].length = n,
         \A j \in 0 .. JftMaximum - 1 :
           e.tables[b][j] = IF j < n /\ j < d.psps[p].length
                              THEN EntryAt(d, p, j) ELSE UNUSED,
         NEW j \in 0 .. JftMaximum - 1, NEW m \in Sfns
  PROVE  Sees(e, p, j, m) <=> Sees(d, p, j, m)
<1>1. /\ b # Inline /\ m # UNUSED /\ n \in Int /\ j \in Int
      /\ d.psps[p].length \in Int
  BY Numbers, PspTyped
<1> QED
  BY <1>1 DEF Sees, JftIndices, ClosedTail, EntryAt

(* The table is outside, and the old one, if it was, has been freed. *)
LEMMA ExternalBooks ==
  ASSUME NEW d \in Domain, Books(d), NEW p \in LiveOf(d),
         NEW n \in JftMinimum .. JftMaximum,
         n < d.psps[p].length => ClosedTail(d, p, n),
         NEW b \in Tables, d.arena[b] = NoOwner,
         NEW e \in Domain, SameFiles(d, e), e.leases = d.leases,
         e.batches = d.batches, e.psps[p].table = b, e.psps[p].length = n,
         \A k \in LiveOf(d) \ {p} : e.psps[k] = d.psps[k],
         \A k \in Psps : e.arena[k] = d.arena[k],
         \A t \in Tables :
           e.arena[t] = IF t = b THEN p
                        ELSE IF t = d.psps[p].table THEN NoOwner ELSE d.arena[t],
         \A t \in Tables \ {b} : e.arena[t] # NoOwner => e.tables[t] = d.tables[t],
         \A j \in 0 .. JftMaximum - 1 :
           e.tables[b][j] = IF j < n /\ j < d.psps[p].length
                              THEN EntryAt(d, p, j) ELSE UNUSED
  PROVE  Books(e)
<1>1. TablesHeld(d) /\ p \in Psps /\ p # NoOwner
  BY LiveIs, Numbers DEF Books
<1>2. \A t \in Tables : d.psps[p].table = t <=> d.arena[t] = p
  BY <1>1 DEF TablesHeld
<1> QED
  BY <1>1, <1>2, ExternalSees, Moved, BooksMoved

(* The same facts as one: the PSP of p names the table b, which holds the  *)
(* entries of the old one.                                                 *)
Renamed(d, e, p, b, n) ==
  /\ Filling(d, e, p, b)
  /\ e.psps = [d.psps EXCEPT ![p] = WithTable(d.psps[p], b, n)]
  /\ \A j \in 0 .. JftMaximum - 1 :
       e.tables[b][j] = IF j < n /\ j < d.psps[p].length
                          THEN EntryAt(d, p, j) ELSE UNUSED

(* The PSP names the table it named before. *)
Control(d, p) == [table |-> d.psps[p].table, length |-> d.psps[p].length]
PutBack(d, p, x) == [x EXCEPT !.psps[p].table = Control(d, p).table,
                              !.psps[p].length = Control(d, p).length]

(* rollback_external_publication *)
LEMMA UndoExternalKept ==
  ASSUME NEW d \in Domain, NEW p \in Psps, Books(d) => p \in LiveOf(d),
         NEW n \in JftMinimum .. JftMaximum, NEW b \in Tables,
         d.arena[b] = NoOwner, NEW e, Renamed(d, e, p, b, n),
         NEW u \in Replace(e, PutBack(d, p, e)),
         NEW r \in IF u.st = "OK" THEN CleanupNew(u.d, b, p, "FAULT")
                   ELSE {Result(PoisonArena(u.d), "POISONED")}
  PROVE  Kept(d, r.d)
<1>1. e \in Domain /\ HandleStep(d, e) /\ Filling(d, e, p, b)
  BY DEF Renamed, Filling
<1> DEFINE f == PutBack(d, p, e)
<1>2. PICK x : x = d.psps[p]
  OBVIOUS
<1>3. PICK y : y = WithTable(x, b, n)
  OBVIOUS
<1>4. /\ x \in PspRecord /\ y \in PspRecord /\ WithTable(y, x.table, x.length) = x
      /\ y.parent = x.parent /\ y.vectors = x.vectors
  <2> QED
    BY <1>3, <1>2, PspTyped, Numbers, TableSet
<1>5. e.psps[p] = y
  BY <1>2, <1>3, Parts DEF Renamed, PspTable
<1>6. f = PutPsp(e, p, x)
  <2>1. PICK t, k : t = x.table /\ k = x.length
    OBVIOUS
  <2>2. f = [e EXCEPT !.psps[p].table = t, !.psps[p].length = k]
    BY <1>2, <2>1 DEF PutBack, Control
  <2>3. f = PutPsp(e, p, WithTable(e.psps[p], t, k))
    BY ONLY <1>1, <2>2, p \in Psps, Parts, PspTyped
    DEF PutPsp, WithTable, Domain, PspTable, PspRecord, Psp
  <2> QED
    BY <1>4, <1>5, <2>1, <2>3
<1>7. /\ HandleStep(e, f) /\ f \in Domain /\ SameFiles(e, f) /\ SameHealth(e, f)
      /\ f.arena = e.arena /\ f.tables = e.tables
      /\ f.psps = [e.psps EXCEPT ![p] = x]
  <2>1. x.parent = e.psps[p].parent /\ x.vectors = e.psps[p].vectors
    BY <1>4, <1>5
  <2> QED
    BY ONLY <1>1, <1>4, <1>6, <2>1, p \in Psps, PspSet
<1>9. Filling(d, f, p, b)
  BY <1>1, <1>7, HandleSteps DEF Filling, SameFiles
<1>10. HandleStep(e, u.d) /\ (u.st = "OK" => u.d = f)
  BY <1>1, <1>7, ReplaceIs DEF SameHealth
<1>11. CASE u.st = "OK"
  BY Parts, <1>2, <1>3, <1>7, <1>9, <1>10, <1>11, CleanupKept DEF Renamed, PspTable
<1>12. CASE u.st # "OK"
  BY <1>1, <1>10, HandleSteps, <1>12, PoisonArenaKept DEF Result
<1> QED
  BY <1>11, <1>12

(* The old table is released. *)
LEMMA ReleasedExternal ==
  ASSUME NEW d \in Domain, NEW p \in Psps, Books(d) => p \in LiveOf(d),
         NEW n \in JftMinimum .. JftMaximum,
         n < d.psps[p].length => ClosedTail(d, p, n), NEW b \in Tables,
         d.arena[b] = NoOwner, NEW e, Renamed(d, e, p, b, n),
         NEW f, \/ f = e /\ d.psps[p].table = Inline
                \/ d.psps[p].table \in Tables /\ f = Freed(e, d.psps[p].table)
  PROVE  Kept(d, f)
<1>1. e \in Domain /\ HandleStep(d, e) /\ Filling(d, e, p, b)
  BY DEF Renamed, Filling
<1>2. PICK o : o = d.psps[p].table
  OBVIOUS
<1>3. /\ f \in Domain /\ HandleStep(e, f) /\ SameFiles(e, f)
      /\ f.batches = e.batches /\ f.leases = e.leases
      /\ \A t \in Blocks : f.arena[t] = IF t = o THEN NoOwner ELSE e.arena[t]
      /\ \A t \in Tables : f.arena[t] # NoOwner => f.tables[t] = e.tables[t]
      /\ \A q \in Psps : f.arena[q] # NoOwner => f.psps[q] = e.psps[q]
  <2>1. CASE f = e /\ o = Inline
    BY <2>1, JftAssumption, <1>1, HandleStays
    DEF Inline, Blocks, Psps, Tables, Kept, SameFiles
  <2>2. CASE o \in Tables /\ f = Freed(e, o)
    <3>1. o \in Blocks
      BY <2>2, Numbers
    <3>2. HandleStep(e, f)
      BY <1>1, <2>2, FreedStep
    <3>3. e.arena \in Arena
      BY <1>1, Parts
    <3> QED
      <4>1. /\ f \in Domain /\ SameFiles(e, f) /\ SameExec(e, f)
            /\ f.arena = [e.arena EXCEPT ![o] = NoOwner]
            /\ \A t \in Tables : f.arena[t] # NoOwner => f.tables[t] = e.tables[t]
            /\ \A q \in Psps : f.arena[q] # NoOwner => f.psps[q] = e.psps[q]
        BY <1>1, <2>2, <3>1, FreedIs
      <4> QED
        BY <3>2, <4>1, <3>1, <3>3 DEF SameExec, Arena
  <2> QED
    BY <1>2, <2>1, <2>2
<1>4. HandleStep(d, f)
  BY <1>1, <1>3, HandleSteps
<1>5. ASSUME Books(d)
      PROVE  Books(f)
  <2>1. p \in LiveOf(d) /\ TablesHeld(d) /\ p # NoOwner
    BY <1>5, Numbers DEF Books
  <2>3. /\ \A k \in Psps : f.arena[k] = d.arena[k]
        /\ \A k \in LiveOf(d) : k \in Psps /\ f.arena[k] # NoOwner
    <3>1. \A k \in Psps : f.arena[k] = d.arena[k]
      BY <1>4 DEF HandleStep
    <3> QED
      BY <3>1, LiveIs, Numbers
  <2>4. PICK y : y = WithTable(d.psps[p], b, n)
    OBVIOUS
  <2>5. y.table = b /\ y.length = n
    BY PspTyped, Numbers, <2>4, TableSet
  <2> QED
    BY <1>2, <1>3, <1>5, <2>1, <2>3, <2>5, <2>4, Parts, Numbers, <1>1, ExternalBooks
    DEF Filling, SameFiles, HandleStep, SameExec, Renamed, Arena, TablesHeld, PspTable
<1> QED
  BY <1>4, <1>5 DEF Kept
(* resize_to_external, once the new table is filled *)
LEMMA PublishedExternal ==
  ASSUME NEW d \in Domain, NEW p \in Psps, Books(d) => p \in LiveOf(d),
         NEW n \in JftMinimum .. JftMaximum,
         n < d.psps[p].length => ClosedTail(d, p, n), NEW b \in Tables,
         d.arena[b] = NoOwner, NEW e, Renamed(d, e, p, b, n),
         NEW v \in FreeOwned(e, d.psps[p].table, p), d.psps[p].table # Inline,
         NEW r,
         \/ v.st = "OK" /\ r = v
         \/ v.st = "POISONED" /\ r = Result(PoisonArena(v.d), v.st)
         \/ /\ v.st \notin {"OK", "POISONED"}
            /\ \E u \in Replace(v.d, PutBack(d, p, v.d)) :
                 r \in IF u.st = "OK" THEN CleanupNew(u.d, b, p, "FAULT")
                       ELSE {Result(PoisonArena(u.d), "POISONED")}
  PROVE  Kept(d, r.d)
<1>1. e \in Domain /\ HandleStep(d, e)
  BY DEF Renamed, Filling
<1>2. PICK o \in Tables : o = d.psps[p].table
  BY PspTyped
<1>3. o \in Blocks
  BY Numbers
<1>4. /\ v.st \in {"OK", "INVALID_STATE", "FAULT", "POISONED"}
      /\ v.st = "OK" => v.d = Freed(e, o)
      /\ v.st = "INVALID_STATE" => v.d = e
      /\ v.st = "FAULT" => CanFail(e) /\ v.d = Faulty(e)
  <2>1. v \in FreeOwned(e, o, p)
    BY <1>2
  <2> QED
    BY ONLY <1>1, <1>3, <2>1, FreeOwnedIs
<1>5. HandleStep(d, v.d)
  BY <1>1, <1>2, FreeOwnedStep, HandleSteps
<1>6. CASE v.st = "OK" /\ r = v
  BY <1>2, <1>4, <1>6, ReleasedExternal
<1>7. CASE v.st = "POISONED" /\ r = Result(PoisonArena(v.d), v.st)
  BY <1>5, <1>7, PoisonArenaKept DEF Result
<1>8. ASSUME v.st \notin {"OK", "POISONED"}, NEW u \in Replace(v.d, PutBack(d, p, v.d)),
             r \in IF u.st = "OK" THEN CleanupNew(u.d, b, p, "FAULT")
                   ELSE {Result(PoisonArena(u.d), "POISONED")}
      PROVE  Kept(d, r.d)
  <2>1. PICK g : g = v.d
    OBVIOUS
  <2>2. Renamed(d, g, p, b, n)
    <3>1. CASE g = e
      BY <3>1
    <3>2. CASE CanFail(e) /\ g = Faulty(e)
      <4>3. HandleStep(d, g)
        BY <1>5, <2>1
      <4> QED
        BY <1>1, <3>2, FaultyKept, <4>3
        DEF Renamed, Filling, SameFiles, SftStep, SameMemory
    <3> QED
      BY <1>4, <1>8, <2>1, <3>1, <3>2
  <2> QED
    BY <1>8, <2>2, <2>1, UndoExternalKept
<1> QED
  BY <1>6, <1>7, <1>8

(* A block is taken for a table, and nothing else done. *)
LEMMA TakenIs ==
  ASSUME NEW d \in Domain, CanFail(d), NEW p \in Psps, NEW b \in Tables,
         NEW e, e = Faulty([d EXCEPT !.arena[b] = p])
  PROVE  Filling(d, e, p, b) /\ e.psps = d.psps
<1>1. PICK a : a = [d.arena EXCEPT ![b] = p]
  OBVIOUS
<1>2. a \in Arena /\ \A k \in Psps : a[k] = d.arena[k]
  BY <1>1, Parts, Numbers DEF Arena
<1>3. PICK f : f = [d EXCEPT !.arena = a]
  OBVIOUS
<1>4. /\ f \in Domain /\ SameFiles(d, f) /\ SameExec(d, f) /\ SameRuntime(d, f)
      /\ SameHealth(d, f) /\ f.arena = a /\ f.tables = d.tables /\ f.psps = d.psps
  BY <1>2, <1>3 DEF Domain, SameFiles, SameExec, SameRuntime, SameHealth
<1>8. e \in Domain /\ SftStep(f, e) /\ SameFiles(f, e) /\ HandleStep(f, e)
  BY <1>4, <1>1, <1>3, FaultyKept DEF SftStep, Kept, CanFail, SameHealth
<1>10. HandleStep(d, e)
  BY <1>2, <1>4, Parts, SftAssumption, <1>8, HandleSteps
  DEF HandleStep, Later, SameHealth
<1> QED
  BY <1>1, <1>4, <1>8, <1>10 DEF Filling, SameFiles, SftStep, SameMemory

(* The PSP names the filled table. *)
NameTable(e, p, b, n) == [e EXCEPT !.psps[p].table = b, !.psps[p].length = n]

(* The process uses the table it has filled, and no handle changes. *)
LEMMA RenamedIs ==
  ASSUME NEW d \in Domain, NEW p \in Psps, NEW n \in JftMinimum .. JftMaximum,
         NEW b \in Tables, NEW e, e = Populate(d, p, b, n),
         NEW f, f = NameTable(e, p, b, n)
  PROVE  /\ Renamed(d, f, p, b, n) /\ e \in Domain
         /\ HandleStep(e, f) /\ f.faults = e.faults
<1>1. /\ Filling(d, e, p, b) /\ e.psps = d.psps
      /\ \A j \in 0 .. JftMaximum - 1 :
           e.tables[b][j] = IF j < n /\ j < d.psps[p].length
                              THEN EntryAt(d, p, j) ELSE UNUSED
  BY FilledIs
<1>2. e \in Domain /\ HandleStep(d, e)
  BY <1>1 DEF Filling
<1>3. PICK y : y = WithTable(d.psps[p], b, n)
  OBVIOUS
<1>4. y \in PspRecord /\ y.parent = d.psps[p].parent /\ y.vectors = d.psps[p].vectors
  BY PspTyped, Numbers, <1>3, TableSet
<1>5. f = PutPsp(e, p, y)
  <2>1. f = PutPsp(e, p, WithTable(e.psps[p], b, n))
    BY ONLY <1>2, p \in Psps, Parts, PspTyped,
            f = NameTable(e, p, b, n)
    DEF NameTable, PutPsp, WithTable, Domain, PspTable, PspRecord, Psp
  <2> QED
    BY <1>1, <1>3, <2>1
<1>6. /\ HandleStep(e, f) /\ f \in Domain /\ SameFiles(e, f) /\ SameHealth(e, f)
      /\ f.arena = e.arena /\ f.tables = e.tables
      /\ f.psps = [e.psps EXCEPT ![p] = y]
  <2>1. y.parent = e.psps[p].parent /\ y.vectors = e.psps[p].vectors
    BY <1>1, <1>4
  <2> QED
    BY ONLY <1>2, <1>4, <1>5, <2>1, p \in Psps, PspSet
<1> QED
  BY <1>1, <1>2, <1>3, <1>6, HandleSteps DEF Renamed, SameHealth, Filling, SameFiles

(* What becomes of the old table *)
Release(d, x, p, b) ==
  IF Control(d, p).table = Inline THEN {Result(x, "OK")}
  ELSE UNION {CASE v.st = "OK" -> {v}
                [] v.st = "POISONED" -> {Result(PoisonArena(v.d), v.st)}
                [] OTHER ->
                     UNION {IF u.st = "OK" THEN CleanupNew(u.d, b, p, "FAULT")
                            ELSE {Result(PoisonArena(u.d), "POISONED")}
                            : u \in Replace(v.d, PutBack(d, p, v.d))}
              : v \in FreeOwned(x, Control(d, p).table, p)}

AfterName(d, p, b, q) ==
  CASE q.st = "OK" -> Release(d, q.d, p, b)
    [] q.st = "FAULT" -> CleanupNew(q.d, b, p, "FAULT")
    [] OTHER -> {Result(PoisonArena(q.d), "POISONED")}

Taken(d, p, b) == Faulty([d EXCEPT !.arena[b] = p])

ToExternal(d, p, n, b, e) ==
  (UNION {AfterName(d, p, b, q) : q \in Replace(e, NameTable(e, p, b, n))})
    \cup IF CanFail(d)
           THEN CleanupNew(Taken(d, p, b), b, p, "FAULT")
           ELSE {}

(* resize_to_external in these terms *)
LEMMA ToExternalForm ==
  ASSUME NEW d, NEW p, NEW n, FreeTables(d) # {}
  PROVE  ResizeToExternal(d, p, n) =
           ToExternal(d, p, n, Min(FreeTables(d)),
                      Populate(d, p, Min(FreeTables(d)), n))
BY DEF ResizeToExternal, ReleaseOld, Release, ToExternal, AfterName,
   Taken, NameTable, PutBack, Control

(* resize_to_external *)
LEMMA ToExternalKept ==
  ASSUME NEW d \in Domain, NEW p \in Psps, Books(d) => p \in LiveOf(d),
         NEW n \in JftMinimum .. JftMaximum,
         n < d.psps[p].length => ClosedTail(d, p, n),
         NEW r \in ResizeToExternal(d, p, n)
  PROVE  Kept(d, r.d)
<1>1. CASE FreeTables(d) = {}
  BY <1>1, HandleStays DEF ResizeToExternal, ReleaseOld, Result
<1>2. CASE FreeTables(d) # {}
  <2>2. PICK b \in FreeTables(d) : b = Min(FreeTables(d))
    BY <1>2, Numbers, MinIs DEF FreeTables
  <2>3. b \in Tables /\ d.arena[b] = NoOwner
    BY DEF FreeTables
  <2>4. PICK e : e = Populate(d, p, b, n)
    OBVIOUS
  <2>5. PICK f : f = NameTable(e, p, b, n)
    OBVIOUS
  <2>6. /\ Renamed(d, f, p, b, n) /\ e \in Domain
        /\ HandleStep(e, f) /\ f.faults = e.faults
    BY ONLY <2>3, <2>4, <2>5, d \in Domain, p \in Psps,
            n \in JftMinimum .. JftMaximum, RenamedIs
  <2>7. Filling(d, e, p, b) /\ e.psps = d.psps /\ HandleStep(d, e)
    BY <2>3, <2>4, FilledIs DEF Filling
  <2>9. CASE /\ CanFail(d)
             /\ r \in CleanupNew(Taken(d, p, b), b, p, "FAULT")
    BY <2>3, <2>9, TakenIs, CleanupKept DEF Taken
  <2>10. ASSUME NEW q \in Replace(e, f),
                r \in AfterName(d, p, b, q)
         PROVE  Kept(d, r.d)
    <3>1. /\ HandleStep(e, q.d) /\ q.st \in {"OK", "FAULT", "ROLLBACK_FAILED"}
          /\ q.st = "OK" => q.d = f
          /\ q.st = "FAULT" => CanFail(e) /\ q.d = Faulty(e)
      BY <2>6, ReplaceIs
    <3>2. CASE q.st = "ROLLBACK_FAILED"
      BY <2>10, <3>2, <2>7, <3>1, HandleSteps, PoisonArenaKept DEF AfterName, Result
    <3>3. CASE q.st = "FAULT"
      BY <2>10, <3>1, <3>3, <2>6, FaultyKept, <2>7, HandleSteps, <2>3, CleanupKept
      DEF AfterName, SftStep, Kept, SameMemory, Filling, SameFiles
    <3>4. CASE q.st = "OK"
      BY <2>10, <3>1, <3>4, <2>3, <2>6, ReleasedExternal, PublishedExternal
      DEF AfterName, Release, Control, Result
    <3> QED
      BY <3>1, <3>2, <3>3, <3>4
  <2> QED
    BY <1>2, <2>2, <2>4, ToExternalForm, <2>5, <2>9, <2>10 DEF ToExternal
<1> QED
  BY <1>1, <1>2

(* The PSP of p has the first entries of its table in it. *)
KeptInline(d, p) == [j \in 0 .. JftMinimum - 1 |-> EntryAt(d, p, j)]
NameInline(d, p) ==
  [d EXCEPT !.psps[p].inline = KeptInline(d, p), !.psps[p].table = Inline,
            !.psps[p].length = JftMinimum]

(* It is a step of the handles, and only that PSP changes. *)
LEMMA InlineIs ==
  ASSUME NEW d \in Domain, NEW p \in Psps, NEW e, e = NameInline(d, p)
  PROVE  /\ HandleStep(d, e) /\ e \in Domain /\ SameFiles(d, e) /\ SameHealth(d, e)
         /\ e.arena = d.arena /\ e.tables = d.tables
         /\ e.psps[p].table = Inline /\ e.psps[p].length = JftMinimum
         /\ e.psps[p].inline = KeptInline(d, p)
         /\ e.psps[p].parent = d.psps[p].parent
         /\ e.psps[p].vectors = d.psps[p].vectors
         /\ \A q \in Psps \ {p} : e.psps[q] = d.psps[q]
<1>1. PICK x : x = d.psps[p]
  OBVIOUS
<1>2. x \in PspRecord
  BY <1>1, PspTyped
<1>3. KeptInline(d, p) \in [0 .. JftMinimum - 1 -> Entry]
  BY EntryTyped, Indices DEF KeptInline
<1>4. PICK y : y = [x EXCEPT !.inline = KeptInline(d, p), !.table = Inline,
                             !.length = JftMinimum]
  OBVIOUS
<1>5. /\ y \in PspRecord /\ y.table = Inline /\ y.length = JftMinimum
      /\ y.inline = KeptInline(d, p) /\ y.parent = x.parent /\ y.vectors = x.vectors
  <2>1. JftMinimum \in JftMinimum .. JftMaximum
    BY Numbers
  <2> QED
    BY <1>2, <1>3, <1>4, <2>1 DEF PspRecord, Psp
<1>6. e = PutPsp(d, p, y)
  BY <1>1, <1>2, <1>4, Parts
  DEF NameInline, PutPsp, Domain, PspTable, PspRecord, Psp
<1>7. /\ HandleStep(d, e) /\ e \in Domain /\ SameFiles(d, e) /\ SameHealth(d, e)
      /\ e.arena = d.arena /\ e.tables = d.tables /\ e.psps[p] = y
      /\ \A q \in Psps \ {p} : e.psps[q] = d.psps[q]
      /\ e.psps = [d.psps EXCEPT ![p] = y]
  <2>1. y.parent = d.psps[p].parent /\ y.vectors = d.psps[p].vectors
    BY <1>1, <1>5
  <2> QED
    BY ONLY <1>5, <1>6, <2>1, d \in Domain, p \in Psps, PspSet
<1> QED
  BY <1>1, <1>5, <1>7

(* The table is in the PSP again, and the block freed. *)
LEMMA InlineBooks ==
  ASSUME NEW d \in Domain, Books(d), NEW p \in LiveOf(d), d.psps[p].table \in Tables,
         ClosedTail(d, p, JftMinimum), NEW e, e = NameInline(d, p),
         NEW f, f = Freed(e, d.psps[p].table)
  PROVE  Books(f)
<1>1. p \in Psps /\ p # NoOwner /\ TablesHeld(d)
  BY LiveIs, Numbers DEF Books
<1>2. PICK o \in Tables : o = d.psps[p].table
  OBVIOUS
<1>3. /\ HandleStep(d, e) /\ e \in Domain /\ SameFiles(d, e)
      /\ e.arena = d.arena /\ e.tables = d.tables
      /\ e.psps[p].table = Inline /\ e.psps[p].length = JftMinimum
      /\ e.psps[p].inline = KeptInline(d, p)
      /\ \A q \in Psps \ {p} : e.psps[q] = d.psps[q]
  BY <1>1, InlineIs
<1>4. o \in Blocks
  BY Numbers
<1>5. /\ f \in Domain /\ SameFiles(e, f) /\ SameExec(e, f)
      /\ f.arena = [e.arena EXCEPT ![o] = NoOwner]
      /\ \A t \in Tables : f.arena[t] # NoOwner => f.tables[t] = e.tables[t]
      /\ \A q \in Psps : f.arena[q] # NoOwner => f.psps[q] = e.psps[q]
  <2>1. f = Freed(e, o)
    BY <1>2
  <2> QED
    <3>1. e \in Domain
      BY <1>3
    <3> QED
      BY <1>4, <2>1, <3>1, FreedIs
<1>6. \A t \in Blocks : f.arena[t] = IF t = o THEN NoOwner ELSE d.arena[t]
  BY <1>3, <1>4, <1>5, Parts DEF Arena
<1>7. \A q \in Psps : f.arena[q] = d.arena[q]
  BY <1>6, Numbers
<1>8. \A q \in LiveOf(d) : q \in Psps /\ f.psps[q] = e.psps[q]
  <2>1. \A q \in LiveOf(d) : q \in Psps /\ d.arena[q] = q /\ q # NoOwner
    BY LiveIs, Numbers
  <2> QED
    BY <1>5, <1>7, <2>1
<1>9. \A q \in LiveOf(d) \ {p} : f.psps[q] = d.psps[q]
  BY <1>3, <1>8
<1>10. \A t \in Tables : d.psps[p].table = t <=> d.arena[t] = p
  BY <1>1 DEF TablesHeld
<1>11. \A t \in Tables : d.arena[t] \notin {p, NoOwner} =>
         f.arena[t] = d.arena[t] /\ f.tables[t] = d.tables[t]
  BY <1>2, <1>3, <1>5, <1>6, <1>10, Numbers
<1>12. \A t \in Tables : f.arena[t] \in {p, NoOwner, d.arena[t]}
  BY <1>6, Numbers
<1>13. \A t \in Tables : f.psps[p].table = t <=> f.arena[t] = p
  BY <1>1, <1>2, <1>3, <1>6, <1>8, <1>10, Numbers
<1>14. ASSUME NEW j \in 0 .. JftMaximum - 1, NEW m \in Sfns
       PROVE  Sees(f, p, j, m) <=> Sees(d, p, j, m)
  <2>1. f.psps[p] = e.psps[p] /\ m # UNUSED
    BY <1>8, Numbers
  <2>3. j \in 0 .. JftMinimum - 1 => EntryAt(f, p, j) = EntryAt(d, p, j)
    <3>2. EntryAt(f, p, j) = KeptInline(d, p)[j]
      BY <1>3, <2>1 DEF EntryAt
    <3> QED
      BY <3>2 DEF KeptInline
  <2> QED
    BY <1>3, <2>1, <2>3, <1>1, Indices, Numbers DEF Sees, ClosedTail, JftIndices
<1>15. SameFiles(d, f) /\ f.batches = d.batches /\ f.leases = d.leases
  BY <1>3, <1>5 DEF SameFiles, SameExec, HandleStep
<1>16. Counts(f) = Counts(d) /\ TablesHeld(f)
  BY ONLY d \in Domain, p \in LiveOf(d), <1>1, <1>5, <1>7, <1>9, <1>11, <1>12, <1>13,
          <1>14, <1>15, Moved
<1> QED
  BY <1>5, <1>15, <1>16, BooksMoved

(* The table is named where it was. *)
LEMMA UndoInlineKept ==
  ASSUME NEW d \in Domain, NEW p \in Psps, NEW e, e = NameInline(d, p),
         NEW g, g = e \/ (CanFail(e) /\ g = Faulty(e)),
         NEW u \in Replace(g, [g EXCEPT !.psps[p] = d.psps[p]]),
         NEW r, r = IF u.st = "OK" THEN Result(u.d, "FAULT")
                    ELSE Result(PoisonArena(u.d), "POISONED")
  PROVE  Kept(d, r.d)
<1>1. /\ HandleStep(d, e) /\ e \in Domain /\ SameFiles(d, e)
      /\ e.arena = d.arena /\ e.tables = d.tables
      /\ e.psps[p].parent = d.psps[p].parent
      /\ e.psps[p].vectors = d.psps[p].vectors
      /\ \A q \in Psps \ {p} : e.psps[q] = d.psps[q]
  BY InlineIs
<1>2. /\ HandleStep(e, g) /\ g \in Domain /\ SameFiles(e, g)
      /\ g.arena = e.arena /\ g.tables = e.tables /\ g.psps = e.psps
  BY <1>1, HandleStays, FaultyKept DEF Kept, SameFiles, SftStep, SameMemory
<1>3. PICK x \in PspRecord : x = d.psps[p]
  BY PspTyped
<1>4. PICK f : f = PutPsp(g, p, x)
  OBVIOUS
<1>5. /\ HandleStep(g, f) /\ f \in Domain /\ SameFiles(g, f) /\ SameHealth(g, f)
      /\ f.arena = g.arena /\ f.tables = g.tables
      /\ f.psps = [g.psps EXCEPT ![p] = x]
  <2>1. x.parent = g.psps[p].parent /\ x.vectors = g.psps[p].vectors
    BY <1>1, <1>2, <1>3
  <2> QED
    BY ONLY <1>2, <1>3, <1>4, <2>1, p \in Psps, PspSet
<1>6. f.psps = d.psps
  BY Parts, <1>1, <1>2, <1>3, <1>5 DEF PspTable
<1>7. u \in Replace(g, f)
  BY <1>3, <1>4 DEF PutPsp
<1>8. HandleStep(g, u.d) /\ (u.st = "OK" => u.d = f)
  BY <1>2, <1>5, <1>7, ReplaceIs DEF SameHealth
<1>9. HandleStep(d, g) /\ HandleStep(d, u.d)
  BY <1>1, <1>2, <1>8, HandleSteps
<1>10. CASE u.st # "OK"
  BY <1>9, <1>10, PoisonArenaKept DEF Result
<1>11. CASE u.st = "OK"
  <2>2. HandleStep(d, f)
    BY <1>8, <1>9, <1>11
  <2>3. /\ f.arena = d.arena /\ f.tables = d.tables /\ SameFiles(d, f)
        /\ f.batches = d.batches /\ f.leases = d.leases
    BY <1>1, <1>2, <1>5, <2>2 DEF SameFiles, HandleStep, SameExec
  <2>4. Counts(f) = Counts(d) /\ (TablesHeld(d) => TablesHeld(f))
    <3>1. LiveOf(f) = LiveOf(d)
      BY <2>3 DEF LiveOf
    <3>3. Counts(f) = Counts(d)
      BY <1>5, <2>3, <3>1, <1>6, CountsSame DEF Sees, EntryAt, JftIndices
    <3> QED
      BY <1>6, <2>3, <3>1, <3>3 DEF TablesHeld
  <2> QED
    BY <1>8, <1>11, <2>2, <1>5, <2>3, <2>4, BooksMoved DEF Kept, Books, Result
<1> QED
  BY <1>10, <1>11
(* resize_to_inline in these terms *)
ReleaseInline(d, p, v) ==
  CASE v.st = "OK" -> {v}
    [] v.st = "POISONED" -> {Result(PoisonArena(v.d), v.st)}
    [] OTHER -> {IF u.st = "OK" THEN Result(u.d, "FAULT")
                 ELSE Result(PoisonArena(u.d), "POISONED")
                 : u \in Replace(v.d, [v.d EXCEPT !.psps[p] = d.psps[p]])}
AfterInline(d, p, q) ==
  CASE q.st = "OK" ->
         IF d.psps[p].table = Inline THEN {Result(q.d, "OK")}
         ELSE UNION {ReleaseInline(d, p, v)
                       : v \in FreeOwned(q.d, d.psps[p].table, p)}
    [] q.st = "FAULT" -> {q}
    [] OTHER -> {Result(PoisonArena(q.d), "POISONED")}

(* A resize to the inline table, one step after the other *)
LEMMA ToInlineForm ==
  ASSUME NEW d, NEW p
  PROVE  ResizeToInline(d, p) =
           UNION {AfterInline(d, p, q) : q \in Replace(d, NameInline(d, p))}
BY DEF ResizeToInline, ReleaseOld, AfterInline, ReleaseInline, NameInline, KeptInline

(* resize_to_inline *)
LEMMA ToInlineKept ==
  ASSUME NEW d \in Domain, NEW p \in Psps, Books(d) => p \in LiveOf(d),
         ClosedTail(d, p, JftMinimum), d.psps[p].table # Inline,
         NEW r \in ResizeToInline(d, p)
  PROVE  Kept(d, r.d)
<1>1. PICK e : e = NameInline(d, p)
  OBVIOUS
<1>2. HandleStep(d, e) /\ e \in Domain /\ e.faults = d.faults
  BY <1>1, InlineIs DEF SameHealth
<1>3. PICK o \in Tables : o = d.psps[p].table
  BY PspTyped
<1>4. PICK q \in Replace(d, e) : r \in AfterInline(d, p, q)
  BY <1>1, ToInlineForm
<1>5. /\ HandleStep(d, q.d) /\ q.st \in {"OK", "FAULT", "ROLLBACK_FAILED"}
      /\ q.st = "OK" => q.d = e
      /\ q.st = "FAULT" => CanFail(d) /\ q.d = Faulty(d)
  BY <1>2, <1>4, ReplaceIs
<1>6. CASE q.st = "ROLLBACK_FAILED"
  BY <1>4, <1>6, <1>5, PoisonArenaKept DEF AfterInline, Result
<1>7. CASE q.st = "FAULT"
  BY <1>4, <1>7, <1>5, FaultyKept DEF AfterInline
<1>8. CASE q.st = "OK"
  <2>1. PICK v \in FreeOwned(e, o, p) : r \in ReleaseInline(d, p, v)
    BY <1>3, <1>4, <1>5, <1>8 DEF AfterInline
  <2>3. /\ v.st \in {"OK", "INVALID_STATE", "FAULT", "POISONED"}
        /\ v.st = "OK" => v.d = Freed(e, o)
        /\ v.st = "INVALID_STATE" => v.d = e
        /\ v.st = "FAULT" => CanFail(e) /\ v.d = Faulty(e)
    BY <1>2, <2>1, Numbers, FreeOwnedIs
  <2>4. HandleStep(d, v.d)
    BY <1>2, <2>1, FreeOwnedStep, HandleSteps
  <2>5. CASE v.st = "OK"
    BY <2>1, <2>3, <2>5, <1>1, <1>3, InlineBooks, <2>4 DEF ReleaseInline, Kept
  <2>6. CASE v.st = "POISONED"
    BY <2>1, <2>6, <2>4, PoisonArenaKept DEF ReleaseInline, Result
  <2>7. CASE v.st \in {"INVALID_STATE", "FAULT"}
    BY <2>3, <2>7, <2>1, <1>1, UndoInlineKept, Zenon DEF ReleaseInline
  <2> QED
    BY <2>3, <2>5, <2>6, <2>7
<1> QED
  BY <1>5, <1>6, <1>7, <1>8

(* dos_jft_resize_checked *)
LEMMA ResizeKept ==
  ASSUME NEW d \in Domain, NEW p \in Psps, Books(d) => p \in LiveOf(d),
         NEW n \in JftMinimum .. JftMaximum, NEW r \in Resize(d, p, n)
  PROVE  Kept(d, r.d)
<1>1. PICK k \in JftMinimum .. JftMaximum : k = d.psps[p].length
  BY PspTyped
<1>4. CASE r \in {Result(d, "OK"), Result(d, "TOO_MANY_OPEN_FILES"),
                  Result(d, "POISONED"), Result(d, "INVALID_STATE")}
  BY <1>4, HandleStays DEF Result
<1>5. CASE /\ n < k => ClosedTail(d, p, n)
           /\ n < k /\ n = JftMinimum /\ r \in ResizeToInline(d, p)
  BY <1>1, Numbers, <1>5, PspTyped, ToInlineKept
<1>6. CASE /\ n < k => ClosedTail(d, p, n)
           /\ r \in ResizeToExternal(d, p, n)
  BY <1>1, <1>6, ToExternalKept
<1> QED
  BY <1>1, <1>4, <1>5, <1>6 DEF Resize

(* dispatch_set_handle_count *)
LEMMA HandleCountKept ==
  ASSUME NEW d \in Domain, NEW p \in Psps, Books(d) => p \in LiveOf(d),
         NEW n \in JftMinimum .. JftMaximum, NEW r \in SetHandleCount(d, p, n)
  PROVE  Kept(d, r.d)
<1>1. PICK q \in Resize(d, p, n) :
          r = CASE q.st = "POISONED" -> Poisoned(PoisonArena(q.d))
                [] q.st = "FAULT" -> Result(q.d, "FAULT")
                [] OTHER -> Handled(q.d)
  BY DEF SetHandleCount
<1>2. Kept(d, q.d)
  BY ResizeKept
<1>3. CASE r = Poisoned(PoisonArena(q.d))
  BY <1>2, PoisonArenaKept, <1>3, PoisonedKept DEF Kept
<1>4. CASE r = Result(q.d, "FAULT") \/ r = Handled(q.d)
  BY <1>2, <1>4 DEF Result, Handled
<1> QED
  BY <1>1, <1>3, <1>4
-----------------------------------------------------------------------------
(* The lease of the executable and the sessions.                           *)

(* The books depend on the memory and the batches besides the ledger. *)
LEMMA BooksSame ==
  ASSUME NEW d \in Domain, NEW e \in Domain, SameMemory(d, e),
         e.batches = d.batches
  PROVE  /\ Counts(e) = Counts(d) /\ LiveOf(e) = LiveOf(d)
         /\ TablesHeld(d) => TablesHeld(e)
<1> QED
  BY CountsSame DEF TablesHeld, Sees, EntryAt, JftIndices, LiveOf, SameMemory

(* What an operation on the first lease leaves alone *)
LeaseStep(d, e) ==
  /\ e \in Domain /\ e.sft = d.sft /\ e.batches = d.batches
  /\ e.sessions = d.sessions /\ SameMemory(d, e) /\ SameRuntime(d, e)
  /\ e.poison = d.poison /\ d.faults <= e.faults
  /\ \A k \in FileLeases \ {1} : e.leases[k] = d.leases[k]
  /\ Books(d) => Books(e)

PutLease(d, o, x) == [d EXCEPT !.open = o, !.leases[1] = x]

(* The first lease and the open files change together. *)
LEMMA LeaseSet ==
  ASSUME NEW d \in Domain, NEW o \in SUBSET Handles, NEW x \in FileLeaseSlot,
         NEW e, e = PutLease(d, o, x),
         Owned(d.sft, d.leases, d.open) => Owned(e.sft, e.leases, e.open)
  PROVE  LeaseStep(d, e) /\ e.faults = d.faults
<1>1. d.leases \in LeaseTable /\ 1 \in FileLeases /\ d.faults \in Nat
  BY Parts, FileLeaseAssumption, SftAssumption DEF FileLeases
<1>4. /\ e \in Domain /\ e.sft = d.sft /\ e.batches = d.batches
      /\ e.sessions = d.sessions /\ SameMemory(d, e) /\ SameRuntime(d, e)
      /\ e.poison = d.poison /\ e.faults = d.faults
      /\ e.leases = [d.leases EXCEPT ![1] = x] /\ e.open = o
  BY <1>1 DEF Domain, SameMemory, SameRuntime, PutLease, LeaseTable
<1>5. ASSUME Books(d)
      PROVE  Books(e)
  BY <1>4, <1>5, BooksSame DEF Books, Ledger
<1> QED
  BY <1>1, <1>4, <1>5 DEF LeaseStep, LeaseTable

(* Leases that read the same files keep the owners. *)
LEMMA OwnedLeases ==
  ASSUME NEW s, NEW l, NEW m, NEW o, Owned(s, l, o),
         Reading(m) = Reading(l),
         \A k \in Reading(l) : m[k].reader = l[k].reader
  PROVE  Owned(s, m, o)
BY DEF Owned

(* A failure alone *)
LEMMA FaultyLease ==
  ASSUME NEW d \in Domain, CanFail(d)
  PROVE  LeaseStep(d, Faulty(d)) /\ SameExec(d, Faulty(d)) /\ Faulty(d).faults # 0
<1>1. PICK e : e = Faulty(d)
  OBVIOUS
<1> QED
  BY <1>1, FaultyStep, FaultyKept, LedgerFiles, SftCounts
  DEF LeaseStep, SftStep, SameExec, SameFiles, Books

(* Nothing has changed. *)
LEMMA LeaseStays ==
  ASSUME NEW d \in Domain
  PROVE  LeaseStep(d, d) /\ SameExec(d, d)
BY Parts, SftAssumption DEF LeaseStep, SameMemory, SameRuntime, SameExec

(* dos_exec_file_lease_acquire: a reader that nobody else has *)
LEMMA AcquireIs ==
  ASSUME NEW d \in Domain, d.leases[1] = VacantLease,
         NEW r \in AcquireLease(d, 1)
  PROVE  /\ LeaseStep(d, r.d) /\ r.d.faults = d.faults
         /\ r.st \in {"OK", "OPEN_FAILED"}
         /\ r.st = "OK" => r.d.leases[1].state = "OPEN"
         /\ r.st # "OK" => r.d = d
<1>1. PICK h \in AdapterOpens(d) :
          r = IF h = NoHandle THEN Result(d, "OPEN_FAILED")
              ELSE Result([d EXCEPT !.open = @ \cup {h},
                             !.leases[1] = [state |-> "OPEN", reader |-> h]], "OK")
  BY DEF AcquireLease
<1>2. CASE h = NoHandle
  BY <1>1, <1>2, LeaseStays DEF Result
<1>3. CASE h # NoHandle
  <2>1. h \in Handles \ d.open /\ NoHandle \notin Handles
    BY <1>3 DEF AdapterOpens, BackendHandles, Handles, NoHandle
  <2>2. PICK x : x = [state |-> "OPEN", reader |-> h]
    OBVIOUS
  <2>3. x \in FileLeaseSlot /\ x.state = "OPEN" /\ x.reader = h
    BY <2>1, <2>2 DEF FileLeaseSlot
  <2>4. PICK e : e = PutLease(d, d.open \cup {h}, x)
    OBVIOUS
  <2>7. /\ e.sft = d.sft /\ e.leases = [d.leases EXCEPT ![1] = x]
        /\ e.open = d.open \cup {h}
    BY <2>4 DEF PutLease, Domain
  <2>8. d.leases \in [FileLeases -> FileLeaseSlot] /\ 1 \in FileLeases
    BY Parts, FileLeaseAssumption DEF FileLeases, LeaseTable
  <2>9. /\ 1 \notin Reading(d.leases) /\ Reading(e.leases) = Reading(d.leases) \cup {1}
        /\ \A k \in Reading(d.leases) : e.leases[k] = d.leases[k]
        /\ e.leases[1].reader = h
    BY <2>3, <2>7, <2>8 DEF Reading, Finishable, VacantLease
  <2>10. ASSUME Owned(d.sft, d.leases, d.open)
         PROVE  Owned(e.sft, e.leases, e.open)
    <3>1. PICK s, l, m, o : s = d.sft /\ l = d.leases /\ o = d.open /\ m = e.leases
      OBVIOUS
    <3>2. /\ h \notin o /\ 1 \notin Reading(l) /\ Reading(m) = Reading(l) \cup {1}
          /\ \A k \in Reading(l) : m[k].reader = l[k].reader
          /\ m[1].reader = h /\ Owned(s, l, o)
      BY <2>1, <2>9, <2>10, <3>1
    <3>3. Owned(s, m, o \cup {h})
      BY ONLY <3>2 DEF Owned
    <3> QED
      BY <2>7, <3>1, <3>3
  <2>11. LeaseStep(d, e) /\ e.faults = d.faults
    BY <2>1, Parts, <2>4, <2>3, <2>10, LeaseSet
  <2> QED
    BY <2>3, <1>1, <1>3, <2>2, <2>4, <2>7, <2>8, <2>11 DEF Result, PutLease
<1> QED
  BY <1>2, <1>3

(* dos_exec_file_lease_probe_device: the reader stays *)
LEMMA ProbeIs ==
  ASSUME NEW d \in Domain, d.leases[1].state = "OPEN", NEW e, e = ProbeLease(d, 1)
  PROVE  /\ LeaseStep(d, e) /\ e.faults = d.faults
         /\ e.leases[1].state = "PROBED"
<1>1. d.leases \in [FileLeases -> FileLeaseSlot] /\ 1 \in FileLeases
  BY Parts, FileLeaseAssumption DEF FileLeases, LeaseTable
<1>2. PICK x : x = [d.leases[1] EXCEPT !.state = "PROBED"]
  OBVIOUS
<1>4. e = PutLease(d, d.open, x)
  BY <1>1, <1>2 DEF ProbeLease, PutLease, Domain
<1>5. e.sft = d.sft /\ e.leases = [d.leases EXCEPT ![1] = x] /\ e.open = d.open
  BY <1>4 DEF PutLease, Domain
<1>8. PICK o \in SUBSET Handles : o = d.open
  BY Parts
<1> QED
  BY <1>1, <1>2, <1>5, <1>4, <1>8, OwnedLeases, LeaseSet
  DEF Reading, Finishable, FileLeaseSlot

(* finish_lease: a reader is closed or retained *)
LEMMA FinishIs ==
  ASSUME NEW d \in Domain, NEW r \in FinishLease(d, 1)
  PROVE  /\ LeaseStep(d, r.d) /\ r.st \in {"OK", "RETAINED"}
         /\ r.st = "OK" => /\ r.d.faults = d.faults
                           /\ r.d.leases[1].state \notin Finishable
                           /\ d.leases[1].state \in Finishable =>
                                r.d.leases[1].state = "CLOSED"
         /\ r.st = "RETAINED" => SameExec(d, r.d) /\ r.d.faults # 0
<1>1. CASE d.leases[1].state \notin Finishable
  BY <1>1, LeaseStays DEF FinishLease, Result
<1>2. CASE d.leases[1].state \in Finishable
  <2>2. CASE CanFail(d) /\ r = Result(Faulty(d), "RETAINED")
    BY <2>2, FaultyLease DEF Result
  <2>3. CASE r = Result([d EXCEPT !.open = @ \ {d.leases[1].reader},
                                  !.leases[1].state = "CLOSED",
                                  !.leases[1].reader = NoHandle], "OK")
    <3>1. d.leases \in [FileLeases -> FileLeaseSlot] /\ 1 \in FileLeases
      BY Parts, FileLeaseAssumption DEF FileLeases, LeaseTable
    <3>2. PICK x : x = [state |-> "CLOSED", reader |-> NoHandle]
      OBVIOUS
    <3>3. x \in FileLeaseSlot /\ x.state = "CLOSED"
      BY <3>2 DEF FileLeaseSlot
    <3>4. PICK h : h = d.leases[1].reader
      OBVIOUS
    <3>5. PICK o \in SUBSET Handles : o = d.open \ {h}
      BY Parts
    <3>6. PICK e : e = PutLease(d, o, x)
      OBVIOUS
    <3>7. r = Result(e, "OK")
      <4>1. PICK l : l = d.leases
        OBVIOUS
      <4>2. [l EXCEPT ![1].state = "CLOSED", ![1].reader = NoHandle] =
              [l EXCEPT ![1] = x]
        BY <3>1, <3>2, <4>1 DEF FileLeaseSlot
      <4> QED
        BY <2>3, <4>2, <3>4, <3>5, <4>1, <3>6, ZenonT(60) DEF Domain, PutLease
    <3>8. e.sft = d.sft /\ e.leases = [d.leases EXCEPT ![1] = x] /\ e.open = o
      BY <3>6 DEF PutLease, Domain
    <3>9. /\ 1 \in Reading(d.leases) /\ Reading(e.leases) = Reading(d.leases) \ {1}
          /\ \A k \in Reading(e.leases) : e.leases[k].reader = d.leases[k].reader
      BY <1>2, <3>1, <3>3, <3>8 DEF Reading, Finishable
    <3>10. ASSUME Owned(d.sft, d.leases, d.open)
           PROVE  Owned(e.sft, e.leases, e.open)
      <4>1. PICK s, l, m, q : s = d.sft /\ l = d.leases /\ q = d.open /\ m = e.leases
        OBVIOUS
      <4>2. /\ 1 \in Reading(l) /\ Reading(m) = Reading(l) \ {1} /\ l[1].reader = h
            /\ \A k \in Reading(m) : m[k].reader = l[k].reader
            /\ Owned(s, l, q)
        BY <3>4, <3>9, <3>10, <4>1
      <4>3. Owned(s, m, q \ {h})
        BY ONLY <4>2 DEF Owned
      <4> QED
        BY <3>5, <3>8, <4>1, <4>3
    <3> QED
      BY <3>3, <3>7, <3>6, <3>10, LeaseSet, <3>1, <3>8 DEF Result, Finishable
  <2> QED
    BY <1>2, <2>2, <2>3 DEF FinishLease, AdapterAnswers
<1> QED
  BY <1>1, <1>2

(* dos_exec_file_lease_retire, for a lease that reads nothing *)
LEMMA RetireIs ==
  ASSUME NEW d \in Domain, d.leases[1].state \notin Finishable,
         NEW e, e = RetireLease(d, 1)
  PROVE  LeaseStep(d, e) /\ e.faults = d.faults /\ e.leases[1] = VacantLease
<1>2. PICK x : x = VacantLease
  OBVIOUS
<1>3. x \in FileLeaseSlot /\ x.state \notin Finishable
  BY <1>2 DEF FileLeaseSlot, VacantLease, Finishable
<1>4. PICK o \in SUBSET Handles : o = d.open
  BY Parts
<1>5. e = PutLease(d, o, x)
  BY <1>2, <1>4 DEF RetireLease, PutLease, Domain
<1>6. e.sft = d.sft /\ e.leases = [d.leases EXCEPT ![1] = x] /\ e.open = d.open
  BY <1>4, <1>5 DEF PutLease, Domain
<1> QED
  BY Parts, FileLeaseAssumption, <1>2, <1>6, <1>3, <1>5, OwnedLeases, LeaseSet
  DEF Reading, FileLeases, LeaseTable

-----------------------------------------------------------------------------
(* What an operation on a session leaves alone *)
SessionStep(d, e, s) ==
  /\ e \in Domain /\ SameFiles(d, e) /\ e.batches = d.batches
  /\ e.leases = d.leases /\ SameMemory(d, e) /\ SameRuntime(d, e) /\ Later(d, e)
  /\ \A t \in Sessions \ {s} : e.sessions[t] = d.sessions[t]
  /\ Books(d) => Books(e)

(* Nothing has changed. *)
LEMMA SessionStays ==
  ASSUME NEW d \in Domain, NEW s
  PROVE  SessionStep(d, d, s)
BY Parts, SftAssumption DEF SessionStep, SameFiles, SameMemory, SameRuntime, Later

(* One follows another. *)
LEMMA SessionSteps ==
  ASSUME NEW d \in Domain, NEW e, NEW f, NEW s, SessionStep(d, e, s),
         SessionStep(e, f, s)
  PROVE  SessionStep(d, f, s)
<1> QED
  BY Parts, SftAssumption DEF SessionStep, SameFiles, SameMemory, SameRuntime, Later

(* A session has another state. *)
LEMMA SetSessionIs ==
  ASSUME NEW d \in Domain, NEW s \in Sessions, NEW st \in SessionState,
         NEW e, e = SetSession(d, s, st)
  PROVE  SessionStep(d, e, s) /\ e.sessions[s] = st /\ SameHealth(d, e)
<1>1. d.sessions \in [Sessions -> SessionState] /\ d.faults \in Nat
  BY Parts, SftAssumption DEF SessionTable
<1>2. PICK t \in SessionTable : t = [d.sessions EXCEPT ![s] = st]
  BY <1>1 DEF SessionTable
<1> QED
  BY <1>1, <1>2, BooksSame, BooksMoved
  DEF SessionStep, Later, SameHealth, Books, Domain, SameFiles, SameMemory, SameRuntime,
      SetSession

(* A failure *)
LEMMA FaultySession ==
  ASSUME NEW d \in Domain, CanFail(d), NEW s
  PROVE  SessionStep(d, Faulty(d), s) /\ Faulty(d).faults # 0
<1>1. PICK e : e = Faulty(d)
  OBVIOUS
<1> QED
  BY <1>1, FaultyLease, FaultyStep DEF LeaseStep, SessionStep, SameExec, Later

(* poison_slot *)
LEMMA PoisonSessionIs ==
  ASSUME NEW d \in Domain, NEW s \in Sessions, NEW e, e = PoisonSession(d, s)
  PROVE  SessionStep(d, e, s) /\ e.sessions[s] = "POISONED" /\ e.poison # {}
<1>1. PICK f : f = SetSession(d, s, "POISONED")
  OBVIOUS
<1>2. SessionStep(d, f, s) /\ f.sessions[s] = "POISONED"
  BY <1>1, SetSessionIs DEF SessionState
<1>3. PICK x \in Poisons : x = {"sessions"}
  BY DEF Poisons
<1>5. /\ f \in Domain /\ e \in Domain /\ e.poison = f.poison \cup x
      /\ e.faults = f.faults /\ SameFiles(f, e) /\ SameExec(f, e)
      /\ SameMemory(f, e) /\ SameRuntime(f, e)
  BY <1>2, <1>1, <1>3, WithPoison DEF SessionStep, PoisonSession
<1> QED
  BY <1>2, <1>3, <1>5, BooksSame, BooksMoved, Parts, SftAssumption, SessionSteps
  DEF SameExec, SessionStep, Later, Books

(* dos_exec_backend_session_stop *)
LEMMA StopIs ==
  ASSUME NEW d \in Domain, NEW s \in Sessions, NEW r \in StopSession(d, s)
  PROVE  /\ SessionStep(d, r.d, s) /\ r.st \in {"OK", "POISONED"}
         /\ r.st = "OK" => SameHealth(d, r.d)
         /\ r.st = "POISONED" => r.d.poison # {} /\ r.d.sessions[s] = "POISONED"
<1>2. CASE r = Result(SetSession(d, s, "STOPPED"), "OK")
  BY <1>2, SetSessionIs DEF Result, SessionState
<1>3. CASE CanFail(d) /\ r = Result(PoisonSession(Faulty(d), s), "POISONED")
  <2>1. PICK f : f = Faulty(d)
    OBVIOUS
  <2>2. SessionStep(d, f, s) /\ f \in Domain
    BY <1>3, <2>1, FaultySession DEF SessionStep
  <2>3. PICK e : e = PoisonSession(f, s)
    OBVIOUS
  <2> QED
    BY <1>3, <2>1, <2>3, <2>2, PoisonSessionIs, SessionSteps DEF Result
<1> QED
  BY <1>2, <1>3 DEF StopSession, ReleaseAnswers

(* stop_and_retire_backend_session *)
LEMMA StopAndRetireIs ==
  ASSUME NEW d \in Domain, NEW s \in Sessions, NEW r \in StopAndRetire(d, s)
  PROVE  /\ SessionStep(d, r.d, s)
         /\ r.st = "OK" => SameHealth(d, r.d) /\ r.d.sessions[s] = "VACANT"
         /\ r.st # "OK" => \/ r.d.poison # {}
                           \/ d.sessions[s] \notin {"DORMANT", "RUNNABLE", "STOPPED"}
<1>1. CASE SessionsPoisoned(d) \/ d.sessions[s] \notin {"DORMANT", "RUNNABLE", "STOPPED"}
  BY <1>1, SessionStays DEF StopAndRetire, Result, SessionsPoisoned
<1>2. CASE r = Result(RetireSession(d, s), "OK")
  BY <1>2, SetSessionIs DEF Result, SessionState, RetireSession
<1>3. CASE \E q \in StopSession(d, s) :
             r = IF q.st = "OK" THEN Result(RetireSession(q.d, s), "OK") ELSE q
  <2>1. PICK q \in StopSession(d, s) :
            r = IF q.st = "OK" THEN Result(RetireSession(q.d, s), "OK") ELSE q
    BY <1>3
  <2>2. /\ SessionStep(d, q.d, s) /\ q.st \in {"OK", "POISONED"}
        /\ q.st = "OK" => SameHealth(d, q.d)
        /\ q.st = "POISONED" => q.d.poison # {} /\ q.d.sessions[s] = "POISONED"
    BY StopIs
  <2>3. CASE q.st = "OK"
    <3>1. PICK f, e : f = q.d /\ e = SetSession(f, s, "VACANT")
      OBVIOUS
    <3>2. SessionStep(f, e, s) /\ e.sessions[s] = "VACANT" /\ SameHealth(f, e)
      <4>1. f \in Domain /\ "VACANT" \in SessionState
        BY <2>2, <3>1 DEF SessionState, SessionStep
      <4> QED
        BY <3>1, <4>1, SetSessionIs
    <3> QED
      BY <2>1, <2>3, <3>1, <3>2, <2>2, SessionSteps
      DEF Result, RetireSession, SameHealth
  <2> QED
    BY <2>1, <2>2, <2>3
<1> QED
  BY <1>1, <1>2, <1>3 DEF StopAndRetire

-----------------------------------------------------------------------------
(* The loops over entries: what is inherited, taken back and closed.       *)

(* One turn of each *)
Each(kind, x, k, e) ==
  IF kind = "undo" THEN UndoEntry(e, x[Len(x) + 1 - k])
  ELSE CloseEntry(e, EntryAt(x[1], x[2], ClosedEntries(x[1], x[2]) - k))
Turned(kind, x, k, R) ==
  UNION {{Result(u.d, IF u.st = "OK" THEN r.st ELSE "FAULT")
            : u \in Each(kind, x, k, r.d)} : r \in R}
Turn(kind, x, k, R) ==
  IF kind = "inherit" THEN InheritEntry(R, x[k - 1], k - 1)
  ELSE Turned(kind, x, k, R)

(* a lists what the turns lead to, from s on *)
Loop(kind, x, s, m, a) ==
  a = [k \in 0 .. m |-> IF k = 0 THEN s ELSE Turn(kind, x, k, a[k - 1])]

(* A loop of any length has its list. *)
LEMMA LoopExists ==
  ASSUME NEW kind, NEW x, NEW s, NEW m \in Nat
  PROVE  \E a : Loop(kind, x, s, m, a)
<1> DEFINE S == {k \in Nat : \E a : Loop(kind, x, s, k, a)}
<1>1. 0 \in S
  <2>1. Loop(kind, x, s, 0, [n \in 0 .. 0 |-> s])
    BY DEF Loop
  <2> QED
    BY <2>1
<1>2. ASSUME NEW k \in Nat, k \in S
      PROVE  k + 1 \in S
  <2>1. PICK a : Loop(kind, x, s, k, a)
    BY <1>2
  <2>2. PICK b : b = [n \in 0 .. k + 1 |->
                        IF n <= k THEN a[n] ELSE Turn(kind, x, k + 1, a[k])]
    OBVIOUS
  <2>3. \A n \in 0 .. k + 1 :
          b[n] = IF n = 0 THEN s ELSE Turn(kind, x, n, b[n - 1])
    <3> SUFFICES ASSUME NEW n \in 0 .. k + 1
                 PROVE  b[n] = IF n = 0 THEN s ELSE Turn(kind, x, n, b[n - 1])
      OBVIOUS
    <3>1. CASE n = 0
      BY <2>1, <2>2, <3>1 DEF Loop
    <3>2. CASE n # 0 /\ n <= k
      BY <2>2, <3>2, <2>1 DEF Loop
    <3>3. CASE n = k + 1
      BY <2>2, <3>3
    <3> QED
      BY <3>1, <3>2, <3>3
  <2> QED
    BY <2>2, <2>3 DEF Loop
<1>3. 0 .. m \subseteq S
  <2> HIDE DEF S
  <2> QED
    BY <1>1, <1>2, UpTo
<1> QED
  BY <1>3

UndoTurn(es, k, R) ==
  UNION {{Result(u.d, IF u.st = "OK" THEN r.st ELSE "FAULT")
            : u \in UndoEntry(r.d, es[Len(es) + 1 - k])} : r \in R}
CloseTurn(d, p, k, R) ==
  UNION {{Result(u.d, IF u.st = "OK" THEN r.st ELSE "FAULT")
            : u \in CloseEntry(r.d, EntryAt(d, p, ClosedEntries(d, p) - k))}
         : r \in R}

(* unwind_entries is the loop that takes back. *)
LEMMA UnwindIs ==
  ASSUME NEW d, NEW es, Len(es) \in Nat
  PROVE  \E a : /\ Loop("undo", es, {Result(d, "OK")}, Len(es), a)
                /\ Unwind(d, es) = a[Len(es)]
<1> DEFINE Is(b) ==
      b = [k \in 0 .. Len(es) |->
             IF k = 0 THEN {Result(d, "OK")}
             ELSE UndoTurn(es, k, b[k - 1])]
<1>1. \A k, R : Turn("undo", es, k, R) = UndoTurn(es, k, R)
  BY DEF Turn, Turned, Each, UndoTurn
<1>2. \A b : Is(b) <=> Loop("undo", es, {Result(d, "OK")}, Len(es), b)
  BY <1>1, Zenon DEF Loop
<1>4. PICK a : a = CHOOSE b : Is(b)
  OBVIOUS
<1> QED
  BY <1>2, LoopExists, <1>4 DEF Unwind, UndoTurn

(* dos_termination_close_handles is the loop that closes. *)
LEMMA CloseHandlesIs ==
  ASSUME NEW d, NEW p, ClosedEntries(d, p) \in Nat
  PROVE  \E a : /\ Loop("close", <<d, p>>, {Result(d, "OK")}, ClosedEntries(d, p), a)
                /\ CloseHandles(d, p) = a[ClosedEntries(d, p)]
<1> DEFINE Is(b) ==
      b = [k \in 0 .. ClosedEntries(d, p) |->
             IF k = 0 THEN {Result(d, "OK")}
             ELSE CloseTurn(d, p, k, b[k - 1])]
<1>1. \A k, R : Turn("close", <<d, p>>, k, R) = CloseTurn(d, p, k, R)
  BY DEF Turn, Turned, Each, CloseTurn
<1>2. \A b : Is(b) <=> Loop("close", <<d, p>>, {Result(d, "OK")}, ClosedEntries(d, p), b)
  BY <1>1, Zenon DEF Loop
<1>4. PICK a : a = CHOOSE b : Is(b)
  OBVIOUS
<1> QED
  BY <1>2, LoopExists, <1>4 DEF CloseHandles, CloseTurn

(* dos_sft_batch_prepare is the loop that inherits. *)
LEMMA PrepareIs ==
  ASSUME NEW d, NEW t
  PROVE  \E a : /\ Loop("inherit", t, [d |-> d, b |-> BatchIn("PREPARING"), st |-> "OK"],
                        JftMinimum, a)
                /\ PrepareBatch(d, 1, t) =
                     IF a[JftMinimum].st = "OK"
                       THEN {Result(SetBatch(a[JftMinimum].d, 1,
                                             [a[JftMinimum].b EXCEPT !.state = "PREPARED"]),
                                    "OK")}
                       ELSE FailPrepare(a[JftMinimum].d, 1, a[JftMinimum].b)
<1> DEFINE Is(b) ==
      b = [k \in 0 .. JftMinimum |->
             IF k = 0 THEN [d |-> d, b |-> BatchIn("PREPARING"), st |-> "OK"]
             ELSE InheritEntry(b[k - 1], t[k - 1], k - 1)]
<1>2. \A b : Is(b) <=> Loop("inherit", t, [d |-> d, b |-> BatchIn("PREPARING"), st |-> "OK"],
                           JftMinimum, b)
  BY Zenon DEF Loop, Turn
<1>4. PICK a : a = CHOOSE b : Is(b)
  OBVIOUS
<1>6. PrepareBatch(d, 1, t) =
        IF a[JftMinimum].st = "OK"
          THEN {Result(SetBatch(a[JftMinimum].d, 1,
                                [a[JftMinimum].b EXCEPT !.state = "PREPARED"]), "OK")}
          ELSE FailPrepare(a[JftMinimum].d, 1, a[JftMinimum].b)
  BY <1>4 DEF PrepareBatch
<1> QED
  BY <1>2, LoopExists, Numbers, <1>4, <1>6

(* The entries below m that name a description, on top of a count *)
Upto(f, m, n) == {i \in 0 .. m - 1 : f[i] = n}
Plus(a, f, m) == [n \in Sfns |-> a[n] + Cardinality(Upto(f, m, n))]

(* They are finitely many, and none at first. *)
LEMMA UptoFinite ==
  ASSUME NEW f, NEW m \in Nat, NEW n
  PROVE  /\ IsFiniteSet(Upto(f, m, n)) /\ Cardinality(Upto(f, m, n)) \in Nat
         /\ Cardinality(Upto(f, 0, n)) = 0
<1>1. IsFiniteSet(0 .. m - 1)
  BY FS_Interval
<1> QED
  BY <1>1, FS_Subset, FS_CardinalityType, FS_EmptySet DEF Upto

(* The count without any of them *)
LEMMA PlusTyped ==
  ASSUME NEW a \in [Sfns -> Nat], NEW f, NEW m \in Nat
  PROVE  Plus(a, f, m) \in [Sfns -> Nat] /\ Plus(a, f, 0) = a
<1> QED
  BY UptoFinite DEF Plus

(* The count with one less *)
LEMMA PlusLess ==
  ASSUME NEW a \in [Sfns -> Nat], NEW f, NEW m \in Nat
  PROVE  /\ f[m] \notin Sfns => Plus(a, f, m + 1) = Plus(a, f, m)
         /\ f[m] \in Sfns => /\ Plus(a, f, m + 1)[f[m]] # 0
                             /\ Reduced(Plus(a, f, m + 1), f[m]) = Plus(a, f, m)
<1>1. \A n : n # f[m] => Upto(f, m + 1, n) = Upto(f, m, n)
  BY DEF Upto
<1>2. CASE f[m] \notin Sfns
  BY <1>1, <1>2 DEF Plus
<1>3. CASE f[m] \in Sfns
  <2>1. PICK n \in Sfns : n = f[m]
    BY <1>3
  <2>2. Upto(f, m + 1, n) = Upto(f, m, n) \cup {m} /\ m \notin Upto(f, m, n)
    BY <2>1 DEF Upto
  <2>4. PICK i \in Nat, j \in Nat : i = a[n] /\ j = Cardinality(Upto(f, m, n))
    BY UptoFinite
  <2>7. PICK u, v : u = Plus(a, f, m + 1) /\ v = Plus(a, f, m)
    OBVIOUS
  <2>9. u[n] # 0 /\ u[n] - 1 = v[n] /\ \A k \in Sfns \ {n} : u[k] = v[k]
    BY <2>4, <2>2, UptoFinite, FS_AddElement, <1>1, <2>1, <2>7 DEF Plus
  <2> QED
    BY <2>1, <2>7, <2>9, PlusTyped DEF Reduced
<1> QED
  BY <1>2, <1>3

(* Each turn takes one entry from the ledger. *)
TurnsPay(kind, x, m, a, f) ==
  \A k \in 1 .. m, e \in Domain : \A u \in Each(kind, x, k, e) :
    u.st = "OK" /\ Ledger(e, Plus(a, f, m - k + 1)) => Ledger(u.d, Plus(a, f, m - k))

(* A loop that gives entries up keeps the ledger as long as nothing fails. *)
LEMMA LoopKept ==
  ASSUME NEW d \in Domain, NEW kind \in {"undo", "close"}, NEW x, NEW m \in Nat,
         NEW l, Loop(kind, x, {Result(d, "OK")}, m, l),
         NEW a \in [Sfns -> Nat], NEW f,
         \A k \in 1 .. m, e \in Domain : \A u \in Each(kind, x, k, e) :
           SftStep(e, u.d),
         NEW q \in l[m]
  PROVE  /\ SftStep(d, q.d) /\ q.st \in {"OK", "FAULT"}
         /\ TurnsPay(kind, x, m, a, f) /\ q.st = "OK" /\ Ledger(d, Plus(a, f, m)) =>
              Ledger(q.d, a)
<1> DEFINE Good(k, r) ==
      /\ SftStep(d, r.d) /\ r.st \in {"OK", "FAULT"}
      /\ TurnsPay(kind, x, m, a, f) /\ r.st = "OK" /\ Ledger(d, Plus(a, f, m)) =>
           Ledger(r.d, Plus(a, f, m - k))
    S == {k \in Nat : k <= m => \A r \in l[k] : Good(k, r)}
<1>2. \A k \in 1 .. m : l[k] = Turned(kind, x, k, l[k - 1])
  <2>1. ASSUME NEW k \in 1 .. m
        PROVE  l[k] = Turn(kind, x, k, l[k - 1])
    <3>1. k \in 0 .. m /\ k # 0
      OBVIOUS
    <3> QED
      BY <3>1 DEF Loop
  <2> QED
    BY <2>1 DEF Turn
<1>3. 0 \in S
  BY SftStays DEF Result, Loop
<1>4. ASSUME NEW k \in 0 .. m, k \in S, k < m
      PROVE  k + 1 \in S
  <2>1. k + 1 \in 1 .. m /\ (k + 1) - 1 = k /\ m - (k + 1) + 1 = m - k
    BY <1>4
  <2>2. ASSUME NEW r \in l[k + 1]
        PROVE  Good(k + 1, r)
    <3>0. PICK o \in l[k] : \E u \in Each(kind, x, k + 1, o.d) :
              r = Result(u.d, IF u.st = "OK" THEN o.st ELSE "FAULT")
      BY <1>2, <2>1, <2>2 DEF Turned
    <3>1. PICK u \in Each(kind, x, k + 1, o.d) :
              r = Result(u.d, IF u.st = "OK" THEN o.st ELSE "FAULT")
      BY <3>0
    <3> QED
      BY <1>4, <3>1, <2>1, SftSteps DEF TurnsPay, Result, SftStep
  <2> QED
    BY <2>2
<1>5. 0 .. m \subseteq S
  <2> HIDE DEF S
  <2> QED
    BY <1>3, <1>4, UpTo
<1> QED
  BY <1>5, PlusTyped

Held1 == [ref : Refs, acts : SUBSET {"DEVICE_OPEN", "REFERENCE_ACQUIRED"}]
RefsOf(es) == [i \in 0 .. Len(es) - 1 |-> es[i + 1].ref[1]]

(* unwind_entries gives back what a batch holds. *)
LEMMA UnwindKept ==
  ASSUME NEW d \in Domain, NEW es \in Seq(Held1), NEW a \in [Sfns -> Nat],
         NEW q \in Unwind(d, es)
  PROVE  /\ SftStep(d, q.d) /\ q.st \in {"OK", "FAULT"}
         /\ (\A i \in 1 .. Len(es) : es[i].acts = {"DEVICE_OPEN", "REFERENCE_ACQUIRED"})
              /\ q.st = "OK" /\ Ledger(d, Plus(a, RefsOf(es), Len(es))) => Ledger(q.d, a)
<1> DEFINE Full == \A i \in 1 .. Len(es) :
                   es[i].acts = {"DEVICE_OPEN", "REFERENCE_ACQUIRED"}
<1>1. PICK m \in Nat : m = Len(es)
  OBVIOUS
<1>2. PICK l : Loop("undo", es, {Result(d, "OK")}, m, l) /\ q \in l[m]
  BY <1>1, UnwindIs
<1>4. PICK f : f = RefsOf(es)
  OBVIOUS
<1>5. ASSUME NEW k \in 1 .. m, NEW e \in Domain, NEW u \in Each("undo", es, k, e)
      PROVE  /\ SftStep(e, u.d)
             /\ Full /\ u.st = "OK" /\ Ledger(e, Plus(a, f, m - k + 1)) =>
                  Ledger(u.d, Plus(a, f, m - k))
  <2>1. /\ m - k \in Nat /\ m - k \in 0 .. m - 1 /\ m + 1 - k \in 1 .. m
        /\ (m - k) + 1 = m + 1 - k
    OBVIOUS
  <2>2. PICK y \in Held1 : y = es[m + 1 - k]
    BY <1>1, <2>1
  <2>3. u \in UndoEntry(e, y)
    BY <1>1, <1>5, <2>2 DEF Each
  <2>4. PICK ref \in Refs, acts \in SUBSET {"DEVICE_OPEN", "REFERENCE_ACQUIRED"} :
          y = [ref |-> ref, acts |-> acts]
    BY DEF Held1
  <2>5. y.ref = ref /\ y.acts = acts
    BY <2>4
  <2>7. PICK n \in Sfns : n = ref[1]
    BY DEF Refs
  <2>8. f[m - k] = n
    BY <1>1, <1>4, <2>1, <2>2, <2>5, <2>7 DEF RefsOf
  <2>9. ASSUME Full, u.st = "OK", Ledger(e, Plus(a, f, m - k + 1))
        PROVE  Ledger(u.d, Plus(a, f, m - k))
    <3>1. acts = {"DEVICE_OPEN", "REFERENCE_ACQUIRED"}
      BY <1>1, <2>1, <2>2, <2>5, <2>9
    <3>2. PICK v : v = ReferenceRelease(e, ref)
      OBVIOUS
    <3>5. ref = Reference(e, n)
      BY <2>7, <3>2, <2>3, <2>5, <2>9, <3>1, ReleaseIs
      DEF Resolves, Reference, Refs, UndoEntry, Result
    <3>6. PICK c \in [Sfns -> Nat] : c = Plus(a, f, m - k + 1)
      BY <2>1, PlusTyped
    <3>7. c[n] # 0 /\ Reduced(c, n) = Plus(a, f, m - k)
      BY <2>1, <2>8, <3>6, PlusLess
    <3>8. Ledger(u.d, Reduced(c, n))
      BY <2>3, <2>5, <2>9, <3>1, <3>5, <3>6, <3>7, UndoLedger
    <3> QED
      BY <3>7, <3>8
  <2> QED
    BY <2>3, <2>4, UndoEntryTyped, <2>9
<1>6. Full => TurnsPay("undo", es, m, a, f)
  <2> HIDE DEF Full
  <2> QED
    BY <1>5 DEF TurnsPay
<1> QED
  BY <1>1, <1>4, <1>6, <1>2, <1>5, LoopKept

EntriesBelow(d, p) == [j \in 0 .. d.psps[p].length - 1 |-> EntryAt(d, p, j)]

(* dos_termination_close_handles gives up what a table names. *)
LEMMA CloseHandlesKept ==
  ASSUME NEW d \in Domain, NEW p \in Psps, NEW a \in [Sfns -> Nat],
         NEW q \in CloseHandles(d, p)
  PROVE  /\ SftStep(d, q.d) /\ q.st \in {"OK", "FAULT"}
         /\ q.st = "OK" /\ Ledger(d, Plus(a, EntriesBelow(d, p), d.psps[p].length)) =>
              Ledger(q.d, a)
<1>1. PICK m \in Nat : m = d.psps[p].length
  BY PspTyped, Numbers
<1>2. m = ClosedEntries(d, p)
  BY <1>1 DEF ClosedEntries
<1>3. PICK l : Loop("close", <<d, p>>, {Result(d, "OK")}, m, l) /\ q \in l[m]
  BY <1>2, CloseHandlesIs
<1>4. PICK f : f = EntriesBelow(d, p)
  OBVIOUS
<1>5. ASSUME NEW k \in 1 .. m, NEW e \in Domain, NEW u \in Each("close", <<d, p>>, k, e)
      PROVE  /\ SftStep(e, u.d)
             /\ u.st = "OK" /\ Ledger(e, Plus(a, f, m - k + 1)) =>
                  Ledger(u.d, Plus(a, f, m - k))
  <2>1. m - k \in Nat /\ m - k \in 0 .. m - 1
    OBVIOUS
  <2>2. PICK n : n = EntryAt(d, p, m - k)
    OBVIOUS
  <2>3. n \in Entry
    BY <1>1, <2>1, <2>2, EntryTyped DEF JftIndices
  <2>4. f[m - k] = n
    BY <1>1, <1>4, <2>1, <2>2 DEF EntriesBelow
  <2>6. u \in CloseEntry(e, n)
    BY <1>2, <1>5, <2>2 DEF Each
  <2>7. CASE n \notin Sfns
    BY <2>6, <2>7, <2>1, <2>4, PlusLess, SftStays DEF CloseEntry, Lookup, Result
  <2>8. CASE n \in Sfns /\ Lookup(e, n) # "OK"
    BY <2>6, <2>8, <2>1, PlusTyped, <2>4, PlusLess, SftStays
    DEF CloseEntry, Lookup, Result, Ledger, Exact, Usable
  <2>9. CASE n \in Sfns /\ Lookup(e, n) = "OK"
    BY <2>9, ReferenceIs, <2>6, ReleaseEntryTyped, <2>1, PlusTyped, <2>4, PlusLess,
       ReleaseLedger DEF CloseEntry
  <2> QED
    BY <2>7, <2>8, <2>9
<1>8. /\ SftStep(d, q.d) /\ q.st \in {"OK", "FAULT"}
      /\ TurnsPay("close", <<d, p>>, m, a, f) /\ q.st = "OK" /\ Ledger(d, Plus(a, f, m)) =>
           Ledger(q.d, a)
  BY <1>3, <1>5, LoopKept
<1> QED
  BY <1>1, <1>4, <1>5, <1>8 DEF TurnsPay

-----------------------------------------------------------------------------
(* The batch of a child.                                                   *)

(* The first batch changes. *)
LEMMA SetBatchIs ==
  ASSUME NEW d \in Domain, NEW b \in BatchRecord, NEW e, e = SetBatch(d, 1, b)
  PROVE  /\ e \in Domain /\ SameFiles(d, e) /\ SameMemory(d, e)
         /\ SameRuntime(d, e) /\ SameHealth(d, e)
         /\ e.leases = d.leases /\ e.sessions = d.sessions
         /\ e.batches[1] = b /\ \A k \in Batches \ {1} : e.batches[k] = d.batches[k]
<1>1. d.batches \in BatchTable /\ 1 \in Batches
  BY Parts, BatchAssumption DEF Batches
<1>2. PICK t \in BatchTable : t = [d.batches EXCEPT ![1] = b]
  BY <1>1 DEF BatchTable
<1> QED
  BY <1>2, <1>1
  DEF BatchTable, Domain, SameFiles, SameMemory, SameRuntime, SameHealth, SetBatch

(* A batch of a domain *)
LEMMA BatchTyped ==
  ASSUME NEW d \in Domain
  PROVE  /\ 1 \in Batches /\ d.batches[1] \in BatchRecord
         /\ d.batches[1] \in BatchSlot /\ Len(d.batches[1].entries) <= JftMinimum
         /\ d.batches[1].entries \in Seq(Held1)
         /\ d.batches[1].child \in [0 .. JftMinimum - 1 -> Entry]
<1>1. 1 \in Batches /\ d.batches[1] \in BatchRecord
  BY Parts, BatchAssumption DEF Batches, BatchTable
<1> QED
  BY <1>1 DEF BatchRecord, BatchSlot, Held1, Refs

(* The entries of a batch are finitely many. *)
LEMMA EntriesFinite ==
  ASSUME NEW b, Len(b.entries) \in Nat, NEW n
  PROVE  /\ IsFiniteSet(EntriesOf(b, n)) /\ Cardinality(EntriesOf(b, n)) \in Nat
         /\ IsFiniteSet(ChildOf(b, n)) /\ Cardinality(ChildOf(b, n)) \in Nat
<1>1. IsFiniteSet(1 .. Len(b.entries)) /\ IsFiniteSet(0 .. JftMinimum - 1)
  <2>1. JftMinimum - 1 \in Int /\ Len(b.entries) \in Int /\ 0 \in Int /\ 1 \in Int
    BY Numbers
  <2> QED
    BY <2>1, FS_Interval
<1> QED
  BY <1>1, FS_Subset, FS_CardinalityType DEF EntriesOf, ChildOf

(* A column of pairs has as many elements as its second components. *)
LEMMA Column ==
  ASSUME NEW x, NEW S, IsFiniteSet(S)
  PROVE  /\ IsFiniteSet({x} \X S)
         /\ Cardinality({x} \X S) = Cardinality(S)
<1>1. IsFiniteSet({x}) /\ Cardinality({x}) = 1
  BY FS_Singleton
<1> QED
  BY <1>1, FS_CardinalityType, FS_Product

(* What is held, when only the first batch is in use *)
LEMMA HeldIs ==
  ASSUME NEW d \in Domain, \A k \in Batches \ {1} : d.batches[k].state = "FREE",
         NEW n
  PROVE  Held(d, n) = IF d.batches[1].state = "PREPARED"
                        THEN Cardinality(EntriesOf(d.batches[1], n)) ELSE 0
<1>1. /\ 1 \in Batches /\ Len(d.batches[1].entries) \in Nat
      /\ Len(d.batches[1].entries) <= JftMinimum
      /\ d.batches[1].entries \in Seq(Held1) /\ JftMinimum \in Nat
  BY BatchTyped, Numbers
<1>2. PICK b : b = d.batches[1]
  OBVIOUS
<1>3. DOMAIN b.entries = 1 .. Len(b.entries)
  BY <1>1, <1>2
<1>4. CASE b.state = "PREPARED"
  <2>1. HeldFor(d, n) = {1} \X EntriesOf(b, n)
    BY <1>1, <1>2, <1>3, <1>4 DEF EntriesOf, HeldFor
  <2>2. Cardinality(HeldFor(d, n)) = Cardinality(EntriesOf(b, n))
    BY <1>1, <1>2, <2>1, EntriesFinite, Column
  <2> QED
    BY <1>2, <1>4, <2>2, HeldFinite
<1>5. CASE b.state # "PREPARED"
  BY <1>2, <1>5, HeldFinite, FS_EmptySet DEF HeldFor
<1> QED
  BY <1>2, <1>4, <1>5

(* registry_device_open and registry_reference_acquire *)
LEMMA AcquiredIs ==
  ASSUME NEW d \in Domain, NEW n \in Sfns, NEW ref \in Refs, ref = Reference(d, n),
         NEW i \in Nat, NEW k \in Nat, i = d.sft[n].references,
         k = d.sft[n].device_opens
  PROVE  /\ DeviceOpen(d, ref) = PutSlot(d, n, WithCounters(d.sft[n], i, k + 1))
         /\ Acquire(DeviceOpen(d, ref), ref) =
              PutSlot(d, n, WithCounters(d.sft[n], i + 1, k + 1))
         /\ SftStep(d, DeviceOpen(d, ref))
         /\ SftStep(d, Acquire(DeviceOpen(d, ref), ref))
<1>1. ref[1] = n
  BY DEF Reference
<1>2. d.sft[n] \in SftSlot /\ d.sft \in SftTable
  BY SlotTyped, Parts
<1>3. DeviceOpen(d, ref) = PutSlot(d, n, WithCounters(d.sft[n], i, k + 1))
  BY <1>1, <1>2 DEF DeviceOpen, PutSlot, WithCounters, Domain, SftTable, SftSlot
<1>4. Acquire(DeviceOpen(d, ref), ref) = PutSlot(d, n, WithCounters(d.sft[n], i + 1, k + 1))
  <2>1. PICK e, x, y, z :
          /\ e = DeviceOpen(d, ref) /\ x = d.sft[n]
          /\ y = WithCounters(x, i, k + 1) /\ z = WithCounters(x, i + 1, k + 1)
    OBVIOUS
  <2>2. e = [d EXCEPT !.sft = [d.sft EXCEPT ![n] = y]]
    BY <1>3, <2>1 DEF PutSlot
  <2>3. e.sft = [d.sft EXCEPT ![n] = y] /\ e.sft[n] = y
    BY <1>2, <2>2 DEF Domain, SftTable
  <2>5. Acquire(e, ref) = [e EXCEPT !.sft = [e.sft EXCEPT ![n] = z]]
    BY <1>1, <2>3, <1>2, <2>1 DEF Acquire, WithCounters, SftSlot
  <2>7. Acquire(e, ref) = [d EXCEPT !.sft = [d.sft EXCEPT ![n] = z]]
    BY <2>2, <2>5, <1>2, <2>3 DEF Domain, SftTable
  <2> QED
    BY <2>1, <2>7 DEF PutSlot
<1> QED
  BY <1>3, <1>4, CountersSet

PrepRecord == [d : Domain, b : BatchSlot, st : {"OK", "FAULT"}]

Acts == {"DEVICE_OPEN", "REFERENCE_ACQUIRED"}
Grow(b, y) == [b EXCEPT !.entries = Append(b.entries, y)]
Take(b, y, j, n) == [b EXCEPT !.entries = Append(b.entries, y), !.child[j] = n]

(* A batch with one entry more *)
LEMMA GrowIs ==
  ASSUME NEW b \in BatchSlot, NEW y \in Held1, NEW j \in 0 .. JftMinimum - 1,
         NEW n \in Entry, NEW g \in {Grow(b, y), Take(b, y, j, n)}
  PROVE  /\ g \in BatchSlot /\ g.state = b.state
         /\ g.entries = Append(b.entries, y)
         /\ Len(g.entries) = Len(b.entries) + 1 /\ Len(b.entries) \in Nat
         /\ g = Take(b, y, j, n) =>
              /\ g.child[j] = n
              /\ \A i \in 0 .. JftMinimum - 1 : i # j => g.child[i] = b.child[i]
<1>1. BatchSlot =
        [state : {"FREE", "PREPARING", "PREPARED", "COMMITTED", "ABORTED", "POISONED"},
         entries : Seq(Held1), child : [0 .. JftMinimum - 1 -> Entry]]
  BY DEF BatchSlot, Held1, Refs
<1>2. PICK es \in Seq(Held1), c \in [0 .. JftMinimum - 1 -> Entry] :
          es = b.entries /\ c = b.child
  BY <1>1
<1>3. PICK fs : fs = Append(es, y)
  OBVIOUS
<1>4. fs \in Seq(Held1) /\ Len(fs) = Len(es) + 1 /\ Len(es) \in Nat
  BY <1>3
<1>5. PICK k : k = [c EXCEPT ![j] = n]
  OBVIOUS
<1>9. CASE g = Grow(b, y) /\ g # Take(b, y, j, n)
  BY <1>1, <1>4, <1>2, <1>3, <1>9 DEF Grow
<1>10. CASE g = Take(b, y, j, n)
  BY <1>1, <1>4, <1>2, <1>5, <1>3, <1>10 DEF Take
<1> QED
  BY <1>9, <1>10

Opened(p, n) == DeviceOpen(p.d, Reference(p.d, n))
Acquired(p, n) == Acquire(Opened(p, n), Reference(p.d, n))
Took(p, n, j) ==
  [p EXCEPT !.d = Acquired(p, n),
            !.b = Take(p.b, [ref |-> Reference(p.d, n), acts |-> Acts], j, n)]

(* What one entry of the parent leads to *)
LEMMA InheritCases ==
  ASSUME NEW p \in PrepRecord, NEW n \in Entry, NEW j \in 0 .. JftMinimum - 1,
         NEW q, q = InheritEntry(p, n, j)
  PROVE  \/ q = p
         \/ n \in Sfns /\ Lookup(p.d, n) = "FAULT" /\ q = [p EXCEPT !.st = "FAULT"]
         \/ /\ n \in Sfns /\ Lookup(p.d, n) = "OK"
            /\ ~CanDeviceOpen(p.d, Reference(p.d, n))
            /\ q = [p EXCEPT !.st = "FAULT",
                       !.b = Grow(p.b, [ref |-> Reference(p.d, n), acts |-> {}])]
         \/ /\ n \in Sfns /\ Lookup(p.d, n) = "OK"
            /\ ~CanAcquire(Opened(p, n), Reference(p.d, n))
            /\ q = [p EXCEPT !.st = "FAULT", !.d = Opened(p, n),
                       !.b = Grow(p.b, [ref |-> Reference(p.d, n),
                                        acts |-> {"DEVICE_OPEN"}])]
         \/ n \in Sfns /\ p.st = "OK" /\ Lookup(p.d, n) = "OK" /\ q = Took(p, n, j)
<1>1. p = [d |-> p.d, b |-> p.b, st |-> p.st]
  BY DEF PrepRecord
<1>2. PICK b, ref : b = p.b /\ ref = Reference(p.d, n)
  OBVIOUS
<1>3. \A x, y : [p EXCEPT !.st = x, !.b.entries = y] =
                [p EXCEPT !.st = x, !.b = [b EXCEPT !.entries = y]]
  BY <1>1, <1>2
<1>4. \A x, y, z : [p EXCEPT !.st = x, !.d = z, !.b.entries = y] =
                   [p EXCEPT !.st = x, !.d = z, !.b = [b EXCEPT !.entries = y]]
  BY <1>1, <1>2
<1>5. \A y, z : [p EXCEPT !.d = z, !.b.entries = y, !.b.child[j] = n] =
                [p EXCEPT !.d = z, !.b = [b EXCEPT !.entries = y, !.child[j] = n]]
  <2>2. SUFFICES ASSUME NEW y, NEW z
                 PROVE  [p EXCEPT !.d = z, !.b.entries = y, !.b.child[j] = n] =
                        [p EXCEPT !.d = z, !.b = [b EXCEPT !.entries = y, !.child[j] = n]]
    OBVIOUS
  <2>3. PICK f : f = [b EXCEPT !.entries = y]
    OBVIOUS
  <2>4. f.child = b.child
    BY <1>2, <2>3 DEF PrepRecord, BatchSlot
  <2>7. [[p EXCEPT !.d = z, !.b = f] EXCEPT !.b.child[j] = n] =
          [p EXCEPT !.d = z, !.b = [f EXCEPT !.child[j] = n]]
    BY <1>1
  <2> QED
    BY <2>3, <1>1, <1>2, <2>7
<1>6. n \notin Sfns => Lookup(p.d, n) = "INVALID_SFT"
  BY DEF Lookup
<1>8. CASE p.st # "OK" \/ Lookup(p.d, n) = "INVALID_SFT"
  BY <1>8 DEF InheritEntry
<1>9. CASE p.st = "OK" /\ Lookup(p.d, n) = "FAULT"
  BY <1>6, <1>9 DEF InheritEntry
<1>10. CASE p.st = "OK" /\ Lookup(p.d, n) = "OK"
  <2>1. n \in Sfns
    BY <1>6, <1>10
  <2>2. CASE ~Inheritable(p.d, n)
    BY <1>10, <2>2 DEF InheritEntry
  <2>3. CASE Inheritable(p.d, n) /\ ~CanDeviceOpen(p.d, ref)
    BY <1>2, <1>10, <2>3, <1>3, <2>1 DEF InheritEntry, Grow
  <2>4. CASE /\ Inheritable(p.d, n) /\ CanDeviceOpen(p.d, ref)
             /\ ~CanAcquire(DeviceOpen(p.d, ref), ref)
    BY <1>2, <1>10, <2>4, <1>4, <2>1 DEF InheritEntry, Grow, Opened
  <2>5. CASE /\ Inheritable(p.d, n) /\ CanDeviceOpen(p.d, ref)
             /\ CanAcquire(DeviceOpen(p.d, ref), ref)
    <3>1. q = [p EXCEPT !.d = Acquire(DeviceOpen(p.d, ref), ref),
                        !.b.entries = Append(b.entries, [ref |-> ref, acts |-> Acts]),
                        !.b.child[j] = n]
      BY <1>2, <1>10, <2>5 DEF InheritEntry, Acts
    <3> QED
      <4>1. q = [p EXCEPT !.d = Acquire(DeviceOpen(p.d, ref), ref),
                          !.b = [b EXCEPT !.entries = Append(b.entries,
                                                       [ref |-> ref, acts |-> Acts]),
                                          !.child[j] = n]]
        BY <1>5, <3>1
      <4> QED
        BY <1>10, <2>1, <1>2, <4>1 DEF Take, Took, Opened, Acquired
  <2> QED
    BY <2>2, <2>3, <2>4, <2>5
<1> QED
  BY <1>8, <1>9, <1>10 DEF PrepRecord, Lookup

(* One entry is inherited: types *)
LEMMA InheritTyped ==
  ASSUME NEW p \in PrepRecord, NEW n \in Entry, NEW j \in 0 .. JftMinimum - 1,
         NEW q, q = InheritEntry(p, n, j)
  PROVE  /\ q \in PrepRecord /\ SftStep(p.d, q.d) /\ q.b.state = p.b.state
         /\ Len(q.b.entries) <= Len(p.b.entries) + 1
<1>1. p.d \in Domain /\ p.b \in BatchSlot /\ p.st \in {"OK", "FAULT"}
  BY DEF PrepRecord
<1>2. Len(p.b.entries) \in Nat
  BY <1>1 DEF BatchSlot
<1>4. CASE q = p
  BY <1>1, <1>2, <1>4, SftStays
<1>5. CASE n \in Sfns
  <2>1. PICK ref \in Refs : ref = Reference(p.d, n)
    BY <1>1, <1>5, ReferenceIs
  <2>2. ASSUME NEW A \in SUBSET Acts
        PROVE  [ref |-> ref, acts |-> A] \in Held1
    BY DEF Held1, Acts
  <2>3. PICK i \in Nat, k \in Nat : i = p.d.sft[n].references /\ k = p.d.sft[n].device_opens
    BY <1>1, <1>5, CountersTyped
  <2>4. SftStep(p.d, Opened(p, n)) /\ SftStep(p.d, Acquired(p, n))
    BY <1>1, <1>5, <2>1, <2>3, AcquiredIs DEF Opened, Acquired
  <2>5. Opened(p, n) \in Domain /\ Acquired(p, n) \in Domain
    BY <2>4 DEF SftStep
  <2>6. CASE q = [p EXCEPT !.st = "FAULT"]
    BY <2>6, <1>1, <1>2, SftStays DEF PrepRecord
  <2>7. CASE q = [p EXCEPT !.st = "FAULT",
                     !.b = Grow(p.b, [ref |-> Reference(p.d, n), acts |-> {}])]
    <3>1. PICK y \in Held1 : y = [ref |-> ref, acts |-> {}]
      BY <2>2
    <3>2. PICK b : b = Grow(p.b, y)
      OBVIOUS
    <3>3. /\ b \in BatchSlot /\ b.state = p.b.state
          /\ Len(b.entries) = Len(p.b.entries) + 1
      BY <1>1, <3>2, GrowIs
    <3>4. q = [p EXCEPT !.st = "FAULT", !.b = b]
      BY <2>1, <2>7, <3>1, <3>2
    <3> QED
      <4>1. q \in PrepRecord /\ q.d = p.d /\ q.b = b
        BY <3>3, <3>4 DEF PrepRecord
      <4> QED
        BY <1>1, <1>2, <3>3, <4>1, SftStays
  <2>8. CASE q = [p EXCEPT !.st = "FAULT", !.d = Opened(p, n),
                     !.b = Grow(p.b, [ref |-> Reference(p.d, n),
                                      acts |-> {"DEVICE_OPEN"}])]
    <3>1. PICK y \in Held1 : y = [ref |-> ref, acts |-> {"DEVICE_OPEN"}]
      BY <2>2 DEF Acts
    <3>2. PICK b : b = Grow(p.b, y)
      OBVIOUS
    <3>3. /\ b \in BatchSlot /\ b.state = p.b.state
          /\ Len(b.entries) = Len(p.b.entries) + 1
      BY <1>1, <3>2, GrowIs
    <3>4. PICK x \in Domain : x = Opened(p, n)
      BY <2>5
    <3>6. q \in PrepRecord /\ q.d = x /\ q.b = b
      BY <3>3, <2>1, <2>8, <3>1, <3>2, <3>4 DEF PrepRecord
    <3> QED
      BY <1>2, <2>4, <3>3, <3>4, <3>6
  <2>9. CASE q = Took(p, n, j)
    <3>1. PICK y \in Held1 : y = [ref |-> ref, acts |-> Acts]
      BY <2>2
    <3>2. PICK b : b = Take(p.b, y, j, n)
      OBVIOUS
    <3>3. /\ b \in BatchSlot /\ b.state = p.b.state
          /\ Len(b.entries) = Len(p.b.entries) + 1
      BY <1>1, <3>2, GrowIs
    <3>4. PICK x \in Domain : x = Acquired(p, n)
      BY <2>5
    <3>6. q \in PrepRecord /\ q.d = x /\ q.b = b
      BY <3>3, <2>1, <2>9, <3>1, <3>2, <3>4 DEF PrepRecord, Took
    <3> QED
      BY <1>2, <2>4, <3>3, <3>4, <3>6
  <2> QED
    BY <1>4, <2>6, <2>7, <2>8, <2>9, InheritCases
<1> QED
  BY <1>4, <1>5, InheritCases

(* ... and with books in order it succeeds or changes nothing. *)
LEMMA InheritSound ==
  ASSUME NEW p \in PrepRecord, NEW n \in Entry, NEW j \in 0 .. JftMinimum - 1,
         NEW q, q = InheritEntry(p, n, j), NEW c \in [Sfns -> Nat], Ledger(p.d, c)
  PROVE  \/ q = p
         \/ /\ n \in Sfns /\ q = Took(p, n, j) /\ q.d = Acquired(p, n)
            /\ Ledger(q.d, [c EXCEPT ![n] = c[n] + 1])
<1>1. p.d \in Domain
  BY DEF PrepRecord
<1>2. SUFFICES ASSUME q # p, n \in Sfns
               PROVE  /\ q = Took(p, n, j) /\ q.d = Acquired(p, n)
                      /\ Ledger(q.d, [c EXCEPT ![n] = c[n] + 1])
  BY InheritCases
<1>4. Lookup(p.d, n) = "OK"
  BY <1>2 DEF Lookup, InheritEntry, Ledger, Exact
<1>5. Usable(p.d, n)
  BY <1>2, <1>4 DEF Lookup
<1>6. /\ c[n] # 0 /\ p.d.sft[n].state = "PRESENT"
      /\ p.d.sft[n].references = c[n] /\ p.d.sft[n].device_opens = c[n]
  BY <1>2, <1>5 DEF Usable, Ledger, Exact
<1>7. PICK ref \in Refs : ref = Reference(p.d, n)
  BY <1>1, <1>2, ReferenceIs
<1>8. ref[1] = n /\ Resolves(p.d, ref) /\ ref[2] = p.d.sft[n].generation
  BY <1>1, <1>2, <1>6, <1>7, ReferenceIs DEF Reference
<1>9. CanDeviceOpen(p.d, ref)
  BY <1>5, <1>6, <1>8 DEF CanDeviceOpen
<1>10. PICK i \in Nat : i = c[n]
  BY <1>2
<1>11. p.d.sft \in SftTable /\ p.d.sft[n] \in SftSlot
  BY <1>1, <1>2, Parts, SlotTyped
<1>12. PICK y, z : /\ y = WithCounters(p.d.sft[n], i, i + 1)
                   /\ z = WithCounters(p.d.sft[n], i + 1, i + 1)
  OBVIOUS
<1>13. Opened(p, n) = PutSlot(p.d, n, y) /\ Acquired(p, n) = PutSlot(p.d, n, z)
  BY <1>1, <1>2, <1>6, <1>7, <1>10, <1>12, AcquiredIs DEF Opened, Acquired
<1>14. /\ y \in SftSlot /\ y.references = i /\ y.device_opens = i + 1
       /\ y.state = "PRESENT" /\ y.generation = p.d.sft[n].generation
  <2>1. i + 1 \in Nat
    OBVIOUS
  <2> QED
    BY <1>6, <1>11, <1>12, <2>1, CountersOf, ZenonT(60)
<1>15. Opened(p, n).sft[n] = y
  <2>1. Opened(p, n).sft = [p.d.sft EXCEPT ![n] = y]
    BY <1>1, <1>2, <1>13, <1>14, SlotSet
  <2> QED
    BY <1>2, <1>11, <2>1 DEF SftTable
<1>16. CanAcquire(Opened(p, n), ref)
  BY <1>6, <1>8, <1>10, <1>14, <1>15 DEF CanAcquire, Resolves, Usable
<1>17. q = Took(p, n, j)
  BY <1>2, <1>4, <1>7, <1>9, <1>16, InheritCases
<1>18. q.d = Acquired(p, n)
  BY <1>17 DEF Took, PrepRecord
<1>19. z \in SftSlot
  <2>1. i + 1 \in Nat
    OBVIOUS
  <2> QED
    BY <1>11, <1>12, <2>1, CountersOf
<1>20. /\ SftStep(p.d, q.d) /\ q.d.sft = [p.d.sft EXCEPT ![n] = z]
       /\ q.d.open = p.d.open
  BY <1>1, <1>2, <1>13, <1>18, <1>19, SlotSet
<1>21. Ledger(q.d, [c EXCEPT ![n] = i + 1])
  <2>1. PICK k \in Nat \ {0} : k = i + 1
    OBVIOUS
  <2> QED
    BY <1>1, <1>2, <1>6, <1>12, <1>20, <2>1, Counted
<1> QED
  BY <1>10, <1>17, <1>18, <1>21

PlusHeld(c, b) == [n \in Sfns |-> c[n] + Cardinality(EntriesOf(b, n))]

(* A batch that takes one entry more for the child *)
LEMMA TookHeld ==
  ASSUME NEW b \in BatchSlot, NEW y \in Held1, NEW j \in 0 .. JftMinimum - 1,
         NEW m \in Sfns, y.ref[1] = m, y.acts = Acts, BatchHeld(b),
         b.child[j] = UNUSED, NEW g, g = Take(b, y, j, m), NEW c \in [Sfns -> Nat]
  PROVE  /\ BatchHeld(g) /\ PlusHeld(c, b) \in [Sfns -> Nat]
         /\ PlusHeld(c, g) = [PlusHeld(c, b) EXCEPT ![m] = PlusHeld(c, b)[m] + 1]
<1>1. PICK k \in Nat : k = Len(b.entries)
  BY DEF BatchSlot
<1>2. /\ g \in BatchSlot /\ g.entries = Append(b.entries, y)
      /\ Len(g.entries) = k + 1 /\ g.child[j] = m
      /\ \A i \in 0 .. JftMinimum - 1 : i # j => g.child[i] = b.child[i]
  BY <1>1, GrowIs, Numbers DEF Entry
<1>4. g.entries[k + 1] = y /\ \A i \in 1 .. k : g.entries[i] = b.entries[i]
  BY <1>1, <1>2 DEF BatchSlot, Held1, Refs
<1>5. FullyHeld(g)
  <2>1. \A i \in 1 .. k : b.entries[i].acts = Acts
    BY <1>1 DEF BatchHeld, FullyHeld, Acts
  <2>2. \A i \in 1 .. k + 1 : g.entries[i].acts = Acts
    <3> SUFFICES ASSUME NEW i \in 1 .. k + 1
                 PROVE  g.entries[i].acts = Acts
      OBVIOUS
    <3>1. CASE i = k + 1
      BY <1>4, <3>1
    <3>2. CASE i \in 1 .. k
      BY <1>4, <2>1, <3>2
    <3> QED
      BY <3>1, <3>2
  <2> QED
    BY <1>2, <2>2 DEF FullyHeld, Acts
<1>6. ASSUME NEW n
      PROVE  EntriesOf(g, n) = IF n = m THEN EntriesOf(b, n) \cup {k + 1} ELSE EntriesOf(b, n)
  BY <1>1, <1>2, <1>4 DEF EntriesOf
<1>7. k + 1 \notin EntriesOf(b, m)
  BY <1>1 DEF EntriesOf
<1>8. ASSUME NEW n \in Sfns
      PROVE  ChildOf(g, n) = IF n = m THEN ChildOf(b, n) \cup {j} ELSE ChildOf(b, n)
  BY Numbers, <1>2 DEF ChildOf
<1>9. j \notin ChildOf(b, m)
  BY Numbers DEF ChildOf
<1>10. ASSUME NEW n \in Sfns
       PROVE  /\ Cardinality(EntriesOf(b, n)) \in Nat
              /\ Cardinality(EntriesOf(g, n)) =
                   IF n = m THEN Cardinality(EntriesOf(b, n)) + 1
                   ELSE Cardinality(EntriesOf(b, n))
              /\ Cardinality(ChildOf(g, n)) =
                   IF n = m THEN Cardinality(ChildOf(b, n)) + 1
                   ELSE Cardinality(ChildOf(b, n))
  BY <1>1, EntriesFinite, FS_AddElement, <1>6, <1>7, <1>8, <1>9
<1>12. PICK u, v : u = PlusHeld(c, b) /\ v = PlusHeld(c, g)
  OBVIOUS
<1>14. \A n \in Sfns : v[n] = IF n = m THEN u[n] + 1 ELSE u[n]
  <2> SUFFICES ASSUME NEW n \in Sfns
               PROVE  v[n] = IF n = m THEN u[n] + 1 ELSE u[n]
    OBVIOUS
  <2>1. PICK a \in Nat, i \in Nat : a = c[n] /\ i = Cardinality(EntriesOf(b, n))
    BY <1>10
  <2> QED
    BY <1>10, <2>1, <1>12 DEF PlusHeld
<1> QED
  BY <1>5, <1>10, <1>12, <1>14 DEF PlusHeld, BatchHeld

(* A batch being prepared, k entries of the parent on *)
Preparing(d, c, k, p) ==
  /\ p \in PrepRecord /\ SftStep(d, p.d) /\ p.b.state = "PREPARING"
  /\ Len(p.b.entries) <= k
  /\ Ledger(d, c) => /\ p.st = "OK" /\ Ledger(p.d, PlusHeld(c, p.b)) /\ BatchHeld(p.b)
                     /\ \A i \in 0 .. JftMinimum - 1 : i >= k => p.b.child[i] = UNUSED

(* One entry more *)
LEMMA PreparingStep ==
  ASSUME NEW d \in Domain, NEW c \in [Sfns -> Nat], NEW k \in 0 .. JftMinimum - 1,
         NEW p, Preparing(d, c, k, p), NEW n \in Entry, NEW q,
         q = InheritEntry(p, n, k)
  PROVE  Preparing(d, c, k + 1, q)
<1>1. p \in PrepRecord /\ p.d \in Domain /\ p.b \in BatchSlot /\ SftStep(d, p.d)
  BY DEF Preparing, PrepRecord
<1>2. /\ q \in PrepRecord /\ SftStep(p.d, q.d) /\ q.b.state = "PREPARING"
      /\ Len(q.b.entries) <= Len(p.b.entries) + 1 /\ q.b \in BatchSlot
  BY <1>1, InheritTyped DEF Preparing, PrepRecord
<1>3. Len(p.b.entries) \in Nat /\ Len(q.b.entries) \in Nat
  BY <1>1, <1>2 DEF BatchSlot
<1>6. ASSUME Ledger(d, c)
      PROVE  /\ q.st = "OK" /\ Ledger(q.d, PlusHeld(c, q.b)) /\ BatchHeld(q.b)
             /\ \A i \in 0 .. JftMinimum - 1 : i >= k + 1 => q.b.child[i] = UNUSED
  <2>1. /\ p.st = "OK" /\ Ledger(p.d, PlusHeld(c, p.b)) /\ BatchHeld(p.b)
        /\ \A i \in 0 .. JftMinimum - 1 : i >= k => p.b.child[i] = UNUSED
    BY <1>6 DEF Preparing
  <2>2. CASE q = p
    BY <2>1, <2>2
  <2>3. CASE q # p
    <3>1. PICK a : a = PlusHeld(c, p.b)
      OBVIOUS
    <3>3. n \in Sfns /\ q = Took(p, n, k) /\ Ledger(q.d, [a EXCEPT ![n] = a[n] + 1])
      BY <1>1, <2>1, <2>3, <3>1, <1>3, EntriesFinite, InheritSound DEF PlusHeld
    <3>4. PICK ref \in Refs : ref = Reference(p.d, n) /\ ref[1] = n
      BY <1>1, <3>3, ReferenceIs
    <3>5. PICK y : y = [ref |-> ref, acts |-> Acts]
      OBVIOUS
    <3>6. y \in Held1 /\ y.ref[1] = n /\ y.acts = Acts
      BY <3>4, <3>5 DEF Held1, Acts
    <3>7. PICK g : g = Take(p.b, y, k, n)
      OBVIOUS
    <3>11. \A i \in 0 .. JftMinimum - 1 : i # k => g.child[i] = p.b.child[i]
      BY <1>1, <3>6, <3>7, GrowIs
    <3> QED
      BY <2>1, <3>3, <1>1, <3>4, <3>5, <3>7, <3>1, <3>6, TookHeld, <3>11, Numbers
      DEF Took, PrepRecord
  <2> QED
    BY <2>2, <2>3
<1> QED
  BY <1>2, <1>3, <1>1, SftSteps, <1>6 DEF Preparing

BatchStates == {"FREE", "PREPARING", "PREPARED", "COMMITTED", "ABORTED", "POISONED"}

(* A batch with nothing in it, and one in another state *)
LEMMA BatchInTyped ==
  ASSUME NEW st \in BatchStates
  PROVE  /\ BatchIn(st) \in BatchRecord /\ BatchIn(st).state = st
         /\ BatchIn(st).entries = <<>> /\ Len(BatchIn(st).entries) = 0
         /\ \A j \in 0 .. JftMinimum - 1 : BatchIn(st).child[j] = UNUSED
         /\ \A b \in BatchSlot : /\ [b EXCEPT !.state = st] \in BatchSlot
                                 /\ [b EXCEPT !.state = st].state = st
                                 /\ [b EXCEPT !.state = st].entries = b.entries
                                 /\ [b EXCEPT !.state = st].child = b.child
<1>1. <<>> \in Seq([ref : Sfns \X (0 .. SftGenerationMax),
                    acts : SUBSET {"DEVICE_OPEN", "REFERENCE_ACQUIRED"}])
      /\ Len(<<>>) = 0
  OBVIOUS
<1>3. /\ BatchIn(st) \in BatchSlot /\ BatchIn(st).state = st
      /\ BatchIn(st).entries = <<>>
      /\ BatchIn(st).child = [j \in 0 .. JftMinimum - 1 |-> UNUSED]
  BY <1>1 DEF BatchIn, BatchSlot, BatchStates, Entry
<1>4. \A b \in BatchSlot : /\ [b EXCEPT !.state = st] \in BatchSlot
                           /\ [b EXCEPT !.state = st].state = st
                           /\ [b EXCEPT !.state = st].entries = b.entries
                           /\ [b EXCEPT !.state = st].child = b.child
  BY DEF BatchSlot, BatchStates
<1> QED
  BY <1>1, <1>3, <1>4, Numbers DEF BatchRecord

(* What an operation on the first batch leaves alone *)
BatchStep(d, e) ==
  /\ e \in Domain /\ SameMemory(d, e) /\ SameRuntime(d, e)
  /\ e.leases = d.leases /\ e.sessions = d.sessions
  /\ e.poison = d.poison /\ d.faults <= e.faults
  /\ \A k \in Batches \ {1} : e.batches[k] = d.batches[k]

(* The files change, and then the batch. *)
LEMMA BatchAfter ==
  ASSUME NEW d \in Domain, NEW x, SftStep(d, x), NEW b \in BatchRecord,
         NEW e, e = SetBatch(x, 1, b)
  PROVE  BatchStep(d, e) /\ e.batches[1] = b /\ SameFiles(x, e)
<1> QED
  BY SetBatchIs DEF BatchStep, SameExec, SameMemory, SameRuntime, SameHealth, SftStep

(* fail_prepare *)
LEMMA FailPrepareIs ==
  ASSUME NEW d \in Domain, NEW x, SftStep(d, x), NEW b \in BatchSlot,
         Len(b.entries) <= JftMinimum, NEW r \in FailPrepare(x, 1, b)
  PROVE  BatchStep(d, r.d) /\ r.st \in {"ADAPTER_FAULT", "POISONED"}
<1>2. PICK q \in Unwind(x, b.entries) :
          r = IF q.st = "OK"
                THEN Result(SetBatch(q.d, 1, BatchIn("FREE")), "ADAPTER_FAULT")
                ELSE Result(SetBatch(q.d, 1, [b EXCEPT !.state = "POISONED"]), "POISONED")
  BY DEF FailPrepare
<1>3. PICK a \in [Sfns -> Nat] : a = [n \in Sfns |-> 0]
  OBVIOUS
<1>5. SftStep(d, q.d)
  BY <1>2, <1>3, UnwindKept, SftSteps DEF SftStep, BatchSlot, Held1, Refs
<1>8. PICK f, g : f = BatchIn("FREE") /\ g = [b EXCEPT !.state = "POISONED"]
  OBVIOUS
<1> QED
  BY <1>2, <1>8, <1>5, BatchInTyped, BatchAfter DEF Result, BatchStates, BatchRecord

(* A child under construction holds what the books count for it. *)
LEMMA BooksWithBatch ==
  ASSUME NEW d \in Domain, NEW e, BatchStep(d, e), NEW c, c = Counts(d),
         \A k \in Batches \ {1} : d.batches[k].state = "FREE",
         d.batches[1].state # "PREPARED", e.batches[1].state = "PREPARED",
         TablesHeld(d), Ledger(e, PlusHeld(c, e.batches[1]))
  PROVE  Books(e)
<1>1. e \in Domain /\ e.arena = d.arena /\ e.psps = d.psps /\ e.tables = d.tables
  BY DEF BatchStep, SameMemory
<1>2. LiveOf(e) = LiveOf(d)
  BY <1>1 DEF LiveOf
<1>4. \A n : Names(e, n) = Names(d, n)
  BY <1>1, <1>2 DEF Names, EntryAt, JftIndices
<1>6. ASSUME NEW n \in Sfns
      PROVE  Counts(e)[n] = c[n] + Cardinality(EntriesOf(e.batches[1], n))
  BY <1>1, HeldIs, NamesFinite, <1>4, CountsTyped DEF BatchStep
<1> QED
  BY <1>1, <1>2, <1>6 DEF Books, Counts, PlusHeld, TablesHeld

(* dos_sft_batch_prepare *)
LEMMA PrepareKept ==
  ASSUME NEW d \in Domain, NEW t \in [0 .. JftMinimum - 1 -> Entry],
         NEW r \in PrepareBatch(d, 1, t)
  PROVE  /\ BatchStep(d, r.d) /\ r.st \in {"OK", "ADAPTER_FAULT", "POISONED"}
         /\ r.st = "OK" => r.d.batches[1].state = "PREPARED"
         /\ Books(d) /\ d.batches[1].state # "PREPARED"
              /\ (\A k \in Batches \ {1} : d.batches[k].state = "FREE") =>
              r.st = "OK" /\ Books(r.d) /\ BatchHeld(r.d.batches[1])
<1>1. PICK s : s = [d |-> d, b |-> BatchIn("PREPARING"), st |-> "OK"]
  OBVIOUS
<1>2. PICK m \in Nat \ {0} : m = JftMinimum
  BY Numbers
<1>3. PICK l :
        /\ Loop("inherit", t, s, m, l)
        /\ PrepareBatch(d, 1, t) =
             IF l[m].st = "OK"
               THEN {Result(SetBatch(l[m].d, 1, [l[m].b EXCEPT !.state = "PREPARED"]),
                            "OK")}
               ELSE FailPrepare(l[m].d, 1, l[m].b)
  BY <1>1, <1>2, PrepareIs
<1>4. PICK c \in [Sfns -> Nat] : c = Counts(d)
  BY CountsTyped
<1> DEFINE S == {k \in Nat : k <= m => Preparing(d, c, k, l[k])}
<1>5. 0 \in S
  <2>2. PICK b : b = BatchIn("PREPARING")
    OBVIOUS
  <2>3. /\ b \in BatchSlot /\ b.state = "PREPARING" /\ b.entries = <<>>
        /\ Len(b.entries) = 0 /\ \A j \in 0 .. JftMinimum - 1 : b.child[j] = UNUSED
    BY <2>2, BatchInTyped DEF BatchStates, BatchRecord
  <2>5. \A n : EntriesOf(b, n) = {}
    BY <2>3 DEF EntriesOf
  <2>6. \A n \in Sfns : ChildOf(b, n) = {}
    BY <2>3, Numbers DEF ChildOf
  <2>7. BatchHeld(b)
    <3>3. \A n \in Sfns : Cardinality(EntriesOf(b, n)) = Cardinality(ChildOf(b, n))
      BY <2>5, <2>6
    <3> QED
      BY <2>3, <3>3 DEF BatchHeld, FullyHeld
  <2>8. PlusHeld(c, b) = c
    <3>1. \A n \in Sfns : c[n] + Cardinality(EntriesOf(b, n)) = c[n]
      <4> TAKE n \in Sfns
      <4>2. c[n] \in Nat /\ EntriesOf(b, n) = {}
        BY <1>4, <2>5
      <4> QED
        BY FS_EmptySet, <4>2
    <3> QED
      BY <3>1 DEF PlusHeld
  <2> QED
    BY <1>3, <2>3, <1>1, <2>2, <2>7, <2>8, SftStays DEF Loop, Preparing, PrepRecord
<1>6. ASSUME NEW k \in 0 .. m, k \in S, k < m
      PROVE  k + 1 \in S
  <2>1. k + 1 \in 0 .. m /\ k + 1 # 0 /\ (k + 1) - 1 = k /\ k \in 0 .. JftMinimum - 1
    BY <1>2, <1>6
  <2>3. l[k + 1] = InheritEntry(l[k], t[k], k)
    BY <2>1, <1>3 DEF Turn, Loop
  <2> QED
    BY <2>1, <2>3, <1>6, PreparingStep
<1>7. 0 .. m \subseteq S
  <2> HIDE DEF S
  <2> QED
    BY <1>5, <1>6, UpTo
<1>8. Preparing(d, c, m, l[m])
  BY <1>7
<1>9. PICK p, x, b : p = l[m] /\ x = p.d /\ b = p.b
  OBVIOUS
<1>10. /\ p \in PrepRecord /\ SftStep(d, x) /\ b \in BatchSlot /\ Len(b.entries) <= JftMinimum
  BY <1>2, <1>8, <1>9 DEF Preparing, PrepRecord
<1>11. CASE p.st = "OK"
  <2>1. PICK g : g = [b EXCEPT !.state = "PREPARED"]
    OBVIOUS
  <2>2. /\ g \in BatchRecord /\ g.state = "PREPARED" /\ g.entries = b.entries
        /\ g.child = b.child
    BY <1>10, <2>1, BatchInTyped DEF BatchStates, BatchRecord
  <2>3. PICK e : e = SetBatch(x, 1, g)
    OBVIOUS
  <2>4. r = Result(e, "OK")
    BY <1>3, <1>9, <1>11, <2>1, <2>3
  <2>5. BatchStep(d, e) /\ e.batches[1] = g /\ SameFiles(x, e)
    BY <1>10, <2>2, <2>3, BatchAfter
  <2>6. ASSUME Books(d), d.batches[1].state # "PREPARED",
               \A k \in Batches \ {1} : d.batches[k].state = "FREE"
        PROVE  Books(e) /\ BatchHeld(g)
    <3>1. Ledger(d, c) /\ TablesHeld(d)
      BY <1>4, <2>6 DEF Books
    <3>2. Ledger(x, PlusHeld(c, b)) /\ BatchHeld(b)
      BY <1>8, <1>9, <3>1 DEF Preparing
    <3>3. BatchHeld(g) /\ PlusHeld(c, g) = PlusHeld(c, b)
      BY <2>2, <3>2 DEF BatchHeld, FullyHeld, EntriesOf, ChildOf, PlusHeld
    <3> QED
      BY <3>3, <1>4, <2>2, <2>5, <2>6, <3>1, <3>2, <1>10, LedgerFiles, BooksWithBatch
      DEF BatchStep, SftStep, SameExec
  <2> QED
    BY <2>2, <2>4, <2>5, <2>6 DEF Result
<1>12. CASE p.st # "OK"
  BY <1>3, <1>9, <1>12, <1>10, FailPrepareIs, <1>4, <1>8 DEF Books, Preparing
<1> QED
  BY <1>11, <1>12

-----------------------------------------------------------------------------
(* An EXEC is taken back.                                                  *)

(* A batch that is given back gives back what it holds. *)
LEMMA Shifted ==
  ASSUME NEW b, NEW m \in Nat, m = Len(b.entries), NEW n
  PROVE  Cardinality(Upto(RefsOf(b.entries), m, n)) = Cardinality(EntriesOf(b, n))
<1>1. PICK U, T : U = Upto(RefsOf(b.entries), m, n) /\ T = EntriesOf(b, n)
  OBVIOUS
<1>2. \A i \in 0 .. m - 1 : i \in U <=> i + 1 \in T
  BY <1>1 DEF Upto, RefsOf, EntriesOf
<1>3. U \subseteq 0 .. m - 1 /\ T \subseteq 1 .. m
  BY <1>1 DEF Upto, EntriesOf
<1>4. PICK f : f = [i \in U |-> i + 1]
  OBVIOUS
<1>7. \A k \in T : \E i \in U : f[i] = k
  <2> TAKE k \in T
  <2> QED
    BY <1>2, <1>4, <1>3
<1>8. f \in Bijection(U, T)
  BY <1>2, <1>3, <1>4, <1>7 DEF Bijection, Injection, Surjection, IsInjective
<1> QED
  BY <1>1, <1>8, UptoFinite, FS_Bijection DEF ExistsBijection

(* The books, once the references of a batch are given back *)
LEMMA UnwoundBooks ==
  ASSUME NEW d \in Domain, Books(d), d.batches[1].state = "PREPARED",
         \A k \in Batches \ {1} : d.batches[k].state = "FREE",
         FullyHeld(d.batches[1]), NEW q \in Unwind(d, d.batches[1].entries),
         q.st = "OK", NEW e, BatchStep(d, e), SameFiles(q.d, e),
         e.batches[1].state = "FREE"
  PROVE  Books(e)
<1>1. PICK b : b = d.batches[1]
  OBVIOUS
<1>2. PICK m \in Nat : m = Len(b.entries)
  BY <1>1, BatchTyped
<1>3. \A n \in Sfns : Cardinality(Names(d, n)) \in Nat
  BY NamesFinite
<1>4. PICK a \in [Sfns -> Nat] : a = [n \in Sfns |-> Cardinality(Names(d, n))]
  BY <1>3
<1>5. \A n \in Sfns : Counts(d)[n] = a[n] + Cardinality(Upto(RefsOf(b.entries), m, n))
  <2> TAKE n \in Sfns
  <2>1. Held(d, n) = Cardinality(EntriesOf(b, n))
    BY <1>1, HeldIs
  <2> QED
    BY <1>4, <2>1, <1>2, Shifted, CountsTyped
<1>7. Ledger(d, Plus(a, RefsOf(b.entries), m)) /\ TablesHeld(d)
  BY <1>5, CountsTyped DEF Books, Plus
<1>10. SftStep(d, q.d) /\ Ledger(q.d, a)
  BY <1>1, <1>2, <1>7, BatchTyped, UnwindKept DEF FullyHeld
<1>11. e \in Domain /\ e.arena = d.arena /\ e.psps = d.psps /\ e.tables = d.tables
       /\ e.leases = d.leases
  BY DEF BatchStep, SameMemory
<1>12. LiveOf(e) = LiveOf(d)
  BY <1>11 DEF LiveOf
<1>14. \A n : Names(e, n) = Names(d, n)
  BY <1>11, <1>12 DEF Names, EntryAt, JftIndices
<1> QED
  BY <1>7, <1>11, <1>12, <1>4, <1>3, <1>14, HeldIs, CountsTyped, <1>10, LedgerFiles
  DEF Books, TablesHeld, SftStep, SameExec, BatchStep

(* What giving back the inheritance leaves alone *)
Undone(d, e) ==
  /\ e \in Domain /\ SameMemory(d, e) /\ SameRuntime(d, e)
  /\ e.leases = d.leases /\ e.sessions = d.sessions /\ Later(d, e)
  /\ \A k \in Batches \ {1} : e.batches[k] = d.batches[k]

(* Doing nothing leaves everything alone. *)
LEMMA UndoneStays ==
  ASSUME NEW d \in Domain
  PROVE  Undone(d, d)
BY Parts DEF Undone, SameMemory, SameRuntime, Later

(* dos_sft_batch_abort and _retire *)
LEMMA AbortInheritanceIs ==
  ASSUME NEW d \in Domain, NEW r \in AbortInheritance(d)
  PROVE  /\ Undone(d, r.d) /\ r.st \in {"OK", "FAULT"}
         /\ r.st # "OK" => r.d.poison # {} \/ d.batches[1].state = "POISONED"
         /\ r.st = "OK" /\ Books(d)
              /\ d.batches[1].state \in {"FREE", "PREPARED"}
              /\ (d.batches[1].state = "PREPARED" => FullyHeld(d.batches[1]))
              /\ (\A k \in Batches \ {1} : d.batches[k].state = "FREE") =>
              Books(r.d) /\ r.d.batches[1].state = "FREE"
<1>1. CASE d.batches[1].state = "PREPARED"
  <2>1. PICK b : b = d.batches[1]
    OBVIOUS
  <2>2. b \in BatchSlot /\ Len(b.entries) <= JftMinimum /\ b.entries \in Seq(Held1)
    BY <2>1, BatchTyped
  <2>3. PICK v \in AbortBatch(d, 1) :
          r = IF v.st = "OK" THEN Result(RetireBatch(v.d, 1), "OK")
                             ELSE Result(PoisonArena(v.d), "FAULT")
    BY <1>1 DEF AbortInheritance
  <2>4. PICK q \in Unwind(d, b.entries) :
          v = Result([q.d EXCEPT !.batches[1].state =
                        IF q.st = "OK" THEN "ABORTED" ELSE "POISONED"], q.st)
    BY <2>1, <2>3 DEF AbortBatch
  <2>5. PICK st \in BatchStates : st = IF q.st = "OK" THEN "ABORTED" ELSE "POISONED"
    BY DEF BatchStates
  <2>6. PICK a \in [Sfns -> Nat] : a = [n \in Sfns |-> 0]
    OBVIOUS
  <2>7. SftStep(d, q.d)
    BY <2>2, <2>6, UnwindKept
  <2>9. PICK g : g = [b EXCEPT !.state = st]
    OBVIOUS
  <2>10. g \in BatchRecord /\ g.state = st
    BY <2>2, <2>5, <2>9, BatchInTyped, ZenonT(60) DEF BatchRecord
  <2>13. PICK x : x = SetBatch(q.d, 1, g)
    OBVIOUS
  <2>14. v.d = x /\ v.st = q.st
    BY <2>4, <2>5, <2>1, <2>7, <2>9, Parts, <2>13
    DEF Result, SetBatch, Domain, BatchTable, SftStep, SameExec
  <2>15. BatchStep(d, x) /\ x.batches[1] = g /\ SameFiles(q.d, x)
    BY <2>7, <2>10, <2>13, BatchAfter
  <2>16. x \in Domain /\ Undone(d, x)
    BY <2>15 DEF BatchStep, Undone, Later
  <2>17. CASE q.st = "OK"
    <3>1. PICK f : f = BatchIn("FREE")
      OBVIOUS
    <3>2. f \in BatchRecord /\ f.state = "FREE"
      BY <3>1, BatchInTyped DEF BatchStates
    <3>3. PICK e : e = SetBatch(x, 1, f)
      OBVIOUS
    <3>5. /\ e \in Domain /\ SameFiles(x, e) /\ SameMemory(x, e)
          /\ SameRuntime(x, e) /\ SameHealth(x, e)
          /\ e.leases = x.leases /\ e.sessions = x.sessions
          /\ e.batches[1] = f /\ \A k \in Batches \ {1} : e.batches[k] = x.batches[k]
      BY <2>16, <3>2, <3>3, SetBatchIs
    <3>6. BatchStep(d, e) /\ SameFiles(q.d, e)
      BY <2>15, <3>5 DEF BatchStep, SameFiles, SameMemory, SameRuntime, SameHealth
    <3>8. ASSUME Books(d), FullyHeld(d.batches[1]),
                 \A k \in Batches \ {1} : d.batches[k].state = "FREE"
          PROVE  Books(e)
      BY <1>1, <2>1, <2>17, <3>2, <3>5, <3>6, <3>8, UnwoundBooks
    <3> QED
      BY <1>1, <3>2, <2>3, <2>14, <2>17, <3>1, <3>3, <3>5, <3>6, <3>8
      DEF Result, RetireBatch, BatchStep, Undone, Later
  <2>18. CASE q.st # "OK"
    BY <2>3, <2>14, <2>18, <2>16, PoisonArenaIs, Parts
    DEF HandleStep, Poisons, Undone, SameExec, SameMemory, SameRuntime, Later, Result
  <2> QED
    BY <2>17, <2>18
<1>2. CASE d.batches[1].state # "PREPARED"
  BY <1>2, UndoneStays DEF AbortInheritance, Result
<1> QED
  BY <1>1, <1>2

(* The block of a child that does not live yet is freed. *)
LEMMA TargetFreed ==
  ASSUME NEW d \in Domain, Books(d), NEW c \in Psps, d.arena[c] # c,
         NEW e, e = Freed(d, c)
  PROVE  Books(e) /\ LiveOf(e) = LiveOf(d)
<1>1. c \in Blocks /\ Psps \subseteq Blocks /\ Tables \subseteq Blocks
      /\ Psps \cap Tables = {} /\ NoOwner \notin Psps
  BY Numbers
<1>2. /\ e \in Domain /\ SameFiles(d, e) /\ SameExec(d, e)
      /\ e.arena = [d.arena EXCEPT ![c] = NoOwner]
      /\ \A b \in Tables : e.arena[b] # NoOwner => e.tables[b] = d.tables[b]
      /\ \A p \in Psps : e.arena[p] # NoOwner => e.psps[p] = d.psps[p]
  BY <1>1, FreedIs
<1>4. \A b \in Blocks : e.arena[b] = IF b = c THEN NoOwner ELSE d.arena[b]
  BY <1>2, Parts DEF Arena
<1>5. LiveOf(e) = LiveOf(d)
  BY <1>1, <1>4 DEF LiveOf
<1>6. \A p \in LiveOf(d) : p \in Psps /\ p # c /\ d.arena[p] = p /\ e.arena[p] = p
  BY <1>1, <1>4 DEF LiveOf
<1>7. \A p \in LiveOf(d) : e.psps[p] = d.psps[p]
  BY <1>1, <1>2, <1>6
<1>8. TablesHeld(d)
  BY DEF Books
<1>9. ASSUME NEW p \in LiveOf(d), NEW j \in 0 .. JftMaximum - 1, NEW n \in Sfns
      PROVE  Sees(e, p, j, n) <=> Sees(d, p, j, n)
  <2>1. JftIndices(e, p) = JftIndices(d, p)
    BY <1>7 DEF JftIndices
  <2>2. CASE d.psps[p].table = Inline
    BY <1>7, <2>1, <2>2 DEF Sees, EntryAt
  <2>3. CASE d.psps[p].table # Inline
    <3>1. PICK t \in Tables : t = d.psps[p].table
      BY <1>6, <2>3, PspTyped
    <3> QED
      BY <1>7, <2>1, <3>1, <1>2, <1>1, <1>4, <1>6, <1>8 DEF Sees, EntryAt, TablesHeld
  <2> QED
    BY <2>2, <2>3
<1>11. TablesHeld(e)
  BY <1>4, <1>5, <1>8, <1>1, <1>7 DEF TablesHeld
<1> QED
  BY <1>2, <1>5, <1>9, CountsSame, <1>11, BooksMoved DEF SameExec

(* What freeing the block of the child leaves alone *)
Cleared(d, e) ==
  /\ e \in Domain /\ SameExec(d, e) /\ SameRuntime(d, e) /\ Later(d, e)
  /\ Books(d) /\ e.poison = {} =>
       /\ Books(e) /\ LiveOf(e) = LiveOf(d)
       /\ \A p \in LiveOf(d) : e.psps[p].parent = d.psps[p].parent
                               /\ e.psps[p].vectors = d.psps[p].vectors

(* dos_memory_free_owned_checked for the block of the child *)
LEMMA FreeTargetIs ==
  ASSUME NEW d \in Domain, NEW c \in Psps, d.poison = {} => d.arena[c] # c,
         NEW w, NEW r \in FreeOwned(d, c, w)
  PROVE  /\ Cleared(d, r.d)
         /\ r.st = "OK" /\ d.arena[c] # c => r.d.arena[c] # c
<1>1. c \in Blocks /\ NoOwner \notin Psps
  BY Numbers
<1>2. /\ r.st \in {"OK", "INVALID_STATE", "FAULT", "POISONED"}
      /\ r.st = "OK" => r.d = Freed(d, c) /\ d.arena[c] = w
      /\ r.st = "INVALID_STATE" => r.d = d /\ d.arena[c] # w
      /\ r.st = "FAULT" => CanFail(d) /\ r.d = Faulty(d)
      /\ r.st = "POISONED" => HandleStep(d, r.d) /\ r.d.poison # {}
  BY <1>1, FreeOwnedIs
<1>3. d.faults \in Nat /\ d.arena \in Arena
  BY Parts
<1>4. CASE r.st = "OK"
  <2>1. PICK e : e = Freed(d, c)
    OBVIOUS
  <2>2. /\ e \in Domain /\ SameFiles(d, e) /\ SameExec(d, e) /\ SameRuntime(d, e)
        /\ SameHealth(d, e) /\ e.arena = [d.arena EXCEPT ![c] = NoOwner]
        /\ \A p \in Psps : e.arena[p] # NoOwner => e.psps[p] = d.psps[p]
    BY <1>1, <2>1, FreedIs
  <2>5. ASSUME Books(d), e.poison = {}
        PROVE  /\ Books(e) /\ LiveOf(e) = LiveOf(d)
               /\ \A p \in LiveOf(d) : e.psps[p].parent = d.psps[p].parent
                                       /\ e.psps[p].vectors = d.psps[p].vectors
    BY <2>2, <2>5, <2>1, TargetFreed, <1>1 DEF SameHealth, LiveOf
  <2> QED
    BY <1>1, <1>2, <1>4, <2>1, <2>2, <1>3, <2>5 DEF Cleared, Arena, SameHealth, Later
<1>5. CASE r.st = "INVALID_STATE"
  BY <1>2, <1>3, <1>5 DEF Cleared, SameExec, SameRuntime, Later
<1>6. CASE r.st = "FAULT"
  BY <1>2, <1>6, FaultyKept DEF SftStep, Later, LiveOf, SameMemory, Kept, Cleared
<1>7. CASE r.st = "POISONED"
  BY <1>2, <1>7 DEF Cleared, HandleStep
<1> QED
  BY <1>2, <1>4, <1>5, <1>6, <1>7

(* A lease that was read and is retired *)
LEMMA AbortLeaseIs ==
  ASSUME NEW d \in Domain, NEW r \in AbortLease(d)
  PROVE  /\ LeaseStep(d, r.d) /\ r.st \in {"OK", "RETAINED"}
         /\ r.st = "OK" => r.d.leases[1] = VacantLease
<1>1. PICK q \in FinishLease(d, 1) :
        r = IF q.st = "OK" THEN Result(RetireLease(q.d, 1), "OK") ELSE q
  BY DEF AbortLease
<1>2. /\ LeaseStep(d, q.d) /\ q.st \in {"OK", "RETAINED"}
      /\ q.st = "OK" => q.d.leases[1].state \notin Finishable
  BY <1>1, FinishIs
<1>3. CASE q.st = "OK"
  BY <1>2, <1>3, RetireIs, Parts, <1>1 DEF LeaseStep, SameMemory, SameRuntime, Result
<1> QED
  BY <1>1, <1>2, <1>3

(* The session of the aborted EXEC *)
LEMMA AbortSessionIs ==
  ASSUME NEW d \in Domain, exec.session \in Sessions \cup {None},
         NEW r \in AbortSession(d)
  PROVE  /\ SessionStep(d, r.d, exec.session) /\ r.st \in {"OK", "BACKEND_POISONED"}
         /\ r.st = "OK" /\ exec.session # None => r.d.sessions[exec.session] = "VACANT"
         /\ r.st = "OK" => SameHealth(d, r.d)
         /\ r.st # "OK" => r.d.poison # {}
<1>1. CASE exec.session = None
  BY <1>1, SessionStays DEF AbortSession, SameHealth, Result
<1>2. CASE exec.session # None
  <2>1. PICK s \in Sessions : s = exec.session
    BY <1>2
  <2>2. PICK q \in StopSession(d, s) :
          r = IF q.st = "OK" THEN Result(RetireSession(q.d, s), "OK")
                             ELSE Result(q.d, "BACKEND_POISONED")
    BY <1>2, <2>1 DEF AbortSession
  <2>3. /\ SessionStep(d, q.d, s) /\ q.st \in {"OK", "POISONED"}
        /\ q.st = "OK" => SameHealth(d, q.d)
        /\ q.st = "POISONED" => q.d.poison # {}
    BY <2>2, StopIs
  <2>4. CASE q.st = "OK"
    <3>1. PICK e : e = SetSession(q.d, s, "VACANT")
      OBVIOUS
    <3>2. q.d \in Domain /\ "VACANT" \in SessionState
      BY <2>3 DEF SessionStep, SessionState
    <3> QED
      BY <2>1, <2>2, <2>3, <2>4, <3>1, <3>2, SetSessionIs, SessionSteps
      DEF Result, RetireSession, SameHealth
  <2>5. CASE q.st # "OK"
    BY <2>1, <2>2, <2>3, <2>5 DEF Result
  <2> QED
    BY <2>4, <2>5
<1> QED
  BY <1>1, <1>2

(* What dos_exec_transaction_abort leaves alone, and what it leaves *)
Gone(d, e) ==
  /\ e \in Domain /\ SameRuntime(d, e) /\ Later(d, e)
  /\ \A k \in FileLeases \ {1} : e.leases[k] = d.leases[k]
  /\ \A k \in Batches \ {1} : e.batches[k] = d.batches[k]
  /\ \A s \in Sessions \ {exec.session} : e.sessions[s] = d.sessions[s]

Back(d, e) ==
  /\ Books(e) /\ LiveOf(e) = LiveOf(d) /\ e.batches[1].state = "FREE"
  /\ \A p \in LiveOf(d) : e.psps[p].parent = d.psps[p].parent
                          /\ e.psps[p].vectors = d.psps[p].vectors

(* Its steps, one after the other *)
LEMMA AbortedForm ==
  ASSUME NEW d, NEW r \in Aborted(d)
  PROVE  \E s \in AbortSession(d) : \E a \in AbortInheritance(s.d) :
           \/ a.st # "OK" /\ r = a
           \/ /\ a.st = "OK"
              /\ \E t \in AbortTarget(a.d) :
                   \/ t.st # "OK" /\ r = t
                   \/ /\ t.st = "OK"
                      /\ \E l \in AbortLease(t.d) :
                           r = IF l.st = "OK" THEN Result(l.d, s.st) ELSE l
<1>1. PICK s \in AbortSession(d) :
        r \in {IF q.st = "OK" THEN Result(q.d, s.st) ELSE q
                 : q \in AndThen(AndThen(AbortInheritance(s.d), AbortTarget), AbortLease)}
  BY DEF Aborted
<1>2. PICK q \in AndThen(AndThen(AbortInheritance(s.d), AbortTarget), AbortLease) :
        r = IF q.st = "OK" THEN Result(q.d, s.st) ELSE q
  BY <1>1
<1>3. PICK t \in AndThen(AbortInheritance(s.d), AbortTarget) :
        q \in IF t.st = "OK" THEN AbortLease(t.d) ELSE {t}
  BY <1>2 DEF AndThen
<1>4. PICK a \in AbortInheritance(s.d) :
        t \in IF a.st = "OK" THEN AbortTarget(a.d) ELSE {a}
  BY <1>3 DEF AndThen
<1>5. CASE a.st # "OK"
  BY <1>2, <1>3, <1>4, <1>5
<1>6. CASE a.st = "OK"
  BY <1>2, <1>3, <1>4, <1>6
<1> QED
  BY <1>5, <1>6

(* The block of the child is freed, when there is one. *)
LEMMA AbortTargetIs ==
  ASSUME NEW d \in Domain, exec \in ExecRecord,
         d.poison = {} /\ exec.child # None => d.arena[exec.child] # exec.child,
         NEW r \in AbortTarget(d)
  PROVE  /\ Cleared(d, r.d) /\ r.st \in {"OK", "INVALID_STATE", "FAULT", "POISONED"}
<1>1. CASE exec.child = None
  BY <1>1, Parts DEF AbortTarget, Cleared, SameExec, SameRuntime, Later, Result
<1>2. CASE exec.child # None
  BY <1>2, Numbers, FreeTargetIs, FreeOwnedIs DEF ExecRecord, AbortTarget
<1> QED
  BY <1>1, <1>2

(* dos_exec_transaction_abort *)
LEMMA AbortedIs ==
  ASSUME NEW d \in Domain, exec \in ExecRecord, exec.at = "abort",
         \A k \in Batches \ {1} : d.batches[k].state = "FREE",
         d.poison = {} => Books(d) /\ ChildHeld(d, exec),
         NEW r \in Aborted(d)
  PROVE  /\ Gone(d, r.d)
         /\ r.st \in {"OK", "BACKEND_POISONED"} => r.d.leases[1] = VacantLease
         /\ r.st = "OK" /\ exec.session # None => r.d.sessions[exec.session] = "VACANT"
         /\ r.st = "BACKEND_POISONED" => r.d.poison # {}
         /\ r.d.poison = {} => Back(d, r.d)
<1>1. PICK s \in AbortSession(d) : \E a \in AbortInheritance(s.d) :
           \/ a.st # "OK" /\ r = a
           \/ /\ a.st = "OK"
              /\ \E t \in AbortTarget(a.d) :
                   \/ t.st # "OK" /\ r = t
                   \/ /\ t.st = "OK"
                      /\ \E l \in AbortLease(t.d) :
                           r = IF l.st = "OK" THEN Result(l.d, s.st) ELSE l
  BY AbortedForm
<1>1a. PICK a \in AbortInheritance(s.d) :
           \/ a.st # "OK" /\ r = a
           \/ /\ a.st = "OK"
              /\ \E t \in AbortTarget(a.d) :
                   \/ t.st # "OK" /\ r = t
                   \/ /\ t.st = "OK"
                      /\ \E l \in AbortLease(t.d) :
                           r = IF l.st = "OK" THEN Result(l.d, s.st) ELSE l
  BY <1>1
<1>2. PICK x, e : x = s.d /\ e = a.d
  OBVIOUS
<1>3. /\ SessionStep(d, x, exec.session) /\ s.st \in {"OK", "BACKEND_POISONED"}
      /\ s.st = "OK" /\ exec.session # None => x.sessions[exec.session] = "VACANT"
      /\ s.st # "OK" => x.poison # {}
  BY <1>1, <1>2, AbortSessionIs DEF ExecRecord
<1>4. x \in Domain /\ x.batches = d.batches /\ SameMemory(d, x) /\ Later(d, x)
      /\ (Books(d) => Books(x)) /\ x.leases = d.leases /\ SameRuntime(d, x)
  BY <1>3 DEF SessionStep
<1>5. /\ Undone(x, e) /\ a.st \in {"OK", "FAULT"}
      /\ a.st # "OK" => e.poison # {} \/ x.batches[1].state = "POISONED"
      /\ a.st = "OK" /\ Books(x)
           /\ x.batches[1].state \in {"FREE", "PREPARED"}
           /\ (x.batches[1].state = "PREPARED" => FullyHeld(x.batches[1]))
           /\ (\A k \in Batches \ {1} : x.batches[k].state = "FREE") =>
           Books(e) /\ e.batches[1].state = "FREE"
  BY <1>1a, <1>2, <1>4, AbortInheritanceIs
<1>6. e \in Domain /\ SameMemory(x, e) /\ Later(x, e)
  BY <1>5 DEF Undone
<1>7. d.faults \in Nat /\ x.faults \in Nat /\ e.faults \in Nat
  BY <1>4, <1>6, Parts
<1>8. Gone(d, e)
  BY <1>3, <1>4, <1>5, <1>7 DEF Gone, SessionStep, Undone, Later, SameRuntime
<1>9. SameMemory(d, e)
  BY <1>4, <1>6 DEF SameMemory
<1>10. d.poison \subseteq x.poison /\ x.poison \subseteq e.poison
  BY <1>4, <1>6 DEF Later
<1>11. e.poison = {} =>
         /\ a.st = "OK" /\ Books(d) /\ Books(e) /\ e.batches[1].state = "FREE"
         /\ exec.child # None => e.arena[exec.child] # exec.child
  <2> SUFFICES ASSUME e.poison = {}
               PROVE  /\ a.st = "OK" /\ Books(d) /\ Books(e) /\ e.batches[1].state = "FREE"
                      /\ exec.child # None => e.arena[exec.child] # exec.child
    OBVIOUS
  <2> QED
    BY <1>4, <1>5, <1>9, <1>10 DEF SameMemory, ChildHeld, BatchHeld
<1>12. LiveOf(e) = LiveOf(d)
  BY <1>9 DEF SameMemory, LiveOf
<1>13. CASE a.st # "OK"
  BY <1>1a, <1>2, <1>5, <1>8, <1>11, <1>13
<1>14. CASE a.st = "OK"
  <2>1. PICK t \in AbortTarget(e) :
          \/ t.st # "OK" /\ r = t
          \/ /\ t.st = "OK"
             /\ \E l \in AbortLease(t.d) :
                  r = IF l.st = "OK" THEN Result(l.d, s.st) ELSE l
    BY <1>1a, <1>2, <1>14
  <2>2. PICK f : f = t.d
    OBVIOUS
  <2>3. Cleared(e, f) /\ t.st \in {"OK", "INVALID_STATE", "FAULT", "POISONED"}
    BY <1>6, <1>11, <2>1, <2>2, AbortTargetIs
  <2>4. f \in Domain /\ f.faults \in Nat /\ e.poison \subseteq f.poison
    BY <2>3, Parts DEF Cleared, Later
  <2>5. Gone(d, f)
    BY <1>7, <1>8, <2>3, <2>4 DEF Gone, Cleared, Later, SameRuntime, SameExec
  <2>6. f.poison = {} => Back(d, f)
    BY <1>9, <1>11, <1>12, <2>3, <2>4 DEF Cleared, Back, SameExec, SameMemory
  <2>7. CASE t.st # "OK"
    BY <2>1, <2>2, <2>3, <2>5, <2>6, <2>7
  <2>8. CASE t.st = "OK"
    <3>1. PICK l \in AbortLease(f) : r = IF l.st = "OK" THEN Result(l.d, s.st) ELSE l
      BY <2>1, <2>2, <2>8
    <3>2. PICK g : g = l.d
      OBVIOUS
    <3> QED
      BY <1>3, <3>1, <3>2, <2>4, AbortLeaseIs, Parts, <1>7, <2>5, <2>6, <1>5, <2>3,
         <1>10
      DEF Result, LeaseStep, Gone, Later, SameRuntime, SameMemory, LiveOf, Back, Undone,
          Cleared, SameExec
  <2> QED
    BY <2>7, <2>8
<1> QED
  BY <1>13, <1>14

-----------------------------------------------------------------------------
(* The end of a process.                                                   *)

(* dos_memory_free_process_checked *)
LEMMA FreeProcessIs ==
  ASSUME NEW d \in Domain, NEW p \in Psps, NEW r \in FreeProcess(d, p)
  PROVE  /\ r.d \in Domain /\ SameFiles(d, r.d) /\ SameExec(d, r.d)
         /\ SameRuntime(d, r.d) /\ Later(d, r.d)
         /\ r.d.tables = d.tables /\ r.d.psps = d.psps
         /\ r.st = "OK" =>
              /\ SameHealth(d, r.d)
              /\ \A b \in Blocks :
                   r.d.arena[b] = IF d.arena[b] = p THEN NoOwner ELSE d.arena[b]
<1>1. /\ d.faults \in Nat /\ d.arena \in Arena /\ d.tables \in JftTables
      /\ d.psps \in PspTable
  BY Parts
<1>2. CASE r = Result(d, "POISONED")
  BY <1>1, <1>2 DEF Result, SameFiles, SameExec, SameRuntime, Later
<1>3. CASE CanFail(d) /\ r = Result(Faulty(d), "FAULT")
  BY <1>3, FaultyIs, <1>1 DEF Result, Later, SameMemory
<1>4. PICK a \in Arena : a = [b \in Blocks |-> IF d.arena[b] = p THEN NoOwner ELSE d.arena[b]]
  BY <1>1 DEF Arena
<1>4a. PICK t \in JftTables, q \in PspTable : t = d.tables /\ q = d.psps
  BY <1>1
<1>5. PICK e : e = [d EXCEPT !.arena = a, !.tables = t, !.psps = q]
  OBVIOUS
<1>6. /\ e \in Domain /\ e.arena = a /\ e.tables = d.tables /\ e.psps = d.psps
      /\ SameFiles(d, e) /\ SameExec(d, e) /\ SameRuntime(d, e)
      /\ SameHealth(d, e)
  BY <1>4a, <1>1, <1>4, <1>5 DEF Domain, SameExec, SameFiles, SameRuntime, SameHealth
<1>8. CASE r = Result(e, "OK")
  BY <1>1, <1>4, <1>6, <1>8 DEF Result, Later, SameHealth
<1> QED
  BY <1>2, <1>3, <1>8, <1>4, <1>4a, <1>5 DEF FreeProcess, Domain

(* The names that are not those of a process *)
OtherNames(d, p, n) == {x \in Names(d, n) : x[1] # p}
OtherCounts(d, p) == [n \in Sfns |-> Cardinality(OtherNames(d, p, n)) + Held(d, n)]

(* The names of a process are the entries of its table. *)
LEMMA OwnNames ==
  ASSUME NEW d \in Domain, NEW p \in LiveOf(d)
  PROVE  /\ OtherCounts(d, p) \in [Sfns -> Nat]
         /\ Counts(d) = Plus(OtherCounts(d, p), EntriesBelow(d, p), d.psps[p].length)
<1>2. PICK m \in Nat : m = d.psps[p].length /\ m <= JftMaximum
  BY PspTyped, Numbers DEF LiveOf
<1>3. PICK f : f = EntriesBelow(d, p)
  OBVIOUS
<1>4. ASSUME NEW n \in Sfns
      PROVE  /\ Cardinality(OtherNames(d, p, n)) \in Nat
             /\ Cardinality(Names(d, n)) =
                  Cardinality(OtherNames(d, p, n)) + Cardinality(Upto(f, m, n))
  <2>1. PICK U : U = Upto(f, m, n)
    OBVIOUS
  <2>2. IsFiniteSet(U) /\ Cardinality(U) \in Nat
    BY <2>1, UptoFinite
  <2>4. PICK N, O : N = Names(d, n) /\ O = OtherNames(d, p, n)
    OBVIOUS
  <2>6. O = {x \in N : x[1] # p}
    BY <2>4 DEF OtherNames
  <2>7. N = O \cup ({p} \X U) /\ O \cap ({p} \X U) = {}
    BY <1>2, <1>3, <2>1, Numbers, <2>4, NamesAre, <2>6
    DEF Upto, EntriesBelow, Sees, JftIndices
  <2>9. IsFiniteSet(O) /\ Cardinality(O) \in Nat
    BY <2>6, <2>4, NamesFinite, FS_Subset, FS_CardinalityType
  <2>10. IsFiniteSet({p} \X U) /\ Cardinality({p} \X U) = Cardinality(U)
    BY <2>2, Column
  <2>12. Cardinality(O \cap ({p} \X U)) = 0
    BY <2>7, FS_EmptySet
  <2> QED
    BY <2>1, <2>2, <2>4, <2>9, <2>10, <2>7, FS_Union, <2>12
<1>6. \A n \in Sfns : Counts(d)[n] = OtherCounts(d, p)[n] + Cardinality(Upto(f, m, n))
  <2> TAKE n \in Sfns
  <2> QED
    BY <1>4, HeldFinite, UptoFinite, CountsTyped DEF OtherCounts
<1> QED
  BY <1>2, <1>3, <1>4, HeldFinite, <1>6, CountsTyped DEF OtherCounts, Plus

(* The memory of a process is freed and forgotten. *)
Buried(d, e, p) ==
  /\ e.batches = d.batches
  /\ \A b \in Blocks : e.arena[b] = IF d.arena[b] = p THEN NoOwner ELSE d.arena[b]
  /\ \A b \in Tables : e.arena[b] # NoOwner => e.tables[b] = d.tables[b]
  /\ \A q \in Psps : e.arena[q] # NoOwner => e.psps[q] = d.psps[q]

(* Those that are left are the others, and their names stay. *)
LEMMA BuriedBooks ==
  ASSUME NEW d \in Domain, TablesHeld(d), NEW p \in LiveOf(d), NEW e \in Domain,
         Buried(d, e, p)
  PROVE  /\ LiveOf(e) = LiveOf(d) \ {p} /\ TablesHeld(e)
         /\ Counts(e) = OtherCounts(d, p)
<1>1. Psps \subseteq Blocks /\ Tables \subseteq Blocks /\ NoOwner \notin Psps
  BY Numbers
<1>2. LiveOf(e) = LiveOf(d) \ {p}
  BY <1>1 DEF Buried, LiveOf
<1>3. \A q \in LiveOf(e) : q \in Psps /\ q # NoOwner /\ q # p /\ e.arena[q] = q
  BY <1>1, <1>2 DEF LiveOf
<1>4. \A q \in LiveOf(e) : e.psps[q] = d.psps[q]
  BY <1>3 DEF Buried
<1>5. TablesHeld(e)
  BY <1>2, <1>1, <1>3, <1>4 DEF Buried, TablesHeld
<1>6. ASSUME NEW q \in LiveOf(e), NEW j \in 0 .. JftMaximum - 1, NEW n \in Sfns
      PROVE  Sees(e, q, j, n) <=> Sees(d, q, j, n)
  <2>1. JftIndices(e, q) = JftIndices(d, q)
    BY <1>4 DEF JftIndices
  <2>2. CASE d.psps[q].table = Inline
    BY <1>4, <2>1, <2>2 DEF Sees, EntryAt
  <2>3. CASE d.psps[q].table # Inline
    <3>1. PICK t \in Tables : t = d.psps[q].table
      BY <1>3, <2>3, PspTyped
    <3> QED
      BY <1>4, <2>1, <3>1, <1>3, <1>5 DEF Sees, EntryAt, Buried, TablesHeld
  <2> QED
    BY <2>2, <2>3
<1>7. ASSUME NEW n \in Sfns
      PROVE  Names(e, n) = OtherNames(d, p, n)
  BY NamesAre, <1>2, <1>6 DEF OtherNames
<1> QED
  BY <1>2, <1>5, <1>7, HeldSame DEF Counts, OtherCounts, Buried

(* poison_termination_domain *)
LEMMA PoisonDomainIs ==
  ASSUME NEW d \in Domain, NEW e, e = PoisonDomain(d)
  PROVE  /\ e \in Domain /\ SameExec(d, e) /\ e.poison # {} /\ Later(d, e)
<1>1. PICK x \in Poisons : x = {"arena", "runtime"}
  BY DEF Poisons
<1> QED
  BY <1>1, WithPoison, Parts DEF Later, PoisonDomain

(* dos_process_runtime_restore_parent *)
LEMMA RestoreIs ==
  ASSUME NEW d \in Domain, CanAdvance(d), NEW c \in Psps,
         NEW t \in {OwnDta} \cup Psps, NEW e, e = Advance(d, c, t)
  PROVE  /\ e \in Domain /\ SameFiles(d, e) /\ SameMemory(d, e) /\ SameExec(d, e)
         /\ SameHealth(d, e) /\ e.vectors = d.vectors
         /\ e.runtime.generation = d.runtime.generation + 1
         /\ e.runtime.current = c /\ e.runtime.dta = t
<1>1. /\ d.runtime \in Snapshot /\ d.vectors \in Psps
      /\ d.runtime.generation \in 1 .. RuntimeGenerationMax
      /\ RuntimeGenerationMax \in Nat
  BY Parts, RuntimeAssumption DEF Snapshot
<1>2. d.runtime.generation + 1 \in 1 .. RuntimeGenerationMax
  BY <1>1 DEF CanAdvance
<1>3. PICK x \in Snapshot, v \in Psps :
        x = [generation |-> d.runtime.generation + 1, current |-> c, dta |-> t]
        /\ v = d.vectors
  BY <1>1, <1>2 DEF Snapshot
<1>4. e = [d EXCEPT !.runtime = x, !.vectors = v]
  BY <1>3 DEF Advance, Domain
<1>5. /\ e \in Domain /\ e.runtime = x /\ e.vectors = v
      /\ SameFiles(d, e) /\ SameMemory(d, e) /\ SameExec(d, e)
      /\ SameHealth(d, e)
  BY <1>4, WithRuntime
<1> QED
  BY <1>3, <1>5

(* A process that is torn down: its parent's runtime is back. *)
Ended(d, e, saved, p) ==
  /\ e.poison = d.poison /\ e.vectors = d.vectors
  /\ e.runtime.generation = d.runtime.generation + 1
  /\ e.runtime.current = saved.current /\ e.runtime.dta = saved.dta
  /\ Buried(d, e, p)
  /\ Books(d) /\ p \in LiveOf(d) => Books(e)

(* What follows the vectors *)
LEMMA TearDownIs ==
  ASSUME NEW d \in Domain, NEW p \in Psps, NEW saved \in Snapshot,
         NEW r \in TearDown(d, saved, p)
  PROVE  /\ r.d \in Domain /\ SameExec(d, r.d) /\ Later(d, r.d)
         /\ r.st \in {"OK", "POISONED"}
         /\ r.st = "OK" => Ended(d, r.d, saved, p)
         /\ r.st # "OK" => r.d.poison # {}
<1>1. PICK m \in FreeProcess(d, p) :
        r \in IF m.st # "OK" THEN {Result(PoisonDomain(m.d), "POISONED")}
              ELSE {IF c.st = "OK" /\ CanAdvance(c.d)
                      THEN Result(Forget(RestoreParent(c.d, saved)), "OK")
                      ELSE Result(PoisonDomain(c.d), "POISONED")
                      : c \in CloseHandles(m.d, p)}
  BY DEF TearDown
<1>2. PICK x : x = m.d
  OBVIOUS
<1>3. /\ x \in Domain /\ SameFiles(d, x) /\ SameExec(d, x)
      /\ SameRuntime(d, x) /\ Later(d, x)
      /\ x.tables = d.tables /\ x.psps = d.psps
      /\ m.st = "OK" =>
           /\ SameHealth(d, x)
           /\ \A b \in Blocks :
                x.arena[b] = IF d.arena[b] = p THEN NoOwner ELSE d.arena[b]
  BY <1>1, <1>2, FreeProcessIs
<1>4. d.faults \in Nat /\ x.faults \in Nat
  BY <1>3, Parts
<1>5. CASE m.st # "OK"
  BY <1>3, PoisonDomainIs, Parts, <1>1, <1>2, <1>5, <1>4 DEF Result, SameExec, Later
<1>6. CASE m.st = "OK"
  <2>1. PICK c \in CloseHandles(x, p) :
          r = IF c.st = "OK" /\ CanAdvance(c.d)
                THEN Result(Forget(RestoreParent(c.d, saved)), "OK")
                ELSE Result(PoisonDomain(c.d), "POISONED")
    BY <1>1, <1>2, <1>6
  <2>2. PICK y : y = c.d
    OBVIOUS
  <2>3. PICK z \in [Sfns -> Nat] : z = [n \in Sfns |-> 0]
    OBVIOUS
  <2>5. /\ y \in Domain /\ SameExec(x, y) /\ SameMemory(x, y) /\ SameRuntime(x, y)
        /\ y.poison = x.poison /\ x.faults <= y.faults /\ y.faults \in Nat
    BY <1>3, <2>1, <2>2, <2>3, CloseHandlesKept, Parts DEF SftStep
  <2>6. CASE ~(c.st = "OK" /\ CanAdvance(y))
    BY <2>5, PoisonDomainIs, Parts, <2>1, <2>2, <2>6, <1>3, <1>4
    DEF Result, SameExec, Later
  <2>7. CASE c.st = "OK" /\ CanAdvance(y)
    <3>1. PICK v \in Psps, t \in {OwnDta} \cup Psps : v = saved.current /\ t = saved.dta
      BY DEF Snapshot
    <3>2. PICK w, e : w = Advance(y, v, t) /\ e = Forget(w)
      OBVIOUS
    <3>4. /\ w \in Domain /\ SameFiles(y, w) /\ SameMemory(y, w) /\ SameExec(y, w)
          /\ SameHealth(y, w) /\ w.vectors = y.vectors
          /\ w.runtime.generation = y.runtime.generation + 1
          /\ w.runtime.current = v /\ w.runtime.dta = t
      BY <2>5, <2>7, <3>2, RestoreIs
    <3>5. /\ e \in Domain /\ SameFiles(w, e) /\ SameExec(w, e) /\ SameRuntime(w, e)
          /\ SameHealth(w, e) /\ e.arena = w.arena
          /\ \A b \in Tables : w.arena[b] # NoOwner => e.tables[b] = w.tables[b]
          /\ \A q \in Psps : w.arena[q] # NoOwner => e.psps[q] = w.psps[q]
      BY <3>2, <3>4, ForgetIs
    <3>6. Buried(d, e, p)
      BY <1>3, <1>6, <2>5, <3>4, <3>5 DEF Buried, SameExec, SameMemory
    <3>9. ASSUME Books(d), p \in LiveOf(d)
          PROVE  Books(e)
      <4>1. PICK a \in [Sfns -> Nat] : a = OtherCounts(d, p)
        BY <3>9, OwnNames
      <4>2. Counts(d) = Plus(a, EntriesBelow(d, p), d.psps[p].length)
        BY <3>9, <4>1, OwnNames
      <4>4. Ledger(d, Counts(d)) /\ TablesHeld(d)
        BY <3>9 DEF Books
      <4>5. Ledger(x, Counts(d))
        BY <1>3, <4>4, LedgerFiles DEF SameExec
      <4>6. Ledger(y, a)
        BY <1>3, <2>1, <2>2, <2>7, <4>2, <4>5, CloseHandlesKept
        DEF EntriesBelow, EntryAt
      <4> QED
        BY <4>6, <3>4, <3>5, LedgerFiles, <3>6, <3>9, <4>1, <4>4, BuriedBooks
        DEF Books, SameFiles, SameExec
    <3> QED
      BY <2>1, <2>2, <2>7, <3>1, <3>2, <3>5, <1>3, <1>6, <2>5, <3>4, <3>6, <3>9, <1>4
      DEF Result, RestoreParent, Ended, SameRuntime, Later, SameExec, SameHealth
  <2> QED
    BY <2>6, <2>7
<1> QED
  BY <1>5, <1>6

(* dos_termination_execute *)
LEMMA TerminateIs ==
  ASSUME NEW d \in Domain, NEW p \in Psps, NEW saved \in Snapshot,
         NEW r \in Terminate(d, saved, p)
  PROVE  /\ r.d \in Domain /\ SameExec(d, r.d) /\ Later(d, r.d)
         /\ r.st = "OK" =>
              /\ PlanIsCurrent(d, saved, p) /\ r.d.poison = d.poison
              /\ r.d.vectors = d.psps[p].vectors
              /\ r.d.runtime.generation = d.runtime.generation + 1
              /\ r.d.runtime.current = saved.current /\ r.d.runtime.dta = saved.dta
              /\ Buried(d, r.d, p)
              /\ Books(d) /\ p \in LiveOf(d) => Books(r.d)
         /\ r.st # "OK" =>
              \/ r.d.poison # {}
              \/ r.d = d /\ ~PlanIsCurrent(d, saved, p)
              \/ CanFail(d) /\ r.d = Faulty(d)
<1>1. d.faults \in Nat /\ d.runtime \in Snapshot
  BY Parts
<1>2. SameExec(d, d) /\ Later(d, d)
  BY <1>1 DEF SameExec, Later
<1>3. CASE CanFail(d) /\ r = Result(Faulty(d), "MACHINE_FAULT")
  BY <1>3, FaultyIs, <1>1 DEF Result, Later
<1>4. CASE "runtime" \in d.poison /\ r = Result(d, "RUNTIME_FAULT")
  BY <1>2, <1>4 DEF Result
<1>5. CASE ~PlanIsCurrent(d, saved, p) /\ r = Result(d, "STALE_PLAN")
  BY <1>2, <1>5 DEF Result
<1>6. PICK w \in Psps, x \in Snapshot : w = d.psps[p].vectors /\ x = d.runtime
  BY <1>1, PspTyped
<1>7. PICK e : e = [d EXCEPT !.runtime = x, !.vectors = w]
  OBVIOUS
<1>8. /\ e \in Domain /\ e.runtime = d.runtime /\ e.vectors = w
      /\ SameFiles(d, e) /\ SameMemory(d, e) /\ SameExec(d, e) /\ SameHealth(d, e)
  BY <1>6, <1>7 DEF Domain, SameMemory, SameFiles, SameExec, SameHealth
<1>10. CASE /\ PlanIsCurrent(d, saved, p)
            /\ r \in UNION {CASE v.st = "OK" -> TearDown(v.d, saved, p)
                              [] v.st = "FAULT" -> {Result(v.d, "MACHINE_FAULT")}
                              [] OTHER -> {Result(PoisonDomain(v.d), "POISONED")}
                            : v \in Replace(d, e)}
  <2>1. PICK v \in Replace(d, e) :
          r \in CASE v.st = "OK" -> TearDown(v.d, saved, p)
                  [] v.st = "FAULT" -> {Result(v.d, "MACHINE_FAULT")}
                  [] OTHER -> {Result(PoisonDomain(v.d), "POISONED")}
    BY <1>10
  <2>2. CASE v = Result(e, "OK")
    BY <2>1, <2>2, <1>8, TearDownIs, BooksSame, LedgerFiles, <1>6, <1>10
    DEF Result, SameExec, Later, SameHealth, Ended, Buried, SameMemory, Books, LiveOf
  <2>3. CASE CanFail(d) /\ v = Result(Faulty(d), "FAULT")
    BY <1>3, <2>1, <2>3 DEF Result
  <2>4. CASE /\ CanFail(d)
             /\ v \in {Result(Faulty(d), "ROLLBACK_FAILED"),
                       Result(Faulty(e), "ROLLBACK_FAILED")}
    BY <1>8, <2>4, FaultyIs, PoisonDomainIs, <2>1, Parts, <1>1
    DEF CanFail, SameHealth, SameExec, Result, Later
  <2> QED
    BY <2>2, <2>3, <2>4, <2>1 DEF Replace
<1> QED
  BY <1>3, <1>4, <1>5, <1>10, <1>6, <1>7 DEF Terminate, RestoreVectors, Domain

=============================================================================
